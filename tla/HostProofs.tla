----------------------------- MODULE HostProofs ------------------------------
(***************************************************************************)
(* Four components of the host group, for every value of their constants:  *)
(* the Durable Object (DurableObjects), the HTTP mount with its health and *)
(* ops (AppMount), the state behind the monitor (MonitorView), and call    *)
(* deadlines (Deadlines).  Each has an inductive invariant, first for its  *)
(* own steps and then for the group's, whose variable focus lets one       *)
(* component move at a time.                                               *)
(***************************************************************************)
EXTENDS MCHost, SequenceTheorems, FiniteSetTheorems, TLAPS

-----------------------------------------------------------------------------
(* A Durable Object.  No call of a stateless worker gets into the object,  *)
(* and whoever is in it finds it booting or booted: that is what lets the  *)
(* platform evict it only when nobody waits.                               *)

DoSockets == [pc : {"none", "upgrading", "open", "closed"}, session : BOOLEAN,
              watching : BOOLEAN, shown : Nat, past : BOOLEAN,
              frame : {"none", "sub", "binary"}, late : BOOLEAN]

DoShape ==
  /\ doCalls \in [DoCalls -> [pc : {"idle", "worker", "object", "done"}, ref : Refs]]
  /\ socks \in [DoSocks -> DoSockets]
  /\ misnamed \in BOOLEAN /\ worker \in {"none", "building", "started"}
  /\ object \in {"gone", "none", "booting", "ready"}
  /\ alarm \in {"none", "set", "firing", "handling"}
  /\ doVer \in 0..MaxDoVer

\* What is true of each socket.
DoSockOK(k, v) == k.shown <= v /\ (k.session => k.pc = "open") /\ ~k.late

DoSocketsOK == \A s \in DoSocks : DoSockOK(socks[s], doVer)

NoWorkerInside == \A c \in DoCalls : doCalls[c].pc = "object" => doCalls[c].ref # PoolRef

DoInv == DoShape /\ DoSocketsOK /\ NoWorkerInside /\ WaitersAreServed /\ OneHomePerActor

LEMMA DoInitially == DoInit => DoInv
<1> SUFFICES ASSUME DoInit PROVE DoInv
  OBVIOUS
<1> USE DoAssumption DEF DoInit, NoSock
<1>1. DoShape BY DEF DoShape, DoSockets, Refs
<1>2. DoSocketsOK BY DEF DoSocketsOK, DoSockOK
<1>3. NoWorkerInside BY DEF NoWorkerInside
<1>4. WaitersAreServed BY DEF WaitersAreServed, Waiting, Upgrading
<1>5. OneHomePerActor BY DEF OneHomePerActor
<1> QED BY <1>1, <1>2, <1>3, <1>4, <1>5 DEF DoInv

LEMMA DoStep == DoInv /\ DoNext => DoInv'
<1> SUFFICES ASSUME DoInv, DoNext PROVE DoInv'
  OBVIOUS
<1> USE DoAssumption
<1>0. DoShape /\ DoSocketsOK /\ NoWorkerInside /\ WaitersAreServed /\ OneHomePerActor
  BY DEF DoInv
<1> DEFINE Kept == DoShape' /\ DoSocketsOK' /\ NoWorkerInside' /\ WaitersAreServed' /\ OneHomePerActor'
<1> SUFFICES Kept
  BY DEF DoInv
<1>a. ASSUME NEW c \in DoCalls, WorkerFetch(c) PROVE Kept
  <2> USE <1>0, <1>a DEF WorkerFetch, NoDoFault
  <2>1. DoShape' BY DEF DoShape, Refs
  <2>2. DoSocketsOK' BY DEF DoSocketsOK
  <2>3. NoWorkerInside' BY DEF NoWorkerInside, DoShape
  <2>4. WaitersAreServed' BY DEF WaitersAreServed, Waiting, Upgrading, DoShape
  <2>5. OneHomePerActor' BY DEF OneHomePerActor
  <2> QED BY <2>1, <2>2, <2>3, <2>4, <2>5
<1>b. ASSUME NEW c \in DoCalls, Dispatch(c) PROVE Kept
  <2> USE <1>0, <1>b DEF Dispatch, NoDoFault
  <2>1. DoShape' BY DEF DoShape, Refs, Woken
  <2>2. DoSocketsOK' BY DEF DoSocketsOK
  <2>3. NoWorkerInside' BY DEF NoWorkerInside, DoShape, Route, WorkerName, Refs
  <2>4. WaitersAreServed' BY DEF WaitersAreServed, Waiting, Upgrading, DoShape, Woken
  <2>5. OneHomePerActor' BY DEF OneHomePerActor, Route, WorkerName, Refs, DoShape
  <2> QED BY <2>1, <2>2, <2>3, <2>4, <2>5
<1>c. ASSUME NEW c \in DoCalls, ObjectRuns(c) PROVE Kept
  <2> USE <1>0, <1>c DEF ObjectRuns, NoDoFault
  <2>0. /\ doVer' \in 0..MaxDoVer /\ doVer <= doVer'
        /\ socks' = socks \/ socks' = Pushed(doVer')
    BY DEF DoShape
  <2>1. DoShape'
    <3>1. socks' \in [DoSocks -> DoSockets]
      BY <2>0, SMTT(60) DEF DoShape, Pushed, DoSockets
    <3> QED BY <2>0, <3>1 DEF DoShape, Refs
  <2>2. DoSocketsOK'
    BY <2>0 DEF DoSocketsOK, DoSockOK, Pushed, DoShape, DoSockets
  <2>3. NoWorkerInside' BY DEF NoWorkerInside, DoShape
  <2>4. WaitersAreServed'
    <3>1. \A s \in DoSocks : socks'[s].pc = socks[s].pc
      BY <2>0 DEF Pushed, DoShape, DoSockets
    <3>2. object' = "ready" /\ worker' = worker
          /\ \A d \in DoCalls : doCalls'[d].pc = "worker" => doCalls[d].pc = "worker"
      BY DEF DoShape
    <3> QED BY <3>1, <3>2 DEF WaitersAreServed
  <2>5. OneHomePerActor'
    <3>1. ran' = ran \/ ran' = ran \cup {<<Own, Own>>}
      BY DEF Serves, ObjectName
    <3> QED BY <3>1 DEF OneHomePerActor, Refs
  <2> QED BY <2>1, <2>2, <2>3, <2>4, <2>5
<1>d. ASSUME Build PROVE Kept
  <2> USE <1>0, <1>d DEF Build, AfterFailedBuild
  <2>1. DoShape' BY DEF DoShape
  <2>2. DoSocketsOK' BY DEF DoSocketsOK
  <2>3. NoWorkerInside' BY DEF NoWorkerInside, DoShape
  <2>4. WaitersAreServed' BY DEF WaitersAreServed, Waiting, Upgrading, DoShape
  <2>5. OneHomePerActor' BY DEF OneHomePerActor
  <2> QED BY <2>1, <2>2, <2>3, <2>4, <2>5
<1>e. ASSUME Boot PROVE Kept
  <2> USE <1>0, <1>e DEF Boot
  <2>1. DoShape'
    <3>1. CASE object' = "ready" BY <3>1 DEF DoShape
    <3>2. CASE object' = "none"
      <4>1. NoSock \in DoSockets BY DEF NoSock, DoSockets
      <4>2. socks' \in [DoSocks -> DoSockets] BY <3>2, <4>1 DEF DoShape
      <4>3. doCalls' \in [DoCalls -> [pc : {"idle", "worker", "object", "done"}, ref : Refs]]
        BY <3>2 DEF DoShape
      <4> QED BY <3>2, <4>2, <4>3 DEF DoShape
    <3> QED BY <3>1, <3>2
  <2>2. DoSocketsOK' BY DEF DoSocketsOK, DoSockOK, NoSock, Upgrading, DoShape
  <2>3. NoWorkerInside' BY DEF NoWorkerInside, DoShape, Waiting
  <2>4. WaitersAreServed'
    BY DEF WaitersAreServed, Waiting, Upgrading, DoShape, NoSock
  <2>5. OneHomePerActor' BY DEF OneHomePerActor
  <2> QED BY <2>1, <2>2, <2>3, <2>4, <2>5
<1>f. ASSUME Alarm PROVE Kept
  <2> USE <1>0, <1>f DEF Alarm, NoDoFault
  <2>1. DoShape' BY DEF DoShape, Woken
  <2>2. DoSocketsOK' BY DEF DoSocketsOK
  <2>3. NoWorkerInside' BY DEF NoWorkerInside
  <2>4. WaitersAreServed' BY DEF WaitersAreServed, Waiting, Upgrading, DoShape, Woken
  <2>5. OneHomePerActor' BY DEF OneHomePerActor
  <2> QED BY <2>1, <2>2, <2>3, <2>4, <2>5
<1>g. ASSUME OnAlarm PROVE Kept
  <2> USE <1>0, <1>g DEF OnAlarm, NoDoFault
  <2>0. /\ doVer' \in 0..MaxDoVer /\ doVer <= doVer'
        /\ socks' = socks \/ socks' = Pushed(doVer')
    BY DEF DoShape
  <2>1. DoShape'
    <3>1. socks' \in [DoSocks -> DoSockets]
      BY <2>0, SMTT(60) DEF DoShape, Pushed, DoSockets
    <3> QED BY <2>0, <3>1 DEF DoShape
  <2>2. DoSocketsOK'
    BY <2>0 DEF DoSocketsOK, DoSockOK, Pushed, DoShape, DoSockets
  <2>3. NoWorkerInside' BY DEF NoWorkerInside
  <2>4. WaitersAreServed' BY DEF WaitersAreServed
  <2>5. OneHomePerActor' BY DEF OneHomePerActor, Refs
  <2> QED BY <2>1, <2>2, <2>3, <2>4, <2>5
<1>h. ASSUME Evict PROVE Kept
  <2> USE <1>0, <1>h DEF Evict
  <2>1. DoShape' BY ZenonT(60) DEF DoShape, DoSockets
  <2>2. DoSocketsOK' BY ZenonT(60) DEF DoSocketsOK, DoSockOK, DoShape, DoSockets
  <2>3. NoWorkerInside' BY DEF NoWorkerInside
  <2>4. WaitersAreServed'
    <3>1. \A s \in DoSocks : socks'[s].pc = socks[s].pc
      BY DEF DoShape, DoSockets
    <3>2. Waiting' = {} /\ Upgrading' = {} /\ alarm' # "handling"
      BY <3>1 DEF Waiting, Upgrading
    <3> QED BY <3>2 DEF WaitersAreServed
  <2>5. OneHomePerActor' BY DEF OneHomePerActor
  <2> QED BY <2>1, <2>2, <2>3, <2>4, <2>5
\* A step of one socket: the socket stays in order, and it is upgrading only in
\* an object that boots or has booted.
<1>s. ASSUME NEW s \in DoSocks, NEW k \in DoSockets, socks' = [socks EXCEPT ![s] = k],
             DoSockOK(k, doVer), k.pc = "upgrading" => object' \in {"booting", "ready"},
             object' \in {"gone", "none", "booting", "ready"},
             object \in {"booting", "ready"} => object' \in {"booting", "ready"},
             UNCHANGED <<misnamed, worker, doCalls, alarm, doVer, ran>>
      PROVE Kept
  <2> USE <1>0, <1>s
  <2>1. DoShape' BY DEF DoShape
  <2>2. DoSocketsOK' BY DEF DoSocketsOK, DoShape
  <2>3. NoWorkerInside' BY DEF NoWorkerInside
  <2>4. WaitersAreServed' BY DEF WaitersAreServed, Waiting, Upgrading, DoShape
  <2>5. OneHomePerActor' BY DEF OneHomePerActor
  <2> QED BY <2>1, <2>2, <2>3, <2>4, <2>5
<1>t. ASSUME UNCHANGED <<misnamed, worker, doCalls, socks, alarm, doVer, ran>>,
             object' = IF object = "gone" THEN "none" ELSE object
      PROVE Kept
  BY <1>0, <1>t DEF DoShape, DoSocketsOK, NoWorkerInside, WaitersAreServed, Waiting, Upgrading,
                    OneHomePerActor
<1> DEFINE Closed == [NoSock EXCEPT !.pc = "closed"]
<1>k. ASSUME NEW s \in DoSocks
      PROVE /\ socks[s] \in DoSockets /\ DoSockOK(socks[s], doVer)
            /\ NoSock \in DoSockets /\ DoSockOK(NoSock, doVer) /\ NoSock.pc = "none"
            /\ Closed \in DoSockets /\ DoSockOK(Closed, doVer) /\ Closed.pc = "closed"
  <2>1. socks[s] \in DoSockets /\ DoSockOK(socks[s], doVer) /\ doVer >= 0
    BY <1>0 DEF DoShape, DoSocketsOK
  <2>2. NoSock \in DoSockets /\ NoSock.pc = "none" /\ NoSock.shown = 0 /\ ~NoSock.session
        /\ ~NoSock.late
    BY DEF DoSockets, NoSock
  <2>3. Closed \in DoSockets /\ Closed.pc = "closed" /\ Closed.shown = 0 /\ ~Closed.session
        /\ ~Closed.late
    BY DEF DoSockets, NoSock
  <2> HIDE DEF Closed
  <2> QED BY <2>1, <2>2, <2>3 DEF DoSockOK
<1>i. ASSUME NEW s \in DoSocks, Upgrade(s) PROVE Kept
  <2> DEFINE k == [socks[s] EXCEPT !.pc = "upgrading"]
  <2>1. CASE UNCHANGED socks /\ object' = IF object = "gone" THEN "none" ELSE object
    BY <1>i, <1>t, <2>1 DEF Upgrade
  <2>2. CASE socks' = [socks EXCEPT ![s].pc = "upgrading"] /\ object' = Woken
    <3>1. k \in DoSockets /\ DoSockOK(k, doVer)
      BY <1>i, <1>k DEF Upgrade, DoSockets, DoSockOK
    <3>2. socks' = [socks EXCEPT ![s] = k] BY <2>2
    <3> HIDE DEF k
    <3> QED BY <1>s, <1>i, <2>2, <3>1, <3>2, <1>0 DEF Upgrade, Woken, DoShape, NoDoFault
  <2> QED BY <1>i, <2>1, <2>2 DEF Upgrade
<1>j. ASSUME NEW s \in DoSocks, Accept(s) PROVE Kept
  <2> DEFINE k == [socks[s] EXCEPT !.pc = "open", !.session = TRUE]
  <2>1. CASE socks' = [socks EXCEPT ![s].pc = "open", ![s].session = TRUE]
    <3>1. k \in DoSockets /\ DoSockOK(k, doVer) /\ k.pc = "open"
      BY <1>k DEF DoSockets, DoSockOK
    <3>2. socks' = [socks EXCEPT ![s] = k] BY <2>1, <1>0 DEF DoShape
    <3> HIDE DEF k
    <3> QED BY <1>s, <1>j, <3>1, <3>2, <1>0 DEF Accept, DoShape
  <2>2. CASE socks' = [socks EXCEPT ![s] = NoSock]
    BY <1>s, <1>j, <1>k, <2>2, <1>0 DEF Accept, DoShape
  <2> QED BY <1>j, <2>1, <2>2 DEF Accept
<1>l. ASSUME NEW s \in DoSocks, NEW f \in {"sub", "binary"}, socks[s].pc = "open",
             socks' = [socks EXCEPT ![s].frame = f],
             UNCHANGED <<misnamed, worker, object, doCalls, alarm, doVer, ran>>
      PROVE Kept
  <2> DEFINE k == [socks[s] EXCEPT !.frame = f]
  <2>1. k \in DoSockets /\ DoSockOK(k, doVer) /\ k.pc = "open"
    BY <1>k, <1>l DEF DoSockets, DoSockOK
  <2>2. socks' = [socks EXCEPT ![s] = k] BY <1>l
  <2> HIDE DEF k
  <2> QED BY <1>s, <1>l, <2>1, <2>2, <1>0 DEF DoShape
<1>m. ASSUME NEW s \in DoSocks, Lapse(s) PROVE Kept
  <2> DEFINE k == [socks[s] EXCEPT !.past = TRUE]
  <2>1. k \in DoSockets /\ DoSockOK(k, doVer) /\ k.pc = "open"
    BY <1>k, <1>m DEF DoSockets, DoSockOK, Lapse
  <2>2. socks' = [socks EXCEPT ![s] = k] BY <1>m DEF Lapse
  <2> HIDE DEF k
  <2> QED BY <1>s, <1>m, <2>1, <2>2, <1>0 DEF DoShape, Lapse
<1>n. ASSUME NEW s \in DoSocks, Message(s) PROVE Kept
  <2>0. /\ object' \in {"gone", "none", "booting", "ready"}
        /\ object \in {"booting", "ready"} => object' \in {"booting", "ready"}
        /\ UNCHANGED <<misnamed, worker, doCalls, alarm, doVer, ran>>
    BY <1>n, <1>0 DEF Message, DoShape
  <2>1. CASE socks' = [socks EXCEPT ![s] = Closed]
    <3> HIDE DEF Closed
    <3> QED BY <1>s, <1>k, <2>0, <2>1
  <2>2. ASSUME NEW unread \in BOOLEAN, ~DeadlinePassed(s, unread),
               socks' = [socks EXCEPT ![s].frame = "none", ![s].watching = TRUE,
                            ![s].shown = doVer, ![s].late = socks[s].past /\ ~unread]
        PROVE Kept
    <3> DEFINE k == [socks[s] EXCEPT !.frame = "none", !.watching = TRUE, !.shown = doVer,
                                     !.late = FALSE]
    <3>0. (socks[s].past /\ ~unread) = FALSE BY <2>2 DEF DeadlinePassed
    <3>1. k \in DoSockets /\ DoSockOK(k, doVer) /\ k.pc = "open"
      <4>1. socks[s].pc = "open" /\ doVer \in Nat /\ socks[s] \in DoSockets
            /\ socks[s].session
        BY <1>k, <1>n, <2>2, <1>0 DEF DoSockets, Message, DoShape
      <4>2. k \in DoSockets /\ k.pc = "open" /\ k.late = FALSE /\ k.shown = doVer
        BY <4>1 DEF DoSockets
      <4> HIDE DEF k
      <4> QED BY <4>1, <4>2 DEF DoSockOK
    <3>2. socks' = [socks EXCEPT ![s] = k]
      BY <2>2, <3>0
    <3> HIDE DEF k
    <3> QED BY <1>s, <2>0, <3>1, <3>2
  <2> QED BY <1>n, <2>1, <2>2 DEF Message
<1>o. ASSUME NEW s \in DoSocks, SessionLapses(s) PROVE Kept
  <2>1. socks' = [socks EXCEPT ![s] = Closed] BY <1>o DEF SessionLapses
  <2> HIDE DEF Closed
  <2> QED BY <1>s, <1>k, <1>o, <2>1, <1>0 DEF SessionLapses, DoShape
<1>p. ASSUME NEW s \in DoSocks, SocketClosed(s) PROVE Kept
  <2>1. socks' = [socks EXCEPT ![s] = Closed] BY <1>p DEF SocketClosed, DropSession
  <2> HIDE DEF Closed
  <2> QED BY <1>s, <1>k, <1>p, <2>1, <1>0 DEF SocketClosed, DoShape
<1>q. ASSUME NEW s \in DoSocks, Redial(s) PROVE Kept
  BY <1>s, <1>k, <1>q, <1>0 DEF Redial, DoShape
<1> HIDE DEF Kept
<1>u. ASSUME NEW s \in DoSocks, Send(s) PROVE Kept
  <2>1. CASE socks' = [socks EXCEPT ![s].frame = "sub"]
    BY <1>l, <1>u, <2>1 DEF Send
  <2>2. CASE socks' = [socks EXCEPT ![s].frame = "binary"]
    BY <1>l, <1>u, <2>2 DEF Send
  <2> QED BY <1>u, <2>1, <2>2 DEF Send
<1> QED
  BY <1>a, <1>b, <1>c, <1>d, <1>e, <1>f, <1>g, <1>h, <1>i, <1>j, <1>u, <1>m, <1>n, <1>o, <1>p,
     <1>q DEF DoNext

LEMMA DoHolds == HostsSpec => []DoInv
<1>1. HostsInit => DoInv BY DoInitially DEF HostsInit
<1>2. DoInv /\ [HostsNext]_hostGroupVars => DoInv'
  <2>1. ASSUME DoInv, UNCHANGED doVars PROVE DoInv'
    BY <2>1 DEF doVars, DoInv, DoShape, DoSocketsOK, NoWorkerInside, WaitersAreServed, Waiting,
                Upgrading, OneHomePerActor
  <2> QED BY <2>1, DoStep DEF HostsNext, hostGroupVars
<1> QED BY <1>1, <1>2, PTL DEF HostsSpec

\* A Durable Object serves the actor it is named for and no other, whatever the
\* Worker's naming; nobody waits for a boot that is not under way; a session ends
\* with its socket, and no frame is acted on past its lifetime.
THEOREM ObjectsServe == HostsSpec => []ObjectsServeTheirActor
<1>1. DoInv => ObjectsServeTheirActor
  <2> SUFFICES ASSUME DoInv
               PROVE DoTypeOK /\ WaitersAreServed /\ OneHomePerActor /\ SessionHasSocket
                     /\ LifetimeEnforced
    BY DEF ObjectsServeTheirActor
  <2>1. DoTypeOK
    BY DEF DoInv, DoShape, DoTypeOK, DoSocketsOK, DoSockOK, DoSockets
  <2>2. SessionHasSocket BY DEF DoInv, DoSocketsOK, DoSockOK, SessionHasSocket
  <2>3. LifetimeEnforced BY DEF DoInv, DoSocketsOK, DoSockOK, LifetimeEnforced
  <2> QED BY <2>1, <2>2, <2>3 DEF DoInv
<1> QED BY <1>1, DoHolds, PTL
-----------------------------------------------------------------------------
(* The mount.  A host is there exactly in the phases that have one, it is  *)
(* a member only once its start is over and until its departure is         *)
(* announced, and a request whose client is gone has been aborted in every *)
(* phase, before its handler runs too.                                     *)

HostPhases == {"starting", "hooks", "up", "draining", "backing", "backhooks"}
RequestPhases == {"idle", "body", "handling", "sending", "parked", "done"}
Requests == [phase : RequestPhases, kind : {"none", "route", "actor"}, host : Nat, uses : Nat,
             got : Nat, closed : BOOLEAN, aborted : BOOLEAN, code : Nat]

AppShape ==
  /\ appState \in [phase : HostPhases \cup {"off", "unhooking", "over"}, host : Nat, built : Nat]
  /\ appState.host # 0 <=> appState.phase \in HostPhases
  /\ appState.host <= appState.built /\ cached \in 0..appState.built
  /\ member \in {"joining", "active", "leaving", "left"}
  /\ member = "active" => appState.phase \in {"hooks", "up"}

SealShape ==
  /\ seal \in [round : Nat, first : Nat, last : Nat, frozen : Nat]
  /\ PluginsReadTheApp

RoundsAlone ==
  /\ balance \in [timer : BOOLEAN, running : BOOLEAN, rounds : {0, 1}]
  /\ balance.running <=> balance.rounds = 1

RequestOK(q) ==
  /\ q \in Requests
  /\ q.kind = "actor" => q.uses = q.host
  /\ q.phase = "body" => q.kind = "route"
  /\ q.closed => q.aborted

RequestsOK ==
  reqs \in [MountCalls -> Requests] /\ \A r \in MountCalls : RequestOK(reqs[r])

MountInv == AppShape /\ SealShape /\ RoundsAlone /\ RequestsOK

LEMMA IdleRequest == RequestOK(Idle) /\ Idle.phase = "idle"
BY DEF RequestOK, Requests, RequestPhases, Idle

LEMMA MountInitially == MountInit => MountInv
<1> SUFFICES ASSUME MountInit PROVE MountInv
  OBVIOUS
<1>1. AppShape BY DEF MountInit, AppShape, HostPhases
<1>2. SealShape BY DEF MountInit, SealShape, PluginsReadTheApp
<1>3. RoundsAlone BY DEF MountInit, RoundsAlone
<1>4. RequestsOK BY IdleRequest DEF MountInit, RequestsOK, RequestOK
<1> QED BY <1>1, <1>2, <1>3, <1>4 DEF MountInv

\* A step of one request.
LEMMA RequestStep ==
  ASSUME MountInv, NEW r \in MountCalls, NEW q, RequestOK(q), Becomes(r, q),
         UNCHANGED <<mode, mountHostVars, broken>>, cached' \in {cached, appState.host}
  PROVE  MountInv'
<1>1. AppShape' BY DEF MountInv, AppShape, mountHostVars
<1>2. SealShape' BY DEF MountInv, SealShape, PluginsReadTheApp, mountHostVars
<1>3. RoundsAlone' BY DEF MountInv, RoundsAlone, mountHostVars
<1>4. RequestsOK' BY DEF MountInv, RequestsOK, RequestOK, Becomes
<1> QED BY <1>1, <1>2, <1>3, <1>4 DEF MountInv

LEMMA RequestSteps ==
  ASSUME MountInv, NEW r \in MountCalls,
         Arrive(r) \/ ReadBody(r) \/ HandlerAnswers(r) \/ SendChunk(r) \/ PeerReads(r)
           \/ ClientCloses(r)
  PROVE  MountInv'
<1> DEFINE q == reqs[r]
<1>0. /\ RequestOK(q) /\ q \in Requests
      /\ appState.host \in Nat
      /\ \A c \in Nat : RequestOK([Idle EXCEPT !.phase = "done", !.code = c])
  <2>1. ASSUME NEW c \in Nat PROVE RequestOK([Idle EXCEPT !.phase = "done", !.code = c])
    BY DEF RequestOK, Requests, RequestPhases, Idle
  <2> QED BY <2>1 DEF MountInv, RequestsOK, AppShape
<1>d. ASSUME NEW c \in Nat, DoneWith(r, c), UNCHANGED <<mode, mountHostVars, broken, cached>>
      PROVE MountInv'
  BY <1>0, <1>d, RequestStep DEF DoneWith
<1>k. ASSUME NEW k, RequestOK(k), Becomes(r, k), UNCHANGED <<mode, mountHostVars, broken, cached>>
      PROVE MountInv'
  BY <1>k, RequestStep
<1>p. ASSUME NEW p \in {"handling", "sending", "parked"} PROVE RequestOK([q EXCEPT !.phase = p])
  BY <1>0 DEF RequestOK, Requests, RequestPhases
<1>1. CASE Arrive(r)
  <2>1. CASE DoneWith(r, 503) /\ UNCHANGED cached
    BY <1>1, <1>d, <2>1 DEF Arrive
  <2> DEFINE body == [Idle EXCEPT !.phase = "body", !.kind = "route", !.host = appState.host]
             act == [Idle EXCEPT !.phase = "handling", !.kind = "actor", !.host = appState.host,
                                 !.uses = appState.host]
  <2>2. CASE Becomes(r, body) /\ UNCHANGED cached
    <3>1. RequestOK(body) BY <1>0 DEF RequestOK, Requests, RequestPhases, Idle
    <3> HIDE DEF body
    <3> QED BY <1>1, <1>k, <2>2, <3>1 DEF Arrive
  <2>3. CASE Becomes(r, act) /\ cached' = appState.host
    <3>1. RequestOK(act) BY <1>0 DEF RequestOK, Requests, RequestPhases, Idle
    <3> HIDE DEF act
    <3> QED BY <1>1, RequestStep, <2>3, <3>1 DEF Arrive
  <2> QED BY <1>1, <2>1, <2>2, <2>3 DEF Arrive, HandlerFor
<1>2. CASE ReadBody(r)
  <2>0. UNCHANGED <<mode, mountHostVars, broken, cached>> BY <1>2 DEF ReadBody
  <2> DEFINE more == [q EXCEPT !.got = @ + 1]
  <2>1. CASE Becomes(r, more)
    <3>1. RequestOK(more)
      <4> DEFINE n == q.got + 1
      <4>1. n \in Nat
        <5>1. q.got \in Nat BY <1>0 DEF Requests
        <5> QED BY <5>1
      <4> HIDE DEF n
      <4>2. RequestOK([q EXCEPT !.got = n])
        BY <1>0, <4>1 DEF RequestOK, Requests, RequestPhases
      <4> QED BY <4>2 DEF n
    <3> HIDE DEF more
    <3> QED BY <1>k, <2>0, <2>1, <3>1
  <2>2. CASE DoneWith(r, 413) \/ DoneWith(r, 500)
    BY <1>d, <2>0, <2>2
  <2>3. CASE Becomes(r, [q EXCEPT !.phase = "handling"])
    BY <1>k, <1>p, <2>0, <2>3
  <2> QED BY <1>2, <2>1, <2>2, <2>3 DEF ReadBody
<1>3. CASE HandlerAnswers(r)
  <2>1. CASE Becomes(r, [q EXCEPT !.phase = "sending"])
    BY <1>3, <1>k, <1>p, <2>1 DEF HandlerAnswers
  <2>2. CASE DoneWith(r, 200)
    BY <1>3, <1>d, <2>2 DEF HandlerAnswers
  <2> QED BY <1>3, <2>1, <2>2 DEF HandlerAnswers
<1>4. CASE SendChunk(r)
  <2>1. CASE Becomes(r, [q EXCEPT !.phase = "parked"])
    BY <1>4, <1>k, <1>p, <2>1 DEF SendChunk
  <2>2. CASE DoneWith(r, 200)
    BY <1>4, <1>d, <2>2 DEF SendChunk
  <2>3. CASE UNCHANGED reqs
    <3>1. UNCHANGED <<mode, mountHostVars, broken, cached, reqs>>
      BY <1>4, <2>3 DEF SendChunk
    <3> QED BY <3>1 DEF MountInv, AppShape, SealShape, PluginsReadTheApp, RoundsAlone,
                        RequestsOK, RequestOK, mountHostVars
  <2> QED BY <1>4, <2>1, <2>2, <2>3 DEF SendChunk
<1>5. CASE PeerReads(r)
  BY <1>5, <1>k, <1>p DEF PeerReads
<1>6. CASE ClientCloses(r)
  <2> DEFINE k == [q EXCEPT !.closed = TRUE, !.aborted = AbortsAny(r)]
  <2>1. RequestOK(k) BY <1>0 DEF RequestOK, Requests, RequestPhases, AbortsAny
  <2>2. Becomes(r, k) BY <1>6 DEF ClientCloses
  <2> HIDE DEF k
  <2> QED BY <1>6, <1>k, <2>1, <2>2 DEF ClientCloses
<1> QED BY <1>1, <1>2, <1>3, <1>4, <1>5, <1>6

LEMMA AppSteps ==
  ASSUME MountInv,
         \/ Seals \/ Starts \/ HostStarted \/ HooksRun \/ HooksDone
         \/ StopBegins \/ DrainEnds \/ StopHooksRun
         \/ Fences \/ CheckBreaks \/ RoundStarts \/ RoundEnds
  PROVE  MountInv'
<1>0. AppShape /\ SealShape /\ RoundsAlone /\ RequestsOK BY DEF MountInv
<1>r. RequestsOK'
  <2>1. UNCHANGED reqs
    BY DEF Seals, Starts, HostStarted, HooksRun, HooksDone, StopBegins, DrainEnds, StopHooksRun,
           Fences, CheckBreaks, RoundStarts, RoundEnds
  <2> QED BY <1>0, <2>1 DEF RequestsOK, RequestOK
<1>s. SealShape'
  <2>1. CASE UNCHANGED seal BY <1>0, <2>1 DEF SealShape, PluginsReadTheApp
  <2>2. CASE seal' = SealRun(TRUE)
    BY <1>0, <2>2 DEF SealShape, PluginsReadTheApp, SealRun
  <2>3. CASE seal' = SealRun(FALSE)
    BY <1>0, <2>3 DEF SealShape, PluginsReadTheApp, SealRun
  <2>4. UNCHANGED seal \/ seal' = SealRun(TRUE) \/ seal' = SealRun(FALSE)
    BY DEF Seals, Starts, HostStarted, HooksRun, HooksDone, StopBegins, DrainEnds, StopHooksRun,
           Fences, CheckBreaks, RoundStarts, RoundEnds, mountHostVars
  <2> QED BY <2>1, <2>2, <2>3, <2>4
<1>b. RoundsAlone'
  <2>1. CASE UNCHANGED balance BY <1>0, <2>1 DEF RoundsAlone
  <2>2. CASE RoundStarts
    <3>1. balance.rounds = 0 BY <1>0, <2>2 DEF RoundsAlone, RoundStarts
    <3>2. balance' = [balance EXCEPT !.running = TRUE, !.rounds = 1]
      BY <2>2, <3>1 DEF RoundStarts, RunningDuringRound
    <3> QED BY <1>0, <3>2 DEF RoundsAlone
  <2>3. CASE RoundEnds
    <3>1. balance.rounds = 1 BY <1>0, <2>3 DEF RoundsAlone, RoundEnds
    <3>2. balance' = [balance EXCEPT !.running = FALSE, !.rounds = 0]
      BY <2>3, <3>1 DEF RoundEnds
    <3>3. ~balance'.running /\ balance'.rounds = 0 BY <1>0, <3>2 DEF RoundsAlone
    <3>4. balance' \in [timer : BOOLEAN, running : BOOLEAN, rounds : {0, 1}]
      BY <1>0, <3>2 DEF RoundsAlone
    <3>5. balance'.rounds # 1 BY <3>3
    <3> QED BY <3>3, <3>4, <3>5, Zenon DEF RoundsAlone
  <2>4. CASE HooksRun BY <1>0, <2>4 DEF RoundsAlone, HooksRun
  <2>5. CASE StopHooksRun BY <1>0, <2>5 DEF RoundsAlone, StopHooksRun
  <2> QED
    BY <2>1, <2>2, <2>3, <2>4, <2>5
    DEF Seals, Starts, HostStarted, HooksDone, StopBegins, DrainEnds, Fences, CheckBreaks,
        mountHostVars
<1>a. AppShape'
  <2> USE <1>0 DEF AppShape, HostPhases
  <2>1. CASE UNCHANGED <<appState, member, cached>> BY <2>1
  <2>2. CASE Starts BY <2>2 DEF Starts
  <2>3. CASE HostStarted
    <3>1. CASE appState' = [appState EXCEPT !.phase = "hooks"] /\ member' = "active"
      BY <2>3, <3>1 DEF HostStarted
    <3>2. CASE appState' = [appState EXCEPT !.phase = "off", !.host = 0] /\ UNCHANGED member
      <4>1. appState'.phase = "off" /\ appState'.host = 0 /\ appState'.built = appState.built
        BY <3>2
      <4>2. appState' \in [phase : HostPhases \cup {"off", "unhooking", "over"}, host : Nat, built : Nat]
        BY <3>2
      <4>3. member' # "active" /\ UNCHANGED <<cached, member>> BY <2>3, <3>2 DEF HostStarted
      <4> QED BY <4>1, <4>2, <4>3
    <3> QED BY <2>3, <3>1, <3>2 DEF HostStarted
  <2>4. CASE HooksDone BY <2>4 DEF HooksDone
  <2>5. CASE StopBegins BY <2>5 DEF StopBegins
  <2>6. CASE DrainEnds
    <3>1. CASE appState.phase = "draining"
      <4>1. appState' = [appState EXCEPT !.phase = "unhooking", !.host = 0]
        BY <2>6, <3>1 DEF DrainEnds
      <4>2. appState'.phase = "unhooking" /\ appState'.host = 0 /\ appState'.built = appState.built
        BY <4>1
      <4>3. appState' \in [phase : HostPhases \cup {"off", "unhooking", "over"}, host : Nat, built : Nat]
        BY <4>1
      <4>4. member' = "left" /\ UNCHANGED cached BY <2>6 DEF DrainEnds
      <4> QED BY <4>2, <4>3, <4>4
    <3>2. CASE appState.phase = "backing"
      <4>1. appState' = [appState EXCEPT !.phase = "backhooks"]
        BY <2>6, <3>2 DEF DrainEnds
      <4> QED BY <2>6, <3>2, <4>1 DEF DrainEnds
    <3> QED BY <2>6, <3>1, <3>2 DEF DrainEnds
  <2>7. CASE StopHooksRun
    <3>1. PICK p \in {"over", "off"} : appState' = [appState EXCEPT !.phase = p, !.host = 0]
      BY <2>7 DEF StopHooksRun
    <3>2. appState'.phase = p /\ appState'.host = 0 /\ appState'.built = appState.built
      BY <3>1
    <3>3. appState' \in [phase : HostPhases \cup {"off", "unhooking", "over"}, host : Nat, built : Nat]
      BY <3>1
    <3>4. UNCHANGED <<cached, member>> /\ member # "active" BY <2>7 DEF StopHooksRun
    <3> QED BY <3>2, <3>3, <3>4
  <2> QED
    BY <2>1, <2>2, <2>3, <2>4, <2>5, <2>6, <2>7
    DEF Seals, HooksRun, Fences, CheckBreaks, RoundStarts, RoundEnds, mountHostVars
<1> QED BY <1>a, <1>b, <1>r, <1>s DEF MountInv

\* What the mount shows follows from the invariant.
LEMMA MountShows ==
  MountInv => /\ MountTypeOK /\ InRotation /\ AliveUnlessFenced
              /\ PluginsReadTheApp /\ HandlerFollowsHost /\ AbortReaches
<1> SUFFICES ASSUME MountInv
             PROVE  /\ MountTypeOK /\ InRotation /\ AliveUnlessFenced
                    /\ PluginsReadTheApp /\ HandlerFollowsHost /\ AbortReaches
  OBVIOUS
<1>0. AppShape /\ SealShape /\ RoundsAlone /\ RequestsOK BY DEF MountInv
<1>1. MountTypeOK BY <1>0 DEF MountTypeOK, RoundsAlone, AppShape, HostPhases
<1>2. mode = "cluster" => ClusterCheck \in Report
  BY DEF Report
<1>3. InRotation
  <2> SUFFICES ASSUME ReadyAnswer
               PROVE  ~broken /\ (mode = "cluster" => ~fenced /\ appState.phase \in {"hooks", "up"})
    BY DEF InRotation
  <2>1. \A c \in Report : c.ready BY DEF ReadyAnswer
  <2>2. ~broken
    <3>1. broken => [ready |-> FALSE, fatal |-> FALSE] \in Report BY DEF Report
    <3> QED BY <2>1, <3>1
  <2>3. mode = "cluster" => StatusOf = "active"
    BY <1>2, <2>1 DEF ClusterCheck
  <2> QED BY <1>0, <2>2, <2>3 DEF StatusOf, AppShape
<1>4. AliveUnlessFenced
  <2> SUFFICES ASSUME NEW c \in Report, c.fatal PROVE fenced
    BY DEF AliveUnlessFenced, FatalAnswer
  <2>1. c = ClusterCheck \/ c = [ready |-> FALSE, fatal |-> FALSE]
    BY DEF Report
  <2>2. c = ClusterCheck BY <2>1
  <2> QED BY <1>0, <2>2 DEF ClusterCheck, StatusOf, AppShape
<1>5. HandlerFollowsHost BY <1>0 DEF HandlerFollowsHost, RequestsOK, RequestOK
<1>6. AbortReaches BY <1>0 DEF AbortReaches, RequestsOK, RequestOK
<1> QED BY <1>0, <1>1, <1>3, <1>4, <1>5, <1>6 DEF SealShape

LEMMA MountHolds == HostsSpec => []MountInv
<1>1. HostsInit => MountInv BY MountInitially DEF HostsInit
<1>2. MountInv /\ [HostsNext]_hostGroupVars => MountInv'
  <2>1. ASSUME MountInv, MountNext PROVE MountInv'
    BY <2>1, AppSteps, RequestSteps DEF MountNext
  <2>2. ASSUME MountInv, UNCHANGED mountVars PROVE MountInv'
    BY <2>2 DEF mountVars, MountInv, AppShape, SealShape, PluginsReadTheApp, RoundsAlone,
                RequestsOK, RequestOK
  <2> QED BY <2>1, <2>2 DEF HostsNext, hostGroupVars
<1> QED BY <1>1, <1>2, PTL DEF HostsSpec

-----------------------------------------------------------------------------
(* The monitor.  One poll is heard at a time, the one #inFlight is the     *)
(* controller of, and it was asked after whatever is on screen; readings   *)
(* over HTTP never see a counter grow faster than the calls served.        *)

Shown == Panels \cup {NoPanel}
CounterReadings == [at : Int, value : Int, truth : Int]
MonitorPolls == [phase : {"none", "asked", "read", "over"}, by : {0} \cup Loops, focus : Shown,
                 cut : BOOLEAN, read : CounterReadings]

ViewShape ==
  /\ polls \in [PollIds -> MonitorPolls]
  /\ loops \in [Loops -> {"off", "polling", "waiting"}]
  /\ inFlight \in {0} \cup PollIds
  /\ view \in [snapshot : {0} \cup PollIds, detail : Shown, error : BOOLEAN, paused : BOOLEAN,
               focus : Shown]
  /\ clock \in Nat /\ served \in Nat /\ counter \in Nat
  /\ previous \in CounterReadings /\ latest \in [delta : Int, truth : Int]

Heard(p) == Live(p) /\ ~polls[p].cut

\* Polls are asked in order.
OneHeard ==
  /\ \A p \in PollIds : Heard(p) => p = inFlight /\ view.snapshot < p
  /\ inFlight # 0 => Live(inFlight)
  /\ \A p, q \in PollIds : q < p /\ polls[p].phase # "none" => polls[q].phase # "none"
  /\ view.snapshot # 0 => polls[view.snapshot].phase # "none"

\* A loop that polls has one live poll, and no other loop has any.
LoopsPoll ==
  /\ \A p \in PollIds : Live(p) /\ polls[p].by # 0 => loops[polls[p].by] = "polling"
  /\ \A p, q \in PollIds : Live(p) /\ Live(q) /\ polls[p].by = polls[q].by /\ polls[p].by # 0 => p = q
  /\ \A l \in Loops : loops[l] = "polling" => \E p \in PollIds : Live(p) /\ polls[p].by = l

\* What is heard asks for the panel that is open.
PanelAsked ==
  /\ attached = "no" => view.focus = NoPanel
  /\ view.focus # NoPanel => \A p \in PollIds : Heard(p) => polls[p].focus = view.focus
  /\ PanelIsComing

\* A reading may lag behind what is served, never run ahead of it.
Behind(r) == r.at <= clock /\ counter - r.value <= served - r.truth
Ordered(r, s) == r.at < s.at => s.value - r.value <= s.truth - r.truth

ReadingsSeen == {NoReading, previous} \cup {polls[p].read : p \in PollIds}

ReadingsTrue ==
  /\ \A r \in ReadingsSeen : Behind(r) /\ \A s \in ReadingsSeen : Ordered(r, s)
  /\ latest.delta <= latest.truth

ViewInv == /\ ViewShape /\ OneHeard /\ LoopsPoll /\ PanelAsked
           /\ (kind = "http" => ReadingsTrue)
           /\ (attached = "running" => appUp)

LEMMA ViewInitially == ViewInit => ViewInv
<1> SUFFICES ASSUME ViewInit PROVE ViewInv
  OBVIOUS
<1> USE DEF ViewInit, NoPoll
<1>1. ViewShape
  <2>1. NoReading \in CounterReadings BY DEF NoReading, CounterReadings
  <2>2. NoPoll \in MonitorPolls BY <2>1 DEF MonitorPolls, Shown
  <2>3. view \in [snapshot : {0} \cup PollIds, detail : Shown, error : BOOLEAN, paused : BOOLEAN,
                  focus : Shown]
    BY DEF Shown
  <2>4. latest \in [delta : Int, truth : Int] BY DEF Gap
  <2> QED BY <2>1, <2>2, <2>3, <2>4 DEF ViewShape
<1>2. \A p \in PollIds : polls[p].phase = "none" /\ polls[p].read = NoReading
  OBVIOUS
<1>3. OneHeard BY <1>2 DEF OneHeard, Heard, Live
<1>4. LoopsPoll BY <1>2 DEF LoopsPoll, Live
<1>5. PanelAsked BY <1>2 DEF PanelAsked, Heard, Live, PanelIsComing, Ready
<1>6. ReadingsTrue
  <2>1. NoReading.at = -1 /\ NoReading.value = 0 /\ NoReading.truth = 0 BY DEF NoReading
  <2>2. Behind(NoReading) /\ Ordered(NoReading, NoReading) BY <2>1 DEF Behind, Ordered
  <2> HIDE DEF NoPoll
  <2>3. ReadingsSeen = {NoReading} /\ latest = Gap BY <1>2 DEF ReadingsSeen
  <2> QED BY <2>2, <2>3 DEF ReadingsTrue, Gap
<1> QED BY <1>1, <1>3, <1>4, <1>5, <1>6 DEF ViewInv

\* A new poll is the only one heard, and its number is the highest yet.
LEMMA PollAsks ==
  ASSUME ViewShape, OneHeard, NEW by \in {0} \cup Loops, NEW f \in Shown, Poll(by, f),
         view'.snapshot = view.snapshot
  PROVE  /\ polls' \in [PollIds -> MonitorPolls] /\ inFlight' \in PollIds
         /\ OneHeard'
         /\ polls[inFlight'].phase = "none" /\ polls'[inFlight'].phase = "asked"
         /\ polls'[inFlight'].by = by /\ polls'[inFlight'].focus = f
         /\ ~polls'[inFlight'].cut /\ polls'[inFlight'].read = NoReading
         /\ \A q \in PollIds : q # inFlight' =>
              /\ polls'[q].phase = polls[q].phase /\ polls'[q].by = polls[q].by
              /\ polls'[q].read = polls[q].read
              /\ polls'[q].phase \in {"asked", "read"} => polls'[q].cut
<1>1. PICK p \in Unasked : /\ \A q \in Unasked : p <= q
                           /\ polls' = PollsWith(p, by, f)
                           /\ inFlight' = p
  BY DEF Poll
<1>2. p \in PollIds /\ polls[p].phase = "none" BY DEF Unasked
<1> DEFINE new == [NoPoll EXCEPT !.phase = "asked", !.by = by, !.focus = f]
<1>3. /\ new \in MonitorPolls /\ new.phase = "asked" /\ new.by = by /\ new.focus = f
      /\ ~new.cut /\ new.read = NoReading
  <2>1. NoReading \in CounterReadings BY DEF NoReading, CounterReadings
  <2> QED BY <2>1 DEF NoPoll, MonitorPolls
<1> HIDE DEF new
<1>4. polls' = [q \in PollIds |-> CASE q = p -> new
                                    [] q = inFlight -> [polls[q] EXCEPT !.cut = TRUE]
                                    [] OTHER -> polls[q]]
  BY <1>1 DEF PollsWith, new
<1>n. p # inFlight
  <2>1. 0 \notin PollIds BY DEF PollIds
  <2> QED BY <1>2, <2>1 DEF OneHeard, Live
<1>5. polls'[p] = new BY <1>2, <1>4, <1>n
<1>6. ASSUME NEW q \in PollIds, q # p
      PROVE /\ polls'[q] \in MonitorPolls /\ polls'[q].phase = polls[q].phase
            /\ polls'[q].by = polls[q].by /\ polls'[q].read = polls[q].read
            /\ polls'[q].phase \in {"asked", "read"} => polls'[q].cut
  <2>1. polls[q] \in MonitorPolls BY DEF ViewShape
  <2>2. CASE q = inFlight
    <3>1. polls'[q] = [polls[q] EXCEPT !.cut = TRUE] BY <1>4, <1>6, <2>2
    <3> QED BY <2>1, <3>1 DEF MonitorPolls
  <2>3. CASE q # inFlight
    <3>1. polls'[q] = polls[q] BY <1>4, <1>6, <2>3
    <3> QED BY <2>1, <2>3, <3>1 DEF OneHeard, Heard, Live
  <2> QED BY <2>2, <2>3
<1>7. polls' \in [PollIds -> MonitorPolls]
  BY <1>3, <1>4, <1>5, <1>6
<1>8. view.snapshot < p
  <2>1. view.snapshot = 0 \/ view.snapshot \in PollIds BY DEF ViewShape
  <2>2. p \in Nat /\ p > 0 BY <1>2 DEF PollIds
  <2>3. view.snapshot \in PollIds => view.snapshot \in Nat /\ view.snapshot > 0 BY DEF PollIds
  <2>4. CASE view.snapshot \in PollIds
    <3>1. view.snapshot # p /\ ~(p < view.snapshot)
      BY <1>2, <2>3, <2>4 DEF OneHeard
    <3> QED BY <2>2, <2>3, <2>4, <3>1
  <2> QED BY <2>1, <2>2, <2>4
<1>9. OneHeard'
  <2>1. ASSUME NEW q \in PollIds, Heard(q)' PROVE q = p
    BY <1>6, <2>1 DEF Heard, Live
  <2>2. ASSUME NEW r \in PollIds, NEW q \in PollIds, q < r, polls'[r].phase # "none"
        PROVE polls'[q].phase # "none"
    <3>1. CASE q = p BY <1>3, <1>5, <3>1
    <3>2. CASE q # p /\ r # p BY <1>6, <2>2, <3>2 DEF OneHeard
    <3>3. CASE q # p /\ r = p
      <4>1. q \notin Unasked
        <5>1. q \in Nat /\ r \in Nat BY DEF PollIds
        <5>2. q \in Unasked => r <= q BY <1>1, <3>3
        <5> QED BY <2>2, <5>1, <5>2
      <4> QED BY <1>6, <3>3, <4>1 DEF Unasked
    <3> QED BY <3>1, <3>2, <3>3
  <2>3. view.snapshot # 0 => polls'[view.snapshot].phase # "none"
    <3>1. view.snapshot # 0 => view.snapshot \in PollIds /\ view.snapshot # p
      BY <1>2 DEF ViewShape, OneHeard
    <3> QED BY <1>6, <3>1 DEF OneHeard
  <2>4. Live(p)' BY <1>3, <1>5 DEF Live
  <2> QED BY <1>1, <1>8, <2>1, <2>2, <2>3, <2>4 DEF OneHeard
<1> QED BY <1>1, <1>2, <1>3, <1>5, <1>6, <1>7, <1>9

LEMMA SameReadings ==
  ASSUME ReadingsTrue, UNCHANGED <<clock, served, counter, latest>>,
         previous' \in ReadingsSeen, \A q \in PollIds : polls'[q].read \in ReadingsSeen
  PROVE  ReadingsTrue'
<1>1. ReadingsSeen' \subseteq ReadingsSeen
  BY DEF ReadingsSeen
<1>2. \A r : Behind(r)' <=> Behind(r) BY DEF Behind
<1> QED BY <1>1, <1>2 DEF ReadingsTrue, Ordered

\* A step that asks: a tick, a refresh, or a panel that opens.
LEMMA AskingStep ==
  ASSUME ViewInv, NEW by \in {0} \cup Loops, NEW f \in Shown, Poll(by, f),
         by # 0 => loops[by] # "polling",
         loops' = IF by = 0 THEN loops ELSE [loops EXCEPT ![by] = "polling"],
         view' = [view EXCEPT !.focus = f], attached = "no" => f = NoPanel,
         UNCHANGED <<worldVars, previous, latest, stopped>>
  PROVE  ViewInv'
<1>0. ViewShape /\ OneHeard /\ LoopsPoll /\ PanelAsked BY DEF ViewInv
<1>1. view'.snapshot = view.snapshot /\ view'.focus = f
  BY <1>0 DEF ViewShape
<1>2. PICK p \in PollIds :
      /\ polls' \in [PollIds -> MonitorPolls] /\ inFlight' = p
      /\ OneHeard'
      /\ polls[p].phase = "none" /\ polls'[p].phase = "asked"
      /\ polls'[p].by = by /\ polls'[p].focus = f
      /\ ~polls'[p].cut /\ polls'[p].read = NoReading
      /\ \A q \in PollIds : q # p =>
           /\ polls'[q].phase = polls[q].phase /\ polls'[q].by = polls[q].by
           /\ polls'[q].read = polls[q].read
           /\ polls'[q].phase \in {"asked", "read"} => polls'[q].cut
  BY <1>0, <1>1, PollAsks
<1>3. ViewShape'
  <2>1. loops' \in [Loops -> {"off", "polling", "waiting"}] BY <1>0 DEF ViewShape
  <2>2. inFlight' \in PollIds BY <1>2
  <2> QED BY <1>0, <1>2, <2>1, <2>2 DEF ViewShape, worldVars
<1>4. LoopsPoll'
  <2>0. 0 \notin Loops BY DEF Loops
  <2>1. \A q \in PollIds : q # p => (Live(q)' <=> Live(q)) BY <1>2 DEF Live
  <2>2. Live(p)' /\ ~Live(p) BY <1>2 DEF Live
  <2>3. by # 0 => \A q \in PollIds : Live(q) => polls[q].by # by
    BY <1>0 DEF LoopsPoll
  <2>4. \A q \in PollIds : q # p => polls'[q].by = polls[q].by BY <1>2
  <2>5. polls'[p].by = by /\ p \in PollIds BY <1>2
  <2>6. ASSUME NEW q \in PollIds, Live(q)', polls'[q].by # 0
        PROVE loops'[polls'[q].by] = "polling"
    <3>1. CASE q = p BY <2>5, <2>6, <3>1, <1>0 DEF ViewShape
    <3>2. CASE q # p
      <4>1. loops[polls[q].by] = "polling" /\ polls[q].by # 0 /\ polls[q].by \in Loops
        BY <1>0, <2>1, <2>4, <2>6, <3>2 DEF LoopsPoll, ViewShape, MonitorPolls
      <4> QED BY <1>0, <2>4, <3>2, <4>1 DEF ViewShape
    <3> QED BY <3>1, <3>2
  <2>7. ASSUME NEW q \in PollIds, NEW r \in PollIds, Live(q)', Live(r)',
               polls'[q].by = polls'[r].by, polls'[q].by # 0
        PROVE q = r
    <3>1. CASE q # p /\ r # p BY <1>0, <2>1, <2>4, <2>7, <3>1 DEF LoopsPoll
    <3>2. CASE q = p /\ r # p BY <2>1, <2>3, <2>4, <2>5, <2>7, <3>2
    <3>3. CASE q # p /\ r = p BY <2>1, <2>3, <2>4, <2>5, <2>7, <3>3
    <3> QED BY <3>1, <3>2, <3>3
  <2>8. ASSUME NEW l \in Loops, loops'[l] = "polling"
        PROVE \E q \in PollIds : Live(q)' /\ polls'[q].by = l
    <3>1. CASE l = by BY <2>2, <2>5, <3>1
    <3>2. CASE l # by
      <4>1. loops[l] = "polling" BY <1>0, <2>8, <3>2 DEF ViewShape
      <4>2. PICK q \in PollIds : Live(q) /\ polls[q].by = l
        BY <1>0, <4>1 DEF LoopsPoll
      <4> QED BY <2>1, <2>2, <2>4, <4>2
    <3> QED BY <3>1, <3>2
  <2> QED BY <2>6, <2>7, <2>8 DEF LoopsPoll
<1>5. PanelAsked'
  <2>1. Heard(p)' /\ polls'[p].focus = view'.focus BY <1>1, <1>2 DEF Heard, Live
  <2>2. \A q \in PollIds : Heard(q)' => q = p BY <1>2 DEF Heard, Live
  <2>3. PanelIsComing' BY <1>2, <2>1 DEF PanelIsComing, Heard
  <2>4. attached' = "no" => view'.focus = NoPanel BY <1>1 DEF worldVars
  <2> QED BY <2>1, <2>2, <2>3, <2>4 DEF PanelAsked
<1>6. kind' = "http" => ReadingsTrue'
  <2>1. \A q \in PollIds : polls'[q].read \in ReadingsSeen BY <1>2 DEF ReadingsSeen
  <2>2. previous' \in ReadingsSeen BY DEF ReadingsSeen
  <2> QED BY <2>1, <2>2, SameReadings DEF ViewInv, worldVars
<1>7. attached' = "running" => appUp' BY DEF ViewInv, worldVars
<1> QED BY <1>2, <1>3, <1>4, <1>5, <1>6, <1>7 DEF ViewInv

\* What the rest of a step must keep when the polls and the loops stand still.
LEMMA QuietStep ==
  ASSUME ViewInv, UNCHANGED <<polls, inFlight, previous, latest>>,
         view' \in [snapshot : {0} \cup PollIds, detail : Shown, error : BOOLEAN,
                    paused : BOOLEAN, focus : Shown],
         view'.snapshot = view.snapshot,
         loops' \in [Loops -> {"off", "polling", "waiting"}],
         \A l \in Loops : loops'[l] = "polling" <=> loops[l] = "polling",
         clock' \in Nat, served' \in Nat, counter' \in Nat,
         PanelAsked', kind' = "http" => ReadingsTrue', attached' = "running" => appUp'
  PROVE  ViewInv'
<1>1. ViewShape' BY DEF ViewInv, ViewShape
<1>2. \A p \in PollIds : (Live(p)' <=> Live(p)) /\ (Heard(p)' <=> Heard(p))
  BY DEF Live, Heard
<1>3. OneHeard' BY <1>2 DEF ViewInv, OneHeard, Live, Heard
<1>4. LoopsPoll'
  <2>1. \A p \in PollIds : polls[p].by # 0 => polls[p].by \in Loops
    BY DEF ViewInv, ViewShape, MonitorPolls
  <2> QED BY <1>2, <2>1 DEF ViewInv, LoopsPoll
<1> QED BY <1>1, <1>3, <1>4 DEF ViewInv

\* The panel and the readings, when nothing they depend on moves.
LEMMA SamePanel ==
  ASSUME PanelAsked, UNCHANGED <<polls, attached, stopped>>, view'.detail = view.detail,
         view'.focus = view.focus, view'.error = view.error
  PROVE  PanelAsked'
BY DEF PanelAsked, PanelIsComing, Ready, Live, Heard

LEMMA TickSteps ==
  ASSUME ViewInv, NEW l \in Loops, loops[l] # "polling", TickOf(l),
         UNCHANGED <<worldVars, view, previous, latest, stopped>>
  PROVE  ViewInv'
<1>0. ViewShape /\ PanelAsked BY DEF ViewInv
<1>1. CASE Poll(l, view.focus) /\ loops' = [loops EXCEPT ![l] = "polling"]
  <2>1. /\ view' = [view EXCEPT !.focus = view.focus] /\ view.focus \in Shown
        /\ attached = "no" => view.focus = NoPanel
    BY <1>0 DEF ViewShape, PanelAsked
  <2>2. l # 0 BY DEF Loops
  <2> QED BY <1>1, <2>1, <2>2, AskingStep
<1>2. CASE loops' = [loops EXCEPT ![l] = "waiting"] /\ UNCHANGED <<polls, inFlight>>
  <2>1. loops' \in [Loops -> {"off", "polling", "waiting"}]
        /\ \A m \in Loops : loops'[m] = "polling" <=> loops[m] = "polling"
    BY <1>0, <1>2 DEF ViewShape
  <2>2. PanelAsked' BY <1>0, <1>2, SamePanel DEF worldVars
  <2>3. kind' = "http" => ReadingsTrue'
    <3>1. \A q \in PollIds : polls'[q].read \in ReadingsSeen BY <1>2 DEF ReadingsSeen
    <3>2. previous' \in ReadingsSeen BY DEF ReadingsSeen
    <3> QED BY <3>1, <3>2, SameReadings DEF ViewInv, worldVars
  <2> QED BY <1>0, <1>2, <2>1, <2>2, <2>3, QuietStep DEF ViewInv, ViewShape, worldVars
<1> QED BY <1>1, <1>2 DEF TickOf

\* A poll that is over, however it ended.
LEMMA OverStep ==
  ASSUME ViewInv, NEW p \in PollIds, Live(p), ViewOver(p),
         view' \in [snapshot : {0} \cup PollIds, detail : Shown, error : BOOLEAN,
                    paused : BOOLEAN, focus : Shown],
         view'.snapshot = view.snapshot \/ (view'.snapshot = p /\ Heard(p)),
         previous' \in CounterReadings, latest' \in [delta : Int, truth : Int],
         PanelAsked', kind' = "http" => ReadingsTrue'
  PROVE  ViewInv'
<1>0. ViewShape /\ OneHeard /\ LoopsPoll BY DEF ViewInv
<1> DEFINE over == [NoPoll EXCEPT !.phase = "over"]
<1>1. over \in MonitorPolls /\ over.phase = "over"
  <2>1. NoReading \in CounterReadings BY DEF NoReading, CounterReadings
  <2> QED BY <2>1 DEF NoPoll, MonitorPolls, Shown
<1>2. polls' = [polls EXCEPT ![p] = over] BY DEF ViewOver
<1> HIDE DEF over
<1>3. /\ polls' \in [PollIds -> MonitorPolls] /\ polls'[p].phase = "over"
      /\ \A q \in PollIds : q # p => polls'[q] = polls[q]
  BY <1>0, <1>1, <1>2 DEF ViewShape
<1>4. \A q \in PollIds : /\ Live(q)' <=> Live(q) /\ q # p
                         /\ Heard(q)' <=> Heard(q) /\ q # p
  BY <1>3 DEF Live, Heard
<1>5. inFlight' = IF inFlight = p THEN 0 ELSE inFlight
  BY DEF ViewOver, ControllerAfter
<1>6. loops' \in [Loops -> {"off", "polling", "waiting"}]
      /\ \A l \in Loops : loops'[l] = "polling" <=> loops[l] = "polling" /\ l # polls[p].by
  <2>0. 0 \notin Loops BY DEF Loops
  <2>1. LoopGoesOn(p) BY DEF ViewOver
  <2>2. CASE polls[p].by = 0
    BY <1>0, <2>0, <2>1, <2>2 DEF LoopGoesOn, ViewShape
  <2>3. CASE polls[p].by # 0
    <3>1. polls[p].by \in Loops BY <1>0, <2>3 DEF ViewShape, MonitorPolls
    <3>2. PICK x \in {"off", "waiting"} : loops' = [loops EXCEPT ![polls[p].by] = x]
      BY <2>1, <2>3 DEF LoopGoesOn
    <3> QED BY <1>0, <3>1, <3>2 DEF ViewShape
  <2> QED BY <2>2, <2>3
<1>7. ViewShape'
  <2>1. inFlight' \in {0} \cup PollIds BY <1>0, <1>5 DEF ViewShape
  <2>2. UNCHANGED worldVars BY DEF ViewOver
  <2> QED BY <1>0, <1>3, <1>6, <2>1, <2>2 DEF ViewShape, worldVars
<1>8. OneHeard'
  <2>1. \A q \in PollIds : polls'[q].phase # "none" <=> polls[q].phase # "none"
    BY <1>3 DEF Live
  <2>2. ASSUME NEW q \in PollIds, Heard(q)' PROVE q = inFlight' /\ view'.snapshot < q
    BY <1>0, <1>4, <1>5, <2>2 DEF OneHeard
  <2>3. inFlight' # 0 => Live(inFlight)'
    <3>1. inFlight \in {0} \cup PollIds BY <1>0 DEF ViewShape
    <3>2. inFlight' # 0 => inFlight' = inFlight /\ inFlight \in PollIds /\ inFlight # p
      BY <1>5, <3>1
    <3>3. inFlight' # 0 => polls'[inFlight] = polls[inFlight] /\ Live(inFlight)
      BY <1>0, <1>3, <3>2 DEF OneHeard
    <3> QED BY <3>2, <3>3 DEF Live
  <2>4. view'.snapshot # 0 => polls'[view'.snapshot].phase # "none"
    <3>1. view'.snapshot = 0 \/ view'.snapshot \in PollIds OBVIOUS
    <3>2. polls[p].phase # "none" BY DEF Live
    <3> QED BY <1>0, <2>1, <3>1, <3>2 DEF OneHeard
  <2> QED BY <1>0, <2>1, <2>2, <2>3, <2>4 DEF OneHeard
<1>9. LoopsPoll'
  <2>0. \A q \in PollIds : polls[q].by \in {0} \cup Loops
    BY <1>0 DEF ViewShape, MonitorPolls
  <2>1. ASSUME NEW q \in PollIds, Live(q)', polls'[q].by # 0
        PROVE loops'[polls'[q].by] = "polling"
    <3>1. Live(q) /\ q # p /\ polls'[q].by = polls[q].by BY <1>3, <1>4, <2>1
    <3>2. polls[q].by # polls[p].by BY <1>0, <2>1, <3>1 DEF LoopsPoll
    <3> QED BY <1>0, <1>6, <2>0, <2>1, <3>1, <3>2 DEF LoopsPoll
  <2>2. ASSUME NEW q \in PollIds, NEW r \in PollIds, Live(q)', Live(r)',
               polls'[q].by = polls'[r].by, polls'[q].by # 0
        PROVE q = r
    BY <1>0, <1>3, <1>4, <2>2 DEF LoopsPoll
  <2>3. ASSUME NEW l \in Loops, loops'[l] = "polling"
        PROVE \E q \in PollIds : Live(q)' /\ polls'[q].by = l
    <3>1. PICK q \in PollIds : Live(q) /\ polls[q].by = l
      BY <1>0, <1>6, <2>3 DEF LoopsPoll
    <3>2. q # p BY <1>6, <2>3, <3>1
    <3> QED BY <1>3, <1>4, <3>1, <3>2
  <2> QED BY <2>1, <2>2, <2>3 DEF LoopsPoll
<1>10. attached' = "running" => appUp' BY DEF ViewInv, ViewOver, worldVars
<1> QED BY <1>7, <1>8, <1>9, <1>10 DEF ViewInv

\* A poll that is over leaves its reading to nobody but the tracker.
LEMMA OverReads ==
  ASSUME ViewInv, NEW p \in PollIds, ViewOver(p)
  PROVE  /\ \A q \in PollIds : q # p => polls'[q] = polls[q]
         /\ ~Live(p)' /\ \A q \in PollIds : polls'[q].read \in ReadingsSeen
         /\ UNCHANGED <<worldVars, stopped>>
<1>1. /\ polls' = [polls EXCEPT ![p] = [NoPoll EXCEPT !.phase = "over"]]
      /\ polls \in [PollIds -> MonitorPolls]
  BY DEF ViewOver, ViewInv, ViewShape
<1>2. polls'[p].phase = "over" /\ polls'[p].read = NoReading
  BY <1>1 DEF NoPoll
<1>3. \A q \in PollIds : q # p => polls'[q] = polls[q] BY <1>1
<1> QED BY <1>2, <1>3 DEF ReadingsSeen, Live, ViewOver

LEMMA LandsStep == ASSUME ViewInv, NEW p \in PollIds, Lands(p) PROVE ViewInv'
<1>0. /\ ViewShape /\ OneHeard /\ PanelAsked
      /\ Live(p) /\ Heard(p) /\ ViewOver(p) /\ polls[p] \in MonitorPolls
  BY DEF Lands, Live, Heard, ViewInv, ViewShape
<1>1. /\ view' = [view EXCEPT !.snapshot = p, !.detail = polls[p].focus, !.error = FALSE]
      /\ latest' = RateBetween(previous, Reading(p)) /\ previous' = Reading(p)
  BY DEF Lands
<1>2. /\ view' \in [snapshot : {0} \cup PollIds, detail : Shown, error : BOOLEAN,
                    paused : BOOLEAN, focus : Shown]
      /\ view'.snapshot = p /\ view'.detail = polls[p].focus /\ view'.focus = view.focus
  BY <1>0, <1>1 DEF ViewShape, MonitorPolls
<1>3. /\ \A q \in PollIds : q # p => polls'[q] = polls[q]
      /\ ~Live(p)' /\ \A q \in PollIds : polls'[q].read \in ReadingsSeen
      /\ UNCHANGED <<worldVars, stopped>>
  BY <1>0, OverReads
<1>4. \A q \in PollIds : ~Heard(q)'
  <2>1. ASSUME NEW q \in PollIds, Heard(q)' PROVE FALSE
    <3>1. q # p BY <1>3, <2>1 DEF Heard
    <3>2. Heard(q) BY <1>3, <2>1, <3>1 DEF Heard, Live
    <3> QED BY <1>0, <3>1, <3>2 DEF OneHeard
  <2> QED BY <2>1
<1>5. PanelAsked'
  <2>1. view.focus # NoPanel => view'.detail = view'.focus
    BY <1>0, <1>2 DEF PanelAsked
  <2> QED BY <1>0, <1>2, <1>3, <1>4, <2>1 DEF PanelAsked, PanelIsComing, worldVars
<1>6. previous' \in CounterReadings /\ previous' = Reading(p)
  <2>1. Reading(p) \in CounterReadings
    BY <1>0 DEF Reading, MonitorPolls, CounterReadings, ViewShape
  <2> QED BY <1>1, <2>1
<1>7. /\ latest' \in [delta : Int, truth : Int]
      /\ \/ latest'.delta = 0 /\ latest'.truth = 0
         \/ /\ previous.at < previous'.at
            /\ latest'.delta = previous'.value - previous.value
            /\ latest'.truth = previous'.truth - previous.truth
  <2> DEFINE now == Reading(p)
  <2>1. now \in CounterReadings /\ now = previous' /\ previous \in CounterReadings
    BY <1>0, <1>6 DEF ViewShape
  <2>2. latest' = RateBetween(previous, now) BY <1>1
  <2> HIDE DEF now
  <2>3. latest' = IF previous = NoReading \/ now.at <= previous.at \/ now.value < previous.value
                  THEN Gap
                  ELSE [delta |-> now.value - previous.value, truth |-> now.truth - previous.truth]
    BY <2>2 DEF RateBetween
  <2>4. CASE latest' = Gap BY <2>4 DEF Gap
  <2>5. CASE /\ ~(now.at <= previous.at)
             /\ latest' = [delta |-> now.value - previous.value, truth |-> now.truth - previous.truth]
    BY <2>1, <2>5 DEF CounterReadings
  <2> QED BY <2>3, <2>4, <2>5
<1>8. kind' = "http" => ReadingsTrue'
  <2> SUFFICES ASSUME kind = "http" PROVE ReadingsTrue'
    BY <1>3 DEF worldVars
  <2>1. previous' = polls[p].read /\ ReadingsTrue BY <1>6 DEF Reading, ViewInv
  <2>2. previous' \in ReadingsSeen /\ previous \in ReadingsSeen BY <2>1 DEF ReadingsSeen
  <2>3. ReadingsSeen' \subseteq ReadingsSeen
    BY <1>3, <2>2 DEF ReadingsSeen
  <2>4. \A r : Behind(r)' <=> Behind(r) BY <1>3 DEF Behind, worldVars
  <2>5. latest'.delta <= latest'.truth
    <3>1. Ordered(previous, previous') BY <2>1, <2>2 DEF ReadingsTrue
    <3> QED BY <1>7, <3>1 DEF Ordered
  <2> QED BY <2>1, <2>3, <2>4, <2>5 DEF ReadingsTrue, Ordered
<1> QED BY <1>0, <1>2, <1>5, <1>6, <1>7, <1>8, OverStep

LEMMA NothingLands ==
  ASSUME ViewInv, NEW p \in PollIds, PollFails(p) \/ PollDropped(p) PROVE ViewInv'
<1>0. ViewShape /\ PanelAsked /\ Live(p) /\ ViewOver(p) /\ UNCHANGED <<previous, latest>>
  BY DEF PollFails, PollDropped, ViewInv
<1>1. /\ view' \in [snapshot : {0} \cup PollIds, detail : Shown, error : BOOLEAN,
                    paused : BOOLEAN, focus : Shown]
      /\ view'.snapshot = view.snapshot /\ view'.detail = view.detail
      /\ view'.focus = view.focus /\ view'.error \in {TRUE, view.error}
  BY <1>0 DEF PollFails, PollDropped, ViewShape
<1>2. /\ \A q \in PollIds : q # p => polls'[q] = polls[q]
      /\ ~Live(p)' /\ \A q \in PollIds : polls'[q].read \in ReadingsSeen
      /\ UNCHANGED <<worldVars, stopped>>
  BY <1>0, OverReads
<1>3. \A q \in PollIds : Heard(q)' => Heard(q) /\ polls'[q] = polls[q]
  BY <1>2 DEF Heard, Live
<1>4. PanelIsComing'
  <2>1. CASE PollFails(p)
    <3>1. view' = [view EXCEPT !.error = TRUE] BY <2>1 DEF PollFails
    <3>2. view'.error = TRUE BY <1>0, <3>1 DEF ViewShape
    <3> QED BY <3>2 DEF PanelIsComing
  <2>2. CASE PollDropped(p)
    <3>1. UNCHANGED view BY <2>2 DEF PollDropped
    <3>2. CASE stopped BY <1>2, <3>2 DEF PanelIsComing, Ready
    <3>3. CASE polls[p].cut
      <4>1. \A q \in PollIds : Live(q) /\ ~polls[q].cut => q # p /\ polls'[q] = polls[q]
        BY <1>2, <3>3
      <4> QED BY <1>0, <1>2, <3>1, <4>1 DEF PanelAsked, PanelIsComing, Ready, Live, worldVars
    <3> QED BY <2>2, <3>2, <3>3 DEF PollDropped
  <2> QED BY <2>1, <2>2
<1>5. PanelAsked' BY <1>0, <1>1, <1>2, <1>3, <1>4 DEF PanelAsked, worldVars
<1>6. kind' = "http" => ReadingsTrue'
  <2>1. previous' \in ReadingsSeen BY <1>0 DEF ReadingsSeen
  <2> QED BY <1>0, <1>2, <2>1, SameReadings DEF ViewInv, worldVars
<1> QED BY <1>0, <1>1, <1>5, <1>6, OverStep DEF ViewShape

LEMMA ReadStep == ASSUME ViewInv, NEW p \in PollIds, ReadFirst(p) PROVE ViewInv'
<1>0. ViewShape /\ OneHeard /\ LoopsPoll /\ PanelAsked BY DEF ViewInv
<1> DEFINE now == [at |-> clock, value |-> counter, truth |-> served]
<1>1. now \in CounterReadings /\ now.at = clock /\ now.value = counter /\ now.truth = served
  BY <1>0 DEF ViewShape, CounterReadings
<1>2. polls' = [polls EXCEPT ![p].phase = "read", ![p].read = now] BY DEF ReadFirst
<1> HIDE DEF now
<1>3. /\ polls' \in [PollIds -> MonitorPolls]
      /\ polls'[p].read = now /\ polls'[p].phase = "read" /\ polls[p].phase = "asked"
      /\ \A q \in PollIds : /\ polls'[q].by = polls[q].by /\ polls'[q].focus = polls[q].focus
                            /\ polls'[q].cut = polls[q].cut
      /\ \A q \in PollIds : q # p => polls'[q] = polls[q]
  <2> DEFINE k == [polls[p] EXCEPT !.phase = "read", !.read = now]
  <2>1. polls[p] \in MonitorPolls /\ polls[p].phase = "asked" BY <1>0 DEF ViewShape, ReadFirst
  <2>2. /\ k \in MonitorPolls /\ k.read = now /\ k.phase = "read" /\ k.by = polls[p].by
        /\ k.focus = polls[p].focus /\ k.cut = polls[p].cut
    BY <1>1, <2>1 DEF MonitorPolls
  <2>3. polls' = [polls EXCEPT ![p] = k] BY <1>0, <1>2 DEF ViewShape
  <2> HIDE DEF k
  <2> QED BY <1>0, <2>1, <2>2, <2>3 DEF ViewShape
<1>4. \A q \in PollIds : /\ (Live(q)' <=> Live(q)) /\ (Heard(q)' <=> Heard(q))
                         /\ polls'[q].phase = "none" <=> polls[q].phase = "none"
  BY <1>3 DEF Live, Heard
<1>5. UNCHANGED <<worldVars, inFlight, loops, view, previous, latest, stopped>>
  BY DEF ReadFirst
<1>6. ViewShape' BY <1>0, <1>3, <1>5 DEF ViewShape, worldVars
<1>7. OneHeard'
  <2>1. inFlight # 0 => inFlight \in PollIds BY <1>0 DEF ViewShape
  <2>2. inFlight' # 0 => Live(inFlight)'
    BY <1>0, <1>4, <1>5, <2>1 DEF OneHeard, Live
  <2>3. view.snapshot # 0 => view.snapshot \in PollIds BY <1>0 DEF ViewShape
  <2> QED BY <1>0, <1>4, <1>5, <2>2, <2>3 DEF OneHeard
<1>8. LoopsPoll' BY <1>0, <1>3, <1>4, <1>5 DEF LoopsPoll
<1>9. PanelAsked'
  BY <1>0, <1>3, <1>4, <1>5 DEF PanelAsked, PanelIsComing, Ready, Heard, worldVars
<1>10. kind' = "http" => ReadingsTrue'
  <2> SUFFICES ASSUME ReadingsTrue PROVE ReadingsTrue'
    BY <1>5 DEF ViewInv, worldVars
  <2>1. ReadingsSeen' \subseteq ReadingsSeen \cup {now}
    BY <1>3, <1>5 DEF ReadingsSeen
  <2>2. ReadingsSeen \subseteq CounterReadings
    <3>1. NoReading \in CounterReadings BY DEF NoReading, CounterReadings
    <3> QED BY <1>0, <3>1 DEF ReadingsSeen, ViewShape, MonitorPolls
  <2>3. Behind(now) /\ Ordered(now, now)
    BY <1>0, <1>1 DEF Behind, Ordered, ViewShape
  <2>4. ASSUME NEW r \in ReadingsSeen PROVE Ordered(r, now) /\ Ordered(now, r)
    <3>1. Behind(r) /\ r \in CounterReadings BY <2>2 DEF ReadingsTrue
    <3> QED BY <1>0, <1>1, <3>1 DEF Behind, Ordered, CounterReadings, ViewShape
  <2>5. \A r \in ReadingsSeen \cup {now} :
          Behind(r) /\ \A t \in ReadingsSeen \cup {now} : Ordered(r, t)
    BY <2>3, <2>4 DEF ReadingsTrue
  <2>6. \A r : Behind(r)' <=> Behind(r) BY <1>5 DEF Behind, worldVars
  <2> QED BY <1>5, <2>1, <2>5, <2>6 DEF ReadingsTrue, Ordered
<1>11. attached' = "running" => appUp' BY <1>5 DEF ViewInv, worldVars
<1> QED BY <1>6, <1>7, <1>8, <1>9, <1>10, <1>11 DEF ViewInv

LEMMA WorldSteps ==
  ASSUME ViewInv, (\E n \in {0, 1} : Traffic(n)) \/ CounterReset \/ OwnerStarts \/ Attach
  PROVE  ViewInv'
<1>0. ViewShape /\ PanelAsked BY DEF ViewInv
<1>1. UNCHANGED <<kind, polls, inFlight, loops, view, previous, latest, stopped>>
  BY DEF Traffic, CounterReset, OwnerStarts, Attach
<1>2. \/ UNCHANGED <<clock, served, counter>>
      \/ \E n \in {0, 1} : clock' = clock + 1 /\ served' = served + n /\ counter' = counter + n
      \/ UNCHANGED <<clock, served>> /\ counter' = 0
  BY DEF Traffic, CounterReset, OwnerStarts, Attach
<1>3. clock' \in Nat /\ served' \in Nat /\ counter' \in Nat
  BY <1>0, <1>2 DEF ViewShape
<1>4. PanelAsked'
  <2>1. CASE UNCHANGED attached BY <1>0, <1>1, <2>1, SamePanel
  <2>2. CASE Attach
    <3>1. view.focus = NoPanel BY <1>0, <2>2 DEF Attach, PanelAsked
    <3>2. attached' # "no" BY <2>2 DEF Attach
    <3> QED BY <1>1, <3>1, <3>2 DEF PanelAsked, PanelIsComing
  <2> QED BY <2>1, <2>2 DEF Traffic, CounterReset, OwnerStarts
<1>5. kind' = "http" => ReadingsTrue'
  <2> SUFFICES ASSUME ReadingsTrue PROVE ReadingsTrue'
    BY <1>1 DEF ViewInv
  <2>1. ReadingsSeen' = ReadingsSeen BY <1>1 DEF ReadingsSeen
  <2>2. ReadingsSeen \subseteq CounterReadings
    <3>1. NoReading \in CounterReadings BY DEF NoReading, CounterReadings
    <3> QED BY <1>0, <3>1 DEF ReadingsSeen, ViewShape, MonitorPolls
  <2>3. ASSUME NEW r \in ReadingsSeen PROVE Behind(r)'
    <3>1. Behind(r) /\ r \in CounterReadings BY <2>2 DEF ReadingsTrue
    <3>2. r.at \in Int /\ r.value \in Int /\ r.truth \in Int BY <3>1 DEF CounterReadings
    <3>3. clock \in Nat /\ served \in Nat /\ counter \in Nat BY <1>0 DEF ViewShape
    <3>4. r.at <= clock /\ counter - r.value <= served - r.truth BY <3>1 DEF Behind
    <3>5. r.at <= clock' /\ counter' - r.value <= served' - r.truth
      BY <1>2, <3>2, <3>3, <3>4
    <3> QED BY <3>5 DEF Behind
  <2> QED BY <1>1, <2>1, <2>3 DEF ReadingsTrue, Ordered
<1>6. attached' = "running" => appUp'
  BY DEF ViewInv, Traffic, CounterReset, OwnerStarts, Attach
<1> QED BY <1>0, <1>1, <1>3, <1>4, <1>5, <1>6, QuietStep DEF ViewShape

LEMMA StopViewStep == ASSUME ViewInv, StopView PROVE ViewInv'
<1>0. ViewShape /\ OneHeard /\ LoopsPoll /\ PanelAsked BY DEF ViewInv
<1>1. /\ \A q \in PollIds : /\ polls'[q].phase = polls[q].phase /\ polls'[q].by = polls[q].by
                            /\ polls'[q].focus = polls[q].focus /\ polls'[q].read = polls[q].read
                            /\ polls'[q].cut \/ polls'[q] = polls[q]
      /\ polls' \in [PollIds -> MonitorPolls]
  <2>1. ASSUME NEW q \in PollIds
        PROVE /\ polls'[q] \in MonitorPolls
              /\ polls'[q].phase = polls[q].phase /\ polls'[q].by = polls[q].by
              /\ polls'[q].focus = polls[q].focus /\ polls'[q].read = polls[q].read
              /\ polls'[q].cut \/ polls'[q] = polls[q]
    <3>0. polls[q] \in MonitorPolls BY <1>0 DEF ViewShape
    <3>1. CASE q = inFlight
      <4>1. polls'[q] = [polls[q] EXCEPT !.cut = TRUE] BY <3>1 DEF StopView
      <4> QED BY <3>0, <4>1 DEF MonitorPolls
    <3>2. CASE q # inFlight
      <4>1. polls'[q] = polls[q] BY <3>2 DEF StopView
      <4> QED BY <3>0, <4>1
    <3> QED BY <3>1, <3>2
  <2>2. DOMAIN polls' = PollIds /\ polls' = [q \in PollIds |-> polls'[q]] BY DEF StopView
  <2> QED BY <2>1, <2>2
<1>2. \A q \in PollIds : (Live(q)' <=> Live(q)) /\ (Heard(q)' => Heard(q))
  BY <1>1 DEF Live, Heard
<1>3. UNCHANGED <<kind, clock, served, counter, inFlight, view, previous, latest, attached>> /\ stopped'
  BY DEF StopView
<1>4. loops' \in [Loops -> {"off", "polling", "waiting"}]
      /\ \A l \in Loops : loops'[l] = "polling" <=> loops[l] = "polling"
  BY <1>0 DEF StopView, ViewShape
<1>5. ViewShape' BY <1>0, <1>1, <1>3, <1>4 DEF ViewShape
<1>6. OneHeard'
  <2>1. inFlight # 0 => inFlight \in PollIds BY <1>0 DEF ViewShape
  <2>2. inFlight' # 0 => Live(inFlight)'
    BY <1>0, <1>1, <1>3, <2>1 DEF OneHeard, Live
  <2>3. view.snapshot # 0 => view.snapshot \in PollIds BY <1>0 DEF ViewShape
  <2> QED BY <1>0, <1>1, <1>2, <1>3, <2>2, <2>3 DEF OneHeard
<1>7. LoopsPoll'
  <2>1. \A q \in PollIds : polls[q].by \in {0} \cup Loops
    BY <1>0 DEF ViewShape, MonitorPolls
  <2> QED BY <1>0, <1>1, <1>2, <1>4, <2>1 DEF LoopsPoll
<1>8. PanelAsked' BY <1>0, <1>1, <1>2, <1>3 DEF PanelAsked, PanelIsComing, Ready
<1>9. kind' = "http" => ReadingsTrue'
  <2>1. \A q \in PollIds : polls'[q].read \in ReadingsSeen BY <1>1 DEF ReadingsSeen
  <2>2. previous' \in ReadingsSeen BY <1>3 DEF ReadingsSeen
  <2> QED BY <1>3, <2>1, <2>2, SameReadings DEF ViewInv
<1>10. attached' = "running" => appUp'
  <2>1. attached = "running" => appUp BY DEF ViewInv
  <2>2. attached = "running" => ~ClosesApp BY DEF ClosesApp
  <2> QED BY <1>3, <2>1, <2>2 DEF StopView
<1> QED BY <1>5, <1>6, <1>7, <1>8, <1>9, <1>10 DEF ViewInv

LEMMA KeySteps ==
  ASSUME ViewInv, Refresh \/ TogglePause \/ \E h \in Panels \cup {NoPanel} : Focus(h)
  PROVE  ViewInv'
<1>0. ViewShape /\ PanelAsked /\ attached # "no" /\ UNCHANGED <<worldVars, loops, previous, latest, stopped>>
  BY DEF ViewInv, Refresh, TogglePause, Focus, Ready
<1>q. kind' = "http" /\ UNCHANGED polls => ReadingsTrue'
  <2>1. UNCHANGED polls => \A q \in PollIds : polls'[q].read \in ReadingsSeen BY DEF ReadingsSeen
  <2>2. previous' \in ReadingsSeen BY <1>0 DEF ReadingsSeen
  <2> QED BY <1>0, <2>1, <2>2, SameReadings DEF ViewInv, worldVars
<1>s. /\ clock' \in Nat /\ served' \in Nat /\ counter' \in Nat
      /\ loops' \in [Loops -> {"off", "polling", "waiting"}]
      /\ attached' = "running" => appUp'
  BY <1>0 DEF ViewInv, ViewShape, worldVars
<1>1. CASE Refresh
  <2>1. view' = [view EXCEPT !.focus = view.focus] /\ view.focus \in Shown /\ Poll(0, view.focus)
    BY <1>0, <1>1 DEF ViewShape, Refresh
  <2> QED BY <1>0, <2>1, AskingStep
<1>2. CASE TogglePause
  <2>1. view' = [view EXCEPT !.paused = ~view.paused] /\ UNCHANGED <<polls, inFlight>>
    BY <1>2 DEF TogglePause
  <2>2. /\ view' \in [snapshot : {0} \cup PollIds, detail : Shown, error : BOOLEAN,
                      paused : BOOLEAN, focus : Shown]
        /\ view'.snapshot = view.snapshot /\ view'.detail = view.detail
        /\ view'.focus = view.focus /\ view'.error = view.error
    BY <1>0, <2>1 DEF ViewShape
  <2>3. PanelAsked' BY <1>0, <2>1, <2>2, SamePanel DEF worldVars
  <2> QED BY <1>0, <1>q, <1>s, <2>1, <2>2, <2>3, QuietStep
<1>3. ASSUME NEW h \in Shown, Focus(h) PROVE ViewInv'
  <2>1. view' = [view EXCEPT !.focus = h] BY <1>3 DEF Focus
  <2>2. CASE h # NoPanel
    <3>1. Poll(0, h) BY <1>3, <2>2 DEF Focus, FocusPolls
    <3> QED BY <1>0, <2>1, <3>1, AskingStep
  <2>3. CASE h = NoPanel
    <3>1. UNCHANGED <<polls, inFlight>> BY <1>3, <2>3 DEF Focus
    <3>2. /\ view' \in [snapshot : {0} \cup PollIds, detail : Shown, error : BOOLEAN,
                        paused : BOOLEAN, focus : Shown]
          /\ view'.snapshot = view.snapshot /\ view'.focus = NoPanel
      BY <1>0, <2>1, <2>3 DEF ViewShape
    <3>3. PanelAsked' BY <3>2 DEF PanelAsked, PanelIsComing
    <3> QED BY <1>0, <1>q, <1>s, <3>1, <3>2, <3>3, QuietStep
  <2> QED BY <2>2, <2>3
<1> QED BY <1>1, <1>2, <1>3 DEF Shown

LEMMA ViewStep == ViewInv /\ ViewNext => ViewInv'
<1> SUFFICES ASSUME ViewInv, ViewNext PROVE ViewInv'
  OBVIOUS
<1>1. CASE Start
  <2>1. PICK l \in Loops : loops[l] = "off" /\ TickOf(l) BY <1>1 DEF Start
  <2> QED BY <1>1, <2>1, TickSteps DEF Start, Ready
<1>2. ASSUME NEW l \in Loops, TimerFires(l) PROVE ViewInv'
  <2>0. UNCHANGED <<worldVars, view, previous, latest, stopped>> /\ loops[l] = "waiting"
    BY <1>2 DEF TimerFires
  <2>1. CASE ~stopped /\ TickOf(l)
    BY <2>0, <2>1, TickSteps
  <2>2. CASE stopped /\ loops' = [loops EXCEPT ![l] = "off"] /\ UNCHANGED <<polls, inFlight>>
    <3>0. ViewShape /\ PanelAsked BY DEF ViewInv
    <3>1. loops' \in [Loops -> {"off", "polling", "waiting"}]
          /\ \A m \in Loops : loops'[m] = "polling" <=> loops[m] = "polling"
      BY <2>0, <2>2, <3>0 DEF ViewShape
    <3>2. PanelAsked' BY <2>0, <2>2, <3>0, SamePanel DEF worldVars
    <3>3. kind' = "http" => ReadingsTrue'
      <4>1. \A q \in PollIds : polls'[q].read \in ReadingsSeen BY <2>2 DEF ReadingsSeen
      <4>2. previous' \in ReadingsSeen BY <2>0 DEF ReadingsSeen
      <4> QED BY <2>0, <4>1, <4>2, SameReadings DEF ViewInv, worldVars
    <3> QED BY <2>0, <2>2, <3>0, <3>1, <3>2, <3>3, QuietStep DEF ViewInv, ViewShape, worldVars
  <2> QED BY <1>2, <2>1, <2>2 DEF TimerFires
<1> QED
  BY <1>1, <1>2, WorldSteps, ReadStep, LandsStep, NothingLands, KeySteps, StopViewStep
  DEF ViewNext

\* What the monitor shows follows from the invariant.
LEMMA ViewShows ==
  ViewInv => /\ ViewTypeOK /\ NewestWins /\ PanelIsComing
             /\ RateNeverInvented /\ AttachedHostSurvives
<1> SUFFICES ASSUME ViewInv
             PROVE  /\ ViewTypeOK /\ NewestWins /\ PanelIsComing
                    /\ RateNeverInvented /\ AttachedHostSurvives
  OBVIOUS
<1>0. ViewShape /\ OneHeard /\ LoopsPoll /\ PanelAsked BY DEF ViewInv
<1>1. ViewTypeOK
  <2>1. inFlight \in {0} \cup {p \in PollIds : Live(p)} BY <1>0 DEF ViewShape, OneHeard
  <2>2. (\E p \in PollIds : Live(p) /\ ~polls[p].cut) => inFlight # 0
    <3>1. 0 \notin PollIds BY DEF PollIds
    <3> QED BY <1>0, <3>1 DEF OneHeard, Heard
  <2>3. \A l \in Loops : loops[l] = "polling" <=> \E p \in PollIds : Live(p) /\ polls[p].by = l
    <3>1. 0 \notin Loops BY DEF Loops
    <3> QED BY <1>0, <3>1 DEF LoopsPoll
  <2>4. view.snapshot \in 0 .. MaxPolls
    BY <1>0, ViewAssumption DEF ViewShape, PollIds
  <2> QED BY <2>1, <2>2, <2>3, <2>4 DEF ViewTypeOK
<1>2. NewestWins BY <1>0 DEF OneHeard, Heard, NewestWins
<1>3. RateNeverInvented BY DEF ViewInv, ReadingsTrue, RateNeverInvented
<1> QED BY <1>0, <1>1, <1>2, <1>3 DEF PanelAsked, ViewInv, AttachedHostSurvives

LEMMA ViewHolds == HostsSpec => []ViewInv
<1>1. HostsInit => ViewInv BY ViewInitially DEF HostsInit
<1>2. ViewInv /\ [HostsNext]_hostGroupVars => ViewInv'
  <2>1. ASSUME ViewInv, UNCHANGED viewVars PROVE ViewInv'
    BY <2>1 DEF viewVars, ViewInv, ViewShape, OneHeard, LoopsPoll, PanelAsked, PanelIsComing,
                ReadingsTrue, ReadingsSeen, Behind, Ordered, Heard, Live, Ready
  <2> QED BY <2>1, ViewStep DEF HostsNext, hostGroupVars
<1> QED BY <1>1, <1>2, PTL DEF HostsSpec

\* What is mounted says what the host is, serves the host that runs and reaches the
\* call an abort is for; and the monitor shows the newest answer, at a rate that
\* was served, and closes only what it opened.
THEOREM MountFollows == HostsSpec => []MountFollowsTheApp
<1>1. MountInv /\ ViewInv => MountFollowsTheApp
  BY MountShows, ViewShows DEF MountFollowsTheApp
<1> QED BY <1>1, MountHolds, ViewHolds, PTL

-----------------------------------------------------------------------------
(* Deadlines.  Every far call knows its place in the registry and nobody   *)
(* else is in it, #size counts them, and the one coarse timer is never     *)
(* further away than any of them can bear.                                 *)

DlRecords == [st : {"new", "near", "far", "done", "fired"}, deadline : 0 .. Horizon,
              caller : DlCalls \cup {0}, index : Nat, body : BOOLEAN]

DlShape ==
  /\ dlNow \in 1 .. MaxDlNow /\ dlTimer \in Nat /\ disposed \in BOOLEAN
  /\ dls \in [DlCalls -> DlRecords]
  /\ buckets \in [Keys -> Seq(DlCalls)]

FarCalls == {c \in DlCalls : dls[c].st = "far"}

\* Each far call is where it believes to be, and what a bucket holds at i is a far
\* call of its key that believes to be at i.
InPlace ==
  \A c \in FarCalls : LET b == buckets[KeyOf(dls[c].deadline)]
                      IN dls[c].index \in 1 .. Len(b) /\ b[dls[c].index] = c
Registered ==
  \A k \in Keys : \A i \in 1 .. Len(buckets[k]) :
     LET c == buckets[k][i]
     IN dls[c].st = "far" /\ KeyOf(dls[c].deadline) = k /\ dls[c].index = i

Counted == dlSize = Cardinality(FarCalls)

\* A timer that is armed is not behind, nor more than a tick ahead, and comes soon
\* enough for every far call.
OnTime ==
  ~disposed =>
    /\ \A c \in DlCalls : dls[c].st = "near" => dlNow <= dls[c].deadline
    /\ dlTimer # 0 => dlNow <= dlTimer /\ dlTimer <= dlNow + CoarseTick
    /\ \A c \in FarCalls : dlTimer # 0 /\ dlTimer < dls[c].deadline + 2 * CoarseTick

Chained ==
  \A c \in DlCalls :
     /\ dls[c].body => dls[c].st # "new"
     /\ dls[c].st # "new" /\ dls[c].caller # 0 =>
           /\ dls[dls[c].caller].st # "new"
           /\ dls[dls[c].caller].body => dls[c].deadline <= dls[dls[c].caller].deadline

DlInv == DlShape /\ InPlace /\ Registered /\ Counted /\ NeverEarly /\ OnTime /\ Chained

\* A key is the deadline in ticks, rounded up.
LEMMA KeyBounds ==
  ASSUME NEW d \in 0 .. Horizon
  PROVE  /\ KeyOf(d) \in Keys
         /\ d <= KeyOf(d) * CoarseTick /\ KeyOf(d) * CoarseTick < d + CoarseTick
<1>1. d \in Nat /\ Horizon \in Nat /\ CoarseTick \in Nat \ {0}
  BY DeadlineAssumption DEF Horizon
<1>2. PICK t \in Nat \ {0} : t = CoarseTick BY <1>1
<1>3. PICK q \in Int : q = (d + t - 1) \div t BY <1>1
<1>4. t * q <= d + t - 1 BY <1>1, <1>3
<1>5. d + t - 1 < t * q + t BY <1>1, <1>3
<1>6. t * q \in Int OBVIOUS
<1>7. d <= t * q BY <1>1, <1>5, <1>6
<1>8. q >= 0
  <2> SUFFICES ASSUME q <= -1 PROVE FALSE OBVIOUS
  <2>1. PICK k \in Nat : q = -1 - k
    <3>1. -1 - q \in Nat OBVIOUS
    <3> QED BY <3>1
  <2>2. t * q = -t - t * k BY <2>1
  <2>3. t * k \in Nat BY <2>1
  <2> QED BY <1>1, <1>7, <2>2, <2>3
<1>9. q <= d
  <2> SUFFICES ASSUME q >= d + 1 PROVE FALSE BY <1>1
  <2>1. PICK k \in Nat : q = d + 1 + k
    <3>1. q - d - 1 \in Nat BY <1>1
    <3> QED BY <1>1, <3>1
  <2>2. t * q = t * d + t + t * k BY <1>1, <2>1
  <2>3. t * k \in Nat BY <2>1
  <2>4. PICK s \in Nat : t = 1 + s
    <3>1. t - 1 \in Nat OBVIOUS
    <3> QED BY <3>1
  <2>5. t * d = d + s * d BY <1>1, <2>4
  <2>6. s * d \in Nat BY <1>1, <2>4
  <2> QED BY <1>1, <1>4, <2>2, <2>3, <2>5, <2>6
<1>10. KeyOf(d) = q BY <1>2, <1>3 DEF KeyOf
<1>11. t * q = q * CoarseTick BY <1>2
<1> QED BY <1>1, <1>2, <1>4, <1>6, <1>7, <1>8, <1>9, <1>10, <1>11 DEF Keys

LEMMA DlInitially == DlInit => DlInv
<1> SUFFICES ASSUME DlInit PROVE DlInv
  OBVIOUS
<1>1. Horizon \in Nat BY DeadlineAssumption DEF Horizon
<1>2. DlShape
  <2>1. <<>> \in Seq(DlCalls) BY EmptySeq
  <2>2. buckets \in [Keys -> Seq(DlCalls)] BY <2>1 DEF DlInit
  <2>3. [st |-> "new", deadline |-> 0, caller |-> 0, index |-> 0, body |-> FALSE] \in DlRecords
    BY <1>1 DEF DlRecords
  <2>4. dls \in [DlCalls -> DlRecords] BY <2>3 DEF DlInit
  <2>5. disposed \in BOOLEAN BY DEF DlInit
  <2>6. dlNow \in 1 .. MaxDlNow /\ dlTimer \in Nat BY DeadlineAssumption DEF DlInit
  <2> QED BY <2>2, <2>4, <2>5, <2>6 DEF DlShape
<1>3. FarCalls = {} BY DEF DlInit, FarCalls
<1>4. Counted BY <1>3, FS_EmptySet DEF DlInit, Counted
<1>5. Registered
  <2>1. \A k \in Keys : Len(buckets[k]) = 0 BY DEF DlInit
  <2> QED BY <2>1 DEF Registered
<1>6. InPlace BY <1>3 DEF InPlace
<1>7. NeverEarly /\ OnTime /\ Chained BY <1>3 DEF DlInit, NeverEarly, OnTime, Chained
<1> QED BY <1>2, <1>4, <1>5, <1>6, <1>7 DEF DlInv

\* The facts about the calls that are not about the registry survive whatever does
\* not touch deadline, caller and body, nor makes a new call of an old one.
LEMMA SameChains ==
  ASSUME DlShape, Chained, dls' \in [DlCalls -> DlRecords],
         \A c \in DlCalls : /\ dls'[c].deadline = dls[c].deadline
                            /\ dls'[c].caller = dls[c].caller
                            /\ dls'[c].body = dls[c].body
                            /\ dls'[c].st = "new" <=> dls[c].st = "new"
  PROVE  Chained'
BY DEF DlShape, Chained, DlRecords

\* Nor does the registry notice what happens to calls that are not in it.
LEMMA SameRegistry ==
  ASSUME DlShape, InPlace, Registered, Counted,
         UNCHANGED <<buckets, dlSize>>, dls' \in [DlCalls -> DlRecords],
         \A c \in DlCalls : \/ dls'[c] = dls[c]
                            \/ dls[c].st # "far" /\ dls'[c].st # "far"
  PROVE  InPlace' /\ Registered' /\ Counted' /\ FarCalls' = FarCalls
<1>1. FarCalls' = FarCalls BY DEF FarCalls
<1>2. \A c \in FarCalls : dls'[c] = dls[c] BY DEF FarCalls
<1>3. InPlace' BY <1>1, <1>2 DEF InPlace, FarCalls
<1>4. Registered'
  <2>1. \A k \in Keys : \A i \in 1 .. Len(buckets[k]) : buckets[k][i] \in DlCalls
    BY ElementOfSeq DEF DlShape
  <2>2. \A k \in Keys : \A i \in 1 .. Len(buckets[k]) : buckets[k][i] \in FarCalls
    BY <2>1 DEF Registered, FarCalls
  <2> QED BY <1>2, <2>2 DEF Registered
<1> QED BY <1>1, <1>3, <1>4 DEF Counted

\* A new call n, made by a call whose turn still runs.
LEMMA RaceChains ==
  ASSUME DlShape, Chained, NEW c \in DlCalls, NEW n \in DlRecords,
         dls[c].st = "new", n.st # "new", dls' = [dls EXCEPT ![c] = n],
         n.caller # 0 => /\ n.caller \in DlCalls /\ dls[n.caller].body
                         /\ n.deadline <= dls[n.caller].deadline
  PROVE  Chained'
<1>1. dls'[c] = n /\ \A d \in DlCalls \ {c} : dls'[d] = dls[d]
  BY DEF DlShape
<1>2. n.caller # 0 => n.caller \in DlCalls \ {c} BY DEF Chained
<1>3. ASSUME NEW d \in DlCalls \ {c}, dls[d].st # "new", dls[d].caller # 0
      PROVE  dls[d].caller \in DlCalls \ {c}
  <2>1. dls[d].caller \in DlCalls BY <1>3 DEF DlShape, DlRecords
  <2> QED BY <1>3, <2>1 DEF Chained
<1> DEFINE Bounded(d) ==
     /\ dls'[d].body => dls'[d].st # "new"
     /\ dls'[d].st # "new" /\ dls'[d].caller # 0 =>
           /\ dls'[dls'[d].caller].st # "new"
           /\ dls'[dls'[d].caller].body => dls'[d].deadline <= dls'[dls'[d].caller].deadline
<1>4. Bounded(c) BY <1>1, <1>2 DEF Chained
<1>5. ASSUME NEW d \in DlCalls \ {c} PROVE Bounded(d)
  BY <1>1, <1>3 DEF Chained
<1> QED BY <1>4, <1>5 DEF Chained

\* A call that joins the registry is the last of its bucket.
LEMMA JoinsRegistry ==
  ASSUME DlShape, InPlace, Registered, Counted, NEW c \in DlCalls, NEW n \in DlRecords,
         dls[c].st = "new", n.st = "far", dls' = [dls EXCEPT ![c] = n],
         NEW k \in Keys, k = KeyOf(n.deadline), n.index = Len(buckets[k]) + 1,
         buckets' = [buckets EXCEPT ![k] = Append(@, c)], dlSize' = dlSize + 1
  PROVE  /\ buckets' \in [Keys -> Seq(DlCalls)] /\ FarCalls' = FarCalls \cup {c}
         /\ InPlace' /\ Registered' /\ Counted'
<1>1. dls'[c] = n /\ \A d \in DlCalls \ {c} : dls'[d] = dls[d]
  BY DEF DlShape
<1>2. FarCalls' = FarCalls \cup {c} /\ c \notin FarCalls BY <1>1 DEF FarCalls
<1>3. \A j \in Keys : buckets[j] \in Seq(DlCalls) BY DEF DlShape
<1> DEFINE a == Append(buckets[k], c)
<1>4. /\ a \in Seq(DlCalls) /\ Len(a) = Len(buckets[k]) + 1 /\ a[Len(buckets[k]) + 1] = c
      /\ \A i \in 1 .. Len(buckets[k]) : a[i] = buckets[k][i]
  BY <1>3, AppendProperties
<1>5. \A j \in Keys : Len(buckets[j]) \in Nat BY <1>3, LenProperties
<1>6. buckets'[k] = a /\ \A j \in Keys \ {k} : buckets'[j] = buckets[j]
  BY DEF DlShape
<1>7. buckets' \in [Keys -> Seq(DlCalls)] BY <1>4 DEF DlShape
<1> HIDE DEF a
<1>8. InPlace'
  <2>1. dls'[c].index \in 1 .. Len(buckets'[k]) /\ buckets'[k][dls'[c].index] = c
    BY <1>1, <1>4, <1>5, <1>6
  <2>2. ASSUME NEW d \in FarCalls
        PROVE  LET b == buckets'[KeyOf(dls'[d].deadline)]
               IN dls'[d].index \in 1 .. Len(b) /\ b[dls'[d].index] = d
    <3>1. dls'[d] = dls[d] /\ KeyOf(dls[d].deadline) \in Keys
      BY <1>1, <1>2, KeyBounds DEF FarCalls, DlShape, DlRecords
    <3>2. dls[d].index \in 1 .. Len(buckets[KeyOf(dls[d].deadline)])
          /\ buckets[KeyOf(dls[d].deadline)][dls[d].index] = d
      BY DEF InPlace
    <3>3. CASE KeyOf(dls[d].deadline) = k BY <1>4, <1>5, <1>6, <3>1, <3>2, <3>3
    <3>4. CASE KeyOf(dls[d].deadline) # k BY <1>6, <3>1, <3>2, <3>4
    <3> QED BY <3>3, <3>4
  <2>3. KeyOf(dls'[c].deadline) = k BY <1>1
  <2> QED BY <1>2, <2>1, <2>2, <2>3 DEF InPlace, KeyOf
<1>9. Registered'
  <2> DEFINE Knows(x, j, i) == dls'[x].st = "far" /\ KeyOf(dls'[x].deadline) = j
                               /\ dls'[x].index = i
  <2>0. SUFFICES ASSUME NEW j \in Keys, NEW i \in 1 .. Len(buckets'[j])
                 PROVE  Knows(buckets'[j][i], j, i)
    BY DEF Registered, KeyOf
  <2>1. ASSUME NEW m \in Keys, NEW x \in 1 .. Len(buckets[m])
        PROVE  Knows(buckets[m][x], m, x)
    <3>1. buckets[m][x] \in DlCalls BY <1>3, ElementOfSeq
    <3> QED BY <1>1, <3>1 DEF Registered
  <2>2. Knows(c, k, Len(buckets[k]) + 1) BY <1>1
  <2>3. CASE j # k BY <1>6, <2>1, <2>3
  <2>4. CASE j = k /\ i = Len(buckets[k]) + 1 BY <1>4, <1>6, <2>2, <2>4
  <2>5. CASE j = k /\ i \in 1 .. Len(buckets[k]) BY <1>4, <1>6, <2>1, <2>5
  <2> HIDE DEF Knows
  <2> QED BY <1>4, <1>5, <1>6, <2>3, <2>4, <2>5
<1>10. Counted'
  <2>1. IsFiniteSet(FarCalls) BY FS_Subset, DeadlineAssumption DEF FarCalls
  <2> QED BY <1>2, <2>1, FS_AddElement DEF Counted
<1> QED BY <1>2, <1>7, <1>8, <1>9, <1>10

LEMMA RaceStep ==
  ASSUME DlInv, NEW c \in DlCalls, NEW caller \in DlCalls \cup {0},
         NEW b \in Budgets \cup {0}, Race(c, caller, b)
  PROVE  DlInv'
<1> DEFINE dl == DeadlineOf(caller, b)
           k == KeyOf(dl)
           e == [dls[c] EXCEPT !.deadline = dl, !.caller = caller, !.body = TRUE]
<1>0. DlShape /\ InPlace /\ Registered /\ Counted /\ NeverEarly /\ OnTime /\ Chained
  BY DEF DlInv
<1>1. /\ dls[c].st = "new" /\ (caller # 0 => dls[caller].body)
      /\ dlNow' = dlNow /\ disposed' = disposed
  BY DEF Race
<1>2. dlNow \in Nat /\ Horizon \in Nat /\ dlNow + MaxBudget <= Horizon
  BY <1>0, DeadlineAssumption DEF DlShape, Horizon
<1>3. b \in Nat /\ b <= MaxBudget /\ DefaultBudget \in Nat /\ DefaultBudget <= MaxBudget
      /\ MaxBudget \in Nat /\ CoarseTick \in Nat \ {0} /\ ExactBelow \in Nat
  BY DeadlineAssumption
<1>4. caller # 0 => caller \in DlCalls /\ dls[caller].deadline \in 0 .. Horizon
  BY <1>0 DEF DlShape, DlRecords
<1>5. dl \in 0 .. Horizon /\ (caller # 0 => dl <= dls[caller].deadline)
  BY <1>2, <1>3, <1>4 DEF DeadlineOf, MinOf
<1>6. \/ dl - dlNow <= 0 /\ dls' = [dls EXCEPT ![c] = [e EXCEPT !.st = "fired"]]
         /\ UNCHANGED <<buckets, dlSize, dlTimer>>
      \/ dl - dlNow > 0 /\ dls' = [dls EXCEPT ![c] = [e EXCEPT !.st = "near"]]
         /\ UNCHANGED <<buckets, dlSize, dlTimer>>
      \/ /\ dl - dlNow > 0 /\ buckets' = [buckets EXCEPT ![k] = Append(@, c)]
         /\ dls' = [dls EXCEPT ![c] = [e EXCEPT !.st = "far", !.index = Len(buckets[k]) + 1]]
         /\ dlSize' = dlSize + 1
         /\ dlTimer' = IF dlTimer = 0 THEN dlNow + CoarseTick ELSE dlTimer
  BY DEF Race
<1> HIDE DEF dl
<1>7. k \in Keys /\ Len(buckets[k]) \in Nat
  BY <1>0, <1>5, KeyBounds, LenProperties DEF DlShape
<1>8. dls[c] \in DlRecords BY <1>0 DEF DlShape
<1>9. ASSUME NEW n \in DlRecords, n.deadline = dl, n.caller = caller, n.st # "new",
             dls' = [dls EXCEPT ![c] = n]
      PROVE  /\ Chained' /\ dls' \in [DlCalls -> DlRecords] /\ dls'[c] = n
             /\ \A d \in DlCalls \ {c} : dls'[d] = dls[d]
  <2>1. Chained' BY <1>0, <1>1, <1>4, <1>5, <1>9, RaceChains
  <2> QED BY <1>0, <1>9, <2>1 DEF DlShape
<1>10. CASE dl - dlNow <= 0 /\ dls' = [dls EXCEPT ![c] = [e EXCEPT !.st = "fired"]]
            /\ UNCHANGED <<buckets, dlSize, dlTimer>>
  <2>1. [e EXCEPT !.st = "fired"] \in DlRecords /\ [e EXCEPT !.st = "fired"].st = "fired"
        /\ [e EXCEPT !.st = "fired"].deadline = dl /\ [e EXCEPT !.st = "fired"].caller = caller
    BY <1>5, <1>8 DEF DlRecords
  <2> DEFINE n == [e EXCEPT !.st = "fired"]
  <2> HIDE DEF n
  <2>2. n \in DlRecords /\ n.st = "fired" /\ n.deadline = dl /\ n.caller = caller
        /\ dls' = [dls EXCEPT ![c] = n]
    BY <1>10, <2>1 DEF n
  <2>3. /\ Chained' /\ dls' \in [DlCalls -> DlRecords] /\ dls'[c] = n
        /\ \A d \in DlCalls \ {c} : dls'[d] = dls[d]
    BY <1>9, <2>2
  <2>4. InPlace' /\ Registered' /\ Counted' /\ FarCalls' = FarCalls
    BY <1>0, <1>1, <1>10, <2>2, <2>3, SameRegistry
  <2>5. DlShape' BY <1>0, <1>1, <1>10, <2>3 DEF DlShape
  <2>6. NeverEarly' BY <1>0, <1>1, <1>2, <1>5, <1>10, <2>2, <2>3 DEF NeverEarly
  <2>7. OnTime'
    BY <1>0, <1>1, <1>10, <2>2, <2>3, <2>4 DEF OnTime, FarCalls
  <2> QED BY <2>3, <2>4, <2>5, <2>6, <2>7 DEF DlInv
<1>11. CASE dl - dlNow > 0 /\ dls' = [dls EXCEPT ![c] = [e EXCEPT !.st = "near"]]
            /\ UNCHANGED <<buckets, dlSize, dlTimer>>
  <2>1. [e EXCEPT !.st = "near"] \in DlRecords /\ [e EXCEPT !.st = "near"].st = "near"
        /\ [e EXCEPT !.st = "near"].deadline = dl /\ [e EXCEPT !.st = "near"].caller = caller
    BY <1>5, <1>8 DEF DlRecords
  <2> DEFINE n == [e EXCEPT !.st = "near"]
  <2> HIDE DEF n
  <2>2. n \in DlRecords /\ n.st = "near" /\ n.deadline = dl /\ n.caller = caller
        /\ dls' = [dls EXCEPT ![c] = n]
    BY <1>11, <2>1 DEF n
  <2>3. /\ Chained' /\ dls' \in [DlCalls -> DlRecords] /\ dls'[c] = n
        /\ \A d \in DlCalls \ {c} : dls'[d] = dls[d]
    BY <1>9, <2>2
  <2>4. InPlace' /\ Registered' /\ Counted' /\ FarCalls' = FarCalls
    BY <1>0, <1>1, <1>11, <2>2, <2>3, SameRegistry
  <2>5. DlShape' BY <1>0, <1>1, <1>11, <2>3 DEF DlShape
  <2>6. NeverEarly' BY <1>0, <1>1, <1>11, <2>2, <2>3 DEF NeverEarly
  <2>7. dlNow <= dl BY <1>2, <1>5, <1>11
  <2>8. OnTime'
    BY <1>0, <1>1, <1>11, <2>2, <2>3, <2>4, <2>7 DEF OnTime, FarCalls
  <2> QED BY <2>3, <2>4, <2>5, <2>6, <2>8 DEF DlInv
<1>12. CASE /\ dl - dlNow > 0 /\ buckets' = [buckets EXCEPT ![k] = Append(@, c)]
            /\ dls' = [dls EXCEPT ![c] = [e EXCEPT !.st = "far", !.index = Len(buckets[k]) + 1]]
            /\ dlSize' = dlSize + 1
            /\ dlTimer' = IF dlTimer = 0 THEN dlNow + CoarseTick ELSE dlTimer
  <2> DEFINE n == [e EXCEPT !.st = "far", !.index = Len(buckets[k]) + 1]
  <2>1. n \in DlRecords /\ n.st = "far" /\ n.deadline = dl /\ n.caller = caller
        /\ n.index = Len(buckets[k]) + 1
    <3> HIDE DEF k
    <3>1. PICK i \in Nat : i = Len(buckets[k]) + 1 BY <1>7
    <3> QED BY <1>5, <1>8, <3>1 DEF DlRecords
  <2>2. dls' = [dls EXCEPT ![c] = n] BY <1>12
  <2> HIDE DEF n
  <2>3. /\ Chained' /\ dls' \in [DlCalls -> DlRecords] /\ dls'[c] = n
        /\ \A d \in DlCalls \ {c} : dls'[d] = dls[d]
    BY <1>9, <2>1, <2>2
  <2>4. /\ buckets' \in [Keys -> Seq(DlCalls)] /\ FarCalls' = FarCalls \cup {c}
        /\ InPlace' /\ Registered' /\ Counted'
    BY <1>0, <1>1, <1>7, <1>12, <2>1, <2>2, JoinsRegistry
  <2>5. dlTimer \in Nat /\ dlTimer' \in Nat BY <1>0, <1>2, <1>3, <1>12 DEF DlShape
  <2>6. DlShape' BY <1>0, <1>1, <2>3, <2>4, <2>5 DEF DlShape
  <2>7. NeverEarly' BY <1>0, <1>1, <2>1, <2>3 DEF NeverEarly
  <2>8. OnTime'
    <3>0. SUFFICES ASSUME ~disposed PROVE OnTime' BY <1>1 DEF OnTime
    <3>1. /\ \A d \in DlCalls : dls[d].st = "near" => dlNow <= dls[d].deadline
          /\ dlTimer # 0 => dlNow <= dlTimer /\ dlTimer <= dlNow + CoarseTick
          /\ \A d \in FarCalls : dlTimer # 0 /\ dlTimer < dls[d].deadline + 2 * CoarseTick
      BY <1>0, <3>0 DEF OnTime
    <3>2. dlTimer' # 0 /\ dlNow <= dlTimer' /\ dlTimer' <= dlNow + CoarseTick
      BY <1>2, <1>3, <1>12, <2>5, <3>1
    <3>3. dlTimer' < dl + 2 * CoarseTick BY <1>2, <1>3, <1>5, <1>12, <2>5, <3>2
    <3>4. \A d \in FarCalls : dlTimer' = dlTimer /\ dls'[d] = dls[d]
      BY <1>1, <1>12, <2>3, <3>1 DEF FarCalls
    <3>5. \A d \in DlCalls : dls'[d].st = "near" => dls[d].st = "near" /\ dls'[d] = dls[d]
      BY <2>1, <2>3
    <3> QED BY <1>1, <2>1, <2>3, <2>4, <3>1, <3>2, <3>3, <3>4, <3>5 DEF OnTime
  <2> QED BY <2>3, <2>4, <2>6, <2>7, <2>8 DEF DlInv
<1> QED BY <1>6, <1>10, <1>11, <1>12

\* Swap-pop leaves every place of the bucket but its last, and moves the last entry
\* to the place that came free.
LEMMA SwapPopped ==
  ASSUME DlShape, InPlace, Registered, NEW c \in FarCalls,
         NEW k \in Keys, k = KeyOf(dls[c].deadline), SwapPop(c, k)
  PROVE  \E n \in Nat \ {0}, i \in Nat, last \in FarCalls :
            /\ n = Len(buckets[k]) /\ i = dls[c].index /\ i \in 1 .. n
            /\ last = buckets[k][n] /\ dls[last].index = n
            /\ buckets' \in [Keys -> Seq(DlCalls)] /\ Len(buckets'[k]) = n - 1
            /\ \A j \in 1 .. n - 1 : buckets'[k][j] = IF j = i THEN last ELSE buckets[k][j]
            /\ \A q \in Keys \ {k} : buckets'[q] = buckets[q]
            /\ dls'[c] = [dls[c] EXCEPT !.st = "done", !.index = 0]
            /\ last # c => dls'[last] = [dls[last] EXCEPT !.index = i]
            /\ \A d \in DlCalls \ {c, last} : dls'[d] = dls[d]
            /\ last = c <=> i = n
            /\ KeyOf(dls[last].deadline) = k
<1> DEFINE b == buckets[k]
           n == Len(b)
           i == dls[c].index
           last == b[n]
           rest == Front(b)
<1>1. b \in Seq(DlCalls) /\ n \in Nat BY LenProperties DEF DlShape
<1>2. i \in 1 .. n /\ b[i] = c BY DEF InPlace
<1>3. n \in Nat \ {0} /\ i \in Nat BY <1>1, <1>2
<1>4. last \in DlCalls BY <1>1, <1>3, ElementOfSeq
<1>5. last \in FarCalls /\ dls[last].index = n /\ KeyOf(dls[last].deadline) = k
  BY <1>3, <1>4 DEF Registered, FarCalls
<1>6. last = c <=> i = n BY <1>2, <1>5
<1> HIDE DEF b
<1>7. /\ rest \in Seq(DlCalls) /\ Len(rest) = n - 1
      /\ \A j \in 1 .. n - 1 : rest[j] = b[j]
  <2>1. \A j \in 1 .. n - 1 : b[j] \in DlCalls BY <1>1, ElementOfSeq
  <2>2. PICK m \in Nat : m = n - 1
    <3>1. n - 1 \in Nat BY <1>3
    <3> QED BY <3>1
  <2>3. rest = SubSeq(b, 1, m) BY <2>2 DEF Front
  <2>4. \A j \in 1 .. m : b[j] \in DlCalls BY <2>1, <2>2
  <2>5. /\ SubSeq(b, 1, m) \in Seq(DlCalls)
        /\ Len(SubSeq(b, 1, m)) = IF 1 <= m THEN m - 1 + 1 ELSE 0
        /\ \A j \in 1 .. m - 1 + 1 : SubSeq(b, 1, m)[j] = b[1 + j - 1]
    BY <2>2, <2>4, SubSeqProperties
  <2> HIDE DEF rest
  <2> QED BY <2>2, <2>3, <2>5
<1>8. /\ buckets' = [buckets EXCEPT ![k] = IF last = c THEN rest ELSE [rest EXCEPT ![i] = last]]
      /\ dls' = [d \in DlCalls |->
            IF d = c THEN [dls[c] EXCEPT !.st = "done", !.index = 0]
            ELSE IF d = last THEN [dls[d] EXCEPT !.index = i]
            ELSE dls[d]]
  BY DEF SwapPop, b
<1> DEFINE nb == IF last = c THEN rest ELSE [rest EXCEPT ![i] = last]
<1> HIDE DEF rest
<1>9. /\ nb \in Seq(DlCalls) /\ Len(nb) = n - 1
      /\ \A j \in 1 .. n - 1 : nb[j] = IF j = i THEN last ELSE b[j]
  <2>1. CASE last = c
    BY <1>3, <1>6, <1>7, <2>1
  <2>2. CASE last # c
    <3>1. i \in 1 .. Len(rest) BY <1>2, <1>3, <1>6, <1>7, <2>2
    <3>2. /\ [rest EXCEPT ![i] = last] \in Seq(DlCalls)
          /\ Len([rest EXCEPT ![i] = last]) = Len(rest)
          /\ \A j \in 1 .. Len(rest) : [rest EXCEPT ![i] = last][j] = IF j = i THEN last ELSE rest[j]
      BY <1>4, <1>7, <3>1, ExceptSeq
    <3> QED BY <1>7, <2>2, <3>2
  <2> QED BY <2>1, <2>2
<1> HIDE DEF nb
<1>10. /\ buckets' \in [Keys -> Seq(DlCalls)] /\ buckets'[k] = nb
       /\ \A q \in Keys \ {k} : buckets'[q] = buckets[q]
  BY <1>8, <1>9 DEF DlShape, nb
<1>11. c \in DlCalls BY DEF FarCalls
<1>12. /\ dls'[c] = [dls[c] EXCEPT !.st = "done", !.index = 0]
       /\ last # c => dls'[last] = [dls[last] EXCEPT !.index = i]
       /\ \A d \in DlCalls \ {c, last} : dls'[d] = dls[d]
  BY <1>4, <1>8, <1>11
<1> USE <1>3, <1>5
<1> WITNESS n \in Nat \ {0}, i \in Nat, last \in FarCalls
<1> QED BY <1>2, <1>3, <1>5, <1>6, <1>9, <1>10, <1>12 DEF b

LEMMA SettledRecord ==
  ASSUME NEW r \in DlRecords, NEW i \in Nat, NEW s \in {"done", "fired"}
  PROVE  /\ [r EXCEPT !.st = s, !.index = i] \in DlRecords
         /\ [r EXCEPT !.index = i] \in DlRecords
         /\ [r EXCEPT !.st = s] \in DlRecords
BY DEF DlRecords

\* A far call that settles leaves the registry in order.
LEMMA LeavesRegistry ==
  ASSUME DlShape, InPlace, Registered, Counted, NEW c \in FarCalls,
         SwapPop(c, KeyOf(dls[c].deadline)), dlSize' = dlSize - 1
  PROVE  /\ dls' \in [DlCalls -> DlRecords] /\ buckets' \in [Keys -> Seq(DlCalls)]
         /\ FarCalls' = FarCalls \ {c} /\ InPlace' /\ Registered' /\ Counted'
         /\ dls'[c].st = "done"
         /\ \A d \in DlCalls : /\ dls'[d].deadline = dls[d].deadline
                               /\ dls'[d].caller = dls[d].caller
                               /\ dls'[d].body = dls[d].body
                               /\ d # c => dls'[d].st = dls[d].st
<1>0. c \in DlCalls /\ dls[c] \in DlRecords BY DEF FarCalls, DlShape
<1>1. PICK k \in Keys : k = KeyOf(dls[c].deadline)
  BY <1>0, KeyBounds DEF DlRecords
<1>2. PICK n \in Nat \ {0}, i \in Nat, last \in FarCalls :
         /\ n = Len(buckets[k]) /\ i = dls[c].index /\ i \in 1 .. n
         /\ last = buckets[k][n] /\ dls[last].index = n
         /\ buckets' \in [Keys -> Seq(DlCalls)] /\ Len(buckets'[k]) = n - 1
         /\ \A j \in 1 .. n - 1 : buckets'[k][j] = IF j = i THEN last ELSE buckets[k][j]
         /\ \A q \in Keys \ {k} : buckets'[q] = buckets[q]
         /\ dls'[c] = [dls[c] EXCEPT !.st = "done", !.index = 0]
         /\ last # c => dls'[last] = [dls[last] EXCEPT !.index = i]
         /\ \A d \in DlCalls \ {c, last} : dls'[d] = dls[d]
         /\ last = c <=> i = n
         /\ KeyOf(dls[last].deadline) = k
  BY <1>1, SwapPopped
<1>3. last \in DlCalls /\ dls[last] \in DlRecords BY DEF FarCalls, DlShape
<1>4. dls' \in [DlCalls -> DlRecords]
  <2>0. dls'[c] = [dls[c] EXCEPT !.st = "done", !.index = 0] BY <1>2
  <2>1. dls'[c] \in DlRecords
    <3>1. PICK r \in DlRecords : r = dls[c] BY <1>0
    <3>2. [r EXCEPT !.st = "done", !.index = 0] \in DlRecords BY SettledRecord
    <3> QED BY <2>0, <3>1, <3>2
  <2>2. last # c => dls'[last] \in DlRecords
    <3>1. i \in Nat BY <1>2
    <3> QED BY <1>2, <1>3, <3>1 DEF DlRecords
  <2>3. \A d \in DlCalls \ {c, last} : dls'[d] \in DlRecords BY <1>2 DEF DlShape
  <2>4. \A d \in DlCalls : dls'[d] \in DlRecords BY <2>1, <2>2, <2>3
  <2>5. dls' = [d \in DlCalls |-> dls'[d]] BY DEF SwapPop
  <2> QED BY <2>4, <2>5
<1>5. /\ dls'[c].st = "done" /\ dls'[c].deadline = dls[c].deadline
      /\ dls'[c].caller = dls[c].caller /\ dls'[c].body = dls[c].body
  BY <1>0, <1>2 DEF DlRecords
<1>6. last # c => /\ dls'[last].st = dls[last].st /\ dls'[last].index = i
                  /\ dls'[last].deadline = dls[last].deadline
                  /\ dls'[last].caller = dls[last].caller /\ dls'[last].body = dls[last].body
  BY <1>2, <1>3 DEF DlRecords
<1>7. \A d \in DlCalls : /\ dls'[d].deadline = dls[d].deadline
                         /\ dls'[d].caller = dls[d].caller
                         /\ dls'[d].body = dls[d].body
                         /\ d # c => dls'[d].st = dls[d].st
  <2> SUFFICES ASSUME NEW d \in DlCalls
               PROVE  /\ dls'[d].deadline = dls[d].deadline
                      /\ dls'[d].caller = dls[d].caller
                      /\ dls'[d].body = dls[d].body
                      /\ d # c => dls'[d].st = dls[d].st
    OBVIOUS
  <2>1. CASE d = c BY <1>5, <2>1
  <2>2. CASE d # c /\ d = last BY <1>6, <2>2
  <2>3. CASE d # c /\ d # last BY <1>2, <2>3
  <2> QED BY <2>1, <2>2, <2>3
<1>8. FarCalls' = FarCalls \ {c} BY <1>5, <1>7 DEF FarCalls
<1>9. \A d \in DlCalls : KeyOf(dls'[d].deadline) = KeyOf(dls[d].deadline) BY <1>7
<1>10. InPlace'
  <2> DEFINE Placed(d) == LET b == buckets'[KeyOf(dls'[d].deadline)]
                          IN dls'[d].index \in 1 .. Len(b) /\ b[dls'[d].index] = d
  <2>1. ASSUME NEW d \in FarCalls, d # c PROVE Placed(d)
    <3>0. d \in DlCalls /\ KeyOf(dls[d].deadline) \in Keys
      BY KeyBounds DEF FarCalls, DlShape, DlRecords
    <3>1. dls[d].index \in 1 .. Len(buckets[KeyOf(dls[d].deadline)])
          /\ buckets[KeyOf(dls[d].deadline)][dls[d].index] = d
      BY DEF InPlace
    <3>2. CASE d = last
      <4>1. i # n /\ dls'[d].index = i /\ KeyOf(dls'[d].deadline) = k
        BY <1>2, <1>6, <1>9, <2>1, <3>0, <3>2
      <4>2. i \in 1 .. n - 1 /\ i \in 1 .. Len(buckets'[k]) BY <1>2, <4>1
      <4>3. buckets'[k][i] = d BY <1>2, <3>2, <4>2
      <4> QED BY <4>1, <4>2, <4>3
    <3>3. CASE d # last /\ KeyOf(dls[d].deadline) # k
      BY <1>2, <1>9, <2>1, <3>0, <3>1, <3>3
    <3>4. CASE d # last /\ KeyOf(dls[d].deadline) = k
      <4>1. dls'[d] = dls[d] BY <1>2, <2>1, <3>0, <3>4
      <4>2. dls[d].index # n /\ dls[d].index # i
        <5>1. buckets[k][i] = c BY <1>1, <1>2 DEF InPlace
        <5> QED BY <1>2, <2>1, <3>1, <3>4, <5>1
      <4>3. PICK x \in 1 .. n : x = dls[d].index BY <1>2, <3>1, <3>4
      <4>4. x \in 1 .. n - 1 /\ x # i /\ buckets[k][x] = d BY <3>1, <3>4, <4>2, <4>3
      <4>5. x \in 1 .. Len(buckets'[k]) /\ buckets'[k][x] = d BY <1>2, <4>4
      <4> QED BY <1>9, <3>0, <3>4, <4>1, <4>3, <4>5
    <3> QED BY <3>2, <3>3, <3>4
  <2> QED BY <1>8, <2>1 DEF InPlace, KeyOf
<1>11. Registered'
  <2> DEFINE Knows(x, j, m) == dls'[x].st = "far" /\ KeyOf(dls'[x].deadline) = j
                               /\ dls'[x].index = m
  <2>0. SUFFICES ASSUME NEW j \in Keys, NEW m \in 1 .. Len(buckets'[j])
                 PROVE  Knows(buckets'[j][m], j, m)
    BY DEF Registered, KeyOf
  <2>1. ASSUME NEW q \in Keys, NEW x \in 1 .. Len(buckets[q]),
               buckets[q][x] # c, buckets[q][x] # last
        PROVE  Knows(buckets[q][x], q, x)
    <3>1. buckets[q][x] \in DlCalls \ {c, last} BY <2>1, ElementOfSeq DEF DlShape
    <3>2. dls'[buckets[q][x]] = dls[buckets[q][x]] BY <1>2, <3>1
    <3> QED BY <3>2 DEF Registered
  <2>2. last # c => Knows(last, k, i) BY <1>2, <1>3, <1>6, <1>7 DEF FarCalls
  <2>3. ASSUME NEW q \in Keys, NEW x \in 1 .. Len(buckets[q]), buckets[q][x] \in {c, last}
        PROVE  q = k /\ x \in {i, n}
    <3>1. /\ KeyOf(dls[buckets[q][x]].deadline) = q
          /\ dls[buckets[q][x]].index = x
      BY DEF Registered
    <3>2. CASE buckets[q][x] = c BY <1>1, <1>2, <3>1, <3>2
    <3>3. CASE buckets[q][x] = last BY <1>2, <3>1, <3>3
    <3> QED BY <2>3, <3>2, <3>3
  <2>4. CASE j # k
    <3>1. buckets'[j] = buckets[j] BY <1>2, <2>4
    <3>2. m \in 1 .. Len(buckets[j]) /\ buckets[j][m] \notin {c, last} BY <2>3, <2>4, <3>1
    <3> QED BY <2>1, <3>1, <3>2
  <2>5. CASE j = k /\ m = i
    <3>1. i \in 1 .. n - 1 /\ last # c BY <1>2, <2>5
    <3> QED BY <1>2, <2>2, <2>5, <3>1
  <2>6. CASE j = k /\ m # i
    <3>1. m \in 1 .. n - 1 /\ buckets'[k][m] = buckets[k][m] BY <1>2, <2>6
    <3>2. m \in 1 .. Len(buckets[k]) /\ m # n BY <1>2, <3>1
    <3>3. buckets[k][m] \notin {c, last} BY <2>3, <2>6, <3>2
    <3> QED BY <2>1, <2>6, <3>1, <3>2, <3>3
  <2> QED BY <2>4, <2>5, <2>6
<1>12. Counted'
  <2>1. IsFiniteSet(FarCalls) BY FS_Subset, DeadlineAssumption DEF FarCalls
  <2> QED BY <1>8, <2>1, FS_RemoveElement DEF Counted
<1> QED BY <1>2, <1>4, <1>5, <1>7, <1>8, <1>10, <1>11, <1>12

LEMMA SettleStep ==
  ASSUME DlInv, NEW c \in DlCalls, Settle(c)
  PROVE  DlInv'
<1>0. DlShape /\ InPlace /\ Registered /\ Counted /\ NeverEarly /\ OnTime /\ Chained
  BY DEF DlInv
<1>1. UNCHANGED <<dlNow, dlTimer, disposed>> BY DEF Settle
<1>2. CASE dls[c].st = "near" /\ dls' = [dls EXCEPT ![c].st = "done"]
           /\ UNCHANGED <<buckets, dlSize>>
  <2>1. PICK r \in DlRecords : r = dls[c] BY <1>0 DEF DlShape
  <2>2. [r EXCEPT !.st = "done"] \in DlRecords BY SettledRecord
  <2>3. /\ dls'[c] = [r EXCEPT !.st = "done"] /\ dls' \in [DlCalls -> DlRecords]
        /\ \A d \in DlCalls \ {c} : dls'[d] = dls[d]
    BY <1>0, <1>2, <2>1, <2>2 DEF DlShape
  <2>4. /\ dls'[c].st = "done" /\ dls'[c].deadline = dls[c].deadline
        /\ dls'[c].caller = dls[c].caller /\ dls'[c].body = dls[c].body
    BY <2>1, <2>3 DEF DlRecords
  <2>5. InPlace' /\ Registered' /\ Counted' /\ FarCalls' = FarCalls
    BY <1>0, <1>2, <2>3, <2>4, SameRegistry
  <2>6. Chained' BY <1>0, <1>2, <2>3, <2>4, SameChains
  <2>7. DlShape' BY <1>0, <1>1, <1>2, <2>3 DEF DlShape
  <2>8. NeverEarly' BY <1>0, <1>1, <2>3, <2>4 DEF NeverEarly
  <2>9. OnTime' BY <1>0, <1>1, <2>3, <2>4, <2>5 DEF OnTime, FarCalls
  <2> QED BY <2>5, <2>6, <2>7, <2>8, <2>9 DEF DlInv
<1>3. CASE dls[c].st = "far" /\ SwapPop(c, KeyOf(dls[c].deadline)) /\ dlSize' = dlSize - 1
  <2>1. c \in FarCalls BY <1>3 DEF FarCalls
  <2>2. /\ dls' \in [DlCalls -> DlRecords] /\ buckets' \in [Keys -> Seq(DlCalls)]
        /\ FarCalls' = FarCalls \ {c} /\ InPlace' /\ Registered' /\ Counted'
        /\ dls'[c].st = "done"
        /\ \A d \in DlCalls : /\ dls'[d].deadline = dls[d].deadline
                              /\ dls'[d].caller = dls[d].caller
                              /\ dls'[d].body = dls[d].body
                              /\ d # c => dls'[d].st = dls[d].st
    BY <1>0, <1>3, <2>1, LeavesRegistry
  <2>3. Chained' BY <1>0, <1>3, <2>2, SameChains
  <2>4. DlShape' BY <1>0, <1>1, <2>2 DEF DlShape
  <2>5. NeverEarly' BY <1>0, <1>1, <2>2 DEF NeverEarly
  <2>6. OnTime' BY <1>0, <1>1, <2>2 DEF OnTime, FarCalls
  <2> QED BY <2>2, <2>3, <2>4, <2>5, <2>6 DEF DlInv
<1> QED BY <1>2, <1>3 DEF Settle

LEMMA BodyEndsStep ==
  ASSUME DlInv, NEW c \in DlCalls, BodyEnds(c)
  PROVE  DlInv'
<1>0. DlShape /\ InPlace /\ Registered /\ Counted /\ NeverEarly /\ OnTime /\ Chained
  BY DEF DlInv
<1>1. UNCHANGED <<dlNow, buckets, dlSize, dlTimer, disposed>> /\ dls[c].st \in {"done", "fired"}
  BY DEF BodyEnds
<1>2. PICK r \in DlRecords : r = dls[c] BY <1>0 DEF DlShape
<1>3. [r EXCEPT !.body = FALSE, !.deadline = 0, !.caller = 0] \in DlRecords
  <2>1. 0 \in 0 .. Horizon BY DeadlineAssumption DEF Horizon
  <2> QED BY <2>1 DEF DlRecords
<1>4. /\ dls'[c] = [r EXCEPT !.body = FALSE, !.deadline = 0, !.caller = 0]
      /\ dls' \in [DlCalls -> DlRecords] /\ \A d \in DlCalls \ {c} : dls'[d] = dls[d]
  BY <1>0, <1>2, <1>3 DEF BodyEnds, DlShape
<1>5. /\ dls'[c].st = dls[c].st /\ dls'[c].deadline = 0 /\ dls'[c].caller = 0
      /\ dls'[c].body = FALSE
  BY <1>2, <1>4 DEF DlRecords
<1>6. InPlace' /\ Registered' /\ Counted' /\ FarCalls' = FarCalls
  BY <1>0, <1>1, <1>4, <1>5, SameRegistry
<1>7. \A d \in DlCalls \ {c} : dls'[d].body <=> dls[d].body BY <1>4
<1>8. Chained'
  <2>1. \A d \in DlCalls : dls'[d].st = dls[d].st BY <1>4, <1>5
  <2>2. \A d \in DlCalls : dls[d].caller # 0 => dls[d].caller \in DlCalls
    BY <1>0 DEF DlShape, DlRecords
  <2>3. ASSUME NEW d \in DlCalls \ {c}, dls[d].st # "new", dls[d].caller # 0
        PROVE  /\ dls'[dls[d].caller].st # "new"
               /\ dls'[dls[d].caller].body => dls'[d].deadline <= dls'[dls[d].caller].deadline
    <3>1. CASE dls[d].caller = c BY <1>0, <1>5, <2>1, <2>2, <2>3, <3>1 DEF Chained
    <3>2. CASE dls[d].caller # c BY <1>0, <1>4, <2>2, <2>3, <3>2 DEF Chained
    <3> QED BY <3>1, <3>2
  <2> QED BY <1>0, <1>4, <1>5, <2>1, <2>3 DEF Chained
<1>9. DlShape' BY <1>0, <1>1, <1>4 DEF DlShape
<1>10. NeverEarly'
  <2>1. dlNow \in Nat BY <1>0 DEF DlShape
  <2>2. dlNow' >= dls'[c].deadline BY <1>1, <1>5, <2>1
  <2>3. \A d \in DlCalls \ {c} : dls'[d].st = "fired" => dlNow' >= dls'[d].deadline
    BY <1>0, <1>1, <1>4 DEF NeverEarly
  <2> QED BY <2>2, <2>3 DEF NeverEarly
<1>11. OnTime'
  BY <1>0, <1>1, <1>4, <1>5, <1>6 DEF OnTime, FarCalls
<1> QED BY <1>6, <1>8, <1>9, <1>10, <1>11 DEF DlInv

LEMMA NearStep ==
  ASSUME DlInv, NEW c \in DlCalls, NearFires(c)
  PROVE  DlInv'
<1>0. DlShape /\ InPlace /\ Registered /\ Counted /\ NeverEarly /\ OnTime /\ Chained
  BY DEF DlInv
<1>1. /\ UNCHANGED <<dlNow, buckets, dlSize, dlTimer, disposed>>
      /\ dls[c].st = "near" /\ dlNow >= dls[c].deadline
  BY DEF NearFires
<1>2. PICK r \in DlRecords : r = dls[c] BY <1>0 DEF DlShape
<1>3. [r EXCEPT !.st = "fired"] \in DlRecords BY SettledRecord
<1>4. /\ dls'[c] = [r EXCEPT !.st = "fired"] /\ dls' \in [DlCalls -> DlRecords]
      /\ \A d \in DlCalls \ {c} : dls'[d] = dls[d]
  BY <1>0, <1>2, <1>3 DEF NearFires, DlShape
<1>5. /\ dls'[c].st = "fired" /\ dls'[c].deadline = dls[c].deadline
      /\ dls'[c].caller = dls[c].caller /\ dls'[c].body = dls[c].body
  BY <1>2, <1>4 DEF DlRecords
<1>6. InPlace' /\ Registered' /\ Counted' /\ FarCalls' = FarCalls
  BY <1>0, <1>1, <1>4, <1>5, SameRegistry
<1>7. Chained' BY <1>0, <1>1, <1>4, <1>5, SameChains
<1>8. DlShape' BY <1>0, <1>1, <1>4 DEF DlShape
<1>9. NeverEarly' BY <1>0, <1>1, <1>4, <1>5 DEF NeverEarly
<1>10. OnTime' BY <1>0, <1>1, <1>4, <1>5, <1>6 DEF OnTime, FarCalls
<1> QED BY <1>6, <1>7, <1>8, <1>9, <1>10 DEF DlInv

\* The tick takes whole buckets: all that is due, and nothing that is not. Whoever
\* is left is due less than a tick ago, so one more tick is soon enough.
LEMMA CoarseStep ==
  ASSUME DlInv, CoarseFires
  PROVE  DlInv'
<1>0. DlShape /\ InPlace /\ Registered /\ Counted /\ NeverEarly /\ OnTime /\ Chained
  BY DEF DlInv
<1> DEFINE due == UNION {Range(buckets[k]) : k \in DueKeys}
<1>1. UNCHANGED <<dlNow, disposed>> /\ dlNow \in Nat /\ CoarseTick \in Nat \ {0}
  <2>1. UNCHANGED <<dlNow, disposed>> BY DEF CoarseFires
  <2> QED BY <1>0, <2>1, DeadlineAssumption DEF DlShape
<1>2. /\ dls' = [c \in DlCalls |-> IF c \in due
                   THEN [dls[c] EXCEPT !.st = "fired", !.index = 0] ELSE dls[c]]
      /\ dlSize' = dlSize - Cardinality(due)
      /\ dlTimer' = Rearmed(dlSize - Cardinality(due))
      /\ buckets' = [k \in Keys |-> IF k \in DueKeys THEN <<>> ELSE buckets[k]]
  BY DEF CoarseFires
<1>3. \A c \in DlCalls : dls[c].deadline \in 0 .. Horizon /\ dls[c].deadline \in Nat
  BY <1>0, DeadlineAssumption DEF DlShape, DlRecords, Horizon
<1>4. \A c : c \in due <=> c \in FarCalls /\ KeyOf(dls[c].deadline) \in DueKeys
  <2>1. ASSUME NEW c, c \in due PROVE c \in FarCalls /\ KeyOf(dls[c].deadline) \in DueKeys
    <3>1. PICK k \in DueKeys : c \in Range(buckets[k]) BY <2>1
    <3>2. k \in Keys /\ buckets[k] \in Seq(DlCalls) BY <1>0 DEF DueKeys, DlShape
    <3>3. PICK i \in 1 .. Len(buckets[k]) : c = buckets[k][i]
      BY <3>1, <3>2, LenProperties DEF Range
    <3>4. c \in DlCalls BY <3>2, <3>3, ElementOfSeq
    <3> QED BY <1>0, <3>2, <3>3, <3>4 DEF Registered, FarCalls
  <2>2. ASSUME NEW c \in FarCalls, KeyOf(dls[c].deadline) \in DueKeys PROVE c \in due
    <3>1. PICK k \in DueKeys : k = KeyOf(dls[c].deadline) BY <2>2
    <3>2. k \in Keys /\ buckets[k] \in Seq(DlCalls) BY <1>0 DEF DueKeys, DlShape
    <3>3. dls[c].index \in DOMAIN buckets[k] /\ buckets[k][dls[c].index] = c
      BY <1>0, <3>1, <3>2, LenProperties DEF InPlace
    <3>4. c \in Range(buckets[k]) BY <3>3 DEF Range
    <3> QED BY <3>4
  <2> QED BY <2>1, <2>2
<1> HIDE DEF due
<1>5. due \subseteq FarCalls /\ FarCalls \subseteq DlCalls BY <1>4 DEF FarCalls
<1>6. ASSUME NEW c \in DlCalls
      PROVE  /\ dls'[c] \in DlRecords /\ dls'[c].deadline = dls[c].deadline
             /\ dls'[c].caller = dls[c].caller /\ dls'[c].body = dls[c].body
             /\ c \in due => dls'[c].st = "fired"
             /\ c \notin due => dls'[c] = dls[c]
  <2>1. PICK r \in DlRecords : r = dls[c] BY <1>0 DEF DlShape
  <2>2. [r EXCEPT !.st = "fired", !.index = 0] \in DlRecords BY SettledRecord
  <2>3. CASE c \in due
    <3>1. dls'[c] = [r EXCEPT !.st = "fired", !.index = 0] BY <1>2, <2>1, <2>3
    <3> QED BY <2>1, <2>2, <2>3, <3>1 DEF DlRecords
  <2>4. CASE c \notin due BY <1>2, <2>1, <2>4
  <2> QED BY <2>3, <2>4
<1>7. dls' \in [DlCalls -> DlRecords]
  <2>1. dls' = [c \in DlCalls |-> dls'[c]] BY <1>2
  <2> QED BY <1>6, <2>1
<1>8. FarCalls' = FarCalls \ due BY <1>5, <1>6 DEF FarCalls
<1>9. IsFiniteSet(FarCalls) BY FS_Subset, DeadlineAssumption DEF FarCalls
<1>10. /\ Cardinality(FarCalls \ due) = dlSize - Cardinality(due)
       /\ Cardinality(FarCalls \ due) \in Nat
       /\ Cardinality(FarCalls \ due) = 0 => FarCalls \ due = {}
  <2>1. FarCalls \cap due = due BY <1>5
  <2>2. IsFiniteSet(FarCalls \ due) /\
        Cardinality(FarCalls \ due) = Cardinality(FarCalls) - Cardinality(FarCalls \cap due)
    BY <1>9, FS_Difference
  <2> QED BY <1>0, <2>1, <2>2, FS_CardinalityType, FS_EmptySet DEF Counted
<1>11. Counted' BY <1>2, <1>8, <1>10 DEF Counted
<1>12. \A k \in Keys : buckets'[k] = IF k \in DueKeys THEN <<>> ELSE buckets[k] BY <1>2
<1>13. dlTimer' \in Nat
  <2>1. dlTimer' \in {0, dlNow + CoarseTick} BY <1>2 DEF Rearmed
  <2> QED BY <1>1, <2>1
<1>14. DlShape'
  <2>1. <<>> \in Seq(DlCalls) BY EmptySeq
  <2>2. \A k \in Keys : (IF k \in DueKeys THEN <<>> ELSE buckets[k]) \in Seq(DlCalls)
    BY <1>0, <2>1 DEF DlShape
  <2>3. buckets' \in [Keys -> Seq(DlCalls)] BY <1>2, <2>2
  <2> QED BY <1>0, <1>1, <1>7, <1>13, <2>3 DEF DlShape
<1>15. \A c \in FarCalls' :
          /\ c \in FarCalls /\ dls'[c] = dls[c] /\ KeyOf(dls[c].deadline) \in Keys \ DueKeys
  BY <1>3, <1>4, <1>5, <1>6, <1>8, KeyBounds
<1>16. InPlace'
  <2> SUFFICES ASSUME NEW c \in FarCalls'
               PROVE  LET b == buckets'[KeyOf(dls'[c].deadline)]
                      IN dls'[c].index \in 1 .. Len(b) /\ b[dls'[c].index] = c
    BY DEF InPlace, KeyOf
  <2>1. buckets'[KeyOf(dls'[c].deadline)] = buckets[KeyOf(dls[c].deadline)]
    BY <1>12, <1>15
  <2> QED BY <1>0, <1>15, <2>1 DEF InPlace
<1>17. Registered'
  <2> SUFFICES ASSUME NEW k \in Keys, NEW i \in 1 .. Len(buckets'[k])
               PROVE  LET c == buckets'[k][i]
                      IN dls'[c].st = "far" /\ KeyOf(dls'[c].deadline) = k /\ dls'[c].index = i
    BY DEF Registered, KeyOf
  <2>1. k \notin DueKeys
    <3> SUFFICES ASSUME k \in DueKeys PROVE FALSE OBVIOUS
    <3>1. buckets'[k] = <<>> BY <1>12
    <3>2. Len(buckets'[k]) = 0 BY <3>1
    <3> QED BY <3>2
  <2>2. buckets'[k] = buckets[k] BY <1>12, <2>1
  <2>3. buckets[k][i] \in DlCalls BY <1>0, <2>2, ElementOfSeq DEF DlShape
  <2>4. dls[buckets[k][i]].st = "far" /\ KeyOf(dls[buckets[k][i]].deadline) = k
        /\ dls[buckets[k][i]].index = i
    BY <1>0, <2>2 DEF Registered
  <2>5. buckets[k][i] \notin due BY <1>4, <2>1, <2>4
  <2>6. dls'[buckets[k][i]] = dls[buckets[k][i]] BY <1>6, <2>3, <2>5
  <2> QED BY <2>2, <2>4, <2>6
<1>18. NeverEarly'
  <2> SUFFICES ASSUME NEW c \in DlCalls, dls'[c].st = "fired"
               PROVE  dlNow' >= dls'[c].deadline
    BY DEF NeverEarly
  <2>1. CASE c \in due
    <3>1. PICK k \in Int : k = KeyOf(dls[c].deadline) BY <1>3, KeyBounds DEF Keys
    <3>2. k * CoarseTick <= dlNow BY <1>4, <2>1, <3>1 DEF DueKeys
    <3>3. dls[c].deadline <= k * CoarseTick BY <1>3, <3>1, KeyBounds
    <3>4. k * CoarseTick \in Int BY <1>1
    <3> QED BY <1>1, <1>3, <1>6, <3>2, <3>3, <3>4
  <2>2. CASE c \notin due BY <1>0, <1>1, <1>6, <2>2 DEF NeverEarly
  <2> QED BY <2>1, <2>2
<1>19. OnTime'
  <2> SUFFICES ASSUME ~disposed PROVE OnTime' BY <1>1 DEF OnTime
  <2>1. \A c \in DlCalls : dls'[c].st = "near" => dls'[c] = dls[c] BY <1>6
  <2>2. \A c \in DlCalls : dls'[c].st = "near" => dlNow' <= dls'[c].deadline
    BY <1>0, <1>1, <2>1 DEF OnTime
  <2>3. dlTimer' # 0 => dlTimer' = dlNow + CoarseTick BY <1>2 DEF Rearmed
  <2>4. ASSUME NEW c \in FarCalls'
        PROVE  dlTimer' # 0 /\ dlTimer' < dls'[c].deadline + 2 * CoarseTick
    <3>1. c \in FarCalls \ due BY <1>8
    <3>2. dlSize - Cardinality(due) > 0 BY <1>10, <3>1
    <3>3. dlTimer' = dlNow + CoarseTick BY <1>2, <3>2 DEF Rearmed
    <3>4. PICK k \in Keys \ DueKeys : k = KeyOf(dls[c].deadline) BY <1>15
    <3>5. k \in Int /\ buckets[k] # <<>>
      <4>1. c \in FarCalls /\ c \in DlCalls BY <1>5, <3>1
      <4>2. dls[c].index \in 1 .. Len(buckets[k]) BY <1>0, <3>4, <4>1 DEF InPlace
      <4>3. Len(<<>>) = 0 OBVIOUS
      <4> QED BY <4>2, <4>3 DEF Keys
    <3>6. k * CoarseTick \in Int /\ ~(k * CoarseTick <= dlNow)
      BY <1>1, <3>4, <3>5 DEF DueKeys
    <3>7. c \in DlCalls BY <1>5, <3>1
    <3>8. k * CoarseTick < dls[c].deadline + CoarseTick BY <1>3, <3>4, <3>7, KeyBounds
    <3>9. dlNow + CoarseTick < dls[c].deadline + 2 * CoarseTick
      BY <1>1, <1>3, <3>6, <3>7, <3>8
    <3> QED BY <1>1, <1>15, <3>3, <3>9
  <2> QED BY <1>1, <2>2, <2>3, <2>4 DEF OnTime
<1>20. Chained'
  <2>1. \A c \in DlCalls : dls'[c].st = "new" <=> dls[c].st = "new"
    BY <1>5, <1>6 DEF FarCalls
  <2> QED BY <1>0, <1>6, <1>7, <2>1, SameChains
<1> QED BY <1>11, <1>14, <1>16, <1>17, <1>18, <1>19, <1>20 DEF DlInv

LEMMA PassStep ==
  ASSUME DlInv, Pass \/ Dispose
  PROVE  DlInv'
<1>0. DlShape /\ InPlace /\ Registered /\ Counted /\ NeverEarly /\ OnTime /\ Chained
  BY DEF DlInv
<1>1. UNCHANGED <<dls, buckets, dlSize>> BY DEF Pass, Dispose
<1>2. InPlace' /\ Registered' /\ Counted' /\ Chained' /\ FarCalls' = FarCalls
  BY <1>0, <1>1 DEF InPlace, Registered, Counted, Chained, FarCalls, KeyOf
<1>3. dlNow \in Nat /\ dlNow' \in Nat /\ dlNow <= dlNow' /\ dlNow' \in 1 .. MaxDlNow
      /\ dlTimer' \in Nat /\ disposed' \in BOOLEAN
  <2>1. dlNow \in 1 .. MaxDlNow /\ dlTimer \in Nat /\ MaxDlNow \in Nat
    BY <1>0, DeadlineAssumption DEF DlShape
  <2>2. disposed' \in BOOLEAN BY <1>0 DEF DlShape, Pass, Dispose
  <2>3. \/ dlNow' = dlNow /\ dlTimer' = 0
        \/ dlNow < MaxDlNow /\ dlNow' = dlNow + 1 /\ dlTimer' = dlTimer
    BY DEF Pass, Dispose
  <2> QED BY <2>1, <2>2, <2>3
<1>4. DlShape' BY <1>0, <1>1, <1>3 DEF DlShape
<1>5. NeverEarly'
  <2>1. \A c \in DlCalls : dls[c].deadline \in Nat
    BY <1>0, DeadlineAssumption DEF DlShape, DlRecords, Horizon
  <2> QED BY <1>0, <1>1, <1>3, <2>1 DEF NeverEarly
<1>6. OnTime'
  <2>1. CASE Dispose BY <2>1 DEF Dispose, OnTime
  <2>2. CASE Pass
    <3>0. SUFFICES ASSUME ~disposed PROVE OnTime' BY <2>2 DEF Pass, OnTime
    <3>1. /\ dlNow' = dlNow + 1 /\ dlTimer' = dlTimer /\ disposed' = disposed
          /\ dlTimer # 0 => ~(dlNow >= dlTimer)
          /\ \A c \in DlCalls : dls[c].st = "near" => ~(dlNow >= dls[c].deadline)
      BY <2>2 DEF Pass, Overdue
    <3>2. dlTimer \in Nat /\ \A c \in DlCalls : dls[c].deadline \in Nat
      BY <1>0, DeadlineAssumption DEF DlShape, DlRecords, Horizon
    <3>3. CoarseTick \in Nat BY DeadlineAssumption
    <3> QED BY <1>0, <1>1, <1>2, <1>3, <3>0, <3>1, <3>2, <3>3 DEF OnTime
  <2> QED BY <2>1, <2>2
<1> QED BY <1>2, <1>4, <1>5, <1>6 DEF DlInv

LEMMA DlStep == DlInv /\ DlNext => DlInv'
BY RaceStep, SettleStep, BodyEndsStep, NearStep, CoarseStep, PassStep DEF DlNext

\* What the property says of deadlines follows from the invariant.
LEMMA DlShows ==
  DlInv => DlTypeOK /\ NeverEarly /\ TickArmed /\ LateByTwoTicks /\ ChainTightens
<1> SUFFICES ASSUME DlInv
             PROVE  DlTypeOK /\ NeverEarly /\ TickArmed /\ LateByTwoTicks /\ ChainTightens
  OBVIOUS
<1>0. DlShape /\ InPlace /\ Registered /\ Counted /\ NeverEarly /\ OnTime /\ Chained
  BY DEF DlInv
<1>1. dlNow \in Nat /\ dlTimer \in Nat /\ CoarseTick \in Nat \ {0}
      /\ \A c \in DlCalls : dls[c].deadline \in Nat
  BY <1>0, DeadlineAssumption DEF DlShape, DlRecords, Horizon
<1>2. DlTypeOK
  <2>1. \A c \in DlCalls : dls[c].st \in {"new", "near", "far", "done", "fired"}
    BY <1>0 DEF DlShape, DlRecords
  <2>2. \A k \in Keys : \A c \in Range(buckets[k]) : dls[c].st = "far"
    <3> SUFFICES ASSUME NEW k \in Keys, NEW c \in Range(buckets[k]) PROVE dls[c].st = "far"
      OBVIOUS
    <3>1. buckets[k] \in Seq(DlCalls) BY <1>0 DEF DlShape
    <3>2. PICK i \in 1 .. Len(buckets[k]) : c = buckets[k][i]
      BY <3>1, LenProperties DEF Range
    <3> QED BY <1>0, <3>2 DEF Registered
  <2>3. disposed \in BOOLEAN BY <1>0 DEF DlShape
  <2> QED BY <1>0, <1>1, <2>1, <2>2, <2>3 DEF DlTypeOK, InPlace, Counted, FarCalls
<1>3. TickArmed
  <2> SUFFICES ASSUME ~disposed, dlSize > 0 PROVE dlTimer # 0 /\ dlTimer <= dlNow + CoarseTick
    BY DEF TickArmed
  <2>1. PICK c \in FarCalls : TRUE BY <1>0, FS_EmptySet DEF Counted
  <2> QED BY <1>0, <2>1 DEF OnTime
<1>4. LateByTwoTicks
  <2> SUFFICES ASSUME ~disposed, NEW c \in DlCalls, dls[c].st \in {"near", "far"}
               PROVE  dlNow < dls[c].deadline + 2 * CoarseTick
    BY DEF LateByTwoTicks
  <2>1. CASE dls[c].st = "near" BY <1>0, <1>1, <2>1 DEF OnTime
  <2>2. CASE dls[c].st = "far" BY <1>0, <1>1, <2>2 DEF OnTime, FarCalls
  <2> QED BY <2>1, <2>2
<1>5. ChainTightens BY <1>0 DEF Chained, ChainTightens
<1> QED BY <1>0, <1>2, <1>3, <1>4, <1>5

LEMMA DlHolds == HostsSpec => [](focus = "deadlines" => DlInv)
<1>1. HostsInit => (focus = "deadlines" => DlInv) BY DlInitially DEF HostsInit
<1>2. (focus = "deadlines" => DlInv) /\ [HostsNext]_hostGroupVars
        => (focus = "deadlines" => DlInv)'
  <2>1. ASSUME DlInv, UNCHANGED dlVars PROVE DlInv'
    BY <2>1 DEF dlVars, DlInv, DlShape, InPlace, Registered, Counted, NeverEarly, OnTime,
                Chained, FarCalls, KeyOf
  <2> QED BY <2>1, DlStep DEF HostsNext, hostGroupVars
<1> QED BY <1>1, <1>2, PTL DEF HostsSpec

\* A deadline fires neither before it is due nor two ticks after, whatever shares its
\* bucket or its timer: the coarse tick is never lost while the registry holds
\* anybody, and nobody buys time deeper in the chain.
THEOREM DeadlinesHold ==
  HostsSpec => [](focus = "deadlines" =>
                    DlTypeOK /\ NeverEarly /\ TickArmed /\ LateByTwoTicks /\ ChainTightens)
<1> QED BY DlHolds, DlShows, PTL
==============================================================================
