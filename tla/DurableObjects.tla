--------------------------- MODULE DurableObjects ----------------------------
(***************************************************************************)
(* The Cloudflare runtime: a Worker that hosts no actor                    *)
(* (actors-cloudflare/worker.ts), the Durable Object that hosts one        *)
(* (host.ts), the placement that maps a ref to its object by name          *)
(* (placement.ts), and client sockets terminated inside the object         *)
(* (host.ts, socket.ts).                                                   *)
(*                                                                         *)
(* The platform may evict an object whenever no request is in it: its      *)
(* isolate goes, with the started host and every socket session; the       *)
(* sockets themselves, their attachments, the alarm and the storage stay,  *)
(* and the next event brings an empty isolate back.  One object is         *)
(* modelled, the one named Own, and everything that reaches it.            *)
(***************************************************************************)
EXTENDS Naturals, FiniteSets

CONSTANTS
    Own,         \* the object's name, and the actor it hosts
    OtherRef,    \* an actor that lives in another object
    PoolRef,     \* a stateless worker
    DoCalls,     \* calls that come through the Worker
    DoSocks,     \* client sockets
    MaxDoVer,    \* bound: changes of the actor
    MaxDoFaults  \* bound: boots that fail, evictions, wrong frames, attachments
                 \* that cannot be read, in all

ASSUME DoAssumption ==
    /\ Own # OtherRef /\ PoolRef \notin {Own, OtherRef}
    /\ "worker" \notin {Own, OtherRef}  \* a place, not a ref
    /\ {MaxDoVer, MaxDoFaults} \subseteq Nat

Refs == {Own, OtherRef, PoolRef}

VARIABLES
    misnamed,    \* the Worker derives Own's name for OtherRef too
    worker,      \* the Worker's `started`: "none" | "building" | "started"
    object,      \* the object's `#starting`: "gone" | "none" | "booting" | "ready"
    doCalls,     \* doCalls[c]: [pc, ref]
    socks,       \* the sockets
    alarm,       \* "none" | "set" | "firing" | "handling"
    doVer,       \* the actor's state
    ran,         \* where each ref's turns ran: set of <<ref, place>>
    doFaults     \* faults so far
doVars == <<misnamed, worker, object, doCalls, socks, alarm, doVer, ran, doFaults>>

NoSock == [pc |-> "none", session |-> FALSE, watching |-> FALSE, shown |-> 0,
           past |-> FALSE, frame |-> "none", late |-> FALSE]

DoInit ==
    /\ misnamed \in BOOLEAN
    /\ worker = "none" /\ object = "gone"
    /\ doCalls = [c \in DoCalls |-> [pc |-> "idle", ref |-> Own]]
    /\ socks = [s \in DoSocks |-> NoSock]
    /\ alarm = "none" /\ doVer = 0 /\ ran = {} /\ doFaults = 0

DoFault == doFaults < MaxDoFaults /\ doFaults' = doFaults + 1
NoDoFault == UNCHANGED doFaults

\* durableObjectName / objectName, as each side derives it.
WorkerName(r) == IF misnamed /\ r = OtherRef THEN Own ELSE r
ObjectName(r) == r

------------------------------------------------------------------------------
(* The Worker                                                              *)

\* A request: ensure() builds the app once for everyone who asks.
WorkerFetch(c) ==
    /\ doCalls[c].pc = "idle"
    /\ \E r \in Refs : doCalls' = [doCalls EXCEPT ![c] = [pc |-> "worker", ref |-> r]]
    /\ worker' = IF worker = "none" THEN "building" ELSE worker
    /\ UNCHANGED <<misnamed, object, socks, alarm, doVer, ran>> /\ NoDoFault

\* A failed build is not kept.
AfterFailedBuild == "none"

Build ==
    /\ worker = "building"
    /\ \/ worker' = "started" /\ UNCHANGED doCalls /\ NoDoFault
       \/ /\ worker' = AfterFailedBuild /\ DoFault
          /\ doCalls' = [c \in DoCalls |-> IF doCalls[c].pc = "worker"
                         THEN [doCalls[c] EXCEPT !.pc = "done"] ELSE doCalls[c]]
    /\ UNCHANGED <<misnamed, object, socks, alarm, doVer, ran>>

\* route: a stateless worker runs where it is called, every other ref in the
\* object its name derives (the Worker has no isSelf).
Route(r) == IF r = PoolRef THEN "worker" ELSE WorkerName(r)

\* #ready(): the boot under way, or a new one.
Woken == IF object \in {"gone", "none"} THEN "booting" ELSE object

Dispatch(c) ==
    LET to == Route(doCalls[c].ref) IN
    /\ worker = "started" /\ doCalls[c].pc = "worker"
    /\ IF to = Own
       THEN /\ doCalls' = [doCalls EXCEPT ![c].pc = "object"]
            /\ object' = Woken /\ UNCHANGED ran
       ELSE /\ doCalls' = [doCalls EXCEPT ![c].pc = "done"]
            /\ ran' = ran \cup {<<doCalls[c].ref, IF to = "worker" THEN to ELSE "elsewhere">>}
            /\ UNCHANGED object
    /\ UNCHANGED <<misnamed, worker, socks, alarm, doVer>> /\ NoDoFault

------------------------------------------------------------------------------
(* The object: boot, calls, alarms                                         *)

Waiting == {c \in DoCalls : doCalls[c].pc = "object"}
Upgrading == {s \in DoSocks : socks[s].pc = "upgrading"}

\* #ready: one boot for everyone, forgotten when it fails; an alarm() that
\* throws is fired again by the platform.
Boot ==
    /\ object = "booting"
    /\ \/ object' = "ready" /\ UNCHANGED <<doCalls, socks, alarm>> /\ NoDoFault
       \/ /\ object' = "none" /\ DoFault
          /\ doCalls' = [c \in DoCalls |-> IF c \in Waiting
                         THEN [doCalls[c] EXCEPT !.pc = "done"] ELSE doCalls[c]]
          /\ socks' = [s \in DoSocks |-> IF s \in Upgrading THEN NoSock ELSE socks[s]]
          /\ alarm' = IF alarm = "handling" THEN "firing" ELSE alarm
    /\ UNCHANGED <<misnamed, worker, doVer, ran>>

\* #guardIdentity.
Serves(r) == ObjectName(r) = Own

Pushed(v) == [s \in DoSocks |-> IF socks[s].session /\ socks[s].watching
              THEN [socks[s] EXCEPT !.shown = v] ELSE socks[s]]

\* dispatch: the turn may change the actor, and its watchers are told.
ObjectRuns(c) ==
    /\ object = "ready" /\ doCalls[c].pc = "object"
    /\ doCalls' = [doCalls EXCEPT ![c].pc = "done"]
    /\ IF Serves(doCalls[c].ref)
       THEN /\ ran' = ran \cup {<<doCalls[c].ref, Own>>}
            /\ \/ doVer < MaxDoVer /\ doVer' = doVer + 1 /\ socks' = Pushed(doVer + 1)
                  /\ alarm' \in {alarm, IF alarm = "none" THEN "set" ELSE alarm}
               \/ UNCHANGED <<doVer, socks, alarm>>
       ELSE UNCHANGED <<ran, doVer, socks, alarm>>
    /\ UNCHANGED <<misnamed, worker, object>> /\ NoDoFault

\* The platform fires the alarm, waking the object.
Alarm ==
    /\ alarm \in {"set", "firing"} /\ alarm' = "handling"
    /\ object' = Woken
    /\ UNCHANGED <<misnamed, worker, doCalls, socks, doVer, ran>> /\ NoDoFault

\* onAlarm, with the host bound; the actor's turn may change it.
OnAlarm ==
    /\ alarm = "handling" /\ object = "ready"
    /\ alarm' = "none" /\ ran' = ran \cup {<<Own, Own>>}
    /\ \/ doVer < MaxDoVer /\ doVer' = doVer + 1 /\ socks' = Pushed(doVer + 1)
       \/ UNCHANGED <<doVer, socks>>
    /\ UNCHANGED <<misnamed, worker, object, doCalls>> /\ NoDoFault

\* The isolate goes, and with it the host and the sessions map.
Evict ==
    /\ object \in {"none", "ready"} /\ Waiting = {} /\ Upgrading = {} /\ alarm # "handling"
    /\ \A s \in DoSocks : socks[s].frame = "none"
    /\ DoFault
    /\ object' = "gone"
    /\ socks' = [s \in DoSocks |-> [socks[s] EXCEPT !.session = FALSE, !.watching = FALSE]]
    /\ UNCHANGED <<misnamed, worker, doCalls, alarm, doVer, ran>>

------------------------------------------------------------------------------
(* Object-terminated sockets                                               *)

\* An upgrade the Worker forwarded: a ref this object is not named for is
\* refused, and the session waits for the boot.
Upgrade(s) ==
    /\ socks[s].pc = "none"
    /\ \E r \in {Own, OtherRef} :
          /\ WorkerName(r) = Own
          /\ IF Serves(r) THEN /\ socks' = [socks EXCEPT ![s].pc = "upgrading"]
                               /\ object' = Woken
             ELSE /\ UNCHANGED socks
                  /\ object' = IF object = "gone" THEN "none" ELSE object
    /\ UNCHANGED <<misnamed, worker, doCalls, alarm, doVer, ran>> /\ NoDoFault

\* The session is constructed and registered, or refuses; no frame can come
\* before the 101 is returned.
Accept(s) ==
    /\ socks[s].pc = "upgrading" /\ object = "ready"
    /\ \/ socks' = [socks EXCEPT ![s].pc = "open", ![s].session = TRUE]
       \/ socks' = [socks EXCEPT ![s] = NoSock]
    /\ UNCHANGED <<misnamed, worker, object, doCalls, alarm, doVer, ran>> /\ NoDoFault

\* A client sends: a subscription, or bytes that are no text.
Send(s) ==
    /\ socks[s].pc = "open" /\ socks[s].frame = "none"
    /\ \/ socks' = [socks EXCEPT ![s].frame = "sub"] /\ NoDoFault
       \/ socks' = [socks EXCEPT ![s].frame = "binary"] /\ DoFault
    /\ UNCHANGED <<misnamed, worker, object, doCalls, alarm, doVer, ran>>

\* maxConnectionMs passes.  The session's timer is in the isolate; the
\* attachment carries the deadline across an eviction.
Lapse(s) ==
    /\ socks[s].pc = "open" /\ ~socks[s].past
    /\ socks' = [socks EXCEPT ![s].past = TRUE]
    /\ UNCHANGED <<misnamed, worker, object, doCalls, alarm, doVer, ran>> /\ NoDoFault

\* #deadlinePassed, from the attachment; one that cannot be read back counts as
\* not passed.
DeadlinePassed(s, unread) == socks[s].past /\ ~unread

\* webSocketMessage: it wakes the object, but starts no host.
Message(s) ==
    /\ socks[s].pc = "open" /\ socks[s].frame # "none"
    /\ object' = IF object = "gone" THEN "none" ELSE object
    /\ \E unread \in BOOLEAN :
          /\ IF unread THEN DoFault ELSE NoDoFault
          /\ IF \/ socks[s].frame = "binary" \/ DeadlinePassed(s, unread)
                \/ ~socks[s].session
             THEN socks' = [socks EXCEPT ![s] = [NoSock EXCEPT !.pc = "closed"]]
             ELSE socks' = [socks EXCEPT ![s].frame = "none", ![s].watching = TRUE,
                            ![s].shown = doVer, ![s].late = socks[s].past /\ ~unread]
    /\ UNCHANGED <<misnamed, worker, doCalls, alarm, doVer, ran>>

\* The session's timer, while it is resident.
SessionLapses(s) ==
    /\ socks[s].pc = "open" /\ socks[s].session /\ socks[s].past
    /\ socks' = [socks EXCEPT ![s] = [NoSock EXCEPT !.pc = "closed"]]
    /\ UNCHANGED <<misnamed, worker, object, doCalls, alarm, doVer, ran>> /\ NoDoFault

\* Ownership asked of the tag, which the runtime has dropped by now.
DropByTag(s) == [socks EXCEPT ![s].pc = "closed"]

\* The sessions map is asked first: #dropSession.
DropSession(s) == [socks EXCEPT ![s] = [NoSock EXCEPT !.pc = "closed"]]

\* webSocketClose / webSocketError: the page went away.
SocketClosed(s) ==
    /\ socks[s].pc = "open"
    /\ socks' = DropSession(s)
    /\ object' = IF object = "gone" THEN "none" ELSE object
    /\ UNCHANGED <<misnamed, worker, doCalls, alarm, doVer, ran>> /\ NoDoFault

\* The page dials again.
Redial(s) ==
    /\ socks[s].pc = "closed" /\ ~socks[s].session
    /\ socks' = [socks EXCEPT ![s] = NoSock]
    /\ UNCHANGED <<misnamed, worker, object, doCalls, alarm, doVer, ran>> /\ NoDoFault

DoNext ==
    \/ \E c \in DoCalls : WorkerFetch(c) \/ Dispatch(c) \/ ObjectRuns(c)
    \/ Build \/ Boot \/ Alarm \/ OnAlarm \/ Evict
    \/ \E s \in DoSocks : Upgrade(s) \/ Accept(s) \/ Send(s) \/ Lapse(s) \/ Message(s)
                          \/ SessionLapses(s) \/ SocketClosed(s) \/ Redial(s)
DoSpec == DoInit /\ [][DoNext]_doVars

------------------------------------------------------------------------------
(* Properties                                                              *)

\* The state has its type; a build that failed is forgotten
\* (worker.ts:198-202, host.ts:202-207).
DoTypeOK ==
    /\ misnamed \in BOOLEAN
    /\ worker \in {"none", "building", "started"}
    /\ object \in {"gone", "none", "booting", "ready"}
    /\ \A c \in DoCalls : doCalls[c].ref \in Refs
                          /\ doCalls[c].pc \in {"idle", "worker", "object", "done"}
    /\ \A s \in DoSocks : socks[s].pc \in {"none", "upgrading", "open", "closed"}
                          /\ socks[s].shown \in 0..doVer
    /\ alarm \in {"none", "set", "firing", "handling"}
    /\ doVer \in 0..MaxDoVer

\* Nobody waits for a boot that is not under way: a request, an upgrade or an
\* alarm inside the object finds it booting or booted, and one inside the
\* Worker a build (host.ts:202-207, worker.ts:198-202).
WaitersAreServed ==
    /\ Waiting \cup Upgrading # {} \/ alarm = "handling" => object \in {"booting", "ready"}
    /\ (\E c \in DoCalls : doCalls[c].pc = "worker") => worker \in {"building", "started"}

\* An actor runs in the object its own name derives and nowhere else, even when
\* the Worker's naming disagrees with the object's; a stateless worker never
\* runs in an object (host.ts:296-324, placement.ts:375-390).
OneHomePerActor ==
    \A r \in Refs, p \in {Own, "worker", "elsewhere"} :
        <<r, p>> \in ran => \/ r = PoolRef /\ p = "worker"
                            \/ r = Own /\ p = Own
                            \/ r = OtherRef /\ p = "elsewhere"

\* A session does not outlive its socket: the watch it holds, and the
\* activation the watch keeps, go when the page goes (host.ts:483-502, 535-547).
SessionHasSocket == \A s \in DoSocks : socks[s].session => socks[s].pc = "open"

\* No frame of a connection past its lifetime is acted on, unless its attachment
\* could not be read back, however late the
\* session's own timer and whatever happened to the isolate in between
\* (host.ts:488-520).
LifetimeEnforced == \A s \in DoSocks : ~socks[s].late

\* "Hibernation makes an idle page free": a page that watches shows what the
\* actor is.  (Not after an eviction: the watch is gone, pings are answered by
\* the runtime, and only a frame of the page's own would tell it.)
IdlePageHears ==
    \A s \in DoSocks : socks[s].pc = "open" /\ socks[s].frame = "none" /\ socks[s].shown > 0
                       => socks[s].shown = doVer
==============================================================================
