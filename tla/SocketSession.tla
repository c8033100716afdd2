--------------------------- MODULE SocketSession ---------------------------
(***************************************************************************)
(* A browser's socket, both ends: socketTransport() of actors-ws/client.ts *)
(* with the live channel of app/live-shared.ts, and the session of         *)
(* server/socket-session.ts behind the upgrade of actors-ws/node.ts.       *)
(*                                                                         *)
(* Each dial that opens makes one session with a FIFO of messages in each  *)
(* direction.  The two ends learn of a lost socket separately, so a session *)
(* may outlive its client.  Calls and subscriptions share one id space.    *)
(* The page watches one read, whose value is the actor's version; payloads, *)
(* symbols, pings and byte counts are left out, and what decides on them   *)
(* (the size cap, authorization, the identity re-check, the lifetime, the  *)
(* send-buffer cap) is a nondeterministic outcome.                         *)
(***************************************************************************)
EXTENDS Integers, Sequences, FiniteSets

CONSTANTS
  SockCalls,         \* calls the page makes
  OneWays,           \* those of them sent with w: 1
  MaxSockIds,        \* bound on ids the transport hands out
  MaxDials,          \* bound on connections that open
  MaxToggles,        \* bound on subscribe/unsubscribe
  MaxSockVer,        \* bound on changes of the watched read
  MaxConcurrent,     \* the session's maxConcurrent
  MaxSockFaults      \* bound on dials refused, links lost, sessions ended, errors

ASSUME SockAssumption ==
  /\ OneWays \subseteq SockCalls
  /\ MaxSockIds \in Nat /\ MaxDials \in Nat /\ MaxToggles \in Nat
  /\ MaxSockVer \in Nat /\ MaxConcurrent \in Nat /\ MaxSockFaults \in Nat

VARIABLES
  cli,        \* the transport: closed, link, opening, redial, nextId
  called,     \* call -> [at, id, got]
  liveSub,    \* the page's subscription: wanted, wire id, last value, errored
  sessions,   \* one record per connection that opened
  sockRan,    \* call -> times host.dispatch ran it
  sockVer,    \* the version of the watched read
  toggles,
  sockFaults

sockVars == <<cli, called, liveSub, sessions, sockRan, sockVer, toggles, sockFaults>>

Ids  == 1..MaxSockIds
Msg(t, i, v) == [t |-> t, i |-> i, v |-> v]
NoWork == [kind |-> "none", at |-> "over", tracked |-> FALSE, call |-> "none", sent |-> -1]
NewSession == [phase |-> "creating", gone |-> FALSE, inbox |-> <<>>, outbox |-> <<>>,
               work |-> [i \in Ids |-> NoWork], breach |-> FALSE]

CanFault == sockFaults < MaxSockFaults
Faulted  == sockFaults' = sockFaults + 1

(***************************************************************************)
(* The client.                                                             *)
(***************************************************************************)
\* post(): nothing is sent without a link.
Posted(ss, m) ==
  IF cli.link = 0 THEN ss ELSE [ss EXCEPT ![cli.link].inbox = Append(@, m)]

\* A call between ready() and its registration is a microtask away: no socket
\* event comes in between, only other page code.
NoneResuming == \A c \in SockCalls : called[c].at # "resumed"

\* call(): await ready(), which dials when there is no link.
Call(c) ==
  /\ called[c].at = "idle"
  /\ \/ /\ cli.closed
        /\ called' = [called EXCEPT ![c].at = "failed"]
        /\ UNCHANGED cli
     \/ /\ ~cli.closed /\ cli.link # 0
        /\ called' = [called EXCEPT ![c].at = "resumed"]
        /\ UNCHANGED cli
     \/ /\ ~cli.closed /\ cli.link = 0
        /\ called' = [called EXCEPT ![c].at = "waiting"]
        /\ cli' = [cli EXCEPT !.opening = TRUE]
  /\ UNCHANGED <<liveSub, sessions, sockRan, sockVer, toggles, sockFaults>>

\* The rest of call(): take an id, register, send.  One-way sends and returns.
Resume(c) ==
  /\ called[c].at = "resumed"
  /\ cli.nextId \in Ids
  /\ cli' = [cli EXCEPT !.nextId = @ + 1]
  /\ called' = [called EXCEPT ![c].at = IF c \in OneWays THEN "sent" ELSE "posted",
                              ![c].id = cli.nextId]
  /\ sessions' = Posted(sessions, Msg("call", cli.nextId, c))
  /\ UNCHANGED <<liveSub, sockRan, sockVer, toggles, sockFaults>>

\* The caller's abort signal, or a stream's consumer leaving: one cancel.
Abort(c) ==
  /\ called[c].at = "posted"
  /\ called' = [called EXCEPT ![c].at = "aborted"]
  /\ sessions' = Posted(sessions, Msg("cancel", called[c].id, 0))
  /\ UNCHANGED <<cli, liveSub, sockRan, sockVer, toggles, sockFaults>>

\* dropLink(): what was in flight fails, and is not sent again.
AfterLoss(r) == IF r.at = "posted" THEN [r EXCEPT !.at = "lost"] ELSE r

DropLink ==
  /\ called' = [c \in SockCalls |-> AfterLoss(called[c])]
  /\ cli' = [cli EXCEPT !.link = 0, !.redial = liveSub.wanted,
                        !.opening = liveSub.wanted \/ \E c \in SockCalls : called'[c].at = "waiting"]

\* The wire id of a subscription comes from the transport's own allocator.
SubWireId(n) == n

\* open(entry): one {i, sub}, or a dial in the background.
OpenSub(ss, k) ==
  /\ cli.nextId \in Ids
  /\ liveSub' = [liveSub EXCEPT !.wanted = TRUE, !.wire = SubWireId(cli.nextId),
                                !.errored = FALSE]
  /\ sessions' = IF k = 0 THEN ss
                 ELSE [ss EXCEPT ![k].inbox = Append(@, Msg("sub", SubWireId(cli.nextId), 0))]

Subscribe ==
  /\ toggles < MaxToggles /\ ~liveSub.wanted /\ ~cli.closed
  /\ toggles' = toggles + 1
  /\ OpenSub(sessions, cli.link)
  /\ cli' = [cli EXCEPT !.nextId = @ + 1, !.opening = @ \/ cli.link = 0]
  /\ UNCHANGED <<called, sockRan, sockVer, sockFaults>>

\* The last listener leaves: the entry goes, one {i, uns}.
Forgotten == [liveSub EXCEPT !.wanted = FALSE, !.wire = 0, !.value = -1, !.errored = FALSE]

TellNobody(ss) == ss
TellSession(ss) == Posted(ss, Msg("uns", liveSub.wire, 0))

Unsubscribe ==
  /\ toggles < MaxToggles /\ liveSub.wanted
  /\ toggles' = toggles + 1
  /\ liveSub' = Forgotten
  /\ sessions' = TellSession(sessions)
  /\ UNCHANGED <<cli, called, sockRan, sockVer, sockFaults>>

\* onOpen: adopt the link, reseed the subscription under a fresh id, release
\* every caller parked on ready().
DialOpens ==
  LET k == Len(sessions) + 1 IN
  /\ cli.opening /\ ~cli.closed /\ NoneResuming
  /\ k <= MaxDials
  /\ IF liveSub.wanted THEN OpenSub(Append(sessions, NewSession), k)
     ELSE sessions' = Append(sessions, NewSession) /\ UNCHANGED liveSub
  /\ cli' = [cli EXCEPT !.link = k, !.opening = FALSE, !.redial = FALSE,
                        !.nextId = IF liveSub.wanted THEN @ + 1 ELSE @]
  /\ called' = [c \in SockCalls |->
                  IF called[c].at = "waiting" THEN [called[c] EXCEPT !.at = "resumed"] ELSE called[c]]
  /\ UNCHANGED <<sockRan, sockVer, toggles, sockFaults>>

\* onClose before onOpen: the parked callers fail; redialForLive goes around.
DialFails ==
  /\ cli.opening /\ NoneResuming /\ CanFault /\ Faulted
  /\ called' = [c \in SockCalls |->
                  IF called[c].at = "waiting" THEN [called[c] EXCEPT !.at = "failed"] ELSE called[c]]
  /\ cli' = [cli EXCEPT !.redial = @ /\ liveSub.wanted, !.opening = cli.redial /\ liveSub.wanted]
  /\ UNCHANGED <<liveSub, sessions, sockRan, sockVer, toggles>>

LinkLost ==
  /\ cli.link # 0 /\ NoneResuming /\ CanFault /\ Faulted
  /\ DropLink
  /\ sessions' = [sessions EXCEPT ![cli.link].gone = TRUE, ![cli.link].outbox = <<>>]
  /\ UNCHANGED <<liveSub, sockRan, sockVer, toggles>>

\* handleMessage: calls first, then the live channel; an unknown id is dropped.
Settled(r, m) ==
  CASE m.t = "v" -> [r EXCEPT !.got = TRUE]
    [] m.t = "d" -> [r EXCEPT !.at = "resolved"]
    [] m.t = "e" -> [r EXCEPT !.at = "rejected"]

Receive ==
  LET k == cli.link
      m == Head(sessions[k].outbox)
      mine == {c \in SockCalls : called[c].at = "posted" /\ called[c].id = m.i}
  IN /\ k # 0 /\ NoneResuming
     /\ sessions[k].outbox # <<>>
     /\ \/ /\ m.t = "close"
           /\ DropLink
           /\ sessions' = [sessions EXCEPT ![k].outbox = <<>>, ![k].gone = TRUE]
           /\ UNCHANGED liveSub
        \/ /\ m.t # "close"
           /\ sessions' = [sessions EXCEPT ![k].outbox = Tail(@)]
           /\ called' = [c \in SockCalls |-> IF c \in mine THEN Settled(called[c], m) ELSE called[c]]
           /\ liveSub' = IF mine # {} \/ ~liveSub.wanted \/ m.i # liveSub.wire THEN liveSub
                         ELSE IF m.t = "v" THEN [liveSub EXCEPT !.value = m.v]
                         ELSE [liveSub EXCEPT !.errored = TRUE]
           /\ UNCHANGED cli
     /\ UNCHANGED <<sockRan, sockVer, toggles, sockFaults>>

\* close(): idempotent; a dial in flight is refused when it opens.
CloseTransport ==
  /\ ~cli.closed /\ CanFault /\ Faulted
  /\ cli' = [cli EXCEPT !.closed = TRUE, !.link = 0, !.opening = FALSE, !.redial = FALSE]
  /\ called' = [c \in SockCalls |-> IF called[c].at \in {"posted", "waiting"}
                  THEN [called[c] EXCEPT !.at = "failed"] ELSE called[c]]
  /\ liveSub' = Forgotten
  /\ sessions' = IF cli.link = 0 THEN sessions
                 ELSE [sessions EXCEPT ![cli.link].gone = TRUE, ![cli.link].outbox = <<>>]
  /\ UNCHANGED <<sockRan, sockVer, toggles>>

(***************************************************************************)
(* The session.                                                            *)
(***************************************************************************)
Alive(s) == s.phase = "live"
Reply(s, m) == IF s.gone THEN s ELSE [s EXCEPT !.outbox = Append(@, m)]
Untracked(s, i) == [s EXCEPT !.work[i].tracked = FALSE]

\* teardown(): every call and every watch of the session is aborted.
Torn(s) == [s EXCEPT !.phase = "closed", !.inbox = <<>>,
                     !.work = [i \in Ids |-> [s.work[i] EXCEPT !.tracked = FALSE]]]

\* fail(code): close the socket, tear down.
SessionFail(s) == Torn(Reply(s, Msg("close", 0, 0)))

\* The upgrade: the origin check and the prelude, then the session.
Created(k) ==
  /\ sessions[k].phase = "creating"
  /\ \/ /\ sessions' = [sessions EXCEPT ![k] =
                          IF sessions[k].gone THEN Torn(@) ELSE [@ EXCEPT !.phase = "live"]]
        /\ UNCHANGED sockFaults
     \/ /\ CanFault /\ Faulted
        /\ sessions' = [sessions EXCEPT ![k] = SessionFail(@)]
  /\ UNCHANGED <<cli, called, liveSub, sockRan, sockVer, toggles>>

\* handleParsed: a duplicate id is a protocol breach; over the cap the call
\* is refused.
InFlight(s) == {i \in Ids : s.work[i].kind = "call" /\ s.work[i].tracked}
Watching(s) == {i \in Ids : s.work[i].kind = "watch" /\ s.work[i].tracked}
Handled(s, m) ==
  LET taken == m.i \in InFlight(s) \cup Watching(s) IN
  CASE m.t \in {"call", "sub"} /\ taken ->
         [SessionFail(s) EXCEPT !.breach = TRUE]
    [] m.t = "call" /\ ~taken /\ Cardinality(InFlight(s)) >= MaxConcurrent ->
         Reply(s, Msg("e", m.i, 429))
    [] m.t = "call" /\ ~taken /\ Cardinality(InFlight(s)) < MaxConcurrent ->
         [s EXCEPT !.work[m.i] = [kind |-> "call", at |-> "auth", tracked |-> TRUE,
                                  call |-> m.v, sent |-> -1]]
    [] m.t = "sub" /\ ~taken ->
         [s EXCEPT !.work[m.i] = [kind |-> "watch", at |-> "auth", tracked |-> TRUE,
                                  call |-> "none", sent |-> -1]]
    [] m.t \in {"cancel", "uns"} -> IF taken THEN Untracked(s, m.i) ELSE s

Handle(k) ==
  LET s == sessions[k] IN
  /\ Alive(s) /\ s.inbox # <<>>
  /\ sessions' = [sessions EXCEPT ![k] = Handled([s EXCEPT !.inbox = Tail(@)], Head(s.inbox))]
  /\ UNCHANGED <<cli, called, liveSub, sockRan, sockVer, toggles, sockFaults>>

\* The error frame a tracked operation ends with.
Errored(s, i) ==
  LET over == [s EXCEPT !.work[i].at = "over", !.work[i].tracked = FALSE]
  IN IF s.work[i].tracked /\ Alive(s) /\ s.work[i].call \notin OneWays
     THEN Reply(over, Msg("e", i, 0)) ELSE over

\* definition, authorization: refused, or handed to the host.  Neither is
\* called off by a cancel that arrives meanwhile.
Authorize(k, i) ==
  /\ sessions[k].work[i].at = "auth"
  /\ \/ sessions' = [sessions EXCEPT ![k].work[i].at = "run"] /\ UNCHANGED sockFaults
     \/ CanFault /\ Faulted /\ sessions' = [sessions EXCEPT ![k] = Errored(@, i)]
  /\ UNCHANGED <<cli, called, liveSub, sockRan, sockVer, toggles>>

\* host.dispatch and its reply, when the call is still tracked.
Answered(s, i) ==
  LET over == [s EXCEPT !.work[i].at = "over", !.work[i].tracked = FALSE]
  IN IF s.work[i].tracked /\ Alive(s) /\ s.work[i].call \notin OneWays
     THEN Reply(Reply(over, Msg("v", i, 0)), Msg("d", i, 0)) ELSE over

Dispatch(k, i) ==
  LET w == sessions[k].work[i] IN
  /\ w.kind = "call" /\ w.at = "run"
  /\ sockRan' = [sockRan EXCEPT ![w.call] = @ + 1]
  /\ \/ sessions' = [sessions EXCEPT ![k] = Answered(@, i)] /\ UNCHANGED sockFaults
     \/ CanFault /\ Faulted /\ sessions' = [sessions EXCEPT ![k] = Errored(@, i)]
  /\ UNCHANGED <<cli, called, liveSub, sockVer, toggles>>

\* One value of a watch.
DeliverValue(s, i) == Reply([s EXCEPT !.work[i].sent = sockVer], Msg("v", i, sockVer))

WatchValue(k, i) ==
  LET s == sessions[k] IN
  /\ s.work[i].kind = "watch" /\ s.work[i].at = "run"
  /\ s.work[i].tracked /\ s.work[i].sent # sockVer
  /\ sessions' = [sessions EXCEPT ![k] = DeliverValue(s, i)]
  /\ UNCHANGED <<cli, called, liveSub, sockRan, sockVer, toggles, sockFaults>>

\* The end of a watch: the read failed, its first value timed out or it was
\* shed (an error frame); or the actor stopped (no frame); or it was no
\* longer tracked.
WatchOver(k, i) ==
  LET s == sessions[k]
      over == [s EXCEPT !.work[i].at = "over", !.work[i].tracked = FALSE] IN
  /\ s.work[i].kind = "watch" /\ s.work[i].at = "run"
  /\ \/ ~s.work[i].tracked /\ sessions' = [sessions EXCEPT ![k] = over] /\ UNCHANGED sockFaults
     \/ /\ s.work[i].tracked /\ CanFault /\ Faulted
        /\ sessions' \in {[sessions EXCEPT ![k] = over], [sessions EXCEPT ![k] = Errored(s, i)]}
  /\ UNCHANGED <<cli, called, liveSub, sockRan, sockVer, toggles>>

\* The lifetime timer, the identity re-check, an oversized message.
SessionEnds(k) ==
  /\ Alive(sessions[k]) /\ CanFault /\ Faulted
  /\ sessions' = [sessions EXCEPT ![k] = SessionFail(@)]
  /\ UNCHANGED <<cli, called, liveSub, sockRan, sockVer, toggles>>

\* The socket's close event reaches the session.
SocketGone(k) ==
  /\ Alive(sessions[k]) /\ sessions[k].gone
  /\ sessions' = [sessions EXCEPT ![k] = Torn(@)]
  /\ UNCHANGED <<cli, called, liveSub, sockRan, sockVer, toggles, sockFaults>>

ReadChanges ==
  /\ sockVer < MaxSockVer
  /\ sockVer' = sockVer + 1
  /\ UNCHANGED <<cli, called, liveSub, sessions, sockRan, toggles, sockFaults>>

-----------------------------------------------------------------------------
SockInit ==
  /\ cli = [closed |-> FALSE, link |-> 0, opening |-> FALSE, redial |-> FALSE, nextId |-> 1]
  /\ called = [c \in SockCalls |-> [at |-> "idle", id |-> 0, got |-> FALSE]]
  /\ liveSub = [wanted |-> FALSE, wire |-> 0, value |-> -1, errored |-> FALSE]
  /\ sessions = <<>>
  /\ sockRan = [c \in SockCalls |-> 0]
  /\ sockVer = 0 /\ toggles = 0 /\ sockFaults = 0

SockNext ==
  \/ \E c \in SockCalls : Call(c) \/ Resume(c) \/ Abort(c)
  \/ Subscribe \/ Unsubscribe \/ DialOpens \/ DialFails \/ LinkLost \/ Receive
  \/ CloseTransport \/ ReadChanges
  \/ \E k \in DOMAIN sessions :
       \/ Created(k) \/ Handle(k) \/ SessionEnds(k) \/ SocketGone(k)
       \/ \E i \in Ids : Authorize(k, i) \/ Dispatch(k, i) \/ WatchValue(k, i) \/ WatchOver(k, i)

SockSpec == SockInit /\ [][SockNext]_sockVars

-----------------------------------------------------------------------------
\* The types of the state; a session that has closed tracks nothing.
SockTypeOK ==
  /\ cli.link \in 0..Len(sessions) /\ cli.nextId \in 1..MaxSockIds + 1
  /\ liveSub.value \in -1..MaxSockVer /\ liveSub.wire \in 0..MaxSockIds
  /\ \A k \in DOMAIN sessions : sessions[k].phase = "closed" =>
       InFlight(sessions[k]) \cup Watching(sessions[k]) = {}

\* A call of the page runs at most once however often the socket drops, and
\* one that resolved ran and carried its value.
PageCallsRunOnce ==
  \A c \in SockCalls : /\ sockRan[c] <= 1
                       /\ called[c].at = "resolved" => sockRan[c] = 1 /\ called[c].got

\* The transport never reuses an id the session still holds: a page's own
\* traffic never trips the duplicate-id check that closes its connection.
NeverBreaches == \A k \in DOMAIN sessions : ~sessions[k].breach

Calm(k) == /\ Alive(sessions[k]) /\ ~sessions[k].gone
           /\ sessions[k].inbox = <<>> /\ sessions[k].outbox = <<>>

\* With nothing on the wire, the session watches exactly what the page wants
\* (or what it was told failed), whatever the order of subscribing, leaving,
\* dropping and re-seeding.
NoOrphanWatch ==
  \A k \in DOMAIN sessions : k = cli.link /\ Calm(k) =>
    Watching(sessions[k]) \subseteq (IF liveSub.wanted THEN {liveSub.wire} ELSE {})

\* And a page whose watch is up to date on the session shows that value.
PageShowsCurrent ==
  \A k \in DOMAIN sessions : k = cli.link /\ Calm(k) /\ liveSub.wanted =>
    \A i \in Watching(sessions[k]) :
       sessions[k].work[i].sent = sockVer => liveSub.value = sockVer

\* close() leaves nobody waiting: a call that is registered has a connection
\* that can answer it or drop it.
NobodyWaitsForever == \A c \in SockCalls : called[c].at = "posted" => cli.link # 0

\* While the page has a subscription, the transport has a link or is dialling.
KeepsDialling == liveSub.wanted /\ ~cli.closed => cli.link # 0 \/ cli.opening
=============================================================================
