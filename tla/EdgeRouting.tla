----------------------------- MODULE EdgeRouting -----------------------------
(***************************************************************************)
(* A client's calls over HTTP, from the generated proxy to the turn:       *)
(* client/routing.ts (routedTransport over a learning router),             *)
(* client/index.ts (send, with its one resend of a connection error), and  *)
(* the public endpoint they reach (server/actor-endpoint.ts), which        *)
(* authorizes, answers 421 for an actor that lives elsewhere, or           *)
(* dispatches.                                                             *)
(*                                                                         *)
(* Hosts do not agree on who owns an actor: a host answers locate() from   *)
(* its own cache and membership view (believes), which trails the owner.   *)
(* Behind dispatch is the placement's own routing loop (module Routing);   *)
(* here it runs the turn, fails it, or refuses it.                         *)
(*                                                                         *)
(* The last part of the module is one streamed response of that endpoint,  *)
(* with variables and a specification of its own (EdgeStreamSpec).         *)
(***************************************************************************)
EXTENDS Naturals, Sequences, FiniteSets

CONSTANTS
    EdgeHosts,      \* hosts with a public endpoint mount
    FrontDoor,          \* the endpoint a call goes to when the router says nothing
    Reachable,      \* hosts that publish a publicAddress
    EdgeActors,     \* actors called
    EdgeCalls,      \* calls
    MissModes,      \* values of onMiss that occur
    Resends,        \* retryConnectionErrors
    MaxHops,        \* redirects a mount answers before it proxies
    MaxRedirects,   \* attempts a routed call makes after the first
    RouteCap,       \* entries of the learning router
    MaxEdgeFaults   \* bound: crashes, moves, resets, failing turns, in all

ASSUME EdgeAssumption ==
    /\ FrontDoor \in EdgeHosts /\ Reachable \subseteq EdgeHosts
    /\ MissModes \subseteq {"proxy", "redirect", "auto"}
    /\ Resends \in BOOLEAN
    /\ {MaxHops, MaxRedirects, RouteCap, MaxEdgeFaults} \subseteq Nat
    /\ MaxHops <= MaxRedirects

NoRoute == "none"

VARIABLES
    edgeUp,      \* hosts that are up
    home,        \* home[a]: the host that owns a
    believes,    \* believes[h][a]: who h's locate() says owns a
    onMiss,      \* onMiss[h]: the mount's option
    learnt,      \* the router's cache, oldest write first: <<actor, endpoint>>
    calls,       \* the calls
    edgeFaults   \* faults so far
edgeVars == <<edgeUp, home, believes, onMiss, learnt, calls, edgeFaults>>

NewCall == [pc |-> "idle", actor |-> "", stream |-> FALSE, allowed |-> TRUE,
            route |-> NoRoute, attempt |-> 0, resent |-> FALSE, reply |-> "",
            runs |-> 0, redirects |-> 0, retries |-> 0, chunks |-> {}]

EdgeInit ==
    /\ edgeUp = EdgeHosts
    /\ \E a0 \in [EdgeActors -> EdgeHosts] :
          home = a0 /\ believes = [h \in EdgeHosts |-> a0]
    /\ \E m \in MissModes : onMiss = [h \in EdgeHosts |-> m]
    /\ learnt = <<>>
    /\ calls = [c \in EdgeCalls |-> NewCall]
    /\ edgeFaults = 0

EdgeFault == edgeFaults < MaxEdgeFaults /\ edgeFaults' = edgeFaults + 1
NoEdgeFault == UNCHANGED edgeFaults

------------------------------------------------------------------------------
(* The learning router                                                     *)

OthersIn(cache, a) == SelectSeq(cache, LAMBDA r : r[1] # a)

\* routeCache.set: the oldest write goes when the map is full, and an actor
\* learnt again moves to the back.
LearntTo(cache, a, e) ==
    LET rest == OthersIn(cache, a)
        kept == IF Len(rest) = Len(cache) /\ Len(cache) >= RouteCap
                THEN Tail(rest) ELSE rest
    IN IF RouteCap = 0 THEN cache ELSE Append(kept, <<a, e>>)

\* prune(endpoint): every actor mapped there.
Pruned(cache, e) == SelectSeq(cache, LAMBDA r : r[2] # e)

RouteFor(a) ==
    LET hits == {i \in DOMAIN learnt : learnt[i][1] = a}
    IN IF hits = {} THEN NoRoute ELSE learnt[CHOOSE i \in hits : TRUE][2]

------------------------------------------------------------------------------
(* The client                                                              *)

Endpoint(c) == IF calls[c].route = NoRoute THEN FrontDoor ELSE calls[c].route

\* What the calls hold when c's attempt goes to r next.
Reroute(c, r) == [calls EXCEPT ![c].pc = "sending", ![c].route = r,
                    ![c].attempt = @ + 1, ![c].resent = FALSE, ![c].reply = ""]

SettleCall(c, how) == calls' = [calls EXCEPT ![c].pc = "done", ![c].reply = how,
                        ![c].route = NoRoute, ![c].attempt = 0, ![c].resent = FALSE]

\* A proxy method is called: the router is asked once, and one that throws is
\* a router with no opinion.
Begin(c) ==
    /\ calls[c].pc = "idle"
    /\ \E a \in EdgeActors, kind \in {"call", "stream", "denied"}, heard \in BOOLEAN :
          calls' = [calls EXCEPT ![c].pc = "sending", ![c].actor = a,
                      ![c].stream = kind = "stream", ![c].allowed = kind # "denied",
                      ![c].route = IF heard THEN RouteFor(a) ELSE NoRoute]
    /\ UNCHANGED <<edgeUp, home, believes, onMiss, learnt>> /\ NoEdgeFault

\* A header that starts one attempt late.
HopsSentLate(c) == IF calls[c].attempt > 1 THEN calls[c].attempt - 1 ELSE 0

\* initFor: the follow header always, the hop count from the second attempt.
HopsSent(c) == calls[c].attempt

\* nextRoute, on a 421: learn where the actor lives, drop nothing else.
Follow(c, e) ==
    IF calls[c].attempt >= MaxRedirects
    THEN SettleCall(c, "wrong-host") /\ UNCHANGED learnt
    ELSE /\ calls' = [Reroute(c, e) EXCEPT ![c].redirects = @ + 1]
         /\ learnt' = LearntTo(learnt, calls[c].actor, e)

\* nextRoute, on a failure with no status or a 5xx: an endpoint the router
\* chose is forgotten and the default asked; the default's failure, and every
\* other status, is the caller's.
GiveUpOn(c, how) ==
    IF calls[c].route # NoRoute /\ calls[c].attempt < MaxRedirects
    THEN /\ calls' = [Reroute(c, NoRoute) EXCEPT ![c].retries = @ + 1]
         /\ learnt' = Pruned(learnt, calls[c].route)
    ELSE SettleCall(c, how) /\ UNCHANGED learnt

\* The fetch rejects before there was a response: a connection error is sent again
\* once, as it was; any other rejection (a name, a certificate) is not.
FetchRejects(c, connection) ==
    IF connection /\ Resends /\ ~calls[c].resent
    THEN /\ calls' = [calls EXCEPT ![c].pc = "sending", ![c].resent = TRUE,
                        ![c].reply = "", ![c].retries = @ + 1]
         /\ UNCHANGED learnt
    ELSE GiveUpOn(c, "unreachable")

\* The dial fails, or the request was written to a socket being retired.
NotSent(c) ==
    /\ calls[c].pc = "sending"
    /\ \/ Endpoint(c) \notin edgeUp /\ FetchRejects(c, TRUE) /\ NoEdgeFault
       \/ /\ Endpoint(c) \in edgeUp /\ EdgeFault
          /\ \E connection \in BOOLEAN : FetchRejects(c, connection)
    /\ UNCHANGED <<edgeUp, home, believes, onMiss>>

\* The connection went away with the request on it.
Reset(c) ==
    /\ calls[c].pc = "reset"
    /\ FetchRejects(c, TRUE)
    /\ UNCHANGED <<edgeUp, home, believes, onMiss>> /\ NoEdgeFault

------------------------------------------------------------------------------
(* The public endpoint                                                     *)

\* prepare starts with the authorization, on the instance called.
Arrive(c) ==
    /\ calls[c].pc = "sending" /\ Endpoint(c) \in edgeUp
    /\ IF calls[c].allowed THEN calls' = [calls EXCEPT ![c].pc = "locating"]
       ELSE SettleCall(c, "denied")
    /\ UNCHANGED <<edgeUp, home, believes, onMiss, learnt>> /\ NoEdgeFault

\* redirectIfRemote: where h sends c, or h itself.  The routed transport always
\* sends the follow header, so "auto" redirects as "redirect" does.
SentTo(c, h) ==
    LET owner == believes[h][calls[c].actor]
    IN IF onMiss[h] = "proxy" \/ HopsSent(c) >= MaxHops \/ owner \notin Reachable
       THEN h ELSE owner

Locate(c) ==
    LET h == Endpoint(c)
        to == SentTo(c, h)
    IN /\ calls[c].pc = "locating"
       /\ IF to = h
          THEN calls' = [calls EXCEPT ![c].pc = "dispatching"] /\ UNCHANGED learnt
          ELSE Follow(c, to)
       /\ UNCHANGED <<edgeUp, home, believes, onMiss>> /\ NoEdgeFault

\* Dispatch: the placement finds the owner, or makes this host the owner of an
\* actor whose host is gone, and the turn runs there.
HomeOfRun(c) ==
    IF home[calls[c].actor] \in edgeUp THEN home
    ELSE [home EXCEPT ![calls[c].actor] = Endpoint(c)]

RunTurn(c) ==
    /\ calls[c].pc = "dispatching"
    /\ home' = HomeOfRun(c)
    /\ \/ /\ calls' = [calls EXCEPT ![c].pc = "answered", ![c].runs = @ + 1,
                         ![c].reply = "ok"]
          /\ NoEdgeFault
       \/ \* the turn throws (500, 409), or its deadline passes while it runs (504)
          /\ \E status \in {"5xx", "4xx"} :
                calls' = [calls EXCEPT ![c].pc = "answered", ![c].runs = @ + 1,
                            ![c].reply = status]
          /\ EdgeFault
    /\ UNCHANGED <<edgeUp, believes, onMiss, learnt>>

\* The connection alone goes, the host is up: a call that was dispatched runs all
\* the same, or is cancelled before its turn.
ConnectionLost(c) ==
    /\ calls[c].pc \in {"locating", "dispatching", "answered"} /\ EdgeFault
    /\ \/ calls' = [calls EXCEPT ![c].pc = "reset"] /\ UNCHANGED home
       \/ /\ calls[c].pc = "dispatching"
          /\ calls' = [calls EXCEPT ![c].pc = "reset", ![c].runs = @ + 1]
          /\ home' = HomeOfRun(c)
    /\ UNCHANGED <<edgeUp, believes, onMiss, learnt>>

\* toClientError: host-shutdown, wrong-host, unreachable and fenced are 503,
\* overloaded is 429: nothing ran.
Refuse(c) ==
    /\ calls[c].pc = "dispatching"
    /\ \E status \in {"5xx", "4xx"} :
          calls' = [calls EXCEPT ![c].pc = "answered", ![c].reply = status]
    /\ EdgeFault
    /\ UNCHANGED <<edgeUp, home, believes, onMiss, learnt>>

\* The response reaches the client.
Answer(c) ==
    /\ calls[c].pc = "answered"
    /\ CASE calls[c].reply = "5xx" -> GiveUpOn(c, "5xx")
         [] calls[c].reply = "ok" /\ calls[c].stream ->
               /\ calls' = [calls EXCEPT ![c].pc = "streaming",
                              ![c].chunks = @ \cup {calls[c].attempt}]
               /\ UNCHANGED learnt
         [] OTHER -> SettleCall(c, calls[c].reply) /\ UNCHANGED learnt
    /\ UNCHANGED <<edgeUp, home, believes, onMiss>> /\ NoEdgeFault

\* Once a chunk was handed over, a failure is the consumer's.
Broken(c) == SettleCall(c, "broken") /\ UNCHANGED learnt

StreamStep(c) ==
    /\ calls[c].pc = "streaming"
    /\ \/ SettleCall(c, "ok") /\ UNCHANGED learnt /\ NoEdgeFault
       \/ Broken(c) /\ EdgeFault
    /\ UNCHANGED <<edgeUp, home, believes, onMiss>>

------------------------------------------------------------------------------
(* The cluster behind                                                      *)

\* A host dies: whoever has a request on it sees the connection reset, a
\* stream breaks.
Crash(h) ==
    /\ h \in edgeUp /\ edgeUp # {h} /\ EdgeFault
    /\ edgeUp' = edgeUp \ {h}
    /\ calls' = [c \in EdgeCalls |->
          IF Endpoint(c) = h /\ calls[c].pc \in {"locating", "dispatching", "answered"}
          THEN [calls[c] EXCEPT !.pc = "reset"]
          ELSE IF Endpoint(c) = h /\ calls[c].pc = "streaming"
          THEN [calls[c] EXCEPT !.pc = "done", !.reply = "broken",
                                   !.route = NoRoute, !.attempt = 0, !.resent = FALSE]
          ELSE calls[c]]
    /\ UNCHANGED <<home, believes, onMiss, learnt>>

\* An actor moves.
Move(a) ==
    /\ EdgeFault
    /\ \E h \in edgeUp \ {home[a]} : home' = [home EXCEPT ![a] = h]
    /\ UNCHANGED <<edgeUp, believes, onMiss, learnt, calls>>

\* A host hears where an actor lives now.
Notice(h, a) ==
    /\ h \in edgeUp /\ believes[h][a] # home[a]
    /\ believes' = [believes EXCEPT ![h][a] = home[a]]
    /\ UNCHANGED <<edgeUp, home, onMiss, learnt, calls>> /\ NoEdgeFault

CallStep(c) == Begin(c) \/ NotSent(c) \/ Reset(c) \/ Arrive(c) \/ Locate(c) \/ RunTurn(c)
               \/ ConnectionLost(c) \/ Refuse(c) \/ Answer(c) \/ StreamStep(c)
EdgeNext ==
    \/ \E c \in EdgeCalls : CallStep(c)
    \/ \E h \in EdgeHosts : Crash(h) \/ \E a \in EdgeActors : Notice(h, a)
    \/ \E a \in EdgeActors : Move(a)
EdgeSpec == EdgeInit /\ [][EdgeNext]_edgeVars

------------------------------------------------------------------------------
(* Properties                                                              *)

\* The state has its type: the router's map has one entry per actor and never
\* more than its cap, an attempt is within the redirects allowed
\* (client/routing.ts:155-184, 411-440).
EdgeTypeOK ==
    /\ edgeUp \subseteq EdgeHosts /\ edgeUp # {}
    /\ home \in [EdgeActors -> EdgeHosts]
    /\ believes \in [EdgeHosts -> [EdgeActors -> EdgeHosts]]
    /\ onMiss \in [EdgeHosts -> MissModes]
    /\ Len(learnt) <= RouteCap
    /\ \A i, j \in DOMAIN learnt : learnt[i][1] = learnt[j][1] => i = j
    /\ \A c \in EdgeCalls :
          /\ calls[c].attempt \in 0..MaxRedirects
          /\ calls[c].route \in EdgeHosts \cup {NoRoute}
    /\ edgeFaults \in 0..MaxEdgeFaults

\* Hosts that disagree about an owner cannot bounce a call off the client: the
\* hop count the client sends makes the last mount proxy, so a 421 never ends
\* a call (client/routing.ts:377-389, actor-endpoint.ts:500-504).
NoRedirectEscapes == \A c \in EdgeCalls : calls[c].reply # "wrong-host"

\* A redirect never costs a run: however often a call was bounced, it ran at
\* most once more than it was sent again after a failure
\* (actor-endpoint.ts:553-559: redirect BEFORE dispatching).
RedirectIsFree == \A c \in EdgeCalls : calls[c].runs <= 1 + calls[c].retries

\* A caller the policies refuse neither runs a turn nor is told where the actor
\* lives, whatever endpoint it was sent to (actor-endpoint.ts:552-559).
DeniedLearnsNothing ==
    \A c \in EdgeCalls : ~calls[c].allowed => calls[c].runs = 0 /\ calls[c].redirects = 0

\* What a consumer sees of a stream comes from one opening of it: a stream is
\* sent elsewhere before its first chunk or not at all
\* (client/routing.ts:472-498).
StreamNeverSpliced == \A c \in EdgeCalls : Cardinality(calls[c].chunks) <= 1

\* Routing is never load-bearing: a call runs its turn at most once.  (It does
\* not: a turn that ran and failed at a learnt endpoint runs again at the
\* default one, and a connection lost after the dispatch is taken for one that
\* never was.)
RunsOnce == \A c \in EdgeCalls : calls[c].runs <= 1

------------------------------------------------------------------------------
(***************************************************************************)
(* A streaming method on its way out of the public endpoint: the relay     *)
(* around the actor's iterator (stream-relay.ts), read by a response body  *)
(* that writes a ping into silence (withKeepalive in                       *)
(* server/actor-endpoint.ts).                                              *)
(*                                                                         *)
(* The body is a web ReadableStream of high-water mark 1: its pull runs    *)
(* when a reader waits or the queue has room, and never twice at a time.   *)
(***************************************************************************)
CONSTANTS HighWaterMark,   \* of the body's queue (the platform's default is 1)
          MaxYields        \* bound: values the actor's stream produces
ASSUME EdgeStreamAssumption == HighWaterMark \in Nat \ {0} /\ MaxYields \in Nat

VARIABLES
    inner,      \* the actor's iterator: "none" | "idle" | "pulled" | "over" | "returned"
    finished,   \* the relay's flag
    closed,     \* times onClose ran
    body,       \* "open" | "closing" | "over"
    queued,     \* lines in the body's queue
    reading,    \* a read of the body waits
    pulling,    \* pull() has not returned
    ping,       \* the silence timer is armed
    yields      \* values produced
edgeStreamVars == <<inner, finished, closed, body, queued, reading, pulling, ping, yields>>

EdgeStreamInit ==
    /\ inner = "none" /\ finished = FALSE /\ closed = 0
    /\ body = "open" /\ queued = 0 /\ reading = FALSE
    /\ pulling = FALSE /\ ping = TRUE /\ yields = 0

------------------------------------------------------------------------------
(* The relay                                                               *)

RelaySettled == finished' = TRUE /\ closed' = closed + 1
RelayUnsettled == UNCHANGED <<finished, closed>>

\* closeInner: return() on an iterator that was started, and only then.
ClosedInner == IF inner \in {"idle", "pulled"} THEN "returned" ELSE inner

\* relay.return: the request aborts, or the body's reader cancels.
RelayReturn ==
    IF finished THEN UNCHANGED <<inner, finished, closed>>
    ELSE RelaySettled /\ inner' = ClosedInner

------------------------------------------------------------------------------
(* The body                                                                *)

Room == queued < HighWaterMark

\* pull() starts: the clock restarts and the relay's next() is called.
PullStarts ==
    /\ body = "open" /\ ~pulling /\ (reading \/ Room)
    /\ pulling' = TRUE /\ ping' = TRUE
    /\ inner' = IF finished THEN inner ELSE "pulled"
    /\ UNCHANGED <<finished, closed, body, queued, reading, yields>>

\* A line enters the body: to the reader who waits, or to the queue.
Enqueued ==
    IF reading THEN reading' = FALSE /\ UNCHANGED queued
    ELSE queued' = queued + 1 /\ UNCHANGED reading

\* The actor's stream yields.
Yield ==
    /\ inner = "pulled" /\ pulling /\ yields < MaxYields
    /\ inner' = "idle" /\ yields' = yields + 1
    /\ Enqueued
    /\ pulling' = FALSE /\ ping' = TRUE
    /\ RelayUnsettled /\ UNCHANGED body

\* Every way out of pull() but a value disarms the clock.
PingAtEnd == FALSE

\* The stream ends or throws, or next() answers a relay already finished: the
\* body closes (behind its queue), or errors (dropping it).
PullEnds ==
    /\ pulling
    /\ \/ inner = "pulled" /\ inner' = "over" /\ RelaySettled
       \/ finished /\ UNCHANGED <<inner, finished, closed>>
    /\ pulling' = FALSE /\ ping' = PingAtEnd /\ reading' = FALSE
    /\ \/ body' = (IF queued = 0 THEN "over" ELSE "closing") /\ UNCHANGED queued
       \/ body' = "over" /\ queued' = 0
    /\ UNCHANGED yields

\* pingMs of silence: a line when there is room, and the clock goes on;
\* without room it stops.
Tick ==
    /\ ping
    /\ IF Room THEN Enqueued /\ UNCHANGED ping
       ELSE ping' = FALSE /\ UNCHANGED <<queued, reading>>

TickStep ==
    /\ body = "open" /\ Tick
    /\ UNCHANGED <<inner, finished, closed, body, pulling, yields>>

\* The server that writes the response asks for more.
Read ==
    /\ body \in {"open", "closing"} /\ ~reading
    /\ IF queued > 0 THEN queued' = queued - 1 /\ UNCHANGED reading
       ELSE reading' = TRUE /\ UNCHANGED queued
    /\ body' = IF body = "closing" /\ queued = 1 THEN "over" ELSE body
    /\ UNCHANGED <<inner, finished, closed, pulling, ping, yields>>

\* The client went away: the body is cancelled, and with it the relay.
CancelBody ==
    /\ body \in {"open", "closing"}
    /\ body' = "over" /\ queued' = 0 /\ reading' = FALSE
    /\ pulling' = FALSE /\ ping' = FALSE
    /\ RelayReturn
    /\ UNCHANGED yields

\* The request's abort signal, seen by the relay first.
AbortRequest ==
    /\ body \in {"open", "closing"} /\ ~finished
    /\ RelayReturn
    /\ UNCHANGED <<body, queued, reading, pulling, ping, yields>>

EdgeStreamNext == PullStarts \/ Yield \/ PullEnds \/ TickStep \/ Read \/ CancelBody
                  \/ AbortRequest
EdgeStreamSpec == EdgeStreamInit /\ [][EdgeStreamNext]_edgeStreamVars

------------------------------------------------------------------------------
(* Properties                                                              *)

\* The state has its type, and an abandoned response gathers no pings
\* beyond the queue's mark (actor-endpoint.ts:204-221).
EdgeStreamTypeOK ==
    /\ inner \in {"none", "idle", "pulled", "over", "returned"}
    /\ finished \in BOOLEAN /\ closed \in Nat
    /\ body \in {"open", "closing", "over"}
    /\ queued \in 0..HighWaterMark + 1
    /\ {reading, pulling, ping} \subseteq BOOLEAN

\* No timer outlives the response it keeps alive (actor-endpoint.ts:232-256).
PingDiesWithBody == body # "open" => ~ping

\* Whoever leaves first - the stream, the reader, the abort signal - the actor's
\* iterator is never left running behind a relay that is finished: it ended,
\* was returned, or was never started (stream-relay.ts:80-147).
InnerNeverLeaks == finished => inner \in {"none", "over", "returned"}

\* onClose runs exactly once, when the relay finishes (stream-relay.ts:70-77).
ClosedOnce == closed = IF finished THEN 1 ELSE 0

\* "The timer exists while somebody is waiting for bytes": a reader who waits
\* is written to.  (Not so: the clock a full queue stopped is started by the
\* next pull(), and the pull that waits for the silent stream is still running.)
WaiterIsPinged == body = "open" /\ reading /\ pulling => ping
==============================================================================
