------------------------------ MODULE FetchPool ------------------------------
(***************************************************************************)
(* The two handles this code makes on first use and shares from then on:   *)
(* boundedFetch (node/bounded-fetch.ts), one undici Agent with a cap on    *)
(* its connections and a gauge that says how long it stood at the cap, and *)
(* the surreal connector (actors-surreal/connection.ts), one socket for a  *)
(* host's providers.                                                       *)
(*                                                                         *)
(* `full` is the history the gauge is compared with: the ticks during      *)
(* which the pool was really full.                                         *)
(***************************************************************************)
EXTENDS Integers, FiniteSets

CONSTANTS
    Libraries,       \* the handle modelled: subset of {"fetch", "surreal"}
    FetchCalls,      \* calls made through the handle
    Connections,     \* its `connections` option
    MaxFetchTicks,   \* bound: the clock
    MaxFetchFaults   \* bound: loads, or connects, that fail

ASSUME FetchAssumption ==
    Libraries \subseteq {"fetch", "surreal"} /\ Connections \in Nat \ {0} /\ MaxFetchTicks \in Nat /\ MaxFetchFaults \in Nat

VARIABLES
    lib,
    ready,        \* the cached promise: "none", "loading", "held" or "failed"
    agents,       \* Agents constructed, sockets opened
    fetches,      \* [FetchCalls -> "idle" | "loading" | "sent" | "done"]
    agentOf,      \* [FetchCalls -> the one a call went through, 0 for none]
    gauge,        \* [inflight, peak, queued, ms, since]; since = -1 for null
    ticks, full,  \* the clock, and how much of it the pool was full
    fetchFaults   \* failed loads so far
fetchVars == <<lib, ready, agents, fetches, agentOf, gauge, ticks, full, fetchFaults>>

FetchInit ==
    /\ lib \in Libraries
    /\ ready = "none" /\ agents = 0
    /\ fetches = [c \in FetchCalls |-> "idle"]
    /\ agentOf = [c \in FetchCalls |-> 0]
    /\ gauge = [inflight |-> 0, peak |-> 0, queued |-> 0, ms |-> 0, since |-> -1]
    /\ ticks = 0 /\ full = 0 /\ fetchFaults = 0

Live == {c \in FetchCalls : fetches[c] \in {"loading", "sent"}}
Awaiting == {c \in FetchCalls : fetches[c] = "loading"}

\* enter().
Entered(g) ==
    LET n == g.inflight + 1
    IN [g EXCEPT !.inflight = n,
                 !.peak = IF n > @ THEN n ELSE @,
                 !.queued = IF g.inflight >= Connections THEN @ + 1 ELSE @,
                 !.since = IF n >= Connections /\ @ = -1 THEN ticks ELSE @]

\* leave(), by so many calls.
Vacated(g, left) ==
    LET n == g.inflight - left
        closes == n < Connections /\ g.since # -1
    IN [g EXCEPT !.inflight = n,
                 !.ms = IF closes THEN @ + (ticks - g.since) ELSE @,
                 !.since = IF closes THEN -1 ELSE @]

\* stats(): with the interval still open.
SaturatedMs(g) == g.ms + (IF g.since = -1 THEN 0 ELSE ticks - g.since)

\* Only the fetch is counted.
Counted(g) == IF lib = "fetch" THEN Entered(g) ELSE g
Uncounted(g, left) == IF lib = "fetch" THEN Vacated(g, left) ELSE g

\* agentReady(), `pending ??=`: a call that finds no promise starts the load, any other
\* awaits the one there is.
JoinsLoad == IF ready = "none" THEN "loading" ELSE ready

CallFetch(c) ==
    /\ fetches[c] = "idle"
    /\ gauge' = Counted(gauge)
    /\ ready' = JoinsLoad
    /\ fetches' = [fetches EXCEPT ![c] = "loading"]
    /\ UNCHANGED <<lib, agents, agentOf, ticks, full, fetchFaults>>

AgentLoaded ==
    /\ ready = "loading"
    /\ ready' = "held" /\ agents' = agents + 1
    /\ UNCHANGED <<lib, fetches, agentOf, gauge, ticks, full, fetchFaults>>

\* `pending` is never cleared: the connect that was refused is the answer.
PendingAfter == "failed"
\* agentReady's catch clears the cache.
FailureForgotten == IF lib = "surreal" THEN PendingAfter ELSE "none"

\* The load, or the Agent's constructor, throws: everyone awaiting it rejects.
LoadThrows ==
    /\ ready = "loading" /\ fetchFaults < MaxFetchFaults
    /\ fetchFaults' = fetchFaults + 1
    /\ ready' = FailureForgotten
    /\ fetches' = [c \in FetchCalls |-> IF c \in Awaiting THEN "done" ELSE fetches[c]]
    /\ gauge' = Uncounted(gauge, Cardinality(Awaiting))
    /\ UNCHANGED <<lib, agents, agentOf, ticks, full>>

\* A query on a connection whose first connect was refused: refused as well.
RefusedQuery(c) ==
    /\ fetches[c] = "loading" /\ ready = "failed"
    /\ fetches' = [fetches EXCEPT ![c] = "done"]
    /\ gauge' = Uncounted(gauge, 1)
    /\ UNCHANGED <<lib, ready, agents, agentOf, ticks, full, fetchFaults>>

\* undici.fetch through the Agent.
SendFetch(c) ==
    /\ fetches[c] = "loading" /\ ready = "held"
    /\ fetches' = [fetches EXCEPT ![c] = "sent"]
    /\ agentOf' = [agentOf EXCEPT ![c] = agents]
    /\ UNCHANGED <<lib, ready, agents, gauge, ticks, full, fetchFaults>>

\* The response, or its failure: the call leaves either way.
EndFetch(c) ==
    /\ fetches[c] = "sent"
    /\ fetches' = [fetches EXCEPT ![c] = "done"]
    /\ gauge' = Uncounted(gauge, 1)
    /\ UNCHANGED <<lib, ready, agents, agentOf, ticks, full, fetchFaults>>

TickFetch ==
    /\ lib = "fetch"
    /\ ticks < MaxFetchTicks
    /\ ticks' = ticks + 1
    /\ full' = full + (IF Cardinality(Live) >= Connections THEN 1 ELSE 0)
    /\ UNCHANGED <<lib, ready, agents, fetches, agentOf, gauge, fetchFaults>>

FetchNext ==
    \/ AgentLoaded
    \/ LoadThrows
    \/ TickFetch
    \/ \E c \in FetchCalls : CallFetch(c) \/ RefusedQuery(c) \/ SendFetch(c) \/ EndFetch(c)
FetchSpec == FetchInit /\ [][FetchNext]_fetchVars

------------------------------------------------------------------------------
(* Properties                                                              *)

\* What the cap rests on is one Agent (one socket) for every call, however many first calls
\* race the load (bounded-fetch.ts:103-106), besides the types.
FetchTypeOK ==
    /\ ready \in {"none", "loading", "held", "failed"}
    /\ fetches \in [FetchCalls -> {"idle", "loading", "sent", "done"}]
    /\ gauge.inflight = (IF lib = "fetch" THEN Cardinality(Live) ELSE 0)
    /\ gauge.peak >= gauge.inflight /\ gauge.peak <= Cardinality(FetchCalls)
    /\ agents <= 1
    /\ \A c \in FetchCalls : agentOf[c] \in 0..1 /\ (fetches[c] = "sent" => agentOf[c] = 1)

\* The saturation a scrape reads is the time the pool was really full, over
\* any number of intervals and in the middle of one (bounded-fetch.ts:139-142).
SaturationIsTrue == SaturatedMs(gauge) = full

\* A call that waits for the Agent waits for a load under way, or for nothing:
\* no failed load is ever the answer of the helper for good
\* (bounded-fetch.ts:112-115).
LoadsAreRetried == lib = "fetch" /\ Awaiting # {} => ready \in {"loading", "held"}

\* The same of the surreal connection, which carries "a MEMBERSHIP HEARTBEAT,
\* whose obligation lasts as long as the host" (connection.ts:165-172).
ConnectsAreRetried == Awaiting # {} => ready \in {"loading", "held"}
===============================================================================
