----------------------------- MODULE Refreshing -----------------------------
(***************************************************************************)
(* How a host's membership view follows the store: refreshCoalescer        *)
(* (cluster/coalesce.ts) with the refresh of the redis, postgres and       *)
(* surreal providers behind it, and the list-watch loop of the Kubernetes  *)
(* provider (actors-k8s/watch.ts) with its materialized view.              *)
(*                                                                         *)
(* The store's contents are the number of changes made to it.  A change is *)
(* written first and announced after (the version counter, then a push);   *)
(* an expiry changes the contents and announces nothing.                   *)
(***************************************************************************)
EXTENDS Integers, FiniteSets, FiniteSetsExt

CONSTANTS
  RefProviders,   \* subset of {"redis", "pg", "surreal", "k8s"}
  Demands,        \* refresh() callers
  QuietProviders, \* those configured with a quiet window (quietMs)
  MaxContent,     \* bound on changes of the store
  MaxRefFaults    \* bound on failed reads and lost pushes

ASSUME RefreshingAssumption ==
  /\ RefProviders \subseteq {"redis", "pg", "surreal", "k8s"}
  /\ IsFiniteSet(Demands) /\ QuietProviders \subseteq RefProviders
  /\ MaxContent \in Nat /\ MaxRefFaults \in Nat

VARIABLES
  via,        \* the provider
  store,      \* contents, version counter, changes not yet announced, expiries
  pushes,     \* announcements on their way to this host
  flight,     \* the refresh (or LIST) in flight
  trailing,   \* the trailing refresh asked for while one was in flight
  seen,       \* this host's view: contents, counter, exposed version
  demand,     \* refresh() calls: the contents when called, the answer
  settling,   \* leave() waits for the coalescer
  refCount    \* faults so far

refVars == <<via, store, pushes, flight, trailing, seen, demand, settling, refCount>>

Unread == -1
NoFlight   == [on |-> FALSE, ver |-> Unread, content |-> Unread, for |-> {}]
NoTrailing == [on |-> FALSE, versionless |-> FALSE, max |-> 0, for |-> {}]
NewFlight(ds)  == [NoFlight EXCEPT !.on = TRUE, !.for = ds]
K8s == via = "k8s"
QuietMs == via \in QuietProviders
RefFault == refCount < MaxRefFaults /\ refCount' = refCount + 1

(***************************************************************************)
(* The store.                                                              *)
(***************************************************************************)
\* A host joins, changes status or leaves: redis removes and bumps in one
\* MULTI; otherwise the row is written and the counter bumped after it.
Written ==
  /\ store.content < MaxContent
  /\ store' = [store EXCEPT !.content = @ + 1, !.unannounced = @ + 1]
  /\ UNCHANGED <<via, pushes, flight, trailing, seen, demand, settling, refCount>>

Announced ==
  /\ store.unannounced > 0
  /\ store' = [store EXCEPT !.unannounced = @ - 1, !.ver = @ + 1]
  /\ pushes' = pushes \cup {IF via \in {"surreal", "k8s"} THEN 0 ELSE store.ver + 1}
  /\ UNCHANGED <<via, flight, trailing, seen, demand, settling, refCount>>

Expires ==
  /\ store.content < MaxContent
  /\ store' = [store EXCEPT !.content = @ + 1, !.silent = TRUE]
  /\ UNCHANGED <<via, pushes, flight, trailing, seen, demand, settling, refCount>>

PushLost ==
  /\ RefFault /\ \E p \in pushes : pushes' = pushes \ {p}
  /\ store' = [store EXCEPT !.silent = TRUE]
  /\ UNCHANGED <<via, flight, trailing, seen, demand, settling>>

(***************************************************************************)
(* The coalescer.                                                          *)
(***************************************************************************)
Resting == ~flight.on /\ ~trailing.on

\* note(version): skipped when the view is past it, started when idle,
\* otherwise part of the one trailing refresh.
Note(p) ==
  /\ ~K8s /\ p \in pushes /\ pushes' = pushes \ {p}
  /\ \/ p > 0 /\ p <= seen.storeVer /\ UNCHANGED <<flight, trailing>>
     \/ ~(p > 0 /\ p <= seen.storeVer) /\ Resting /\ flight' = NewFlight({}) /\ UNCHANGED trailing
     \/ /\ ~(p > 0 /\ p <= seen.storeVer) /\ ~Resting
        /\ trailing' = [trailing EXCEPT !.on = TRUE, !.versionless = @ \/ p = 0,
                                        !.max = IF p > @ THEN p ELSE @]
        /\ UNCHANGED flight
  /\ UNCHANGED <<via, store, seen, demand, settling, refCount>>

Asked(d) == demand' = [demand EXCEPT ![d] = [st |-> "waiting", asked |-> store.content, got |-> Unread]]

\* Mutant: a demand joins the refresh already in flight.
DemandJoinsFlight(d) ==
  /\ flight' = IF flight.on THEN [flight EXCEPT !.for = @ \cup {d}] ELSE NewFlight({d} \cup trailing.for)
  /\ trailing' = IF flight.on THEN trailing ELSE NoTrailing
\* demand(): a refresh that starts now, or the trailing one; a pending quiet
\* window is cut short.
DemandJoins(d) ==
  /\ flight' = IF flight.on THEN flight ELSE NewFlight({d} \cup trailing.for)
  /\ trailing' = IF flight.on THEN [trailing EXCEPT !.on = TRUE, !.for = @ \cup {d}] ELSE NoTrailing

Demand(d) ==
  /\ ~K8s /\ demand[d].st = "idle" /\ Asked(d)
  /\ DemandJoins(d)
  /\ UNCHANGED <<via, store, pushes, seen, settling, refCount>>

\* The provider's refresh reads the counter and the rows: redis pipelines
\* them in that order, surreal reads both in one query, postgres on two
\* connections of its pool.
ReadCounter ==
  /\ ~K8s /\ flight.on /\ flight.ver = Unread
  /\ flight' = [flight EXCEPT !.ver = store.ver, !.content = IF via = "surreal" THEN store.content ELSE @]
  /\ UNCHANGED <<via, store, pushes, trailing, seen, demand, settling, refCount>>

ReadRows ==
  /\ ~K8s /\ flight.on /\ flight.content = Unread
  /\ via = "redis" => flight.ver # Unread
  /\ via # "surreal"
  /\ flight' = [flight EXCEPT !.content = store.content]
  /\ UNCHANGED <<via, store, pushes, trailing, seen, demand, settling, refCount>>

\* The exposed version moves on every observed change, past the counter if
\* it must (#267).
Exposed(ver) == IF ver > seen.version + 1 THEN ver ELSE seen.version + 1

Observe(ver, content) ==
  IF ver # seen.storeVer \/ content # seen.content
  THEN [storeVer |-> ver, content |-> content, version |-> Exposed(ver)] ELSE seen

Resolved(ds, content) ==
  [d \in Demands |-> IF d \in ds THEN [demand[d] EXCEPT !.st = "done", !.got = content] ELSE demand[d]]
Failed(ds) == [d \in Demands |-> IF d \in ds THEN [demand[d] EXCEPT !.st = "failed"] ELSE demand[d]]

\* runTrailing: whether the trailing refresh is still needed.
Due(s) == trailing.for # {} \/ trailing.versionless \/ s.storeVer < trailing.max

\* onFlightSettled without a quiet window.
AfterFlight(s) ==
  /\ flight' = IF trailing.on /\ Due(s) THEN NewFlight(trailing.for) ELSE NoFlight
  /\ trailing' = NoTrailing
  /\ settling' = IF settling = "waiting" /\ ~(trailing.on /\ Due(s)) THEN "settled" ELSE settling

\* With one, the trailing refresh waits it out.
AfterFlightQuiet ==
  /\ flight' = NoFlight /\ UNCHANGED trailing
  /\ settling' = IF settling = "waiting" /\ ~trailing.on THEN "settled" ELSE settling

FlightLands ==
  /\ ~K8s /\ flight.on /\ flight.ver # Unread /\ flight.content # Unread
  /\ LET s == Observe(flight.ver, flight.content)
     IN /\ seen' = s
        /\ demand' = Resolved(flight.for, s.content)
        /\ \/ (~QuietMs \/ ~trailing.on) /\ AfterFlight(s)
           \/ QuietMs /\ trailing.on /\ AfterFlightQuiet
  /\ UNCHANGED <<via, store, pushes, refCount>>

FlightFails ==
  /\ ~K8s /\ flight.on /\ RefFault
  /\ demand' = Failed(flight.for)
  /\ store' = [store EXCEPT !.silent = TRUE]
  /\ \/ (~QuietMs \/ ~trailing.on) /\ AfterFlight(seen)
     \/ QuietMs /\ trailing.on /\ AfterFlightQuiet
  /\ UNCHANGED <<via, pushes, seen>>

\* The quiet window ends.
QuietEnds ==
  /\ ~K8s /\ ~flight.on /\ trailing.on
  /\ AfterFlight(seen)
  /\ UNCHANGED <<via, store, pushes, seen, demand, refCount>>

\* leave(): no more pushes, then settled().
LeaveSettles ==
  /\ ~K8s /\ settling = "no"
  /\ pushes' = {} /\ store' = [store EXCEPT !.silent = TRUE]
  /\ settling' = IF Resting THEN "settled" ELSE "waiting"
  /\ UNCHANGED <<via, flight, trailing, seen, demand, refCount>>

(***************************************************************************)
(* The Kubernetes loop: LIST, then WATCH from it; a relist interrupts.     *)
(* flight.on is a LIST in flight, flight.content what it will answer,      *)
(* trailing.for the callers of relist(), trailing.on forceList.            *)
(***************************************************************************)
ListReads ==
  /\ K8s /\ flight.on /\ flight.content = Unread
  /\ flight' = [flight EXCEPT !.content = store.content]
  /\ UNCHANGED <<via, store, pushes, trailing, seen, demand, settling, refCount>>

Materialized(content) ==
  IF content # seen.content THEN [seen EXCEPT !.content = content, !.version = @ + 1] ELSE seen

\* replaceAll materializes the view, whose listeners may call refresh() in
\* the same turn (#checkSelfPresence does); then every waiter is settled.
ListLands ==
  /\ K8s /\ flight.on /\ flight.content # Unread
  /\ seen' = Materialized(flight.content)
  /\ flight' = NoFlight /\ trailing' = NoTrailing
  /\ \/ demand' = Resolved(trailing.for, flight.content)
     \/ \E d \in Demands :
          /\ demand[d].st = "idle" /\ flight.content # seen.content
          /\ demand' = [Resolved(trailing.for, flight.content) EXCEPT
                          ![d] = [st |-> "nested", asked |-> store.content, got |-> flight.content]]
  /\ UNCHANGED <<via, store, pushes, settling, refCount>>

\* relist(): the stream or the LIST is aborted and the LIST runs again.
Relisted == NewFlight({})

Relist(d) ==
  /\ K8s /\ demand[d].st = "idle" /\ Asked(d)
  /\ trailing' = [trailing EXCEPT !.for = @ \cup {d}]
  /\ flight' = IF flight.on THEN Relisted ELSE NewFlight({})
  /\ UNCHANGED <<via, store, pushes, seen, settling, refCount>>

\* The first LIST, a stream that ended with 410, and the retry after an error.
ListStarts ==
  /\ K8s /\ ~flight.on /\ RefFault
  /\ flight' = NewFlight({})
  /\ UNCHANGED <<via, store, pushes, trailing, seen, demand, settling>>

ListFails ==
  /\ K8s /\ flight.on /\ RefFault
  /\ demand' = Failed(trailing.for)
  /\ flight' = NewFlight({}) /\ trailing' = NoTrailing
  /\ UNCHANGED <<via, store, pushes, seen, settling>>

\* The watch delivers what changed, from where the LIST left off; leases that
\* merely aged are found by the sweep of the same table.
WatchDelivers ==
  /\ K8s /\ ~flight.on /\ seen.content < store.content
  /\ seen' = Materialized(seen.content + 1)
  /\ UNCHANGED <<via, store, pushes, flight, trailing, demand, settling, refCount>>

-----------------------------------------------------------------------------
RefInit ==
  /\ via \in RefProviders
  /\ store = [content |-> 0, ver |-> 0, unannounced |-> 0, silent |-> FALSE]
  /\ pushes = {} /\ flight = NoFlight /\ trailing = NoTrailing
  /\ seen = [storeVer |-> 0, content |-> 0, version |-> 0]
  /\ demand = [d \in Demands |-> [st |-> "idle", asked |-> Unread, got |-> Unread]]
  /\ settling = "no" /\ refCount = 0

RefNext ==
  \/ Written \/ Announced \/ Expires \/ PushLost
  \/ \E p \in pushes : Note(p)
  \/ \E d \in Demands : Demand(d) \/ Relist(d)
  \/ ReadCounter \/ ReadRows \/ FlightLands \/ FlightFails \/ QuietEnds \/ LeaveSettles
  \/ ListReads \/ ListLands \/ ListStarts \/ ListFails \/ WatchDelivers

RefSpec == RefInit /\ [][RefNext]_refVars

-----------------------------------------------------------------------------
\* Types; nobody waits on a coalescer at rest.
RefTypeOK ==
  /\ via \in RefProviders /\ pushes \subseteq 0..MaxContent
  /\ seen.content \in 0..store.content /\ seen.storeVer <= store.ver
  /\ ~K8s /\ Resting => settling # "waiting" /\ \A d \in Demands : demand[d].st # "waiting"

\* refresh() answers with a read that started at or after the call, whatever
\* was in flight: "the refreshed view excludes the leaver".
RefreshIsFresh == \A d \in Demands : demand[d].st = "done" => demand[d].got >= demand[d].asked

\* A push is enough: with every change announced and every push delivered,
\* the view is the store's without waiting for the poll.
PushQuiet == Resting /\ pushes = {} /\ store.unannounced = 0 /\ ~store.silent

PushIsEnough == PushQuiet /\ via \in {"redis", "surreal"} => seen.content = store.content

\* The same for every provider with a counter.
PushIsEnoughAnywhere == PushQuiet /\ ~K8s => seen.content = store.content

\* "Force a store round-trip", even from a listener of the view.
NestedRefreshIsFresh == \A d \in Demands : demand[d].st \in {"done", "nested"} => demand[d].got >= demand[d].asked

\* The version of the view strictly increases with every observed change.
ViewVersionMoves == [][seen'.content # seen.content => seen'.version > seen.version]_refVars
=============================================================================
