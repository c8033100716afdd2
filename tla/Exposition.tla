----------------------------- MODULE Exposition ------------------------------
(***************************************************************************)
(* What leaves a host for its operators' systems: the text exposition a    *)
(* Prometheus server scrapes (actors-otel/prometheus.ts), the observable   *)
(* instruments an OpenTelemetry reader collects (actors-otel/              *)
(* metrics-bridge.ts), and the socket totals both read                     *)
(* (server/socket-stats.ts, with the places in server/socket-session.ts    *)
(* that count).  The digest of calls is that of module Monitoring.         *)
(*                                                                         *)
(* A scrape and a collection are synchronous: they are operators on the    *)
(* state, read in every one of its states.  `lived` is the history: the    *)
(* lifetimes of the sessions that are over.                                *)
(***************************************************************************)
EXTENDS Monitoring

CONSTANTS
    Sessions,     \* socket sessions
    WatchIds,     \* ids a page gives its subscriptions
    Requested,    \* the option bucketsSeconds, in microseconds
    MaxSubs,      \* bound: subscriptions opened
    MaxSpent      \* bound: calls, resets, activations, starts, upgrades and
                  \* subscriptions, in all

ASSUME ExpoAssumption ==
    Requested \subseteq Nat /\ MaxSubs \in Nat /\ MaxSpent \in Nat

VARIABLES
    grid,       \* the bounds in use: the default, or the ones requested
    mounted,    \* whether the app publishes socketStats()
    live,       \* whether the host runs; the exporters hold it while it does
    callbacks,  \* batch callbacks on the meter
    session,    \* [Sessions -> "new" | "open" | "refused" | "gone"]
    watches,    \* a session's table: [Sessions -> [WatchIds -> Nat]], 0 for no entry
    loops,      \* delivery loops not over yet: [s, i, n]
    totals,     \* the counters of socketStats()
    lifetime,   \* ... and its histogram
    lived, subsMade,
    starts      \* of the host
expoVars == <<grid, mounted, live, callbacks, session, watches, loops, totals, lifetime,
              lived, subsMade, starts>>
sockVars == <<session, watches, loops, totals, lifetime, lived, subsMade>>

Room == begun + monOps + subsMade + starts + Cardinality({s \in Sessions : session[s] # "new"})
            < MaxSpent

------------------------------------------------------------------------------
(* Buckets                                                                 *)

\* bucketUpperBoundsUs: every bucket but the last has one.
UpperBound(b) == ValueOf(b + 1)
NativeBounds == {UpperBound(b) : b \in 0..Buckets - 2}

\* A bound per octave.
DefaultGrid == {2 ^ o : o \in 0..MaxOctave + 1} \cap NativeBounds

\* snapGridUs: down to a native bound, or dropped.
Snapped(requested) ==
    {Max({b \in NativeBounds : b <= us}) : us \in {us \in requested : us >= Min(NativeBounds)}}

\* renderHistogram: the buckets whose upper bound is at most the grid's.
Cumulative(hist, g) ==
    FoldFunctionOnSet(+, 0, hist, {b \in 0..Buckets - 2 : UpperBound(b) <= g})

------------------------------------------------------------------------------
(* The socket totals                                                       *)

FreshTotals == [opened |-> 0, closed |-> 0, refused |-> 0, breaches |-> 0,
                subsOpened |-> 0, subsClosed |-> 0, shed |-> 0]

ExpoInit ==
    /\ grid \in {DefaultGrid, Snapped(Requested)}
    /\ mounted \in BOOLEAN
    /\ live = FALSE /\ callbacks = 0
    /\ session = [s \in Sessions |-> "new"]
    /\ watches = [s \in Sessions |-> [i \in WatchIds |-> 0]]
    /\ loops = {}
    /\ totals = FreshTotals
    /\ lifetime = Zeroes
    /\ lived = [d \in Durations |-> 0]
    /\ subsMade = 0 /\ starts = 0

Held(s) == {i \in WatchIds : watches[s][i] # 0}

\* The upgrade: a session, or a refusal before one.
Upgraded(s) ==
    /\ live /\ mounted /\ session[s] = "new" /\ Room
    /\ session' = [session EXCEPT ![s] = "open"]
    /\ totals' = [totals EXCEPT !.opened = @ + 1]
    /\ UNCHANGED <<watches, loops, lifetime, lived, subsMade, starts>>

Refused(s) ==
    /\ live /\ mounted /\ session[s] = "new" /\ Room
    /\ session' = [session EXCEPT ![s] = "refused"]
    /\ totals' = [totals EXCEPT !.refused = @ + 1]
    /\ UNCHANGED <<watches, loops, lifetime, lived, subsMade, starts>>

\* {sub}: an entry and its loop.
Subscribed(s, i) ==
    /\ session[s] = "open" /\ watches[s][i] = 0 /\ subsMade < MaxSubs /\ Room
    /\ subsMade' = subsMade + 1
    /\ watches' = [watches EXCEPT ![s][i] = subsMade']
    /\ loops' = loops \cup {[s |-> s, i |-> i, n |-> subsMade']}
    /\ totals' = [totals EXCEPT !.subsOpened = @ + 1]
    /\ UNCHANGED <<session, lifetime, lived, starts>>

\* {uns}, or the subscription that holds the most of a full send buffer: the
\* entry goes at once, the loop when it gets there.
Unsubscribed(s, i) ==
    /\ watches[s][i] # 0
    /\ watches' = [watches EXCEPT ![s][i] = 0]
    /\ \E shed \in {0, 1} :
          totals' = [totals EXCEPT !.subsClosed = @ + 1, !.shed = @ + shed]
    /\ UNCHANGED <<session, loops, lifetime, lived, subsMade, starts>>

\* The loop's own entry.
OwnEntry(l) == watches[l.s][l.i] = l.n

\* dispatchWatchFor's finally, whatever ended the loop.
LoopEnded(l) ==
    /\ loops' = loops \ {l}
    /\ IF OwnEntry(l)
       THEN /\ watches' = [watches EXCEPT ![l.s][l.i] = 0]
            /\ totals' = [totals EXCEPT !.subsClosed = @ + 1]
       ELSE UNCHANGED <<watches, totals>>
    /\ UNCHANGED <<session, lifetime, lived, subsMade, starts>>

\* teardown(), and the close counted once.
TornDown(s) == [totals EXCEPT !.closed = @ + 1, !.subsClosed = @ + Cardinality(Held(s))]

\* close() or fail(): of the adapter, of the lifetime, or for a breach.
SessionOver(s, breach) ==
    /\ session[s] = "open"
    /\ session' = [session EXCEPT ![s] = "gone"]
    /\ watches' = [watches EXCEPT ![s] = [i \in WatchIds |-> 0]]
    /\ totals' = [TornDown(s) EXCEPT !.breaches = @ + breach]
    /\ \E d \in Durations : /\ lifetime' = [lifetime EXCEPT ![BucketOf(d)] = @ + 1]
                            /\ lived' = [lived EXCEPT ![d] = @ + 1]
    /\ UNCHANGED <<loops, subsMade, starts>>

SockStep ==
    \/ \E s \in Sessions : Upgraded(s) \/ Refused(s)
    \/ \E s \in Sessions, breach \in {0, 1} : SessionOver(s, breach)
    \/ \E s \in Sessions, i \in WatchIds : Subscribed(s, i) \/ Unsubscribed(s, i)
    \/ \E l \in loops : LoopEnded(l)

------------------------------------------------------------------------------
(* The exporters                                                           *)

\* onStart: the host is held, and the bridge's callback attached with its
\* instruments.
Exported ==
    /\ ~live /\ Room
    /\ starts' = starts + 1
    /\ live' = TRUE /\ callbacks' = callbacks + 1
    /\ UNCHANGED <<grid, mounted, sockVars>>

\* onStop: detach?.()
Detached == callbacks - 1

Withdrawn ==
    /\ live /\ \A s \in Sessions : session[s] # "open"
    /\ live' = FALSE /\ callbacks' = Detached
    /\ UNCHANGED <<grid, mounted, sockVars, starts>>

None == [none |-> TRUE]

\* opened - closed, of the sessions and of their subscriptions.
SocketGauges == [sessions |-> totals.opened - totals.closed,
                 subs |-> totals.subsOpened - totals.subsClosed]

RenderedLifetime == IF totals.closed = 0 THEN None
                    ELSE [cum |-> [g \in grid |-> Cumulative(lifetime, g)],
                          count |-> CountIn(lifetime)]

\* renderSockets: no family at all without a digest, no histogram before a
\* session is over.
RenderSockets ==
    IF ~mounted THEN None
    ELSE [gauges |-> SocketGauges, counters |-> totals, lifetime |-> RenderedLifetime]

\* renderPrometheus, of the digest of this host and the histogram in it.
RenderPage ==
    LET report == Report(Collector)
    IN [rows |-> report.rows,
        created |-> meters[Collector].created,
        latency |-> [cum |-> [g \in grid |-> Cumulative(report.hist, g)],
                     count |-> CountIn(report.hist)],
        stats |-> live,
        sockets |-> RenderSockets]

\* The bridge's callback: counts, percentiles of what has samples, and the
\* socket totals when they are published.  Nobody collects without it.
Observed ==
    LET report == Report(Collector)
        percentiles(hist) == [q \in IF CountIn(hist) = 0 THEN {} ELSE {50, 90, 99}
                                |-> At(hist, q)]
    IN [rows |-> report.rows,
        created |-> meters[Collector].created,
        latency |-> percentiles(report.hist),
        sockets |-> IF ~mounted THEN None
                    ELSE [gauges |-> SocketGauges, counters |-> totals,
                          lifetime |-> percentiles(lifetime)]]

\* The calls of the host that is exported.
MeterStep ==
    /\ EndCall \/ (Room /\ (StartCall \/ ActivateActor(Collector) \/ ResetHost(Collector)))
    /\ \A h \in MonHosts \ {Collector} : meters'[h] = meters[h]
    /\ UNCHANGED expoVars

ExpoNext ==
    \/ MeterStep
    \/ /\ SockStep
       /\ UNCHANGED <<monVars, grid, mounted, live, callbacks>>
    \/ /\ Exported \/ Withdrawn
       /\ UNCHANGED monVars
ExpoSpec == MonInit /\ ExpoInit /\ [][ExpoNext]_<<monVars, expoVars>>

------------------------------------------------------------------------------
(* Properties                                                              *)

\* The state has its type; a running host is collected by one callback and a
\* stopped one by none, over any number of starts, so that no counter is
\* observed twice (actors-otel/metrics-bridge.ts:337-345).
ExpoTypeOK ==
    /\ grid \subseteq NativeBounds
    /\ callbacks = (IF live THEN 1 ELSE 0)
    /\ \A s \in Sessions : session[s] # "open" => Held(s) = {}
    /\ \A s \in Sessions : \A i \in Held(s) : [s |-> s, i |-> i, n |-> watches[s][i]] \in loops
    /\ totals \in [DOMAIN FreshTotals -> Nat]
    /\ subsMade \in 0..MaxSubs /\ starts \in 0..MaxSpent

BelowGrid(samples, v) == MapThenSumSet(LAMBDA d : samples[d], {d \in Durations : d < v})

ExactBuckets(samples, rendered) ==
    /\ rendered.count = MapThenSumSet(LAMBDA d : samples[d], Durations)
    /\ \A g \in DOMAIN rendered.cum :
          BelowGrid(samples, g) <= rendered.cum[g] /\ rendered.cum[g] <= BelowGrid(samples, g + 1)

\* Every cumulative count of an exposition is exact at its bound, to the one
\* value that sits on it, for the default grid and for a requested one: the
\* bound moves, the count never lies (actors-otel/prometheus.ts:40-47,
\* 184-191).
BucketsAreExact ==
    LET page == RenderPage
    IN  /\ ExactBuckets(taken[Collector], page.latency)
        /\ page.sockets # None =>
              \/ page.sockets.lifetime = None /\ lifetime = Zeroes
              \/ ExactBuckets(lived, page.sockets.lifetime)

\* The gauges are the sessions open and the subscriptions held right now,
\* however a session ends and whichever of its teardown, its unsubscribe and
\* its loop comes first: the differences cannot drift
\* (actors-otel/prometheus.ts:407-412, server/socket-session.ts:865-877).
GaugesAreLive ==
    mounted => SocketGauges = [
        sessions |-> Cardinality({s \in Sessions : session[s] = "open"}),
        subs |-> MapThenSumSet(LAMBDA s : Cardinality(Held(s)), Sessions)]

QuantileWithin(percentiles, rendered) ==
    \A q \in DOMAIN percentiles, g \in DOMAIN rendered.cum :
        (rendered.cum[g] * 100 >= q * rendered.count) <=> (g > percentiles[q])

\* The two exporters agree: the same counts and gauges, and the percentile of
\* one is in the bucket of the other where that share of the calls is reached
\* (actors-otel/metrics-bridge.ts:127-131).
ExportersAgree ==
    LET view == Observed  page == RenderPage
    IN  /\ view.rows = page.rows /\ view.created = page.created
        /\ QuantileWithin(view.latency, page.latency)
        /\ (view.sockets = None) <=> (page.sockets = None)
        /\ mounted => /\ view.sockets.gauges = page.sockets.gauges
                      /\ view.sockets.counters = page.sockets.counters
                      /\ \/ page.sockets.lifetime = None
                         \/ QuantileWithin(view.sockets.lifetime, page.sockets.lifetime)

\* A counter never falls within a window.  (The row "(other)" does: the busiest
\* rows are named, and one that overtakes another is taken out of it.)
CountersNeverFall ==
    [][meters'[Collector].window = meters[Collector].window =>
         \A n \in DOMAIN Report(Collector).rows \cap DOMAIN Report(Collector).rows' :
             Report(Collector).rows[n].calls <= Report(Collector).rows'[n].calls]_monVars
==============================================================================
