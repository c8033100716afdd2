----------------------------- MODULE Monitoring ------------------------------
(***************************************************************************)
(* What an operator is shown: the metrics plugin of a host                 *)
(* (host/metrics.ts) with its log-linear histogram (host/histogram.ts),    *)
(* the digest that goes over the wire (host/digest.ts), and the            *)
(* cluster-wide read that asks every member of the view and folds the      *)
(* answers (cluster/stats.ts).                                             *)
(*                                                                         *)
(* Calls run while the numbers are read, reset, switched off and on.       *)
(* `taken` is the history the numbers are compared with: the durations     *)
(* recorded since the last reset.                                          *)
(***************************************************************************)
EXTENDS Naturals, FiniteSets, FiniteSetsExt, Functions, Bags

CONSTANTS
    MonHosts,     \* members of the view
    Collector,    \* the host that runs clusterStats
    MonTypes,     \* actor types called
    MaxMonCalls,  \* bound: calls
    Durations,    \* microseconds a call may take
    SubBits,      \* log2 of the buckets per octave
    MaxOctave,    \* the last octave with buckets of its own
    MaxTypes,     \* per-type rows a host keeps
    DigestRows,   \* per-type rows a digest carries
    MaxMonOps     \* bound: failed calls, resets, switches, lost answers and
                  \* activations, in all

ASSUME MonAssumption ==
    /\ Collector \in MonHosts
    /\ Durations \subseteq Nat
    /\ {SubBits, MaxOctave, MaxTypes, DigestRows, MaxMonCalls, MaxMonOps} \subseteq Nat
    /\ SubBits <= MaxOctave /\ MaxTypes > 0 /\ DigestRows > 0
    /\ \A t \in MonTypes : t # "(other)"

VARIABLES
    meters,    \* meters[h]: the plugin's counters
    taken,     \* taken[h][d]: samples of duration d since the last reset
    running,   \* the calls being measured, a bag of [host, row, window]
    begun,     \* calls so far
    poll,      \* the cluster-wide read: [pc, asking, got, lost]
    monOps     \* of those, so far
monVars == <<meters, taken, running, begun, poll, monOps>>

------------------------------------------------------------------------------
(* The histogram                                                           *)

Sub == 2 ^ SubBits
Buckets == Sub + (MaxOctave - SubBits + 1) * Sub

\* 31 - clz32(us): the position of the highest bit.
Octave(us) == CHOOSE o \in 0..us : 2 ^ o <= us /\ us < 2 ^ (o + 1)

\* bucketOf: linear below Sub, then Sub buckets to the octave, and one at the
\* end for everything longer.
BucketOf(us) ==
    IF us < Sub THEN us
    ELSE IF Octave(us) > MaxOctave THEN Buckets - 1
    ELSE (Octave(us) - SubBits + 1) * Sub + (us \div 2 ^ (Octave(us) - SubBits)) - Sub

\* valueOf: the bottom of a bucket.
ValueOf(b) ==
    IF b < Sub THEN b ELSE (Sub + ((b - Sub) % Sub)) * 2 ^ ((b - Sub) \div Sub)

Zeroes == [b \in 0..Buckets - 1 |-> 0]
CountIn(hist) == FoldFunction(+, 0, hist)

\* The highest count of each bucket.
MergedHighest(hists) == [b \in 0..Buckets - 1 |-> Max({hists[i][b] : i \in DOMAIN hists})]

\* mergeHistogramDigests: the buckets added up.
Merged(hists) == [b \in 0..Buckets - 1 |-> MapThenSumSet(LAMBDA i : hists[i][b], DOMAIN hists)]

\* summarize: the first bucket whose running count reaches the quantile.
At(hist, q) ==
    LET total == CountIn(hist)
        reached == {b \in 0..Buckets - 1 : FoldFunctionOnSet(+, 0, hist, 0..b) * 100 >= q * total}
    IN ValueOf(Min(reached))

------------------------------------------------------------------------------
(* The rows                                                                *)

NoRows == [t \in {} |-> 0]
Row(calls, failed) == [calls |-> calls, failed |-> failed]

\* bucketFor: beyond the cap every new type shares one row.
RowName(rows, t) == IF t \in DOMAIN rows \/ Cardinality(DOMAIN rows) < MaxTypes
                    THEN t ELSE "(other)"

Added(rows, t, c, f) ==
    [n \in DOMAIN rows \cup {t} |->
        IF n # t THEN rows[n]
        ELSE IF t \in DOMAIN rows THEN Row(rows[t].calls + c, rows[t].failed + f)
        ELSE Row(c, f)]

SumOf(rows, names) == Row(MapThenSumSet(LAMBDA n : rows[n].calls, names),
                          MapThenSumSet(LAMBDA n : rows[n].failed, names))

\* The busiest rows (ties by name: any such choice).
Busiest(rows, limit) ==
    CHOOSE top \in SUBSET DOMAIN rows :
        /\ Cardinality(top) = limit
        /\ \A n \in top, o \in DOMAIN rows \ top : rows[n].calls >= rows[o].calls

\* foldCallDigests: the rest in "(other)", on top of one already kept.
Folded(rows, limit) ==
    IF Cardinality(DOMAIN rows) <= limit THEN rows
    ELSE LET top  == Busiest(rows, limit)
             rest == SumOf(rows, DOMAIN rows \ top)
         IN Added(Restrict(rows, top), "(other)", rest.calls, rest.failed)

------------------------------------------------------------------------------
(* A host                                                                  *)

FreshMeter == [on |-> TRUE, total |-> 0, failed |-> 0, created |-> 0,
               hist |-> Zeroes, rows |-> NoRows, window |-> 0]

MonInit ==
    /\ meters = [h \in MonHosts |-> FreshMeter]
    /\ taken = [h \in MonHosts |-> [d \in Durations |-> 0]]
    /\ running = EmptyBag
    /\ begun = 0
    /\ poll = [pc |-> "idle", asking |-> {}, got |-> [h \in {} |-> 0], lost |-> {}]
    /\ monOps = 0

MonOp == monOps < MaxMonOps /\ monOps' = monOps + 1

\* The dispatch wrapper: measured when collection is on as the call starts.
StartCall ==
    /\ begun < MaxMonCalls
    /\ begun' = begun + 1
    /\ \E h \in MonHosts, t \in MonTypes :
          LET m == meters[h]
              n == RowName(m.rows, t)
          IN IF m.on
             THEN /\ meters' = [meters EXCEPT ![h].total = @ + 1,
                                              ![h].rows = Added(@, n, 1, 0)]
                  /\ running' = running (+) SetToBag({[host |-> h, row |-> n,
                                                       window |-> m.window]})
             ELSE UNCHANGED <<meters, running>>
    /\ UNCHANGED <<taken, poll, monOps>>

\* The catch and finally blocks: the totals, and the row the call was given
\* when it began (a row that a reset has dropped since is nobody's).
EndCall ==
    \E c \in BagToSet(running), d \in Durations, f \in {0, 1} :
        LET h == c.host
            kept == c.window = meters[h].window
        IN /\ meters' = [meters EXCEPT
                 ![h].failed = @ + f,
                 ![h].hist[BucketOf(d)] = @ + 1,
                 ![h].rows = IF kept THEN Added(@, c.row, 0, f) ELSE @]
           /\ taken' = [taken EXCEPT ![h][d] = @ + 1]
           /\ running' = running (-) SetToBag({c})
           /\ IF f = 1 THEN MonOp ELSE UNCHANGED monOps
           /\ UNCHANGED <<begun, poll>>

\* onBeforeActivate: counted whether collection is on or not.
ActivateActor(h) ==
    /\ MonOp
    /\ meters' = [meters EXCEPT ![h].created = @ + 1]
    /\ UNCHANGED <<taken, running, begun, poll>>

\* enable(), disable().
Switch(h) ==
    /\ MonOp
    /\ meters' = [meters EXCEPT ![h].on = ~@]
    /\ UNCHANGED <<taken, running, begun, poll>>

\* reset(): every counter, the histograms, and the maps themselves.
ResetMeter(m) == [FreshMeter EXCEPT !.on = m.on, !.window = m.window + 1]

ResetHost(h) ==
    /\ MonOp
    /\ meters' = [meters EXCEPT ![h] = ResetMeter(@)]
    /\ taken' = [taken EXCEPT ![h] = [d \in Durations |-> 0]]
    /\ UNCHANGED <<running, begun, poll>>

------------------------------------------------------------------------------
(* clusterStats                                                            *)

\* report(): the digest, with the history it stands for.
Report(h) == [total |-> meters[h].total, hist |-> meters[h].hist,
              rows |-> Folded(meters[h].rows, DigestRows), taken |-> taken[h]]

\* The collector answers for itself, in process, first.
BeginPoll ==
    /\ poll.pc = "idle"
    /\ poll' = [pc |-> "asking", asking |-> MonHosts \ {Collector},
                got |-> [h \in {Collector} |-> Report(Collector)], lost |-> {}]
    /\ UNCHANGED <<meters, taken, running, begun, monOps>>

\* "An unreachable host is LISTED."
PeerLost(h) == poll.lost \cup {h}

AskPeer(h) ==
    /\ h \in poll.asking
    /\ \/ /\ poll' = [poll EXCEPT !.asking = @ \ {h},
                        !.got = [x \in DOMAIN @ \cup {h} |-> IF x = h THEN Report(h) ELSE @[x]]]
          /\ UNCHANGED monOps
       \/ /\ MonOp
          /\ poll' = [poll EXCEPT !.asking = @ \ {h}, !.lost = PeerLost(h)]
    /\ UNCHANGED <<meters, taken, running, begun>>

EndPoll ==
    /\ poll.pc = "asking" /\ poll.asking = {}
    /\ poll' = [poll EXCEPT !.pc = "done"]
    /\ UNCHANGED <<meters, taken, running, begun, monOps>>

\* The report the operator reads.
Answered == DOMAIN poll.got
AllHists == [h \in Answered |-> poll.got[h].hist]
ClusterAt(q) == At(Merged(AllHists), q)
Partial == poll.lost # {}

\* (Bound: the behaviour ends with the report.)
MonNext ==
    /\ poll.pc # "done"
    /\ \/ StartCall \/ EndCall
       \/ \E h \in MonHosts : ActivateActor(h) \/ Switch(h) \/ ResetHost(h) \/ AskPeer(h)
       \/ BeginPoll \/ EndPoll
MonSpec == MonInit /\ [][MonNext]_monVars

------------------------------------------------------------------------------
(* Properties                                                              *)

\* The state has its type; a host keeps MaxTypes rows and one for the rest, a
\* digest DigestRows and one (host/metrics.ts:290-304, host/digest.ts:228-251).
MonTypeOK ==
    /\ \A h \in MonHosts :
          /\ Cardinality(DOMAIN meters[h].rows \ {"(other)"}) <= MaxTypes
          /\ meters[h].hist \in [0..Buckets - 1 -> Nat]
    /\ \A c \in BagToSet(running) : c.window <= meters[c.host].window
    /\ begun \in 0..MaxMonCalls
    /\ \A h \in Answered : Cardinality(DOMAIN poll.got[h].rows \ {"(other)"}) <= DigestRows
    /\ monOps \in 0..MaxMonOps

\* A breakdown adds up to the total it belongs to, at the host and in the
\* capped digest on the wire, across resets with calls in flight and however
\* many types there are (host/digest.ts:221-227, host/metrics.ts:290-304).
BreakdownAddsUp ==
    /\ \A h \in MonHosts : SumOf(meters[h].rows, DOMAIN meters[h].rows).calls = meters[h].total
    /\ \A h \in Answered : SumOf(poll.got[h].rows, DOMAIN poll.got[h].rows).calls
                           = poll.got[h].total

SamplesIn(h, low, high) ==
    MapThenSumSet(LAMBDA d : taken[h][d], {d \in Durations : low <= d /\ d < high})

\* Every sample is in the bucket whose range holds it, the longest ones in the
\* last: a bucket counts what was taken from its bottom to the next one's
\* (host/histogram.ts:96-119).
SampleInItsBucket ==
    \A h \in MonHosts, b \in 0..Buckets - 2 :
        meters[h].hist[b] = SamplesIn(h, ValueOf(b), ValueOf(b + 1))

AllTaken(d) == MapThenSumSet(LAMBDA h : poll.got[h].taken[d], Answered)
TakenUpTo(v) == MapThenSumSet(AllTaken, {d \in Durations : d <= v})
TrueAt(q) ==
    LET all == TakenUpTo(Max(Durations))
    IN  Min({d \in Durations : TakenUpTo(d) * 100 >= q * all})

\* A percentile of the cluster is the percentile of all its samples together,
\* to the bottom of its bucket - not a mean of the hosts' own
\* (host/histogram.ts:216-230, 299-330).
ClusterPercentile ==
    poll.pc = "done" /\ TakenUpTo(Max(Durations)) > 0 =>
        \A q \in {50, 99} : ClusterAt(q) = ValueOf(BucketOf(TrueAt(q)))

\* A read is either whole or says that it is not: every member of the view is
\* in it exactly once, as a report or as a failure
\* (cluster/stats.ts:265-293, 348).
WholeOrPartial ==
    poll.pc = "done" => /\ Answered \cup poll.lost = MonHosts
                        /\ Answered \cap poll.lost = {}
                        /\ ~Partial => Answered = MonHosts

\* Failures are failures of calls counted.  (Not after a reset: a call in
\* flight across it fails into a window that never counted it.)
FailuresAreCalls == \A h \in MonHosts : meters[h].failed <= meters[h].total

\* "Disabling freezes the numbers."  (Not those of activations and storage, nor
\* of the calls in flight.)
OffIsFrozen ==
    [][\A h \in MonHosts : ~meters[h].on /\ ~meters'[h].on /\ meters'[h].window = meters[h].window
                           => meters'[h] = meters[h]]_monVars
==============================================================================
