-------------------------- MODULE CompletionLedger --------------------------
(***************************************************************************)
(* How the cluster rig counts finished runs.  A finished run publishes its *)
(* completion to an aggregator actor, which folds it into a bounded ring   *)
(* (saved every so many events, or appended one by one); the load          *)
(* generator starts runs, drains the aggregator by cursor and, at the end, *)
(* asks the runs it never heard of.  The aggregator's host may die, an     *)
(* event may be lost, and the answer to a start may be lost although the   *)
(* run ran.                                                                *)
(***************************************************************************)
EXTENDS Integers, Sequences, FiniteSets

CONSTANTS
  Own,              \* runs this generator starts
  Kids,             \* child runs of its runs: reported, never started by it
  Foreign,          \* runs of another generator, under another tag
  Shards, ShardOf,  \* the aggregators and the one each run reports to
  AppendMode,       \* the values WF_STATS_APPEND may have
  SaveEvery, CompactEvery, Ring, PageLimit,
  MaxLedgerFaults   \* dead hosts, lost events and lost answers, together

VARIABLES
  appends,    \* does the aggregator append, or save every SaveEvery events
  agg, ledgerDisk,  \* [Shards -> the aggregator in memory, and as stored]
  runState,        \* [all runs -> "no" | "running" | "ended"]
  ack,        \* [Own -> what the generator heard of its start]
  published,  \* completion events under way
  handled,    \* runs whose event an aggregator has folded
  inflight, startFailed, cursors, booked, times, unknown, dropped,  \* the generator's books
  stage,      \* "open" while runs are started, then "sweeping"
  ledgerFaults

ledgerVars == <<appends, agg, ledgerDisk, runState, ack, published, handled, inflight, startFailed,
                cursors, booked, times, unknown, dropped, stage, ledgerFaults>>

AllRuns == Own \cup Kids \cup Foreign
Tagged == Own \cup Kids      \* the runs that carry this generator's tag
EmptyAgg == [seq |-> 0, events |-> <<>>, unsaved |-> 0, since |-> 0]

LedgerInit ==
  /\ appends \in AppendMode
  /\ agg = [s \in Shards |-> EmptyAgg] /\ ledgerDisk = agg
  /\ runState = [r \in AllRuns |-> IF r \in Own THEN "no" ELSE "running"]
  /\ ack = [r \in Own |-> "none"]
  /\ published = {} /\ handled = {}
  /\ inflight = {} /\ startFailed = {}
  /\ cursors = [s \in Shards |-> 0]
  /\ booked = [r \in AllRuns |-> "no"] /\ times = [r \in AllRuns |-> 0]
  /\ unknown = 0 /\ dropped = 0
  /\ stage = "open"
  /\ ledgerFaults = 0

LedgerFault == ledgerFaults < MaxLedgerFaults /\ ledgerFaults' = ledgerFaults + 1

aggVars == <<agg, ledgerDisk>>
bookVars == <<inflight, startFailed, cursors, booked, times, unknown, dropped>>

---------------------------------------------------------------------------
(* The aggregator *)

\* the last n entries of a sequence
LastOf(s, n) == IF Len(s) <= n THEN s ELSE SubSeq(s, Len(s) - n + 1, Len(s))

\* fold(): the one reducer of both modes
Folded(a, r) ==
  [a EXCEPT !.seq = @ + 1, !.since = @ + 1,
            !.events = LastOf(Append(@, [seq |-> a.seq + 1, run |-> r]), Ring)]

\* the record a compaction leaves
Compacted(a) == [a EXCEPT !.since = 0]
LedgerSettled(a) == [a EXCEPT !.since = 0, !.unsaved = 0]

\* what the event's turn leaves in memory and in storage
Stored(s, r) ==
  LET a == Folded(agg[s], r)
      counted == [a EXCEPT !.unsaved = @ + 1]
  IN IF appends
     THEN IF a.since >= CompactEvery THEN <<Compacted(a), Compacted(a)>> ELSE <<a, a>>
     ELSE IF counted.unsaved >= SaveEvery THEN <<LedgerSettled(counted), LedgerSettled(counted)>>
          ELSE <<counted, ledgerDisk[s]>>

\* the subscription's handler, a turn of the run's shard
HandleEvent(r) ==
  LET s == ShardOf[r]
  IN /\ r \in published
     /\ published' = published \ {r}
     /\ handled' = handled \cup {r}
     /\ agg' = [agg EXCEPT ![s] = Stored(s, r)[1]]
     /\ ledgerDisk' = [ledgerDisk EXCEPT ![s] = Stored(s, r)[2]]
     /\ UNCHANGED <<appends, runState, ack, bookVars, stage, ledgerFaults>>

\* the aggregator's host dies: the next activation reads the store
AggregatorDies(s) ==
  /\ LedgerFault
  /\ agg[s] # ledgerDisk[s]
  /\ agg' = [agg EXCEPT ![s] = ledgerDisk[s]]
  /\ UNCHANGED <<appends, ledgerDisk, runState, ack, published, handled, bookVars, stage>>

\* drain(tag, since, limit): the tagged events after the cursor, a page of them
FirstOf(q) == SubSeq(q, 1, IF Len(q) < PageLimit THEN Len(q) ELSE PageLimit)
\* what a drain since an event hands out: those after it
Page(a, since) == FirstOf(SelectSeq(a.events, LAMBDA e : e.seq > since /\ e.run \in Tagged))

\* a cursor that jumps to the newest event whatever the page held
CursorToEnd(a, page) == a.seq
\* the cursor stays on the last event handed out
CursorAfter(a, page) == IF page = <<>> THEN a.seq ELSE page[Len(page)].seq

\* events the ring turned over before they were drained
Gap(a, since) ==
  LET oldest == IF a.events = <<>> THEN a.seq + 1 ELSE a.events[1].seq
  IN IF since >= oldest - 1 THEN 0 ELSE oldest - 1 - since

---------------------------------------------------------------------------
(* Runs *)

\* start() lands: the run runs
Lands(r) ==
  /\ ack[r] = "pending" /\ runState[r] = "no"
  /\ runState' = [runState EXCEPT ![r] = "running"]
  /\ UNCHANGED <<appends, aggVars, ack, published, handled, bookVars, stage, ledgerFaults>>

\* finish(): terminal, then a detached publish that may be lost
LedgerEnds(r) ==
  /\ runState[r] = "running"
  /\ runState' = [runState EXCEPT ![r] = "ended"]
  /\ \/ published' = published \cup {r} /\ UNCHANGED ledgerFaults
     \/ LedgerFault /\ UNCHANGED published
  /\ UNCHANGED <<appends, aggVars, ack, handled, bookVars, stage>>

---------------------------------------------------------------------------
(* The generator *)

\* the run is in the books before its start is called
Entered(r) == inflight \cup {r}

StartOne(r) ==
  /\ stage = "open" /\ ack[r] = "none"
  /\ ack' = [ack EXCEPT ![r] = "pending"]
  /\ inflight' = Entered(r)
  /\ UNCHANGED <<appends, aggVars, runState, published, handled, startFailed, cursors, booked,
                 times, unknown, dropped, stage, ledgerFaults>>

\* the start is answered, or the caller gives up on it: the run may yet run
StartAnswered(r) ==
  /\ ack[r] = "pending"
  /\ \/ /\ runState[r] # "no"
        /\ ack' = [ack EXCEPT ![r] = "ok"]
        /\ UNCHANGED <<inflight, startFailed, ledgerFaults>>
     \/ /\ LedgerFault
        /\ ack' = [ack EXCEPT ![r] = "failed"]
        /\ inflight' = inflight \ {r}
        /\ startFailed' = startFailed \cup {r}
  /\ UNCHANGED <<appends, aggVars, runState, published, handled, cursors, booked, times,
                 unknown, dropped, stage>>

\* applyEvent() for one drained run
Bucket(r) ==
  CASE r \in inflight -> "completed"
    [] r \notin inflight /\ r \in Kids -> "child"
    [] r \notin inflight /\ r \in startFailed -> "anyway"
    [] OTHER -> "unknown"

Collected(page) == {page[i].run : i \in DOMAIN page}

\* one page of one shard, applied
Drain(s) ==
  LET page == Page(agg[s], cursors[s])
      runs == Collected(page)
  IN /\ stage \in {"open", "sweeping"}
     /\ cursors' = [cursors EXCEPT ![s] = CursorAfter(agg[s], page)]
     /\ dropped' = dropped + Gap(agg[s], cursors[s])
     /\ inflight' = inflight \ runs
     /\ startFailed' = {r \in startFailed : ~(r \in runs /\ Bucket(r) = "anyway")}
     /\ booked' = [r \in AllRuns |-> IF r \in runs /\ Bucket(r) # "unknown" THEN Bucket(r) ELSE booked[r]]
     /\ times' = [r \in AllRuns |-> times[r] + IF r \in runs /\ Bucket(r) # "unknown" THEN 1 ELSE 0]
     /\ unknown' = unknown + Cardinality({r \in runs : Bucket(r) = "unknown"})
     /\ bookVars' # bookVars
     /\ UNCHANGED <<appends, aggVars, runState, ack, published, handled, stage, ledgerFaults>>

\* the window closes, every start has been answered, a last drain is done
WindowCloses ==
  /\ stage = "open"
  /\ \A r \in Own : ack[r] # "pending"
  /\ \A s \in Shards : Page(agg[s], cursors[s]) = <<>>
  /\ stage' = "sweeping"
  /\ UNCHANGED <<appends, aggVars, runState, ack, published, handled, bookVars, ledgerFaults>>

\* sweep(): one status() per run still in flight
Sweep(r) ==
  /\ stage = "sweeping" /\ r \in inflight
  /\ runState[r] = "ended"
  /\ inflight' = inflight \ {r}
  /\ booked' = [booked EXCEPT ![r] = "unreported"]
  /\ times' = [times EXCEPT ![r] = @ + 1]
  /\ UNCHANGED <<appends, aggVars, runState, ack, published, handled, startFailed, cursors,
                 unknown, dropped, stage, ledgerFaults>>

LedgerNext ==
  \/ \E s \in Shards : AggregatorDies(s) \/ Drain(s)
  \/ \E r \in AllRuns : LedgerEnds(r) \/ HandleEvent(r) \/ Sweep(r)
  \/ \E r \in Own : StartOne(r) \/ Lands(r) \/ StartAnswered(r)
  \/ WindowCloses

LedgerSpec == LedgerInit /\ [][LedgerNext]_ledgerVars

---------------------------------------------------------------------------
(* Properties *)

LedgerTypeOK ==
  /\ \A s \in Shards :
       /\ Len(agg[s].events) <= Ring
       /\ \A i \in DOMAIN agg[s].events :
            agg[s].events[i].seq = agg[s].seq - Len(agg[s].events) + i
       /\ appends => agg[s] = ledgerDisk[s] /\ agg[s].since < CompactEvery
       /\ agg[s].unsaved < SaveEvery
  /\ inflight \subseteq Own /\ startFailed \subseteq Own
  /\ published \subseteq AllRuns /\ published \cap handled = {}
  /\ \A r \in AllRuns : booked[r] = "no" <=> times[r] = 0

\* No run is counted twice: not by two pages of a drain, a drain and the sweep,
\* or an event and the answer of its start.
BookedOnce == \A r \in AllRuns : times[r] <= 1

\* A run whose start was acknowledged is in exactly one place: still in flight,
\* or counted.
NoRunForgotten ==
  \A r \in Own : ack[r] \in {"pending", "ok"} => (r \in inflight) # (times[r] = 1)

\* An event the generator cannot place is one the sweep had already counted.
UnknownOnlyAfterSweep ==
  unknown > 0 => \E r \in Own : booked[r] = "unreported"

\* In append mode an event that was folded and passed over by the cursor shows in
\* the dropped count (stats.actor.ts:139-144: "rather than the counts quietly
\* coming up short"): uncounted, it is still ahead of the cursor, or in the gap
\* the next drain will report.
AheadOf(since, a, r) ==
  \/ since < a.seq - Len(a.events)
  \/ \E i \in DOMAIN a.events : a.events[i].run = r /\ a.events[i].seq > since
DropSaysSo ==
  appends => \A r \in handled \cap Kids :
    times[r] = 0 => dropped > 0 \/ AheadOf(cursors[ShardOf[r]], agg[ShardOf[r]], r)

\* workflow-mode.ts:347-351: a run whose start failed at the client stays out of
\* completed, so that completed/started describes acknowledged starts.
CompletedIsAcknowledged ==
  \A r \in Own : booked[r] = "completed" => ack[r] # "failed"

\* stats.actor.ts:12-13: a host death never costs a run its counts.
DeathKeepsCounts ==
  \A s \in Shards : agg[s].seq >= cursors[s]

====
