----------------------------- MODULE WatchFeed -----------------------------
(***************************************************************************)
(* Live reads of one activation: the shared watch loops of host/watch.ts,  *)
(* the subscriber fan-out of watch-core.ts, the read pump of               *)
(* host/watch-pump.ts, and the part of host/activation.ts that joins       *)
(* subscribers to loops, splits a loop by principal once the read has been *)
(* seen consulting ctx.principal, and feeds the loops and ctx.changes()    *)
(* consumers at each turn boundary.                                        *)
(*                                                                         *)
(* One watched (method, args, throttle) is modelled, so `base' is one key. *)
(* The read returns View(ver); from version consultFrom on it also looks   *)
(* at the principal, and its value then carries the identity it was        *)
(* computed under.  A turn is one step; what runs in a later microtask     *)
(* (the invoke's finally block, a parked next()) is a step of its own.     *)
(***************************************************************************)
EXTENDS Naturals, Sequences, FiniteSets, SequencesExt

CONSTANTS
  WatchSubs,        \* subscribers that may call openWatch
  Principals,       \* the encoded principals they present
  ConsultFroms,     \* versions from which the read may consult the principal
  MaxVer,           \* bound on mutating turns
  MaxLoops,         \* bound on shared watches ever created
  WatchBuffer,      \* WATCH_BUFFER
  SliceSize,        \* the pump's slice
  MaxReadFaults     \* bound on reads that throw and stops of the activation together

ASSUME WatchAssumption ==
  /\ ConsultFroms \subseteq Nat
  /\ MaxVer \in Nat /\ MaxLoops \in Nat /\ MaxReadFaults \in Nat
  /\ WatchBuffer \in Nat \ {0} /\ SliceSize \in Nat \ {0}

VARIABLES
  ver,           \* #version: mutating turns so far
  consultFrom,   \* the read consults ctx.principal from this version on
  distinct,      \* declaresDistinct: equal results are not pushed again
  dependent,     \* #watchPrincipalDependent has the base key
  loops,         \* every shared watch created, in order
  watches,       \* #watches: key -> index into loops, 0 for none
  subs,          \* the subscribers' iterators and their fan-out records
  pump,          \* the read pump: seeds, reads, the slice taken, queued
  feed,          \* one throttled ctx.changes() consumer
  actClosed,     \* the activation has been stopped
  readFaults

watchVars == <<ver, consultFrom, distinct, dependent, loops, watches, subs,
               pump, feed, actClosed, readFaults>>

Base    == "base"
Nobody  == "nobody"
Keys    == {Base} \cup Principals
NoVal   == [view |-> 0, by |-> "none"]
Failure == [view |-> 0, by |-> "error"]
View(v) == (v + 1) \div 2
ReadBy(p) == [view |-> View(ver), by |-> IF ver >= consultFrom THEN p ELSE Nobody]
Values  == [view : 0..View(MaxVer), by : Principals \cup {Nobody, "none", "error"}]

NewLoop(key, p) ==
  [key |-> key, owner |-> p, phase |-> "start", seeded |-> FALSE,
   dirty |-> FALSE, tick |-> FALSE, stopped |-> FALSE,
   settled |-> key # Base, last |-> NoVal, got |-> NoVal]

IdleSub == [principal |-> Nobody, loop |-> 0, queue |-> <<>>, failed |-> FALSE,
            done |-> FALSE, migrating |-> FALSE, phase |-> "idle", saw |-> NoVal]

(***************************************************************************)
(* The fan-out (createFanOut).                                             *)
(***************************************************************************)
Subscribers(ss, e) == {s \in WatchSubs : ss[s].loop = e}

\* push: the bounded queue drops its oldest value.
Pushed(q, v) ==
  LET grown == Append(q, v) IN IF Len(grown) > WatchBuffer THEN Tail(grown) ELSE grown

\* onEmpty: stop the loop, close its change feed, delete its key.
Emptied(ls, ws, e) ==
  [loops |-> [ls EXCEPT ![e].stopped = TRUE, ![e].tick = FALSE, ![e].last = NoVal],
   watches |-> [ws EXCEPT ![ls[e].key] = 0]]

\* drop of a set of subscribers of loop e: idempotent, so onEmpty runs once.
EmptiedBy(e, gone) == gone # {} /\ gone = Subscribers(subs, e)

AfterDrop(ls, ws, e, gone) ==
  IF EmptiedBy(e, gone) THEN Emptied(ls, ws, e) ELSE [loops |-> ls, watches |-> ws]

(***************************************************************************)
(* Joining a loop (openWatch's attach, #resolveWatch, #createWatchEntry).  *)
(***************************************************************************)
KeyFor(p) == IF dependent THEN p ELSE Base

Attach(s, p) ==
  LET key == KeyFor(p)
      e   == watches[key]
      new == Len(loops) + 1
      join(id, q) == [IdleSub EXCEPT !.principal = p, !.loop = id, !.queue = q,
                                     !.phase = "open", !.saw = subs[s].saw]
  IN \/ /\ e # 0
        /\ subs' = [subs EXCEPT ![s] =
                      join(e, IF loops[e].last = NoVal THEN <<>> ELSE <<loops[e].last>>)]
        /\ UNCHANGED <<loops, watches>>
     \/ /\ e = 0
        /\ new <= MaxLoops
        /\ loops' = Append(loops, NewLoop(key, p))
        /\ watches' = [watches EXCEPT ![key] = new]
        /\ subs' = [subs EXCEPT ![s] = join(new, <<>>)]

OpenWatch(s, p) ==
  /\ subs[s].phase = "idle"
  /\ ~actClosed /\ ~feed.open
  /\ Attach(s, p)
  /\ UNCHANGED <<ver, consultFrom, distinct, dependent, pump, feed, actClosed, readFaults>>

(***************************************************************************)
(* The subscriber's iterator.                                              *)
(***************************************************************************)
Dropped(s) == [subs EXCEPT ![s].loop = 0, ![s].queue = <<>>, ![s].failed = FALSE,
                           ![s].done = TRUE, ![s].phase = "closed"]

LeaveLoop(s) ==
  LET r == AfterDrop(loops, watches, subs[s].loop, {s} \cap Subscribers(subs, subs[s].loop))
  IN /\ subs' = Dropped(s)
     /\ IF subs[s].loop = 0 THEN UNCHANGED <<loops, watches>>
        ELSE loops' = r.loops /\ watches' = r.watches

\* return(), or the subscriber's abort signal.
Leave(s) ==
  /\ subs[s].phase = "open"
  /\ LeaveLoop(s)
  /\ UNCHANGED <<ver, consultFrom, distinct, dependent, pump, feed, actClosed, readFaults>>

\* next(): a queued value, the failure, the end, or the re-attach after an
\* eviction.
PullNext(s) ==
  /\ subs[s].phase = "open"
  /\ \/ /\ subs[s].migrating
        /\ Attach(s, subs[s].principal)
     \/ /\ subs[s].queue # <<>>
        /\ subs' = [subs EXCEPT ![s].queue = Tail(@), ![s].saw = Head(subs[s].queue)]
        /\ UNCHANGED <<loops, watches>>
     \/ /\ subs[s].queue = <<>>
        /\ subs[s].failed \/ subs[s].done
        /\ ~subs[s].migrating
        /\ LeaveLoop(s)
  /\ UNCHANGED <<ver, consultFrom, distinct, dependent, pump, feed, actClosed, readFaults>>

(***************************************************************************)
(* Mutating turns, the change feeds and the throttled consumer.            *)
(***************************************************************************)
\* #deferToWindow at a boundary: inside an open window only the pending flag.
FedBoundary ==
  IF ~feed.open THEN feed
  ELSE IF feed.window THEN [feed EXCEPT !.pending = TRUE]
  ELSE [feed EXCEPT !.window = TRUE, !.delivered = ver + 1]

Mutate ==
  /\ ~actClosed
  /\ ver < MaxVer
  /\ ver' = ver + 1
  /\ loops' = [e \in DOMAIN loops |-> [loops[e] EXCEPT !.tick = ~loops[e].stopped]]
  /\ feed' = FedBoundary
  /\ UNCHANGED <<consultFrom, distinct, dependent, watches, subs, pump, actClosed, readFaults>>

\* #openChanges({throttleMs}).  The consumer and the watchers do not touch
\* each other's state, so a behaviour has one or the other (ver = 0 and no
\* loop here, ~feed.open in OpenWatch).
OpenFeed ==
  /\ ~feed.open /\ ~actClosed /\ ver = 0 /\ loops = <<>>
  /\ feed' = [feed EXCEPT !.open = TRUE]
  /\ UNCHANGED <<ver, consultFrom, distinct, dependent, loops, watches, subs, pump,
                 actClosed, readFaults>>

\* The window's timer: deliver what was deferred and open the next window.
WindowDelivers ==
  IF feed.pending THEN [feed EXCEPT !.pending = FALSE, !.delivered = ver]
  ELSE [feed EXCEPT !.window = FALSE]

WindowElapsed ==
  /\ feed.open /\ feed.window
  /\ feed' = WindowDelivers
  /\ UNCHANGED <<ver, consultFrom, distinct, dependent, loops, watches, subs, pump,
                 actClosed, readFaults>>

\* #closeSubs, from deactivate() and forceStop(): flush what a window holds,
\* then end every feed; a tick already queued is still read.
FeedFlushed ==
  IF feed.open /\ feed.pending THEN [feed EXCEPT !.delivered = ver, !.pending = FALSE, !.window = FALSE]
  ELSE [feed EXCEPT !.window = FALSE]

Stop ==
  /\ ~actClosed
  /\ readFaults < MaxReadFaults
  /\ readFaults' = readFaults + 1
  /\ actClosed' = TRUE
  /\ feed' = FeedFlushed
  /\ UNCHANGED <<ver, consultFrom, distinct, dependent, loops, watches, subs, pump>>

(***************************************************************************)
(* The loop (createSharedWatch) and the read pump (createWatchReadPump).   *)
(***************************************************************************)
\* pump(): a tick becomes the dirty flag.
TakeTick(e) ==
  /\ loops[e].tick
  /\ loops' = [loops EXCEPT ![e].tick = FALSE, ![e].dirty = TRUE]
  /\ UNCHANGED <<ver, consultFrom, distinct, dependent, watches, subs, pump, feed, actClosed, readFaults>>

\* waitForChange() returns.
Wake(e) ==
  /\ loops[e].phase = "waiting"
  /\ loops[e].dirty \/ loops[e].stopped
  /\ loops' = [loops EXCEPT ![e].phase = IF loops[e].stopped THEN "over" ELSE "settling"]
  /\ UNCHANGED <<ver, consultFrom, distinct, dependent, watches, subs, pump, feed, actClosed, readFaults>>

\* The flag is cleared when the window has been waited out, before the read.
DirtyCleared(l) == [l EXCEPT !.dirty = FALSE]

\* invoke(): straight onto an empty turn queue, else (some turn is running)
\* through the pump; a closed queue refuses both.
Invoke(e, l) ==
  \/ /\ ~pump.queued /\ \A f \in DOMAIN loops : loops[f].phase # "queued"
     /\ loops' = [loops EXCEPT ![e] = [l EXCEPT !.phase = "queued", !.seeded = TRUE]]
     /\ UNCHANGED pump
  \/ /\ loops' = [loops EXCEPT ![e] = [l EXCEPT !.phase = "pumped", !.seeded = TRUE]]
     /\ pump' = [pump EXCEPT !.seeds = IF l.seeded THEN @ ELSE Append(@, e),
                             !.reads = IF l.seeded THEN Append(@, e) ELSE @,
                             !.queued = TRUE]

StartLoop(e) ==
  /\ loops[e].phase = "start"
  /\ Invoke(e, loops[e])
  /\ UNCHANGED <<ver, consultFrom, distinct, dependent, watches, subs, feed, actClosed, readFaults>>

Settle(e) ==
  /\ loops[e].phase = "settling"
  /\ \/ /\ loops[e].stopped
        /\ loops' = [loops EXCEPT ![e].phase = "over"]
        /\ UNCHANGED pump
     \/ /\ ~loops[e].stopped
        /\ Invoke(e, DirtyCleared(loops[e]))
  /\ UNCHANGED <<ver, consultFrom, distinct, dependent, watches, subs, feed, actClosed, readFaults>>

\* #watchReadTurn: the value, or the read's error; a closed queue refuses it.
RunRead(e) ==
  \/ /\ ~actClosed
     /\ loops' = [loops EXCEPT ![e].phase = "read", ![e].got = ReadBy(loops[e].owner)]
     /\ dependent' = (dependent \/ ver >= consultFrom)
     /\ UNCHANGED readFaults
  \/ /\ actClosed \/ readFaults < MaxReadFaults
     /\ loops' = [loops EXCEPT ![e].phase = "read", ![e].got = Failure]
     /\ readFaults' = IF actClosed THEN readFaults ELSE readFaults + 1
     /\ dependent' \in {dependent, dependent \/ (~actClosed /\ ver >= consultFrom)}

ReadTurn(e) ==
  /\ loops[e].phase = "queued"
  /\ RunRead(e)
  /\ UNCHANGED <<ver, consultFrom, distinct, watches, subs, pump, feed, actClosed>>

\* drain(): the slice is taken up front, seeds first.
DrainTake ==
  LET n == IF Len(pump.seeds) < SliceSize THEN Len(pump.seeds) ELSE SliceSize
      k == IF Len(pump.reads) < SliceSize - n THEN Len(pump.reads) ELSE SliceSize - n
  IN /\ pump.queued /\ ~pump.draining
     /\ pump' = [pump EXCEPT !.draining = TRUE,
                             !.slice = SubSeq(pump.seeds, 1, n) \o SubSeq(pump.reads, 1, k),
                             !.seeds = SubSeq(@, n + 1, Len(@)),
                             !.reads = SubSeq(@, k + 1, Len(@))]
     /\ UNCHANGED <<ver, consultFrom, distinct, dependent, loops, watches, subs, feed, actClosed, readFaults>>

DrainJob ==
  /\ pump.draining /\ pump.slice # <<>> /\ ~actClosed
  /\ RunRead(Head(pump.slice))
  /\ pump' = [pump EXCEPT !.slice = Tail(@)]
  /\ UNCHANGED <<ver, consultFrom, distinct, watches, subs, feed, actClosed>>

\* The queue closed under the drain, or refused it: every pending job rejects.
DrainRefused ==
  LET pending == ToSet(pump.slice) \cup ToSet(pump.seeds) \cup ToSet(pump.reads)
  IN /\ actClosed /\ pump.queued
     /\ loops' = [e \in DOMAIN loops |->
                    IF e \in pending THEN [loops[e] EXCEPT !.phase = "read", !.got = Failure]
                    ELSE loops[e]]
     /\ pump' = [seeds |-> <<>>, reads |-> <<>>, slice |-> <<>>, queued |-> FALSE, draining |-> FALSE]
     /\ UNCHANGED <<ver, consultFrom, distinct, dependent, watches, subs, feed, actClosed, readFaults>>

\* The trailing drain, when anything is still pending.
TrailingDrain == pump.seeds # <<>> \/ pump.reads # <<>>

DrainEnd ==
  /\ pump.draining /\ pump.slice = <<>>
  /\ pump' = [pump EXCEPT !.draining = FALSE, !.queued = TrailingDrain]
  /\ UNCHANGED <<ver, consultFrom, distinct, dependent, loops, watches, subs, feed, actClosed, readFaults>>

(***************************************************************************)
(* The read's continuation: the discovery sweep of the finally block, then *)
(* the push, or the failure of every subscriber still on the loop.         *)
(***************************************************************************)
Swept(e) ==
  IF ~loops[e].settled /\ dependent
  THEN {s \in Subscribers(subs, e) : subs[s].principal # loops[e].owner} ELSE {}

Evicted(gone) ==
  [s \in WatchSubs |-> IF s \in gone
     THEN [subs[s] EXCEPT !.loop = 0, !.queue = <<>>, !.failed = FALSE,
                          !.done = TRUE, !.migrating = TRUE]
     ELSE subs[s]]

\* The loop goes back to waiting; a change that landed during the read is
\* still flagged.
BackToWaiting(l) == [l EXCEPT !.got = NoVal,
                              !.phase = IF l.stopped THEN "over" ELSE "waiting"]

SameAsLast(e) == distinct /\ loops[e].last # NoVal /\ loops[e].got = loops[e].last

ReadDone(e) ==
  LET gone == Swept(e)
      kept == Evicted(gone)
      r    == AfterDrop([loops EXCEPT ![e].settled = @ \/ dependent], watches, e, gone)
      l    == r.loops[e]
      live == Subscribers(kept, e)
  IN /\ loops[e].phase = "read"
     /\ watches' = r.watches
     /\ \/ /\ l.got # Failure
           /\ loops' = [r.loops EXCEPT ![e] =
                BackToWaiting([l EXCEPT !.last = IF SameAsLast(e) \/ l.stopped THEN @ ELSE l.got])]
           /\ subs' = [s \in WatchSubs |-> IF s \in live /\ ~SameAsLast(e)
                         THEN [kept[s] EXCEPT !.queue = Pushed(@, l.got)] ELSE kept[s]]
        \/ /\ l.got = Failure
           /\ loops' = [r.loops EXCEPT ![e].phase = "over", ![e].got = NoVal]
           /\ subs' = [s \in WatchSubs |-> IF s \in live
                         THEN [kept[s] EXCEPT !.failed = TRUE, !.done = TRUE] ELSE kept[s]]
     /\ UNCHANGED <<ver, consultFrom, distinct, dependent, pump, feed, actClosed, readFaults>>

-----------------------------------------------------------------------------
WatchInit ==
  /\ ver = 0
  /\ consultFrom \in ConsultFroms
  /\ distinct \in BOOLEAN
  /\ dependent = FALSE
  /\ loops = <<>>
  /\ watches = [k \in Keys |-> 0]
  /\ subs = [s \in WatchSubs |-> IdleSub]
  /\ pump = [seeds |-> <<>>, reads |-> <<>>, slice |-> <<>>, queued |-> FALSE, draining |-> FALSE]
  /\ feed = [open |-> FALSE, window |-> FALSE, pending |-> FALSE, delivered |-> 0]
  /\ actClosed = FALSE
  /\ readFaults = 0

WatchNext ==
  \/ \E s \in WatchSubs : (\E p \in Principals : OpenWatch(s, p)) \/ Leave(s) \/ PullNext(s)
  \/ Mutate \/ OpenFeed \/ WindowElapsed \/ Stop
  \/ DrainTake \/ DrainJob \/ DrainRefused \/ DrainEnd
  \/ \E e \in DOMAIN loops :
       TakeTick(e) \/ Wake(e) \/ StartLoop(e) \/ Settle(e) \/ ReadTurn(e) \/ ReadDone(e)

WatchSpec == WatchInit /\ [][WatchNext]_watchVars

-----------------------------------------------------------------------------
\* The types of the state; a subscriber holds a loop exactly while it is open
\* and not migrating between two loops.
WatchTypeOK ==
  /\ ver \in 0..MaxVer /\ consultFrom \in ConsultFroms /\ readFaults \in 0..MaxReadFaults
  /\ \A e \in DOMAIN loops :
       /\ loops[e].key \in Keys /\ loops[e].owner \in Principals
       /\ loops[e].last \in Values /\ loops[e].got \in Values
       /\ loops[e].phase \in {"start", "queued", "pumped", "read", "waiting", "settling", "over"}
  /\ \A k \in Keys : watches[k] \in 0..Len(loops)
  /\ \A s \in WatchSubs :
       /\ Len(subs[s].queue) <= WatchBuffer
       /\ subs[s].loop \in 0..Len(loops)
       /\ (subs[s].loop # 0) <=> (subs[s].phase = "open" /\ ~subs[s].migrating)

\* A value computed by a read that looked at ctx.principal only ever reaches
\* subscribers who presented that principal: the sweep runs before the push.
OwnView ==
  \A s \in WatchSubs : \A v \in ToSet(subs[s].queue) \cup {subs[s].saw} :
     v.by \in Principals => v.by = subs[s].principal

\* A loop at rest has pushed the value of the current version (no change is
\* lost between the dirty flag, the window and the read), and a subscriber
\* with nothing queued has seen it.
RestIsCurrent ==
  \A e \in DOMAIN loops :
    LET l == loops[e]
    IN l.phase = "waiting" /\ ~l.dirty /\ ~l.tick /\ ~l.stopped
       => /\ l.last = ReadBy(l.owner)
          /\ \A s \in Subscribers(subs, e) : subs[s].queue = <<>> => subs[s].saw = l.last

\* A key's loop is never forgotten while it still serves: two loops under one
\* key would re-run every read twice for as long as both are watched.
OneLoopPerKey ==
  /\ \A e \in DOMAIN loops : ~loops[e].stopped => watches[loops[e].key] = e
  /\ \A e \in DOMAIN loops : loops[e].stopped <=> Subscribers(subs, e) = {}

\* A read handed to the pump is in the drain that runs or in one that is
\* queued behind it: no watch loop waits for a drain nobody enqueued.
PumpHoldsEveryRead ==
  \A e \in DOMAIN loops : loops[e].phase = "pumped" =>
    /\ pump.queued
    /\ e \in ToSet(pump.slice) \cup ToSet(pump.seeds) \cup ToSet(pump.reads)

\* What a throttle window held back is delivered: with nothing pending the
\* changes() consumer has the newest state, after the activation stops too.
FeedKeepsLast == feed.open /\ ~feed.pending => feed.delivered = ver
=============================================================================
