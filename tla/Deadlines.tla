------------------------------ MODULE Deadlines ------------------------------
(***************************************************************************)
(* Call deadlines: how a call gets one, the exact timers of near deadlines *)
(* and the one coarse timer and bucket registry all far deadlines share.   *)
(*   src/packages/actors/src/host/deadlines.ts, host.ts (#call)            *)
(*                                                                         *)
(* Timers are punctual: time does not pass a timer that is due, so what is *)
(* late here is late by design and not because the event loop was busy.    *)
(***************************************************************************)
EXTENDS Integers, Sequences, FiniteSets, SequencesExt

CONSTANTS
    DlCalls,        \* calls, made in increasing order
    Budgets,        \* explicit deadlineMs a call may carry
    DefaultBudget,  \* callTimeoutMs
    MaxBudget,      \* bound: the largest of them
    CoarseTick,     \* COARSE_TICK_MS
    ExactBelow,     \* EXACT_BELOW_MS
    MaxDlNow        \* bound: how far time goes

ASSUME DeadlineAssumption ==
    /\ DlCalls \subseteq Nat \ {0} /\ IsFiniteSet(DlCalls)
    /\ MaxBudget \in Nat /\ Budgets \subseteq 1 .. MaxBudget
    /\ DefaultBudget \in 1 .. MaxBudget /\ CoarseTick \in Nat \ {0}
    /\ ExactBelow \in Nat /\ MaxDlNow \in Nat \ {0}

VARIABLES
    dlNow,      \* Date.now()
    dls,        \* call -> state, deadline, caller, place in its bucket
    buckets,    \* #buckets: key -> pending entries, in array order
    dlSize,     \* #size
    dlTimer,    \* when the coarse timer fires, 0 when it is not armed
    disposed    \* stopAll has called dispose()

dlVars == <<dlNow, dls, buckets, dlSize, dlTimer, disposed>>

MinOf(a, b) == IF a <= b THEN a ELSE b
Horizon == MaxDlNow + MaxBudget
Keys == 0 .. Horizon

\* #call: an entry point's budget replaces the host default; inside a chain a
\* budget can only tighten the inherited deadline.
DeadlineOf(caller, budget) ==
    LET explicit == dlNow + budget
    IN IF caller = 0 THEN IF budget = 0 THEN dlNow + DefaultBudget ELSE explicit
       ELSE IF budget = 0 THEN dls[caller].deadline
       ELSE MinOf(dls[caller].deadline, explicit)

\* #add: the deadline rounded UP to a tick, so a bucket never fires early.
KeyOf(deadline) == (deadline + CoarseTick - 1) \div CoarseTick

\* race() and #add: expired, near (an exact timer of its own) or far.
Race(c, caller, budget) ==
    /\ dls[c].st = "new" /\ \A d \in DlCalls : d < c => dls[d].st # "new"
    /\ caller # 0 => dls[caller].body
    /\ LET dl == DeadlineOf(caller, budget)
           k == KeyOf(dl)
           e == [dls[c] EXCEPT !.deadline = dl, !.caller = caller, !.body = TRUE]
           spent == dl - dlNow
       IN \/ /\ spent <= 0
             /\ dls' = [dls EXCEPT ![c] = [e EXCEPT !.st = "fired"]]
             /\ UNCHANGED <<buckets, dlSize, dlTimer>>
          \/ /\ spent > 0 /\ spent < ExactBelow
             /\ dls' = [dls EXCEPT ![c] = [e EXCEPT !.st = "near"]]
             /\ UNCHANGED <<buckets, dlSize, dlTimer>>
          \/ /\ spent > 0 /\ spent >= ExactBelow
             /\ dls' = [dls EXCEPT ![c] =
                   [e EXCEPT !.st = "far", !.index = Len(buckets[k]) + 1]]
             /\ buckets' = [buckets EXCEPT ![k] = Append(@, c)]
             /\ dlSize' = dlSize + 1
             /\ dlTimer' = IF dlTimer = 0 THEN dlNow + CoarseTick ELSE dlTimer
    /\ UNCHANGED <<dlNow, disposed>>

\* #remove: swap-pop; the entry that moved is told its new index.
SwapPop(c, k) ==
    LET last == buckets[k][Len(buckets[k])]
        rest == Front(buckets[k])
    IN /\ buckets' = [buckets EXCEPT ![k] =
             IF last = c THEN rest ELSE [rest EXCEPT ![dls[c].index] = last]]
       /\ dls' = [d \in DlCalls |->
             IF d = c THEN [dls[c] EXCEPT !.st = "done", !.index = 0]
             ELSE IF d = last THEN [dls[d] EXCEPT !.index = dls[c].index]
             ELSE dls[d]]

\* The work settles first: the timer is cleared, or the entry removed.
Settle(c) ==
    \/ /\ dls[c].st = "near"
       /\ dls' = [dls EXCEPT ![c].st = "done"]
       /\ UNCHANGED <<dlNow, buckets, dlSize, dlTimer, disposed>>
    \/ /\ dls[c].st = "far"
       /\ SwapPop(c, KeyOf(dls[c].deadline))
       /\ dlSize' = dlSize - 1
       /\ UNCHANGED <<dlNow, dlTimer, disposed>>

\* The turn itself ends; it outlives a caller that timed out.
BodyEnds(c) ==
    /\ dls[c].body /\ dls[c].st \in {"done", "fired"}
    /\ dls' = [dls EXCEPT ![c] =
                  [@ EXCEPT !.body = FALSE, !.deadline = 0, !.caller = 0]]
    /\ UNCHANGED <<dlNow, buckets, dlSize, dlTimer, disposed>>

NearFires(c) ==
    /\ dls[c].st = "near" /\ dlNow >= dls[c].deadline
    /\ dls' = [dls EXCEPT ![c].st = "fired"]
    /\ UNCHANGED <<dlNow, buckets, dlSize, dlTimer, disposed>>

DueKeys == {k \in Keys : buckets[k] # <<>> /\ k * CoarseTick <= dlNow}

\* Mutant: #tick forgets to arm the next tick while entries are left.
RearmedNever(left) == 0

\* #tick: re-armed only while entries are left.
Rearmed(left) == IF left > 0 THEN dlNow + CoarseTick ELSE 0

\* #tick: every due bucket fires whole.
CoarseFires ==
    /\ dlTimer # 0 /\ dlNow >= dlTimer
    /\ LET due == UNION {Range(buckets[k]) : k \in DueKeys}
       IN /\ dls' = [c \in DlCalls |-> IF c \in due
                        THEN [dls[c] EXCEPT !.st = "fired", !.index = 0] ELSE dls[c]]
          /\ dlSize' = dlSize - Cardinality(due)
          /\ dlTimer' = Rearmed(dlSize - Cardinality(due))
    /\ buckets' = [k \in Keys |-> IF k \in DueKeys THEN <<>> ELSE buckets[k]]
    /\ UNCHANGED <<dlNow, disposed>>

\* dispose(), when stopAll has drained or force-dropped everyone.
Dispose ==
    /\ ~disposed /\ disposed' = TRUE
    /\ dlTimer' = 0
    /\ UNCHANGED <<dlNow, dls, buckets, dlSize>>

Overdue == \/ dlTimer # 0 /\ dlNow >= dlTimer
           \/ \E c \in DlCalls : dls[c].st = "near" /\ dlNow >= dls[c].deadline

Pass ==
    /\ dlNow < MaxDlNow /\ ~Overdue
    /\ dlNow' = dlNow + 1
    /\ UNCHANGED <<dls, buckets, dlSize, dlTimer, disposed>>

DlInit ==
    /\ dlNow = 1 /\ dlSize = 0 /\ dlTimer = 0 /\ disposed = FALSE
    /\ dls = [c \in DlCalls |-> [st |-> "new", deadline |-> 0, caller |-> 0,
                                 index |-> 0, body |-> FALSE]]
    /\ buckets = [k \in Keys |-> <<>>]

DlNext ==
    \/ \E c \in DlCalls :
          \/ Settle(c) \/ BodyEnds(c) \/ NearFires(c)
          \/ \E caller \in DlCalls \cup {0}, b \in Budgets \cup {0} : Race(c, caller, b)
    \/ CoarseFires \/ Dispose \/ Pass

DlSpec == DlInit /\ [][DlNext]_dlVars

------------------------------------------------------------------------------
(* Properties                                                              *)

\* Type correctness, with the registry's bookkeeping: a far call sits in the
\* bucket of its key at the index it knows, and #size counts exactly those.
DlTypeOK ==
    /\ dlNow \in Nat /\ dlTimer \in Nat /\ disposed \in BOOLEAN
    /\ \A c \in DlCalls : dls[c].st \in {"new", "near", "far", "done", "fired"}
    /\ \A c \in DlCalls : dls[c].st = "far" =>
          LET b == buckets[KeyOf(dls[c].deadline)]
          IN dls[c].index \in 1 .. Len(b) /\ b[dls[c].index] = c
    /\ dlSize = Cardinality({c \in DlCalls : dls[c].st = "far"})
    /\ \A k \in Keys : \A c \in Range(buckets[k]) : dls[c].st = "far"

\* "Firing is never early" (deadlines.ts): a caller is told of a timeout only
\* at or after its own deadline, whatever bucket it shares.
NeverEarly == \A c \in DlCalls : dls[c].st = "fired" => dlNow >= dls[c].deadline

\* "may fire <= ~2 ticks late": until dispose(), a call still unanswered is less
\* than two coarse ticks past its deadline, at whatever phase the shared timer
\* was armed and however often it was left to lapse.
LateByTwoTicks ==
    ~disposed => \A c \in DlCalls : dls[c].st \in {"near", "far"}
                     => dlNow < dls[c].deadline + 2 * CoarseTick

\* No tick is lost: until dispose(), a registry that holds anybody has its coarse
\* timer armed, and within one tick. Over by one in #size, or a #tick that leaves
\* without #arm, and whoever is left in the buckets waits for ever.
TickArmed ==
    ~disposed /\ dlSize > 0 => dlTimer # 0 /\ dlTimer <= dlNow + CoarseTick

\* A hop deep in a chain never buys itself more time than the entry point
\* allowed (#75): every deadline in a chain is within its caller's.
ChainTightens ==
    \A c \in DlCalls : dls[c].st # "new" /\ dls[c].caller # 0 /\ dls[dls[c].caller].body
        => dls[c].deadline <= dls[dls[c].caller].deadline

\* LateByTwoTicks after dispose() as well.
TimesOutEvenAfterStop ==
    \A c \in DlCalls : dls[c].st \in {"near", "far"}
        => dlNow < dls[c].deadline + 2 * CoarseTick
==============================================================================
