---------------------------- MODULE LoadBalancing ----------------------------
(***************************************************************************)
(* Spreading activations over hosts: where new ones go and which ones are  *)
(* handed off.                                                             *)
(*   src/packages/actors/src/cluster/load-policy.ts                        *)
(*     (activationCountPolicy: attach, refresh, choose)                    *)
(*   src/packages/actors/src/cluster/placement.ts (rebalance, migrate,     *)
(*     #attachPolicy, #policyRuntime)                                      *)
(*                                                                         *)
(* One policy object, attached by some of the hosts (one process may hold  *)
(* several).  A refresh round probes its peers one by one; placements,     *)
(* idle-outs and teardowns happen between the probes.  Ratios are in       *)
(* tenths, so that the default threshold is 12.                            *)
(***************************************************************************)
EXTENDS Integers, FiniteSets, FiniteSetsExt

CONSTANTS
    LbHosts,        \* the hosts
    Attaching,      \* those whose placement attaches this policy object
    LbActors,       \* the actors
    Threshold,      \* rebalance threshold, in tenths
    MaxShed,        \* rebalance maxMoves
    MaxLbChurn,     \* bound: idle-outs and failed probes or hand-offs
    MaxLbRounds     \* bound: refresh and rebalance rounds, attaches

ASSUME LbAssumption ==
    /\ Attaching \subseteq LbHosts /\ Threshold \in Nat /\ MaxShed \in Nat \ {0}
    /\ 0 \notin LbHosts /\ IsFiniteSet(LbActors)

VARIABLES
    where,      \* actor -> host, 0 while it is nowhere
    runtimes,   \* hosts whose runtime is attached to the policy
    loads,      \* host -> last fetched count, -1 when unknown
    predicted,  \* pending: host -> placements since the last refresh
    since,      \* host -> placements since its count was fetched
    refreshing, \* the refresh in flight
    round,      \* the rebalance round in flight, on host round.host
    lbRounds,
    lbChurn

lbVars == <<where, runtimes, loads, predicted, since, refreshing, round,
            lbRounds, lbChurn>>

NoRefresh == [on |-> FALSE, for |-> 0, todo |-> {}]
NoRound   == [pc |-> "idle", host |-> 0, own |-> 0, todo |-> {}, answers |-> 0, sum |-> 0,
              left |-> {}, moved |-> 0, real |-> 0, quiet |-> TRUE, floor |-> 0]
Nothing == [h \in LbHosts |-> 0]
Unknown == [h \in LbHosts |-> -1]

Churn == lbChurn < MaxLbChurn /\ lbChurn' = lbChurn + 1
Round == lbRounds < MaxLbRounds /\ lbRounds' = lbRounds + 1
Count(h) == Cardinality({a \in LbActors : where[a] = h})
Known(h) == IF loads[h] = -1 THEN 0 ELSE loads[h]
LoadOf(h) == Known(h) + predicted[h]

\* Something else than the round changed what its host holds.
Disturbed(h) ==
    IF round.pc # "idle" /\ round.host = h THEN [round EXCEPT !.quiet = FALSE] ELSE round

------------------------------------------------------------------------------
(* activationCountPolicy                                                   *)

\* refresh(): one in flight at a time.
Refresh(h) == IF refreshing.on THEN refreshing
              ELSE [on |-> TRUE, for |-> h, todo |-> LbHosts \ {h}]

\* A refresh that starts reads its own host's load at once.
SelfRead(h) == [x \in LbHosts |-> IF x = h /\ ~refreshing.on THEN Count(h) ELSE loads[x]]
SelfSince(h) == [x \in LbHosts |-> IF x = h /\ ~refreshing.on THEN 0 ELSE since[x]]

\* attach() refreshes at once; the interval refreshes again.
Attach(h) ==
    /\ h \in Attaching \ runtimes /\ Round
    /\ runtimes' = runtimes \cup {h}
    /\ loads' = SelfRead(h) /\ since' = SelfSince(h) /\ refreshing' = Refresh(h)
    /\ UNCHANGED <<where, predicted, round, lbChurn>>

Interval(h) ==
    /\ h \in runtimes /\ Round
    /\ loads' = SelfRead(h) /\ since' = SelfSince(h) /\ refreshing' = Refresh(h)
    /\ UNCHANGED <<where, runtimes, predicted, round, lbChurn>>

\* A round whose runtime went is nobody's, also when the host attaches again:
\* that is another runtime.
Orphaned(h) == IF refreshing.for = h THEN [refreshing EXCEPT !.for = 0] ELSE refreshing

\* The teardown: the last one out clears the maps.
Detach(h) ==
    /\ h \in runtimes
    /\ runtimes' = runtimes \ {h}
    /\ IF runtimes' = {} THEN loads' = Unknown /\ predicted' = Nothing /\ since' = Nothing
       ELSE UNCHANGED <<loads, predicted, since>>
    /\ refreshing' = Orphaned(h)
    /\ UNCHANGED <<where, round, lbRounds, lbChurn>>

\* "A teardown mid-round must not let the tail of this refresh repopulate the
\* cleared maps."
LbLive == refreshing.for \in runtimes

\* A peer's answer, or none: "keep the stale value".  There is a worker for each
\* peer asked; one that finds its runtime gone ends and writes nothing.
Probed(p) ==
    /\ refreshing.on /\ p \in refreshing.todo
    /\ \/ /\ LbLive /\ UNCHANGED lbChurn
          /\ loads' = [loads EXCEPT ![p] = Count(p)]
          /\ since' = [since EXCEPT ![p] = 0]
          /\ refreshing' = [refreshing EXCEPT !.todo = @ \ {p}]
       \/ /\ ~LbLive /\ refreshing' = [refreshing EXCEPT !.todo = @ \ {p}]
          /\ UNCHANGED <<loads, since, lbChurn>>
       \/ /\ Churn /\ refreshing' = [refreshing EXCEPT !.todo = @ \ {p}]
          /\ UNCHANGED <<loads, since>>
    /\ UNCHANGED <<where, runtimes, predicted, round, lbRounds>>

\* The round is over: fresh truth resets the predictions.
Refreshed ==
    /\ refreshing.on /\ refreshing.todo = {}
    /\ refreshing' = NoRefresh
    /\ predicted' = IF LbLive THEN Nothing ELSE predicted
    /\ UNCHANGED <<where, runtimes, loads, since, round, lbRounds, lbChurn>>

\* choose(): the less loaded of two distinct samples, the first on a tie; with
\* nobody attached the first, and nothing is counted.
Chosen(a, b) == IF runtimes # {} /\ LoadOf(b) < LoadOf(a) THEN b ELSE a

Place(x) ==
    /\ where[x] = 0
    /\ \E a, b \in LbHosts :
          /\ a # b
          /\ LET c == Chosen(a, b)
             IN /\ where' = [where EXCEPT ![x] = c]
                /\ IF runtimes # {}
                   THEN /\ predicted' = [predicted EXCEPT ![c] = @ + 1]
                        /\ since' = [since EXCEPT ![c] = @ + 1]
                   ELSE UNCHANGED <<predicted, since>>
                /\ round' = Disturbed(c)
    /\ UNCHANGED <<runtimes, loads, refreshing, lbRounds, lbChurn>>

\* An idle activation is swept.
IdlesOut(x) ==
    /\ where[x] # 0 /\ Churn
    /\ where' = [where EXCEPT ![x] = 0]
    /\ round' = Disturbed(where[x])
    /\ UNCHANGED <<runtimes, loads, predicted, since, refreshing, lbRounds>>

------------------------------------------------------------------------------
(* ClusterPlacement.rebalance                                              *)

BeginRound(h) ==
    /\ round.pc = "idle" /\ Round
    /\ round' = [NoRound EXCEPT !.pc = "probe", !.host = h, !.own = Count(h),
                                !.todo = LbHosts \ {h}]
    /\ UNCHANGED <<where, runtimes, loads, predicted, since, refreshing, lbChurn>>

\* "Only ANSWERS enter the mean."
PeerReports(p) ==
    /\ round.pc = "probe" /\ p \in round.todo
    /\ \/ /\ round' = [round EXCEPT !.todo = @ \ {p}, !.answers = @ + 1, !.sum = @ + Count(p)]
          /\ UNCHANGED lbChurn
       \/ Churn /\ round' = [round EXCEPT !.todo = @ \ {p}]
    /\ UNCHANGED <<where, runtimes, loads, predicted, since, refreshing, lbRounds>>

LbAsked == 1 + round.answers
Total == round.own + round.sum

\* floor(own - mean), at most maxMoves.
LbBudget == Min({MaxShed, (round.own * LbAsked - Total) \div LbAsked})

\* own <= threshold * mean, or own - mean < 1.
Balanced == \/ 10 * round.own * LbAsked <= Threshold * Total
            \/ round.own * LbAsked - Total < LbAsked

\* The verdict, and the idle candidates: any of the host's own.
Decide ==
    /\ round.pc = "probe" /\ round.todo = {}
    /\ \/ /\ LbAsked = 1 \/ Balanced
          /\ round' = NoRound
       \/ /\ LbAsked > 1 /\ ~Balanced
          /\ \E few \in SUBSET {a \in LbActors : where[a] = round.host} :
                /\ Cardinality(few) <= LbBudget
                /\ round' = IF few = {} THEN NoRound
                            ELSE [round EXCEPT !.pc = "move", !.left = few,
                                               !.answers = 0, !.sum = 0,
                                               !.floor = (Total + LbAsked - 1) \div LbAsked]
    /\ UNCHANGED <<where, runtimes, loads, predicted, since, refreshing, lbRounds, lbChurn>>

\* migrate(): nothing to do for an actor that is no longer here, but a move.
Migrate(x) ==
    /\ round.pc = "move" /\ x \in round.left
    /\ \/ /\ where' = IF where[x] = round.host THEN [where EXCEPT ![x] = 0] ELSE where
          /\ round' = [round EXCEPT !.left = @ \ {x}, !.moved = @ + 1,
                         !.real = IF where[x] = round.host THEN @ + 1 ELSE @]
          /\ UNCHANGED lbChurn
       \/ /\ Churn /\ round' = [round EXCEPT !.left = @ \ {x}] /\ UNCHANGED where
    /\ UNCHANGED <<runtimes, loads, predicted, since, refreshing, lbRounds>>

EndRound ==
    /\ round.pc = "move" /\ round.left = {}
    /\ round' = NoRound
    /\ UNCHANGED <<where, runtimes, loads, predicted, since, refreshing, lbRounds, lbChurn>>

------------------------------------------------------------------------------
LbInit ==
    /\ \E h \in LbHosts \cup {0} : where = [x \in LbActors |-> h]
    /\ runtimes = {} /\ loads = Unknown /\ predicted = Nothing /\ since = Nothing
    /\ refreshing = NoRefresh /\ round = NoRound /\ lbRounds = 0 /\ lbChurn = 0

LbNext ==
    \/ \E h \in LbHosts : Attach(h) \/ Interval(h) \/ Detach(h) \/ Probed(h)
                             \/ BeginRound(h) \/ PeerReports(h)
    \/ \E x \in LbActors : Place(x) \/ IdlesOut(x) \/ Migrate(x)
    \/ Refreshed \/ Decide \/ EndRound

LbSpec == LbInit /\ [][LbNext]_lbVars

------------------------------------------------------------------------------
(* Properties                                                              *)

\* Type correctness; a round never asks the host it runs for.
LbTypeOK ==
    /\ where \in [LbActors -> LbHosts \cup {0}]
    /\ runtimes \subseteq Attaching
    /\ \A h \in LbHosts : loads[h] \in -1 .. Cardinality(LbActors) /\ predicted[h] \in Nat
    /\ refreshing.for \notin refreshing.todo
    /\ round.moved <= MaxShed

\* "Un-attached, choose() keeps no state at all": whatever a refresh was doing
\* when the last placement let go, nothing is left in the maps and nothing
\* comes back into them.
UnattachedKeepsNothing ==
    runtimes = {} => loads = Unknown /\ predicted = Nothing

\* "Shed only down to the mean, never past it": a round nothing else disturbed
\* leaves its host with no less than the mean.
QuietRoundStopsAtMean ==
    round.pc = "move" /\ round.quiet => Count(round.host) >= round.floor

\* "Placements this host made since the last refresh are counted on top of the
\* fetched numbers, so a burst arriving inside one refresh window sees its own
\* effect."
OwnEffectSeen == \A h \in LbHosts : predicted[h] >= since[h]

\* "Counting it as a move would report a rebalance that never happened."
MovedIsMoved == round.moved = round.real

\* "Shed only down to the mean, never past it", whatever happens meanwhile.
NeverPastTheMean == round.real > 0 => Count(round.host) >= round.floor
==============================================================================
