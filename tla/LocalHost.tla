------------------------------ MODULE LocalHost ------------------------------
(***************************************************************************)
(* One host's dispatcher: the directory of slots, stateless pools, the     *)
(* turn lanes' depth and admission caps, call chains and reentrancy,       *)
(* deactivation, the sweep and stopAll.                                    *)
(*   src/packages/actors/src/host/local-host.ts, turns.ts, reentrancy.ts   *)
(*                                                                         *)
(* A call is a dispatch in flight; a turn may dispatch one nested call and *)
(* awaits it.  `told' is what the caller has learned, `at' where the turn  *)
(* is.  Storage, claims and what a turn computes are in Activation and     *)
(* Placement; every call carries a deadline, which may pass at any time.   *)
(***************************************************************************)
EXTENDS Integers, Sequences, FiniteSets, SequencesExt

CONSTANTS
    HostActors,     \* ids of stateful actors
    HostPools,      \* ids of stateless workers
    HostCalls,      \* calls a behaviour may make
    PoolCap,        \* stateless.maxLocal
    MaxQueued,      \* per-actor cap on queued turns (0: none)
    MaxInflight,    \* host cap on queued turns (0: none)
    MaxActive,      \* maxActivations, the sweep's soft cap
    MaxActs,        \* bound: activations made in a behaviour
    MaxSpins,       \* bound: members one pool record spins
    MaxHostFaults   \* bound: failed activations, deactivations and timeouts

ASSUME HostAssumption ==
    /\ PoolCap \in Nat \ {0} /\ MaxQueued \in Nat /\ MaxInflight \in Nat
    /\ MaxActs \in Nat /\ MaxSpins \in Nat \ {0} /\ MaxHostFaults \in Nat
    /\ MaxActive \in Nat /\ HostActors \cap HostPools = {}

VARIABLES
    reent,       \* actor -> 'none', 'call-chain' or 'always' (the definition)
    dir,         \* #directory: slot id -> phase and activation
    acts,        \* activations made: where, phase, serial lane, free turns
    pools,       \* #pools: pool -> record present, seq, members
    calls,       \* calls made
    inflight,    \* admission.inflight
    stop,        \* 'no', 'draining', 'stopped' or 'forced'
    hostFaults

hostVars == <<reent, dir, acts, pools, calls, inflight, stop, hostFaults>>

Modes == {"none", "call-chain", "always"}
Members == HostPools \X (0 .. MaxSpins - 1)
Plain == {<<a>> : a \in HostActors}
SlotIds == Plain \cup Members
Targets == HostActors \cup HostPools
NoSlot == [ph |-> "none", act |-> 0]
NoCall == 0

\* turns.depth: the serial lane's turns and the interleaved ones; an inline
\* turn is part of the turn it re-entered.
Depth(n) == Len(acts[n].lane) + Cardinality(acts[n].free)
InLane(n) == Range(acts[n].lane) \cup acts[n].free

\* A call's turn runs: at the head of its lane, interleaved, or inline.
Runs(c) == calls[c].at # 0 /\ \/ c \in acts[calls[c].at].free
                              \/ c \in acts[calls[c].at].inline
                              \/ /\ acts[calls[c].at].lane # <<>>
                                 /\ Head(acts[calls[c].at].lane) = c

\* The nested call a turn is awaiting, if any.
Awaited(c) == {d \in HostCalls : calls[d].from = c /\ calls[d].told = "wait"}
CanAct(c) == Runs(c) /\ Awaited(c) = {}

------------------------------------------------------------------------------
(* Calls and lanes                                                         *)

\* Activation.enqueue: a call that starts a chain meets the caps; then
\* Turns.run refuses on closed turns, or queues (or interleaves) the turn.
Refusal(n, root) ==
    IF root /\ \/ MaxQueued > 0 /\ Depth(n) >= MaxQueued
               \/ MaxInflight > 0 /\ inflight >= MaxInflight
    THEN "overload"
    ELSE IF acts[n].closed THEN "shutdown" ELSE "none"

Interleaves(n) == Len(acts[n].of) = 1 /\ reent[acts[n].of[1]] = "always"

\* A call that has been answered and has no turn left.
Over(k, what) ==
    [to |-> "-", chain |-> {}, from |-> NoCall, oneWay |-> FALSE,
     told |-> IF k.told = "wait" THEN what ELSE k.told, at |-> 0, on |-> 0,
     drain |-> FALSE]

\* One-way calls are answered when the turn is accepted.
OnAccept(k) == [k EXCEPT !.told = IF k.oneWay THEN "ok" ELSE @]

Enqueue(c, k, n) ==
    LET no == Refusal(n, k.chain = {})
    IN IF no # "none"
       THEN /\ calls' = [calls EXCEPT ![c] = Over(k, no)]
            /\ UNCHANGED <<acts, inflight>>
       ELSE /\ calls' = [calls EXCEPT ![c] =
                            OnAccept([k EXCEPT !.at = n])]
            /\ acts' = IF Interleaves(n)
                       THEN [acts EXCEPT ![n].free = @ \cup {c}]
                       ELSE [acts EXCEPT ![n].lane = Append(@, c)]
            /\ inflight' = inflight + 1

\* A call waits for activation n: for the slot's promise, or for its drain.
Await(c, k, n, drain) ==
    /\ calls' = [calls EXCEPT ![c] = [k EXCEPT !.on = n, !.drain = drain]]
    /\ UNCHANGED <<acts, inflight>>

Fresh == {n \in 1 .. MaxActs : acts[n].ph = "unborn"}

\* Reserve slot id with an activation of its own and wait for it.
Activate(c, k, id) ==
    /\ Fresh # {}
    /\ LET n == CHOOSE x \in Fresh : \A y \in Fresh : x <= y
       IN /\ acts' = [acts EXCEPT ![n] = [@ EXCEPT !.ph = "creating", !.of = id]]
          /\ dir' = [dir EXCEPT ![id] = [ph |-> "activating", act |-> n]]
          /\ calls' = [calls EXCEPT ![c] = [k EXCEPT !.on = n]]
    /\ UNCHANGED inflight

------------------------------------------------------------------------------
(* Stateless pools                                                         *)

MembersIn(p, phases) ==
    {i \in 1 .. Len(pools[p].members) : dir[pools[p].members[i]].ph \in phases}

\* Active and activating members count against the cap; draining ones do not.
LiveMembers(p) == Cardinality(MembersIn(p, {"active", "activating"}))

ActOf(p, i) == dir[pools[p].members[i]].act

\* The shallowest active member, the earliest among equals.
Best(p) == CHOOSE i \in MembersIn(p, {"active"}) :
    \A j \in MembersIn(p, {"active"}) :
        \/ Depth(ActOf(p, i)) < Depth(ActOf(p, j))
        \/ Depth(ActOf(p, i)) = Depth(ActOf(p, j)) /\ i <= j

\* #spinMember, on the record #ensurePool returned.
Spin(c, k, p) ==
    /\ pools[p].seq < MaxSpins
    /\ LET id == <<p, pools[p].seq>>
       IN /\ pools' = [pools EXCEPT ![p] =
                          [on |-> TRUE, seq |-> @.seq + 1,
                           members |-> Append(@.members, id)]]
          /\ Activate(c, k, id)

\* #poolTarget
PoolTarget(c, k, p) ==
    LET active == MembersIn(p, {"active"})
        joining == MembersIn(p, {"activating"})
        idle == active # {} /\ Depth(ActOf(p, Best(p))) = 0
    IN \/ /\ idle
          /\ Enqueue(c, k, ActOf(p, Best(p))) /\ UNCHANGED <<dir, pools>>
       \/ /\ ~idle /\ LiveMembers(p) < PoolCap
          /\ Spin(c, k, p)
       \/ /\ ~idle /\ LiveMembers(p) >= PoolCap /\ active # {}
          /\ Enqueue(c, k, ActOf(p, Best(p))) /\ UNCHANGED <<dir, pools>>
       \/ /\ LiveMembers(p) >= PoolCap /\ active = {}
          /\ Await(c, k, ActOf(p, CHOOSE i \in joining : \A j \in joining : i <= j),
                   FALSE)
          /\ UNCHANGED <<dir, pools>>

\* #forgetMember: by id; an emptied record is deleted, and seq with it.
Forgotten(ps, id) ==
    IF Len(id) = 2 /\ \E i \in 1 .. Len(ps[id[1]].members) :
                          ps[id[1]].members[i] = id
    THEN LET left == Remove(ps[id[1]].members, id)
         IN [ps EXCEPT ![id[1]] = IF left = <<>>
                THEN [on |-> FALSE, seq |-> 0, members |-> <<>>]
                ELSE [@ EXCEPT !.members = left]]
    ELSE ps

------------------------------------------------------------------------------
(* Dispatch                                                                *)

\* #activationFor, one turn of its loop.
Resolve(c, k) ==
    IF k.to \in HostPools THEN PoolTarget(c, k, k.to)
    ELSE LET id == <<k.to>>
         IN \/ /\ dir[id].ph = "none"
               /\ Activate(c, k, id) /\ UNCHANGED pools
            \/ /\ dir[id].ph \in {"activating", "deactivating"}
               /\ Await(c, k, dir[id].act, dir[id].ph = "deactivating")
               /\ UNCHANGED <<dir, pools>>
            \/ /\ dir[id].ph = "active"
               /\ Enqueue(c, k, dir[id].act) /\ UNCHANGED <<dir, pools>>

ActiveOf(t) == IF t \in HostActors /\ dir[<<t>>].ph = "active"
               THEN dir[<<t>>].act ELSE 0

Told(c, k, what) ==
    /\ calls' = [calls EXCEPT ![c] = Over(k, what)]
    /\ UNCHANGED <<acts, inflight, dir, pools>>

\* #checkReentrancy: the target's turn is up-stack.  Non-reentrant targets
\* (a pool's id has no slot) are refused; an interleaving one is dispatched;
\* a call-chain one runs inline, or is dispatched when its slot is not active.
Reenter(c, k) ==
    LET mode == IF k.to \in HostActors THEN reent[k.to] ELSE "none"
        n == ActiveOf(k.to)
    IN \/ mode = "none" /\ Told(c, k, "deadlock")
       \/ (mode = "always" \/ (mode = "call-chain" /\ n = 0)) /\ Resolve(c, k)
       \/ /\ mode = "call-chain" /\ n # 0
          /\ calls' = [calls EXCEPT ![c] = [k EXCEPT !.at = n]]
          /\ acts' = [acts EXCEPT ![n].inline = @ \cup {c}]
          /\ UNCHANGED <<inflight, dir, pools>>

\* #dispatchWarmOrSlow and #dispatchOneWay: stopping refuses new chains only;
\* a one-way call awaits nothing and skips the reentrancy check.
DispatchCall(c, k) ==
    IF stop # "no" /\ k.chain = {} THEN Told(c, k, "shutdown")
    ELSE IF k.to \in k.chain /\ ~k.oneWay THEN Reenter(c, k)
    ELSE Resolve(c, k)

Unmade(c) == calls[c].told = "unmade"
Next1(c) == Unmade(c) /\ \A d \in HostCalls : d < c => ~Unmade(d)

NewCall(t, chain, from, one) ==
    [to |-> t, chain |-> chain, from |-> from, oneWay |-> one,
     told |-> "wait", at |-> 0, on |-> 0, drain |-> FALSE]

\* A caller outside any turn.
CallFromOutside(c, t) ==
    /\ Next1(c)
    /\ DispatchCall(c, NewCall(t, {}, NoCall, FALSE))
    /\ UNCHANGED <<reent, stop, hostFaults>>

\* A turn calls another actor (or its own), awaited or one-way.
CallFromTurn(c, t, p, one) ==
    /\ Next1(c) /\ ~Unmade(p) /\ CanAct(p)
    /\ DispatchCall(c, NewCall(t, calls[p].chain \cup {calls[p].to},
                               IF one THEN NoCall ELSE p, one))
    /\ UNCHANGED <<reent, stop, hostFaults>>

\* The promise a call waits on has settled: enqueue on the activation, fail
\* with it, or look again after a drain.
Proceed(c) ==
    /\ calls[c].on # 0
    /\ LET n == calls[c].on
           k == [calls[c] EXCEPT !.on = 0, !.drain = FALSE]
       IN \/ /\ acts[n].ph = "failed"
             /\ calls' = [calls EXCEPT ![c] = Over(k, "failed")]
             /\ UNCHANGED <<acts, inflight, dir, pools>>
          \/ /\ acts[n].ph \in {"live", "closing", "gone"} /\ ~calls[c].drain
             /\ Enqueue(c, k, n) /\ UNCHANGED <<dir, pools>>
          \/ /\ acts[n].ph = "gone" /\ calls[c].drain
             /\ Resolve(c, k)
    /\ UNCHANGED <<reent, stop, hostFaults>>

\* A turn ends: its lane moves on, the load counters drop, the caller hears.
Settled(c) == calls' = [calls EXCEPT ![c] = Over(@, "ok")]
LeaveLane(c, n) ==
    acts' = [acts EXCEPT ![n] = [@ EXCEPT
        !.lane = IF @ # <<>> /\ Head(@) = c THEN Tail(@) ELSE @,
        !.free = @ \ {c}, !.inline = @ \ {c}]]
LoadAfter(c, n) == IF c \in InLane(n) THEN inflight - 1 ELSE inflight

EndTurn(c) ==
    /\ calls[c].at # 0 /\ CanAct(c)
    /\ Settled(c) /\ LeaveLane(c, calls[c].at)
    /\ inflight' = LoadAfter(c, calls[c].at)
    /\ UNCHANGED <<reent, dir, pools, stop, hostFaults>>

\* CallDeadlines.race: the caller is told, the turn is never killed.
TimeOut(c) ==
    /\ hostFaults < MaxHostFaults
    /\ calls[c].told = "wait"
    /\ calls' = [calls EXCEPT ![c].told = "timeout"]
    /\ hostFaults' = hostFaults + 1
    /\ UNCHANGED <<reent, dir, acts, pools, inflight, stop>>

------------------------------------------------------------------------------
(* Activations                                                             *)

\* Activation.create resolved: the slot turns active if it is still ours.
Created(n) ==
    /\ acts[n].ph = "creating"
    /\ acts' = [acts EXCEPT ![n].ph = "live"]
    /\ dir' = IF dir[acts[n].of] = [ph |-> "activating", act |-> n]
              THEN [dir EXCEPT ![acts[n].of].ph = "active"] ELSE dir
    /\ UNCHANGED <<reent, pools, calls, inflight, stop, hostFaults>>

CreateFailed(n) ==
    /\ hostFaults < MaxHostFaults
    /\ acts[n].ph = "creating"
    /\ acts' = [acts EXCEPT ![n] = [@ EXCEPT !.ph = "failed", !.doomed = FALSE]]
    /\ dir' = IF dir[acts[n].of] = [ph |-> "activating", act |-> n]
              THEN [dir EXCEPT ![acts[n].of] = NoSlot] ELSE dir
    /\ pools' = Forgotten(pools, acts[n].of)
    /\ hostFaults' = hostFaults + 1
    /\ UNCHANGED <<reent, calls, inflight, stop>>

\* #deactivateById over a set of slots: an active one starts draining, one
\* still activating is taken down as soon as it is up.
Draining(ids, d) ==
    [id \in SlotIds |-> IF id \in ids /\ d[id].ph = "active"
                        THEN [d[id] EXCEPT !.ph = "deactivating"] ELSE d[id]]
TakeDown(ids) ==
    /\ dir' = Draining(ids, dir)
    /\ acts' = [n \in 1 .. MaxActs |->
          IF acts[n].of \in ids /\ dir[acts[n].of].act = n
          THEN [acts[n] EXCEPT
                  !.ph = IF dir[acts[n].of].ph = "active" THEN "closing" ELSE @,
                  !.doomed = IF dir[acts[n].of].ph = "activating"
                             THEN TRUE ELSE @]
          ELSE acts[n]]

\* deactivate(ref) or deactivateType: one actor, or every member of a pool.
Deactivate(t) ==
    /\ hostFaults < MaxHostFaults /\ stop = "no"
    /\ LET ids == IF t \in HostPools THEN Range(pools[t].members) ELSE {<<t>>}
       IN /\ \E id \in ids : dir[id].ph \in {"active", "activating"}
          /\ TakeDown(ids)
    /\ hostFaults' = hostFaults + 1
    /\ UNCHANGED <<reent, pools, calls, inflight, stop>>

\* The deactivation queued behind a creation.
DeactivateDoomed(n) ==
    /\ acts[n].ph = "live" /\ acts[n].doomed
    /\ IF dir[acts[n].of] = [ph |-> "active", act |-> n]
       THEN /\ dir' = [dir EXCEPT ![acts[n].of].ph = "deactivating"]
            /\ acts' = [acts EXCEPT ![n] =
                           [@ EXCEPT !.ph = "closing", !.doomed = FALSE]]
       ELSE /\ acts' = [acts EXCEPT ![n].doomed = FALSE] /\ UNCHANGED dir
    /\ UNCHANGED <<reent, pools, calls, inflight, stop, hostFaults>>

\* Idle and unheld; how long it has been idle is left open.
IdleSlots == {id \in SlotIds : dir[id].ph = "active" /\ Depth(dir[id].act) = 0}
ActiveSlots == {id \in SlotIds : dir[id].ph = "active"}

\* sweep: the slots idle for long enough, then as many idle ones as exceed
\* the soft cap (least recently used first; recency is left open).
Sweep(old, shed) ==
    /\ stop = "no" /\ hostFaults < MaxHostFaults
    /\ old \cup shed # {} /\ old \cup shed \subseteq IdleSlots
    /\ old \cap shed = {}
    /\ LET excess == Cardinality(ActiveSlots \ old) - MaxActive
           idle == Cardinality(IdleSlots \ old)
       IN Cardinality(shed) = IF MaxActive = 0 \/ excess <= 0 THEN 0
                              ELSE IF idle < excess THEN idle ELSE excess
    /\ TakeDown(old \cup shed)
    /\ hostFaults' = hostFaults + 1
    /\ UNCHANGED <<reent, pools, calls, inflight, stop>>

\* Activation.deactivate: after the tasks' grace the turns are closed ...
Close(n) ==
    /\ acts[n].ph = "closing" /\ ~acts[n].closed
    /\ acts' = [acts EXCEPT ![n].closed = TRUE]
    /\ UNCHANGED <<reent, dir, pools, calls, inflight, stop, hostFaults>>

\* ... and once the lanes are empty the slot goes, then a member's id.
Drained(n) ==
    /\ acts[n].ph = "closing" /\ acts[n].closed /\ Depth(n) = 0
    /\ acts' = [acts EXCEPT ![n].ph = "gone"]
    /\ dir' = IF dir[acts[n].of] = [ph |-> "deactivating", act |-> n]
              THEN [dir EXCEPT ![acts[n].of] = NoSlot] ELSE dir
    /\ pools' = Forgotten(pools, acts[n].of)
    /\ UNCHANGED <<reent, calls, inflight, stop, hostFaults>>

------------------------------------------------------------------------------
(* stopAll                                                                 *)

Occupied == {id \in SlotIds : dir[id].ph # "none"}

\* The slots there now are taken down; the front door closes.
Stop ==
    /\ stop = "no"
    /\ stop' = "draining"
    /\ TakeDown(Occupied)
    /\ UNCHANGED <<reent, pools, calls, inflight, hostFaults>>

\* Everything collected has settled.  (What nested calls activated since is
\* not in the list; see StoppedHoldsNothing in Placement.)
StopDone ==
    /\ stop = "draining"
    /\ \A n \in 1 .. MaxActs : acts[n].ph # "closing" /\ ~acts[n].doomed
    /\ stop' = "stopped"
    /\ UNCHANGED <<reent, dir, acts, pools, calls, inflight, hostFaults>>

\* The deadline: active slots are force-stopped, every slot and pool dropped.
StopDeadline ==
    /\ stop = "draining"
    /\ \E n \in 1 .. MaxActs : acts[n].ph = "closing" \/ acts[n].doomed
    /\ stop' = "forced"
    /\ acts' = [n \in 1 .. MaxActs |->
          IF acts[n].of \in SlotIds /\ dir[acts[n].of] = [ph |-> "active", act |-> n]
          THEN [acts[n] EXCEPT !.closed = TRUE] ELSE acts[n]]
    /\ dir' = [id \in SlotIds |-> NoSlot]
    /\ pools' = [p \in HostPools |-> [on |-> FALSE, seq |-> 0, members |-> <<>>]]
    /\ UNCHANGED <<reent, calls, inflight, hostFaults>>

------------------------------------------------------------------------------
HostInit ==
    /\ reent \in [HostActors -> Modes]
    /\ dir = [id \in SlotIds |-> NoSlot]
    /\ acts = [n \in 1 .. MaxActs |->
          [ph |-> "unborn", of |-> <<>>, lane |-> <<>>, free |-> {},
           inline |-> {}, closed |-> FALSE, doomed |-> FALSE]]
    /\ pools = [p \in HostPools |-> [on |-> FALSE, seq |-> 0, members |-> <<>>]]
    /\ calls = [c \in HostCalls |->
          [to |-> "-", chain |-> {}, from |-> NoCall, oneWay |-> FALSE,
           told |-> "unmade", at |-> 0, on |-> 0, drain |-> FALSE]]
    /\ inflight = 0 /\ stop = "no" /\ hostFaults = 0

\* Steps the runtime takes by itself, and what the outside may do.
HostProgress ==
    \/ \E c \in HostCalls : Proceed(c) \/ EndTurn(c)
    \/ \E n \in 1 .. MaxActs : Created(n) \/ DeactivateDoomed(n) \/ Close(n)
                              \/ Drained(n)
HostEnvironment ==
    \/ \E c \in {d \in HostCalls : Next1(d)}, t \in Targets :
          \/ CallFromOutside(c, t)
          \/ \E p \in {d \in HostCalls : CanAct(d)}, one \in BOOLEAN :
                CallFromTurn(c, t, p, one)
    \/ \E c \in HostCalls : TimeOut(c)
    \/ \E n \in 1 .. MaxActs : CreateFailed(n)
    \/ \E t \in Targets : Deactivate(t)
    \/ \E old, shed \in SUBSET IdleSlots : Sweep(old, shed)
    \/ Stop \/ StopDone \/ StopDeadline

HostNext == HostProgress \/ HostEnvironment
HostSpec == HostInit /\ [][HostNext]_hostVars

------------------------------------------------------------------------------
(* Properties                                                              *)

Verdicts == {"unmade", "wait", "ok", "shutdown", "deadlock", "failed",
             "overload", "timeout"}

\* Type correctness: slots, activations, pools and calls keep their shape; a
\* turn is in the lane of the activation its call names, and nowhere else.
HostTypeOK ==
    /\ reent \in [HostActors -> Modes]
    /\ \A id \in SlotIds :
          /\ dir[id].ph \in {"none", "activating", "active", "deactivating"}
          /\ dir[id].act \in 0 .. MaxActs
          /\ dir[id].ph = "none" <=> dir[id].act = 0
    /\ \A n \in 1 .. MaxActs :
          /\ acts[n].ph \in {"unborn", "creating", "live", "closing", "gone", "failed"}
          /\ \A c \in InLane(n) \cup acts[n].inline : calls[c].at = n
    /\ \A c \in HostCalls :
          /\ calls[c].told \in Verdicts /\ calls[c].on \in 0 .. MaxActs
          /\ calls[c].at # 0 => /\ calls[c].on = 0
                                /\ c \in InLane(calls[c].at) \cup acts[calls[c].at].inline
    /\ stop \in {"no", "draining", "stopped", "forced"}

\* Unless the shutdown deadline passed, a member is listed in its pool exactly
\* while its slot exists (the invariant WorkerPool's comment states), however
\* creations, failures and drains interleave.
PoolListsItsSlots ==
    stop # "forced" => \A id \in Members :
        dir[id].ph # "none" <=> id \in Range(pools[id[1]].members)

\* A pool never has more than maxLocal members that accept work, whatever the
\* order in which callers spin members and members come up or drain.
PoolWithinCap == \A p \in HostPools : LiveMembers(p) <= PoolCap

\* The admission counter is the number of turns queued or running on the host:
\* whichever way turns end it never drifts, so a host that is idle admits.
LoadIsTurns ==
    inflight = Cardinality(UNION {InLane(n) : n \in 1 .. MaxActs})

\* The awaited calls above c: the callers of its caller, and so on.
Above(c) == {d \in HostCalls : d < c /\ calls[d].told # "unmade"
                 /\ \E ch \in SUBSET HostCalls :
                       /\ c \in ch /\ d \in ch
                       /\ \A e \in ch \ {d} : calls[e].from \in ch /\ calls[e].told = "wait"}

\* An awaited call is never queued behind a turn that awaits it: a call cycle
\* is refused, run inline or interleaved, but does not hang in its own lane.
NeverBehindItself ==
    \A c \in HostCalls :
        calls[c].told = "wait" /\ calls[c].at # 0 /\ ~Runs(c)
            => Above(c) \cap InLane(calls[c].at) = {}

\* When the host can make no step by itself and one caller is still waiting,
\* either two chains wait for each other's turns, or the chain waits for the
\* drain of an activation whose running turn is its own; nothing else is lost.
HangsOnlyInCycles ==
    LET waiting == {c \in HostCalls : calls[c].told = "wait"}
        roots == {c \in HostCalls : calls[c].from = NoCall /\ calls[c].at # 0}
    IN \/ waiting = {} \/ Cardinality(roots) > 1
       \/ \E c \in waiting : calls[c].drain
             /\ Above(c) \cap InLane(calls[c].on) # {}
       \/ ENABLED HostProgress

\* The same without the second exception: "Single-node this shouldn't happen"
\* (local-host.ts) of a chain whose target is up-stack and not active.
UpStackIsActive ==
    \A c \in HostCalls :
        calls[c].told = "wait" /\ calls[c].drain
            => Above(c) \cap InLane(calls[c].on) = {}

\* WorkerPool.seq: "a fresh memberId(id, 0) cannot collide" with a member that
\* is still draining: no two activations not yet gone share a member's id.
MemberIdsFresh ==
    \A m, n \in 1 .. MaxActs :
        acts[m].of = acts[n].of /\ acts[m].of \in Members /\ m # n
            => \E x \in {m, n} : acts[x].ph \in {"gone", "failed"}

\* "The activation's own turn is up-stack awaiting this call, so no foreign
\* interleaving can occur" (runInline): while a turn runs inline in an actor
\* with call-chain reentrancy, the turn its lane runs is one that awaits it.
NoForeignInterleaving ==
    \A n \in 1 .. MaxActs : \A c \in acts[n].inline, d \in InLane(n) :
        Runs(d) => d \in Above(c)
==============================================================================
