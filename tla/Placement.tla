------------------------------ MODULE Placement ------------------------------
(***************************************************************************)
(* Where one stateful actor lives in a cluster: every host's slot for it    *)
(* (host/local-host.ts), the claim it holds in the distributed directory    *)
(* and its membership (cluster/placement.ts), and the two stores they talk  *)
(* to, as cluster/memory.ts implements them.                               *)
(*                                                                         *)
(* Every request to a store is asynchronous: it lands in a step of its own, *)
(* possibly after its sender died.  A host id is minted once per process   *)
(* (placement.ts:712), so a host starts at most once; a restart is another  *)
(* member of Hosts.  A host's membership record may expire while its        *)
(* process only stalls, and a late heartbeat puts it back.                  *)
(*                                                                         *)
(* The model keeps the actor's calls out: a call is a Dispatch that needs   *)
(* the slot, and the eviction a router does on the way (Lookup .. Evict).   *)
(* Calls and their retries are module Routing.                              *)
(***************************************************************************)
EXTENDS Integers, FiniteSets

CONSTANTS
    N,              \* number of hosts; the ids are ordered, as strings are
    MaxSeq,         \* bound: activation attempts per host
    MaxCrashes,     \* bound: processes that die
    MaxLapses,      \* bound: live hosts whose record expires
    MaxFails,       \* bound: activations that fail, per host
    MaxRouters,     \* bound: evictions by routing in progress at a time
    CanStop,        \* whether hosts may be stopped gracefully
    HasEvictHost    \* whether the directory offers evictHost (it is optional)

ASSUME PlacementAssumption ==
    /\ N \in Nat \ {0}
    /\ MaxSeq \in Nat /\ MaxCrashes \in Nat /\ MaxLapses \in Nat
    /\ MaxFails \in Nat /\ MaxRouters \in Nat
    /\ CanStop \in BOOLEAN /\ HasEvictHost \in BOOLEAN

Hosts == 1 .. N

VARIABLES
    members,    \* the membership store: each host's record
    dir,        \* the directory store: the actor's entry, or NoEntry
    mode,       \* the process: off, up, leaving, draining, stopped, left, dead
    lapsed,     \* its record has been absent since it joined
    fenced,     \* #fenced
    seq,        \* #seq, the activation ids it has minted
    claimed,    \* #claimed: the activation id it believes it owns, 0 if none
    slot,       \* LocalHost's directory slot for the actor
    attempt,    \* the activation in progress: where beforeActivate/create is
    waiting,    \* what stopAll still waits for: nothing, the slot, a release
    releases,   \* release requests on their way to the directory
    router,     \* an eviction in progress on a host: the entry it read
    seen,       \* #seenHosts
    leavingSeen,\* #leavingSeen
    sweeping,   \* departed hosts a sweep still has to confirm dead
    evicting,   \* evictHost requests on their way to the directory
    fails       \* activations that failed, per host (bounded by MaxFails)

slots == <<seq, claimed, slot, attempt, waiting, releases, fails>>
sweeps == <<seen, leavingSeen, sweeping, evicting>>
vars == <<members, dir, mode, lapsed, fenced, slots, router, sweeps>>

-----------------------------------------------------------------------------
(* Values.                                                                 *)

NoEntry == [host |-> 0, n |-> 0]
Entry(h, n) == [host |-> h, n |-> n]
Entries == [host : Hosts, n : 0 .. MaxSeq]

\* Values of waiting[h]: n > 0 is the release of activation n.
Nothing == 0
TheSlot == -1

Idle == [at |-> "idle", n |-> 0, ghost |-> 0]
Moved(a, at, ghost) == [at |-> at, n |-> a.n, ghost |-> ghost]
NoRouter == [at |-> "idle", e |-> NoEntry]

\* The process runs (whatever its host is doing).
Alive(h) == mode[h] \notin {"off", "dead"}

\* The placement is subscribed to membership: from start() to stop().
Subscribed(h) == mode[h] \in {"up", "leaving", "draining", "stopped"}

\* Turns of the actor may run on h.
Serving(h) == Alive(h) /\ slot[h] \in {"active", "deactivating", "stray"}

Live == {h \in Hosts : members[h] # "out"}

CompareAndDelete_ByHost(e) == IF dir.host = e.host THEN NoEntry ELSE dir

\* directory.release / directory.evict: compare-and-delete.
CompareAndDelete(e) == IF dir = e THEN NoEntry ELSE dir

Init ==
    /\ members = [h \in Hosts |-> "out"]
    /\ dir = NoEntry
    /\ mode = [h \in Hosts |-> "off"]
    /\ lapsed = [h \in Hosts |-> FALSE]
    /\ fenced = [h \in Hosts |-> FALSE]
    /\ seq = [h \in Hosts |-> 0]
    /\ claimed = [h \in Hosts |-> 0]
    /\ slot = [h \in Hosts |-> "none"]
    /\ attempt = [h \in Hosts |-> Idle]
    /\ waiting = [h \in Hosts |-> Nothing]
    /\ releases = {}
    /\ router = [h \in Hosts |-> NoRouter]
    /\ seen = [h \in Hosts |-> {}]
    /\ leavingSeen = [h \in Hosts |-> {}]
    /\ sweeping = [h \in Hosts |-> {}]
    /\ evicting = [h \in Hosts |-> {}]
    /\ fails = [h \in Hosts |-> 0]

-----------------------------------------------------------------------------
(* Membership.                                                             *)

\* start: join resolves once the record is visible; #seenHosts is the view.
Start(h) ==
    /\ mode[h] = "off"
    /\ mode' = [mode EXCEPT ![h] = "up"]
    /\ members' = [members EXCEPT ![h] = "active"]
    /\ seen' = [seen EXCEPT ![h] = Live \cup {h}]
    /\ UNCHANGED <<dir, lapsed, fenced, slots, router, leavingSeen, sweeping, evicting>>

\* The TTL of the record passes: the process died, was fenced (its heartbeat
\* is torn down), or stalls.
Expire(h) ==
    /\ members[h] # "out"
    /\ \/ mode[h] = "dead" \/ fenced[h]
       \/ Cardinality({g \in Hosts : lapsed[g] /\ mode[g] # "dead"}) < MaxLapses
    /\ members' = [members EXCEPT ![h] = "out"]
    /\ lapsed' = [lapsed EXCEPT ![h] = TRUE]
    /\ UNCHANGED <<dir, mode, fenced, slots, router, sweeps>>

\* A late heartbeat re-registers the host before it learns that it lapsed.
LateBeat(h) ==
    /\ Subscribed(h)
    /\ ~fenced[h] /\ members[h] = "out"
    /\ members' = [members EXCEPT ![h] = IF mode[h] = "up" THEN "active" ELSE "leaving"]
    /\ UNCHANGED <<dir, mode, lapsed, fenced, slots, router, sweeps>>

\* The process dies.  What it had sent to a store may still land.
Crash(h) ==
    /\ Alive(h)
    /\ Cardinality({g \in Hosts : mode[g] = "dead"}) < MaxCrashes
    /\ mode' = [mode EXCEPT ![h] = "dead"]
    /\ slot' = [slot EXCEPT ![h] = "none"]
    /\ claimed' = [claimed EXCEPT ![h] = 0]
    /\ waiting' = [waiting EXCEPT ![h] = Nothing]
    /\ attempt' = [attempt EXCEPT ![h] = IF @.at = "create" THEN Idle ELSE @]
    /\ router' = [router EXCEPT ![h] = IF @.at = "evict" THEN @ ELSE NoRouter]
    /\ sweeping' = [sweeping EXCEPT ![h] = {}]
    /\ UNCHANGED <<members, dir, lapsed, fenced, seq, releases, seen, leavingSeen,
                   evicting, fails>>

-----------------------------------------------------------------------------
(* The slot: activation.                                                   *)

\* #activationFor finds no slot and reserves it; beforeActivate refuses on a
\* fenced host, which leaves nothing behind, and otherwise sends its claim.
\* From the drain on only a call from inside a turn gets here (#checkShutdown):
\* of an activation that drains, or of one the stop deadline left behind, which
\* may still run when the host has left.
Dispatch(h) ==
    /\ Alive(h)
    /\ slot[h] = "none"
    /\ ~fenced[h]
    /\ seq[h] < MaxSeq
    /\ seq' = [seq EXCEPT ![h] = @ + 1]
    /\ slot' = [slot EXCEPT ![h] = "activating"]
    /\ attempt' = [attempt EXCEPT ![h] = [at |-> "claim", n |-> seq[h] + 1, ghost |-> 0]]
    /\ UNCHANGED <<members, dir, mode, lapsed, fenced, claimed, waiting, releases,
                   router, sweeps, fails>>

\* The claim is ours: #claimed is set and the activation is created.
Won(h) ==
    /\ claimed' = [claimed EXCEPT ![h] = attempt[h].n]
    /\ attempt' = [attempt EXCEPT ![h] = Moved(@, "create", 0)]
    /\ UNCHANGED <<slot, waiting>>

\* beforeActivate or create throws: the reserved slot is deleted.
Rejected(h) ==
    /\ slot' = [slot EXCEPT ![h] = IF @ = "activating" THEN "none" ELSE @]
    /\ attempt' = [attempt EXCEPT ![h] = Idle]
    /\ waiting' = [waiting EXCEPT ![h] = IF @ = TheSlot THEN Nothing ELSE @]
    /\ UNCHANGED claimed

\* Nobody is left to hear the answer.
Unheard(h) ==
    /\ attempt' = [attempt EXCEPT ![h] = Idle]
    /\ UNCHANGED <<claimed, slot, waiting>>

\* The winner names this host and #claimed does not list the actor.
OwnGhost(h) == dir.host = h /\ claimed[h] = 0

FoundGhost(h) ==
    /\ attempt' = [attempt EXCEPT ![h] = Moved(@, "evict", dir.n)]
    /\ UNCHANGED <<claimed, slot, waiting>>

\* directory.claim: create if absent.
TakeIfFree(h) == dir' = IF dir = NoEntry THEN Entry(h, attempt[h].n) ELSE dir

\* The first claim lands.  An entry of this host with no claim behind it is a
\* ghost, evicted before a second claim; any other winner is a wrong-host.
Claim(h) ==
    /\ attempt[h].at = "claim"
    /\ TakeIfFree(h)
    /\ \/ ~Alive(h) /\ Unheard(h)
       \/ Alive(h) /\ dir = NoEntry /\ Won(h)
       \/ Alive(h) /\ OwnGhost(h) /\ FoundGhost(h)
       \/ Alive(h) /\ dir # NoEntry /\ ~OwnGhost(h) /\ Rejected(h)
    /\ UNCHANGED <<members, mode, lapsed, fenced, seq, releases, router, sweeps, fails>>

\* The eviction of the ghost lands.
EvictGhost(h) ==
    /\ attempt[h].at = "evict"
    /\ dir' = CompareAndDelete(Entry(h, attempt[h].ghost))
    /\ attempt' = [attempt EXCEPT ![h] =
                       IF Alive(h) THEN Moved(@, "reclaim", 0) ELSE Idle]
    /\ UNCHANGED <<members, mode, lapsed, fenced, seq, claimed, slot, waiting, releases,
                   router, sweeps, fails>>

\* The second claim lands.
Reclaim(h) ==
    /\ attempt[h].at = "reclaim"
    /\ TakeIfFree(h)
    /\ \/ ~Alive(h) /\ Unheard(h)
       \/ Alive(h) /\ dir = NoEntry /\ Won(h)
       \/ Alive(h) /\ dir # NoEntry /\ Rejected(h)
    /\ UNCHANGED <<members, mode, lapsed, fenced, seq, releases, router, sweeps, fails>>

\* A directory request of the activation fails: it may have landed all the
\* same, its acknowledgement lost.
StoreFails(h) ==
    /\ Alive(h)
    /\ attempt[h].at \in {"claim", "evict", "reclaim"}
    /\ fails[h] < MaxFails
    /\ fails' = [fails EXCEPT ![h] = @ + 1]
    /\ \/ dir' = dir
       \/ attempt[h].at # "evict" /\ TakeIfFree(h)
       \/ attempt[h].at = "evict" /\ dir' = CompareAndDelete(Entry(h, attempt[h].ghost))
    /\ Rejected(h)
    /\ UNCHANGED <<members, mode, lapsed, fenced, seq, releases, router, sweeps>>

\* Activation.create resolves.  A slot dropped at the stop deadline is not
\* re-taken: the activation then runs outside the directory.
Created(h) ==
    /\ attempt[h].at = "create"
    /\ slot' = [slot EXCEPT ![h] = IF @ = "activating" THEN "active" ELSE "stray"]
    /\ attempt' = [attempt EXCEPT ![h] = Idle]
    /\ UNCHANGED <<members, dir, mode, lapsed, fenced, seq, claimed, waiting, releases,
                   router, sweeps, fails>>

\* Activation.create rejects (state load, migrateState, onActivate).
CreateFails(h) ==
    /\ attempt[h].at = "create"
    /\ fails[h] < MaxFails
    /\ fails' = [fails EXCEPT ![h] = @ + 1]
    /\ Rejected(h)
    /\ UNCHANGED <<members, dir, mode, lapsed, fenced, seq, releases, router, sweeps>>

-----------------------------------------------------------------------------
(* The slot: deactivation.                                                 *)

Deactivate_ReleasesFirst(h) ==
    /\ Alive(h)
    /\ slot[h] = "active"
    /\ slot' = [slot EXCEPT ![h] = "deactivating"]
    /\ releases' = releases \cup {Entry(h, claimed[h])}
    /\ UNCHANGED <<members, dir, mode, lapsed, fenced, seq, claimed, attempt, waiting,
                   router, sweeps, fails>>

\* #deactivateById: idle or capacity sweep, migrate, rebalance, the fence,
\* the drain, or the actor itself.
Deactivate(h) ==
    /\ Alive(h)
    /\ slot[h] = "active"
    /\ slot' = [slot EXCEPT ![h] = "deactivating"]
    /\ UNCHANGED <<members, dir, mode, lapsed, fenced, seq, claimed, attempt, waiting,
                   releases, router, sweeps, fails>>

\* activation.deactivate settles: the slot is deleted and, in the same
\* synchronous block, afterDeactivate forgets the claim and sends the release.
Drained(h) ==
    /\ Alive(h)
    /\ slot[h] = "deactivating"
    /\ slot' = [slot EXCEPT ![h] = "none"]
    /\ releases' = IF claimed[h] = 0 THEN releases
                   ELSE releases \cup {Entry(h, claimed[h])}
    /\ claimed' = [claimed EXCEPT ![h] = 0]
    /\ waiting' = [waiting EXCEPT ![h] = IF @ = TheSlot THEN claimed[h] ELSE @]
    /\ UNCHANGED <<members, dir, mode, lapsed, fenced, seq, attempt, router, sweeps, fails>>

\* A release lands, or is lost: its failure is swallowed.
Release(e) ==
    /\ e \in releases
    /\ releases' = releases \ {e}
    /\ dir' \in {CompareAndDelete(e), dir}
    /\ waiting' = [waiting EXCEPT ![e.host] = IF @ = e.n THEN Nothing ELSE @]
    /\ UNCHANGED <<members, mode, lapsed, fenced, seq, claimed, slot, attempt, router,
                   sweeps, fails>>

\* #fence: latch, withdraw (the record goes by Expire), and deactivateType,
\* which takes active slots of claimed actors only.  A lapse fires it, and so
\* may a heartbeat that only looked late.
Fence(h) ==
    /\ Subscribed(h) /\ ~fenced[h]
    /\ lapsed[h] \/ Cardinality({g \in Hosts : fenced[g]}) < MaxLapses
    /\ fenced' = [fenced EXCEPT ![h] = TRUE]
    /\ slot' = [slot EXCEPT ![h] =
                    IF @ = "active" /\ claimed[h] # 0 THEN "deactivating" ELSE @]
    /\ UNCHANGED <<members, dir, mode, lapsed, seq, claimed, attempt, waiting, releases,
                   router, sweeps, fails>>

-----------------------------------------------------------------------------
(* Stopping.                                                               *)

\* beginStop: announce the departure.
BeginStop(h) ==
    /\ CanStop
    /\ mode[h] = "up"
    /\ mode' = [mode EXCEPT ![h] = "leaving"]
    /\ members' = [members EXCEPT ![h] = IF @ = "out" THEN @ ELSE "leaving"]
    /\ UNCHANGED <<dir, lapsed, fenced, slots, router, sweeps>>

\* stopAll: close the front door and start draining what is there.
StopAll(h) ==
    /\ mode[h] = "leaving"
    /\ mode' = [mode EXCEPT ![h] = "draining"]
    /\ waiting' = [waiting EXCEPT ![h] = IF slot[h] = "none" THEN Nothing ELSE TheSlot]
    /\ slot' = [slot EXCEPT ![h] = IF @ = "active" THEN "deactivating" ELSE @]
    /\ UNCHANGED <<members, dir, lapsed, fenced, seq, claimed, attempt, releases, router,
                   sweeps, fails>>

\* Every wait settled.
AllDrained(h) ==
    /\ mode[h] = "draining"
    /\ waiting[h] = Nothing
    /\ mode' = [mode EXCEPT ![h] = "stopped"]
    /\ UNCHANGED <<members, dir, lapsed, fenced, slots, router, sweeps>>

\* The deadline: force-stop active slots, drop every slot.  A deactivation or
\* an activation in progress goes on without its slot.
Deadline(h) ==
    /\ mode[h] = "draining"
    /\ waiting[h] # Nothing
    /\ mode' = [mode EXCEPT ![h] = "stopped"]
    /\ slot' = [slot EXCEPT ![h] = IF @ \in {"active", "activating"} THEN "none" ELSE @]
    /\ waiting' = [waiting EXCEPT ![h] = Nothing]
    /\ UNCHANGED <<members, dir, lapsed, fenced, seq, claimed, attempt, releases, router,
                   sweeps, fails>>

\* placement.stop: unsubscribe and leave.
Leave(h) ==
    /\ mode[h] = "stopped"
    /\ mode' = [mode EXCEPT ![h] = "left"]
    /\ members' = [members EXCEPT ![h] = "out"]
    /\ lapsed' = [lapsed EXCEPT ![h] = TRUE]
    /\ UNCHANGED <<dir, fenced, slots, router, sweeps>>

-----------------------------------------------------------------------------
(* Reclaiming the entries of the dead.                                     *)

\* #resolveTarget and #noteFailure: look the entry up, ...
Lookup(h) ==
    /\ mode[h] \in {"up", "leaving", "draining"}
    /\ router[h].at = "idle" /\ dir # NoEntry
    /\ Cardinality({g \in Hosts : router[g].at # "idle"}) < MaxRouters
    /\ router' = [router EXCEPT ![h] = [at |-> "alive", e |-> dir]]
    /\ UNCHANGED <<members, dir, mode, lapsed, fenced, slots, sweeps>>

ProbeOwner_LeavingIsDead(h) ==
    /\ router[h].at = "alive"
    /\ router' = [router EXCEPT ![h] = IF members[@.e.host] # "active"
                                       THEN [@ EXCEPT !.at = "evict"] ELSE NoRouter]
    /\ UNCHANGED <<members, dir, mode, lapsed, fenced, slots, sweeps>>

\* ... probe its host, ...
ProbeOwner(h) ==
    /\ router[h].at = "alive"
    /\ router' = [router EXCEPT ![h] = IF members[@.e.host] = "out"
                                       THEN [@ EXCEPT !.at = "evict"] ELSE NoRouter]
    /\ UNCHANGED <<members, dir, mode, lapsed, fenced, slots, sweeps>>

Evict_Keeps(h) ==
    /\ router[h].at = "evict"
    /\ router' = [router EXCEPT ![h] = NoRouter]
    /\ UNCHANGED <<members, dir, mode, lapsed, fenced, slots, sweeps>>

\* ... and evict exactly what was read.
Evict(h) ==
    /\ router[h].at = "evict"
    /\ dir' = CompareAndDelete(router[h].e)
    /\ router' = [router EXCEPT ![h] = NoRouter]
    /\ UNCHANGED <<members, mode, lapsed, fenced, slots, sweeps>>

\* A membership change reaches h with the current records: #sweepDeparted up
\* to its loop.  The smallest live host h had already seen sweeps; the others
\* forget the departed.  Without evictHost none of it is read again.
ViewChange(h) ==
    LET departed == (seen[h] \ Live) \ {h}
        sweeper  == \A g \in (Live \cap seen[h]) : h <= g
        leavers  == leavingSeen[h] \cup {g \in Hosts : members[g] = "leaving"}
    IN  /\ HasEvictHost /\ Subscribed(h) /\ Live # {}
        /\ seen' = [seen EXCEPT ![h] =
                        (@ \cup Live) \ (IF sweeper THEN {} ELSE departed)]
        /\ leavingSeen' = [leavingSeen EXCEPT ![h] =
                               leavers \ (IF sweeper THEN {} ELSE departed)]
        /\ sweeping' = [sweeping EXCEPT ![h] =
                            @ \cup (IF sweeper THEN departed ELSE {})]
        /\ UNCHANGED <<members, dir, mode, lapsed, fenced, slots, router, evicting>>

\* One departed host of the loop: alive after all, announced, or dead.
Sweep(h, d) ==
    /\ d \in sweeping[h]
    /\ sweeping' = [sweeping EXCEPT ![h] = @ \ {d}]
    /\ \/ members[d] # "out" /\ UNCHANGED <<seen, leavingSeen, evicting>>
       \/ /\ members[d] = "out" /\ d \in leavingSeen[h]
          /\ seen' = [seen EXCEPT ![h] = @ \ {d}]
          /\ leavingSeen' = [leavingSeen EXCEPT ![h] = @ \ {d}]
          /\ UNCHANGED evicting
       \/ /\ members[d] = "out" /\ d \notin leavingSeen[h]
          /\ evicting' = [evicting EXCEPT ![h] = @ \cup {d}]
          /\ UNCHANGED <<seen, leavingSeen>>
    /\ UNCHANGED <<members, dir, mode, lapsed, fenced, slots, router>>

\* The sweep's request fails: the departure stays on its list.
EvictHostFails(h, d) ==
    /\ d \in evicting[h] /\ Alive(h)
    /\ evicting' = [evicting EXCEPT ![h] = @ \ {d}]
    /\ UNCHANGED <<members, dir, mode, lapsed, fenced, slots, router, seen, leavingSeen,
                   sweeping>>

\* directory.evictHost lands; the sweeper writes the departure off.
EvictHost(h, d) ==
    /\ d \in evicting[h]
    /\ dir' = IF dir.host = d THEN NoEntry ELSE dir
    /\ evicting' = [evicting EXCEPT ![h] = @ \ {d}]
    /\ seen' = [seen EXCEPT ![h] = IF Alive(h) THEN @ \ {d} ELSE @]
    /\ UNCHANGED <<members, mode, lapsed, fenced, slots, router, leavingSeen, sweeping>>

-----------------------------------------------------------------------------

Next ==
    \/ \E h \in Hosts :
        \/ Start(h) \/ Expire(h) \/ LateBeat(h) \/ Crash(h)
        \/ Dispatch(h) \/ Claim(h) \/ EvictGhost(h) \/ Reclaim(h)
        \/ StoreFails(h) \/ Created(h) \/ CreateFails(h)
        \/ Deactivate(h) \/ Drained(h) \/ Fence(h)
        \/ BeginStop(h) \/ StopAll(h) \/ AllDrained(h) \/ Deadline(h) \/ Leave(h)
        \/ Lookup(h) \/ ProbeOwner(h) \/ Evict(h) \/ ViewChange(h)
        \/ \E d \in Hosts : Sweep(h, d) \/ EvictHost(h, d) \/ EvictHostFails(h, d)
    \/ \E e \in releases : Release(e)

Spec == Init /\ [][Next]_vars

\* Requests land or fail, records of the dead expire, deactivations settle,
\* and every host that runs keeps routing calls to the actor; nothing says that
\* it activates the actor itself.
Fairness ==
    /\ \A h \in Hosts :
        /\ WF_vars(Claim(h) \/ EvictGhost(h) \/ Reclaim(h) \/ Created(h) \/ Drained(h))
        /\ WF_vars(Lookup(h) \/ ProbeOwner(h) \/ Evict(h))
        /\ WF_vars(Expire(h) /\ (mode[h] = "dead" \/ fenced[h]))
    /\ WF_vars(\E e \in releases : Release(e))

FairSpec == Spec /\ Fairness

-----------------------------------------------------------------------------
(* Properties.                                                             *)

Slots == {"none", "activating", "active", "deactivating", "stray"}

\* Every variable keeps its type.
TypeOK ==
    /\ members \in [Hosts -> {"out", "active", "leaving"}]
    /\ dir \in Entries \cup {NoEntry}
    /\ mode \in [Hosts -> {"off", "up", "leaving", "draining", "stopped", "left", "dead"}]
    /\ lapsed \in [Hosts -> BOOLEAN] /\ fenced \in [Hosts -> BOOLEAN]
    /\ seq \in [Hosts -> 0 .. MaxSeq] /\ claimed \in [Hosts -> 0 .. MaxSeq]
    /\ slot \in [Hosts -> Slots]
    /\ attempt \in [Hosts -> [at : {"idle", "claim", "evict", "reclaim", "create"},
                              n : 0 .. MaxSeq, ghost : 0 .. MaxSeq]]
    /\ waiting \in [Hosts -> -1 .. MaxSeq]
    /\ releases \subseteq Entries
    /\ router \in [Hosts -> [at : {"idle", "alive", "evict"}, e : Entries \cup {NoEntry}]]
    /\ seen \in [Hosts -> SUBSET Hosts] /\ leavingSeen \in [Hosts -> SUBSET Hosts]
    /\ sweeping \in [Hosts -> SUBSET Hosts] /\ evicting \in [Hosts -> SUBSET Hosts]
    /\ fails \in [Hosts -> 0 .. MaxFails]

\* Single activation: of two hosts whose membership never lapsed, at most one
\* runs turns of the actor, whatever releases, evictions and sweeps are late.
SoleOwner ==
    \A g, h \in Hosts :
        Serving(g) /\ Serving(h) /\ ~lapsed[g] /\ ~lapsed[h] => g = h

\* A claim a live member believes it holds is the one in the directory: no
\* slow release, eviction or sweep removes a successor's entry (types.ts:166).
ClaimBacked ==
    \A h \in Hosts :
        Alive(h) /\ ~lapsed[h] /\ claimed[h] # 0 => dir = Entry(h, claimed[h])

\* Failover: an entry of a dead process does not stay while somebody routes
\* calls, even if its sweeper died too or the leaver had announced itself.
DeadClaimReclaimed ==
    \A d \in Hosts :
        (mode[d] = "dead" /\ dir.host = d)
            ~> (dir.host # d \/ \A h \in Hosts : mode[h] # "up")

\* stopAll drains everyone (local-host.ts:799): a host that has stopped has
\* no active slot left, which nobody would ever deactivate.
StoppedHoldsNothing == \A h \in Hosts : mode[h] = "left" => slot[h] # "active"

\* An entry that names this host without a live activation behind it is
\* reclaimed; callers do not bounce off the host's own ghost (placement.ts:813).
OwnGhostReclaimed ==
    [][\A h \in Hosts :
          attempt[h].at = "claim" /\ dir.host = h /\ attempt'[h] = Idle
              => mode[h] # "up" \/ mode'[h] = "dead" \/ fails' # fails]_vars

-----------------------------------------------------------------------------
(* The inductive invariant behind ClaimBacked and SoleOwner.               *)

\* An id names a started host, and one whose record is gone has lapsed.
StartedOnly ==
    /\ \A h \in Hosts : mode[h] = "off" =>
          /\ claimed[h] = 0 /\ attempt[h].at = "idle" /\ slot[h] = "none"
          /\ members[h] = "out" /\ dir.host # h
    /\ \A h \in Hosts : members[h] = "out" => mode[h] = "off" \/ lapsed[h]
    /\ \A h, g \in Hosts :
          mode[g] = "off" => g \notin seen[h] \cup sweeping[h] /\ router[h].e.host # g

\* A slot that serves is backed by a claim, and an activation in progress
\* holds the claim exactly when it has won it.
SlotBacked ==
    \A h \in Hosts :
        /\ slot[h] \in {"active", "deactivating", "stray"} => claimed[h] # 0
        /\ attempt[h].at # "idle" => slot[h] \in {"activating", "none"} /\ attempt[h].n # 0
        /\ attempt[h].at = "create" => claimed[h] = attempt[h].n
        /\ attempt[h].at \in {"evict", "reclaim"} => claimed[h] = 0

\* An activation id is used once: what a late release names is neither held
\* nor being claimed.
FreshIds ==
    /\ \A h \in Hosts : claimed[h] <= seq[h] /\ attempt[h].n <= seq[h]
    /\ \A e \in releases :
          /\ e.n # 0 /\ e.n <= seq[e.host] /\ e.n # claimed[e.host]
          /\ attempt[e.host].at # "idle" => e.n # attempt[e.host].n

\* Only hosts whose membership lapsed are evicted or swept.
EvictsLapsed ==
    /\ \A h \in Hosts : router[h].at # "idle" => router[h].e.host \in Hosts
    /\ \A h \in Hosts : router[h].at = "evict" => lapsed[router[h].e.host]
    /\ \A h \in Hosts : \A d \in evicting[h] : lapsed[d]

\* Why a claim stays backed: together these are preserved by every step.
OwnershipInv ==
    ClaimBacked /\ StartedOnly /\ SlotBacked /\ FreshIds /\ EvictsLapsed

=============================================================================
