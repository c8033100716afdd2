--------------------------- MODULE PlacementProofs ---------------------------
(***************************************************************************)
(* Placement, proved for any number of hosts, attempts, crashes and lapses: *)
(* types, the ownership invariant and single activation.                    *)
(***************************************************************************)
EXTENDS Placement, TLAPS

-----------------------------------------------------------------------------
(* Types.                                                                  *)

LEMMA InitTypes == Init => TypeOK
  BY PlacementAssumption DEF Init, TypeOK, Hosts, NoEntry, Idle, NoRouter, Slots, Entries,
     Nothing

LEMMA NextTypes == TypeOK /\ [Next]_vars => TypeOK'
<1> SUFFICES ASSUME TypeOK, [Next]_vars PROVE TypeOK'
  OBVIOUS
<1> USE PlacementAssumption DEF TypeOK, slots, sweeps, Entries, Entry, NoEntry, Idle, Moved, NoRouter,
        Slots, Nothing, TheSlot, Live
<1>1. ASSUME NEW h \in Hosts, Start(h) PROVE TypeOK'
  BY <1>1 DEF Start
<1>2. ASSUME NEW h \in Hosts, Expire(h) PROVE TypeOK'
  BY <1>2 DEF Expire
<1>3. ASSUME NEW h \in Hosts, LateBeat(h) PROVE TypeOK'
  BY <1>3 DEF LateBeat
<1>4. ASSUME NEW h \in Hosts, Crash(h) PROVE TypeOK'
  BY <1>4 DEF Crash
<1>5. ASSUME NEW h \in Hosts, Dispatch(h) PROVE TypeOK'
  BY <1>5 DEF Dispatch
<1>6. ASSUME NEW h \in Hosts, Claim(h) PROVE TypeOK'
  <2>1. CASE Unheard(h)
    BY <1>6, <2>1 DEF Claim, TakeIfFree, Unheard
  <2>2. CASE Won(h)
    BY <1>6, <2>2 DEF Claim, TakeIfFree, Won
  <2>3. CASE FoundGhost(h)
    BY <1>6, <2>3 DEF Claim, TakeIfFree, FoundGhost
  <2>4. CASE Rejected(h)
    BY <1>6, <2>4 DEF Claim, TakeIfFree, Rejected
  <2> QED
    BY <1>6, <2>1, <2>2, <2>3, <2>4 DEF Claim
<1>7. ASSUME NEW h \in Hosts, EvictGhost(h) PROVE TypeOK'
  BY <1>7 DEF EvictGhost, CompareAndDelete
<1>8. ASSUME NEW h \in Hosts, Reclaim(h) PROVE TypeOK'
  <2>1. CASE Unheard(h)
    BY <1>8, <2>1 DEF Reclaim, TakeIfFree, Unheard
  <2>2. CASE Won(h)
    BY <1>8, <2>2 DEF Reclaim, TakeIfFree, Won
  <2>3. CASE Rejected(h)
    BY <1>8, <2>3 DEF Reclaim, TakeIfFree, Rejected
  <2> QED
    BY <1>8, <2>1, <2>2, <2>3 DEF Reclaim
<1>9. ASSUME NEW h \in Hosts, StoreFails(h) PROVE TypeOK'
  BY <1>9 DEF StoreFails, TakeIfFree, Rejected, CompareAndDelete
<1>10. ASSUME NEW h \in Hosts, Created(h) PROVE TypeOK'
  BY <1>10 DEF Created
<1>11. ASSUME NEW h \in Hosts, CreateFails(h) PROVE TypeOK'
  BY <1>11 DEF CreateFails, Rejected
<1>12. ASSUME NEW h \in Hosts, Deactivate(h) PROVE TypeOK'
  BY <1>12 DEF Deactivate
<1>13. ASSUME NEW h \in Hosts, Drained(h) PROVE TypeOK'
  BY <1>13 DEF Drained
<1>14. ASSUME NEW h \in Hosts, Fence(h) PROVE TypeOK'
  BY <1>14 DEF Fence
<1>15. ASSUME NEW h \in Hosts, BeginStop(h) PROVE TypeOK'
  BY <1>15 DEF BeginStop
<1>16. ASSUME NEW h \in Hosts, StopAll(h) PROVE TypeOK'
  BY <1>16 DEF StopAll
<1>17. ASSUME NEW h \in Hosts, AllDrained(h) PROVE TypeOK'
  BY <1>17 DEF AllDrained
<1>18. ASSUME NEW h \in Hosts, Deadline(h) PROVE TypeOK'
  BY <1>18 DEF Deadline
<1>19. ASSUME NEW h \in Hosts, Leave(h) PROVE TypeOK'
  BY <1>19 DEF Leave
<1>20. ASSUME NEW h \in Hosts, Lookup(h) PROVE TypeOK'
  BY <1>20 DEF Lookup
<1>21. ASSUME NEW h \in Hosts, ProbeOwner(h) PROVE TypeOK'
  BY SMTT(60), <1>21 DEF ProbeOwner
<1>22. ASSUME NEW h \in Hosts, Evict(h) PROVE TypeOK'
  BY <1>22 DEF Evict, CompareAndDelete
<1>23. ASSUME NEW h \in Hosts, ViewChange(h) PROVE TypeOK'
  BY <1>23 DEF ViewChange
<1>24. ASSUME NEW h \in Hosts, NEW d \in Hosts, Sweep(h, d) PROVE TypeOK'
  <2>1. CASE UNCHANGED <<seen, leavingSeen, evicting>>
    BY <1>24, <2>1 DEF Sweep
  <2>2. CASE /\ seen' = [seen EXCEPT ![h] = @ \ {d}]
             /\ leavingSeen' = [leavingSeen EXCEPT ![h] = @ \ {d}]
             /\ UNCHANGED evicting
    BY <1>24, <2>2 DEF Sweep
  <2>3. CASE /\ evicting' = [evicting EXCEPT ![h] = @ \cup {d}]
             /\ UNCHANGED <<seen, leavingSeen>>
    BY <1>24, <2>3 DEF Sweep
  <2> QED
    BY <1>24, <2>1, <2>2, <2>3 DEF Sweep
<1>25. ASSUME NEW h \in Hosts, NEW d \in Hosts, EvictHost(h, d) PROVE TypeOK'
  BY <1>25 DEF EvictHost
<1>26. ASSUME NEW h \in Hosts, NEW d \in Hosts, EvictHostFails(h, d) PROVE TypeOK'
  BY <1>26 DEF EvictHostFails
<1>27. ASSUME NEW e \in releases, Release(e) PROVE TypeOK'
  BY <1>27 DEF Release, CompareAndDelete
<1>28. CASE UNCHANGED vars
  BY <1>28 DEF vars
<1> QED
  BY <1>1, <1>2, <1>3, <1>4, <1>5, <1>6, <1>7, <1>8, <1>9, <1>10, <1>11, <1>12, <1>13, <1>14, <1>15, <1>16, <1>17, <1>18, <1>19, <1>20, <1>21, <1>22, <1>23, <1>24, <1>25, <1>26, <1>27, <1>28 DEF Next

-----------------------------------------------------------------------------
(* Ownership.                                                              *)

IndInv == TypeOK /\ OwnershipInv

LEMMA InitOwnership == Init => OwnershipInv
  BY PlacementAssumption DEF Init, OwnershipInv, ClaimBacked, StartedOnly, SlotBacked, FreshIds,
     EvictsLapsed, Hosts, NoEntry, Idle, NoRouter, Alive

\* What the proofs below use of the types.
Shape ==
    /\ 0 \notin Hosts
    /\ DOMAIN members = Hosts /\ DOMAIN mode = Hosts /\ DOMAIN lapsed = Hosts
    /\ DOMAIN fenced = Hosts /\ DOMAIN seq = Hosts /\ DOMAIN claimed = Hosts
    /\ DOMAIN slot = Hosts /\ DOMAIN attempt = Hosts /\ DOMAIN router = Hosts
    /\ DOMAIN seen = Hosts /\ DOMAIN sweeping = Hosts /\ DOMAIN evicting = Hosts
    /\ \A h \in Hosts : claimed[h] \in Nat /\ seq[h] \in Nat /\ attempt[h].n \in Nat
    /\ \A e \in releases : e.host \in Hosts /\ e.n \in Nat /\ e = [host |-> e.host, n |-> e.n]
    /\ dir = [host |-> dir.host, n |-> dir.n]
    /\ dir = NoEntry \/ dir.host \in Hosts

LEMMA TypesShape == TypeOK => Shape
<1> SUFFICES ASSUME TypeOK PROVE Shape
  OBVIOUS
<1>1. 0 \notin Hosts
  BY PlacementAssumption DEF Hosts
<1>2. \A h \in Hosts : attempt[h].n \in Nat
  BY PlacementAssumption DEF TypeOK
<1>3. \A e \in releases : e.host \in Hosts /\ e.n \in Nat /\ e = [host |-> e.host, n |-> e.n]
  BY PlacementAssumption DEF TypeOK, Entries
<1>4. dir = [host |-> dir.host, n |-> dir.n] /\ (dir = NoEntry \/ dir.host \in Hosts)
  BY DEF TypeOK, Entries, NoEntry
<1> QED
  BY <1>1, <1>2, <1>3, <1>4, PlacementAssumption DEF Shape, TypeOK

LEMMA NextOwnership == TypeOK /\ OwnershipInv /\ [Next]_vars => OwnershipInv'
<1> SUFFICES ASSUME TypeOK, OwnershipInv, [Next]_vars PROVE OwnershipInv'
  OBVIOUS
<1> Shape
  BY TypesShape
<1> USE DEF Shape, OwnershipInv, slots, sweeps, Entry, NoEntry, Idle, Moved, NoRouter, Nothing,
        TheSlot, Live, Subscribed
<1>1. ASSUME NEW h \in Hosts, Start(h) PROVE OwnershipInv'
  <2>1. ClaimBacked'
    BY <1>1 DEF Start, ClaimBacked, SlotBacked, FreshIds, EvictsLapsed, StartedOnly, Alive
  <2>2. StartedOnly'
    BY <1>1 DEF Start, StartedOnly, SlotBacked
  <2>3. SlotBacked'
    BY <1>1 DEF Start, SlotBacked, StartedOnly
  <2>4. FreshIds'
    BY <1>1 DEF Start, FreshIds, SlotBacked
  <2>5. EvictsLapsed'
    BY <1>1 DEF Start, EvictsLapsed, StartedOnly
  <2> QED
    BY <2>1, <2>2, <2>3, <2>4, <2>5 DEF OwnershipInv
<1>2. ASSUME NEW h \in Hosts, Expire(h) PROVE OwnershipInv'
  <2>1. ClaimBacked'
    BY <1>2 DEF Expire, ClaimBacked, SlotBacked, FreshIds, EvictsLapsed, StartedOnly, Alive
  <2>2. StartedOnly'
    BY <1>2 DEF Expire, StartedOnly, SlotBacked
  <2>3. SlotBacked'
    BY <1>2 DEF Expire, SlotBacked, StartedOnly
  <2>4. FreshIds'
    BY <1>2 DEF Expire, FreshIds, SlotBacked
  <2>5. EvictsLapsed'
    BY <1>2 DEF Expire, EvictsLapsed, StartedOnly
  <2> QED
    BY <2>1, <2>2, <2>3, <2>4, <2>5 DEF OwnershipInv
<1>3. ASSUME NEW h \in Hosts, LateBeat(h) PROVE OwnershipInv'
  <2>1. ClaimBacked'
    BY <1>3 DEF LateBeat, ClaimBacked, SlotBacked, FreshIds, EvictsLapsed, StartedOnly, Alive
  <2>2. StartedOnly'
    BY <1>3 DEF LateBeat, StartedOnly, SlotBacked
  <2>3. SlotBacked'
    BY <1>3 DEF LateBeat, SlotBacked, StartedOnly
  <2>4. FreshIds'
    BY <1>3 DEF LateBeat, FreshIds, SlotBacked
  <2>5. EvictsLapsed'
    BY <1>3 DEF LateBeat, EvictsLapsed, StartedOnly
  <2> QED
    BY <2>1, <2>2, <2>3, <2>4, <2>5 DEF OwnershipInv
<1>4. ASSUME NEW h \in Hosts, Crash(h) PROVE OwnershipInv'
  <2>1. ClaimBacked'
    BY <1>4 DEF Crash, ClaimBacked, SlotBacked, FreshIds, EvictsLapsed, StartedOnly, Alive
  <2>2. StartedOnly'
    <3>1. \A g \in Hosts : mode'[g] = "off" => g # h /\ mode[g] = "off"
      BY <1>4 DEF Crash
    <3>2. \A g \in Hosts : router'[g] = router[g] \/ router'[g] = NoRouter
      BY <1>4 DEF Crash
    <3>3. \A g \in Hosts : sweeping'[g] \subseteq sweeping[g]
      BY <1>4 DEF Crash
    <3> QED
      BY <1>4, <3>1, <3>2, <3>3 DEF Crash, StartedOnly, Alive
  <2>3. SlotBacked'
    BY <1>4 DEF Crash, SlotBacked, StartedOnly
  <2>4. FreshIds'
    BY <1>4 DEF Crash, FreshIds, SlotBacked
  <2>5. EvictsLapsed'
    BY <1>4 DEF Crash, EvictsLapsed, StartedOnly
  <2> QED
    BY <2>1, <2>2, <2>3, <2>4, <2>5 DEF OwnershipInv
<1>5. ASSUME NEW h \in Hosts, Dispatch(h) PROVE OwnershipInv'
  <2>1. ClaimBacked'
    BY <1>5 DEF Dispatch, ClaimBacked, SlotBacked, FreshIds, EvictsLapsed, StartedOnly, Alive
  <2>2. StartedOnly'
    BY <1>5 DEF Dispatch, StartedOnly, SlotBacked, Alive
  <2>3. SlotBacked'
    BY <1>5 DEF Dispatch, SlotBacked, StartedOnly
  <2>4. FreshIds'
    BY <1>5 DEF Dispatch, FreshIds, SlotBacked
  <2>5. EvictsLapsed'
    BY <1>5 DEF Dispatch, EvictsLapsed, StartedOnly
  <2> QED
    BY <2>1, <2>2, <2>3, <2>4, <2>5 DEF OwnershipInv
<1>6. ASSUME NEW h \in Hosts, Claim(h) PROVE OwnershipInv'
  <2>1. ClaimBacked'
    BY <1>6 DEF Claim, TakeIfFree, Won, Rejected, Unheard, FoundGhost, OwnGhost, ClaimBacked, SlotBacked, FreshIds, EvictsLapsed, StartedOnly, Alive
  <2>2. StartedOnly'
    BY <1>6 DEF Claim, TakeIfFree, Won, Rejected, Unheard, FoundGhost, OwnGhost, StartedOnly, SlotBacked
  <2>3. SlotBacked'
    BY <1>6 DEF Claim, TakeIfFree, Won, Rejected, Unheard, FoundGhost, OwnGhost, SlotBacked, StartedOnly
  <2>4. FreshIds'
    BY <1>6 DEF Claim, TakeIfFree, Won, Rejected, Unheard, FoundGhost, OwnGhost, FreshIds, SlotBacked
  <2>5. EvictsLapsed'
    BY <1>6 DEF Claim, TakeIfFree, Won, Rejected, Unheard, FoundGhost, OwnGhost, EvictsLapsed, StartedOnly
  <2> QED
    BY <2>1, <2>2, <2>3, <2>4, <2>5 DEF OwnershipInv
<1>7. ASSUME NEW h \in Hosts, EvictGhost(h) PROVE OwnershipInv'
  <2>1. ClaimBacked'
    BY <1>7 DEF EvictGhost, CompareAndDelete, ClaimBacked, SlotBacked, FreshIds, EvictsLapsed, StartedOnly, Alive
  <2>2. StartedOnly'
    BY <1>7 DEF EvictGhost, CompareAndDelete, StartedOnly, SlotBacked
  <2>3. SlotBacked'
    BY <1>7 DEF EvictGhost, CompareAndDelete, SlotBacked, StartedOnly
  <2>4. FreshIds'
    BY <1>7 DEF EvictGhost, CompareAndDelete, FreshIds, SlotBacked
  <2>5. EvictsLapsed'
    BY <1>7 DEF EvictGhost, CompareAndDelete, EvictsLapsed, StartedOnly
  <2> QED
    BY <2>1, <2>2, <2>3, <2>4, <2>5 DEF OwnershipInv
<1>8. ASSUME NEW h \in Hosts, Reclaim(h) PROVE OwnershipInv'
  <2>1. ClaimBacked'
    BY <1>8 DEF Reclaim, TakeIfFree, Won, Rejected, Unheard, ClaimBacked, SlotBacked, FreshIds, EvictsLapsed, StartedOnly, Alive
  <2>2. StartedOnly'
    BY <1>8 DEF Reclaim, TakeIfFree, Won, Rejected, Unheard, StartedOnly, SlotBacked
  <2>3. SlotBacked'
    BY <1>8 DEF Reclaim, TakeIfFree, Won, Rejected, Unheard, SlotBacked, StartedOnly
  <2>4. FreshIds'
    BY <1>8 DEF Reclaim, TakeIfFree, Won, Rejected, Unheard, FreshIds, SlotBacked
  <2>5. EvictsLapsed'
    BY <1>8 DEF Reclaim, TakeIfFree, Won, Rejected, Unheard, EvictsLapsed, StartedOnly
  <2> QED
    BY <2>1, <2>2, <2>3, <2>4, <2>5 DEF OwnershipInv
<1>9. ASSUME NEW h \in Hosts, StoreFails(h) PROVE OwnershipInv'
  <2>1. ClaimBacked'
    BY <1>9 DEF StoreFails, TakeIfFree, Rejected, CompareAndDelete, ClaimBacked, SlotBacked, FreshIds, EvictsLapsed, StartedOnly, Alive
  <2>2. StartedOnly'
    BY <1>9 DEF StoreFails, TakeIfFree, Rejected, CompareAndDelete, StartedOnly, SlotBacked
  <2>3. SlotBacked'
    BY <1>9 DEF StoreFails, TakeIfFree, Rejected, CompareAndDelete, SlotBacked, StartedOnly
  <2>4. FreshIds'
    BY <1>9 DEF StoreFails, TakeIfFree, Rejected, CompareAndDelete, FreshIds, SlotBacked
  <2>5. EvictsLapsed'
    BY <1>9 DEF StoreFails, TakeIfFree, Rejected, CompareAndDelete, EvictsLapsed, StartedOnly
  <2> QED
    BY <2>1, <2>2, <2>3, <2>4, <2>5 DEF OwnershipInv
<1>10. ASSUME NEW h \in Hosts, Created(h) PROVE OwnershipInv'
  <2>1. ClaimBacked'
    BY <1>10 DEF Created, ClaimBacked, SlotBacked, FreshIds, EvictsLapsed, StartedOnly, Alive
  <2>2. StartedOnly'
    BY <1>10 DEF Created, StartedOnly, SlotBacked
  <2>3. SlotBacked'
    BY <1>10 DEF Created, SlotBacked, StartedOnly
  <2>4. FreshIds'
    BY <1>10 DEF Created, FreshIds, SlotBacked
  <2>5. EvictsLapsed'
    BY <1>10 DEF Created, EvictsLapsed, StartedOnly
  <2> QED
    BY <2>1, <2>2, <2>3, <2>4, <2>5 DEF OwnershipInv
<1>11. ASSUME NEW h \in Hosts, CreateFails(h) PROVE OwnershipInv'
  <2>1. ClaimBacked'
    BY <1>11 DEF CreateFails, Rejected, ClaimBacked, SlotBacked, FreshIds, EvictsLapsed, StartedOnly, Alive
  <2>2. StartedOnly'
    BY <1>11 DEF CreateFails, Rejected, StartedOnly, SlotBacked
  <2>3. SlotBacked'
    BY <1>11 DEF CreateFails, Rejected, SlotBacked, StartedOnly
  <2>4. FreshIds'
    BY <1>11 DEF CreateFails, Rejected, FreshIds, SlotBacked
  <2>5. EvictsLapsed'
    BY <1>11 DEF CreateFails, Rejected, EvictsLapsed, StartedOnly
  <2> QED
    BY <2>1, <2>2, <2>3, <2>4, <2>5 DEF OwnershipInv
<1>12. ASSUME NEW h \in Hosts, Deactivate(h) PROVE OwnershipInv'
  <2>1. ClaimBacked'
    BY <1>12 DEF Deactivate, ClaimBacked, SlotBacked, FreshIds, EvictsLapsed, StartedOnly, Alive
  <2>2. StartedOnly'
    BY <1>12 DEF Deactivate, StartedOnly, SlotBacked
  <2>3. SlotBacked'
    BY <1>12 DEF Deactivate, SlotBacked, StartedOnly
  <2>4. FreshIds'
    BY <1>12 DEF Deactivate, FreshIds, SlotBacked
  <2>5. EvictsLapsed'
    BY <1>12 DEF Deactivate, EvictsLapsed, StartedOnly
  <2> QED
    BY <2>1, <2>2, <2>3, <2>4, <2>5 DEF OwnershipInv
<1>13. ASSUME NEW h \in Hosts, Drained(h) PROVE OwnershipInv'
  <2>1. ClaimBacked'
    BY <1>13 DEF Drained, ClaimBacked, SlotBacked, FreshIds, EvictsLapsed, StartedOnly, Alive
  <2>2. StartedOnly'
    BY <1>13 DEF Drained, StartedOnly, SlotBacked
  <2>3. SlotBacked'
    BY <1>13 DEF Drained, SlotBacked, StartedOnly
  <2>4. FreshIds'
    BY <1>13 DEF Drained, FreshIds, SlotBacked
  <2>5. EvictsLapsed'
    BY <1>13 DEF Drained, EvictsLapsed, StartedOnly
  <2> QED
    BY <2>1, <2>2, <2>3, <2>4, <2>5 DEF OwnershipInv
<1>14. ASSUME NEW h \in Hosts, Fence(h) PROVE OwnershipInv'
  <2>1. ClaimBacked'
    BY <1>14 DEF Fence, ClaimBacked, SlotBacked, FreshIds, EvictsLapsed, StartedOnly, Alive
  <2>2. StartedOnly'
    BY <1>14 DEF Fence, StartedOnly, SlotBacked
  <2>3. SlotBacked'
    BY <1>14 DEF Fence, SlotBacked, StartedOnly
  <2>4. FreshIds'
    BY <1>14 DEF Fence, FreshIds, SlotBacked
  <2>5. EvictsLapsed'
    BY <1>14 DEF Fence, EvictsLapsed, StartedOnly
  <2> QED
    BY <2>1, <2>2, <2>3, <2>4, <2>5 DEF OwnershipInv
<1>15. ASSUME NEW h \in Hosts, BeginStop(h) PROVE OwnershipInv'
  <2>1. ClaimBacked'
    BY <1>15 DEF BeginStop, ClaimBacked, SlotBacked, FreshIds, EvictsLapsed, StartedOnly, Alive
  <2>2. StartedOnly'
    BY <1>15 DEF BeginStop, StartedOnly, SlotBacked
  <2>3. SlotBacked'
    BY <1>15 DEF BeginStop, SlotBacked, StartedOnly
  <2>4. FreshIds'
    BY <1>15 DEF BeginStop, FreshIds, SlotBacked
  <2>5. EvictsLapsed'
    BY <1>15 DEF BeginStop, EvictsLapsed, StartedOnly
  <2> QED
    BY <2>1, <2>2, <2>3, <2>4, <2>5 DEF OwnershipInv
<1>16. ASSUME NEW h \in Hosts, StopAll(h) PROVE OwnershipInv'
  <2>1. ClaimBacked'
    BY <1>16 DEF StopAll, ClaimBacked, SlotBacked, FreshIds, EvictsLapsed, StartedOnly, Alive
  <2>2. StartedOnly'
    BY <1>16 DEF StopAll, StartedOnly, SlotBacked
  <2>3. SlotBacked'
    BY <1>16 DEF StopAll, SlotBacked, StartedOnly
  <2>4. FreshIds'
    BY <1>16 DEF StopAll, FreshIds, SlotBacked
  <2>5. EvictsLapsed'
    BY <1>16 DEF StopAll, EvictsLapsed, StartedOnly
  <2> QED
    BY <2>1, <2>2, <2>3, <2>4, <2>5 DEF OwnershipInv
<1>17. ASSUME NEW h \in Hosts, AllDrained(h) PROVE OwnershipInv'
  <2>1. ClaimBacked'
    BY <1>17 DEF AllDrained, ClaimBacked, SlotBacked, FreshIds, EvictsLapsed, StartedOnly, Alive
  <2>2. StartedOnly'
    BY <1>17 DEF AllDrained, StartedOnly, SlotBacked
  <2>3. SlotBacked'
    BY <1>17 DEF AllDrained, SlotBacked, StartedOnly
  <2>4. FreshIds'
    BY <1>17 DEF AllDrained, FreshIds, SlotBacked
  <2>5. EvictsLapsed'
    BY <1>17 DEF AllDrained, EvictsLapsed, StartedOnly
  <2> QED
    BY <2>1, <2>2, <2>3, <2>4, <2>5 DEF OwnershipInv
<1>18. ASSUME NEW h \in Hosts, Deadline(h) PROVE OwnershipInv'
  <2>1. ClaimBacked'
    BY <1>18 DEF Deadline, ClaimBacked, SlotBacked, FreshIds, EvictsLapsed, StartedOnly, Alive
  <2>2. StartedOnly'
    BY <1>18 DEF Deadline, StartedOnly, SlotBacked
  <2>3. SlotBacked'
    BY <1>18 DEF Deadline, SlotBacked, StartedOnly
  <2>4. FreshIds'
    BY <1>18 DEF Deadline, FreshIds, SlotBacked
  <2>5. EvictsLapsed'
    BY <1>18 DEF Deadline, EvictsLapsed, StartedOnly
  <2> QED
    BY <2>1, <2>2, <2>3, <2>4, <2>5 DEF OwnershipInv
<1>19. ASSUME NEW h \in Hosts, Leave(h) PROVE OwnershipInv'
  <2>1. ClaimBacked'
    BY <1>19 DEF Leave, ClaimBacked, SlotBacked, FreshIds, EvictsLapsed, StartedOnly, Alive
  <2>2. StartedOnly'
    BY <1>19 DEF Leave, StartedOnly, SlotBacked
  <2>3. SlotBacked'
    BY <1>19 DEF Leave, SlotBacked, StartedOnly
  <2>4. FreshIds'
    BY <1>19 DEF Leave, FreshIds, SlotBacked
  <2>5. EvictsLapsed'
    BY <1>19 DEF Leave, EvictsLapsed, StartedOnly
  <2> QED
    BY <2>1, <2>2, <2>3, <2>4, <2>5 DEF OwnershipInv
<1>20. ASSUME NEW h \in Hosts, Lookup(h) PROVE OwnershipInv'
  <2>1. ClaimBacked'
    BY <1>20 DEF Lookup, ClaimBacked, SlotBacked, FreshIds, EvictsLapsed, StartedOnly, Alive
  <2>2. StartedOnly'
    BY <1>20 DEF Lookup, StartedOnly, SlotBacked
  <2>3. SlotBacked'
    BY <1>20 DEF Lookup, SlotBacked, StartedOnly
  <2>4. FreshIds'
    BY <1>20 DEF Lookup, FreshIds, SlotBacked
  <2>5. EvictsLapsed'
    BY <1>20 DEF Lookup, EvictsLapsed, StartedOnly
  <2> QED
    BY <2>1, <2>2, <2>3, <2>4, <2>5 DEF OwnershipInv
<1>21. ASSUME NEW h \in Hosts, ProbeOwner(h) PROVE OwnershipInv'
  <2>1. ClaimBacked'
    BY <1>21 DEF ProbeOwner, ClaimBacked, SlotBacked, FreshIds, EvictsLapsed, StartedOnly, Alive
  <2>2. StartedOnly'
    BY <1>21 DEF ProbeOwner, StartedOnly, SlotBacked
  <2>3. SlotBacked'
    BY <1>21 DEF ProbeOwner, SlotBacked, StartedOnly
  <2>4. FreshIds'
    BY <1>21 DEF ProbeOwner, FreshIds, SlotBacked
  <2>5. EvictsLapsed'
    BY <1>21 DEF ProbeOwner, EvictsLapsed, StartedOnly
  <2> QED
    BY <2>1, <2>2, <2>3, <2>4, <2>5 DEF OwnershipInv
<1>22. ASSUME NEW h \in Hosts, Evict(h) PROVE OwnershipInv'
  <2>1. ClaimBacked'
    BY <1>22 DEF Evict, CompareAndDelete, ClaimBacked, SlotBacked, FreshIds, EvictsLapsed, StartedOnly, Alive
  <2>2. StartedOnly'
    BY <1>22 DEF Evict, CompareAndDelete, StartedOnly, SlotBacked
  <2>3. SlotBacked'
    BY <1>22 DEF Evict, CompareAndDelete, SlotBacked, StartedOnly
  <2>4. FreshIds'
    BY <1>22 DEF Evict, CompareAndDelete, FreshIds, SlotBacked
  <2>5. EvictsLapsed'
    BY <1>22 DEF Evict, CompareAndDelete, EvictsLapsed, StartedOnly
  <2> QED
    BY <2>1, <2>2, <2>3, <2>4, <2>5 DEF OwnershipInv
<1>23. ASSUME NEW h \in Hosts, ViewChange(h) PROVE OwnershipInv'
  <2>1. ClaimBacked'
    BY <1>23 DEF ViewChange, ClaimBacked, SlotBacked, FreshIds, EvictsLapsed, StartedOnly, Alive
  <2>2. StartedOnly'
    BY <1>23 DEF ViewChange, StartedOnly, SlotBacked
  <2>3. SlotBacked'
    BY <1>23 DEF ViewChange, SlotBacked, StartedOnly
  <2>4. FreshIds'
    BY <1>23 DEF ViewChange, FreshIds, SlotBacked
  <2>5. EvictsLapsed'
    BY <1>23 DEF ViewChange, EvictsLapsed, StartedOnly
  <2> QED
    BY <2>1, <2>2, <2>3, <2>4, <2>5 DEF OwnershipInv
<1>24. ASSUME NEW h \in Hosts, NEW d \in Hosts, Sweep(h, d) PROVE OwnershipInv'
  <2>1. ClaimBacked'
    BY <1>24 DEF Sweep, ClaimBacked, SlotBacked, FreshIds, EvictsLapsed, StartedOnly, Alive
  <2>2. StartedOnly'
    BY <1>24 DEF Sweep, StartedOnly, SlotBacked
  <2>3. SlotBacked'
    BY <1>24 DEF Sweep, SlotBacked, StartedOnly
  <2>4. FreshIds'
    BY <1>24 DEF Sweep, FreshIds, SlotBacked
  <2>5. EvictsLapsed'
    BY <1>24 DEF Sweep, EvictsLapsed, StartedOnly
  <2> QED
    BY <2>1, <2>2, <2>3, <2>4, <2>5 DEF OwnershipInv
<1>25. ASSUME NEW h \in Hosts, NEW d \in Hosts, EvictHost(h, d) PROVE OwnershipInv'
  <2>1. ClaimBacked'
    BY <1>25 DEF EvictHost, ClaimBacked, SlotBacked, FreshIds, EvictsLapsed, StartedOnly, Alive
  <2>2. StartedOnly'
    BY <1>25 DEF EvictHost, StartedOnly, SlotBacked
  <2>3. SlotBacked'
    BY <1>25 DEF EvictHost, SlotBacked, StartedOnly
  <2>4. FreshIds'
    BY <1>25 DEF EvictHost, FreshIds, SlotBacked
  <2>5. EvictsLapsed'
    BY <1>25 DEF EvictHost, EvictsLapsed, StartedOnly
  <2> QED
    BY <2>1, <2>2, <2>3, <2>4, <2>5 DEF OwnershipInv
<1>26. ASSUME NEW h \in Hosts, NEW d \in Hosts, EvictHostFails(h, d) PROVE OwnershipInv'
  <2>1. ClaimBacked'
    BY <1>26 DEF EvictHostFails, ClaimBacked, SlotBacked, FreshIds, EvictsLapsed, StartedOnly, Alive
  <2>2. StartedOnly'
    BY <1>26 DEF EvictHostFails, StartedOnly, SlotBacked
  <2>3. SlotBacked'
    BY <1>26 DEF EvictHostFails, SlotBacked, StartedOnly
  <2>4. FreshIds'
    BY <1>26 DEF EvictHostFails, FreshIds, SlotBacked
  <2>5. EvictsLapsed'
    BY <1>26 DEF EvictHostFails, EvictsLapsed, StartedOnly
  <2> QED
    BY <2>1, <2>2, <2>3, <2>4, <2>5 DEF OwnershipInv
<1>27. ASSUME NEW e \in releases, Release(e) PROVE OwnershipInv'
  <2>1. ClaimBacked'
    BY <1>27 DEF Release, CompareAndDelete, ClaimBacked, SlotBacked, FreshIds, EvictsLapsed, StartedOnly, Alive
  <2>2. StartedOnly'
    BY <1>27 DEF Release, CompareAndDelete, StartedOnly, SlotBacked
  <2>3. SlotBacked'
    BY <1>27 DEF Release, CompareAndDelete, SlotBacked, StartedOnly
  <2>4. FreshIds'
    BY <1>27 DEF Release, CompareAndDelete, FreshIds, SlotBacked
  <2>5. EvictsLapsed'
    BY <1>27 DEF Release, CompareAndDelete, EvictsLapsed, StartedOnly
  <2> QED
    BY <2>1, <2>2, <2>3, <2>4, <2>5 DEF OwnershipInv
<1>28. CASE UNCHANGED vars
  BY <1>28 DEF vars, ClaimBacked, SlotBacked, FreshIds, EvictsLapsed, StartedOnly, Alive
<1> QED
  BY <1>1, <1>2, <1>3, <1>4, <1>5, <1>6, <1>7, <1>8, <1>9, <1>10, <1>11, <1>12, <1>13, <1>14, <1>15, <1>16, <1>17, <1>18, <1>19, <1>20, <1>21, <1>22, <1>23, <1>24, <1>25, <1>26, <1>27, <1>28 DEF Next

-----------------------------------------------------------------------------
(* Theorems.                                                               *)

\* Every variable of Placement keeps its type.
THEOREM TypeCorrect == Spec => []TypeOK
<1>1. TypeOK /\ [Next]_vars => TypeOK'
  BY NextTypes
<1> QED
  BY <1>1, InitTypes, PTL DEF Spec

\* The ownership invariant of Placement: claims, slots, releases in flight and
\* evictions in progress fit together after every step of the placement and
\* of the local host.
THEOREM Ownership == Spec => []OwnershipInv
<1>1. IndInv /\ [Next]_vars => IndInv'
  BY NextTypes, NextOwnership DEF IndInv
<1>2. Init => IndInv
  BY InitTypes, InitOwnership DEF IndInv
<1>3. IndInv => OwnershipInv
  BY DEF IndInv
<1> QED
  BY <1>1, <1>2, <1>3, PTL DEF Spec

\* A release, an eviction or a sweep, however late, never removes the entry
\* behind the claim of a host whose membership did not lapse.
THEOREM ClaimsStayBacked == Spec => []ClaimBacked
<1>1. OwnershipInv => ClaimBacked
  BY DEF OwnershipInv
<1> QED
  BY <1>1, Ownership, PTL

\* Single activation, for any number of hosts, crashes, lapses and failures:
\* of the hosts whose membership did not lapse, at most one serves the actor.
THEOREM SingleActivation == Spec => []SoleOwner
<1>1. TypeOK /\ OwnershipInv => SoleOwner
  <2> SUFFICES ASSUME TypeOK, OwnershipInv, NEW g \in Hosts, NEW h \in Hosts,
                      Serving(g), Serving(h), ~lapsed[g], ~lapsed[h]
               PROVE  g = h
    BY DEF SoleOwner
  <2>1. claimed[g] # 0 /\ claimed[h] # 0
    BY DEF OwnershipInv, SlotBacked, Serving
  <2>2. dir = Entry(g, claimed[g]) /\ dir = Entry(h, claimed[h])
    BY <2>1 DEF OwnershipInv, ClaimBacked, Serving
  <2> QED
    BY <2>2 DEF Entry
<1> QED
  BY <1>1, TypeCorrect, Ownership, PTL

=============================================================================
