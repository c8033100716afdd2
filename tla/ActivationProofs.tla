--------------------------- MODULE ActivationProofs ---------------------------
(***************************************************************************)
(* Activation never loses an update: StorageInv is inductive, and it       *)
(* implies that the only write that removes a durable effect is clearState.*)
(* The theorems hold for every number of activations, turns, failures and  *)
(* stops and every configuration of the actor, for a storage that never    *)
(* mints an etag twice.                                                    *)
(***************************************************************************)
EXTENDS Activation, TLAPS

-----------------------------------------------------------------------------
(* What the synchronous helpers change and what they leave alone.          *)

\* t has the copy of the record, the write in flight and the lane of s.
SameCopy(s, t) ==
    /\ t.mem = s.mem /\ t.etag = s.etag /\ t.pending = s.pending
    /\ t.flushing = s.flushing /\ t.flushWanted = s.flushWanted
    /\ t.saved = s.saved /\ t.reload = s.reload

LifeMoves(s, t) == t.life = s.life \/ (s.life = "live" /\ t.life = "closing")

\* Folding the dirty flag into the version touches nothing else.
LEMMA ConsumeDirtyFacts ==
    ASSUME NEW s, ActOK(s)
    PROVE  /\ ActOK(ConsumeDirty(s)) /\ SameCopy(s, ConsumeDirty(s))
           /\ ConsumeDirty(s).lane = s.lane /\ ConsumeDirty(s).life = s.life
<1>1. CASE s.dirty
  <2>1. ConsumeDirty(s) = [s EXCEPT !.dirty = FALSE, !.version = @ + 1]
    BY <1>1 DEF ConsumeDirty
  <2> QED BY <2>1 DEF ActOK, SameCopy
<1>2. CASE ~s.dirty
  <2>1. ConsumeDirty(s) = s BY <1>2 DEF ConsumeDirty
  <2> QED BY <2>1 DEF ActOK, SameCopy
<1> QED BY <1>1, <1>2

\* Reporting a fault at most starts the deactivation.
LEMMA ReportFaultFacts ==
    ASSUME NEW s, ActOK(s)
    PROVE  /\ ActOK(ReportFault(s)) /\ SameCopy(s, ReportFault(s))
           /\ ReportFault(s).lane = s.lane /\ LifeMoves(s, ReportFault(s))
<1>1. CASE s.faulted /\ ~s.reported
  <2>1. ReportFault(s) = [s EXCEPT !.reported = TRUE,
                   !.conflict = @ \/ s.life = "live",
                   !.life = IF @ = "live" THEN "closing" ELSE @]
    BY <1>1 DEF ReportFault
  <2> QED BY <2>1 DEF ActOK, SameCopy, LifeMoves
<1>2. CASE ~(s.faulted /\ ~s.reported)
  <2>1. ReportFault(s) = s BY <1>2 DEF ReportFault
  <2> QED BY <2>1 DEF ActOK, SameCopy, LifeMoves
<1> QED BY <1>1, <1>2

\* The end of a turn moves versions and the debounce, not the copy.
LEMMA AfterTurnFacts ==
    ASSUME NEW s, ActOK(s)
    PROVE  /\ ActOK(AfterTurn(s)) /\ SameCopy(s, AfterTurn(s))
           /\ AfterTurn(s).lane = s.lane /\ LifeMoves(s, AfterTurn(s))
<1> DEFINE t == ConsumeDirty(s)
           boundary == t.version > t.notified /\ ~t.reload
           owed     == boundary /\ WriteBehind /\ t.version > t.saved
           u == [t EXCEPT !.notified = IF boundary THEN t.version ELSE @,
                              !.armed = @ \/ owed]
<1>1. /\ ActOK(t) /\ SameCopy(s, t) /\ t.lane = s.lane /\ t.life = s.life
  BY ConsumeDirtyFacts
<1> HIDE DEF t
<1>2. ActOK(u) /\ SameCopy(t, u) /\ u.lane = t.lane /\ u.life = t.life
  BY SMTT(60), <1>1, ConfigAssumption DEF ActOK, SameCopy
<1>3. AfterTurn(s) = ReportFault(u) BY DEF AfterTurn, t
<1> HIDE DEF u
<1> QED BY <1>1, <1>2, <1>3, ReportFaultFacts DEF SameCopy, LifeMoves

\* Ending a turn takes it off the serial lane.
LEMMA PopFacts ==
    ASSUME NEW s, ActOK(s), ~Interleave => s.lane # <<>>
    PROVE  /\ ActOK(Pop(s)) /\ SameCopy(s, Pop(s)) /\ Pop(s).life = s.life
           /\ Pop(s).lane = IF Interleave THEN s.lane ELSE Tail(s.lane)
<1>1. CASE Interleave
  <2>1. Pop(s) = s BY <1>1 DEF Pop
  <2> QED BY <1>1, <2>1 DEF SameCopy
<1>2. CASE ~Interleave
  <2>1. Pop(s) = [s EXCEPT !.lane = Tail(@)] BY <1>2 DEF Pop
  <2>2. Tail(s.lane) \in Seq(Calls \cup {Flush}) BY <1>2 DEF ActOK
  <2> QED BY <1>2, <2>1, <2>2 DEF SameCopy, ActOK
<1> QED BY <1>1, <1>2

\* A reload leaves a complete, current copy and nothing parked.
LEMMA ReloadFacts ==
    ASSUME NEW s, ActOK(s), RecordOK(record), Durable \subseteq Calls
    PROVE  /\ ActOK(Reload(s))
           /\ Reload(s).mem = Durable /\ Reload(s).etag = record.etag
           /\ Reload(s).pending = s.pending /\ Reload(s).lane = s.lane
           /\ Reload(s).life = s.life /\ Reload(s).flushing = s.flushing
           /\ Reload(s).reload = FALSE
<1> DEFINE r == [s EXCEPT !.mem = Durable,
                          !.dirty = @ \/ (Tracked /\ s.mem # Durable)]
           t == ConsumeDirty(r)
<1>1. /\ ActOK(r) /\ r.mem = Durable /\ r.pending = s.pending /\ r.lane = s.lane
      /\ r.life = s.life /\ r.flushing = s.flushing
  BY DEF ActOK
<1> HIDE DEF r
<1>2. /\ ActOK(t) /\ SameCopy(r, t) /\ t.lane = r.lane /\ t.life = r.life
  BY <1>1, ConsumeDirtyFacts
<1> DEFINE u == [t EXCEPT !.reload = FALSE, !.etag = record.etag, !.eventual = 0,
                          !.version = @ + 1, !.saved = t.version + 1]
<1>3. Reload(s) = u BY DEF Reload, t, r
<1> HIDE DEF t
<1>4. record.etag \in Nat BY DEF RecordOK
<1>5. ActOK(u)
  <2>1. ActOK(t) BY <1>2
  <2>2. t.version + 1 \in Nat BY SMTT(60), <2>1 DEF ActOK
  <2> QED BY SMTT(60), <1>4, <2>1, <2>2 DEF ActOK
<1>6. /\ u.mem = t.mem /\ u.etag = record.etag /\ u.pending = t.pending
      /\ u.lane = t.lane /\ u.life = t.life /\ u.flushing = t.flushing
      /\ u.reload = FALSE
  OBVIOUS
<1> HIDE DEF u
<1> QED BY <1>1, <1>2, <1>3, <1>5, <1>6 DEF SameCopy

\* A failed reload faults the activation and keeps its copy.
LEMMA ReloadFailedFacts ==
    ASSUME NEW s, ActOK(s)
    PROVE  /\ ActOK(ReloadFailed(s)) /\ LifeMoves(s, ReloadFailed(s))
           /\ ReloadFailed(s).mem = s.mem /\ ReloadFailed(s).etag = s.etag
           /\ ReloadFailed(s).pending = s.pending /\ ReloadFailed(s).lane = s.lane
           /\ ReloadFailed(s).flushing = s.flushing
           /\ ReloadFailed(s).flushWanted = s.flushWanted
           /\ ReloadFailed(s).saved = s.saved
           /\ ReloadFailed(s).reload = FALSE
<1> DEFINE t == [s EXCEPT !.reload = FALSE, !.faulted = TRUE]
<1>1. /\ ActOK(t) /\ t.mem = s.mem /\ t.etag = s.etag /\ t.pending = s.pending
      /\ t.lane = s.lane /\ t.flushing = s.flushing /\ t.flushWanted = s.flushWanted
      /\ t.saved = s.saved /\ t.reload = FALSE /\ t.life = s.life
  BY DEF ActOK
<1>2. ReloadFailed(s) = ReportFault(t) BY DEF ReloadFailed
<1> HIDE DEF t
<1> QED BY <1>1, <1>2, ReportFaultFacts DEF SameCopy, LifeMoves

\* A failed flush leaves the lane and keeps the copy.
LEMMA FlushFailedFacts ==
    ASSUME NEW s, ActOK(s), s.lane # <<>>
    PROVE  /\ ActOK(FlushFailed(s)) /\ LifeMoves(s, FlushFailed(s))
           /\ FlushFailed(s).mem = s.mem /\ FlushFailed(s).etag = s.etag
           /\ FlushFailed(s).pending = s.pending
           /\ FlushFailed(s).lane = Tail(s.lane)
           /\ FlushFailed(s).flushing = FALSE /\ FlushFailed(s).reload = FALSE
<1> DEFINE t == [s EXCEPT !.stateError = TRUE, !.faulted = @ \/ s.reload,
                          !.reload = FALSE, !.flushing = FALSE, !.lane = Tail(@)]
<1>0. Tail(s.lane) \in Seq(Calls \cup {Flush}) BY DEF ActOK
<1>1. /\ ActOK(t) /\ t.mem = s.mem /\ t.etag = s.etag /\ t.pending = s.pending
      /\ t.lane = Tail(s.lane) /\ t.flushing = FALSE /\ t.reload = FALSE
      /\ t.life = s.life
  BY <1>0 DEF ActOK
<1>2. FlushFailed(s) = ReportFault(t) BY DEF FlushFailed
<1> HIDE DEF t
<1> QED BY <1>1, <1>2, ReportFaultFacts DEF SameCopy, LifeMoves

\* What the arrival of a reply does to the activation that waited for it.
LEMMA SettledFacts ==
    ASSUME NEW s, ActOK(s), s.reload => RetryQueued
    PROVE  /\ ActOK(Settled(s)) /\ ~Busy(Settled(s)) /\ Settled(s).pending = NoWrite
           /\ Settled(s).life = s.life /\ Settled(s).lane = s.lane
           /\ Settled(s).flushing = s.flushing
           /\ Settled(s).reload => RetryQueued
           /\ \/ Settled(s).mem = s.mem /\ Settled(s).etag = s.etag
              \/ /\ s.pending.reply = "ok" /\ s.pending.op \in {"save", "append"}
                 /\ Settled(s).mem = s.mem /\ Settled(s).etag = s.pending.etag
              \/ /\ s.pending.reply = "ok" /\ s.pending.op = "clear"
                 /\ Settled(s).mem = {} /\ Settled(s).etag = 0
<1> DEFINE w == s.pending
           t == [s EXCEPT !.pending = NoWrite]
<1>1. /\ ActOK(t) /\ t.pending = NoWrite /\ t.mem = s.mem /\ t.etag = s.etag
      /\ t.life = s.life /\ t.lane = s.lane /\ t.flushing = s.flushing
      /\ t.reload = s.reload
  BY DEF ActOK, NoWrite, WriteOK
<1>2. w.etag \in Nat /\ w.version \in Nat BY DEF ActOK, WriteOK
<1>9. ActOK(t) BY <1>1
<1>3. NoWrite.op = "none" BY DEF NoWrite
<1> HIDE DEF t
<1>4. CASE w.reply = "ok" /\ w.op = "save"
  <2> DEFINE u == [t EXCEPT !.etag = w.etag, !.saved = w.version]
  <2>1. Settled(s) = u
    BY <1>4 DEF Settled, Saved, t
  <2>2. ActOK(u) BY SMTT(60), <1>9, <1>2 DEF ActOK
  <2>3. /\ u.mem = t.mem /\ u.etag = w.etag
        /\ u.pending = t.pending /\ u.life = t.life
        /\ u.lane = t.lane /\ u.flushing = t.flushing
        /\ u.reload = (t.reload)
    OBVIOUS
  <2> HIDE DEF u
  <2> QED BY <1>1, <1>3, <1>4, <2>1, <2>2, <2>3 DEF Busy
<1>5. CASE w.reply = "ok" /\ w.op = "append"
  <2> DEFINE u == [t EXCEPT !.etag = w.etag,
                        !.saved = IF @ = w.version - 1 THEN w.version ELSE @]
  <2>1. Settled(s) = u
    BY <1>5 DEF Settled, Appended, t
  <2>2. ActOK(u) BY SMTT(60), <1>9, <1>2 DEF ActOK
  <2>3. /\ u.mem = t.mem /\ u.etag = w.etag
        /\ u.pending = t.pending /\ u.life = t.life
        /\ u.lane = t.lane /\ u.flushing = t.flushing
        /\ u.reload = (t.reload)
    OBVIOUS
  <2> HIDE DEF u
  <2> QED BY <1>1, <1>3, <1>5, <2>1, <2>2, <2>3 DEF Busy
<1>6. CASE w.reply = "ok" /\ w.op = "clear"
  <2> DEFINE u == [t EXCEPT !.etag = 0, !.eventual = 0, !.armed = @ /\ WriteBehind,
                        !.mem = {}, !.dirty = @ \/ (Tracked /\ t.mem # {})]
  <2>1. Settled(s) = u
    BY <1>6 DEF Settled, Cleared, t
  <2>2. ActOK(u) BY <1>9, ConfigAssumption DEF ActOK
  <2>3. /\ u.mem = {} /\ u.etag = 0
        /\ u.pending = t.pending /\ u.life = t.life
        /\ u.lane = t.lane /\ u.flushing = t.flushing
        /\ u.reload = (t.reload)
    OBVIOUS
  <2> HIDE DEF u
  <2> QED BY <1>1, <1>3, <1>6, <2>1, <2>2, <2>3 DEF Busy
<1>7. CASE w.reply = "conflict" /\ w.op # "clear"
  <2> DEFINE u == [t EXCEPT !.reload = @ \/ RetryQueued, !.faulted = @ \/ ~RetryQueued]
  <2>1. Settled(s) = u
    BY <1>7 DEF Settled, LostRace, t
  <2>2. ActOK(u) BY SMTT(60), <1>9, ConfigAssumption DEF ActOK
  <2>3. /\ u.mem = t.mem /\ u.etag = t.etag
        /\ u.pending = t.pending /\ u.life = t.life
        /\ u.lane = t.lane /\ u.flushing = t.flushing
        /\ u.reload = (t.reload \/ RetryQueued)
    OBVIOUS
  <2> HIDE DEF u
  <2> QED BY <1>1, <1>3, <1>7, <2>1, <2>2, <2>3 DEF Busy
<1>8. CASE /\ ~(w.reply = "ok" /\ w.op = "save") /\ ~(w.reply = "ok" /\ w.op = "append")
           /\ ~(w.reply = "ok" /\ w.op = "clear") /\ ~(w.reply = "conflict" /\ w.op # "clear")
  <2>1. Settled(s) = t BY <1>8 DEF Settled, t
  <2> QED BY <1>1, <1>3, <2>1 DEF Busy
<1> QED BY <1>4, <1>5, <1>6, <1>7, <1>8

-----------------------------------------------------------------------------
(* Updates of one activation and one call.                                 *)

\* Replacing one activation leaves the others as they were.
LEMMA ActUpdate ==
    ASSUME TypeOK, NEW a \in Acts, NEW t, ActOK(t), act' = [act EXCEPT ![a] = t]
    PROVE  /\ act' = [b \in Acts |-> act'[b]]
           /\ act'[a] = t
           /\ \A b \in Acts : b # a => act'[b] = act[b]
           /\ \A b \in Acts : ActOK(act'[b])
BY DEF TypeOK

\* Replacing one call leaves the others as they were.
LEMMA CallUpdate ==
    ASSUME TypeOK, NEW c \in Calls, NEW d, CallOK(d), call' = [call EXCEPT ![c] = d]
    PROVE  /\ call' = [e \in Calls |-> call'[e]]
           /\ call'[c] = d
           /\ \A e \in Calls : e # c => call'[e] = call[e]
           /\ \A e \in Calls : CallOK(call'[e])
BY DEF TypeOK

\* A complete copy stays complete while the record stands still.
LEMMA FreshUpdate ==
    ASSUME StorageInv, NEW a \in Acts, NEW t, ActOK(t), FreshCopy(t),
           act' = [act EXCEPT ![a] = t], record' = record, minted' = minted,
           wiped \subseteq wiped'
    PROVE  FreshInv'
<1>1. /\ act'[a] = t /\ \A b \in Acts : b # a => act'[b] = act[b]
  BY ActUpdate DEF StorageInv
<1>2. \A b \in Acts : FreshCopy(act[b]) BY DEF StorageInv, FreshInv
<1>3. Durable' = Durable BY DEF Durable
<1>4. \A b \in Acts : FreshCopy(act[b])'
  <2> TAKE b \in Acts
  <2>1. CASE b = a BY <1>1, <1>3, <2>1 DEF FreshCopy, Busy
  <2>2. CASE b # a BY <1>1, <1>2, <1>3, <2>2 DEF FreshCopy, Busy
  <2> QED BY <2>1, <2>2
<1> QED BY <1>3, <1>4 DEF StorageInv, FreshInv

\* Freshness only depends on the copy and the write in flight.
LEMMA FreshSame ==
    ASSUME NEW s, NEW t, FreshCopy(s), s.mem \subseteq t.mem, t.etag = s.etag,
           t.pending = s.pending
    PROVE  FreshCopy(t)
BY DEF FreshCopy, Busy

\* LaneInv, restricted to one activation that becomes t.
LanesAt(a, t) ==
    /\ \A e \in Calls : ~Over(e) /\ call[e].at = a =>
           t.life \in {"live", "closing", "stopped"}
    /\ ~Interleave => \A e \in Calls : Working(e) /\ call[e].at = a =>
           t.lane # <<>> /\ Head(t.lane) = e
    /\ t.flushing /\ t.life \notin {"gone", "flushing"} =>
           t.lane # <<>> /\ Head(t.lane) = Flush
    /\ Busy(t) /\ t.life # "gone" =>
           IF t.pending.owner = Flush
           THEN t.flushing /\ t.saved < t.flushWanted
           ELSE /\ call[t.pending.owner].pc = "writing"
                /\ call[t.pending.owner].at = a
    /\ \A e \in Calls : call[e].kind = "append" /\ call[e].pc \in {"gate", "writing"}
                            /\ call[e].at = a =>
           e \in t.mem \cup wiped
    /\ t.reload => RetryQueued

\* LaneInv is the conjunction of what it says of each activation.
LEMMA LanesSplit ==
    ASSUME NEW a \in Acts, LaneInv
    PROVE  LanesAt(a, act[a])
BY DEF LanesAt, LaneInv, CallsPlaced, HeadWorks, HeadFlushes, WriterWaits, AppendFolds,
       ReloadOptedIn

\* A step of one activation and of calls it owns keeps LaneInv if it keeps
\* what LaneInv says of that activation.
LEMMA LaneUpdate ==
    ASSUME StorageInv, NEW a \in Acts, NEW t, ActOK(t), act' = [act EXCEPT ![a] = t],
           \A e \in Calls : call'[e] = call[e] \/ (call'[e].at = a /\
                               (call[e].pc = "new" \/ call[e].at = a)),
           LanesAt(a, act[a])', wiped \subseteq wiped'
    PROVE  LaneInv'
<1> USE DEF StorageInv, LaneInv
<1>1. /\ act'[a] = t /\ \A b \in Acts : b # a => act'[b] = act[b]
  BY ActUpdate
<1>2. CallsPlaced'
  BY <1>1 DEF CallsPlaced, LanesAt, Over
<1>3. HeadWorks'
  BY <1>1 DEF HeadWorks, LanesAt, Working, CallsPlaced, Over
<1>4. HeadFlushes'
  BY <1>1 DEF HeadFlushes, LanesAt
<1>5. WriterWaits'
  <2> SUFFICES ASSUME NEW b \in Acts, b # a, Busy(act[b]), act[b].life # "gone"
               PROVE  IF act[b].pending.owner = Flush
                      THEN act[b].flushing /\ act[b].saved < act[b].flushWanted
                      ELSE /\ call'[act[b].pending.owner].pc = "writing"
                           /\ call'[act[b].pending.owner].at = b
    BY <1>1 DEF WriterWaits, LanesAt, Busy
  <2>1. act[b].pending.owner \in Calls \cup {Flush} BY DEF TypeOK, ActOK, WriteOK
  <2> QED BY <2>1 DEF WriterWaits
<1>6. ReloadOptedIn'
  BY <1>1 DEF ReloadOptedIn, LanesAt
<1>7. AppendFolds'
  BY <1>1 DEF AppendFolds, LanesAt, CallsPlaced, Over
<1> QED BY <1>2, <1>3, <1>4, <1>5, <1>6, <1>7

\* A step that leaves the record alone, of one activation and calls it owns.
LEMMA LocalStep ==
    ASSUME StorageInv, NEW a \in Acts, NEW t, ActOK(t), FreshCopy(t),
           act' = [act EXCEPT ![a] = t],
           call' = [e \in Calls |-> call'[e]], \A e \in Calls : CallOK(call'[e]),
           \A e \in Calls : call'[e] = call[e] \/ (call'[e].at = a /\
                               (call[e].pc = "new" \/ call[e].at = a)),
           LanesAt(a, act[a])',
           record' = record, minted' = minted,
           wiped \subseteq wiped', wiped' \subseteq Calls, dropped' \subseteq Calls,
           failures' \in 0..MaxFailures, stops' \in 0..MaxStops
    PROVE  StorageInv'
<1>1. LaneInv' BY LaneUpdate
<1>2. FreshInv' BY FreshUpdate
<1>3. TypeOK'
  <2>1. act' = [b \in Acts |-> act'[b]] /\ \A b \in Acts : ActOK(act'[b])
    BY ActUpdate DEF StorageInv
  <2> QED BY <2>1 DEF StorageInv, TypeOK, ActOK, WriteOK, CallOK, RecordOK
<1> QED BY <1>1, <1>2, <1>3 DEF StorageInv

\* The head of a serial lane runs alone: no sibling, no flush, no write of
\* anyone else is in flight.
LEMMA HeadAlone ==
    ASSUME StorageInv, NEW c \in Calls, NEW a \in Acts, call[c].at = a, ~Interleave,
           ~Over(c), act[a].lane # <<>>, Head(act[a].lane) = c
    PROVE  /\ ~act[a].flushing
           /\ Busy(act[a]) => act[a].pending.owner = c /\ call[c].pc = "writing"
           /\ \A e \in Calls : Working(e) /\ call[e].at = a => e = c
<1>1. LanesAt(a, act[a]) BY LanesSplit DEF StorageInv
<1>2. act[a].life \in {"live", "closing", "stopped"} BY <1>1 DEF LanesAt
<1>3. Flush # c BY ConfigAssumption
<1>4. ~act[a].flushing BY <1>1, <1>2, <1>3 DEF LanesAt
<1>5. \A e \in Calls : Working(e) /\ call[e].at = a => e = c BY <1>1 DEF LanesAt
<1>6. act[a].pending.owner \in Calls \cup {Flush} BY DEF StorageInv, TypeOK, ActOK, WriteOK
<1>7. Busy(act[a]) => act[a].pending.owner = c /\ call[c].pc = "writing"
  BY <1>1, <1>2, <1>4, <1>5, <1>6 DEF LanesAt, Working
<1> QED BY <1>4, <1>5, <1>7

\* A turn runs on an activation, and on a serial one from the head of the lane.
LEMMA TurnPlace ==
    ASSUME StorageInv, NEW c \in Calls, Working(c)
    PROVE  /\ call[c].at \in Acts /\ ActOK(act[call[c].at]) /\ FreshCopy(act[call[c].at])
           /\ act[call[c].at].life \in {"live", "closing", "stopped"}
           /\ ~Interleave => /\ act[call[c].at].lane # <<>>
                             /\ Head(act[call[c].at].lane) = c
BY DEF StorageInv, LaneInv, CallsPlaced, HeadWorks, Working, Over, FreshInv, TypeOK

\* A turn that goes on: it keeps its lane, its life and the flush, and starts
\* a write only when none is in flight.
LEMMA TurnGoesOn ==
    ASSUME StorageInv, NEW c \in Calls, NEW a \in Acts, call[c].at = a, Working(c),
           NEW t, NEW d, ActOK(t), FreshCopy(t), CallOK(d),
           act' = [act EXCEPT ![a] = t], call' = [call EXCEPT ![c] = d], d.at = a,
           t.life = act[a].life, t.lane = act[a].lane,
           t.flushing = act[a].flushing, t.saved = act[a].saved,
           t.flushWanted = act[a].flushWanted, t.reload = act[a].reload,
           act[a].mem \subseteq t.mem,
           d.kind = "append" /\ d.pc \in {"gate", "writing"} => c \in t.mem \cup wiped,
           \/ /\ t.pending = act[a].pending
              /\ call[c].pc # "writing" /\ d.pc # "writing"
           \/ t.pending.owner = c /\ d.pc = "writing",
           d.pc \in {"running", "mutated", "gate", "writing", "ending"},
           UNCHANGED <<record, minted, wiped, dropped, failures, stops>>
    PROVE  StorageInv'
<1>1. LanesAt(a, act[a]) BY LanesSplit DEF StorageInv
<1>2. /\ call' = [e \in Calls |-> call'[e]] /\ \A e \in Calls : CallOK(call'[e])
      /\ call'[c] = d /\ \A e \in Calls : e # c => call'[e] = call[e]
  BY CallUpdate DEF StorageInv
<1>3. act'[a] = t BY ActUpdate DEF StorageInv
<1>4. act[a].pending.owner \in Calls \cup {Flush}
  BY DEF StorageInv, TypeOK, ActOK, WriteOK
<1>5. LanesAt(a, act[a])'
  <2>1. \A e \in Calls : /\ ~Over(e)' => ~Over(e)
                         /\ Working(e)' => Working(e)
                         /\ call'[e].at = call[e].at
    BY <1>2 DEF Over, Working
  <2>2. Flush # c BY ConfigAssumption
  <2>3. Busy(t) /\ t.life # "gone" =>
           IF t.pending.owner = Flush
           THEN t.flushing /\ t.saved < t.flushWanted
           ELSE /\ call'[t.pending.owner].pc = "writing"
                /\ call'[t.pending.owner].at = a
    BY <1>1, <1>2, <1>4, <2>2 DEF LanesAt, Busy
  <2> QED BY <1>1, <1>2, <1>3, <2>1, <2>3 DEF LanesAt, Busy
<1> QED BY <1>2, <1>5, LocalStep DEF StorageInv, TypeOK

\* A turn that ends leaves the serial lane to the next one.
LEMMA TurnEnds ==
    ASSUME StorageInv, NEW c \in Calls, NEW a \in Acts, call[c].at = a,
           call[c].pc \notin {"new", "done", "writing"},
           ~Interleave => act[a].lane # <<>> /\ Head(act[a].lane) = c,
           NEW t, NEW d, ActOK(t), FreshCopy(t), CallOK(d),
           act' = [act EXCEPT ![a] = t], call' = [call EXCEPT ![c] = d],
           d.at = a, d.pc = "done",
           LifeMoves(act[a], t),
           t.lane = IF Interleave THEN act[a].lane ELSE Tail(act[a].lane),
           t.flushing = act[a].flushing, t.saved = act[a].saved,
           t.flushWanted = act[a].flushWanted, t.reload => RetryQueued,
           t.mem = act[a].mem,
           t.pending = act[a].pending,
           UNCHANGED <<record, minted, wiped, dropped, stops>>,
           failures' \in 0..MaxFailures
    PROVE  StorageInv'
<1>1. LanesAt(a, act[a]) BY LanesSplit DEF StorageInv
<1>2. /\ call' = [e \in Calls |-> call'[e]] /\ \A e \in Calls : CallOK(call'[e])
      /\ call'[c] = d /\ \A e \in Calls : e # c => call'[e] = call[e]
  BY CallUpdate DEF StorageInv
<1>3. act'[a] = t BY ActUpdate DEF StorageInv
<1>4. act[a].pending.owner \in Calls \cup {Flush}
  BY DEF StorageInv, TypeOK, ActOK, WriteOK
<1>5. act[a].life \in {"live", "closing", "stopped"} BY <1>1 DEF LanesAt, Over
<1>6. ~Interleave => /\ ~act[a].flushing /\ ~Busy(act[a])
                     /\ \A e \in Calls : Working(e) /\ call[e].at = a => e = c
  BY HeadAlone DEF Over
<1>7. LanesAt(a, act[a])'
  <2>1. \A e \in Calls : /\ ~Over(e)' => ~Over(e) /\ e # c
                         /\ Working(e)' => Working(e) /\ e # c
                         /\ call'[e].at = call[e].at
    BY <1>2 DEF Over, Working
  <2>2. Busy(t) /\ t.life # "gone" =>
           IF t.pending.owner = Flush
           THEN t.flushing /\ t.saved < t.flushWanted
           ELSE /\ call'[t.pending.owner].pc = "writing"
                /\ call'[t.pending.owner].at = a
    BY <1>1, <1>2, <1>4, <1>5 DEF LanesAt, Busy
  <2>3. t.life \in {"live", "closing", "stopped"} BY <1>5 DEF LifeMoves
  <2> QED BY <1>1, <1>3, <1>5, <1>6, <2>1, <2>2, <2>3 DEF LanesAt, Busy
<1> QED BY <1>2, <1>7, LocalStep DEF StorageInv, TypeOK

-----------------------------------------------------------------------------
(* Every action keeps StorageInv.  Turns first.                            *)

\* The effect of a turn is one of the turns.
LEMMA TouchFacts ==
    ASSUME NEW s, ActOK(s), NEW c \in Calls
    PROVE  /\ ActOK(Touch(s, c)) /\ s.mem \subseteq Touch(s, c).mem
           /\ Touch(s, c).etag = s.etag /\ Touch(s, c).pending = s.pending
           /\ Touch(s, c).life = s.life /\ Touch(s, c).lane = s.lane
           /\ Touch(s, c).flushing = s.flushing /\ Touch(s, c).saved = s.saved
           /\ Touch(s, c).flushWanted = s.flushWanted /\ Touch(s, c).reload = s.reload
BY ConfigAssumption DEF ActOK, Touch

\* A mutation only adds to the copy.
LEMMA MutateStep ==
    ASSUME StorageInv, NEW c \in Calls, Mutate(c)
    PROVE  StorageInv'
<1>0. Working(c) BY DEF Mutate, Working
<1>1. PICK a \in Acts : call[c].at = a BY <1>0, TurnPlace
<1> DEFINE s == act[a]
           t == Touch(s, c)
           d == [call[c] EXCEPT !.pc = IF call[c].kind = "write" THEN "ending" ELSE "mutated"]
<1>2. ActOK(s) /\ FreshCopy(s) BY <1>0, <1>1, TurnPlace
<1>3. /\ ActOK(t) /\ s.mem \subseteq t.mem /\ t.etag = s.etag /\ t.pending = s.pending
      /\ t.life = s.life /\ t.lane = s.lane /\ t.flushing = s.flushing
      /\ t.saved = s.saved /\ t.flushWanted = s.flushWanted /\ t.reload = s.reload
  BY <1>2, TouchFacts
<1>4. CallOK(d) /\ d.at = a /\ d.pc \in {"ending", "mutated"}
  BY <1>1 DEF StorageInv, TypeOK, CallOK
<1>5. act' = [act EXCEPT ![a] = t] /\ call' = [call EXCEPT ![c] = d]
  BY <1>1 DEF Mutate, SetAct, SetCall, PutCall
<1>6. call[c].pc # "writing" /\ UNCHANGED <<record, minted, wiped, dropped, failures, stops>>
  BY DEF Mutate
<1>7. FreshCopy(t) BY <1>2, <1>3, FreshSame
<1> HIDE DEF t, d
<1> QED BY <1>0, <1>1, <1>3, <1>4, <1>5, <1>6, <1>7, TurnGoesOn

\* The end of a turn.
LEMMA EndTurnStep ==
    ASSUME StorageInv, NEW c \in Calls, EndTurn(c)
    PROVE  StorageInv'
<1>0. Working(c) BY DEF EndTurn, Working
<1>1. PICK a \in Acts : call[c].at = a BY <1>0, TurnPlace
<1> DEFINE s == act[a]
           u == AfterTurn(s)
           t == Pop(u)
           d == [call[c] EXCEPT !.pc = "done"]
<1>2. /\ ActOK(s) /\ FreshCopy(s)
      /\ ~Interleave => s.lane # <<>> /\ Head(s.lane) = c
  BY <1>0, <1>1, TurnPlace
<1>3. ActOK(u) /\ SameCopy(s, u) /\ u.lane = s.lane /\ LifeMoves(s, u)
  BY <1>2, AfterTurnFacts
<1> HIDE DEF u
<1>4. /\ ActOK(t) /\ SameCopy(u, t) /\ t.life = u.life
      /\ t.lane = IF Interleave THEN u.lane ELSE Tail(u.lane)
  BY <1>2, <1>3, PopFacts
<1>5. CallOK(d) /\ d.at = a /\ d.pc = "done"
  BY <1>1 DEF StorageInv, TypeOK, CallOK
<1>6. act' = [act EXCEPT ![a] = t] /\ call' = [call EXCEPT ![c] = d]
  BY <1>1 DEF EndTurn, SetAct, SetCall, PutCall, u
<1>7. /\ call[c].pc = "ending"
      /\ UNCHANGED <<record, minted, wiped, dropped, failures, stops>>
  BY DEF EndTurn
<1> HIDE DEF t, d
<1>8. SameCopy(s, t) /\ LifeMoves(s, t)
  BY <1>3, <1>4 DEF SameCopy, LifeMoves
<1>9. FreshCopy(t) BY <1>2, <1>8, FreshSame DEF SameCopy
<1>10. t.reload => RetryQueued
  BY <1>8 DEF SameCopy, StorageInv, LaneInv, ReloadOptedIn
<1>11. failures' \in 0..MaxFailures BY <1>7 DEF StorageInv, TypeOK
<1>12. t.lane = IF Interleave THEN s.lane ELSE Tail(s.lane) BY <1>3, <1>4
<1>13. /\ t.flushing = s.flushing /\ t.saved = s.saved /\ t.pending = s.pending
       /\ t.flushWanted = s.flushWanted /\ t.mem = s.mem
  BY <1>8 DEF SameCopy
<1> QED BY <1>1, <1>2, <1>4, <1>5, <1>6, <1>7, <1>8, <1>9, <1>10, <1>11, <1>12, <1>13,
           TurnEnds

\* Saves and appends take a new version; an append also folds its entry.
LEMMA SaveImmediateStep ==
    ASSUME StorageInv, NEW c \in Calls, SaveImmediate(c)
    PROVE  StorageInv'
<1>0. Working(c) BY DEF SaveImmediate, Working
<1>1. PICK a \in Acts : call[c].at = a BY <1>0, TurnPlace
<1> DEFINE s == act[a]
           u == ConsumeDirty(s)
           t == [u EXCEPT !.version = @ + 1]
           d == [call[c] EXCEPT !.pc = "gate", !.wanted = u.version + 1]
<1>2. ActOK(s) /\ FreshCopy(s) BY <1>0, <1>1, TurnPlace
<1>3. ActOK(u) /\ SameCopy(s, u) /\ u.lane = s.lane /\ u.life = s.life
  BY <1>2, ConsumeDirtyFacts
<1>5. act' = [act EXCEPT ![a] = t] /\ call' = [call EXCEPT ![c] = d]
  BY <1>1 DEF SaveImmediate, SetAct, WantVersion, PutCall
<1> HIDE DEF u
<1>4. ActOK(t) /\ SameCopy(u, t) /\ t.life = u.life /\ t.lane = u.lane
  BY SMTT(60), <1>3 DEF ActOK, SameCopy
<1>6. CallOK(d) /\ d.at = a /\ d.pc = "gate" /\ d.kind = "save"
  BY <1>1, <1>3 DEF StorageInv, TypeOK, CallOK, ActOK, SaveImmediate
<1>7. call[c].pc = "mutated" /\ UNCHANGED <<record, minted, wiped, dropped, failures, stops>>
  BY DEF SaveImmediate
<1> HIDE DEF t, d
<1>8. SameCopy(s, t) /\ t.life = s.life /\ t.lane = s.lane BY <1>3, <1>4 DEF SameCopy
<1>9. FreshCopy(t) BY <1>2, <1>8, FreshSame DEF SameCopy
<1> QED BY <1>0, <1>1, <1>4, <1>5, <1>6, <1>7, <1>8, <1>9, TurnGoesOn DEF SameCopy

\* An eventual save takes a version and arms the debounce.
LEMMA SaveEventualStep ==
    ASSUME StorageInv, NEW c \in Calls, SaveEventual(c)
    PROVE  StorageInv'
<1>0. Working(c) BY DEF SaveEventual, Working
<1>1. PICK a \in Acts : call[c].at = a BY <1>0, TurnPlace
<1> DEFINE s == act[a]
           u == ConsumeDirty(s)
           t == [u EXCEPT !.version = @ + 1, !.eventual = u.version + 1, !.armed = TRUE]
           d == [call[c] EXCEPT !.pc = "ending", !.wanted = u.version + 1]
<1>2. ActOK(s) /\ FreshCopy(s) BY <1>0, <1>1, TurnPlace
<1>3. ActOK(u) /\ SameCopy(s, u) /\ u.lane = s.lane /\ u.life = s.life
  BY <1>2, ConsumeDirtyFacts
<1>5. act' = [act EXCEPT ![a] = t] /\ call' = [call EXCEPT ![c] = d]
  BY <1>1 DEF SaveEventual, SetAct, WantVersion, PutCall
<1> HIDE DEF u
<1>4. ActOK(t) /\ SameCopy(u, t) /\ t.life = u.life /\ t.lane = u.lane
  BY SMTT(60), <1>3 DEF ActOK, SameCopy
<1>6. CallOK(d) /\ d.at = a /\ d.pc = "ending"
  BY <1>1, <1>3 DEF StorageInv, TypeOK, CallOK, ActOK
<1>7. call[c].pc = "mutated" /\ UNCHANGED <<record, minted, wiped, dropped, failures, stops>>
  BY DEF SaveEventual
<1> HIDE DEF t, d
<1>8. SameCopy(s, t) /\ t.life = s.life /\ t.lane = s.lane BY <1>3, <1>4 DEF SameCopy
<1>9. FreshCopy(t) BY <1>2, <1>8, FreshSame DEF SameCopy
<1> QED BY <1>0, <1>1, <1>4, <1>5, <1>6, <1>7, <1>8, <1>9, TurnGoesOn DEF SameCopy

\* An append folds its entry into the copy.
LEMMA AppendEntryStep ==
    ASSUME StorageInv, NEW c \in Calls, AppendEntry(c)
    PROVE  StorageInv'
<1>0. Working(c) BY DEF AppendEntry, Working
<1>1. PICK a \in Acts : call[c].at = a BY <1>0, TurnPlace
<1> DEFINE s == act[a]
           u == ConsumeDirty(s)
           t == [u EXCEPT !.mem = @ \cup {c}, !.version = @ + 1]
           d == [call[c] EXCEPT !.pc = "gate", !.wanted = u.version + 1]
<1>2. ActOK(s) /\ FreshCopy(s) BY <1>0, <1>1, TurnPlace
<1>3. ActOK(u) /\ SameCopy(s, u) /\ u.lane = s.lane /\ u.life = s.life
  BY <1>2, ConsumeDirtyFacts
<1>5. act' = [act EXCEPT ![a] = t] /\ call' = [call EXCEPT ![c] = d]
  BY <1>1 DEF AppendEntry, SetAct, WantVersion, PutCall
<1> HIDE DEF u
<1>4. /\ ActOK(t) /\ u.mem \subseteq t.mem /\ c \in t.mem /\ t.etag = u.etag /\ t.pending = u.pending
      /\ t.flushing = u.flushing /\ t.flushWanted = u.flushWanted
      /\ t.saved = u.saved /\ t.reload = u.reload
      /\ t.life = u.life /\ t.lane = u.lane
  BY <1>3 DEF ActOK
<1>6. CallOK(d) /\ d.at = a /\ d.pc = "gate"
  BY <1>1, <1>3 DEF StorageInv, TypeOK, CallOK, ActOK
<1>7. call[c].pc = "running" /\ UNCHANGED <<record, minted, wiped, dropped, failures, stops>>
  BY DEF AppendEntry
<1> HIDE DEF t, d
<1>9. FreshCopy(t) BY <1>2, <1>3, <1>4, FreshSame DEF SameCopy
<1> QED BY <1>0, <1>1, <1>3, <1>4, <1>5, <1>6, <1>7, <1>9, TurnGoesOn DEF SameCopy

\* What a write handed to the storage carries.
LEMMA SendFacts ==
    ASSUME NEW s, ActOK(s), FreshCopy(s), NEW who \in Calls \cup {Flush}, NEW t, NEW w,
           t = [s EXCEPT !.pending = w], WriteOK(w), w.op # "none", w.reply = "sent",
           w.expect = s.etag, w.owner = who, w.op # "save" => who \in Calls,
           w.op = "save" => w.state = s.mem,
           w.op = "append" => who \in (s.mem \cup wiped) \cap Calls
    PROVE  /\ ActOK(t) /\ FreshCopy(t) /\ t.pending = w
           /\ t.life = s.life /\ t.lane = s.lane /\ t.flushing = s.flushing
           /\ t.saved = s.saved /\ t.flushWanted = s.flushWanted /\ t.reload = s.reload
           /\ t.mem = s.mem
<1>1. /\ t.pending = w /\ t.mem = s.mem /\ t.etag = s.etag
      /\ t.life = s.life /\ t.lane = s.lane /\ t.flushing = s.flushing
      /\ t.saved = s.saved /\ t.flushWanted = s.flushWanted /\ t.reload = s.reload
  BY DEF ActOK
<1>2. ActOK(t) BY DEF ActOK
<1>3. FreshCopy(t) BY <1>1 DEF FreshCopy, Busy
<1> QED BY <1>1, <1>2, <1>3

\* clearState is handed to the storage when no write is in flight.
LEMMA ClearStateStep ==
    ASSUME StorageInv, NEW c \in Calls, ClearState(c)
    PROVE  StorageInv'
<1>0. Working(c) BY DEF ClearState, Working
<1>1. PICK a \in Acts : call[c].at = a BY <1>0, TurnPlace
<1> DEFINE s == act[a]
           w == [op |-> "clear", owner |-> c, state |-> {}, expect |-> s.etag,
                 version |-> 0, reply |-> "sent", etag |-> 0]
           t == [s EXCEPT !.pending = w]
           d == [call[c] EXCEPT !.pc = "writing"]
<1>2. ActOK(s) /\ FreshCopy(s) BY <1>0, <1>1, TurnPlace
<1>3. act' = [act EXCEPT ![a] = t] /\ call' = [call EXCEPT ![c] = d]
  BY <1>1 DEF ClearState, SendClear, SetAct, SetCall, PutCall
<1>4. WriteOK(w) BY <1>2 DEF WriteOK, ActOK
<1>5. w.op = "clear" /\ w.reply = "sent" /\ w.expect = s.etag /\ w.owner = c OBVIOUS
<1> HIDE DEF w
<1>6. /\ ActOK(t) /\ FreshCopy(t) /\ t.pending = w /\ t.mem = s.mem
      /\ t.life = s.life /\ t.lane = s.lane /\ t.flushing = s.flushing
      /\ t.saved = s.saved /\ t.flushWanted = s.flushWanted /\ t.reload = s.reload
  BY <1>2, <1>4, <1>5, SendFacts
<1>7. CallOK(d) /\ d.at = a /\ d.pc = "writing" /\ d.kind = "clear"
  BY <1>1 DEF StorageInv, TypeOK, CallOK, ClearState
<1>8. UNCHANGED <<record, minted, wiped, dropped, failures, stops>> BY DEF ClearState
<1> HIDE DEF t, d
<1> QED BY <1>0, <1>1, <1>3, <1>5, <1>6, <1>7, <1>8, TurnGoesOn

\* One iteration of the save gate.
LEMMA GateStep ==
    ASSUME StorageInv, NEW c \in Calls, Gate(c)
    PROVE  StorageInv'
<1>0. Working(c) BY DEF Gate, Working
<1>1. PICK a \in Acts : call[c].at = a BY <1>0, TurnPlace
<1> DEFINE s == act[a]
<1>2. ActOK(s) /\ FreshCopy(s) BY <1>0, <1>1, TurnPlace
<1>3. call[c].pc = "gate" /\ UNCHANGED <<record, minted, wiped, dropped, failures, stops>>
  BY DEF Gate
<1>4. CASE UNCHANGED act
  <2>1. act' = [act EXCEPT ![a] = s] BY <1>4 DEF StorageInv, TypeOK
  <2>2. PICK d : /\ call' = [call EXCEPT ![c] = d]
                 /\ \/ d = [call[c] EXCEPT !.pc = "ending"]
                    \/ d = [call[c] EXCEPT !.pc = "ending", !.err = "faulted"]
    <3>1. CASE call' = [call EXCEPT ![c] = [call[c] EXCEPT !.pc = "ending"]]
      BY <3>1
    <3>2. CASE call' = [call EXCEPT ![c] = [call[c] EXCEPT !.pc = "ending", !.err = "faulted"]]
      BY <3>2
    <3>3. CASE /\ ~Busy(s)
               /\ \E w : /\ w.op # "none"
                         /\ act' = [act EXCEPT ![a] = [s EXCEPT !.pending = w]]
      <4>1. PICK w : /\ w.op # "none"
                     /\ act' = [act EXCEPT ![a] = [s EXCEPT !.pending = w]]
        BY <3>3
      <4>2. act'[a] = [s EXCEPT !.pending = w] BY <4>1 DEF StorageInv, TypeOK
      <4>3. [s EXCEPT !.pending = w].pending = w BY <1>2 DEF ActOK
      <4> QED BY <4>1, <4>2, <4>3, <1>4, <3>3 DEF Busy
    <3>4. \/ call' = [call EXCEPT ![c] = [call[c] EXCEPT !.pc = "ending"]]
          \/ call' = [call EXCEPT ![c] = [call[c] EXCEPT !.pc = "ending", !.err = "faulted"]]
          \/ /\ ~Busy(s)
             /\ \E w : /\ w.op # "none"
                       /\ act' = [act EXCEPT ![a] = [s EXCEPT !.pending = w]]
      BY <1>1 DEF Gate, GateOpen, SetCall, FailCall, PutCall, SetAct, SendAppend, SendSave
    <3> QED BY <3>1, <3>2, <3>3, <3>4
  <2>3. CallOK(d) /\ d.at = a /\ d.pc = "ending"
    <3>0. CallOK(call[c]) BY DEF StorageInv, TypeOK
    <3>1. CASE d = [call[c] EXCEPT !.pc = "ending"] BY <1>1, <3>0, <3>1 DEF CallOK
    <3>2. CASE d = [call[c] EXCEPT !.pc = "ending", !.err = "faulted"]
      BY <1>1, <3>0, <3>2 DEF CallOK
    <3> QED BY <2>2, <3>1, <3>2
  <2> QED BY <1>0, <1>1, <1>2, <1>3, <2>1, <2>2, <2>3, TurnGoesOn
<1>5. CASE ~UNCHANGED act
  <2> DEFINE d == [call[c] EXCEPT !.pc = "writing"]
             append == call[c].kind = "append" /\ AppendSeam /\ s.etag # 0
             w == IF append
                  THEN [op |-> "append", owner |-> c, state |-> {}, expect |-> s.etag,
                        version |-> call[c].wanted, reply |-> "sent", etag |-> 0]
                  ELSE [op |-> "save", owner |-> c, state |-> s.mem, expect |-> s.etag,
                        version |-> s.version, reply |-> "sent", etag |-> 0]
             t == [s EXCEPT !.pending = w]
  <2>1. act' = [act EXCEPT ![a] = t] /\ call' = [call EXCEPT ![c] = d]
    BY <1>1, <1>5 DEF Gate, SetCall, PutCall, SetAct, SendAppend, SendSave
  <2>2. CallOK(d) /\ d.at = a /\ d.pc = "writing" /\ d.kind = call[c].kind
    BY <1>1 DEF StorageInv, TypeOK, CallOK
  <2>3. call[c].wanted \in Nat BY DEF StorageInv, TypeOK, CallOK
  <2>4. WriteOK(w) BY <1>2, <2>3 DEF WriteOK, ActOK
  <2>5. /\ w.op \in {"save", "append"} /\ w.reply = "sent" /\ w.expect = s.etag /\ w.owner = c
        /\ w.op = "save" => w.state = s.mem
        /\ w.op = "append" => call[c].kind = "append"
    OBVIOUS
  <2>6. call[c].kind = "append" => c \in s.mem \cup wiped
    BY <1>1, <1>3 DEF StorageInv, LaneInv, AppendFolds
  <2> HIDE DEF w
  <2>7. /\ ActOK(t) /\ FreshCopy(t) /\ t.pending = w /\ t.mem = s.mem
        /\ t.life = s.life /\ t.lane = s.lane /\ t.flushing = s.flushing
        /\ t.saved = s.saved /\ t.flushWanted = s.flushWanted /\ t.reload = s.reload
    BY <1>2, <2>4, <2>5, <2>6, SendFacts
  <2> HIDE DEF t, d
  <2> QED BY <1>0, <1>1, <1>3, <2>1, <2>2, <2>5, <2>6, <2>7, TurnGoesOn
<1> QED BY <1>4, <1>5

\* A queued turn that may start is placed like a running one.
LEMMA RunnablePlace ==
    ASSUME StorageInv, NEW c \in Calls, Runnable(c)
    PROVE  /\ call[c].at \in Acts /\ ActOK(act[call[c].at]) /\ FreshCopy(act[call[c].at])
           /\ act[call[c].at].life \in {"live", "closing", "stopped"}
           /\ ~Interleave => /\ act[call[c].at].lane # <<>>
                             /\ Head(act[call[c].at].lane) = c
           /\ call[c].pc = "queued"
BY DEF StorageInv, LaneInv, CallsPlaced, Runnable, Over, FreshInv, TypeOK

\* What the storage holds is a set of turns.
LEMMA DurableInCalls ==
    ASSUME RecordOK(record)
    PROVE  Durable \subseteq Calls
BY DEF RecordOK, Durable, Fold, Entries

\* A queued turn starts on the copy t: c is alone on a serial activation.
LEMMA TurnStarts ==
    ASSUME StorageInv, NEW c \in Calls, Runnable(c), NEW a \in Acts, call[c].at = a,
           NEW t, ActOK(t), FreshCopy(t),
           act' = [act EXCEPT ![a] = t],
           call' = [call EXCEPT ![c] = [call[c] EXCEPT !.pc = "running"]],
           t.life = act[a].life, t.lane = act[a].lane, t.flushing = act[a].flushing,
           t.pending = act[a].pending, t.reload => act[a].reload,
           \/ t = act[a]
           \/ ~Interleave,
           UNCHANGED <<record, minted, wiped, failures, stops>>, dropped' \subseteq Calls
    PROVE  StorageInv'
<1> DEFINE d == [call[c] EXCEPT !.pc = "running"]
<1>1. LanesAt(a, act[a]) BY LanesSplit DEF StorageInv
<1>2. /\ act[a].life \in {"live", "closing", "stopped"} /\ call[c].pc = "queued"
      /\ ~Interleave => act[a].lane # <<>> /\ Head(act[a].lane) = c
  BY RunnablePlace
<1>3. CallOK(d) /\ d.at = a /\ d.pc = "running"
  BY DEF StorageInv, TypeOK, CallOK
<1> HIDE DEF d
<1>4. /\ call' = [e \in Calls |-> call'[e]] /\ \A e \in Calls : CallOK(call'[e])
      /\ call'[c] = d /\ \A e \in Calls : e # c => call'[e] = call[e]
  BY <1>3, CallUpdate DEF StorageInv, d
<1>5. act'[a] = t BY ActUpdate DEF StorageInv
<1>6. act[a].pending.owner \in Calls \cup {Flush}
  BY DEF StorageInv, TypeOK, ActOK, WriteOK
<1>7. ~Interleave => /\ ~act[a].flushing /\ ~Busy(act[a])
                     /\ \A e \in Calls : Working(e) /\ call[e].at = a => e = c
  BY <1>2, HeadAlone DEF Over
<1>8. LanesAt(a, act[a])'
  <2>1. \A e \in Calls : /\ ~Over(e)' => ~Over(e)
                         /\ Working(e)' => Working(e) \/ e = c
                         /\ call'[e].at = call[e].at
                         /\ call'[e].pc \in {"gate", "writing"} =>
                                e # c /\ call[e].pc \in {"gate", "writing"}
                         /\ e # c => call'[e] = call[e]
    BY <1>2, <1>3, <1>4 DEF Over, Working
  <2>2. \A e \in Calls : call'[e].kind = "append" /\ call'[e].pc \in {"gate", "writing"}
                             /\ call'[e].at = a
           => e \in t.mem \cup wiped'
    BY <1>1, <1>7, <2>1 DEF LanesAt, Working
  <2>3. Busy(t) => IF t.pending.owner = Flush
                   THEN t.flushing /\ t.saved < t.flushWanted
                   ELSE /\ call'[t.pending.owner].pc = "writing"
                        /\ call'[t.pending.owner].at = a
    BY <1>1, <1>2, <1>4, <1>6, <1>7 DEF LanesAt, Busy
  <2>4. ~Interleave => \A e \in Calls : Working(e)' /\ call'[e].at = a =>
           t.lane # <<>> /\ Head(t.lane) = e
    BY <1>2, <1>7, <2>1
  <2>5. t.flushing /\ t.life \notin {"gone", "flushing"} =>
           t.lane # <<>> /\ Head(t.lane) = Flush
    BY <1>1 DEF LanesAt
  <2> QED BY <1>1, <1>2, <1>5, <2>1, <2>2, <2>3, <2>4, <2>5 DEF LanesAt, Busy
<1> QED BY ZenonT(60), <1>3, <1>4, <1>8, LocalStep DEF StorageInv, TypeOK

\* A turn starts, or is refused by a faulted activation.
LEMMA StartTurnStep ==
    ASSUME StorageInv, NEW c \in Calls, StartTurn(c)
    PROVE  StorageInv'
<1>0. Runnable(c) BY DEF StartTurn
<1>1. PICK a \in Acts : call[c].at = a BY <1>0, RunnablePlace
<1> DEFINE s == act[a]
<1>2. /\ ActOK(s) /\ FreshCopy(s) /\ call[c].pc = "queued"
      /\ ~Interleave => s.lane # <<>> /\ Head(s.lane) = c
  BY <1>0, <1>1, RunnablePlace
<1>3. UNCHANGED <<record, minted, wiped, dropped, failures, stops>> BY DEF StartTurn
<1>4. failures \in 0..MaxFailures /\ dropped \subseteq Calls BY DEF StorageInv, TypeOK
<1>5. CASE s.faulted
  <2> DEFINE t == Pop(s)
             d == [call[c] EXCEPT !.pc = "done", !.err = "faulted"]
  <2>1. /\ ActOK(t) /\ SameCopy(s, t) /\ t.life = s.life
        /\ t.lane = IF Interleave THEN s.lane ELSE Tail(s.lane)
    BY <1>2, PopFacts
  <2>2. act' = [act EXCEPT ![a] = t] /\ call' = [call EXCEPT ![c] = d]
    BY <1>1, <1>5 DEF StartTurn, SetAct, FailCall, PutCall
  <2>3. CallOK(d) /\ d.at = a /\ d.pc = "done" BY <1>1 DEF StorageInv, TypeOK, CallOK
  <2> HIDE DEF t, d
  <2>4. FreshCopy(t) BY <1>2, <2>1, FreshSame DEF SameCopy
  <2>5. s.reload => RetryQueued BY DEF StorageInv, LaneInv, ReloadOptedIn
  <2> QED BY <1>1, <1>2, <1>3, <1>4, <2>1, <2>2, <2>3, <2>4, <2>5, TurnEnds
             DEF SameCopy, LifeMoves
<1>6. CASE ~s.faulted
  <2>1. /\ act' = [act EXCEPT ![a] = s]
        /\ call' = [call EXCEPT ![c] = [call[c] EXCEPT !.pc = "running"]]
    BY <1>1, <1>6 DEF StartTurn, SetCall, PutCall, StorageInv, TypeOK
  <2> QED BY <1>0, <1>1, <1>2, <1>3, <1>4, <2>1, TurnStarts
<1> QED BY <1>5, <1>6

\* A turn that first reloads starts from a complete copy.
LEMMA StartAfterReloadStep ==
    ASSUME StorageInv, NEW c \in Calls, StartAfterReload(c)
    PROVE  StorageInv'
<1>0. Runnable(c) BY DEF StartAfterReload
<1>1. PICK a \in Acts : call[c].at = a BY <1>0, RunnablePlace
<1> DEFINE s == act[a]
           t == Reload(s)
<1>2. /\ ActOK(s) /\ FreshCopy(s) /\ call[c].pc = "queued"
      /\ ~Interleave => s.lane # <<>> /\ Head(s.lane) = c
  BY <1>0, <1>1, RunnablePlace
<1>3. Durable \subseteq Calls /\ RecordOK(record) /\ record.etag <= minted
  BY DurableInCalls DEF StorageInv, TypeOK, FreshInv
<1>4. /\ ActOK(t) /\ t.mem = Durable /\ t.etag = record.etag /\ t.pending = s.pending
      /\ t.lane = s.lane /\ t.life = s.life /\ t.flushing = s.flushing /\ t.reload = FALSE
  BY <1>2, <1>3, ReloadFacts
<1>5. /\ act' = [act EXCEPT ![a] = t]
      /\ call' = [call EXCEPT ![c] = [call[c] EXCEPT !.pc = "running"]]
      /\ s.reload /\ dropped' = dropped \cup (s.mem \ Durable)
      /\ UNCHANGED <<record, minted, wiped, failures, stops>>
  BY <1>1 DEF StartAfterReload, SetAct, SetCall, PutCall
<1>6. ~Interleave
  BY <1>5, ConfigAssumption DEF StorageInv, LaneInv, ReloadOptedIn
<1>7. ~Busy(s) BY <1>1, <1>2, <1>6, HeadAlone DEF Over
<1> HIDE DEF t
<1>8. FreshCopy(t) BY <1>2, <1>3, <1>4, <1>7 DEF FreshCopy, Busy
<1>9. dropped' \subseteq Calls BY <1>2, <1>5 DEF StorageInv, TypeOK, ActOK
<1> QED BY <1>0, <1>1, <1>4, <1>5, <1>6, <1>8, <1>9, TurnStarts

\* A turn whose reload fails ends on the faulted activation.
LEMMA StartReloadFailsStep ==
    ASSUME StorageInv, NEW c \in Calls, StartReloadFails(c)
    PROVE  StorageInv'
<1>0. Runnable(c) BY DEF StartReloadFails
<1>1. PICK a \in Acts : call[c].at = a BY <1>0, RunnablePlace
<1> DEFINE s == act[a]
           u == ReloadFailed(s)
           t == Pop(u)
           d == [call[c] EXCEPT !.pc = "done", !.err = "transient"]
<1>2. /\ ActOK(s) /\ FreshCopy(s) /\ call[c].pc = "queued"
      /\ ~Interleave => s.lane # <<>> /\ Head(s.lane) = c
  BY <1>0, <1>1, RunnablePlace
<1>3. /\ ActOK(u) /\ LifeMoves(s, u)
      /\ u.mem = s.mem /\ u.etag = s.etag /\ u.pending = s.pending /\ u.lane = s.lane
      /\ u.flushing = s.flushing /\ u.flushWanted = s.flushWanted
      /\ u.saved = s.saved /\ u.reload = FALSE
  BY <1>2, ReloadFailedFacts
<1>5. /\ act' = [act EXCEPT ![a] = t] /\ call' = [call EXCEPT ![c] = d]
      /\ failures' = failures + 1 /\ failures < MaxFailures
      /\ UNCHANGED <<record, minted, wiped, dropped, stops>>
  BY <1>1 DEF StartReloadFails, SetAct, FailCall, PutCall, CanFail
<1> HIDE DEF u
<1>4. /\ ActOK(t) /\ SameCopy(u, t) /\ t.life = u.life
      /\ t.lane = IF Interleave THEN u.lane ELSE Tail(u.lane)
  BY <1>2, <1>3, PopFacts
<1>6. CallOK(d) /\ d.at = a /\ d.pc = "done" BY <1>1 DEF StorageInv, TypeOK, CallOK
<1> HIDE DEF t, d
<1>7. FreshCopy(t) BY <1>2, <1>3, <1>4, FreshSame DEF SameCopy
<1>8. failures' \in 0..MaxFailures
  BY <1>5, ConfigAssumption DEF StorageInv, TypeOK
<1>9. /\ LifeMoves(s, t) /\ t.lane = IF Interleave THEN s.lane ELSE Tail(s.lane)
      /\ t.mem = s.mem /\ t.pending = s.pending /\ t.flushing = s.flushing
      /\ t.flushWanted = s.flushWanted /\ t.saved = s.saved /\ ~t.reload
  BY <1>3, <1>4 DEF SameCopy, LifeMoves
<1> QED BY <1>1, <1>2, <1>4, <1>5, <1>6, <1>7, <1>8, <1>9, TurnEnds

\* Appending to a lane that is not empty keeps its head.
LEMMA HeadOfAppend ==
    ASSUME NEW S, NEW q \in Seq(S), NEW x \in S
    PROVE  /\ Append(q, x) \in Seq(S)
           /\ q # <<>> => Append(q, x) # <<>> /\ Head(Append(q, x)) = Head(q)
OBVIOUS

\* A new turn joins the lane behind the one that runs.
LEMMA EnqueueStep ==
    ASSUME StorageInv, NEW c \in Calls, NEW a \in Acts, NEW k \in Kinds, Enqueue(c, a, k)
    PROVE  StorageInv'
<1> DEFINE s == act[a]
           t == IF Interleave THEN s ELSE [s EXCEPT !.lane = Append(@, c)]
           d == [call[c] EXCEPT !.pc = "queued", !.kind = k, !.at = a]
<1>1. /\ act' = [act EXCEPT ![a] = t] /\ call' = [call EXCEPT ![c] = d]
      /\ call[c].pc = "new" /\ s.life = "live"
      /\ UNCHANGED <<record, minted, wiped, dropped, failures, stops>>
  BY DEF Enqueue, SetAct, PutCall
<1>2. ActOK(s) /\ FreshCopy(s) BY DEF StorageInv, TypeOK, FreshInv
<1>3. CallOK(d) /\ d.at = a /\ d.pc = "queued"
  BY ConfigAssumption DEF StorageInv, TypeOK, CallOK
<1>4. /\ ActOK(t) /\ t.mem = s.mem /\ t.etag = s.etag /\ t.pending = s.pending
      /\ t.life = s.life /\ t.flushing = s.flushing /\ t.saved = s.saved
      /\ t.flushWanted = s.flushWanted /\ t.reload = s.reload
      /\ s.lane # <<>> => t.lane # <<>> /\ Head(t.lane) = Head(s.lane)
  <2>1. CASE Interleave BY <1>2, <2>1
  <2>2. CASE ~Interleave
    <3>0. s.lane \in Seq(Calls \cup {Flush}) BY <1>2 DEF ActOK
    <3>1. /\ Append(s.lane, c) \in Seq(Calls \cup {Flush})
          /\ s.lane # <<>> => /\ Append(s.lane, c) # <<>>
                              /\ Head(Append(s.lane, c)) = Head(s.lane)
      BY <3>0, HeadOfAppend
    <3>2. t = [s EXCEPT !.lane = Append(s.lane, c)] BY <2>2
    <3> HIDE DEF t
    <3>3. ActOK(t) BY <1>2, <3>1, <3>2 DEF ActOK
    <3>4. /\ t.lane = Append(s.lane, c) /\ t.mem = s.mem /\ t.etag = s.etag
          /\ t.pending = s.pending /\ t.life = s.life /\ t.flushing = s.flushing
          /\ t.saved = s.saved /\ t.flushWanted = s.flushWanted /\ t.reload = s.reload
      BY <1>2, <3>2 DEF ActOK
    <3> QED BY <3>1, <3>3, <3>4
  <2> QED BY <2>1, <2>2
<1> HIDE DEF t, d
<1>5. /\ call' = [e \in Calls |-> call'[e]] /\ \A e \in Calls : CallOK(call'[e])
      /\ call'[c] = d /\ \A e \in Calls : e # c => call'[e] = call[e]
  BY <1>1, <1>3, CallUpdate DEF StorageInv
<1>6. act'[a] = t BY <1>1, <1>4, ActUpdate DEF StorageInv
<1>7. LanesAt(a, act[a]) BY LanesSplit DEF StorageInv
<1>8. s.pending.owner \in Calls \cup {Flush} BY <1>2 DEF ActOK, WriteOK
<1>9. LanesAt(a, act[a])'
  <2>1. \A e \in Calls : /\ Working(e)' => Working(e) /\ e # c
                         /\ call'[e].pc \in {"gate", "writing"} => e # c
                         /\ e # c => call'[e] = call[e]
    BY <1>1, <1>3, <1>5 DEF Working
  <2>2. Busy(t) => IF t.pending.owner = Flush
                   THEN t.flushing /\ t.saved < t.flushWanted
                   ELSE /\ call'[t.pending.owner].pc = "writing"
                        /\ call'[t.pending.owner].at = a
    BY <1>1, <1>4, <1>5, <1>7, <1>8 DEF LanesAt, Busy
  <2> QED BY <1>1, <1>4, <1>6, <1>7, <2>1, <2>2 DEF LanesAt, Busy
<1>10. FreshCopy(t) BY <1>2, <1>4, FreshSame
<1> QED BY SMTT(60), <1>1, <1>3, <1>4, <1>5, <1>9, <1>10, LocalStep DEF StorageInv, TypeOK

-----------------------------------------------------------------------------
(* The activation's own steps.                                             *)

\* A step that changes one activation and no call.
LEMMA ActOnly ==
    ASSUME StorageInv, NEW a \in Acts, NEW t, ActOK(t), FreshCopy(t), LanesAt(a, t),
           act' = [act EXCEPT ![a] = t],
           UNCHANGED <<record, minted, call, wiped>>, dropped' \subseteq Calls,
           failures' \in 0..MaxFailures, stops' \in 0..MaxStops
    PROVE  StorageInv'
<1>1. act'[a] = t BY ActUpdate DEF StorageInv
<1>2. LanesAt(a, act[a])' BY <1>1 DEF LanesAt, Over, Working, Busy
<1>3. /\ call' = [e \in Calls |-> call'[e]] /\ \A e \in Calls : CallOK(call'[e])
      /\ wiped' \subseteq Calls
  BY DEF StorageInv, TypeOK, CallOK
<1> QED BY <1>2, <1>3, LocalStep

\* An activation that runs no turn has no turn.
LEMMA NoTurns ==
    ASSUME StorageInv, NEW a \in Acts, act[a].life \notin {"live", "closing", "stopped"}
    PROVE  \A e \in Calls : call[e].at = a => Over(e)
BY DEF StorageInv, LaneInv, CallsPlaced

\* An activation not yet created.
LEMMA IdleOK == ActOK(Idle)
<1>1. WriteOK(NoWrite) BY DEF NoWrite, WriteOK
<1>2. <<>> \in Seq(Calls \cup {Flush}) OBVIOUS
<1> QED BY <1>1, <1>2 DEF ActOK, Idle

\* A new activation holds what it loaded.
LEMMA ActivateStep ==
    ASSUME StorageInv, NEW a \in Acts, Activate(a)
    PROVE  StorageInv'
<1> DEFINE t == Seeded
<1>1. /\ RecordOK(record) /\ Durable \subseteq Calls /\ record.etag <= minted
      /\ record.etag \in Nat
  BY DurableInCalls DEF StorageInv, TypeOK, FreshInv, RecordOK
<1>2. /\ t.life = "live" /\ t.etag = record.etag /\ t.mem = Durable
      /\ t.pending = NoWrite /\ t.lane = <<>> /\ t.flushing = FALSE /\ t.reload = FALSE
  BY DEF Seeded, Idle
<1>3. NoWrite.op = "none" /\ NoWrite.reply = "ok"
  BY DEF NoWrite
<1>4. ActOK(t) BY <1>1, IdleOK DEF ActOK, Seeded
<1> HIDE DEF t
<1>5. FreshCopy(t) BY <1>1, <1>2, <1>3 DEF FreshCopy, Busy
<1>6. \A e \in Calls : call[e].at = a => Over(e) BY NoTurns DEF Activate
<1>7. LanesAt(a, t) BY <1>2, <1>3, <1>6 DEF LanesAt, Busy, Over, Working
<1>8. /\ act' = [act EXCEPT ![a] = t]
      /\ UNCHANGED <<record, minted, call, wiped, dropped, failures, stops>>
  BY DEF Activate, SetAct, t
<1> QED BY <1>4, <1>5, <1>7, <1>8, ActOnly DEF StorageInv, TypeOK

\* Closing the lane leaves the turns in it.
LEMMA CloseStep ==
    ASSUME StorageInv, NEW a \in Acts, Deactivate(a) \/ ForceStop(a)
    PROVE  StorageInv'
<1>1. PICK life \in {"closing", "stopped"} : act' = [act EXCEPT ![a] = [act[a] EXCEPT !.life = life]]
  <2>1. CASE Deactivate(a) BY <2>1 DEF Deactivate, SetAct
  <2>2. CASE ForceStop(a) /\ act[a].life = "live" BY <2>2 DEF ForceStop, SetAct
  <2>3. CASE ForceStop(a) /\ act[a].life = "closing" BY <2>3 DEF ForceStop, SetAct
  <2> QED BY <2>1, <2>2, <2>3 DEF ForceStop
<1> DEFINE s == act[a]
           t == [s EXCEPT !.life = life]
<1>2. /\ s.life \in {"live", "closing"} /\ stops' \in 0..MaxStops
      /\ UNCHANGED <<record, minted, call, wiped, dropped, failures>>
  BY ConfigAssumption DEF Deactivate, ForceStop, StorageInv, TypeOK
<1>3. ActOK(s) /\ FreshCopy(s) BY DEF StorageInv, TypeOK, FreshInv
<1>4. /\ ActOK(t) /\ t.life = life /\ SameCopy(s, t) /\ t.lane = s.lane
  BY <1>3 DEF ActOK, SameCopy
<1> HIDE DEF t
<1>5. FreshCopy(t) BY <1>3, <1>4, FreshSame DEF SameCopy
<1>6. LanesAt(a, s) BY LanesSplit DEF StorageInv
<1>7. LanesAt(a, t) BY <1>2, <1>4, <1>6 DEF LanesAt, SameCopy, Busy
<1> QED BY <1>1, <1>2, <1>4, <1>5, <1>7, ActOnly DEF StorageInv, TypeOK, t

\* The debounce queues its flush behind what the lane holds.
LEMMA TimerFiresStep ==
    ASSUME StorageInv, NEW a \in Acts, TimerFires(a)
    PROVE  StorageInv'
<1> DEFINE s == act[a]
           q == IF s.life = "live" THEN Append(s.lane, Flush) ELSE s.lane
           t == [s EXCEPT !.armed = FALSE, !.lane = q]
<1>1. /\ act' = [act EXCEPT ![a] = t]
      /\ UNCHANGED <<record, minted, call, wiped, dropped, failures, stops>>
  BY DEF TimerFires, SetAct
<1>2. ActOK(s) /\ FreshCopy(s) /\ LanesAt(a, s)
  BY LanesSplit DEF StorageInv, TypeOK, FreshInv
<1>3. s.lane \in Seq(Calls \cup {Flush}) BY <1>2 DEF ActOK
<1>4. /\ q \in Seq(Calls \cup {Flush})
      /\ s.lane # <<>> => q # <<>> /\ Head(q) = Head(s.lane)
  BY <1>3, HeadOfAppend
<1> HIDE DEF q
<1>5. ActOK(t) /\ SameCopy(s, t) /\ t.lane = q /\ t.life = s.life
  BY <1>2, <1>4 DEF ActOK, SameCopy
<1> HIDE DEF t
<1>6. FreshCopy(t) BY <1>2, <1>5, FreshSame DEF SameCopy
<1>7. LanesAt(a, t) BY <1>2, <1>4, <1>5 DEF LanesAt, SameCopy, Busy
<1> QED BY <1>1, <1>5, <1>6, <1>7, ActOnly DEF StorageInv, TypeOK

\* While the lane is closing and empty, nothing is in flight.
LEMMA DrainedStep ==
    ASSUME StorageInv, NEW a \in Acts, Drained(a)
    PROVE  StorageInv'
<1> DEFINE s == act[a]
           r == [s EXCEPT !.armed = FALSE]
           u == ConsumeDirty(r)
<1>1. /\ s.life = "closing" /\ s.lane = <<>> /\ CallsAt(a) = {}
      /\ UNCHANGED <<record, minted, call, wiped, dropped, failures, stops>>
  BY DEF Drained
<1>2. ActOK(s) /\ FreshCopy(s) /\ LanesAt(a, s)
  BY LanesSplit DEF StorageInv, TypeOK, FreshInv
<1>3. ActOK(r) /\ SameCopy(s, r) /\ r.lane = s.lane /\ r.life = s.life
  BY <1>2 DEF ActOK, SameCopy
<1>4. \E t : /\ act' = [act EXCEPT ![a] = t]
             /\ \/ t = [u EXCEPT !.life = "flushing", !.flushing = TRUE, !.flushWanted = u.version]
                \/ t = [u EXCEPT !.life = "gone"]
  BY DEF Drained, SetAct
<1> HIDE DEF r
<1>5. ActOK(u) /\ SameCopy(r, u) /\ u.lane = r.lane /\ u.life = r.life
  BY <1>3, ConsumeDirtyFacts
<1> HIDE DEF u
<1>6. \A e \in Calls : call[e].at = a => Over(e) BY <1>1 DEF CallsAt
<1>7. ~Busy(s)
  <2>1. s.pending.owner \in Calls \cup {Flush} BY <1>2 DEF ActOK, WriteOK
  <2> QED BY <1>1, <1>2, <1>6, <2>1 DEF LanesAt, Over
<1>8. PICK t : /\ act' = [act EXCEPT ![a] = t]
               /\ \/ t = [u EXCEPT !.life = "flushing", !.flushing = TRUE, !.flushWanted = u.version]
                  \/ t = [u EXCEPT !.life = "gone"]
  BY <1>4
<1>9. ActOK(t)
  <2>1. CASE t = [u EXCEPT !.life = "gone"] BY <1>5, <2>1 DEF ActOK
  <2>2. CASE t = [u EXCEPT !.life = "flushing", !.flushing = TRUE, !.flushWanted = u.version]
    <3>1. ActOK(u) /\ u.version \in Nat BY <1>5 DEF ActOK
    <3> QED BY <2>2, <3>1 DEF ActOK
  <2> QED BY <1>8, <2>1, <2>2
<1>10. /\ t.mem = u.mem /\ t.etag = u.etag /\ t.pending = u.pending /\ t.reload = u.reload
       /\ t.life \in {"flushing", "gone"}
  <2>1. CASE t = [u EXCEPT !.life = "gone"] BY <1>5, <2>1 DEF ActOK
  <2>2. CASE t = [u EXCEPT !.life = "flushing", !.flushing = TRUE, !.flushWanted = u.version]
    BY <1>5, <2>2 DEF ActOK
  <2> QED BY <1>8, <2>1, <2>2
<1>11. t.mem = s.mem /\ t.etag = s.etag /\ t.pending = s.pending /\ t.reload = s.reload
  BY <1>3, <1>5, <1>10 DEF SameCopy
<1>12. FreshCopy(t) BY <1>2, <1>11, FreshSame
<1>13. LanesAt(a, t) BY <1>2, <1>6, <1>7, <1>10, <1>11 DEF LanesAt, Busy, Over, Working
<1> QED BY <1>1, <1>8, <1>9, <1>12, <1>13, ActOnly DEF StorageInv, TypeOK

\* A flush at the head of a serial lane runs alone.
LEMMA FlushAlone ==
    ASSUME StorageInv, NEW a \in Acts, ~Interleave, act[a].lane # <<>>,
           Head(act[a].lane) = Flush, act[a].life # "gone"
    PROVE  /\ \A e \in Calls : call[e].at = a => ~Working(e)
           /\ Busy(act[a]) => act[a].pending.owner = Flush /\ act[a].flushing
<1>1. LanesAt(a, act[a]) BY LanesSplit DEF StorageInv
<1>2. \A e \in Calls : call[e].at = a => ~Working(e)
  BY <1>1, ConfigAssumption DEF LanesAt
<1>3. act[a].pending.owner \in Calls \cup {Flush} BY DEF StorageInv, TypeOK, ActOK, WriteOK
<1> QED BY <1>1, <1>2, <1>3 DEF LanesAt, Working

\* The flush turn starts, from a reloaded copy if a conflict is parked.
LEMMA StartFlushStep ==
    ASSUME StorageInv, NEW a \in Acts, StartFlush(a)
    PROVE  StorageInv'
<1> DEFINE s == act[a]
           u == IF s.reload THEN Reload(s) ELSE s
           v == IF WriteBehind THEN u.version ELSE u.eventual
           t == [u EXCEPT !.flushing = TRUE, !.flushWanted = v]
<1>1. /\ s.life # "gone" /\ s.lane # <<>> /\ Head(s.lane) = Flush /\ ~s.flushing
      /\ act' = [act EXCEPT ![a] = t]
      /\ dropped' = IF s.reload THEN dropped \cup (s.mem \ Durable) ELSE dropped
      /\ UNCHANGED <<record, minted, call, wiped, failures, stops>>
  BY DEF StartFlush, SetAct
<1>2. ActOK(s) /\ FreshCopy(s) /\ LanesAt(a, s)
  BY LanesSplit DEF StorageInv, TypeOK, FreshInv
<1>3. RecordOK(record) /\ Durable \subseteq Calls /\ record.etag <= minted
  BY DurableInCalls DEF StorageInv, TypeOK, FreshInv
<1>4. s.reload => ~Interleave BY <1>2, ConfigAssumption DEF LanesAt
<1>5. ~Interleave => ~Busy(s) /\ \A e \in Calls : call[e].at = a => ~Working(e)
  BY <1>1, FlushAlone
<1>6. /\ ActOK(u) /\ FreshCopy(u) /\ u.lane = s.lane /\ u.life = s.life
      /\ u.pending = s.pending
      /\ u.reload => RetryQueued
      /\ ~Interleave \/ u.mem = s.mem
  <2>1. CASE s.reload
    <3>1. u = Reload(s) BY <2>1
    <3>2. /\ ActOK(u) /\ u.mem = Durable /\ u.etag = record.etag /\ u.pending = s.pending
          /\ u.lane = s.lane /\ u.life = s.life /\ u.reload = FALSE
      BY <1>2, <1>3, <3>1, ReloadFacts
    <3>3. FreshCopy(u) BY <1>2, <1>3, <1>4, <1>5, <2>1, <3>2 DEF FreshCopy, Busy
    <3> QED BY <1>4, <2>1, <3>2, <3>3
  <2>2. CASE ~s.reload BY <1>2, <2>2 DEF LanesAt
  <2> QED BY <2>1, <2>2
<1> HIDE DEF u
<1>7. v \in Nat BY <1>6 DEF ActOK
<1> HIDE DEF v
<1>8. ActOK(t) BY <1>6, <1>7 DEF ActOK
<1>9. /\ t.mem = u.mem /\ t.etag = u.etag /\ t.pending = u.pending /\ t.lane = u.lane
      /\ t.life = u.life /\ t.reload = u.reload
  BY <1>6 DEF ActOK
<1> HIDE DEF t
<1>10. FreshCopy(t) BY <1>6, <1>9, FreshSame
<1>11. s.pending.owner \in Calls \cup {Flush} BY <1>2 DEF ActOK, WriteOK
<1>12. LanesAt(a, t)
  <2>1. \A e \in Calls : call[e].kind = "append" /\ call[e].pc \in {"gate", "writing"}
                            /\ call[e].at = a => e \in t.mem \cup wiped
    BY <1>2, <1>5, <1>6, <1>9 DEF LanesAt, Working
  <2>2. Busy(t) /\ t.life # "gone" =>
           /\ t.pending.owner # Flush
           /\ call[t.pending.owner].pc = "writing" /\ call[t.pending.owner].at = a
    BY <1>1, <1>2, <1>6, <1>9 DEF LanesAt, Busy
  <2> QED BY <1>1, <1>2, <1>6, <1>9, <2>1, <2>2 DEF LanesAt
<1>13. dropped' \subseteq Calls BY <1>1, <1>2 DEF StorageInv, TypeOK, ActOK
<1> QED BY <1>1, <1>8, <1>10, <1>12, <1>13, ActOnly DEF StorageInv, TypeOK

\* A flush turn that leaves the lane, with no write of its own in flight.
LEMMA FlushLeaves ==
    ASSUME StorageInv, NEW a \in Acts, NEW t, ActOK(t), FreshCopy(t),
           act[a].lane # <<>>, Head(act[a].lane) = Flush,
           act[a].life \notin {"gone", "flushing"},
           act' = [act EXCEPT ![a] = t], LifeMoves(act[a], t),
           t.lane = Tail(act[a].lane), t.flushing = FALSE, t.mem = act[a].mem,
           t.pending.owner # Flush \/ ~Busy(t),
           Busy(t) => t.pending = act[a].pending,
           t.reload => RetryQueued,
           UNCHANGED <<record, minted, call, wiped, dropped, stops>>,
           failures' \in 0..MaxFailures
    PROVE  StorageInv'
<1>1. LanesAt(a, act[a]) BY LanesSplit DEF StorageInv
<1>2. ~Interleave => \A e \in Calls : call[e].at = a => ~Working(e) BY FlushAlone
<1>3. act[a].life \in {"live", "closing", "stopped"} => t.life \in {"live", "closing", "stopped"}
  BY DEF LifeMoves
<1>4. LanesAt(a, t) BY <1>1, <1>2, <1>3 DEF LanesAt, Busy
<1> QED BY <1>4, ActOnly DEF StorageInv, TypeOK

\* A flush turn whose reload fails.
LEMMA StartFlushReloadFailsStep ==
    ASSUME StorageInv, NEW a \in Acts, StartFlushReloadFails(a)
    PROVE  StorageInv'
<1> DEFINE s == act[a]
           u == ReloadFailed(s)
           t == FlushFailed(u)
<1>1. /\ s.life # "gone" /\ s.lane # <<>> /\ Head(s.lane) = Flush /\ ~s.flushing /\ s.reload
      /\ act' = [act EXCEPT ![a] = t] /\ failures' = failures + 1 /\ failures < MaxFailures
      /\ UNCHANGED <<record, minted, call, wiped, dropped, stops>>
  BY DEF StartFlushReloadFails, SetAct, CanFail
<1>2. ActOK(s) /\ FreshCopy(s) /\ LanesAt(a, s)
  BY LanesSplit DEF StorageInv, TypeOK, FreshInv
<1>3. /\ ActOK(u) /\ LifeMoves(s, u) /\ u.mem = s.mem /\ u.etag = s.etag
      /\ u.pending = s.pending /\ u.lane = s.lane
  BY <1>2, ReloadFailedFacts
<1> HIDE DEF u
<1>4. /\ ActOK(t) /\ LifeMoves(u, t) /\ t.mem = u.mem /\ t.etag = u.etag
      /\ t.pending = u.pending /\ t.lane = Tail(u.lane)
      /\ t.flushing = FALSE /\ t.reload = FALSE
  BY <1>1, <1>3, FlushFailedFacts
<1> HIDE DEF t
<1>5. FreshCopy(t) BY <1>2, <1>3, <1>4, FreshSame
<1>6. ~Interleave BY <1>1, <1>2, ConfigAssumption DEF LanesAt
<1>7. /\ ~Busy(s) /\ \A e \in Calls : call[e].at = a => ~Working(e)
  BY <1>1, <1>6, FlushAlone
<1>8. failures' \in 0..MaxFailures BY <1>1, ConfigAssumption DEF StorageInv, TypeOK
<1>9. LifeMoves(s, t) BY <1>3, <1>4 DEF LifeMoves
<1>10. LanesAt(a, t)
  BY <1>2, <1>3, <1>4, <1>6, <1>7, <1>9 DEF LanesAt, Busy, LifeMoves, Working
<1> QED BY <1>1, <1>4, <1>5, <1>8, <1>10, ActOnly DEF StorageInv, TypeOK

\* One iteration of the gate for a flush.
LEMMA FlushGateStep ==
    ASSUME StorageInv, NEW a \in Acts, FlushGate(a)
    PROVE  StorageInv'
<1> DEFINE s == act[a]
<1>1. /\ s.flushing /\ s.life # "gone"
      /\ ~Busy(s) \/ s.saved >= s.flushWanted
      /\ UNCHANGED <<record, minted, call, wiped, dropped, failures, stops>>
  BY DEF FlushGate
<1>2. ActOK(s) /\ FreshCopy(s) /\ LanesAt(a, s)
  BY LanesSplit DEF StorageInv, TypeOK, FreshInv
<1>3. s.saved \in Nat /\ s.flushWanted \in Nat BY <1>2 DEF ActOK
<1>4. failures' \in 0..MaxFailures BY <1>1 DEF StorageInv, TypeOK
<1>5. s.life # "flushing" => s.lane # <<>> /\ Head(s.lane) = Flush
  BY <1>1, <1>2 DEF LanesAt
<1>6. CASE /\ s.life = "flushing"
           /\ \/ act' = [act EXCEPT ![a] = [s EXCEPT !.life = "gone"]]
              \/ act' = [act EXCEPT ![a] = [s EXCEPT !.stateError = TRUE, !.life = "gone"]]
  <2>1. PICK t : /\ act' = [act EXCEPT ![a] = t]
                 /\ \/ t = [s EXCEPT !.life = "gone"]
                    \/ t = [s EXCEPT !.stateError = TRUE, !.life = "gone"]
    BY <1>6
  <2>2. /\ ActOK(t) /\ t.life = "gone" /\ t.mem = s.mem /\ t.etag = s.etag
        /\ t.pending = s.pending /\ t.reload = s.reload
    <3>1. CASE t = [s EXCEPT !.life = "gone"] BY <1>2, <3>1 DEF ActOK
    <3>2. CASE t = [s EXCEPT !.stateError = TRUE, !.life = "gone"] BY <1>2, <3>2 DEF ActOK
    <3> QED BY <2>1, <3>1, <3>2
  <2>3. \A e \in Calls : call[e].at = a => Over(e) BY <1>6, NoTurns
  <2>4. LanesAt(a, t) BY <1>2, <2>2, <2>3 DEF LanesAt, Over, Working
  <2>5. FreshCopy(t) BY <1>2, <2>2, FreshSame
  <2> QED BY <1>1, <2>1, <2>2, <2>4, <2>5, ActOnly DEF StorageInv, TypeOK
<1>7. CASE /\ s.life # "flushing" /\ s.saved >= s.flushWanted
           /\ act' = [act EXCEPT ![a] = [s EXCEPT !.flushing = FALSE, !.lane = Tail(@)]]
  <2> DEFINE t == [s EXCEPT !.flushing = FALSE, !.lane = Tail(@)]
  <2>0. Tail(s.lane) \in Seq(Calls \cup {Flush}) BY <1>2, <1>5, <1>7 DEF ActOK
  <2>1. /\ ActOK(t) /\ t.lane = Tail(s.lane) /\ t.flushing = FALSE /\ t.mem = s.mem
        /\ t.etag = s.etag /\ t.pending = s.pending /\ t.reload = s.reload /\ t.life = s.life
    BY <1>2, <2>0 DEF ActOK
  <2>2. act' = [act EXCEPT ![a] = t] BY <1>7
  <2> HIDE DEF t
  <2>3. FreshCopy(t) BY <1>2, <2>1, FreshSame
  <2>4. Busy(t) => t.pending.owner # Flush
    BY <1>1, <1>2, <1>3, <1>7, <2>1 DEF LanesAt, Busy
  <2>5. t.reload => RetryQueued BY <1>2, <2>1 DEF LanesAt
  <2> QED BY <1>1, <1>4, <1>5, <1>7, <2>1, <2>2, <2>3, <2>4, <2>5, FlushLeaves DEF LifeMoves
<1>8. CASE s.saved < s.flushWanted /\ act' = [act EXCEPT ![a] = SendSave(s, Flush)]
  <2> DEFINE w == [op |-> "save", owner |-> Flush, state |-> s.mem, expect |-> s.etag,
                   version |-> s.version, reply |-> "sent", etag |-> 0]
             t == [s EXCEPT !.pending = w]
  <2>1. act' = [act EXCEPT ![a] = t] BY <1>8 DEF SendSave
  <2>2. WriteOK(w) BY <1>2 DEF WriteOK, ActOK
  <2>3. /\ w.op = "save" /\ w.reply = "sent" /\ w.expect = s.etag /\ w.owner = Flush
        /\ w.state = s.mem
    OBVIOUS
  <2> HIDE DEF w
  <2>4. /\ ActOK(t) /\ FreshCopy(t) /\ t.pending = w /\ t.mem = s.mem
        /\ t.life = s.life /\ t.lane = s.lane /\ t.flushing = s.flushing
        /\ t.saved = s.saved /\ t.flushWanted = s.flushWanted /\ t.reload = s.reload
    BY <1>2, <2>2, <2>3, SendFacts
  <2> HIDE DEF t
  <2>5. LanesAt(a, t) BY <1>1, <1>2, <1>8, <2>3, <2>4 DEF LanesAt
  <2> QED BY <1>1, <2>1, <2>4, <2>5, ActOnly DEF StorageInv, TypeOK
<1>9. CASE /\ s.life # "flushing" /\ s.saved < s.flushWanted
           /\ act' = [act EXCEPT ![a] = FlushFailed(s)]
  <2> DEFINE t == FlushFailed(s)
  <2>1. /\ ActOK(t) /\ LifeMoves(s, t) /\ t.mem = s.mem /\ t.etag = s.etag
        /\ t.pending = s.pending /\ t.lane = Tail(s.lane)
        /\ t.flushing = FALSE /\ t.reload = FALSE
    BY <1>2, <1>5, <1>9, FlushFailedFacts
  <2>2. act' = [act EXCEPT ![a] = t] BY <1>9
  <2> HIDE DEF t
  <2>3. FreshCopy(t) BY <1>2, <2>1, FreshSame
  <2>4. ~Busy(t) BY <1>1, <1>3, <1>9, <2>1 DEF Busy
  <2> QED BY <1>1, <1>4, <1>5, <1>9, <2>1, <2>2, <2>3, <2>4, FlushLeaves
<1>10. \/ /\ s.life = "flushing"
          /\ \/ act' = [act EXCEPT ![a] = [s EXCEPT !.life = "gone"]]
             \/ act' = [act EXCEPT ![a] = [s EXCEPT !.stateError = TRUE, !.life = "gone"]]
       \/ /\ s.life # "flushing" /\ s.saved >= s.flushWanted
          /\ act' = [act EXCEPT ![a] = [s EXCEPT !.flushing = FALSE, !.lane = Tail(@)]]
       \/ s.saved < s.flushWanted /\ act' = [act EXCEPT ![a] = SendSave(s, Flush)]
       \/ /\ s.life # "flushing" /\ s.saved < s.flushWanted
          /\ act' = [act EXCEPT ![a] = FlushFailed(s)]
  <2>1. CASE s.saved >= s.flushWanted
    <3>0. ~(s.saved < s.flushWanted) BY <1>3, <2>1
    <3>1. CASE s.life = "flushing"
      <4>1. act' = [act EXCEPT ![a] = [s EXCEPT !.life = "gone"]]
        BY <2>1, <3>0, <3>1 DEF FlushGate, SetAct
      <4> QED BY <3>1, <4>1
    <3>2. CASE s.life # "flushing"
      <4>1. act' = [act EXCEPT ![a] = [s EXCEPT !.flushing = FALSE, !.lane = Tail(@)]]
        BY <2>1, <3>0, <3>2 DEF FlushGate, SetAct
      <4> QED BY <2>1, <3>2, <4>1
    <3> QED BY <3>1, <3>2
  <2>2. CASE ~(s.saved >= s.flushWanted)
    <3>0. s.saved < s.flushWanted BY <1>3, <2>2
    <3>1. CASE ~s.faulted BY <2>2, <3>0, <3>1 DEF FlushGate, SetAct
    <3>2. CASE s.faulted
      <4>1. CASE s.life = "flushing" BY <2>2, <3>0, <3>2, <4>1 DEF FlushGate, SetAct
      <4>2. CASE s.life # "flushing" BY <2>2, <3>0, <3>2, <4>2 DEF FlushGate, SetAct
      <4> QED BY <4>1, <4>2
    <3> QED BY <3>1, <3>2
  <2> QED BY <2>1, <2>2
<1> QED BY <1>6, <1>7, <1>8, <1>9, <1>10

\* A reply leaves a complete copy, once the wiped effects count the cleared ones.
LEMMA SettledFresh ==
    ASSUME StorageInv, NEW a \in Acts, Busy(act[a])
    PROVE  FreshCopy(Settled(act[a]))
<1> DEFINE s == act[a]
           t == Settled(s)
<1>1. ActOK(s) /\ FreshCopy(s) /\ (s.reload => RetryQueued)
  BY DEF StorageInv, TypeOK, FreshInv, LaneInv, ReloadOptedIn
<1>2. /\ ~Busy(t)
      /\ \/ t.mem = s.mem /\ t.etag = s.etag
         \/ /\ s.pending.reply = "ok" /\ s.pending.op \in {"save", "append"}
            /\ t.mem = s.mem /\ t.etag = s.pending.etag
         \/ t.mem = {} /\ t.etag = 0
  BY <1>1, SettledFacts DEF StorageInv, TypeOK, LaneInv, ReloadOptedIn
<1>3. t.pending = NoWrite
  BY <1>1, SettledFacts DEF StorageInv, TypeOK, LaneInv, ReloadOptedIn
<1>4. NoWrite.reply = "ok" BY DEF NoWrite
<1>5. (record.etag = 0 => Durable = {}) /\ minted \in Nat
  BY DEF StorageInv, FreshInv, TypeOK
<1>6. FreshCopy(s) BY DEF StorageInv, FreshInv
<1>7. 0 <= minted BY DEF StorageInv, TypeOK
<1> HIDE DEF t
<1>8. FreshCopy(t) BY <1>2, <1>3, <1>4, <1>5, <1>6, <1>7 DEF FreshCopy, Busy
<1> QED BY <1>8 DEF t

\* The reply to a flush.
LEMMA ReplyToFlushStep ==
    ASSUME StorageInv, NEW a \in Acts, ReplyToFlush(a)
    PROVE  StorageInv'
<1> DEFINE s == act[a]
           u == Settled(s)
<1>1. /\ Busy(s) /\ s.pending.reply # "sent" /\ s.pending.owner = Flush /\ s.life # "gone"
      /\ UNCHANGED <<record, minted, call, wiped, dropped, failures, stops>>
  BY DEF ReplyToFlush
<1>2. ActOK(s) /\ FreshCopy(s) /\ LanesAt(a, s)
  BY LanesSplit DEF StorageInv, TypeOK, FreshInv
<1>3. s.flushing BY <1>1, <1>2 DEF LanesAt
<1>4. s.life # "flushing" => s.lane # <<>> /\ Head(s.lane) = Flush
  BY <1>1, <1>2, <1>3 DEF LanesAt
<1>5. s.reload => RetryQueued BY <1>2 DEF LanesAt
<1>6. s.pending.op = "save"
  BY <1>1, <1>2, ConfigAssumption DEF FreshCopy
<1>7. /\ ActOK(u) /\ ~Busy(u) /\ u.life = s.life /\ u.lane = s.lane
      /\ u.flushing = s.flushing /\ u.mem = s.mem
      /\ u.reload => RetryQueued
  BY <1>2, <1>5, <1>6, SettledFacts
<1>8. FreshCopy(u) BY <1>1, SettledFresh
<1>9. \/ act' = [act EXCEPT ![a] = u]
      \/ s.life = "flushing" /\
           act' = [act EXCEPT ![a] = [u EXCEPT !.stateError = TRUE, !.life = "gone"]]
      \/ s.life # "flushing" /\ act' = [act EXCEPT ![a] = FlushFailed(u)]
  <2>1. CASE s.pending.reply = "ok" BY <2>1 DEF ReplyToFlush, SetAct
  <2>2. CASE s.pending.reply # "ok" /\ s.life = "flushing" BY <2>2 DEF ReplyToFlush, SetAct
  <2>3. CASE s.pending.reply # "ok" /\ s.life # "flushing" BY <2>3 DEF ReplyToFlush, SetAct
  <2> QED BY <2>1, <2>2, <2>3
<1> HIDE DEF u
<1>10. CASE act' = [act EXCEPT ![a] = u]
  <2>1. LanesAt(a, u) BY <1>2, <1>7 DEF LanesAt
  <2> QED BY <1>1, <1>7, <1>8, <1>10, <2>1, ActOnly DEF StorageInv, TypeOK
<1>11. CASE s.life = "flushing" /\
              act' = [act EXCEPT ![a] = [u EXCEPT !.stateError = TRUE, !.life = "gone"]]
  <2> DEFINE t == [u EXCEPT !.stateError = TRUE, !.life = "gone"]
  <2>1. ActOK(u) BY <1>7
  <2>2. /\ ActOK(t) /\ t.life = "gone" /\ t.mem = u.mem /\ t.etag = u.etag
        /\ t.pending = u.pending /\ t.reload = u.reload
    BY <2>1 DEF ActOK
  <2>3. act' = [act EXCEPT ![a] = t] BY <1>11
  <2> HIDE DEF t
  <2>4. FreshCopy(t) BY <1>8, <2>2, FreshSame
  <2>5. \A e \in Calls : call[e].at = a => Over(e) BY <1>11, NoTurns
  <2>6. LanesAt(a, t) BY <1>7, <2>2, <2>5 DEF LanesAt, Over, Working
  <2> QED BY <1>1, <2>2, <2>3, <2>4, <2>6, ActOnly DEF StorageInv, TypeOK
<1>12. CASE s.life # "flushing" /\ act' = [act EXCEPT ![a] = FlushFailed(u)]
  <2> DEFINE t == FlushFailed(u)
  <2>1. /\ ActOK(t) /\ LifeMoves(u, t) /\ t.mem = u.mem /\ t.etag = u.etag
        /\ t.pending = u.pending /\ t.lane = Tail(u.lane)
        /\ t.flushing = FALSE /\ t.reload = FALSE
    BY <1>4, <1>7, <1>12, FlushFailedFacts
  <2>2. act' = [act EXCEPT ![a] = t] BY <1>12
  <2> HIDE DEF t
  <2>3. FreshCopy(t) BY <1>8, <2>1, FreshSame
  <2>4. ~Busy(t) BY <1>7, <2>1 DEF Busy
  <2>5. LifeMoves(s, t) /\ t.lane = Tail(s.lane) /\ t.mem = s.mem
    BY <1>7, <2>1 DEF LifeMoves
  <2>6. failures' \in 0..MaxFailures BY <1>1 DEF StorageInv, TypeOK
  <2> QED BY <1>1, <1>4, <1>12, <2>1, <2>2, <2>3, <2>4, <2>5, <2>6, FlushLeaves
<1> QED BY <1>9, <1>10, <1>11, <1>12

\* The reply to a turn.
LEMMA ReplyToCallStep ==
    ASSUME StorageInv, NEW a \in Acts, ReplyToCall(a)
    PROVE  StorageInv'
<1> DEFINE s == act[a]
           w == s.pending
           c == w.owner
           t == Settled(s)
<1>1. /\ Busy(s) /\ w.reply # "sent" /\ c # Flush /\ s.life # "gone"
      /\ act' = [act EXCEPT ![a] = t]
      /\ wiped' = IF w.reply = "ok" /\ w.op = "clear" THEN wiped \cup s.mem ELSE wiped
      /\ UNCHANGED <<record, minted, dropped, failures, stops>>
  BY DEF ReplyToCall, SetAct
<1>2. ActOK(s) /\ FreshCopy(s) /\ LanesAt(a, s)
  BY LanesSplit DEF StorageInv, TypeOK, FreshInv
<1>3. c \in Calls BY <1>1, <1>2 DEF ActOK, WriteOK
<1>4. call[c].pc = "writing" /\ call[c].at = a BY <1>1, <1>2 DEF LanesAt
<1>5. s.reload => RetryQueued BY <1>2 DEF LanesAt
<1>6. /\ ActOK(t) /\ ~Busy(t) /\ t.life = s.life /\ t.lane = s.lane
      /\ t.flushing = s.flushing
      /\ t.reload => RetryQueued
      /\ t.mem = s.mem \/ (w.reply = "ok" /\ w.op = "clear" /\ t.mem = {})
  BY <1>2, <1>5, SettledFacts
<1>7. FreshCopy(t) BY <1>1, SettledFresh
<1>8. PICK d : /\ call' = [call EXCEPT ![c] = d]
               /\ CallOK(d) /\ d.at = a /\ d.kind = call[c].kind
               /\ d.pc \in {"gate", "ending"}
  <2>0. CallOK(call[c]) BY <1>3 DEF StorageInv, TypeOK
  <2>1. CASE w.reply = "ok"
    <3> DEFINE d == [call[c] EXCEPT !.pc = IF w.op = "save" THEN "gate" ELSE "ending"]
    <3>1. call' = [call EXCEPT ![c] = d] BY <2>1 DEF ReplyToCall, SetCall, PutCall
    <3>2. CallOK(d) /\ d.at = a /\ d.kind = call[c].kind /\ d.pc \in {"gate", "ending"}
      BY <1>4, <2>0 DEF CallOK
    <3> QED BY <3>1, <3>2
  <2>2. CASE w.reply = "conflict"
    <3> DEFINE d == [call[c] EXCEPT !.pc = "ending", !.err = "conflict"]
    <3>1. call' = [call EXCEPT ![c] = d] BY <2>2 DEF ReplyToCall, FailCall, PutCall
    <3>2. CallOK(d) /\ d.at = a /\ d.kind = call[c].kind /\ d.pc \in {"gate", "ending"}
      BY <1>4, <2>0 DEF CallOK
    <3> QED BY <3>1, <3>2
  <2>3. CASE w.reply = "error"
    <3> DEFINE d == [call[c] EXCEPT !.pc = "ending", !.err = "transient"]
    <3>1. call' = [call EXCEPT ![c] = d] BY <2>3 DEF ReplyToCall, FailCall, PutCall
    <3>2. CallOK(d) /\ d.at = a /\ d.kind = call[c].kind /\ d.pc \in {"gate", "ending"}
      BY <1>4, <2>0 DEF CallOK
    <3> QED BY <3>1, <3>2
  <2>4. w.reply \in {"ok", "conflict", "error"} BY <1>1, <1>2 DEF ActOK, WriteOK
  <2> QED BY <2>1, <2>2, <2>3, <2>4
<1> HIDE DEF t
<1>9. PICK x \in Calls : x = c BY <1>3
<1>10. /\ call' = [e \in Calls |-> call'[e]] /\ \A e \in Calls : CallOK(call'[e])
       /\ call'[x] = d /\ \A e \in Calls : e # x => call'[e] = call[e]
  BY <1>8, <1>9, CallUpdate DEF StorageInv
<1>11. act'[a] = t BY <1>1, <1>6, ActUpdate DEF StorageInv
<1>12. /\ wiped \subseteq wiped' /\ wiped' \subseteq Calls
       /\ s.mem \cup wiped \subseteq t.mem \cup wiped'
  BY <1>1, <1>2, <1>6 DEF StorageInv, TypeOK, ActOK
<1>13. LanesAt(a, act[a])'
  <2>1. \A e \in Calls : /\ ~Over(e)' => ~Over(e)
                         /\ Working(e)' => Working(e)
                         /\ call'[e].at = call[e].at /\ call'[e].kind = call[e].kind
                         /\ call'[e].pc \in {"gate", "writing"} =>
                                call[e].pc \in {"gate", "writing"}
    BY <1>4, <1>8, <1>9, <1>10 DEF Over, Working
  <2>2. \A e \in Calls : call'[e].kind = "append" /\ call'[e].pc \in {"gate", "writing"}
           /\ call'[e].at = a => e \in t.mem \cup wiped'
    BY <1>2, <1>12, <2>1 DEF LanesAt
  <2> QED BY <1>2, <1>6, <1>11, <2>1, <2>2 DEF LanesAt, Busy
<1>14. FreshCopy(t) /\ record' = record /\ minted' = minted BY <1>1, <1>7
<1>15. \A e \in Calls : call'[e] = call[e] \/ (call'[e].at = a /\
                               (call[e].pc = "new" \/ call[e].at = a))
  BY <1>4, <1>8, <1>9, <1>10
<1>16. /\ dropped' \subseteq Calls /\ failures' \in 0..MaxFailures
       /\ stops' \in 0..MaxStops
  BY <1>1 DEF StorageInv, TypeOK
<1>17. ActOK(t) /\ act' = [act EXCEPT ![a] = t] BY <1>1, <1>6
<1> QED BY <1>10, <1>12, <1>13, <1>14, <1>15, <1>16, <1>17, LocalStep

-----------------------------------------------------------------------------
(* The storage's steps, and crashes.                                       *)

\* Replacing the write in flight leaves the rest of the activation.
LEMMA PendingUpdate ==
    ASSUME NEW s, ActOK(s), NEW v, WriteOK(v)
    PROVE  LET t == [s EXCEPT !.pending = v] IN
           /\ ActOK(t) /\ t.pending = v /\ t.mem = s.mem /\ t.etag = s.etag
           /\ t.life = s.life /\ t.lane = s.lane /\ t.flushing = s.flushing
           /\ t.saved = s.saved /\ t.flushWanted = s.flushWanted /\ t.reload = s.reload
BY DEF ActOK

\* What an answer of the storage leaves of the write it answers.
LEMMA AnswerFacts ==
    ASSUME StorageInv, NEW a \in Acts, NEW r \in {"ok", "conflict", "error"},
           NEW e \in Nat, NEW t, act[a].pending.reply = "sent", t = Answered(act[a], r, e)
    PROVE  /\ ActOK(t) /\ Busy(t) /\ LanesAt(a, t)
           /\ t.mem = act[a].mem /\ t.etag = act[a].etag
           /\ t.pending.op = act[a].pending.op /\ t.pending.owner = act[a].pending.owner
           /\ t.pending.state = act[a].pending.state
           /\ t.pending.expect = act[a].pending.expect
           /\ t.pending.reply = r /\ t.pending.etag = e
<1> DEFINE s == act[a]
           w == s.pending
           v == [w EXCEPT !.reply = r, !.etag = e]
<1>1. ActOK(s) /\ FreshCopy(s) /\ LanesAt(a, s)
  BY LanesSplit DEF StorageInv, TypeOK, FreshInv
<1>2. WriteOK(w) /\ Busy(s) BY <1>1 DEF ActOK, FreshCopy
<1>3. /\ WriteOK(v) /\ v.op = w.op /\ v.owner = w.owner /\ v.state = w.state
      /\ v.expect = w.expect /\ v.reply = r /\ v.etag = e
  BY <1>2 DEF WriteOK
<1>4. t = [s EXCEPT !.pending = v] BY DEF Answered
<1> HIDE DEF v
<1>6. /\ ActOK(t) /\ t.pending = v /\ t.mem = s.mem /\ t.etag = s.etag /\ t.life = s.life
      /\ t.lane = s.lane /\ t.flushing = s.flushing /\ t.saved = s.saved
      /\ t.flushWanted = s.flushWanted /\ t.reload = s.reload
  BY <1>1, <1>3, <1>4, PendingUpdate
<1>7. LanesAt(a, t) BY <1>1, <1>3, <1>6 DEF LanesAt, Busy
<1> QED BY <1>2, <1>3, <1>6, <1>7 DEF Busy

\* A write refused, or failed before it landed, changes nothing in the store.
LEMMA NotAcceptedStep ==
    ASSUME StorageInv, NEW a \in Acts, Refuse(a) \/ Fail(a)
    PROVE  StorageInv'
<1>1. PICK r \in {"conflict", "error"} : act' = [act EXCEPT ![a] = Answered(act[a], r, 0)]
  BY DEF Refuse, Fail, Answer, SetAct
<1> DEFINE s == act[a]
           t == Answered(s, r, 0)
<1>2. /\ s.pending.reply = "sent" /\ failures' \in 0..MaxFailures
      /\ UNCHANGED <<record, minted, call, wiped, dropped, stops>>
  BY ConfigAssumption DEF Refuse, Fail, CanFail, StorageInv, TypeOK
<1>3. /\ ActOK(t) /\ Busy(t) /\ LanesAt(a, t) /\ t.mem = s.mem /\ t.etag = s.etag
      /\ t.pending.op = s.pending.op /\ t.pending.owner = s.pending.owner
      /\ t.pending.state = s.pending.state /\ t.pending.expect = s.pending.expect
      /\ t.pending.reply = r
  BY <1>2, AnswerFacts
<1>4. act' = [act EXCEPT ![a] = t] BY <1>1
<1> HIDE DEF t
<1>5. FreshCopy(s) BY DEF StorageInv, FreshInv
<1>6. FreshCopy(t) BY <1>2, <1>3, <1>5 DEF FreshCopy, Busy
<1> QED BY <1>2, <1>3, <1>4, <1>6, ActOnly DEF StorageInv, TypeOK

\* The entries of a log with one more entry.
LEMMA EntriesOfAppend ==
    ASSUME NEW q \in Seq(Calls), NEW x \in Calls
    PROVE  /\ Append(q, x) \in Seq(Calls)
           /\ Entries(Append(q, x)) = Entries(q) \cup {x}
<1>1. Append(q, x) \in Seq(Calls) /\ Len(Append(q, x)) = Len(q) + 1 /\ Len(q) \in Nat
  OBVIOUS
<1>2. \A i \in 1..Len(q) : Append(q, x)[i] = q[i] OBVIOUS
<1>3. Append(q, x)[Len(q) + 1] = x OBVIOUS
<1>4. 1..(Len(q) + 1) = (1..Len(q)) \cup {Len(q) + 1} BY <1>1
<1>5. Entries(Append(q, x)) = {Append(q, x)[i] : i \in (1..Len(q)) \cup {Len(q) + 1}}
  BY <1>1, <1>4 DEF Entries
<1> QED BY <1>1, <1>2, <1>3, <1>5 DEF Entries

\* What the store holds after it accepted a write, by its kind.
LEMMA StoredFacts ==
    ASSUME RecordOK(record), minted \in Nat, UniqueEtags, NEW w, WriteOK(w),
           w.op # "none", w.op # "save" => w.owner \in Calls
    PROVE  /\ RecordOK(Stored(w))
           /\ w.op = "clear" => Stored(w).etag = 0 /\ Fold(Stored(w)) = {}
           /\ w.op = "save" => Stored(w).etag = minted + 1 /\ Fold(Stored(w)) = w.state
           /\ w.op = "append" => /\ Stored(w).etag = minted + 1
                                 /\ Fold(Stored(w)) = Durable \cup {w.owner}
<1>1. NextEtag = minted + 1 BY DEF NextEtag
<1>2. Entries(<<>>) = {} /\ <<>> \in Seq(Calls) BY DEF Entries
<1>3. CASE w.op = "save"
  <2>1. Stored(w) = [etag |-> minted + 1, state |-> w.state, log |-> <<>>]
    BY <1>1, <1>3 DEF Stored
  <2> QED BY <1>2, <1>3, <2>1 DEF RecordOK, Fold, WriteOK
<1>4. CASE w.op = "append"
  <2>1. Stored(w) = [etag |-> minted + 1, state |-> record.state,
                     log |-> Append(record.log, w.owner)]
    BY <1>1, <1>4 DEF Stored
  <2>2. /\ Append(record.log, w.owner) \in Seq(Calls)
        /\ Entries(Append(record.log, w.owner)) = Entries(record.log) \cup {w.owner}
    BY <1>4, EntriesOfAppend DEF RecordOK
  <2> QED BY <1>4, <2>1, <2>2 DEF RecordOK, Fold, Durable
<1>5. CASE w.op = "clear"
  <2>1. Stored(w) = [etag |-> 0, state |-> {}, log |-> <<>>]
    BY <1>5 DEF Stored, NoRecord
  <2> QED BY <1>2, <1>5, <2>1 DEF RecordOK, Fold
<1> QED BY <1>3, <1>4, <1>5 DEF WriteOK

\* The store accepts a write: the new etag is newer than every copy's, and the
\* copy that wrote has all the new record holds.
LEMMA AcceptStep ==
    ASSUME StorageInv, UniqueEtags, NEW a \in Acts, Accept(a)
    PROVE  StorageInv'
<1> DEFINE s == act[a]
           w == s.pending
<1>1. /\ w.reply = "sent" /\ record.etag = w.expect /\ record' = Stored(w)
      /\ minted' = IF w.op = "clear" THEN minted ELSE minted + 1
      /\ wiped' = IF w.op = "clear" THEN wiped \cup Durable ELSE wiped
      /\ UNCHANGED <<call, dropped, stops>>
  BY DEF Accept, CasHolds
<1>2. ActOK(s) /\ FreshCopy(s) BY DEF StorageInv, TypeOK, FreshInv
<1>3. /\ RecordOK(record) /\ minted \in Nat /\ Durable \subseteq Calls
      /\ wiped \subseteq Calls /\ failures \in 0..MaxFailures
      /\ \A b \in Acts : FreshCopy(act[b]) /\ ActOK(act[b])
  BY DurableInCalls DEF StorageInv, TypeOK, FreshInv
<1>4. WriteOK(w) /\ Busy(s) /\ w.op # "none" BY <1>1, <1>2 DEF ActOK, FreshCopy, Busy
<1>5. w.op # "save" => w.owner \in Calls BY <1>2, <1>4 DEF FreshCopy
<1>6. PICK r \in {"ok", "error"}, e \in Nat :
          /\ act' = [act EXCEPT ![a] = Answered(s, r, e)]
          /\ r = "ok" => e = minted + 1
          /\ failures' \in 0..MaxFailures
  <2>1. NextEtag = minted + 1 BY DEF NextEtag
  <2>2. CASE Answer(a, "ok", NextEtag) /\ UNCHANGED failures
    <3>1. act' = [act EXCEPT ![a] = Answered(s, "ok", minted + 1)]
      BY <2>1, <2>2 DEF Answer, SetAct
    <3>2. minted + 1 \in Nat /\ failures' \in 0..MaxFailures BY <1>3, <2>2
    <3> QED BY <3>1, <3>2
  <2>3. CASE CanFail /\ Answer(a, "error", 0) /\ failures' = failures + 1
    <3>1. failures' \in 0..MaxFailures BY <1>3, <2>3, ConfigAssumption DEF CanFail
    <3> QED BY <2>3, <3>1 DEF Answer, SetAct
  <2> QED BY <2>2, <2>3 DEF Accept
<1> DEFINE t == Answered(s, r, e)
<1>7. /\ ActOK(t) /\ Busy(t) /\ LanesAt(a, t) /\ t.mem = s.mem /\ t.etag = s.etag
      /\ t.pending.op = w.op /\ t.pending.owner = w.owner
      /\ t.pending.state = w.state /\ t.pending.expect = w.expect
      /\ t.pending.reply = r /\ t.pending.etag = e
  BY <1>1, AnswerFacts
<1>8. /\ act' = [act EXCEPT ![a] = t]
  BY <1>6
<1> HIDE DEF t
<1>9. /\ act'[a] = t /\ \A b \in Acts : b # a => act'[b] = act[b]
      /\ act' = [b \in Acts |-> act'[b]] /\ \A b \in Acts : ActOK(act'[b])
  BY <1>7, <1>8, ActUpdate DEF StorageInv
<1>10. /\ RecordOK(record') /\ Durable' = Fold(Stored(w))
       /\ w.op = "clear" => record'.etag = 0 /\ Durable' = {}
       /\ w.op = "save" => record'.etag = minted + 1 /\ Durable' = w.state
       /\ w.op = "append" => record'.etag = minted + 1 /\ Durable' = Durable \cup {w.owner}
  <2>1. Durable' = Fold(Stored(w)) BY <1>1 DEF Durable, Fold, Entries
  <2>2. /\ RecordOK(Stored(w))
        /\ w.op = "clear" => Stored(w).etag = 0 /\ Fold(Stored(w)) = {}
        /\ w.op = "save" => Stored(w).etag = minted + 1 /\ Fold(Stored(w)) = w.state
        /\ w.op = "append" => /\ Stored(w).etag = minted + 1
                              /\ Fold(Stored(w)) = Durable \cup {w.owner}
    BY <1>3, <1>4, <1>5, StoredFacts
  <2> QED BY <1>1, <2>1, <2>2
<1>11. wiped \subseteq wiped' /\ wiped' \subseteq Calls BY <1>1, <1>3
<1>12. LaneInv'
  <2>1. LanesAt(a, act[a])'
    BY <1>1, <1>7, <1>9, <1>11 DEF LanesAt, Over, Working, Busy
  <2> QED BY <1>1, <1>7, <1>8, <1>11, <2>1, LaneUpdate
<1>13. TypeOK'
  <2>1. RecordOK(record)' /\ minted' \in Nat BY <1>1, <1>3, <1>10 DEF RecordOK
  <2>2. \A b \in Acts : ActOK(act[b])' BY <1>9 DEF ActOK, WriteOK
  <2>3. call' = [c \in Calls |-> call'[c]] /\ \A c \in Calls : CallOK(call[c])'
    BY <1>1 DEF StorageInv, TypeOK, CallOK
  <2> QED BY <1>1, <1>6, <1>9, <1>11, <2>1, <2>2, <2>3 DEF StorageInv, TypeOK
<1>14. FreshInv'
  <2>1. CASE w.op = "clear"
    <3>1. record'.etag = 0 /\ Durable' = {} /\ minted' = minted BY <1>1, <1>10, <2>1
    <3>2. FreshCopy(act[a])' BY <1>2, <1>7, <1>9, <1>11, <2>1, <3>1 DEF FreshCopy, Busy
    <3>3. \A b \in Acts : b # a => FreshCopy(act[b])'
      <4> SUFFICES ASSUME NEW b \in Acts, b # a PROVE FreshCopy(act[b])'
        OBVIOUS
      <4>1. FreshCopy(act[b]) /\ act'[b] = act[b] BY <1>3, <1>9
      <4> QED BY <1>11, <3>1, <4>1 DEF FreshCopy, Busy
    <3> QED BY <1>3, <3>1, <3>2, <3>3 DEF FreshInv
  <2>2. CASE w.op # "clear"
    <3>1. /\ record'.etag = minted + 1 /\ minted' = minted + 1 /\ wiped' = wiped
          /\ Durable' \subseteq s.mem \cup wiped
      BY <1>1, <1>2, <1>4, <1>10, <2>2 DEF FreshCopy, WriteOK
    <3>2. FreshCopy(act[a])'
      <4>1. s.etag \in Nat /\ s.etag <= minted BY <1>2 DEF ActOK, FreshCopy
      <4> QED BY <1>2, <1>3, <1>4, <1>6, <1>7, <1>9, <3>1, <4>1 DEF FreshCopy, Busy
    <3>3. \A b \in Acts : b # a => FreshCopy(act[b])'
      <4> SUFFICES ASSUME NEW b \in Acts, b # a PROVE FreshCopy(act[b])'
        OBVIOUS
      <4>1. FreshCopy(act[b]) /\ act'[b] = act[b] BY <1>3, <1>9
      <4>2. /\ act[b].etag \in Nat /\ act[b].pending.etag \in Nat
            /\ act[b].pending.expect \in Nat
        BY <1>3 DEF ActOK, WriteOK
      <4> QED BY <1>3, <3>1, <4>1, <4>2 DEF FreshCopy, Busy
    <3> QED BY <1>3, <3>1, <3>2, <3>3 DEF FreshInv
  <2> QED BY <2>1, <2>2
<1> QED BY <1>12, <1>13, <1>14 DEF StorageInv

\* A crash ends the activation and every turn on it.
LEMMA CrashStep ==
    ASSUME StorageInv, NEW a \in Acts, Crash(a)
    PROVE  StorageInv'
<1> DEFINE s == act[a]
           t == [s EXCEPT !.life = "gone"]
<1>1. /\ act' = [act EXCEPT ![a] = t]
      /\ call' = [c \in Calls |-> IF c \in CallsAt(a)
                                  THEN [call[c] EXCEPT !.pc = "done", !.err = "lost"]
                                  ELSE call[c]]
      /\ UNCHANGED <<record, minted, wiped, dropped, failures>>
  BY DEF Crash, SetAct
<1>2. stops' \in 0..MaxStops
  <2>1. stops < MaxStops /\ stops' = stops + 1 BY DEF Crash
  <2>2. stops \in 0..MaxStops BY DEF StorageInv, TypeOK
  <2> QED BY <2>1, <2>2, ConfigAssumption
<1>3. ActOK(s) /\ FreshCopy(s) BY DEF StorageInv, TypeOK, FreshInv
<1>4. /\ ActOK(t) /\ t.life = "gone" /\ t.mem = s.mem /\ t.etag = s.etag
      /\ t.pending = s.pending /\ t.reload = s.reload
  BY <1>3 DEF ActOK
<1> HIDE DEF t
<1>5. \A e \in Calls : /\ CallOK(call'[e])
                       /\ \/ call'[e] = call[e] /\ (call[e].at = a => Over(e))
                          \/ call[e].at = a /\ call'[e].at = a /\ call'[e].pc = "done"
  <2> TAKE e \in Calls
  <2>0. CallOK(call[e]) BY DEF StorageInv, TypeOK
  <2>1. CASE e \in CallsAt(a)
    <3>1. call'[e] = [call[e] EXCEPT !.pc = "done", !.err = "lost"] BY <1>1, <2>1
    <3>2. call[e].at = a BY <2>1 DEF CallsAt
    <3> QED BY <2>0, <3>1, <3>2 DEF CallOK
  <2>2. CASE e \notin CallsAt(a)
    <3>1. call'[e] = call[e] BY <1>1, <2>2
    <3> QED BY <2>0, <2>2, <3>1 DEF CallsAt
  <2> QED BY <2>1, <2>2
<1>6. act'[a] = t BY <1>1, <1>4, ActUpdate DEF StorageInv
<1>7. s.reload => RetryQueued BY DEF StorageInv, LaneInv, ReloadOptedIn
<1>8. LanesAt(a, act[a])'
  <2>1. \A e \in Calls : call'[e].at = a => ~Working(e)' /\ Over(e)'
                            /\ call'[e].pc \notin {"gate", "writing"}
    BY <1>5 DEF Over, Working
  <2> QED BY <1>4, <1>6, <1>7, <2>1 DEF LanesAt
<1>9. FreshCopy(t) BY <1>3, <1>4, FreshSame
<1>10. call' = [e \in Calls |-> call'[e]] BY <1>1
<1> QED BY <1>1, <1>2, <1>4, <1>5, <1>8, <1>9, <1>10, LocalStep DEF StorageInv, TypeOK

-----------------------------------------------------------------------------
(* Theorems.                                                               *)

\* Before anything happened the record is blank and no copy exists.
LEMMA InitInv == Init => StorageInv
<1> SUFFICES ASSUME Init PROVE StorageInv OBVIOUS
<1>1. /\ record = NoRecord /\ minted = 0 /\ act = [a \in Acts |-> Idle]
      /\ call = [c \in Calls |-> NoCall] /\ wiped = {} /\ dropped = {}
      /\ failures = 0 /\ stops = 0
  BY DEF Init
<1>2. Durable = {} /\ RecordOK(record) /\ record.etag = 0
  <2>1. Entries(<<>>) = {} /\ <<>> \in Seq(Calls) BY DEF Entries
  <2> QED BY <1>1, <2>1 DEF Durable, Fold, NoRecord, RecordOK
<1>3. \A a \in Acts : act[a] = Idle BY <1>1
<1>4. \A c \in Calls : call[c].pc = "new" /\ CallOK(call[c])
  BY <1>1 DEF NoCall, CallOK
<1>5. TypeOK BY <1>1, <1>2, <1>3, <1>4, IdleOK, ConfigAssumption DEF TypeOK
<1>6. /\ Idle.etag = 0 /\ Idle.pending.op = "none" /\ Idle.pending.reply = "ok"
      /\ Idle.flushing = FALSE /\ Idle.reload = FALSE
  BY DEF Idle, NoWrite
<1>7. LaneInv
  BY <1>3, <1>4, <1>6 DEF LaneInv, CallsPlaced, HeadWorks, HeadFlushes, WriterWaits,
     AppendFolds, ReloadOptedIn, Over, Working, Busy
<1>8. FreshInv
  BY <1>1, <1>2, <1>3, <1>6 DEF FreshInv, FreshCopy, Busy
<1> QED BY <1>5, <1>7, <1>8 DEF StorageInv

\* Every step of the system keeps the invariant.
LEMMA NextInv == UniqueEtags /\ StorageInv /\ [Next]_vars => StorageInv'
<1> SUFFICES ASSUME UniqueEtags, StorageInv, [Next]_vars PROVE StorageInv' OBVIOUS
<1>1. ASSUME NEW c \in Calls, CallStep(c) PROVE StorageInv'
  BY <1>1, StartTurnStep, StartAfterReloadStep, MutateStep, EndTurnStep,
     SaveImmediateStep, SaveEventualStep, AppendEntryStep, ClearStateStep, GateStep
     DEF CallStep
<1>2. ASSUME NEW a \in Acts, ActStep(a) PROVE StorageInv'
  BY <1>2, AcceptStep, NotAcceptedStep, ReplyToCallStep, ReplyToFlushStep,
     TimerFiresStep, StartFlushStep, FlushGateStep, DrainedStep DEF ActStep
<1>3. ASSUME Environment PROVE StorageInv'
  BY <1>3, ActivateStep, CloseStep, CrashStep, NotAcceptedStep,
     StartFlushReloadFailsStep, EnqueueStep, StartReloadFailsStep DEF Environment
<1>4. CASE UNCHANGED vars
  <2> USE <1>4 DEF vars
  <2>1. TypeOK' BY SMTT(60) DEF StorageInv, TypeOK, RecordOK, ActOK, WriteOK, CallOK
  <2>2. LaneInv'
    BY DEF StorageInv, LaneInv, CallsPlaced, HeadWorks, HeadFlushes, WriterWaits,
       AppendFolds, ReloadOptedIn, Over, Working, Busy
  <2>3. Durable' = Durable BY DEF Durable
  <2>4. FreshInv' BY <2>3 DEF StorageInv, FreshInv, FreshCopy, Busy
  <2> QED BY <2>1, <2>2, <2>4 DEF StorageInv
<1> QED BY <1>1, <1>2, <1>3, <1>4 DEF Next, Progress

\* StorageInv holds in every reachable state, for a storage whose etags are
\* never minted twice: single-flight writes from copies that are complete
\* whenever their etag is current.
THEOREM StorageInvariant ==
    ASSUME UniqueEtags
    PROVE  Spec => []StorageInv
BY InitInv, NextInv, PTL DEF Spec

\* Every variable keeps its type.
THEOREM TypeCorrect ==
    ASSUME UniqueEtags
    PROVE  Spec => []TypeOK
<1>1. StorageInv => TypeOK BY DEF StorageInv
<1> QED BY <1>1, StorageInvariant, PTL

\* Only Accept writes the record.
LEMMA OnlyAcceptWrites ==
    ASSUME Next, record' # record
    PROVE  \E a \in Acts : Accept(a)
BY DEF Next, Progress, Environment, CallStep, ActStep, StartTurn, StartAfterReload, Mutate,
   EndTurn, SaveImmediate, SaveEventual, AppendEntry, ClearState, Gate, Refuse, ReplyToCall,
   ReplyToFlush, TimerFires, StartFlush, FlushGate, Drained, Activate, Deactivate, ForceStop,
   Crash, Fail, StartFlushReloadFails, Enqueue, StartReloadFails

\* NoLostUpdate: however many activations of the actor race, whatever fails and
\* whoever stops, no write removes a durable effect but clearState.
THEOREM NoUpdateLost ==
    ASSUME UniqueEtags
    PROVE  Spec => NoLostUpdate
<1>1. StorageInv /\ [Next]_vars => [Durable \subseteq Durable' \cup wiped']_vars
  <2> SUFFICES ASSUME StorageInv, Next PROVE Durable \subseteq Durable' \cup wiped'
    OBVIOUS
  <2>1. CASE record' = record BY <2>1 DEF Durable
  <2>2. CASE record' # record
    <3>1. PICK a \in Acts : Accept(a) BY <2>2, OnlyAcceptWrites
    <3> DEFINE w == act[a].pending
    <3>2. /\ w.reply = "sent" /\ record.etag = w.expect /\ record' = Stored(w)
          /\ wiped' = IF w.op = "clear" THEN wiped \cup Durable ELSE wiped
      BY <3>1 DEF Accept, CasHolds
    <3>3. /\ ActOK(act[a]) /\ FreshCopy(act[a]) /\ RecordOK(record) /\ minted \in Nat
      BY DEF StorageInv, TypeOK, FreshInv
    <3>4. WriteOK(w) /\ Busy(act[a]) BY <3>2, <3>3 DEF ActOK, FreshCopy
    <3>5. w.op # "save" => w.owner \in Calls BY <3>3, <3>4 DEF FreshCopy
    <3>6. Durable' = Fold(Stored(w)) BY <3>2 DEF Durable, Fold, Entries
    <3>7. CASE w.op = "clear" BY <3>2, <3>7
    <3>8. CASE w.op = "append"
      BY <3>3, <3>4, <3>5, <3>6, <3>8, StoredFacts DEF Busy
    <3>9. CASE w.op = "save"
      <4>1. Durable' = w.state BY <3>3, <3>4, <3>5, <3>6, <3>9, StoredFacts DEF Busy
      <4>2. Durable \subseteq w.state \cup wiped BY <3>2, <3>3, <3>4, <3>9 DEF FreshCopy
      <4> QED BY <3>2, <3>9, <4>1, <4>2
    <3> QED BY <3>4, <3>7, <3>8, <3>9 DEF WriteOK, Busy
  <2> QED BY <2>1, <2>2
<1> QED BY <1>1, StorageInvariant, PTL DEF Spec, NoLostUpdate

=============================================================================
