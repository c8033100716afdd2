-------------------------- MODULE ActivationPromises --------------------------
(***************************************************************************)
(* What an actor is told about its state is true.  Acknowledged turns,     *)
(* saved versions and appended entries are kept, once (KeptOnce); a        *)
(* faulted activation writes nothing; what a turn that lost the compare-   *)
(* and-swap wrote is discarded; the persistence path implements            *)
(* DurableState; and no flush of an explicit actor re-creates a cleared    *)
(* record blank.  For every number of activations, turns, failures and     *)
(* stops, for a storage that never mints an etag twice.                    *)
(*                                                                         *)
(* The actions are first sorted by what they do to the copies, the         *)
(* versions and the writes (Step); the invariants are then proved kind by  *)
(* kind, not action by action.                                             *)
(***************************************************************************)
EXTENDS ActivationProofs

-----------------------------------------------------------------------------
(* Where turns stand.                                                      *)

\* The activation lost a race and has not loaded the winner.
Losing(s) == s.faulted \/ s.reload

\* The fields of a turn that its position settles.
CallFits(c) ==
    /\ call[c].pc = "new" => call[c].wanted = 0 /\ call[c].kind = "none"
    /\ call[c].pc # "new" =>
          /\ call[c].at \in Acts /\ act[call[c].at].life # "none"
          /\ call[c].kind \in AllKinds
    /\ call[c].pc \in {"new", "queued", "running", "mutated"} =>
          call[c].wanted = 0 /\ call[c].err = "none"
    /\ call[c].kind = "clear" => call[c].wanted = 0
    /\ call[c].pc = "mutated" => call[c].kind \in {"save", "eventual"}
    /\ call[c].pc = "gate" => call[c].kind \in {"save", "append"}
    /\ call[c].pc = "writing" => call[c].kind \in {"save", "append", "clear"}
    /\ call[c].pc \in {"gate", "writing"} =>
          /\ call[c].kind # "clear" => call[c].wanted > 0
          /\ call[c].err = "none"

\* The write in flight stands for the turn that waits for it.
WriteFits(a, s) ==
    Busy(s) =>
        /\ s.pending.owner # Flush =>
              /\ call[s.pending.owner].pc # "new"
              /\ call[s.pending.owner].at = a
              /\ s.pending.op # "clear" /\ s.life # "gone" =>
                    s.saved < call[s.pending.owner].wanted
        /\ s.pending.op = "append" =>
              /\ call[s.pending.owner].kind = "append"
              /\ s.pending.version = call[s.pending.owner].wanted
              /\ s.pending.expect # 0
        /\ s.pending.op = "clear" =>
              call[s.pending.owner].kind = "clear" /\ s.pending.version = 0

\* A parked conflict and a fault exclude each other; behind a parked conflict
\* turns only end, and behind either at most a clear is in flight.
ParkedFits(a, s) ==
    /\ ~(s.faulted /\ s.reload)
    /\ s.reload /\ s.life # "gone" =>
          /\ ~s.flushing
          /\ \A c \in Calls : Working(c) /\ call[c].at = a => call[c].pc = "ending"
    /\ Losing(s) /\ Busy(s) => s.pending.op = "clear"
    /\ s.life = "none" => s = Idle

TurnInv ==
    /\ \A c \in Calls : CallFits(c)
    /\ \A a \in Acts : WriteFits(a, act[a]) /\ ParkedFits(a, act[a])

-----------------------------------------------------------------------------
(* The kinds of steps.                                                     *)

Alone(a) == \A b \in Acts : b # a => act'[b] = act[b]
Only(c) == \A e \in Calls : e # c => call'[e] = call[e]

\* c goes on to pc, and keeps the rest.
GoesOn(c, pc) ==
    /\ call'[c].pc = pc /\ call'[c].at = call[c].at /\ call'[c].kind = call[c].kind
    /\ call'[c].wanted = call[c].wanted /\ call'[c].err = call[c].err

\* c ends, or its turn is about to, with an error that is no conflict.
GivesUp(c) ==
    /\ call'[c].pc \in {"ending", "done"} /\ call'[c].err \notin {"none", "conflict"}
    /\ call'[c].at = call[c].at /\ call'[c].kind = call[c].kind
    /\ call'[c].wanted = call[c].wanted

\* Steps of turns that write nothing.
CallQuiet(c) ==
    \/ call'[c] = call[c]
    \/ /\ call[c].pc = "new" /\ call'[c].pc = "queued"
       /\ call'[c].at \in Acts /\ act[call'[c].at].life = "live"
       /\ call'[c].kind \in AllKinds
       /\ call'[c].wanted = call[c].wanted /\ call'[c].err = call[c].err
    \/ call[c].pc = "queued" /\ GoesOn(c, "running") /\ ~act'[call[c].at].reload
    \/ call[c].pc = "ending" /\ GoesOn(c, "done")
    \/ /\ call[c].pc = "gate" /\ GoesOn(c, "ending")
       /\ call[c].wanted <= act[call[c].at].saved
    \/ call[c].pc # "new" /\ GivesUp(c)

\* The activation keeps its etag, what it saved, and whether it lost.
Steady(s, t) ==
    /\ s.life # "none" /\ t.life # "none"
    /\ s.life = "gone" => t.life = "gone"
    /\ t.etag = s.etag /\ t.saved = s.saved
    /\ Losing(t) <=> Losing(s)
    /\ ~(t.faulted /\ t.reload)
    /\ t.reload /\ t.life # "gone" => s.reload /\ s.life # "gone" /\ ~t.flushing

QuietStep(a) ==
    /\ Alone(a) /\ Steady(act[a], act'[a])
    /\ act'[a].mem = act[a].mem /\ act'[a].pending = act[a].pending
    /\ act[a].version <= act'[a].version
    /\ \A c \in Calls : CallQuiet(c)
    /\ UNCHANGED <<record, minted, wiped, dropped>>

\* An activation loads the record: at its start, or after a conflict.
LoadStep(a) ==
    /\ Alone(a)
    /\ act[a].life = "none" \/ (act[a].reload /\ act[a].life # "gone")
    /\ act'[a].life \notin {"none", "gone"}
    /\ act'[a].etag = record.etag /\ act'[a].mem = Durable
    /\ ~Busy(act[a]) /\ act'[a].pending = act[a].pending
    /\ ~Losing(act'[a])
    /\ act'[a].saved = act'[a].version /\ act[a].version <= act'[a].version
    /\ \A c \in Calls : CallQuiet(c)
    /\ dropped \subseteq dropped' /\ act[a].mem \subseteq Durable \cup dropped'
    /\ UNCHANGED <<record, minted, wiped>>

\* A turn changes the state.
TouchStep(a, c) ==
    /\ Alone(a) /\ Steady(act[a], act'[a]) /\ Only(c)
    /\ call[c].at = a /\ call[c].pc = "running"
    /\ \/ call[c].kind = "write" /\ GoesOn(c, "ending")
       \/ call[c].kind \in {"save", "eventual"} /\ GoesOn(c, "mutated")
    /\ act'[a].mem = act[a].mem \cup {c} /\ act'[a].pending = act[a].pending
    /\ act'[a].version = act[a].version
    /\ UNCHANGED <<record, minted, wiped, dropped>>

\* A turn asks for a version to be saved.
VersionStep(a, c) ==
    /\ Alone(a) /\ Steady(act[a], act'[a]) /\ Only(c)
    /\ call[c].at = a
    /\ call'[c].at = a /\ call'[c].kind = call[c].kind /\ call'[c].err = call[c].err
    /\ call'[c].wanted = act'[a].version /\ act[a].version < act'[a].version
    /\ \/ /\ call[c].pc = "mutated" /\ call[c].kind = "eventual"
          /\ call'[c].pc = "ending" /\ act'[a].mem = act[a].mem
       \/ /\ call[c].pc = "mutated" /\ call[c].kind = "save"
          /\ call'[c].pc = "gate" /\ act'[a].mem = act[a].mem
       \/ /\ call[c].pc = "running" /\ call[c].kind = "append"
          /\ call'[c].pc = "gate" /\ act'[a].mem = act[a].mem \cup {c}
    /\ act'[a].pending = act[a].pending
    /\ UNCHANGED <<record, minted, wiped, dropped>>

\* A write is handed to the storage.
SendStep(a) ==
    LET s == act[a]
        w == act'[a].pending
    IN  /\ Alone(a) /\ Steady(s, act'[a])
        /\ s.life # "gone" /\ ~Busy(s)
        /\ act'[a].mem = s.mem /\ act'[a].version = s.version
        /\ w.reply = "sent" /\ w.expect = s.etag
        /\ w.op # "save" => w.state = {}
        /\ \/ /\ w.op = "save" /\ w.owner = Flush /\ UNCHANGED call
              /\ w.state = s.mem /\ w.version = s.version /\ ~Losing(s)
           \/ /\ w.op \in {"save", "append"} /\ w.owner \in Calls /\ Only(w.owner)
              /\ call[w.owner].at = a /\ call[w.owner].pc = "gate"
              /\ GoesOn(w.owner, "writing")
              /\ w.op = "save" => w.state = s.mem /\ w.version = s.version
              /\ w.op = "append" => /\ w.version = call[w.owner].wanted
                                    /\ call[w.owner].kind = "append" /\ s.etag # 0
              /\ s.saved < call[w.owner].wanted /\ ~Losing(s)
           \/ /\ w.op = "clear" /\ w.owner \in Calls /\ Only(w.owner)
              /\ call[w.owner].at = a /\ call[w.owner].pc = "running"
              /\ call[w.owner].kind = "clear" /\ GoesOn(w.owner, "writing")
              /\ w.version = 0
        /\ UNCHANGED <<record, minted, wiped, dropped>>

\* The storage answers the write of a with one of the replies R.
Answers(a, R) ==
    LET s == act[a]
        t == act'[a]
    IN  /\ Alone(a) /\ Steady(s, t)
        /\ t.mem = s.mem /\ t.version = s.version /\ s.pending.reply = "sent" /\ Busy(s)
        /\ t.pending.reply \in R
        /\ t.pending.op = s.pending.op /\ t.pending.owner = s.pending.owner
        /\ t.pending.state = s.pending.state /\ t.pending.expect = s.pending.expect
        /\ t.pending.version = s.pending.version
        /\ UNCHANGED <<call, dropped>>

RefuseStep(a) ==
    /\ Answers(a, {"conflict", "error"})
    /\ act'[a].pending.reply = "conflict" => record.etag # act[a].pending.expect
    /\ UNCHANGED <<record, minted, wiped>>

LandStep(a) ==
    LET w == act[a].pending
    IN  /\ Answers(a, {"ok", "error"})
        /\ record.etag = w.expect
        /\ record' = Stored(w)
        /\ minted' = IF w.op = "clear" THEN minted ELSE minted + 1
        /\ wiped' = IF w.op = "clear" THEN wiped \cup Durable ELSE wiped

\* The reply arrives.
ReplyStep(a) ==
    LET s       == act[a]
        t       == act'[a]
        w       == s.pending
        saved   == w.reply = "ok" /\ w.op # "clear"
        cleared == w.reply = "ok" /\ w.op = "clear"
        lost    == w.reply = "conflict" /\ w.op # "clear"
    IN  /\ Alone(a)
        /\ s.life \notin {"none", "gone"} /\ t.life # "none"
        /\ Busy(s) /\ w.reply # "sent" /\ t.pending = NoWrite
        /\ t.version = s.version
        /\ t.mem = IF cleared THEN {} ELSE s.mem
        /\ wiped' = IF cleared THEN wiped \cup s.mem ELSE wiped
        /\ saved => t.etag = w.etag
        /\ cleared => t.etag = 0
        /\ ~saved /\ ~cleared => t.etag = s.etag
        /\ saved /\ w.op = "save" => t.saved = w.version
        /\ saved /\ w.op = "append" =>
              t.saved = IF s.saved = w.version - 1 THEN w.version ELSE s.saved
        /\ ~saved => t.saved = s.saved
        /\ Losing(t) <=> Losing(s) \/ lost
        /\ ~(t.faulted /\ t.reload)
        /\ t.reload /\ t.life # "gone" =>
              /\ ~t.flushing
              /\ s.reload \/ (w.owner # Flush /\ ~Interleave)
        /\ \/ w.owner = Flush /\ w.op = "save" /\ UNCHANGED call
           \/ /\ w.owner \in Calls /\ Only(w.owner)
              /\ call[w.owner].at = a /\ call[w.owner].pc = "writing"
              /\ \/ w.reply = "ok" /\ w.op = "save" /\ GoesOn(w.owner, "gate")
                 \/ w.reply = "ok" /\ w.op # "save" /\ GoesOn(w.owner, "ending")
                 \/ /\ w.reply = "conflict"
                    /\ call'[w.owner].pc = "ending" /\ call'[w.owner].err = "conflict"
                    /\ call'[w.owner].at = a /\ call'[w.owner].kind = call[w.owner].kind
                    /\ call'[w.owner].wanted = call[w.owner].wanted
                 \/ w.reply = "error" /\ GivesUp(w.owner) /\ call'[w.owner].pc = "ending"
        /\ UNCHANGED <<record, minted, dropped>>

Step ==
    \E a \in Acts :
        \/ QuietStep(a) \/ LoadStep(a) \/ SendStep(a) \/ RefuseStep(a) \/ LandStep(a)
        \/ ReplyStep(a)
        \/ \E c \in Calls : TouchStep(a, c) \/ VersionStep(a, c)

Steps == [][Step]_vars

-----------------------------------------------------------------------------
(* The invariants.                                                         *)

\* FaultInv: a copy that lost is stale, or has nothing a clear could delete.
StaleEtag(e) == e # record.etag \/ e = 0

FaultInv ==
    /\ record.etag = 0 => record = NoRecord
    /\ \A a \in Acts :
          /\ Losing(act[a]) => StaleEtag(act[a].etag)
          /\ Busy(act[a]) /\ act[a].pending.reply = "conflict" /\ act[a].pending.op # "clear"
                => StaleEtag(act[a].pending.expect)

\* KeptInv: the effect of a version that counts as saved is durable, or a clear
\* deleted it, or a reload discarded it before anyone was told it is kept.
Kept(c) == c \in Durable \cup wiped
Waiting(c) == call[c].pc \in {"mutated", "gate", "writing"}
Resolved(c) == Kept(c) \/ (c \in dropped /\ ~Waiting(c))

VersionsAt(a, s) ==
    /\ s.saved <= s.version
    /\ Busy(s) => s.pending.version <= s.version
    /\ \A c \in Calls : call[c].at = a /\ call[c].wanted > 0 =>
          /\ call[c].wanted <= s.version
          /\ call[c].wanted <= s.saved => Resolved(c)
          /\ Busy(s) /\ s.pending.op = "save" /\ call[c].wanted <= s.pending.version =>
                Resolved(c) \/ (c \in s.pending.state /\ s.pending.reply # "ok")
          /\ \A e \in Calls : call[e].at = a /\ call[e].wanted = call[c].wanted => e = c
    /\ \A c \in Calls : /\ call[c].at = a
                        /\ call[c].wanted > 0 \/ call[c].pc = "mutated"
                        => c \in s.mem \/ Resolved(c)
    /\ Busy(s) /\ s.pending.op = "append" /\ s.pending.reply = "ok" => Kept(s.pending.owner)

KeptInv ==
    /\ \A a \in Acts : VersionsAt(a, act[a])
    /\ \A c \in Calls :
          /\ call[c].pc \in {"ending", "done"} /\ call[c].err = "none"
          /\ call[c].kind \in {"save", "append"}
          => Kept(c)

\* SpreadInv: what an activation has not saved yet is nowhere else.
Spread(c, a) ==
    \/ c \in Durable
    \/ \E b \in Acts : b # a /\ (c \in act[b].mem \/ (Busy(act[b]) /\ c \in act[b].pending.state))

\* c has not changed any state.
Unborn(c) ==
    /\ c \notin Durable
    /\ \A a \in Acts : c \notin act[a].mem /\ (Busy(act[a]) => c \notin act[a].pending.state)

\* c waits for its entry to be stored.
Appending(c, a) ==
    /\ call[c].kind = "append" /\ call[c].pc \in {"gate", "writing"} /\ call[c].at = a
    /\ act[a].saved < call[c].wanted

\* The entry of c is not spread from a, or no append of a can store it again.
ApartFits(c, a, s) ==
    /\ Spread(c, a) /\ s.etag # 0 => s.etag # record.etag
    /\ Busy(s) /\ s.pending.op = "save" /\ s.pending.version < call[c].wanted
          => ~Spread(c, a) /\ c \notin s.pending.state
    /\ Busy(s) /\ s.pending.op = "append" /\ s.pending.reply = "ok" /\ s.pending.owner # c
          => ~Spread(c, a)

\* An append that can land stores an entry that is nowhere else.
SentFits(a, s) ==
    /\ Busy(s) /\ s.pending.op = "append" /\ s.pending.reply = "sent"
          /\ s.pending.expect = record.etag
          => ~Spread(s.pending.owner, a)
    /\ Busy(s) /\ s.pending.op = "save" => s.saved <= s.pending.version

SpreadInv ==
    /\ \A c \in Calls : call[c].pc \in {"new", "queued", "running"}
                            \/ call[c].kind = "clear" => Unborn(c)
    /\ \A c \in Calls, a \in Acts : Appending(c, a) => ApartFits(c, a, act[a])
    /\ \A a \in Acts : SentFits(a, act[a])

\* WholeInv: a copy at the record's etag has all of the record, cleared effects
\* included, and so has every write that could still land.
Whole(s) ==
    /\ s.etag = record.etag => Durable \subseteq s.mem
    /\ Busy(s) /\ s.pending.op = "save" =>
          /\ s.pending.state \subseteq s.mem
          /\ s.pending.reply = "sent" /\ s.pending.expect = record.etag
                => Durable \subseteq s.pending.state
    /\ Busy(s) /\ s.pending.op = "append" => s.pending.owner \in s.mem
    /\ Busy(s) /\ s.pending.op # "clear" /\ s.pending.reply = "ok"
          /\ s.pending.etag = record.etag => Durable \subseteq s.mem

\* An entry that a clear took out of the copy is not appended any more: there is
\* no record, and the save in flight, if any, settles its turn.
EntryFits(c, s) ==
    \/ c \in s.mem
    \/ /\ s.etag = 0
       /\ Busy(s) /\ s.pending.op = "save" => call[c].wanted <= s.pending.version

WholeInv ==
    /\ \A a \in Acts : Whole(act[a])
    /\ \A c \in Calls, a \in Acts : Appending(c, a) => EntryFits(c, act[a])

\* LostInv (serial activations): the effect of a turn that waits for its first
\* save is nowhere else, and that of a turn that lost stays on its activation
\* until the winner is loaded.
Unsaved(c) ==
    \/ call[c].pc = "mutated"
    \/ /\ call[c].pc \in {"gate", "writing"} /\ call[c].kind # "clear"
       /\ act[call[c].at].saved < call[c].wanted

\* What c waits for is with c alone, until its write lands.
ApartUnsaved(c, a) ==
    Unsaved(c) /\ Spread(c, a) =>
        /\ Busy(act[a]) /\ act[a].pending.owner = c
        /\ act[a].pending.reply \in {"ok", "error"}

\* What a turn that lost wrote is with its activation alone, and not on its way.
LostHere(c, a) ==
    call[c].err = "conflict" =>
        /\ ~Spread(c, a)
        /\ c \in act[a].mem => Losing(act[a])
        /\ Busy(act[a]) => act[a].pending.owner # c /\ c \notin act[a].pending.state

\* The save of a turn covers the version the turn asked for.
SaveCovers(s) ==
    Busy(s) /\ s.pending.op = "save" /\ s.pending.owner \in Calls =>
        call[s.pending.owner].wanted <= s.pending.version

LostInv ==
    ~Interleave =>
        /\ \A c \in Calls, a \in Acts : call[c].at = a => ApartUnsaved(c, a) /\ LostHere(c, a)
        /\ \A a \in Acts : SaveCovers(act[a])

-----------------------------------------------------------------------------
(* What the synchronous pieces do to versions and faults.                  *)

Keeps(s, t) ==
    /\ t.etag = s.etag /\ t.saved = s.saved /\ t.mem = s.mem /\ t.pending = s.pending
    /\ t.faulted = s.faulted /\ t.reload = s.reload /\ t.flushing = s.flushing
    /\ s.version <= t.version

\* As Keeps, for a step that turns a parked conflict into the fault.
Faults(s, t) ==
    /\ t.etag = s.etag /\ t.saved = s.saved /\ t.mem = s.mem /\ t.pending = s.pending
    /\ s.version = t.version
    /\ Losing(t) <=> Losing(s)
    /\ t.reload = FALSE

\* Folding the dirty flag may take a version.
LEMMA ConsumeDirtyKeeps ==
    ASSUME NEW s, ActOK(s)
    PROVE  Keeps(s, ConsumeDirty(s))
<1>0. s.version \in Nat BY DEF ActOK
<1>1. CASE s.dirty
  <2>1. ConsumeDirty(s) = [s EXCEPT !.dirty = FALSE, !.version = @ + 1]
    BY <1>1 DEF ConsumeDirty
  <2> QED BY <1>0, <2>1 DEF ActOK, Keeps
<1>2. CASE ~s.dirty
  <2>1. ConsumeDirty(s) = s BY <1>2 DEF ConsumeDirty
  <2> QED BY <1>0, <2>1 DEF Keeps
<1> QED BY <1>1, <1>2

\* Reporting a fault changes no version.
LEMMA ReportFaultKeeps ==
    ASSUME NEW s, ActOK(s)
    PROVE  Keeps(s, ReportFault(s)) /\ ReportFault(s).version = s.version
<1>0. s.version \in Nat BY DEF ActOK
<1>1. CASE s.faulted /\ ~s.reported
  <2>1. ReportFault(s) = [s EXCEPT !.reported = TRUE,
                   !.conflict = @ \/ s.life = "live",
                   !.life = IF @ = "live" THEN "closing" ELSE @]
    BY <1>1 DEF ReportFault
  <2> QED BY <1>0, <2>1 DEF ActOK, Keeps
<1>2. CASE ~(s.faulted /\ ~s.reported)
  <2>1. ReportFault(s) = s BY <1>2 DEF ReportFault
  <2> QED BY <1>0, <2>1 DEF Keeps
<1> QED BY <1>1, <1>2

\* Nor does the end of a turn, but for the dirty flag it folds.
LEMMA AfterTurnKeeps ==
    ASSUME NEW s, ActOK(s)
    PROVE  Keeps(s, AfterTurn(s))
<1> DEFINE t == ConsumeDirty(s)
           boundary == t.version > t.notified /\ ~t.reload
           owed     == boundary /\ WriteBehind /\ t.version > t.saved
           u == [t EXCEPT !.notified = IF boundary THEN t.version ELSE @,
                              !.armed = @ \/ owed]
<1>1. ActOK(t) /\ Keeps(s, t) BY ConsumeDirtyFacts, ConsumeDirtyKeeps
<1>2. AfterTurn(s) = ReportFault(u) BY DEF AfterTurn, t
<1> HIDE DEF t
<1>3. ActOK(u) BY SMTT(60), <1>1, ConfigAssumption DEF ActOK
<1>4. Keeps(t, u) BY <1>1 DEF ActOK, Keeps
<1> HIDE DEF u
<1>5. Keeps(u, ReportFault(u)) /\ ActOK(ReportFault(u)) BY <1>3, ReportFaultKeeps, ReportFaultFacts
<1>6. /\ s.version \in Nat /\ t.version \in Nat /\ u.version \in Nat
      /\ ReportFault(u).version \in Nat
  BY <1>1, <1>3, <1>5 DEF ActOK
<1> QED BY <1>1, <1>2, <1>4, <1>5, <1>6 DEF Keeps

\* Leaving the lane changes nothing else.
LEMMA PopKeeps ==
    ASSUME NEW s, ActOK(s)
    PROVE  Keeps(s, Pop(s)) /\ Pop(s).version = s.version
<1>0. s.version \in Nat BY DEF ActOK
<1>1. CASE Interleave
  <2>1. Pop(s) = s BY <1>1 DEF Pop
  <2> QED BY <1>0, <2>1 DEF Keeps
<1>2. CASE ~Interleave
  <2>1. Pop(s) = [s EXCEPT !.lane = Tail(@)] BY <1>2 DEF Pop
  <2> QED BY <1>0, <2>1 DEF Keeps, ActOK
<1> QED BY <1>1, <1>2

\* A reload counts as saved what it loaded.
LEMMA ReloadVersions ==
    ASSUME NEW s, ActOK(s), RecordOK(record), Durable \subseteq Calls
    PROVE  /\ Reload(s).saved = Reload(s).version /\ s.version <= Reload(s).version
           /\ Reload(s).faulted = s.faulted
<1> DEFINE r == [s EXCEPT !.mem = Durable,
                          !.dirty = @ \/ (Tracked /\ s.mem # Durable)]
           t == ConsumeDirty(r)
<1>1. ActOK(r) /\ r.version = s.version /\ r.faulted = s.faulted
  BY DEF ActOK
<1> HIDE DEF r
<1>2. ActOK(t) /\ Keeps(r, t) BY <1>1, ConsumeDirtyFacts, ConsumeDirtyKeeps
<1> DEFINE u == [t EXCEPT !.reload = FALSE, !.etag = record.etag, !.eventual = 0,
                          !.version = @ + 1, !.saved = t.version + 1]
<1>3. Reload(s) = u BY DEF Reload, t, r
<1> HIDE DEF t
<1>4. ActOK(t) BY <1>2
<1>5. u.saved = t.version + 1 /\ u.version = t.version + 1 /\ u.faulted = t.faulted
  BY <1>4 DEF ActOK
<1> HIDE DEF u
<1>6. s.version \in Nat /\ t.version \in Nat BY <1>2 DEF ActOK
<1> QED BY <1>1, <1>2, <1>3, <1>5, <1>6 DEF Keeps

\* A failed reload turns the parked conflict into the fault.
LEMMA ReloadFailedFaults ==
    ASSUME NEW s, ActOK(s), s.reload
    PROVE  Faults(s, ReloadFailed(s)) /\ ReloadFailed(s).faulted
<1> DEFINE t == [s EXCEPT !.reload = FALSE, !.faulted = TRUE]
<1>1. ActOK(t) /\ Faults(s, t) /\ t.faulted
  BY DEF ActOK, Faults, Losing
<1>2. ReloadFailed(s) = ReportFault(t) BY DEF ReloadFailed
<1> HIDE DEF t
<1>3. Keeps(t, ReportFault(t)) /\ ReportFault(t).version = t.version BY <1>1, ReportFaultKeeps
<1> QED BY <1>1, <1>2, <1>3 DEF Keeps, Faults, Losing

\* So does a failed flush.
LEMMA FlushFailedFaults ==
    ASSUME NEW s, ActOK(s), s.lane # <<>>
    PROVE  Faults(s, FlushFailed(s))
<1> DEFINE t == [s EXCEPT !.stateError = TRUE, !.faulted = @ \/ s.reload,
                          !.reload = FALSE, !.flushing = FALSE, !.lane = Tail(@)]
<1>0. Tail(s.lane) \in Seq(Calls \cup {Flush}) BY DEF ActOK
<1>1. ActOK(t) /\ Faults(s, t)
  BY <1>0 DEF ActOK, Faults, Losing
<1>2. FlushFailed(s) = ReportFault(t) BY DEF FlushFailed
<1> HIDE DEF t
<1>3. Keeps(t, ReportFault(t)) /\ ReportFault(t).version = t.version BY <1>1, ReportFaultKeeps
<1> QED BY <1>1, <1>2, <1>3 DEF Keeps, Faults, Losing

\* What keeps a copy is steady.
LEMMA KeepsSteady ==
    ASSUME NEW a, NEW s, NEW t, Keeps(s, t), ParkedFits(a, s),
           s.life # "none", t.life # "none", s.life = "gone" => t.life = "gone"
    PROVE  Steady(s, t)
BY DEF Keeps, Steady, ParkedFits, Losing

LEMMA FaultsSteady ==
    ASSUME NEW s, NEW t, Faults(s, t),
           s.life # "none", t.life # "none", s.life = "gone" => t.life = "gone"
    PROVE  Steady(s, t)
BY DEF Faults, Steady, Losing

-----------------------------------------------------------------------------
(* Every action is a step of its kind.                                     *)

LEMMA ActMoves ==
    ASSUME TypeOK, NEW a \in Acts, NEW t, act' = [act EXCEPT ![a] = t]
    PROVE  act'[a] = t /\ Alone(a)
BY DEF TypeOK, Alone

LEMMA CallMoves ==
    ASSUME TypeOK, NEW c \in Calls, NEW d, call' = [call EXCEPT ![c] = d]
    PROVE  call'[c] = d /\ Only(c)
BY DEF TypeOK, Only

\* c moves on, and the rest of its record stays.
LEMMA CallGoesOn ==
    ASSUME TypeOK, NEW c \in Calls, NEW pc, SetCall(c, pc)
    PROVE  GoesOn(c, pc) /\ Only(c)
<1>1. call'[c] = [call[c] EXCEPT !.pc = pc] /\ Only(c)
  BY CallMoves DEF SetCall, PutCall
<1>2. CallOK(call[c]) BY DEF TypeOK
<1> QED BY <1>1, <1>2 DEF CallOK, GoesOn

LEMMA CallGivesUp ==
    ASSUME TypeOK, NEW c \in Calls, NEW pc \in {"ending", "done"},
           NEW err \in {"transient", "faulted"}, FailCall(c, pc, err)
    PROVE  GivesUp(c) /\ Only(c) /\ call'[c].pc = pc
<1>1. call'[c] = [call[c] EXCEPT !.pc = pc, !.err = err] /\ Only(c)
  BY CallMoves DEF FailCall, PutCall
<1>2. CallOK(call[c]) BY DEF TypeOK
<1> QED BY <1>1, <1>2 DEF CallOK, GivesUp

LEMMA CallWants ==
    ASSUME TypeOK, NEW c \in Calls, NEW pc, NEW v, WantVersion(c, pc, v)
    PROVE  /\ call'[c].pc = pc /\ call'[c].wanted = v /\ call'[c].at = call[c].at
           /\ call'[c].kind = call[c].kind /\ call'[c].err = call[c].err
           /\ Only(c)
<1>1. call'[c] = [call[c] EXCEPT !.pc = pc, !.wanted = v] /\ Only(c)
  BY CallMoves DEF WantVersion, PutCall
<1>2. CallOK(call[c]) BY DEF TypeOK
<1> QED BY <1>1, <1>2 DEF CallOK

\* A step that is quiet for the one turn it moves.
LEMMA OneQuiet ==
    ASSUME NEW c \in Calls, Only(c), CallQuiet(c)
    PROVE  \A e \in Calls : CallQuiet(e)
BY DEF Only, CallQuiet

LEMMA NoCallMoves ==
    ASSUME call' = call
    PROVE  \A e \in Calls : CallQuiet(e)
BY DEF CallQuiet

LEMMA EnqueueQuiet ==
    ASSUME StorageInv, TurnInv, NEW c \in Calls, NEW a \in Acts, NEW k \in Kinds, Enqueue(c, a, k)
    PROVE  QuietStep(a)
<1> DEFINE s == act[a]
           t == IF Interleave THEN s ELSE [s EXCEPT !.lane = Append(@, c)]
           d == [call[c] EXCEPT !.pc = "queued", !.kind = k, !.at = a]
<1>1. /\ act' = [act EXCEPT ![a] = t] /\ call' = [call EXCEPT ![c] = d]
      /\ call[c].pc = "new" /\ s.life = "live"
      /\ UNCHANGED <<record, minted, wiped, dropped, failures, stops>>
  BY DEF Enqueue, SetAct, PutCall
<1>2. ActOK(s) /\ ParkedFits(a, s) /\ CallOK(call[c]) /\ TypeOK
  BY DEF StorageInv, TypeOK, TurnInv
<1>3. Keeps(s, t) /\ t.life = s.life
  <2>1. CASE Interleave BY <1>2, <2>1 DEF Keeps, ActOK
  <2>2. CASE ~Interleave
    <3>1. t = [s EXCEPT !.lane = Append(@, c)] BY <2>2
    <3> QED BY <1>2, <3>1 DEF Keeps, ActOK
  <2> QED BY <2>1, <2>2
<1>4. /\ d.pc = "queued" /\ d.at = a /\ d.kind = k /\ d.wanted = call[c].wanted
      /\ d.err = call[c].err
  BY <1>2 DEF CallOK
<1> HIDE DEF t, d
<1>5. act'[a] = t /\ Alone(a) BY <1>1, <1>2, ActMoves
<1>6. call'[c] = d /\ Only(c) BY <1>1, <1>2, CallMoves
<1>7. Steady(s, t) BY <1>1, <1>2, <1>3, KeepsSteady
<1>8. CallQuiet(c) BY <1>1, <1>4, <1>6, ConfigAssumption DEF CallQuiet
<1>9. \A e \in Calls : CallQuiet(e) BY <1>6, <1>8, OneQuiet
<1> QED BY <1>1, <1>3, <1>5, <1>7, <1>9 DEF QuietStep, Keeps

LEMMA StartTurnQuiet ==
    ASSUME StorageInv, TurnInv, NEW c \in Calls, StartTurn(c)
    PROVE  \E a \in Acts : QuietStep(a)
<1>0. Runnable(c) BY DEF StartTurn
<1>1. PICK a \in Acts : call[c].at = a BY <1>0, RunnablePlace
<1> DEFINE s == act[a]
<1>2. /\ ActOK(s) /\ ParkedFits(a, s) /\ TypeOK /\ call[c].pc = "queued" /\ s.life # "none"
  BY <1>0, <1>1, RunnablePlace DEF StorageInv, TurnInv
<1>3. ~s.reload /\ UNCHANGED <<record, minted, wiped, dropped, failures, stops>>
  BY <1>1 DEF StartTurn
<1>4. CASE s.faulted
  <2> DEFINE t == Pop(s)
  <2>0. ~Interleave => s.lane # <<>> BY <1>0, <1>1, RunnablePlace
  <2>1. Keeps(s, t) /\ t.life = s.life BY <1>2, <2>0, PopKeeps, PopFacts
  <2>2. act' = [act EXCEPT ![a] = t] /\ FailCall(c, "done", "faulted")
    BY <1>1, <1>4 DEF StartTurn, SetAct
  <2> HIDE DEF t
  <2>3. GivesUp(c) /\ Only(c) BY <1>2, <2>2, CallGivesUp
  <2>4. act'[a] = t /\ Alone(a) BY <1>2, <2>2, ActMoves
  <2>5. Steady(s, t) BY <1>2, <2>1, KeepsSteady
  <2>6. CallQuiet(c) BY <1>2, <2>3 DEF CallQuiet
  <2>7. \A e \in Calls : CallQuiet(e) BY <2>3, <2>6, OneQuiet
  <2> QED BY <1>3, <2>1, <2>4, <2>5, <2>7 DEF QuietStep, Keeps
<1>5. CASE ~s.faulted
  <2>1. act' = act /\ SetCall(c, "running") BY <1>1, <1>5 DEF StartTurn
  <2>2. GoesOn(c, "running") /\ Only(c) BY <1>2, <2>1, CallGoesOn
  <2>3. Keeps(s, s) BY <1>2 DEF Keeps, ActOK
  <2>4. Steady(s, s) BY <1>2, <2>3, KeepsSteady
  <2>5. CallQuiet(c) BY <1>1, <1>2, <1>3, <2>1, <2>2 DEF CallQuiet
  <2>6. \A e \in Calls : CallQuiet(e) BY <2>2, <2>5, OneQuiet
  <2> QED BY <1>3, <2>1, <2>3, <2>4, <2>6 DEF QuietStep, Keeps, Alone
<1> QED BY <1>4, <1>5

LEMMA StartReloadFailsQuiet ==
    ASSUME StorageInv, TurnInv, NEW c \in Calls, StartReloadFails(c)
    PROVE  \E a \in Acts : QuietStep(a)
<1>0. Runnable(c) BY DEF StartReloadFails
<1>1. PICK a \in Acts : call[c].at = a BY <1>0, RunnablePlace
<1> DEFINE s == act[a]
           u == ReloadFailed(s)
           t == Pop(u)
<1>2. /\ ActOK(s) /\ TypeOK /\ call[c].pc = "queued"
      /\ s.life \in {"live", "closing", "stopped"}
      /\ ~Interleave => s.lane # <<>>
  BY <1>0, <1>1, RunnablePlace DEF StorageInv
<1>3. /\ s.reload /\ act' = [act EXCEPT ![a] = t] /\ FailCall(c, "done", "transient")
      /\ UNCHANGED <<record, minted, wiped, dropped, stops>>
  BY <1>1 DEF StartReloadFails, SetAct
<1>4. Faults(s, u) /\ ActOK(u) /\ u.lane = s.lane /\ LifeMoves(s, u)
  BY <1>2, <1>3, ReloadFailedFaults, ReloadFailedFacts
<1> HIDE DEF u
<1>5. Keeps(u, t) /\ t.version = u.version /\ t.life = u.life
  BY <1>2, <1>4, PopKeeps, PopFacts
<1> HIDE DEF t
<1>6. Faults(s, t) BY <1>4, <1>5 DEF Keeps, Faults, Losing
<1>7. t.life # "none" /\ s.life \notin {"none", "gone"} BY <1>2, <1>4, <1>5 DEF LifeMoves
<1>8. Steady(s, t) BY <1>6, <1>7, FaultsSteady
<1>9. act'[a] = t /\ Alone(a) BY <1>2, <1>3, ActMoves
<1>10. GivesUp(c) /\ Only(c) BY <1>2, <1>3, CallGivesUp
<1>11. CallQuiet(c) BY <1>2, <1>10 DEF CallQuiet
<1>12. \A e \in Calls : CallQuiet(e) BY <1>10, <1>11, OneQuiet
<1>13. s.version \in Nat BY <1>2 DEF ActOK
<1> QED BY <1>3, <1>6, <1>8, <1>9, <1>12, <1>13 DEF QuietStep, Faults

LEMMA EndTurnQuiet ==
    ASSUME StorageInv, TurnInv, NEW c \in Calls, EndTurn(c)
    PROVE  \E a \in Acts : QuietStep(a)
<1>0. Working(c) BY DEF EndTurn, Working
<1>1. PICK a \in Acts : call[c].at = a BY <1>0, TurnPlace
<1> DEFINE s == act[a]
           u == AfterTurn(s)
           t == Pop(u)
<1>2. /\ ActOK(s) /\ TypeOK /\ ParkedFits(a, s) /\ s.life \in {"live", "closing", "stopped"}
      /\ ~Interleave => s.lane # <<>>
  BY <1>0, <1>1, TurnPlace DEF StorageInv, TurnInv
<1>3. /\ call[c].pc = "ending" /\ act' = [act EXCEPT ![a] = t] /\ SetCall(c, "done")
      /\ UNCHANGED <<record, minted, wiped, dropped, failures, stops>>
  BY <1>1 DEF EndTurn, SetAct
<1>4. Keeps(s, u) /\ ActOK(u) /\ u.lane = s.lane /\ LifeMoves(s, u)
  BY <1>2, AfterTurnKeeps, AfterTurnFacts
<1> HIDE DEF u
<1>5. Keeps(u, t) /\ t.version = u.version /\ t.life = u.life
  BY <1>2, <1>4, PopKeeps, PopFacts
<1> HIDE DEF t
<1>6. Keeps(s, t) BY <1>4, <1>5 DEF Keeps
<1>7. t.life # "none" /\ s.life \notin {"none", "gone"} BY <1>2, <1>4, <1>5 DEF LifeMoves
<1>8. Steady(s, t) BY <1>2, <1>6, <1>7, KeepsSteady
<1>9. act'[a] = t /\ Alone(a) BY <1>2, <1>3, ActMoves
<1>10. GoesOn(c, "done") /\ Only(c) BY <1>2, <1>3, CallGoesOn
<1>11. CallQuiet(c) BY <1>3, <1>10 DEF CallQuiet
<1>12. \A e \in Calls : CallQuiet(e) BY <1>10, <1>11, OneQuiet
<1> QED BY <1>3, <1>6, <1>8, <1>9, <1>12 DEF QuietStep, Keeps

LEMMA MutateTouches ==
    ASSUME StorageInv, TurnInv, NEW c \in Calls, Mutate(c)
    PROVE  \E a \in Acts : TouchStep(a, c)
<1>0. Working(c) BY DEF Mutate, Working
<1>1. PICK a \in Acts : call[c].at = a BY <1>0, TurnPlace
<1> DEFINE s == act[a]
           t == Touch(s, c)
<1>2. /\ ActOK(s) /\ TypeOK /\ ParkedFits(a, s) /\ s.life \in {"live", "closing", "stopped"}
  BY <1>0, <1>1, TurnPlace DEF StorageInv, TurnInv
<1>3. /\ call[c].pc = "running" /\ call[c].kind \in {"write", "save", "eventual"}
      /\ act' = [act EXCEPT ![a] = t]
      /\ SetCall(c, IF call[c].kind = "write" THEN "ending" ELSE "mutated")
      /\ UNCHANGED <<record, minted, wiped, dropped, failures, stops>>
  BY <1>1 DEF Mutate, SetAct
<1>4. /\ t.mem = s.mem \cup {c} /\ t.etag = s.etag /\ t.saved = s.saved
      /\ t.pending = s.pending /\ t.faulted = s.faulted /\ t.reload = s.reload
      /\ t.flushing = s.flushing /\ t.version = s.version /\ t.life = s.life
  BY <1>2 DEF Touch, ActOK
<1> HIDE DEF t
<1>5. Steady(s, t) BY <1>2, <1>4 DEF Steady, ParkedFits, Losing
<1>6. act'[a] = t /\ Alone(a) BY <1>2, <1>3, ActMoves
<1>7. Only(c) /\ \/ call[c].kind = "write" /\ GoesOn(c, "ending")
                 \/ call[c].kind \in {"save", "eventual"} /\ GoesOn(c, "mutated")
  <2>1. CASE call[c].kind = "write" BY <1>2, <1>3, <2>1, CallGoesOn
  <2>2. CASE call[c].kind # "write" BY <1>2, <1>3, <2>2, CallGoesOn
  <2> QED BY <2>1, <2>2
<1> QED BY <1>1, <1>3, <1>4, <1>5, <1>6, <1>7 DEF TouchStep

LEMMA SaveImmediateVersions ==
    ASSUME StorageInv, TurnInv, NEW c \in Calls, SaveImmediate(c)
    PROVE  \E a \in Acts : VersionStep(a, c)
<1>0. Working(c) BY DEF SaveImmediate, Working
<1>1. PICK a \in Acts : call[c].at = a BY <1>0, TurnPlace
<1> DEFINE s == act[a]
           u == ConsumeDirty(s)
           t == [u EXCEPT !.version = @ + 1]
<1>2. /\ ActOK(s) /\ TypeOK /\ ParkedFits(a, s) /\ s.life \in {"live", "closing", "stopped"}
  BY <1>0, <1>1, TurnPlace DEF StorageInv, TurnInv
<1>3. /\ call[c].pc = "mutated" /\ call[c].kind = "save"
      /\ act' = [act EXCEPT ![a] = t] /\ WantVersion(c, "gate", u.version + 1)
      /\ UNCHANGED <<record, minted, wiped, dropped, failures, stops>>
  BY <1>1 DEF SaveImmediate, SetAct
<1>4. Keeps(s, u) /\ ActOK(u) /\ u.life = s.life
  BY <1>2, ConsumeDirtyKeeps, ConsumeDirtyFacts
<1> HIDE DEF u
<1>5. Keeps(u, t) /\ t.version = u.version + 1 /\ t.life = u.life
  BY <1>4 DEF ActOK, Keeps
<1> HIDE DEF t
<1>6. Keeps(s, t) /\ s.version < t.version /\ t.life = s.life
  <2>1. s.version \in Nat /\ u.version \in Nat BY <1>2, <1>4 DEF ActOK
  <2> QED BY <1>4, <1>5, <2>1 DEF Keeps
<1>7. Steady(s, t) BY <1>2, <1>6, KeepsSteady
<1>8. act'[a] = t /\ Alone(a) BY <1>2, <1>3, ActMoves
<1>9. /\ call'[c].pc = "gate" /\ call'[c].wanted = t.version /\ call'[c].at = call[c].at
      /\ call'[c].kind = call[c].kind /\ call'[c].err = call[c].err /\ Only(c)
  BY <1>2, <1>3, <1>5, CallWants
<1> QED BY <1>1, <1>3, <1>6, <1>7, <1>8, <1>9 DEF VersionStep, Keeps

LEMMA SaveEventualVersions ==
    ASSUME StorageInv, TurnInv, NEW c \in Calls, SaveEventual(c)
    PROVE  \E a \in Acts : VersionStep(a, c)
<1>0. Working(c) BY DEF SaveEventual, Working
<1>1. PICK a \in Acts : call[c].at = a BY <1>0, TurnPlace
<1> DEFINE s == act[a]
           u == ConsumeDirty(s)
           t == [u EXCEPT !.version = @ + 1, !.eventual = u.version + 1, !.armed = TRUE]
<1>2. /\ ActOK(s) /\ TypeOK /\ ParkedFits(a, s) /\ s.life \in {"live", "closing", "stopped"}
  BY <1>0, <1>1, TurnPlace DEF StorageInv, TurnInv
<1>3. /\ call[c].pc = "mutated" /\ call[c].kind = "eventual"
      /\ act' = [act EXCEPT ![a] = t] /\ WantVersion(c, "ending", u.version + 1)
      /\ UNCHANGED <<record, minted, wiped, dropped, failures, stops>>
  BY <1>1 DEF SaveEventual, SetAct
<1>4. Keeps(s, u) /\ ActOK(u) /\ u.life = s.life
  BY <1>2, ConsumeDirtyKeeps, ConsumeDirtyFacts
<1> HIDE DEF u
<1>5. Keeps(u, t) /\ t.version = u.version + 1 /\ t.life = u.life
  BY <1>4 DEF ActOK, Keeps
<1> HIDE DEF t
<1>6. Keeps(s, t) /\ s.version < t.version /\ t.life = s.life
  <2>1. s.version \in Nat /\ u.version \in Nat BY <1>2, <1>4 DEF ActOK
  <2> QED BY <1>4, <1>5, <2>1 DEF Keeps
<1>7. Steady(s, t) BY <1>2, <1>6, KeepsSteady
<1>8. act'[a] = t /\ Alone(a) BY <1>2, <1>3, ActMoves
<1>9. /\ call'[c].pc = "ending" /\ call'[c].wanted = t.version /\ call'[c].at = call[c].at
      /\ call'[c].kind = call[c].kind /\ call'[c].err = call[c].err /\ Only(c)
  BY <1>2, <1>3, <1>5, CallWants
<1> QED BY <1>1, <1>3, <1>6, <1>7, <1>8, <1>9 DEF VersionStep, Keeps

LEMMA AppendEntryVersions ==
    ASSUME StorageInv, TurnInv, NEW c \in Calls, AppendEntry(c)
    PROVE  \E a \in Acts : VersionStep(a, c)
<1>0. Working(c) BY DEF AppendEntry, Working
<1>1. PICK a \in Acts : call[c].at = a BY <1>0, TurnPlace
<1> DEFINE s == act[a]
           u == ConsumeDirty(s)
           t == [u EXCEPT !.mem = @ \cup {c}, !.version = @ + 1]
<1>2. /\ ActOK(s) /\ TypeOK /\ ParkedFits(a, s) /\ s.life \in {"live", "closing", "stopped"}
  BY <1>0, <1>1, TurnPlace DEF StorageInv, TurnInv
<1>3. /\ call[c].pc = "running" /\ call[c].kind = "append"
      /\ act' = [act EXCEPT ![a] = t] /\ WantVersion(c, "gate", u.version + 1)
      /\ UNCHANGED <<record, minted, wiped, dropped, failures, stops>>
  BY <1>1 DEF AppendEntry, SetAct
<1>4. Keeps(s, u) /\ ActOK(u) /\ u.life = s.life
  BY <1>2, ConsumeDirtyKeeps, ConsumeDirtyFacts
<1> HIDE DEF u
<1>5. /\ t.version = u.version + 1 /\ t.life = u.life /\ t.mem = u.mem \cup {c}
      /\ t.etag = u.etag /\ t.saved = u.saved /\ t.pending = u.pending
      /\ t.faulted = u.faulted /\ t.reload = u.reload /\ t.flushing = u.flushing
  BY <1>4 DEF ActOK
<1> HIDE DEF t
<1>6. s.version < t.version /\ t.life = s.life /\ t.mem = s.mem \cup {c} /\ t.pending = s.pending
  <2>1. s.version \in Nat /\ u.version \in Nat BY <1>2, <1>4 DEF ActOK
  <2> QED BY <1>4, <1>5, <2>1 DEF Keeps
<1>7. Steady(s, t) BY <1>2, <1>4, <1>5, <1>6 DEF Steady, ParkedFits, Losing, Keeps
<1>8. act'[a] = t /\ Alone(a) BY <1>2, <1>3, ActMoves
<1>9. /\ call'[c].pc = "gate" /\ call'[c].wanted = t.version /\ call'[c].at = call[c].at
      /\ call'[c].kind = call[c].kind /\ call'[c].err = call[c].err /\ Only(c)
  BY <1>2, <1>3, <1>5, CallWants
<1> QED BY <1>1, <1>3, <1>6, <1>7, <1>8, <1>9 DEF VersionStep

LEMMA StartAfterReloadLoads ==
    ASSUME StorageInv, TurnInv, NEW c \in Calls, StartAfterReload(c)
    PROVE  \E a \in Acts : LoadStep(a)
<1>0. Runnable(c) BY DEF StartAfterReload
<1>1. PICK a \in Acts : call[c].at = a BY <1>0, RunnablePlace
<1> DEFINE s == act[a]
           t == Reload(s)
<1>2. /\ ActOK(s) /\ TypeOK /\ ParkedFits(a, s) /\ call[c].pc = "queued"
      /\ s.life \in {"live", "closing", "stopped"}
      /\ ~Interleave => s.lane # <<>> /\ Head(s.lane) = c
  BY <1>0, <1>1, RunnablePlace DEF StorageInv, TurnInv
<1>3. /\ s.reload /\ act' = [act EXCEPT ![a] = t] /\ SetCall(c, "running")
      /\ dropped' = dropped \cup (s.mem \ Durable)
      /\ UNCHANGED <<record, minted, wiped, failures, stops>>
  BY <1>1 DEF StartAfterReload, SetAct
<1>4. /\ t.mem = Durable /\ t.etag = record.etag /\ t.pending = s.pending /\ t.life = s.life
      /\ t.reload = FALSE /\ t.saved = t.version /\ s.version <= t.version
      /\ t.faulted = s.faulted
  BY <1>2, DurableInCalls, ReloadFacts, ReloadVersions DEF TypeOK
<1> HIDE DEF t
<1>5. ~Interleave BY <1>3, ConfigAssumption DEF StorageInv, LaneInv, ReloadOptedIn
<1>6. ~Busy(s) BY <1>1, <1>2, <1>5, HeadAlone DEF Over
<1>7. act'[a] = t /\ Alone(a) BY <1>2, <1>3, ActMoves
<1>8. GoesOn(c, "running") /\ Only(c) BY <1>2, <1>3, CallGoesOn
<1>9. CallQuiet(c) BY <1>1, <1>2, <1>4, <1>7, <1>8 DEF CallQuiet
<1>10. \A e \in Calls : CallQuiet(e) BY <1>8, <1>9, OneQuiet
<1>11. ~Losing(t) BY <1>2, <1>3, <1>4 DEF Losing, ParkedFits
<1> QED BY <1>2, <1>3, <1>4, <1>6, <1>7, <1>10, <1>11 DEF LoadStep

LEMMA ActivateLoads ==
    ASSUME StorageInv, TurnInv, NEW a \in Acts, Activate(a)
    PROVE  LoadStep(a)
<1> DEFINE t == Seeded
<1>1. act' = [act EXCEPT ![a] = t] /\ act[a].life = "none" /\ TypeOK
      /\ UNCHANGED <<record, minted, call, wiped, dropped, failures, stops>>
  BY DEF Activate, SetAct, StorageInv
<1>2. act[a] = Idle BY <1>1 DEF TurnInv, ParkedFits
<1>3. /\ t.life = "live" /\ t.etag = record.etag /\ t.mem = Durable /\ t.pending = Idle.pending
      /\ t.faulted = FALSE /\ t.reload = FALSE /\ t.saved = 0 /\ t.version = 0
      /\ Idle.version = 0 /\ Idle.mem = {} /\ Idle.pending.op = "none"
  BY DEF Seeded, Idle, NoWrite
<1> HIDE DEF t
<1>4. act'[a] = t /\ Alone(a) BY <1>1, ActMoves
<1>5. \A e \in Calls : CallQuiet(e) BY <1>1, NoCallMoves
<1> QED BY <1>1, <1>2, <1>3, <1>4, <1>5 DEF LoadStep, Busy, Losing

\* Handing a write to the storage changes only the write in flight.
LEMMA SendMoves ==
    ASSUME TypeOK, NEW a \in Acts, ParkedFits(a, act[a]), NEW w,
           act[a].life \notin {"none", "gone"},
           act' = [act EXCEPT ![a] = [act[a] EXCEPT !.pending = w]]
    PROVE  /\ Alone(a) /\ Steady(act[a], act'[a]) /\ act'[a].pending = w
           /\ act'[a].mem = act[a].mem /\ act'[a].version = act[a].version
<1> DEFINE s == act[a]
           t == [s EXCEPT !.pending = w]
<1>1. ActOK(s) BY DEF TypeOK
<1>2. /\ t.pending = w /\ t.mem = s.mem /\ t.version = s.version /\ t.life = s.life
      /\ t.etag = s.etag /\ t.saved = s.saved /\ t.faulted = s.faulted
      /\ t.reload = s.reload /\ t.flushing = s.flushing
  BY <1>1 DEF ActOK
<1>3. act'[a] = t /\ Alone(a) BY ActMoves
<1> HIDE DEF t
<1> QED BY <1>2, <1>3 DEF Steady, ParkedFits, Losing

LEMMA ClearStateSends ==
    ASSUME StorageInv, TurnInv, NEW c \in Calls, ClearState(c)
    PROVE  \E a \in Acts : SendStep(a)
<1>0. Working(c) BY DEF ClearState, Working
<1>1. PICK a \in Acts : call[c].at = a BY <1>0, TurnPlace
<1> DEFINE s == act[a]
           w == [op |-> "clear", owner |-> c, state |-> {}, expect |-> s.etag,
                 version |-> 0, reply |-> "sent", etag |-> 0]
<1>2. /\ ActOK(s) /\ TypeOK /\ ParkedFits(a, s) /\ s.life \in {"live", "closing", "stopped"}
  BY <1>0, <1>1, TurnPlace DEF StorageInv, TurnInv
<1>3. /\ call[c].pc = "running" /\ call[c].kind = "clear" /\ ~Busy(s)
      /\ act' = [act EXCEPT ![a] = [s EXCEPT !.pending = w]] /\ SetCall(c, "writing")
      /\ UNCHANGED <<record, minted, wiped, dropped, failures, stops>>
  BY <1>1 DEF ClearState, SetAct, SendClear
<1>4. /\ w.op = "clear" /\ w.reply = "sent" /\ w.expect = s.etag /\ w.owner = c
      /\ w.version = 0 /\ w.state = {}
  OBVIOUS
<1> HIDE DEF w
<1>5. /\ Alone(a) /\ Steady(s, act'[a]) /\ act'[a].pending = w
      /\ act'[a].mem = s.mem /\ act'[a].version = s.version
  BY <1>2, <1>3, SendMoves
<1>6. GoesOn(c, "writing") /\ Only(c) BY <1>2, <1>3, CallGoesOn
<1> QED BY <1>1, <1>2, <1>3, <1>4, <1>5, <1>6 DEF SendStep

LEMMA GateIsStep ==
    ASSUME StorageInv, TurnInv, NEW c \in Calls, Gate(c)
    PROVE  \E a \in Acts : QuietStep(a) \/ SendStep(a)
<1>0. Working(c) /\ call[c].pc = "gate" BY DEF Gate, Working
<1>1. PICK a \in Acts : call[c].at = a BY <1>0, TurnPlace
<1> DEFINE s == act[a]
           v == call[c].wanted
<1>2. /\ ActOK(s) /\ TypeOK /\ ParkedFits(a, s) /\ s.life \in {"live", "closing", "stopped"}
  BY <1>0, <1>1, TurnPlace DEF StorageInv, TurnInv
<1>3. UNCHANGED <<record, minted, wiped, dropped, failures, stops>> BY DEF Gate
<1>4. s.saved \in Nat /\ v \in Nat BY <1>2 DEF ActOK, TypeOK, CallOK
<1>5. Keeps(s, s) BY <1>2 DEF Keeps, ActOK
<1>6. Steady(s, s) BY <1>2, <1>5, KeepsSteady
<1>7. CASE s.saved >= v /\ SetCall(c, "ending") /\ UNCHANGED act
  <2>1. GoesOn(c, "ending") /\ Only(c) BY <1>2, <1>7, CallGoesOn
  <2>2. CallQuiet(c) BY <1>0, <1>1, <1>4, <1>7, <2>1 DEF CallQuiet
  <2>3. \A e \in Calls : CallQuiet(e) BY <2>1, <2>2, OneQuiet
  <2> QED BY <1>3, <1>5, <1>6, <1>7, <2>3 DEF QuietStep, Alone, Keeps
<1>8. CASE FailCall(c, "ending", "faulted") /\ UNCHANGED act
  <2>1. GivesUp(c) /\ Only(c) BY <1>2, <1>8, CallGivesUp
  <2>2. CallQuiet(c) BY <1>0, <2>1 DEF CallQuiet
  <2>3. \A e \in Calls : CallQuiet(e) BY <2>1, <2>2, OneQuiet
  <2> QED BY <1>3, <1>5, <1>6, <1>8, <2>3 DEF QuietStep, Alone, Keeps
<1>9. CASE /\ s.saved < v /\ ~Busy(s) /\ ~s.faulted /\ SetCall(c, "writing")
           /\ act' = [act EXCEPT ![a] = IF call[c].kind = "append" /\ AppendSeam /\ s.etag # 0
                           THEN SendAppend(s, c, v)
                           ELSE SendSave(s, c)]
  <2> DEFINE append == call[c].kind = "append" /\ AppendSeam /\ s.etag # 0
             w == IF append
                  THEN [op |-> "append", owner |-> c, state |-> {}, expect |-> s.etag,
                        version |-> v, reply |-> "sent", etag |-> 0]
                  ELSE [op |-> "save", owner |-> c, state |-> s.mem, expect |-> s.etag,
                        version |-> s.version, reply |-> "sent", etag |-> 0]
  <2>1. act' = [act EXCEPT ![a] = [s EXCEPT !.pending = w]]
    BY <1>9 DEF SendAppend, SendSave
  <2>2. /\ w.op \in {"save", "append"} /\ w.reply = "sent" /\ w.expect = s.etag /\ w.owner = c
        /\ w.op = "save" => w.state = s.mem /\ w.version = s.version
        /\ w.op = "append" => w.version = v /\ call[c].kind = "append" /\ s.etag # 0
        /\ w.op # "save" => w.state = {}
    OBVIOUS
  <2> HIDE DEF w
  <2>3. /\ Alone(a) /\ Steady(s, act'[a]) /\ act'[a].pending = w
        /\ act'[a].mem = s.mem /\ act'[a].version = s.version
    BY <1>2, <2>1, SendMoves
  <2>4. GoesOn(c, "writing") /\ Only(c) BY <1>2, <1>9, CallGoesOn
  <2>5. ~Losing(s) BY <1>0, <1>1, <1>2, <1>9 DEF Losing, ParkedFits
  <2>6. SendStep(a)
    BY <1>0, <1>1, <1>2, <1>3, <1>9, <2>2, <2>3, <2>4, <2>5 DEF SendStep
  <2> QED BY <2>6
<1> QED BY <1>1, <1>7, <1>8, <1>9 DEF Gate, GateOpen, SetAct

\* A step of an activation alone that is quiet.
LEMMA AloneQuiet ==
    ASSUME TypeOK, NEW a \in Acts, NEW t, act' = [act EXCEPT ![a] = t],
           Steady(act[a], t), t.mem = act[a].mem, t.pending = act[a].pending,
           act[a].version <= t.version,
           UNCHANGED <<record, minted, call, wiped, dropped>>
    PROVE  QuietStep(a)
<1>1. act'[a] = t /\ Alone(a) BY ActMoves
<1>2. \A e \in Calls : CallQuiet(e) BY NoCallMoves
<1> QED BY <1>1, <1>2 DEF QuietStep

\* An activation not yet created does nothing.
LEMMA Created ==
    ASSUME TurnInv, NEW a \in Acts,
           \/ act[a].armed \/ act[a].flushing \/ act[a].lane # <<>> \/ Busy(act[a])
           \/ act[a].pending.reply = "sent"
    PROVE  act[a].life # "none"
<1>1. act[a].life = "none" => act[a] = Idle BY DEF TurnInv, ParkedFits
<1>2. /\ Idle.armed = FALSE /\ Idle.flushing = FALSE /\ Idle.lane = <<>>
      /\ Idle.pending.op = "none" /\ Idle.pending.reply = "ok"
  BY DEF Idle, NoWrite
<1> QED BY <1>1, <1>2 DEF Busy

LEMMA TimerFiresQuiet ==
    ASSUME StorageInv, TurnInv, NEW a \in Acts, TimerFires(a)
    PROVE  QuietStep(a)
<1> DEFINE s == act[a]
           q == IF s.life = "live" THEN Append(s.lane, Flush) ELSE s.lane
           t == [s EXCEPT !.armed = FALSE, !.lane = q]
<1>1. /\ act' = [act EXCEPT ![a] = t] /\ s.armed
      /\ UNCHANGED <<record, minted, call, wiped, dropped, failures, stops>>
  BY DEF TimerFires, SetAct
<1>2. ActOK(s) /\ TypeOK /\ ParkedFits(a, s) BY DEF StorageInv, TypeOK, TurnInv
<1>3. s.life # "none" BY <1>1, Created
<1> HIDE DEF q
<1>4. Keeps(s, t) /\ t.life = s.life BY <1>2 DEF Keeps, ActOK
<1> HIDE DEF t
<1>5. Steady(s, t) BY <1>2, <1>3, <1>4, KeepsSteady
<1> QED BY <1>1, <1>2, <1>4, <1>5, AloneQuiet DEF Keeps

LEMMA CloseQuiet ==
    ASSUME StorageInv, TurnInv, NEW a \in Acts, Deactivate(a) \/ ForceStop(a)
    PROVE  QuietStep(a)
<1>1. PICK life \in {"closing", "stopped"} : act' = [act EXCEPT ![a] = [act[a] EXCEPT !.life = life]]
  <2>1. CASE Deactivate(a) BY <2>1 DEF Deactivate, SetAct
  <2>2. CASE ForceStop(a) /\ act[a].life = "live" BY <2>2 DEF ForceStop, SetAct
  <2>3. CASE ForceStop(a) /\ act[a].life = "closing" BY <2>3 DEF ForceStop, SetAct
  <2> QED BY <2>1, <2>2, <2>3 DEF ForceStop
<1> DEFINE s == act[a]
           t == [s EXCEPT !.life = life]
<1>2. /\ s.life \in {"live", "closing"}
      /\ UNCHANGED <<record, minted, call, wiped, dropped, failures>>
  BY DEF Deactivate, ForceStop
<1>3. ActOK(s) /\ TypeOK /\ ParkedFits(a, s) BY DEF StorageInv, TypeOK, TurnInv
<1>4. Keeps(s, t) /\ t.life = life BY <1>3 DEF Keeps, ActOK
<1> HIDE DEF t
<1>5. Steady(s, t) BY <1>1, <1>2, <1>3, <1>4, KeepsSteady
<1> QED BY <1>1, <1>2, <1>3, <1>4, <1>5, AloneQuiet DEF Keeps, t

LEMMA DrainedQuiet ==
    ASSUME StorageInv, TurnInv, NEW a \in Acts, Drained(a)
    PROVE  QuietStep(a)
<1> DEFINE s == act[a]
           r == [s EXCEPT !.armed = FALSE]
           u == ConsumeDirty(r)
<1>1. /\ s.life = "closing"
      /\ UNCHANGED <<record, minted, call, wiped, dropped, failures, stops>>
  BY DEF Drained
<1>2. ActOK(s) /\ TypeOK /\ ParkedFits(a, s) BY DEF StorageInv, TypeOK, TurnInv
<1>3. ActOK(r) /\ Keeps(s, r) BY <1>2 DEF ActOK, Keeps
<1>4. \E t : /\ act' = [act EXCEPT ![a] = t]
             /\ \/ /\ t = [u EXCEPT !.life = "flushing", !.flushing = TRUE, !.flushWanted = u.version]
                   /\ ~u.reload
                \/ t = [u EXCEPT !.life = "gone"]
  BY DEF Drained, SetAct, OwesFinalFlush
<1> HIDE DEF r
<1>5. ActOK(u) /\ Keeps(r, u) BY <1>3, ConsumeDirtyFacts, ConsumeDirtyKeeps
<1> HIDE DEF u
<1>6. PICK t : /\ act' = [act EXCEPT ![a] = t]
               /\ \/ /\ t = [u EXCEPT !.life = "flushing", !.flushing = TRUE, !.flushWanted = u.version]
                     /\ ~u.reload
                  \/ t = [u EXCEPT !.life = "gone"]
  BY <1>4
<1>7. /\ t.etag = u.etag /\ t.saved = u.saved /\ t.mem = u.mem /\ t.pending = u.pending
      /\ t.faulted = u.faulted /\ t.reload = u.reload /\ t.version = u.version
      /\ t.life \in {"flushing", "gone"}
      /\ t.life = "flushing" => ~t.reload
  <2>1. CASE t = [u EXCEPT !.life = "gone"] BY <1>5, <2>1 DEF ActOK
  <2>2. CASE /\ t = [u EXCEPT !.life = "flushing", !.flushing = TRUE, !.flushWanted = u.version]
             /\ ~u.reload
    BY <1>5, <2>2 DEF ActOK
  <2> QED BY <1>6, <2>1, <2>2
<1>8. Keeps(s, u)
  <2>1. s.version \in Nat /\ r.version \in Nat /\ u.version \in Nat BY <1>2, <1>3, <1>5 DEF ActOK
  <2> QED BY <1>3, <1>5, <2>1 DEF Keeps
<1>9. Steady(s, t) BY <1>1, <1>2, <1>7, <1>8 DEF Steady, Keeps, ParkedFits, Losing
<1> QED BY <1>1, <1>2, <1>6, <1>7, <1>8, <1>9, AloneQuiet DEF Keeps

LEMMA StartFlushIsStep ==
    ASSUME StorageInv, TurnInv, NEW a \in Acts, StartFlush(a)
    PROVE  QuietStep(a) \/ LoadStep(a)
<1> DEFINE s == act[a]
           u == IF s.reload THEN Reload(s) ELSE s
           v == IF WriteBehind THEN u.version ELSE u.eventual
           t == [u EXCEPT !.flushing = TRUE, !.flushWanted = v]
<1>1. /\ s.life # "gone" /\ s.lane # <<>> /\ Head(s.lane) = Flush /\ ~s.flushing
      /\ act' = [act EXCEPT ![a] = t]
      /\ dropped' = IF s.reload THEN dropped \cup (s.mem \ Durable) ELSE dropped
      /\ UNCHANGED <<record, minted, call, wiped, failures, stops>>
  BY DEF StartFlush, SetAct
<1>2. ActOK(s) /\ TypeOK /\ ParkedFits(a, s) BY DEF StorageInv, TypeOK, TurnInv
<1>3. s.life # "none" BY <1>1, Created
<1> HIDE DEF v
<1>4. CASE s.reload
  <2>1. u = Reload(s) BY <1>4
  <2>2. /\ ActOK(u) /\ u.mem = Durable /\ u.etag = record.etag /\ u.pending = s.pending
        /\ u.life = s.life /\ u.reload = FALSE /\ u.saved = u.version
        /\ s.version <= u.version /\ u.faulted = s.faulted
    BY ZenonT(60), <1>2, <2>1, DurableInCalls, ReloadFacts, ReloadVersions DEF TypeOK
  <2> HIDE DEF u
  <2>3. /\ t.mem = u.mem /\ t.etag = u.etag /\ t.pending = u.pending /\ t.life = u.life
        /\ t.reload = u.reload /\ t.saved = u.saved /\ t.version = u.version
        /\ t.faulted = u.faulted
    BY <2>2 DEF ActOK
  <2> HIDE DEF t
  <2>4. ~Interleave BY <1>4, ConfigAssumption DEF StorageInv, LaneInv, ReloadOptedIn
  <2>5. ~Busy(s) BY <1>1, <2>4, FlushAlone
  <2>6. act'[a] = t /\ Alone(a) BY <1>1, <1>2, ActMoves
  <2>7. \A e \in Calls : CallQuiet(e) BY <1>1, NoCallMoves
  <2>8. ~Losing(t) BY <1>2, <1>4, <2>2, <2>3 DEF Losing, ParkedFits
  <2>9. dropped \subseteq dropped' /\ s.mem \subseteq Durable \cup dropped' BY <1>1, <1>4
  <2>10. LoadStep(a)
    BY <1>1, <1>3, <1>4, <2>2, <2>3, <2>5, <2>6, <2>7, <2>8, <2>9 DEF LoadStep
  <2> QED BY <2>10
<1>5. CASE ~s.reload
  <2>1. /\ t.mem = s.mem /\ t.etag = s.etag /\ t.pending = s.pending /\ t.life = s.life
        /\ t.reload = s.reload /\ t.saved = s.saved /\ t.version = s.version
        /\ t.faulted = s.faulted
    BY <1>2, <1>5 DEF ActOK
  <2> HIDE DEF t
  <2>2. Steady(s, t) BY <1>2, <1>3, <1>5, <2>1 DEF Steady, Losing
  <2>3. s.version <= t.version BY <1>2, <2>1 DEF ActOK
  <2>4. UNCHANGED <<record, minted, call, wiped, dropped>> BY <1>1, <1>5
  <2>5. QuietStep(a) BY <1>1, <1>2, <2>1, <2>2, <2>3, <2>4, AloneQuiet
  <2> QED BY <2>5
<1> QED BY <1>4, <1>5

LEMMA StartFlushReloadFailsQuiet ==
    ASSUME StorageInv, TurnInv, NEW a \in Acts, StartFlushReloadFails(a)
    PROVE  QuietStep(a)
<1> DEFINE s == act[a]
           u == ReloadFailed(s)
           t == FlushFailed(u)
<1>1. /\ s.life # "gone" /\ s.lane # <<>> /\ s.reload
      /\ act' = [act EXCEPT ![a] = t]
      /\ UNCHANGED <<record, minted, call, wiped, dropped, stops>>
  BY DEF StartFlushReloadFails, SetAct
<1>2. ActOK(s) /\ TypeOK BY DEF StorageInv, TypeOK
<1>3. s.life # "none" BY <1>1, Created
<1>4. Faults(s, u) /\ ActOK(u) /\ u.lane = s.lane /\ LifeMoves(s, u)
  BY <1>1, <1>2, ReloadFailedFaults, ReloadFailedFacts
<1> HIDE DEF u
<1>5. Faults(u, t) /\ LifeMoves(u, t) BY <1>1, <1>4, FlushFailedFaults, FlushFailedFacts
<1> HIDE DEF t
<1>6. Faults(s, t) BY <1>4, <1>5 DEF Faults
<1>7. t.life # "none" BY <1>3, <1>4, <1>5 DEF LifeMoves
<1>8. Steady(s, t) BY <1>1, <1>3, <1>6, <1>7, FaultsSteady
<1>9. s.version <= t.version BY <1>2, <1>6 DEF ActOK, Faults
<1> QED BY <1>1, <1>2, <1>6, <1>8, <1>9, AloneQuiet DEF Faults

LEMMA FlushGateIsStep ==
    ASSUME StorageInv, TurnInv, NEW a \in Acts, FlushGate(a)
    PROVE  QuietStep(a) \/ SendStep(a)
<1> DEFINE s == act[a]
<1>1. /\ s.flushing /\ s.life # "gone"
      /\ ~Busy(s) \/ s.saved >= s.flushWanted
      /\ UNCHANGED <<record, minted, call, wiped, dropped, failures, stops>>
  BY DEF FlushGate
<1>2. ActOK(s) /\ TypeOK /\ ParkedFits(a, s) /\ LanesAt(a, s)
  BY LanesSplit DEF StorageInv, TypeOK, TurnInv
<1>3. s.saved \in Nat /\ s.flushWanted \in Nat /\ s.version \in Nat BY <1>2 DEF ActOK
<1>4. s.life # "none" BY <1>1, Created
<1>5. s.life # "flushing" => s.lane # <<>> BY <1>1, <1>2 DEF LanesAt
<1>6. ASSUME NEW t, act' = [act EXCEPT ![a] = t],
             \/ t = [s EXCEPT !.life = "gone"]
             \/ t = [s EXCEPT !.stateError = TRUE, !.life = "gone"]
             \/ t = [s EXCEPT !.flushing = FALSE, !.lane = Tail(@)]
      PROVE  QuietStep(a)
  <2>1. /\ t.mem = s.mem /\ t.etag = s.etag /\ t.pending = s.pending
        /\ t.reload = s.reload /\ t.saved = s.saved /\ t.version = s.version
        /\ t.faulted = s.faulted /\ t.life \in {s.life, "gone"}
    <3>1. CASE t = [s EXCEPT !.life = "gone"] BY <1>2, <3>1 DEF ActOK
    <3>2. CASE t = [s EXCEPT !.stateError = TRUE, !.life = "gone"] BY <1>2, <3>2 DEF ActOK
    <3>3. CASE t = [s EXCEPT !.flushing = FALSE, !.lane = Tail(@)] BY <1>2, <3>3 DEF ActOK
    <3> QED BY <1>6, <3>1, <3>2, <3>3
  <2>2. Steady(s, t) BY <1>1, <1>2, <1>4, <2>1 DEF Steady, Losing, ParkedFits
  <2>3. s.version <= t.version BY <1>3, <2>1
  <2> QED BY <1>1, <1>2, <1>6, <2>1, <2>2, <2>3, AloneQuiet
<1>7. ASSUME s.life # "flushing", act' = [act EXCEPT ![a] = FlushFailed(s)]
      PROVE  QuietStep(a)
  <2> DEFINE t == FlushFailed(s)
  <2>1. Faults(s, t) /\ LifeMoves(s, t)
    BY <1>2, <1>5, <1>7, FlushFailedFaults, FlushFailedFacts
  <2>2. act' = [act EXCEPT ![a] = t] BY <1>7
  <2> HIDE DEF t
  <2>3. t.life # "none" BY <1>4, <2>1 DEF LifeMoves
  <2>4. Steady(s, t) BY <1>1, <1>4, <2>1, <2>3, FaultsSteady
  <2>5. s.version <= t.version BY <1>3, <2>1 DEF Faults
  <2> QED BY <1>1, <1>2, <2>1, <2>2, <2>4, <2>5, AloneQuiet DEF Faults
<1>8. ASSUME s.saved < s.flushWanted, ~s.faulted, act' = [act EXCEPT ![a] = SendSave(s, Flush)]
      PROVE  SendStep(a)
  <2> DEFINE w == [op |-> "save", owner |-> Flush, state |-> s.mem, expect |-> s.etag,
                   version |-> s.version, reply |-> "sent", etag |-> 0]
  <2>1. act' = [act EXCEPT ![a] = [s EXCEPT !.pending = w]] BY <1>8 DEF SendSave
  <2>2. /\ w.op = "save" /\ w.reply = "sent" /\ w.expect = s.etag /\ w.owner = Flush
        /\ w.state = s.mem /\ w.version = s.version
    OBVIOUS
  <2> HIDE DEF w
  <2>3. /\ Alone(a) /\ Steady(s, act'[a]) /\ act'[a].pending = w
        /\ act'[a].mem = s.mem /\ act'[a].version = s.version
    BY <1>1, <1>2, <1>4, <2>1, SendMoves
  <2>4. ~Losing(s) BY <1>1, <1>2, <1>8 DEF Losing, ParkedFits
  <2>5. ~Busy(s) BY <1>1, <1>3, <1>8
  <2> QED BY <1>1, <2>2, <2>3, <2>4, <2>5 DEF SendStep
<1>9. CASE s.saved >= s.flushWanted
  <2>0. ~(s.saved < s.flushWanted) BY <1>3, <1>9
  <2>1. CASE s.life = "flushing"
    <3>1. act' = [act EXCEPT ![a] = [s EXCEPT !.life = "gone"]]
      BY <1>9, <2>0, <2>1 DEF FlushGate, SetAct
    <3> QED BY <1>6, <3>1
  <2>2. CASE s.life # "flushing"
    <3>1. act' = [act EXCEPT ![a] = [s EXCEPT !.flushing = FALSE, !.lane = Tail(@)]]
      BY <1>9, <2>0, <2>2 DEF FlushGate, SetAct
    <3> QED BY <1>6, <3>1
  <2> QED BY <2>1, <2>2
<1>10. CASE ~(s.saved >= s.flushWanted)
  <2>0. s.saved < s.flushWanted BY <1>3, <1>10
  <2>1. CASE ~s.faulted
    <3>1. act' = [act EXCEPT ![a] = SendSave(s, Flush)] BY <1>10, <2>0, <2>1 DEF FlushGate, SetAct
    <3> QED BY <1>8, <2>0, <2>1, <3>1
  <2>2. CASE s.faulted /\ s.life = "flushing"
    <3>1. act' = [act EXCEPT ![a] = [s EXCEPT !.stateError = TRUE, !.life = "gone"]]
      BY <1>10, <2>0, <2>2 DEF FlushGate, SetAct
    <3> QED BY <1>6, <3>1
  <2>3. CASE s.faulted /\ s.life # "flushing"
    <3>1. act' = [act EXCEPT ![a] = FlushFailed(s)] BY <1>10, <2>0, <2>3 DEF FlushGate, SetAct
    <3> QED BY <1>7, <2>3, <3>1
  <2> QED BY <2>1, <2>2, <2>3
<1> QED BY <1>9, <1>10

LEMMA CrashQuiet ==
    ASSUME StorageInv, TurnInv, NEW a \in Acts, Crash(a)
    PROVE  QuietStep(a)
<1> DEFINE s == act[a]
           t == [s EXCEPT !.life = "gone"]
<1>1. /\ s.life \notin {"none", "gone"}
      /\ act' = [act EXCEPT ![a] = t]
      /\ call' = [c \in Calls |-> IF c \in CallsAt(a)
                                  THEN [call[c] EXCEPT !.pc = "done", !.err = "lost"]
                                  ELSE call[c]]
      /\ UNCHANGED <<record, minted, wiped, dropped, failures>>
  BY DEF Crash, SetAct
<1>2. ActOK(s) /\ TypeOK /\ ParkedFits(a, s) BY DEF StorageInv, TypeOK, TurnInv
<1>3. Keeps(s, t) /\ t.life = "gone" BY <1>2 DEF Keeps, ActOK
<1> HIDE DEF t
<1>4. Steady(s, t) BY <1>1, <1>2, <1>3, KeepsSteady
<1>5. act'[a] = t /\ Alone(a) BY <1>1, <1>2, ActMoves
<1>6. \A e \in Calls : CallQuiet(e)
  <2> TAKE e \in Calls
  <2>1. CASE e \in CallsAt(a)
    <3>1. call'[e] = [call[e] EXCEPT !.pc = "done", !.err = "lost"] BY <1>1, <2>1
    <3>2. call[e].pc # "new" BY <2>1 DEF CallsAt, Over
    <3>3. CallOK(call[e]) BY <1>2 DEF TypeOK
    <3>4. GivesUp(e) BY <3>1, <3>3 DEF GivesUp, CallOK
    <3> QED BY <3>2, <3>4 DEF CallQuiet
  <2>2. CASE e \notin CallsAt(a) BY <1>1, <2>2 DEF CallQuiet
  <2> QED BY <2>1, <2>2
<1> QED BY <1>1, <1>3, <1>4, <1>5, <1>6 DEF QuietStep, Keeps

\* What an answer of the storage leaves of the activation.
LEMMA AnswerMoves ==
    ASSUME StorageInv, TurnInv, NEW a \in Acts, NEW r, NEW e, Answer(a, r, e),
           act[a].pending.reply = "sent"
    PROVE  LET s == act[a] t == act'[a] IN
           /\ Alone(a) /\ Steady(s, t) /\ t.mem = s.mem /\ t.version = s.version /\ Busy(s)
           /\ t.pending.reply = r
           /\ t.pending.op = s.pending.op /\ t.pending.owner = s.pending.owner
           /\ t.pending.state = s.pending.state /\ t.pending.expect = s.pending.expect
           /\ t.pending.version = s.pending.version
<1> DEFINE s == act[a]
           w == s.pending
           v == [w EXCEPT !.reply = r, !.etag = e]
           t == [s EXCEPT !.pending = v]
<1>1. ActOK(s) /\ TypeOK /\ ParkedFits(a, s) /\ FreshCopy(s)
  BY DEF StorageInv, TypeOK, TurnInv, FreshInv
<1>2. Busy(s) BY <1>1 DEF FreshCopy
<1>3. s.life # "none" BY Created
<1>4. act' = [act EXCEPT ![a] = t] BY DEF Answer, Answered, SetAct
<1>5. /\ v.reply = r /\ v.op = w.op /\ v.owner = w.owner /\ v.state = w.state
      /\ v.expect = w.expect /\ v.version = w.version
  BY <1>1 DEF ActOK, WriteOK
<1> HIDE DEF v
<1>6. /\ t.pending = v /\ t.mem = s.mem /\ t.version = s.version /\ t.life = s.life
      /\ t.etag = s.etag /\ t.saved = s.saved /\ t.faulted = s.faulted
      /\ t.reload = s.reload /\ t.flushing = s.flushing
  BY <1>1 DEF ActOK
<1> HIDE DEF t
<1>7. act'[a] = t /\ Alone(a) BY <1>1, <1>4, ActMoves
<1>8. Steady(s, t) BY <1>1, <1>3, <1>6 DEF Steady, ParkedFits, Losing
<1> QED BY <1>2, <1>5, <1>6, <1>7, <1>8

LEMMA RefuseIsStep ==
    ASSUME StorageInv, TurnInv, NEW a \in Acts, Refuse(a) \/ Fail(a)
    PROVE  RefuseStep(a)
<1>1. PICK r \in {"conflict", "error"} :
         /\ Answer(a, r, 0) /\ act[a].pending.reply = "sent"
         /\ r = "conflict" => record.etag # act[a].pending.expect
  BY DEF Refuse, Fail, CasHolds
<1>2. UNCHANGED <<record, minted, call, wiped, dropped>> BY DEF Refuse, Fail
<1> QED BY <1>1, <1>2, AnswerMoves DEF RefuseStep, Answers

LEMMA AcceptLands ==
    ASSUME StorageInv, TurnInv, NEW a \in Acts, Accept(a)
    PROVE  LandStep(a)
<1> DEFINE w == act[a].pending
<1>1. PICK r \in {"ok", "error"}, e \in {NextEtag, 0} : Answer(a, r, e) BY DEF Accept
<1>2. /\ w.reply = "sent" /\ record.etag = w.expect /\ record' = Stored(w)
      /\ minted' = IF w.op = "clear" THEN minted ELSE minted + 1
      /\ wiped' = IF w.op = "clear" THEN wiped \cup Durable ELSE wiped
      /\ UNCHANGED <<call, dropped, stops>>
  BY DEF Accept, CasHolds
<1> QED BY <1>1, <1>2, AnswerMoves DEF LandStep, Answers

\* What the reply of a write makes of the etag, the versions and the faults.
Settles(s, t) ==
    LET w       == s.pending
        saved   == w.reply = "ok" /\ w.op # "clear"
        cleared == w.reply = "ok" /\ w.op = "clear"
        lost    == w.reply = "conflict" /\ w.op # "clear"
    IN  /\ t.version = s.version /\ t.pending = NoWrite
        /\ t.mem = IF cleared THEN {} ELSE s.mem
        /\ saved => t.etag = w.etag
        /\ cleared => t.etag = 0
        /\ ~saved /\ ~cleared => t.etag = s.etag
        /\ saved /\ w.op = "save" => t.saved = w.version
        /\ saved /\ w.op = "append" =>
              t.saved = IF s.saved = w.version - 1 THEN w.version ELSE s.saved
        /\ ~saved => t.saved = s.saved
        /\ Losing(t) <=> Losing(s) \/ lost
        /\ ~(t.faulted /\ t.reload)
        /\ t.reload => s.reload \/ (lost /\ RetryQueued)

LEMMA SettledSettles ==
    ASSUME NEW a, NEW s, ActOK(s), Busy(s), ParkedFits(a, s)
    PROVE  Settles(s, Settled(s))
<1> DEFINE w == s.pending
           t == [s EXCEPT !.pending = NoWrite]
<1>1. /\ ActOK(t) /\ t.pending = NoWrite /\ t.mem = s.mem /\ t.etag = s.etag
      /\ t.saved = s.saved /\ t.version = s.version
      /\ t.reload = s.reload /\ t.faulted = s.faulted
  BY DEF ActOK, NoWrite, WriteOK
<1>2. /\ ~(s.faulted /\ s.reload) /\ (Losing(s) => w.op = "clear")
      /\ w.op \in {"save", "append", "clear"}
  BY DEF ParkedFits, Busy, ActOK, WriteOK
<1>3. ActOK(t) BY <1>1
<1> HIDE DEF t
<1>4. CASE w.reply = "ok" /\ w.op = "save"
  <2> DEFINE u == [t EXCEPT !.etag = w.etag, !.saved = w.version]
  <2>1. Settled(s) = u BY <1>4 DEF Settled, Saved, t
  <2>2. /\ u.mem = t.mem /\ u.etag = w.etag /\ u.pending = t.pending
        /\ u.saved = w.version /\ u.version = t.version
        /\ u.reload = t.reload /\ u.faulted = t.faulted
    BY <1>3 DEF ActOK
  <2> HIDE DEF u
  <2> QED BY <1>1, <1>2, <1>4, <2>1, <2>2 DEF Settles, Losing
<1>5. CASE w.reply = "ok" /\ w.op = "append"
  <2> DEFINE v == IF t.saved = w.version - 1 THEN w.version ELSE t.saved
             u == [t EXCEPT !.etag = w.etag, !.saved = v]
  <2>1. Settled(s) = u BY <1>5 DEF Settled, Appended, t
  <2>2. /\ u.mem = t.mem /\ u.etag = w.etag /\ u.pending = t.pending
        /\ u.saved = v /\ u.version = t.version
        /\ u.reload = t.reload /\ u.faulted = t.faulted
    BY <1>3 DEF ActOK
  <2> HIDE DEF u
  <2> QED BY <1>1, <1>2, <1>5, <2>1, <2>2 DEF Settles, Losing
<1>6. CASE w.reply = "ok" /\ w.op = "clear"
  <2> DEFINE u == [t EXCEPT !.etag = 0, !.eventual = 0, !.armed = @ /\ WriteBehind,
                        !.mem = {}, !.dirty = @ \/ (Tracked /\ t.mem # {})]
  <2>1. Settled(s) = u BY <1>6 DEF Settled, Cleared, t
  <2>2. /\ u.mem = {} /\ u.etag = 0 /\ u.pending = t.pending
        /\ u.saved = t.saved /\ u.version = t.version
        /\ u.reload = t.reload /\ u.faulted = t.faulted
    BY <1>3 DEF ActOK
  <2> HIDE DEF u
  <2> QED BY <1>1, <1>2, <1>6, <2>1, <2>2 DEF Settles, Losing
<1>7. CASE w.reply = "conflict" /\ w.op # "clear"
  <2> DEFINE u == [t EXCEPT !.reload = @ \/ RetryQueued, !.faulted = @ \/ ~RetryQueued]
  <2>1. Settled(s) = u BY <1>7 DEF Settled, LostRace, t
  <2>2. /\ u.mem = t.mem /\ u.etag = t.etag /\ u.pending = t.pending
        /\ u.saved = t.saved /\ u.version = t.version
        /\ u.reload = (t.reload \/ RetryQueued) /\ u.faulted = (t.faulted \/ ~RetryQueued)
    BY <1>3 DEF ActOK
  <2> HIDE DEF u
  <2> QED BY <1>1, <1>2, <1>7, <2>1, <2>2, ConfigAssumption DEF Settles, Losing
<1>8. CASE ~(w.reply = "ok") /\ ~(w.reply = "conflict" /\ w.op # "clear")
  <2>1. Settled(s) = t BY <1>8 DEF Settled, t
  <2> QED BY <1>1, <1>2, <1>8, <2>1 DEF Settles, Losing
<1> QED BY <1>2, <1>4, <1>5, <1>6, <1>7, <1>8

LEMMA ReplyToFlushIsStep ==
    ASSUME StorageInv, TurnInv, NEW a \in Acts, ReplyToFlush(a)
    PROVE  ReplyStep(a)
<1> DEFINE s == act[a]
           w == s.pending
           u == Settled(s)
<1>1. /\ Busy(s) /\ w.reply # "sent" /\ w.owner = Flush /\ s.life # "gone"
      /\ UNCHANGED <<record, minted, call, wiped, dropped, failures, stops>>
  BY DEF ReplyToFlush
<1>2. /\ ActOK(s) /\ TypeOK /\ ParkedFits(a, s) /\ FreshCopy(s) /\ LanesAt(a, s)
      /\ (s.reload => RetryQueued)
  BY LanesSplit DEF StorageInv, TypeOK, TurnInv, FreshInv, LaneInv, ReloadOptedIn
<1>3. s.flushing /\ ~s.reload BY <1>1, <1>2 DEF LanesAt, ParkedFits
<1>4. s.life # "none" BY <1>1, Created
<1>5. s.life # "flushing" => s.lane # <<>> BY <1>1, <1>2, <1>3 DEF LanesAt
<1>6. w.op = "save" BY <1>1, <1>2, ConfigAssumption DEF FreshCopy
<1>7. /\ Settles(s, u) /\ ActOK(u) /\ u.life = s.life /\ u.lane = s.lane
      /\ u.flushing = s.flushing
  BY <1>1, <1>2, SettledSettles, SettledFacts
<1>8. \E t : /\ act' = [act EXCEPT ![a] = t]
             /\ \/ w.reply = "ok" /\ t = u
                \/ s.life = "flushing" /\ t = [u EXCEPT !.stateError = TRUE, !.life = "gone"]
                \/ s.life # "flushing" /\ t = FlushFailed(u)
  <2>1. CASE w.reply = "ok" BY <2>1 DEF ReplyToFlush, SetAct
  <2>2. CASE w.reply # "ok" /\ s.life = "flushing" BY <2>2 DEF ReplyToFlush, SetAct
  <2>3. CASE w.reply # "ok" /\ s.life # "flushing" BY <2>3 DEF ReplyToFlush, SetAct
  <2> QED BY <2>1, <2>2, <2>3
<1> HIDE DEF u
<1>9. PICK t : /\ act' = [act EXCEPT ![a] = t]
               /\ \/ w.reply = "ok" /\ t = u
                  \/ s.life = "flushing" /\ t = [u EXCEPT !.stateError = TRUE, !.life = "gone"]
                  \/ s.life # "flushing" /\ t = FlushFailed(u)
  BY <1>8
<1>10. act'[a] = t /\ Alone(a) BY <1>2, <1>9, ActMoves
<1>11. /\ t.version = u.version /\ t.pending = u.pending /\ t.mem = u.mem /\ t.etag = u.etag
       /\ t.saved = u.saved /\ (Losing(t) <=> Losing(u))
       /\ ~(t.faulted /\ t.reload) /\ t.life # "none"
       /\ ~(t.reload /\ t.life # "gone")
  <2>1. CASE w.reply = "ok" /\ t = u BY <1>3, <1>4, <1>7, <2>1 DEF Settles
  <2>2. CASE t = [u EXCEPT !.stateError = TRUE, !.life = "gone"]
    BY <1>7, <2>2 DEF ActOK, Losing, Settles
  <2>3. CASE s.life # "flushing" /\ t = FlushFailed(u)
    <3>1. Faults(u, t) /\ LifeMoves(u, t)
      BY <1>5, <1>7, <2>3, FlushFailedFaults, FlushFailedFacts
    <3> QED BY <1>4, <1>7, <3>1 DEF Faults, LifeMoves
  <2> QED BY <1>9, <2>1, <2>2, <2>3
<1> QED BY <1>1, <1>4, <1>6, <1>7, <1>10, <1>11 DEF ReplyStep, Settles

LEMMA ReplyToCallIsStep ==
    ASSUME StorageInv, TurnInv, NEW a \in Acts, ReplyToCall(a)
    PROVE  ReplyStep(a)
<1> DEFINE s == act[a]
           w == s.pending
           c == w.owner
           t == Settled(s)
<1>1. /\ Busy(s) /\ w.reply # "sent" /\ c # Flush /\ s.life # "gone"
      /\ act' = [act EXCEPT ![a] = t]
      /\ wiped' = IF w.reply = "ok" /\ w.op = "clear" THEN wiped \cup s.mem ELSE wiped
      /\ UNCHANGED <<record, minted, dropped, failures, stops>>
  BY DEF ReplyToCall, SetAct
<1>2. /\ ActOK(s) /\ TypeOK /\ ParkedFits(a, s) /\ LanesAt(a, s)
      /\ (s.reload => RetryQueued)
  BY LanesSplit DEF StorageInv, TypeOK, TurnInv, LaneInv, ReloadOptedIn
<1>3. c \in Calls /\ w.reply \in {"ok", "conflict", "error"} BY <1>1, <1>2 DEF ActOK, WriteOK
<1>4. call[c].pc = "writing" /\ call[c].at = a BY <1>1, <1>2 DEF LanesAt
<1>5. s.life # "none" BY <1>1, Created
<1>6. Settles(s, t) /\ t.life = s.life /\ t.flushing = s.flushing
  BY <1>1, <1>2, SettledSettles, SettledFacts
<1>7. Working(c) BY <1>4 DEF Working
<1>8. ~Interleave => ~s.flushing
  <2>1. ASSUME ~Interleave PROVE ~s.flushing
    <3>1. s.lane # <<>> /\ Head(s.lane) = c BY <1>3, <1>4, <1>7, <2>1, TurnPlace
    <3> QED BY <1>3, <1>4, <2>1, <3>1, HeadAlone DEF Over
  <2> QED BY <2>1
<1> HIDE DEF t
<1>9. t.reload /\ t.life # "gone" => ~t.flushing /\ (s.reload \/ ~Interleave)
  BY <1>1, <1>2, <1>6, <1>8, ConfigAssumption DEF Settles, ParkedFits
<1>10. act'[a] = t /\ Alone(a) BY <1>1, <1>2, ActMoves
<1>11. /\ Only(c)
       /\ \/ w.reply = "ok" /\ w.op = "save" /\ GoesOn(c, "gate")
          \/ w.reply = "ok" /\ w.op # "save" /\ GoesOn(c, "ending")
          \/ /\ w.reply = "conflict"
             /\ call'[c].pc = "ending" /\ call'[c].err = "conflict"
             /\ call'[c].at = a /\ call'[c].kind = call[c].kind
             /\ call'[c].wanted = call[c].wanted
          \/ w.reply = "error" /\ GivesUp(c) /\ call'[c].pc = "ending"
  <2>1. CASE w.reply = "ok" /\ w.op = "save"
    <3>1. SetCall(c, "gate") BY <2>1 DEF ReplyToCall
    <3> QED BY <1>2, <1>3, <2>1, <3>1, CallGoesOn
  <2>2. CASE w.reply = "ok" /\ w.op # "save"
    <3>1. SetCall(c, "ending") BY <2>2 DEF ReplyToCall
    <3> QED BY <1>2, <1>3, <2>2, <3>1, CallGoesOn
  <2>3. CASE w.reply = "conflict"
    <3>1. call' = [call EXCEPT ![c] = [call[c] EXCEPT !.pc = "ending", !.err = "conflict"]]
      BY <2>3 DEF ReplyToCall, FailCall, PutCall
    <3>2. call'[c] = [call[c] EXCEPT !.pc = "ending", !.err = "conflict"] /\ Only(c)
      BY ZenonT(60), <1>2, <1>3, <3>1, CallMoves
    <3>3. CallOK(call[c]) BY <1>2, <1>3 DEF TypeOK
    <3> QED BY <1>4, <2>3, <3>2, <3>3 DEF CallOK
  <2>4. CASE w.reply = "error"
    <3>1. FailCall(c, "ending", "transient") BY <2>4 DEF ReplyToCall
    <3> QED BY <1>2, <1>3, <2>4, <3>1, CallGivesUp
  <2> QED BY <1>3, <2>1, <2>2, <2>3, <2>4
<1> QED BY <1>1, <1>3, <1>4, <1>5, <1>6, <1>9, <1>10, <1>11 DEF ReplyStep, Settles

\* Every step is of one of the kinds.
LEMMA NextSteps ==
    ASSUME StorageInv, TurnInv, Next
    PROVE  Step
<1>1. CASE \E c \in Calls : CallStep(c)
  <2>1. PICK c \in Calls : CallStep(c) BY <1>1
  <2> QED BY <2>1, StartTurnQuiet, StartAfterReloadLoads, MutateTouches, EndTurnQuiet,
             SaveImmediateVersions, SaveEventualVersions, AppendEntryVersions,
             ClearStateSends, GateIsStep DEF CallStep, Step
<1>2. CASE \E a \in Acts : ActStep(a)
  <2>1. PICK a \in Acts : ActStep(a) BY <1>2
  <2> QED BY <2>1, AcceptLands, RefuseIsStep, ReplyToCallIsStep, ReplyToFlushIsStep,
             TimerFiresQuiet, StartFlushIsStep, FlushGateIsStep, DrainedQuiet
          DEF ActStep, Step
<1>3. CASE \E a \in Acts : \/ Activate(a) \/ Deactivate(a) \/ ForceStop(a) \/ Crash(a)
                           \/ Fail(a) \/ StartFlushReloadFails(a)
  BY <1>3, ActivateLoads, CloseQuiet, CrashQuiet, RefuseIsStep, StartFlushReloadFailsQuiet
  DEF Step
<1>4. CASE \E c \in Calls, a \in Acts, k \in Kinds : Enqueue(c, a, k)
  BY <1>4, EnqueueQuiet DEF Step
<1>5. CASE \E c \in Calls : StartReloadFails(c)
  BY <1>5, StartReloadFailsQuiet DEF Step
<1> QED BY <1>1, <1>2, <1>3, <1>4, <1>5 DEF Next, Progress, Environment

-----------------------------------------------------------------------------
(* TurnInv holds in every state.                                           *)

\* A turn in its steps belongs to an activation that runs turns.
LEMMA Placed ==
    ASSUME StorageInv, NEW c \in Calls, Working(c)
    PROVE  call[c].at \in Acts /\ act[call[c].at].life \notin {"none", "gone"}
BY TurnPlace

\* Behind a parked conflict every turn has had its last word.
LEMMA NotParked ==
    ASSUME StorageInv, TurnInv, NEW c \in Calls, Working(c), call[c].pc # "ending"
    PROVE  ~act[call[c].at].reload
BY Placed DEF TurnInv, ParkedFits

\* The write in flight of an activation that still runs is its writer's.
LEMMA Writer ==
    ASSUME StorageInv, NEW a \in Acts, Busy(act[a]), act[a].life # "gone",
           act[a].pending.owner # Flush
    PROVE  /\ act[a].pending.owner \in Calls
           /\ call[act[a].pending.owner].pc = "writing"
           /\ call[act[a].pending.owner].at = a
BY DEF StorageInv, TypeOK, LaneInv, WriterWaits, ActOK, WriteOK

\* What turns that write nothing keep.
LEMMA QuietTurns ==
    ASSUME StorageInv, TurnInv, \A c \in Calls : CallQuiet(c),
           \A b \in Acts : act[b].life # "none" => act'[b].life # "none"
    PROVE  /\ \A c \in Calls : CallFits(c)'
           /\ \A c \in Calls : call[c].pc # "new" =>
                 /\ call'[c].pc # "new" /\ call'[c].at = call[c].at
                 /\ call'[c].kind = call[c].kind /\ call'[c].wanted = call[c].wanted
           /\ \A c \in Calls : Working(c)' =>
                 call'[c] = call[c] \/ call'[c].pc = "ending" \/ ~act'[call'[c].at].reload
<1>1. \A c \in Calls : CallFits(c) BY DEF TurnInv
<1>2. \A c \in Calls : CallFits(c)'
  <2> TAKE c \in Calls
  <2>1. CASE call'[c] = call[c] BY <1>1, <2>1 DEF CallFits
  <2>2. CASE call'[c] # call[c]
    <3>1. CallFits(c) /\ CallQuiet(c) BY <1>1
    <3> QED BY <2>2, <3>1 DEF CallFits, CallQuiet, GoesOn, GivesUp
  <2> QED BY <2>1, <2>2
<1>3. \A c \in Calls : call[c].pc # "new" =>
         /\ call'[c].pc # "new" /\ call'[c].at = call[c].at
         /\ call'[c].kind = call[c].kind /\ call'[c].wanted = call[c].wanted
  BY DEF CallQuiet, GoesOn, GivesUp
<1>4. \A c \in Calls : Working(c)' =>
         call'[c] = call[c] \/ call'[c].pc = "ending" \/ ~act'[call'[c].at].reload
  BY DEF CallQuiet, GoesOn, GivesUp, Working
<1> QED BY <1>2, <1>3, <1>4

\* Activations the step leaves alone, when the turns only move quietly.
LEMMA QuietElsewhere ==
    ASSUME StorageInv, TurnInv, NEW a \in Acts, Alone(a),
           \A c \in Calls : CallQuiet(c),
           \A b \in Acts : act[b].life # "none" => act'[b].life # "none",
           NEW b \in Acts, b # a
    PROVE  WriteFits(b, act[b])' /\ ParkedFits(b, act[b])'
<1>1. act'[b] = act[b] /\ WriteFits(b, act[b]) /\ ParkedFits(b, act[b]) /\ ActOK(act[b])
  BY DEF Alone, TurnInv, StorageInv, TypeOK
<1>2. /\ \A c \in Calls : call[c].pc # "new" =>
            /\ call'[c].pc # "new" /\ call'[c].at = call[c].at
            /\ call'[c].kind = call[c].kind /\ call'[c].wanted = call[c].wanted
      /\ \A c \in Calls : Working(c)' =>
            call'[c] = call[c] \/ call'[c].pc = "ending" \/ ~act'[call'[c].at].reload
  BY QuietTurns
<1>3. Busy(act[b]) => act[b].pending.owner \in Calls \cup {Flush}
                      /\ (act[b].pending.op # "save" => act[b].pending.owner \in Calls)
  BY DEF StorageInv, TypeOK, ActOK, WriteOK, FreshInv, FreshCopy
<1>4. WriteFits(b, act[b])' BY <1>1, <1>2, <1>3, ConfigAssumption DEF WriteFits, Busy
<1>5. ParkedFits(b, act[b])' BY <1>1, <1>2 DEF ParkedFits, Working, Losing, Busy
<1> QED BY <1>4, <1>5

LEMMA QuietTurn ==
    ASSUME StorageInv, TurnInv, NEW a \in Acts, QuietStep(a)
    PROVE  TurnInv'
<1> DEFINE s == act[a]
           t == act'[a]
<1>1. \A b \in Acts : act[b].life # "none" => act'[b].life # "none"
  BY DEF QuietStep, Steady, Alone
<1>2. Alone(a) /\ Steady(s, t) /\ t.pending = s.pending /\ \A c \in Calls : CallQuiet(c)
  BY DEF QuietStep
<1>3. /\ \A c \in Calls : CallFits(c)'
      /\ \A c \in Calls : call[c].pc # "new" =>
            /\ call'[c].pc # "new" /\ call'[c].at = call[c].at
            /\ call'[c].kind = call[c].kind /\ call'[c].wanted = call[c].wanted
      /\ \A c \in Calls : Working(c)' =>
            call'[c] = call[c] \/ call'[c].pc = "ending" \/ ~act'[call'[c].at].reload
  BY <1>1, <1>2, QuietTurns
<1>4. WriteFits(a, s) /\ ParkedFits(a, s) BY DEF TurnInv
<1>5. Busy(s) => s.pending.owner \in Calls \cup {Flush}
                 /\ (s.pending.op # "save" => s.pending.owner \in Calls)
  BY DEF StorageInv, TypeOK, ActOK, WriteOK, FreshInv, FreshCopy
<1>6. WriteFits(a, act[a])'
  BY <1>2, <1>3, <1>4, <1>5, ConfigAssumption DEF WriteFits, Busy, Steady
<1>7. ParkedFits(a, act[a])'
  BY <1>2, <1>3, <1>4 DEF ParkedFits, Working, Losing, Busy, Steady
<1>8. \A b \in Acts : WriteFits(b, act[b])' /\ ParkedFits(b, act[b])'
  BY <1>1, <1>2, <1>6, <1>7, QuietElsewhere
<1> QED BY <1>3, <1>8 DEF TurnInv

LEMMA LoadTurn ==
    ASSUME StorageInv, TurnInv, NEW a \in Acts, LoadStep(a)
    PROVE  TurnInv'
<1>1. \A b \in Acts : act[b].life # "none" => act'[b].life # "none"
  BY DEF LoadStep, Alone
<1>2. /\ Alone(a) /\ ~Busy(act'[a]) /\ ~Losing(act'[a]) /\ act'[a].life # "none"
      /\ \A c \in Calls : CallQuiet(c)
  BY DEF LoadStep, Busy
<1>3. \A c \in Calls : CallFits(c)' BY <1>1, <1>2, QuietTurns
<1>4. WriteFits(a, act[a])' /\ ParkedFits(a, act[a])'
  BY <1>2 DEF WriteFits, ParkedFits, Losing, Busy
<1>5. \A b \in Acts : WriteFits(b, act[b])' /\ ParkedFits(b, act[b])'
  BY <1>1, <1>2, <1>4, QuietElsewhere
<1> QED BY <1>3, <1>5 DEF TurnInv

\* Activations the step leaves alone, when one turn elsewhere goes on.
LEMMA OneElsewhere ==
    ASSUME StorageInv, TurnInv, NEW a \in Acts, Alone(a), NEW c \in Calls, Only(c),
           call[c].at = a, call'[c].at = a, call'[c].kind = call[c].kind,
           call[c].pc # "new", call'[c].pc # "new",
           NEW b \in Acts, b # a
    PROVE  WriteFits(b, act[b])' /\ ParkedFits(b, act[b])'
<1>1. act'[b] = act[b] /\ WriteFits(b, act[b]) /\ ParkedFits(b, act[b])
  BY DEF Alone, TurnInv
<1>2. Busy(act[b]) => act[b].pending.owner \in Calls \cup {Flush}
                      /\ (act[b].pending.op # "save" => act[b].pending.owner \in Calls)
  BY DEF StorageInv, TypeOK, ActOK, WriteOK, FreshInv, FreshCopy
<1>3. \A e \in Calls : call[e].at = b => call'[e] = call[e] BY DEF Only
<1>4. \A e \in Calls : call'[e].at = b => call'[e] = call[e] BY DEF Only
<1>5. Busy(act[b]) /\ act[b].pending.owner # Flush => call[act[b].pending.owner].at = b
  BY <1>1 DEF WriteFits
<1>6. Busy(act[b]) /\ act[b].pending.op # "save" => act[b].pending.owner # Flush
  BY <1>2, ConfigAssumption
<1>7. Busy(act[b]) => act[b].pending.op = "append" \/ act[b].pending.op = "clear"
                      \/ act[b].pending.op = "save"
  BY DEF StorageInv, TypeOK, ActOK, WriteOK, Busy
<1>8. WriteFits(b, act[b])'
  BY <1>1, <1>2, <1>3, <1>5, <1>6, <1>7 DEF WriteFits, Busy
<1>9. ParkedFits(b, act[b])' BY <1>1, <1>4 DEF ParkedFits, Working, Losing, Busy
<1> QED BY <1>8, <1>9

\* CallFits of the turns that do not move.
LEMMA OthersFit ==
    ASSUME TurnInv, \A b \in Acts : act[b].life # "none" => act'[b].life # "none",
           NEW c \in Calls, Only(c), CallFits(c)'
    PROVE  \A e \in Calls : CallFits(e)'
<1>1. \A e \in Calls : CallFits(e) BY DEF TurnInv
<1>2. \A e \in Calls : e # c => call'[e] = call[e] BY DEF Only
<1> QED BY <1>1, <1>2 DEF CallFits

LEMMA TouchTurn ==
    ASSUME StorageInv, TurnInv, NEW a \in Acts, NEW c \in Calls, TouchStep(a, c)
    PROVE  TurnInv'
<1> DEFINE s == act[a]
           t == act'[a]
<1>1. /\ Alone(a) /\ Steady(s, t) /\ Only(c) /\ call[c].at = a /\ call[c].pc = "running"
      /\ t.pending = s.pending
      /\ \/ call[c].kind = "write" /\ GoesOn(c, "ending")
         \/ call[c].kind \in {"save", "eventual"} /\ GoesOn(c, "mutated")
  BY DEF TouchStep
<1>2. CallFits(c) /\ WriteFits(a, s) /\ ParkedFits(a, s) BY DEF TurnInv
<1>3. \A b \in Acts : act[b].life # "none" => act'[b].life # "none" BY <1>1 DEF Alone, Steady
<1>4. CallFits(c)' BY <1>1, <1>2, <1>3 DEF CallFits, GoesOn
<1>5. \A e \in Calls : CallFits(e)' BY <1>1, <1>3, <1>4, OthersFit
<1>6. ~s.reload BY <1>1, NotParked DEF Working
<1>7. \A e \in Calls : /\ (call[e].pc # "new" => call'[e].pc # "new") /\ call'[e].at = call[e].at
                       /\ call'[e].kind = call[e].kind /\ call'[e].wanted = call[e].wanted
  BY <1>1 DEF Only, GoesOn
<1>8. Busy(s) => s.pending.owner \in Calls \cup {Flush}
                 /\ (s.pending.op # "save" => s.pending.owner \in Calls)
  BY DEF StorageInv, TypeOK, ActOK, WriteOK, FreshInv, FreshCopy
<1>9. WriteFits(a, act[a])'
  BY <1>1, <1>2, <1>7, <1>8, ConfigAssumption DEF WriteFits, Busy, Steady
<1>10. ParkedFits(a, act[a])' BY <1>1, <1>2, <1>6 DEF ParkedFits, Losing, Busy, Steady
<1>11. call'[c].at = a /\ call'[c].kind = call[c].kind /\ call'[c].pc # "new"
  BY <1>1 DEF GoesOn
<1>12. \A b \in Acts : WriteFits(b, act[b])' /\ ParkedFits(b, act[b])'
  BY <1>1, <1>9, <1>10, <1>11, OneElsewhere
<1> QED BY <1>5, <1>12 DEF TurnInv

LEMMA VersionTurn ==
    ASSUME StorageInv, StorageInv', TurnInv, NEW a \in Acts, NEW c \in Calls, VersionStep(a, c)
    PROVE  TurnInv'
<1> DEFINE s == act[a]
           t == act'[a]
<1>1. /\ Alone(a) /\ Steady(s, t) /\ Only(c) /\ call[c].at = a
      /\ call[c].pc \in {"mutated", "running"} /\ call'[c].pc \in {"gate", "ending"}
      /\ call'[c].pc = "gate" => call[c].kind \in {"save", "append"}
      /\ call[c].kind \in {"save", "append", "eventual"}
      /\ t.pending = s.pending
      /\ call'[c].at = a /\ call'[c].kind = call[c].kind /\ call'[c].err = call[c].err
      /\ call'[c].wanted = t.version /\ s.version < t.version
  BY DEF VersionStep
<1>2. CallFits(c) /\ WriteFits(a, s) /\ ParkedFits(a, s) BY DEF TurnInv
<1>3. \A b \in Acts : act[b].life # "none" => act'[b].life # "none" BY <1>1 DEF Alone, Steady
<1>4. t.version > 0
  <2>1. s.version \in Nat /\ t.version \in Nat BY DEF StorageInv, TypeOK, ActOK
  <2> QED BY <1>1, <2>1
<1>5. CallFits(c)' BY <1>1, <1>2, <1>3, <1>4 DEF CallFits
<1>6. \A e \in Calls : CallFits(e)' BY <1>1, <1>3, <1>5, OthersFit
<1>7. Working(c) BY <1>1 DEF Working
<1>8. ~s.reload /\ s.life # "gone" BY <1>1, <1>7, NotParked, Placed
<1>9. \A e \in Calls : e # c => call'[e] = call[e] BY <1>1 DEF Only
<1>10. Busy(s) /\ s.pending.owner # Flush =>
          s.pending.owner \in Calls /\ s.pending.owner # c
  BY <1>1, <1>8, Writer
<1>11. Busy(s) /\ s.pending.op # "save" => s.pending.owner # Flush
  BY ConfigAssumption DEF StorageInv, FreshInv, FreshCopy
<1>12. WriteFits(a, act[a])'
  BY <1>1, <1>2, <1>9, <1>10, <1>11 DEF WriteFits, Busy, Steady
<1>13. ParkedFits(a, act[a])' BY <1>1, <1>2, <1>8 DEF ParkedFits, Losing, Busy, Steady
<1>14. \A b \in Acts : WriteFits(b, act[b])' /\ ParkedFits(b, act[b])'
  BY <1>1, <1>12, <1>13, OneElsewhere
<1> QED BY <1>6, <1>14 DEF TurnInv

LEMMA SendTurn ==
    ASSUME StorageInv, TurnInv, NEW a \in Acts, SendStep(a)
    PROVE  TurnInv'
<1> DEFINE s == act[a]
           t == act'[a]
           w == t.pending
<1>1. /\ Alone(a) /\ Steady(s, t) /\ s.life # "gone" /\ w.expect = s.etag
  BY DEF SendStep
<1>2. WriteFits(a, s) /\ ParkedFits(a, s) BY DEF TurnInv
<1>3. \A b \in Acts : act[b].life # "none" => act'[b].life # "none" BY <1>1 DEF Alone, Steady
<1>4. CASE w.owner = Flush /\ w.op = "save" /\ UNCHANGED call /\ ~Losing(s)
  <2>1. \A c \in Calls : CallQuiet(c) BY <1>4 DEF CallQuiet
  <2>2. \A c \in Calls : CallFits(c)' BY <1>3, <2>1, QuietTurns
  <2>3. WriteFits(a, act[a])' BY <1>4 DEF WriteFits
  <2>4. ParkedFits(a, act[a])' BY <1>1, <1>4 DEF ParkedFits, Losing, Steady
  <2>5. \A b \in Acts : WriteFits(b, act[b])' /\ ParkedFits(b, act[b])'
    BY <1>1, <1>3, <2>1, <2>3, <2>4, QuietElsewhere
  <2> QED BY <2>2, <2>5 DEF TurnInv
<1>5. ASSUME NEW c \in Calls, w.owner = c, Only(c), call[c].at = a, GoesOn(c, "writing"),
             \/ /\ w.op \in {"save", "append"} /\ call[c].pc = "gate"
                /\ w.op = "append" => /\ w.version = call[c].wanted
                                      /\ call[c].kind = "append" /\ s.etag # 0
                /\ s.saved < call[c].wanted /\ ~Losing(s)
             \/ /\ w.op = "clear" /\ call[c].pc = "running" /\ call[c].kind = "clear"
                /\ w.version = 0
      PROVE  TurnInv'
  <2>1. CallFits(c) BY DEF TurnInv
  <2>2. CallFits(c)' BY <1>3, <1>5, <2>1 DEF CallFits, GoesOn
  <2>3. \A e \in Calls : CallFits(e)' BY <1>3, <1>5, <2>2, OthersFit
  <2>4. ~s.reload BY <1>5, NotParked DEF Working
  <2>5. WriteFits(a, act[a])' BY <1>1, <1>5 DEF WriteFits, GoesOn, Steady
  <2>6. ParkedFits(a, act[a])' BY <1>1, <1>5, <2>4 DEF ParkedFits, Losing, Steady
  <2>7. call'[c].at = a /\ call'[c].kind = call[c].kind /\ call'[c].pc # "new" /\ call[c].pc # "new"
    BY <1>5 DEF GoesOn
  <2>8. \A b \in Acts : WriteFits(b, act[b])' /\ ParkedFits(b, act[b])'
    BY <1>1, <1>5, <2>5, <2>6, <2>7, OneElsewhere
  <2> QED BY <2>3, <2>8 DEF TurnInv
<1> QED BY <1>4, <1>5 DEF SendStep

LEMMA AnswerTurn ==
    ASSUME StorageInv, TurnInv, NEW a \in Acts, NEW R, Answers(a, R)
    PROVE  TurnInv'
<1> DEFINE s == act[a]
           t == act'[a]
<1>1. /\ Alone(a) /\ Steady(s, t) /\ call' = call
      /\ t.pending.op = s.pending.op /\ t.pending.owner = s.pending.owner
      /\ t.pending.state = s.pending.state /\ t.pending.expect = s.pending.expect
      /\ t.pending.version = s.pending.version
  BY DEF Answers
<1>2. WriteFits(a, s) /\ ParkedFits(a, s) BY DEF TurnInv
<1>3. \A b \in Acts : act[b].life # "none" => act'[b].life # "none" BY <1>1 DEF Alone, Steady
<1>4. \A c \in Calls : CallQuiet(c) BY <1>1, NoCallMoves
<1>5. \A c \in Calls : CallFits(c)' BY <1>3, <1>4, QuietTurns
<1>6. WriteFits(a, act[a])' BY <1>1, <1>2 DEF WriteFits, Busy, Steady
<1>7. ParkedFits(a, act[a])' BY <1>1, <1>2 DEF ParkedFits, Working, Busy, Losing, Steady
<1>8. \A b \in Acts : WriteFits(b, act[b])' /\ ParkedFits(b, act[b])'
  BY <1>1, <1>3, <1>4, <1>6, <1>7, QuietElsewhere
<1> QED BY <1>5, <1>8 DEF TurnInv

LEMMA ReplyTurn ==
    ASSUME StorageInv, TurnInv, NEW a \in Acts, ReplyStep(a)
    PROVE  TurnInv'
<1> DEFINE s == act[a]
           t == act'[a]
           w == s.pending
           c == w.owner
<1>1. /\ Alone(a) /\ s.life \notin {"none", "gone"} /\ t.life # "none"
      /\ Busy(s) /\ w.reply # "sent" /\ t.pending = NoWrite
      /\ Losing(t) <=> Losing(s) \/ (w.reply = "conflict" /\ w.op # "clear")
      /\ ~(t.faulted /\ t.reload)
      /\ t.reload /\ t.life # "gone" =>
            /\ ~t.flushing
            /\ s.reload \/ (c # Flush /\ ~Interleave)
  BY DEF ReplyStep
<1>2. WriteFits(a, s) /\ ParkedFits(a, s) BY DEF TurnInv
<1>3. \A b \in Acts : act[b].life # "none" => act'[b].life # "none" BY <1>1 DEF Alone
<1>4. ~Busy(t) BY <1>1 DEF Busy, NoWrite
<1>5. WriteFits(a, act[a])' BY <1>4 DEF WriteFits
<1>6. CASE c = Flush /\ UNCHANGED call
  <2>1. \A e \in Calls : CallQuiet(e) BY <1>6, NoCallMoves
  <2>2. \A e \in Calls : CallFits(e)' BY <1>3, <2>1, QuietTurns
  <2>3. ParkedFits(a, act[a])' BY <1>1, <1>2, <1>4, <1>6 DEF ParkedFits, Working
  <2>4. \A b \in Acts : WriteFits(b, act[b])' /\ ParkedFits(b, act[b])'
    BY <1>1, <1>3, <1>5, <2>1, <2>3, QuietElsewhere
  <2> QED BY <2>2, <2>4 DEF TurnInv
<1>7. CASE c \in Calls /\ call[c].pc = "writing" /\ call[c].at = a /\ Only(c)
  <2>1. PICK e \in Calls : e = c BY <1>7
  <2>2. CallFits(e) BY DEF TurnInv
  <2>3. e # Flush BY <2>1, ConfigAssumption
  <2>4. /\ call[e].kind = "clear" => call[e].wanted = 0
        /\ call[e].kind \in {"save", "append", "clear"}
        /\ call[e].kind # "clear" => call[e].wanted > 0
        /\ w.op # "clear" => s.saved < call[e].wanted
        /\ call[e].err = "none"
    BY <1>1, <1>2, <1>7, <2>1, <2>2, <2>3 DEF CallFits, WriteFits
  <2>5. w.op = "save" => call[e].kind # "clear"
    <3>1. s.saved \in Nat BY DEF StorageInv, TypeOK, ActOK
    <3> QED BY <2>4, <3>1
  <2>6. /\ call'[e].at = a /\ call'[e].kind = call[e].kind /\ call'[e].wanted = call[e].wanted
        /\ \/ call'[e].pc = "ending"
           \/ call'[e].pc = "gate" /\ w.op = "save" /\ w.reply = "ok" /\ call'[e].err = "none"
    BY <1>7, <2>1, <2>3, <2>4 DEF ReplyStep, GoesOn, GivesUp
  <2>7. CallFits(e)' BY <1>3, <1>7, <2>1, <2>2, <2>4, <2>5, <2>6 DEF CallFits
  <2>8. Only(e) BY <1>7, <2>1
  <2>9. \A d \in Calls : CallFits(d)' BY <1>3, <2>7, <2>8, OthersFit
  <2>10. Working(e) /\ call[e].pc # "ending" BY <1>7, <2>1 DEF Working
  <2>11. ~s.reload BY <1>7, <2>1, <2>10, NotParked
  <2>12. t.reload /\ t.life # "gone" =>
            \A d \in Calls : Working(d)' /\ call'[d].at = a => call'[d].pc = "ending"
    <3>1. SUFFICES ASSUME t.reload, t.life # "gone", NEW d \in Calls, Working(d)', call'[d].at = a
                   PROVE  call'[d].pc = "ending"
      OBVIOUS
    <3>2. ~Interleave BY <1>1, <2>11, <3>1
    <3>3. s.lane # <<>> /\ Head(s.lane) = e BY <1>7, <2>1, <2>10, <3>2, TurnPlace
    <3>4. d # e => call'[d] = call[d] BY <2>8 DEF Only
    <3>5. d # e => Working(d) /\ call[d].at = a BY <3>1, <3>4 DEF Working
    <3>6. d = e BY <1>7, <2>1, <2>10, <3>2, <3>3, <3>5, HeadAlone DEF Over, Working
    <3>7. Losing(t) BY <3>1 DEF Losing
    <3>8. w.op # "clear" => ~Losing(s) BY <1>1, <1>2 DEF ParkedFits
    <3>9. ~(w.op = "save" /\ w.reply = "ok") BY <1>1, <3>7, <3>8
    <3> QED BY <2>6, <3>6, <3>9
  <2>13. ParkedFits(a, act[a])' BY <1>1, <1>4, <2>12 DEF ParkedFits
  <2>14. \A b \in Acts : WriteFits(b, act[b])' /\ ParkedFits(b, act[b])'
    <3>1. call'[e].pc # "new" /\ call[e].pc # "new" /\ call[e].at = a BY <1>7, <2>1, <2>6
    <3> QED BY <1>1, <1>5, <2>6, <2>8, <2>13, <3>1, OneElsewhere
  <2> QED BY <2>9, <2>14 DEF TurnInv
<1> QED BY <1>6, <1>7 DEF ReplyStep

LEMMA TurnStep ==
    ASSUME StorageInv, StorageInv', TurnInv, Step
    PROVE  TurnInv'
BY QuietTurn, LoadTurn, SendTurn, AnswerTurn, ReplyTurn, TouchTurn, VersionTurn
DEF Step, RefuseStep, LandStep

LEMMA TurnStart == Init => TurnInv
BY DEF Init, TurnInv, CallFits, NoCall, WriteFits, ParkedFits, Idle, Busy, Losing, NoWrite

LEMMA TurnStutter ==
    ASSUME TurnInv, UNCHANGED vars
    PROVE  TurnInv'
BY DEF TurnInv, CallFits, WriteFits, ParkedFits, Busy, Losing, Working, vars

-----------------------------------------------------------------------------
(* A faulted activation writes nothing.                                    *)

\* What a write that lands leaves: no etag minted before it is the record's.
LEMMA LandFacts ==
    ASSUME UniqueEtags, StorageInv, NEW a \in Acts, LandStep(a)
    PROVE  LET w == act[a].pending IN
           /\ w.op \in {"save", "append", "clear"} /\ (w.op # "save" => w.owner \in Calls)
           /\ act[a].etag = record.etag /\ w.expect = record.etag
           /\ w.op = "clear" => /\ record' = NoRecord /\ record'.etag = 0 /\ Durable' = {}
                                /\ wiped' = wiped \cup Durable
           /\ w.op # "clear" => wiped' = wiped /\ record'.etag > 0
           /\ w.op = "save" => Durable' = w.state
           /\ w.op = "append" => Durable' = Durable \cup {w.owner}
           /\ Durable \subseteq Durable' \cup wiped'
           /\ \A e \in 0..minted : e # record'.etag \/ e = 0
<1> DEFINE w == act[a].pending
<1>1. /\ w.reply = "sent" /\ Busy(act[a]) /\ record.etag = w.expect /\ record' = Stored(w)
      /\ wiped' = IF w.op = "clear" THEN wiped \cup Durable ELSE wiped
  BY DEF LandStep, Answers
<1>2. ActOK(act[a]) /\ FreshCopy(act[a]) /\ RecordOK(record) /\ minted \in Nat
  BY DEF StorageInv, TypeOK, FreshInv
<1>3. WriteOK(w) /\ w.op # "none" BY <1>1, <1>2 DEF ActOK, Busy
<1>4. w.op # "save" => w.owner \in Calls BY <1>1, <1>2 DEF FreshCopy
<1>5. Durable' = Fold(Stored(w)) /\ record'.etag = Stored(w).etag
  BY <1>1 DEF Durable, Fold, Entries
<1>6. w.op = "clear" => record' = NoRecord /\ NoRecord.etag = 0 BY <1>1 DEF Stored, NoRecord
<1>7. /\ w.op = "clear" => record'.etag = 0 /\ Durable' = {}
      /\ w.op = "save" => record'.etag = minted + 1 /\ Durable' = w.state
      /\ w.op = "append" => record'.etag = minted + 1 /\ Durable' = Durable \cup {w.owner}
  BY <1>2, <1>3, <1>4, <1>5, StoredFacts
<1>8. w.op = "save" => Durable \subseteq w.state \cup wiped
  BY <1>1, <1>2 DEF FreshCopy
<1>9. act[a].etag = record.etag BY <1>1, <1>2 DEF FreshCopy
<1>10. w.op \in {"save", "append", "clear"} BY <1>3 DEF WriteOK
<1>11. \A e \in 0..minted : e # record'.etag \/ e = 0 BY <1>2, <1>7, <1>10
<1>12. w.op # "clear" => record'.etag > 0 BY <1>2, <1>7, <1>10
<1>13. Durable \subseteq Durable' \cup wiped' BY <1>1, <1>7, <1>8, <1>10
<1> QED BY <1>1, <1>4, <1>6, <1>7, <1>9, <1>10, <1>11, <1>12, <1>13

\* Etags are minted ones.
LEMMA EtagFacts ==
    ASSUME StorageInv, NEW a \in Acts
    PROVE  /\ act[a].etag \in 0..minted
           /\ Busy(act[a]) => act[a].pending.expect = act[a].etag
BY DEF StorageInv, FreshInv, FreshCopy, TypeOK, ActOK

LEMMA FaultStep ==
    ASSUME UniqueEtags, StorageInv, TurnInv, FaultInv, Step
    PROVE  FaultInv'
<1>1. /\ record.etag = 0 => record = NoRecord
      /\ \A b \in Acts :
            /\ Losing(act[b]) => StaleEtag(act[b].etag)
            /\ Busy(act[b]) /\ act[b].pending.reply = "conflict" /\ act[b].pending.op # "clear"
                  => StaleEtag(act[b].pending.expect)
  BY DEF FaultInv
\* The record stays: only the activation that steps is to be looked at.
<1>2. ASSUME NEW a \in Acts, Alone(a), record' = record,
             Losing(act'[a]) => StaleEtag(act'[a].etag),
             Busy(act'[a]) /\ act'[a].pending.reply = "conflict" /\ act'[a].pending.op # "clear"
                 => StaleEtag(act'[a].pending.expect)
      PROVE  FaultInv'
  <2>1. \A b \in Acts : b # a => act'[b] = act[b] BY <1>2 DEF Alone
  <2> QED BY <1>1, <1>2, <2>1 DEF FaultInv, StaleEtag
<1>3. ASSUME NEW a \in Acts, Alone(a), record' = record, Steady(act[a], act'[a]),
             act'[a].pending = act[a].pending
      PROVE  FaultInv'
  BY <1>1, <1>2, <1>3 DEF Steady, Busy
<1>4. ASSUME NEW a \in Acts, QuietStep(a) PROVE FaultInv' BY <1>3, <1>4 DEF QuietStep
<1>5. ASSUME NEW a \in Acts, NEW c \in Calls, TouchStep(a, c) \/ VersionStep(a, c)
      PROVE  FaultInv'
  BY <1>3, <1>5 DEF TouchStep, VersionStep
<1>6. ASSUME NEW a \in Acts, LoadStep(a) PROVE FaultInv'
  BY <1>2, <1>6 DEF LoadStep, Busy
<1>7. ASSUME NEW a \in Acts, SendStep(a) PROVE FaultInv'
  <2>1. /\ Alone(a) /\ record' = record /\ Steady(act[a], act'[a])
        /\ act'[a].pending.reply = "sent"
    BY <1>7 DEF SendStep
  <2> QED BY <1>1, <1>2, <2>1 DEF Steady
<1>8. ASSUME NEW a \in Acts, RefuseStep(a) PROVE FaultInv'
  <2>1. /\ Alone(a) /\ record' = record /\ Steady(act[a], act'[a])
        /\ act'[a].pending.expect = act[a].pending.expect
        /\ act'[a].pending.reply = "conflict" => record.etag # act[a].pending.expect
    BY <1>8 DEF RefuseStep, Answers
  <2> QED BY <1>1, <1>2, <2>1 DEF Steady, StaleEtag
<1>9. ASSUME NEW a \in Acts, LandStep(a) PROVE FaultInv'
  <2>1. /\ record'.etag = 0 => record' = NoRecord
        /\ \A e \in 0..minted : e # record'.etag \/ e = 0
    BY <1>9, LandFacts
  <2>2. /\ Alone(a) /\ Steady(act[a], act'[a])
        /\ act'[a].pending.expect = act[a].pending.expect /\ Busy(act[a])
    BY <1>9 DEF LandStep, Answers
  <2>3. \A b \in Acts : act'[b].etag \in 0..minted
                        /\ (Busy(act'[b]) => act'[b].pending.expect \in 0..minted)
    BY <2>2, EtagFacts DEF Alone, Steady
  <2> QED BY <2>1, <2>3 DEF FaultInv, StaleEtag
<1>10. ASSUME NEW a \in Acts, ReplyStep(a) PROVE FaultInv'
  <2> DEFINE s == act[a]
             t == act'[a]
             w == s.pending
  <2>1. /\ Alone(a) /\ record' = record /\ t.pending = NoWrite /\ Busy(s)
        /\ (w.reply = "ok" /\ w.op = "clear") => t.etag = 0
        /\ ~(w.reply = "ok" /\ w.op # "clear") /\ ~(w.reply = "ok" /\ w.op = "clear")
              => t.etag = s.etag
        /\ Losing(t) <=> Losing(s) \/ (w.reply = "conflict" /\ w.op # "clear")
    BY <1>10 DEF ReplyStep
  <2>2. Losing(s) => w.op = "clear" BY <2>1 DEF TurnInv, ParkedFits
  <2>3. w.expect = s.etag BY <2>1, EtagFacts
  <2>4. Losing(t) => StaleEtag(t.etag) BY <1>1, <2>1, <2>2, <2>3 DEF StaleEtag
  <2>5. ~Busy(t) BY <2>1 DEF Busy, NoWrite
  <2> QED BY <1>2, <2>1, <2>4, <2>5
<1> QED BY <1>4, <1>5, <1>6, <1>7, <1>8, <1>9, <1>10 DEF Step

LEMMA FaultStart == Init => FaultInv
BY DEF Init, FaultInv, NoRecord, Idle, Losing, Busy, NoWrite

LEMMA FaultStutter ==
    ASSUME FaultInv, UNCHANGED vars
    PROVE  FaultInv'
BY DEF FaultInv, StaleEtag, vars

\* A step of an activation that lost changes no record: at most a clear of its
\* passes the compare-and-swap, on a record that is gone already.
LEMMA LosersWriteNothing ==
    ASSUME UniqueEtags, StorageInv, TurnInv, FaultInv, Step, NEW a \in Acts,
           act[a].faulted, act[a].pending # act'[a].pending
    PROVE  record' = record
<1>0. \A b \in Acts :
         /\ QuietStep(b) => record' = record
         /\ LoadStep(b) => record' = record
         /\ SendStep(b) => record' = record
         /\ RefuseStep(b) => record' = record
         /\ ReplyStep(b) => record' = record
         /\ \A c \in Calls : TouchStep(b, c) \/ VersionStep(b, c) => record' = record
  BY DEF QuietStep, LoadStep, SendStep, RefuseStep, ReplyStep, TouchStep, VersionStep
<1>1. SUFFICES ASSUME NEW b \in Acts, LandStep(b) PROVE record' = record
  BY <1>0 DEF Step
<1>2. a = b BY <1>1 DEF LandStep, Answers, Alone
<1>3. Losing(act[a]) /\ Busy(act[a]) BY <1>1, <1>2 DEF Losing, LandStep, Answers
<1>4. act[a].pending.op = "clear" BY <1>3 DEF TurnInv, ParkedFits
<1>5. act[a].etag = record.etag /\ record' = NoRecord BY <1>1, <1>2, <1>4, LandFacts
<1>6. record.etag = 0 BY <1>3, <1>5 DEF FaultInv, StaleEtag
<1> QED BY <1>5, <1>6 DEF FaultInv

\* The invariants so far hold in every state.
LEMMA TurnsAndFaults ==
    ASSUME UniqueEtags
    PROVE  Spec => [](StorageInv /\ TurnInv /\ FaultInv)
<1> DEFINE I == StorageInv /\ TurnInv /\ FaultInv
<1>1. Init => I BY InitInv, TurnStart, FaultStart
<1>2. I /\ [Next]_vars => I'
  <2>1. ASSUME I, [Next]_vars PROVE I'
    <3>1. StorageInv' BY <2>1, NextInv
    <3>2. CASE Next BY <2>1, <3>1, <3>2, NextSteps, TurnStep, FaultStep
    <3>3. CASE UNCHANGED vars BY <2>1, <3>1, <3>3, TurnStutter, FaultStutter
    <3> QED BY <2>1, <3>2, <3>3
  <2> QED BY <2>1
<1> QED BY <1>1, <1>2, PTL DEF Spec

\* FaultedNeverWrites: once an activation has lost a compare-and-swap, no write
\* of it -- not the save of a turn that ran on, not a clear, not the flush at
\* its deactivation -- changes the record (activation.ts: the fault is checked
\* at the gate, and the record's etag is never its own again).
THEOREM FaultedWritesNothing ==
    ASSUME UniqueEtags
    PROVE  Spec => FaultedNeverWrites
<1>1. StorageInv /\ TurnInv /\ FaultInv /\ [Next]_vars =>
         [\A a \in Acts : act[a].faulted /\ act[a].pending # act'[a].pending
                            => record' = record]_vars
  <2> SUFFICES ASSUME StorageInv, TurnInv, FaultInv, Next, NEW a \in Acts,
                      act[a].faulted, act[a].pending # act'[a].pending
               PROVE  record' = record
    OBVIOUS
  <2> QED BY NextSteps, LosersWriteNothing
<1> QED BY <1>1, TurnsAndFaults, PTL DEF Spec, FaultedNeverWrites

-----------------------------------------------------------------------------
(* What counts as saved is kept.                                           *)

\* Turns that have asked for a version, or are about to, have begun.
LEMMA Begun ==
    ASSUME StorageInv, TurnInv, NEW c \in Calls, call[c].wanted > 0 \/ call[c].pc = "mutated"
    PROVE  call[c].pc \notin {"new", "queued", "running"} /\ call[c].at \in Acts
<1>1. call[c].wanted \in Nat /\ CallFits(c) BY DEF StorageInv, TypeOK, CallOK, TurnInv
<1>2. call[c].pc \in {"new", "queued", "running"} => call[c].wanted = 0
  BY <1>1 DEF CallFits
<1> QED BY <1>1, <1>2 DEF CallFits

\* What is kept stays kept, and a turn that was resolved stays resolved.
LEMMA KeptStays ==
    ASSUME UniqueEtags, StorageInv, TurnInv, Step, NEW c \in Calls, Kept(c)
    PROVE  Kept(c)'
<1>1. ASSUME NEW a \in Acts, LandStep(a) PROVE Kept(c)'
  <2>1. Durable \subseteq Durable' \cup wiped' /\ wiped \subseteq wiped'
    BY <1>1, LandFacts
  <2> QED BY <2>1 DEF Kept
<1>2. ASSUME record' = record, wiped \subseteq wiped' PROVE Kept(c)'
  BY <1>2 DEF Kept, Durable, Fold, Entries
<1>3. \A a \in Acts :
         /\ QuietStep(a) => record' = record /\ wiped \subseteq wiped'
         /\ LoadStep(a) => record' = record /\ wiped \subseteq wiped'
         /\ SendStep(a) => record' = record /\ wiped \subseteq wiped'
         /\ RefuseStep(a) => record' = record /\ wiped \subseteq wiped'
         /\ ReplyStep(a) => record' = record /\ wiped \subseteq wiped'
         /\ \A e \in Calls : TouchStep(a, e) \/ VersionStep(a, e)
               => record' = record /\ wiped \subseteq wiped'
  BY DEF QuietStep, LoadStep, SendStep, RefuseStep, ReplyStep, TouchStep, VersionStep
<1> QED BY <1>1, <1>2, <1>3 DEF Step

LEMMA ResolvedStays ==
    ASSUME UniqueEtags, StorageInv, TurnInv, Step, NEW c \in Calls,
           call[c].pc \notin {"new", "queued", "running"}, Resolved(c)
    PROVE  Resolved(c)'
<1>1. CASE Kept(c) BY <1>1, KeptStays DEF Resolved
<1>2. CASE c \in dropped /\ ~Waiting(c)
  <2>1. dropped \subseteq dropped'
    <3>1. \A a \in Acts :
            /\ QuietStep(a) => dropped \subseteq dropped'
            /\ LoadStep(a) => dropped \subseteq dropped'
            /\ SendStep(a) => dropped \subseteq dropped'
            /\ RefuseStep(a) => dropped \subseteq dropped'
            /\ LandStep(a) => dropped \subseteq dropped'
            /\ ReplyStep(a) => dropped \subseteq dropped'
            /\ \A e \in Calls : TouchStep(a, e) \/ VersionStep(a, e) => dropped \subseteq dropped'
      BY DEF QuietStep, LoadStep, SendStep, RefuseStep, LandStep, Answers, ReplyStep, TouchStep,
             VersionStep
    <3> QED BY <3>1 DEF Step
  <2>2. call[c].pc \in {"ending", "done"}
    <3>1. CallOK(call[c]) BY DEF StorageInv, TypeOK
    <3> QED BY <1>2, <3>1 DEF Waiting, CallOK
  <2>3. call'[c].pc \in {"ending", "done"}
    <3>1. ASSUME NEW a \in Acts, QuietStep(a) \/ LoadStep(a) PROVE call'[c].pc \in {"ending", "done"}
      <4>1. CallQuiet(c) BY <3>1 DEF QuietStep, LoadStep
      <4> QED BY <2>2, <4>1 DEF CallQuiet, GoesOn, GivesUp
    <3>2. ASSUME NEW a \in Acts, SendStep(a) PROVE call'[c] = call[c]
      BY <2>2, <3>2 DEF SendStep, Only
    <3>3. ASSUME NEW a \in Acts, RefuseStep(a) \/ LandStep(a) PROVE call'[c] = call[c]
      BY <3>3 DEF RefuseStep, LandStep, Answers
    <3>4. ASSUME NEW a \in Acts, ReplyStep(a) PROVE call'[c] = call[c]
      BY <2>2, <3>4 DEF ReplyStep, Only
    <3>5. ASSUME NEW a \in Acts, NEW e \in Calls, TouchStep(a, e) \/ VersionStep(a, e)
          PROVE call'[c] = call[c]
      BY <2>2, <3>5 DEF TouchStep, VersionStep, Only
    <3> QED BY <2>2, <3>1, <3>2, <3>3, <3>4, <3>5 DEF Step
  <2> QED BY <1>2, <2>1, <2>3 DEF Resolved, Waiting
<1> QED BY <1>1, <1>2 DEF Resolved

\* An activation that keeps its copy, its versions and its write.
LEMMA SameVersions ==
    ASSUME UniqueEtags, StorageInv, StorageInv', TurnInv, Step, NEW b \in Acts,
           VersionsAt(b, act[b]),
           act'[b].mem = act[b].mem, act'[b].saved = act[b].saved,
           act'[b].pending = act[b].pending, act[b].version <= act'[b].version,
           \A c \in Calls : call'[c].at = b /\ (call'[c].wanted > 0 \/ call'[c].pc = "mutated") =>
               /\ call[c].at = b /\ call'[c].wanted = call[c].wanted
               /\ call[c].wanted > 0 \/ call[c].pc = "mutated"
    PROVE  VersionsAt(b, act[b])'
<1> DEFINE s == act[b]
           t == act'[b]
<1>1. /\ s.saved \in Nat /\ s.version \in Nat /\ t.version \in Nat /\ s.pending.version \in Nat
      /\ \A c \in Calls : call[c].wanted \in Nat
  BY DEF StorageInv, TypeOK, ActOK, WriteOK, CallOK
<1>2. \A c \in Calls : (call[c].wanted > 0 \/ call[c].pc = "mutated") /\ Resolved(c)
                            => Resolved(c)'
  BY Begun, ResolvedStays
<1>3. t.saved <= t.version BY <1>1 DEF VersionsAt
<1>4. Busy(t) => t.pending.version <= t.version BY <1>1 DEF VersionsAt, Busy
<1>5. ASSUME NEW c \in Calls, call'[c].at = b, call'[c].wanted > 0
      PROVE  /\ call'[c].wanted <= t.version
             /\ call'[c].wanted <= t.saved => Resolved(c)'
             /\ Busy(t) /\ t.pending.op = "save" /\ call'[c].wanted <= t.pending.version =>
                   Resolved(c)' \/ (c \in t.pending.state /\ t.pending.reply # "ok")
             /\ \A e \in Calls : call'[e].at = b /\ call'[e].wanted = call'[c].wanted => e = c
  <2>1. call[c].at = b /\ call'[c].wanted = call[c].wanted /\ call[c].wanted > 0
    BY <1>5
  <2>2. \A e \in Calls : call'[e].at = b /\ call'[e].wanted = call'[c].wanted =>
           call[e].at = b /\ call[e].wanted = call[c].wanted
    BY <1>5, <2>1
  <2> QED BY <1>1, <1>2, <2>1, <2>2 DEF VersionsAt, Busy
<1>6. \A c \in Calls : /\ call'[c].at = b
                       /\ call'[c].wanted > 0 \/ call'[c].pc = "mutated"
                       => c \in t.mem \/ Resolved(c)'
  BY <1>2 DEF VersionsAt
<1>7. (Busy(s) /\ s.pending.op = "append" /\ s.pending.reply = "ok" => Kept(s.pending.owner))'
  <2>1. SUFFICES ASSUME Busy(t), t.pending.op = "append", t.pending.reply = "ok"
                 PROVE  Kept(s.pending.owner)'
    BY DEF Busy
  <2>2. Busy(s) /\ s.pending.op = "append" /\ s.pending.reply = "ok" BY <2>1 DEF Busy
  <2>3. s.pending.owner \in Calls BY <2>2 DEF StorageInv, FreshInv, FreshCopy
  <2>4. PICK e \in Calls : e = s.pending.owner BY <2>3
  <2>5. Kept(e) BY <2>2, <2>4 DEF VersionsAt
  <2>6. Kept(e)' /\ t.pending.owner = e BY <2>4, <2>5, KeptStays
  <2> QED BY <2>6 DEF Kept
<1> QED BY <1>3, <1>4, <1>5, <1>6, <1>7 DEF VersionsAt

\* Turns that write nothing keep the versions they asked for ...
LEMMA QuietWants ==
    ASSUME StorageInv, TurnInv, \A c \in Calls : CallQuiet(c), NEW b,
           NEW c \in Calls, call'[c].at = b, call'[c].wanted > 0 \/ call'[c].pc = "mutated"
    PROVE  /\ call[c].at = b /\ call'[c].wanted = call[c].wanted
           /\ call[c].wanted > 0 \/ call[c].pc = "mutated"
<1>1. CallQuiet(c) /\ CallFits(c) BY DEF TurnInv
<1>2. ~(0 > 0) OBVIOUS
<1> QED BY <1>1, <1>2 DEF CallQuiet, CallFits, GoesOn, GivesUp

\* ... and end well only when theirs is saved.
EndsKept ==
    \A c \in Calls :
        /\ call[c].pc \in {"ending", "done"} /\ call[c].err = "none"
        /\ call[c].kind \in {"save", "append"}
        => Kept(c)

LEMMA QuietEnds ==
    ASSUME UniqueEtags, StorageInv, TurnInv, KeptInv, Step, \A c \in Calls : CallQuiet(c)
    PROVE  EndsKept'
<1> SUFFICES ASSUME NEW c \in Calls, call'[c].pc \in {"ending", "done"}, call'[c].err = "none",
                    call'[c].kind \in {"save", "append"}
             PROVE  Kept(c)'
  BY DEF EndsKept
<1>1. CallQuiet(c) /\ CallFits(c) BY DEF TurnInv
<1>2. CASE call[c].pc = "gate"
  <2>1. /\ call[c].wanted <= act[call[c].at].saved /\ call[c].kind \in {"save", "append"}
    BY <1>1, <1>2 DEF CallQuiet, GivesUp, GoesOn
  <2>2. call[c].wanted > 0 /\ call[c].at \in Acts BY <1>1, <1>2, <2>1 DEF CallFits
  <2>3. VersionsAt(call[c].at, act[call[c].at]) BY <2>2 DEF KeptInv
  <2>4. Resolved(c) BY <2>1, <2>2, <2>3 DEF VersionsAt
  <2>5. Kept(c) BY <1>2, <2>4 DEF Resolved, Waiting
  <2> QED BY <2>5, KeptStays
<1>3. CASE call[c].pc # "gate"
  <2>1. /\ call[c].pc \in {"ending", "done"} /\ call[c].err = "none"
        /\ call[c].kind \in {"save", "append"}
    BY <1>1, <1>3 DEF CallQuiet, GivesUp, GoesOn
  <2>2. Kept(c) BY <2>1 DEF KeptInv
  <2> QED BY <2>2, KeptStays
<1> QED BY <1>2, <1>3

\* One turn moves, and ends well only if it is kept.
LEMMA OneEnds ==
    ASSUME UniqueEtags, StorageInv, TurnInv, KeptInv, Step, NEW c \in Calls, Only(c),
           /\ call'[c].pc \in {"ending", "done"} /\ call'[c].err = "none"
           /\ call'[c].kind \in {"save", "append"}
           => Kept(c)'
    PROVE  EndsKept'
<1> SUFFICES ASSUME NEW e \in Calls, call'[e].pc \in {"ending", "done"}, call'[e].err = "none",
                    call'[e].kind \in {"save", "append"}, e # c
             PROVE  Kept(e)'
  BY DEF EndsKept
<1>1. call'[e] = call[e] BY DEF Only
<1>2. Kept(e) BY <1>1 DEF KeptInv
<1> QED BY <1>2, KeptStays

LEMMA QuietKept ==
    ASSUME UniqueEtags, StorageInv, StorageInv', TurnInv, KeptInv, Step,
           NEW a \in Acts, QuietStep(a)
    PROVE  KeptInv'
<1>1. /\ \A c \in Calls : CallQuiet(c)
      /\ Alone(a) /\ act'[a].saved = act[a].saved /\ act'[a].mem = act[a].mem
      /\ act'[a].pending = act[a].pending /\ act[a].version <= act'[a].version
  BY DEF QuietStep, Steady
<1>2. EndsKept' BY <1>1, QuietEnds
<1>3. ASSUME NEW b \in Acts PROVE VersionsAt(b, act[b])'
  <2>1. /\ act'[b].saved = act[b].saved /\ act'[b].mem = act[b].mem
        /\ act'[b].pending = act[b].pending
    BY <1>1 DEF Alone
  <2>2. act[b].version <= act'[b].version
    <3>1. act[b].version \in Nat BY DEF StorageInv, TypeOK, ActOK
    <3> QED BY <1>1, <3>1 DEF Alone
  <2>3. VersionsAt(b, act[b]) BY DEF KeptInv
  <2>4. \A c \in Calls : call'[c].at = b /\ (call'[c].wanted > 0 \/ call'[c].pc = "mutated") =>
               /\ call[c].at = b /\ call'[c].wanted = call[c].wanted
               /\ call[c].wanted > 0 \/ call[c].pc = "mutated"
    BY <1>1, QuietWants
  <2> QED BY <2>1, <2>2, <2>3, <2>4, SameVersions
<1> QED BY <1>2, <1>3 DEF KeptInv, EndsKept

\* Activations left alone, when the turns of the others move.
LEMMA ElsewhereKept ==
    ASSUME UniqueEtags, StorageInv, StorageInv', TurnInv, KeptInv, Step,
           NEW a \in Acts, Alone(a), NEW b \in Acts, b # a,
           \A c \in Calls : call'[c].at = b => call'[c] = call[c] \/ CallQuiet(c)
    PROVE  VersionsAt(b, act[b])'
<1>1. act'[b] = act[b] /\ VersionsAt(b, act[b]) BY DEF Alone, KeptInv
<1>2. act[b].version <= act'[b].version
  <2>1. act[b].version \in Nat BY DEF StorageInv, TypeOK, ActOK
  <2> QED BY <1>1, <2>1
<1>3. ASSUME NEW c \in Calls, call'[c].at = b, call'[c].wanted > 0 \/ call'[c].pc = "mutated"
      PROVE  /\ call[c].at = b /\ call'[c].wanted = call[c].wanted
             /\ call[c].wanted > 0 \/ call[c].pc = "mutated"
  <2>1. CallQuiet(c) /\ CallFits(c) BY <1>3 DEF TurnInv, CallQuiet
  <2>2. ~(0 > 0) OBVIOUS
  <2> QED BY <1>3, <2>1, <2>2 DEF CallQuiet, CallFits, GoesOn, GivesUp
<1> QED BY <1>1, <1>2, <1>3, SameVersions

LEMMA LoadKept ==
    ASSUME UniqueEtags, StorageInv, StorageInv', TurnInv, KeptInv, Step,
           NEW a \in Acts, LoadStep(a)
    PROVE  KeptInv'
<1> DEFINE s == act[a]
           t == act'[a]
<1>1. /\ Alone(a) /\ \A c \in Calls : CallQuiet(c)
      /\ s.life = "none" \/ (s.reload /\ s.life # "gone")
      /\ t.mem = Durable /\ ~Busy(t) /\ t.saved = t.version /\ s.version <= t.version
      /\ s.mem \subseteq Durable \cup dropped'
      /\ record' = record
  BY DEF LoadStep, Busy
<1>2. EndsKept' BY <1>1, QuietEnds
<1>3. /\ s.version \in Nat /\ t.version \in Nat /\ \A c \in Calls : call[c].wanted \in Nat
  BY DEF StorageInv, TypeOK, ActOK, CallOK
<1>4. VersionsAt(a, s) BY DEF KeptInv
<1>5. ASSUME NEW c \in Calls, call'[c].at = a, call'[c].wanted > 0 \/ call'[c].pc = "mutated"
      PROVE  /\ call[c].at = a /\ call'[c].wanted = call[c].wanted
             /\ call[c].wanted > 0 \/ call[c].pc = "mutated"
             /\ Resolved(c)'
  <2>1. /\ call[c].at = a /\ call'[c].wanted = call[c].wanted
        /\ call[c].wanted > 0 \/ call[c].pc = "mutated"
    BY <1>1, <1>5, QuietWants
  <2>2. call[c].pc \notin {"new", "queued", "running"} BY <2>1, Begun
  <2>3. s.life # "none" BY <2>1, <2>2 DEF TurnInv, CallFits
  <2>4. Working(c) => call[c].pc = "ending"
    BY <1>1, <2>1, <2>3 DEF TurnInv, ParkedFits
  <2>5. CallOK(call[c]) BY DEF StorageInv, TypeOK
  <2>6. call[c].pc \in {"ending", "done"} BY <2>2, <2>4, <2>5 DEF CallOK, Working
  <2>7. CallQuiet(c) BY <1>1
  <2>8. call'[c].pc \in {"ending", "done"} BY <2>6, <2>7 DEF CallQuiet, GoesOn, GivesUp
  <2>9. c \in s.mem \/ Resolved(c) BY <1>4, <2>1 DEF VersionsAt
  <2>10. CASE Resolved(c) BY <2>1, <2>2, <2>10, ResolvedStays
  <2>11. CASE c \in s.mem
    <3>1. c \in Durable \/ c \in dropped' BY <1>1, <2>11
    <3>2. Kept(c) => Kept(c)' BY KeptStays
    <3> QED BY <2>1, <2>8, <3>1, <3>2 DEF Resolved, Kept, Waiting
  <2> QED BY <2>1, <2>9, <2>10, <2>11
<1>6. VersionsAt(a, act[a])'
  <2>1. \A c \in Calls : call'[c].at = a /\ call'[c].wanted > 0 => call'[c].wanted <= t.version
    <3> SUFFICES ASSUME NEW c \in Calls, call'[c].at = a, call'[c].wanted > 0
                 PROVE  call'[c].wanted <= t.version
      OBVIOUS
    <3>1. call[c].at = a /\ call'[c].wanted = call[c].wanted BY <1>5
    <3>2. call[c].wanted <= s.version BY <1>4, <3>1 DEF VersionsAt
    <3> QED BY <1>1, <1>3, <3>1, <3>2
  <2>2. \A c, e \in Calls : call'[c].at = a /\ call'[c].wanted > 0 /\ call'[e].at = a
                            /\ call'[e].wanted = call'[c].wanted => e = c
    <3> SUFFICES ASSUME NEW c \in Calls, NEW e \in Calls, call'[c].at = a, call'[c].wanted > 0,
                        call'[e].at = a, call'[e].wanted = call'[c].wanted
                 PROVE  e = c
      OBVIOUS
    <3>1. /\ call[c].at = a /\ call'[c].wanted = call[c].wanted
          /\ call[e].at = a /\ call'[e].wanted = call[e].wanted
      BY <1>5
    <3> QED BY <1>4, <3>1 DEF VersionsAt
  <2>3. t.saved <= t.version BY <1>1, <1>3
  <2> QED BY <1>1, <1>5, <2>1, <2>2, <2>3 DEF VersionsAt, Busy
<1>7. ASSUME NEW b \in Acts, b # a PROVE VersionsAt(b, act[b])'
  BY <1>1, <1>7, ElsewhereKept
<1> QED BY <1>2, <1>6, <1>7 DEF KeptInv, EndsKept

LEMMA TouchKept ==
    ASSUME UniqueEtags, StorageInv, StorageInv', TurnInv, KeptInv, Step,
           NEW a \in Acts, NEW c \in Calls, TouchStep(a, c)
    PROVE  KeptInv'
<1> DEFINE s == act[a]
           t == act'[a]
<1>1. /\ Alone(a) /\ Only(c) /\ call[c].at = a /\ call[c].pc = "running"
      /\ t.saved = s.saved /\ t.version = s.version /\ t.pending = s.pending
      /\ t.mem = s.mem \cup {c}
      /\ call'[c].at = a /\ call'[c].wanted = call[c].wanted /\ call'[c].kind = call[c].kind
      /\ \/ call[c].kind = "write" /\ call'[c].pc = "ending"
         \/ call'[c].pc = "mutated"
      /\ UNCHANGED <<record, wiped, dropped>>
  BY DEF TouchStep, Steady, GoesOn
<1>2. EndsKept' BY <1>1, OneEnds
<1>3. VersionsAt(a, s) BY DEF KeptInv
<1>4. call[c].wanted = 0 BY <1>1 DEF TurnInv, CallFits
<1>5. \A e \in Calls : e # c => call'[e] = call[e] BY <1>1 DEF Only
<1>6. \A e \in Calls : (call[e].wanted > 0 \/ call[e].pc = "mutated") /\ Resolved(e)
                           => Resolved(e)'
  BY Begun, ResolvedStays
<1>7. VersionsAt(a, act[a])'
  <2>1. ~(call'[c].wanted > 0) BY <1>1, <1>4
  <2>2. \A e \in Calls : call'[e].at = a /\ call'[e].wanted > 0 =>
           e # c /\ call'[e] = call[e]
    BY <1>5, <2>1
  <2>3. \A e, d \in Calls : call'[e].at = a /\ call'[e].wanted > 0 /\ call'[d].at = a
                            /\ call'[d].wanted = call'[e].wanted => d = e
    <3> SUFFICES ASSUME NEW e \in Calls, NEW d \in Calls, call'[e].at = a, call'[e].wanted > 0,
                        call'[d].at = a, call'[d].wanted = call'[e].wanted
                 PROVE  d = e
      OBVIOUS
    <3>1. d # c /\ e # c BY <2>1
    <3> QED BY <1>3, <1>5, <3>1 DEF VersionsAt
  <2>4. \A e \in Calls : call'[e].at = a /\ (call'[e].wanted > 0 \/ call'[e].pc = "mutated") =>
           e \in t.mem \/ Resolved(e)'
    BY <1>1, <1>3, <1>5, <1>6 DEF VersionsAt
  <2>5. t.saved <= t.version /\ (Busy(t) => t.pending.version <= t.version)
    BY <1>1, <1>3 DEF VersionsAt, Busy
  <2>6. (Busy(s) /\ s.pending.op = "append" /\ s.pending.reply = "ok" => Kept(s.pending.owner))'
    BY <1>1, <1>3 DEF VersionsAt, Busy, Kept, Durable, Fold, Entries
  <2>7. \A e \in Calls : call'[e].at = a /\ call'[e].wanted > 0 =>
          /\ call'[e].wanted <= t.version
          /\ call'[e].wanted <= t.saved => Resolved(e)'
          /\ Busy(t) /\ t.pending.op = "save" /\ call'[e].wanted <= t.pending.version =>
                Resolved(e)' \/ (e \in t.pending.state /\ t.pending.reply # "ok")
    BY <1>1, <1>3, <1>6, <2>2 DEF VersionsAt, Busy
  <2> QED BY <2>3, <2>4, <2>5, <2>6, <2>7 DEF VersionsAt
<1>8. ASSUME NEW b \in Acts, b # a PROVE VersionsAt(b, act[b])'
  BY <1>1, <1>5, <1>8, ElsewhereKept
<1> QED BY <1>2, <1>7, <1>8 DEF KeptInv, EndsKept

LEMMA VersionKept ==
    ASSUME UniqueEtags, StorageInv, StorageInv', TurnInv, KeptInv, Step,
           NEW a \in Acts, NEW c \in Calls, VersionStep(a, c)
    PROVE  KeptInv'
<1> DEFINE s == act[a]
           t == act'[a]
<1>1. /\ Alone(a) /\ Only(c) /\ call[c].at = a
      /\ t.saved = s.saved /\ t.pending = s.pending
      /\ call'[c].at = a /\ call'[c].kind = call[c].kind
      /\ call'[c].wanted = t.version /\ s.version < t.version
      /\ \/ /\ call[c].pc = "mutated" /\ call[c].kind = "eventual"
            /\ call'[c].pc = "ending" /\ t.mem = s.mem
         \/ /\ call[c].pc = "mutated" /\ call[c].kind = "save"
            /\ call'[c].pc = "gate" /\ t.mem = s.mem
         \/ /\ call[c].pc = "running" /\ call[c].kind = "append"
            /\ call'[c].pc = "gate" /\ t.mem = s.mem \cup {c}
      /\ UNCHANGED <<record, wiped, dropped>>
  BY DEF VersionStep, Steady
<1>2. EndsKept' BY <1>1, OneEnds
<1>3. VersionsAt(a, s) BY DEF KeptInv
<1>4. /\ s.version \in Nat /\ t.version \in Nat /\ s.saved \in Nat /\ s.pending.version \in Nat
      /\ \A e \in Calls : call[e].wanted \in Nat
  BY DEF StorageInv, TypeOK, ActOK, WriteOK, CallOK
<1>5. \A e \in Calls : e # c => call'[e] = call[e] BY <1>1 DEF Only
<1>6. \A e \in Calls : (call[e].wanted > 0 \/ call[e].pc = "mutated") /\ Resolved(e)
                           => Resolved(e)'
  BY Begun, ResolvedStays
<1>7. \A e \in Calls : e # c /\ call'[e].at = a => call[e].at = a /\ call'[e].wanted = call[e].wanted
                       /\ (call'[e].wanted > 0 => call[e].wanted <= s.version)
  BY <1>3, <1>5 DEF VersionsAt
<1>8. VersionsAt(a, act[a])'
  <2>1. ~(call'[c].wanted <= t.saved) /\ (Busy(s) => ~(call'[c].wanted <= s.pending.version))
    BY <1>1, <1>3, <1>4 DEF VersionsAt
  <2>2. \A e \in Calls : e # c /\ call'[e].at = a => call'[e].wanted # call'[c].wanted
    BY <1>1, <1>4, <1>7
  <2>3. \A e, d \in Calls : call'[e].at = a /\ call'[e].wanted > 0 /\ call'[d].at = a
                            /\ call'[d].wanted = call'[e].wanted => d = e
    <3> SUFFICES ASSUME NEW e \in Calls, NEW d \in Calls, call'[e].at = a, call'[e].wanted > 0,
                        call'[d].at = a, call'[d].wanted = call'[e].wanted, d # e
                 PROVE  FALSE
      OBVIOUS
    <3>1. d # c /\ e # c BY <2>2
    <3> QED BY <1>3, <1>5, <3>1 DEF VersionsAt
  <2>4. \A e \in Calls : call'[e].at = a /\ (call'[e].wanted > 0 \/ call'[e].pc = "mutated") =>
           e \in t.mem \/ Resolved(e)'
    BY <1>1, <1>3, <1>5, <1>6 DEF VersionsAt
  <2>5. t.saved <= t.version /\ (Busy(t) => t.pending.version <= t.version)
    BY <1>1, <1>3, <1>4 DEF VersionsAt, Busy
  <2>6. (Busy(s) /\ s.pending.op = "append" /\ s.pending.reply = "ok" => Kept(s.pending.owner))'
    BY <1>1, <1>3 DEF VersionsAt, Busy, Kept, Durable, Fold, Entries
  <2>7. \A e \in Calls : call'[e].at = a /\ call'[e].wanted > 0 =>
          /\ call'[e].wanted <= t.version
          /\ call'[e].wanted <= t.saved => Resolved(e)'
          /\ Busy(t) /\ t.pending.op = "save" /\ call'[e].wanted <= t.pending.version =>
                Resolved(e)' \/ (e \in t.pending.state /\ t.pending.reply # "ok")
    <3> SUFFICES ASSUME NEW e \in Calls, call'[e].at = a, call'[e].wanted > 0
                 PROVE  /\ call'[e].wanted <= t.version
                        /\ call'[e].wanted <= t.saved => Resolved(e)'
                        /\ Busy(t) /\ t.pending.op = "save" /\ call'[e].wanted <= t.pending.version =>
                              Resolved(e)' \/ (e \in t.pending.state /\ t.pending.reply # "ok")
      OBVIOUS
    <3>1. CASE e = c BY <1>1, <1>4, <2>1, <3>1 DEF Busy
    <3>2. CASE e # c
      <4>1. call'[e] = call[e] /\ call[e].at = a /\ call[e].wanted > 0 BY <1>5, <3>2
      <4>2. call'[e].wanted <= t.version BY <1>1, <1>4, <1>7, <3>2, <4>1
      <4> QED BY <1>1, <1>3, <1>6, <4>1, <4>2 DEF VersionsAt, Busy
    <3> QED BY <3>1, <3>2
  <2> QED BY <2>3, <2>4, <2>5, <2>6, <2>7 DEF VersionsAt
<1>9. ASSUME NEW b \in Acts, b # a PROVE VersionsAt(b, act[b])'
  BY <1>1, <1>5, <1>9, ElsewhereKept
<1> QED BY <1>2, <1>8, <1>9 DEF KeptInv, EndsKept

LEMMA SendKept ==
    ASSUME UniqueEtags, StorageInv, StorageInv', TurnInv, KeptInv, Step,
           NEW a \in Acts, SendStep(a)
    PROVE  KeptInv'
<1> DEFINE s == act[a]
           t == act'[a]
           w == t.pending
<1>1. /\ Alone(a) /\ t.mem = s.mem /\ t.version = s.version /\ t.saved = s.saved
      /\ w.reply = "sent"
  BY DEF SendStep, Steady
<1>2. VersionsAt(a, s) BY DEF KeptInv
<1>3. \A e \in Calls : /\ call'[e].at = call[e].at /\ call'[e].kind = call[e].kind
                       /\ call'[e].wanted = call[e].wanted
                       /\ call'[e] = call[e] \/ (call'[e].pc = "writing" /\ call[e].at = a)
  BY DEF SendStep, Only, GoesOn
<1>4. EndsKept'
  <2> SUFFICES ASSUME NEW e \in Calls, call'[e].pc \in {"ending", "done"}, call'[e].err = "none",
                      call'[e].kind \in {"save", "append"}
               PROVE  Kept(e)'
    BY DEF EndsKept
  <2>1. call'[e] = call[e] BY <1>3
  <2>2. Kept(e) BY <2>1 DEF KeptInv
  <2> QED BY <2>2, KeptStays
<1>5. /\ s.version \in Nat /\ \A e \in Calls : call[e].wanted \in Nat
  BY DEF StorageInv, TypeOK, ActOK, CallOK
<1>6. \A e \in Calls : (call[e].wanted > 0 \/ call[e].pc = "mutated") /\ Resolved(e)
                           => Resolved(e)'
  BY Begun, ResolvedStays
<1>7. \A e \in Calls : call'[e].pc = "mutated" => call[e].pc = "mutated" BY <1>3
<1>8. w.version <= s.version /\ (w.op = "save" => w.state = s.mem)
  <2>1. CASE w.op = "save" /\ w.state = s.mem /\ w.version = s.version BY <1>5, <2>1
  <2>2. CASE \E e \in Calls : /\ w.op = "append" /\ w.version = call[e].wanted /\ call[e].at = a
                              /\ s.saved < call[e].wanted
    <3>1. PICK e \in Calls : /\ w.op = "append" /\ w.version = call[e].wanted /\ call[e].at = a
                             /\ s.saved < call[e].wanted
      BY <2>2
    <3>2. s.saved \in Nat BY DEF StorageInv, TypeOK, ActOK
    <3>3. call[e].wanted > 0 BY <1>5, <3>1, <3>2
    <3> QED BY <1>2, <3>1, <3>3 DEF VersionsAt
  <2>3. CASE w.op = "clear" /\ w.version = 0 BY <1>5, <2>3
  <2> QED BY <2>1, <2>2, <2>3 DEF SendStep
<1>9. VersionsAt(a, act[a])'
  <2>1. \A e, d \in Calls : call'[e].at = a /\ call'[e].wanted > 0 /\ call'[d].at = a
                            /\ call'[d].wanted = call'[e].wanted => d = e
    BY <1>2, <1>3 DEF VersionsAt
  <2>2. \A e \in Calls : call'[e].at = a /\ (call'[e].wanted > 0 \/ call'[e].pc = "mutated") =>
           e \in t.mem \/ Resolved(e)'
    BY <1>1, <1>2, <1>3, <1>6, <1>7 DEF VersionsAt
  <2>3. \A e \in Calls : call'[e].at = a /\ call'[e].wanted > 0 =>
          /\ call'[e].wanted <= t.version
          /\ call'[e].wanted <= t.saved => Resolved(e)'
    BY <1>1, <1>2, <1>3, <1>6 DEF VersionsAt
  <2>4. \A e \in Calls : call'[e].at = a /\ call'[e].wanted > 0 /\ w.op = "save" =>
          Resolved(e)' \/ (e \in w.state /\ w.reply # "ok")
    BY <1>1, <1>8, <2>2
  <2>5. t.saved <= t.version /\ w.version <= t.version BY <1>1, <1>2, <1>8 DEF VersionsAt
  <2> QED BY <1>1, <2>1, <2>2, <2>3, <2>4, <2>5 DEF VersionsAt
<1>10. ASSUME NEW b \in Acts, b # a PROVE VersionsAt(b, act[b])'
  BY <1>1, <1>3, <1>10, ElsewhereKept
<1> QED BY <1>4, <1>9, <1>10 DEF KeptInv, EndsKept

LEMMA AnswerKept ==
    ASSUME UniqueEtags, StorageInv, StorageInv', TurnInv, KeptInv, Step,
           NEW a \in Acts, RefuseStep(a) \/ LandStep(a)
    PROVE  KeptInv'
<1> DEFINE s == act[a]
           t == act'[a]
           w == s.pending
<1>1. /\ Alone(a) /\ t.mem = s.mem /\ t.version = s.version /\ t.saved = s.saved
      /\ call' = call /\ Busy(s) /\ w.reply = "sent"
      /\ t.pending.op = w.op /\ t.pending.owner = w.owner
      /\ t.pending.state = w.state /\ t.pending.version = w.version
  BY DEF RefuseStep, LandStep, Answers, Steady
<1>2. VersionsAt(a, s) BY DEF KeptInv
<1>3. EndsKept'
  <2> SUFFICES ASSUME NEW e \in Calls, call'[e].pc \in {"ending", "done"}, call'[e].err = "none",
                      call'[e].kind \in {"save", "append"}
               PROVE  Kept(e)'
    BY DEF EndsKept
  <2>1. Kept(e) BY <1>1 DEF KeptInv
  <2> QED BY <2>1, KeptStays
<1>4. \A e \in Calls : (call[e].wanted > 0 \/ call[e].pc = "mutated") /\ Resolved(e)
                           => Resolved(e)'
  BY Begun, ResolvedStays
\* A reply that says ok is one to a write that landed.
<1>5. t.pending.reply = "ok" =>
         /\ w.op = "save" => Durable' = w.state
         /\ w.op = "append" => w.owner \in Durable'
  <2>1. CASE RefuseStep(a) BY <2>1 DEF RefuseStep, Answers
  <2>2. CASE LandStep(a) BY <2>2, LandFacts
  <2> QED BY <2>1, <2>2
<1>6. VersionsAt(a, act[a])'
  <2>1. \A e \in Calls :
          /\ call'[e].at = a /\ call'[e].wanted > 0
          /\ Busy(t) /\ t.pending.op = "save" /\ call'[e].wanted <= t.pending.version
          => Resolved(e)' \/ (e \in t.pending.state /\ t.pending.reply # "ok")
    <3> SUFFICES ASSUME NEW e \in Calls, call'[e].at = a, call'[e].wanted > 0, t.pending.op = "save",
                        call'[e].wanted <= t.pending.version
                 PROVE  Resolved(e)' \/ (e \in t.pending.state /\ t.pending.reply # "ok")
      OBVIOUS
    <3>1. Resolved(e) \/ e \in w.state BY <1>1, <1>2 DEF VersionsAt
    <3>2. CASE Resolved(e) BY <1>1, <1>4, <3>2
    <3>3. CASE e \in w.state /\ t.pending.reply = "ok"
      <4>1. e \in Durable' BY <1>1, <1>5, <3>3
      <4> QED BY <4>1 DEF Resolved, Kept
    <3> QED BY <1>1, <3>1, <3>2, <3>3
  <2>2. (Busy(s) /\ s.pending.op = "append" /\ s.pending.reply = "ok" => Kept(s.pending.owner))'
    BY <1>1, <1>5 DEF Kept
  <2>3. t.saved <= t.version /\ (Busy(t) => t.pending.version <= t.version)
    BY <1>1, <1>2 DEF VersionsAt
  <2>4. \A e, d \in Calls : call'[e].at = a /\ call'[e].wanted > 0 /\ call'[d].at = a
                            /\ call'[d].wanted = call'[e].wanted => d = e
    BY <1>1, <1>2 DEF VersionsAt
  <2>5. \A e \in Calls : call'[e].at = a /\ (call'[e].wanted > 0 \/ call'[e].pc = "mutated") =>
           e \in t.mem \/ Resolved(e)'
    BY <1>1, <1>2, <1>4 DEF VersionsAt
  <2>6. \A e \in Calls : call'[e].at = a /\ call'[e].wanted > 0 =>
          /\ call'[e].wanted <= t.version
          /\ call'[e].wanted <= t.saved => Resolved(e)'
    BY <1>1, <1>2, <1>4 DEF VersionsAt
  <2> QED BY <2>1, <2>2, <2>3, <2>4, <2>5, <2>6 DEF VersionsAt
<1>7. ASSUME NEW b \in Acts, b # a PROVE VersionsAt(b, act[b])'
  BY <1>1, <1>7, ElsewhereKept
<1> QED BY <1>3, <1>6, <1>7 DEF KeptInv, EndsKept

LEMMA ReplyKept ==
    ASSUME UniqueEtags, StorageInv, StorageInv', TurnInv, KeptInv, Step,
           NEW a \in Acts, ReplyStep(a)
    PROVE  KeptInv'
<1> DEFINE s == act[a]
           t == act'[a]
           w == s.pending
           c == w.owner
           saved   == w.reply = "ok" /\ w.op # "clear"
           cleared == w.reply = "ok" /\ w.op = "clear"
<1>1. /\ Alone(a) /\ s.life # "gone" /\ Busy(s) /\ t.pending = NoWrite /\ t.version = s.version
      /\ t.mem = IF cleared THEN {} ELSE s.mem
      /\ cleared => wiped' = wiped \cup s.mem
      /\ saved /\ w.op = "save" => t.saved = w.version
      /\ saved /\ w.op = "append" =>
            t.saved = IF s.saved = w.version - 1 THEN w.version ELSE s.saved
      /\ ~saved => t.saved = s.saved
      /\ record' = record
  BY DEF ReplyStep
<1>2. VersionsAt(a, s) /\ WriteFits(a, s) BY DEF KeptInv, TurnInv
<1>3. \A e \in Calls : /\ call'[e].at = call[e].at /\ call'[e].kind = call[e].kind
                       /\ call'[e].wanted = call[e].wanted
                       /\ call'[e] = call[e] \/ (e = c /\ call[e].at = a /\ call'[e].pc # "mutated")
  BY DEF ReplyStep, Only, GoesOn, GivesUp
<1>4. w.op \in {"save", "append", "clear"} /\ (w.op # "save" => c \in Calls /\ c # Flush)
  BY <1>1, ConfigAssumption DEF Busy, StorageInv, TypeOK, ActOK, WriteOK, FreshInv, FreshCopy
<1>5. EndsKept'
  <2> SUFFICES ASSUME NEW e \in Calls, call'[e].pc \in {"ending", "done"}, call'[e].err = "none",
                      call'[e].kind \in {"save", "append"}
               PROVE  Kept(e)'
    BY DEF EndsKept
  <2>1. CASE call'[e] = call[e]
    <3>1. Kept(e) BY <2>1 DEF KeptInv
    <3> QED BY <3>1, KeptStays
  <2>2. CASE call'[e] # call[e]
    <3>1. e = c /\ e # Flush BY <1>3, <2>2, ConfigAssumption
    <3>2. w.reply = "ok" /\ w.op # "save" BY <2>2, <3>1 DEF ReplyStep, GoesOn, GivesUp
    <3>3. w.op = "append" BY <1>1, <1>2, <1>3, <1>4, <3>1, <3>2 DEF WriteFits
    <3>4. Kept(e) BY <1>1, <1>2, <3>1, <3>2, <3>3 DEF VersionsAt
    <3> QED BY <3>4, KeptStays
  <2> QED BY <2>1, <2>2
<1>6. \A e \in Calls : (call[e].wanted > 0 \/ call[e].pc = "mutated") /\ Resolved(e)
                           => Resolved(e)'
  BY Begun, ResolvedStays
<1>7. /\ s.version \in Nat /\ s.saved \in Nat /\ w.version \in Nat
      /\ \A e \in Calls : call[e].wanted \in Nat
  BY DEF StorageInv, TypeOK, ActOK, WriteOK, CallOK
<1>8. t.saved <= t.version BY <1>1, <1>2, <1>4, <1>7 DEF VersionsAt
\* What the reply counts as saved.
<1>9. ASSUME NEW e \in Calls, call[e].at = a, call[e].wanted > 0, call[e].wanted <= t.saved
      PROVE  Resolved(e)
  <2>1. CASE saved /\ w.op = "save" BY <1>1, <1>2, <1>9, <2>1 DEF VersionsAt
  <2>2. CASE saved /\ w.op = "append"
    <3>1. CASE call[e].wanted <= s.saved BY <1>2, <1>9, <3>1 DEF VersionsAt
    <3>2. CASE ~(call[e].wanted <= s.saved)
      <4>1. s.saved = w.version - 1 /\ t.saved = w.version BY <1>1, <1>9, <2>2, <3>2
      <4>2. call[e].wanted = w.version BY <1>7, <1>9, <3>2, <4>1
      <4>3. c \in Calls /\ call[c].wanted = w.version /\ call[c].at = a
        BY <1>1, <1>2, <1>4, <2>2 DEF WriteFits
      <4>4. c = e BY <1>2, <1>9, <4>2, <4>3 DEF VersionsAt
      <4>5. Kept(e) BY <1>1, <1>2, <2>2, <4>4 DEF VersionsAt
      <4> QED BY <4>5 DEF Resolved
    <3> QED BY <3>1, <3>2
  <2>3. CASE ~saved BY <1>1, <1>2, <1>9, <2>3 DEF VersionsAt
  <2> QED BY <1>4, <2>1, <2>2, <2>3
<1>10. VersionsAt(a, act[a])'
  <2>1. ~Busy(t) BY <1>1 DEF Busy, NoWrite
  <2>2. \A e, d \in Calls : call'[e].at = a /\ call'[e].wanted > 0 /\ call'[d].at = a
                            /\ call'[d].wanted = call'[e].wanted => d = e
    BY <1>2, <1>3 DEF VersionsAt
  <2>3. \A e \in Calls : call'[e].at = a /\ (call'[e].wanted > 0 \/ call'[e].pc = "mutated") =>
           e \in t.mem \/ Resolved(e)'
    <3> SUFFICES ASSUME NEW e \in Calls, call'[e].at = a,
                        call'[e].wanted > 0 \/ call'[e].pc = "mutated"
                 PROVE  e \in t.mem \/ Resolved(e)'
      OBVIOUS
    <3>1. call[e].at = a /\ (call[e].wanted > 0 \/ call[e].pc = "mutated") BY <1>3
    <3>2. e \in s.mem \/ Resolved(e) BY <1>2, <3>1 DEF VersionsAt
    <3>3. cleared /\ e \in s.mem => Resolved(e)' BY <1>1 DEF Resolved, Kept
    <3> QED BY <1>1, <1>6, <3>1, <3>2, <3>3
  <2>4. \A e \in Calls : call'[e].at = a /\ call'[e].wanted > 0 =>
          /\ call'[e].wanted <= t.version
          /\ call'[e].wanted <= t.saved => Resolved(e)'
    BY <1>1, <1>2, <1>3, <1>6, <1>9 DEF VersionsAt
  <2> QED BY <1>8, <2>1, <2>2, <2>3, <2>4 DEF VersionsAt
<1>11. ASSUME NEW b \in Acts, b # a PROVE VersionsAt(b, act[b])'
  <2>1. \A e \in Calls : call'[e].at = b => call'[e] = call[e] BY <1>3, <1>11
  <2> QED BY <1>1, <1>11, <2>1, ElsewhereKept
<1> QED BY <1>5, <1>10, <1>11 DEF KeptInv, EndsKept

LEMMA KeptStep ==
    ASSUME UniqueEtags, StorageInv, StorageInv', TurnInv, KeptInv, Step
    PROVE  KeptInv'
BY QuietKept, LoadKept, SendKept, AnswerKept, ReplyKept, TouchKept, VersionKept DEF Step

LEMMA KeptStart == Init => KeptInv
<1> SUFFICES ASSUME Init PROVE KeptInv OBVIOUS
<1>1. \A c \in Calls : call[c].at = "none" /\ call[c].pc = "new" /\ call[c].wanted = 0
  BY DEF Init, NoCall
<1>2. \A a \in Acts : act[a].saved = 0 /\ act[a].version = 0 /\ ~Busy(act[a])
  BY DEF Init, Idle, Busy, NoWrite
<1> QED BY <1>1, <1>2 DEF KeptInv, VersionsAt

LEMMA KeptStutter ==
    ASSUME KeptInv, UNCHANGED vars
    PROVE  KeptInv'
BY DEF KeptInv, VersionsAt, Resolved, Kept, Waiting, Busy, Durable, Fold, Entries, vars

-----------------------------------------------------------------------------
(* No entry is stored twice.                                               *)

\* Nothing spreads in a step that leaves the record alone, and in which every
\* copy and every write sent holds only what its activation, or the record,
\* held before.
LEMMA NothingSpreads ==
    ASSUME NEW x \in Acts, Alone(x), record' = record,
           NEW c, \/ act'[x].mem \subseteq act[x].mem \cup Durable
                  \/ c \notin act'[x].mem,
           Busy(act'[x]) => \/ act'[x].pending.state \subseteq act[x].mem
                            \/ Busy(act[x]) /\ act'[x].pending.state = act[x].pending.state
    PROVE  /\ \A a \in Acts : Spread(c, a)' => Spread(c, a)
           /\ Unborn(c) => Unborn(c)'
<1>1. Durable' = Durable BY DEF Durable, Fold, Entries
<1>2. \A b \in Acts : b # x => act'[b] = act[b] BY DEF Alone
<1>3. \A a \in Acts : Spread(c, a)' => Spread(c, a)
  BY <1>1, <1>2 DEF Spread, Busy
<1>4. Unborn(c) => Unborn(c)' BY <1>1, <1>2 DEF Unborn, Busy
<1> QED BY <1>3, <1>4

\* The activations left alone keep their place when nothing spreads.
LEMMA SpreadElsewhere ==
    ASSUME StorageInv, TurnInv, SpreadInv, NEW x \in Acts, Alone(x), record' = record,
           NEW a \in Acts, a # x,
           NEW c \in Calls, Spread(c, a)' => Spread(c, a)
    PROVE  (call'[c] = call[c] /\ Appending(c, a)' => ApartFits(c, a, act[a])')
<1>1. act'[a] = act[a] BY DEF Alone
<1> SUFFICES ASSUME call'[c] = call[c], Appending(c, a)' PROVE ApartFits(c, a, act[a])'
  OBVIOUS
<1>2. Appending(c, a) BY <1>1 DEF Appending
<1>3. ApartFits(c, a, act[a]) BY <1>2 DEF SpreadInv
<1> QED BY <1>1, <1>3 DEF ApartFits, Busy

LEMMA SentElsewhere ==
    ASSUME StorageInv, TurnInv, SpreadInv, NEW x \in Acts, Alone(x), record' = record,
           NEW a \in Acts, a # x,
           \A c \in Calls : call[c].kind = "append" /\ call[c].at = a =>
               (Spread(c, a)' => Spread(c, a))
    PROVE  SentFits(a, act[a])'
<1>1. act'[a] = act[a] /\ SentFits(a, act[a]) /\ WriteFits(a, act[a])
  BY DEF Alone, SpreadInv, TurnInv
<1>2. Busy(act[a]) /\ act[a].pending.op = "append" =>
         act[a].pending.owner \in Calls /\ act[a].pending.owner # Flush
  BY ConfigAssumption DEF StorageInv, FreshInv, FreshCopy
<1>3. (Busy(act[a]) /\ act[a].pending.op = "append" /\ act[a].pending.reply = "sent"
          /\ act[a].pending.expect = record.etag
          => ~Spread(act[a].pending.owner, a))'
  <2> SUFFICES ASSUME Busy(act[a]), act[a].pending.op = "append",
                      act[a].pending.reply = "sent", act[a].pending.expect = record.etag
               PROVE  ~(Spread(act[a].pending.owner, a))'
    BY <1>1 DEF Busy
  <2>1. PICK e \in Calls : e = act[a].pending.owner BY <1>2
  <2>2. call[e].kind = "append" /\ call[e].at = a BY <1>1, <1>2, <2>1 DEF WriteFits
  <2>3. ~Spread(e, a) BY <1>1, <2>1 DEF SentFits
  <2>4. ~Spread(e, a)' BY <2>2, <2>3
  <2> QED BY <1>1, <2>1, <2>4 DEF Spread
<1>4. Busy(act'[a]) /\ act'[a].pending.op = "save" => act'[a].saved <= act'[a].pending.version
  BY <1>1 DEF SentFits
<1> QED BY <1>3, <1>4 DEF SentFits

\* ... and so does an activation that keeps its write.
LEMMA SentHere ==
    ASSUME StorageInv, SpreadInv, NEW x \in Acts, record' = record,
           act'[x].pending = act[x].pending, act'[x].saved = act[x].saved,
           \A c \in Calls : Spread(c, x)' => Spread(c, x)
    PROVE  SentFits(x, act[x])'
<1> DEFINE s == act[x]
<1>1. SentFits(x, s) BY DEF SpreadInv
<1>2. (Busy(act[x]) /\ act[x].pending.op = "append" /\ act[x].pending.reply = "sent"
          /\ act[x].pending.expect = record.etag
          => ~Spread(act[x].pending.owner, x))'
  <2> SUFFICES ASSUME Busy(s), s.pending.op = "append", s.pending.reply = "sent",
                      s.pending.expect = record.etag
               PROVE  ~(Spread(act[x].pending.owner, x))'
    BY DEF Busy
  <2>1. s.pending.owner \in Calls BY DEF StorageInv, FreshInv, FreshCopy
  <2>2. PICK e \in Calls : e = s.pending.owner BY <2>1
  <2>3. ~Spread(e, x)' BY <1>1, <2>2 DEF SentFits
  <2> QED BY <2>2, <2>3 DEF Spread
<1> QED BY <1>1, <1>2 DEF SentFits, Busy

\* Turns that have changed nothing yet, or only clear, stay unborn through a
\* quiet move; and no turn comes to the gate by one.
LEMMA QuietAppends ==
    ASSUME NEW c \in Calls, CallQuiet(c), SpreadInv
    PROVE  /\ call'[c].pc \in {"new", "queued", "running"} \/ call'[c].kind = "clear" => Unborn(c)
           /\ call'[c].pc \in {"gate", "writing"} => call'[c] = call[c]
BY DEF CallQuiet, GoesOn, GivesUp, SpreadInv

LEMMA QuietSpread ==
    ASSUME StorageInv, TurnInv, SpreadInv, NEW x \in Acts, QuietStep(x)
    PROVE  SpreadInv'
<1> DEFINE s == act[x]
           t == act'[x]
<1>1. /\ Alone(x) /\ record' = record /\ t.mem = s.mem /\ t.pending = s.pending
      /\ t.etag = s.etag /\ t.saved = s.saved /\ \A c \in Calls : CallQuiet(c)
  BY DEF QuietStep, Steady
<1>2. \A c \in Calls : /\ \A a \in Acts : Spread(c, a)' => Spread(c, a)
                       /\ Unborn(c) => Unborn(c)'
  BY <1>1, NothingSpreads DEF Busy
<1>3. \A c \in Calls : /\ call'[c].pc \in {"new", "queued", "running"} \/ call'[c].kind = "clear"
                            => Unborn(c)
                       /\ call'[c].pc \in {"gate", "writing"} => call'[c] = call[c]
  BY <1>1, QuietAppends
<1>4. ASSUME NEW c \in Calls, NEW a \in Acts, Appending(c, a)'
      PROVE  ApartFits(c, a, act[a])'
  <2>1. call'[c] = call[c] BY <1>3, <1>4 DEF Appending
  <2>2. CASE a # x BY <1>1, <1>2, <1>4, <2>1, <2>2, SpreadElsewhere
  <2>3. CASE a = x
    <3>1. Appending(c, x) BY <1>1, <1>4, <2>1, <2>3 DEF Appending
    <3>2. ApartFits(c, x, s) BY <3>1 DEF SpreadInv
    <3> QED BY <1>1, <1>2, <2>1, <2>3, <3>2 DEF ApartFits, Busy
  <2> QED BY <2>2, <2>3
<1>5. ASSUME NEW a \in Acts PROVE SentFits(a, act[a])'
  <2>1. CASE a # x BY <1>1, <1>2, <2>1, SentElsewhere
  <2>2. CASE a = x BY <1>1, <1>2, <2>2, SentHere
  <2> QED BY <2>1, <2>2
<1> QED BY <1>2, <1>3, <1>4, <1>5 DEF SpreadInv

LEMMA LoadSpread ==
    ASSUME StorageInv, TurnInv, SpreadInv, NEW x \in Acts, LoadStep(x)
    PROVE  SpreadInv'
<1> DEFINE s == act[x]
           t == act'[x]
<1>1. /\ Alone(x) /\ record' = record /\ t.mem = Durable /\ ~Busy(t)
      /\ s.life = "none" \/ (s.reload /\ s.life # "gone")
      /\ \A c \in Calls : CallQuiet(c)
  BY DEF LoadStep, Busy
<1>2. \A c \in Calls : /\ \A a \in Acts : Spread(c, a)' => Spread(c, a)
                       /\ Unborn(c) => Unborn(c)'
  BY <1>1, NothingSpreads
<1>3. \A c \in Calls : /\ call'[c].pc \in {"new", "queued", "running"} \/ call'[c].kind = "clear"
                            => Unborn(c)
                       /\ call'[c].pc \in {"gate", "writing"} => call'[c] = call[c]
  BY <1>1, QuietAppends
<1>4. ASSUME NEW c \in Calls, NEW a \in Acts, Appending(c, a)'
      PROVE  ApartFits(c, a, act[a])'
  <2>1. call'[c] = call[c] BY <1>3, <1>4 DEF Appending
  <2>2. a # x
    <3>1. call[c].pc \in {"gate", "writing"} /\ call[c].at = a BY <1>4, <2>1 DEF Appending
    <3>2. act[a].life # "none" BY <3>1 DEF TurnInv, CallFits
    <3>3. Working(c) BY <3>1 DEF Working
    <3> QED BY <1>1, <3>1, <3>2, <3>3 DEF TurnInv, ParkedFits
  <2> QED BY <1>1, <1>2, <1>4, <2>1, <2>2, SpreadElsewhere
<1>5. ASSUME NEW a \in Acts PROVE SentFits(a, act[a])'
  <2>1. CASE a # x BY <1>1, <1>2, <2>1, SentElsewhere
  <2>2. CASE a = x BY <1>1, <2>2 DEF SentFits
  <2> QED BY <2>1, <2>2
<1> QED BY <1>2, <1>3, <1>4, <1>5 DEF SpreadInv

\* A turn that changes the copy of its activation spreads nothing but itself.
LEMMA OneSpreads ==
    ASSUME NEW x \in Acts, Alone(x), record' = record, NEW d \in Calls,
           act'[x].mem \subseteq act[x].mem \cup {d}, act'[x].pending = act[x].pending
    PROVE  /\ \A c \in Calls, a \in Acts : c # d \/ a = x => (Spread(c, a)' => Spread(c, a))
           /\ \A c \in Calls : c # d => (Unborn(c) => Unborn(c)')
<1>1. Durable' = Durable BY DEF Durable, Fold, Entries
<1>2. \A b \in Acts : b # x => act'[b] = act[b] BY DEF Alone
<1>3. \A c \in Calls, a \in Acts : c # d \/ a = x => (Spread(c, a)' => Spread(c, a))
  BY <1>1, <1>2 DEF Spread, Busy
<1>4. \A c \in Calls : c # d => (Unborn(c) => Unborn(c)') BY <1>1, <1>2 DEF Unborn, Busy
<1> QED BY <1>3, <1>4

LEMMA TouchSpread ==
    ASSUME StorageInv, TurnInv, SpreadInv, NEW x \in Acts, NEW d \in Calls,
           TouchStep(x, d) \/ VersionStep(x, d)
    PROVE  SpreadInv'
<1> DEFINE s == act[x]
           t == act'[x]
<1>1. /\ Alone(x) /\ Only(d) /\ record' = record /\ t.mem \subseteq s.mem \cup {d}
      /\ t.pending = s.pending /\ t.etag = s.etag /\ t.saved = s.saved
      /\ call[d].at = x /\ call[d].pc \in {"running", "mutated"}
      /\ call[d].kind # "clear"
      /\ call'[d].pc \notin {"new", "queued", "running"} /\ call'[d].kind = call[d].kind
      /\ call'[d].at = x
      /\ call'[d].pc \in {"gate", "writing"} /\ call[d].kind = "append" => call[d].pc = "running"
  BY DEF TouchStep, VersionStep, Steady, GoesOn
<1>2. /\ \A c \in Calls, a \in Acts : c # d \/ a = x => (Spread(c, a)' => Spread(c, a))
      /\ \A c \in Calls : c # d => (Unborn(c) => Unborn(c)')
  BY <1>1, OneSpreads
<1>3. \A c \in Calls : c # d => call'[c] = call[c] BY <1>1 DEF Only
<1>4. \A c \in Calls : call'[c].pc \in {"new", "queued", "running"} \/ call'[c].kind = "clear"
         => Unborn(c)'
  BY <1>1, <1>2, <1>3 DEF SpreadInv
<1>5. Working(d) BY <1>1 DEF Working
<1>6. s.life # "gone" BY <1>1, <1>5, Placed
<1>7. ASSUME NEW c \in Calls, NEW a \in Acts, Appending(c, a)'
      PROVE  ApartFits(c, a, act[a])'
  <2>1. CASE c = d
    <3>1. a = x /\ call[d].kind = "append" /\ call[d].pc = "running"
      BY <1>1, <1>7, <2>1 DEF Appending
    <3>2. Unborn(d) BY <3>1 DEF SpreadInv
    <3>3. ~Spread(d, x) /\ (Busy(s) => d \notin s.pending.state) BY <3>2 DEF Unborn, Spread
    <3>4. ~Spread(d, x)' BY <1>2, <3>3
    <3> QED BY <1>1, <2>1, <3>1, <3>3, <3>4 DEF ApartFits, Busy
  <2>2. CASE c # d /\ a # x BY <1>1, <1>2, <1>3, <1>7, <2>2, SpreadElsewhere
  <2>3. CASE c # d /\ a = x
    <3>1. call'[c] = call[c] /\ Appending(c, x) BY <1>1, <1>3, <1>7, <2>3 DEF Appending
    <3>2. ApartFits(c, x, s) BY <3>1 DEF SpreadInv
    <3> QED BY <1>1, <1>2, <2>3, <3>1, <3>2 DEF ApartFits, Busy
  <2> QED BY <2>1, <2>2, <2>3
<1>8. ASSUME NEW a \in Acts PROVE SentFits(a, act[a])'
  <2>1. CASE a # x
    <3>1. \A c \in Calls : call[c].at = a => c # d BY <1>1, <2>1
    <3> QED BY <1>1, <1>2, <2>1, <3>1, SentElsewhere
  <2>2. CASE a = x BY <1>1, <1>2, <2>2, SentHere
  <2> QED BY <2>1, <2>2
<1> QED BY <1>4, <1>7, <1>8 DEF SpreadInv

LEMMA SendSpread ==
    ASSUME StorageInv, TurnInv, KeptInv, SpreadInv, NEW x \in Acts, SendStep(x)
    PROVE  SpreadInv'
<1> DEFINE s == act[x]
           t == act'[x]
           w == t.pending
<1>1. /\ Alone(x) /\ record' = record /\ t.mem = s.mem /\ t.etag = s.etag /\ t.saved = s.saved
      /\ w.reply = "sent" /\ w.expect = s.etag /\ ~Busy(s)
      /\ w.op = "save" => w.state = s.mem /\ w.version = s.version
      /\ w.op # "save" => w.state = {}
  BY DEF SendStep, Steady
<1>2. VersionsAt(x, s) BY DEF KeptInv
<1>3. \A c \in Calls : /\ \A a \in Acts : Spread(c, a)' => Spread(c, a)
                       /\ Unborn(c) => Unborn(c)'
  <2>1. w.state \subseteq s.mem BY <1>1
  <2> QED BY <1>1, <2>1, NothingSpreads
<1>4. \A c \in Calls : /\ call'[c].at = call[c].at /\ call'[c].kind = call[c].kind
                       /\ call'[c].wanted = call[c].wanted
                       /\ \/ call'[c] = call[c]
                          \/ /\ call'[c].pc = "writing" /\ call[c].at = x
                             /\ call[c].pc = "gate" \/ call[c].kind = "clear"
  BY DEF SendStep, Only, GoesOn
<1>5. \A c \in Calls : call'[c].pc \in {"new", "queued", "running"} \/ call'[c].kind = "clear"
         => Unborn(c)'
  BY <1>3, <1>4 DEF SpreadInv
<1>6. ASSUME NEW c \in Calls, NEW a \in Acts, Appending(c, a)'
      PROVE  ApartFits(c, a, act[a])'
  <2>1. CASE a # x
    <3>1. call'[c] = call[c] BY <1>4, <1>6, <2>1 DEF Appending
    <3> QED BY <1>1, <1>3, <1>6, <2>1, <3>1, SpreadElsewhere
  <2>2. CASE a = x
    <3>1. Appending(c, x) BY <1>1, <1>4, <1>6, <2>2 DEF Appending
    <3>2. ApartFits(c, x, s) BY <3>1 DEF SpreadInv
    <3>3. call[c].wanted <= s.version
      <4>1. s.saved \in Nat /\ call[c].wanted \in Nat BY DEF StorageInv, TypeOK, ActOK, CallOK
      <4>2. call[c].wanted > 0 BY <3>1, <4>1 DEF Appending
      <4> QED BY <1>2, <3>1, <4>2 DEF VersionsAt, Appending
    <3>4. w.op = "save" => ~(w.version < call[c].wanted)
      <4>1. s.version \in Nat /\ call[c].wanted \in Nat BY DEF StorageInv, TypeOK, ActOK, CallOK
      <4> QED BY <1>1, <3>3, <4>1
    <3> QED BY <1>1, <1>3, <1>4, <2>2, <3>2, <3>4 DEF ApartFits
  <2> QED BY <2>1, <2>2
<1>7. ASSUME NEW a \in Acts PROVE SentFits(a, act[a])'
  <2>1. CASE a # x BY <1>1, <1>3, <2>1, SentElsewhere
  <2>2. CASE a = x
    <3>1. w.op = "append" /\ w.expect = record.etag => ~(Spread(act[x].pending.owner, x))'
      <4> SUFFICES ASSUME w.op = "append", w.expect = record.etag
                   PROVE  ~(Spread(act[x].pending.owner, x))'
        OBVIOUS
      <4>1. PICK e \in Calls : /\ w.owner = e /\ call[e].at = x /\ call[e].pc = "gate"
                               /\ call[e].kind = "append" /\ s.etag # 0
                               /\ s.saved < call[e].wanted
        BY DEF SendStep
      <4>2. Appending(e, x) BY <4>1 DEF Appending
      <4>3. ApartFits(e, x, s) BY <4>2 DEF SpreadInv
      <4>4. ~Spread(e, x) BY <1>1, <4>1, <4>3 DEF ApartFits
      <4>5. ~Spread(e, x)' BY <1>3, <4>4
      <4> QED BY <4>1, <4>5 DEF Spread
    <3>2. w.op = "save" => t.saved <= w.version BY <1>1, <1>2 DEF VersionsAt
    <3> QED BY <1>1, <2>2, <3>1, <3>2 DEF SentFits
  <2> QED BY <2>1, <2>2
<1> QED BY <1>5, <1>6, <1>7 DEF SpreadInv

LEMMA RefuseSpread ==
    ASSUME StorageInv, TurnInv, SpreadInv, NEW x \in Acts, RefuseStep(x)
    PROVE  SpreadInv'
<1> DEFINE s == act[x]
           t == act'[x]
           w == s.pending
<1>1. /\ Alone(x) /\ record' = record /\ t.mem = s.mem /\ t.etag = s.etag /\ t.saved = s.saved
      /\ call' = call /\ Busy(s)
      /\ t.pending.reply \in {"conflict", "error"}
      /\ t.pending.op = w.op /\ t.pending.owner = w.owner
      /\ t.pending.state = w.state /\ t.pending.version = w.version
  BY DEF RefuseStep, Answers, Steady
<1>2. \A c \in Calls : /\ \A a \in Acts : Spread(c, a)' => Spread(c, a)
                       /\ Unborn(c) => Unborn(c)'
  BY <1>1, NothingSpreads
<1>3. \A c \in Calls : call'[c].pc \in {"new", "queued", "running"} \/ call'[c].kind = "clear"
         => Unborn(c)'
  BY <1>1, <1>2 DEF SpreadInv
<1>4. ASSUME NEW c \in Calls, NEW a \in Acts, Appending(c, a)'
      PROVE  ApartFits(c, a, act[a])'
  <2>1. CASE a # x BY <1>1, <1>2, <1>4, <2>1, SpreadElsewhere
  <2>2. CASE a = x
    <3>1. Appending(c, x) BY <1>1, <1>4, <2>2 DEF Appending
    <3>2. ApartFits(c, x, s) BY <3>1 DEF SpreadInv
    <3> QED BY <1>1, <1>2, <2>2, <3>2 DEF ApartFits, Busy
  <2> QED BY <2>1, <2>2
<1>5. ASSUME NEW a \in Acts PROVE SentFits(a, act[a])'
  <2>1. CASE a # x BY <1>1, <1>2, <2>1, SentElsewhere
  <2>2. CASE a = x
    <3>1. SentFits(x, s) BY DEF SpreadInv
    <3> QED BY <1>1, <2>2, <3>1 DEF SentFits, Busy
  <2> QED BY <2>1, <2>2
<1> QED BY <1>3, <1>4, <1>5 DEF SpreadInv

LEMMA LandSpread ==
    ASSUME UniqueEtags, StorageInv, TurnInv, SpreadInv, NEW x \in Acts, LandStep(x)
    PROVE  SpreadInv'
<1> DEFINE s == act[x]
           t == act'[x]
           w == s.pending
<1>1. /\ Alone(x) /\ t.mem = s.mem /\ t.etag = s.etag /\ t.saved = s.saved
      /\ call' = call /\ Busy(s) /\ w.reply = "sent"
      /\ t.pending.reply # "sent"
      /\ t.pending.op = w.op /\ t.pending.owner = w.owner
      /\ t.pending.state = w.state /\ t.pending.version = w.version
  BY DEF LandStep, Answers, Steady
<1>2. /\ w.op \in {"save", "append", "clear"} /\ (w.op # "save" => w.owner \in Calls)
      /\ s.etag = record.etag /\ w.expect = record.etag
      /\ w.op = "clear" => Durable' = {}
      /\ w.op = "save" => Durable' = w.state
      /\ w.op = "append" => Durable' = Durable \cup {w.owner}
      /\ \A e \in 0..minted : e # record'.etag \/ e = 0
  BY LandFacts
<1>3. WriteFits(x, s) BY DEF TurnInv
<1>4. w.op = "append" => /\ call[w.owner].kind = "append" /\ call[w.owner].at = x
                         /\ call[w.owner].pc \notin {"new", "queued", "running"}
  <2> SUFFICES ASSUME w.op = "append"
               PROVE  /\ call[w.owner].kind = "append" /\ call[w.owner].at = x
                      /\ call[w.owner].pc \notin {"new", "queued", "running"}
    OBVIOUS
  <2>1. PICK e \in Calls : e = w.owner BY <1>2
  <2>2. e # Flush BY ConfigAssumption
  <2>3. call[e].kind = "append" /\ call[e].at = x /\ call[e].pc # "new"
    BY <1>1, <1>3, <2>1, <2>2 DEF WriteFits
  <2>4. CASE s.life # "gone" BY <1>1, <2>1, <2>2, <2>3, <2>4, Writer
  <2>5. CASE s.life = "gone"
    <3>1. Over(e) BY <2>3, <2>5 DEF StorageInv, LaneInv, CallsPlaced
    <3> QED BY <2>1, <2>3, <3>1 DEF Over
  <2> QED BY <2>4, <2>5
<1>5. \A b \in Acts : b # x => act'[b] = act[b] BY <1>1 DEF Alone
\* What the record takes in was spread already from every other activation,
\* but for the entry of an append.
<1>6. \A c \in Calls, a \in Acts : a # x /\ (w.op = "append" => c # w.owner) =>
         (Spread(c, a)' => Spread(c, a))
  BY <1>1, <1>2, <1>5 DEF Spread, Busy
<1>7. \A c \in Calls : (w.op = "append" => c # w.owner) => (Unborn(c) => Unborn(c)')
  BY <1>1, <1>2, <1>5 DEF Unborn, Busy
<1>8. \A c \in Calls : call'[c].pc \in {"new", "queued", "running"} \/ call'[c].kind = "clear"
         => Unborn(c)'
  BY <1>1, <1>4, <1>7 DEF SpreadInv
<1>9. \A b \in Acts : act'[b].etag # 0 => act'[b].etag # record'.etag
  <2>1. \A b \in Acts : act'[b].etag = act[b].etag BY <1>1, <1>5
  <2> QED BY <1>2, <2>1, EtagFacts
<1>10. ASSUME NEW c \in Calls, NEW a \in Acts, Appending(c, a)'
       PROVE  ApartFits(c, a, act[a])'
  <2>1. Appending(c, a) /\ act'[a].etag = act[a].etag BY <1>1, <1>5, <1>10 DEF Appending
  <2>2. ApartFits(c, a, act[a]) BY <2>1 DEF SpreadInv
  <2>3. CASE a # x
    <3>1. w.op = "append" => c # w.owner BY <1>4, <2>1, <2>3 DEF Appending
    <3>2. Spread(c, a)' => Spread(c, a) BY <1>6, <2>3, <3>1
    <3> QED BY <1>1, <1>5, <1>9, <2>2, <2>3, <3>2 DEF ApartFits, Busy
  <2>4. CASE a = x
    <3>1. (Busy(act[x]) /\ act[x].pending.op = "save" /\ act[x].pending.version < call[c].wanted
             => ~Spread(c, x) /\ c \notin act[x].pending.state)'
      <4> SUFFICES ASSUME w.op = "save", w.version < call[c].wanted
                   PROVE  ~Spread(c, x)' /\ c \notin w.state
        BY <1>1
      <4>1. ~Spread(c, x) /\ c \notin w.state BY <1>1, <2>2, <2>4 DEF ApartFits
      <4> QED BY <1>2, <1>5, <4>1 DEF Spread
    <3>2. (Busy(act[x]) /\ act[x].pending.op = "append" /\ act[x].pending.reply = "ok"
             /\ act[x].pending.owner # c => ~Spread(c, x))'
      <4> SUFFICES ASSUME w.op = "append", w.owner # c
                   PROVE  ~Spread(c, x)'
        BY <1>1
      <4>1. s.etag # 0 BY <1>1, <1>2, <1>3 DEF WriteFits
      <4>2. ~Spread(c, x) BY <1>2, <2>2, <2>4, <4>1 DEF ApartFits
      <4> QED BY <1>2, <1>5, <4>2 DEF Spread
    <3> QED BY <1>9, <2>4, <3>1, <3>2 DEF ApartFits
  <2> QED BY <2>3, <2>4
<1>11. ASSUME NEW a \in Acts PROVE SentFits(a, act[a])'
  <2>1. SentFits(a, act[a]) BY DEF SpreadInv
  <2>2. CASE a = x BY <1>1, <2>1, <2>2 DEF SentFits
  <2>3. CASE a # x
    <3>1. act'[a] = act[a] /\ WriteFits(a, act[a]) BY <1>5, <2>3 DEF TurnInv
    <3>2. Busy(act[a]) /\ act[a].pending.op = "append" => act'[a].pending.expect # record'.etag
      BY <1>9, <3>1, EtagFacts DEF WriteFits
    <3> QED BY <2>1, <3>1, <3>2 DEF SentFits, Busy
  <2> QED BY <2>2, <2>3
<1> QED BY <1>8, <1>10, <1>11 DEF SpreadInv

LEMMA ReplySpread ==
    ASSUME StorageInv, TurnInv, SpreadInv, NEW x \in Acts, ReplyStep(x)
    PROVE  SpreadInv'
<1> DEFINE s == act[x]
           t == act'[x]
           w == s.pending
           saved   == w.reply = "ok" /\ w.op # "clear"
           cleared == w.reply = "ok" /\ w.op = "clear"
<1>1. /\ Alone(x) /\ record' = record /\ Busy(s) /\ s.life # "gone"
      /\ t.pending = NoWrite /\ t.mem = IF cleared THEN {} ELSE s.mem
      /\ cleared => t.etag = 0
      /\ ~saved /\ ~cleared => t.etag = s.etag
      /\ saved /\ w.op = "save" => t.saved = w.version
      /\ saved /\ w.op = "append" =>
            t.saved = IF s.saved = w.version - 1 THEN w.version ELSE s.saved
      /\ ~saved => t.saved = s.saved
  BY DEF ReplyStep
<1>2. ~Busy(t) BY <1>1 DEF Busy, NoWrite
<1>3. \A c \in Calls : /\ \A a \in Acts : Spread(c, a)' => Spread(c, a)
                       /\ Unborn(c) => Unborn(c)'
  <2>1. t.mem \subseteq s.mem BY <1>1
  <2> QED BY <1>1, <1>2, <2>1, NothingSpreads
<1>4. \A c \in Calls : /\ call'[c].at = call[c].at /\ call'[c].kind = call[c].kind
                       /\ call'[c].wanted = call[c].wanted
                       /\ \/ call'[c] = call[c]
                          \/ /\ c = w.owner /\ call[c].at = x /\ call[c].pc = "writing"
                             /\ call'[c].pc \in {"gate", "ending"}
                             /\ call'[c].pc = "gate" => w.op = "save"
  BY DEF ReplyStep, Only, GoesOn, GivesUp
<1>5. \A c \in Calls : call'[c].pc \in {"new", "queued", "running"} \/ call'[c].kind = "clear"
         => Unborn(c)'
  BY <1>3, <1>4 DEF SpreadInv
<1>6. ASSUME NEW c \in Calls, NEW a \in Acts, Appending(c, a)'
      PROVE  ApartFits(c, a, act[a])'
  <2>1. CASE a # x
    <3>1. call'[c] = call[c] BY <1>4, <1>6, <2>1 DEF Appending
    <3> QED BY <1>1, <1>3, <1>6, <2>1, <3>1, SpreadElsewhere
  <2>2. CASE a = x
    <3>1. /\ s.saved \in Nat /\ w.version \in Nat /\ call[c].wanted \in Nat
          /\ w.op \in {"save", "append", "clear"}
      BY <1>1 DEF StorageInv, TypeOK, ActOK, WriteOK, CallOK, Busy
    <3>2. /\ call[c].kind = "append" /\ call[c].pc \in {"gate", "writing"} /\ call[c].at = x
          /\ t.saved < call[c].wanted
      BY <1>4, <1>6, <2>2 DEF Appending
    <3>3. s.saved < call[c].wanted
      <4>1. saved /\ w.op = "save" => s.saved <= w.version BY <1>1 DEF SpreadInv, SentFits
      <4> QED BY <1>1, <3>1, <3>2, <4>1
    <3>4. ApartFits(c, x, s) BY <3>2, <3>3 DEF SpreadInv, Appending
    <3>5. Spread(c, x) /\ t.etag # 0 => t.etag # record.etag
      <4>1. CASE saved /\ w.op = "save" BY <1>1, <3>2, <3>4, <4>1 DEF ApartFits
      <4>2. CASE saved /\ w.op = "append"
        <5>1. c # w.owner
          <6>1. SUFFICES ASSUME c = w.owner PROVE FALSE OBVIOUS
          <6>2. call[c].pc = "writing" BY <1>1, <6>1, Writer, ConfigAssumption
          <6>3. call'[c].pc = "writing" \/ call'[c].pc = "gate" BY <1>6 DEF Appending
          <6>4. call'[c].pc = "ending"
            BY <4>2, <6>1, <6>2, ConfigAssumption DEF ReplyStep, GoesOn
          <6> QED BY <6>3, <6>4
        <5> QED BY <1>1, <3>4, <4>2, <5>1 DEF ApartFits
      <4>3. CASE cleared BY <1>1, <4>3
      <4>4. CASE ~saved /\ ~cleared BY <1>1, <3>4, <4>4 DEF ApartFits
      <4> QED BY <3>1, <4>1, <4>2, <4>3, <4>4
    <3> QED BY <1>1, <1>2, <1>3, <2>2, <3>5 DEF ApartFits
  <2> QED BY <2>1, <2>2
<1>7. ASSUME NEW a \in Acts PROVE SentFits(a, act[a])'
  <2>1. CASE a # x BY <1>1, <1>3, <2>1, SentElsewhere
  <2>2. CASE a = x BY <1>2, <2>2 DEF SentFits
  <2> QED BY <2>1, <2>2
<1> QED BY <1>5, <1>6, <1>7 DEF SpreadInv

LEMMA SpreadStep ==
    ASSUME UniqueEtags, StorageInv, TurnInv, KeptInv, SpreadInv, Step
    PROVE  SpreadInv'
BY QuietSpread, LoadSpread, SendSpread, RefuseSpread, LandSpread, ReplySpread, TouchSpread DEF Step

LEMMA SpreadStart == Init => SpreadInv
<1> SUFFICES ASSUME Init PROVE SpreadInv OBVIOUS
<1>1. /\ \A c \in Calls : call[c].pc = "new"
      /\ \A a \in Acts : act[a].mem = {} /\ ~Busy(act[a])
      /\ record = NoRecord
  BY DEF Init, NoCall, Idle, Busy, NoWrite
<1>2. Durable = {} BY <1>1 DEF Durable, Fold, NoRecord, Entries
<1>3. \A c \in Calls : Unborn(c) BY <1>1, <1>2 DEF Unborn
<1>4. \A a \in Acts : SentFits(a, act[a]) BY <1>1 DEF SentFits
<1> QED BY <1>1, <1>3, <1>4 DEF SpreadInv, Appending

LEMMA SpreadStutter ==
    ASSUME SpreadInv, UNCHANGED vars
    PROVE  SpreadInv'
<1>1. Durable' = Durable /\ act' = act /\ call' = call /\ record' = record
  BY DEF vars, Durable, Fold, Entries
<1>2. \A c \in Calls : Unborn(c)' <=> Unborn(c) BY <1>1 DEF Unborn, Busy
<1>3. \A c \in Calls, a \in Acts : Spread(c, a)' <=> Spread(c, a) BY <1>1 DEF Spread, Busy
<1>4. ASSUME NEW c \in Calls, NEW a \in Acts, Appending(c, a)'
      PROVE  ApartFits(c, a, act[a])'
  <2>1. ApartFits(c, a, act[a]) BY <1>1, <1>4 DEF SpreadInv, Appending
  <2> QED BY <1>1, <1>3, <2>1 DEF ApartFits, Busy
<1>5. ASSUME NEW a \in Acts PROVE SentFits(a, act[a])'
  <2>1. SentFits(a, act[a]) BY DEF SpreadInv
  <2> QED BY <1>1, <2>1 DEF SentFits, Busy, Spread
<1> QED BY <1>1, <1>2, <1>4, <1>5 DEF SpreadInv

\* Only a write that lands changes the record; an append that does brings an
\* entry the record does not have.
LEMMA FoldedStep ==
    ASSUME UniqueEtags, StorageInv, SpreadInv, FoldedOnce, Step
    PROVE  FoldedOnce'
<1>1. ASSUME record' = record PROVE FoldedOnce'
  BY <1>1 DEF FoldedOnce, Entries
<1>2. \A a \in Acts :
         /\ QuietStep(a) => record' = record
         /\ LoadStep(a) => record' = record
         /\ SendStep(a) => record' = record
         /\ RefuseStep(a) => record' = record
         /\ ReplyStep(a) => record' = record
         /\ \A c \in Calls : TouchStep(a, c) \/ VersionStep(a, c) => record' = record
  BY DEF QuietStep, LoadStep, SendStep, RefuseStep, ReplyStep, TouchStep, VersionStep
<1>3. ASSUME NEW a \in Acts, LandStep(a) PROVE FoldedOnce'
  <2> DEFINE w == act[a].pending
  <2>1. /\ w.op \in {"save", "append", "clear"}
        /\ w.op # "save" => w.owner \in Calls
        /\ record' = Stored(w)
        /\ Busy(act[a]) /\ w.reply = "sent" /\ w.expect = record.etag
    BY <1>3, LandFacts DEF LandStep, Answers
  <2>2. CASE w.op \in {"save", "clear"}
    <3>1. record'.log = <<>>
      BY <2>1, <2>2 DEF Stored, NoRecord
    <3> QED BY <3>1 DEF FoldedOnce, Entries
  <2>3. CASE w.op = "append"
    <3>1. PICK e \in Calls : e = w.owner BY <2>1, <2>3
    <3>2. ~Spread(e, a) BY <2>1, <2>3, <3>1 DEF SpreadInv, SentFits
    <3>3. e \notin record.state /\ e \notin Entries(record.log)
      BY <3>2 DEF Spread, Durable, Fold
    <3>4. record'.state = record.state /\ record'.log = Append(record.log, e)
      BY <2>1, <2>3, <3>1 DEF Stored
    <3>5. record.log \in Seq(Calls) BY DEF StorageInv, TypeOK, RecordOK
    <3>6. /\ Len(record'.log) = Len(record.log) + 1 /\ Len(record.log) \in Nat
          /\ \A i \in 1..Len(record.log) : record'.log[i] = record.log[i]
          /\ record'.log[Len(record.log) + 1] = e
      BY <3>4, <3>5
    <3>7. Entries(record'.log) = Entries(record.log) \cup {e}
      BY <3>4, <3>5, EntriesOfAppend
    <3>8. \A i \in 1..Len(record.log) : record'.log[i] # e BY <3>3, <3>6 DEF Entries
    <3>9. ASSUME NEW i \in 1..Len(record'.log), NEW j \in 1..Len(record'.log),
                 record'.log[i] = record'.log[j]
          PROVE  i = j
      <4>1. i \in 1..Len(record.log) \/ i = Len(record.log) + 1 BY <3>6
      <4>2. j \in 1..Len(record.log) \/ j = Len(record.log) + 1 BY <3>6
      <4> QED BY <3>6, <3>8, <3>9, <4>1, <4>2 DEF FoldedOnce
    <3>10. record'.state \cap Entries(record'.log) = {}
      BY <3>3, <3>4, <3>7 DEF FoldedOnce
    <3> QED BY <3>9, <3>10 DEF FoldedOnce, Entries
  <2> QED BY <2>1, <2>2, <2>3
<1> QED BY <1>1, <1>2, <1>3 DEF Step

LEMMA FoldedStart == Init => FoldedOnce
BY DEF Init, NoRecord, FoldedOnce, Entries

-----------------------------------------------------------------------------
(* What can still be written is whole.                                     *)

\* The record stays: only the activation that steps is to be looked at.
LEMMA WholeHere ==
    ASSUME WholeInv, NEW x \in Acts, Alone(x), record' = record,
           Whole(act[x])',
           \A c \in Calls : Appending(c, x)' => EntryFits(c, act[x])',
           \A c \in Calls : \A a \in Acts : a # x /\ Appending(c, a)' => call'[c] = call[c]
    PROVE  WholeInv'
<1>1. \A a \in Acts : a # x => act'[a] = act[a] BY DEF Alone
<1>2. Durable' = Durable BY DEF Durable, Fold, Entries
<1>3. ASSUME NEW a \in Acts PROVE Whole(act[a])'
  <2>1. CASE a = x BY <2>1
  <2>2. CASE a # x
    <3>1. Whole(act[a]) BY DEF WholeInv
    <3> QED BY <1>1, <1>2, <2>2, <3>1 DEF Whole, Busy
  <2> QED BY <2>1, <2>2
<1>4. ASSUME NEW c \in Calls, NEW a \in Acts, Appending(c, a)'
      PROVE  EntryFits(c, act[a])'
  <2>1. CASE a = x BY <1>4, <2>1
  <2>2. CASE a # x
    <3>1. call'[c] = call[c] /\ act'[a] = act[a] BY <1>1, <1>4, <2>2
    <3>2. EntryFits(c, act[a]) BY <1>4, <3>1 DEF WholeInv, Appending
    <3> QED BY <3>1, <3>2 DEF EntryFits, Busy
  <2> QED BY <2>1, <2>2
<1> QED BY <1>3, <1>4 DEF WholeInv

\* An activation that keeps its etag, its write and what it saved, and forgets
\* nothing of its copy.
LEMMA WholeSame ==
    ASSUME WholeInv, NEW x \in Acts, record' = record, act[x].mem \subseteq act'[x].mem,
           act'[x].pending = act[x].pending, act'[x].etag = act[x].etag
    PROVE  Whole(act[x])'
<1>1. Durable' = Durable BY DEF Durable, Fold, Entries
<1>2. Whole(act[x]) BY DEF WholeInv
<1> QED BY <1>1, <1>2 DEF Whole, Busy

LEMMA QuietWhole ==
    ASSUME StorageInv, TurnInv, SpreadInv, WholeInv, NEW x \in Acts, QuietStep(x)
    PROVE  WholeInv'
<1> DEFINE s == act[x]
           t == act'[x]
<1>1. /\ Alone(x) /\ record' = record /\ t.mem = s.mem /\ t.pending = s.pending
      /\ t.etag = s.etag /\ t.saved = s.saved /\ \A c \in Calls : CallQuiet(c)
  BY DEF QuietStep, Steady
<1>2. \A c \in Calls : call'[c].pc \in {"gate", "writing"} => call'[c] = call[c]
  BY <1>1, QuietAppends
<1>3. Whole(act[x])' BY <1>1, WholeSame
<1>4. ASSUME NEW c \in Calls, Appending(c, x)' PROVE EntryFits(c, act[x])'
  <2>1. call'[c] = call[c] BY <1>2, <1>4 DEF Appending
  <2>2. EntryFits(c, s) BY <1>1, <1>4, <2>1 DEF WholeInv, Appending
  <2> QED BY <1>1, <2>1, <2>2 DEF EntryFits, Busy
<1> QED BY <1>1, <1>2, <1>3, <1>4, WholeHere DEF Appending

LEMMA LoadWhole ==
    ASSUME StorageInv, TurnInv, SpreadInv, WholeInv, NEW x \in Acts, LoadStep(x)
    PROVE  WholeInv'
<1> DEFINE s == act[x]
           t == act'[x]
<1>1. /\ Alone(x) /\ record' = record /\ t.mem = Durable /\ ~Busy(t)
      /\ s.life = "none" \/ (s.reload /\ s.life # "gone")
      /\ \A c \in Calls : CallQuiet(c)
  BY DEF LoadStep, Busy
<1>2. \A c \in Calls : call'[c].pc \in {"gate", "writing"} => call'[c] = call[c]
  BY <1>1, QuietAppends
<1>3. Durable' = Durable BY <1>1 DEF Durable, Fold, Entries
<1>4. Whole(act[x])' BY <1>1, <1>3 DEF Whole, Busy
<1>5. ASSUME NEW c \in Calls, Appending(c, x)' PROVE FALSE
  <2>1. call'[c] = call[c] BY <1>2, <1>5 DEF Appending
  <2>2. call[c].pc \in {"gate", "writing"} /\ call[c].at = x BY <1>5, <2>1 DEF Appending
  <2>3. s.life # "none" BY <2>2 DEF TurnInv, CallFits
  <2>4. Working(c) BY <2>2 DEF Working
  <2> QED BY <1>1, <2>2, <2>3, <2>4 DEF TurnInv, ParkedFits
<1> QED BY <1>1, <1>2, <1>4, <1>5, WholeHere DEF Appending

LEMMA TouchWhole ==
    ASSUME StorageInv, TurnInv, SpreadInv, WholeInv, NEW x \in Acts, NEW d \in Calls,
           TouchStep(x, d) \/ VersionStep(x, d)
    PROVE  WholeInv'
<1> DEFINE s == act[x]
           t == act'[x]
<1>1. /\ Alone(x) /\ Only(d) /\ record' = record /\ s.mem \subseteq t.mem
      /\ t.pending = s.pending /\ t.etag = s.etag /\ t.saved = s.saved
      /\ call[d].at = x /\ call'[d].at = x
      /\ call'[d].kind = "append" /\ call'[d].pc \in {"gate", "writing"} => d \in t.mem
  BY DEF TouchStep, VersionStep, Steady, GoesOn
<1>2. \A c \in Calls : c # d => call'[c] = call[c] BY <1>1 DEF Only
<1>3. Whole(act[x])' BY <1>1, WholeSame
<1>4. ASSUME NEW c \in Calls, Appending(c, x)' PROVE EntryFits(c, act[x])'
  <2>1. CASE c = d BY <1>1, <1>4, <2>1 DEF Appending, EntryFits
  <2>2. CASE c # d
    <3>1. EntryFits(c, s) BY <1>1, <1>2, <1>4, <2>2 DEF WholeInv, Appending
    <3> QED BY <1>1, <1>2, <2>2, <3>1 DEF EntryFits, Busy
  <2> QED BY <2>1, <2>2
<1>5. \A c \in Calls : \A a \in Acts : a # x /\ Appending(c, a)' => call'[c] = call[c]
  BY <1>1, <1>2 DEF Appending
<1> QED BY <1>1, <1>3, <1>4, <1>5, WholeHere

LEMMA SendWhole ==
    ASSUME StorageInv, TurnInv, KeptInv, WholeInv, NEW x \in Acts, SendStep(x)
    PROVE  WholeInv'
<1> DEFINE s == act[x]
           t == act'[x]
           w == t.pending
<1>1. /\ Alone(x) /\ record' = record /\ t.mem = s.mem /\ t.etag = s.etag /\ t.saved = s.saved
      /\ w.reply = "sent" /\ w.expect = s.etag /\ ~Busy(s)
      /\ w.op = "save" => w.state = s.mem /\ w.version = s.version
  BY DEF SendStep, Steady
<1>2. VersionsAt(x, s) /\ Whole(s) BY DEF KeptInv, WholeInv
<1>3. \A c \in Calls : /\ call'[c].at = call[c].at /\ call'[c].kind = call[c].kind
                       /\ call'[c].wanted = call[c].wanted
                       /\ \/ call'[c] = call[c]
                          \/ /\ call'[c].pc = "writing" /\ call[c].at = x
                             /\ call[c].pc = "gate" \/ call[c].kind = "clear"
  BY DEF SendStep, Only, GoesOn
<1>4. Durable' = Durable BY <1>1 DEF Durable, Fold, Entries
<1>5. w.op = "append" => w.owner \in s.mem
  <2> SUFFICES ASSUME w.op = "append" PROVE w.owner \in s.mem OBVIOUS
  <2>1. PICK e \in Calls : /\ w.owner = e /\ call[e].at = x /\ call[e].pc = "gate"
                           /\ call[e].kind = "append" /\ s.etag # 0
                           /\ s.saved < call[e].wanted
    BY DEF SendStep
  <2>2. EntryFits(e, s) BY <2>1 DEF WholeInv, Appending
  <2> QED BY <2>1, <2>2 DEF EntryFits
<1>6. Whole(act[x])' BY <1>1, <1>2, <1>4, <1>5 DEF Whole, Busy
<1>7. ASSUME NEW c \in Calls, Appending(c, x)' PROVE EntryFits(c, act[x])'
  <2>1. Appending(c, x) BY <1>1, <1>3, <1>7 DEF Appending
  <2>2. EntryFits(c, s) BY <2>1 DEF WholeInv
  <2>3. call[c].wanted <= s.version
    <3>1. s.saved \in Nat /\ call[c].wanted \in Nat BY DEF StorageInv, TypeOK, ActOK, CallOK
    <3>2. call[c].wanted > 0 BY <2>1, <3>1 DEF Appending
    <3> QED BY <1>2, <2>1, <3>2 DEF VersionsAt, Appending
  <2> QED BY <1>1, <1>3, <2>2, <2>3 DEF EntryFits
<1>8. \A c \in Calls : \A a \in Acts : a # x /\ Appending(c, a)' => call'[c] = call[c]
  BY <1>3 DEF Appending
<1> QED BY <1>1, <1>6, <1>7, <1>8, WholeHere

LEMMA RefuseWhole ==
    ASSUME StorageInv, WholeInv, NEW x \in Acts, RefuseStep(x)
    PROVE  WholeInv'
<1> DEFINE s == act[x]
           t == act'[x]
           w == s.pending
<1>1. /\ Alone(x) /\ record' = record /\ t.mem = s.mem /\ t.etag = s.etag /\ t.saved = s.saved
      /\ call' = call /\ Busy(s)
      /\ t.pending.reply \in {"conflict", "error"}
      /\ t.pending.op = w.op /\ t.pending.owner = w.owner
      /\ t.pending.state = w.state /\ t.pending.version = w.version
  BY DEF RefuseStep, Answers, Steady
<1>2. Whole(s) BY DEF WholeInv
<1>3. Durable' = Durable BY <1>1 DEF Durable, Fold, Entries
<1>4. Whole(act[x])' BY <1>1, <1>2, <1>3 DEF Whole, Busy
<1>5. ASSUME NEW c \in Calls, Appending(c, x)' PROVE EntryFits(c, act[x])'
  <2>1. EntryFits(c, s) BY <1>1, <1>5 DEF WholeInv, Appending
  <2> QED BY <1>1, <2>1 DEF EntryFits, Busy
<1> QED BY <1>1, <1>4, <1>5, WholeHere

LEMMA LandWhole ==
    ASSUME UniqueEtags, StorageInv, TurnInv, WholeInv, NEW x \in Acts, LandStep(x)
    PROVE  WholeInv'
<1> DEFINE s == act[x]
           t == act'[x]
           w == s.pending
<1>1. /\ Alone(x) /\ t.mem = s.mem /\ t.etag = s.etag /\ t.saved = s.saved
      /\ call' = call /\ Busy(s) /\ w.reply = "sent"
      /\ t.pending.reply # "sent" /\ t.pending.op = w.op /\ t.pending.owner = w.owner
      /\ t.pending.state = w.state /\ t.pending.version = w.version
  BY DEF LandStep, Answers, Steady
<1>2. /\ w.op \in {"save", "append", "clear"}
      /\ s.etag = record.etag /\ w.expect = record.etag
      /\ w.op = "clear" => Durable' = {}
      /\ w.op = "save" => Durable' = w.state
      /\ w.op = "append" => Durable' = Durable \cup {w.owner}
      /\ w.op # "clear" => record'.etag > 0
      /\ \A e \in 0..minted : e # record'.etag \/ e = 0
  BY LandFacts
<1>3. \A b \in Acts : b # x => act'[b] = act[b] BY <1>1 DEF Alone
\* What is stored now is in the copy it was made of, and no other write or copy
\* has the etag it was given.
<1>4. Durable' \subseteq s.mem BY <1>1, <1>2 DEF WholeInv, Whole
<1>5. \A b \in Acts : act'[b].etag = record'.etag => Durable' = {}
  <2>1. \A b \in Acts : act'[b].etag \in 0..minted BY <1>1, <1>3, EtagFacts
  <2> QED BY <1>2, <2>1
<1>6. ASSUME NEW a \in Acts PROVE Whole(act[a])'
  <2>1. Whole(act[a]) BY DEF WholeInv
  <2>2. CASE a = x BY <1>1, <1>2, <1>4, <1>5, <2>1, <2>2 DEF Whole, Busy
  <2>3. CASE a # x
    <3>1. act'[a] = act[a] BY <1>3, <2>3
    <3>2. FreshCopy(act[a]) BY DEF StorageInv, FreshInv
    <3>3. Busy(act[a]) => act[a].pending.expect = act[a].etag BY EtagFacts
    <3>4. Busy(act[a]) /\ act[a].pending.op # "clear" /\ act[a].pending.reply = "ok"
             /\ act[a].pending.etag = record'.etag => Durable' = {}
      <4>1. act[a].pending.etag \in Nat /\ minted \in Nat
        BY DEF StorageInv, TypeOK, ActOK, WriteOK
      <4> QED BY <1>2, <3>2, <4>1 DEF FreshCopy
    <3> QED BY <1>5, <2>1, <3>1, <3>3, <3>4 DEF Whole, Busy
  <2> QED BY <2>2, <2>3
<1>7. ASSUME NEW c \in Calls, NEW a \in Acts, Appending(c, a)'
      PROVE  EntryFits(c, act[a])'
  <2>1. Appending(c, a) BY <1>1, <1>3, <1>7 DEF Appending
  <2>2. EntryFits(c, act[a]) BY <2>1 DEF WholeInv
  <2>3. CASE a = x BY <1>1, <2>2, <2>3 DEF EntryFits, Busy
  <2>4. CASE a # x BY <1>1, <1>3, <2>2, <2>4 DEF EntryFits, Busy
  <2> QED BY <2>3, <2>4
<1> QED BY <1>6, <1>7 DEF WholeInv

LEMMA ReplyWhole ==
    ASSUME StorageInv, TurnInv, SpreadInv, WholeInv, NEW x \in Acts, ReplyStep(x)
    PROVE  WholeInv'
<1> DEFINE s == act[x]
           t == act'[x]
           w == s.pending
           saved   == w.reply = "ok" /\ w.op # "clear"
           cleared == w.reply = "ok" /\ w.op = "clear"
<1>1. /\ Alone(x) /\ record' = record /\ Busy(s) /\ s.life # "gone"
      /\ t.pending = NoWrite /\ t.mem = IF cleared THEN {} ELSE s.mem
      /\ saved => t.etag = w.etag
      /\ cleared => t.etag = 0
      /\ ~saved /\ ~cleared => t.etag = s.etag
      /\ saved /\ w.op = "save" => t.saved = w.version
      /\ saved /\ w.op = "append" =>
            t.saved = IF s.saved = w.version - 1 THEN w.version ELSE s.saved
      /\ ~saved => t.saved = s.saved
  BY DEF ReplyStep
<1>2. ~Busy(t) /\ Whole(s) /\ WriteFits(x, s) BY <1>1 DEF Busy, NoWrite, WholeInv, TurnInv
<1>3. Durable' = Durable /\ (record.etag = 0 => Durable = {})
  BY <1>1 DEF Durable, Fold, Entries, StorageInv, FreshInv
<1>4. Whole(act[x])'
  <2>1. t.etag = record.etag => Durable \subseteq t.mem
    <3>1. CASE saved BY <1>1, <1>2, <3>1 DEF Whole
    <3>2. CASE cleared BY <1>1, <1>3, <3>2
    <3>3. CASE ~saved /\ ~cleared BY <1>1, <1>2, <3>3 DEF Whole
    <3> QED BY <3>1, <3>2, <3>3
  <2> QED BY <1>1, <1>2, <1>3, <2>1 DEF Whole
<1>5. \A c \in Calls : /\ call'[c].at = call[c].at /\ call'[c].kind = call[c].kind
                       /\ call'[c].wanted = call[c].wanted
                       /\ \/ call'[c] = call[c]
                          \/ call[c].at = x /\ call[c].pc = "writing"
  BY DEF ReplyStep, Only, GoesOn, GivesUp
<1>6. ASSUME NEW c \in Calls, Appending(c, x)' PROVE EntryFits(c, act[x])'
  <2>1. /\ s.saved \in Nat /\ w.version \in Nat /\ call[c].wanted \in Nat
        /\ w.op \in {"save", "append", "clear"}
    BY <1>1 DEF StorageInv, TypeOK, ActOK, WriteOK, CallOK, Busy
  <2>2. /\ call[c].kind = "append" /\ call[c].pc \in {"gate", "writing"} /\ call[c].at = x
        /\ t.saved < call[c].wanted
    BY <1>5, <1>6 DEF Appending
  <2>3. s.saved < call[c].wanted
    <3>1. saved /\ w.op = "save" => s.saved <= w.version BY <1>1 DEF SpreadInv, SentFits
    <3> QED BY <1>1, <2>1, <2>2, <3>1
  <2>4. EntryFits(c, s) BY <2>2, <2>3 DEF WholeInv, Appending
  <2>5. CASE cleared BY <1>1, <1>2, <2>5 DEF EntryFits
  <2>6. CASE ~cleared /\ c \in s.mem BY <1>1, <2>6 DEF EntryFits
  <2>7. CASE ~cleared /\ c \notin s.mem
    <3>1. s.etag = 0 /\ (w.op = "save" => call[c].wanted <= w.version)
      BY <1>1, <2>4, <2>7 DEF EntryFits
    <3>2. w.op # "append"
      <4>1. w.expect = s.etag BY <1>1, EtagFacts
      <4> QED BY <1>1, <1>2, <3>1, <4>1 DEF WriteFits
    <3>3. ~saved BY <1>1, <2>1, <2>2, <3>1, <3>2
    <3> QED BY <1>1, <1>2, <2>7, <3>1, <3>3 DEF EntryFits
  <2> QED BY <2>5, <2>6, <2>7
<1>7. \A c \in Calls : \A a \in Acts : a # x /\ Appending(c, a)' => call'[c] = call[c]
  BY <1>5 DEF Appending
<1> QED BY <1>1, <1>4, <1>6, <1>7, WholeHere

LEMMA WholeStep ==
    ASSUME UniqueEtags, StorageInv, TurnInv, KeptInv, SpreadInv, WholeInv, Step
    PROVE  WholeInv'
BY QuietWhole, LoadWhole, SendWhole, RefuseWhole, LandWhole, ReplyWhole, TouchWhole DEF Step

LEMMA WholeStart == Init => WholeInv
<1> SUFFICES ASSUME Init PROVE WholeInv OBVIOUS
<1>1. /\ \A c \in Calls : call[c].pc = "new"
      /\ \A a \in Acts : ~Busy(act[a])
      /\ record = NoRecord
  BY DEF Init, NoCall, Idle, Busy, NoWrite
<1>2. Durable = {} BY <1>1 DEF Durable, Fold, NoRecord, Entries
<1> QED BY <1>1, <1>2 DEF WholeInv, Whole, Appending

LEMMA WholeStutter ==
    ASSUME WholeInv, UNCHANGED vars
    PROVE  WholeInv'
<1>1. Durable' = Durable /\ act' = act /\ call' = call /\ record' = record
  BY DEF vars, Durable, Fold, Entries
<1> QED BY <1>1 DEF WholeInv, Whole, EntryFits, Appending, Busy

-----------------------------------------------------------------------------
(* The writes of a serial turn that lost are discarded.                    *)

\* The turn that works on a serial activation does so alone, and a write in
\* flight is its own.
LEMMA WorksAlone ==
    ASSUME StorageInv, ~Interleave, NEW a \in Acts, NEW c \in Calls, call[c].at = a,
           Working(c)
    PROVE  Busy(act[a]) => act[a].pending.owner = c /\ call[c].pc = "writing"
BY TurnPlace, HeadAlone DEF Working, Over

\* Whoever sent the write in flight waits for it, or died with its host.
LEMMA WriterOrLost ==
    ASSUME StorageInv, TurnInv, NEW a \in Acts, Busy(act[a]), NEW c \in Calls,
           act[a].pending.owner = c
    PROVE  call[c].at = a /\ call[c].pc \in {"writing", "done"}
<1>1. c # Flush BY ConfigAssumption
<1>2. call[c].at = a /\ call[c].pc # "new" BY <1>1 DEF TurnInv, WriteFits
<1>3. CASE act[a].life # "gone" BY <1>1, <1>2, <1>3, Writer
<1>4. CASE act[a].life = "gone"
  <2>1. Over(c) BY <1>2, <1>4 DEF StorageInv, LaneInv, CallsPlaced
  <2> QED BY <1>2, <2>1 DEF Over
<1> QED BY <1>3, <1>4

\* A turn whose activation keeps its write, or that is left alone.
LEMMA LostStays ==
    ASSUME LostInv, ~Interleave, NEW c \in Calls, NEW a \in Acts,
           Spread(c, a)' => Spread(c, a),
           Unsaved(c)' => Unsaved(c) /\ call[c].at = a,
           call'[c].err = "conflict" => call[c].err = "conflict" /\ call[c].at = a,
           act'[a].pending = act[a].pending,
           call'[c].err = "conflict" /\ c \in act'[a].mem =>
               c \in act[a].mem /\ (Losing(act[a]) => Losing(act'[a]))
    PROVE  (ApartUnsaved(c, a) /\ LostHere(c, a))'
<1>1. call[c].at = a => ApartUnsaved(c, a) /\ LostHere(c, a) BY DEF LostInv
<1>2. ApartUnsaved(c, a)' BY <1>1 DEF ApartUnsaved, Busy
<1>3. LostHere(c, a)' BY <1>1 DEF LostHere, Busy
<1> QED BY <1>2, <1>3

LEMMA CoversStays ==
    ASSUME StorageInv, TurnInv, LostInv, ~Interleave, NEW a \in Acts,
           act'[a].pending = act[a].pending,
           \A c \in Calls : call'[c].wanted = call[c].wanted \/ call[c].pc \in {"running", "mutated"}
    PROVE  SaveCovers(act[a])'
<1>1. SaveCovers(act[a]) BY DEF LostInv
<1> SUFFICES ASSUME Busy(act[a]), act[a].pending.op = "save", act[a].pending.owner \in Calls
             PROVE  call'[act[a].pending.owner].wanted <= act[a].pending.version
  BY DEF SaveCovers, Busy
<1>2. PICK c \in Calls : c = act[a].pending.owner OBVIOUS
<1>3. call[c].pc \in {"writing", "done"} BY <1>2, WriterOrLost
<1> QED BY <1>1, <1>2, <1>3 DEF SaveCovers

\* What a quiet move leaves to be lost.
LEMMA QuietLoses ==
    ASSUME TurnInv, NEW c \in Calls, CallQuiet(c)
    PROVE  /\ call'[c].pc \in {"mutated", "gate", "writing"} => call'[c] = call[c]
           /\ call'[c].err = "conflict" => call[c].err = "conflict" /\ call'[c].at = call[c].at
           /\ call'[c].wanted = call[c].wanted
<1>1. CallFits(c) BY DEF TurnInv
<1> QED BY <1>1 DEF CallQuiet, GoesOn, GivesUp, CallFits

LEMMA QuietLost ==
    ASSUME StorageInv, TurnInv, LostInv, NEW x \in Acts, QuietStep(x)
    PROVE  LostInv'
<1> SUFFICES ASSUME ~Interleave PROVE LostInv' BY DEF LostInv
<1> DEFINE s == act[x]
           t == act'[x]
<1>1. /\ Alone(x) /\ record' = record /\ t.mem = s.mem /\ t.pending = s.pending
      /\ t.saved = s.saved /\ (Losing(t) <=> Losing(s)) /\ \A c \in Calls : CallQuiet(c)
  BY DEF QuietStep, Steady
<1>2. \A c \in Calls, a \in Acts : Spread(c, a)' => Spread(c, a)
  BY <1>1, NothingSpreads DEF Busy
<1>3. \A c \in Calls :
         /\ call'[c].pc \in {"mutated", "gate", "writing"} => call'[c] = call[c]
         /\ call'[c].err = "conflict" => call[c].err = "conflict" /\ call'[c].at = call[c].at
         /\ call'[c].wanted = call[c].wanted
  BY <1>1, QuietLoses
<1>4. \A b \in Acts : /\ act'[b].mem = act[b].mem /\ act'[b].pending = act[b].pending
                      /\ act'[b].saved = act[b].saved /\ (Losing(act'[b]) <=> Losing(act[b]))
  BY <1>1 DEF Alone
<1>5. ASSUME NEW c \in Calls, NEW a \in Acts, call'[c].at = a
      PROVE  (ApartUnsaved(c, a) /\ LostHere(c, a))'
  <2>1. Unsaved(c)' => Unsaved(c) /\ call[c].at = a BY <1>3, <1>4, <1>5 DEF Unsaved
  <2> QED BY <1>2, <1>3, <1>4, <1>5, <2>1, LostStays
<1>6. \A a \in Acts : SaveCovers(act[a])' BY <1>3, <1>4, CoversStays
<1> QED BY <1>5, <1>6 DEF LostInv

LEMMA LoadLost ==
    ASSUME StorageInv, TurnInv, LostInv, NEW x \in Acts, LoadStep(x)
    PROVE  LostInv'
<1> SUFFICES ASSUME ~Interleave PROVE LostInv' BY DEF LostInv
<1> DEFINE s == act[x]
           t == act'[x]
<1>1. /\ Alone(x) /\ record' = record /\ t.mem = Durable /\ t.pending = s.pending
      /\ ~Busy(s) /\ (s.life = "none" \/ (s.reload /\ s.life # "gone"))
      /\ \A c \in Calls : CallQuiet(c)
  BY DEF LoadStep
<1>2. \A c \in Calls, a \in Acts : Spread(c, a)' => Spread(c, a)
  BY <1>1, NothingSpreads DEF Busy
<1>3. \A c \in Calls :
         /\ call'[c].pc \in {"mutated", "gate", "writing"} => call'[c] = call[c]
         /\ call'[c].err = "conflict" => call[c].err = "conflict" /\ call'[c].at = call[c].at
         /\ call'[c].wanted = call[c].wanted
  BY <1>1, QuietLoses
<1>4. \A b \in Acts : b # x => act'[b] = act[b] BY <1>1 DEF Alone
\* No turn of the activation is on its way to the storage.
<1>5. \A c \in Calls : call'[c].at = x => ~Unsaved(c)'
  <2> SUFFICES ASSUME NEW c \in Calls, call'[c].at = x, Unsaved(c)' PROVE FALSE
    OBVIOUS
  <2>1. call'[c] = call[c] BY <1>3 DEF Unsaved
  <2>2. call[c].pc \in {"mutated", "gate", "writing"} /\ call[c].at = x
    BY <2>1 DEF Unsaved
  <2>3. s.life # "none" BY <2>2 DEF TurnInv, CallFits
  <2>4. Working(c) BY <2>2 DEF Working
  <2> QED BY <1>1, <2>2, <2>3, <2>4 DEF TurnInv, ParkedFits
<1>6. ASSUME NEW c \in Calls, NEW a \in Acts, call'[c].at = a
      PROVE  (ApartUnsaved(c, a) /\ LostHere(c, a))'
  <2>1. CASE a # x
    <3>1. act'[a] = act[a] BY <1>4, <2>1
    <3>2. Unsaved(c)' => Unsaved(c) /\ call[c].at = a BY <1>3, <1>6, <3>1 DEF Unsaved
    <3> QED BY <1>2, <1>3, <1>6, <3>1, <3>2, LostStays
  <2>2. CASE a = x
    <3>1. ApartUnsaved(c, x)' BY <1>5, <1>6, <2>2 DEF ApartUnsaved
    <3>2. LostHere(c, x)'
      <4> SUFFICES ASSUME call'[c].err = "conflict" PROVE LostHere(c, x)'
        BY DEF LostHere
      <4>1. call[c].err = "conflict" /\ call[c].at = x BY <1>3, <1>6, <2>2
      <4>2. ~Spread(c, x) BY <4>1 DEF LostInv, LostHere
      <4>3. c \notin t.mem BY <1>1, <4>2 DEF Spread
      <4> QED BY <1>1, <1>2, <4>2, <4>3 DEF LostHere, Busy
    <3> QED BY <2>2, <3>1, <3>2
  <2> QED BY <2>1, <2>2
<1>7. \A a \in Acts : act'[a].pending = act[a].pending BY <1>1, <1>4
<1>8. \A a \in Acts : SaveCovers(act[a])' BY <1>3, <1>7, CoversStays
<1> QED BY <1>6, <1>8 DEF LostInv

LEMMA TouchLost ==
    ASSUME StorageInv, TurnInv, SpreadInv, LostInv, NEW x \in Acts, NEW d \in Calls,
           TouchStep(x, d) \/ VersionStep(x, d)
    PROVE  LostInv'
<1> SUFFICES ASSUME ~Interleave PROVE LostInv' BY DEF LostInv
<1> DEFINE s == act[x]
           t == act'[x]
<1>1. /\ Alone(x) /\ Only(d) /\ record' = record /\ t.mem \subseteq s.mem \cup {d}
      /\ t.pending = s.pending /\ t.saved = s.saved /\ (Losing(t) <=> Losing(s))
      /\ call[d].at = x /\ call'[d].at = x /\ call[d].pc \in {"running", "mutated"}
      /\ call'[d].err = call[d].err
  BY DEF TouchStep, VersionStep, Steady, GoesOn
<1>2. \A c \in Calls, a \in Acts : c # d \/ a = x => (Spread(c, a)' => Spread(c, a))
  BY <1>1, OneSpreads
<1>3. \A c \in Calls : c # d => call'[c] = call[c] BY <1>1 DEF Only
<1>4. \A b \in Acts : /\ act'[b].mem \subseteq act[b].mem \cup {d}
                      /\ act'[b].pending = act[b].pending
                      /\ act'[b].saved = act[b].saved /\ (Losing(act'[b]) <=> Losing(act[b]))
  BY <1>1 DEF Alone
<1>5. CallFits(d) /\ call[d].err = "none" BY <1>1 DEF TurnInv, CallFits
<1>6. ASSUME NEW c \in Calls, NEW a \in Acts, call'[c].at = a
      PROVE  (ApartUnsaved(c, a) /\ LostHere(c, a))'
  <2>1. CASE c # d
    <3>1. call'[c] = call[c] /\ (c \in act'[a].mem => c \in act[a].mem) BY <1>3, <1>4, <2>1
    <3>2. Unsaved(c)' => Unsaved(c) /\ call[c].at = a BY <1>4, <1>6, <3>1 DEF Unsaved
    <3> QED BY <1>2, <1>4, <1>6, <2>1, <3>1, <3>2, LostStays
  <2>2. CASE c = d
    <3>1. a = x /\ call'[d].err # "conflict" BY <1>1, <1>5, <1>6, <2>2
    <3>2. LostHere(d, x)' BY <3>1 DEF LostHere
    <3>3. ~Spread(d, x)
      <4>1. CASE call[d].pc = "running" BY <4>1 DEF SpreadInv, Unborn, Spread
      <4>2. CASE call[d].pc = "mutated"
        <5>1. Unsaved(d) /\ Working(d) BY <4>2 DEF Unsaved, Working
        <5>2. ~(Busy(s) /\ s.pending.owner = d) BY <1>1, <4>2, <5>1, WorksAlone
        <5> QED BY <1>1, <5>1, <5>2 DEF LostInv, ApartUnsaved
      <4> QED BY <1>1, <4>1, <4>2
    <3>4. ApartUnsaved(d, x)' BY <1>2, <3>3 DEF ApartUnsaved
    <3> QED BY <2>2, <3>1, <3>2, <3>4
  <2> QED BY <2>1, <2>2
<1>7. \A c \in Calls : call'[c].wanted = call[c].wanted \/ call[c].pc \in {"running", "mutated"}
  BY <1>1, <1>3
<1>8. \A a \in Acts : SaveCovers(act[a])' BY <1>4, <1>7, CoversStays
<1> QED BY <1>6, <1>8 DEF LostInv

LEMMA SendLost ==
    ASSUME StorageInv, TurnInv, KeptInv, LostInv, NEW x \in Acts, SendStep(x)
    PROVE  LostInv'
<1> SUFFICES ASSUME ~Interleave PROVE LostInv' BY DEF LostInv
<1> DEFINE s == act[x]
           t == act'[x]
           w == t.pending
<1>1. /\ Alone(x) /\ record' = record /\ t.mem = s.mem /\ t.saved = s.saved
      /\ (Losing(t) <=> Losing(s)) /\ ~Busy(s) /\ w.reply = "sent"
      /\ w.op = "save" => w.state = s.mem /\ w.version = s.version /\ ~Losing(s)
      /\ w.op # "save" => w.state = {}
  BY DEF SendStep, Steady
<1>2. \A c \in Calls : \A a \in Acts : Spread(c, a)' => Spread(c, a)
  <2>1. w.state \subseteq s.mem BY <1>1
  <2> QED BY <1>1, <2>1, NothingSpreads
<1>3. \A c \in Calls : /\ call'[c].at = call[c].at /\ call'[c].kind = call[c].kind
                       /\ call'[c].wanted = call[c].wanted /\ call'[c].err = call[c].err
                       /\ call'[c].pc = "mutated" => call[c].pc = "mutated"
                       /\ call'[c].pc = "gate" => call[c].pc = "gate"
                       /\ call'[c].pc = "writing" /\ call[c].kind # "clear" =>
                             call[c].pc \in {"gate", "writing"}
                       /\ c = w.owner => call[c].pc \in {"gate", "running"}
                       /\ c = w.owner => call[c].at = x
  BY ConfigAssumption DEF SendStep, Only, GoesOn
<1>4. \A b \in Acts : b # x => act'[b] = act[b] BY <1>1 DEF Alone
<1>5. ASSUME NEW c \in Calls, NEW a \in Acts, call'[c].at = a
      PROVE  (ApartUnsaved(c, a) /\ LostHere(c, a))'
  <2>1. act'[a].saved = act[a].saved BY <1>1, <1>4
  <2>2. Unsaved(c)' => Unsaved(c) /\ call[c].at = a BY <1>3, <1>5, <2>1 DEF Unsaved
  <2>3. CASE a # x
    <3>1. act'[a] = act[a] BY <1>4, <2>3
    <3> QED BY <1>2, <1>3, <1>5, <2>2, <3>1, LostStays
  <2>4. CASE a = x
    <3>1. call[c].at = x /\ ApartUnsaved(c, x) /\ LostHere(c, x) BY <1>3, <1>5, <2>4 DEF LostInv
    <3>2. ApartUnsaved(c, x)' BY <1>1, <1>2, <2>2, <3>1 DEF ApartUnsaved
    <3>3. LostHere(c, x)'
      <4> SUFFICES ASSUME call[c].err = "conflict" PROVE LostHere(c, x)'
        BY <1>3 DEF LostHere
      <4>1. w.owner # c
        <5>1. CallFits(c) BY DEF TurnInv
        <5>2. call[c].pc \notin {"gate", "running"} BY <5>1 DEF CallFits
        <5> QED BY <1>3, <5>2
      <4>2. c \notin w.state BY <1>1, <3>1 DEF LostHere
      <4> QED BY <1>1, <1>2, <3>1, <4>1, <4>2 DEF LostHere
    <3> QED BY <2>4, <3>2, <3>3
  <2> QED BY <2>3, <2>4
<1>6. ASSUME NEW a \in Acts PROVE SaveCovers(act[a])'
  <2>1. CASE a # x
    <3>1. act'[a] = act[a] BY <1>4, <2>1
    <3> QED BY <1>3, <3>1, CoversStays
  <2>2. CASE a = x
    <3> SUFFICES ASSUME w.op = "save", w.owner \in Calls
                 PROVE  call'[w.owner].wanted <= w.version
      BY <2>2 DEF SaveCovers
    <3>1. PICK c \in Calls : c = w.owner OBVIOUS
    <3>2. call[c].at = x /\ call[c].wanted \in Nat /\ s.version \in Nat
      BY <1>3, <3>1 DEF StorageInv, TypeOK, CallOK, ActOK
    <3>3. call[c].wanted <= s.version
      <4>1. call[c].wanted > 0 => call[c].wanted <= s.version
        BY <3>2 DEF KeptInv, VersionsAt
      <4> QED BY <3>2, <4>1
    <3> QED BY <1>1, <1>3, <3>1, <3>3
  <2> QED BY <2>1, <2>2
<1> QED BY <1>5, <1>6 DEF LostInv

LEMMA RefuseLost ==
    ASSUME StorageInv, TurnInv, LostInv, NEW x \in Acts, RefuseStep(x)
    PROVE  LostInv'
<1> SUFFICES ASSUME ~Interleave PROVE LostInv' BY DEF LostInv
<1> DEFINE s == act[x]
           t == act'[x]
           w == s.pending
<1>1. /\ Alone(x) /\ record' = record /\ t.mem = s.mem /\ t.saved = s.saved
      /\ call' = call /\ Busy(s) /\ w.reply = "sent" /\ (Losing(t) <=> Losing(s))
      /\ t.pending.op = w.op /\ t.pending.owner = w.owner
      /\ t.pending.state = w.state /\ t.pending.version = w.version
  BY DEF RefuseStep, Answers, Steady
<1>2. \A c \in Calls, a \in Acts : Spread(c, a)' => Spread(c, a)
  BY <1>1, NothingSpreads
<1>3. \A b \in Acts : b # x => act'[b] = act[b] BY <1>1 DEF Alone
<1>4. ASSUME NEW c \in Calls, NEW a \in Acts, call[c].at = a
      PROVE  (ApartUnsaved(c, a) /\ LostHere(c, a))'
  <2>1. act'[a].saved = act[a].saved BY <1>1, <1>3
  <2>2. Unsaved(c)' => Unsaved(c) BY <1>1, <1>4, <2>1 DEF Unsaved
  <2>3. CASE a # x
    <3>1. act'[a] = act[a] BY <1>3, <2>3
    <3> QED BY <1>1, <1>2, <1>4, <2>2, <3>1, LostStays
  <2>4. CASE a = x
    <3>1. ApartUnsaved(c, x) /\ LostHere(c, x) BY <1>4, <2>4 DEF LostInv
    <3>2. ApartUnsaved(c, x)' BY <1>1, <1>2, <2>2, <3>1 DEF ApartUnsaved
    <3>3. LostHere(c, x)' BY <1>1, <1>2, <3>1 DEF LostHere, Busy
    <3> QED BY <2>4, <3>2, <3>3
  <2> QED BY <2>3, <2>4
<1>5. ASSUME NEW a \in Acts PROVE SaveCovers(act[a])'
  <2>1. SaveCovers(act[a]) BY DEF LostInv
  <2>2. CASE a # x BY <1>1, <1>3, <2>1, <2>2 DEF SaveCovers, Busy
  <2>3. CASE a = x BY <1>1, <2>1, <2>3 DEF SaveCovers, Busy
  <2> QED BY <2>2, <2>3
<1> QED BY <1>1, <1>4, <1>5 DEF LostInv

LEMMA LandLost ==
    ASSUME UniqueEtags, StorageInv, TurnInv, LostInv, WholeInv, NEW x \in Acts, LandStep(x)
    PROVE  LostInv'
<1> SUFFICES ASSUME ~Interleave PROVE LostInv' BY DEF LostInv
<1> DEFINE s == act[x]
           t == act'[x]
           w == s.pending
<1>1. /\ Alone(x) /\ t.mem = s.mem /\ t.saved = s.saved
      /\ call' = call /\ Busy(s) /\ w.reply = "sent" /\ (Losing(t) <=> Losing(s))
      /\ t.pending.reply \in {"ok", "error"}
      /\ t.pending.op = w.op /\ t.pending.owner = w.owner
      /\ t.pending.state = w.state /\ t.pending.version = w.version
  BY DEF LandStep, Answers, Steady
<1>2. /\ w.op \in {"save", "append", "clear"} /\ (w.op # "save" => w.owner \in Calls)
      /\ w.op = "clear" => Durable' = {}
      /\ w.op = "save" => Durable' = w.state
      /\ w.op = "append" => Durable' = Durable \cup {w.owner}
  BY LandFacts
<1>3. \A b \in Acts : b # x => act'[b] = act[b] BY <1>1 DEF Alone
\* What the record takes in, the other activations saw already, but for the
\* entry of an append; and the activation itself wrote it.
<1>4. \A c \in Calls, a \in Acts : a # x /\ (w.op = "append" => c # w.owner) =>
         (Spread(c, a)' => Spread(c, a))
  BY <1>1, <1>2, <1>3 DEF Spread, Busy
<1>5. \A c \in Calls : c # w.owner /\ c \notin w.state => (Spread(c, x)' => Spread(c, x))
  BY <1>2, <1>3 DEF Spread
<1>6. \A c \in Calls : c = w.owner => call[c].at = x BY <1>1, WriterOrLost
<1>7. ASSUME NEW c \in Calls, NEW a \in Acts, call[c].at = a
      PROVE  (ApartUnsaved(c, a) /\ LostHere(c, a))'
  <2>1. act'[a].saved = act[a].saved BY <1>1, <1>3
  <2>2. Unsaved(c)' => Unsaved(c) BY <1>1, <1>7, <2>1 DEF Unsaved
  <2>3. CASE a # x
    <3>1. act'[a] = act[a] BY <1>3, <2>3
    <3>2. Spread(c, a)' => Spread(c, a) BY <1>4, <1>6, <1>7, <2>3
    <3> QED BY <1>1, <1>7, <2>2, <3>1, <3>2, LostStays
  <2>4. CASE a = x
    <3>1. LostHere(c, x) BY <1>7, <2>4 DEF LostInv
    <3>2. ApartUnsaved(c, x)'
      <4> SUFFICES ASSUME Unsaved(c)
                   PROVE  Busy(t) /\ t.pending.owner = c /\ t.pending.reply \in {"ok", "error"}
        BY <2>2 DEF ApartUnsaved
      <4>1. Working(c) BY DEF Unsaved, Working
      <4>2. w.owner = c BY <1>1, <1>7, <2>4, <4>1, WorksAlone
      <4> QED BY <1>1, <4>2 DEF Busy
    <3>3. LostHere(c, x)' BY <1>1, <1>5, <3>1 DEF LostHere, Busy
    <3> QED BY <2>4, <3>2, <3>3
  <2> QED BY <2>3, <2>4
<1>8. ASSUME NEW a \in Acts PROVE SaveCovers(act[a])'
  <2>1. SaveCovers(act[a]) BY DEF LostInv
  <2>2. CASE a # x BY <1>1, <1>3, <2>1, <2>2 DEF SaveCovers, Busy
  <2>3. CASE a = x BY <1>1, <2>1, <2>3 DEF SaveCovers, Busy
  <2> QED BY <2>2, <2>3
<1> QED BY <1>1, <1>7, <1>8 DEF LostInv

LEMMA ReplyLost ==
    ASSUME StorageInv, TurnInv, SpreadInv, LostInv, NEW x \in Acts, ReplyStep(x)
    PROVE  LostInv'
<1> SUFFICES ASSUME ~Interleave PROVE LostInv' BY DEF LostInv
<1> DEFINE s == act[x]
           t == act'[x]
           w == s.pending
<1>1. /\ Alone(x) /\ record' = record /\ Busy(s) /\ s.life # "gone"
      /\ t.pending = NoWrite /\ t.mem \subseteq s.mem
      /\ w.reply = "ok" /\ w.op = "save" => t.saved = w.version
      /\ Losing(t) <=> Losing(s) \/ (w.reply = "conflict" /\ w.op # "clear")
  BY DEF ReplyStep
<1>2. ~Busy(t) BY <1>1 DEF Busy, NoWrite
<1>3. \A c \in Calls, a \in Acts : Spread(c, a)' => Spread(c, a)
  BY <1>1, <1>2, NothingSpreads
<1>4. \A b \in Acts : b # x => act'[b] = act[b] BY <1>1 DEF Alone
<1>5. \A c \in Calls : /\ call'[c].at = call[c].at /\ call'[c].wanted = call[c].wanted
                       /\ c # w.owner => call'[c] = call[c]
                       /\ c = w.owner => call[c].at = x
  BY ConfigAssumption DEF ReplyStep, Only, GoesOn, GivesUp
\* The turn that gets the reply asks on at most after a save, which has covered
\* what it asked for.
<1>6. \A c \in Calls : c = w.owner =>
         /\ call[c].pc = "writing"
         /\ call'[c].pc \in {"gate", "ending"}
         /\ call'[c].pc = "gate" => w.reply = "ok" /\ w.op = "save"
         /\ call'[c].err = "conflict" => w.reply = "conflict" \/ call[c].err = "conflict"
  BY ConfigAssumption DEF ReplyStep, GoesOn, GivesUp
<1>7. \A c \in Calls : call[c].at = x => ~Unsaved(c)'
  <2> SUFFICES ASSUME NEW c \in Calls, call[c].at = x, Unsaved(c)' PROVE FALSE
    OBVIOUS
  <2>1. CASE c # w.owner
    <3>1. call'[c] = call[c] BY <1>5, <2>1
    <3>2. Working(c) BY <3>1 DEF Unsaved, Working
    <3> QED BY <1>1, <2>1, <3>2, WorksAlone
  <2>2. CASE c = w.owner
    <3>1. w.reply = "ok" /\ w.op = "save" /\ t.saved < call[c].wanted
      BY <1>5, <1>6, <2>2 DEF Unsaved
    <3>2. call[c].wanted <= w.version BY <1>1, <2>2, <3>1 DEF LostInv, SaveCovers
    <3>3. w.version \in Nat /\ call[c].wanted \in Nat
      BY DEF StorageInv, TypeOK, ActOK, WriteOK, CallOK
    <3> QED BY <1>1, <3>1, <3>2, <3>3
  <2> QED BY <2>1, <2>2
<1>8. ASSUME NEW c \in Calls, call[c].at = x PROVE LostHere(c, x)'
  <2> SUFFICES ASSUME call'[c].err = "conflict" PROVE LostHere(c, x)'
    BY DEF LostHere
  <2>1. CASE call[c].err = "conflict"
    <3>1. LostHere(c, x) BY <1>8 DEF LostInv
    <3> QED BY <1>1, <1>2, <1>3, <2>1, <3>1 DEF LostHere
  <2>2. CASE call[c].err # "conflict"
    <3>1. c = w.owner BY <1>5, <2>2
    <3>2. w.reply = "conflict" /\ call[c].pc = "writing" BY <1>6, <2>2, <3>1
    <3>3. CASE w.op = "clear"
      <4>1. call[c].kind = "clear"
        BY <1>1, <3>1, <3>3 DEF TurnInv, WriteFits
      <4>2. ~Spread(c, x) /\ c \notin s.mem BY <4>1 DEF SpreadInv, Unborn, Spread
      <4> QED BY <1>1, <1>2, <1>3, <4>2 DEF LostHere
    <3>4. CASE w.op # "clear"
      <4>1. s.saved < call[c].wanted
        BY <1>1, <3>1, <3>4, ConfigAssumption DEF TurnInv, WriteFits
      <4>2. call[c].kind # "clear"
        <5>1. call[c].kind = "clear" => call[c].wanted = 0 BY DEF TurnInv, CallFits
        <5>2. s.saved \in Nat BY DEF StorageInv, TypeOK, ActOK
        <5> QED BY <4>1, <5>1, <5>2
      <4>3. Unsaved(c) BY <1>8, <3>2, <4>1, <4>2 DEF Unsaved
      <4>4. ~Spread(c, x) BY <1>8, <3>2, <4>3 DEF LostInv, ApartUnsaved
      <4> QED BY <1>1, <1>2, <1>3, <3>2, <3>4, <4>4 DEF LostHere
    <3> QED BY <3>3, <3>4
  <2> QED BY <2>1, <2>2
<1>9. ASSUME NEW c \in Calls, NEW a \in Acts, call'[c].at = a
      PROVE  (ApartUnsaved(c, a) /\ LostHere(c, a))'
  <2>1. CASE a # x
    <3>1. act'[a] = act[a] /\ call'[c] = call[c] BY <1>4, <1>5, <1>9, <2>1
    <3>2. Unsaved(c)' => Unsaved(c) BY <1>9, <3>1 DEF Unsaved
    <3> QED BY <1>3, <1>9, <3>1, <3>2, LostStays
  <2>2. CASE a = x BY <1>5, <1>7, <1>8, <1>9, <2>2 DEF ApartUnsaved
  <2> QED BY <2>1, <2>2
<1>10. ASSUME NEW a \in Acts PROVE SaveCovers(act[a])'
  <2>1. CASE a # x
    <3>1. act'[a] = act[a] BY <1>4, <2>1
    <3> QED BY <1>5, <3>1, CoversStays
  <2>2. CASE a = x BY <1>2, <2>2 DEF SaveCovers
  <2> QED BY <2>1, <2>2
<1> QED BY <1>9, <1>10 DEF LostInv

LEMMA LostStep ==
    ASSUME UniqueEtags, StorageInv, TurnInv, KeptInv, SpreadInv, WholeInv, LostInv, Step
    PROVE  LostInv'
BY QuietLost, LoadLost, TouchLost, SendLost, RefuseLost, LandLost, ReplyLost DEF Step

LEMMA LostStart == Init => LostInv
<1> SUFFICES ASSUME Init PROVE LostInv OBVIOUS
<1>1. \A c \in Calls : call[c].pc = "new" /\ call[c].err = "none" BY DEF Init, NoCall
<1>2. \A a \in Acts : ~Busy(act[a]) BY DEF Init, Idle, Busy, NoWrite
<1> QED BY <1>1, <1>2 DEF LostInv, ApartUnsaved, Unsaved, LostHere, SaveCovers

LEMMA LostStutter ==
    ASSUME LostInv, UNCHANGED vars
    PROVE  LostInv'
<1>1. Durable' = Durable /\ act' = act /\ call' = call /\ record' = record
  BY DEF vars, Durable, Fold, Entries
<1>2. \A c \in Calls, a \in Acts : Spread(c, a)' <=> Spread(c, a) BY <1>1 DEF Spread, Busy
<1> QED BY <1>1, <1>2 DEF LostInv, ApartUnsaved, Unsaved, LostHere, SaveCovers, Losing, Busy

-----------------------------------------------------------------------------
(* What an actor is told is kept is kept.                                  *)

\* Together: what every state satisfies.
PromiseInv ==
    /\ StorageInv /\ TurnInv /\ FaultInv /\ KeptInv /\ SpreadInv /\ FoldedOnce /\ WholeInv
    /\ LostInv

LEMMA PromisesHold ==
    ASSUME UniqueEtags
    PROVE  Spec => []PromiseInv
<1>1. Init => PromiseInv
  BY InitInv, TurnStart, FaultStart, KeptStart, SpreadStart, FoldedStart,
     WholeStart, LostStart DEF PromiseInv
<1>2. PromiseInv /\ [Next]_vars => PromiseInv'
  <2>1. ASSUME PromiseInv, [Next]_vars PROVE PromiseInv'
    <3>1. StorageInv' BY <2>1, NextInv DEF PromiseInv
    <3>2. CASE Next
      <4>1. Step BY <2>1, <3>2, NextSteps DEF PromiseInv
      <4> QED BY <2>1, <3>1, <4>1, TurnStep, FaultStep, KeptStep, SpreadStep, FoldedStep, WholeStep,
              LostStep
              DEF PromiseInv
    <3>3. CASE UNCHANGED vars
      <4>1. FoldedOnce' BY <2>1, <3>3 DEF PromiseInv, FoldedOnce, Entries, vars
      <4> QED BY <2>1, <3>1, <3>3, <4>1, TurnStutter, FaultStutter, KeptStutter, SpreadStutter, WholeStutter,
              LostStutter
              DEF PromiseInv
    <3> QED BY <2>1, <3>2, <3>3
  <2> QED BY <2>1
<1> QED BY <1>1, <1>2, PTL DEF Spec

LEMMA KeptOnceFollows ==
    ASSUME PromiseInv
    PROVE  KeptOnce
<1>1. AckedDurable BY DEF PromiseInv, KeptInv, AckedDurable, Acked, Kept
<1>2. SavedIsDurable
  <2> SUFFICES ASSUME NEW c \in Calls, call[c].kind = "eventual",
                      call[c].pc \in {"ending", "done"}, call[c].wanted > 0,
                      call[c].wanted <= act[call[c].at].saved
               PROVE  c \in Durable \cup wiped \cup dropped
    BY DEF SavedIsDurable
  <2>1. CallFits(c) BY DEF PromiseInv, TurnInv
  <2>2. PICK a \in Acts : a = call[c].at BY <2>1 DEF CallFits
  <2>3. VersionsAt(a, act[a]) BY DEF PromiseInv, KeptInv
  <2>4. Resolved(c) BY <2>2, <2>3 DEF VersionsAt
  <2> QED BY <2>4 DEF Resolved, Kept
<1> QED BY <1>1, <1>2 DEF PromiseInv, KeptOnce

\* KeptOnce: an immediate save or an append that resolved is in the record for
\* ever after, unless a clear removed it; a version that counts as saved is
\* stored; and no entry is folded twice -- however many activations of the
\* actor are live, stale or already replaced, and whatever answers are lost
\* (activation.ts: the gate resolves a version only once a write of it landed,
\* and every write is a compare-and-swap on the etag of the copy it was made of).
THEOREM PromisesKeptOnce ==
    ASSUME UniqueEtags
    PROVE  Spec => []KeptOnce
BY KeptOnceFollows, PromisesHold, PTL

\* LosingTurnDiscarded: what a serial turn wrote whose save, append or clear was
\* refused by the compare-and-swap never becomes durable -- neither by a later
\* save of its activation, nor by its flushes, nor by another activation
\* (activation.ts: the conflict faults the activation, or parks a reload that
\* replaces the copy before the next turn runs).
THEOREM LosingTurnsDiscarded ==
    ASSUME UniqueEtags
    PROVE  Spec => []LosingTurnDiscarded
<1>1. PromiseInv => LosingTurnDiscarded
  <2> SUFFICES ASSUME PromiseInv, ~Interleave, NEW c \in Calls, call[c].err = "conflict"
               PROVE  c \notin Durable
    BY DEF LosingTurnDiscarded
  <2>1. CallFits(c) BY DEF PromiseInv, TurnInv
  <2>2. PICK a \in Acts : a = call[c].at BY <2>1 DEF CallFits
  <2>3. ~Spread(c, a) BY <2>2 DEF PromiseInv, LostInv, LostHere
  <2> QED BY <2>3 DEF Spread
<1> QED BY <1>1, PromisesHold, PTL

-----------------------------------------------------------------------------
(* The persistence path implements DurableState.                           *)

\* A turn that moves acknowledges nothing, unless it ends well.
LEMMA AckedOne ==
    ASSUME NEW c \in Calls, Only(c), call[c].pc # "done"
    PROVE  /\ call'[c].pc # "done" \/ call'[c].err # "none" => Acked' = Acked
           /\ Acked' \subseteq Acked \cup {c} /\ Acked \subseteq Acked'
BY DEF Acked, Only

\* Only the end of a turn acknowledges, and only a turn without an error.
LEMMA AckedMoves ==
    ASSUME StorageInv, Next
    PROVE  \/ Acked' = Acked
           \/ \E c \in Calls : /\ call[c].pc = "ending" /\ call[c].err = "none"
                               /\ call[c].kind \in {"save", "append"}
                               /\ Acked' = Acked \cup {c}
                               /\ UNCHANGED <<record, wiped>>
<1>0. TypeOK BY DEF StorageInv
<1>1. ASSUME UNCHANGED call PROVE Acked' = Acked BY <1>1 DEF Acked
<1>2. ASSUME NEW c \in Calls, StartTurn(c) \/ StartReloadFails(c) PROVE Acked' = Acked
  <2>1. call[c].pc = "queued"
    BY <1>2 DEF StartTurn, StartReloadFails, Runnable
  <2>2. CASE SetCall(c, "running")
    BY <1>0, <2>1, <2>2, CallGoesOn, AckedOne DEF GoesOn
  <2>3. CASE \E err \in {"transient", "faulted"} : FailCall(c, "done", err)
    BY <1>0, <2>1, <2>3, CallGivesUp, AckedOne DEF GivesUp
  <2> QED BY <1>2, <2>2, <2>3 DEF StartTurn, StartReloadFails
<1>3. ASSUME NEW c \in Calls, StartAfterReload(c) \/ Mutate(c) \/ ClearState(c)
      PROVE  Acked' = Acked
  <2>1. call[c].pc # "done"
    BY <1>3 DEF StartAfterReload, Runnable, Mutate, ClearState
  <2>2. PICK pc \in {"running", "ending", "mutated", "writing"} : SetCall(c, pc)
    BY <1>3 DEF StartAfterReload, Mutate, ClearState
  <2> QED BY <1>0, <2>1, <2>2, CallGoesOn, AckedOne DEF GoesOn
<1>4. ASSUME NEW c \in Calls, SaveImmediate(c) \/ SaveEventual(c) \/ AppendEntry(c)
      PROVE  Acked' = Acked
  <2>1. call[c].pc # "done" BY <1>4 DEF SaveImmediate, SaveEventual, AppendEntry
  <2>2. PICK pc \in {"gate", "ending"} : \E v : WantVersion(c, pc, v)
    BY <1>4 DEF SaveImmediate, SaveEventual, AppendEntry
  <2> QED BY <1>0, <2>1, <2>2, CallWants, AckedOne
<1>5. ASSUME NEW c \in Calls, Gate(c) PROVE Acked' = Acked
  <2>1. call[c].pc # "done" BY <1>5 DEF Gate
  <2>2. CASE \E pc \in {"ending", "writing"} : SetCall(c, pc)
    BY <1>0, <2>1, <2>2, CallGoesOn, AckedOne DEF GoesOn
  <2>3. CASE FailCall(c, "ending", "faulted")
    BY <1>0, <2>1, <2>3, CallGivesUp, AckedOne DEF GivesUp
  <2> QED BY <1>5, <2>2, <2>3 DEF Gate
<1>6. ASSUME NEW c \in Calls, NEW a \in Acts, NEW k \in Kinds, Enqueue(c, a, k)
      PROVE  Acked' = Acked
  <2> DEFINE d == [call[c] EXCEPT !.pc = "queued", !.kind = k, !.at = a]
  <2>1. call[c].pc = "new" /\ call' = [call EXCEPT ![c] = d] BY <1>6 DEF Enqueue, PutCall
  <2>2. call'[c] = d /\ Only(c) BY <1>0, <2>1, CallMoves
  <2>3. CallOK(call[c]) BY <1>0 DEF TypeOK
  <2>4. call'[c].pc = "queued" BY <2>2, <2>3 DEF CallOK
  <2> QED BY <2>1, <2>2, <2>4, AckedOne
<1>7. ASSUME NEW a \in Acts, ReplyToCall(a) PROVE Acked' = Acked
  <2> DEFINE w == act[a].pending
  <2>1. /\ Busy(act[a]) /\ act[a].life # "gone" /\ w.owner # Flush /\ WriteOK(w)
    BY <1>0, <1>7 DEF ReplyToCall, TypeOK, ActOK
  <2>2. PICK c \in Calls : c = w.owner BY <2>1 DEF WriteOK
  <2>3. call[c].pc = "writing" BY <2>1, <2>2 DEF StorageInv, LaneInv, WriterWaits
  <2>4. CASE \E pc \in {"gate", "ending"} : SetCall(c, pc)
    BY <1>0, <2>3, <2>4, CallGoesOn, AckedOne DEF GoesOn
  <2>5. CASE \E err \in {"conflict", "transient"} : FailCall(c, "ending", err)
    <3>1. PICK err \in {"conflict", "transient"} :
             call' = [call EXCEPT ![c] = [call[c] EXCEPT !.pc = "ending", !.err = err]]
      BY <2>5 DEF FailCall, PutCall
    <3>2. call'[c] = [call[c] EXCEPT !.pc = "ending", !.err = err] /\ Only(c)
      BY <1>0, <3>1, CallMoves
    <3>3. CallOK(call[c]) BY <1>0 DEF TypeOK
    <3>4. call'[c].pc = "ending" BY <3>2, <3>3 DEF CallOK
    <3> QED BY <2>3, <3>2, <3>4, AckedOne
  <2>6. /\ w.reply = "ok" => SetCall(c, IF w.op = "save" THEN "gate" ELSE "ending")
        /\ w.reply = "conflict" => FailCall(c, "ending", "conflict")
        /\ w.reply = "error" => FailCall(c, "ending", "transient")
        /\ w.reply \in {"ok", "conflict", "error"}
    BY <1>7, <2>1, <2>2 DEF ReplyToCall, WriteOK
  <2> QED BY <2>4, <2>5, <2>6
<1>8. ASSUME NEW a \in Acts, Crash(a) PROVE Acked' = Acked
  <2>1. \A c \in Calls : \/ call'[c] = call[c]
                         \/ call[c].pc # "done" /\ call'[c].err # "none"
    <3> SUFFICES ASSUME NEW c \in Calls
                 PROVE  \/ call'[c] = call[c]
                        \/ call[c].pc # "done" /\ call'[c].err # "none"
      OBVIOUS
    <3>1. call'[c] = IF c \in CallsAt(a)
                     THEN [call[c] EXCEPT !.pc = "done", !.err = "lost"] ELSE call[c]
      BY <1>8 DEF Crash
    <3>2. c \in CallsAt(a) => call[c].pc # "done" BY DEF CallsAt, Over
    <3>3. CallOK(call[c]) BY <1>0 DEF TypeOK
    <3>4. c \in CallsAt(a) => call'[c].err = "lost" BY <3>1, <3>3 DEF CallOK
    <3> QED BY <3>1, <3>2, <3>4
  <2> QED BY <2>1 DEF Acked
<1>9. ASSUME NEW c \in Calls, EndTurn(c)
      PROVE  \/ Acked' = Acked
             \/ /\ call[c].pc = "ending" /\ call[c].err = "none"
                /\ call[c].kind \in {"save", "append"}
                /\ Acked' = Acked \cup {c}
                /\ UNCHANGED <<record, wiped>>
  <2>1. call[c].pc = "ending" /\ SetCall(c, "done") /\ UNCHANGED <<record, wiped>>
    BY <1>9 DEF EndTurn
  <2>2. GoesOn(c, "done") /\ Only(c) BY <1>0, <2>1, CallGoesOn
  <2>3. Acked' \subseteq Acked \cup {c} /\ Acked \subseteq Acked' BY <2>1, <2>2, AckedOne
  <2>4. c \in Acked' => call[c].err = "none" /\ call[c].kind \in {"save", "append"}
    BY <2>2 DEF Acked, GoesOn
  <2> QED BY <2>1, <2>3, <2>4
<1>10. ASSUME NEW c \in Calls, CallStep(c)
       PROVE  \/ Acked' = Acked
              \/ /\ call[c].pc = "ending" /\ call[c].err = "none"
                 /\ call[c].kind \in {"save", "append"}
                 /\ Acked' = Acked \cup {c}
                 /\ UNCHANGED <<record, wiped>>
  BY <1>2, <1>3, <1>4, <1>5, <1>9, <1>10 DEF CallStep
<1>11. ASSUME NEW a \in Acts, ActStep(a) PROVE Acked' = Acked
  BY <1>1, <1>7, <1>11 DEF ActStep, Accept, Refuse, ReplyToFlush, TimerFires, StartFlush,
     FlushGate, Drained
<1>12. ASSUME Environment PROVE Acked' = Acked
  BY <1>1, <1>2, <1>6, <1>8, <1>12 DEF Environment, Activate, Deactivate, ForceStop, Fail,
     StartFlushReloadFails
<1> QED BY <1>10, <1>11, <1>12 DEF Next, Progress

\* What a step does to the record and to what clears removed.
LEMMA DurableMoves ==
    ASSUME UniqueEtags, StorageInv, StorageInv', WholeInv, Step
    PROVE  \/ Durable \subseteq Durable' /\ Durable' \subseteq Calls /\ wiped' = wiped
           \/ Durable' = {} /\ wiped' = wiped \cup Durable
           \/ Durable' = Durable /\ wiped \subseteq wiped' /\ wiped' \subseteq Calls
<1>1. Durable' \subseteq Calls /\ wiped' \subseteq Calls
  <2>1. RecordOK(record)' /\ wiped' \subseteq Calls BY DEF StorageInv, TypeOK
  <2> QED BY <2>1 DEF RecordOK, Durable, Fold, Entries
<1>2. \A a \in Acts :
         /\ QuietStep(a) => record' = record /\ wiped' = wiped
         /\ LoadStep(a) => record' = record /\ wiped' = wiped
         /\ SendStep(a) => record' = record /\ wiped' = wiped
         /\ RefuseStep(a) => record' = record /\ wiped' = wiped
         /\ ReplyStep(a) => record' = record /\ wiped \subseteq wiped'
         /\ \A c \in Calls : TouchStep(a, c) \/ VersionStep(a, c)
               => record' = record /\ wiped' = wiped
  BY DEF QuietStep, LoadStep, SendStep, RefuseStep, ReplyStep, TouchStep, VersionStep
<1>3. ASSUME record' = record, wiped \subseteq wiped'
      PROVE  Durable' = Durable /\ wiped \subseteq wiped' /\ wiped' \subseteq Calls
  BY <1>1, <1>3 DEF Durable, Fold, Entries
<1>4. ASSUME NEW a \in Acts, LandStep(a)
      PROVE  \/ Durable \subseteq Durable' /\ Durable' \subseteq Calls /\ wiped' = wiped
             \/ Durable' = {} /\ wiped' = wiped \cup Durable
  <2> DEFINE w == act[a].pending
  <2>1. /\ w.op \in {"save", "append", "clear"} /\ w.expect = record.etag
        /\ w.op = "clear" => Durable' = {} /\ wiped' = wiped \cup Durable
        /\ w.op # "clear" => wiped' = wiped
        /\ w.op = "save" => Durable' = w.state
        /\ w.op = "append" => Durable' = Durable \cup {w.owner}
    BY <1>4, LandFacts
  <2>2. Busy(act[a]) /\ w.reply = "sent" BY <1>4 DEF LandStep, Answers
  <2>3. w.op = "save" => Durable \subseteq w.state BY <2>1, <2>2 DEF WholeInv, Whole
  <2> QED BY <1>1, <2>1, <2>3
<1> QED BY <1>2, <1>3, <1>4 DEF Step

LEMMA PromiseStep ==
    ASSUME UniqueEtags, PromiseInv, PromiseInv', Next
    PROVE  [Promise!Next]_<<Durable, wiped, Acked>>
<1>1. StorageInv /\ StorageInv' /\ WholeInv /\ KeptInv /\ Step
  BY NextSteps DEF PromiseInv
<1>2. CASE Acked' = Acked
  <2>1. CASE Durable \subseteq Durable' /\ Durable' \subseteq Calls /\ wiped' = wiped
    <3>1. Durable' = Durable \cup Durable' /\ Durable' \in SUBSET Calls BY <2>1
    <3>2. Promise!Commit BY <1>2, <2>1, <3>1 DEF Promise!Commit
    <3> QED BY <3>2 DEF Promise!Next
  <2>2. CASE Durable' = {} /\ wiped' = wiped \cup Durable
    <3>1. Promise!Erase BY <1>2, <2>2 DEF Promise!Erase
    <3> QED BY <3>1 DEF Promise!Next
  <2>3. CASE Durable' = Durable /\ wiped \subseteq wiped' /\ wiped' \subseteq Calls
    <3>1. wiped' = wiped \cup wiped' /\ wiped' \in SUBSET Calls BY <2>3
    <3>2. Promise!Discard BY <1>2, <2>3, <3>1 DEF Promise!Discard
    <3> QED BY <3>2 DEF Promise!Next
  <2> QED BY <1>1, <2>1, <2>2, <2>3, DurableMoves
<1>3. ASSUME NEW c \in Calls, call[c].pc = "ending", call[c].err = "none",
             call[c].kind \in {"save", "append"}, Acked' = Acked \cup {c},
             UNCHANGED <<record, wiped>>
      PROVE  Promise!Next
  <2>1. c \in Durable \cup wiped BY <1>1, <1>3 DEF KeptInv, Kept
  <2>2. Durable' = Durable /\ wiped' = wiped BY <1>3 DEF Durable, Fold, Entries
  <2>3. Promise!Acknowledge BY <1>3, <2>1, <2>2 DEF Promise!Acknowledge
  <2> QED BY <2>3 DEF Promise!Next
<1> QED BY <1>1, <1>2, <1>3, AckedMoves

\* KeepsPromise: seen as what is durable, what was cleared and what was
\* acknowledged, every step of the persistence path is one DurableState allows:
\* a save or an append only adds, only a clear removes, and a turn is
\* acknowledged only for what is in the record or was cleared (activation.ts:
\* the save gate, clearState and the reply paths of #doSave).
THEOREM ImplementsDurableState ==
    ASSUME UniqueEtags
    PROVE  Spec => KeepsPromise
<1>1. Init => Promise!Init
  <2> SUFFICES ASSUME Init PROVE Promise!Init OBVIOUS
  <2>1. Durable = {} BY DEF Init, NoRecord, Durable, Fold, Entries
  <2>2. Acked = {} BY DEF Init, NoCall, Acked
  <2> QED BY <2>1, <2>2 DEF Init, Promise!Init
<1>2. PromiseInv /\ PromiseInv' /\ [Next]_vars => [Promise!Next]_<<Durable, wiped, Acked>>
  <2>1. ASSUME PromiseInv, PromiseInv', Next PROVE [Promise!Next]_<<Durable, wiped, Acked>>
    BY <2>1, PromiseStep
  <2>2. UNCHANGED vars => UNCHANGED <<Durable, wiped, Acked>>
    BY DEF vars, Durable, Fold, Entries, Acked
  <2> QED BY <2>1, <2>2
<1> QED BY <1>1, <1>2, PromisesHold, PTL DEF Spec, KeepsPromise, Promise!Spec

-----------------------------------------------------------------------------
(* A flush of an explicit, serial actor never writes a blank state.        *)

\* What a flush owes is a state: clearState and the reload of a conflict, which
\* may leave the copy blank, also forget the eventual saves it was owed for.
OwesAState(s) ==
    /\ s.eventual > 0 => s.mem # {}
    /\ s.flushing /\ s.flushWanted > 0 => s.mem # {}
    /\ Busy(s) /\ s.pending.owner = Flush => s.pending.state # {}

\* A turn that has changed the state and not saved it finds its change there.
MutationStands(c) == call[c].pc = "mutated" => c \in act[call[c].at].mem

BlankInv ==
    ~WriteBehind /\ ~Interleave =>
        /\ \A a \in Acts : OwesAState(act[a])
        /\ \A c \in Calls : MutationStands(c)

\* t has the copy, the flush and the write that s has.
SameDebt(s, t) ==
    /\ t.mem = s.mem /\ t.eventual = s.eventual /\ t.pending = s.pending
    /\ t.flushing = s.flushing /\ t.flushWanted = s.flushWanted

LEMMA DebtStays ==
    ASSUME NEW s, NEW t, OwesAState(s), SameDebt(s, t)
    PROVE  OwesAState(t)
BY DEF OwesAState, SameDebt, Busy

LEMMA ConsumeDirtyDebt ==
    ASSUME NEW s, ActOK(s)
    PROVE  SameDebt(s, ConsumeDirty(s))
<1>1. CASE s.dirty
  <2>1. ConsumeDirty(s) = [s EXCEPT !.dirty = FALSE, !.version = @ + 1]
    BY <1>1 DEF ConsumeDirty
  <2> QED BY <2>1 DEF SameDebt
<1>2. CASE ~s.dirty BY <1>2 DEF ConsumeDirty, SameDebt
<1> QED BY <1>1, <1>2

LEMMA ReportFaultDebt ==
    ASSUME NEW s, ActOK(s)
    PROVE  SameDebt(s, ReportFault(s))
<1>1. CASE s.faulted /\ ~s.reported
  <2>1. ReportFault(s) = [s EXCEPT !.reported = TRUE,
                   !.conflict = @ \/ s.life = "live",
                   !.life = IF @ = "live" THEN "closing" ELSE @]
    BY <1>1 DEF ReportFault
  <2> QED BY <2>1 DEF SameDebt
<1>2. CASE ~(s.faulted /\ ~s.reported) BY <1>2 DEF ReportFault, SameDebt
<1> QED BY <1>1, <1>2

LEMMA AfterTurnDebt ==
    ASSUME NEW s, ActOK(s)
    PROVE  SameDebt(s, AfterTurn(s))
<1> DEFINE t == ConsumeDirty(s)
           boundary == t.version > t.notified /\ ~t.reload
           owed     == boundary /\ WriteBehind /\ t.version > t.saved
           u == [t EXCEPT !.notified = IF boundary THEN t.version ELSE @,
                              !.armed = @ \/ owed]
<1>1. ActOK(t) /\ SameDebt(s, t) BY ConsumeDirtyFacts, ConsumeDirtyDebt
<1>2. AfterTurn(s) = ReportFault(u) BY DEF AfterTurn, t
<1> HIDE DEF t
<1>3. ActOK(u) BY SMTT(60), <1>1, ConfigAssumption DEF ActOK
<1>4. SameDebt(t, u) BY DEF SameDebt
<1> HIDE DEF u
<1>5. SameDebt(u, ReportFault(u)) BY <1>3, ReportFaultDebt
<1> QED BY <1>1, <1>2, <1>4, <1>5 DEF SameDebt

LEMMA PopDebt ==
    ASSUME NEW s
    PROVE  SameDebt(s, Pop(s))
<1>1. CASE Interleave BY <1>1 DEF Pop, SameDebt
<1>2. CASE ~Interleave
  <2>1. Pop(s) = [s EXCEPT !.lane = Tail(@)] BY <1>2 DEF Pop
  <2> QED BY <2>1 DEF SameDebt
<1> QED BY <1>1, <1>2

LEMMA ReloadFailedDebt ==
    ASSUME NEW s, ActOK(s)
    PROVE  SameDebt(s, ReloadFailed(s))
<1> DEFINE t == [s EXCEPT !.reload = FALSE, !.faulted = TRUE]
<1>1. ActOK(t) BY DEF ActOK
<1>2. SameDebt(s, t) BY DEF SameDebt
<1>3. ReloadFailed(s) = ReportFault(t) BY DEF ReloadFailed
<1> HIDE DEF t
<1> QED BY <1>1, <1>2, <1>3, ReportFaultDebt DEF SameDebt

\* A failed flush leaves the eventual saves owed, and the copy they stand for.
LEMMA FlushFailedDebt ==
    ASSUME NEW s, ActOK(s), s.lane # <<>>, OwesAState(s)
    PROVE  OwesAState(FlushFailed(s))
<1> DEFINE t == [s EXCEPT !.stateError = TRUE, !.faulted = @ \/ s.reload,
                          !.reload = FALSE, !.flushing = FALSE, !.lane = Tail(@)]
<1>1. Tail(s.lane) \in Seq(Calls \cup {Flush}) BY DEF ActOK
<1>2. ActOK(t) BY <1>1 DEF ActOK
<1>3. /\ t.mem = s.mem /\ t.eventual = s.eventual /\ t.pending = s.pending
      /\ t.flushing = FALSE
  BY DEF ActOK
<1>4. FlushFailed(s) = ReportFault(t) BY DEF FlushFailed
<1> HIDE DEF t
<1>5. OwesAState(t) BY <1>3 DEF OwesAState, Busy
<1> QED BY <1>2, <1>4, <1>5, ReportFaultDebt, DebtStays

\* A reload owes nothing to the debounce.
LEMMA ReloadDebt ==
    ASSUME NEW s, ActOK(s), RecordOK(record), Durable \subseteq Calls
    PROVE  /\ Reload(s).eventual = 0 /\ Reload(s).flushWanted = s.flushWanted
<1> DEFINE r == [s EXCEPT !.mem = Durable,
                          !.dirty = @ \/ (Tracked /\ s.mem # Durable)]
           t == ConsumeDirty(r)
           u == [t EXCEPT !.reload = FALSE, !.etag = record.etag, !.eventual = 0,
                          !.version = @ + 1, !.saved = t.version + 1]
<1>1. ActOK(r) BY DEF ActOK
<1>5. r.flushWanted = s.flushWanted BY DEF ActOK
<1>2. Reload(s) = u BY DEF Reload, t, r
<1> HIDE DEF r
<1>3. ActOK(t) /\ SameDebt(r, t) BY <1>1, ConsumeDirtyFacts, ConsumeDirtyDebt
<1> HIDE DEF t
<1>4. u.eventual = 0 /\ u.flushWanted = t.flushWanted BY <1>3 DEF ActOK
<1> HIDE DEF u
<1> QED BY <1>2, <1>3, <1>4, <1>5 DEF SameDebt

\* Of the replies only that to a clear touches what is owed, and it settles it.
LEMMA SettledDebt ==
    ASSUME NEW s, ActOK(s), OwesAState(s),
           s.pending.reply = "ok" /\ s.pending.op = "clear" => ~s.flushing
    PROVE  OwesAState(Settled(s))
<1> DEFINE w == s.pending
           t == [s EXCEPT !.pending = NoWrite]
<1>1. /\ t.mem = s.mem /\ t.eventual = s.eventual /\ ~Busy(t)
      /\ t.flushing = s.flushing /\ t.flushWanted = s.flushWanted
  BY DEF ActOK, NoWrite, Busy
<1>9. ActOK(t) BY DEF ActOK, NoWrite, WriteOK
<1>3. \/ Settled(s) = Saved(t, w) \/ Settled(s) = Appended(t, w)
      \/ w.reply = "ok" /\ w.op = "clear" /\ Settled(s) = Cleared(t)
      \/ Settled(s) = LostRace(t) \/ Settled(s) = t
  BY DEF Settled
<1> HIDE DEF t
<1>4. OwesAState(t) BY <1>1 DEF OwesAState
<1>5. OwesAState(Saved(t, w))
  <2>1. SameDebt(t, Saved(t, w)) BY DEF Saved, SameDebt
  <2> QED BY <1>4, <2>1, DebtStays
<1>6. OwesAState(Appended(t, w))
  <2>1. SameDebt(t, Appended(t, w)) BY DEF Appended, SameDebt
  <2> QED BY <1>4, <2>1, DebtStays
<1>7. OwesAState(LostRace(t))
  <2>1. SameDebt(t, LostRace(t)) BY DEF LostRace, SameDebt
  <2> QED BY <1>4, <2>1, DebtStays
<1>8. ASSUME ~s.flushing PROVE OwesAState(Cleared(t))
  <2> DEFINE u == Cleared(t)
  <2>1. u = [t EXCEPT !.etag = 0, !.eventual = 0, !.armed = @ /\ WriteBehind,
                      !.mem = {}, !.dirty = @ \/ (Tracked /\ t.mem # {})]
    BY DEF Cleared
  <2>4. u.eventual = 0 /\ u.pending = t.pending /\ u.flushing = t.flushing
    BY <1>9, <2>1 DEF ActOK
  <2> HIDE DEF u
  <2>2. ~Busy(u) BY <1>1, <2>4 DEF Busy
  <2>3. ~u.flushing BY <1>1, <1>8, <2>4
  <2>5. OwesAState(u) BY <2>2, <2>3, <2>4 DEF OwesAState
  <2> QED BY <2>5 DEF u
<1>10. CASE Settled(s) = Saved(t, w) \/ Settled(s) = Appended(t, w)
            \/ Settled(s) = LostRace(t) \/ Settled(s) = t
  BY <1>4, <1>5, <1>6, <1>7, <1>10
<1>11. CASE w.reply = "ok" /\ w.op = "clear" /\ Settled(s) = Cleared(t)
  BY <1>8, <1>11
<1> QED BY <1>3, <1>10, <1>11

\* The activation that a step moves owes a state, and the others are untouched.
LEMMA OwesMoves ==
    ASSUME TypeOK, NEW a \in Acts, NEW t, act' = [act EXCEPT ![a] = t], OwesAState(t),
           \A b \in Acts : OwesAState(act[b])
    PROVE  \A b \in Acts : OwesAState(act[b])'
<1>1. act'[a] = t /\ \A b \in Acts : b # a => act'[b] = act[b]
  BY ActMoves DEF Alone
<1> SUFFICES ASSUME NEW b \in Acts PROVE OwesAState(act[b])'
  OBVIOUS
<1>2. CASE b = a BY <1>1, <1>2 DEF OwesAState, Busy
<1>3. CASE b # a
  <2>1. act'[b] = act[b] /\ OwesAState(act[b]) BY <1>1, <1>3
  <2> QED BY <2>1 DEF OwesAState, Busy
<1> QED BY <1>2, <1>3

\* Nothing moves: nothing more is owed.
LEMMA OwesStutters ==
    ASSUME act' = act, \A b \in Acts : OwesAState(act[b])
    PROVE  \A b \in Acts : OwesAState(act[b])'
BY DEF OwesAState, Busy

\* What turns do to what is owed.
LEMMA TurnsOwe ==
    ASSUME StorageInv, BlankInv, ~WriteBehind, ~Interleave, NEW c \in Calls,
           \/ StartTurn(c) \/ StartAfterReload(c) \/ StartReloadFails(c) \/ Mutate(c)
           \/ EndTurn(c) \/ SaveImmediate(c) \/ SaveEventual(c) \/ AppendEntry(c)
           \/ ClearState(c) \/ Gate(c)
    PROVE  \A b \in Acts : OwesAState(act[b])'
<1> DEFINE a == call[c].at
           s == act[a]
<1>1. \A b \in Acts : OwesAState(act[b]) BY DEF BlankInv
<1>2. TypeOK /\ MutationStands(c) BY DEF StorageInv, BlankInv
<1>3. Runnable(c) \/ Working(c)
  BY DEF StartTurn, StartAfterReload, StartReloadFails, Mutate, EndTurn, SaveImmediate,
         SaveEventual, AppendEntry, ClearState, Gate, Working
<1>4. a \in Acts /\ ActOK(s) /\ OwesAState(s)
  BY <1>1, <1>3, RunnablePlace, TurnPlace
<1>5. ASSUME NEW t, act' = [act EXCEPT ![a] = t], OwesAState(t)
      PROVE  \A b \in Acts : OwesAState(act[b])'
  BY <1>1, <1>2, <1>4, <1>5, OwesMoves
<1>6. c # Flush BY ConfigAssumption
<1>7. CASE StartTurn(c)
  <2>1. act' = act \/ act' = [act EXCEPT ![a] = Pop(s)] BY <1>7 DEF StartTurn, SetAct
  <2>2. OwesAState(Pop(s)) BY <1>4, PopDebt, DebtStays
  <2> QED BY <1>1, <1>5, <2>1, <2>2, OwesStutters
<1>8. CASE StartAfterReload(c)
  <2>1. act' = [act EXCEPT ![a] = Reload(s)] /\ Runnable(c)
    BY <1>8 DEF StartAfterReload, SetAct
  <2>2. s.lane # <<>> /\ Head(s.lane) = c /\ call[c].pc = "queued" BY <2>1, RunnablePlace
  <2>3. ~s.flushing /\ ~Busy(s) BY <1>4, <2>2, HeadAlone DEF Over
  <2>4. /\ Reload(s).eventual = 0 /\ Reload(s).flushing = s.flushing
        /\ Reload(s).pending = s.pending
    BY <1>2, <1>4, ReloadDebt, ReloadFacts, DurableInCalls DEF TypeOK
  <2>5. OwesAState(Reload(s)) BY <2>3, <2>4 DEF OwesAState, Busy
  <2> QED BY <1>5, <2>1, <2>5
<1>9. CASE StartReloadFails(c)
  <2>1. act' = [act EXCEPT ![a] = Pop(ReloadFailed(s))]
    BY <1>9 DEF StartReloadFails, SetAct
  <2>2. OwesAState(Pop(ReloadFailed(s))) BY <1>4, ReloadFailedDebt, PopDebt, DebtStays
  <2> QED BY <1>5, <2>1, <2>2
<1>10. CASE Mutate(c)
  <2> DEFINE t == Touch(s, c)
  <2>1. act' = [act EXCEPT ![a] = t] BY <1>10 DEF Mutate, SetAct
  <2>2. /\ t.mem = s.mem \cup {c} /\ t.eventual = s.eventual /\ t.flushing = s.flushing
        /\ t.flushWanted = s.flushWanted /\ t.pending = s.pending
    BY <1>4 DEF Touch, ActOK
  <2> HIDE DEF t
  <2>3. OwesAState(t) BY <1>4, <2>2 DEF OwesAState, Busy
  <2> QED BY <1>5, <2>1, <2>3
<1>11. CASE EndTurn(c)
  <2>1. act' = [act EXCEPT ![a] = Pop(AfterTurn(s))] BY <1>11 DEF EndTurn, SetAct
  <2>2. OwesAState(Pop(AfterTurn(s))) BY <1>4, AfterTurnDebt, PopDebt, DebtStays
  <2> QED BY <1>5, <2>1, <2>2
<1>12. CASE SaveImmediate(c) \/ SaveEventual(c) \/ AppendEntry(c)
  <2> DEFINE u == ConsumeDirty(s)
  <2>1. PICK t : /\ act' = [act EXCEPT ![a] = t]
                 /\ \/ t = [u EXCEPT !.version = @ + 1]
                    \/ /\ call[c].pc = "mutated"
                       /\ t = [u EXCEPT !.version = @ + 1, !.eventual = u.version + 1,
                                        !.armed = TRUE]
                    \/ t = [u EXCEPT !.mem = @ \cup {c}, !.version = @ + 1]
    BY <1>12 DEF SaveImmediate, SaveEventual, AppendEntry, SetAct
  <2>2. ActOK(u) /\ SameDebt(s, u) BY <1>4, ConsumeDirtyFacts, ConsumeDirtyDebt
  <2> HIDE DEF u
  <2>3. OwesAState(u) BY <1>4, <2>2, DebtStays
  <2>4. OwesAState(t)
    <3>1. CASE t = [u EXCEPT !.version = @ + 1]
      <4>1. SameDebt(u, t) BY <2>2, <3>1 DEF ActOK, SameDebt
      <4> QED BY <2>3, <4>1, DebtStays
    <3>2. CASE /\ call[c].pc = "mutated"
               /\ t = [u EXCEPT !.version = @ + 1, !.eventual = u.version + 1, !.armed = TRUE]
      <4>1. /\ t.mem = u.mem /\ t.flushing = u.flushing /\ t.flushWanted = u.flushWanted
            /\ t.pending = u.pending
        BY <2>2, <3>2 DEF ActOK
      <4>2. c \in t.mem BY <1>2, <2>2, <3>2, <4>1 DEF MutationStands, SameDebt
      <4> QED BY <2>3, <4>1, <4>2 DEF OwesAState, Busy
    <3>3. CASE t = [u EXCEPT !.mem = @ \cup {c}, !.version = @ + 1]
      <4>1. /\ t.mem = u.mem \cup {c} /\ t.eventual = u.eventual /\ t.flushing = u.flushing
            /\ t.flushWanted = u.flushWanted /\ t.pending = u.pending
        BY <2>2, <3>3 DEF ActOK
      <4> QED BY <2>3, <4>1 DEF OwesAState, Busy
    <3> QED BY <2>1, <3>1, <3>2, <3>3
  <2> QED BY <1>5, <2>1, <2>4
<1>13. CASE ClearState(c) \/ Gate(c)
  <2>1. ASSUME NEW w, w.owner = c, act' = [act EXCEPT ![a] = [s EXCEPT !.pending = w]]
        PROVE  \A b \in Acts : OwesAState(act[b])'
    <3> DEFINE t == [s EXCEPT !.pending = w]
    <3>1. /\ t.mem = s.mem /\ t.eventual = s.eventual /\ t.flushing = s.flushing
          /\ t.flushWanted = s.flushWanted /\ t.pending = w
      BY <1>4 DEF ActOK
    <3> HIDE DEF t
    <3>2. OwesAState(t) BY <1>4, <1>6, <2>1, <3>1 DEF OwesAState, Busy
    <3> QED BY <1>5, <2>1, <3>2 DEF t
  <2>2. \/ act' = act
        \/ act' = [act EXCEPT ![a] = SendClear(s, c)]
        \/ act' = [act EXCEPT ![a] = SendAppend(s, c, call[c].wanted)]
        \/ act' = [act EXCEPT ![a] = SendSave(s, c)]
    BY <1>13 DEF ClearState, Gate, SetAct
  <2>3. act' = act \/ \E w : w.owner = c /\ act' = [act EXCEPT ![a] = [s EXCEPT !.pending = w]]
    BY <2>2 DEF SendClear, SendAppend, SendSave
  <2> QED BY <1>1, <2>1, <2>3, OwesStutters
<1> QED BY <1>7, <1>8, <1>9, <1>10, <1>11, <1>12, <1>13

\* What the storage, the debounce and the end of an activation do to it.
LEMMA ActsOwe ==
    ASSUME StorageInv, BlankInv, ~WriteBehind, ~Interleave, NEW a \in Acts,
           \/ Accept(a) \/ Refuse(a) \/ Fail(a) \/ ReplyToCall(a) \/ ReplyToFlush(a)
           \/ TimerFires(a) \/ StartFlush(a) \/ StartFlushReloadFails(a) \/ FlushGate(a)
           \/ Drained(a) \/ Activate(a) \/ Deactivate(a) \/ ForceStop(a) \/ Crash(a)
    PROVE  \A b \in Acts : OwesAState(act[b])'
<1> DEFINE s == act[a]
<1>1. \A b \in Acts : OwesAState(act[b]) BY DEF BlankInv
<1>2. TypeOK /\ ActOK(s) /\ OwesAState(s) /\ FreshCopy(s) /\ LanesAt(a, s)
  BY <1>1, LanesSplit DEF StorageInv, TypeOK, FreshInv
<1>3. ASSUME NEW t, act' = [act EXCEPT ![a] = t], OwesAState(t)
      PROVE  \A b \in Acts : OwesAState(act[b])'
  BY <1>1, <1>2, <1>3, OwesMoves
<1>4. s.flushWanted \in Nat /\ s.saved \in Nat /\ s.eventual \in Nat BY <1>2 DEF ActOK
<1>5. s.lane # <<>> /\ Head(s.lane) = Flush /\ s.life # "gone" /\ ~s.flushing => ~Busy(s)
  BY FlushAlone
<1>6. CASE Accept(a) \/ Refuse(a) \/ Fail(a)
  <2>1. PICK r, e : act' = [act EXCEPT ![a] = Answered(s, r, e)]
    BY <1>6 DEF Accept, Refuse, Fail, Answer, SetAct
  <2>2. s.pending.reply = "sent" BY <1>6 DEF Accept, Refuse, Fail
  <2>3. Busy(s) BY <1>2, <2>2 DEF FreshCopy
  <2> DEFINE v == [s.pending EXCEPT !.reply = r, !.etag = e]
             t == [s EXCEPT !.pending = v]
  <2>4. v.owner = s.pending.owner /\ v.state = s.pending.state
    BY <1>2 DEF ActOK, WriteOK
  <2>5. Answered(s, r, e) = t BY DEF Answered
  <2> HIDE DEF v
  <2>6. /\ t.mem = s.mem /\ t.eventual = s.eventual /\ t.flushing = s.flushing
        /\ t.flushWanted = s.flushWanted /\ t.pending = v
    BY <1>2 DEF ActOK
  <2> HIDE DEF t
  <2>7. OwesAState(t) BY <1>2, <2>3, <2>4, <2>6 DEF OwesAState
  <2> QED BY <1>3, <2>1, <2>5, <2>7
<1>7. CASE ReplyToCall(a)
  <2> DEFINE c == s.pending.owner
  <2>1. /\ act' = [act EXCEPT ![a] = Settled(s)]
        /\ Busy(s) /\ c # Flush /\ s.life # "gone"
    BY <1>7 DEF ReplyToCall, SetAct
  <2>2. c \in Calls BY <1>2, <2>1 DEF ActOK, WriteOK
  <2>3. call[c].pc = "writing" /\ call[c].at = a BY <1>2, <2>1 DEF LanesAt
  <2>4. s.lane # <<>> /\ Head(s.lane) = c BY <2>2, <2>3, TurnPlace DEF Working
  <2>5. ~s.flushing BY <2>2, <2>3, <2>4, HeadAlone DEF Over
  <2>6. OwesAState(Settled(s)) BY <1>2, <2>5, SettledDebt
  <2> QED BY <1>3, <2>1, <2>6
<1>8. CASE ReplyToFlush(a)
  <2> DEFINE u == Settled(s)
  <2>1. /\ Busy(s) /\ s.pending.owner = Flush /\ s.life # "gone"
        /\ \/ act' = [act EXCEPT ![a] = u]
           \/ act' = [act EXCEPT ![a] = [u EXCEPT !.stateError = TRUE, !.life = "gone"]]
           \/ /\ s.life # "flushing" \/ s.pending.reply = "ok"
              /\ s.pending.reply # "ok"
              /\ act' = [act EXCEPT ![a] = FlushFailed(u)]
    BY <1>8 DEF ReplyToFlush, SetAct
  <2>2. s.pending.op = "save" BY <1>2, <2>1, ConfigAssumption DEF FreshCopy
  <2>3. OwesAState(u) BY <1>2, <2>2, SettledDebt
  <2>4. ActOK(u) /\ u.lane = s.lane BY <1>2, SettledFacts DEF LanesAt
  <2> HIDE DEF u
  <2>5. CASE act' = [act EXCEPT ![a] = u] BY <1>3, <2>3, <2>5
  <2>6. CASE act' = [act EXCEPT ![a] = [u EXCEPT !.stateError = TRUE, !.life = "gone"]]
    <3> DEFINE t == [u EXCEPT !.stateError = TRUE, !.life = "gone"]
    <3>1. SameDebt(u, t) BY <2>4 DEF ActOK, SameDebt
    <3> HIDE DEF t
    <3>2. OwesAState(t) BY <2>3, <3>1, DebtStays
    <3> QED BY <1>3, <2>6, <3>2 DEF t
  <2>7. CASE s.life # "flushing" /\ act' = [act EXCEPT ![a] = FlushFailed(u)]
    <3>1. s.lane # <<>> BY <1>2, <2>1, <2>7 DEF LanesAt
    <3>2. OwesAState(FlushFailed(u)) BY <2>3, <2>4, <3>1, FlushFailedDebt
    <3> QED BY <1>3, <2>7, <3>2
  <2> QED BY <2>1, <2>5, <2>6, <2>7
<1>9. CASE TimerFires(a) \/ Deactivate(a) \/ ForceStop(a) \/ Crash(a)
  <2>1. PICK t : /\ act' = [act EXCEPT ![a] = t]
                 /\ \/ t = [s EXCEPT !.armed = FALSE,
                                !.lane = IF s.life = "live" THEN Append(@, Flush) ELSE @]
                    \/ t = [s EXCEPT !.life = "closing"]
                    \/ t = [s EXCEPT !.life = IF @ = "live" THEN "stopped" ELSE @]
                    \/ t = [s EXCEPT !.life = "gone"]
    BY <1>9 DEF TimerFires, Deactivate, ForceStop, Crash, SetAct
  <2>2. SameDebt(s, t)
    <3>1. CASE t = [s EXCEPT !.armed = FALSE,
                       !.lane = IF s.life = "live" THEN Append(@, Flush) ELSE @]
      BY <1>2, <3>1 DEF ActOK, SameDebt
    <3>2. CASE t = [s EXCEPT !.life = "closing"] BY <1>2, <3>2 DEF ActOK, SameDebt
    <3>3. CASE t = [s EXCEPT !.life = IF @ = "live" THEN "stopped" ELSE @]
      BY <1>2, <3>3 DEF ActOK, SameDebt
    <3>4. CASE t = [s EXCEPT !.life = "gone"] BY <1>2, <3>4 DEF ActOK, SameDebt
    <3> QED BY <2>1, <3>1, <3>2, <3>3, <3>4
  <2> QED BY <1>2, <1>3, <2>1, <2>2, DebtStays
<1>10. CASE StartFlush(a)
  <2> DEFINE u == IF s.reload THEN Reload(s) ELSE s
             t == [u EXCEPT !.flushing = TRUE, !.flushWanted = u.eventual]
  <2>1. /\ s.life # "gone" /\ s.lane # <<>> /\ Head(s.lane) = Flush /\ ~s.flushing
        /\ act' = [act EXCEPT ![a] = t]
    BY <1>10 DEF StartFlush, SetAct
  <2>2. ~Busy(s) BY <1>5, <2>1
  <2>3. ActOK(u) /\ u.pending = s.pending /\ (u.eventual > 0 => u.mem # {})
    <3>1. CASE s.reload
      <4>1. u = Reload(s) BY <3>1
      <4>2. RecordOK(record) /\ Durable \subseteq Calls BY <1>2, DurableInCalls DEF TypeOK
      <4>3. ActOK(Reload(s)) /\ Reload(s).pending = s.pending /\ Reload(s).eventual = 0
        BY <1>2, <4>2, ReloadDebt, ReloadFacts
      <4> HIDE DEF u
      <4> QED BY <4>1, <4>3
    <3>2. CASE ~s.reload BY <1>2, <3>2 DEF OwesAState
    <3> QED BY <3>1, <3>2
  <2> HIDE DEF u
  <2>4. /\ t.mem = u.mem /\ t.eventual = u.eventual /\ t.pending = u.pending
        /\ t.flushWanted = u.eventual
    BY <2>3 DEF ActOK
  <2> HIDE DEF t
  <2>5. OwesAState(t) BY <2>2, <2>3, <2>4 DEF OwesAState, Busy
  <2> QED BY <1>3, <2>1, <2>5
<1>11. CASE StartFlushReloadFails(a)
  <2> DEFINE u == ReloadFailed(s)
  <2>1. s.lane # <<>> /\ act' = [act EXCEPT ![a] = FlushFailed(u)]
    BY <1>11 DEF StartFlushReloadFails, SetAct
  <2>2. ActOK(u) /\ u.lane = s.lane BY <1>2, ReloadFailedFacts
  <2>3. OwesAState(u) BY <1>2, ReloadFailedDebt, DebtStays
  <2> HIDE DEF u
  <2>4. OwesAState(FlushFailed(u)) BY <2>1, <2>2, <2>3, FlushFailedDebt
  <2> QED BY <1>3, <2>1, <2>4
<1>12. CASE FlushGate(a)
  <2>1. /\ s.flushing /\ s.life # "gone"
        /\ \/ act' = [act EXCEPT ![a] = [s EXCEPT !.life = "gone"]]
           \/ act' = [act EXCEPT ![a] = [s EXCEPT !.stateError = TRUE, !.life = "gone"]]
           \/ act' = [act EXCEPT ![a] = [s EXCEPT !.flushing = FALSE, !.lane = Tail(@)]]
           \/ s.saved < s.flushWanted /\ act' = [act EXCEPT ![a] = SendSave(s, Flush)]
           \/ s.life # "flushing" /\ act' = [act EXCEPT ![a] = FlushFailed(s)]
    <3>1. s.flushing /\ s.life # "gone" BY <1>12 DEF FlushGate
    <3>2. CASE s.saved >= s.flushWanted
      <4>1. ~(s.saved < s.flushWanted) BY <1>4, <3>2
      <4>2. CASE s.life = "flushing" BY <1>12, <3>1, <3>2, <4>1, <4>2 DEF FlushGate, SetAct
      <4>3. CASE s.life # "flushing" BY <1>12, <3>1, <3>2, <4>1, <4>3 DEF FlushGate, SetAct
      <4> QED BY <4>2, <4>3
    <3>3. CASE s.saved < s.flushWanted /\ ~s.faulted
      <4>1. ~(s.saved >= s.flushWanted) BY <1>4, <3>3
      <4> QED BY <1>12, <3>1, <3>3, <4>1 DEF FlushGate, SetAct
    <3>4. CASE s.saved < s.flushWanted /\ s.faulted
      <4>1. ~(s.saved >= s.flushWanted) BY <1>4, <3>4
      <4> QED BY <1>12, <3>1, <3>4, <4>1 DEF FlushGate, SetAct
    <3> QED BY <1>4, <3>2, <3>3, <3>4
  <2>2. ASSUME NEW t, act' = [act EXCEPT ![a] = t],
               \/ t = [s EXCEPT !.life = "gone"]
               \/ t = [s EXCEPT !.stateError = TRUE, !.life = "gone"]
               \/ t = [s EXCEPT !.flushing = FALSE, !.lane = Tail(@)]
        PROVE  \A b \in Acts : OwesAState(act[b])'
    <3>1. /\ t.mem = s.mem /\ t.eventual = s.eventual /\ t.pending = s.pending
          /\ t.flushing => s.flushing
          /\ t.flushWanted = s.flushWanted
      <4>1. CASE t = [s EXCEPT !.life = "gone"] BY <1>2, <4>1 DEF ActOK
      <4>2. CASE t = [s EXCEPT !.stateError = TRUE, !.life = "gone"] BY <1>2, <4>2 DEF ActOK
      <4>3. CASE t = [s EXCEPT !.flushing = FALSE, !.lane = Tail(@)] BY <1>2, <4>3 DEF ActOK
      <4> QED BY <2>2, <4>1, <4>2, <4>3
    <3>2. OwesAState(t) BY <1>2, <3>1 DEF OwesAState, Busy
    <3> QED BY <1>3, <2>2, <3>2
  <2>3. CASE s.saved < s.flushWanted /\ act' = [act EXCEPT ![a] = SendSave(s, Flush)]
    <3> DEFINE w == [op |-> "save", owner |-> Flush, state |-> s.mem, expect |-> s.etag,
                     version |-> s.version, reply |-> "sent", etag |-> 0]
               t == [s EXCEPT !.pending = w]
    <3>1. SendSave(s, Flush) = t BY DEF SendSave
    <3>2. w.state = s.mem OBVIOUS
    <3> HIDE DEF w
    <3>3. /\ t.mem = s.mem /\ t.eventual = s.eventual /\ t.flushing = s.flushing
          /\ t.flushWanted = s.flushWanted /\ t.pending = w
      BY <1>2 DEF ActOK
    <3> HIDE DEF t
    <3>4. s.flushWanted > 0 BY <1>4, <2>3
    <3>5. s.mem # {} BY <1>2, <2>1, <3>4 DEF OwesAState
    <3>6. OwesAState(t) BY <3>2, <3>3, <3>5 DEF OwesAState
    <3> QED BY <1>3, <2>3, <3>1, <3>6
  <2>4. CASE s.life # "flushing" /\ act' = [act EXCEPT ![a] = FlushFailed(s)]
    <3>1. s.lane # <<>> BY <1>2, <2>1, <2>4 DEF LanesAt
    <3> QED BY <1>2, <1>3, <2>4, <3>1, FlushFailedDebt
  <2> QED BY <2>1, <2>2, <2>3, <2>4
<1>13. CASE Drained(a)
  <2> DEFINE r == [s EXCEPT !.armed = FALSE]
             u == ConsumeDirty(r)
  <2>1. PICK t : /\ act' = [act EXCEPT ![a] = t]
                 /\ \/ /\ u.saved < u.eventual
                       /\ t = [u EXCEPT !.life = "flushing", !.flushing = TRUE,
                                        !.flushWanted = u.version]
                    \/ t = [u EXCEPT !.life = "gone"]
    BY <1>13 DEF Drained, SetAct, OwesFinalFlush
  <2>2. ActOK(r) BY <1>2 DEF ActOK
  <2>3. SameDebt(s, r) BY <1>2 DEF ActOK, SameDebt
  <2> HIDE DEF r
  <2>4. ActOK(u) /\ SameDebt(r, u) BY <2>2, ConsumeDirtyFacts, ConsumeDirtyDebt
  <2> HIDE DEF u
  <2>5. OwesAState(u) BY <1>2, <2>3, <2>4, DebtStays
  <2>6. /\ t.mem = u.mem /\ t.eventual = u.eventual /\ t.pending = u.pending
        /\ u.saved < u.eventual \/ (t.flushing = u.flushing /\ t.flushWanted = u.flushWanted)
    <3>1. CASE /\ u.saved < u.eventual
               /\ t = [u EXCEPT !.life = "flushing", !.flushing = TRUE,
                                !.flushWanted = u.version]
      <4>1. /\ t.mem = u.mem /\ t.eventual = u.eventual /\ t.pending = u.pending
        BY <2>4, <3>1 DEF ActOK
      <4> QED BY <3>1, <4>1
    <3>2. CASE t = [u EXCEPT !.life = "gone"] BY <2>4, <3>2 DEF ActOK
    <3> QED BY <2>1, <3>1, <3>2
  <2>7. u.saved < u.eventual => u.eventual > 0 BY <2>4 DEF ActOK
  <2>8. OwesAState(t) BY <2>5, <2>6, <2>7 DEF OwesAState, Busy
  <2> QED BY <1>3, <2>1, <2>8
<1>14. CASE Activate(a)
  <2>1. act' = [act EXCEPT ![a] = Seeded] BY <1>14 DEF Activate, SetAct
  <2>2. /\ Seeded.eventual = 0 /\ Seeded.flushing = FALSE /\ Seeded.pending = NoWrite
        /\ NoWrite.op = "none"
    BY DEF Seeded, Idle, NoWrite
  <2>3. OwesAState(Seeded) BY <2>2 DEF OwesAState, Busy
  <2> QED BY <1>3, <2>1, <2>3
<1> QED BY <1>6, <1>7, <1>8, <1>9, <1>10, <1>11, <1>12, <1>13, <1>14

\* The write that makes a copy blank is a turn's, or the copy is loaded: no turn
\* is then between its change and its save.
LEMMA MutationsStand ==
    ASSUME StorageInv, TurnInv, ~Interleave, \A c \in Calls : MutationStands(c), Step,
           NEW c \in Calls
    PROVE  MutationStands(c)'
<1> DEFINE a == call[c].at
<1> SUFFICES ASSUME call'[c].pc = "mutated" PROVE c \in act'[call'[c].at].mem
  BY DEF MutationStands
<1>1. PICK b \in Acts :
        \/ QuietStep(b) \/ LoadStep(b) \/ SendStep(b) \/ RefuseStep(b) \/ LandStep(b)
        \/ ReplyStep(b)
        \/ \E d \in Calls : TouchStep(b, d) \/ VersionStep(b, d)
  BY DEF Step
<1>2. Alone(b)
  BY <1>1 DEF QuietStep, LoadStep, SendStep, RefuseStep, LandStep, Answers, ReplyStep, TouchStep,
              VersionStep
<1>3. CASE call[c].pc = "mutated" /\ call'[c].at = a
  <2>1. c \in act[a].mem BY <1>3 DEF MutationStands
  <2>2. Working(c) BY <1>3 DEF Working
  <2>3. a \in Acts /\ act[a].lane # <<>> /\ Head(act[a].lane) = c /\ act[a].life # "gone"
        /\ act[a].life # "none"
    BY <2>2, TurnPlace
  <2>4. CASE b # a BY <1>2, <1>3, <2>1, <2>3, <2>4 DEF Alone
  <2>5. CASE b = a
    <3>1. ~LoadStep(a) BY <1>3, <2>2, <2>3 DEF LoadStep, TurnInv, ParkedFits
    <3>2. ~ReplyStep(a)
      <4>1. Busy(act[a]) => call[c].pc = "writing" BY <1>3, <2>2, <2>3, HeadAlone DEF Over
      <4> QED BY <1>3, <4>1 DEF ReplyStep
    <3>3. act[a].mem \subseteq act'[a].mem
      BY <1>1, <2>5, <3>1, <3>2
         DEF QuietStep, SendStep, RefuseStep, LandStep, Answers, TouchStep, VersionStep
    <3> QED BY <1>3, <2>1, <3>3
  <2> QED BY <2>4, <2>5
<1>4. CASE ~(call[c].pc = "mutated" /\ call'[c].at = a)
  <2>1. ~QuietStep(b) /\ ~LoadStep(b)
    BY <1>4 DEF QuietStep, LoadStep, CallQuiet, GoesOn, GivesUp
  <2>2. ~SendStep(b) BY <1>4 DEF SendStep, Only, GoesOn
  <2>3. ~RefuseStep(b) /\ ~LandStep(b) BY <1>4 DEF RefuseStep, LandStep, Answers
  <2>4. ~ReplyStep(b) BY <1>4 DEF ReplyStep, Only, GoesOn, GivesUp
  <2>5. ASSUME NEW d \in Calls, VersionStep(b, d) PROVE FALSE
    BY <1>4, <2>5 DEF VersionStep, Only
  <2>6. PICK d \in Calls : TouchStep(b, d) BY <1>1, <2>1, <2>2, <2>3, <2>4, <2>5
  <2>7. d = c BY <1>4, <2>6 DEF TouchStep, Only
  <2>8. call'[c].at = b /\ act'[b].mem = act[b].mem \cup {c}
    BY <2>6, <2>7 DEF TouchStep, GoesOn
  <2> QED BY <2>8
<1> QED BY <1>3, <1>4

LEMMA BlankStep ==
    ASSUME StorageInv, TurnInv, BlankInv, Next
    PROVE  BlankInv'
<1> SUFFICES ASSUME ~WriteBehind, ~Interleave
             PROVE  /\ \A a \in Acts : OwesAState(act[a])'
                    /\ \A c \in Calls : MutationStands(c)'
  BY DEF BlankInv
<1>1. Step BY NextSteps
<1>2. \A c \in Calls : MutationStands(c)' BY <1>1, MutationsStand DEF BlankInv
<1>3. CASE Progress
  <2>1. CASE \E c \in Calls : CallStep(c)
    <3>1. PICK c \in Calls : CallStep(c) BY <2>1
    <3> QED BY <1>2, <3>1, TurnsOwe DEF CallStep
  <2>2. CASE \E a \in Acts : ActStep(a)
    <3>1. PICK a \in Acts : ActStep(a) BY <2>2
    <3> QED BY <1>2, <3>1, ActsOwe DEF ActStep
  <2> QED BY <1>3, <2>1, <2>2 DEF Progress
<1>4. CASE Environment
  <2>1. CASE \E c \in Calls, a \in Acts, k \in Kinds : Enqueue(c, a, k)
    <3>1. PICK c \in Calls, a \in Acts, k \in Kinds : Enqueue(c, a, k) BY <2>1
    <3> DEFINE s == act[a]
    <3>2. act' = [act EXCEPT ![a] = [s EXCEPT !.lane = Append(@, c)]]
      BY <3>1 DEF Enqueue, SetAct
    <3>3. TypeOK /\ ActOK(s) /\ \A b \in Acts : OwesAState(act[b])
      BY DEF StorageInv, TypeOK, BlankInv
    <3> DEFINE t == [s EXCEPT !.lane = Append(@, c)]
    <3>4. SameDebt(s, t) BY <3>3 DEF ActOK, SameDebt
    <3>5. OwesAState(t) BY <3>3, <3>4, DebtStays
    <3> HIDE DEF t
    <3> QED BY <1>2, <3>2, <3>3, <3>5, OwesMoves DEF t
  <2>2. CASE ~\E c \in Calls, a \in Acts, k \in Kinds : Enqueue(c, a, k)
    BY <1>2, <1>4, <2>2, TurnsOwe, ActsOwe DEF Environment
  <2> QED BY <2>1, <2>2
<1> QED BY <1>2, <1>3, <1>4 DEF Next

LEMMA BlankStart == Init => BlankInv
BY DEF Init, Idle, NoCall, NoWrite, BlankInv, OwesAState, MutationStands, Busy

\* NoBlankResurrection: on an explicit, serial actor the write that creates the
\* record anew is never a flush of a blank state: a clearState that deleted the
\* record also took the eventual saves the flush was owed for (activation.ts:
\* clearState resets #eventualVersion and the debounce, and #finalFlush and the
\* flush turn ask for what an eventual save is owed, no more).
THEOREM NothingResurrectedBlank ==
    ASSUME UniqueEtags
    PROVE  Spec => NoBlankResurrection
<1>1. Init => BlankInv BY BlankStart
<1>2. PromiseInv /\ BlankInv /\ [Next]_vars => BlankInv'
  <2>1. ASSUME PromiseInv, BlankInv, Next PROVE BlankInv'
    BY <2>1, BlankStep DEF PromiseInv
  <2>2. BlankInv /\ UNCHANGED vars => BlankInv'
    BY DEF vars, BlankInv, OwesAState, MutationStands, Busy
  <2> QED BY <2>1, <2>2
<1>3. PromiseInv /\ BlankInv /\ [Next]_vars =>
        [ ~WriteBehind /\ ~Interleave /\ record.etag = 0 /\ record'.etag # 0
          => \A a \in Acts : act'[a].pending # act[a].pending
                 => act[a].pending.owner # Flush \/ act[a].pending.state # {} ]_vars
  <2> SUFFICES ASSUME PromiseInv, BlankInv, Next, ~WriteBehind, ~Interleave,
                      record'.etag # record.etag, NEW a \in Acts,
                      act'[a].pending # act[a].pending, act[a].pending.owner = Flush
               PROVE  act[a].pending.state # {}
    OBVIOUS
  <2>1. PICK b \in Acts : Accept(b) BY OnlyAcceptWrites
  <2>2. act[b].pending.reply = "sent" BY <2>1 DEF Accept
  <2>3. Alone(b)
    BY <2>1, ActMoves DEF Accept, Answer, SetAct, PromiseInv, StorageInv
  <2>4. a = b BY <2>3 DEF Alone
  <2>5. Busy(act[a]) BY <2>2, <2>4 DEF PromiseInv, StorageInv, FreshInv, FreshCopy
  <2> QED BY <2>5 DEF BlankInv, OwesAState
<1> QED BY <1>1, <1>2, <1>3, PromisesHold, PTL DEF Spec, NoBlankResurrection
=============================================================================
