------------------------------ MODULE Activation ------------------------------
(***************************************************************************)
(* The persistence path of one actor: its stored record, and every         *)
(* activation that may hold a copy of it.                                  *)
(*                                                                         *)
(* Placement tries to keep a single activation per actor, but the          *)
(* directory may be transiently wrong, a forced stop leaves a turn running *)
(* and a dead host's last write may still land.  What must hold then is    *)
(* the integrity floor: every write is a compare-and-swap on the record's  *)
(* etag.  This module therefore lets ANY number of activations (Acts) of   *)
(* the one actor be live at once and models, step by step, what each does  *)
(* between its awaits (host/activation.ts): the turn lane, ctx.save /      *)
(* append / clearState, the single-flight gate, the write-behind debounce, *)
(* the conflict paths (fault, or reload in place) and the final flush.     *)
(*                                                                         *)
(* Data is abstracted to effects: turn c writes the effect c, so a state   *)
(* is the set of turns it reflects.  A record is a snapshot plus a log of  *)
(* appended entries.  Etag 0 is "no record".                               *)
(***************************************************************************)
EXTENDS Integers, Sequences, FiniteSets, TLC

CONSTANTS
    Acts,         \* activations of the actor, each used at most once
    Calls,        \* turns dispatched to the actor
    Kinds,        \* what the turns' methods may do
    Flush,        \* the system turn of the debounce, and the final flush
    WriteBehind,  \* persistence: { mode: 'write-behind' }
    Subscribed,   \* ctx.changes() was opened before the first mutation
    RetryQueued,  \* retryQueuedOnConflict
    Interleave,   \* reentrant: 'always'
    AppendSeam,   \* the storage has appendText
    UniqueEtags,  \* the storage never mints an etag twice
    LostAcks,     \* a write that failed may have landed
    OneHost,      \* all activations on one host: its directory admits one
    MaxFailures,  \* bound on transient storage failures
    MaxStops      \* bound on crashes and forced stops

AllKinds == {"write", "save", "eventual", "append", "clear"}

\* `create` refuses retryQueuedOnConflict on an interleaving definition.
ASSUME ConfigAssumption ==
    /\ Kinds \subseteq AllKinds
    /\ Flush \notin Calls
    /\ {WriteBehind, Subscribed, RetryQueued, Interleave, AppendSeam, UniqueEtags,
        LostAcks, OneHost} \subseteq BOOLEAN
    /\ MaxFailures \in Nat /\ MaxStops \in Nat
    /\ RetryQueued => ~Interleave

\* Activations and calls are interchangeable (used by the safety runs only).
Symmetry == Permutations(Acts) \cup Permutations(Calls)

VARIABLES
    record,    \* the stored record
    minted,    \* how many etags the storage has minted
    act,       \* the activations
    call,      \* the turns
    wiped,     \* effects a clearState deleted
    dropped,   \* effects a reload discarded
    failures,  \* transient failures so far
    stops      \* crashes and forced stops so far

vars == <<record, minted, act, call, wiped, dropped, failures, stops>>

-----------------------------------------------------------------------------
(* The stored record (host/storage-memory.ts).                             *)

Entries(log) == {log[i] : i \in 1..Len(log)}

\* What load + replayLog make of a record.
Fold(r) == r.state \cup Entries(r.log)

Durable == Fold(record)

NoRecord == [etag |-> 0, state |-> {}, log |-> <<>>]

\* The memory store and the UUID providers never repeat an etag; the counter
\* stores (file, sqlite, Cloudflare) restart at 1 when a key is re-created.
NextEtag == IF UniqueEtags THEN minted + 1 ELSE record.etag + 1

\* What the store holds once it has accepted write w.
Stored(w) ==
    CASE w.op = "save"   -> [etag |-> NextEtag, state |-> w.state, log |-> <<>>]
      [] w.op = "append" -> [etag |-> NextEtag, state |-> record.state,
                             log |-> Append(record.log, w.owner)]
      [] w.op = "clear"  -> NoRecord

-----------------------------------------------------------------------------
(* The state of one activation, and the synchronous pieces of its methods. *)

NoWrite == [op |-> "none", owner |-> Flush, state |-> {}, expect |-> 0,
            version |-> 0, reply |-> "ok", etag |-> 0]

Idle == [life |-> "none", etag |-> 0, mem |-> {}, dirty |-> FALSE,
         version |-> 0, notified |-> 0, saved |-> 0, eventual |-> 0,
         faulted |-> FALSE, reported |-> FALSE, conflict |-> FALSE,
         reload |-> FALSE, armed |-> FALSE, lane |-> <<>>,
         flushing |-> FALSE, flushWanted |-> 0, stateError |-> FALSE,
         pending |-> NoWrite]

Busy(s) == s.pending.op # "none"

\* A write-behind definition and the first ctx.changes() install the change
\* tracking that turns a mutation of ctx.state into a dirty flag.
Tracked == WriteBehind \/ Subscribed

Touch(s, c) == [s EXCEPT !.mem = @ \cup {c}, !.dirty = @ \/ Tracked]

ConsumeDirty(s) ==
    IF s.dirty THEN [s EXCEPT !.dirty = FALSE, !.version = @ + 1] ELSE s

\* onFault: the host starts deactivate('conflict') unless the slot has
\* already left the active state.
ReportFault(s) ==
    IF s.faulted /\ ~s.reported
    THEN [s EXCEPT !.reported = TRUE,
                   !.conflict = @ \/ s.life = "live",
                   !.life = IF @ = "live" THEN "closing" ELSE @]
    ELSE s

AfterTurn_ArmsNothing(s) == ReportFault(ConsumeDirty(s))

AfterTurn(s) ==
    LET t        == ConsumeDirty(s)
        boundary == t.version > t.notified /\ ~t.reload
        owed     == boundary /\ WriteBehind /\ t.version > t.saved
    IN  ReportFault([t EXCEPT !.notified = IF boundary THEN t.version ELSE @,
                              !.armed = @ \/ owed])

Pop_HeldWhileUnsaved(s) ==
    IF Interleave \/ s.version > s.saved THEN s ELSE [s EXCEPT !.lane = Tail(@)]

\* The turn at the head of the serial lane is over.
Pop(s) == IF Interleave THEN s ELSE [s EXCEPT !.lane = Tail(@)]

\* create / seedFromStorage: what an activation that loads now starts from.
Seeded == [Idle EXCEPT !.life = "live", !.etag = record.etag, !.mem = Durable]

Reload_KeepsState(s) ==
    [s EXCEPT !.reload = FALSE, !.etag = record.etag, !.eventual = 0,
              !.version = @ + 1, !.saved = s.version + 1]

\* #reload: adopt the winning record in place, clean at the loaded version.
Reload(s) ==
    LET t == ConsumeDirty([s EXCEPT !.mem = Durable,
                                    !.dirty = @ \/ (Tracked /\ s.mem # Durable)])
    IN  [t EXCEPT !.reload = FALSE, !.etag = record.etag, !.eventual = 0,
                  !.version = @ + 1, !.saved = t.version + 1]

\* #reload when the load itself fails: the parked conflict faults it.
ReloadFailed(s) == ReportFault([s EXCEPT !.reload = FALSE, !.faulted = TRUE])

\* #doSave hands the storage a full save ...
SendSave(s, who) ==
    [s EXCEPT !.pending = [op |-> "save", owner |-> who, state |-> s.mem,
                           expect |-> s.etag, version |-> s.version,
                           reply |-> "sent", etag |-> 0]]

\* ... or one entry, remembering the version the entry stands for.
SendAppend(s, c, wanted) ==
    [s EXCEPT !.pending = [op |-> "append", owner |-> c, state |-> {},
                           expect |-> s.etag, version |-> wanted,
                           reply |-> "sent", etag |-> 0]]

SendClear(s, c) ==
    [s EXCEPT !.pending = [op |-> "clear", owner |-> c, state |-> {},
                           expect |-> s.etag, version |-> 0,
                           reply |-> "sent", etag |-> 0]]

Saved(t, w) == [t EXCEPT !.etag = w.etag, !.saved = w.version]

Appended_ClaimsVersion(t, w) == [t EXCEPT !.etag = w.etag, !.saved = w.version]

\* The entry is durable; the version is only if the one before it was.
Appended(t, w) ==
    [t EXCEPT !.etag = w.etag, !.saved = IF @ = w.version - 1 THEN w.version ELSE @]

Cleared_KeepsDebounce(t) ==
    [t EXCEPT !.etag = 0, !.mem = {}, !.dirty = @ \/ (Tracked /\ t.mem # {})]

\* clearState landed: the eventual saves outstanding died with the record,
\* and on an explicit actor the debounce they armed.
Cleared(t) ==
    [t EXCEPT !.etag = 0, !.eventual = 0, !.armed = @ /\ WriteBehind,
              !.mem = {}, !.dirty = @ \/ (Tracked /\ t.mem # {})]

LostRace_AdoptsEtag(t) == [t EXCEPT !.etag = record.etag]

LostRace_FaultsAndAdopts(t) == [t EXCEPT !.etag = record.etag, !.faulted = TRUE]

\* A save or append lost the compare-and-swap.
LostRace(t) ==
    [t EXCEPT !.reload = @ \/ RetryQueued, !.faulted = @ \/ ~RetryQueued]

\* The reply to the write in flight arrives: the tail of #doSave, of
\* #gatedSave's `finally` and of clearState's closure.  A refused clear only
\* rejects its caller.
Settled(s) ==
    LET w == s.pending
        t == [s EXCEPT !.pending = NoWrite]
    IN  CASE w.reply = "ok" /\ w.op = "save"   -> Saved(t, w)
          [] w.reply = "ok" /\ w.op = "append" -> Appended(t, w)
          [] w.reply = "ok" /\ w.op = "clear"  -> Cleared(t)
          [] w.reply = "conflict" /\ w.op # "clear" -> LostRace(t)
          [] OTHER -> t

\* The catch of the flush turn: onStateError, then a parked conflict is
\* promoted to the fault, which is reported.
FlushFailed(s) ==
    ReportFault([s EXCEPT !.stateError = TRUE, !.faulted = @ \/ s.reload,
                          !.reload = FALSE, !.flushing = FALSE,
                          !.lane = Tail(@)])

-----------------------------------------------------------------------------
(* Calls.                                                                  *)

NoCall == [pc |-> "new", kind |-> "none", at |-> "none", wanted |-> 0,
           err |-> "none"]

Over(c) == call[c].pc \in {"new", "done"}

\* Calls an activation still has queued or running.
CallsAt(a) == {c \in Calls : call[c].at = a /\ ~Over(c)}

PutCall(c, d) == call' = [call EXCEPT ![c] = d]

SetCall(c, pc) == PutCall(c, [call[c] EXCEPT !.pc = pc])

FailCall(c, pc, err) == PutCall(c, [call[c] EXCEPT !.pc = pc, !.err = err])

\* c waits at the save gate (or ends) for version v.
WantVersion(c, pc, v) == PutCall(c, [call[c] EXCEPT !.pc = pc, !.wanted = v])

SetAct(a, s) == act' = [act EXCEPT ![a] = s]

CanFail == failures < MaxFailures

-----------------------------------------------------------------------------
(* Actions: activation and the turn lane.                                  *)

Init ==
    /\ record = NoRecord
    /\ minted = 0
    /\ act = [a \in Acts |-> Idle]
    /\ call = [c \in Calls |-> NoCall]
    /\ wiped = {}
    /\ dropped = {}
    /\ failures = 0
    /\ stops = 0

\* Across hosts nothing but the etag keeps two activations apart.  One host's
\* directory holds one slot per actor, until stopAll's deadline empties it:
\* the host started next shares the storage with what still drains.
Activate(a) ==
    /\ act[a].life = "none"
    /\ OneHost => \A b \in Acts : \/ act[b].life \in {"none", "stopped", "gone"}
                                  \/ act[b].life = "closing" /\ stops > 0
    /\ SetAct(a, Seeded)
    /\ UNCHANGED <<record, minted, call, wiped, dropped, failures, stops>>

Enqueue(c, a, k) ==
    /\ call[c].pc = "new"
    /\ act[a].life = "live"
    /\ PutCall(c, [call[c] EXCEPT !.pc = "queued", !.kind = k, !.at = a])
    /\ SetAct(a, IF Interleave THEN act[a]
                 ELSE [act[a] EXCEPT !.lane = Append(@, c)])
    /\ UNCHANGED <<record, minted, wiped, dropped, failures, stops>>

\* c is free to start: at the head of the serial lane, or interleaved.
Runnable(c) ==
    /\ call[c].pc = "queued"
    /\ act[call[c].at].life # "gone"
    /\ ~Interleave => /\ act[call[c].at].lane # <<>>
                      /\ Head(act[call[c].at].lane) = c

StartTurn(c) ==
    LET a == call[c].at
        s == act[a]
    IN  /\ Runnable(c)
        /\ ~s.reload
        /\ IF s.faulted
           THEN FailCall(c, "done", "faulted") /\ SetAct(a, Pop(s))
           ELSE SetCall(c, "running") /\ UNCHANGED act
        /\ UNCHANGED <<record, minted, wiped, dropped, failures, stops>>

\* #turn on an activation with a parked conflict: reload, then run.  (A
\* parked conflict and a fault exclude each other.)
StartAfterReload(c) ==
    LET a == call[c].at
        s == act[a]
    IN  /\ Runnable(c)
        /\ s.reload
        /\ SetCall(c, "running")
        /\ SetAct(a, Reload(s))
        /\ dropped' = dropped \cup (s.mem \ Durable)
        /\ UNCHANGED <<record, minted, wiped, failures, stops>>

StartReloadFails(c) ==
    LET a == call[c].at
    IN  /\ Runnable(c)
        /\ act[a].reload
        /\ CanFail
        /\ failures' = failures + 1
        /\ FailCall(c, "done", "transient")
        /\ SetAct(a, Pop(ReloadFailed(act[a])))
        /\ UNCHANGED <<record, minted, wiped, dropped, stops>>

Mutate(c) ==
    /\ call[c].pc = "running"
    /\ call[c].kind \in {"write", "save", "eventual"}
    /\ SetCall(c, IF call[c].kind = "write" THEN "ending" ELSE "mutated")
    /\ SetAct(call[c].at, Touch(act[call[c].at], c))
    /\ UNCHANGED <<record, minted, wiped, dropped, failures, stops>>

EndTurn(c) ==
    /\ call[c].pc = "ending"
    /\ SetCall(c, "done")
    /\ SetAct(call[c].at, Pop(AfterTurn(act[call[c].at])))
    /\ UNCHANGED <<record, minted, wiped, dropped, failures, stops>>

-----------------------------------------------------------------------------
(* Actions: ctx.save, ctx.append, ctx.clearState and the save gate.        *)

SaveImmediate(c) ==
    LET a == call[c].at
        s == ConsumeDirty(act[a])
    IN  /\ call[c].pc = "mutated" /\ call[c].kind = "save"
        /\ SetAct(a, [s EXCEPT !.version = @ + 1])
        /\ WantVersion(c, "gate", s.version + 1)
        /\ UNCHANGED <<record, minted, wiped, dropped, failures, stops>>

SaveEventual(c) ==
    LET a == call[c].at
        s == ConsumeDirty(act[a])
    IN  /\ call[c].pc = "mutated" /\ call[c].kind = "eventual"
        /\ SetAct(a, [s EXCEPT !.version = @ + 1, !.eventual = s.version + 1,
                               !.armed = TRUE])
        /\ WantVersion(c, "ending", s.version + 1)
        /\ UNCHANGED <<record, minted, wiped, dropped, failures, stops>>

AppendEntry(c) ==
    LET a == call[c].at
        s == ConsumeDirty(act[a])
    IN  /\ call[c].pc = "running" /\ call[c].kind = "append"
        /\ SetAct(a, [s EXCEPT !.mem = @ \cup {c}, !.version = @ + 1])
        /\ WantVersion(c, "gate", s.version + 1)
        /\ UNCHANGED <<record, minted, wiped, dropped, failures, stops>>

ClearState(c) ==
    LET a == call[c].at
    IN  /\ call[c].pc = "running" /\ call[c].kind = "clear"
        /\ ~Busy(act[a])
        /\ SetAct(a, SendClear(act[a], c))
        /\ SetCall(c, "writing")
        /\ UNCHANGED <<record, minted, wiped, dropped, failures, stops>>

\* One iteration of #gatedSave's loop for caller c finds work and no writer.
GateOpen(c) ==
    /\ act[call[c].at].saved < call[c].wanted
    /\ ~Busy(act[call[c].at])

Gate(c) ==
    LET a == call[c].at
        s == act[a]
    IN  /\ call[c].pc = "gate"
        /\ \/ /\ s.saved >= call[c].wanted
              /\ SetCall(c, "ending")
              /\ UNCHANGED act
           \/ /\ GateOpen(c)
              /\ s.faulted
              /\ FailCall(c, "ending", "faulted")
              /\ UNCHANGED act
           \/ /\ GateOpen(c)
              /\ ~s.faulted
              /\ SetCall(c, "writing")
              /\ SetAct(a, IF call[c].kind = "append" /\ AppendSeam /\ s.etag # 0
                           THEN SendAppend(s, c, call[c].wanted)
                           ELSE SendSave(s, c))
        /\ UNCHANGED <<record, minted, wiped, dropped, failures, stops>>

-----------------------------------------------------------------------------
(* Actions: the storage, and its replies.                                  *)

CasHolds_Create(w) == record.etag = w.expect \/ (w.op = "save" /\ w.expect = 0)

\* The store's compare-and-swap verdict on write w.
CasHolds(w) == record.etag = w.expect

\* The answer r (with etag e) to the write in flight of activation s.
Answered(s, r, e) == [s EXCEPT !.pending = [@ EXCEPT !.reply = r, !.etag = e]]

Answer(a, r, e) == SetAct(a, Answered(act[a], r, e))

\* The store accepts the write; LostAcks lets the answer be an error anyway.
Accept(a) ==
    LET w == act[a].pending
    IN  /\ w.reply = "sent" /\ CasHolds(w)
        /\ record' = Stored(w)
        /\ minted' = IF w.op = "clear" THEN minted ELSE minted + 1
        /\ wiped' = IF w.op = "clear" THEN wiped \cup Durable ELSE wiped
        /\ \/ /\ Answer(a, "ok", NextEtag)
              /\ UNCHANGED failures
           \/ /\ LostAcks /\ CanFail
              /\ Answer(a, "error", 0)
              /\ failures' = failures + 1
        /\ UNCHANGED <<call, dropped, stops>>

Refuse(a) ==
    /\ act[a].pending.reply = "sent"
    /\ ~CasHolds(act[a].pending)
    /\ Answer(a, "conflict", 0)
    /\ UNCHANGED <<record, minted, call, wiped, dropped, failures, stops>>

Fail(a) ==
    /\ act[a].pending.reply = "sent"
    /\ CanFail
    /\ failures' = failures + 1
    /\ Answer(a, "error", 0)
    /\ UNCHANGED <<record, minted, call, wiped, dropped, stops>>

\* The reply reaches a turn: a full save re-enters the gate's loop, an append
\* and a clear are done, a failure rejects the turn.
ReplyToCall(a) ==
    LET w == act[a].pending
        c == w.owner
    IN  /\ Busy(act[a]) /\ w.reply # "sent" /\ c # Flush
        /\ act[a].life # "gone"
        /\ SetAct(a, Settled(act[a]))
        /\ CASE w.reply = "ok" -> SetCall(c, IF w.op = "save" THEN "gate" ELSE "ending")
             [] w.reply = "conflict" -> FailCall(c, "ending", "conflict")
             [] w.reply = "error" -> FailCall(c, "ending", "transient")
        /\ wiped' = IF w.reply = "ok" /\ w.op = "clear"
                    THEN wiped \cup act[a].mem ELSE wiped
        /\ UNCHANGED <<record, minted, dropped, failures, stops>>

\* The reply reaches the flush turn, or the final flush, which ends.
ReplyToFlush(a) ==
    LET s == act[a]
        t == Settled(s)
    IN  /\ Busy(s) /\ s.pending.reply # "sent" /\ s.pending.owner = Flush
        /\ s.life # "gone"
        /\ SetAct(a, CASE s.pending.reply = "ok" -> t
                       [] s.pending.reply # "ok" /\ s.life = "flushing" ->
                              [t EXCEPT !.stateError = TRUE, !.life = "gone"]
                       [] OTHER -> FlushFailed(t))
        /\ UNCHANGED <<record, minted, call, wiped, dropped, failures, stops>>

-----------------------------------------------------------------------------
(* Actions: the write-behind debounce.                                     *)

\* The scheduler runs the debounce; a closed lane rejects the flush turn.
TimerFires(a) ==
    /\ act[a].armed
    /\ act[a].life \notin {"gone", "flushing"}
    /\ SetAct(a, [act[a] EXCEPT !.armed = FALSE,
                     !.lane = IF act[a].life = "live" THEN Append(@, Flush) ELSE @])
    /\ UNCHANGED <<record, minted, call, wiped, dropped, failures, stops>>

\* The flush turn starts: reload a parked conflict, then ask the gate for
\* everything (write-behind) or for what an eventual save is owed.
StartFlush(a) ==
    LET s == IF act[a].reload THEN Reload(act[a]) ELSE act[a]
    IN  /\ act[a].life # "gone"
        /\ act[a].lane # <<>> /\ Head(act[a].lane) = Flush
        /\ ~act[a].flushing
        /\ SetAct(a, [s EXCEPT !.flushing = TRUE,
                               !.flushWanted = IF WriteBehind THEN s.version
                                               ELSE s.eventual])
        /\ dropped' = IF act[a].reload THEN dropped \cup (act[a].mem \ Durable)
                      ELSE dropped
        /\ UNCHANGED <<record, minted, call, wiped, failures, stops>>

StartFlushReloadFails(a) ==
    /\ act[a].life # "gone"
    /\ act[a].lane # <<>> /\ Head(act[a].lane) = Flush
    /\ ~act[a].flushing /\ act[a].reload
    /\ CanFail
    /\ failures' = failures + 1
    /\ SetAct(a, FlushFailed(ReloadFailed(act[a])))
    /\ UNCHANGED <<record, minted, call, wiped, dropped, stops>>

FlushGate(a) ==
    LET s == act[a]
    IN  /\ s.flushing
        /\ ~Busy(s) \/ s.saved >= s.flushWanted
        /\ s.life # "gone"
        /\ SetAct(a, CASE s.saved >= s.flushWanted /\ s.life = "flushing" ->
                            [s EXCEPT !.life = "gone"]
                       [] s.saved >= s.flushWanted /\ s.life # "flushing" ->
                            [s EXCEPT !.flushing = FALSE, !.lane = Tail(@)]
                       [] s.saved < s.flushWanted /\ ~s.faulted -> SendSave(s, Flush)
                       [] s.saved < s.flushWanted /\ s.faulted /\ s.life = "flushing" ->
                            [s EXCEPT !.stateError = TRUE, !.life = "gone"]
                       [] OTHER -> FlushFailed(s))
        /\ UNCHANGED <<record, minted, call, wiped, dropped, failures, stops>>

-----------------------------------------------------------------------------
(* Actions: the end of an activation.                                      *)

Deactivate(a) ==
    /\ act[a].life = "live"
    /\ SetAct(a, [act[a] EXCEPT !.life = "closing"])
    /\ UNCHANGED <<record, minted, call, wiped, dropped, failures, stops>>

OwesFinalFlush(s) ==
    /\ ~s.conflict
    /\ ~s.reload
    /\ s.version > s.saved
    /\ WriteBehind \/ s.saved < s.eventual

\* The lanes have drained: cancel the debounce, fold the last writes and
\* flush what is owed.
Drained(a) ==
    LET s == ConsumeDirty([act[a] EXCEPT !.armed = FALSE])
    IN  /\ act[a].life = "closing"
        /\ act[a].lane = <<>> /\ CallsAt(a) = {}
        /\ SetAct(a, IF OwesFinalFlush(s)
                     THEN [s EXCEPT !.life = "flushing", !.flushing = TRUE,
                                    !.flushWanted = s.version]
                     ELSE [s EXCEPT !.life = "gone"])
        /\ UNCHANGED <<record, minted, call, wiped, dropped, failures, stops>>

\* stopAll ran out of time.  An active slot is force-stopped: its lane is
\* closed, nothing is flushed, and the turns already in it run on in the
\* background.  A slot already draining is only dropped from the directory.
ForceStop(a) ==
    /\ act[a].life \in {"live", "closing"}
    /\ stops < MaxStops
    /\ stops' = stops + 1
    /\ SetAct(a, [act[a] EXCEPT !.life = IF @ = "live" THEN "stopped" ELSE @])
    /\ UNCHANGED <<record, minted, call, wiped, dropped, failures>>

\* The host process dies.  A write it had sent may still reach the store.
Crash(a) ==
    /\ act[a].life \notin {"none", "gone"}
    /\ stops < MaxStops
    /\ stops' = stops + 1
    /\ SetAct(a, [act[a] EXCEPT !.life = "gone"])
    /\ call' = [c \in Calls |-> IF c \in CallsAt(a)
                                THEN [call[c] EXCEPT !.pc = "done", !.err = "lost"]
                                ELSE call[c]]
    /\ UNCHANGED <<record, minted, wiped, dropped, failures>>

-----------------------------------------------------------------------------
(* Specification.                                                          *)

\* What the event loop and the store do by themselves.
CallStep(c) ==
    \/ StartTurn(c) \/ StartAfterReload(c) \/ Mutate(c) \/ EndTurn(c)
    \/ SaveImmediate(c) \/ SaveEventual(c) \/ AppendEntry(c) \/ ClearState(c)
    \/ Gate(c)

ActStep(a) ==
    \/ Accept(a) \/ Refuse(a) \/ ReplyToCall(a) \/ ReplyToFlush(a)
    \/ TimerFires(a) \/ StartFlush(a) \/ FlushGate(a) \/ Drained(a)

Progress == (\E c \in Calls : CallStep(c)) \/ (\E a \in Acts : ActStep(a))

\* What the callers, the host and the failures choose to do.
Environment ==
    \/ \E a \in Acts : \/ Activate(a) \/ Deactivate(a) \/ ForceStop(a) \/ Crash(a)
                       \/ Fail(a) \/ StartFlushReloadFails(a)
    \/ \E c \in Calls, a \in Acts, k \in Kinds : Enqueue(c, a, k)
    \/ \E c \in Calls : StartReloadFails(c)

Next == Progress \/ Environment

Spec == Init /\ [][Next]_vars

\* The event loop runs every ready continuation and the store answers.
FairSpec == Spec /\ WF_vars(Progress)

-----------------------------------------------------------------------------
(* Properties.                                                             *)

RecordOK(r) == r.etag \in Nat /\ r.state \subseteq Calls /\ r.log \in Seq(Calls)

WriteOK(w) ==
    /\ w.op \in {"none", "save", "append", "clear"}
    /\ w.owner \in Calls \cup {Flush}
    /\ w.state \subseteq Calls
    /\ w.expect \in Nat /\ w.version \in Nat /\ w.etag \in Nat
    /\ w.reply \in {"sent", "ok", "conflict", "error"}

ActOK(s) ==
    /\ s.life \in {"none", "live", "closing", "flushing", "stopped", "gone"}
    /\ s.mem \subseteq Calls
    /\ s.etag \in Nat /\ s.version \in Nat /\ s.notified \in Nat /\ s.saved \in Nat
    /\ s.eventual \in Nat /\ s.flushWanted \in Nat
    /\ s.dirty \in BOOLEAN /\ s.faulted \in BOOLEAN /\ s.reported \in BOOLEAN
    /\ s.conflict \in BOOLEAN /\ s.reload \in BOOLEAN /\ s.armed \in BOOLEAN
    /\ s.flushing \in BOOLEAN /\ s.stateError \in BOOLEAN
    /\ s.lane \in Seq(Calls \cup {Flush})
    /\ WriteOK(s.pending)

CallOK(d) ==
    /\ d.pc \in {"new", "queued", "running", "mutated", "gate", "writing",
                 "ending", "done"}
    /\ d.kind \in AllKinds \cup {"none"}
    /\ d.at \in Acts \cup {"none"}
    /\ d.wanted \in Nat
    /\ d.err \in {"none", "conflict", "transient", "faulted", "lost"}

\* Every variable has its type.
TypeOK ==
    /\ RecordOK(record)
    /\ minted \in Nat
    /\ act = [a \in Acts |-> act[a]] /\ \A a \in Acts : ActOK(act[a])
    /\ call = [c \in Calls |-> call[c]] /\ \A c \in Calls : CallOK(call[c])
    /\ wiped \subseteq Calls /\ dropped \subseteq Calls
    /\ failures \in 0..MaxFailures /\ stops \in 0..MaxStops

\* Immediate saves and appends that resolved.
Acked == {c \in Calls : /\ call[c].pc = "done" /\ call[c].err = "none"
                        /\ call[c].kind \in {"save", "append"}}

\* `save` "resolves when stored": what an immediate save or an append
\* resolved for is in the record for ever, unless a clearState deleted it,
\* however many activations of the actor write concurrently.
AckedDurable == Acked \subseteq Durable \cup wiped

\* No write of any activation, stale or not, removes another's durable effect;
\* only clearState does.
NoLostUpdate == [][Durable \subseteq Durable' \cup wiped']_vars

\* An entry is folded once: never twice in the log, never in both the
\* snapshot and the log a load replays over it.
FoldedOnce ==
    /\ record.state \cap Entries(record.log) = {}
    /\ \A i, j \in 1..Len(record.log) : record.log[i] = record.log[j] => i = j

\* savedVersion never claims what the storage does not hold: an eventual save
\* whose version counts as saved is durable (or was cleared, or discarded by
\* the reload of a conflict) -- otherwise the flush would skip it silently.
SavedIsDurable ==
    \A c \in Calls :
        /\ call[c].kind = "eventual" /\ call[c].pc \in {"ending", "done"}
        /\ call[c].wanted > 0 /\ call[c].wanted <= act[call[c].at].saved
        => c \in Durable \cup wiped \cup dropped

\* What an actor was told is kept is kept, once: a turn that was acknowledged is
\* in the record or was removed by a clear, a version claimed as saved is the
\* version stored, and no appended entry is folded twice.
KeptOnce == AckedDurable /\ SavedIsDurable /\ FoldedOnce

\* A faulted activation (it lost a compare-and-swap) changes nothing any more.
FaultedNeverWrites ==
    [][\A a \in Acts : act[a].faulted /\ act[a].pending # act'[a].pending
                           => record' = record]_vars

\* The writes of a serial turn that lost the compare-and-swap are discarded:
\* they never become durable, neither by a later save of the same activation
\* nor by its flushes.
LosingTurnDiscarded ==
    ~Interleave =>
        \A c \in Calls : call[c].err = "conflict" => c \notin Durable

\* On an explicit actor a flush never re-creates a record that clearState
\* deleted out of a blank state: the save it was armed for died with it.
NoBlankResurrection ==
    [][ ~WriteBehind /\ ~Interleave /\ record.etag = 0 /\ record'.etag # 0
        => \A a \in Acts : act'[a].pending # act[a].pending
               => act[a].pending.owner # Flush \/ act[a].pending.state # {} ]_vars

\* The persistence path implements the promise of DurableState.
Promise == INSTANCE DurableState
               WITH Effects <- Calls, durable <- Durable, erased <- wiped, acked <- Acked

KeepsPromise == Promise!Spec

-----------------------------------------------------------------------------
(* The inductive invariant behind NoLostUpdate.                            *)

\* c has started and has not ended.
Working(c) == call[c].pc \in {"running", "mutated", "gate", "writing", "ending"}

\* A turn not yet over belongs to an activation that still runs turns.
CallsPlaced ==
    \A c \in Calls : ~Over(c) =>
        /\ call[c].at \in Acts
        /\ act[call[c].at].life \in {"live", "closing", "stopped"}

\* On a serial activation the running turn is the head of the lane.
HeadWorks ==
    ~Interleave => \A c \in Calls : Working(c) =>
        act[call[c].at].lane # <<>> /\ Head(act[call[c].at].lane) = c

\* A flush that runs inside the lane is its head.
HeadFlushes ==
    \A a \in Acts : act[a].flushing /\ act[a].life \notin {"gone", "flushing"} =>
        act[a].lane # <<>> /\ Head(act[a].lane) = Flush

\* The write in flight belongs to the one turn, or flush, that awaits it.
WriterWaits ==
    \A a \in Acts : Busy(act[a]) /\ act[a].life # "gone" =>
        IF act[a].pending.owner = Flush
        THEN act[a].flushing /\ act[a].saved < act[a].flushWanted
        ELSE /\ call[act[a].pending.owner].pc = "writing"
             /\ call[act[a].pending.owner].at = a

\* An append at the gate, or past it, has folded its entry into the copy; an
\* interleaved clearState may have wiped it since.
AppendFolds ==
    \A c \in Calls : call[c].kind = "append" /\ call[c].pc \in {"gate", "writing"} =>
        c \in act[call[c].at].mem \cup wiped

\* Only retryQueuedOnConflict parks a conflict for a reload.
ReloadOptedIn == \A a \in Acts : act[a].reload => RetryQueued

LaneInv ==
    /\ CallsPlaced /\ HeadWorks /\ HeadFlushes /\ WriterWaits /\ AppendFolds
    /\ ReloadOptedIn

\* A copy at the record's etag has everything the record has, but what a
\* clearState wiped, and so does every write that could still pass the
\* compare-and-swap.
FreshCopy(s) ==
    /\ s.etag <= minted
    /\ s.etag = record.etag => Durable \subseteq s.mem \cup wiped
    /\ s.pending.reply = "sent" => Busy(s)
    /\ Busy(s) =>
        /\ s.pending.expect = s.etag
        /\ s.pending.op # "save" => s.pending.owner \in Calls
        /\ s.pending.op = "save" => s.pending.state \subseteq s.mem \cup wiped
        /\ s.pending.op = "append" => s.pending.owner \in (s.mem \cup wiped) \cap Calls
        /\ s.pending.op = "save" /\ s.pending.reply = "sent"
               /\ s.pending.expect = record.etag 
               => Durable \subseteq s.pending.state \cup wiped
        /\ s.pending.op # "clear" /\ s.pending.reply = "ok" =>
               /\ 0 < s.pending.etag /\ s.pending.etag <= minted
               /\ s.pending.etag = record.etag => Durable \subseteq s.mem \cup wiped

FreshInv ==
    /\ record.etag <= minted
    /\ record.etag = 0 => Durable = {}
    /\ \A a \in Acts : FreshCopy(act[a])

\* Why no update is lost: single-flight writes of turns that hold their lane,
\* from copies that are complete whenever their etag is current.
StorageInv == TypeOK /\ LaneInv /\ FreshInv

-----------------------------------------------------------------------------
(* Liveness.                                                               *)

\* Every turn settles: no caller waits at the save gate, behind a conflict or
\* behind a reload for ever.
EveryCallSettles ==
    \A c \in Calls : (call[c].pc = "queued") ~> (call[c].pc = "done")

\* What a turn that ended well left to the debounce.
Deferred(c) ==
    /\ call[c].pc = "done" /\ call[c].err = "none"
    /\ call[c].kind = "eventual" \/ (WriteBehind /\ call[c].kind = "write")

\* ... becomes durable, or is cleared, or its loss has a cause the code names:
\* the activation lost a conflict, reported a failed flush through
\* onStateError, was stopped by force or died with its host.
DeferredResolves ==
    \A c \in Calls, a \in Acts :
        (Deferred(c) /\ call[c].at = a) ~>
            \/ c \in Durable \cup wiped \cup dropped
            \/ act[a].faulted \/ act[a].stateError
            \/ stops > 0

=============================================================================
