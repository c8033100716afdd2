----------------------------- MODULE RunEngine -----------------------------
(***************************************************************************)
(* The event-driven workflow engine of the cluster rig: one actor per run, *)
(* advanced by turns (start, signal, childDone, timer and reminder ticks). *)
(* A turn records, saves, and lets calls to other runs go out detached.    *)
(*                                                                         *)
(* Every step of this module is what lies between two awaits of a turn: a  *)
(* mutation together with the save that ends it, then the effects after    *)
(* the save.  A host may die between any two of them, which forgets the    *)
(* activation (timers, queued ticks, the turn) and keeps what was saved,   *)
(* the reminders and the calls on the wire.  Durations are abstracted: a   *)
(* timer or reminder may fire at any time after it is armed.               *)
(***************************************************************************)
EXTENDS Integers, Sequences, FiniteSets

CONSTANTS
  Runs,          \* run ids
  Plans,         \* the set of possible definitions, each [Runs -> definition]
  KidsOf,        \* [Runs -> SUBSET Runs]: the children a run's fan-out starts
  ParentOf,      \* [Runs -> Runs \cup {NoRun}]
  Nobody,
  MaxSeq,        \* bound on the wake tokens a run mints
  EngBudget      \* [Plans -> Nat]: signals, touches and cancels from outside,
                 \* crashes, lost calls, failed arms and thrown turns, together

ASSUME EngAssumption ==
  /\ MaxSeq \in Nat /\ EngBudget \in [Plans -> Nat]
  /\ KidsOf \in [Runs -> SUBSET Runs] /\ ParentOf \in [Runs -> Runs \cup {Nobody}]

VARIABLES
  plan,      \* the definitions in force
  eng,       \* [Runs -> the saved state of the run]
  vol,       \* [Runs -> what only the activation holds]
  engAlarm,     \* [Runs -> the token the wake reminder was armed for, 0 when none]
  watchdog,  \* [Runs -> is the periodic join-check reminder armed]
  wires,     \* calls and reminder ticks under way to a run
  accepted,  \* [Runs -> signals whose call was answered accepted]
  engFaults  \* how much of EngBudget is spent

engVars == <<plan, eng, vol, engAlarm, watchdog, wires, accepted, engFaults>>

EngTerminal == {"completed", "failed", "compensated", "cancelled"}
Going == {"running", "compensating", "blocked", "waiting", "sleeping"}
NoEngWake == [token |-> 0, reason |-> "none", kind |-> "none"]
NoStack == <<"none">>
Nil == "nil"

Absent == [up |-> FALSE, pc |-> "idle", timer |-> 0, handle |-> FALSE,
           ticks |-> {}, leave |-> FALSE]
Fresh(r) == [Absent EXCEPT !.up = TRUE,
                           !.ticks = IF eng[r].status = "pending" THEN {} ELSE {[t |-> "activate", token |-> 0]}]

Tick(t) == [t |-> t, token |-> 0]
Wire(m, to, from) == [m |-> m, to |-> to, from |-> from, token |-> 0]

NodesOf(r) == plan[r].nodes
NodeAt(r) == NodesOf(r)[eng[r].cursor]

EngInit ==
  /\ plan \in Plans
  /\ eng = [r \in Runs |->
       [status |-> "pending", cursor |-> Nil, seq |-> 0, wake |-> NoEngWake, done |-> <<>>,
        stack |-> NoStack, kids |-> [k \in KidsOf[r] |-> "none"], join |-> FALSE,
        inbox |-> 0, got |-> 0, tries |-> 0, notify |-> "none"]]
  /\ vol = [r \in Runs |-> Absent]
  /\ engAlarm = [r \in Runs |-> 0]
  /\ watchdog = [r \in Runs |-> FALSE]
  /\ wires = {Wire("start", r, Nobody) : r \in {q \in Runs : ParentOf[q] = Nobody}}
  /\ accepted = [r \in Runs |-> 0]
  /\ engFaults = 0

Fault == engFaults < EngBudget[plan] /\ engFaults' = engFaults + 1
NoEngFault == engFaults' = engFaults

---------------------------------------------------------------------------
(* What one turn does to the run's own record *)

\* the run goes on driving, or ends its turn, with record e
Became(r, e, pc) ==
  /\ eng' = [eng EXCEPT ![r] = e]
  /\ vol' = [vol EXCEPT ![r].pc = pc]

Unwoken(e) == [e EXCEPT !.wake = NoEngWake]

\* the statuses a run returns to when a sleep or a join is over
Resumed(e) == IF e.stack = NoStack THEN "running" ELSE "compensating"

\* from is done; the cursor moves along the definition, or along the stack of
\* compensations when one is being walked
MovedOn(e, from, to) ==
  LET marked == [e EXCEPT !.tries = 0,
                          !.done = IF \E i \in DOMAIN e.done : e.done[i] = from
                                   THEN @ ELSE Append(@, from)]
  IN IF e.stack = NoStack THEN [marked EXCEPT !.cursor = to]
     ELSE [marked EXCEPT !.stack = Tail(@),
                         !.cursor = IF Len(e.stack) > 1 THEN e.stack[2] ELSE Nil]

\* a run that saved without the wake it parks on
SleptUnwoken(r, e, reason) ==
  [e EXCEPT !.seq = @ + 1,
            !.status = IF reason \in {"delay", "retry"} THEN "sleeping" ELSE @]
\* the wake is recorded with the status it parks in, under a fresh token
Slept(r, e, reason) ==
  [e EXCEPT !.seq = @ + 1,
            !.status = IF reason \in {"delay", "retry"} THEN "sleeping" ELSE @,
            !.wake = [token |-> e.seq + 1, reason |-> reason,
                      kind |-> IF reason = "notify-retry" \/ ~plan[r].durable
                               THEN "timer" ELSE "reminder"]]

\* cancelWake: the timer is cancelled and a durable wake's reminder cleared by
\* a detached call, which may fail
DropWake(r) ==
  \/ NoEngFault /\ engAlarm' = [engAlarm EXCEPT ![r] = IF eng[r].wake.kind = "reminder" THEN 0 ELSE @]
  \/ eng[r].wake.kind = "reminder" /\ engAlarm[r] # 0 /\ Fault /\ UNCHANGED engAlarm

CancelTimer(r) == [vol[r] EXCEPT !.timer = 0, !.handle = FALSE]

\* sleep(): cancel the wake held, record the new one, save; arming comes next
EngSleep(r, e, reason) ==
  /\ e.seq < MaxSeq
  /\ DropWake(r)
  /\ eng' = [eng EXCEPT ![r] = Slept(r, e, reason)]
  /\ vol' = [vol EXCEPT ![r] = [CancelTimer(r) EXCEPT !.pc = "arm"]]

\* finish(): cancelled wake, watchdog cleared, terminal status and the parent
\* still to be told, in one save
EngEnded(r, e, status) ==
  /\ watchdog' = [watchdog EXCEPT ![r] = FALSE]
  /\ eng' = [eng EXCEPT ![r] =
       [Unwoken(e) EXCEPT !.status = status, !.cursor = Nil,
                          !.notify = IF ParentOf[r] = Nobody THEN @ ELSE "pending"]]
  /\ vol' = [vol EXCEPT ![r] = [CancelTimer(r) EXCEPT !.pc = "finished"]]
Finish(r, e, status) == DropWake(r) /\ EngEnded(r, e, status)

\* the compensations of the tasks done, newest first
Compensations(r, done) ==
  LET owed == SelectSeq(done, LAMBDA n : NodesOf(r)[n].undo # Nil)
  IN [i \in 1..Len(owed) |-> NodesOf(r)[owed[Len(owed) + 1 - i]].undo]

OnFailure(r, e) ==
  LET stack == Compensations(r, e.done)
      walks == plan[r].compensates /\ e.stack = NoStack /\ stack # <<>>
  IN \/ /\ walks
        /\ Became(r, [e EXCEPT !.stack = stack, !.status = "compensating",
                               !.cursor = stack[1], !.tries = 0], "drive")
        /\ watchdog' = [watchdog EXCEPT ![r] = FALSE]
        /\ NoEngFault
        /\ UNCHANGED engAlarm
     \/ ~walks /\ Finish(r, e, "failed")

---------------------------------------------------------------------------
(* The drive loop: one step per await *)

Driving(r, statuses) == vol[r].up /\ vol[r].pc = "drive" /\ eng[r].status \in statuses

Parks(r) == vol' = [vol EXCEPT ![r].pc = "idle"] /\ NoEngFault /\ UNCHANGED <<eng, engAlarm>>

KidsIn(e, s) == {k \in DOMAIN e.kids : e.kids[k] = s}

\* every child expected has reported
Joined(e) == KidsIn(e, "running") = {}

\* blocked: stay parked until the join is complete
ResolveJoin(r) ==
  LET e == eng[r]
      free == [e EXCEPT !.join = FALSE, !.status = Resumed(e)]
  IN /\ Driving(r, {"blocked"})
     /\ \/ ~Joined(e) /\ Parks(r) /\ UNCHANGED watchdog
        \/ /\ Joined(e) /\ KidsIn(e, "failed") = {}
           /\ Became(r, MovedOn(free, e.cursor, NodeAt(r).next), "drive")
           /\ watchdog' = [watchdog EXCEPT ![r] = FALSE]
           /\ NoEngFault
           /\ UNCHANGED engAlarm
        \/ Joined(e) /\ KidsIn(e, "failed") # {} /\ OnFailure(r, free)
     /\ UNCHANGED <<plan, wires, accepted>>

\* a signal taken from the inbox
TookSignal(e) == [e EXCEPT !.inbox = @ - 1, !.got = @ + 1]

\* waiting: a buffered signal ends the wait; a wait that lost its wake re-arms
ResolveWait(r) ==
  LET e == eng[r]
  IN /\ Driving(r, {"waiting"})
     /\ \/ /\ e.inbox > 0
           /\ DropWake(r)
           /\ eng' = [eng EXCEPT ![r] = MovedOn([Unwoken(TookSignal(e)) EXCEPT !.status = "running"],
                                                e.cursor, NodeAt(r).next)]
           /\ vol' = [vol EXCEPT ![r] = CancelTimer(r)]
        \/ e.inbox = 0 /\ e.wake = NoEngWake /\ EngSleep(r, e, "signal-timeout")
        \/ e.inbox = 0 /\ e.wake # NoEngWake /\ Parks(r)
     /\ UNCHANGED <<plan, watchdog, wires, accepted>>

\* sleeping: nothing to do but re-arm a wake that is gone, which no reachable
\* state is: the wake is saved with the status (ParkedHasItsWake)
ResolveSleep(r) ==
  LET e == eng[r]
  IN /\ Driving(r, {"sleeping"})
     /\ \/ e.wake # NoEngWake /\ Parks(r)
        \/ /\ e.wake = NoEngWake
           /\ EngSleep(r, e, IF NodeAt(r).type = "delay" THEN "delay" ELSE "retry")
     /\ UNCHANGED <<plan, watchdog, wires, accepted>>

\* nothing left to drive: the turn ends, or the run has reached its end
DriveEnds(r) ==
  LET e == eng[r]
      over == IF e.stack = NoStack THEN "completed" ELSE "compensated"
  IN /\ \/ Driving(r, EngTerminal \cup {"pending"}) /\ Parks(r) /\ UNCHANGED watchdog
        \/ /\ Driving(r, {"running", "compensating"})
           /\ e.cursor = Nil \/ (e.cursor # Nil /\ NodeAt(r).type = "end")
           /\ Finish(r, e, over)
     /\ UNCHANGED <<plan, wires, accepted>>

\* execute() for the nodes that need no other actor
ExecuteLocal(r) ==
  LET e == eng[r]
      n == NodeAt(r)
  IN /\ Driving(r, {"running", "compensating"}) /\ e.cursor # Nil
     /\ \/ /\ n.type = "branch"
           /\ \E to \in {n.next, n.else} : Became(r, MovedOn(e, e.cursor, to), "drive")
           /\ NoEngFault
           /\ UNCHANGED engAlarm
        \/ n.type = "delay" /\ EngSleep(r, e, "delay")
        \/ /\ n.type = "wait" /\ e.inbox > 0
           /\ Became(r, MovedOn(TookSignal(e), e.cursor, n.next), "drive")
           /\ NoEngFault
           /\ UNCHANGED engAlarm
        \/ /\ n.type = "wait" /\ e.inbox = 0
           /\ EngSleep(r, [e EXCEPT !.status = "waiting"], "signal-timeout")
     /\ UNCHANGED <<plan, watchdog, wires, accepted>>

\* a task, a parallel or a task fan-out: the attempt is saved, then the workers
\* are called
ExecuteWork(r) ==
  LET e == eng[r]
  IN /\ Driving(r, {"running", "compensating"}) /\ e.cursor # Nil
     /\ NodeAt(r).type \in {"task", "parallel"}
     /\ Became(r, [e EXCEPT !.tries = IF NodeAt(r).type = "task" THEN @ + 1 ELSE @], "work")
     /\ NoEngFault
     /\ UNCHANGED <<plan, engAlarm, watchdog, wires, accepted>>

\* the workers answer; only a task sleeps before another attempt
WorkDone(r) ==
  LET e == eng[r]
      n == NodeAt(r)
  IN /\ vol[r].up /\ vol[r].pc = "work"
     /\ \/ /\ Became(r, MovedOn(e, e.cursor, n.next), "drive")
           /\ NoEngFault
           /\ UNCHANGED <<engAlarm, watchdog>>
        \/ n.fails /\ e.tries < n.retries /\ EngSleep(r, e, "retry") /\ UNCHANGED watchdog
        \/ n.fails /\ e.tries >= n.retries /\ OnFailure(r, e)
     /\ UNCHANGED <<plan, wires, accepted>>

\* children: recorded and saved as blocked before any of them is started
ExecuteChildren(r) ==
  LET e == eng[r]
  IN /\ Driving(r, {"running", "compensating"}) /\ e.cursor # Nil
     /\ NodeAt(r).type = "children"
     /\ Became(r, [e EXCEPT !.status = "blocked", !.join = TRUE,
                            !.kids = [k \in DOMAIN @ |-> "running"]], "spawn")
     /\ NoEngFault
     /\ UNCHANGED <<plan, engAlarm, watchdog, wires, accepted>>

\* the starts go out detached
Spawn(r) ==
  /\ vol[r].up /\ vol[r].pc = "spawn"
  /\ wires' = wires \cup {Wire("start", k, r) : k \in KidsOf[r]}
  /\ vol' = [vol EXCEPT ![r].pc = "watch"]
  /\ UNCHANGED <<plan, eng, engAlarm, watchdog, accepted, engFaults>>

\* the watchdog is armed last; a set that fails for good is only counted
Watch(r) ==
  /\ vol[r].up /\ vol[r].pc = "watch"
  /\ \/ watchdog' = [watchdog EXCEPT ![r] = TRUE] /\ NoEngFault
     \/ Fault /\ UNCHANGED watchdog
  /\ vol' = [vol EXCEPT ![r].pc = "idle"]
  /\ UNCHANGED <<plan, eng, engAlarm, wires, accepted>>

\* arming the wake just saved; the notify call follows the notify-retry wake.
\* A reminder that cannot be set falls back to a timer; one that is set lets
\* the activation leave memory.
ArmTimer(r) == [vol[r] EXCEPT !.pc = "idle", !.timer = eng[r].wake.token, !.handle = TRUE]
Arm(r) ==
  LET w == eng[r].wake
  IN /\ vol[r].up /\ vol[r].pc = "arm"
     /\ \/ /\ w.kind # "reminder"
           /\ vol' = [vol EXCEPT ![r] = ArmTimer(r)]
           /\ NoEngFault
           /\ UNCHANGED <<eng, engAlarm>>
        \/ /\ w.kind = "reminder"
           /\ engAlarm' = [engAlarm EXCEPT ![r] = w.token]
           /\ vol' = [vol EXCEPT ![r].pc = "idle", ![r].leave = TRUE]
           /\ NoEngFault
           /\ UNCHANGED eng
        \/ /\ w.kind = "reminder"
           /\ Fault
           /\ eng' = [eng EXCEPT ![r].wake.kind = "timer-fallback"]
           /\ vol' = [vol EXCEPT ![r] = ArmTimer(r)]
           /\ UNCHANGED engAlarm
     /\ wires' = IF w.reason = "notify-retry"
                 THEN wires \cup {Wire("childDone", ParentOf[r], r)} ELSE wires
     /\ UNCHANGED <<plan, watchdog, accepted>>

\* after the terminal save: the event is published detached, and a child goes on
\* to tell its parent behind a notify-retry wake
Finished(r) ==
  /\ vol[r].up /\ vol[r].pc = "finished"
  /\ \/ eng[r].notify = "pending" /\ EngSleep(r, eng[r], "notify-retry")
     \/ /\ eng[r].notify # "pending"
        /\ vol' = [vol EXCEPT ![r].pc = "idle", ![r].leave = TRUE]
        /\ NoEngFault
        /\ UNCHANGED <<eng, engAlarm>>
  /\ UNCHANGED <<plan, watchdog, wires, accepted>>

\* armAdvance replaces a timer that has not fired; one that has left its tick
\* in the mailbox, and that tick runs as well
Advancing(ts) ==
  IF Tick("advance") \in ts
  THEN {ts, ts \cup {[t |-> "advance", token |-> 1]}}
  ELSE {ts \cup {Tick("advance")}}

\* armAdvance: the end of every turn that only records
Poke(r) ==
  /\ vol[r].up /\ vol[r].pc = "poke"
  /\ \E ts \in Advancing(vol[r].ticks) :
       vol' = [vol EXCEPT ![r].pc = "idle", ![r].ticks = ts]
  /\ UNCHANGED <<plan, eng, engAlarm, watchdog, wires, accepted, engFaults>>

\* guarded(): whatever the drive throws fails a run that is not terminal
Throws(r) ==
  /\ vol[r].up /\ vol[r].pc \in {"drive", "work"}
  /\ eng[r].status \notin EngTerminal \cup {"pending"}
  /\ Fault
  /\ engAlarm' = [engAlarm EXCEPT ![r] = IF eng[r].wake.kind = "reminder" THEN 0 ELSE @]
  /\ EngEnded(r, eng[r], "failed")
  /\ UNCHANGED <<plan, wires, accepted>>

---------------------------------------------------------------------------
(* Turns: what a tick or a call starts *)

EngIdle(r) == vol[r].up /\ vol[r].pc = "idle" /\ ~vol[r].leave
Pop(r, t) == [vol[r] EXCEPT !.ticks = @ \ {t}]

\* advance: drive from the cursor
EngTick(r) ==
  /\ EngIdle(r)
  /\ \E t \in vol[r].ticks :
       t.t = "advance" /\ vol' = [vol EXCEPT ![r] = [Pop(r, t) EXCEPT !.pc = "drive"]]
  /\ UNCHANGED <<plan, eng, engAlarm, watchdog, wires, accepted, engFaults>>

\* the wake of record w has come; base is the activation without the tick
ApplyWake(r, base) ==
  LET e == eng[r]
      w == e.wake
      awake == [Unwoken(e) EXCEPT !.status = IF w.reason = "signal-timeout" THEN "running"
                                             ELSE Resumed(e)]
      driving == [base EXCEPT !.pc = "drive", !.handle = FALSE]
  IN \/ /\ w.reason \in {"delay", "signal-timeout"}
        /\ eng' = [eng EXCEPT ![r] = MovedOn(awake, e.cursor,
                     IF w.reason = "delay" THEN NodeAt(r).next ELSE NodeAt(r).else)]
        /\ vol' = [vol EXCEPT ![r] = driving]
     \/ /\ w.reason = "retry"
        /\ eng' = [eng EXCEPT ![r] = awake]
        /\ vol' = [vol EXCEPT ![r] = driving]
     \/ /\ w.reason = "notify-retry" /\ e.notify = "pending" /\ e.seq < MaxSeq
        /\ eng' = [eng EXCEPT ![r] = Slept(r, Unwoken(e), "notify-retry")]
        /\ vol' = [vol EXCEPT ![r] = [base EXCEPT !.pc = "arm", !.handle = FALSE, !.timer = 0]]

\* only the token in state is honoured
Honoured(r, token) == eng[r].wake # NoEngWake /\ eng[r].wake.token = token

EngWakeTick(r) ==
  /\ EngIdle(r)
  /\ \E t \in vol[r].ticks :
       /\ t.t = "wake"
       /\ \/ Honoured(r, t.token) /\ ApplyWake(r, Pop(r, t))
          \/ ~Honoured(r, t.token) /\ vol' = [vol EXCEPT ![r] = Pop(r, t)] /\ UNCHANGED eng
  /\ UNCHANGED <<plan, engAlarm, watchdog, wires, accepted, engFaults>>

\* onReminder('wake'): the token is the one in state when the tick runs
ReminderTurn(r) ==
  /\ EngIdle(r)
  /\ \E c \in wires :
       /\ c.m = "wake" /\ c.to = r
       /\ wires' = wires \ {c}
       /\ \/ Honoured(r, eng[r].wake.token) /\ ApplyWake(r, vol[r])
          \/ ~Honoured(r, eng[r].wake.token) /\ UNCHANGED <<eng, vol>>
  /\ UNCHANGED <<plan, engAlarm, watchdog, accepted, engFaults>>

\* onReminder('join-check'): children still running are started again and
\* touched, and the join is looked at once more
JoinCheckTurn(r) ==
  /\ EngIdle(r)
  /\ \E c \in wires :
       /\ c.m = "check" /\ c.to = r
       /\ \/ /\ eng[r].join /\ eng[r].status \notin EngTerminal
             /\ wires' = (wires \ {c}) \cup
                  {Wire(m, k, r) : m \in {"start", "status"}, k \in KidsIn(eng[r], "running")}
             /\ \E ts \in Advancing(vol[r].ticks) : vol' = [vol EXCEPT ![r].ticks = ts]
             /\ UNCHANGED watchdog
          \/ /\ ~eng[r].join \/ eng[r].status \in EngTerminal
             /\ wires' = wires \ {c}
             /\ watchdog' = [watchdog EXCEPT ![r] = FALSE]
             /\ UNCHANGED vol
  /\ UNCHANGED <<plan, eng, engAlarm, accepted, engFaults>>

\* nudge(): re-arm a wake only memory held, or one overdue; a run with no wake
\* is driven
Nudged(r, base, overdue) ==
  LET e == eng[r]
      arms == [base EXCEPT !.timer = e.wake.token, !.handle = TRUE]
  IN CASE e.wake # NoEngWake /\ ~base.handle
            /\ (e.status \in EngTerminal => e.notify = "pending")
            /\ (e.wake.kind # "reminder" \/ overdue) -> arms
       [] e.wake = NoEngWake /\ e.status \in Going -> [base EXCEPT !.ticks = @ \cup {Tick("advance")}]
       [] OTHER -> base

\* an overdue reminder wake is marked lost: it will not be cleared as one.  (The
\* mark is saved with the run's next save; an activation that finds it unsaved
\* finds the wake overdue again.)
MarkedLost(r, overdue) ==
  eng' = [eng EXCEPT ![r].wake.kind =
            IF overdue /\ @ = "reminder" /\ ~vol[r].handle /\ eng[r].status \in Going
            THEN "timer-fallback" ELSE @]

\* the first tick of an activation
ActivateTick(r) ==
  /\ EngIdle(r) /\ Tick("activate") \in vol[r].ticks
  /\ \E overdue \in BOOLEAN :
       /\ vol' = [vol EXCEPT ![r] = Nudged(r, Pop(r, Tick("activate")), overdue)]
       /\ MarkedLost(r, overdue)
  /\ UNCHANGED <<plan, engAlarm, watchdog, wires, accepted, engFaults>>

\* status(): a touch from outside or from a parent's watchdog
StatusTurn(r) ==
  /\ EngIdle(r)
  /\ \E c \in wires :
       /\ c.m = "status" /\ c.to = r
       /\ wires' = wires \ {c}
       /\ \E overdue \in BOOLEAN :
            /\ vol' = [vol EXCEPT ![r] = Nudged(r, vol[r], overdue)]
            /\ MarkedLost(r, overdue)
  /\ UNCHANGED <<plan, engAlarm, watchdog, accepted, engFaults>>

\* start() is idempotent: only a run never started takes it
Startable(r) == eng[r].status = "pending"

\* start()
StartTurn(r) ==
  /\ EngIdle(r)
  /\ \E c \in wires :
       /\ c.m = "start" /\ c.to = r
       /\ wires' = wires \ {c}
       /\ \/ /\ Startable(r)
             /\ Became(r, [eng[r] EXCEPT !.status = "running", !.cursor = plan[r].start], "poke")
          \/ ~Startable(r) /\ UNCHANGED <<eng, vol>>
  /\ UNCHANGED <<plan, engAlarm, watchdog, accepted, engFaults>>

\* the inbox with one more signal, saved before the call is answered
Kept(r) == [eng[r] EXCEPT !.inbox = @ + 1]

\* signal()
SignalTurn(r) ==
  /\ EngIdle(r)
  /\ \E c \in wires :
       /\ c.m = "signal" /\ c.to = r
       /\ wires' = wires \ {c}
       /\ \/ eng[r].status \in EngTerminal /\ UNCHANGED <<eng, vol, accepted>>
          \/ /\ eng[r].status \notin EngTerminal
             /\ Became(r, Kept(r), IF eng[r].status = "waiting" THEN "poke" ELSE "idle")
             /\ accepted' = [accepted EXCEPT ![r] = @ + 1]
  /\ UNCHANGED <<plan, engAlarm, watchdog, engFaults>>

\* the verdict of a child, as the child's terminal status reports it
VerdictOf(k) == IF eng[k].status = "completed" THEN "done" ELSE "failed"

\* childDone(): first report wins; the answer lets the child mark itself told,
\* if the activation that asked is still there
ChildDoneTurn(r) ==
  /\ EngIdle(r)
  /\ \E c \in wires :
       /\ c.m \in {"childDone", "childDone-orphan"} /\ c.to = r
       /\ wires' = wires \ {c}
       /\ LET k == c.from
              news == eng[r].kids[k] = "running"
              told == IF c.m = "childDone" /\ vol[k].up
                      THEN [vol EXCEPT ![k].ticks = @ \cup {Tick("notified")}] ELSE vol
          IN /\ eng' = IF news THEN [eng EXCEPT ![r].kids[k] = VerdictOf(k)] ELSE eng
             /\ vol' = [told EXCEPT ![r].pc = IF news /\ eng[r].status = "blocked"
                                              THEN "poke" ELSE "idle"]
  /\ UNCHANGED <<plan, engAlarm, watchdog, accepted, engFaults>>

\* markNotified(): the retry wake is dropped with the mark, in one save
NotifiedTick(r) ==
  /\ EngIdle(r) /\ Tick("notified") \in vol[r].ticks
  /\ \/ /\ eng[r].notify = "pending"
        /\ eng' = [eng EXCEPT ![r] = [Unwoken(@) EXCEPT !.notify = "sent"]]
        /\ vol' = [vol EXCEPT ![r] = [Pop(r, Tick("notified")) EXCEPT
                                        !.timer = 0, !.handle = FALSE, !.leave = TRUE]]
     \/ /\ eng[r].notify # "pending"
        /\ vol' = [vol EXCEPT ![r] = Pop(r, Tick("notified"))]
        /\ UNCHANGED eng
  /\ UNCHANGED <<plan, engAlarm, watchdog, wires, accepted, engFaults>>

\* cancel(): a run that is under way ends here
CancelTurn(r) ==
  /\ EngIdle(r)
  /\ \E c \in wires :
       /\ c.m = "cancel" /\ c.to = r
       /\ wires' = wires \ {c}
  /\ \/ /\ eng[r].status \in EngTerminal \cup {"pending"}
        /\ NoEngFault
        /\ UNCHANGED <<eng, vol, engAlarm, watchdog>>
     \/ eng[r].status \notin EngTerminal \cup {"pending"} /\ Finish(r, eng[r], "cancelled")
  /\ UNCHANGED <<plan, accepted>>

---------------------------------------------------------------------------
(* The runtime around the run *)

FireTimer(r) ==
  /\ vol[r].up /\ vol[r].timer # 0
  /\ vol' = [vol EXCEPT ![r].timer = 0,
                        ![r].ticks = @ \cup {[t |-> "wake", token |-> vol[r].timer]}]
  /\ UNCHANGED <<plan, eng, engAlarm, watchdog, wires, accepted, engFaults>>

\* a reminder is deleted before it is dispatched
FireReminder(r) ==
  /\ engAlarm[r] # 0
  /\ engAlarm' = [engAlarm EXCEPT ![r] = 0]
  /\ wires' = wires \cup {[m |-> "wake", to |-> r, from |-> Nobody, token |-> engAlarm[r]]}
  /\ UNCHANGED <<plan, eng, vol, watchdog, accepted, engFaults>>

\* the periodic one stays armed
FireWatchdog(r) ==
  /\ watchdog[r]
  /\ wires' = wires \cup {Wire("check", r, Nobody)}
  /\ wires' # wires
  /\ UNCHANGED <<plan, eng, vol, engAlarm, watchdog, accepted, engFaults>>

\* a call or a reminder finds no activation: one is built from the saved state
EngActivate(r) ==
  /\ ~vol[r].up
  /\ \E c \in wires : c.to = r
  /\ vol' = [vol EXCEPT ![r] = Fresh(r)]
  /\ UNCHANGED <<plan, eng, engAlarm, watchdog, wires, accepted, engFaults>>

\* the activation goes: its timers, ticks and turn with it; the calls it made
\* stay on the wire with nobody to answer to
Orphaned(r) == {IF c.m = "childDone" /\ c.from = r
                THEN [c EXCEPT !.m = "childDone-orphan"] ELSE c : c \in wires}

\* ctx.deactivate(), or an idle activation evicted
Leave(r) ==
  /\ vol[r].up /\ vol[r].pc = "idle"
  /\ vol[r].leave \/ (vol[r].timer = 0 /\ vol[r].ticks = {})
  /\ vol' = [vol EXCEPT ![r] = Absent]
  /\ wires' = Orphaned(r)
  /\ UNCHANGED <<plan, eng, engAlarm, watchdog, accepted, engFaults>>

Crash(r) ==
  /\ vol[r].up
  /\ Fault
  /\ vol' = [vol EXCEPT ![r] = Absent]
  /\ wires' = Orphaned(r)
  /\ UNCHANGED <<plan, eng, engAlarm, watchdog, accepted>>

\* a detached call or a reminder's dispatch that never lands
LoseCall ==
  /\ Fault
  /\ \E c \in {d \in wires : d.from # Nobody \/ d.m = "wake"} : wires' = wires \ {c}
  /\ UNCHANGED <<plan, eng, vol, engAlarm, watchdog, accepted>>

\* a client signals, touches or cancels a run
Outside(r) ==
  /\ Fault
  /\ \E m \in {"signal", "status", "cancel"} :
       /\ Wire(m, r, Nobody) \notin wires
       /\ wires' = wires \cup {Wire(m, r, Nobody)}
  /\ UNCHANGED <<plan, eng, vol, engAlarm, watchdog, accepted>>

EngNext ==
  \/ LoseCall
  \/ \E r \in Runs :
       \/ ResolveJoin(r) \/ ResolveWait(r) \/ ResolveSleep(r) \/ DriveEnds(r)
       \/ ExecuteLocal(r) \/ ExecuteWork(r) \/ WorkDone(r) \/ ExecuteChildren(r)
       \/ Spawn(r) \/ Watch(r) \/ Arm(r) \/ Finished(r) \/ Poke(r) \/ Throws(r)
       \/ EngTick(r) \/ EngWakeTick(r) \/ ReminderTurn(r) \/ JoinCheckTurn(r)
       \/ ActivateTick(r) \/ StatusTurn(r) \/ StartTurn(r) \/ SignalTurn(r)
       \/ ChildDoneTurn(r) \/ NotifiedTick(r) \/ CancelTurn(r)
       \/ FireTimer(r) \/ FireReminder(r) \/ FireWatchdog(r) \/ EngActivate(r)
       \/ Leave(r) \/ Crash(r) \/ Outside(r)

EngSpec == EngInit /\ [][EngNext]_engVars

---------------------------------------------------------------------------
(* Properties *)

EngTypeOK ==
  /\ \A r \in Runs :
       /\ eng[r].status \in EngTerminal \cup Going \cup {"pending"}
       /\ eng[r].wake.token \in 0..MaxSeq /\ eng[r].seq \in 0..MaxSeq
       /\ eng[r].join => eng[r].status \in EngTerminal \cup {"blocked"}
       /\ eng[r].status = "blocked" => eng[r].join
       /\ vol[r].up \/ vol[r] = Absent
       /\ vol[r].handle => vol[r].up
       /\ engAlarm[r] \in 0..eng[r].seq
       /\ eng[r].status \in EngTerminal => eng[r].wake.reason \in {"none", "notify-retry"}
  /\ \A c \in wires : c.to \in Runs
  /\ engFaults \in 0..EngBudget[plan]

\* A run saved as waiting or sleeping has the wake that ends it in the same
\* saved state, whatever host death, lost tick or racing signal came before: no
\* normal transition writes a parked run without one.
ParkedHasItsWake ==
  \A r \in Runs : eng[r].status \in {"waiting", "sleeping"} => eng[r].wake # NoEngWake

\* A resident run that is parked, with no turn, tick or call of its own to
\* come, is armed: the timer of its current wake runs, or a durable wake covers
\* it.  A finished child whose parent has not confirmed is held to the same.
ResidentIsArmed ==
  \A r \in Runs :
    EngIdle(r) /\ vol[r].ticks = {} /\ eng[r].wake # NoEngWake /\ eng[r].wake.kind # "reminder"
      => vol[r].timer = eng[r].wake.token

\* A parent only takes a verdict that its child has saved: a child marked done
\* has completed for good, one marked failed has ended otherwise.
VerdictIsSaved ==
  \A r \in Runs : \A k \in KidsOf[r] :
    /\ eng[r].kids[k] = "done" => eng[k].status = "completed"
    /\ eng[r].kids[k] = "failed" => eng[k].status \in EngTerminal \ {"completed"}

\* A join is passed by the run only when no child of it is still under way.
JoinWaitsForAll ==
  \A r \in Runs :
    ~eng[r].join => KidsIn(eng[r], "running") = {}

\* A signal whose call was answered accepted is in the saved inbox or has been
\* delivered, across host deaths.
SignalKept ==
  \A r \in Runs : accepted[r] = eng[r].inbox + eng[r].got

\* A terminal status is never replaced: not by a late wake, a throw after the
\* final save, a cancel or a second start.
TerminalStands ==
  [][\A r \in Runs : eng[r].status \in EngTerminal => eng'[r].status = eng[r].status]_engVars

\* run.actor.ts:384-387: a reminder that fires late carries the old token and is
\* discarded as stale.
LateWakeDiscarded ==
  [][\A c \in wires \ wires' :
       c.m = "wake" /\ eng[c.to].wake.token # c.token => eng'[c.to].wake = eng[c.to].wake]_engVars

\* run.actor.ts:554-559: a crash between the save and the starts leaves records
\* the join watchdog can repair.
UnstartedIsWatched ==
  \A r \in Runs : \A k \in KidsOf[r] :
    eng[r].kids[k] = "running" /\ eng[k].status = "pending" /\ eng[r].join
      => \/ watchdog[r] \/ vol[r].pc \in {"spawn", "watch"}
         \/ \E c \in wires : c.to = k /\ c.m = "start"

\* run.actor.ts:334-338: if the host dies with a notify-retry, the parent's join
\* watchdog touches the child, and the touch re-arms it.
TouchTellsParent ==
  \A r \in Runs :
    eng[r].notify = "pending" /\ vol[r].pc # "finished" => eng[r].wake # NoEngWake

====
