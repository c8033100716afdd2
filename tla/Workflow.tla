------------------------------ MODULE Workflow ------------------------------
(***************************************************************************)
(* One run of the workflow engine (packages/actors-workflow): an actor     *)
(* whose state is the fold of a log, moved along a definition's nodes by   *)
(* timer ticks, reminder ticks and touches.  An append changes the state   *)
(* in memory at once and reaches storage in order; the caller goes on when *)
(* it has landed.  What an overdue touch starts is not awaited by its turn *)
(* ("recover"), so it runs beside the turns that follow: thread 0 is the   *)
(* lane of turns, the others are such loose continuations.                 *)
(***************************************************************************)
EXTENDS Integers, Sequences

CONSTANTS
    WfPlan,        \* the definition: its nodes' kinds, each followed by the next
    MaxTries,      \* a task's retry.maxAttempts
    ShortMs,       \* a delay, and a backoff, below timerThresholdMs
    LongMs,        \* a delay at or above it
    MaxWfClock, MaxTouches, MaxLoose, MaxWfFaults

ASSUME WfAssumption ==
    /\ WfPlan \in Seq({"task", "short", "long", "branch", "end"})
    /\ MaxTries \in Nat \ {0} /\ ShortMs \in Nat /\ LongMs \in Nat
    /\ MaxWfClock \in Nat /\ MaxTouches \in Nat /\ MaxLoose \in Nat /\ MaxWfFaults \in Nat

VARIABLES
    wfMem,         \* the folded state of the live activation
    wfDisk,        \* the fold of what storage holds
    wfUp,          \* an activation exists
    wfArmed,       \* armedSeq
    wfAdvance,     \* the 'advance' timer is armed
    wfLetGo,       \* ctx.deactivate() was asked for
    wfTimer,       \* the 'wake' timer: its seq (0: none) and when it is due
    wfReminder,    \* when the REMINDER_WAKE reminder is due, or -1
    wfThread,      \* what each thread awaits
    wfQueue,       \* appends and saves on their way to storage, in order
    wfClock, wfTouches, wfFaults

workflowVars == <<wfMem, wfDisk, wfUp, wfArmed, wfAdvance, wfLetGo, wfTimer, wfReminder,
                  wfThread, wfQueue, wfClock, wfTouches, wfFaults>>

WfThreads == 0..MaxLoose
Cursors == 0..Len(WfPlan)
AfterNull == -1                       \* a backoff: run the node again
NoWake == [until |-> 0, seq |-> 0, durable |-> FALSE, after |-> 0]
NoTimer == [seq |-> 0, at |-> 0]
Ended(s) == s.status \in {"completed", "failed"}
Started(s) == s.cursor # 0

EmptyRun == [status |-> "running", cursor |-> 0, attempt |-> 0, wake |-> NoWake, seq |-> 0]

\* A move begins a visit of its node: no attempt and no wake of the last one stays.
Moved(s, e) ==
    [s EXCEPT !.cursor = e.to, !.seq = e.seq, !.attempt = 0, !.wake = NoWake, !.status = "running"]

\* applyRunEntry; the start and vars entries touch nothing that is modelled.
ApplyRunEntry(s, e) ==
    CASE e.t = "move"    -> Moved(s, e)
      [] e.t = "attempt" -> [s EXCEPT !.attempt = e.n]
      [] e.t = "sleep"   -> [s EXCEPT !.status = "sleeping", !.seq = e.wake.seq, !.wake = e.wake]
      [] e.t = "wake"    -> IF s.wake.seq = e.seq /\ e.seq # 0
                            THEN [s EXCEPT !.wake = NoWake, !.status = "running"] ELSE s
      [] e.t = "end"     -> [s EXCEPT !.status = e.status, !.wake = NoWake]
      [] OTHER           -> s

WfIdle == [k |-> "idle", n |-> 0, arg |-> 0]
\* "n" is the attempt whose try block the thread is in, or 0.
WfAwait(k, n, arg) == [k |-> k, n |-> n, arg |-> arg]

(***************************************************************************)
(* What a thread does up to its next await.  A move is a record of the     *)
(* parts it changes; Step applies it.                                      *)
(***************************************************************************)
Here == [mem |-> wfMem, adv |-> wfAdvance, timer |-> wfTimer, armed |-> wfArmed,
         go |-> wfLetGo, thread |-> WfIdle, out |-> <<>>]

Append1(h, e, next) ==
    [h EXCEPT !.mem = ApplyRunEntry(h.mem, e), !.out = <<e>>, !.thread = next]

ArmAdvance(h) == [h EXCEPT !.adv = TRUE, !.thread = WfIdle]
ClearWake(h) == [h EXCEPT !.timer = NoTimer]

Sleep(h, ms, after) ==
    LET w == [until |-> wfClock + ms, seq |-> h.mem.seq + 1, durable |-> ms >= LongMs, after |-> after]
    IN Append1(h, [t |-> "sleep", wake |-> w], WfAwait("slept", 0, w))

WfFinish(h, status, n) ==
    Append1(ClearWake(h), [t |-> "end", status |-> status], WfAwait("ended", n, 0))

MoveTo(h, next, n) ==
    IF next = 0 THEN WfFinish(h, "completed", n)
    ELSE Append1(ClearWake(h), [t |-> "move", to |-> next, seq |-> h.mem.seq], WfAwait("moved", n, 0))

Wake(h, seq) ==
    IF h.mem.wake.seq # seq \/ seq = 0 THEN h
    ELSE Append1(ClearWake(h), [t |-> "wake", seq |-> seq], WfAwait("woke", 0, h.mem.wake.after))

Successor(c) == IF c < Len(WfPlan) THEN c + 1 ELSE 0

RunTaskFirst(h) == [h EXCEPT !.thread = WfAwait("handler", h.mem.attempt + 1, 0)]
\* The attempt is logged, ahead of the try block, and only then the handler runs.
RunTask(h) ==
    Append1(h, [t |-> "attempt", n |-> h.mem.attempt + 1],
            WfAwait("attempted", 0, h.mem.attempt + 1))

\* The successors of one advance; a branch goes to either side.
AdvanceCursor(h) ==
    IF h.mem.status # "running" \/ ~Started(h.mem) THEN {h}
    ELSE LET c == h.mem.cursor IN
         CASE WfPlan[c] = "task"   -> {RunTask(h)}
           [] WfPlan[c] = "short"  -> {Sleep(h, ShortMs, Successor(c))}
           [] WfPlan[c] = "long"   -> {Sleep(h, LongMs, Successor(c))}
           [] WfPlan[c] = "branch" -> {MoveTo(h, Successor(c), 0), MoveTo(h, Len(WfPlan), 0)}
           [] WfPlan[c] = "end"    -> {WfFinish(h, "completed", 0)}

\* The catch of runTask; outside its try block an error ends the thread.
Caught(h, n) ==
    IF n = 0 THEN [h EXCEPT !.thread = WfIdle]
    ELSE IF n >= MaxTries THEN WfFinish(h, "failed", 0)
    ELSE Sleep(h, ShortMs, AfterNull)

\* What follows an append that has landed, by what the thread awaited.
Landed(h, w) ==
    CASE w.k = "slept" ->
            LET g == [ClearWake(h) EXCEPT !.armed = w.arg.seq] IN
            IF w.arg.durable
            THEN [g EXCEPT !.thread = WfAwait("remind", 0, LongMs)]
            ELSE [g EXCEPT !.timer = [seq |-> w.arg.seq, at |-> w.arg.until], !.thread = WfIdle]
      [] w.k = "woke"   -> IF w.arg = AfterNull THEN ArmAdvance(h) ELSE MoveTo(h, w.arg, 0)
      [] w.k = "moved"  -> ArmAdvance(h)
      [] w.k = "attempted" -> [h EXCEPT !.thread = WfAwait("handler", w.arg, 0)]
      [] w.k = "assigned"  -> MoveTo(h, Successor(h.mem.cursor), w.n)
      [] w.k = "ended"  -> [h EXCEPT !.thread = WfAwait("saved", w.n, 0), !.out = <<[t |-> "save"]>>]
      [] w.k = "saved"  -> [h EXCEPT !.thread = WfIdle]
      [] w.k = "started" -> Append1(h, [t |-> "move", to |-> 1, seq |-> h.mem.seq], WfAwait("moved", 0, 0))

-----------------------------------------------------------------------------
Owned(q, th) == [i \in 1..Len(q) |-> [e |-> q[i], th |-> th]]

\* WfCommit the parts of a move: thread th now awaits h.thread.
WfCommit(h, th, queue) ==
    /\ wfMem' = h.mem /\ wfAdvance' = h.adv /\ wfTimer' = h.timer /\ wfArmed' = h.armed
    /\ wfLetGo' = h.go
    /\ wfThread' = [wfThread EXCEPT ![th] = h.thread]
    /\ wfQueue' = queue \o Owned(h.out, th)

LaneFree == wfUp /\ wfThread[0] = WfIdle
\* Where what a nudge leaves running goes: a loose thread, none when it awaits nothing.
LooseFor(h) == {th \in WfThreads : wfThread[th] = WfIdle /\ (th # 0 \/ h.thread = WfIdle)}

\* What a nudge does: wake what is overdue or re-arm what this activation has not, on a
\* thread of its own, else arm the advance.
Nudge(h) ==
    LET w == h.mem.wake IN
    IF Ended(h.mem) THEN h
    ELSE IF w.seq = 0 THEN [ArmAdvance(h) EXCEPT !.thread = WfIdle]
    ELSE IF w.until <= wfClock THEN Wake(h, w.seq)
    ELSE IF h.armed = w.seq THEN h
    ELSE IF w.durable THEN [h EXCEPT !.armed = w.seq, !.go = TRUE,
                                     !.thread = WfAwait("remind", 0, w.until - wfClock)]
    ELSE [h EXCEPT !.armed = w.seq, !.timer = [seq |-> w.seq, at |-> w.until]]

WfInit ==
    /\ wfMem = EmptyRun /\ wfDisk = EmptyRun
    /\ wfUp = FALSE /\ wfArmed = -1 /\ wfAdvance = FALSE /\ wfTimer = NoTimer
    /\ wfLetGo = FALSE
    /\ wfReminder = -1 /\ wfThread = [th \in WfThreads |-> WfIdle] /\ wfQueue = <<>>
    /\ wfClock = 0 /\ wfTouches = 0 /\ wfFaults = 0

\* A call or a reminder tick activates the run: the log is folded and onActivate nudges.
WfActivate ==
    /\ ~wfUp /\ wfQueue = <<>> /\ wfUp' = TRUE
    /\ \/ wfTouches < MaxTouches
       \/ wfReminder # -1 /\ wfReminder <= wfClock
    /\ LET h == Nudge([Here EXCEPT !.mem = wfDisk, !.adv = FALSE, !.timer = NoTimer, !.armed = -1,
                                     !.go = FALSE])
       IN \E th \in LooseFor(h) : WfCommit(h, th, wfQueue)
    /\ UNCHANGED <<wfDisk, wfReminder, wfClock, wfTouches, wfFaults>>

\* start(): a no-op on a run that has been started.
WfStart ==
    /\ LaneFree /\ wfTouches < MaxTouches /\ wfTouches' = wfTouches + 1
    /\ wfMem.status = "running" /\ ~Started(wfMem)
    /\ WfCommit(Append1(Here, [t |-> "start"], WfAwait("started", 0, 0)), 0, wfQueue)
    /\ UNCHANGED <<wfDisk, wfUp, wfReminder, wfClock, wfFaults>>

\* status() nudges and returns.
WfStatus ==
    /\ LaneFree /\ wfTouches < MaxTouches /\ wfTouches' = wfTouches + 1
    /\ \E th \in LooseFor(Nudge(Here)) : WfCommit(Nudge(Here), th, wfQueue)
    /\ UNCHANGED <<wfDisk, wfUp, wfReminder, wfClock, wfFaults>>

AdvanceTick ==
    /\ LaneFree /\ wfAdvance
    /\ \E h \in AdvanceCursor([Here EXCEPT !.adv = FALSE]) : WfCommit(h, 0, wfQueue)
    /\ UNCHANGED <<wfDisk, wfUp, wfReminder, wfClock, wfTouches, wfFaults>>

WakeTick ==
    /\ LaneFree /\ wfTimer.seq # 0 /\ wfTimer.at <= wfClock
    /\ WfCommit(Wake([Here EXCEPT !.timer = NoTimer], wfTimer.seq), 0, wfQueue)
    /\ UNCHANGED <<wfDisk, wfUp, wfReminder, wfClock, wfTouches, wfFaults>>

\* onReminder: wake the sleep the state holds, whichever it is, or nudge.  The reminder
\* was set a whole LongMs ahead: no queue keeps an activation that asked to be let go busy
\* until then.
OnReminder ==
    /\ LaneFree /\ ~wfLetGo /\ wfReminder # -1 /\ wfReminder <= wfClock /\ wfReminder' = -1
    /\ IF wfMem.wake.seq # 0 THEN WfCommit(Wake(Here, wfMem.wake.seq), 0, wfQueue)
       ELSE \E th \in LooseFor(Nudge(Here)) : WfCommit(Nudge(Here), th, wfQueue)
    /\ UNCHANGED <<wfDisk, wfUp, wfClock, wfTouches, wfFaults>>

\* The head of the storage queue lands, and its owner runs to its next await.
Land ==
    /\ wfQueue # <<>>
    /\ LET q == Head(wfQueue) IN
         /\ wfDisk' = IF q.e.t = "save" THEN wfMem ELSE ApplyRunEntry(wfDisk, q.e)
         /\ WfCommit(Landed(Here, wfThread[q.th]), q.th, Tail(wfQueue))
    /\ UNCHANGED <<wfUp, wfReminder, wfClock, wfTouches, wfFaults>>

\* It fails: what it folded stays in memory, its owner's error goes to the catch of
\* runTask, or ends the turn when it was met outside.
FailLand ==
    /\ wfQueue # <<>> /\ wfFaults < MaxWfFaults /\ wfFaults' = wfFaults + 1
    /\ LET q == Head(wfQueue) IN
         WfCommit(Caught(Here, wfThread[q.th].n), q.th, Tail(wfQueue))
    /\ UNCHANGED <<wfDisk, wfUp, wfReminder, wfClock, wfTouches>>

\* The handler answers or throws.
HandlerReturns ==
    /\ wfUp /\ wfThread[0].k = "handler"
    /\ \/ WfCommit(Append1(Here, [t |-> "vars"], WfAwait("assigned", wfThread[0].n, 0)), 0, wfQueue)
       \/ WfCommit(Caught(Here, wfThread[0].n), 0, wfQueue)
    /\ UNCHANGED <<wfDisk, wfUp, wfReminder, wfClock, wfTouches, wfFaults>>

\* The activation is gone, with its timers and what it had not written.
Dropped ==
    /\ wfUp' = FALSE /\ wfMem' = wfDisk /\ wfArmed' = -1 /\ wfAdvance' = FALSE
    /\ wfLetGo' = FALSE /\ wfTimer' = NoTimer

\* reminders.set of a durable sleep; the turn that slept then asks to be let go.
RemindLands(th) ==
    /\ wfThread[th].k = "remind"
    /\ wfReminder' = wfClock + wfThread[th].arg
    /\ wfThread' = [wfThread EXCEPT ![th] = WfIdle]
    /\ wfLetGo' = (wfLetGo \/ (wfUp /\ th = 0))
    /\ UNCHANGED <<wfMem, wfDisk, wfUp, wfArmed, wfAdvance, wfTimer, wfQueue, wfClock, wfTouches, wfFaults>>

RemindFails(th) ==
    /\ wfThread[th].k = "remind" /\ wfFaults < MaxWfFaults /\ wfFaults' = wfFaults + 1
    /\ wfThread' = [wfThread EXCEPT ![th] = WfIdle]
    /\ UNCHANGED <<wfMem, wfDisk, wfUp, wfArmed, wfAdvance, wfLetGo, wfTimer, wfReminder, wfQueue,
                   wfClock, wfTouches>>

\* ctx.deactivate() takes effect once the lane is empty and what was appended has landed.
WfDeactivate ==
    /\ LaneFree /\ wfLetGo /\ wfQueue = <<>>
    /\ Dropped
    /\ UNCHANGED <<wfDisk, wfReminder, wfThread, wfQueue, wfClock, wfTouches, wfFaults>>

WfCrash ==
    /\ wfUp /\ wfFaults < MaxWfFaults /\ wfFaults' = wfFaults + 1
    /\ Dropped
    /\ wfThread' = [th \in WfThreads |-> WfIdle] /\ wfQueue' = <<>>
    /\ UNCHANGED <<wfDisk, wfReminder, wfClock, wfTouches>>

\* A turn that asked to be let go is followed by the turns already queued, not by time.
WfTime ==
    /\ wfClock < MaxWfClock /\ wfClock' = wfClock + 1
    /\ ~(LaneFree /\ wfLetGo)
    /\ UNCHANGED <<wfMem, wfDisk, wfUp, wfArmed, wfAdvance, wfLetGo, wfTimer, wfReminder, wfThread,
                   wfQueue, wfTouches, wfFaults>>

WfNext ==
    \/ WfActivate \/ WfStart \/ WfStatus \/ AdvanceTick \/ WakeTick \/ OnReminder
    \/ Land \/ FailLand \/ HandlerReturns \/ WfDeactivate \/ WfCrash \/ WfTime
    \/ \E th \in WfThreads : RemindLands(th) \/ RemindFails(th)

WfSpec == WfInit /\ [][WfNext]_workflowVars

-----------------------------------------------------------------------------
\* The types of the run's state and of what holds it.
WfStates ==
    [status : {"running", "sleeping", "completed", "failed"}, cursor : Cursors, attempt : Nat,
     wake : [until : Nat, seq : Nat, durable : BOOLEAN, after : Cursors \cup {AfterNull}], seq : Nat]

WfTypeOK ==
    /\ wfMem \in WfStates /\ wfDisk \in WfStates
    /\ \A s \in {wfMem, wfDisk} : s.status = "sleeping" <=> s.wake # NoWake
    /\ wfReminder \in -1..(MaxWfClock + LongMs)
    /\ \A th \in WfThreads : wfThread[th].k \notin {"idle", "handler", "remind"} <=>
                               \E i \in 1..Len(wfQueue) : wfQueue[i].th = th

\* A started run always has something that will move it on, and needs no touch: while its
\* activation lives an advance, a wake timer of its sleep, or the reminder; once let go, the
\* reminder.  Crashes and failed writes excepted: those are recovered by a touch.
NeverStranded ==
    (wfFaults = 0 /\ Started(wfDisk) /\ ~Ended(wfMem) /\ wfQueue = <<>>
        /\ \A th \in WfThreads : wfThread[th] = WfIdle)
    => IF wfUp THEN \/ wfAdvance
                    \/ wfTimer.seq # 0 /\ wfTimer.seq = wfMem.wake.seq
                    \/ wfReminder # -1
       ELSE wfReminder # -1

\* An attempt is in the log, at its node, before its handler runs, so no crash makes a run
\* forget that it called a handler.  (A failed append excepted: see TerminalSticks.)
LoggedBeforeRun ==
    (wfUp /\ wfThread[0].k = "handler") =>
        \/ wfDisk.cursor = wfMem.cursor /\ wfDisk.attempt = wfThread[0].n
        \/ wfFaults > 0

\* "Re-arming when nothing was owed is harmless": while the wake of a delay is on its way
\* the run does not begin that delay again.
DelayOnce ==
    \A th \in WfThreads :
        (wfThread[th].k = "woke" /\ wfThread[th].arg # AfterNull) => wfMem.status # "sleeping"

\* "A wake whose token is not this one is stale and ignored": a sleep ends when it is due.
SleepHonoured ==
    [][(wfUp /\ wfUp' /\ wfMem.status = "sleeping" /\ wfMem'.status = "running"
            /\ wfMem'.cursor = wfMem.cursor) => wfClock >= wfMem.wake.until]_workflowVars

\* "Terminal.": once a run has ended its status stands.
TerminalSticks ==
    [][(wfUp /\ wfUp' /\ Ended(wfMem)) => wfMem'.status = wfMem.status]_workflowVars
=============================================================================
