--------------------------- MODULE ScheduleProofs ----------------------------
(***************************************************************************)
(* Two components of the schedule group, for every value of their          *)
(* constants: the durable job (Jobs) and the rig's workflow engine         *)
(* (RunEngine).  Each has an inductive invariant, kept by every one of its *)
(* actions; the group's variable focus lets one component move at a time.  *)
(***************************************************************************)
EXTENDS MCSchedule, TLAPS

------------------------------------------------------------------------------
(* A job.  Its verdict is on disk before anything announces it, and from   *)
(* then on the job in memory carries it too, until a discard: the only     *)
(* turns that could still write are those that write the same verdict.     *)

JobRecs == [status : JobStatus, attempts : Nat, ckpt : Nat]
JobSteps == {"none", "save", "clear", "launch", "track", "retain", "settled", "revert", "done"}
JobOps == {"none", "start", "resume", "discard", "first", "checkpoint", "paused"} \cup Terminal
JobRuns == [stage : {"none", "reserved", "boot", "body", "returned", "turn", "ending"}, attempt : Nat,
            abort : {"no", "cancelled", "stop"}]

JobShape ==
  /\ disk \in JobRecs /\ job \in JobRecs
  /\ turn \in [op : JobOps, step : JobSteps, prior : JobRecs]
  /\ run \in JobRuns /\ up \in {"down", "up", "closing"}
  /\ ackedCkpt \in Nat

DownIsIdle == up = "down" => turn = NoTurn

VerdictHeld == disk.status \in Terminal /\ up # "down" =>
  job.status = disk.status /\ turn.step \notin {"save", "launch", "track", "revert"}

LaunchesRun ==
  /\ turn.step = "save" /\ turn.op \in {"start", "resume"} => job.status = "running"
  /\ turn.step \in {"launch", "track", "revert"} => disk.status = "running"
  /\ turn.step \in {"retain", "settled"} => turn.op \in Terminal

CkptKept ==
  /\ ackedCkpt <= disk.ckpt
  /\ up # "down" => ackedCkpt <= job.ckpt
  /\ turn.step # "none" => ackedCkpt <= turn.prior.ckpt
  /\ turn.step = "done" /\ turn.op \in {"checkpoint", "paused"} => disk.ckpt = job.ckpt

JobInv == JobShape /\ DownIsIdle /\ VerdictHeld /\ LaunchesRun /\ CkptKept

VerdictMove ==
  /\ disk.status \in Terminal /\ disk' # FreshJob => disk'.status = disk.status
  /\ disk' # FreshJob => disk'.ckpt >= ackedCkpt

LEMMA JobInitially == JobInit => JobInv
BY DEF JobInit, JobInv, JobShape, DownIsIdle, VerdictHeld, LaunchesRun, CkptKept, JobRecs,
  FreshJob, NoTurn, NoRun, JobStatus, Terminal, JobOps, JobSteps, JobRuns

LEMMA JobStep == JobInv /\ JobNext => JobInv' /\ VerdictMove
<1> SUFFICES ASSUME JobInv, JobNext PROVE JobInv' /\ VerdictMove
  OBVIOUS
<1> USE DEF JobInv, JobShape, DownIsIdle, VerdictHeld, LaunchesRun, CkptKept, JobRecs,
  FreshJob, NoTurn, NoRun, JobStatus, Terminal, JobOps, JobSteps, JobRuns, VerdictMove, Idle,
  JobOpen, BeginTurn, RunTurn, IsFinish, AfterSave, BodyMayWrite, TakenBackTo, Greater
<1>1. CASE Start
  BY <1>1 DEF Start
<1>2. CASE Resume
  BY <1>2 DEF Resume
<1>3. CASE Cancel
  BY <1>3 DEF Cancel
<1>4. CASE ClearState
  BY <1>4 DEF ClearState
<1>5. CASE Save
  <2> USE <1>5 DEF Save
  <2>1. turn.step = "save" /\ disk' = job /\ job' = job /\ up # "down" /\ ackedCkpt' = ackedCkpt
    OBVIOUS
  <2>2. /\ turn'.op = turn.op /\ turn'.prior = turn.prior /\ turn' \in [op : JobOps, step : JobSteps, prior : JobRecs]
        /\ turn'.step \in {"launch", "retain", "settled", "done"}
        /\ turn'.step = "launch" => turn.op \in {"start", "resume"}
    OBVIOUS
  <2>3. JobInv' BY <2>1, <2>2
  <2>4. VerdictMove BY <2>1
  <2> QED BY <2>3, <2>4
<1>6. CASE SaveFails
  BY <1>6 DEF SaveFails
<1>7. CASE ArmRetention
  BY <1>7 DEF ArmRetention
<1>8. CASE Settled
  BY <1>8 DEF Settled
<1>9. CASE Launch
  <2> USE <1>9 DEF Launch
  <2>1. /\ turn.step = "launch" /\ turn' = [turn EXCEPT !.step = "track"]
        /\ UNCHANGED <<disk, job, up, ackedCkpt>> /\ up # "down" /\ run' \in JobRuns
    OBVIOUS
  <2>2. JobInv' BY <2>1
  <2>3. VerdictMove BY <2>1
  <2> QED BY <2>2, <2>3
<1>10. CASE LaunchFails
  <2> USE <1>10 DEF LaunchFails
  <2>1. /\ turn.step \in {"launch", "track"} /\ job' = TakenBackTo(turn.prior) /\ up # "down"
        /\ turn' = [turn EXCEPT !.step = "revert", !.prior = job]
        /\ UNCHANGED <<disk, up, ackedCkpt>> /\ run' \in JobRuns
    OBVIOUS
  <2>2. job' \in JobRecs /\ job'.ckpt = turn.prior.ckpt /\ disk.status = "running"
    BY <2>1
  <2>3. turn' \in [op : JobOps, step : JobSteps, prior : JobRecs]
    BY <2>1
  <2>4. JobInv' BY <2>1, <2>2, <2>3
  <2>5. VerdictMove BY <2>1
  <2> QED BY <2>4, <2>5
<1>11. CASE Revert
  BY <1>11 DEF Revert
<1>12. CASE EndTurn
  <2> USE <1>12 DEF EndTurn
  <2>1. /\ turn.step = "done" /\ turn' = NoTurn /\ UNCHANGED <<disk, job, up>> /\ up # "down"
        /\ ackedCkpt' = IF turn.op \in {"checkpoint", "paused"} THEN job.ckpt ELSE ackedCkpt
    OBVIOUS
  <2>2. run' \in JobRuns
    OBVIOUS
  <2>3. JobInv' BY <2>1, <2>2
  <2>4. VerdictMove BY <2>1
  <2> QED BY <2>3, <2>4
<1>13. CASE FirstTurn
  <2> USE <1>13 DEF FirstTurn
  <2>1. /\ Idle /\ up # "down" /\ job.status = "running" /\ UNCHANGED <<disk, up, ackedCkpt>>
        /\ turn'.prior = job /\ run' = [run EXCEPT !.stage = "turn"]
    OBVIOUS
  <2>2. Greater(job.attempts, run.attempt) \in Nat
    OBVIOUS
  <2>3. /\ job' \in JobRecs /\ job'.ckpt = job.ckpt
        /\ turn' \in [op : JobOps, step : JobSteps, prior : JobRecs]
        /\ turn'.op \in {"failed", "first"} /\ turn'.step \in {"save", "done"}
    <3> DEFINE n == Greater(job.attempts, run.attempt)
    <3>1. CASE n > MaxAttempts
      <4>1. turn' = [op |-> "failed", step |-> "save", prior |-> job]
            /\ job' = [job EXCEPT !.status = "failed", !.attempts = n]
        BY <3>1
      <4> QED BY <4>1, <2>2
    <3>2. CASE ~(n > MaxAttempts)
      <4>1. /\ turn' = [op |-> "first", step |-> IF run.attempt > 1 THEN "save" ELSE "done", prior |-> job]
            /\ job' = [job EXCEPT !.attempts = n]
        BY <3>2
      <4> QED BY <4>1, <2>2
    <3> QED BY <3>1, <3>2
  <2>4. JobInv' BY <2>1, <2>3
  <2>5. VerdictMove BY <2>1
  <2> QED BY <2>4, <2>5
<1>14. CASE Refused
  BY <1>14 DEF Refused
<1>15. CASE Checkpoint
  BY <1>15 DEF Checkpoint
<1>16. CASE Pause
  BY <1>16 DEF Pause
<1>17. CASE WindDown
  BY <1>17 DEF WindDown
<1>18. CASE Release
  BY <1>18 DEF Release
<1>19. CASE ActivateJob
  BY <1>19 DEF ActivateJob
<1>20. CASE CloseJob
  BY <1>20 DEF CloseJob
<1>21. CASE DeactivateJob
  BY <1>21 DEF DeactivateJob
<1>22. CASE CrashJob
  BY <1>22 DEF CrashJob
<1>23. CASE Track
  <2> USE <1>23 DEF Track
  <2>1. /\ turn.step = "track" /\ turn' = NoTurn /\ UNCHANGED <<disk, job, up, ackedCkpt>> /\ up # "down"
        /\ run' \in JobRuns
    OBVIOUS
  <2>2. JobInv' BY <2>1
  <2>3. VerdictMove BY <2>1
  <2> QED BY <2>2, <2>3
<1>24. CASE BodyReturns
  BY <1>24 DEF BodyReturns
<1>30. CASE \E b \in BOOLEAN : Discard(b)
  BY <1>30 DEF Discard
<1>31. CASE \E v \in {"completed", "failed"} : Outcome(v)
  BY <1>31 DEF Outcome
<1> QED BY <1>1, <1>2, <1>3, <1>4, <1>5, <1>6, <1>7, <1>8, <1>9, <1>10, <1>11, <1>12, <1>13,
           <1>14, <1>15, <1>16, <1>17, <1>18, <1>19, <1>20, <1>21, <1>22, <1>23, <1>24, <1>30,
           <1>31 DEF JobNext

------------------------------------------------------------------------------
(* A run of the engine.  The record of a run is well formed when the wake  *)
(* it holds is the one its status calls for; the activation when it rings  *)
(* for that wake.  Every action but childDone() touches one run, so it is  *)
(* enough to show those two things of that run (LocalStep, LocalKeeps).    *)

EngStatus == EngTerminal \cup Going \cup {"pending"}
EngFields == {"status", "cursor", "seq", "wake", "done", "stack", "kids", "join", "inbox",
              "got", "tries", "notify"}
EngWakes == [token : Nat, reason : {"none", "delay", "retry", "signal-timeout", "notify-retry"},
             kind : {"none", "timer", "reminder", "timer-fallback"}]
EngTicks == [t : {"activate", "wake", "advance", "notified"}, token : Nat]
EngVols == [up : BOOLEAN, pc : {"idle", "drive", "work", "spawn", "watch", "arm", "finished", "poke"},
            timer : Nat, handle : BOOLEAN, ticks : SUBSET EngTicks, leave : BOOLEAN]

\* The wake on record is the one the status calls for.
WakeFits(e) ==
  /\ e.status \in {"pending", "running", "compensating", "blocked"} => e.wake = NoEngWake
  /\ e.status = "waiting" => e.wake.reason = "signal-timeout"
  /\ e.status = "sleeping" => e.wake.reason \in {"delay", "retry"}
  /\ e.status \in EngTerminal => e.wake.reason \in {"none", "notify-retry"}
  /\ e.wake.reason = "notify-retry" => e.notify = "pending"

JoinFits(e) ==
  /\ e.join => e.status \in EngTerminal \cup {"blocked"}
  /\ e.status = "blocked" => e.join
  /\ ~e.join => KidsIn(e, "running") = {}

RecShape(r, e) ==
  /\ DOMAIN e = EngFields /\ e.status \in EngStatus /\ e.wake \in EngWakes
  /\ e.wake = NoEngWake \/ (e.wake.reason # "none" /\ e.wake.token > 0)
  /\ e.seq \in Nat /\ e.seq <= MaxSeq /\ e.wake.token <= e.seq
  /\ DOMAIN e.kids = KidsOf[r] /\ e.join \in BOOLEAN /\ e.inbox \in Int /\ e.got \in Int
  /\ e.notify = "pending" => e.status \in EngTerminal /\ ParentOf[r] # Nobody

RecOK(r, e, n) == RecShape(r, e) /\ WakeFits(e) /\ JoinFits(e) /\ n = e.inbox + e.got

Ringing(e, v) == v.timer = e.wake.token \/ [t |-> "wake", token |-> e.wake.token] \in v.ticks

VolOK(e, v) ==
  /\ v \in EngVols
  /\ v.up \/ v = Absent
  /\ v.pc = "work" => e.status \in {"running", "compensating"}
  /\ v.pc = "arm" => ~v.handle
  /\ v.handle /\ v.pc # "arm" /\ e.wake # NoEngWake => Ringing(e, v)
  /\ v.up /\ ~v.leave /\ v.pc # "arm" /\ e.wake # NoEngWake /\ e.wake.kind # "reminder"
       => Ringing(e, v) \/ Tick("activate") \in v.ticks

RunOK(r, e, v, a, n) == RecOK(r, e, n) /\ VolOK(e, v) /\ a \in 0..e.seq

WireOK(c) ==
  /\ c.to \in Runs /\ DOMAIN c = {"m", "to", "from", "token"}
  /\ c.m \in {"childDone", "childDone-orphan"} => c.from \in Runs /\ eng[c.from].status \in EngTerminal

EngInv ==
  /\ plan \in Plans /\ engFaults \in 0..EngBudget[plan]
  /\ DOMAIN eng = Runs /\ DOMAIN vol = Runs /\ DOMAIN engAlarm = Runs /\ DOMAIN accepted = Runs
  /\ \A r \in Runs : RunOK(r, eng[r], vol[r], engAlarm[r], accepted[r])
  /\ VerdictIsSaved
  /\ \A c \in wires : WireOK(c)

------------------------------------------------------------------------------
\* f differs from e in nothing RecOK looks at
Alike(e, f) ==
  /\ DOMAIN f = EngFields /\ f.status = e.status /\ f.seq = e.seq /\ f.wake = e.wake
  /\ f.kids = e.kids /\ f.join = e.join /\ f.inbox = e.inbox /\ f.got = e.got
  /\ f.notify = e.notify

LEMMA MovedAlike ==
  ASSUME NEW e, DOMAIN e = EngFields, NEW from, NEW to
  PROVE  Alike(e, MovedOn(e, from, to))
BY DEF Alike, MovedOn, EngFields

\* a park
LEMMA SleptFields ==
  ASSUME NEW r, NEW e, DOMAIN e = EngFields, NEW reason, NEW f, f = Slept(r, e, reason)
  PROVE  /\ DOMAIN f = EngFields /\ f.seq = e.seq + 1
         /\ f.status = IF reason \in {"delay", "retry"} THEN "sleeping" ELSE e.status
         /\ f.wake.token = e.seq + 1 /\ f.wake.reason = reason
         /\ f.wake = [token |-> e.seq + 1, reason |-> reason, kind |-> f.wake.kind]
         /\ f.wake.kind \in {"timer", "reminder"}
         /\ f.kids = e.kids /\ f.join = e.join /\ f.inbox = e.inbox /\ f.got = e.got
         /\ f.notify = e.notify
BY DEF Slept, EngFields


\* What EngInv asks of the run in hand, r alone being touched.
LooseRec(r, e) ==
  /\ DOMAIN e = EngFields /\ e.seq = eng[r].seq /\ e.kids = eng[r].kids /\ e.join \in BOOLEAN
  /\ e.inbox = eng[r].inbox /\ e.got = eng[r].got /\ e.notify = eng[r].notify
  /\ ~e.join => KidsIn(e, "running") = {}

RunIs(r) == RunOK(r, eng[r], vol[r], engAlarm[r], accepted[r])

\* A step of r leaves the other runs alone and takes back neither a verdict nor a
\* child's report.
LocalStep(r) ==
  /\ RunIs(r)'
  /\ DOMAIN eng' = Runs /\ DOMAIN vol' = Runs /\ DOMAIN engAlarm' = Runs /\ DOMAIN accepted' = Runs
  /\ \A q \in Runs : q # r => /\ eng'[q] = eng[q] /\ vol'[q] = vol[q]
                              /\ engAlarm'[q] = engAlarm[q] /\ accepted'[q] = accepted[q]
  /\ eng[r].status \in EngTerminal => eng'[r].status = eng[r].status
  /\ \A k \in KidsOf[r] : eng'[r].kids[k] \in {eng[r].kids[k], "running"}
  /\ plan' = plan /\ engFaults' \in 0..EngBudget[plan]
  /\ \A c \in wires' : c \in wires \/ WireOK(c)'

LEMMA LocalKeeps ==
  ASSUME EngInv, NEW r \in Runs, LocalStep(r)
  PROVE  EngInv' /\ \A q \in Runs : eng[q].status \in EngTerminal => eng'[q].status = eng[q].status
<1>1. \A q \in Runs : eng[q].status \in EngTerminal => eng'[q].status = eng[q].status
  BY DEF LocalStep
<1>2. \A q \in Runs : RunIs(q)'
  BY DEF LocalStep, EngInv, RunIs
<1>3. VerdictIsSaved'
  <2> SUFFICES ASSUME NEW q \in Runs, NEW k \in KidsOf[q]
               PROVE  /\ eng'[q].kids[k] = "done" => eng'[k].status = "completed"
                      /\ eng'[q].kids[k] = "failed" => eng'[k].status \in EngTerminal \ {"completed"}
    BY DEF VerdictIsSaved
  <2>1. eng'[q].kids[k] \in {eng[q].kids[k], "running"}
    BY DEF LocalStep
  <2>2. k \in Runs
    BY EngAssumption
  <2> QED BY <1>1, <2>1, <2>2 DEF EngInv, VerdictIsSaved, EngTerminal
<1>4. \A c \in wires' : WireOK(c)'
  <2> SUFFICES ASSUME NEW c \in wires', c \in wires PROVE WireOK(c)'
    BY DEF LocalStep
  <2> QED BY <1>1 DEF EngInv, WireOK
<1> QED BY <1>1, <1>2, <1>3, <1>4 DEF EngInv, LocalStep, RunIs


LEMMA EndedOK ==
  ASSUME NEW r \in Runs, DOMAIN eng = Runs, DOMAIN vol = Runs, RunIs(r), NEW e, LooseRec(r, e),
         NEW s \in EngTerminal, EngEnded(r, e, s), vol[r].up, engAlarm'[r] \in {0, engAlarm[r]},
         accepted' = accepted
  PROVE  RunIs(r)' /\ eng'[r].status = s /\ eng'[r].kids = eng[r].kids
<1> DEFINE f == eng'[r]
           v == vol'[r]
<1>1. /\ DOMAIN f = EngFields /\ f.status = s /\ f.seq = e.seq /\ f.wake = NoEngWake
      /\ f.kids = e.kids /\ f.join = e.join /\ f.inbox = e.inbox /\ f.got = e.got
      /\ f.notify = IF ParentOf[r] = Nobody THEN e.notify ELSE "pending"
  BY DEF EngEnded, Unwoken, LooseRec, EngFields
<1>2. RecOK(r, eng[r], accepted[r]) /\ vol[r] \in EngVols /\ (vol[r].up \/ vol[r] = Absent)
      /\ engAlarm[r] \in 0..eng[r].seq
  BY DEF RunIs, RunOK, VolOK
<1>3. v \in EngVols /\ v.pc = "finished" /\ v.timer = 0 /\ v.handle = FALSE /\ v.up = vol[r].up
  BY <1>2 DEF EngEnded, CancelTimer, EngVols
<1>. HIDE DEF f, v
<1>4. RecOK(r, f, accepted[r])
  <2>1. RecShape(r, f)
    BY <1>1, <1>2, EngAssumption DEF RecOK, RecShape, LooseRec, EngStatus, EngWakes, NoEngWake
  <2>2. WakeFits(f) /\ JoinFits(f)
    BY <1>1 DEF WakeFits, JoinFits, LooseRec, NoEngWake, KidsIn, EngTerminal
  <2> QED BY <1>1, <1>2, <2>1, <2>2 DEF RecOK, LooseRec
<1>5. VolOK(f, v)
  BY <1>1, <1>2, <1>3 DEF VolOK, Absent
<1> QED BY <1>1, <1>2, <1>4, <1>5 DEF RunIs, RunOK, LooseRec, f, v, RecOK, RecShape

LEMMA SleepOK ==
  ASSUME NEW r \in Runs, DOMAIN eng = Runs, DOMAIN vol = Runs, RunIs(r), vol[r].up,
         NEW e, LooseRec(r, e), NEW reason,
         \/ /\ reason \in {"delay", "retry"} /\ ~e.join /\ e.notify # "pending"
            /\ e.status \notin EngTerminal
         \/ reason = "signal-timeout" /\ e.status = "waiting" /\ ~e.join /\ e.notify # "pending"
         \/ reason = "notify-retry" /\ e.status \in EngTerminal /\ e.notify = "pending",
         e.seq < MaxSeq, eng' = [eng EXCEPT ![r] = Slept(r, e, reason)],
         vol'[r] \in EngVols, vol'[r].pc = "arm", ~vol'[r].handle, vol'[r].up,
         engAlarm'[r] \in {0, engAlarm[r]}, accepted' = accepted
  PROVE  /\ RunIs(r)' /\ eng'[r].kids = eng[r].kids
         /\ e.status \in EngTerminal => eng'[r].status = e.status
<1> DEFINE f == eng'[r]
           v == vol'[r]
<1>1. f = Slept(r, e, reason)
  OBVIOUS
<1>2. RecOK(r, eng[r], accepted[r]) /\ vol[r] \in EngVols /\ engAlarm[r] \in 0..eng[r].seq
  BY DEF RunIs, RunOK, VolOK
<1>3. v \in EngVols /\ v.pc = "arm" /\ v.handle = FALSE /\ v.up
  OBVIOUS
<1>. HIDE DEF f, v
<1>4. /\ DOMAIN f = EngFields /\ f.seq = e.seq + 1
      /\ f.status = IF reason \in {"delay", "retry"} THEN "sleeping" ELSE e.status
      /\ f.wake = [token |-> e.seq + 1, reason |-> reason, kind |-> f.wake.kind]
      /\ f.wake.kind \in {"timer", "reminder"}
      /\ f.kids = e.kids /\ f.join = e.join /\ f.inbox = e.inbox /\ f.got = e.got
      /\ f.notify = e.notify
  BY <1>1, SleptFields DEF LooseRec
<1>5. f.wake \in EngWakes /\ f.wake.token = e.seq + 1 /\ f.wake.reason = reason
  BY <1>2, <1>4 DEF EngWakes, RecOK, RecShape, LooseRec
<1>6. RecOK(r, f, accepted[r])
  <2>1. RecShape(r, f)
    BY <1>2, <1>4, <1>5, EngAssumption DEF RecOK, RecShape, LooseRec, EngStatus, EngTerminal, Going
  <2>2. WakeFits(f) /\ JoinFits(f)
    BY <1>4, <1>5 DEF WakeFits, JoinFits, LooseRec, KidsIn, EngTerminal
  <2> QED BY <1>2, <1>4, <2>1, <2>2 DEF RecOK, LooseRec
<1>7. VolOK(f, v)
  BY <1>3 DEF VolOK
<1>8. engAlarm'[r] \in 0..f.seq
  BY <1>2, <1>4 DEF LooseRec, RecOK, RecShape
<1>9. e.status \in EngTerminal => f.status = e.status
  BY <1>4
<1> QED BY <1>4, <1>6, <1>7, <1>8, <1>9 DEF RunIs, RunOK, LooseRec, f, v

\* how the helpers of the turns leave the activation
LEMMA Cancelled ==
  ASSUME NEW r \in Runs, vol[r] \in EngVols, NEW pc \in {"arm", "finished", "drive"}
  PROVE  /\ [CancelTimer(r) EXCEPT !.pc = pc] \in EngVols
         /\ [CancelTimer(r) EXCEPT !.pc = pc].pc = pc
         /\ [CancelTimer(r) EXCEPT !.pc = pc].handle = FALSE
         /\ [CancelTimer(r) EXCEPT !.pc = pc].up = vol[r].up
BY DEF CancelTimer, EngVols

LEMMA WakeDropped ==
  ASSUME EngInv, NEW r \in Runs, DropWake(r)
  PROVE  /\ engFaults' \in 0..EngBudget[plan] /\ DOMAIN engAlarm' = Runs
         /\ engAlarm'[r] \in {0, engAlarm[r]} /\ \A q \in Runs : q # r => engAlarm'[q] = engAlarm[q]
<1>1. engFaults \in 0..EngBudget[plan] /\ EngBudget[plan] \in Nat /\ DOMAIN engAlarm = Runs
  BY EngAssumption DEF EngInv
<1>2. engFaults' \in 0..EngBudget[plan]
  BY <1>1 DEF DropWake, Fault, NoEngFault
<1>3. \/ \E x \in {0, engAlarm[r]} : engAlarm' = [engAlarm EXCEPT ![r] = x]
      \/ engAlarm' = engAlarm
  BY DEF DropWake
<1> QED BY <1>1, <1>2, <1>3

\* what the drive loop rests on
LEMMA Sleeps ==
  ASSUME EngInv, NEW r \in Runs, vol[r].up, NEW e, LooseRec(r, e), NEW reason,
         \/ /\ reason \in {"delay", "retry"} /\ ~e.join /\ e.notify # "pending"
            /\ e.status \notin EngTerminal
         \/ reason = "signal-timeout" /\ e.status = "waiting" /\ ~e.join /\ e.notify # "pending"
         \/ reason = "notify-retry" /\ e.status \in EngTerminal /\ e.notify = "pending",
         eng[r].status \in EngTerminal => e.status = eng[r].status,
         EngSleep(r, e, reason), UNCHANGED <<plan, wires, accepted>>
  PROVE  LocalStep(r)
<1>1. RunIs(r) /\ vol[r] \in EngVols /\ DOMAIN eng = Runs /\ DOMAIN vol = Runs /\ DOMAIN accepted = Runs
  BY DEF EngInv, RunIs, RunOK, VolOK
<1>2. /\ e.seq < MaxSeq /\ eng' = [eng EXCEPT ![r] = Slept(r, e, reason)]
      /\ vol' = [vol EXCEPT ![r] = [CancelTimer(r) EXCEPT !.pc = "arm"]]
  BY DEF EngSleep
<1>3. /\ engFaults' \in 0..EngBudget[plan] /\ DOMAIN engAlarm' = Runs
      /\ engAlarm'[r] \in {0, engAlarm[r]} /\ \A q \in Runs : q # r => engAlarm'[q] = engAlarm[q]
  BY WakeDropped DEF EngSleep
<1>4. vol'[r] = [CancelTimer(r) EXCEPT !.pc = "arm"]
  BY <1>1, <1>2
<1>5. vol'[r] \in EngVols /\ vol'[r].pc = "arm" /\ ~vol'[r].handle /\ vol'[r].up
  BY <1>1, <1>4, Cancelled
<1>6. /\ RunIs(r)' /\ eng'[r].kids = eng[r].kids
      /\ e.status \in EngTerminal => eng'[r].status = e.status
  BY <1>1, <1>2, <1>3, <1>5, SleepOK
<1>7. \A q \in Runs : q # r => eng'[q] = eng[q] /\ vol'[q] = vol[q]
  BY <1>1, <1>2
<1> QED BY <1>1, <1>2, <1>3, <1>6, <1>7 DEF LocalStep

LEMMA Finishes ==
  ASSUME EngInv, NEW r \in Runs, vol[r].up, NEW e, LooseRec(r, e), NEW s \in EngTerminal,
         eng[r].status \notin EngTerminal, Finish(r, e, s), UNCHANGED <<plan, accepted>>,
         wires' \subseteq wires
  PROVE  LocalStep(r)
<1>1. RunIs(r) /\ DOMAIN eng = Runs /\ DOMAIN vol = Runs /\ DOMAIN accepted = Runs
  BY DEF EngInv, RunIs
<1>2. /\ engFaults' \in 0..EngBudget[plan] /\ DOMAIN engAlarm' = Runs
      /\ engAlarm'[r] \in {0, engAlarm[r]} /\ \A q \in Runs : q # r => engAlarm'[q] = engAlarm[q]
  BY WakeDropped DEF Finish
<1>3. EngEnded(r, e, s)
  BY DEF Finish
<1>4. RunIs(r)' /\ eng'[r].kids = eng[r].kids
  BY <1>1, <1>2, <1>3, EndedOK
<1>5. /\ \A q \in Runs : q # r => eng'[q] = eng[q] /\ vol'[q] = vol[q]
      /\ DOMAIN eng' = Runs /\ DOMAIN vol' = Runs
  BY <1>1, <1>3 DEF EngEnded
<1> QED BY <1>1, <1>2, <1>4, <1>5 DEF LocalStep

\* everything around the run's own record and activation
Around(r) ==
  /\ DOMAIN engAlarm' = Runs /\ engAlarm'[r] \in 0..eng[r].seq
  /\ DOMAIN accepted' = Runs
  /\ \A q \in Runs : q # r => engAlarm'[q] = engAlarm[q] /\ accepted'[q] = accepted[q]
  /\ plan' = plan /\ engFaults' \in 0..EngBudget[plan]
  /\ \A c \in wires' : c \in wires \/ WireOK(c)'

LEMMA RecordsAt ==
  ASSUME EngInv, NEW r \in Runs, Around(r),
         RecOK(r, eng'[r], accepted'[r]), VolOK(eng'[r], vol'[r]), eng'[r].seq = eng[r].seq,
         eng[r].status \in EngTerminal => eng'[r].status = eng[r].status,
         \A k \in KidsOf[r] : eng'[r].kids[k] \in {eng[r].kids[k], "running"},
         DOMAIN eng' = Runs, DOMAIN vol' = Runs,
         \A q \in Runs : q # r => eng'[q] = eng[q] /\ vol'[q] = vol[q]
  PROVE  LocalStep(r)
<1>1. RunIs(r)'
  BY DEF RunIs, RunOK, Around
<1> QED BY <1>1 DEF LocalStep, Around

LEMMA Records ==
  ASSUME EngInv, NEW r \in Runs, Around(r), NEW f, NEW v, RecOK(r, f, accepted'[r]), VolOK(f, v),
         f.seq = eng[r].seq, eng[r].status \in EngTerminal => f.status = eng[r].status,
         \A k \in KidsOf[r] : f.kids[k] \in {eng[r].kids[k], "running"},
         eng' = [eng EXCEPT ![r] = f], vol' = [vol EXCEPT ![r] = v]
  PROVE  LocalStep(r)
<1>1. /\ eng'[r] = f /\ vol'[r] = v /\ DOMAIN eng' = Runs /\ DOMAIN vol' = Runs
      /\ \A q \in Runs : q # r => eng'[q] = eng[q] /\ vol'[q] = vol[q]
  BY DEF EngInv
<1> QED BY <1>1, RecordsAt

\* steps that leave the record, and those that leave the activation as well
LEMMA Moves ==
  ASSUME EngInv, NEW r \in Runs, Around(r), accepted'[r] = accepted[r], UNCHANGED eng, NEW v,
         VolOK(eng[r], v), vol' = [vol EXCEPT ![r] = v]
  PROVE  LocalStep(r)
<1>1. /\ vol'[r] = v /\ DOMAIN eng' = Runs /\ DOMAIN vol' = Runs
      /\ \A q \in Runs : q # r => eng'[q] = eng[q] /\ vol'[q] = vol[q]
  BY DEF EngInv
<1>2. RecOK(r, eng'[r], accepted'[r]) /\ VolOK(eng'[r], vol'[r])
  BY <1>1 DEF EngInv, RunOK
<1> QED BY <1>1, <1>2, RecordsAt

LEMMA Stays ==
  ASSUME EngInv, NEW r \in Runs, Around(r), accepted'[r] = accepted[r], UNCHANGED <<eng, vol>>
  PROVE  LocalStep(r)
<1>1. RecOK(r, eng'[r], accepted'[r]) /\ VolOK(eng'[r], vol'[r])
  BY DEF EngInv, RunOK
<1> QED BY <1>1, RecordsAt DEF EngInv

LEMMA Still ==
  ASSUME EngInv, NEW r \in Runs, UNCHANGED <<plan, accepted, engAlarm, engFaults>>,
         wires' \subseteq wires
  PROVE  Around(r)
BY DEF EngInv, Around, RunOK

\* a record that does not park, with the activation going on or at rest
LEMMA Awake ==
  ASSUME NEW e, NEW v, e.wake = NoEngWake, v \in EngVols, v.up, v.pc \notin {"arm", "work"}
  PROVE  VolOK(e, v)
BY DEF VolOK

LEMMA PcOnly ==
  ASSUME NEW v \in EngVols, NEW pc \in {"idle", "drive", "work", "spawn", "watch", "arm", "finished", "poke"}
  PROVE  /\ [v EXCEPT !.pc = pc] \in EngVols /\ [v EXCEPT !.pc = pc].pc = pc
         /\ [v EXCEPT !.pc = pc].up = v.up /\ [v EXCEPT !.pc = pc].handle = v.handle
         /\ [v EXCEPT !.pc = pc].timer = v.timer /\ [v EXCEPT !.pc = pc].ticks = v.ticks
         /\ [v EXCEPT !.pc = pc].leave = v.leave
BY DEF EngVols

LEMMA Drives ==
  ASSUME EngInv, NEW r \in Runs, NEW f, NEW pc \in {"drive", "spawn", "poke", "idle"},
         vol[r].up, RecOK(r, f, accepted[r]), f.wake = NoEngWake, f.seq = eng[r].seq,
         eng[r].status \in EngTerminal => f.status = eng[r].status,
         \A k \in KidsOf[r] : f.kids[k] \in {eng[r].kids[k], "running"},
         Became(r, f, pc), UNCHANGED <<plan, wires, accepted, engAlarm, engFaults>>
  PROVE  LocalStep(r)
<1>1. vol[r] \in EngVols
  BY DEF EngInv, RunOK, VolOK
<1> DEFINE v == [vol[r] EXCEPT !.pc = pc]
<1>2. VolOK(f, v)
  <2>1. v \in EngVols /\ v.up /\ v.pc \notin {"arm", "work"}
    BY <1>1 DEF EngVols
  <2> HIDE DEF v
  <2> QED BY <2>1, Awake
<1>3. eng' = [eng EXCEPT ![r] = f] /\ vol' = [vol EXCEPT ![r] = [vol[r] EXCEPT !.pc = pc]]
  BY DEF Became
<1> QED BY <1>2, <1>3, Still, Records

\* the run's own record is a loose one
LEMMA OwnRecord ==
  ASSUME EngInv, NEW r \in Runs
  PROVE  /\ LooseRec(r, eng[r]) /\ RecOK(r, eng[r], accepted[r]) /\ VolOK(eng[r], vol[r])
         /\ RecShape(r, eng[r]) /\ WakeFits(eng[r]) /\ JoinFits(eng[r]) /\ vol[r] \in EngVols
         /\ accepted[r] = eng[r].inbox + eng[r].got
BY DEF EngInv, RunOK, RecOK, RecShape, JoinFits, LooseRec, VolOK

LEMMA Fails ==
  ASSUME EngInv, NEW r \in Runs, vol[r].up, NEW e, LooseRec(r, e), e.wake = NoEngWake,
         eng[r].status \notin EngTerminal, ~e.join, OnFailure(r, e), UNCHANGED <<plan, wires, accepted>>
  PROVE  LocalStep(r)
<1>1. CASE Finish(r, e, "failed")
  BY <1>1, Finishes DEF EngTerminal
<1>2. CASE /\ NoEngFault /\ UNCHANGED engAlarm
           /\ \E st, cu : Became(r, [e EXCEPT !.stack = st, !.status = "compensating",
                                              !.cursor = cu, !.tries = 0], "drive")
  <2> PICK st, cu : Became(r, [e EXCEPT !.stack = st, !.status = "compensating",
                                        !.cursor = cu, !.tries = 0], "drive")
    BY <1>2
  <2> DEFINE f == [e EXCEPT !.stack = st, !.status = "compensating", !.cursor = cu, !.tries = 0]
  <2>1. /\ DOMAIN f = EngFields /\ f.status = "compensating" /\ f.seq = e.seq /\ f.wake = e.wake
        /\ f.kids = e.kids /\ f.join = e.join /\ f.inbox = e.inbox /\ f.got = e.got
        /\ f.notify = e.notify
    BY DEF LooseRec, EngFields
  <2> HIDE DEF f
  <2>2. RecOK(r, f, accepted[r])
    BY <2>1, OwnRecord DEF LooseRec, RecOK, RecShape, WakeFits, JoinFits, KidsIn, EngStatus, Going,
      EngTerminal, NoEngWake, EngWakes
  <2> QED BY <1>2, <2>1, <2>2, Drives DEF f, LooseRec, NoEngFault
<1> QED BY <1>1, <1>2 DEF OnFailure

------------------------------------------------------------------------------
(* The drive loop. *)

LEMMA ParksOK ==
  ASSUME EngInv, NEW r \in Runs, vol[r].up, vol[r].pc = "drive", Parks(r),
         UNCHANGED <<plan, wires, accepted>>
  PROVE  LocalStep(r)
<1> DEFINE v == [vol[r] EXCEPT !.pc = "idle"]
<1>1. /\ v \in EngVols /\ v.pc = "idle" /\ v.up = vol[r].up /\ v.handle = vol[r].handle
      /\ v.timer = vol[r].timer /\ v.ticks = vol[r].ticks /\ v.leave = vol[r].leave
  BY OwnRecord, PcOnly
<1>2. vol' = [vol EXCEPT ![r] = v] /\ UNCHANGED <<plan, eng, wires, accepted, engAlarm, engFaults>>
  BY DEF Parks, NoEngFault
<1> HIDE DEF v
<1>3. VolOK(eng[r], v)
  BY <1>1, OwnRecord DEF VolOK, Ringing
<1> QED BY <1>2, <1>3, Still, Moves

LEMMA ResolveJoinOK == ASSUME EngInv, NEW r \in Runs, ResolveJoin(r) PROVE LocalStep(r)
<1> DEFINE e == eng[r]
           free == [e EXCEPT !.join = FALSE, !.status = Resumed(e)]
           to == NodeAt(r).next
<1>1. /\ vol[r].up /\ vol[r].pc = "drive" /\ e.status = "blocked"
      /\ UNCHANGED <<plan, wires, accepted>>
  BY DEF ResolveJoin, Driving
<1>2. /\ DOMAIN free = EngFields /\ free.status \in {"running", "compensating"} /\ free.seq = e.seq
      /\ free.wake = e.wake /\ free.kids = e.kids /\ free.join = FALSE
      /\ free.inbox = e.inbox /\ free.got = e.got /\ free.notify = e.notify
  BY OwnRecord DEF RecShape, EngFields, Resumed
<1>3. e.wake = NoEngWake
  BY <1>1, OwnRecord DEF WakeFits
<1>4. CASE ~Joined(e) /\ Parks(r)
  BY <1>1, <1>4, ParksOK
<1>5. CASE /\ Joined(e) /\ Became(r, MovedOn(free, e.cursor, to), "drive")
           /\ NoEngFault /\ UNCHANGED engAlarm
  <2> DEFINE f == MovedOn(free, e.cursor, to)
  <2>1. Alike(free, f)
    BY <1>2, MovedAlike
  <2>2. UNCHANGED <<plan, wires, accepted, engAlarm, engFaults>>
    BY <1>1, <1>5 DEF NoEngFault
  <2> HIDE DEF f, free
  <2>3. RecOK(r, f, accepted[r])
    <3>1. KidsIn(f, "running") = {}
      BY <1>2, <1>5, <2>1 DEF Joined, KidsIn, Alike
    <3>2. e.notify # "pending"
      BY <1>1, OwnRecord DEF RecShape, EngTerminal
    <3>3. RecShape(r, f)
      BY <1>2, <1>3, <2>1, <3>2, OwnRecord DEF Alike, RecShape, EngStatus, Going
    <3>4. WakeFits(f) /\ JoinFits(f)
      BY <1>2, <1>3, <2>1, <3>1 DEF Alike, WakeFits, JoinFits, EngTerminal, NoEngWake
    <3> QED BY <1>2, <2>1, <3>3, <3>4, OwnRecord DEF Alike, RecOK
  <2>4. /\ f.wake = NoEngWake /\ f.seq = eng[r].seq /\ f.kids = e.kids
        /\ eng[r].status \notin EngTerminal
    BY <1>1, <1>2, <1>3, <2>1 DEF Alike, EngTerminal
  <2> QED BY <1>1, <1>5, <2>2, <2>3, <2>4, Drives DEF f, free
<1>6. CASE Joined(e) /\ OnFailure(r, free)
  <2>1. LooseRec(r, free)
    BY <1>2, <1>6, OwnRecord DEF LooseRec, RecShape, Joined, KidsIn
  <2> HIDE DEF free
  <2> QED BY <1>1, <1>2, <1>3, <1>6, <2>1, Fails DEF EngTerminal
<1> QED BY <1>4, <1>5, <1>6 DEF ResolveJoin

LEMMA ResolveWaitOK == ASSUME EngInv, NEW r \in Runs, ResolveWait(r) PROVE LocalStep(r)
<1> DEFINE e == eng[r]
<1>1. /\ vol[r].up /\ vol[r].pc = "drive" /\ e.status = "waiting"
      /\ UNCHANGED <<plan, wires, accepted>>
  BY DEF ResolveWait, Driving
<1>2. CASE e.inbox = 0 /\ e.wake # NoEngWake /\ Parks(r)
  BY <1>1, <1>2, ParksOK
<1>3. CASE e.inbox = 0 /\ e.wake = NoEngWake
  BY <1>1, <1>3, OwnRecord DEF WakeFits, NoEngWake
<1>4. CASE /\ e.inbox > 0 /\ DropWake(r)
           /\ eng' = [eng EXCEPT ![r] = MovedOn([Unwoken(TookSignal(e)) EXCEPT !.status = "running"],
                                                e.cursor, NodeAt(r).next)]
           /\ vol' = [vol EXCEPT ![r] = CancelTimer(r)]
  <2> DEFINE g == [Unwoken(TookSignal(e)) EXCEPT !.status = "running"]
             f == MovedOn(g, e.cursor, NodeAt(r).next)
             v == CancelTimer(r)
  <2>1. /\ DOMAIN g = EngFields /\ g.status = "running" /\ g.seq = e.seq
        /\ g.wake = NoEngWake /\ g.kids = e.kids /\ g.join = e.join
        /\ g.inbox = e.inbox - 1 /\ g.got = e.got + 1 /\ g.notify = e.notify
    BY OwnRecord DEF RecShape, EngFields, Unwoken, TookSignal
  <2>2. Alike(g, f)
    BY <2>1, MovedAlike
  <2>3. v \in EngVols /\ v.pc = "drive" /\ v.up
    BY <1>1, OwnRecord DEF CancelTimer, EngVols
  <2>4. Around(r)
    BY <1>1, <1>4, WakeDropped DEF Around, EngInv, RunOK, RecOK, RecShape
  <2> HIDE DEF f, g, v
  <2>5. RecOK(r, f, accepted[r])
    BY <1>1, <2>1, <2>2, OwnRecord DEF Alike, RecOK, RecShape, WakeFits, JoinFits, KidsIn,
      EngStatus, Going, EngTerminal, NoEngWake, EngWakes
  <2>6. VolOK(f, v)
    BY <2>1, <2>2, <2>3, Awake DEF Alike
  <2>7. /\ f.seq = eng[r].seq /\ f.kids = e.kids /\ eng[r].status \notin EngTerminal
        /\ accepted'[r] = accepted[r]
    BY <1>1, <2>1, <2>2 DEF Alike, EngTerminal
  <2> QED BY <1>4, <2>4, <2>5, <2>6, <2>7, Records DEF f, g, v
<1> QED BY <1>2, <1>3, <1>4 DEF ResolveWait

\* a run under way has no wake, no join and nobody to tell
LEMMA UnderWay ==
  ASSUME EngInv, NEW r \in Runs, eng[r].status \in {"running", "compensating"}
  PROVE  /\ eng[r].wake = NoEngWake /\ ~eng[r].join /\ eng[r].notify # "pending"
         /\ eng[r].status \notin EngTerminal /\ KidsIn(eng[r], "running") = {}
<1>1. eng[r].status \notin EngTerminal
  BY DEF EngTerminal
<1>2. eng[r].notify # "pending"
  BY <1>1, OwnRecord DEF RecShape
<1>3. ~eng[r].join
  BY <1>1, OwnRecord DEF JoinFits
<1> QED BY <1>1, <1>2, <1>3, OwnRecord DEF WakeFits, JoinFits

\* the cursor moves on from a record of a run under way
LEMMA Advances ==
  ASSUME EngInv, NEW r \in Runs, vol[r].up, eng[r].status \in {"running", "compensating"},
         NEW g, DOMAIN g = EngFields, g.status = eng[r].status, g.seq = eng[r].seq,
         g.wake = eng[r].wake, g.kids = eng[r].kids, g.join = eng[r].join,
         g.notify = eng[r].notify, g.inbox \in Int, g.got \in Int,
         g.inbox + g.got = eng[r].inbox + eng[r].got, NEW from, NEW to,
         Became(r, MovedOn(g, from, to), "drive"),
         UNCHANGED <<plan, wires, accepted, engAlarm, engFaults>>
  PROVE  LocalStep(r)
<1> DEFINE f == MovedOn(g, from, to)
<1>1. Alike(g, f)
  BY MovedAlike
<1> HIDE DEF f
<1>2. RecShape(r, f)
  BY <1>1, OwnRecord DEF Alike, RecShape
<1>3. WakeFits(f) /\ JoinFits(f)
  BY <1>1, OwnRecord DEF Alike, WakeFits, JoinFits, KidsIn
<1>4. RecOK(r, f, accepted[r])
  BY <1>1, <1>2, <1>3, OwnRecord DEF Alike, RecOK
<1>5. f.wake = NoEngWake /\ f.seq = eng[r].seq /\ f.kids = eng[r].kids /\ eng[r].status \notin EngTerminal
  BY <1>1, UnderWay DEF Alike
<1> QED BY <1>4, <1>5, Drives DEF f

LEMMA ResolveSleepOK == ASSUME EngInv, NEW r \in Runs, ResolveSleep(r) PROVE LocalStep(r)
<1>1. /\ vol[r].up /\ vol[r].pc = "drive" /\ eng[r].status = "sleeping"
      /\ UNCHANGED <<plan, wires, accepted>>
  BY DEF ResolveSleep, Driving
<1>2. eng[r].wake # NoEngWake
  BY <1>1, OwnRecord DEF WakeFits, NoEngWake
<1> QED BY <1>1, <1>2, ParksOK DEF ResolveSleep

LEMMA DriveEndsOK == ASSUME EngInv, NEW r \in Runs, DriveEnds(r) PROVE LocalStep(r)
<1>1. UNCHANGED <<plan, wires, accepted>>
  BY DEF DriveEnds
<1>2. CASE Driving(r, EngTerminal \cup {"pending"}) /\ Parks(r)
  BY <1>1, <1>2, ParksOK DEF Driving
<1>3. CASE /\ Driving(r, {"running", "compensating"})
           /\ Finish(r, eng[r], IF eng[r].stack = NoStack THEN "completed" ELSE "compensated")
  <2>1. (IF eng[r].stack = NoStack THEN "completed" ELSE "compensated") \in EngTerminal
    BY DEF EngTerminal
  <2>2. vol[r].up /\ eng[r].status \notin EngTerminal
    BY <1>3, UnderWay DEF Driving
  <2> QED BY <1>1, <1>3, <2>1, <2>2, OwnRecord, Finishes
<1> QED BY <1>2, <1>3 DEF DriveEnds

LEMMA ExecuteLocalOK == ASSUME EngInv, NEW r \in Runs, ExecuteLocal(r) PROVE LocalStep(r)
<1> DEFINE e == eng[r]
           n == NodeAt(r)
<1>1. /\ vol[r].up /\ e.status \in {"running", "compensating"}
      /\ UNCHANGED <<plan, wires, accepted>>
  BY DEF ExecuteLocal, Driving
<1>2. CASE /\ \E to \in {n.next, n.else} : Became(r, MovedOn(e, e.cursor, to), "drive")
           /\ NoEngFault /\ UNCHANGED engAlarm
  <2> PICK to \in {n.next, n.else} : Became(r, MovedOn(e, e.cursor, to), "drive")
    BY <1>2
  <2> QED BY <1>1, <1>2, OwnRecord, Advances DEF RecShape, NoEngFault
<1>3. CASE EngSleep(r, e, "delay")
  BY <1>1, <1>3, OwnRecord, UnderWay, Sleeps
<1>4. CASE /\ Became(r, MovedOn(TookSignal(e), e.cursor, n.next), "drive")
           /\ NoEngFault /\ UNCHANGED engAlarm
  <2> DEFINE g == TookSignal(e)
  <2>1. /\ DOMAIN g = EngFields /\ g.status = e.status /\ g.seq = e.seq /\ g.wake = e.wake
        /\ g.kids = e.kids /\ g.join = e.join /\ g.notify = e.notify /\ g.inbox \in Int
        /\ g.got \in Int /\ g.inbox + g.got = e.inbox + e.got
    BY OwnRecord DEF RecShape, EngFields, TookSignal
  <2> HIDE DEF g
  <2> QED BY <1>1, <1>4, <2>1, Advances DEF g, NoEngFault
<1>5. CASE EngSleep(r, [e EXCEPT !.status = "waiting"], "signal-timeout")
  <2> DEFINE g == [e EXCEPT !.status = "waiting"]
  <2>1. LooseRec(r, g) /\ g.status = "waiting" /\ g.join = e.join /\ g.notify = e.notify
    BY OwnRecord DEF RecShape, EngFields, LooseRec, KidsIn
  <2> HIDE DEF g
  <2> QED BY <1>1, <1>5, <2>1, UnderWay, Sleeps DEF g
<1> QED BY <1>2, <1>3, <1>4, <1>5 DEF ExecuteLocal

LEMMA ExecuteWorkOK == ASSUME EngInv, NEW r \in Runs, ExecuteWork(r) PROVE LocalStep(r)
<1> DEFINE e == eng[r]
           t == IF NodeAt(r).type = "task" THEN e.tries + 1 ELSE e.tries
           f == [e EXCEPT !.tries = t]
           v == [vol[r] EXCEPT !.pc = "work"]
<1>1. /\ vol[r].up /\ e.status \in {"running", "compensating"}
      /\ UNCHANGED <<plan, wires, accepted, engAlarm, engFaults>>
      /\ eng' = [eng EXCEPT ![r] = f] /\ vol' = [vol EXCEPT ![r] = v]
  BY DEF ExecuteWork, Driving, Became, NoEngFault
<1>2. Alike(e, f)
  BY OwnRecord DEF Alike, RecShape, EngFields
<1>3. /\ v \in EngVols /\ v.pc = "work" /\ v.up
  BY <1>1, OwnRecord DEF EngVols
<1> HIDE DEF f, v
<1>4. RecShape(r, f)
  BY <1>2, OwnRecord DEF Alike, RecShape
<1>5. WakeFits(f) /\ JoinFits(f)
  BY <1>2, OwnRecord DEF Alike, WakeFits, JoinFits, KidsIn
<1>6. RecOK(r, f, accepted[r])
  BY <1>2, <1>4, <1>5, OwnRecord DEF Alike, RecOK
<1>7. VolOK(f, v)
  BY <1>1, <1>2, <1>3, UnderWay DEF Alike, VolOK
<1> QED BY <1>1, <1>2, <1>6, <1>7, Still, Records DEF Alike

LEMMA WorkDoneOK == ASSUME EngInv, NEW r \in Runs, WorkDone(r) PROVE LocalStep(r)
<1> DEFINE e == eng[r]
           n == NodeAt(r)
<1>1. /\ vol[r].up /\ e.status \in {"running", "compensating"}
      /\ UNCHANGED <<plan, wires, accepted>>
  BY OwnRecord DEF WorkDone, VolOK
<1>2. CASE /\ Became(r, MovedOn(e, e.cursor, n.next), "drive")
           /\ NoEngFault /\ UNCHANGED <<engAlarm, watchdog>>
  BY <1>1, <1>2, OwnRecord, Advances DEF RecShape, NoEngFault
<1>3. CASE EngSleep(r, e, "retry")
  BY <1>1, <1>3, OwnRecord, UnderWay, Sleeps
<1>4. CASE OnFailure(r, e)
  BY <1>1, <1>4, OwnRecord, UnderWay, Fails
<1> QED BY <1>2, <1>3, <1>4 DEF WorkDone

LEMMA ExecuteChildrenOK == ASSUME EngInv, NEW r \in Runs, ExecuteChildren(r) PROVE LocalStep(r)
<1> DEFINE e == eng[r]
           f == [e EXCEPT !.status = "blocked", !.join = TRUE, !.kids = [k \in DOMAIN @ |-> "running"]]
<1>1. /\ vol[r].up /\ e.status \in {"running", "compensating"}
      /\ UNCHANGED <<plan, wires, accepted, engAlarm, engFaults>> /\ Became(r, f, "spawn")
  BY DEF ExecuteChildren, Driving, NoEngFault
<1>2. /\ DOMAIN f = EngFields /\ f.status = "blocked" /\ f.seq = e.seq /\ f.wake = e.wake
      /\ f.kids = [k \in DOMAIN e.kids |-> "running"] /\ f.join = TRUE
      /\ f.inbox = e.inbox /\ f.got = e.got /\ f.notify = e.notify
  BY OwnRecord DEF RecShape, EngFields
<1> HIDE DEF f
<1>3. RecShape(r, f)
  BY <1>1, <1>2, OwnRecord, UnderWay DEF RecShape, EngStatus, Going
<1>4. WakeFits(f) /\ JoinFits(f)
  BY <1>1, <1>2, UnderWay DEF WakeFits, JoinFits, NoEngWake, EngTerminal
<1>5. RecOK(r, f, accepted[r])
  BY <1>2, <1>3, <1>4, OwnRecord DEF RecOK
<1>6. /\ f.wake = NoEngWake /\ f.seq = eng[r].seq /\ eng[r].status \notin EngTerminal
      /\ \A k \in KidsOf[r] : f.kids[k] = "running"
  BY <1>1, <1>2, UnderWay, OwnRecord DEF RecShape
<1> QED BY <1>1, <1>5, <1>6, Drives

\* the turn goes on to another point, the record and the timer as they were
LEMMA Proceeds ==
  ASSUME EngInv, NEW r \in Runs, Around(r), accepted'[r] = accepted[r], UNCHANGED eng, vol[r].up,
         vol[r].pc # "arm", NEW pc \in {"idle", "drive", "spawn", "watch", "poke"},
         vol' = [vol EXCEPT ![r].pc = pc]
  PROVE  LocalStep(r)
<1> DEFINE v == [vol[r] EXCEPT !.pc = pc]
<1>1. /\ v \in EngVols /\ v.pc = pc /\ v.up = vol[r].up /\ v.handle = vol[r].handle
      /\ v.timer = vol[r].timer /\ v.ticks = vol[r].ticks /\ v.leave = vol[r].leave
  BY OwnRecord DEF EngVols
<1>2. vol' = [vol EXCEPT ![r] = v]
  OBVIOUS
<1> HIDE DEF v
<1>3. VolOK(eng[r], v)
  BY <1>1, OwnRecord DEF VolOK, Ringing
<1> QED BY <1>2, <1>3, Moves

LEMMA SpawnOK == ASSUME EngInv, NEW r \in Runs, Spawn(r) PROVE LocalStep(r)
<1>1. \A c \in wires' : c \in wires \/ WireOK(c)'
  <2> SUFFICES ASSUME NEW k \in KidsOf[r] PROVE WireOK(Wire("start", k, r))'
    BY DEF Spawn
  <2> QED BY EngAssumption DEF WireOK, Wire
<1>2. Around(r)
  BY <1>1 DEF Spawn, Around, EngInv, RunOK
<1> QED BY <1>2, Proceeds DEF Spawn

LEMMA FaultsCounted ==
  ASSUME EngInv, Fault \/ NoEngFault PROVE engFaults' \in 0..EngBudget[plan]
<1>1. EngBudget[plan] \in Nat /\ engFaults \in 0..EngBudget[plan]
  BY EngAssumption DEF EngInv
<1> QED BY <1>1 DEF Fault, NoEngFault

LEMMA WatchOK == ASSUME EngInv, NEW r \in Runs, Watch(r) PROVE LocalStep(r)
<1>1. Around(r)
  BY FaultsCounted DEF Watch, Around, EngInv, RunOK
<1> QED BY <1>1, Proceeds DEF Watch

LEMMA PokeOK == ASSUME EngInv, NEW r \in Runs, Poke(r) PROVE LocalStep(r)
<1>1. PICK ts \in Advancing(vol[r].ticks) : vol' = [vol EXCEPT ![r].pc = "idle", ![r].ticks = ts]
  BY DEF Poke
<1> DEFINE v == [vol[r] EXCEPT !.pc = "idle", !.ticks = ts]
<1>2. vol[r].up /\ vol[r].pc = "poke" /\ UNCHANGED <<plan, eng, engAlarm, wires, accepted, engFaults>>
  BY DEF Poke
<1>3. ts \in SUBSET EngTicks /\ vol[r].ticks \subseteq ts
  BY OwnRecord DEF Advancing, Tick, EngTicks, EngVols
<1>4. /\ v \in EngVols /\ v.pc = "idle" /\ v.up = vol[r].up /\ v.handle = vol[r].handle
      /\ v.timer = vol[r].timer /\ v.ticks = ts /\ v.leave = vol[r].leave
  BY <1>3, OwnRecord DEF EngVols
<1>5. vol' = [vol EXCEPT ![r] = v]
  BY <1>1 DEF EngInv
<1> HIDE DEF v
<1>6. VolOK(eng[r], v)
  BY <1>2, <1>3, <1>4, OwnRecord DEF VolOK, Ringing
<1> QED BY <1>2, <1>5, <1>6, Still, Moves

LEMMA FinishedOK == ASSUME EngInv, NEW r \in Runs, Finished(r) PROVE LocalStep(r)
<1>1. vol[r].up /\ vol[r].pc = "finished" /\ UNCHANGED <<plan, wires, accepted>>
  BY DEF Finished
<1>2. CASE eng[r].notify = "pending" /\ EngSleep(r, eng[r], "notify-retry")
  BY <1>1, <1>2, OwnRecord, Sleeps DEF RecShape
<1>3. CASE /\ vol' = [vol EXCEPT ![r].pc = "idle", ![r].leave = TRUE]
           /\ NoEngFault /\ UNCHANGED <<eng, engAlarm>>
  <2> DEFINE v == [vol[r] EXCEPT !.pc = "idle", !.leave = TRUE]
  <2>1. /\ v \in EngVols /\ v.pc = "idle" /\ v.up = vol[r].up /\ v.handle = vol[r].handle
        /\ v.timer = vol[r].timer /\ v.ticks = vol[r].ticks /\ v.leave = TRUE
    BY OwnRecord DEF EngVols
  <2>2. vol' = [vol EXCEPT ![r] = v]
    BY <1>3 DEF EngInv
  <2> HIDE DEF v
  <2>3. VolOK(eng[r], v)
    BY <1>1, <2>1, OwnRecord DEF VolOK, Ringing
  <2> QED BY <1>1, <1>3, <2>2, <2>3, Still, Moves DEF NoEngFault
<1> QED BY <1>2, <1>3 DEF Finished

LEMMA ThrowsOK == ASSUME EngInv, NEW r \in Runs, Throws(r) PROVE LocalStep(r)
<1>1. /\ vol[r].up /\ eng[r].status \notin EngTerminal /\ Fault
      /\ engAlarm' = [engAlarm EXCEPT ![r] = IF eng[r].wake.kind = "reminder" THEN 0 ELSE @]
      /\ EngEnded(r, eng[r], "failed") /\ UNCHANGED <<plan, wires, accepted>>
  BY DEF Throws
<1>2. engAlarm'[r] \in {0, engAlarm[r]} /\ DOMAIN engAlarm' = Runs
      /\ \A q \in Runs : q # r => engAlarm'[q] = engAlarm[q]
  BY <1>1 DEF EngInv
<1>3. RunIs(r) /\ DOMAIN eng = Runs /\ DOMAIN vol = Runs /\ DOMAIN accepted = Runs
  BY DEF EngInv, RunIs
<1>4. RunIs(r)' /\ eng'[r].kids = eng[r].kids
  BY <1>1, <1>2, <1>3, OwnRecord, EndedOK DEF EngTerminal
<1>5. /\ \A q \in Runs : q # r => eng'[q] = eng[q] /\ vol'[q] = vol[q]
      /\ DOMAIN eng' = Runs /\ DOMAIN vol' = Runs
  BY <1>1, <1>3 DEF EngEnded
<1> QED BY <1>1, <1>2, <1>3, <1>4, <1>5, FaultsCounted DEF LocalStep

\* a timer for the wake on record
LEMMA TimerArmed ==
  ASSUME EngInv, NEW r \in Runs, NEW f, f.wake \in EngWakes, NEW b \in EngVols, b.up, b.pc = "idle" \/ b.pc = "arm",
         f.wake.token = eng[r].wake.token, NEW v,
         v = [b EXCEPT !.pc = "idle", !.timer = eng[r].wake.token, !.handle = TRUE]
  PROVE  VolOK(f, v)
<1>1. /\ v \in EngVols /\ v.pc = "idle" /\ v.up /\ v.timer = f.wake.token
  BY DEF EngVols, EngWakes
<1> QED BY <1>1 DEF VolOK, Ringing

LEMMA ArmOK == ASSUME EngInv, NEW r \in Runs, Arm(r) PROVE LocalStep(r)
<1> DEFINE e == eng[r]
           w == eng[r].wake
           f == [e EXCEPT !.wake.kind = "timer-fallback"]
<1>1. /\ vol[r].up /\ vol[r].pc = "arm" /\ UNCHANGED <<plan, accepted>>
      /\ wires' = IF w.reason = "notify-retry" THEN wires \cup {Wire("childDone", ParentOf[r], r)} ELSE wires
      /\ Fault \/ NoEngFault
  BY DEF Arm
<1>2. /\ w.reason = "notify-retry" => eng[r].status \in EngTerminal /\ ParentOf[r] \in Runs
      /\ w \in EngWakes /\ w.token \in 0..e.seq
  BY OwnRecord, EngAssumption DEF RecShape, WakeFits, EngStatus, Going, NoEngWake, EngWakes
<1>3. ASSUME eng'[r].status = eng[r].status, DOMAIN engAlarm' = Runs, engAlarm'[r] \in 0..e.seq,
             \A q \in Runs : q # r => engAlarm'[q] = engAlarm[q]
      PROVE  Around(r)
  <2>1. \A c \in wires' : c \in wires \/ WireOK(c)'
    BY <1>1, <1>2, <1>3 DEF WireOK, Wire
  <2> QED BY <1>1, <1>3, <2>1, FaultsCounted DEF Around, EngInv
<1>4. /\ DOMAIN engAlarm = Runs /\ engAlarm[r] \in 0..e.seq /\ DOMAIN eng = Runs /\ DOMAIN vol = Runs
      /\ vol[r] \in EngVols
  BY OwnRecord DEF EngInv, RunOK
<1>5. CASE vol' = [vol EXCEPT ![r] = ArmTimer(r)] /\ UNCHANGED <<eng, engAlarm>>
  <2>1. Around(r)
    BY <1>3, <1>4, <1>5
  <2>2. VolOK(e, ArmTimer(r))
    BY <1>1, <1>2, <1>4, TimerArmed DEF ArmTimer
  <2> QED BY <1>1, <1>5, <2>1, <2>2, Moves
<1>6. CASE /\ w.kind = "reminder" /\ engAlarm' = [engAlarm EXCEPT ![r] = w.token] /\ UNCHANGED eng
           /\ vol' = [vol EXCEPT ![r].pc = "idle", ![r].leave = TRUE]
  <2> DEFINE v == [vol[r] EXCEPT !.pc = "idle", !.leave = TRUE]
  <2>1. Around(r)
    BY <1>2, <1>3, <1>4, <1>6
  <2>2. v \in EngVols /\ v.pc = "idle" /\ v.up /\ v.leave = TRUE /\ ~v.handle
    BY <1>1, <1>4, OwnRecord DEF EngVols, VolOK
  <2>3. vol' = [vol EXCEPT ![r] = v]
    BY <1>4, <1>6
  <2> HIDE DEF v
  <2>4. VolOK(e, v)
    BY <2>2 DEF VolOK
  <2> QED BY <1>1, <1>6, <2>1, <2>3, <2>4, Moves
<1>7. CASE /\ w.kind = "reminder" /\ eng' = [eng EXCEPT ![r].wake.kind = "timer-fallback"]
           /\ vol' = [vol EXCEPT ![r] = ArmTimer(r)] /\ UNCHANGED engAlarm
  <2>1. eng' = [eng EXCEPT ![r] = f]
    BY <1>4, <1>7
  <2>2. /\ DOMAIN f = EngFields /\ f.status = e.status /\ f.seq = e.seq
        /\ f.wake = [w EXCEPT !.kind = "timer-fallback"] /\ f.kids = e.kids /\ f.join = e.join
        /\ f.inbox = e.inbox /\ f.got = e.got /\ f.notify = e.notify
    BY OwnRecord DEF RecShape, EngFields
  <2>3. /\ f.wake \in EngWakes /\ f.wake.token = w.token /\ f.wake.reason = w.reason
        /\ w # NoEngWake
    BY <1>2, <1>7, <2>2 DEF EngWakes, NoEngWake
  <2> HIDE DEF f
  <2>4. RecShape(r, f) /\ WakeFits(f) /\ JoinFits(f)
    BY <2>2, <2>3, OwnRecord DEF RecShape, WakeFits, JoinFits, KidsIn, NoEngWake
  <2>5. RecOK(r, f, accepted'[r])
    BY <1>1, <2>2, <2>4, OwnRecord DEF RecOK
  <2>6. VolOK(f, ArmTimer(r))
    BY <1>1, <1>4, <2>3, TimerArmed DEF ArmTimer
  <2>7. Around(r)
    BY <1>3, <1>4, <1>7, <2>1, <2>2
  <2> QED BY <1>7, <2>1, <2>2, <2>5, <2>6, <2>7, Records
<1> QED BY <1>5, <1>6, <1>7 DEF Arm

------------------------------------------------------------------------------
(* Turns. *)

LEMMA EngTickOK == ASSUME EngInv, NEW r \in Runs, EngTick(r) PROVE LocalStep(r)
<1>1. PICK t \in vol[r].ticks :
        t.t = "advance" /\ vol' = [vol EXCEPT ![r] = [Pop(r, t) EXCEPT !.pc = "drive"]]
  BY DEF EngTick
<1> DEFINE v == [Pop(r, t) EXCEPT !.pc = "drive"]
<1>2. vol[r].up /\ vol[r].pc = "idle" /\ UNCHANGED <<plan, eng, engAlarm, wires, accepted, engFaults>>
  BY DEF EngTick, EngIdle
<1>3. /\ v \in EngVols /\ v.pc = "drive" /\ v.up = vol[r].up /\ v.handle = vol[r].handle
      /\ v.timer = vol[r].timer /\ v.ticks = vol[r].ticks \ {t} /\ v.leave = vol[r].leave
  BY OwnRecord DEF EngVols, Pop
<1> HIDE DEF v
<1>4. VolOK(eng[r], v)
  BY <1>1, <1>2, <1>3, OwnRecord DEF VolOK, Ringing, Tick
<1> QED BY <1>1, <1>2, <1>4, Still, Moves DEF v

\* the wake of the record comes: the run goes on, or tells its parent again
LEMMA WakeApplied ==
  ASSUME EngInv, NEW r \in Runs, vol[r].up, eng[r].wake # NoEngWake, NEW b \in EngVols, b.up,
         b.pc = "idle", ApplyWake(r, b), UNCHANGED <<plan, accepted, engAlarm, engFaults>>,
         wires' \subseteq wires
  PROVE  LocalStep(r)
<1> DEFINE e == eng[r]
           w == e.wake
           st == IF w.reason = "signal-timeout" THEN "running" ELSE Resumed(e)
           g == [Unwoken(e) EXCEPT !.status = st]
           v == [b EXCEPT !.pc = "drive", !.handle = FALSE]
<1>1. /\ DOMAIN g = EngFields /\ g.status \in {"running", "compensating"} /\ g.seq = e.seq
      /\ g.wake = NoEngWake /\ g.kids = e.kids /\ g.join = e.join
      /\ g.inbox = e.inbox /\ g.got = e.got /\ g.notify = e.notify
  BY OwnRecord DEF RecShape, EngFields, Unwoken, Resumed
<1>2. v \in EngVols /\ v.up /\ v.pc = "drive"
  BY DEF EngVols
<1>3. ASSUME w.reason \in {"delay", "signal-timeout", "retry"}, NEW f, Alike(g, f),
             eng' = [eng EXCEPT ![r] = f], vol' = [vol EXCEPT ![r] = v]
      PROVE  LocalStep(r)
  <2>1. e.status \in {"waiting", "sleeping"}
    BY <1>3, OwnRecord DEF RecShape, WakeFits, EngStatus, Going, NoEngWake
  <2>2. ~e.join /\ e.status \notin EngTerminal /\ e.notify # "pending"
    BY <2>1, OwnRecord DEF RecShape, JoinFits, EngTerminal
  <2> HIDE DEF g, v
  <2>3. RecShape(r, f)
    BY <1>1, <1>3, <2>2, OwnRecord DEF Alike, RecShape, EngStatus, Going, NoEngWake, EngWakes
  <2>4. WakeFits(f) /\ JoinFits(f)
    BY <1>1, <1>3, <2>2, OwnRecord DEF Alike, WakeFits, JoinFits, KidsIn, NoEngWake, EngTerminal
  <2>5. RecOK(r, f, accepted'[r])
    BY <1>1, <1>3, <2>3, <2>4, OwnRecord DEF Alike, RecOK
  <2>6. VolOK(f, v)
    BY <1>1, <1>2, <1>3, Awake DEF Alike
  <2> QED BY <1>1, <1>3, <2>2, <2>5, <2>6, Still, Records DEF Alike
<1>4. CASE /\ w.reason \in {"delay", "signal-timeout"}
           /\ eng' = [eng EXCEPT ![r] = MovedOn(g, e.cursor,
                     IF w.reason = "delay" THEN NodeAt(r).next ELSE NodeAt(r).else)]
           /\ vol' = [vol EXCEPT ![r] = v]
  <2>1. Alike(g, MovedOn(g, e.cursor, IF w.reason = "delay" THEN NodeAt(r).next ELSE NodeAt(r).else))
    BY <1>1, MovedAlike
  <2> QED BY <1>3, <1>4, <2>1
<1>5. CASE /\ w.reason = "retry" /\ eng' = [eng EXCEPT ![r] = g] /\ vol' = [vol EXCEPT ![r] = v]
  <2>1. Alike(g, g)
    BY <1>1 DEF Alike
  <2> QED BY <1>3, <1>5, <2>1
<1>6. CASE /\ w.reason = "notify-retry" /\ e.notify = "pending" /\ e.seq < MaxSeq
           /\ eng' = [eng EXCEPT ![r] = Slept(r, Unwoken(e), "notify-retry")]
           /\ vol' = [vol EXCEPT ![r] = [b EXCEPT !.pc = "arm", !.handle = FALSE, !.timer = 0]]
  <2> DEFINE u == Unwoken(e)
             x == [b EXCEPT !.pc = "arm", !.handle = FALSE, !.timer = 0]
  <2>1. LooseRec(r, u) /\ u.status = e.status /\ u.notify = "pending" /\ u.seq < MaxSeq
    BY <1>6, OwnRecord DEF LooseRec, RecShape, EngFields, Unwoken, KidsIn
  <2>2. e.status \in EngTerminal
    BY <1>6, OwnRecord DEF RecShape
  <2>3. x \in EngVols /\ x.pc = "arm" /\ ~x.handle /\ x.up
    BY DEF EngVols
  <2>4. /\ vol'[r] = x /\ DOMAIN eng' = Runs /\ DOMAIN vol' = Runs
        /\ \A q \in Runs : q # r => eng'[q] = eng[q] /\ vol'[q] = vol[q]
    BY <1>6 DEF EngInv
  <2>5. RunIs(r) /\ DOMAIN eng = Runs /\ DOMAIN vol = Runs
    BY DEF EngInv, RunIs
  <2> HIDE DEF u, x
  <2>7. engAlarm'[r] \in {0, engAlarm[r]} /\ accepted' = accepted
    OBVIOUS
  <2>8. eng' = [eng EXCEPT ![r] = Slept(r, u, "notify-retry")]
    BY <1>6 DEF u
  <2>9. u.status \in EngTerminal
    BY <2>1, <2>2
  <2>6. /\ RunIs(r)' /\ eng'[r].kids = eng[r].kids /\ eng'[r].status = e.status
    BY <2>7, <2>8, <2>9, <2>1, <2>3, <2>4, <2>5, SleepOK
  <2> QED BY <2>4, <2>6 DEF LocalStep, EngInv
<1> QED BY <1>4, <1>5, <1>6 DEF ApplyWake

LEMMA EngWakeTickOK == ASSUME EngInv, NEW r \in Runs, EngWakeTick(r) PROVE LocalStep(r)
<1>1. vol[r].up /\ vol[r].pc = "idle" /\ UNCHANGED <<plan, engAlarm, wires, accepted, engFaults>>
  BY DEF EngWakeTick, EngIdle
<1>2. PICK t \in vol[r].ticks :
       /\ t.t = "wake"
       /\ \/ Honoured(r, t.token) /\ ApplyWake(r, Pop(r, t))
          \/ ~Honoured(r, t.token) /\ vol' = [vol EXCEPT ![r] = Pop(r, t)] /\ UNCHANGED eng
  BY DEF EngWakeTick
<1> DEFINE v == Pop(r, t)
<1>3. /\ v \in EngVols /\ v.pc = "idle" /\ v.up = vol[r].up /\ v.handle = vol[r].handle
      /\ v.timer = vol[r].timer /\ v.ticks = vol[r].ticks \ {t} /\ v.leave = vol[r].leave
  BY <1>1, OwnRecord DEF EngVols, Pop
<1>4. CASE Honoured(r, t.token) /\ ApplyWake(r, v)
  BY <1>1, <1>3, <1>4, WakeApplied DEF Honoured
<1>5. CASE ~Honoured(r, t.token) /\ vol' = [vol EXCEPT ![r] = v] /\ UNCHANGED eng
  <2> HIDE DEF v
  <2>1. VolOK(eng[r], v)
    BY <1>1, <1>2, <1>3, <1>5, OwnRecord DEF VolOK, Ringing, Tick, Honoured
  <2> QED BY <1>1, <1>5, <2>1, Still, Moves
<1> QED BY <1>2, <1>4, <1>5

LEMMA ReminderTurnOK == ASSUME EngInv, NEW r \in Runs, ReminderTurn(r) PROVE LocalStep(r)
<1>1. /\ vol[r].up /\ vol[r].pc = "idle" /\ UNCHANGED <<plan, engAlarm, accepted, engFaults>>
      /\ wires' \subseteq wires /\ vol[r] \in EngVols
  BY OwnRecord DEF ReminderTurn, EngIdle
<1>2. CASE eng[r].wake # NoEngWake /\ ApplyWake(r, vol[r])
  BY <1>1, <1>2, WakeApplied
<1>3. CASE UNCHANGED <<eng, vol>>
  BY <1>1, <1>3, Still, Stays
<1> QED BY <1>2, <1>3 DEF ReminderTurn, Honoured

LEMMA AdvanceArmed ==
  ASSUME EngInv, NEW r \in Runs, NEW ts \in Advancing(vol[r].ticks), UNCHANGED eng, Around(r),
         accepted'[r] = accepted[r], vol' = [vol EXCEPT ![r].ticks = ts], vol[r].up
  PROVE  LocalStep(r)
<1> DEFINE v == [vol[r] EXCEPT !.ticks = ts]
<1>1. ts \in SUBSET EngTicks /\ vol[r].ticks \subseteq ts
  BY OwnRecord DEF Advancing, Tick, EngTicks, EngVols
<1>2. /\ v \in EngVols /\ v.pc = vol[r].pc /\ v.up = vol[r].up /\ v.handle = vol[r].handle
      /\ v.timer = vol[r].timer /\ v.ticks = ts /\ v.leave = vol[r].leave
  BY <1>1, OwnRecord DEF EngVols
<1>3. vol' = [vol EXCEPT ![r] = v]
  OBVIOUS
<1> HIDE DEF v
<1>4. VolOK(eng[r], v)
  BY <1>1, <1>2, OwnRecord DEF VolOK, Ringing
<1> QED BY <1>3, <1>4, Moves

LEMMA JoinCheckTurnOK == ASSUME EngInv, NEW r \in Runs, JoinCheckTurn(r) PROVE LocalStep(r)
<1>1. PICK c \in wires :
       \/ /\ wires' = (wires \ {c}) \cup
                  {Wire(m, k, r) : m \in {"start", "status"}, k \in KidsIn(eng[r], "running")}
          /\ \E ts \in Advancing(vol[r].ticks) : vol' = [vol EXCEPT ![r].ticks = ts]
       \/ wires' = wires \ {c} /\ UNCHANGED vol
  BY DEF JoinCheckTurn
<1>2. vol[r].up /\ UNCHANGED <<plan, eng, engAlarm, accepted, engFaults>>
  BY DEF JoinCheckTurn, EngIdle
<1>3. KidsIn(eng[r], "running") \subseteq Runs
  BY OwnRecord, EngAssumption DEF KidsIn, RecShape
<1>4. \A d \in wires' : d \in wires \/ WireOK(d)'
  BY <1>1, <1>3 DEF WireOK, Wire
<1>5. Around(r)
  BY <1>2, <1>4 DEF Around, EngInv, RunOK
<1> QED BY <1>1, <1>2, <1>5, AdvanceArmed, Stays

\* nudge(), of an activation at rest with what ticks it has but "activate"
LEMMA NudgedOK ==
  ASSUME EngInv, NEW r \in Runs, Around(r), accepted'[r] = accepted[r], vol[r].up, vol[r].pc = "idle",
         ~vol[r].leave, NEW b \in EngVols, b.up, b.pc = "idle", ~b.leave, b.timer = vol[r].timer,
         b.handle = vol[r].handle, vol[r].ticks \ {Tick("activate")} \subseteq b.ticks,
         b.ticks = vol[r].ticks \/ b.ticks = vol[r].ticks \ {Tick("activate")},
         NEW overdue \in BOOLEAN, vol' = [vol EXCEPT ![r] = Nudged(r, b, overdue)],
         MarkedLost(r, overdue)
  PROVE  LocalStep(r)
<1> DEFINE e == eng[r]
           K == overdue /\ e.wake.kind = "reminder" /\ ~vol[r].handle /\ e.status \in Going
           f == [e EXCEPT !.wake.kind = IF K THEN "timer-fallback" ELSE @]
           v == Nudged(r, b, overdue)
           A == /\ e.wake # NoEngWake /\ ~b.handle /\ (e.status \in EngTerminal => e.notify = "pending")
                /\ (e.wake.kind # "reminder" \/ overdue)
           B == e.wake = NoEngWake /\ e.status \in Going
<1>1. eng' = [eng EXCEPT ![r] = f]
  BY DEF MarkedLost, EngInv
<1>2. /\ DOMAIN f = EngFields /\ f.status = e.status /\ f.seq = e.seq
      /\ f.wake = [e.wake EXCEPT !.kind = IF K THEN "timer-fallback" ELSE @]
      /\ f.kids = e.kids /\ f.join = e.join /\ f.inbox = e.inbox /\ f.got = e.got
      /\ f.notify = e.notify
  BY OwnRecord DEF RecShape, EngFields
<1>3. /\ f.wake \in EngWakes /\ f.wake.token = e.wake.token /\ f.wake.reason = e.wake.reason
      /\ f.wake.kind = IF K THEN "timer-fallback" ELSE e.wake.kind
  BY <1>2, OwnRecord DEF RecShape, EngWakes
<1>4. e.wake = NoEngWake => f.wake = NoEngWake
  BY <1>2 DEF NoEngWake
<1>5. f.wake = NoEngWake => e.wake = NoEngWake
  BY <1>3, OwnRecord DEF RecShape, NoEngWake
<1> HIDE DEF f, K
<1>6. RecOK(r, f, accepted'[r])
  <2>1. RecShape(r, f)
    BY <1>2, <1>3, <1>4, OwnRecord DEF RecShape
  <2>2. WakeFits(f) /\ JoinFits(f)
    BY <1>2, <1>3, <1>4, OwnRecord DEF WakeFits, JoinFits, KidsIn
  <2> QED BY <1>2, <2>1, <2>2, OwnRecord DEF RecOK
<1>7. VolOK(f, v)
  <2>1. CASE A
    <3>1. v = [b EXCEPT !.timer = e.wake.token, !.handle = TRUE]
      BY <2>1 DEF Nudged
    <3>2. /\ v \in EngVols /\ v.pc = "idle" /\ v.up /\ v.timer = f.wake.token
      BY <1>3, <3>1 DEF EngVols, EngWakes
    <3> HIDE DEF v
    <3> QED BY <3>2 DEF VolOK, Ringing
  <2>2. CASE B
    <3>1. v = [b EXCEPT !.ticks = @ \cup {Tick("advance")}]
      BY <2>2 DEF Nudged
    <3>2. /\ v \in EngVols /\ v.pc = "idle" /\ v.up
      BY <3>1 DEF EngVols, EngTicks, Tick
    <3> HIDE DEF v
    <3> QED BY <1>4, <2>2, <3>2, Awake
  <2>3. CASE ~A /\ ~B
    <3>1. v = b
      BY <2>3 DEF Nudged
    <3>2. CASE e.wake = NoEngWake
      BY <1>4, <3>1, <3>2, Awake
    <3>3. CASE e.wake # NoEngWake
      <4>1. e.status \in EngTerminal => e.notify = "pending"
        BY <3>3, OwnRecord DEF RecShape, WakeFits
      <4>2. ~K
        BY <2>3, <3>3, <4>1 DEF K
      <4>3. f.wake.token = e.wake.token /\ f.wake.kind = e.wake.kind
        BY <1>3, <4>2
      <4>4. vol[r].handle => Ringing(e, b)
        BY <3>3, OwnRecord DEF VolOK, Ringing, Tick
      <4>5. ~vol[r].handle => e.wake.kind = "reminder"
        BY <2>3, <3>3, <4>1
      <4> QED BY <3>1, <4>3, <4>4, <4>5 DEF VolOK, Ringing
    <3> QED BY <3>2, <3>3
  <2> QED BY <2>1, <2>2, <2>3
<1> QED BY <1>1, <1>2, <1>6, <1>7, Records DEF v

LEMMA ActivateTickOK == ASSUME EngInv, NEW r \in Runs, ActivateTick(r) PROVE LocalStep(r)
<1>1. /\ vol[r].up /\ vol[r].pc = "idle" /\ ~vol[r].leave
      /\ UNCHANGED <<plan, engAlarm, wires, accepted, engFaults>>
  BY DEF ActivateTick, EngIdle
<1>2. PICK overdue \in BOOLEAN :
       /\ vol' = [vol EXCEPT ![r] = Nudged(r, Pop(r, Tick("activate")), overdue)]
       /\ MarkedLost(r, overdue)
  BY DEF ActivateTick
<1> DEFINE b == Pop(r, Tick("activate"))
<1>3. /\ b \in EngVols /\ b.pc = "idle" /\ b.up = vol[r].up /\ b.handle = vol[r].handle
      /\ b.timer = vol[r].timer /\ b.ticks = vol[r].ticks \ {Tick("activate")} /\ b.leave = vol[r].leave
  BY <1>1, OwnRecord DEF EngVols, Pop
<1> HIDE DEF b
<1> QED BY <1>1, <1>2, <1>3, Still, NudgedOK DEF b

LEMMA StatusTurnOK == ASSUME EngInv, NEW r \in Runs, StatusTurn(r) PROVE LocalStep(r)
<1>1. /\ vol[r].up /\ vol[r].pc = "idle" /\ ~vol[r].leave /\ wires' \subseteq wires
      /\ UNCHANGED <<plan, engAlarm, accepted, engFaults>> /\ vol[r] \in EngVols
  BY OwnRecord DEF StatusTurn, EngIdle
<1>2. PICK overdue \in BOOLEAN :
        vol' = [vol EXCEPT ![r] = Nudged(r, vol[r], overdue)] /\ MarkedLost(r, overdue)
  BY DEF StatusTurn
<1> QED BY <1>1, <1>2, Still, NudgedOK

LEMMA StartTurnOK == ASSUME EngInv, NEW r \in Runs, StartTurn(r) PROVE LocalStep(r)
<1>1. /\ vol[r].up /\ vol[r].pc = "idle" /\ wires' \subseteq wires
      /\ UNCHANGED <<plan, engAlarm, accepted, engFaults>>
  BY DEF StartTurn, EngIdle
<1>2. CASE UNCHANGED <<eng, vol>>
  BY <1>1, <1>2, Still, Stays
<1>3. CASE /\ eng[r].status = "pending"
           /\ Became(r, [eng[r] EXCEPT !.status = "running", !.cursor = plan[r].start], "poke")
  <2> DEFINE e == eng[r]
             f == [e EXCEPT !.status = "running", !.cursor = plan[r].start]
             v == [vol[r] EXCEPT !.pc = "poke"]
  <2>1. eng' = [eng EXCEPT ![r] = f] /\ vol' = [vol EXCEPT ![r] = v]
    BY <1>3 DEF Became
  <2>2. /\ DOMAIN f = EngFields /\ f.status = "running" /\ f.seq = e.seq /\ f.wake = e.wake
        /\ f.kids = e.kids /\ f.join = e.join /\ f.inbox = e.inbox /\ f.got = e.got
        /\ f.notify = e.notify
    BY OwnRecord DEF RecShape, EngFields
  <2>3. v \in EngVols /\ v.pc = "poke" /\ v.up
    BY <1>1, OwnRecord DEF EngVols
  <2>4. e.status \notin EngTerminal /\ e.wake = NoEngWake /\ ~e.join /\ e.notify # "pending"
    BY <1>3, OwnRecord DEF EngTerminal, WakeFits, JoinFits, RecShape
  <2> HIDE DEF f, v
  <2>5. RecShape(r, f)
    BY <2>2, <2>4, OwnRecord DEF RecShape, EngStatus, Going
  <2>6. WakeFits(f) /\ JoinFits(f)
    BY <2>2, <2>4, OwnRecord DEF WakeFits, JoinFits, KidsIn, NoEngWake, EngTerminal
  <2>7. RecOK(r, f, accepted'[r])
    BY <1>1, <2>2, <2>5, <2>6, OwnRecord DEF RecOK
  <2>8. VolOK(f, v)
    BY <2>2, <2>3, <2>4, Awake
  <2> QED BY <1>1, <2>1, <2>2, <2>4, <2>7, <2>8, Still, Records
<1> QED BY <1>2, <1>3 DEF StartTurn, Startable

LEMMA SignalTurnOK == ASSUME EngInv, NEW r \in Runs, SignalTurn(r) PROVE LocalStep(r)
<1>1. /\ vol[r].up /\ vol[r].pc = "idle" /\ wires' \subseteq wires
      /\ UNCHANGED <<plan, engAlarm, engFaults>>
  BY DEF SignalTurn, EngIdle
<1>2. CASE UNCHANGED <<eng, vol, accepted>>
  BY <1>1, <1>2, Still, Stays
<1>3. CASE /\ \E pc \in {"poke", "idle"} : Became(r, Kept(r), pc)
           /\ accepted' = [accepted EXCEPT ![r] = @ + 1]
  <2> PICK pc \in {"poke", "idle"} : Became(r, Kept(r), pc)
    BY <1>3
  <2> DEFINE e == eng[r]
             f == Kept(r)
             v == [vol[r] EXCEPT !.pc = pc]
  <2>1. eng' = [eng EXCEPT ![r] = f] /\ vol' = [vol EXCEPT ![r] = v]
    BY DEF Became
  <2>2. /\ DOMAIN f = EngFields /\ f.status = e.status /\ f.seq = e.seq /\ f.wake = e.wake
        /\ f.kids = e.kids /\ f.join = e.join /\ f.inbox = e.inbox + 1 /\ f.got = e.got
        /\ f.notify = e.notify
    BY OwnRecord DEF RecShape, EngFields, Kept
  <2>3. /\ v \in EngVols /\ v.pc = pc /\ v.up = vol[r].up /\ v.handle = vol[r].handle
        /\ v.timer = vol[r].timer /\ v.ticks = vol[r].ticks /\ v.leave = vol[r].leave
    BY <1>1, OwnRecord DEF EngVols
  <2>4. /\ DOMAIN accepted' = Runs /\ accepted'[r] = accepted[r] + 1
        /\ \A q \in Runs : q # r => accepted'[q] = accepted[q]
    BY <1>3 DEF EngInv
  <2>5. Around(r)
    BY <1>1, <2>4 DEF Around, EngInv, RunOK
  <2> HIDE DEF f, v
  <2>6. RecShape(r, f)
    BY <2>2, OwnRecord DEF RecShape
  <2>7. WakeFits(f) /\ JoinFits(f)
    BY <2>2, OwnRecord DEF WakeFits, JoinFits, KidsIn
  <2>8. RecOK(r, f, accepted'[r])
    <3>1. e.inbox \in Int /\ e.got \in Int /\ accepted[r] = e.inbox + e.got
      BY OwnRecord DEF RecShape
    <3>2. accepted'[r] = f.inbox + f.got
      BY <2>2, <2>4, <3>1
    <3> QED BY <2>6, <2>7, <3>2 DEF RecOK
  <2>9. VolOK(f, v)
    BY <1>1, <2>2, <2>3, OwnRecord DEF VolOK, Ringing
  <2> QED BY <2>1, <2>2, <2>5, <2>8, <2>9, Records
<1> QED BY <1>2, <1>3 DEF SignalTurn

LEMMA NotifiedTickOK == ASSUME EngInv, NEW r \in Runs, NotifiedTick(r) PROVE LocalStep(r)
<1> DEFINE n == Tick("notified")
           p == Pop(r, n)
           e == eng[r]
<1>1. /\ vol[r].up /\ vol[r].pc = "idle" /\ UNCHANGED <<plan, engAlarm, wires, accepted, engFaults>>
  BY DEF NotifiedTick, EngIdle
<1>2. /\ p \in EngVols /\ p.pc = "idle" /\ p.up = vol[r].up /\ p.handle = vol[r].handle
      /\ p.timer = vol[r].timer /\ p.ticks = vol[r].ticks \ {n} /\ p.leave = vol[r].leave
  BY <1>1, OwnRecord DEF EngVols, Pop
<1>3. CASE /\ e.notify = "pending"
           /\ eng' = [eng EXCEPT ![r] = [Unwoken(@) EXCEPT !.notify = "sent"]]
           /\ vol' = [vol EXCEPT ![r] = [p EXCEPT !.timer = 0, !.handle = FALSE, !.leave = TRUE]]
  <2> DEFINE f == [Unwoken(e) EXCEPT !.notify = "sent"]
             v == [p EXCEPT !.timer = 0, !.handle = FALSE, !.leave = TRUE]
  <2>1. eng' = [eng EXCEPT ![r] = f] /\ vol' = [vol EXCEPT ![r] = v]
    BY <1>3 DEF EngInv
  <2>2. /\ DOMAIN f = EngFields /\ f.status = e.status /\ f.seq = e.seq /\ f.wake = NoEngWake
        /\ f.kids = e.kids /\ f.join = e.join /\ f.inbox = e.inbox /\ f.got = e.got
        /\ f.notify = "sent"
    BY OwnRecord DEF RecShape, EngFields, Unwoken
  <2>3. v \in EngVols /\ v.up /\ v.pc = "idle"
    BY <1>1, <1>2 DEF EngVols
  <2>4. e.status \in EngTerminal
    BY <1>3, OwnRecord DEF RecShape
  <2> HIDE DEF f, v
  <2>5. RecShape(r, f)
    BY <2>2, OwnRecord DEF RecShape, NoEngWake, EngWakes
  <2>6. WakeFits(f) /\ JoinFits(f)
    BY <2>2, <2>4, OwnRecord DEF WakeFits, JoinFits, KidsIn, NoEngWake, EngTerminal
  <2>7. RecOK(r, f, accepted'[r])
    BY <1>1, <2>2, <2>5, <2>6, OwnRecord DEF RecOK
  <2>8. VolOK(f, v)
    BY <2>2, <2>3, Awake
  <2> QED BY <1>1, <2>1, <2>2, <2>7, <2>8, Still, Records
<1>4. CASE vol' = [vol EXCEPT ![r] = p] /\ UNCHANGED eng
  <2> HIDE DEF p
  <2>1. VolOK(e, p)
    BY <1>1, <1>2, OwnRecord DEF VolOK, Ringing, Tick
  <2> QED BY <1>1, <1>4, <2>1, Still, Moves
<1> QED BY <1>3, <1>4 DEF NotifiedTick

LEMMA CancelTurnOK == ASSUME EngInv, NEW r \in Runs, CancelTurn(r) PROVE LocalStep(r)
<1>1. /\ vol[r].up /\ wires' \subseteq wires /\ UNCHANGED <<plan, accepted>>
  BY DEF CancelTurn, EngIdle
<1>2. CASE NoEngFault /\ UNCHANGED <<eng, vol, engAlarm>>
  BY <1>1, <1>2, Still, Stays DEF NoEngFault
<1>3. CASE eng[r].status \notin EngTerminal /\ Finish(r, eng[r], "cancelled")
  BY <1>1, <1>3, OwnRecord, Finishes DEF EngTerminal
<1> QED BY <1>2, <1>3 DEF CancelTurn

------------------------------------------------------------------------------
(* The runtime around the runs. *)

LEMMA FireTimerOK == ASSUME EngInv, NEW r \in Runs, FireTimer(r) PROVE LocalStep(r)
<1> DEFINE t == [t |-> "wake", token |-> vol[r].timer]
           v == [vol[r] EXCEPT !.timer = 0, !.ticks = @ \cup {t}]
<1>1. /\ vol[r].up /\ UNCHANGED <<plan, eng, engAlarm, wires, accepted, engFaults>>
      /\ vol' = [vol EXCEPT ![r] = v]
  BY DEF FireTimer, EngInv
<1>2. t \in EngTicks
  BY OwnRecord DEF EngTicks, EngVols
<1>3. /\ v \in EngVols /\ v.pc = vol[r].pc /\ v.up = vol[r].up /\ v.handle = vol[r].handle
      /\ v.timer = 0 /\ v.ticks = vol[r].ticks \cup {t} /\ v.leave = vol[r].leave
  BY <1>2, OwnRecord DEF EngVols
<1> HIDE DEF v
<1>4. VolOK(eng[r], v)
  BY <1>1, <1>3, OwnRecord DEF VolOK, Ringing
<1> QED BY <1>1, <1>4, Still, Moves

LEMMA FireReminderOK == ASSUME EngInv, NEW r \in Runs, FireReminder(r) PROVE LocalStep(r)
<1>1. \A d \in wires' : d \in wires \/ WireOK(d)'
  BY DEF FireReminder, WireOK
<1>2. Around(r)
  BY <1>1 DEF FireReminder, Around, EngInv, RunOK, RecOK, RecShape
<1> QED BY <1>2, Stays DEF FireReminder

LEMMA FireWatchdogOK == ASSUME EngInv, NEW r \in Runs, FireWatchdog(r) PROVE LocalStep(r)
<1>1. \A d \in wires' : d \in wires \/ WireOK(d)'
  BY DEF FireWatchdog, WireOK, Wire
<1>2. Around(r)
  BY <1>1 DEF FireWatchdog, Around, EngInv, RunOK
<1> QED BY <1>2, Stays DEF FireWatchdog

LEMMA OutsideOK == ASSUME EngInv, NEW r \in Runs, Outside(r) PROVE LocalStep(r)
<1>1. \A d \in wires' : d \in wires \/ WireOK(d)'
  BY DEF Outside, WireOK, Wire
<1>2. Around(r)
  BY <1>1, FaultsCounted DEF Outside, Around, EngInv, RunOK
<1> QED BY <1>2, Stays DEF Outside

LEMMA EngActivateOK == ASSUME EngInv, NEW r \in Runs, EngActivate(r) PROVE LocalStep(r)
<1> DEFINE v == Fresh(r)
<1>1. vol' = [vol EXCEPT ![r] = v] /\ UNCHANGED <<plan, eng, engAlarm, wires, accepted, engFaults>>
  BY DEF EngActivate
<1>2. /\ v \in EngVols /\ v.up /\ v.pc = "idle"
      /\ eng[r].status # "pending" => Tick("activate") \in v.ticks
      /\ ~v.handle
  <2> DEFINE ts == IF eng[r].status = "pending" THEN {} ELSE {[t |-> "activate", token |-> 0]}
  <2>1. ts \in SUBSET EngTicks /\ (eng[r].status # "pending" => Tick("activate") \in ts)
    BY DEF EngTicks, Tick
  <2>2. v = [Absent EXCEPT !.up = TRUE, !.ticks = ts]
    BY DEF Fresh
  <2> HIDE DEF ts, v
  <2> QED BY <2>1, <2>2 DEF Absent, EngVols
<1> HIDE DEF v
<1>3. VolOK(eng[r], v)
  BY <1>2, OwnRecord DEF VolOK, WakeFits
<1> QED BY <1>1, <1>3, Still, Moves

LEMMA GoneOK ==
  ASSUME EngInv, NEW r \in Runs, Fault \/ NoEngFault, vol' = [vol EXCEPT ![r] = Absent],
         wires' = Orphaned(r), UNCHANGED <<plan, eng, engAlarm, accepted>>
  PROVE  LocalStep(r)
<1>1. \A d \in wires' : d \in wires \/ WireOK(d)'
  <2> SUFFICES ASSUME NEW c \in wires, c.m = "childDone"
               PROVE  WireOK([c EXCEPT !.m = "childDone-orphan"])'
    BY DEF Orphaned
  <2> QED BY DEF EngInv, WireOK
<1>2. Around(r)
  BY <1>1, FaultsCounted DEF Around, EngInv, RunOK
<1>3. VolOK(eng[r], Absent)
  BY DEF VolOK, Absent, EngVols
<1> QED BY <1>2, <1>3, Moves

LEMMA LeaveOK == ASSUME EngInv, NEW r \in Runs, Leave(r) PROVE LocalStep(r)
BY GoneOK DEF Leave, NoEngFault

LEMMA EngCrashOK == ASSUME EngInv, NEW r \in Runs, Crash(r) PROVE LocalStep(r)
BY GoneOK DEF Crash

\* No verdict is taken back by a step.
Standing == \A q \in Runs : eng[q].status \in EngTerminal => eng'[q].status = eng[q].status

LEMMA LoseCallOK == ASSUME EngInv, LoseCall PROVE EngInv' /\ Standing
<1>1. wires' \subseteq wires /\ UNCHANGED <<plan, eng, vol, engAlarm, accepted>> /\ Fault
  BY DEF LoseCall
<1>2. engFaults' \in 0..EngBudget[plan]
  BY <1>1, FaultsCounted
<1> QED BY <1>1, <1>2 DEF EngInv, VerdictIsSaved, WireOK, Standing

\* childDone() moves two runs: the parent's record takes the verdict, and the
\* activation of the child that asked gets the answer.
LEMMA ChildDoneTurnOK == ASSUME EngInv, NEW r \in Runs, ChildDoneTurn(r) PROVE EngInv' /\ Standing
<1>1. PICK c \in wires :
       /\ c.m \in {"childDone", "childDone-orphan"} /\ c.to = r
       /\ wires' = wires \ {c}
       /\ LET k == c.from
              news == eng[r].kids[k] = "running"
              told == IF c.m = "childDone" /\ vol[k].up
                      THEN [vol EXCEPT ![k].ticks = @ \cup {Tick("notified")}] ELSE vol
          IN /\ eng' = IF news THEN [eng EXCEPT ![r].kids[k] = VerdictOf(k)] ELSE eng
             /\ vol' = [told EXCEPT ![r].pc = IF news /\ eng[r].status = "blocked"
                                              THEN "poke" ELSE "idle"]
  BY DEF ChildDoneTurn
<1> DEFINE k == c.from
           e == eng[r]
           news == e.kids[k] = "running"
           tells == c.m = "childDone" /\ vol[k].up
           pc == IF news /\ e.status = "blocked" THEN "poke" ELSE "idle"
           told == IF tells THEN [vol EXCEPT ![k].ticks = @ \cup {Tick("notified")}] ELSE vol
           f == [e EXCEPT !.kids = [e.kids EXCEPT ![k] = VerdictOf(k)]]
<1>2. /\ k \in Runs /\ eng[k].status \in EngTerminal /\ UNCHANGED <<plan, engAlarm, accepted, engFaults>>
      /\ vol[r].up /\ vol[r].pc = "idle" /\ DOMAIN eng = Runs /\ DOMAIN vol = Runs
  BY <1>1 DEF EngInv, WireOK, ChildDoneTurn, EngIdle
<1>3. /\ DOMAIN f = EngFields /\ f.status = e.status /\ f.seq = e.seq /\ f.wake = e.wake
      /\ f.kids = [e.kids EXCEPT ![k] = VerdictOf(k)] /\ f.join = e.join
      /\ f.inbox = e.inbox /\ f.got = e.got /\ f.notify = e.notify
  BY OwnRecord DEF RecShape, EngFields
<1>4. eng' = IF news THEN [eng EXCEPT ![r] = f] ELSE eng
  BY <1>1, <1>2
<1>5. DOMAIN eng' = Runs /\ \A q \in Runs : q # r => eng'[q] = eng[q]
  BY <1>2, <1>4
<1> HIDE DEF f
<1>6. Standing
  BY <1>2, <1>3, <1>4 DEF Standing
<1>7. \A q \in Runs : eng'[q].status = eng[q].status /\ eng'[q].wake = eng[q].wake /\ eng'[q].seq = eng[q].seq
  BY <1>2, <1>3, <1>4
<1>8. \A q \in Runs : RecOK(q, eng'[q], accepted[q])
  <2>1. VerdictOf(k) \in {"done", "failed"}
    BY DEF VerdictOf
  <2>2. RecShape(r, f)
    BY <1>3, OwnRecord DEF RecShape
  <2>3. KidsIn(f, "running") \subseteq KidsIn(e, "running")
    BY <1>3, <2>1, OwnRecord DEF KidsIn, RecShape
  <2>4. WakeFits(f) /\ JoinFits(f)
    BY <1>3, <2>3, OwnRecord DEF WakeFits, JoinFits
  <2>5. RecOK(r, f, accepted[r])
    BY <1>3, <2>2, <2>4, OwnRecord DEF RecOK
  <2> QED BY <1>2, <1>4, <2>5, OwnRecord
<1>9. VerdictIsSaved'
  <2> SUFFICES ASSUME NEW q \in Runs, NEW x \in KidsOf[q]
               PROVE  /\ eng'[q].kids[x] = "done" => eng'[x].status = "completed"
                      /\ eng'[q].kids[x] = "failed" => eng'[x].status \in EngTerminal \ {"completed"}
    BY DEF VerdictIsSaved
  <2>1. x \in Runs
    BY EngAssumption
  <2>2. CASE eng'[q].kids[x] = eng[q].kids[x]
    BY <1>7, <2>1, <2>2 DEF EngInv, VerdictIsSaved
  <2>3. CASE q = r /\ x = k /\ eng'[q].kids[x] = VerdictOf(k)
    BY <1>2, <1>7, <2>3 DEF VerdictOf, EngTerminal
  <2> QED BY <1>2, <1>3, <1>4, <2>2, <2>3, OwnRecord DEF RecShape
<1>10. \A q \in Runs : VolOK(eng'[q], vol'[q])
  <2>1. DOMAIN told = Runs
    BY <1>2
  <2>2. vol' = [told EXCEPT ![r].pc = pc]
    BY <1>1
  <2>3. SUFFICES ASSUME NEW q \in Runs PROVE VolOK(eng[q], vol'[q])
    BY <1>7 DEF VolOK, Ringing
  <2> DEFINE ts == IF tells /\ q = k THEN vol[q].ticks \cup {Tick("notified")} ELSE vol[q].ticks
             p == IF q = r THEN pc ELSE vol[q].pc
  <2>4. vol[q] \in EngVols /\ VolOK(eng[q], vol[q])
    BY OwnRecord
  <2>5. ts \in SUBSET EngTicks /\ vol[q].ticks \subseteq ts
    BY <2>4 DEF EngVols, EngTicks, Tick
  <2>6. told[q] = IF tells /\ q = k THEN [vol[q] EXCEPT !.ticks = ts] ELSE vol[q]
    BY <1>2
  <2>7. /\ told[q] \in EngVols /\ told[q].pc = vol[q].pc /\ told[q].up = vol[q].up
        /\ told[q].handle = vol[q].handle /\ told[q].timer = vol[q].timer /\ told[q].ticks = ts
        /\ told[q].leave = vol[q].leave
    BY <2>4, <2>5, <2>6 DEF EngVols
  <2>8. vol'[q] = IF q = r THEN [told[q] EXCEPT !.pc = pc] ELSE told[q]
    BY <2>1, <2>2
  <2> HIDE DEF told
  <2>9. /\ vol'[q] \in EngVols /\ vol'[q].pc = p /\ vol'[q].up = vol[q].up
        /\ vol'[q].handle = vol[q].handle /\ vol'[q].timer = vol[q].timer /\ vol'[q].ticks = ts
        /\ vol'[q].leave = vol[q].leave
    BY <2>7, <2>8 DEF EngVols
  <2>10. CASE ~vol[q].up
    <3>1. q # r /\ ts = vol[q].ticks
      BY <1>2, <2>10
    <3>2. vol'[q] = vol[q]
      BY <3>1, <2>6, <2>8, <2>10
    <3> QED BY <2>4, <3>2
  <2>11. CASE vol[q].up
    BY <1>2, <2>4, <2>5, <2>9, <2>11 DEF VolOK, Ringing
  <2> QED BY <2>10, <2>11
<1>11. \A d \in wires' : WireOK(d)'
  BY <1>1, <1>6 DEF EngInv, WireOK, Standing
<1>12. DOMAIN vol' = Runs
  BY <1>1, <1>2
<1> QED BY <1>2, <1>5, <1>6, <1>7, <1>8, <1>9, <1>10, <1>11, <1>12 DEF EngInv, RunOK

LEMMA EngStep == ASSUME EngInv, [EngNext]_engVars PROVE EngInv' /\ Standing
<1>1. CASE LoseCall
  BY <1>1, LoseCallOK
<1>2. ASSUME NEW r \in Runs, LocalStep(r) PROVE EngInv' /\ Standing
  BY <1>2, LocalKeeps DEF Standing
<1>3. ASSUME NEW r \in Runs, ChildDoneTurn(r) PROVE EngInv' /\ Standing
  BY <1>3, ChildDoneTurnOK
<1>4. ASSUME NEW r \in Runs,
             \/ ResolveJoin(r) \/ ResolveWait(r) \/ ResolveSleep(r) \/ DriveEnds(r)
             \/ ExecuteLocal(r) \/ ExecuteWork(r) \/ WorkDone(r) \/ ExecuteChildren(r)
             \/ Spawn(r) \/ Watch(r) \/ Arm(r) \/ Finished(r) \/ Poke(r) \/ Throws(r)
      PROVE  LocalStep(r)
  BY <1>4, ResolveJoinOK, ResolveWaitOK, ResolveSleepOK, DriveEndsOK, ExecuteLocalOK, ExecuteWorkOK,
    WorkDoneOK, ExecuteChildrenOK, SpawnOK, WatchOK, ArmOK, FinishedOK, PokeOK, ThrowsOK
<1>5. ASSUME NEW r \in Runs,
             \/ EngTick(r) \/ EngWakeTick(r) \/ ReminderTurn(r) \/ JoinCheckTurn(r)
             \/ ActivateTick(r) \/ StatusTurn(r) \/ StartTurn(r) \/ SignalTurn(r)
             \/ NotifiedTick(r) \/ CancelTurn(r)
             \/ FireTimer(r) \/ FireReminder(r) \/ FireWatchdog(r) \/ EngActivate(r)
             \/ Leave(r) \/ Crash(r) \/ Outside(r)
      PROVE  LocalStep(r)
  BY <1>5, EngTickOK, EngWakeTickOK, ReminderTurnOK, JoinCheckTurnOK, ActivateTickOK, StatusTurnOK,
    StartTurnOK, SignalTurnOK, NotifiedTickOK, CancelTurnOK, FireTimerOK, FireReminderOK,
    FireWatchdogOK, EngActivateOK, LeaveOK, EngCrashOK, OutsideOK
<1>6. CASE UNCHANGED engVars
  BY <1>6 DEF engVars, EngInv, VerdictIsSaved, WireOK, Standing, RunOK
<1> QED BY <1>1, <1>2, <1>3, <1>4, <1>5, <1>6 DEF EngNext

LEMMA EngPromises == EngInv => /\ EngTypeOK /\ ParkedHasItsWake /\ ResidentIsArmed
                              /\ VerdictIsSaved /\ JoinWaitsForAll /\ SignalKept
<1> SUFFICES ASSUME EngInv PROVE /\ EngTypeOK /\ ParkedHasItsWake /\ ResidentIsArmed
                                 /\ VerdictIsSaved /\ JoinWaitsForAll /\ SignalKept
  OBVIOUS
<1>1. EngTypeOK
  BY EngAssumption DEF EngInv, EngTypeOK, RunOK, RecOK, RecShape, WakeFits, JoinFits, VolOK, WireOK,
    EngStatus, EngVols, EngWakes, Absent
<1>2. ParkedHasItsWake
  BY OwnRecord DEF ParkedHasItsWake, WakeFits, NoEngWake
<1>3. ResidentIsArmed
  BY OwnRecord DEF ResidentIsArmed, VolOK, EngIdle, Ringing
<1>4. JoinWaitsForAll
  BY OwnRecord DEF JoinWaitsForAll, JoinFits
<1>5. SignalKept
  BY OwnRecord DEF SignalKept
<1> QED BY <1>1, <1>2, <1>3, <1>4, <1>5 DEF EngInv

LEMMA EngInitially == ASSUME EngInit PROVE EngInv
<1>1. /\ plan \in Plans /\ engFaults \in 0..EngBudget[plan] /\ accepted = [r \in Runs |-> 0]
      /\ engAlarm = [r \in Runs |-> 0] /\ vol = [r \in Runs |-> Absent] /\ DOMAIN eng = Runs
  BY EngAssumption DEF EngInit
<1>2. \A r \in Runs : /\ DOMAIN eng[r] = EngFields /\ eng[r].status = "pending" /\ eng[r].seq = 0
                      /\ eng[r].wake = NoEngWake /\ eng[r].kids = [k \in KidsOf[r] |-> "none"]
                      /\ eng[r].join = FALSE /\ eng[r].inbox = 0 /\ eng[r].got = 0
                      /\ eng[r].notify = "none"
  BY DEF EngInit, EngFields
<1>3. ASSUME NEW r \in Runs PROVE RunOK(r, eng[r], vol[r], engAlarm[r], accepted[r])
  <2> DEFINE e == eng[r]
             v == vol[r]
  <2>1. /\ DOMAIN e = EngFields /\ e.status = "pending" /\ e.seq = 0 /\ e.wake = NoEngWake
        /\ e.kids = [k \in KidsOf[r] |-> "none"] /\ e.join = FALSE /\ e.inbox = 0 /\ e.got = 0
        /\ e.notify = "none" /\ v = Absent /\ engAlarm[r] = 0 /\ accepted[r] = 0
    BY <1>1, <1>2
  <2> HIDE DEF e, v
  <2>2. NoEngWake \in EngWakes /\ NoEngWake.token = 0 /\ NoEngWake.reason = "none"
    BY DEF NoEngWake, EngWakes
  <2>3. RecShape(r, e)
    <3>1. DOMAIN e.kids = KidsOf[r] /\ e.seq <= MaxSeq /\ e.wake.token <= e.seq
      BY <2>1, <2>2, EngAssumption
    <3>2. e.wake \in EngWakes /\ e.status \in EngStatus /\ e.notify # "pending"
      BY <2>1, <2>2 DEF EngStatus
    <3>3. e.seq = 0 /\ e.inbox = 0 /\ e.got = 0 /\ e.join = FALSE
      BY <2>1
    <3>4. e.seq \in Nat /\ e.inbox \in Int /\ e.got \in Int
      BY <3>3
    <3>5. e.join \in BOOLEAN
      BY <3>3
    <3> QED BY <2>1, <3>1, <3>2, <3>4, <3>5 DEF RecShape
  <2>4. WakeFits(e)
    BY <2>1, <2>2 DEF WakeFits, EngTerminal
  <2>5. JoinFits(e)
    BY <2>1 DEF JoinFits, KidsIn
  <2>6. VolOK(e, v)
    BY <2>1 DEF VolOK, Absent, EngVols
  <2> QED BY <2>1, <2>3, <2>4, <2>5, <2>6 DEF RunOK, RecOK, e, v
<1>7. VerdictIsSaved
  BY <1>2, EngAssumption DEF VerdictIsSaved
<1>8. \A c \in wires : WireOK(c)
  BY DEF EngInit, WireOK, Wire
<1> QED BY <1>1, <1>3, <1>7, <1>8 DEF EngInv

------------------------------------------------------------------------------
(* The group: one component moves, the others stand still.                 *)

SchedInv ==
  /\ focus = "jobs" => JobInv
  /\ focus # "jobs" => disk = FreshJob
  /\ focus = "engine" => EngInv
  /\ focus # "engine" => \A r \in Runs : eng[r].status = Off

LEMMA SchedInitially == SchedInit => SchedInv
<1> SUFFICES ASSUME SchedInit PROVE SchedInv
  OBVIOUS
<1>1. focus = "jobs" => JobInv
  BY JobInitially DEF SchedInit
<1>2. focus # "jobs" => disk = FreshJob
  BY DEF SchedInit, JobOff
<1>3. focus = "engine" => EngInv
  BY EngInitially DEF SchedInit
<1>4. focus # "engine" => \A r \in Runs : eng[r].status = Off
  BY DEF SchedInit, EngOff
<1> QED BY <1>1, <1>2, <1>3, <1>4 DEF SchedInv

JobStill == UNCHANGED jobVars
EngStill == UNCHANGED engVars

\* Who moves in a step of the group.
LEMMA OneMoves ==
  ASSUME [SchedNext]_schedVars
  PROVE  /\ focus' = focus
         /\ JobStill \/ (focus = "jobs" /\ JobNext)
         /\ EngStill \/ (focus = "engine" /\ EngNext)
BY DEF SchedNext, schedVars, JobStill, EngStill

LEMMA SchedStep ==
  ASSUME SchedInv, [SchedNext]_schedVars
  PROVE  SchedInv' /\ (JobStill \/ VerdictMove) /\ (EngStill \/ Standing)
<1>1. CASE focus = "jobs"
  <2>1. JobInv' /\ (JobStill \/ VerdictMove)
    <3>1. CASE JobStill
      BY <1>1, <3>1 DEF SchedInv, JobStill, jobVars, JobInv, JobShape, DownIsIdle, VerdictHeld,
        LaunchesRun, CkptKept
    <3>2. CASE JobNext
      BY <1>1, <3>2, JobStep DEF SchedInv
    <3> QED BY <3>1, <3>2, OneMoves
  <2>2. EngStill
    BY <1>1, OneMoves
  <2> QED BY <1>1, <2>1, <2>2, OneMoves DEF SchedInv, EngStill, engVars
<1>2. CASE focus = "engine"
  <2>1. EngInv' /\ Standing
    BY <1>2, OneMoves, EngStep DEF SchedInv, EngStill
  <2>2. JobStill
    BY <1>2, OneMoves
  <2> QED BY <1>2, <2>1, <2>2, OneMoves DEF SchedInv, JobStill, jobVars
<1>3. CASE focus \notin {"jobs", "engine"}
  <2>1. JobStill /\ EngStill
    BY <1>3, OneMoves
  <2> QED BY <1>3, <2>1, OneMoves DEF SchedInv, JobStill, jobVars, EngStill, engVars
<1> QED BY <1>1, <1>2, <1>3

LEMMA SchedAlways == SchedSpec => []SchedInv
<1>1. SchedInv /\ [SchedNext]_schedVars => SchedInv'
  BY SchedStep
<1> QED BY <1>1, SchedInitially, PTL DEF SchedSpec

\* A job's verdict, once saved, goes only with a discard and no later write takes a
\* checkpoint back; a run of the engine that has ended stays ended as it did: no
\* late body, wake, signal, cancel or second start replaces either (jobs.ts's
\* saveTransition and finish, run.actor.ts's finish and guarded).
THEOREM VerdictsAreFinal == SchedSpec => VerdictsStand
<1>1. SchedInv /\ [SchedNext]_schedVars => [VerdictMove]_jobVars
  BY SchedStep DEF JobStill
<1>2. SchedInv /\ [SchedNext]_schedVars
        => [\A r \in Runs : eng[r].status \in EngTerminal => eng'[r].status = eng[r].status]_engVars
  BY SchedStep DEF EngStill, Standing
<1>3. SchedSpec => VerdictStands
  <2>1. SchedSpec => [][VerdictMove]_jobVars
    BY <1>1, SchedAlways, PTL DEF SchedSpec
  <2> QED BY <2>1 DEF VerdictStands, VerdictMove
<1>4. SchedSpec => TerminalStands
  BY <1>2, SchedAlways, PTL DEF SchedSpec, TerminalStands
<1> QED BY <1>3, <1>4 DEF VerdictsStand

\* A run of the engine that is parked has its wake in the saved record, one in
\* memory has the timer of that wake, a parent books only verdicts its children
\* have saved, passes a join when none is under way, and keeps every signal it
\* accepted (run.actor.ts's sleep, arm, nudge, childDone and signal).
THEOREM EngineIsSound == SchedSpec => []EngineStrandsNobody
<1>1. SchedInv => EngineStrandsNobody
  BY EngPromises DEF SchedInv, EngineStrandsNobody
<1> QED BY <1>1, SchedAlways, PTL
=============================================================================
