--------------------------------- MODULE Jobs ---------------------------------
(***************************************************************************)
(* A durable job (job/define-job.ts): an actor whose state record is its    *)
(* task ledger.  Its methods and every step of its run body are serialized  *)
(* turns that save explicitly; the body itself runs detached, resumes after  *)
(* a crash, and is refused once it has used up maxAttempts.                 *)
(*                                                                         *)
(* run() follows the documented form: it observes its signal, and returns    *)
(* what job.pause() gave it at once, so that its task is released before a   *)
(* later resume() has saved.                                                *)
(***************************************************************************)
EXTENDS Integers

CONSTANTS MaxAttempts,      \* options.maxAttempts
          Retains,          \* options.retainMs is set
          MaxCheckpoints,   \* job.checkpoint() calls
          MaxPauses,        \* job.pause() calls
          MaxJobCrashes, MaxJobFaults, MaxJobActs   \* crashes, failed calls, activations

ASSUME JobsAssumption ==
    /\ MaxAttempts \in Nat \ {0} /\ Retains \in BOOLEAN /\ MaxCheckpoints \in Nat
    /\ MaxPauses \in Nat /\ MaxJobCrashes \in Nat /\ MaxJobFaults \in Nat /\ MaxJobActs \in Nat

VARIABLES
    disk,      \* the saved job state: [status, attempts, ckpt]
    job,       \* the live one, while active
    up,        \* "down", "up" or "closing"
    turn,      \* the turn that holds the actor: [op, step, prior]
    run,       \* the task run: [stage, attempt, abort]
    listed,    \* the actor is on the host's task roster
    retain,    \* the retention reminder is armed
    settledAt, \* terminal transitions onSettled was told of
    invoked,   \* times options.run was called
    resumes,   \* of which after a pause
    ackedCkpt, \* the last checkpoint that resolved
    jobBound   \* counters of the bounds
jobVars == <<disk, job, up, turn, run, listed, retain, settledAt, invoked, resumes,
             ackedCkpt, jobBound>>

Terminal == {"completed", "failed", "cancelled"}
JobStatus == {"pending", "running", "paused"} \cup Terminal
FreshJob == [status |-> "pending", attempts |-> 0, ckpt |-> 0]
NoTurn == [op |-> "none", step |-> "none", prior |-> FreshJob]
NoRun == [stage |-> "none", attempt |-> 0, abort |-> "no"]
Idle == turn = NoTurn

JobFault == /\ jobBound.faults < MaxJobFaults
            /\ jobBound' = [jobBound EXCEPT !.faults = @ + 1]

JobInit ==
    /\ disk = FreshJob /\ job = FreshJob /\ up = "down" /\ turn = NoTurn /\ run = NoRun
    /\ listed = FALSE /\ retain = FALSE /\ settledAt = 0 /\ invoked = 0 /\ resumes = 0
    /\ ackedCkpt = 0
    /\ jobBound = [crashes |-> 0, faults |-> 0, acts |-> 0, pauses |-> 0]

-----------------------------------------------------------------------------
(* Method turns                                                              *)

\* The edit a turn makes before it saves.  A finish is terminal bookkeeping.
BeginTurn(op, edited) ==
    /\ turn' = [op |-> op, step |-> "save", prior |-> job]
    /\ job' = edited
    /\ UNCHANGED <<disk, up, run, listed, retain, settledAt, invoked, resumes, ackedCkpt,
                   jobBound>>

JobOpen == up = "up" /\ Idle

Start ==
    /\ JobOpen /\ job.status = "pending"
    /\ BeginTurn("start", [job EXCEPT !.status = "running", !.attempts = 1])

Resume ==
    /\ JobOpen /\ job.status = "paused"
    /\ BeginTurn("resume", [job EXCEPT !.status = "running"])

Cancel ==
    /\ JobOpen /\ job.status \in {"running", "paused"}
    /\ BeginTurn("cancelled", [job EXCEPT !.status = "cancelled"])

\* discard(), and the retention reminder on a terminal job
Discard(byReminder) ==
    /\ JobOpen /\ job.status \in Terminal
    /\ byReminder => retain
    /\ turn' = [op |-> "discard", step |-> "clear", prior |-> job]
    /\ retain' = FALSE
    /\ UNCHANGED <<disk, job, up, run, listed, settledAt, invoked, resumes, ackedCkpt, jobBound>>

ClearState ==
    /\ turn.step = "clear"
    /\ \/ /\ disk' = FreshJob /\ job' = FreshJob /\ up' = "closing" /\ UNCHANGED jobBound
          /\ invoked' = 0 /\ resumes' = 0 /\ ackedCkpt' = 0
          /\ settledAt' = 0
       \/ JobFault /\ UNCHANGED <<disk, job, up, invoked, resumes, ackedCkpt, settledAt>>
    /\ turn' = NoTurn
    /\ UNCHANGED <<run, listed, retain>>

-----------------------------------------------------------------------------
(* Saving, and what each turn does after it                                  *)

IsFinish(op) == op \in Terminal
\* The step that follows a save that landed
AfterSave(op) ==
    CASE op \in {"start", "resume"} -> "launch"
      [] IsFinish(op) -> IF Retains THEN "retain" ELSE "settled"
      [] OTHER -> "done"

Save ==
    /\ turn.step = "save" /\ disk' = job
    /\ turn' = [turn EXCEPT !.step = AfterSave(turn.op)]
    /\ UNCHANGED <<job, up, run, listed, retain, settledAt, invoked, resumes, ackedCkpt, jobBound>>

\* A rejected save leaves the live state edited; a turn of the body throws.
SaveFails ==
    /\ turn.step = "save" /\ JobFault
    /\ turn' = NoTurn
    /\ run' = IF run.stage = "turn" THEN [run EXCEPT !.stage = "ending"] ELSE run
    /\ UNCHANGED <<disk, job, up, listed, retain, settledAt, invoked, resumes, ackedCkpt>>

\* finish: arm the retention reminder, then onSettled; a reminder that cannot
\* be armed throws past onSettled.
ArmRetention ==
    /\ turn.step = "retain"
    /\ \/ retain' = TRUE /\ turn' = [turn EXCEPT !.step = "settled"] /\ UNCHANGED <<run, jobBound>>
       \/ /\ JobFault /\ turn' = NoTurn /\ UNCHANGED retain
          /\ run' = IF run.stage = "turn" THEN [run EXCEPT !.stage = "ending"] ELSE run
    /\ UNCHANGED <<disk, job, up, listed, settledAt, invoked, resumes, ackedCkpt>>

Settled ==
    /\ turn.step = "settled"
    /\ settledAt' = settledAt + 1
    /\ turn' = [turn EXCEPT !.step = "done"]
    /\ UNCHANGED <<disk, job, up, run, listed, retain, invoked, resumes, ackedCkpt, jobBound>>

\* launch: tasks.start reserves the run, and from here on a deactivation
\* aborts it and awaits it, ...
Launch ==
    /\ turn.step = "launch" /\ up = "up" /\ run.stage = "none"
    /\ run' = [stage |-> "reserved", attempt |-> 1, abort |-> "no"]
    /\ turn' = [turn EXCEPT !.step = "track"]
    /\ UNCHANGED <<disk, job, up, listed, retain, settledAt, invoked, resumes, ackedCkpt,
                   jobBound>>

\* ... and when the actor is on the roster the body starts, aborted or not.
Track ==
    /\ turn.step = "track"
    /\ run' = [run EXCEPT !.stage = "boot"] /\ listed' = TRUE
    /\ resumes' = IF turn.op = "resume" THEN resumes + 1 ELSE resumes
    /\ turn' = NoTurn
    /\ UNCHANGED <<disk, job, up, retain, settledAt, invoked, ackedCkpt, jobBound>>

\* Exactly the fields start() or resume() wrote
TakenBackTo(prior) == prior

\* The launch rejects, as a deactivation has begun or the roster cannot be
\* reached: revert, and if the revert cannot be saved, put the live state back
\* in step with the durable one.
LaunchFails ==
    /\ \/ turn.step = "launch" /\ up = "closing" /\ UNCHANGED <<run, jobBound>>
       \/ turn.step = "track" /\ JobFault /\ run' = NoRun
    /\ job' = TakenBackTo(turn.prior)
    /\ turn' = [turn EXCEPT !.step = "revert", !.prior = job]
    /\ UNCHANGED <<disk, up, listed, retain, settledAt, invoked, resumes, ackedCkpt>>

Revert ==
    /\ turn.step = "revert"
    /\ \/ disk' = job /\ UNCHANGED <<job, jobBound>>
       \/ JobFault /\ job' = turn.prior /\ UNCHANGED disk
    /\ turn' = NoTurn
    /\ UNCHANGED <<up, run, listed, retain, settledAt, invoked, resumes, ackedCkpt>>

\* The turn returns: to its caller, or to the run body.
EndTurn ==
    /\ turn.step = "done"
    /\ turn' = NoTurn
    /\ ackedCkpt' = IF turn.op \in {"checkpoint", "paused"} THEN job.ckpt ELSE ackedCkpt
    /\ CASE turn.op = "cancelled" ->      \* tasks.cancel(RUN): a request
              /\ run' = IF run.stage = "none" \/ run.abort # "no" THEN run
                        ELSE [run EXCEPT !.abort = "cancelled"]
              /\ UNCHANGED invoked
         [] turn.op = "first" ->
              run' = [run EXCEPT !.stage = "body"] /\ invoked' = invoked + 1
         [] turn.op = "checkpoint" ->
              run' = [run EXCEPT !.stage = "body"] /\ UNCHANGED invoked
         [] OTHER -> run' = [run EXCEPT !.stage = "ending"] /\ UNCHANGED invoked
    /\ UNCHANGED <<disk, job, up, listed, retain, settledAt, resumes, jobBound>>

-----------------------------------------------------------------------------
(* The run body                                                              *)

RunTurn(op, step, edited) ==
    /\ Idle /\ up # "down"
    /\ turn' = [op |-> op, step |-> step, prior |-> job] /\ job' = edited
    /\ run' = [run EXCEPT !.stage = "turn"]
    /\ UNCHANGED <<disk, up, listed, retain, settledAt, invoked, resumes, ackedCkpt>>

Greater(a, b) == IF a > b THEN a ELSE b

\* The first turn: refused unless running, given up after maxAttempts, and
\* the attempt made durable before options.run is called.
FirstTurn ==
    /\ run.stage = "boot" /\ job.status = "running"
    /\ LET attempts == Greater(job.attempts, run.attempt)
       IN IF attempts > MaxAttempts
          THEN RunTurn("failed", "save", [job EXCEPT !.status = "failed", !.attempts = attempts])
          ELSE RunTurn("first", IF run.attempt > 1 THEN "save" ELSE "done",
                       [job EXCEPT !.attempts = attempts])
    /\ UNCHANGED jobBound

\* A turn that finds the job not running changes nothing: the body unwinds.
Refused ==
    /\ run.stage \in {"boot", "body", "returned"} /\ Idle /\ job.status # "running"
    /\ run' = [run EXCEPT !.stage = "ending"]
    /\ UNCHANGED <<disk, job, up, turn, listed, retain, settledAt, invoked, resumes, ackedCkpt, jobBound>>

\* a plausible bug: a late body overrides what was decided meanwhile
BodyWritesAnyway == run.stage = "body"
BodyMayWrite == run.stage = "body" /\ job.status = "running"

Checkpoint ==
    /\ BodyMayWrite /\ job.ckpt < MaxCheckpoints
    /\ RunTurn("checkpoint", "save", [job EXCEPT !.ckpt = @ + 1])
    /\ UNCHANGED jobBound

Pause ==
    /\ BodyMayWrite /\ jobBound.pauses < MaxPauses
    /\ RunTurn("paused", "save", [job EXCEPT !.status = "paused"])
    /\ jobBound' = [jobBound EXCEPT !.pauses = @ + 1]

\* run() returns or throws, and has not been told to stop: it asks for a last turn, ...
BodyReturns ==
    /\ run.stage = "body" /\ run.abort = "no"
    /\ run' = [run EXCEPT !.stage = "returned"]
    /\ UNCHANGED <<disk, job, up, turn, listed, retain, settledAt, invoked, resumes, ackedCkpt, jobBound>>

\* ... which gives the verdict even if it was told to stop meanwhile.
Outcome(status) ==
    /\ run.stage = "returned" /\ job.status = "running"
    /\ RunTurn(status, "save", [job EXCEPT !.status = status])
    /\ UNCHANGED jobBound

\* A body that was told to stop returns or throws without a verdict.
WindDown ==
    /\ run.stage \in {"boot", "body"} /\ run.abort # "no"
    /\ run' = [run EXCEPT !.stage = "ending"]
    /\ UNCHANGED <<disk, job, up, turn, listed, retain, settledAt, invoked, resumes, ackedCkpt, jobBound>>

\* The task is released; unless interrupted, an empty derived ledger takes the
\* actor off the roster.
Release ==
    /\ run.stage = "ending"
    /\ run' = NoRun
    /\ \/ /\ listed' = IF run.abort # "stop" /\ job.status # "running" THEN FALSE ELSE listed
          /\ UNCHANGED jobBound
       \/ JobFault /\ UNCHANGED listed
    /\ UNCHANGED <<disk, job, up, turn, retain, settledAt, invoked, resumes, ackedCkpt>>

-----------------------------------------------------------------------------
(* Activation, deactivation and crashes                                      *)

\* A call or an adoption activates the job; a running one resumes.
ActivateJob ==
    /\ up = "down" /\ jobBound.acts < MaxJobActs
    /\ jobBound' = [jobBound EXCEPT !.acts = @ + 1]
    /\ up' = "up" /\ job' = disk
    /\ run' = IF disk.status = "running"
              THEN [stage |-> "boot", attempt |-> disk.attempts + 1, abort |-> "no"] ELSE NoRun
    /\ UNCHANGED <<disk, turn, listed, retain, settledAt, invoked, resumes, ackedCkpt>>

CloseJob ==
    /\ up = "up" /\ up' = "closing"
    /\ run' = IF run.stage # "none" /\ run.abort = "no" THEN [run EXCEPT !.abort = "stop"] ELSE run
    /\ UNCHANGED <<disk, job, turn, listed, retain, settledAt, invoked, resumes, ackedCkpt, jobBound>>

DeactivateJob ==
    /\ up = "closing" /\ run.stage = "none" /\ Idle
    /\ up' = "down" /\ job' = FreshJob
    /\ UNCHANGED <<disk, turn, run, listed, retain, settledAt, invoked, resumes, ackedCkpt, jobBound>>

CrashJob ==
    /\ up # "down" /\ jobBound.crashes < MaxJobCrashes
    /\ jobBound' = [jobBound EXCEPT !.crashes = @ + 1]
    /\ up' = "down" /\ job' = FreshJob /\ turn' = NoTurn /\ run' = NoRun
    /\ UNCHANGED <<disk, listed, retain, settledAt, invoked, resumes, ackedCkpt>>

-----------------------------------------------------------------------------
JobNext ==
    \/ Start \/ Resume \/ Cancel \/ ClearState
    \/ \E b \in BOOLEAN : Discard(b)
    \/ Save \/ SaveFails \/ ArmRetention \/ Settled \/ Launch \/ Track \/ LaunchFails \/ Revert \/ EndTurn
    \/ FirstTurn \/ Refused \/ Checkpoint \/ Pause \/ BodyReturns \/ WindDown
    \/ Release
    \/ \E s \in {"completed", "failed"} : Outcome(s)
    \/ ActivateJob \/ CloseJob \/ DeactivateJob \/ CrashJob

JobSpec == JobInit /\ [][JobNext]_jobVars

-----------------------------------------------------------------------------
(* Properties                                                                *)

JobStates == [status : JobStatus, attempts : 0..(MaxAttempts + 1), ckpt : 0..MaxCheckpoints]

\* The job state has its shape; a save under way always has a turn, and a
\* stored job that is not pending has used an attempt.
JobTypeOK ==
    /\ disk \in JobStates /\ job \in JobStates
    /\ up \in {"down", "up", "closing"} /\ listed \in BOOLEAN /\ retain \in BOOLEAN
    /\ (disk.status = "pending") = (disk.attempts = 0)

\* "Total attempts before a crash-looping job is marked failed ... pause-resume
\* is free": however it crashes, run() is called at most maxAttempts times more
\* often than it was resumed from a pause.
AttemptsBounded == invoked <= MaxAttempts + resumes

\* "A job is running exactly while its one task should be in flight": between
\* turns an active job that is running has its run, and is on the roster of the
\* host that started it - unless a save failed.
RunningHasRun ==
    up = "up" /\ Idle /\ job.status = "running" /\ jobBound.faults = 0 =>
        run.stage # "none" /\ (jobBound.crashes = 0 => listed)

\* The terminal verdict stands: once it is saved, only a discard removes it,
\* and no late turn of the body replaces it; what was checkpointed stays.
VerdictStands ==
    [][/\ disk.status \in Terminal /\ disk' # FreshJob => disk'.status = disk.status
       /\ disk' # FreshJob => disk'.ckpt >= ackedCkpt]_jobVars

\* "onSettled ... every terminal transition": a saved verdict that nobody
\* discarded was announced once its turn is over, unless the host crashed or
\* the retention reminder could not be armed.
EverySettleAnnounced ==
    disk.status \in Terminal /\ Idle /\ jobBound.crashes + jobBound.faults = 0 => settledAt > 0
=============================================================================
