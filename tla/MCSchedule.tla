----------------------------- MODULE MCSchedule -----------------------------
(***************************************************************************)
(* Work that must not be lost, model-checked: reminders, background tasks  *)
(* and jobs, workflows, the load rig's workflow engine and its ledger, and *)
(* the host-to-host connections and TCP links calls travel on.  The        *)
(* components do not interact here: `focus` picks the one whose steps a    *)
(* behaviour takes, the others stand still.                                *)
(***************************************************************************)
EXTENDS Reminders, TaskLedger, Jobs, Workflow, HostConnection, TcpLinks,
        RunEngine, CompletionLedger

VARIABLE focus

Components == {"reminders", "tasks", "jobs", "workflow", "connection", "tcp",
               "engine", "ledger"}

------------------------------------------------------------------------------
(* Values of the constants *)

\* A workflow that sleeps long, branches, sleeps short and runs a task.
MCWfPlan == <<"long", "branch", "short", "task">>

\* The rig's plans: a parent that runs a task and joins its child; one that waits
\* for a signal, sleeps, branches, runs a task with a retry and a parallel step
\* whose failure undoes the task.
MCNode(t, next, else, undo, f, retries) ==
  [type |-> t, next |-> next, else |-> else, undo |-> undo, fails |-> f, retries |-> retries]
MCChild == [start |-> "t", durable |-> FALSE, compensates |-> FALSE,
            nodes |-> [t |-> MCNode("task", "e", "e", "nil", TRUE, 1),
                       e |-> MCNode("end", "e", "e", "nil", FALSE, 0)]]
MCJoining == [start |-> "t", durable |-> TRUE, compensates |-> FALSE,
              nodes |-> [t |-> MCNode("task", "k", "k", "nil", FALSE, 1),
                         k |-> MCNode("children", "e", "e", "nil", FALSE, 0),
                         e |-> MCNode("end", "e", "e", "nil", FALSE, 0)]]
MCBranching == [start |-> "b", durable |-> TRUE, compensates |-> TRUE,
                nodes |-> [b |-> MCNode("branch", "w", "t", "nil", FALSE, 0),
                           w |-> MCNode("wait", "d", "e", "nil", FALSE, 0),
                           d |-> MCNode("delay", "l", "l", "nil", FALSE, 0),
                           t |-> MCNode("task", "l", "l", "u", TRUE, 2),
                           l |-> MCNode("parallel", "e", "e", "nil", TRUE, 0),
                           u |-> MCNode("task", "e", "e", "nil", TRUE, 1),
                           e |-> MCNode("end", "e", "e", "nil", FALSE, 0)]]
MCPlans == {[p |-> MCJoining, c |-> MCChild], [p |-> MCBranching, c |-> MCChild]}
\* the joining plan, with two runs in play, gets the smaller budget
MCEngBudget == [pl \in MCPlans |-> IF pl.p = MCJoining THEN 1 ELSE 2]
MCKidsOf == [p |-> {"c"}, c |-> {}]
MCParentOf == [p |-> "nobody", c |-> "p"]

\* Completions of one shard of the ledger and of another.
MCShardOf == [r \in AllRuns |-> IF r \in {"b", "f"} THEN "s1" ELSE "s0"]

------------------------------------------------------------------------------

\* The components that a behaviour is not about have no state.
Off == "off"
RemOff ==
  /\ provider = Off /\ rclock = Off /\ row = Off /\ etag = Off /\ remCache = Off
  /\ contended = Off /\ chain = Off /\ firing = Off /\ undelivered = Off
  /\ alarm = Off /\ calling = Off /\ latest = Off /\ owed = Off /\ delivered = Off
  /\ cleared = Off /\ excused = Off /\ sets = Off /\ clears = Off /\ fails = Off
  /\ crashes = Off
JobOff ==
  /\ disk = FreshJob /\ job = Off /\ up = Off /\ turn = Off /\ run = Off /\ listed = Off
  /\ retain = Off /\ settledAt = Off /\ invoked = Off /\ resumes = Off
  /\ ackedCkpt = Off /\ jobBound = Off
EngOff ==
  /\ plan = Off /\ eng = [r \in Runs |-> [status |-> Off]] /\ vol = Off /\ engAlarm = Off
  /\ watchdog = Off /\ wires = Off /\ accepted = Off /\ engFaults = Off
TaskOff ==
  /\ liveHosts = Off /\ act = Off /\ runs = Off /\ ledger = Off /\ ledgerChain = Off
  /\ roster = Off /\ table = Off /\ rosterPend = Off /\ rosterBatch = Off
  /\ hostIndex = Off /\ registered = Off /\ adopting = Off /\ acked = Off
  /\ finished = Off /\ resumedIds = Off /\ replaced = Off /\ misjudged = Off
  /\ taskBound = Off
WfOff ==
  /\ wfMem = Off /\ wfDisk = Off /\ wfUp = Off /\ wfArmed = Off /\ wfAdvance = Off
  /\ wfLetGo = Off /\ wfTimer = Off /\ wfReminder = Off /\ wfThread = Off
  /\ wfQueue = Off /\ wfClock = Off /\ wfTouches = Off /\ wfFaults = Off
ConnOff ==
  /\ conn = Off /\ broken = Off /\ dispatched = Off /\ outcome = Off /\ reader = Off
  /\ serving = Off /\ connRan = Off /\ credit = Off /\ made = Off /\ connFaults = Off
TcpOff ==
  /\ dialer = Off /\ side = Off /\ mail = Off /\ dead = Off /\ links = Off
  /\ dialing = Off /\ pendingInbound = Off /\ retired = Off /\ pick = Off
  /\ asked = Off /\ stopped = Off /\ linkFaults = Off /\ cut = Off
LedgerOff ==
  /\ appends = Off /\ agg = Off /\ ledgerDisk = Off /\ runState = Off /\ ack = Off
  /\ published = Off /\ handled = Off /\ inflight = Off /\ startFailed = Off
  /\ cursors = Off /\ booked = Off /\ times = Off /\ unknown = Off /\ dropped = Off
  /\ stage = Off /\ ledgerFaults = Off

SchedInit ==
  /\ focus \in Components
  /\ IF focus = "reminders" THEN RemInit ELSE RemOff
  /\ IF focus = "tasks" THEN TaskInit ELSE TaskOff
  /\ IF focus = "workflow" THEN WfInit ELSE WfOff
  /\ IF focus = "connection" THEN ConnInit ELSE ConnOff
  /\ IF focus = "tcp" THEN TcpInit ELSE TcpOff
  /\ IF focus = "ledger" THEN LedgerInit ELSE LedgerOff
  /\ IF focus = "jobs" THEN JobInit ELSE JobOff
  /\ IF focus = "engine" THEN EngInit ELSE EngOff

SchedNext ==
  \/ /\ focus = "reminders" /\ RemNext
     /\ UNCHANGED <<focus, taskVars, jobVars, workflowVars, connVars, tcpVars, engVars, ledgerVars>>
  \/ /\ focus = "tasks" /\ TaskNext
     /\ UNCHANGED <<focus, reminderVars, jobVars, workflowVars, connVars, tcpVars, engVars, ledgerVars>>
  \/ /\ focus = "jobs" /\ JobNext
     /\ UNCHANGED <<focus, reminderVars, taskVars, workflowVars, connVars, tcpVars, engVars, ledgerVars>>
  \/ /\ focus = "workflow" /\ WfNext
     /\ UNCHANGED <<focus, reminderVars, taskVars, jobVars, connVars, tcpVars, engVars, ledgerVars>>
  \/ /\ focus = "connection" /\ ConnNext
     /\ UNCHANGED <<focus, reminderVars, taskVars, jobVars, workflowVars, tcpVars, engVars, ledgerVars>>
  \/ /\ focus = "tcp" /\ TcpNext
     /\ UNCHANGED <<focus, reminderVars, taskVars, jobVars, workflowVars, connVars, engVars, ledgerVars>>
  \/ /\ focus = "engine" /\ EngNext
     /\ UNCHANGED <<focus, reminderVars, taskVars, jobVars, workflowVars, connVars, tcpVars, ledgerVars>>
  \/ /\ focus = "ledger" /\ LedgerNext
     /\ UNCHANGED <<focus, reminderVars, taskVars, jobVars, workflowVars, connVars, tcpVars, engVars>>

schedVars == <<focus, reminderVars, taskVars, jobVars, workflowVars, connVars, tcpVars,
               engVars, ledgerVars>>
SchedSpec == SchedInit /\ [][SchedNext]_schedVars

------------------------------------------------------------------------------
(* Properties: what each component promises, its named parts together.     *)

\* A reminder set and not cancelled is delivered by someone, once per due time,
\* whichever provider keeps it and whoever dies: a delivery is claimed by one
\* host, its next due time or its wake is on record before the claim is let go,
\* and a Durable Object's alarm is never later than its earliest reminder.
RemindersAreKept ==
  focus = "reminders" => RemTypeOK /\ ClaimedOnce /\ WakeKept /\ AlarmCovers

\* A task that was accepted is recorded somewhere a later activation or another
\* host finds it, one body of a name runs at a time; a job's row, its attempts
\* and its settlement agree with that through pauses, crashes and failed saves.
BackgroundWorkSurvives ==
  /\ focus = "tasks" => TaskTypeOK /\ OneBodyPerName /\ Recoverable
  /\ focus = "jobs" => JobTypeOK /\ AttemptsBounded /\ RunningHasRun /\ EverySettleAnnounced

\* What a job, or a run of the rig's engine, ended as is never taken back, by no
\* late body, retry, signal or reminder.
VerdictsStand == VerdictStands /\ TerminalStands

\* A workflow that is not over always has somebody who will move it: a step under
\* way, a timer, a reminder or a wake on record; and a step's start is on record
\* before its body runs.
WorkflowsResume ==
  focus = "workflow" => WfTypeOK /\ NeverStranded /\ LoggedBeforeRun

\* A connection keeps its word: a call it reports unreachable never ran on the
\* other side, retiring it for a better one loses nothing that was under way,
\* chunks never outrun the credit granted for them, and neither credit nor
\* backpressure nor a lost socket ever leaves somebody waiting.
ConnectionKeepsItsWord ==
  focus = "connection" => /\ ConnTypeOK /\ UnreachableNeverRuns
                          /\ RetirementLosesNothing /\ CreditConserved /\ NothingIsStuck

\* Two hosts that dial each other at once end up with one link, both choose the
\* same, closing the other loses no call, and no connection is left open that
\* neither a route nor a timer holds.
OneLinkPerPeer ==
  focus = "tcp" => TcpTypeOK /\ EveryConnectionIsHeld /\ ArbitrationCutsNothing /\ OneSurvivor

\* A run of the rig's engine that is parked has the wake it waits for, one in
\* memory has its timer, its verdict is saved before anyone is told, a join
\* waits for all its children, and a signal that came early is kept.
EngineStrandsNobody ==
  focus = "engine" => /\ EngTypeOK /\ ParkedHasItsWake /\ ResidentIsArmed
                      /\ VerdictIsSaved /\ JoinWaitsForAll /\ SignalKept

\* The load rig books every acknowledged run once, forgets none, calls one
\* unknown only when a full sweep did not find it, and a page that lost events
\* says so.
LedgerCountsOnce ==
  focus = "ledger" => /\ LedgerTypeOK /\ BookedOnce /\ NoRunForgotten
                      /\ UnknownOnlyAfterSweep /\ DropSaysSo
==============================================================================
