------------------------------ MODULE TaskLedger ------------------------------
(***************************************************************************)
(* Detached tasks of one actor: the start, resume, cancel and wind-down of  *)
(* runs (host/activation.ts), their durable ledger (host/tasks.ts), and the *)
(* per-host roster from which a survivor adopts a dead host's actors        *)
(* (host/task-liveness.ts).                                                 *)
(*                                                                         *)
(* A ledger edit is one step: mutateNow replays it on a fresh load until its *)
(* compare-and-set is accepted.  It may also fail, before or after landing.  *)
(* The placement layer keeps one activation at a time; runs of an earlier    *)
(* one that outlived the grace period go on as zombies.                     *)
(***************************************************************************)
EXTENDS Integers, Sequences, FiniteSets

CONSTANTS TaskNames, TaskHosts,
          MaxStarts,      \* calls of tasks.start that reserve a run
          MaxInsts,       \* activations
          MaxDepartures,  \* hosts that die
          MaxTaskFaults   \* storage or dispatch calls that fail, grace periods that
                          \* run out and adoptions of a host that is alive

ASSUME TaskLedgerAssumption ==
    /\ MaxStarts \in Nat /\ MaxInsts \in Nat /\ MaxDepartures \in Nat
    /\ MaxTaskFaults \in Nat

VARIABLES
    liveHosts,   \* hosts that are up (a host id is never used again)
    act,         \* the activation: [host, inst, closing]; inst 0 is none
    runs,        \* task runs that have not settled
    ledger,      \* the stored ledger: name -> [id, resumed]; id 0 is absent
    ledgerChain, \* instance -> the mutate chain: runs whose edit is queued
    roster,      \* host -> its stored roster record: [etag, has]
    table,       \* host -> the table and etag the host keeps in memory
    rosterPend, rosterBatch,  \* host -> edits queued, edits being written
    hostIndex,   \* the stored index of hosts that have a roster
    registered,  \* hosts that hold a completed registration
    adopting,    \* host -> the adoption it runs: [of, stage, etag, inst]
    acked,       \* starts that resolved before their activation was gone
    finished,    \* starts whose body completed or was cancelled, or rejected
    resumedIds,  \* starts that were resumed at least once
    replaced,    \* starts whose entry another run of the name took or deleted
    misjudged,   \* hosts an adopter took for dead while they were alive
    taskBound    \* counters of the bounds
taskVars == <<liveHosts, act, runs, ledger, ledgerChain, roster, table, rosterPend,
              rosterBatch, hostIndex, registered, adopting, acked, finished,
              resumedIds, replaced, misjudged, taskBound>>

StartIds == 1..MaxStarts
Insts == 1..MaxInsts
NoAct == [host |-> 0, inst |-> 0, closing |-> FALSE]
NoEntry == [id |-> 0, resumed |-> FALSE]
NoRoster == [etag |-> 0, has |-> FALSE]
NotAdopting == [of |-> 0, stage |-> "none", etag |-> 0, inst |-> 0]

\* A run is reserved from its start until its body returns.
Reserved(r) == r.stage \in {"ledger", "track", "restart", "running"}
\* The activation is created, its ledgered runs launched, and not closing.
Serving == /\ act.inst # 0 /\ ~act.closing
           /\ \A r \in runs : r.inst = act.inst => ~(r.boot /\ r.stage = "restart")
HasTask(n) == \E r \in runs : r.inst = act.inst /\ r.name = n /\ Reserved(r)
Key(r) == [id |-> r.id, inst |-> r.inst, gen |-> r.gen]
RunOf(k) == CHOOSE r \in runs : Key(r) = k
TaskMove(r, stage) == runs' = (runs \ {r}) \cup {[r EXCEPT !.stage = stage]}
Settle(r) == runs' = runs \ {r}
\* The edit of r is at the head of its activation's mutate chain.
AtHead(r) == ledgerChain[r.inst] # <<>> /\ ledgerChain[r.inst][1] = Key(r)
Chained(c, r) == [c EXCEPT ![r.inst] = Append(@, Key(r))]
Unchained(r) == [ledgerChain EXCEPT ![r.inst] = Tail(@)]
TaskFault == /\ taskBound.faults < MaxTaskFaults
         /\ taskBound' = [taskBound EXCEPT !.faults = @ + 1]
NoFault == UNCHANGED taskBound

rosterVars == <<roster, table, rosterBatch, hostIndex, registered, adopting, misjudged>>

TaskInit ==
    /\ liveHosts = TaskHosts /\ act = NoAct /\ runs = {}
    /\ ledger = [n \in TaskNames |-> NoEntry]
    /\ ledgerChain = [i \in Insts |-> <<>>]
    /\ roster = [h \in TaskHosts |-> NoRoster] /\ table = [h \in TaskHosts |-> NoRoster]
    /\ rosterPend = [h \in TaskHosts |-> <<>>] /\ rosterBatch = [h \in TaskHosts |-> <<>>]
    /\ hostIndex = {} /\ registered = {}
    /\ adopting = [h \in TaskHosts |-> NotAdopting]
    /\ acked = {} /\ finished = {} /\ resumedIds = {} /\ replaced = {} /\ misjudged = {}
    /\ taskBound = [starts |-> 0, insts |-> 0, departures |-> 0, faults |-> 0]

-----------------------------------------------------------------------------
(* tasks.start                                                               *)

\* An open activation, and no run of that name reserved in it
MayStart(n) == ~HasTask(n)

StartTask(n) ==
    /\ Serving /\ MayStart(n)
    /\ taskBound.starts < MaxStarts
    /\ LET r == [id |-> taskBound.starts + 1, name |-> n, inst |-> act.inst,
                 host |-> act.host, stage |-> "ledger", abort |-> "no", gen |-> 0,
                 boot |-> FALSE]
       IN runs' = runs \cup {r} /\ ledgerChain' = Chained(ledgerChain, r)
    /\ taskBound' = [taskBound EXCEPT !.starts = @ + 1]
    /\ UNCHANGED <<liveHosts, act, ledger, rosterPend, acked, finished, resumedIds,
                   replaced, rosterVars>>

Entry(r) == [ledger EXCEPT ![r.name] = [id |-> r.id, resumed |-> FALSE]]
Replaces(r) == IF ledger[r.name].id \in {0, r.id} THEN replaced
               ELSE replaced \cup {ledger[r.name].id}

\* The ledger entry lands, then the actor is tracked.
WriteEntry(r) ==
    /\ r.stage = "ledger" /\ AtHead(r)
    /\ ledger' = Entry(r) /\ replaced' = Replaces(r)
    /\ ledgerChain' = Unchained(r) /\ TaskMove(r, "track")
    /\ rosterPend' = [rosterPend EXCEPT ![r.host] = Append(@, [run |-> Key(r), has |-> TRUE])]
    /\ UNCHANGED <<liveHosts, act, acked, finished, resumedIds, taskBound, rosterVars>>

\* The write fails, having landed or not: release and take the entry back.
WriteEntryFails(r, landed) ==
    /\ r.stage = "ledger" /\ AtHead(r) /\ TaskFault
    /\ ledger' = IF landed THEN Entry(r) ELSE ledger
    /\ replaced' = IF landed THEN Replaces(r) ELSE replaced
    /\ ledgerChain' = Chained(Unchained(r), r) /\ TaskMove(r, "rollback")
    /\ UNCHANGED <<liveHosts, act, rosterPend, acked, finished, resumedIds, rosterVars>>

\* keyed, so that a raced replacement run is never deleted
TakenBack(r) == IF ledger[r.name] = [id |-> r.id, resumed |-> FALSE]
                THEN [ledger EXCEPT ![r.name] = NoEntry] ELSE ledger

Rollback(r, ok) ==
    /\ r.stage = "rollback" /\ AtHead(r)
    /\ \/ ok /\ NoFault /\ ledger' = TakenBack(r)
       \/ ~ok /\ TaskFault /\ UNCHANGED ledger
    /\ ledgerChain' = Unchained(r) /\ Settle(r)
    /\ finished' = finished \cup {r.id}
    /\ UNCHANGED <<liveHosts, act, rosterPend, acked, resumedIds, replaced, rosterVars>>

-----------------------------------------------------------------------------
(* The body and what follows it                                              *)

CancelTask(n) ==
    /\ \E r \in runs :
         /\ act.inst # 0 /\ r.inst = act.inst /\ r.name = n /\ Reserved(r) /\ r.abort = "no"
         /\ runs' = (runs \ {r}) \cup {[r EXCEPT !.abort = "cancelled"]}
    /\ UNCHANGED <<liveHosts, act, ledger, ledgerChain, rosterPend, acked, finished,
                   resumedIds, replaced, taskBound, rosterVars>>

\* a plausible bug: a run aborted by deactivation is forgotten like any other
NeverInterrupted(r) == FALSE
Interrupted(r) == r.abort = "stop"

\* An interrupted run keeps its entry: the entry is the resume.
BodyEnds(r) ==
    /\ r.stage = "running"
    /\ IF Interrupted(r)
       THEN Settle(r) /\ UNCHANGED <<ledgerChain, finished>>
       ELSE /\ TaskMove(r, "forget") /\ ledgerChain' = Chained(ledgerChain, r)
            /\ finished' = IF r.abort = "stop" THEN finished ELSE finished \cup {r.id}
    /\ UNCHANGED <<liveHosts, act, ledger, rosterPend, acked, resumedIds, replaced,
                   taskBound, rosterVars>>

\* forgetTask deletes by name; the last entry takes the actor off the roster.
ForgetTask(r) ==
    LET left == [ledger EXCEPT ![r.name] = NoEntry]
        empty == \A n \in TaskNames : left[n] = NoEntry
    IN /\ r.stage = "forget" /\ AtHead(r)
       /\ ledger' = left /\ replaced' = Replaces(r)
       /\ ledgerChain' = Unchained(r)
       /\ IF empty
          THEN /\ TaskMove(r, "untrack")
               /\ rosterPend' = [rosterPend EXCEPT ![r.host] =
                                   Append(@, [run |-> Key(r), has |-> FALSE])]
          ELSE Settle(r) /\ UNCHANGED rosterPend
       /\ UNCHANGED <<liveHosts, act, acked, finished, resumedIds, taskBound, rosterVars>>

ForgetFails(r) ==
    /\ r.stage = "forget" /\ AtHead(r) /\ TaskFault
    /\ ledgerChain' = Unchained(r) /\ Settle(r)
    /\ UNCHANGED <<liveHosts, act, ledger, rosterPend, acked, finished, resumedIds,
                   replaced, rosterVars>>

-----------------------------------------------------------------------------
(* Activation, resume and deactivation                                       *)

Resumable(names) == {n \in names : ledger[n].id # 0}
\* (gen tells a run from an earlier one of its id that is still being forgotten)
ResumedRun(n, a, boot) ==
    [id |-> ledger[n].id, name |-> n, inst |-> a.inst, host |-> a.host,
     stage |-> "restart", abort |-> "no", boot |-> boot,
     gen |-> IF \E r \in runs : r.id = ledger[n].id /\ r.inst = a.inst /\ r.gen = 0
             THEN 1 ELSE 0]
InOrder(S) == CHOOSE s \in [1..Cardinality(S) -> S] :
                               \A i, j \in 1..Cardinality(S) : i # j => s[i] # s[j]

\* The runs that the ledger names and the activation a does not have reserve.
ResumeIn(a, names, boot) ==
    LET back == {ResumedRun(n, a, boot) : n \in Resumable(names)}
    IN /\ runs' = runs \cup back
       /\ ledgerChain' = [ledgerChain EXCEPT ![a.inst] =
                            @ \o InOrder({Key(r) : r \in back})]
       /\ resumedIds' = resumedIds \cup {r.id : r \in back}

\* The adoptions whose touch waits for activation i give up.
Rejected(i) == [b \in TaskHosts |-> IF adopting[b].stage = "touching" /\ adopting[b].inst = i
                                    THEN NotAdopting ELSE adopting[b]]
Activated(h) == [host |-> h, inst |-> taskBound.insts + 1, closing |-> FALSE]
MayActivate(h) == act.inst = 0 /\ h \in liveHosts /\ taskBound.insts < MaxInsts

\* A call activates the actor and its ledgered runs resume.
Activate(h) ==
    /\ MayActivate(h)
    /\ act' = Activated(h) /\ ResumeIn(Activated(h), TaskNames, TRUE)
    /\ taskBound' = [taskBound EXCEPT !.insts = @ + 1]
    /\ UNCHANGED <<liveHosts, ledger, rosterPend, acked, finished, replaced, rosterVars>>

\* The restart is counted in the ledger and the body launches.
RestartTask(r) ==
    /\ r.stage = "restart" /\ AtHead(r)
    /\ ledger' = IF ledger[r.name].id = 0 THEN ledger
                 ELSE [ledger EXCEPT ![r.name].resumed = TRUE]
    /\ ledgerChain' = Unchained(r) /\ TaskMove(r, "running")
    /\ UNCHANGED <<liveHosts, act, rosterPend, acked, finished, resumedIds, replaced,
                   taskBound, rosterVars>>

\* The count cannot be written.  A run restarted by a touch is released.  One
\* restarted by the activation fails it: bodies launched so far are neither
\* aborted nor awaited.  A touch that waits for either is rejected.
RestartFails(r) ==
    LET gone == {x \in runs : x = r \/ (r.boot /\ x.inst = r.inst /\ x.stage = "restart")}
    IN /\ r.stage = "restart" /\ AtHead(r) /\ TaskFault
       /\ ledgerChain' = [ledgerChain EXCEPT ![r.inst] =
                            SelectSeq(@, LAMBDA k : RunOf(k) \notin gone)]
       /\ runs' = runs \ gone
       /\ act' = IF r.boot /\ act.inst = r.inst THEN NoAct ELSE act
       /\ adopting' = Rejected(r.inst)
       /\ UNCHANGED <<liveHosts, ledger, rosterPend, acked, finished, resumedIds, replaced,
                      roster, table, rosterBatch, hostIndex, registered, misjudged>>

\* deactivate aborts every reserved run, the first reason winning ...
BeginDeactivate ==
    /\ Serving
    /\ act' = [act EXCEPT !.closing = TRUE]
    /\ runs' = {IF r.inst = act.inst /\ Reserved(r) /\ r.abort = "no"
                THEN [r EXCEPT !.abort = "stop"] ELSE r : r \in runs}
    /\ UNCHANGED <<liveHosts, ledger, ledgerChain, rosterPend, acked, finished, resumedIds,
                   replaced, taskBound, rosterVars>>

\* ... and waits for them to settle, or for the grace period.
EndDeactivate ==
    /\ act.inst # 0 /\ act.closing
    /\ \/ (\A r \in runs : r.inst # act.inst) /\ UNCHANGED taskBound
       \/ (\E r \in runs : r.inst = act.inst) /\ TaskFault
    /\ act' = NoAct
    /\ UNCHANGED <<liveHosts, runs, ledger, ledgerChain, rosterPend, acked, finished,
                   resumedIds, replaced, rosterVars>>

-----------------------------------------------------------------------------
(* The host's own roster: group commit under its etag                        *)

RegisterRoster(h) ==
    /\ h \in liveHosts /\ rosterPend[h] # <<>> /\ h \notin registered
    /\ hostIndex' = hostIndex \cup {h} /\ registered' = registered \cup {h}
    /\ UNCHANGED <<liveHosts, act, runs, ledger, ledgerChain, roster, table, rosterPend,
                   rosterBatch, adopting, acked, finished, resumedIds, replaced, misjudged,
                   taskBound>>

TakeBatch(h) ==
    /\ h \in registered /\ rosterPend[h] # <<>> /\ rosterBatch[h] = <<>>
    /\ rosterBatch' = [rosterBatch EXCEPT ![h] = rosterPend[h]]
    /\ rosterPend' = [rosterPend EXCEPT ![h] = <<>>]
    /\ UNCHANGED <<liveHosts, act, runs, ledger, ledgerChain, roster, table, hostIndex,
                   registered, adopting, acked, finished, resumedIds, replaced, misjudged,
                   taskBound>>

BatchRuns(h) == {RunOf(rosterBatch[h][i].run) : i \in 1..Len(rosterBatch[h])}
BatchHas(h) == rosterBatch[h][Len(rosterBatch[h])].has
\* Resolved edits: a tracked start launches and returns, an untrack settles.
AfterBatch(h, ok) ==
    LET now == BatchRuns(h)
        starts == {r \in now : r.stage = "track"}
        kept == {[r EXCEPT !.stage = IF ok THEN "running" ELSE "rollback"] : r \in starts}
    IN /\ runs' = (runs \ now) \cup kept
       /\ acked' = IF ok THEN acked \cup {r.id : r \in {s \in starts : s.inst = act.inst}} ELSE acked
       /\ ledgerChain' = IF ok \/ starts = {} THEN ledgerChain
                         ELSE [i \in Insts |-> ledgerChain[i] \o InOrder(
                                                 {Key(r) : r \in {s \in starts : s.inst = i}})]
       /\ rosterBatch' = [rosterBatch EXCEPT ![h] = <<>>]

WriteBatch(h) ==
    LET next == [etag |-> table[h].etag + 1, has |-> BatchHas(h)]
        nothing == table[h].etag = 0 /\ ~BatchHas(h)
    IN /\ rosterBatch[h] # <<>> /\ table[h].etag = roster[h].etag
       /\ roster' = IF nothing THEN roster ELSE [roster EXCEPT ![h] = next]
       /\ table' = IF nothing THEN table ELSE [table EXCEPT ![h] = next]
       /\ AfterBatch(h, TRUE)
       /\ UNCHANGED <<liveHosts, act, ledger, rosterPend, hostIndex, registered, adopting,
                      finished, resumedIds, replaced, misjudged, taskBound>>

\* An adopter wrote our record: re-anchor on its etag, then write it whole.
Reanchor(h) ==
    /\ rosterBatch[h] # <<>> /\ table[h].etag # roster[h].etag
    /\ table' = [table EXCEPT ![h].etag = roster[h].etag]
    /\ UNCHANGED <<liveHosts, act, runs, ledger, ledgerChain, roster, rosterPend,
                   rosterBatch, hostIndex, registered, adopting, acked, finished,
                   resumedIds, replaced, misjudged, taskBound>>

BatchFails(h) ==
    /\ rosterBatch[h] # <<>> /\ TaskFault
    /\ AfterBatch(h, FALSE)
    /\ UNCHANGED <<liveHosts, act, ledger, roster, table, rosterPend, hostIndex, registered,
                   adopting, finished, resumedIds, replaced, misjudged>>

-----------------------------------------------------------------------------
(* Adoption of a dead host's roster by a survivor                            *)

AdoptBegin(b, a) ==
    /\ b \in liveHosts /\ adopting[b] = NotAdopting /\ a \in hostIndex \ {b}
    /\ \/ a \notin liveHosts /\ UNCHANGED <<taskBound, misjudged>>
       \/ a \in liveHosts /\ TaskFault /\ misjudged' = misjudged \cup {a}
    /\ adopting' = [adopting EXCEPT ![b] =
         [of |-> a, etag |-> roster[a].etag, inst |-> 0,
          stage |-> IF roster[a].etag = 0 THEN "forget"
                    ELSE IF roster[a].has THEN "touch" ELSE "clear"]]
    /\ UNCHANGED <<liveHosts, act, runs, ledger, ledgerChain, roster, table, rosterPend,
                   rosterBatch, hostIndex, registered, acked, finished, resumedIds,
                   replaced>>

\* The touch activates the actor on some host, or finds it active and
\* restarts the entries that have no run.
AdoptTouch(b, h) ==
    /\ adopting[b].stage = "touch"
    /\ \/ /\ MayActivate(h)
          /\ act' = Activated(h) /\ ResumeIn(Activated(h), TaskNames, TRUE)
          /\ taskBound' = [taskBound EXCEPT !.insts = @ + 1]
       \/ /\ Serving /\ h = act.host
          /\ ResumeIn(act, {n \in TaskNames : ~HasTask(n)}, FALSE)
          /\ UNCHANGED <<act, taskBound>>
    /\ adopting' = [adopting EXCEPT ![b].stage = "touching", ![b].inst = act'.inst]
    /\ UNCHANGED <<liveHosts, ledger, roster, table, rosterPend, rosterBatch, hostIndex,
                   registered, acked, finished, replaced, misjudged>>

\* It returns once the runs it restarted are launched.
AdoptTouched(b) ==
    /\ adopting[b].stage = "touching"
    /\ \A r \in runs : r.inst = adopting[b].inst => r.stage # "restart"
    /\ adopting' = [adopting EXCEPT ![b].stage = "clear"]
    /\ UNCHANGED <<liveHosts, act, runs, ledger, ledgerChain, roster, table, rosterPend,
                   rosterBatch, hostIndex, registered, acked, finished, resumedIds,
                   replaced, misjudged, taskBound>>

\* A touch that fails stays on the roster for the next tick.
AdoptTouchFails(b) ==
    /\ adopting[b].stage = "touch" /\ TaskFault
    /\ adopting' = [adopting EXCEPT ![b] = NotAdopting]
    /\ UNCHANGED <<liveHosts, act, runs, ledger, ledgerChain, roster, table, rosterPend,
                   rosterBatch, hostIndex, registered, acked, finished, resumedIds,
                   replaced, misjudged>>

AdoptClear(b) ==
    LET a == adopting[b].of
        same == roster[a].etag = adopting[b].etag
    IN /\ adopting[b].stage = "clear"
       /\ roster' = IF same THEN [roster EXCEPT ![a] = NoRoster] ELSE roster
       /\ adopting' = IF same THEN [adopting EXCEPT ![b].stage = "forget"]
                      ELSE [adopting EXCEPT ![b] = NotAdopting]
       /\ UNCHANGED <<liveHosts, act, runs, ledger, ledgerChain, table, rosterPend,
                      rosterBatch, hostIndex, registered, acked, finished, resumedIds,
                      replaced, misjudged, taskBound>>

ForgetHost(b) ==
    /\ adopting[b].stage = "forget"
    /\ hostIndex' = hostIndex \ {adopting[b].of}
    /\ adopting' = [adopting EXCEPT ![b] = NotAdopting]
    /\ UNCHANGED <<liveHosts, act, runs, ledger, ledgerChain, roster, table, rosterPend,
                   rosterBatch, registered, acked, finished, resumedIds, replaced,
                   misjudged, taskBound>>

\* A host dies with everything it runs, zombies and adoption included.
Depart(h) ==
    LET dead == {r \in runs : r.host = h}
    IN /\ h \in liveHosts /\ taskBound.departures < MaxDepartures
       /\ taskBound' = [taskBound EXCEPT !.departures = @ + 1]
       /\ liveHosts' = liveHosts \ {h}
       /\ act' = IF act.host = h THEN NoAct ELSE act
       /\ runs' = runs \ dead
       /\ ledgerChain' = [i \in Insts |-> SelectSeq(ledgerChain[i],
                                                    LAMBDA k : RunOf(k).host # h)]
       /\ rosterPend' = [rosterPend EXCEPT ![h] = <<>>]
       /\ rosterBatch' = [rosterBatch EXCEPT ![h] = <<>>]
       /\ adopting' = [(IF act.host = h THEN Rejected(act.inst) ELSE adopting)
                         EXCEPT ![h] = NotAdopting]
       /\ registered' = registered \ {h}
       /\ UNCHANGED <<ledger, roster, table, hostIndex, acked, finished, resumedIds,
                      replaced, misjudged>>

-----------------------------------------------------------------------------
TaskNext ==
    \/ \E n \in TaskNames : StartTask(n) \/ CancelTask(n)
    \/ \E r \in runs : \/ WriteEntry(r) \/ BodyEnds(r) \/ ForgetTask(r) \/ ForgetFails(r)
                       \/ RestartTask(r) \/ RestartFails(r)
                       \/ \E b \in BOOLEAN : WriteEntryFails(r, b) \/ Rollback(r, b)
    \/ BeginDeactivate \/ EndDeactivate
    \/ \E h \in TaskHosts : \/ Activate(h) \/ RegisterRoster(h) \/ TakeBatch(h) \/ WriteBatch(h)
                            \/ Reanchor(h) \/ BatchFails(h) \/ AdoptTouchFails(h)
                            \/ AdoptTouched(h) \/ AdoptClear(h) \/ ForgetHost(h) \/ Depart(h)
                            \/ \E a \in TaskHosts : AdoptBegin(h, a) \/ AdoptTouch(h, a)

TaskSpec == TaskInit /\ [][TaskNext]_taskVars

-----------------------------------------------------------------------------
(* Properties                                                                *)

Stages == {"ledger", "track", "restart", "running", "rollback", "forget", "untrack"}
Unsettled == {"ledger", "restart", "rollback", "forget"}

\* The ledger and roster state has its shape; every queued edit belongs to a
\* run that waits for it, and every run that waits for one has it queued.
TaskTypeOK ==
    /\ act.host \in TaskHosts \cup {0} /\ act.inst \in 0..MaxInsts
    /\ \A r \in runs : r.stage \in Stages /\ r.host \in liveHosts
    /\ \A n \in TaskNames : ledger[n].id \in 0..MaxStarts
    /\ \A i \in Insts : {ledgerChain[i][j] : j \in 1..Len(ledgerChain[i])}
                          = {Key(r) : r \in {x \in runs : x.inst = i /\ x.stage \in Unsettled}}
    /\ hostIndex \subseteq TaskHosts /\ acked \subseteq StartIds

\* No two bodies of one task name run that nobody has told to stop, whatever
\* activations they belong to - except those of an activation that failed
\* while it was resuming.
Current(r) == r.stage = "running" /\ r.abort = "no" /\ r.inst = act.inst
OneBodyPerName == \A r, s \in runs : Current(r) /\ Current(s) /\ r.name = s.name => r = s

\* "A crash any time after start resolves still resumes the run": an
\* acknowledged start that is not over is in the ledger, and its actor is
\* active, or listed on the roster of a host an adopter will look at.
Findable ==
    \/ act.inst # 0
    \/ \E h \in hostIndex : roster[h].has
    \/ \E b \in liveHosts : adopting[b].stage = "touch"
TaskOpen == acked \ (finished \cup replaced)
Recoverable ==
    \A s \in TaskOpen :
        /\ \E n \in TaskNames : ledger[n].id = s
        /\ s \notin resumedIds /\ misjudged = {} => Findable

\* "The adopting host's own roster tracks it": the same of a resumed run.
ResumedRunsFindable == TaskOpen # {} /\ misjudged = {} => Findable
=============================================================================
