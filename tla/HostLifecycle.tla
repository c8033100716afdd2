---------------------------- MODULE HostLifecycle ----------------------------
(***************************************************************************)
(* Starting and stopping: the app over its host over the placement, the    *)
(* reminders, task liveness, the sweeper and the ambient seam.             *)
(*   src/packages/actors/src/host/app.ts (start, stop, #runStopHooks)      *)
(*   src/packages/actors/src/host/host.ts (start, #start, stop)            *)
(*   src/packages/actors/src/cluster/placement.ts (start, beginStop, stop) *)
(*   src/packages/actors/src/node/handler.ts (attachSignalHandlers)        *)
(*                                                                         *)
(* A caller is one start() or stop() in flight; between two of its steps   *)
(* every other caller may move.  A behaviour is one app: each start that   *)
(* is not shared builds a host.  The transports' listener is the process's *)
(* own: a second bind of the port fails while the first is held.           *)
(***************************************************************************)
EXTENDS Integers, FiniteSets

CONSTANTS
    Callers,        \* start() and stop() calls a behaviour may make
    MaxHosts,       \* bound: hosts built
    MaxLifeFaults   \* bound: seams that refuse to start or stop, hooks that throw

ASSUME LifeAssumption == MaxHosts \in Nat \ {0} /\ MaxLifeFaults \in Nat

VARIABLES
    app,        \* #starting, #host and #stopped of the app
    hosts,      \* hosts built: #startPromise, #started, #stopped, what is up
    port,       \* the host whose transports hold the listener, 0 when none
    callers,    \* caller -> what it does, where it is, on which host
    lifeFaults

lifeVars == <<app, hosts, port, callers, lifeFaults>>

Seams == {"transports", "member", "reminders", "tasks", "sweeper", "ambient"}
HostIds == 1 .. MaxHosts

NewHost == [built |-> TRUE, promise |-> "none", started |-> FALSE,
            stopped |-> FALSE, up |-> {}, leaked |-> {}, shutting |-> FALSE,
            drained |-> FALSE, serving |-> FALSE,
            hooked |-> FALSE, ended |-> FALSE, early |-> FALSE]
NoHost == [NewHost EXCEPT !.built = FALSE]

Fail == lifeFaults < MaxLifeFaults /\ lifeFaults' = lifeFaults + 1
Works == UNCHANGED lifeFaults

Goto(c, pc) == callers' = [callers EXCEPT ![c].pc = pc]
Answer(c, what) == callers' = [callers EXCEPT ![c] = [@ EXCEPT !.pc = "told", !.says = what]]

HostOf(c) == callers[c].host
H(c) == hosts[HostOf(c)]
Set(c, h) == hosts' = [hosts EXCEPT ![HostOf(c)] = h]

------------------------------------------------------------------------------
(* ActorApp.start                                                          *)

\* A stopped app refuses; a start in flight (or done) is shared; otherwise a
\* host is built and this caller runs #start for everyone.
AppStart(c) ==
    /\ callers[c].pc = "idle"
    /\ \/ /\ app.stopped
          /\ callers' = [callers EXCEPT ![c] =
                [@ EXCEPT !.op = "start", !.pc = "told", !.says = "refused"]]
          /\ UNCHANGED <<app, hosts, port, lifeFaults>>
       \/ /\ ~app.stopped /\ app.starting # 0
          /\ callers' = [callers EXCEPT ![c] =
                [@ EXCEPT !.op = "start", !.pc = "share", !.host = app.starting]]
          /\ UNCHANGED <<app, hosts, port, lifeFaults>>
       \/ /\ ~app.stopped /\ app.starting = 0
          /\ \E h \in HostIds :
                /\ ~hosts[h].built /\ \A g \in HostIds : g < h => hosts[g].built
                /\ hosts' = [hosts EXCEPT ![h] = [NewHost EXCEPT !.promise = "pending"]]
                /\ app' = [app EXCEPT !.starting = h, !.host = h]
                /\ callers' = [callers EXCEPT ![c] =
                      [@ EXCEPT !.op = "start", !.pc = "transports", !.host = h,
                                !.lead = TRUE]]
          /\ UNCHANGED <<port, lifeFaults>>

\* The caller that runs app.#start() for host h, and whether it still does.
Starter(h) == {d \in Callers : callers[d].op = "start" /\ callers[d].host = h
                                  /\ callers[d].lead}
Starting(h) == \E d \in Starter(h) : callers[d].pc # "told"

\* The shared promise settled.
Shared(c) ==
    /\ callers[c].pc = "share" /\ ~Starting(HostOf(c))
    /\ \E d \in Starter(HostOf(c)) : Answer(c, callers[d].says)
    /\ UNCHANGED <<app, hosts, port, lifeFaults>>

\* The synchronous part of Host.stop(): from here nobody else stops this host.
MarkedStopped(h) == [h EXCEPT !.stopped = TRUE, !.started = FALSE,
                              !.promise = "none", !.up = @ \ {"sweeper"}]

\* Host.stop(), up to its first await: done already; behind a start; or it
\* goes ahead.
EnterStop(c, k) ==
    LET h == hosts[k.host]
        at(pc) == callers' = [callers EXCEPT ![c] = [k EXCEPT !.pc = pc]]
    IN \/ h.stopped /\ at("stopped") /\ UNCHANGED hosts
       \/ ~h.stopped /\ h.promise # "none" /\ at("settle") /\ UNCHANGED hosts
       \/ /\ ~h.stopped /\ h.promise = "none" /\ at("quiet")
          /\ hosts' = [hosts EXCEPT ![k.host] = MarkedStopped(h)]

------------------------------------------------------------------------------
(* Host.#start, run by the caller that built the host                      *)

\* placement.start: the transports bind, then the host joins.  What throws
\* here is not rolled back: Host.#start has no handler around it.
StartTransports(c) ==
    /\ callers[c].pc = "transports"
    /\ \/ /\ port = 0
          /\ port' = HostOf(c) /\ Set(c, [H(c) EXCEPT !.up = {"transports"}])
          /\ Goto(c, "join") /\ Works
       \/ /\ port # 0 \/ lifeFaults < MaxLifeFaults
          /\ lifeFaults' = IF port # 0 THEN lifeFaults ELSE lifeFaults + 1
          /\ Goto(c, "failed") /\ UNCHANGED <<port, hosts>>
    /\ UNCHANGED app

\* A refused join: the transports it started stay up, and nobody holds them.
JoinRefused(c) ==
    /\ Fail /\ Goto(c, "failed")
    /\ Set(c, [H(c) EXCEPT !.leaked = H(c).up])
    /\ UNCHANGED port

Join(c) ==
    /\ callers[c].pc = "join"
    /\ \/ /\ Set(c, [H(c) EXCEPT !.up = @ \cup {"member"}])
          /\ Goto(c, "reminders") /\ Works /\ UNCHANGED port
       \/ JoinRefused(c)
    /\ UNCHANGED app

\* reminders.start, then taskLiveness.start; a failure undoes the ones before.
\* Task liveness that throws half-started is stopped with them; an implementation
\* of reminders that does is not, and what it had begun is nobody's to stop.
StartSeam(c, seam, then) ==
    /\ callers[c].pc = seam
    /\ \/ Set(c, [H(c) EXCEPT !.up = @ \cup {seam}]) /\ Goto(c, then) /\ Works
       \/ /\ Fail /\ Goto(c, IF seam = "tasks" THEN "undo" ELSE "unjoin")
          /\ \E half \in SUBSET {seam} : Set(c, [H(c) EXCEPT !.up = @ \cup half])
    /\ UNCHANGED <<app, port>>

\* The rollback: task liveness, reminders, then the placement, each best effort;
\* only the placement when it was reminders that threw.
Unstopped(c) ==
    IF callers[c].pc = "unjoin" THEN H(c).up \cap {"reminders"} ELSE {}

Undo(c) ==
    /\ callers[c].pc \in {"undo", "unjoin"}
    /\ \/ /\ Set(c, [H(c) EXCEPT !.up = Unstopped(c), !.leaked = @ \cup Unstopped(c)])
          /\ port' = IF port = HostOf(c) THEN 0 ELSE port
          /\ Works
       \/ \E bad \in H(c).up \ ({"transports"} \cup Unstopped(c)) :
             \* one of the stops throws, and is reported; the others run (a
             \* leave that throws keeps the transports up with it)
             /\ Fail
             /\ LET stuck == Unstopped(c) \cup
                             IF bad = "member" THEN {"member", "transports"} ELSE {bad}
                IN /\ Set(c, [H(c) EXCEPT !.up = stuck, !.leaked = @ \cup stuck])
                   /\ port' = IF port = HostOf(c) /\ "transports" \notin stuck
                              THEN 0 ELSE port
    /\ Goto(c, "failed")
    /\ UNCHANGED app

\* The last, synchronous part: the sweeper, #started, the ambient seam.
Started(h) == [h EXCEPT !.up = @ \cup {"sweeper", "ambient"}, !.started = TRUE,
                        !.stopped = FALSE, !.promise = "done"]

FinishStart(c) ==
    /\ callers[c].pc = "finish"
    /\ Set(c, Started(H(c)))
    /\ Goto(c, IF callers[c].op = "restart" THEN "restarted" ELSE "hooks")
    /\ UNCHANGED <<app, port, lifeFaults>>

\* A rejection is never cached: the app forgets the host and may start again.
StartFailed(c) ==
    /\ callers[c].pc = "failed"
    /\ Set(c, [H(c) EXCEPT !.promise = "none"])
    /\ app' = IF callers[c].op = "start" /\ app.starting = HostOf(c)
              THEN [app EXCEPT !.starting = 0, !.host = 0] ELSE app
    /\ Answer(c, "failed")
    /\ UNCHANGED <<port, lifeFaults>>

\* onStart hooks, once the host is live; one that throws rolls the start back:
\* host.stop(), then the onStop hooks.
RunStartHooks(c) ==
    /\ callers[c].pc = "hooks"
    /\ \/ /\ Set(c, [H(c) EXCEPT !.serving = TRUE, !.hooked = TRUE])
          /\ Answer(c, "ok") /\ Works
       \/ /\ Fail /\ Set(c, [H(c) EXCEPT !.hooked = TRUE])
          /\ Goto(c, "rollback")
    /\ UNCHANGED <<app, port>>

RollBack(c) ==
    /\ callers[c].pc = "rollback" /\ EnterStop(c, callers[c])
    /\ UNCHANGED <<app, port, lifeFaults>>

------------------------------------------------------------------------------
(* ActorApp.stop, attachSignalHandlers and Host.stop                       *)

\* app.stop(): an app that is stopped has nothing to do; a start is awaited.
AppStop(c) ==
    /\ callers[c].pc = "idle"
    /\ callers' = [callers EXCEPT ![c] =
          IF app.stopped THEN [@ EXCEPT !.op = "stop", !.pc = "told", !.says = "ok"]
          ELSE IF app.starting # 0
          THEN [@ EXCEPT !.op = "stop", !.pc = "await", !.host = app.starting]
          ELSE [@ EXCEPT !.op = "stop", !.pc = "told", !.says = "ok"]]
    /\ UNCHANGED <<app, hosts, port, lifeFaults>>

\* The start settled: with no host there is nothing to do, otherwise the app
\* counts as stopped from here on.
AppStopResumes(c) ==
    /\ callers[c].pc = "await" /\ ~Starting(HostOf(c))
    /\ \/ /\ app.host = 0
          /\ Answer(c, "ok") /\ UNCHANGED <<app, hosts>>
       \/ /\ app.host # 0
          /\ app' = [app EXCEPT !.stopped = TRUE]
          /\ EnterStop(c, [callers[c] EXCEPT !.host = app.host])
    /\ UNCHANGED <<port, lifeFaults>>

\* A signal stops a host, whatever it is doing by then; the app is not told.
Signal(c) ==
    /\ callers[c].pc = "idle"
    /\ \A d \in Callers : callers[d].op # "signal"
    /\ \E h \in HostIds :
          /\ hosts[h].built
          /\ EnterStop(c, [callers[c] EXCEPT !.op = "signal", !.host = h])
    /\ UNCHANGED <<app, port, lifeFaults>>

\* The start settled; "another stop may have won while we waited".
HostStopResumes(c) ==
    /\ callers[c].pc = "settle" /\ H(c).promise # "pending"
    /\ \/ H(c).stopped /\ Goto(c, "stopped") /\ UNCHANGED hosts
       \/ /\ ~H(c).stopped
          /\ Set(c, MarkedStopped(H(c))) /\ Goto(c, "quiet")
    /\ UNCHANGED <<app, port, lifeFaults>>

\* Reminders and task liveness stop, each on its own; peers are told.
Quiet(c) ==
    /\ callers[c].pc = "quiet"
    /\ \/ Set(c, [H(c) EXCEPT !.up = @ \ {"reminders", "tasks"}]) /\ Works
       \/ \E bad \in {"reminders", "tasks"} \cap H(c).up :
             /\ Fail
             /\ Set(c, [H(c) EXCEPT !.leaked = @ \cup {bad},
                           !.up = @ \ ({"reminders", "tasks"} \ {bad})])
    /\ Goto(c, "drain")
    /\ UNCHANGED <<app, port>>

\* stopAll: the front door closes ...
BeginDrain(c) ==
    /\ callers[c].pc = "drain"
    /\ Set(c, [H(c) EXCEPT !.shutting = TRUE])
    /\ Goto(c, "draining")
    /\ UNCHANGED <<app, port, lifeFaults>>

\* ... and every activation is deactivated or force-dropped.
EndDrain(c) ==
    /\ callers[c].pc = "draining"
    /\ Set(c, [H(c) EXCEPT !.drained = TRUE, !.serving = FALSE])
    /\ Goto(c, "leave")
    /\ UNCHANGED <<app, port, lifeFaults>>

\* placement.stop: leave, then the transports; a leave that throws ends the
\* stop there, with the transports up and the ambient seam still stamped.
Leave(c) ==
    /\ callers[c].pc = "leave"
    /\ \/ /\ Set(c, [H(c) EXCEPT !.up = @ \ {"member", "transports", "ambient"}])
          /\ port' = IF port = HostOf(c) THEN 0 ELSE port
          /\ Goto(c, "stopped") /\ Works
       \/ /\ Fail /\ Goto(c, "threw")
          /\ Set(c, [H(c) EXCEPT !.leaked = @ \cup H(c).up]) /\ UNCHANGED port
    /\ UNCHANGED app

\* Host.stop() threw: an app is as it was and may be stopped again; a signal
\* handler reports; a rolled-back start carries on.
StopThrew(c) ==
    /\ callers[c].pc = "threw"
    /\ app' = IF callers[c].op = "stop" THEN [app EXCEPT !.stopped = FALSE] ELSE app
    /\ IF callers[c].op = "start" THEN Goto(c, "unhook") ELSE Answer(c, "threw")
    /\ UNCHANGED <<hosts, port, lifeFaults>>

\* Host.stop() resolved: the app lets go of the host and runs onStop hooks.
StopResolved(c) ==
    /\ callers[c].pc = "stopped"
    /\ app' = IF callers[c].op = "stop" THEN [app EXCEPT !.starting = 0, !.host = 0]
              ELSE app
    /\ IF callers[c].op = "signal" THEN Answer(c, "ok") ELSE Goto(c, "unhook")
    /\ UNCHANGED <<hosts, port, lifeFaults>>

\* #runStopHooks, each isolated.
RunStopHooks(c) ==
    /\ callers[c].pc = "unhook"
    /\ Set(c, [H(c) EXCEPT !.ended = TRUE, !.early = @ \/ ~H(c).drained])
    /\ IF callers[c].op = "start" THEN Goto(c, "failed") ELSE Answer(c, "ok")
    /\ UNCHANGED <<app, port, lifeFaults>>

\* host.start() on a host that was stopped, once everything is at rest: "a
\* later start() really restarts".
Restart(c) ==
    /\ callers[c].pc = "idle"
    /\ \E h \in HostIds :
          /\ hosts[h].built /\ hosts[h].stopped /\ hosts[h].promise = "none"
          /\ \A d \in Callers : callers[d].pc \in {"idle", "told"}
          /\ hosts' = [hosts EXCEPT ![h] = [@ EXCEPT !.promise = "pending"]]
          /\ callers' = [callers EXCEPT ![c] =
                [@ EXCEPT !.op = "restart", !.pc = "transports", !.host = h]]
    /\ UNCHANGED <<app, port, lifeFaults>>

Restarted(c) ==
    /\ callers[c].pc = "restarted"
    /\ Answer(c, "ok")
    /\ Set(c, [H(c) EXCEPT !.serving = TRUE])
    /\ UNCHANGED <<app, port, lifeFaults>>

------------------------------------------------------------------------------
LifeInit ==
    /\ app = [starting |-> 0, host |-> 0, stopped |-> FALSE]
    /\ hosts = [h \in HostIds |-> NoHost]
    /\ port = 0 /\ lifeFaults = 0
    /\ callers = [c \in Callers |->
          [op |-> "none", pc |-> "idle", host |-> 1, says |-> "-", lead |-> FALSE]]

StartSteps(c) ==
    \/ AppStart(c) \/ Shared(c) \/ StartTransports(c) \/ Join(c)
    \/ StartSeam(c, "reminders", "tasks") \/ StartSeam(c, "tasks", "finish")
    \/ Undo(c) \/ FinishStart(c) \/ StartFailed(c) \/ RunStartHooks(c) \/ RollBack(c)
    \/ Restart(c) \/ Restarted(c)
StopSteps(c) ==
    \/ AppStop(c) \/ AppStopResumes(c) \/ Signal(c)
    \/ HostStopResumes(c) \/ Quiet(c) \/ BeginDrain(c) \/ EndDrain(c)
    \/ Leave(c) \/ StopThrew(c) \/ StopResolved(c) \/ RunStopHooks(c)

LifeNext == \E c \in Callers : StartSteps(c) \/ StopSteps(c)
LifeSpec == LifeInit /\ [][LifeNext]_lifeVars

------------------------------------------------------------------------------
(* Properties                                                              *)

\* Type correctness; the port is held by the host whose transports are up.
LifeTypeOK ==
    /\ app.starting \in 0 .. MaxHosts /\ app.host \in 0 .. MaxHosts
    /\ port \in 0 .. MaxHosts
    /\ \A h \in HostIds :
          /\ hosts[h].promise \in {"none", "pending", "done"}
          /\ hosts[h].up \subseteq Seams /\ hosts[h].leaked \subseteq Seams
          /\ "transports" \in hosts[h].up <=> port = h
          /\ hosts[h].started => hosts[h].promise = "done"
    /\ \A c \in Callers : callers[c].host \in HostIds

Resting == \A c \in Callers : callers[c].pc \in {"idle", "told"}

\* "A rejected start() leaks no background work", and neither does a stop: once
\* nobody is starting or stopping, a host that is not started has nothing up
\* but what refused to stop, or failed inside placement.start or half-way through
\* an implementation's own reminders.start.
DownLeavesNothing ==
    Resting => \A h \in HostIds :
        ~hosts[h].started => hosts[h].up \subseteq hosts[h].leaked

\* A host that is started at rest has every seam up: no stop that lost a race
\* against the start goes on to take parts of it down.
StartedIsWhole ==
    Resting => \A h \in HostIds : hosts[h].started => hosts[h].up = Seams

\* Whatever a plugin's onStart began has met onStop by the time the app has
\* let go of the host, also when the start was rolled back or the stop retried.
PluginsTornDown ==
    Resting /\ app.host = 0 =>
        \A h \in HostIds : hosts[h].hooked => hosts[h].ended

\* Host.stop() drains a host once: nobody takes down what another already is.
OneStopper ==
    \A c, d \in Callers :
        c # d /\ HostOf(c) = HostOf(d)
            => ~({callers[c].pc, callers[d].pc} \subseteq
                    {"quiet", "drain", "draining", "leave"})

\* onStop: "After the host has drained (post stop())", app.ts.
HooksAfterDrain == \A h \in HostIds : ~hosts[h].early

\* host.ts: "Drop the cached start so a later start() really restarts": a host
\* that is started serves calls from outside.
StartedServes == \A h \in HostIds : hosts[h].started => ~hosts[h].shutting

\* app.ts: a start that failed on "a refused membership join must stay
\* retryable": no start finds the port held by a host that failed to start.
StaysRetryable ==
    \A c \in Callers : callers[c].pc = "transports" /\ port # 0
        => hosts[port].started \/ hosts[port].stopped
==============================================================================
