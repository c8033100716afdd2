------------------------------ MODULE AppMount ------------------------------
(***************************************************************************)
(* What a process serves over HTTP while its actor app comes and goes: the *)
(* mount that resolves the host for every request and bridges Node's       *)
(* streams, the health and ops plugins that answer probes from what the    *)
(* plugins contributed, the readiness the cluster plugin reports, and the  *)
(* rebalance timer it runs.                                                *)
(***************************************************************************)
EXTENDS Integers, FiniteSets

CONSTANTS
  MountCalls,      \* requests
  MountModes,      \* with the cluster plugin or without: {"cluster", "single"}
  MaxBuilt,        \* hosts the app may build, one per start
  MaxBody,         \* maxBodyBytes, in chunks
  MaxMountFaults

VARIABLES
  mode,
  appState,        \* phase of start()/stop(), #host, hosts built
  seal,       \* setup rounds run, the rounds the first and the last plugin hold, the
              \* frozen one
  hooked,     \* the health and ops plugins hold the host (their onStart ran)
  member,     \* the status this host publishes
  fenced,
  broken,     \* a contributed health check throws
  balance,    \* the rebalance plugin: timer, the running flag, rounds at work
  cached,     \* the host the cached actor handler was made for
  reqs,       \* [MountCalls -> a request]
  mountFaults

mountVars == <<mode, appState, seal, hooked, member, fenced, broken, balance, cached, reqs, mountFaults>>
mountHostVars == <<appState, seal, hooked, member, fenced, balance>>

Idle == [phase |-> "idle", kind |-> "none", host |-> 0, uses |-> 0, got |-> 0,
         closed |-> FALSE, aborted |-> FALSE, code |-> 0]

MountInit ==
  /\ mode \in MountModes
  /\ appState = [phase |-> "off", host |-> 0, built |-> 0]
  /\ seal = [round |-> 0, first |-> 0, last |-> 0, frozen |-> 0]
  /\ hooked = FALSE /\ member = "joining" /\ fenced = FALSE /\ broken = FALSE
  /\ balance = [timer |-> FALSE, running |-> FALSE, rounds |-> 0]
  /\ cached = 0
  /\ reqs = [r \in MountCalls |-> Idle]
  /\ mountFaults = 0

MountFault == mountFaults < MaxMountFaults /\ mountFaults' = mountFaults + 1

-----------------------------------------------------------------------------
(* What the probes answer *)

\* counters().status
StatusOf == IF fenced THEN "fenced" ELSE member

\* the check the cluster plugin contributes
ClusterCheck == [ready |-> StatusOf = "active", fatal |-> StatusOf = "fenced"]

\* every contributed check, in the seal the plugins captured; one that throws
\* is not ready
Report ==
  {ClusterCheck : x \in {mode} \cap {"cluster"}}
    \cup (IF broken THEN {[ready |-> FALSE, fatal |-> FALSE]} ELSE {})

\* GET {base}/ready answers 200, GET {base} answers 503 because of a check
ReadyAnswer == appState.host # 0 /\ hooked /\ \A c \in Report : c.ready /\ ~c.fatal
FatalAnswer == appState.host # 0 /\ \E c \in Report : c.fatal

-----------------------------------------------------------------------------
(* The app *)

\* #seal(): every plugin's setup() runs against a fresh set of contributions,
\* frozen only when all of them returned; the last plugin is the one that throws
SealRun(ok) == [round |-> seal.round + 1, first |-> seal.round + 1,
                last |-> IF ok THEN seal.round + 1 ELSE seal.last,
                frozen |-> IF ok THEN seal.round + 1 ELSE 0]

\* app.routes or app.start(), whichever comes first; a setup may throw
Seals ==
  /\ seal.frozen = 0
  /\ \/ seal' = SealRun(TRUE) /\ UNCHANGED mountFaults
     \/ seal' = SealRun(FALSE) /\ MountFault
  /\ UNCHANGED <<mode, appState, hooked, member, fenced, broken, balance, cached, reqs>>

Starts ==
  /\ appState.phase = "off" /\ seal.frozen # 0 /\ appState.built < MaxBuilt
  /\ appState' = [phase |-> "starting", host |-> appState.built + 1, built |-> appState.built + 1]
  /\ member' = "joining"
  /\ UNCHANGED <<mode, seal, hooked, fenced, broken, balance, cached, reqs, mountFaults>>

\* host.start(): it joins, or the start rejects and stays retryable
HostStarted ==
  /\ appState.phase = "starting"
  /\ \/ appState' = [appState EXCEPT !.phase = "hooks"] /\ member' = "active" /\ UNCHANGED mountFaults
     \/ MountFault /\ appState' = [appState EXCEPT !.phase = "off", !.host = 0] /\ UNCHANGED member
  /\ UNCHANGED <<mode, seal, hooked, fenced, broken, balance, cached, reqs>>

\* the onStart hooks of health, ops and the rebalance plugin
HooksRun ==
  /\ appState.phase = "hooks" /\ ~hooked
  /\ hooked' = TRUE
  /\ balance' = [balance EXCEPT !.timer = (mode = "cluster")]
  /\ UNCHANGED <<mode, appState, seal, member, fenced, broken, cached, reqs, mountFaults>>

\* the hooks after them: done, or one throws and the start is rolled back
HooksDone ==
  /\ appState.phase = "hooks" /\ hooked
  /\ \/ appState' = [appState EXCEPT !.phase = "up"] /\ UNCHANGED <<member, mountFaults>>
     \/ MountFault /\ appState' = [appState EXCEPT !.phase = "backing"] /\ member' = "leaving"
  /\ UNCHANGED <<mode, seal, hooked, fenced, broken, balance, cached, reqs>>

\* stop(): beginStop announces leaving before the drain
StopBegins ==
  /\ appState.phase = "up"
  /\ appState' = [appState EXCEPT !.phase = "draining"]
  /\ member' = "leaving"
  /\ UNCHANGED <<mode, seal, hooked, fenced, broken, balance, cached, reqs, mountFaults>>

\* the drain is over: stop() lets go of the host, then runs the onStop hooks
DrainEnds ==
  /\ appState.phase \in {"draining", "backing"}
  /\ appState' = [appState EXCEPT !.phase = IF @ = "draining" THEN "unhooking" ELSE "backhooks",
                        !.host = IF appState.phase = "draining" THEN 0 ELSE @]
  /\ member' = "left"
  /\ UNCHANGED <<mode, seal, hooked, fenced, broken, balance, cached, reqs, mountFaults>>

StopHooksRun ==
  /\ appState.phase \in {"unhooking", "backhooks"}
  /\ appState' = [appState EXCEPT !.phase = IF @ = "unhooking" THEN "over" ELSE "off", !.host = 0]
  /\ hooked' = FALSE
  /\ balance' = [balance EXCEPT !.timer = FALSE]
  /\ UNCHANGED <<mode, seal, member, fenced, broken, cached, reqs, mountFaults>>

\* membership is lost
Fences ==
  /\ mode = "cluster" /\ member \in {"active", "leaving"} /\ ~fenced
  /\ MountFault /\ fenced' = TRUE
  /\ UNCHANGED <<mode, appState, seal, hooked, member, broken, balance, cached, reqs>>

CheckBreaks ==
  /\ \/ ~broken /\ MountFault
     \/ broken /\ UNCHANGED mountFaults
  /\ broken' = ~broken
  /\ UNCHANGED <<mode, mountHostVars, cached, reqs>>

\* single-flight: the flag stays until the round is over
RunningDuringRound == TRUE

RoundStarts ==
  /\ balance.timer /\ ~balance.running /\ balance.rounds < 2
  /\ balance' = [balance EXCEPT !.running = RunningDuringRound, !.rounds = @ + 1]
  /\ UNCHANGED <<mode, appState, seal, hooked, member, fenced, broken, cached, reqs, mountFaults>>

RoundEnds ==
  /\ balance.rounds > 0
  /\ balance' = [balance EXCEPT !.running = FALSE, !.rounds = @ - 1]
  /\ UNCHANGED <<mode, appState, seal, hooked, member, fenced, broken, cached, reqs, mountFaults>>

-----------------------------------------------------------------------------
(* The mount *)

Becomes(r, q) == reqs' = [reqs EXCEPT ![r] = q]
\* a request that is over, with what its connection still holds
DoneWith(r, code) == Becomes(r, [Idle EXCEPT !.phase = "done", !.code = code])

\* the first host's handler is kept
HandlerKept == IF cached = 0 THEN appState.host ELSE cached
\* keyed on the host instance, never captured
HandlerFor == appState.host

\* a request: no host is a 503; a plugin route reads the body; the rest goes to
\* the actor handler
Arrive(r) ==
  /\ reqs[r].phase = "idle"
  /\ \/ appState.host = 0 /\ DoneWith(r, 503) /\ UNCHANGED cached
     \/ /\ appState.host # 0
        /\ Becomes(r, [Idle EXCEPT !.phase = "body", !.kind = "route", !.host = appState.host])
        /\ UNCHANGED cached
     \/ /\ appState.host # 0
        /\ cached' = HandlerFor
        /\ Becomes(r, [Idle EXCEPT !.phase = "handling", !.kind = "actor", !.host = appState.host,
                                   !.uses = HandlerFor])
  /\ UNCHANGED <<mode, mountHostVars, broken, mountFaults>>

\* the cap is enforced while reading
KeepsChunk(n) == n + 1 <= MaxBody

\* a chunk of the body, its end, or its loss
ReadBody(r) ==
  /\ reqs[r].phase = "body"
  /\ \/ ~reqs[r].closed /\ KeepsChunk(reqs[r].got) /\ Becomes(r, [reqs[r] EXCEPT !.got = @ + 1])
     \/ ~reqs[r].closed /\ ~KeepsChunk(reqs[r].got) /\ DoneWith(r, 413)
     \/ ~reqs[r].closed /\ Becomes(r, [reqs[r] EXCEPT !.phase = "handling"])
     \/ reqs[r].closed /\ DoneWith(r, 500)
  /\ UNCHANGED <<mode, mountHostVars, broken, cached, mountFaults>>

\* the handler answers with a streamed response, or a plain one
HandlerAnswers(r) ==
  /\ reqs[r].phase = "handling"
  /\ \/ Becomes(r, [reqs[r] EXCEPT !.phase = "sending"])
     \/ DoneWith(r, 200)
  /\ UNCHANGED <<mode, mountHostVars, broken, cached, mountFaults>>

\* sendResponse: a chunk written, a full buffer, or the end
SendChunk(r) ==
  /\ reqs[r].phase = "sending"
  /\ \/ ~reqs[r].closed /\ UNCHANGED reqs
     \/ ~reqs[r].closed /\ Becomes(r, [reqs[r] EXCEPT !.phase = "parked"])
     \/ DoneWith(r, 200)
  /\ UNCHANGED <<mode, mountHostVars, broken, cached, mountFaults>>

\* 'drain' comes only from a peer that reads
PeerReads(r) ==
  /\ reqs[r].phase = "parked" /\ ~reqs[r].closed
  /\ Becomes(r, [reqs[r] EXCEPT !.phase = "sending"])
  /\ UNCHANGED <<mode, mountHostVars, broken, cached, mountFaults>>

\* res.once('close') is registered before the body is read
AbortsAny(r) == TRUE

ClientCloses(r) ==
  /\ reqs[r].phase \in {"body", "handling", "sending", "parked"} /\ ~reqs[r].closed
  /\ Becomes(r, [reqs[r] EXCEPT !.closed = TRUE, !.aborted = AbortsAny(r)])
  /\ UNCHANGED <<mode, mountHostVars, broken, cached, mountFaults>>

MountNext ==
  \/ Seals \/ Starts \/ HostStarted \/ HooksRun \/ HooksDone
  \/ StopBegins \/ DrainEnds \/ StopHooksRun
  \/ Fences \/ CheckBreaks \/ RoundStarts \/ RoundEnds
  \/ \E r \in MountCalls :
       Arrive(r) \/ ReadBody(r) \/ HandlerAnswers(r) \/ SendChunk(r) \/ PeerReads(r)
         \/ ClientCloses(r)

MountSpec == MountInit /\ [][MountNext]_mountVars

-----------------------------------------------------------------------------
(* Properties *)

\* Rebalance rounds never overlap, and the mount's handler and the app's host
\* stay within what start() built.
MountTypeOK ==
  /\ balance.rounds <= 1 /\ (balance.running <=> balance.rounds = 1)
  /\ appState.host # 0 <=> appState.phase \in {"starting", "hooks", "up", "draining", "backing", "backhooks"}
  /\ cached <= appState.built

\* A cluster host is in rotation only between its join and the announcement of
\* its departure, and never while it is fenced or one of its checks is broken.
InRotation ==
  ReadyAnswer => /\ ~broken
                 /\ mode = "cluster" => ~fenced /\ appState.phase \in {"hooks", "up"}

\* A probe asks for a restart only when the host is fenced: one that starts,
\* drains or has a broken check is alive.
AliveUnlessFenced == FatalAnswer => fenced

\* The plugins report on the contributions the app runs with, also when a setup
\* threw before and every plugin was set up again.
PluginsReadTheApp ==
  seal.frozen # 0 => seal.first = seal.frozen /\ seal.last = seal.frozen

\* A request is handled by a handler made for the host it resolved, across a
\* start that failed and the one that replaced it.
HandlerFollowsHost ==
  \A r \in MountCalls : reqs[r].kind = "actor" /\ reqs[r].phase = "handling" => reqs[r].uses = reqs[r].host

\* A handler whose client is gone has been told, from the first byte of the body
\* to the last of the response.
AbortReaches ==
  \A r \in MountCalls :
    reqs[r].closed /\ reqs[r].phase \in {"handling", "sending", "parked"} => reqs[r].aborted

\* app-handler.ts:254-257: a peer that disconnects in mid-stream ends the
\* response.
NobodyWaitsToDrain == \A r \in MountCalls : ~(reqs[r].phase = "parked" /\ reqs[r].closed)
\* health.ts:16-20: a draining host "must stop receiving new calls".
DrainingIsUnready == ReadyAnswer => appState.phase # "draining"

====
