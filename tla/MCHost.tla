------------------------------- MODULE MCHost --------------------------------
(***************************************************************************)
(* One host, model-checked: the calls and turns of LocalHost and their     *)
(* deadlines, starting and stopping the host, topics, the hooks of its     *)
(* plugins, the app mounted on its HTTP server, the monitor that watches   *)
(* it, and its Durable Object counterpart. The components do not interact  *)
(* here: `focus` picks the one whose steps a behaviour takes, the others   *)
(* stand still.                                                            *)
(***************************************************************************)
EXTENDS LocalHost, Deadlines, HostLifecycle, Topics, AppMount, MonitorView,
        PluginHooks, DurableObjects

VARIABLE focus

Components == {"calls", "deadlines", "lifecycle", "topics", "mount",
               "monitor", "hooks", "objects"}
hostGroupVars == <<focus, hostVars, dlVars, lifeVars, topicVars, mountVars,
             viewVars, hooksVars, doVars>>

------------------------------------------------------------------------------
(* Values of the constants *)

\* Which topics a type subscribes to, and the order plugins were added in.
MCSubscribes == [T |-> {"a", "b"}, U |-> {"a"}]
MCPlugins == <<"p", "q">>

------------------------------------------------------------------------------

\* The components that a behaviour is not about have no state.
Off == "off"
HostOff ==
  /\ reent = Off /\ dir = Off /\ acts = Off /\ pools = Off /\ calls = Off
  /\ inflight = Off /\ stop = Off /\ hostFaults = Off
DlOff ==
  /\ dlNow = Off /\ dls = Off /\ buckets = Off /\ dlSize = Off /\ dlTimer = Off
  /\ disposed = Off
LifeOff ==
  /\ app = Off /\ hosts = Off /\ port = Off /\ callers = Off /\ lifeFaults = Off
TopicsOff ==
  /\ loaded = Off /\ indexed = Off /\ builds = Off /\ pubs = Off /\ queues = Off
  /\ topicFaults = Off
HooksOff ==
  /\ slot = Off /\ chain = Off /\ entry = Off /\ claimed = Off /\ waiting = Off
  /\ hooksRan = Off /\ begun = Off /\ hookFaults = Off

HostsInit ==
  /\ focus \in Components
  /\ IF focus = "calls" THEN HostInit ELSE HostOff
  /\ IF focus = "deadlines" THEN DlInit ELSE DlOff
  /\ IF focus = "lifecycle" THEN LifeInit ELSE LifeOff
  /\ IF focus = "topics" THEN TopicsInit ELSE TopicsOff
  /\ IF focus = "hooks" THEN HooksInit ELSE HooksOff
  /\ MountInit /\ (focus # "mount" => mode = "single")
  /\ ViewInit /\ (focus # "monitor" => kind = "http" /\ counter = 0)
  /\ DoInit /\ (focus # "objects" => ~misnamed)

HostsNext ==
  \/ /\ focus = "calls" /\ HostNext
     /\ UNCHANGED <<focus, dlVars, lifeVars, topicVars, mountVars, viewVars,
                   hooksVars, doVars>>
  \/ /\ focus = "deadlines" /\ DlNext
     /\ UNCHANGED <<focus, hostVars, lifeVars, topicVars, mountVars,
                   viewVars, hooksVars, doVars>>
  \/ /\ focus = "lifecycle" /\ LifeNext
     /\ UNCHANGED <<focus, hostVars, dlVars, topicVars, mountVars, viewVars,
                   hooksVars, doVars>>
  \/ /\ focus = "topics" /\ TopicsNext
     /\ UNCHANGED <<focus, hostVars, dlVars, lifeVars, mountVars, viewVars,
                   hooksVars, doVars>>
  \/ /\ focus = "mount" /\ MountNext
     /\ UNCHANGED <<focus, hostVars, dlVars, lifeVars, topicVars, viewVars,
                   hooksVars, doVars>>
  \/ /\ focus = "monitor" /\ ViewNext
     /\ UNCHANGED <<focus, hostVars, dlVars, lifeVars, topicVars, mountVars,
                   hooksVars, doVars>>
  \/ /\ focus = "hooks" /\ HooksNext
     /\ UNCHANGED <<focus, hostVars, dlVars, lifeVars, topicVars, mountVars,
                   viewVars, doVars>>
  \/ /\ focus = "objects" /\ DoNext
     /\ UNCHANGED <<focus, hostVars, dlVars, lifeVars, topicVars, mountVars,
                   viewVars, hooksVars>>

HostsSpec == HostsInit /\ [][HostsNext]_hostGroupVars

------------------------------------------------------------------------------
(* Properties: what each component promises, its named parts together.     *)

\* A call is answered, or fails by its deadline: lanes, pools and load figures
\* agree with the turns that run, no call queues behind its own chain, a turn
\* hangs only in a cycle of chains, a deadline fires neither early nor more than
\* two ticks late, for its tick is never lost, and a publish reports on every subscriber.
HostNeverStrandsACall ==
  /\ focus = "calls" => /\ HostTypeOK /\ PoolListsItsSlots /\ PoolWithinCap
                        /\ LoadIsTurns /\ NeverBehindItself /\ HangsOnlyInCycles
  /\ focus = "deadlines" => /\ DlTypeOK /\ NeverEarly /\ TickArmed
                            /\ LateByTwoTicks /\ ChainTightens
  /\ focus = "topics" => /\ TopicsTypeOK /\ ReportIsWhole
                         /\ RejectedForItsOwnBuild /\ HangsOnlyAcrossChains

\* What start built, stop takes down, once: after a failed start or a stop nothing
\* is left but what refused to go or was leaked half-started (README, section 7),
\* every plugin that started is torn down, and the hooks around an activation
\* mirror each other whatever throws between them.
StopUndoesStart ==
  /\ focus = "lifecycle" => /\ LifeTypeOK /\ DownLeavesNothing /\ StartedIsWhole
                            /\ PluginsTornDown /\ OneStopper
  /\ focus = "hooks" => HooksTypeOK /\ HooksSeeOwned /\ HooksMirror /\ ReleaseIsOwn

\* What is mounted follows the app: health and readiness say what the host is, a
\* handler serves the host that runs, an abort reaches the call it is for; and
\* the monitor shows the newest answer and closes only what it opened.
MountFollowsTheApp ==
  /\ focus = "mount" => /\ MountTypeOK /\ InRotation /\ AliveUnlessFenced
                        /\ PluginsReadTheApp /\ HandlerFollowsHost /\ AbortReaches
  /\ focus = "monitor" => /\ ViewTypeOK /\ NewestWins /\ PanelIsComing
                          /\ RateNeverInvented /\ AttachedHostSurvives

\* A Durable Object serves the actor it is named for and no other, wakes those who
\* waited for its build, keeps a session with its socket across hibernation, and
\* ends it when its lifetime is over.
ObjectsServeTheirActor ==
  focus = "objects" => /\ DoTypeOK /\ WaitersAreServed /\ OneHomePerActor
                       /\ SessionHasSocket /\ LifetimeEnforced
==============================================================================
