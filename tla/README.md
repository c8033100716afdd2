# TLA+ verification of signalxjs/actors

`@sigx/actors` is a virtual-actor runtime in TypeScript: an actor is named by a
type and a key, is activated on demand on one host of a cluster, handles one
turn at a time, persists its state through a compare-and-swap on an etag, and is
deactivated when idle. This directory holds the models of its core, the TLC
configurations that check them and the TLAPS proofs about them.

## 1. The system

| part | source | state it keeps | operations | what makes it correct |
|---|---|---|---|---|
| activation and persistence | `packages/actors/src/host/activation.ts`, `storage-memory.ts` | in-memory state, etag, version / savedVersion / eventualWanted, fault, parked conflict, debounce, save in flight | create, turn, `ctx.save`, `ctx.append`, `ctx.clearState`, gate, flush turn, reload, deactivate, forceStop | an acknowledged write is durable; no write removes another's; nothing is claimed saved that is not; every turn settles |
| turn lanes | `host/turns.ts`, `reentrancy.ts` | serial tail, interleaved set, depth, closed | run, close, drain | serial turns never overlap; drain waits for all |
| local host | `host/local-host.ts`, `deadlines.ts` | directory of slots (activating / active / deactivating), pools, shutdown flag | dispatch, activate, deactivateById, idle sweep, stopAll | one activation per actor on a host; no call runs on a released one |
| placement | `cluster/placement.ts`, `memory.ts`, `heartbeat-clock.ts`, `load-policy.ts` | membership view, route cache, tombstones, fence | resolve and claim, dispatch with retry, sweep of departed hosts, self-presence check, fence, rejoin, drain | at most one owner while views agree; a call is executed at most once; a fenced host stops |
| cluster directory and membership | `cluster/memory.ts`, `actors-redis`, `actors-pg`, `actors-surreal`, `actors-k8s` | actor -> host entries, leases | claim, release, evict, evictHost, heartbeat | create-if-absent, compare-and-delete |
| cluster connections | `cluster/connection.ts`, `host-endpoint.ts`, `actors-tcp`, `actors-ws` | pending requests, streams | request, cancel, close | a lost connection fails every pending request once, with the right verdict on retry |
| tasks and jobs | `host/tasks.ts`, `task-liveness.ts`, `job/define-job.ts` | durable run ledger, reminder | start, resume, settle, cancel | a run is executed until it settles, and recorded once |
| reminders | `host/reminders.ts`, provider packages | due times, claims | register, scan, fire, ack | a due reminder fires at least once |
| watches, streams | `host/watch*.ts`, `watch-core.ts`, `cluster/coalesce.ts` | subscribers, buffers, throttle window | watch, publish, close | a subscriber ends at the latest value |
| socket sessions, client | `server/*`, `client/*` | subscriptions, resume tokens | call, subscribe, reconnect | nothing leaks, nothing is delivered twice |
| workflow | `actors-workflow` | event log | step, replay | replay is deterministic |

The parts interact by calls (client -> endpoint -> host -> placement -> local
host -> activation), by the shared stores (directory, membership, storage), by
callbacks (onFault, onEmpty, afterDeactivate) and by timers (debounce, sweep,
heartbeat, reminder scan). What is hard is what happens between two awaits:
another activation of the same actor writes, a membership view changes, a drain
ends, a lease lapses, an acknowledgement is lost.

## 2. Modules

| part | module | what it is |
|---|---|---|
| persistence | `Activation` | the persistence path of one actor, for any number of concurrent activations |
| | `DurableState` | what that path promises: effects stay durable until cleared, and a save is acknowledged only for what is durable |
| | `ActivationProofs`, `ActivationPromises` | proofs about it |
| | `Storage` | seven storage adapters: record, etag, log, lost replies |
| placement | `Placement`, `PlacementProofs` | where one actor lives: slots, claims, membership, fencing, stopping, evictions |
| | `DirectoryStore` | the directory as memory, redis, postgres and surreal keep it |
| | `Membership` | the lease of one host: heartbeats, two clocks, the window, fence, leave and rejoin |
| | `Refreshing` | how a membership view follows the store: the refresh coalescer, list-watch |
| | `ClusterProofs` | proofs about `Storage`, `DirectoryStore`, `Membership`, `Refreshing`, `PeerCalls` and `LoadBalancing` in the cluster group |
| | `LoadBalancing` | activation counts, the choice of a host, the rebalance round |
| calls | `Routing`, `RoutingProofs` | one call: resolution, the retry loop, the hop, the target's answer |
| | `PeerCalls` | what peers of different builds, wires and clocks make of a call |
| | `HostConnection` | one multiplexed connection: credit, backpressure, retirement, close |
| | `TcpLinks` | the pool of such connections between two hosts: dials and arbitration |
| one host | `LocalHost` | dispatch, lanes, pools, reentrancy, sweeps, shutdown |
| | `Deadlines` | near and far deadlines of calls |
| | `Topics` | publish and fan-out |
| | `HostLifecycle` | start and stop of app, host, placement, reminders, liveness, seam |
| | `PluginHooks` | plugin hooks around an activation |
| | `AppMount` | the HTTP mount, health, readiness, ops |
| | `MonitorView` | the state behind the monitor |
| | `DurableObjects` | the Cloudflare counterpart of a host |
| | `HostProofs` | proofs about `AppMount`, `MonitorView`, `DurableObjects` and `Deadlines` in the host group |
| background work | `Reminders` | one reminder under five providers |
| | `TaskLedger` | detached tasks, their ledger and the per-host roster |
| | `Jobs` | the row and body of one durable job |
| | `Workflow` | one run of `actors-workflow` |
| | `RunEngine`, `CompletionLedger` | the cluster rig's own engine and how completions are counted |
| | `ScheduleProofs` | proofs about `Jobs` and `RunEngine` in the schedule group |
| feeds | `WatchFeed`, `SharedWatches` | watches on one host, and relayed across hosts |
| | `StreamBodies` | stream bodies and timers of an activation |
| | `SocketSession`, `LivePage` | a page over a WebSocket, and over server-sent events |
| | `EdgeRouting` | a client's calls over HTTP with learned routes and redirects, and a streamed response on its way out |
| figures | `Monitoring`, `Exposition` | call meters, digests and cluster merge; the two exporters |
| | `FetchPool` | the bounded fetch agent and the shared surreal socket |
| instances | `MCSchedule`, `MCFeeds`, `MCCluster`, `MCHost` | what TLC checks |

They are layered the way the code is. `Routing` sees the directory as the host it
names, because `Placement` shows that a member's claim is what the directory
says; `Placement` takes the stores as one atomic map, because `DirectoryStore`
shows each backend's statement, script or transaction to be that. `Activation`
does not rely on `Placement` at all: any number of activations of the actor may be
live at once, since a lapsed or force-stopped host may still be running one, and
the compare-and-swap on the etag is the floor; `Storage` shows what each adapter
makes of that compare-and-swap.

The four group modules (`MCSchedule`, `MCFeeds`, `MCCluster`, `MCHost`) put
components that do not interact side by side in one state space. Their variable
`focus` picks the component whose steps a behaviour takes, so the states are the
sum, not the product, of the components'. `Exposition` extends `Monitoring`: there
the exporter reads the meters' state.

### Activation

One record per activation (`act[a]`) holds the fields of the class that decide
what is written: `mem` (the state, as the set of turns it reflects), `etag`,
`version` / `saved` / `eventual` (`#version`, `#savedVersion`, `#eventualWanted`),
`faulted`, `reload` (`#reloadPending`), `armed` (the debounce), `lane` (the serial
tail, or the interleaved set) and `pending` (the one write in flight). A turn is a
record `call[c]` whose `pc` is the await it is parked at. Steps are what runs
between two awaits: `StartTurn`, `Mutate`, `SaveImmediate`, `SaveEventual`,
`AppendEntry`, `ClearState`, `Gate` (`#gatedSave` and `#doSave`), `ReplyToCall`,
`TimerFires`, `StartFlush`, `FlushGate`, `ReplyToFlush`, `Deactivate`, `Drained`,
`ForceStop`, `EndTurn`. The store answers in steps of its own (`Accept`,
`Refuse`, `Fail`), so a write lands while other activations move, or after its
host died (`Crash`). The code keeps track of mutations when the actor is
write-behind or when `ctx.changes()` was opened (`Tracked`); a subscriber is taken
as there before the first mutation (`Subscribed`, set in `act_serial`).

### Placement

One actor, hosts `1..N`. `slot[h]` is the `LocalHost` directory slot, `attempt[h]`
the position of the activation promise (`beforeActivate`'s claim, its eviction of
an own ghost, its second claim, `Activation.create`), `claimed[h]` is `#claimed`,
`dir` the directory store and `members` the membership store, both as
`cluster/memory.ts` implements them. Every request to a store lands in a step of
its own, possibly after its sender died, may fail, and a failed claim may have
landed (`StoreFails`). A release may be lost. `Dispatch` asks only that the process
lives and is not fenced: during the drain, and of an activation the stop deadline
left behind also after it, calls from inside a turn still activate. `lapsed[h]` is a history variable:
the record has been absent since the host joined. A host id is minted once per
process, so a restarted process is another host. `"stray"` is an activation that
completed after the stop deadline had dropped its slot.

### Routing

`call[c]` is the position of `#routedDispatch`: resolve, directory read, probe,
choose, send, sent, failed. `Resolve`, `Lookup`, `Probe` and `Choose` are the
awaits of `#resolveTarget`; `Send`, `SendFails`, `ConnectionLost` and `Serve` are
the transport and `#onCall` of the target; `NoteFailure` and `Retried` are
`#noteFailure` and the loop's bound. `Http` selects what a caller is told when its
connection goes with the call on it. `Init` takes every combination of cached
routes and of the entry: a cache is as stale as it can be.

### The others

Each opens with the source files it models and what it abstracts. The shape is
the same throughout: a record or function per object of the code, a program
counter where the code awaits, one action per handler or continuation, a budget
of faults (`Max...Faults`) spent by nondeterministic outcomes, history variables
where a property compares a state with an earlier one, and definitions that are
swapped for a provider's own (`provider`, `stProvider`, `backend`, `via`, `kind`,
`lib`) where several implementations meet one contract.

## 3. Runs

| run | instance | shows |
|---|---|---|
| `act_serial` | 2 activations, 3 turns that save, save eventually, append or clear, retryQueuedOnConflict, one storage failure (its acknowledgement may be lost), one crash or forced stop | acknowledged writes are durable, nothing is lost or folded twice, a losing turn's writes never surface, `DurableState` is implemented |
| `act_interleaved` | 2 activations, 3 interleaved turns | the shared save gate: nobody is told "saved" for another's version; a faulted activation never writes |
| `act_write_behind` | write-behind, 2 activations, 2 turns, one failure, one stop | what a completed turn left to the debounce is stored, cleared, or its loss is reported |
| `act_live` | explicit saves, 2 activations, 2 turns of every kind, one failure (its acknowledgement may be lost), one crash or forced stop | every turn settles; the inductive invariant of the stored copies |
| `place_two` | 2 hosts, 2 activation attempts each, one lapse, one failure per host, one router | single activation among members, claims stay backed, the inductive invariant |
| `place_live` | 2 hosts that may stop gracefully, one may die, possibly mid-drain; routers and the sweep | single activation across a drain and its deadline; a dead host's entry is reclaimed |
| `route_framed` | 2 hosts, 1 call, 4 attempts, 2 faults | at-most-once, refusals are honest, convergence, every call ends |
| `schedule` | `MCSchedule`: 8 components | work that was accepted is not lost |
| `feeds` | `MCFeeds`: 7 components | what a client is shown is current, its own, and ends |
| `cluster` | `MCCluster`: 9 components | what hosts share keeps its word, and the figures add up |
| `host` | `MCHost`: 8 components | one host strands nobody and undoes what it built |
| `host_foreign` | `LocalHost`, 3 calls, no faults | violation, see section 7 |

A property of a group run is the conjunction of what one component promises; its
parts are definitions of that component's module, each with a comment of its own:

| property | component: parts |
|---|---|
| `KeptOnce` | Activation: `AckedDurable`, `SavedIsDurable`, `FoldedOnce` |
| `RoutesConverge` | Routing: `TypeOK`, `Converges` |
| `RemindersAreKept` | Reminders: `ClaimedOnce`, `WakeKept`, `AlarmCovers` |
| `BackgroundWorkSurvives` | TaskLedger: `OneBodyPerName`, `Recoverable`; Jobs: `AttemptsBounded`, `RunningHasRun`, `EverySettleAnnounced` |
| `VerdictsStand` | Jobs: `VerdictStands`; RunEngine: `TerminalStands` |
| `WorkflowsResume` | Workflow: `NeverStranded`, `LoggedBeforeRun` |
| `ConnectionKeepsItsWord` | HostConnection: `UnreachableNeverRuns`, `RetirementLosesNothing`, `CreditConserved`, `NothingIsStuck` |
| `OneLinkPerPeer` | TcpLinks: `EveryConnectionIsHeld`, `ArbitrationCutsNothing`, `OneSurvivor` |
| `EngineStrandsNobody` | RunEngine: `ParkedHasItsWake`, `ResidentIsArmed`, `VerdictIsSaved`, `JoinWaitsForAll`, `SignalKept` |
| `LedgerCountsOnce` | CompletionLedger: `BookedOnce`, `NoRunForgotten`, `UnknownOnlyAfterSweep`, `DropSaysSo` |
| `WatchersAreCurrent` | WatchFeed: `OwnView`, `RestIsCurrent`, `OneLoopPerKey`, `PumpHoldsEveryRead`, `FeedKeepsLast`; SharedWatches: `OneRemoteStream`, `NobodyParked`, `OwnIdentity`, `CaughtUp` |
| `SocketSessionsAgree` | SocketSession: `PageCallsRunOnce`, `NeverBreaches`, `NoOrphanWatch`, `PageShowsCurrent` |
| `PagesShowTheLatest` | LivePage: `OneLiveRequest`, `RightRead`, `QuietPageIsCurrent` |
| `EdgeForwardsFaithfully` | EdgeRouting: `NoRedirectEscapes`, `RedirectIsFree`, `DeniedLearnsNothing`, `StreamNeverSpliced`, and of the streamed response `PingDiesWithBody`, `InnerNeverLeaks`, `ClosedOnce` |
| `BodiesEndCleanly` | StreamBodies: `KeptByItsStreams`, `SweepSparesStreams`, `LeavingWakesTheBody`, `NoOrphanFeed`, `TimersKeepNobody`, `TicksCoalesce` |
| `StoresNeverLoseAWrite` | Storage: `NoLostUpdate`, `ReplayedOnce`; DirectoryStore: `HeldUnlessEvicted` |
| `MembershipIsHonest` | Membership: `EvictedPastWindow`, `LeftStaysOut`; Refreshing: `RefreshIsFresh`, `PushIsEnough` |
| `ViewsMoveForCause` | Refreshing: `ViewVersionMoves`; PeerCalls: `OnlyDepartedRehomed` |
| `PeersAgree` | PeerCalls: `UnknownIsLocal`, `HashersAgree`, `ExpiryAgrees`, `CycleIsAnswered`; LoadBalancing: `UnattachedKeepsNothing`, `QuietRoundStopsAtMean` |
| `MetricsAddUp` | Monitoring: `BreakdownAddsUp`, `SampleInItsBucket`, `ClusterPercentile`, `WholeOrPartial`; Exposition: `BucketsAreExact`, `GaugesAreLive`, `ExportersAgree`; FetchPool: `SaturationIsTrue`, `LoadsAreRetried` |
| `HostNeverStrandsACall` | LocalHost: `PoolListsItsSlots`, `PoolWithinCap`, `LoadIsTurns`, `NeverBehindItself`, `HangsOnlyInCycles`; Deadlines: `NeverEarly`, `TickArmed`, `LateByTwoTicks`, `ChainTightens`; Topics: `ReportIsWhole`, `RejectedForItsOwnBuild`, `HangsOnlyAcrossChains` |
| `StopUndoesStart` | HostLifecycle: `DownLeavesNothing`, `StartedIsWhole`, `PluginsTornDown`, `OneStopper`; PluginHooks: `HooksSeeOwned`, `HooksMirror`, `ReleaseIsOwn` |
| `MountFollowsTheApp` | AppMount: `InRotation`, `AliveUnlessFenced`, `PluginsReadTheApp`, `HandlerFollowsHost`, `AbortReaches`; MonitorView: `NewestWins`, `PanelIsComing`, `RateNeverInvented`, `AttachedHostSurvives` |
| `ObjectsServeTheirActor` | DurableObjects: `WaitersAreServed`, `OneHomePerActor`, `SessionHasSocket`, `LifetimeEnforced` |

Each part of the conjunctions also takes the type invariant of its component.

Every bound is a constant, and named after what it bounds. `MaxSeq = 2` of
`Placement` is the least that lets a late release meet a successor's claim of the
same host; two activations and three turns let one turn lose a compare-and-swap
while a second waits at the gate and a third is queued. Two hosts are enough for
`SoleOwner`, which relates two of them; that the sweep of a larger cluster, with
its sweeper and its delegates, removes nobody's claim is the theorem
`ClaimsStayBacked`. `Converges` is tight: with the default `retries: 3` two moves
or unwritten frames on top of a stale route are absorbed, and a third is not. A
dead or draining owner is excluded there: until its TTL passes or it lets go, the
loop can only report, and it does.

In the group runs the counts are the least at which each hazard happens: two
storage clients (a stale and a fresh one), two TCP connections and two dialling
hosts for the arbitration, a credit window of one with two chunks so that a stream
runs dry, a ring of two with a page of one so that the ledger drops, two hosts and
a clock of two periods for a reminder that is claimed, lost with its host and
delivered by the other, two dials and two toggles for a subscription that survives
a reconnect, three membership views for a rendezvous that moves, a queue, a pool
and a buffer of one wherever a limit must be met. One fault per behaviour, or two
where two different ones must meet, keeps the runs within minutes.
A behaviour of a group run moves one component, `focus`; the variables of most of
the others hold the value `Off`, and those of the rest, which a theorem or an
action property speaks of whatever the focus, keep their initial values. The
rig's engine gets two plans: a parent that joins its child, which already runs
two activations side by side, and a branching one whose parallel step fails and
is compensated. What a theorem covers for every value of the constants (section
5) is given the smaller instance, so that the time goes to what only TLC checks.

Deadlock checking is off because all models are bounded: they come to rest when
the bounds are used up, as the system does when no call arrives. Where coming to
rest too early would be the fault (a call parked for ever, a run nobody wakes) a
property says so: `NothingIsStuck`, `HangsOnlyInCycles`, `NeverStranded`,
`ParkedHasItsWake`, `Recoverable`, `WaitersAreServed`.

For the deadlines the bounds must let the coarse timer come too late. With a tick of
two, budgets of one (a near call, with its own timer), three (the default) and four,
and `ExactBelow = 2`, far deadlines begin at three, and two ticks past one of them is
within `MaxDlNow = 9`: a registry whose timer is not armed again violates
`LateByTwoTicks` there, and `TickArmed` at once.

The largest runs, in distinct states: `act_serial` 1.9 million, `place_live` 0.76
million, `schedule` 1.6 million, `feeds` 2.1 million, `cluster` 1.7 million, `host`
2.5 million.

The symmetry set of `Activation` permutes activations and turns, which nothing
orders, and that of `MCFeeds` the subscribers and principals of a watch; no run
that checks a liveness property uses one. `Placement` orders its hosts (the
sweeper is the smallest id), so it has none.

## 4. Fairness

- `Activation!FairSpec`: the event loop runs every continuation that is ready and
  the store answers. Turns are not assumed to arrive, nor activations to be made
  or stopped.
- `Placement!FairSpec`: requests land, the record of a dead or fenced host expires
  (its TTL), started activations and deactivations settle, and hosts that run keep
  routing calls to the actor; the last is a condition on the load, since without
  calls nobody looks at the entry and with `leaving` announced the sweep skips it.
  That a host activates the actor (`Dispatch`) is not assumed.
  Nothing is assumed of crashes, lapses, view changes, sweeps or stops.
- `Routing!FairSpec`: a call's own continuation runs, a request that arrived is
  served, a dead peer's connection is found closed. Convergence of the views is
  not assumed; the bound on attempts alone ends the call.

## 5. Proofs

The theorems hold for every value of the constants that satisfies the assumption
named with them; each development proves an inductive invariant first.

`ActivationProofs` assumes `ConfigAssumption` and, where the theorem says so,
`UniqueEtags`. `NoLostUpdate` is not inductive by itself: it needs to know that
an activation whose etag is the record's holds all that the record holds
(`FreshInv`, also of the write it has in flight), and to keep that through a turn
it needs that only the turn at the head of the lane, or a gated interleaved one,
writes, one write at a time (`LaneInv`). `StorageInv` is their conjunction with
the type invariant. There is one lemma per action; the helpers' effects are lemmas
of their own.

`ActivationPromises` goes on from `StorageInv`. The 25 actions are sorted by what
they do to copies, versions and writes: `NextSteps` shows that each is one of eight
kinds (`Step`: a quiet step, a load, a change of the state, a version asked for, a
write sent, refused, landed, a reply), and every further invariant is proved once
per kind. They are, in the order they rest on each other:

- `TurnInv`: what the position of a turn settles (whoever waits for a version has
  one, a write in flight is the write of the turn that waits, a parked conflict and
  a fault exclude each other and leave at most a clear in flight).
- `FaultInv`: a copy that lost is stale, or has no record to delete. Etags are never
  minted twice, so it stays stale: hence `FaultedNeverWrites`.
- `KeptInv`: the effect of a version that counts as saved is durable, cleared, or
  was discarded by a reload before anyone was told it is kept; of a save in flight,
  the same once it is answered. The versions of the turns of one activation differ,
  which is why an append may claim a version only when the one before it is saved.
  `AckedDurable` and `SavedIsDurable` are its last lines.
- `SpreadInv`: the entry of an append that waits is in its own activation's copy
  and nowhere else, unless the activation's etag is stale. A write whose answer was
  lost is what makes this hard: the entry is in the record, its turn was told
  "error", and the retry must not be able to store it again. `FoldedOnce` follows.
- `WholeInv`: what could still land contains all of the record, with the cleared
  effects too (`StorageInv` leaves those out). It makes every landing a `Commit` or
  an `Erase` of `DurableState`, and with `KeptInv` every end of a turn an
  `Acknowledge`: hence the refinement `KeepsPromise`, for interleaved actors too.
- `LostInv` (serial actors): what a turn has written and not saved is with its
  activation alone until its write lands, and after a refusal only until the winner
  is loaded. `LosingTurnDiscarded` follows.
- `BlankInv` (explicit serial actors): eventual saves owed, a flush under way and a
  flush's write in flight imply a copy that is not blank; a clear and a reload reset
  the three together, and a turn that changed the state finds its change in the copy.
  `NoBlankResurrection` follows.

TLC checked each of these invariants on serial and interleaved instances (with and
without write-behind, reloads and appends) before it was proved.

`PlacementProofs` assumes only `PlacementAssumption`. `ClaimBacked` is preserved
by a late release because activation ids are used once (`FreshIds`), by an eviction
because only hosts seen absent are evicted (`EvictsLapsed`), and by a claim because
an attempt holds the claim exactly when it won it (`SlotBacked`); `StartedOnly`
says that a record absent from membership has lapsed or never was. `SoleOwner`
follows: a serving slot has a claim, a claim is the entry, and there is one entry.

`ClusterProofs` assumes `StAssumption`, `DirectoryStoreAssumption`,
`MembershipAssumption`, `RefreshingAssumption`, `PeerAssumption` and `LbAssumption`. For the storage it first shows
that the seven compare-and-sets accept the current etag and no other
(`MatchesCurrent`), that every write gets an etag above any that was ever handed out
(`NextIsPastTop`; for the adapters whose versions restart, until the first clear),
and that a full save leaves nothing of the log on any of them (`Saved`). Then
whoever holds the current etag knows the whole content (`StFresh`), so that what a
writer puts down contains all that was acknowledged; no sequence of writes, stored
or known to a client, holds one twice (`StOnce`), stale as it may be. A Durable
Object's entries are all past its snapshot's ordinal, and its head past both
(`StRecord`). For the directory a removal needs the very entry: an entry names its
host, so no release removes another's, and an eviction records what it takes
(`DirInv`).

For a host's membership (`MemInv`) one has to know that a host joins once at a time
and on one interval (`OneJoin`), what a fence, a rejoin and a stop exclude
(`OneWayOut`), that a clock which never lagged measures the window and whoever
suspects has asked for a fence (`WindowKnown`), and, for the TTL providers, that
whatever may put the record back is the host's own or awaited by the leave that
deletes it after (`RecordGivenUp`). The window is judged by two clocks: the theorem
needs one of them to tell the time, and `EvictedPastWindow` says so (section 7 has
what happens otherwise; one fault, as in the run, cannot fool both). For the
refreshes (`RefInv`) a view never runs ahead of the store nor a flight behind the
view (`ReadsBehind`), whoever waits is in the flight or in the one to follow
(`OneRefresh`), a flight answers only calls older than its read (`AnswersFresh`), and
what a view has not seen it has yet to be told of or is about to read
(`ToldByRedis`, by the counter; `ToldBySurreal`, by the contents).

`ViewsMove` is an action property, from `RefInv` and from `ListedViews`: every view a
host can be given lists hosts of the cluster, each once, whichever way it is sorted.
Rendezvous hashing needs that of finitely many candidates exactly one ranks first; this
is proved by the least set without a first (`SomeoneRanksFirst`), induction over the
candidates being out of reach. Scores are arbitrary naturals and may tie; no two
hosts have one rank.

`PeersDoAgree` is about two components. For the calls between peers (`PeersInv`) one
has to know the whole stack of nested calls: all under the top are running, each is up
the chain of those above it (`UpChain`), and what each makes of its deadline, brought
back to true time, is never sooner than the root's and later at most by the time spent
on the wire, unless that much has passed already (`CallFits`, `Within`). Skews are
arbitrary integers. For the rebalance rounds (`LbInv`) a round that nothing disturbed
still knows what its host has, and has never more left to shed than lies above the
mean, all of it still on the host (`RoundFits`); that what a round sets out to shed and the
mean, rounded down and up, do not exceed what the host has is a lemma on division
(`AboveTheMean`).

TLC checked these invariants before they were proved, the last on a larger instance
than the run's.

`HostProofs` assumes `DoAssumption`, `ViewAssumption` and `DeadlineAssumption`. For a Durable Object
(`DoInv`) what matters is that no call of a stateless worker gets into the object, and
that whoever is inside, an upgrading socket or a firing alarm included, finds it booting
or booted: an eviction needs an object nobody waits in. A socket has a session only
while it is open, and never shows a version the object has not reached. For the mount
(`MountInv`) the host exists in exactly the phases of the app that have one and is an
active member only from its hooks until it drains; an actor's call uses the host it was
resolved on; whoever closed has been aborted, in whatever phase the close found the
request; one rebalance round runs at a time. For the monitor (`ViewInv`) the poll that
`#inFlight` names is the only one heard and is newer than what the screen shows, a panel
that waits has its poll, each loop has at most one, and over HTTP no reading, shown or
on its way, is ahead of what the server counted. TLC's run is one instance of each; the
theorems hold for any number of calls, sockets, requests and polls.

For the deadlines (`DlInv`) the registry is one structure kept twice: every far call
knows the bucket and the index it is at (`InPlace`), and every place of every bucket
holds a far call that knows it (`Registered`), which is what a swap-pop has to restore
for two calls at once (`SwapPopped`, `LeavesRegistry`); `#size` is how many there are
(`Counted`). The timer facts (`OnTime`) are that an armed timer is not behind, at most
one tick ahead, and less than two ticks past every far deadline. A tick re-establishes
the last: a bucket that is not due ends less than one tick after each of its deadlines
(`KeyBounds`), so whoever is left has become due less than a tick ago. Time stands
still while a timer is due, as section 3 takes it.

`ScheduleProofs` is about a job's verdict and the rig's engine. It assumes
`EngAssumption` for the engine and nothing for the job. For the job (`JobInv`): once a
verdict is on disk the job in memory carries it too, until a discard, so that the only
turns which could still write are those that write the same verdict; a checkpoint that
was acknowledged is in memory, on disk and in what a failed launch would put back. For
the engine (`EngInv`): of each run, the wake on record is the one its status calls for,
and its activation rings for it or has its activate tick still to come; every `childDone`
on the wire comes from a run that has ended. All actions but the delivery of a
`childDone` touch one run, its timers and its alarm (`LocalStep`), so most lemmas
speak of one run. TLC checked `EngInv` (283,177 distinct states) before it was proved.

`RoutingProofs` assumes `RoutingAssumption` and `Framed`: a framed transport and
methods that do not reject with the refusal of a call of their own. Without either,
TLC finds the counterexamples of section 7. For `AtMostOnce` one has to know where
the one request of a call can be: on the wire, sent by the attempt its caller waits
for, or behind a call that ended with an unknown outcome and so is not tried again
(`OnceInv`). `RoutesConverge` counts (`ConvergeInv`): while every host is up and
listed, each attempt but one was wasted by a fault of its own, and the route in use
is right unless the actor moved since. It is proved of a call that is alone
(`Single`: two calls of a host share its cached route, and one may spend the attempt
that a fault was to cost the other) and for fewer faults than retries (`Patient`).

| theorem | statement |
|---|---|
| `ActivationProofs!StorageInvariant` | `UniqueEtags`: `Spec => []StorageInv` |
| `ActivationProofs!TypeCorrect` | `UniqueEtags`: `Spec => []TypeOK` |
| `ActivationProofs!NoUpdateLost` | `UniqueEtags`: `Spec => NoLostUpdate` |
| `ActivationPromises!PromisesKeptOnce` | `UniqueEtags`: `Spec => []KeptOnce` |
| `ActivationPromises!FaultedWritesNothing` | `UniqueEtags`: `Spec => FaultedNeverWrites` |
| `ActivationPromises!LosingTurnsDiscarded` | `UniqueEtags`: `Spec => []LosingTurnDiscarded` |
| `ActivationPromises!ImplementsDurableState` | `UniqueEtags`: `Spec => KeepsPromise` |
| `ActivationPromises!NothingResurrectedBlank` | `UniqueEtags`: `Spec => NoBlankResurrection` |
| `PlacementProofs!TypeCorrect` | `Spec => []TypeOK` |
| `PlacementProofs!Ownership` | `Spec => []OwnershipInv` |
| `PlacementProofs!ClaimsStayBacked` | `Spec => []ClaimBacked` |
| `PlacementProofs!SingleActivation` | `Spec => []SoleOwner` |
| `ClusterProofs!MembershipHonest` | `ClusterSpec => []MembershipIsHonest` |
| `ClusterProofs!StoresKeepWrites` | `ClusterSpec => []StoresNeverLoseAWrite` |
| `ClusterProofs!ViewsMove` | `ClusterSpec => ViewsMoveForCause` |
| `ClusterProofs!PeersDoAgree` | `ClusterSpec => []PeersAgree` |
| `HostProofs!ObjectsServe` | `HostsSpec => []ObjectsServeTheirActor` |
| `HostProofs!MountFollows` | `HostsSpec => []MountFollowsTheApp` |
| `HostProofs!DeadlinesHold` | `HostsSpec => [](focus = "deadlines" => DlTypeOK /\ NeverEarly /\ TickArmed /\ LateByTwoTicks /\ ChainTightens)` |
| `ScheduleProofs!VerdictsAreFinal` | `SchedSpec => VerdictsStand` |
| `ScheduleProofs!EngineIsSound` | `SchedSpec => []EngineStrandsNobody` |
| `RoutingProofs!OneRequestPerCall` | `Framed`: `Spec => [](Types /\ OnceInv)` |
| `RoutingProofs!RoutedAtMostOnce` | `Framed`: `Spec => []AtMostOnce` |
| `RoutingProofs!RefusedCallsNeverRan` | `Framed`: `Spec => []RefusedNeverRan` |
| `RoutingProofs!CallsConverge` | `Framed`, `Single`, `Patient`: `Spec => []RoutesConverge` |

## 6. Only model-checked

Liveness (fairness and `ENABLED` are outside the prover's reach): every call
settles, ends, is deferred or reclaimed; and `ConnectionKeepsItsWord`, whose part
`NothingIsStuck` speaks of `ENABLED`. The components of the four group runs other than
`Storage`, `DirectoryStore`, `Membership`, `Refreshing`, `PeerCalls`, `LoadBalancing`,
`AppMount`, `MonitorView`, `DurableObjects`, `Deadlines`, `RunEngine` and, of its
verdict only, `Jobs`: their properties (`RemindersAreKept`, `BackgroundWorkSurvives`,
`WorkflowsResume`, `OneLinkPerPeer`, `LedgerCountsOnce`, the five of `feeds`,
`MetricsAddUp`, `StopUndoesStart`, and `HostNeverStrandsACall` but for its deadlines)
are checked by TLC on the instances of section 3, and no theorem states them.

`StopUndoesStart` depends on the instance: it holds for the run's three callers. With
five callers, two more hosts and a leave that throws, `HostLifecycle` has a behaviour
that ends with a host running which the app no longer names: a caller that resumed at
`stopped` is held there while another start completes, and then clears `#host`. In
the code that caller's continuation is one microtask behind `Host.stop()`
(`app.ts:744-775`), so the delay is the model's. A proof has to take that
continuation as part of the step that resolves the stop.

## 7. Where the code and its documentation disagree

`host_foreign` is a run of its own. `LocalHost` runs a call inline when its chain
contains the actor and the slot is active (`local-host.ts:413-437`), without asking
whether the turn up the chain still waits. A turn of an actor that is reentrant
within its chain makes a one-way call and goes on; the callee calls back, and the
second turn runs beside the first. `activation.ts:964-968` and `types.ts:1353-1355`
promise "no foreign interleaving".

The rest was met while modelling. Each is stated as a definition of its module, so
that it can be reproduced: check it with the module's own specification and the
constants of its run (section 3), changed as noted.

| definition | what the code does, against what it says |
|---|---|
| `Activation!NoLostUpdate`, `UniqueEtags = FALSE` | sqlite mints version 1 again after a clear (`actors-sqlite/index.ts:222`); a turn that survived the stop deadline (`local-host.ts:826`) holds the old etag, which matches again. `index.ts:16` says no writer can |
| `Placement!OwnGhostReclaimed` | an activation that fails after its claim was won leaves `#claimed` and the entry (`local-host.ts:499`); later attempts answer wrong-host, naming this host. `placement.ts:813`: "reclaim, don't bounce callers off our own ghost" |
| `Placement!StoppedHoldsNothing` | an actor activated by an in-chain call during the drain is not in the list `stopAll` took (`local-host.ts:807`), and is active when the host has stopped; against `local-host.ts:799` |
| `Routing!AtMostOnce`, `Http = TRUE` | `httpTransport` reports any fetch rejection as `unreachable` (`cluster/transport.ts:109`), so a call that may have run is run again; against `docs/architecture/clustering.md:346,362` |
| `Routing!AtMostOnce`, `NestedErrors = TRUE` | a `host-shutdown` thrown inside a turn that ran (`activation.ts:2481`) is taken for a refusal at the door (`placement.ts:2270`) and retried; against `clustering.md:349` |
| `HostConnection!CancelStopsProducer` (PROPERTY; no unary calls, no faults) | a cancel that meets the stream while its generator is not there yet aborts the signal and returns nothing (`connection.ts:539-550`, registered at `660`), and the producer runs on; against `297-299` |
| `TcpLinks!StopClosesAll` | `stop()` misses a dial in flight (`actors-tcp/index.ts:560-581`), against `seam.ts:257` |
| `Reminders!ClearHolds`, sharded, `MaxSets = 2` | `clear` may answer from the cached table (`reminders.ts:183-193,229-240`): it finds no entry, writes nothing and returns, while the store has the entry another host armed; against `93-98`, where the compare-and-swap is what keeps the cache safe |
| `TaskLedger!ResumedRunsFindable`, three hosts, two departures | a resumed task is not entered in the roster (`activation.ts:2548-2591`, only `2512` does), against `task-liveness.ts:29-30` |
| `Workflow!DelayOnce`, `SleepHonoured`, `TerminalSticks` | what `nudge` starts is not awaited by its turn (`run.ts:261-301,367-383`), so it runs beside later turns: a delay begins again, a sleep ends early, a run that ended moves on (`332-351,441-459`); against the comments at `261-263` and `log.ts:52,69-73` |
| `SocketSession!KeepsDialling`, `NobodyWaitsForever` | a first dial that fails while a subscription waits is not repeated (`actors-ws/client.ts:423`; only a lost link redials, `184`); a dial that opens after `close()` can leave who waits for it (`314-353,431-441`); against `187,219-221` |
| `LivePage!ErrorIsTerminal`, `SettleIsNewer` | `take()` hands out errors first, so an older value of the read follows its error (`live-endpoint.ts:302-308`, against `288-291`); a settle and a push that cross leave the older of the two on the page (`use-actor-state.ts:331-345`) |
| `Membership!EvictedIsFenced`, `FencedHoldsNothing`, `StopIsFinal` (`TTL = 2`, `MaxNow = 5`, no faults) | a confirmation that arrives late opens the window from its arrival, not from the write (`heartbeat-clock.ts:127-132,156-160`, against `4-10`); an activation past the fence check completes on a fenced host (`placement.ts:796-829`, against `2016`); a beat on the wire takes the Kubernetes lease back after leave (`actors-k8s/membership.ts:175-187,243-254`, against `placement.ts:1087-1089`) |
| `Membership!LapseIsNoticed` (`TTL = 2`, `MaxNow = 5`, `MaxMemFaults = 2`) | a wall clock stepped back by an NTP correction hides a suspend that the monotonic clock never saw, so neither tells that the window lapsed; `heartbeat-clock.ts:31-34`: "a correcting NTP step can never mask a real lapse" |
| `Refreshing!PushIsEnoughAnywhere`, `NestedRefreshIsFresh` (no faults) | postgres reads version and rows in two queries, so a push may be taken for seen with rows from before it (`actors-pg/index.ts:398-402`); a refresh asked for by a listener of the Kubernetes view is settled by the LIST that called it (`actors-k8s/watch.ts:160-163,200-207`), against `types.ts:143` |
| `LocalHost!UpStackIsActive`, `MemberIdsFresh` | an in-chain call may find its caller's slot gone and re-activate it (`local-host.ts:413-437,514`); pool member ids are used again after the pool emptied (`842`, against `101-107`) |
| `HostLifecycle!HooksAfterDrain`, `StartedServes`, `StaysRetryable` | a second `stop()` runs the plugins' hooks while the first still drains (`app.ts:744-775`, `host.ts:941-955`); a host started again after a stop refuses calls, its `LocalHost` being shut down for good (`host.ts:957-958`, `local-host.ts:120,805`); a failed start leaves the port bound (`placement.ts:963-969`), against `app.ts:646-648` |
| `SharedWatches!DepartedFailsNow` | a watch opened while its host leaves the view is not failed (`placement.ts:1611,1755-1764`), against `1751-1754` |
| `LoadBalancing!OwnEffectSeen`, `MovedIsMoved`, `NeverPastTheMean` (four actors, three rounds) | a refresh in flight replaces the counts together with the placements made meanwhile (`load-policy.ts:105`); an actor that came back is counted as moved (`placement.ts:920-927,847-849`, against `909-912`); a round whose activations end by themselves sheds past the mean (`863`, against `900`) |
| `EdgeRouting!RunsOnce` | a turn that ran and failed at a learned endpoint runs again at the default one (`client/routing.ts:119-132,430-438`), and with `Resends = TRUE` a connection lost after the dispatch is taken for one that never was (`client/index.ts:357-380`); against the header of `routing.ts`, "never a wrong answer", and `client/index.ts:228-239` |
| `EdgeRouting!WaiterIsPinged` | the clock a full queue stopped is started by the next `pull()` only, and the pull that waits for the silent stream is still running (`actor-endpoint.ts:204-234`, against `196-203`) |
| `DurableObjects!IdlePageHears` | a page whose object hibernated hears of no change until something wakes it (`actors-cloudflare/host.ts:455-461,521-531`), against `106-122` |
| `Monitoring!FailuresAreCalls`, `OffIsFrozen` | a call in flight across a reset fails into a window that never counted it (`metrics.ts:364-371,698-724`); a meter switched off still counts activations and storage (`462-557`, against `196-198`) |
| `StreamBodies!FeedsEndWithTheActivation`, `TimersDieWithTheActivation` | a feed opened during the wind-down, or a timer set by it, outlives the activation (`activation.ts:3003-3060,3161-3191`), against `types.ts:932,1042-1045` |
| `Topics!NoPublishHangs` | two publishes that wait for each other's handlers wait for ever (`activation.ts:3106-3110`): the chain sees one's own ancestors only |
| `RunEngine!UnstartedIsWatched`, `TouchTellsParent`, `LateWakeDiscarded` | a crash between the save of the children and the arming of the join watchdog leaves nobody to start them (`run.actor.ts:556`, against `560-569`); a touch of a run in memory does not re-arm its report to the parent (`865`, `835`, against `334-338`); a reminder tick that is late takes the token of the wake now in state (`1086-1096`, against `383-387`) |
| `CompletionLedger!DeathKeepsCounts`, `CompletedIsAcknowledged` | counts since the last save die with the aggregator's host (`stats.actor.ts:242-249`, against `12-14`); a completion is drained for a start whose answer is still out (`workflow-mode.ts:269-286,335-341`, against `347-351`) |
| `MonitorView!StartIsIdempotent`, `OwnersHostSurvives`, `RateIsTrueAnywhere` | `state.ts:126-137`, `embedded.ts:111-121,202-204` and `127-200` against `125` and `rates.ts:28-35` |
| `AppMount!NobodyWaitsToDrain`, `DrainingIsUnready` | a peer that disconnects while `pipe` waits for `drain` leaves it waiting (`app-handler.ts:247-260`); a host that drains on its own, outside a cluster, still reports ready (`health.ts:92-110`, against `16-20`) |
| `Exposition!CountersNeverFall` | the row "(other)" loses a type that overtakes a named one (`digest.ts:228-251`, `metrics.ts:290-304`), so a counter falls; against `prometheus.ts:217-221` |
| `FetchPool!ConnectsAreRetried` | a refused surreal connect stays cached (`connection.ts:157-183`) |
| `PluginHooks!CallsWaitNotFail` | the slot is dropped before the hooks run (`local-host.ts:710`, `721`): a call that comes while they do starts an attempt the placement refuses with this host as the owner; against `511-512` |

`AtMostOnce` of `route_framed` therefore holds for framed transports and methods
whose own errors are not of kind `host-shutdown`.

Two failed starts leave something up, and `DownLeavesNothing` names it (`leaked`): a
join the membership refuses keeps the transports it started (`placement.ts:963-969`),
and an implementation of `reminders` whose `start` throws half-way is not stopped
(`host.ts:881`, outside the inner `try`), as task liveness is.

An activation in progress when its host fences completes on the fenced host: the
fence takes active slots only, and its check comes before the claim. `Placement`
models that; what keeps the data safe then is the compare-and-swap of `Activation`.

## 8. Not modelled

Encodings and frames; the wire parsers; screens of the monitor and the CLI; code
generation and bundler plugins; state migration; the providers' client libraries;
the deployment scripts and benchmark scenarios. Floating-point weights and
percentiles are modelled as small integers and bucket bounds. A correlation id that
wraps after 2^31 calls (`connection.ts:367-372`), a malformed symbol or the watch of
a stream method on a peer's endpoint (its own 404), a subscriber that joins a failed
watch loop (`watch.ts:269-276`), `deactivateType` passing over activating slots
(`local-host.ts:788-796`) and a Durable Object's save that drops its log before its
put (`actors-cloudflare/storage.ts:131-143`) were read and left out.
