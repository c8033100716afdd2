---------------------------- MODULE StreamBodies -----------------------------
(***************************************************************************)
(* What runs beside the turns of one activation: `streams:` bodies with    *)
(* the change feeds they open, and volatile timers (host/activation.ts).   *)
(* A stream is set up in a turn and iterated outside every turn, so its    *)
(* consumer's pulls, its disconnection, the turns of the actor, the idle   *)
(* sweep (host/local-host.ts) and deactivation meet in any order.          *)
(*                                                                         *)
(* Every body modelled is `for await (v of ctx.changes()) yield v`, which  *)
(* may also walk away from its feed.  The lane is serial.                  *)
(***************************************************************************)
EXTENDS Naturals, Sequences, FiniteSets

CONSTANTS
    Bodies,        \* streams consumers may open
    ChangeBuffer,  \* CHANGE_BUFFER: snapshots a feed holds
    MaxBodyTurns,  \* bound: turns callers ask for
    MaxTimers      \* bound: timers registered

ASSUME BodiesAssumption ==
    /\ {ChangeBuffer, MaxBodyTurns, MaxTimers} \subseteq Nat
    /\ ChangeBuffer > 0

VARIABLES
    phase,     \* the activation: "live", "swept" or "closing", "gone"
    queue,     \* turns queued and running, the head running
    inTurn,    \* the head has started
    kept,      \* #keepAlive
    recent,    \* lastActivityMs is within the idle window
    bodyStreams,   \* streams[s]
    timers,    \* timers registered so far, newest last
    turnsAsked,
    touched    \* history: some turn that counts as activity ran in the window
bodyVars == <<phase, queue, inTurn, kept, recent, bodyStreams, timers, turnsAsked, touched>>

------------------------------------------------------------------------------
(* State                                                                   *)

\* `setup`: the promise of the setup turn.  `body`: the generator, suspended
\* before its first line, at its yield, or on its feed, or finished.  `pulls`,
\* `leaves`: the consumer's next() and return() that have not settled.
Unopened == [setup |-> "none", body |-> "lazy", feed |-> "none", held |-> 0,
             latched |-> FALSE, released |-> FALSE, pulls |-> FALSE, leaves |-> FALSE,
             left |-> FALSE]

Setups == {"none", "queued", "ready", "failed"}
BodyStates == {"lazy", "yielded", "parked", "over"}
FeedStates == {"none", "live", "done"}

MethodTurn == [kind |-> "method", id |-> 0]
SetupTurn(s) == [kind |-> "setup", id |-> s]
TickTurn(t) == [kind |-> "tick", id |-> t]

BodiesInit ==
    /\ phase = "live" /\ queue = <<>> /\ inTurn = FALSE
    /\ kept = 0 /\ recent = TRUE /\ touched = TRUE
    /\ bodyStreams = [s \in Bodies |-> Unopened]
    /\ timers = <<>> /\ turnsAsked = 0

\* Turns.run: refused once the lane is closed.
Buffered(turn) == queue' = Append(queue, turn)

------------------------------------------------------------------------------
(* Feeds                                                                   *)

\* closeOwned: the latch, then #closeSubs on the feeds of the body.
ClosedOwned(st) ==
    [st EXCEPT !.latched = TRUE, !.feed = IF @ = "live" THEN "done" ELSE @]

\* release() without its latch.
ReleasedUnlatched(st) == st
\* release(): once.
Released(st) == [st EXCEPT !.released = TRUE]

\* What release() takes off #keepAlive.
LetGo(st) == IF st.released THEN 0 ELSE 1

\* #openChanges: a feed opened after the consumer left is born closed.
OpenedFeed(st) ==
    [st EXCEPT !.feed = IF st.latched THEN "done" ELSE "live", !.body = "parked"]

\* #deliver at the boundary of a turn that changed the state, oldest dropped.
Delivered == [s \in Bodies |->
    IF bodyStreams[s].feed = "live" /\ bodyStreams[s].held < ChangeBuffer
    THEN [bodyStreams[s] EXCEPT !.held = @ + 1] ELSE bodyStreams[s]]

------------------------------------------------------------------------------
(* Consumers                                                               *)

\* Nothing is released: setup took the reference and setup failed.
SetupFails(s) == [bodyStreams EXCEPT ![s].setup = "failed", ![s].released = TRUE]

\* resolveGen: the generator and its reference, unless the activation is faulted,
\* the method unknown, or the scope torn down by a forced stop.
SettledSetup(s) ==
    \/ phase # "gone" /\ bodyStreams' = [bodyStreams EXCEPT ![s].setup = "ready"] /\ kept' = kept + 1
    \/ bodyStreams' = SetupFails(s) /\ UNCHANGED kept

\* openStream: its turn is queued, or refused by a closed lane.
Open(s) ==
    /\ bodyStreams[s].setup = "none"
    /\ \/ /\ phase = "live"
          /\ Buffered(SetupTurn(s))
          /\ bodyStreams' = [bodyStreams EXCEPT ![s].setup = "queued"]
       \/ /\ phase # "live"
          /\ bodyStreams' = SetupFails(s)
          /\ UNCHANGED queue
    /\ UNCHANGED <<phase, inTurn, kept, recent, timers, turnsAsked, touched>>

\* openStream inline: from the actor's own chain, under its running turn.
OpenInline(s) ==
    /\ bodyStreams[s].setup = "none"
    /\ inTurn /\ Head(queue).kind = "method"
    /\ SettledSetup(s)
    /\ UNCHANGED <<phase, queue, inTurn, recent, timers, turnsAsked, touched>>

\* The consumer calls next().
Pull(s) ==
    /\ bodyStreams[s].setup # "none" /\ ~bodyStreams[s].pulls /\ ~bodyStreams[s].left
    /\ bodyStreams[s].body # "over"
    /\ bodyStreams' = [bodyStreams EXCEPT ![s].pulls = TRUE]
    /\ UNCHANGED <<phase, queue, inTurn, kept, recent, timers, turnsAsked, touched>>

\* The consumer disconnects: return() closes the feeds before anything else.
Disconnect(s) ==
    /\ bodyStreams[s].setup # "none" /\ ~bodyStreams[s].left
    /\ bodyStreams' = [bodyStreams EXCEPT ![s] =
           [ClosedOwned(@) EXCEPT !.leaves = TRUE, !.left = TRUE]]
    /\ UNCHANGED <<phase, queue, inTurn, kept, recent, timers, turnsAsked, touched>>

\* next() closes what the body owned and lets go.
EndedBody(st) == [Released(ClosedOwned(st)) EXCEPT !.body = "over", !.pulls = FALSE]

\* A step that ends the body.
Over(s) ==
    /\ bodyStreams' = [bodyStreams EXCEPT ![s] = EndedBody(@)]
    /\ kept' = kept - LetGo(bodyStreams[s])
    /\ recent' = TRUE

\* next() awaits the setup, then runs the body to its feed.
ResumeBody(s) ==
    /\ bodyStreams[s].pulls /\ bodyStreams[s].setup = "ready"
    /\ \/ /\ bodyStreams[s].body = "lazy"
          /\ bodyStreams' = [bodyStreams EXCEPT ![s] = OpenedFeed(@)]
          /\ UNCHANGED <<kept, recent>>
       \/ /\ bodyStreams[s].body = "yielded"
          /\ bodyStreams' = [bodyStreams EXCEPT ![s].body = "parked"]
          /\ UNCHANGED <<kept, recent>>
       \/ /\ bodyStreams[s].body \in {"lazy", "yielded"}   \* it walks away, or throws
          /\ Over(s)
       \/ /\ bodyStreams[s].body = "parked" /\ bodyStreams[s].held > 0
          /\ bodyStreams' = [bodyStreams EXCEPT ![s].held = @ - 1, ![s].body = "yielded",
                                        ![s].pulls = FALSE]
          /\ UNCHANGED <<kept, recent>>
       \/ /\ bodyStreams[s].body = "parked" /\ bodyStreams[s].held = 0 /\ bodyStreams[s].feed = "done"
          /\ Over(s)
    /\ touched' = (touched \/ recent')
    /\ UNCHANGED <<phase, queue, inTurn, timers, turnsAsked>>

\* next() on a setup that failed: closed, nothing to let go.
PullFails(s) ==
    /\ bodyStreams[s].pulls /\ bodyStreams[s].setup = "failed"
    /\ bodyStreams' = [bodyStreams EXCEPT ![s] = [ClosedOwned(@) EXCEPT !.body = "over",
                                                                !.pulls = FALSE]]
    /\ UNCHANGED <<phase, queue, inTurn, kept, recent, timers, turnsAsked, touched>>

\* return() goes on once setup has settled and the generator takes its
\* return(): at once where it is suspended at a yield or before its first line,
\* never while it is parked on its feed.
Return(s) ==
    /\ bodyStreams[s].leaves
    /\ \/ /\ bodyStreams[s].setup = "ready" /\ bodyStreams[s].body # "parked"
          /\ bodyStreams' = [bodyStreams EXCEPT ![s] =
                 [Released(@) EXCEPT !.body = "over", !.leaves = FALSE, !.pulls = FALSE]]
          /\ kept' = kept - LetGo(bodyStreams[s])
          /\ recent' = (recent \/ LetGo(bodyStreams[s]) = 1)
       \/ /\ bodyStreams[s].setup = "failed"
          /\ bodyStreams' = [bodyStreams EXCEPT ![s].body = "over", ![s].leaves = FALSE,
                                        ![s].pulls = FALSE]
          /\ UNCHANGED <<kept, recent>>
    /\ touched' = (touched \/ recent')
    /\ UNCHANGED <<phase, queue, inTurn, timers, turnsAsked>>

------------------------------------------------------------------------------
(* Turns                                                                   *)

\* A caller's call.
Ask ==
    /\ phase = "live" /\ turnsAsked < MaxBodyTurns
    /\ turnsAsked' = turnsAsked + 1
    /\ Buffered(MethodTurn)
    /\ UNCHANGED <<phase, inTurn, kept, recent, bodyStreams, timers, touched>>

StartTurn ==
    /\ queue # <<>> /\ ~inTurn
    /\ inTurn' = TRUE
    /\ LET turn == Head(queue) IN
          /\ timers' = IF turn.kind = "tick" THEN [timers EXCEPT ![turn.id].queued = FALSE]
                       ELSE timers
          /\ IF turn.kind = "setup"
             THEN SettledSetup(turn.id)
             ELSE UNCHANGED <<bodyStreams, kept>>
    /\ UNCHANGED <<phase, queue, recent, turnsAsked, touched>>

\* #afterTurn moves lastActivityMs; a timer without keepAlive puts it back.
RecentAfter(turn) == recent \/ turn.kind # "tick" \/ timers[turn.id].keepAlive

EndTurn ==
    /\ inTurn
    /\ LET turn == Head(queue) IN
          /\ recent' = RecentAfter(turn)
          /\ touched' = (touched \/ turn.kind # "tick" \/ timers[turn.id].keepAlive)
          /\ \/ turn.kind # "setup" /\ bodyStreams' = Delivered
             \/ UNCHANGED bodyStreams
    /\ inTurn' = FALSE
    /\ queue' = Tail(queue)
    /\ UNCHANGED <<phase, kept, timers, turnsAsked>>

\* A turn registers the timer: the one it replaces is cleared first.
Cleared == [t \in DOMAIN timers |-> [timers[t] EXCEPT !.armed = "no"]]

Register ==
    /\ inTurn /\ Head(queue).kind # "setup" /\ Len(timers) < MaxTimers
    /\ \E k, p \in BOOLEAN :
          timers' = Append(Cleared, [armed |-> "due", periodic |-> p, keepAlive |-> k,
                                     queued |-> FALSE])
    /\ UNCHANGED <<phase, queue, inTurn, kept, recent, bodyStreams, turnsAsked, touched>>

\* tick(): coalesced while one waits; a closed lane refuses the turn.
Ticks(t) == ~timers[t].queued /\ phase = "live"

\* The scheduler fires a timer: the first time, then every period.
Fire(t) ==
    /\ t \in DOMAIN timers /\ timers[t].armed \in {"due", "every"}
    /\ timers' = [timers EXCEPT ![t].queued = TRUE,
                                ![t].armed = IF timers[t].periodic THEN "every" ELSE "no"]
    /\ IF Ticks(t) THEN Buffered(TickTurn(t)) ELSE UNCHANGED queue
    /\ UNCHANGED <<phase, inTurn, kept, recent, bodyStreams, turnsAsked, touched>>

------------------------------------------------------------------------------
(* The sweep, and deactivation                                             *)

\* The idle window passes.
Lapse ==
    /\ phase = "live" /\ recent
    /\ recent' = FALSE /\ touched' = FALSE
    /\ UNCHANGED <<phase, queue, inTurn, kept, bodyStreams, timers, turnsAsked>>

\* sweep: idle, not kept alive, and quiet for the window.
Collectable == queue = <<>> /\ kept = 0 /\ ~recent

Collect ==
    /\ phase = "live" /\ Collectable
    /\ phase' = "swept"
    /\ UNCHANGED <<queue, inTurn, kept, recent, bodyStreams, timers, turnsAsked, touched>>

\* The host stops, or the actor is deactivated explicitly: the lane is closed.
Deactivate ==
    /\ phase = "live"
    /\ phase' = "closing"
    /\ UNCHANGED <<queue, inTurn, kept, recent, bodyStreams, timers, turnsAsked, touched>>

\* The end of deactivate(), once the lane is drained, and forceStop(), which
\* does not wait: timers cleared, every feed closed.
TearDown ==
    /\ phase \in {"swept", "closing"}
    /\ phase' = "gone"
    /\ timers' = Cleared
    /\ bodyStreams' = [s \in Bodies |->
           [bodyStreams[s] EXCEPT !.feed = IF @ = "live" THEN "done" ELSE @]]
    /\ UNCHANGED <<queue, inTurn, kept, recent, turnsAsked, touched>>

BodiesNext ==
    \/ \E s \in Bodies : \/ Open(s) \/ OpenInline(s) \/ Pull(s) \/ Disconnect(s)
                         \/ ResumeBody(s) \/ PullFails(s) \/ Return(s)
    \/ Ask \/ StartTurn \/ EndTurn \/ Register
    \/ \E t \in DOMAIN timers : Fire(t)
    \/ Lapse \/ Collect \/ Deactivate \/ TearDown
BodiesSpec == BodiesInit /\ [][BodiesNext]_bodyVars

------------------------------------------------------------------------------
(* Properties                                                              *)

\* The state has its type.
BodiesTypeOK ==
    /\ phase \in {"live", "swept", "closing", "gone"}
    /\ kept \in Nat /\ inTurn \in BOOLEAN /\ recent \in BOOLEAN
    /\ \A s \in Bodies : /\ bodyStreams[s].setup \in Setups
                         /\ bodyStreams[s].body \in BodyStates
                         /\ bodyStreams[s].feed \in FeedStates
                         /\ bodyStreams[s].held \in 0..ChangeBuffer
    /\ \A t \in DOMAIN timers : timers[t].armed \in {"no", "due", "every"}

BodyRunning(s) == bodyStreams[s].setup = "ready" /\ ~bodyStreams[s].released

\* The activation is kept alive by exactly the streams that are set up and have
\* neither ended nor been left: however next(), return() and a failing setup
\* interleave, no reference is lost or dropped twice
\* (host/activation.ts:1392-1402, 1410-1449).
KeptByItsStreams == kept = Cardinality({s \in Bodies : BodyRunning(s)})

\* The idle sweep never takes the activation of a stream that is set up or about
\* to be (host/activation.ts:1334-1347, host/local-host.ts:757-765).
SweepSparesStreams ==
    phase = "swept" => \A s \in Bodies : ~BodyRunning(s) /\ bodyStreams[s].setup # "queued"

\* A body whose consumer has left is not waiting on a feed that only the
\* consumer could have closed: its return() can always go on
\* (host/activation.ts:1434-1448, 3174-3181).
LeavingWakesTheBody ==
    \A s \in Bodies : bodyStreams[s].left => bodyStreams[s].feed # "live"

\* No feed outlives the body that opened it, whether the body returned it or
\* walked away (host/activation.ts:1415-1424).
NoOrphanFeed == \A s \in Bodies : bodyStreams[s].body = "over" => bodyStreams[s].feed # "live"

\* Ticks of a timer without keepAlive do not keep the actor: it is recent only
\* by something else that happened in the window (host/activation.ts:3026-3036).
TimersKeepNobody == recent => touched

\* A timer never has a second tick waiting behind its first
\* (host/activation.ts:3006-3010).
TicksCoalesce ==
    \A t \in DOMAIN timers :
        Cardinality({i \in DOMAIN queue : queue[i] = TickTurn(t) /\ (i > 1 \/ ~inTurn)}) <= 1

\* The feeds of an activation that is gone have ended.  (Not one that a body
\* opens after the teardown: nothing will ever close it.)
FeedsEndWithTheActivation == phase = "gone" => \A s \in Bodies : bodyStreams[s].feed # "live"

\* "Volatile timer - dies with the activation."  (Not one that a turn still
\* running after a forced stop registers.)
TimersDieWithTheActivation == phase = "gone" => \A t \in DOMAIN timers : timers[t].armed = "no"
==============================================================================
