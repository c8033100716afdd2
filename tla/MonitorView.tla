----------------------------- MODULE MonitorView -----------------------------
(***************************************************************************)
(* The monitor behind both dashboards: DashboardState polls a source, keeps *)
(* the last good snapshot and derives rates from cumulative counters; the  *)
(* source is a running host's ops endpoint (two requests), or the app      *)
(* itself, loaded and, if need be, started in this process.  Ticks, the    *)
(* refresh key, a drill-down and stop() may all come while a poll is out.  *)
(***************************************************************************)
EXTENDS Integers, FiniteSets

CONSTANTS
  MonitorSources,   \* {"http", "embedded"}
  Panels,           \* hosts a drill-down may open on
  MaxPolls,         \* polls asked
  MaxStarts,        \* calls of start()
  MaxViewTime,      \* ticks of the wall clock
  MaxKeys,          \* pauses, refreshes and drill-downs
  MaxViewFaults     \* failed polls and counter resets, together

ASSUME ViewAssumption == MaxPolls \in Nat

VARIABLES
  kind,       \* the source: "http" or "embedded"
  appUp, appOver, ownerUses, attached,  \* the app an embedded source reads
  clock, served, counter,  \* wall clock; calls ever served; the counter read
  polls,      \* [1..MaxPolls -> a poll]
  inFlight,   \* #inFlight: the poll whose controller is current, or 0
  loops,      \* [1..MaxStarts -> "off" | "polling" | "waiting"]
  timer,      \* the loop whose timeout #timer holds, or 0
  view,       \* snapshot, error, paused and focus of the DashboardView
  previous,   \* RateTracker's last reading of the calls counter
  latest,     \* the newest entry of the calls series
  stopped, keys, viewFaults

worldVars == <<kind, appOver, appUp, ownerUses, attached, clock, served, counter>>
viewVars == <<kind, appUp, appOver, ownerUses, attached, clock, served, counter, polls,
              inFlight, loops, timer, view, previous, latest, stopped, keys, viewFaults>>

PollIds == 1 .. MaxPolls
Loops == 1 .. MaxStarts
NoPanel == "list"
NoReading == [at |-> -1, value |-> 0, truth |-> 0]
Gap == [delta |-> 0, truth |-> 0]
NoPoll == [phase |-> "none", by |-> 0, focus |-> NoPanel, cut |-> FALSE, read |-> NoReading]

ViewInit ==
  /\ kind \in MonitorSources
  /\ appUp \in (IF kind = "http" THEN {TRUE} ELSE BOOLEAN)
  /\ ownerUses = appUp /\ appOver = FALSE
  /\ attached = "no"
  /\ clock = 0 /\ counter \in {0, 1} /\ served = counter
  /\ polls = [p \in PollIds |-> NoPoll] /\ inFlight = 0
  /\ loops = [l \in Loops |-> "off"] /\ timer = 0
  /\ view = [snapshot |-> 0, detail |-> NoPanel, error |-> FALSE, paused |-> FALSE, focus |-> NoPanel]
  /\ previous = NoReading /\ latest = Gap
  /\ stopped = FALSE /\ keys = 0 /\ viewFaults = 0

ViewFault == viewFaults < MaxViewFaults /\ viewFaults' = viewFaults + 1
Key == keys < MaxKeys /\ keys' = keys + 1
Live(p) == polls[p].phase \in {"asked", "read"}
Unasked == {p \in PollIds : polls[p].phase = "none"}
Ready == attached # "no" /\ ~stopped

-----------------------------------------------------------------------------
(* What is watched *)

\* time passes, and a call may be served
Traffic(n) ==
  /\ clock < MaxViewTime
  /\ clock' = clock + 1
  /\ served' = served + n /\ counter' = counter + n
  /\ UNCHANGED <<kind, appUp, appOver, ownerUses, attached, polls, inFlight, loops, timer, view,
                 previous, latest, stopped, keys, viewFaults>>

\* metrics().reset(), or another process behind the same address
CounterReset ==
  /\ ViewFault /\ counter > 0
  /\ counter' = 0
  /\ UNCHANGED <<kind, appUp, appOver, ownerUses, attached, clock, served, polls, inFlight,
                 loops, timer, view, previous, latest, stopped, keys>>

\* the app's owner calls app.start(), which a running app answers at once
OwnerStarts ==
  /\ kind = "embedded" /\ ~ownerUses /\ ~appOver
  /\ ownerUses' = TRUE /\ appUp' = TRUE
  /\ UNCHANGED <<kind, appOver, attached, clock, served, counter, polls, inFlight, loops,
                 timer, view, previous, latest, stopped, keys, viewFaults>>

\* the source is made: an embedded one starts the app unless it runs already
Attach ==
  /\ attached = "no"
  /\ attached' = IF kind = "http" \/ appUp THEN "running" ELSE "started"
  /\ appUp' = TRUE
  /\ UNCHANGED <<kind, appOver, ownerUses, clock, served, counter, polls, inFlight, loops,
                 timer, view, previous, latest, stopped, keys, viewFaults>>

-----------------------------------------------------------------------------
(* Polling *)

\* a new poll abandons the one in flight
PollsWith(p, by, focus) ==
  [q \in PollIds |-> CASE q = p -> [NoPoll EXCEPT !.phase = "asked", !.by = by, !.focus = focus]
                       [] q = inFlight -> [polls[q] EXCEPT !.cut = TRUE]
                       [] OTHER -> polls[q]]

\* poll(), up to its first await
Poll(by, focus) ==
  \E p \in Unasked :
    /\ \A q \in Unasked : p <= q
    /\ polls' = PollsWith(p, by, focus)
    /\ inFlight' = p

\* tick() of one loop: a poll unless paused, then the next timeout
TickOf(l) ==
  \/ /\ ~view.paused /\ Poll(l, view.focus)
     /\ loops' = [loops EXCEPT ![l] = "polling"]
     /\ UNCHANGED timer
  \/ /\ view.paused
     /\ loops' = [loops EXCEPT ![l] = "waiting"] /\ timer' = l
     /\ UNCHANGED <<polls, inFlight>>

\* start(): refused once #timer is set
Start ==
  /\ Ready /\ timer = 0
  /\ \E l \in Loops :
       /\ loops[l] = "off" /\ \A m \in Loops : m < l => loops[m] # "off"
       /\ TickOf(l)
  /\ UNCHANGED <<worldVars, view, previous, latest, stopped, keys, viewFaults>>

TimerFires(l) ==
  /\ loops[l] = "waiting"
  /\ \/ ~stopped /\ TickOf(l)
     \/ stopped /\ loops' = [loops EXCEPT ![l] = "off"] /\ UNCHANGED <<polls, inFlight, timer>>
  /\ UNCHANGED <<worldVars, view, previous, latest, stopped, keys, viewFaults>>

\* the source's first read: the ops body, or the stamp an embedded one takes
ReadFirst(p) ==
  /\ polls[p].phase = "asked"
  /\ polls' = [polls EXCEPT ![p].phase = "read",
                            ![p].read = [at |-> clock, value |-> counter, truth |-> served]]
  /\ UNCHANGED <<worldVars, inFlight, loops, timer, view, previous, latest, stopped, keys, viewFaults>>

\* the snapshot: over HTTP the counter came with the body; an embedded source
\* reads it once the fan-out is back
Reading(p) ==
  IF kind = "http" THEN polls[p].read ELSE [polls[p].read EXCEPT !.value = counter]

\* rateBetween(): no interval, or a counter that went back, is a gap
RateBetween(before, now) ==
  IF before = NoReading \/ now.at <= before.at \/ now.value < before.value THEN Gap
  ELSE [delta |-> now.value - before.value, truth |-> now.truth - before.truth]

\* finally: the controller is cleared only by the poll it belongs to
ControllerAfter(p) == IF inFlight = p THEN 0 ELSE inFlight

\* what the loop a poll belongs to does next
LoopGoesOn(p) ==
  LET l == polls[p].by
  IN IF l = 0 THEN UNCHANGED <<loops, timer>>
     ELSE /\ loops' = [loops EXCEPT ![l] = IF stopped THEN "off" ELSE "waiting"]
          /\ timer' = IF stopped THEN timer ELSE l

ViewOver(p) ==
  /\ polls' = [polls EXCEPT ![p] = [NoPoll EXCEPT !.phase = "over"]]
  /\ inFlight' = ControllerAfter(p)
  /\ LoopGoesOn(p)
  /\ UNCHANGED <<worldVars, stopped, keys>>

Lands(p) ==
  /\ polls[p].phase = "read" /\ ~polls[p].cut /\ ~stopped
  /\ ViewOver(p)
  /\ view' = [view EXCEPT !.snapshot = p, !.detail = polls[p].focus, !.error = FALSE]
  /\ latest' = RateBetween(previous, Reading(p))
  /\ previous' = Reading(p)
  /\ UNCHANGED viewFaults

\* the request fails or times out: the last good snapshot stays
PollFails(p) ==
  /\ Live(p) /\ ~polls[p].cut /\ ~stopped
  /\ ViewFault
  /\ ViewOver(p)
  /\ view' = [view EXCEPT !.error = TRUE]
  /\ UNCHANGED <<previous, latest>>

\* an abandoned poll, or one that outlived stop(), changes nothing
PollDropped(p) ==
  /\ Live(p) /\ (polls[p].cut \/ stopped)
  /\ ViewOver(p)
  /\ UNCHANGED <<view, previous, latest, viewFaults>>

-----------------------------------------------------------------------------
(* Keys *)

Refresh ==
  /\ Key /\ Ready /\ Poll(0, view.focus)
  /\ UNCHANGED <<worldVars, loops, timer, view, previous, latest, stopped, viewFaults>>

TogglePause ==
  /\ Key /\ Ready
  /\ view' = [view EXCEPT !.paused = ~@]
  /\ UNCHANGED <<worldVars, polls, inFlight, loops, timer, previous, latest, stopped, viewFaults>>

\* focus() polls at once
FocusPolls(h) == Poll(0, h)

Focus(h) ==
  /\ Key /\ Ready /\ h # view.focus
  /\ view' = [view EXCEPT !.focus = h]
  /\ IF h = NoPanel THEN UNCHANGED <<polls, inFlight>> ELSE FocusPolls(h)
  /\ UNCHANGED <<worldVars, loops, timer, previous, latest, stopped, viewFaults>>

\* close() stops only the app it started
ClosesApp == attached = "started"

\* stop(): the timeout #timer holds, the poll in flight, the source
StopView ==
  /\ Ready
  /\ stopped' = TRUE
  /\ loops' = [l \in Loops |-> IF l = timer /\ loops[l] = "waiting" THEN "off" ELSE loops[l]]
  /\ timer' = 0
  /\ polls' = [p \in PollIds |-> IF p = inFlight THEN [polls[p] EXCEPT !.cut = TRUE] ELSE polls[p]]
  /\ appUp' = (appUp /\ ~(kind = "embedded" /\ ClosesApp))
  /\ appOver' = (appOver \/ (kind = "embedded" /\ ClosesApp))
  /\ UNCHANGED <<kind, ownerUses, attached, clock, served, counter, inFlight, view, previous,
                 latest, keys, viewFaults>>

ViewNext ==
  \/ \E n \in {0, 1} : Traffic(n)
  \/ CounterReset \/ OwnerStarts \/ Attach
  \/ Start \/ \E l \in Loops : TimerFires(l)
  \/ \E p \in PollIds : ReadFirst(p) \/ Lands(p) \/ PollFails(p) \/ PollDropped(p)
  \/ Refresh \/ TogglePause \/ StopView
  \/ \E h \in Panels \cup {NoPanel} : Focus(h)

ViewSpec == ViewInit /\ [][ViewNext]_viewVars

-----------------------------------------------------------------------------
(* Properties *)

\* #inFlight is the controller of a live poll, set while one is heard, and a loop
\* that polls has its poll.
ViewTypeOK ==
  /\ inFlight \in {0} \cup {p \in PollIds : Live(p)}
  /\ (\E p \in PollIds : Live(p) /\ ~polls[p].cut) => inFlight # 0
  /\ \A l \in Loops : loops[l] = "polling" <=> \E p \in PollIds : Live(p) /\ polls[p].by = l
  /\ view.snapshot \in 0 .. MaxPolls

\* A slow answer never overwrites a newer one, however ticks, refreshes and
\* drill-downs overlap: what is on screen is older than every poll still heard.
NewestWins ==
  \A p \in PollIds : Live(p) /\ ~polls[p].cut =>
    view.snapshot < p /\ \A q \in PollIds : Live(q) /\ ~polls[q].cut => q = p

\* An open drill-down whose detail is not on screen has a poll under way that
\* asks for it, or an error to show: it never waits for the next tick.
PanelIsComing ==
  Ready /\ view.focus # NoPanel /\ view.detail # view.focus =>
    view.error \/ \E p \in PollIds : Live(p) /\ ~polls[p].cut /\ polls[p].focus = view.focus

\* Over HTTP a rate never claims calls that were not served in its interval,
\* across resets, failed polls and the first reading.
RateNeverInvented == kind = "http" => latest.delta <= latest.truth

\* embedded.ts: a host it merely attached to is not stopped by the monitor.
AttachedHostSurvives == attached = "running" /\ ownerUses => appUp

\* state.ts:125: "Start polling. Idempotent."
StartIsIdempotent == Cardinality({l \in Loops : loops[l] # "off"}) <= 1
\* embedded.ts: "a monitor must never be the thing that cycles the host it is
\* monitoring"
OwnersHostSurvives == ownerUses => appUp
\* rates.ts: what is shown is the rate since the last reading, embedded or not.
RateIsTrueAnywhere == latest.delta <= latest.truth

====
