------------------------------ MODULE LivePage ------------------------------
(***************************************************************************)
(* Live reads over HTTP: the page's channel of app/live.ts and the         *)
(* subscription set of app/live-shared.ts, the $live endpoint of           *)
(* server/live-endpoint.ts, and the cellView useActorState puts in front of    *)
(* the cell it reads (app/use-actor-state.ts).                             *)
(*                                                                         *)
(* One connection carries the page's whole set; every change of the set is *)
(* debounced and reopens it.  A frame names its subscription by its index  *)
(* in the set as it was sent.  Each read's value is a version number; one  *)
(* read (Shown) also has a component with a cell in front of which pushed  *)
(* values are shown.  Pings and the throttle ladder are left out.          *)
(***************************************************************************)
EXTENDS Integers, Sequences, SequencesExt

CONSTANTS
  Reads,            \* the reads the page may subscribe to (numbers)
  Shown,            \* the one whose component is modelled
  MaxOpens,         \* bound on connections opened
  MaxPageToggles,   \* bound on mounts, unmounts and refetches
  MaxPageVer,       \* bound on the versions of a read
  MaxPageFaults     \* bound on connections dropped and subscriptions failed

ASSUME LivePageAssumption ==
  /\ Reads \subseteq Nat /\ Shown \in Reads
  /\ MaxOpens \in Nat /\ MaxPageToggles \in Nat /\ MaxPageVer \in Nat
  /\ MaxPageFaults \in Nat

VARIABLES
  vers,       \* read -> the actor's version of it
  entries,    \* read -> the page's subscription: wanted, seeded, value, errored
  chan,       \* timer, generation, current connection, run state
  conns,      \* one record per $live request
  cellView,       \* the component: pushed value, cell value, fetch in flight
  pageCount   \* toggles and faults so far

pageVars == <<vers, entries, chan, conns, cellView, pageCount>>

NoVer == -1
PageBump(f) == pageCount' = [pageCount EXCEPT ![f] = @ + 1]
WantedReads  == {r \in Reads : entries[r].wanted}
\* set.entries(): one order of the set; which one does not matter, the page
\* keeps the one it sent.
Ordered(S) == SetToSortSeq(S, <)

NoCell      == [pushed |-> NoVer, cell |-> NoVer, fetch |-> "none", answer |-> NoVer, late |-> FALSE]
NoLiveEntry == [wanted |-> FALSE, value |-> NoVer, errored |-> FALSE]

(***************************************************************************)
(* The subscription set and the reopening channel.                         *)
(***************************************************************************)
Scheduled == [chan EXCEPT !.timer = TRUE]

\* subscribe of a new identity; the component also starts its first fetch.
MountRead(r) ==
  /\ ~entries[r].wanted /\ pageCount.toggles < MaxPageToggles /\ PageBump("toggles")
  /\ entries' = [entries EXCEPT ![r].wanted = TRUE]
  /\ chan' = Scheduled
  /\ cellView' = IF r = Shown THEN [cellView EXCEPT !.pushed = NoVer, !.fetch = "asked"] ELSE cellView
  /\ UNCHANGED <<vers, conns>>

UnmountRead(r) ==
  /\ entries[r].wanted /\ pageCount.toggles < MaxPageToggles /\ PageBump("toggles")
  /\ entries' = [entries EXCEPT ![r] = NoLiveEntry]
  /\ chan' = Scheduled
  /\ cellView' = IF r = Shown THEN NoCell ELSE cellView
  /\ conns' = IF chan.conn = 0 THEN conns
              ELSE [conns EXCEPT ![chan.conn].held = {i \in @ : conns[chan.conn].order[i] # r}]
  /\ UNCHANGED vers

NewLiveConn(q) ==
  [order |-> q, aborted |-> FALSE, at |-> [i \in DOMAIN q |-> "auth"],
   sent |-> [i \in DOMAIN q |-> NoVer], latest |-> [i \in DOMAIN q |-> NoVer], terminal |-> <<>>,
   failedAt |-> {}, held |-> DOMAIN q]

\* The request's signal: its watches end and what it held is not read.
LiveEnded(c) ==
  [NewLiveConn(c.order) EXCEPT !.aborted = TRUE,
     !.at = [i \in DOMAIN c.order |-> IF c.at[i] = "auth" THEN "auth" ELSE "over"]]

AbortConnection(cs) == IF chan.conn = 0 THEN cs ELSE [cs EXCEPT ![chan.conn] = LiveEnded(@)]

\* restart(): a new generation; the old connection is aborted.
LiveRestart ==
  /\ chan.timer
  /\ conns' = AbortConnection(conns)
  /\ chan' = [timer |-> FALSE, conn |-> 0, run |-> IF WantedReads = {} THEN "idle" ELSE "open"]
  /\ UNCHANGED <<vers, entries, cellView, pageCount>>

\* run(): open with the set as it is now.
LiveOpen ==
  /\ chan.run = "open" /\ Len(conns) < MaxOpens
  /\ conns' = Append(conns, NewLiveConn(Ordered(WantedReads)))
  /\ chan' = [chan EXCEPT !.conn = Len(conns) + 1, !.run = "reading"]
  /\ UNCHANGED <<vers, entries, cellView, pageCount>>

\* The stream threw: sleep, then open again in the same generation.
LiveDropped ==
  /\ chan.run = "reading" /\ pageCount.faults < MaxPageFaults /\ PageBump("faults")
  /\ conns' = AbortConnection(conns)
  /\ chan' = [chan EXCEPT !.conn = 0, !.run = "open"]
  /\ UNCHANGED <<vers, entries, cellView>>

(***************************************************************************)
(* The endpoint (subscribeAll).                                            *)
(***************************************************************************)
\* start(): definition, authorization, dispatchWatch.
StartWatch(k, i) ==
  /\ conns[k].at[i] = "auth"
  /\ \/ /\ conns' = [conns EXCEPT ![k].at[i] = IF conns[k].aborted THEN "over" ELSE "watch"]
        /\ UNCHANGED pageCount
     \/ /\ ~conns[k].aborted /\ pageCount.faults < MaxPageFaults /\ PageBump("faults")
        /\ conns' = [conns EXCEPT ![k].at[i] = "over", ![k].terminal = Append(@, i)]
  /\ UNCHANGED <<vers, entries, chan, cellView>>

\* A value: coalesced per subscription, the newest wins.
FirstHeld(held, v) == IF held = NoVer THEN v ELSE held
LatestValue(held, v) == v

EmitValue(k, i) ==
  LET r == conns[k].order[i] IN
  /\ conns[k].at[i] = "watch" /\ ~conns[k].aborted /\ conns[k].sent[i] # vers[r]
  /\ conns' = [conns EXCEPT ![k].sent[i] = vers[r], ![k].latest[i] = LatestValue(@, vers[r])]
  /\ UNCHANGED <<vers, entries, chan, cellView, pageCount>>

\* The iterator is done: the subscription is over and no frame says so.
WatchDone(k, i) ==
  /\ conns[k].at[i] = "watch" /\ ~conns[k].aborted
  /\ pageCount.faults < MaxPageFaults /\ PageBump("faults")
  /\ conns' = [conns EXCEPT ![k].at[i] = "over"]
  /\ UNCHANGED <<vers, entries, chan, cellView>>

\* The watch throws, or ended because the deadline of its first value fired.
EmitError(k, i) ==
  /\ conns[k].at[i] = "watch" /\ ~conns[k].aborted
  /\ pageCount.faults < MaxPageFaults /\ PageBump("faults")
  /\ conns' = [conns EXCEPT ![k].at[i] = "over", ![k].terminal = Append(@, i)]
  /\ UNCHANGED <<vers, entries, chan, cellView>>

\* Every subscription over and nothing pending: the response ends, and the
\* page waits for its set to change.
LiveEnds ==
  LET c == conns[chan.conn] IN
  /\ chan.run = "reading" /\ c.terminal = <<>>
  /\ \A i \in DOMAIN c.order : c.at[i] = "over" /\ c.latest[i] = NoVer
  /\ chan' = [chan EXCEPT !.run = "idle"]
  /\ UNCHANGED <<vers, entries, conns, cellView, pageCount>>

(***************************************************************************)
(* The page's end of the frames.                                           *)
(***************************************************************************)
\* The index is a position in the set as it was sent.
FrameFor(k, i) == conns[k].order[i]

\* What a pushed value does to the component in front of its cell.
PushedView(r, v) ==
  IF r # Shown THEN cellView
  ELSE [cellView EXCEPT !.pushed = v, !.late = cellView.fetch # "none"]

\* deliverValue: a value equal to the last one is not delivered again.
TakeValue(i) ==
  LET k == chan.conn
      r == FrameFor(k, i)
      v == conns[k].latest[i]
  IN /\ chan.run = "reading" /\ i \in DOMAIN conns[k].order
     /\ conns[k].terminal = <<>> /\ v # NoVer
     /\ conns' = [conns EXCEPT ![k].latest[i] = NoVer]
     /\ IF i \in conns[k].held /\ entries[r].wanted /\ entries[r].value # v
        THEN /\ entries' = [entries EXCEPT ![r].value = v, ![r].errored = FALSE]
             /\ cellView' = PushedView(r, v)
        ELSE UNCHANGED <<entries, cellView>>
     /\ UNCHANGED <<vers, chan, pageCount>>

\* take(): errors go out before values.
TakeError ==
  LET k == chan.conn
      i == Head(conns[k].terminal)
      r == FrameFor(k, i)
  IN /\ chan.run = "reading" /\ conns[k].terminal # <<>>
     /\ conns' = [conns EXCEPT ![k].terminal = Tail(@), ![k].failedAt = @ \cup {i}]
     /\ entries' = [entries EXCEPT ![r].errored = @ \/ i \in conns[k].held]
     /\ cellView' = IF r = Shown /\ i \in conns[k].held THEN [cellView EXCEPT !.pushed = NoVer] ELSE cellView
     /\ UNCHANGED <<vers, chan, pageCount>>

(***************************************************************************)
(* The cell under the cellView: fetches answer with the version the actor had  *)
(* when the call ran, and a settle drops the pushed value.                 *)
(***************************************************************************)
CellRefresh ==
  /\ entries[Shown].wanted /\ cellView.fetch = "none"
  /\ pageCount.toggles < MaxPageToggles /\ PageBump("toggles")
  /\ cellView' = [cellView EXCEPT !.fetch = "asked", !.pushed = NoVer]
  /\ UNCHANGED <<vers, entries, chan, conns>>

\* An action's invalidation refetches the cell and leaves the pushed value.
Invalidate ==
  /\ entries[Shown].wanted /\ cellView.fetch = "none"
  /\ pageCount.toggles < MaxPageToggles /\ PageBump("toggles")
  /\ cellView' = [cellView EXCEPT !.fetch = "asked"]
  /\ UNCHANGED <<vers, entries, chan, conns>>

FetchRuns ==
  /\ cellView.fetch = "asked"
  /\ cellView' = [cellView EXCEPT !.fetch = "answered", !.answer = vers[Shown]]
  /\ UNCHANGED <<vers, entries, chan, conns, pageCount>>

FetchSettles ==
  /\ cellView.fetch = "answered"
  /\ cellView' = [cellView EXCEPT !.fetch = "none", !.cell = cellView.answer, !.answer = NoVer, !.pushed = NoVer]
  /\ UNCHANGED <<vers, entries, chan, conns, pageCount>>

LiveReadChanges(r) ==
  /\ vers[r] < MaxPageVer
  /\ vers' = [vers EXCEPT ![r] = @ + 1]
  /\ UNCHANGED <<entries, chan, conns, cellView, pageCount>>

-----------------------------------------------------------------------------
PageInit ==
  /\ vers = [r \in Reads |-> 0]
  /\ entries = [r \in Reads |-> NoLiveEntry]
  /\ chan = [timer |-> FALSE, conn |-> 0, run |-> "idle"]
  /\ conns = <<>>
  /\ cellView = NoCell
  /\ pageCount = [toggles |-> 0, faults |-> 0]

PageNext ==
  \/ \E r \in Reads : MountRead(r) \/ UnmountRead(r) \/ LiveReadChanges(r)
  \/ LiveRestart \/ LiveOpen \/ LiveDropped \/ LiveEnds \/ TakeError
  \/ \E i \in 1..Cardinality(Reads) : TakeValue(i)
  \/ \E k \in DOMAIN conns : \E i \in DOMAIN conns[k].order :
       StartWatch(k, i) \/ EmitValue(k, i) \/ WatchDone(k, i) \/ EmitError(k, i)
  \/ CellRefresh \/ Invalidate \/ FetchRuns \/ FetchSettles

PageSpec == PageInit /\ [][PageNext]_pageVars

-----------------------------------------------------------------------------
PageShows == IF cellView.pushed # NoVer THEN cellView.pushed ELSE cellView.cell

\* The types of the state; frames are only ever held for subscriptions of
\* the connection, and one version of each.
PageTypeOK ==
  /\ \A r \in Reads : vers[r] \in 0..MaxPageVer /\ entries[r].value \in NoVer..MaxPageVer
  /\ chan.conn \in 0..Len(conns) /\ chan.run \in {"idle", "open", "reading"}
  /\ chan.run = "reading" => chan.conn # 0
  /\ cellView.fetch \in {"none", "asked", "answered"} /\ PageShows \in NoVer..MaxPageVer
  /\ \A k \in DOMAIN conns : \A i \in DOMAIN conns[k].order :
       conns[k].latest[i] # NoVer => conns[k].latest[i] <= vers[conns[k].order[i]]

\* At most one $live request of the page is served: the ones that a change of
\* the set or a drop left behind are aborted.
OneLiveRequest == \A k \in DOMAIN conns : ~conns[k].aborted => k = chan.conn

\* A value is delivered to the read it was computed for, whatever mounted or
\* unmounted since the set was sent, and never runs ahead of its actor.
RightRead == \A r \in Reads : entries[r].value <= vers[r]

\* The set is the set that was sent, every watch has emitted the current
\* version and nothing is in flight: then every read shows its actor's
\* current version.
PageQuiet ==
  /\ chan.run = "reading" /\ ~chan.timer
  /\ LET c == conns[chan.conn] IN
       /\ ToSet(c.order) = WantedReads /\ c.terminal = <<>>
       /\ \A i \in DOMAIN c.order :
            c.at[i] = "watch" /\ c.sent[i] = vers[c.order[i]] /\ c.latest[i] = NoVer

QuietPageIsCurrent ==
  PageQuiet =>
    /\ \A r \in WantedReads : entries[r].value = vers[r]
    /\ (/\ Shown \in WantedReads /\ cellView.fetch = "none"
        /\ ~cellView.late /\ cellView.pushed # NoVer) => PageShows = vers[Shown]

\* A failed subscription is over: no value of it follows its error.
ErrorIsTerminal ==
  \A k \in DOMAIN conns : k = chan.conn =>
    \A i \in conns[k].failedAt : conns[k].latest[i] = NoVer

\* "A settle of the cell's own is newer information than anything pushed
\* before it": the page never goes back to an older version at rest.
SettleIsNewer ==
  PageQuiet /\ Shown \in WantedReads /\ cellView.fetch = "none" => PageShows = vers[Shown]
=============================================================================
