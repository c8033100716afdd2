---------------------------- MODULE SharedWatches ----------------------------
(***************************************************************************)
(* Cross-host watches as one host relays them: one remote stream per       *)
(* (read, identity), fanned out to the local subscribers.                  *)
(*   src/packages/actors/src/cluster/placement.ts (#coalescedWatch,        *)
(*     #openCoalesced, #pumpCoalesced, #settleEntry, #dropCoalescedFor,    *)
(*     #pruneRoutes, #noteFailure, #routedStreamed)                        *)
(*   src/packages/actors/src/watch-core.ts (createFanOut)                  *)
(*                                                                         *)
(* One actor and one read of it; "a" is the relaying host.  The actor may  *)
(* move, and its host may die, at any time; the relay finds out later.     *)
(***************************************************************************)
EXTENDS Integers, Sequences, FiniteSets

CONSTANTS
    RelaySubs,      \* local subscribers
    Trusted,        \* those with principal "p"; the others are "q"
    Peers,          \* the other hosts
    RelayBuffer,    \* WATCH_BUFFER: values held for a slow subscriber
    RelayRetries,   \* re-routes of a first pull
    MaxStreams,     \* bound: entries opened
    MaxRelayVer,    \* bound: changes of the actor
    MaxUpsets       \* bound: moves, deaths and failed definition loads

ASSUME RelayAssumption ==
    /\ Trusted \subseteq RelaySubs /\ "a" \notin Peers
    /\ RelayBuffer \in Nat \ {0} /\ RelayRetries \in Nat /\ MaxStreams \in Nat \ {0}

VARIABLES
    owner,      \* where the actor is
    aliveHosts, \* hosts that answer
    relayView,  \* the relay's membership view
    route,      \* #routeCache for the actor, "none" when absent
    relayVer,        \* the actor's state
    declared,   \* the read is declared principalIndependent
    memo,       \* the declaration has been loaded and memoised
    current,    \* #coalescedWatches: key -> entry, 0 when none
    streams,    \* every entry opened, with its pump
    relaySubs,  \* the subscribers
    upsets

relayVars == <<owner, aliveHosts, relayView, route, relayVer, declared, memo,
               current, streams, relaySubs, upsets>>

RelayKeys == {"p", "q", "all"}
StreamIds == 1 .. MaxStreams
Who(s) == IF s \in Trusted THEN "p" ELSE "q"
Upset == upsets < MaxUpsets /\ upsets' = upsets + 1

NoStream == [key |-> "p", as |-> "none", at |-> "a", from |-> "none", pc |-> "none",
             tries |-> 0, established |-> FALSE, aborted |-> FALSE, last |-> -1]
Ended(e) == [NoStream EXCEPT !.pc = "ended", !.aborted = TRUE,
                             !.key = streams[e].key, !.as = streams[e].as]
NoSub == [pc |-> "idle", on |-> 0, target |-> "a", queue |-> <<>>, mark |-> "live",
          saw |-> -1]

Known == relayView \cup {"a"}

\* #resolveTarget: the cached route while its host is a member, the directory's
\* owner, or what the policy picks when the owner is no member.
Targets == IF route \in Known THEN {route}
           ELSE IF owner \in Known THEN {owner} ELSE Known
Cached(t) == IF t = "a" THEN route ELSE t

------------------------------------------------------------------------------
(* The fan-out                                                             *)

Listeners(e) == {s \in RelaySubs : relaySubs[s].pc = "sub" /\ relaySubs[s].on = e}

\* push: newest kept, oldest dropped.
Queued(q, v) == IF Len(q) = RelayBuffer THEN Append(Tail(q), v) ELSE Append(q, v)
RelayPushed(e, v) == [s \in RelaySubs |->
    IF s \in Listeners(e) THEN [relaySubs[s] EXCEPT !.queue = Queued(@, v)]
    ELSE relaySubs[s]]

\* "Identity-checked: a stale settle must never evict a newer entry."
RelayEvicted(e) == [current EXCEPT ![streams[e].key] = IF @ = e THEN 0 ELSE @]

\* A teardown that cancels the stream and leaves its subscribers as they are.
MarkedNobody(es, how) == relaySubs

\* fail / finish every subscriber of the entries es.
Marked(es, how) == [s \in RelaySubs |->
    IF relaySubs[s].pc = "sub" /\ relaySubs[s].on \in es
    THEN [relaySubs[s] EXCEPT !.mark = how] ELSE relaySubs[s]]

\* #settleEntry for every entry of es, all of them in the map.
SettleAll(es) ==
    /\ current' = [k \in RelayKeys |-> IF current[k] \in es THEN 0 ELSE current[k]]
    /\ streams' = [e \in StreamIds |->
          IF e \in es THEN [streams[e] EXCEPT !.aborted = TRUE] ELSE streams[e]]
    /\ relaySubs' = Marked(es, "failed")

InMap == {current[k] : k \in RelayKeys} \ {0}

\* #dropCoalescedFor: every established stream to the actor.
Established == {e \in InMap : streams[e].established}

------------------------------------------------------------------------------
(* A subscriber                                                            *)

\* The first next(): resolve, then ask for the declaration.
RelayAttach(s) ==
    /\ relaySubs[s].pc = "idle"
    /\ \E t \in Targets :
          /\ route' = Cached(t)
          /\ relaySubs' = [relaySubs EXCEPT ![s].target = t,
                             ![s].pc = IF t = "a" THEN "private" ELSE "asking"]
    /\ UNCHANGED <<owner, aliveHosts, relayView, relayVer, declared, memo, current,
                   streams, upsets>>

\* The principal is in the key unless the read cannot tell.
RelayKey(s, shared) == IF shared THEN "all" ELSE Who(s)

\* What a joiner finds queued: the last value pushed.
Seed(e) == IF streams[e].last = -1 THEN <<>> ELSE <<streams[e].last>>

\* #declaresPrincipalIndependent: a load that fails answers no, and is not kept.
Declares(loaded) == loaded /\ declared

\* Join the entry of the key, or open one; check and set are one step.
Join(s) ==
    /\ relaySubs[s].pc = "asking"
    /\ \E loaded \in BOOLEAN :
          /\ IF loaded THEN memo' = TRUE /\ UNCHANGED upsets
             ELSE ~memo /\ Upset /\ UNCHANGED memo
          /\ LET shared == Declares(loaded)
                 k == RelayKey(s, shared)
             IN \/ /\ current[k] # 0
                   /\ relaySubs' = [relaySubs EXCEPT ![s] = [@ EXCEPT
                         !.pc = "sub", !.on = current[k], !.queue = Seed(current[k])]]
                   /\ UNCHANGED <<current, streams>>
                \/ /\ current[k] = 0
                   /\ \E e \in StreamIds :
                         /\ streams[e].pc = "none"
                         /\ \A d \in StreamIds : d < e => streams[d].pc # "none"
                         /\ current' = [current EXCEPT ![k] = e]
                         /\ streams' = [streams EXCEPT ![e] = [NoStream EXCEPT
                               !.key = k, !.pc = "resolve", !.at = relaySubs[s].target,
                               !.as = IF shared THEN "none" ELSE Who(s)]]
                         /\ relaySubs' = [relaySubs EXCEPT ![s] = [@ EXCEPT
                               !.pc = "sub", !.on = e]]
    /\ UNCHANGED <<owner, aliveHosts, relayView, route, relayVer, declared>>

\* next(): a queued value first, then the failure, then the end.
Next1(s) ==
    /\ relaySubs[s].pc = "sub"
    /\ \/ /\ relaySubs[s].queue # <<>>
          /\ relaySubs' = [relaySubs EXCEPT ![s].saw = Head(relaySubs[s].queue),
                                            ![s].queue = Tail(@)]
          /\ UNCHANGED <<current, streams>>
       \/ /\ relaySubs[s].queue = <<>> /\ relaySubs[s].mark # "live"
          /\ relaySubs' = [relaySubs EXCEPT ![s] = [NoSub EXCEPT !.pc = "ended"]]
          /\ UNCHANGED <<current, streams>>
    /\ UNCHANGED <<owner, aliveHosts, relayView, route, relayVer, declared, memo, upsets>>

\* The last one out finishes the entry.
RelayEmptied(e) ==
    /\ current' = RelayEvicted(e)
    /\ streams' = [streams EXCEPT ![e].aborted = TRUE]

\* A subscriber aborts or returns: dropped from the fan-out.
RelayLeave(s) ==
    /\ relaySubs[s].pc = "sub"
    /\ relaySubs' = [relaySubs EXCEPT ![s] = [NoSub EXCEPT !.pc = "ended"]]
    /\ IF Listeners(relaySubs[s].on) = {s} THEN RelayEmptied(relaySubs[s].on)
       ELSE UNCHANGED <<current, streams>>
    /\ UNCHANGED <<owner, aliveHosts, relayView, route, relayVer, declared, memo, upsets>>

------------------------------------------------------------------------------
(* The pump: #routedStreamed under the entry's own signal                  *)

\* The pump ended: #settleEntry of its entry, however late.
PumpEnds(e, how) ==
    /\ current' = RelayEvicted(e)
    /\ streams' = [streams EXCEPT ![e] = Ended(e)]
    /\ relaySubs' = Marked({e}, how)

Aborted(e) ==
    /\ streams[e].pc \in {"resolve", "first", "stream"} /\ streams[e].aborted
    /\ PumpEnds(e, "failed")
    /\ UNCHANGED <<owner, aliveHosts, relayView, route, relayVer, declared, memo, upsets>>

Resolve(e) ==
    /\ streams[e].pc = "resolve" /\ ~streams[e].aborted
    /\ \E t \in Targets :
          /\ route' = Cached(t)
          /\ streams' = [streams EXCEPT ![e].pc = "first", ![e].from = t]
    /\ UNCHANGED <<owner, aliveHosts, relayView, relayVer, declared, memo, current,
                   relaySubs, upsets>>

\* A value came: established, and pushed.
Value(e) ==
    /\ streams[e].pc \in {"first", "stream"} /\ ~streams[e].aborted
    /\ streams[e].from = owner /\ owner \in aliveHosts
    /\ streams[e].last < relayVer
    /\ streams' = [streams EXCEPT ![e].pc = "stream", ![e].established = TRUE,
                                  ![e].last = relayVer]
    /\ relaySubs' = RelayPushed(e, relayVer)
    /\ UNCHANGED <<owner, aliveHosts, relayView, route, relayVer, declared, memo, current, upsets>>

\* The first pull met a host that has not got the actor, or no host at all:
\* #noteFailure drops the route and the established streams, and the pump
\* tries again while it may.
NoteFailure(h) ==
    IF h \in aliveHosts
    THEN /\ route' = IF owner = "a" THEN "none" ELSE owner
         /\ UNCHANGED relayView
    ELSE /\ route' = "none" /\ relayView' = aliveHosts \ {"a"}

FirstFails(e) ==
    /\ streams[e].pc = "first" /\ ~streams[e].aborted
    /\ streams[e].from # owner \/ streams[e].from \notin aliveHosts
    /\ NoteFailure(streams[e].from)
    /\ \/ /\ streams[e].tries < RelayRetries
          /\ current' = [k \in RelayKeys |-> IF current[k] \in Established THEN 0 ELSE current[k]]
          /\ streams' = [d \in StreamIds |->
                IF d = e THEN [streams[d] EXCEPT !.pc = "resolve", !.tries = @ + 1]
                ELSE IF d \in Established THEN [streams[d] EXCEPT !.aborted = TRUE]
                ELSE streams[d]]
          /\ relaySubs' = Marked(Established, "failed")
       \/ /\ streams[e].tries = RelayRetries
          /\ current' = [k \in RelayKeys |->
                IF current[k] \in Established \cup {e} THEN 0 ELSE current[k]]
          /\ streams' = [d \in StreamIds |->
                IF d = e THEN Ended(d)
                ELSE IF d \in Established THEN [streams[d] EXCEPT !.aborted = TRUE]
                ELSE streams[d]]
          /\ relaySubs' = Marked(Established \cup {e}, "failed")
    /\ UNCHANGED <<owner, aliveHosts, relayVer, declared, memo, upsets>>

\* The transport reports the dead host, some day.
StreamBreaks(e) ==
    /\ streams[e].pc = "stream" /\ ~streams[e].aborted
    /\ streams[e].from \notin aliveHosts
    /\ PumpEnds(e, "failed")
    /\ UNCHANGED <<owner, aliveHosts, relayView, route, relayVer, declared, memo, upsets>>

\* The owner ends the stream cleanly: it stops, or the read was withdrawn.
StreamEnds(e) ==
    /\ streams[e].pc = "stream" /\ ~streams[e].aborted /\ Upset
    /\ PumpEnds(e, "done")
    /\ UNCHANGED <<owner, aliveHosts, relayView, route, relayVer, declared, memo>>

------------------------------------------------------------------------------
(* The cluster around it                                                   *)

Changes ==
    /\ relayVer < MaxRelayVer /\ owner \in aliveHosts
    /\ relayVer' = relayVer + 1
    /\ UNCHANGED <<owner, aliveHosts, relayView, route, declared, memo, current,
                   streams, relaySubs, upsets>>

\* The actor comes up elsewhere: migrated, or its host died.
Moves ==
    /\ owner \in aliveHosts => Upset
    /\ owner \notin aliveHosts => UNCHANGED upsets
    /\ \E h \in aliveHosts \ {owner} : owner' = h
    /\ UNCHANGED <<aliveHosts, relayView, route, relayVer, declared, memo, current,
                   streams, relaySubs>>

Dies(h) ==
    /\ h \in aliveHosts /\ h # "a" /\ Upset
    /\ aliveHosts' = aliveHosts \ {h}
    /\ UNCHANGED <<owner, relayView, route, relayVer, declared, memo, current, streams,
                   relaySubs>>

\* The streams the membership prune fails: by the host they were opened to.
RelayPruned(view) == {e \in InMap : streams[e].at \notin view \cup {"a"}}

\* The view catches up: routes and streams to departed hosts go.
ViewChanges ==
    /\ relayView # aliveHosts \ {"a"}
    /\ relayView' = aliveHosts \ {"a"}
    /\ route' = IF route \in aliveHosts THEN route ELSE "none"
    /\ SettleAll(RelayPruned(relayView'))
    /\ UNCHANGED <<owner, aliveHosts, relayVer, declared, memo, upsets>>

\* Any other call to the actor over a bad route.
OtherCall ==
    /\ route \in Known \ {"a"} /\ (route # owner \/ route \notin aliveHosts)
    /\ NoteFailure(route)
    /\ SettleAll(Established)
    /\ UNCHANGED <<owner, aliveHosts, relayVer, declared, memo, upsets>>

------------------------------------------------------------------------------
RelayInit ==
    /\ owner = (CHOOSE h \in Peers : TRUE) /\ aliveHosts = Peers \cup {"a"} /\ relayView = Peers
    /\ route \in Peers \cup {"none"} /\ relayVer = 0
    /\ declared \in BOOLEAN /\ memo = FALSE /\ upsets = 0
    /\ current = [k \in RelayKeys |-> 0]
    /\ streams = [e \in StreamIds |-> NoStream]
    /\ relaySubs = [s \in RelaySubs |-> NoSub]

RelayNext ==
    \/ \E s \in RelaySubs : RelayAttach(s) \/ Join(s) \/ Next1(s) \/ RelayLeave(s)
    \/ \E e \in StreamIds : Aborted(e) \/ Resolve(e) \/ Value(e) \/ FirstFails(e)
                               \/ StreamBreaks(e) \/ StreamEnds(e)
    \/ Changes \/ Moves \/ ViewChanges \/ OtherCall
    \/ \E h \in Peers : Dies(h)

RelaySpec == RelayInit /\ [][RelayNext]_relayVars

------------------------------------------------------------------------------
(* Properties                                                              *)

\* Type correctness; the map's entries carry its keys, buffers are bounded.
RelayTypeOK ==
    /\ owner \in Peers \cup {"a"} /\ route \in Peers \cup {"a", "none"}
    /\ relayView \subseteq Peers
    /\ \A k \in RelayKeys : current[k] \in 0 .. MaxStreams
    /\ \A k \in RelayKeys : current[k] # 0 => streams[current[k]].key = k
    /\ \A s \in RelaySubs : Len(relaySubs[s].queue) <= RelayBuffer

Running(e) == streams[e].pc \in {"resolve", "first", "stream"} /\ ~streams[e].aborted

\* "ONE remote stream per (actor, method, throttleMs, args, principal)": the
\* streams that run uncancelled are exactly the entries of the map, so none
\* runs that no subscriber can reach and no two share a key.
OneRemoteStream == {e \in StreamIds : Running(e)} = InMap

\* Every stream that runs has somebody listening to it, and everybody who still
\* waits is listening to a stream that runs: nobody is parked on a dead one.
NobodyParked ==
    /\ \A e \in InMap : Listeners(e) # {}
    /\ \A s \in RelaySubs :
          relaySubs[s].pc = "sub" /\ relaySubs[s].mark = "live"
              => relaySubs[s].on \in InMap

\* "Coalescing shares a READ, never a decision": no subscriber is handed what
\* was read for another principal.
OwnIdentity ==
    \A s \in RelaySubs : relaySubs[s].pc = "sub"
        => streams[relaySubs[s].on].as \in {Who(s), "none"}
           /\ (streams[relaySubs[s].on].as = "none" => declared)

\* A subscriber of a stream from the actor's present host ends on the present
\* state, also one that joined a stream already established.
CaughtUp ==
    \A s \in RelaySubs :
        LET e == relaySubs[s].on
        IN relaySubs[s].pc = "sub" /\ relaySubs[s].mark = "live"
           /\ relaySubs[s].queue = <<>> /\ streams[e].last = relayVer
               => relaySubs[s].saw = relayVer

\* #pruneRoutes: "streams to a departed host fail NOW rather than waiting out a
\* transport timeout": once the view is right no stream is from a dead host.
DepartedFailsNow ==
    relayView = aliveHosts \ {"a"} =>
        \A e \in InMap : streams[e].established => streams[e].from \in aliveHosts
==============================================================================
