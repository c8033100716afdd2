------------------------------- MODULE Routing -------------------------------
(***************************************************************************)
(* A call routed through the cluster: dispatcherFor, #resolveTarget, the     *)
(* retry loop of #routedDispatch and #noteFailure (cluster/placement.ts), a *)
(* unary call over a transport (cluster/connection.ts for the framed ones,  *)
(* cluster/transport.ts for HTTP) and the inbound dispatch of the target.   *)
(*                                                                         *)
(* The actor's directory entry is abstracted to the host it names: module   *)
(* Placement shows that it is backed by that host's claim.  Hosts drain,    *)
(* die, expire and fence under the call, the actor moves, connections drop. *)
(***************************************************************************)
EXTENDS Integers, FiniteSets

CONSTANTS
    Hosts,          \* host ids
    NoHost,         \* no entry / no cached route
    Calls,          \* unary calls to the one actor
    Retries,        \* #retries: a call has Retries + 1 attempts
    Http,           \* TRUE: httpTransport; FALSE: a framed transport (tcp, ws)
    NestedErrors,   \* a turn may reject with the error of a call it made
    MaxFaults       \* bound: drains, deaths, fences, moves and lost connections

ASSUME RoutingAssumption ==
    /\ NoHost \notin Hosts
    /\ Retries \in Nat /\ MaxFaults \in Nat
    /\ Http \in BOOLEAN /\ NestedErrors \in BOOLEAN

VARIABLES
    proc,       \* each process: up, draining (#shuttingDown), dead
    fenced,     \* #fenced
    record,     \* its membership record: active, leaving, out
    view,       \* each host's cached membership view
    dir,        \* the host the directory entry names
    cache,      \* #routeCache, for this actor
    call,       \* the calls, where they started
    wire,       \* requests written and not yet served
    ran,        \* how often the method ran, per call
    faults      \* faults so far (bounded by MaxFaults)

world == <<proc, fenced, record, dir>>
vars == <<world, view, cache, call, wire, ran, faults>>

NoCall == [pc |-> "new", at |-> NoHost, n |-> 0, to |-> NoHost, found |-> NoHost,
           direct |-> FALSE, err |-> "none", hint |-> NoHost]

Init ==
    /\ proc = [h \in Hosts |-> "up"]
    /\ fenced = [h \in Hosts |-> FALSE]
    /\ record = [h \in Hosts |-> "active"]
    /\ view = [h \in Hosts |-> record]
    /\ dir \in Hosts \cup {NoHost}
    /\ cache \in [Hosts -> Hosts \cup {NoHost}]
    /\ call = [c \in Calls |-> NoCall]
    /\ wire = {}
    /\ ran = [c \in Calls |-> 0]
    /\ faults = 0

Set(c, v) == call' = [call EXCEPT ![c] = v]
Active(v) == {h \in Hosts : v[h] = "active"}

-----------------------------------------------------------------------------
(* Faults.                                                                 *)

Fault == faults < MaxFaults /\ faults' = faults + 1

\* host.stop: announce, then close the front door (one step: the window in
\* between only accepts calls).
Drain(h) ==
    /\ Fault /\ proc[h] = "up"
    /\ proc' = [proc EXCEPT ![h] = "draining"]
    /\ record' = [record EXCEPT ![h] = IF @ = "out" THEN @ ELSE "leaving"]
    /\ UNCHANGED <<fenced, view, dir, cache, call, wire, ran>>

\* Its connections go down with it; its record stays until the TTL passes.
\* (A caller that dies takes its call along, so only hosts without an open call
\* of their own die here.)
Die(h) ==
    /\ Fault /\ proc[h] # "dead"
    /\ \A c \in Calls : call[c].at # h \/ call[c].pc \in {"new", "done"}
    /\ proc' = [proc EXCEPT ![h] = "dead"]
    /\ wire' = {w \in wire : w.to # h}
    /\ UNCHANGED <<fenced, record, view, dir, cache, call, ran>>

Expire(h) ==
    /\ record[h] # "out" /\ (proc[h] = "dead" \/ fenced[h])
    /\ record' = [record EXCEPT ![h] = "out"]
    /\ UNCHANGED <<proc, fenced, view, dir, cache, call, wire, ran, faults>>

\* #fence: no further activation; what it holds is dropped and released.
Fence(h) ==
    /\ Fault /\ proc[h] = "up" /\ ~fenced[h]
    /\ fenced' = [fenced EXCEPT ![h] = TRUE]
    /\ dir' = IF dir = h THEN NoHost ELSE dir
    /\ UNCHANGED <<proc, record, view, cache, call, wire, ran>>

\* The owner deactivates the actor and releases the entry: idle, migrated, or
\* drained by the stop.
Move(h) ==
    /\ Fault /\ dir = h /\ proc[h] # "dead"
    /\ dir' = NoHost
    /\ UNCHANGED <<proc, fenced, record, view, cache, call, wire, ran>>

\* Somebody else's call activates the actor.
Placed(h) ==
    /\ dir = NoHost /\ proc[h] = "up" /\ ~fenced[h]
    /\ dir' = h
    /\ UNCHANGED <<proc, fenced, record, view, cache, call, wire, ran, faults>>

\* A membership change reaches h: the view, and #pruneRoutes.
Refreshed(h) == [view EXCEPT ![h] = record]

ViewChange(h) ==
    /\ proc[h] # "dead" /\ view[h] # record
    /\ view' = Refreshed(h)
    /\ cache' = [cache EXCEPT ![h] = IF @ \in Hosts /\ record[@] # "out" THEN @ ELSE NoHost]
    /\ UNCHANGED <<world, call, wire, ran, faults>>

-----------------------------------------------------------------------------
(* Resolving.                                                              *)

\* dispatcherFor: a claimed actor is dispatched locally, outside the loop.
Begin(c, h) ==
    /\ call[c].pc = "new" /\ proc[h] # "dead"
    /\ Set(c, [NoCall EXCEPT !.at = h, !.to = IF dir = h THEN h ELSE NoHost,
                             !.direct = dir = h,
                             !.pc = IF dir = h THEN "arrived" ELSE "resolve"])
    /\ UNCHANGED <<world, view, cache, wire, ran, faults>>

Finish(c, e) == Set(c, [call[c] EXCEPT !.pc = "done", !.err = e])
Go(c, t) ==
    Set(c, [call[c] EXCEPT !.to = t, !.pc = IF t = call[c].at THEN "arrived" ELSE "send"])

\* #resolveTarget up to the directory read: fenced, claimed, cached.
Resolve(c) ==
    LET h == call[c].at
        r == cache[h]
        usable == r # NoHost /\ (r = h \/ view[h][r] # "out")
    IN  /\ call[c].pc = "resolve"
        /\ \/ /\ fenced[h]
              /\ Finish(c, "fenced")
              /\ UNCHANGED cache
           \/ /\ ~fenced[h] /\ dir = h
              /\ Go(c, h)
              /\ UNCHANGED cache
           \/ /\ ~fenced[h] /\ dir # h /\ usable
              /\ Go(c, r)
              /\ UNCHANGED cache
           \/ /\ ~fenced[h] /\ dir # h /\ ~usable
              /\ cache' = [cache EXCEPT ![h] = NoHost]
              /\ Set(c, [call[c] EXCEPT !.pc = "lookup"])
        /\ UNCHANGED <<world, view, wire, ran, faults>>

\* The directory read: a member's entry is the target; the entry of a host
\* outside the view is probed.
Lookup(c) ==
    LET h == call[c].at
    IN  /\ call[c].pc = "lookup"
        /\ \/ /\ dir = h
              /\ Go(c, h)
              /\ UNCHANGED cache
           \/ /\ dir \in Hosts \ {h} /\ view[h][dir] # "out"
              /\ cache' = [cache EXCEPT ![h] = dir]
              /\ Go(c, dir)
           \/ /\ dir \in Hosts \ {h} /\ view[h][dir] = "out"
              /\ Set(c, [call[c] EXCEPT !.pc = "probe", !.found = dir])
              /\ UNCHANGED cache
           \/ /\ dir = NoHost
              /\ Set(c, [call[c] EXCEPT !.pc = "choose"])
              /\ UNCHANGED cache
        /\ UNCHANGED <<world, view, wire, ran, faults>>

\* isAlive, and the eviction of what was read if it is not.
EvictIfDead(t) == IF dir = t /\ record[t] = "out" THEN NoHost ELSE dir

Probe(c) ==
    /\ call[c].pc = "probe"
    /\ dir' = EvictIfDead(call[c].found)
    /\ Set(c, [call[c] EXCEPT !.pc = "choose"])
    /\ UNCHANGED <<proc, fenced, record, view, cache, wire, ran, faults>>

\* The policy answers with this host or with an active one of its view; with
\* no active host it is handed the whole view. Every host here registers the
\* type: eligibility and the retry of an unplaceable call are in PeerCalls.
Candidates(h) ==
    {h} \cup IF Active(view[h]) = {} THEN {t \in Hosts : view[h][t] # "out"}
            ELSE Active(view[h])

Choose(c) ==
    LET h == call[c].at
    IN  /\ call[c].pc = "choose"
        /\ \E t \in Candidates(h) :
              /\ cache' = [cache EXCEPT ![h] = t]
              /\ Go(c, t)
        /\ UNCHANGED <<world, view, wire, ran, faults>>

-----------------------------------------------------------------------------
(* The hop.                                                                *)

\* The transport writes the request.
Send(c) ==
    /\ call[c].pc = "send"
    /\ proc[call[c].to] # "dead"
    /\ wire' = wire \cup {[c |-> c, n |-> call[c].n, to |-> call[c].to]}
    /\ Set(c, [call[c] EXCEPT !.pc = "sent"])
    /\ UNCHANGED <<world, view, cache, ran, faults>>

Failed(c, e) == Set(c, [call[c] EXCEPT !.pc = "failed", !.err = e])

\* It cannot: the dial is refused, or the frame is not written.
SendFails(c) ==
    /\ call[c].pc = "send"
    /\ IF proc[call[c].to] = "dead" THEN UNCHANGED faults ELSE Fault
    /\ Failed(c, "unreachable")
    /\ UNCHANGED <<world, view, cache, wire, ran>>

LostInFlight_Retries == "unreachable"
LostInFlight_AsShutdown == "host-shutdown"

\* What a caller is told when the connection goes with its call in flight:
\* close() rejects with an unbranded error, fetch's rejection is `unreachable`.
LostInFlight == IF Http THEN "unreachable" ELSE "outcome-unknown"

\* The connection is lost with the call on it, or its peer died.
ConnectionLost(c) ==
    /\ call[c].pc = "sent"
    /\ IF proc[call[c].to] = "dead" THEN UNCHANGED faults ELSE Fault
    /\ Failed(c, LostInFlight)
    /\ UNCHANGED <<world, view, cache, wire, ran>>

-----------------------------------------------------------------------------
(* The target.                                                             *)

\* What local.dispatch does with a call that reached host t.  Refusals come
\* before the turn: the door of a draining host, a fenced host's claim guard,
\* a claim lost to another owner.
Refusal(t) ==
    IF proc[t] = "draining" THEN "host-shutdown"
    ELSE IF dir # t /\ fenced[t] THEN "unreachable"
    ELSE IF dir \notin {t, NoHost} THEN "wrong-host"
    ELSE "none"

\* How the turn ends: a value, the method's own error, or the host-shutdown a
\* call it made was refused with, whose kind travels with it (wire-errors.ts).
TurnEnds == {"ok", "app"} \cup (IF NestedErrors THEN {"host-shutdown"} ELSE {})

Outcomes(t) == IF Refusal(t) = "none" THEN TurnEnds ELSE {Refusal(t)}

Ran(c, t) == ran' = [ran EXCEPT ![c] = IF Refusal(t) = "none" THEN @ + 1 ELSE @]
Claimed(t) == dir' = IF Refusal(t) = "none" THEN t ELSE dir

Answered(c, t, e) ==
    IF e \in {"ok", "app"} THEN Finish(c, e)
    ELSE Set(c, [call[c] EXCEPT !.pc = "failed", !.err = e,
                                !.hint = IF e = "wrong-host" THEN dir ELSE NoHost])

\* A request is served; the answer counts only if the caller still waits on it.
Serve(w) ==
    /\ w \in wire /\ proc[w.to] # "dead"
    /\ wire' = wire \ {w}
    /\ Ran(w.c, w.to) /\ Claimed(w.to)
    /\ \E e \in Outcomes(w.to) :
          IF call[w.c].pc = "sent" /\ call[w.c].n = w.n
          THEN Answered(w.c, w.to, e) ELSE UNCHANGED call
    /\ UNCHANGED <<proc, fenced, record, view, cache, faults>>

\* The same on this host, without a hop.
ServeLocal(c) ==
    LET h == call[c].at
    IN  /\ call[c].pc = "arrived"
        /\ Ran(c, h) /\ Claimed(h)
        /\ \E e \in Outcomes(h) :
              IF call[c].direct /\ e # "ok" THEN Finish(c, e) ELSE Answered(c, h, e)
        /\ UNCHANGED <<proc, fenced, record, view, cache, wire, faults>>

-----------------------------------------------------------------------------
(* #noteFailure and the loop.                                              *)

Again(c, n) == Set(c, [NoCall EXCEPT !.at = call[c].at, !.pc = "resolve", !.n = n])

Retried_Uncounted(c) == Again(c, call[c].n)

\* The next attempt, or ActorActivationError.
Retried(c) ==
    IF call[c].n < Retries THEN Again(c, call[c].n + 1) ELSE Finish(c, "not-converged")

Redirected_KeepsRoute(c) == UNCHANGED cache

\* A wrong-host answer replaces the route by the owner it names, if any other.
Redirected(c) ==
    LET h == call[c].at
    IN  cache' = [cache EXCEPT ![h] = IF call[c].hint = h THEN NoHost ELSE call[c].hint]

\* The failure is classified: what is not a proof that nothing ran ends the
\* call.
NoteFailure(c) ==
    LET h == call[c].at
        e == call[c].err
        remote == call[c].to # h
    IN  /\ call[c].pc = "failed"
        /\ \/ /\ e = "wrong-host"
              /\ Redirected(c) /\ Retried(c)
              /\ UNCHANGED <<dir, view>>
           \/ /\ e = "unreachable"
              /\ cache' = [cache EXCEPT ![h] = NoHost]
              /\ dir' = IF dir = NoHost THEN dir ELSE EvictIfDead(dir)
              /\ view' = Refreshed(h)
              /\ Retried(c)
           \/ /\ e = "host-shutdown" /\ remote
              /\ cache' = [cache EXCEPT ![h] = NoHost]
              /\ view' = Refreshed(h)
              /\ Retried(c)
              /\ UNCHANGED dir
           \/ /\ e = "outcome-unknown" \/ (e = "host-shutdown" /\ ~remote)
              /\ Finish(c, e)
              /\ UNCHANGED <<dir, view, cache>>
        /\ UNCHANGED <<proc, fenced, record, wire, ran, faults>>

-----------------------------------------------------------------------------

Step(c) ==
    \/ Resolve(c) \/ Lookup(c) \/ Probe(c) \/ Choose(c) \/ Send(c)
    \/ ServeLocal(c) \/ NoteFailure(c)

Next ==
    \/ \E h \in Hosts :
          \/ Drain(h) \/ Die(h) \/ Expire(h) \/ Fence(h) \/ ViewChange(h)
          \/ Move(h) \/ Placed(h)
    \/ \E c \in Calls :
          \/ \E h \in Hosts : Begin(c, h)
          \/ Step(c) \/ SendFails(c) \/ ConnectionLost(c)
    \/ \E w \in wire : Serve(w)

Spec == Init /\ [][Next]_vars

\* A call goes on, a request that arrived is served and a dead peer's connection
\* is found lost.
FairSpec ==
    /\ Spec
    /\ \A c \in Calls : WF_vars(Step(c) \/ SendFails(c) \/ ConnectionLost(c))
    /\ WF_vars(\E w \in wire : Serve(w))

-----------------------------------------------------------------------------
(* Properties.                                                             *)

\* Every variable keeps its type.
TypeOK ==
    /\ proc \in [Hosts -> {"up", "draining", "dead"}]
    /\ fenced \in [Hosts -> BOOLEAN]
    /\ record \in [Hosts -> {"active", "leaving", "out"}]
    /\ view \in [Hosts -> [Hosts -> {"active", "leaving", "out"}]]
    /\ dir \in Hosts \cup {NoHost}
    /\ cache \in [Hosts -> Hosts \cup {NoHost}]
    /\ \A c \in Calls :
          /\ call[c].n \in 0 .. Retries
          /\ call[c].at \in Hosts \cup {NoHost} /\ call[c].to \in Hosts \cup {NoHost}
    /\ \A w \in wire : w.to \in Hosts /\ w.c \in Calls /\ w.n \in 0 .. Retries
    /\ ran \in [Calls -> 0 .. Retries + 1]
    /\ faults \in 0 .. MaxFaults

\* The retry loop never runs a method twice: each failure it retries proves
\* that the call did not execute (docs/architecture/clustering.md:340).
AtMostOnce == \A c \in Calls : ran[c] <= 1

\* A call that failed to converge, or was refused, was never executed: the
\* caller may safely issue it again.
RefusedNeverRan ==
    \A c \in Calls :
        call[c].pc = "done" /\ call[c].err \in {"not-converged", "fenced", "host-shutdown"}
            => ran[c] = 0

\* Stale routes, an actor that moves and frames that are not written (at most
\* MaxFaults of them) never exhaust the loop: while every host is up and
\* listed, it finds the owner within its attempts.
Converges ==
    (\A h \in Hosts : proc[h] = "up" /\ ~fenced[h]) =>
        \A c \in Calls : call[c].err # "not-converged"

\* The loop's bookkeeping stays in range, and converges.
RoutesConverge == TypeOK /\ Converges

\* Every call ends, with an answer or an error.
EveryCallEnds == \A c \in Calls : (call[c].pc # "new") ~> (call[c].pc = "done")
=============================================================================
