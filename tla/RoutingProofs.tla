---------------------------- MODULE RoutingProofs ----------------------------
(***************************************************************************)
(* Routing, proved for any set of hosts and calls and any number of retries *)
(* and faults, over a framed transport and with methods that do not reject  *)
(* with the refusal of a call of their own (the two cases in which it does  *)
(* not hold): at most once, and the bound on the attempts a call needs.     *)
(***************************************************************************)
EXTENDS Routing, TLAPS

-----------------------------------------------------------------------------
(* What the theorems assume of an instance.                                *)

\* A framed transport, and no method that rejects with a refusal of its own.
Framed == ~Http /\ ~NestedErrors

\* One call: the calls of a host share its cached route, so another one may
\* spend the attempt that a fault was to cost.
Single == \A c, d \in Calls : c = d

\* Fewer faults than retries.
Patient == MaxFaults < Retries

-----------------------------------------------------------------------------
(* The invariants.                                                         *)

Errors == {"none", "ok", "app", "fenced", "host-shutdown", "unreachable", "wrong-host",
           "outcome-unknown", "not-converged"}
Places == Hosts \cup {NoHost}

CallType ==
    [pc : {"new", "resolve", "lookup", "probe", "choose", "arrived", "send", "sent",
           "failed", "done"},
     at : Places, n : 0 .. Retries, to : Places, found : Places,
     direct : BOOLEAN, err : Errors, hint : Places]

RequestType == [c : Calls, n : 0 .. Retries, to : Hosts]

\* Where a call stands, and what its fields then name.
CallFits(c) ==
    /\ call[c].pc # "new" => call[c].at \in Hosts
    /\ call[c].pc \in {"send", "sent"} => call[c].to \in Hosts
    /\ call[c].pc = "failed" =>
          /\ call[c].err \in {"unreachable", "wrong-host", "host-shutdown", "outcome-unknown"}
          /\ call[c].err = "wrong-host" => call[c].hint \in Hosts

Types ==
    /\ proc \in [Hosts -> {"up", "draining", "dead"}]
    /\ fenced \in [Hosts -> BOOLEAN]
    /\ record \in [Hosts -> {"active", "leaving", "out"}]
    /\ view \in [Hosts -> [Hosts -> {"active", "leaving", "out"}]]
    /\ dir \in Places
    /\ cache \in [Hosts -> Places]
    /\ call \in [Calls -> CallType]
    /\ wire \subseteq RequestType
    /\ ran \in [Calls -> Nat]
    /\ faults \in 0 .. MaxFaults
    /\ \A c \in Calls : CallFits(c)

Unknown(c) == call[c].pc \in {"failed", "done"} /\ call[c].err = "outcome-unknown"

\* A request still on the wire is the one its caller waits for, or the caller
\* gave up on it without trying again; either way it has not run yet.
Pending ==
    \A w \in wire :
        /\ ran[w.c] = 0
        /\ \/ Unknown(w.c)
           \/ /\ call[w.c].pc = "sent"
              /\ w.n = call[w.c].n /\ w.to = call[w.c].to
OneRequest == \A v, w \in wire : v.c = w.c => v = w

\* A method that ran ended its call.
RanEnds ==
    \A c \in Calls :
        /\ ran[c] \in {0, 1}
        /\ ran[c] = 1 => \/ Unknown(c)
                         \/ call[c].pc = "done" /\ call[c].err \in {"ok", "app"}

OnceInv == Pending /\ OneRequest /\ RanEnds

AllUp == \A h \in Hosts : proc[h] = "up" /\ ~fenced[h]
Calm == \A h \in Hosts : record[h] = "active" /\ \A g \in Hosts : view[h][g] = "active"

\* The attempt under way reaches the owner unless the actor moves.
OnRoute(c) ==
    LET h == call[c].at
    IN  /\ dir # NoHost
        /\ \/ call[c].pc = "resolve" /\ (dir = h \/ cache[h] \in {dir, NoHost})
           \/ call[c].pc = "lookup"
           \/ call[c].pc = "arrived" /\ h = dir
           \/ call[c].pc \in {"send", "sent"} /\ call[c].to = dir
           \/ call[c].pc = "failed" /\ (call[c].err # "wrong-host" \/ call[c].hint = dir \/ dir = h)

Wasted(c) == call[c].n + (IF call[c].pc = "failed" THEN 1 ELSE 0)

\* Every attempt but one was wasted by a fault of its own.
Bounded(c) ==
    call[c].pc \notin {"new", "done"} => Wasted(c) <= faults + (IF OnRoute(c) THEN 1 ELSE 0)

Converging(c) == Bounded(c) /\ call[c].pc # "probe" /\ call[c].err # "not-converged"

ConvergeInv == AllUp => Calm /\ \A c \in Calls : Converging(c)

IInv == Types /\ OnceInv /\ ConvergeInv

-----------------------------------------------------------------------------
(* Types.                                                                  *)

LEMMA InitTypes == Init => Types
  BY RoutingAssumption DEF Init, Types, CallType, Places, Errors, RequestType, NoCall, CallFits

\* A step that rewrites one call.
LEMMA SetTypes ==
  ASSUME Types, NEW c \in Calls, NEW v \in CallType, Set(c, v),
         v.pc # "new" => v.at \in Hosts,
         v.pc \in {"send", "sent"} => v.to \in Hosts,
         v.pc = "failed" =>
            /\ v.err \in {"unreachable", "wrong-host", "host-shutdown", "outcome-unknown"}
            /\ v.err = "wrong-host" => v.hint \in Hosts
  PROVE  call' \in [Calls -> CallType] /\ \A d \in Calls : CallFits(d)'
<1>1. \A d \in Calls : call'[d] = IF d = c THEN v ELSE call[d]
  BY DEF Set, Types
<1> QED
  BY <1>1 DEF Set, Types, CallFits

LEMMA GoTypes ==
  ASSUME Types, NEW c \in Calls, NEW t \in Hosts, Go(c, t), call[c].pc # "new"
  PROVE  call' \in [Calls -> CallType] /\ \A d \in Calls : CallFits(d)'
<1> DEFINE v == [call[c] EXCEPT !.to = t, !.pc = IF t = call[c].at THEN "arrived" ELSE "send"]
<1>1. v \in CallType /\ v.pc \in {"arrived", "send"} /\ v.at = call[c].at /\ v.to = t
  BY ZenonT(60) DEF Types, CallType, Places
<1>2. Set(c, v)
  BY DEF Go
<1>3. call[c].at \in Hosts
  BY DEF Types, CallFits
<1> HIDE DEF v
<1> QED
  BY <1>1, <1>2, <1>3, SetTypes

LEMMA FinishTypes ==
  ASSUME Types, NEW c \in Calls, NEW e \in Errors, Finish(c, e), call[c].pc # "new"
  PROVE  call' \in [Calls -> CallType] /\ \A d \in Calls : CallFits(d)'
<1> DEFINE v == [call[c] EXCEPT !.pc = "done", !.err = e]
<1>1. v \in CallType /\ v.pc = "done" /\ v.at = call[c].at
  BY ZenonT(60) DEF Types, CallType
<1>2. Set(c, v)
  BY DEF Finish
<1>3. call[c].at \in Hosts
  BY DEF Types, CallFits
<1> HIDE DEF v
<1> QED
  BY <1>1, <1>2, <1>3, SetTypes

LEMMA MoveTypes ==
  ASSUME Types, NEW c \in Calls, call[c].pc # "new", NEW p \in {"lookup", "choose", "sent"},
         Set(c, [call[c] EXCEPT !.pc = p]), p = "sent" => call[c].to \in Hosts
  PROVE  call' \in [Calls -> CallType] /\ \A d \in Calls : CallFits(d)'
<1> DEFINE v == [call[c] EXCEPT !.pc = p]
<1>1. v \in CallType /\ v.pc = p /\ v.at = call[c].at /\ v.to = call[c].to
  BY DEF Types, CallType
<1>2. call[c].at \in Hosts
  BY DEF Types, CallFits
<1>3. Set(c, v)
  OBVIOUS
<1> HIDE DEF v
<1> QED
  BY <1>1, <1>2, <1>3, SetTypes

LEMMA FailedTypes ==
  ASSUME Types, NEW c \in Calls, call[c].pc # "new",
         NEW e \in {"unreachable", "outcome-unknown"}, Failed(c, e)
  PROVE  call' \in [Calls -> CallType] /\ \A d \in Calls : CallFits(d)'
<1> DEFINE v == [call[c] EXCEPT !.pc = "failed", !.err = e]
<1>1. v \in CallType /\ v.pc = "failed" /\ v.at = call[c].at /\ v.err = e
  BY ZenonT(60) DEF Types, CallType, Errors
<1>2. call[c].at \in Hosts
  BY DEF Types, CallFits
<1>3. Set(c, v)
  BY DEF Failed
<1> HIDE DEF v
<1> QED
  BY <1>1, <1>2, <1>3, SetTypes

LEMMA RetriedTypes ==
  ASSUME Types, NEW c \in Calls, Retried(c), call[c].pc = "failed"
  PROVE  call' \in [Calls -> CallType] /\ \A d \in Calls : CallFits(d)'
<1>1. CASE call[c].n < Retries
  <2> DEFINE v == [NoCall EXCEPT !.at = call[c].at, !.pc = "resolve", !.n = call[c].n + 1]
  <2>1. call[c].n + 1 \in 0 .. Retries /\ call[c].at \in Hosts
    BY <1>1, RoutingAssumption DEF Types, CallType, CallFits
  <2>2. v \in CallType /\ v.pc = "resolve" /\ v.at = call[c].at
    BY <2>1 DEF Types, CallType, NoCall, Places, Errors
  <2>3. Set(c, v)
    BY <1>1 DEF Retried, Again
  <2> HIDE DEF v
  <2> QED
    BY <2>1, <2>2, <2>3, SetTypes
<1>2. CASE ~(call[c].n < Retries)
  BY <1>2, FinishTypes DEF Retried, Errors
<1> QED
  BY <1>1, <1>2

LEMMA AnsweredTypes ==
  ASSUME Types, NEW c \in Calls, NEW t \in Hosts, NEW e \in Outcomes(t), Answered(c, t, e),
         call[c].pc # "new"
  PROVE  call' \in [Calls -> CallType] /\ \A d \in Calls : CallFits(d)'
<1>1. e \in {"ok", "app", "host-shutdown", "unreachable", "wrong-host"}
  BY DEF Outcomes, Refusal, TurnEnds
<1>2. CASE e \in {"ok", "app"}
  BY <1>2, FinishTypes DEF Answered, Errors
<1>3. CASE e \notin {"ok", "app"}
  <2>0. PICK k \in Places : k = IF e = "wrong-host" THEN dir ELSE NoHost
    BY DEF Types, Places
  <2> DEFINE v == [call[c] EXCEPT !.pc = "failed", !.err = e, !.hint = k]
  <2>5. call[c] \in CallType /\ e \in Errors
    BY <1>1 DEF Types, Errors
  <2>1. v \in CallType /\ v.pc = "failed" /\ v.at = call[c].at /\ v.err = e /\ v.hint = k
    BY <2>5 DEF CallType
  <2>2. Set(c, v)
    BY <1>3, <2>0 DEF Answered
  <2>3. call[c].at \in Hosts
    BY DEF Types, CallFits
  <2>4. e = "wrong-host" => dir \in Hosts
    BY DEF Outcomes, Refusal, TurnEnds, Types, Places
  <2> HIDE DEF v
  <2> QED
    BY <1>1, <1>3, <2>0, <2>1, <2>2, <2>3, <2>4, SetTypes
<1> QED
  BY <1>2, <1>3

\* The records and the views.
LEMMA WorldTypes ==
  ASSUME Types, NEW h \in Hosts, view' = Refreshed(h)
  PROVE  view' \in [Hosts -> [Hosts -> {"active", "leaving", "out"}]]
  BY DEF Types, Refreshed

LEMMA RanTypes ==
  ASSUME Types, NEW c \in Calls, NEW t \in Hosts, Ran(c, t), Claimed(t)
  PROVE  ran' \in [Calls -> Nat] /\ dir' \in Places
  BY DEF Types, Ran, Claimed, Places

LEMMA NextTypes == Types /\ [Next]_vars => Types'
<1> SUFFICES ASSUME Types, [Next]_vars PROVE Types'
  OBVIOUS
<1>f. faults + 1 \in 0 .. MaxFaults \/ ~(faults < MaxFaults)
  BY RoutingAssumption DEF Types
<1>1. ASSUME NEW h \in Hosts, Drain(h) PROVE Types'
  BY <1>1, <1>f DEF Drain, Fault, Types, CallFits
<1>2. ASSUME NEW h \in Hosts, Die(h) PROVE Types'
  BY <1>2, <1>f DEF Die, Fault, Types, CallFits
<1>3. ASSUME NEW h \in Hosts, Expire(h) PROVE Types'
  BY <1>3 DEF Expire, Types, CallFits
<1>4. ASSUME NEW h \in Hosts, Fence(h) PROVE Types'
  BY <1>4, <1>f DEF Fence, Fault, Types, CallFits, Places
<1>5. ASSUME NEW h \in Hosts, Move(h) PROVE Types'
  BY <1>5, <1>f DEF Move, Fault, Types, CallFits, Places
<1>6. ASSUME NEW h \in Hosts, Placed(h) PROVE Types'
  BY <1>6 DEF Placed, Types, CallFits, Places
<1>7. ASSUME NEW h \in Hosts, ViewChange(h) PROVE Types'
  BY <1>7, WorldTypes DEF ViewChange, Types, CallFits, Places, world
<1>8. ASSUME NEW c \in Calls, NEW h \in Hosts, Begin(c, h) PROVE Types'
  <2>0. PICK t \in Places, p \in {"arrived", "resolve"}, b \in BOOLEAN :
           /\ t = IF dir = h THEN h ELSE NoHost
           /\ b = (dir = h)
           /\ p = IF dir = h THEN "arrived" ELSE "resolve"
    BY DEF Places
  <2> DEFINE v == [NoCall EXCEPT !.at = h, !.to = t, !.direct = b, !.pc = p]
  <2>3. NoCall \in CallType
    BY RoutingAssumption DEF NoCall, CallType, Places, Errors
  <2>1. v \in CallType /\ v.at = h /\ v.pc = p
    BY <2>3 DEF CallType, Places
  <2>2. Set(c, v)
    BY <1>8, <2>0 DEF Begin
  <2> HIDE DEF v
  <2>4. call' \in [Calls -> CallType] /\ \A d \in Calls : CallFits(d)'
    BY <2>1, <2>2, SetTypes
  <2> QED
    BY <1>8, <2>4 DEF Begin, Types, world
<1>9. ASSUME NEW c \in Calls, Resolve(c) PROVE Types'
  <2>1. call[c].at \in Hosts
    BY <1>9 DEF Resolve, Types, CallFits
  <2>2. call' \in [Calls -> CallType] /\ \A d \in Calls : CallFits(d)'
    BY <1>9, <2>1, FinishTypes, GoTypes, MoveTypes DEF Resolve, Errors, Types, Places
  <2>3. cache' \in [Hosts -> Places]
    BY <1>9, <2>1 DEF Resolve, Types, Places
  <2> QED
    BY <1>9, <2>2, <2>3 DEF Resolve, Types, world
<1>10. ASSUME NEW c \in Calls, Lookup(c) PROVE Types'
  <2>1. call[c].at \in Hosts
    BY <1>10 DEF Lookup, Types, CallFits
  <2>2. ASSUME dir \in Hosts, Set(c, [call[c] EXCEPT !.pc = "probe", !.found = dir])
        PROVE  call' \in [Calls -> CallType] /\ \A d \in Calls : CallFits(d)'
    <3> DEFINE v == [call[c] EXCEPT !.pc = "probe", !.found = dir]
    <3>1. v \in CallType /\ v.pc = "probe" /\ v.at = call[c].at
      BY ZenonT(60) DEF Types, CallType, Places
    <3>2. Set(c, v)
      BY <2>2
    <3> HIDE DEF v
    <3> QED
      BY <2>1, <3>1, <3>2, SetTypes
  <2>3. call' \in [Calls -> CallType] /\ \A d \in Calls : CallFits(d)'
    BY <1>10, <2>1, <2>2, GoTypes, MoveTypes DEF Lookup
  <2>4. cache' \in [Hosts -> Places]
    BY <1>10, <2>1 DEF Lookup, Types, Places
  <2> QED
    BY <1>10, <2>3, <2>4 DEF Lookup, Types, world
<1>11. ASSUME NEW c \in Calls, Probe(c) PROVE Types'
  <2>1. call' \in [Calls -> CallType] /\ \A d \in Calls : CallFits(d)'
    BY <1>11, MoveTypes DEF Probe
  <2>2. dir' \in Places
    BY <1>11 DEF Probe, EvictIfDead, Types, Places
  <2> QED
    BY <1>11, <2>1, <2>2 DEF Probe, Types
<1>12. ASSUME NEW c \in Calls, Choose(c) PROVE Types'
  <2>1. call[c].at \in Hosts
    BY <1>12 DEF Choose, Types, CallFits
  <2>2. PICK t \in Candidates(call[c].at) :
           cache' = [cache EXCEPT ![call[c].at] = t] /\ Go(c, t)
    BY <1>12 DEF Choose
  <2>3. t \in Hosts
    BY <2>1 DEF Candidates, Active
  <2>4. call' \in [Calls -> CallType] /\ \A d \in Calls : CallFits(d)'
    BY <1>12, <2>2, <2>3, GoTypes DEF Choose
  <2>5. cache' \in [Hosts -> Places]
    BY <2>2, <2>3 DEF Types, Places
  <2> QED
    BY <1>12, <2>4, <2>5 DEF Choose, Types, world
<1>13. ASSUME NEW c \in Calls, Send(c) PROVE Types'
  <2>1. call[c].to \in Hosts
    BY <1>13 DEF Send, Types, CallFits
  <2>2. call' \in [Calls -> CallType] /\ \A d \in Calls : CallFits(d)'
    BY <1>13, <2>1, MoveTypes DEF Send
  <2>3. [c |-> c, n |-> call[c].n, to |-> call[c].to] \in RequestType
    BY <2>1 DEF RequestType, Types, CallType
  <2> QED
    BY <1>13, <2>2, <2>3 DEF Send, Types, world
<1>14. ASSUME NEW c \in Calls, ServeLocal(c) PROVE Types'
  <2>1. call[c].at \in Hosts
    BY <1>14 DEF ServeLocal, Types, CallFits
  <2>2. PICK e \in Outcomes(call[c].at) :
           IF call[c].direct /\ e # "ok" THEN Finish(c, e) ELSE Answered(c, call[c].at, e)
    BY <1>14 DEF ServeLocal
  <2>3. e \in Errors
    BY DEF Outcomes, Refusal, TurnEnds, Errors
  <2>4. call' \in [Calls -> CallType] /\ \A d \in Calls : CallFits(d)'
    BY <1>14, <2>1, <2>2, <2>3, FinishTypes, AnsweredTypes DEF ServeLocal
  <2>5. ran' \in [Calls -> Nat] /\ dir' \in Places
    BY <1>14, <2>1, RanTypes DEF ServeLocal
  <2> QED
    BY <1>14, <2>4, <2>5 DEF ServeLocal, Types
<1>15. ASSUME NEW c \in Calls, NoteFailure(c) PROVE Types'
  <2>1. call[c].at \in Hosts
    BY <1>15 DEF NoteFailure, Types, CallFits
  <2>2. call' \in [Calls -> CallType] /\ \A d \in Calls : CallFits(d)'
    BY <1>15, RetriedTypes, FinishTypes DEF NoteFailure, Errors
  <2>3. cache' \in [Hosts -> Places]
    BY <1>15, <2>1 DEF NoteFailure, Redirected, Types, CallFits, Places
  <2>4. dir' \in Places
    BY <1>15 DEF NoteFailure, EvictIfDead, Types, Places
  <2>5. view' \in [Hosts -> [Hosts -> {"active", "leaving", "out"}]]
    BY <1>15, <2>1, WorldTypes DEF NoteFailure, Types
  <2> QED
    BY <1>15, <2>2, <2>3, <2>4, <2>5 DEF NoteFailure, Types
<1>16. ASSUME NEW c \in Calls, SendFails(c) PROVE Types'
  <2>1. call' \in [Calls -> CallType] /\ \A d \in Calls : CallFits(d)'
    BY <1>16, FailedTypes DEF SendFails
  <2> QED
    BY <1>16, <1>f, <2>1 DEF SendFails, Fault, Types, world
<1>17. ASSUME NEW c \in Calls, ConnectionLost(c) PROVE Types'
  <2>1. call' \in [Calls -> CallType] /\ \A d \in Calls : CallFits(d)'
    BY <1>17, FailedTypes DEF ConnectionLost, LostInFlight
  <2> QED
    BY <1>17, <1>f, <2>1 DEF ConnectionLost, Fault, Types, world
<1>18. ASSUME NEW w \in wire, Serve(w) PROVE Types'
  <2>1. w.c \in Calls /\ w.to \in Hosts
    BY DEF Types, RequestType
  <2>2. call' \in [Calls -> CallType] /\ \A d \in Calls : CallFits(d)'
    BY <1>18, <2>1, AnsweredTypes DEF Serve, Types, CallFits
  <2>3. ran' \in [Calls -> Nat] /\ dir' \in Places
    BY <1>18, <2>1, RanTypes DEF Serve
  <2> QED
    BY <1>18, <2>2, <2>3 DEF Serve, Types
<1>19. CASE UNCHANGED vars
  BY <1>19 DEF vars, world, Types, CallFits
<1> QED
  BY <1>1, <1>2, <1>3, <1>4, <1>5, <1>6, <1>7, <1>8, <1>9, <1>10, <1>11, <1>12, <1>13,
     <1>14, <1>15, <1>16, <1>17, <1>18, <1>19 DEF Next, Step

-----------------------------------------------------------------------------
(* At most once.                                                           *)

Others(c) == \A d \in Calls \ {c} : call'[d] = call[d]

LEMMA SetOthers == \A c, v : Types /\ Set(c, v) => Others(c)
  BY DEF Types, Set, Others

LEMMA InitOnce == Init => OnceInv
  BY DEF Init, OnceInv, Pending, OneRequest, RanEnds

LEMMA Unmoved == OnceInv /\ UNCHANGED <<call, wire, ran>> => OnceInv'
  BY DEF OnceInv, Pending, OneRequest, RanEnds, Unknown

\* A call with no request out that has not ended has not run: its state may
\* change in any way.
Open(c) == call[c].pc \notin {"sent", "done"} /\ ~Unknown(c)

LEMMA OpenIdle ==
  ASSUME OnceInv, NEW c \in Calls, Open(c)
  PROVE  ran[c] = 0 /\ \A w \in wire : w.c # c
  BY DEF OnceInv, Pending, RanEnds, Open, Unknown

LEMMA OpenMoves ==
  ASSUME Types, OnceInv, NEW c \in Calls, Open(c), Others(c), UNCHANGED <<wire, ran>>
  PROVE  OnceInv'
<1>1. ran[c] = 0 /\ \A w \in wire : w.c # c
  BY OpenIdle
<1>2. \A w \in wire : w.c \in Calls \ {c}
  BY <1>1 DEF Types, RequestType
<1>3. Pending'
  BY <1>2 DEF OnceInv, Pending, Others, Unknown
<1>4. RanEnds'
  BY <1>1 DEF OnceInv, RanEnds, Others, Unknown
<1> QED
  BY <1>3, <1>4 DEF OnceInv, OneRequest

\* A call whose request may still run stays given up on.
LEMMA UnknownMoves ==
  ASSUME Types, OnceInv, NEW c \in Calls, Others(c), UNCHANGED <<wire, ran>>,
         call[c].pc # "done", Unknown(c)'
  PROVE  OnceInv'
<1>1. \A w \in wire : w.c \in Calls
  BY DEF Types, RequestType
<1>2. Pending'
  BY <1>1 DEF OnceInv, Pending, Others, Unknown
<1>3. RanEnds'
  BY DEF OnceInv, RanEnds, Others, Unknown
<1> QED
  BY <1>2, <1>3 DEF OnceInv, OneRequest

\* An answer that is no refusal is the method's own end.
LEMMA AnswerRan ==
  ASSUME Framed, NEW t \in Hosts, NEW e \in Outcomes(t)
  PROVE  /\ Refusal(t) = "none" => e \in {"ok", "app"}
         /\ Refusal(t) # "none" => e = Refusal(t) /\ e \notin {"ok", "app", "outcome-unknown"}
  BY DEF Framed, Outcomes, Refusal, TurnEnds

LEMMA FinishEnds ==
  ASSUME Types, NEW c \in Calls, NEW e, Finish(c, e)
  PROVE  call'[c].pc = "done" /\ call'[c].err = e /\ Others(c)
<1>1. call[c] \in CallType
  BY DEF Types
<1>2. call'[c] = [call[c] EXCEPT !.pc = "done", !.err = e]
  BY DEF Finish, Set, Types
<1> QED
  BY <1>1, <1>2, SetOthers DEF Finish, CallType

LEMMA AnsweredEnds ==
  ASSUME Types, Framed, NEW c \in Calls, NEW t \in Hosts, NEW e \in Outcomes(t),
         Answered(c, t, e)
  PROVE  /\ Others(c)
         /\ e \in {"ok", "app"} => call'[c].pc = "done" /\ call'[c].err = e
<1>1. CASE e \in {"ok", "app"}
  BY <1>1, FinishEnds DEF Answered
<1>2. CASE e \notin {"ok", "app"}
  BY <1>2, SetOthers DEF Answered
<1> QED
  BY <1>1, <1>2

LEMMA NextOnce == Framed /\ Types /\ OnceInv /\ [Next]_vars => OnceInv'
<1> SUFFICES ASSUME Framed, Types, OnceInv, [Next]_vars PROVE OnceInv'
  OBVIOUS
<1>1. ASSUME NEW h \in Hosts,
             Drain(h) \/ Expire(h) \/ Fence(h) \/ ViewChange(h) \/ Move(h) \/ Placed(h)
      PROVE  OnceInv'
  BY <1>1, Unmoved DEF Drain, Expire, Fence, ViewChange, Move, Placed
<1>2. ASSUME NEW h \in Hosts, Die(h) PROVE OnceInv'
  <2>1. wire' \subseteq wire /\ UNCHANGED <<call, ran>>
    BY <1>2 DEF Die
  <2> QED
    BY <2>1 DEF OnceInv, Pending, OneRequest, RanEnds, Unknown
<1>3. ASSUME NEW c \in Calls, NEW h \in Hosts, Begin(c, h) PROVE OnceInv'
  BY <1>3, SetOthers, OpenMoves DEF Begin, Open, Unknown
<1>4. ASSUME NEW c \in Calls, Resolve(c) PROVE OnceInv'
  <2>1. Others(c)
    BY <1>4, SetOthers DEF Resolve, Finish, Go
  <2> QED
    BY <1>4, <2>1, OpenMoves DEF Resolve, Open, Unknown
<1>5. ASSUME NEW c \in Calls, Lookup(c) PROVE OnceInv'
  <2>1. Others(c)
    BY <1>5, SetOthers DEF Lookup, Go
  <2> QED
    BY <1>5, <2>1, OpenMoves DEF Lookup, Open, Unknown
<1>6. ASSUME NEW c \in Calls, Probe(c) PROVE OnceInv'
  BY <1>6, SetOthers, OpenMoves DEF Probe, Open, Unknown
<1>7. ASSUME NEW c \in Calls, Choose(c) PROVE OnceInv'
  <2>1. Others(c)
    BY <1>7, SetOthers DEF Choose, Go
  <2> QED
    BY <1>7, <2>1, OpenMoves DEF Choose, Open, Unknown
<1>8. ASSUME NEW c \in Calls, Send(c) PROVE OnceInv'
  <2> DEFINE w == [c |-> c, n |-> call[c].n, to |-> call[c].to]
  <2>1. wire' = wire \cup {w} /\ UNCHANGED ran /\ Others(c)
    BY <1>8, SetOthers DEF Send
  <2>2. ran[c] = 0 /\ \A v \in wire : v.c # c
    BY <1>8, OpenIdle DEF Send, Open, Unknown
  <2>3. call'[c].pc = "sent" /\ call'[c].n = call[c].n /\ call'[c].to = call[c].to
    BY <1>8 DEF Send, Set, Types, CallType
  <2>4. w.c = c /\ w.n = call[c].n /\ w.to = call[c].to
    OBVIOUS
  <2>5. \A v \in wire : v.c \in Calls \ {c}
    BY <2>2 DEF Types, RequestType
  <2> HIDE DEF w
  <2>6. Pending'
    BY <2>1, <2>2, <2>3, <2>4, <2>5 DEF OnceInv, Pending, Others, Unknown
  <2>7. OneRequest'
    BY <2>1, <2>2, <2>4 DEF OnceInv, OneRequest
  <2>8. RanEnds'
    BY <2>1, <2>2 DEF OnceInv, RanEnds, Others, Unknown
  <2> QED
    BY <2>6, <2>7, <2>8 DEF OnceInv
<1>9. ASSUME NEW c \in Calls, ServeLocal(c) PROVE OnceInv'
  <2>0. call[c].at \in Hosts
    BY <1>9 DEF ServeLocal, Types, CallFits
  <2>1. PICK e \in Outcomes(call[c].at) :
           IF call[c].direct /\ e # "ok" THEN Finish(c, e) ELSE Answered(c, call[c].at, e)
    BY <1>9 DEF ServeLocal
  <2>2. Others(c) /\ (e \in {"ok", "app"} => call'[c].pc = "done" /\ call'[c].err = e)
    BY <2>0, <2>1, FinishEnds, AnsweredEnds
  <2>3. ran[c] = 0 /\ \A v \in wire : v.c # c
    BY <1>9, OpenIdle DEF ServeLocal, Open, Unknown
  <2>4. UNCHANGED wire /\ \A d \in Calls \ {c} : ran'[d] = ran[d]
    BY <1>9 DEF ServeLocal, Ran, Types
  <2>5. ran'[c] = 0 \/ (ran'[c] = 1 /\ e \in {"ok", "app"})
    BY <1>9, <2>0, <2>3, AnswerRan DEF ServeLocal, Ran, Types
  <2>6. \A v \in wire : v.c \in Calls \ {c}
    BY <2>3 DEF Types, RequestType
  <2>7. Pending'
    BY <2>2, <2>4, <2>6 DEF OnceInv, Pending, Others, Unknown
  <2>8. RanEnds'
    BY <2>2, <2>4, <2>5 DEF OnceInv, RanEnds, Others, Unknown
  <2> QED
    BY <2>4, <2>7, <2>8 DEF OnceInv, OneRequest
<1>10. ASSUME NEW c \in Calls, NoteFailure(c) PROVE OnceInv'
  <2>1. Others(c)
    BY <1>10, SetOthers DEF NoteFailure, Retried, Again, Finish
  <2>2. CASE call[c].err = "outcome-unknown"
    <3>1. Finish(c, "outcome-unknown")
      BY <1>10, <2>2 DEF NoteFailure
    <3> QED
      BY <1>10, <2>1, <3>1, FinishEnds, UnknownMoves DEF NoteFailure, Unknown
  <2>3. CASE call[c].err # "outcome-unknown"
    BY <1>10, <2>1, <2>3, OpenMoves DEF NoteFailure, Open, Unknown
  <2> QED
    BY <2>2, <2>3
<1>11. ASSUME NEW c \in Calls, SendFails(c) PROVE OnceInv'
  BY <1>11, SetOthers, OpenMoves DEF SendFails, Failed, Open, Unknown
<1>12. ASSUME NEW c \in Calls, ConnectionLost(c) PROVE OnceInv'
  <2>1. Set(c, [call[c] EXCEPT !.pc = "failed", !.err = "outcome-unknown"])
    BY <1>12 DEF ConnectionLost, Failed, LostInFlight, Framed
  <2>2. call'[c].pc = "failed" /\ call'[c].err = "outcome-unknown"
    BY <2>1 DEF Set, Types, CallType
  <2> QED
    BY <1>12, <2>1, <2>2, SetOthers, UnknownMoves DEF ConnectionLost, Unknown
<1>13. ASSUME NEW w \in wire, Serve(w) PROVE OnceInv'
  <2> DEFINE c == w.c
  <2>0. c \in Calls /\ w.to \in Hosts
    BY DEF Types, RequestType
  <2>1. PICK e \in Outcomes(w.to) :
           IF call[c].pc = "sent" /\ call[c].n = w.n
           THEN Answered(c, w.to, e) ELSE UNCHANGED call
    BY <1>13 DEF Serve
  <2>2. wire' = wire \ {w} /\ \A v \in wire' : v \in wire /\ v.c \in Calls \ {c}
    BY <1>13 DEF Serve, OnceInv, OneRequest, Types, RequestType
  <2>3. ran[c] = 0
    BY DEF OnceInv, Pending
  <2>4. \A d \in Calls \ {c} : ran'[d] = ran[d]
    BY <1>13 DEF Serve, Ran, Types
  <2>5. ran'[c] = 0 \/ (ran'[c] = 1 /\ e \in {"ok", "app"})
    BY <1>13, <2>0, <2>3, AnswerRan DEF Serve, Ran, Types
  <2>6. \/ /\ Others(c)
           /\ e \in {"ok", "app"} => call'[c].pc = "done" /\ call'[c].err = e
        \/ UNCHANGED call /\ Unknown(c)
    BY <2>0, <2>1, AnsweredEnds DEF OnceInv, Pending
  <2> HIDE DEF c
  <2>7. Others(c)
    BY <2>6 DEF Others
  <2>8. Pending'
    BY <2>2, <2>4, <2>7 DEF OnceInv, Pending, Others, Unknown
  <2>9. RanEnds'
    BY <2>4, <2>5, <2>6, <2>7 DEF OnceInv, RanEnds, Others, Unknown
  <2> QED
    BY <2>2, <2>8, <2>9 DEF OnceInv, OneRequest
<1>14. CASE UNCHANGED vars
  BY <1>14, Unmoved DEF vars, world
<1> QED
  BY <1>1, <1>2, <1>3, <1>4, <1>5, <1>6, <1>7, <1>8, <1>9, <1>10, <1>11, <1>12, <1>13,
     <1>14 DEF Next, Step

-----------------------------------------------------------------------------
(* Convergence, for one call: the calls of a host share its route cache, so  *)
(* that a fault may cost each of them an attempt.                           *)

LEMMA InitConverge == Init => ConvergeInv
  BY DEF Init, ConvergeInv, AllUp, Calm, Converging, Bounded, NoCall

\* Nobody goes down and comes back.
LEMMA NextUp == Types /\ [Next]_vars /\ AllUp' => AllUp
<1> SUFFICES ASSUME Types, [Next]_vars, AllUp' PROVE AllUp
  OBVIOUS
<1>1. ASSUME NEW h \in Hosts, Drain(h) \/ Die(h) PROVE FALSE
  BY <1>1 DEF Drain, Die, Types, AllUp
<1>2. ASSUME NEW h \in Hosts, Fence(h) PROVE FALSE
  BY <1>2 DEF Fence, Types, AllUp
<1>3. ASSUME NEW h \in Hosts, Expire(h) \/ ViewChange(h) \/ Move(h) \/ Placed(h)
      PROVE  UNCHANGED <<proc, fenced>>
  BY <1>3 DEF Expire, ViewChange, Move, Placed, world
<1>4. ASSUME NEW c \in Calls, Step(c) \/ SendFails(c) \/ ConnectionLost(c)
                              \/ \E h \in Hosts : Begin(c, h)
      PROVE  UNCHANGED <<proc, fenced>>
  BY <1>4 DEF Step, Begin, Resolve, Lookup, Probe, Choose, Send, ServeLocal, NoteFailure,
     SendFails, ConnectionLost, world
<1>5. ASSUME NEW w \in wire, Serve(w) PROVE UNCHANGED <<proc, fenced>>
  BY <1>5 DEF Serve
<1>6. CASE UNCHANGED <<proc, fenced>>
  BY <1>6 DEF AllUp
<1>7. CASE UNCHANGED vars
  BY <1>6, <1>7 DEF vars, world
<1> QED
  BY <1>1, <1>2, <1>3, <1>4, <1>5, <1>6, <1>7 DEF Next

\* While nobody goes down, records and views stay as they are.
LEMMA NextCalm == Types /\ [Next]_vars /\ AllUp /\ AllUp' /\ Calm => Calm'
<1> SUFFICES ASSUME Types, [Next]_vars, AllUp, AllUp', Calm PROVE Calm'
  OBVIOUS
<1>1. ASSUME NEW h \in Hosts, Drain(h) \/ Die(h) PROVE FALSE
  BY <1>1 DEF Drain, Die, Types, AllUp
<1>2. ASSUME NEW h \in Hosts, Expire(h) PROVE FALSE
  BY <1>2 DEF Expire, Types, AllUp
<1>3. ASSUME NEW h \in Hosts, view' = Refreshed(h), UNCHANGED record PROVE Calm'
  BY <1>3 DEF Refreshed, Types, Calm
<1>4. ASSUME UNCHANGED <<record, view>> PROVE Calm'
  BY <1>4 DEF Calm
<1>5. ASSUME NEW h \in Hosts, Fence(h) \/ ViewChange(h) \/ Move(h) \/ Placed(h) PROVE Calm'
  BY <1>3, <1>4, <1>5 DEF Fence, ViewChange, Move, Placed, world
<1>6. ASSUME NEW c \in Calls, NoteFailure(c) PROVE Calm'
  <2>1. call[c].at \in Hosts
    BY <1>6 DEF NoteFailure, Types, CallFits
  <2> QED
    BY <1>3, <1>4, <1>6, <2>1 DEF NoteFailure
<1>7. ASSUME NEW c \in Calls, \/ Resolve(c) \/ Lookup(c) \/ Probe(c) \/ Choose(c) \/ Send(c)
                              \/ ServeLocal(c) \/ SendFails(c) \/ ConnectionLost(c)
                              \/ \E h \in Hosts : Begin(c, h)
      PROVE  Calm'
  BY <1>4, <1>7 DEF Begin, Resolve, Lookup, Probe, Choose, Send, ServeLocal, SendFails,
     ConnectionLost, world
<1>8. ASSUME NEW w \in wire, Serve(w) PROVE Calm'
  BY <1>4, <1>8 DEF Serve
<1>9. CASE UNCHANGED vars
  BY <1>4, <1>9 DEF vars, world
<1> QED
  BY <1>1, <1>2, <1>5, <1>6, <1>7, <1>8, <1>9 DEF Next, Step

\* With everybody up nobody refuses but for the actor being elsewhere.
LEMMA UpRefusal ==
  ASSUME AllUp, NEW t \in Hosts
  PROVE  Refusal(t) = IF dir \notin {t, NoHost} THEN "wrong-host" ELSE "none"
  BY DEF AllUp, Refusal

LEMMA CallFields ==
  ASSUME Types, NEW c \in Calls
  PROVE  /\ call[c].n \in Nat /\ call[c].n <= Retries /\ faults \in Nat /\ faults <= MaxFaults
         /\ Wasted(c) = IF call[c].pc = "failed" THEN call[c].n + 1 ELSE call[c].n
<1>1. call[c] \in CallType
  BY DEF Types
<1> QED
  BY <1>1, RoutingAssumption DEF Types, CallType, Wasted

\* A call that goes on where it stood.
LEMMA GoesOn ==
  ASSUME Types, NEW c \in Calls, Converging(c), UNCHANGED faults,
         call'[c].n = call[c].n, call[c].pc \notin {"new", "failed", "done"},
         call'[c].pc \notin {"failed", "probe"}, call'[c].err # "not-converged",
         OnRoute(c) => OnRoute(c)'
  PROVE  Converging(c)'
  BY CallFields DEF Converging, Bounded, Wasted

LEMMA GoFields ==
  ASSUME Types, NEW c \in Calls, NEW t, Go(c, t)
  PROVE  /\ call'[c].n = call[c].n /\ call'[c].err = call[c].err /\ call'[c].to = t
         /\ call'[c].at = call[c].at
         /\ call'[c].pc = IF t = call[c].at THEN "arrived" ELSE "send"
<1>1. call[c] \in CallType
  BY DEF Types
<1>2. call'[c] = [call[c] EXCEPT !.to = t, !.pc = IF t = call[c].at THEN "arrived" ELSE "send"]
  BY DEF Go, Set, Types
<1> QED
  BY <1>1, <1>2 DEF CallType

LEMMA MoveFields ==
  ASSUME Types, NEW c \in Calls, NEW p, Set(c, [call[c] EXCEPT !.pc = p])
  PROVE  /\ call'[c].n = call[c].n /\ call'[c].err = call[c].err /\ call'[c].to = call[c].to
         /\ call'[c].at = call[c].at /\ call'[c].pc = p
<1>1. call[c] \in CallType
  BY DEF Types
<1>2. call'[c] = [call[c] EXCEPT !.pc = p]
  BY DEF Set, Types
<1> QED
  BY <1>1, <1>2 DEF CallType

LEMMA FailedFields ==
  ASSUME Types, NEW c \in Calls, NEW e, Failed(c, e)
  PROVE  /\ call'[c].n = call[c].n /\ call'[c].err = e /\ call'[c].pc = "failed"
         /\ call'[c].at = call[c].at
<1>1. call[c] \in CallType
  BY DEF Types
<1>2. call'[c] = [call[c] EXCEPT !.pc = "failed", !.err = e]
  BY DEF Failed, Set, Types
<1> QED
  BY <1>1, <1>2 DEF CallType

\* What a call that reached host t is answered, with everybody up: an end, or
\* the owner's name, which spends an attempt that was not on its way.
LEMMA AnswerConverges ==
  ASSUME Types, Framed, AllUp, NEW c \in Calls, NEW t \in Hosts, NEW e \in Outcomes(t),
         Answered(c, t, e) \/ (Finish(c, e) /\ e \in Errors), Claimed(t), UNCHANGED faults,
         Converging(c), call[c].pc \in {"arrived", "sent"}, OnRoute(c) => t = dir
  PROVE  Converging(c)'
<1>1. e \in {"ok", "app", "wrong-host"} /\ (e = "wrong-host" => dir \notin {t, NoHost})
  BY UpRefusal, AnswerRan DEF Framed
<1>2. CASE Finish(c, e)
  BY <1>1, <1>2, FinishEnds DEF Converging, Bounded
<1>3. CASE Answered(c, t, e) /\ e # "wrong-host"
  <2>1. Finish(c, e)
    BY <1>1, <1>3 DEF Answered
  <2> QED
    BY <1>2, <2>1
<1>4. CASE Answered(c, t, e) /\ e = "wrong-host"
  <2>1. call'[c] = [call[c] EXCEPT !.pc = "failed", !.err = "wrong-host", !.hint = dir]
    BY <1>4 DEF Answered, Set, Types
  <2>2. call[c] \in CallType
    BY DEF Types
  <2>3. /\ call'[c].pc = "failed" /\ call'[c].err = "wrong-host" /\ call'[c].hint = dir
        /\ call'[c].n = call[c].n
    BY <2>1, <2>2 DEF CallType
  <2>4. dir' = dir
    BY <1>1, <1>4, UpRefusal DEF Claimed
  <2>5. OnRoute(c)'
    BY <1>1, <1>4, <2>3, <2>4 DEF OnRoute
  <2>6. call[c].n <= faults /\ call[c].n \in Nat /\ faults \in Nat
    BY <1>1, <1>4, CallFields DEF Converging, Bounded
  <2> QED
    BY <2>3, <2>5, <2>6 DEF Converging, Bounded, Wasted
<1> QED
  BY <1>2, <1>3, <1>4

\* A failed attempt is followed by another: the attempts are not used up.
LEMMA RetryConverges ==
  ASSUME Types, Patient, NEW c \in Calls, Retried(c), Converging(c), call[c].pc = "failed",
         UNCHANGED faults,
         OnRoute(c) => dir' # NoHost /\ (dir' = call[c].at \/ cache'[call[c].at] \in {dir', NoHost})
  PROVE  Converging(c)'
<1>1. /\ call[c].n \in Nat /\ call[c].n <= Retries /\ faults \in Nat /\ faults <= MaxFaults
      /\ call[c].n + 1 <= faults + (IF OnRoute(c) THEN 1 ELSE 0)
  BY CallFields DEF Converging, Bounded
<1>2. call[c].n < Retries
  BY <1>1, RoutingAssumption DEF Patient
<1>3. call'[c] = [NoCall EXCEPT !.at = call[c].at, !.pc = "resolve", !.n = call[c].n + 1]
  BY <1>2 DEF Retried, Again, Set, Types
<1>4. /\ call'[c].pc = "resolve" /\ call'[c].n = call[c].n + 1 /\ call'[c].err = "none"
      /\ call'[c].at = call[c].at
  BY <1>3 DEF NoCall
<1>5. OnRoute(c) => OnRoute(c)'
  BY <1>4 DEF OnRoute
<1> QED
  BY <1>1, <1>4, <1>5 DEF Converging, Bounded, Wasted

\* A move of the actor puts a call off its route; so does nothing else.
LEMMA WorldConverges ==
  ASSUME Types, NEW c \in Calls, Converging(c), UNCHANGED <<call, cache>>,
         \/ UNCHANGED <<dir, faults>>
         \/ faults' = faults + 1
         \/ dir = NoHost /\ UNCHANGED faults
  PROVE  Converging(c)'
<1>1. OnRoute(c) => dir # NoHost
  BY DEF OnRoute
<1>2. UNCHANGED dir => OnRoute(c)' = OnRoute(c)
  BY DEF OnRoute
<1>3. Wasted(c)' = Wasted(c) /\ Wasted(c) \in Nat /\ faults \in Nat
  BY CallFields DEF Wasted
<1> QED
  BY <1>1, <1>2, <1>3 DEF Converging, Bounded

LEMMA NextConverges ==
  ASSUME Framed, Single, Patient, Types, OnceInv, [Next]_vars, AllUp, AllUp', Calm,
         NEW c \in Calls, Converging(c)
  PROVE  Converging(c)'
<1>t. call[c] \in CallType /\ dir \in Places /\ NoHost \notin Hosts
  BY RoutingAssumption DEF Types
<1>a. call[c].pc # "new" => call[c].at \in Hosts
  BY DEF Types, CallFits
<1>f. /\ call[c].n \in Nat /\ faults \in Nat
      /\ Wasted(c) = IF call[c].pc = "failed" THEN call[c].n + 1 ELSE call[c].n
  BY CallFields
<1>1. ASSUME NEW h \in Hosts, Drain(h) \/ Die(h) \/ Fence(h) \/ Expire(h) PROVE FALSE
  BY <1>1 DEF Drain, Die, Fence, Expire, Types, AllUp
<1>2. ASSUME NEW h \in Hosts, Move(h) \/ Placed(h) PROVE Converging(c)'
  BY <1>2, WorldConverges DEF Move, Placed, Fault
<1>3. ASSUME NEW h \in Hosts, ViewChange(h) PROVE FALSE
  BY <1>3 DEF ViewChange, Types, Calm
<1>4. ASSUME NEW d \in Calls, NEW h \in Hosts, Begin(d, h) PROVE Converging(c)'
  <2>1. d = c
    BY DEF Single
  <2>2. /\ call'[c].n = 0 /\ call'[c].pc \in {"arrived", "resolve"} /\ call'[c].err = "none"
        /\ UNCHANGED faults
    BY <1>4, <2>1 DEF Begin, Set, NoCall, Types
  <2> QED
    BY <1>f, <2>2 DEF Converging, Bounded, Wasted
<1>5. ASSUME Resolve(c) PROVE Converging(c)'
  <2> DEFINE h == call[c].at
             r == cache[h]
             usable == r # NoHost /\ (r = h \/ view[h][r] # "out")
  <2>1. h \in Hosts /\ r \in Places /\ UNCHANGED <<dir, faults>>
    BY <1>5, <1>a DEF Resolve, Types, world
  <2>2. CASE Finish(c, "fenced")
    BY <2>2, FinishEnds DEF Converging, Bounded
  <2>3. CASE dir = h /\ Go(c, h)
    <3>1. OnRoute(c)'
      BY <1>t, <2>1, <2>3, GoFields DEF OnRoute
    <3> QED
      BY <1>5, <2>1, <2>3, <3>1, GoFields, GoesOn DEF Resolve, Converging
  <2>4. CASE dir # h /\ usable /\ Go(c, r) /\ UNCHANGED cache
    <3>1. OnRoute(c) => OnRoute(c)'
      BY <1>5, <2>1, <2>4, GoFields DEF OnRoute, Resolve
    <3> QED
      BY <1>5, <2>1, <2>4, <3>1, GoFields, GoesOn DEF Resolve, Converging
  <2>5. CASE Set(c, [call[c] EXCEPT !.pc = "lookup"])
    <3>1. /\ call'[c].n = call[c].n /\ call'[c].err = call[c].err /\ call'[c].pc = "lookup"
          /\ call[c].pc = "resolve"
      BY <1>5, <2>5, MoveFields DEF Resolve
    <3>2. OnRoute(c) => OnRoute(c)'
      BY <2>1, <3>1 DEF OnRoute
    <3> QED
      BY <2>1, <3>1, <3>2, GoesOn DEF Converging
  <2> QED
    BY <1>5, <2>2, <2>3, <2>4, <2>5 DEF Resolve
<1>6. ASSUME Lookup(c) PROVE Converging(c)'
  <2> DEFINE h == call[c].at
  <2>1. h \in Hosts /\ UNCHANGED <<dir, faults>> /\ call[c].pc = "lookup"
    BY <1>6, <1>a DEF Lookup, world
  <2>2. CASE dir \in Hosts /\ Go(c, dir)
    <3>1. OnRoute(c)'
      BY <1>t, <2>1, <2>2, GoFields DEF OnRoute
    <3> QED
      BY <2>1, <2>2, <3>1, GoFields, GoesOn DEF Converging
  <2>3. CASE dir \in Hosts \ {h} /\ view[h][dir] = "out"
    BY <2>1, <2>3 DEF Calm
  <2>4. CASE dir = NoHost /\ Set(c, [call[c] EXCEPT !.pc = "choose"])
    <3>1. ~OnRoute(c)
      BY <2>4 DEF OnRoute
    <3>2. call'[c].n = call[c].n /\ call'[c].err = call[c].err /\ call'[c].pc = "choose"
      BY <2>4, MoveFields
    <3> QED
      BY <2>1, <3>1, <3>2, GoesOn DEF Converging
  <2> QED
    BY <1>6, <2>1, <2>2, <2>3, <2>4 DEF Lookup
<1>7. ASSUME Probe(c) PROVE FALSE
  BY <1>7 DEF Probe, Converging
<1>8. ASSUME Choose(c) PROVE Converging(c)'
  <2>1. PICK t : Go(c, t)
    BY <1>8 DEF Choose
  <2>2. ~OnRoute(c) /\ call[c].pc = "choose" /\ UNCHANGED faults
    BY <1>8 DEF Choose, OnRoute
  <2> QED
    BY <2>1, <2>2, GoFields, GoesOn DEF Converging
<1>9. ASSUME Send(c) PROVE Converging(c)'
  <2>1. UNCHANGED <<dir, faults>> /\ call[c].pc = "send" /\ Set(c, [call[c] EXCEPT !.pc = "sent"])
    BY <1>9 DEF Send, world
  <2>2. OnRoute(c) => OnRoute(c)'
    BY <2>1, MoveFields DEF OnRoute
  <2> QED
    BY <2>1, <2>2, MoveFields, GoesOn DEF Converging
<1>10. ASSUME NEW e \in {"unreachable", "outcome-unknown"}, Failed(c, e), Fault, UNCHANGED dir,
              call[c].pc \in {"send", "sent"}
       PROVE  Converging(c)'
  <2>1. OnRoute(c) => OnRoute(c)'
    BY <1>10, FailedFields DEF OnRoute
  <2> QED
    BY <1>10, <1>f, <2>1, FailedFields DEF Converging, Bounded, Wasted, Fault
<1>11. ASSUME SendFails(c) PROVE Converging(c)'
  <2>1. call[c].to \in Hosts
    BY <1>11 DEF SendFails, Types, CallFits
  <2> QED
    BY <1>10, <1>11, <2>1 DEF SendFails, AllUp, world
<1>12. ASSUME ConnectionLost(c) PROVE Converging(c)'
  <2>1. call[c].to \in Hosts
    BY <1>12 DEF ConnectionLost, Types, CallFits
  <2> QED
    BY <1>10, <1>12, <2>1 DEF ConnectionLost, LostInFlight, AllUp, world
<1>13. ASSUME ServeLocal(c) PROVE Converging(c)'
  <2> DEFINE h == call[c].at
  <2>1. h \in Hosts /\ call[c].pc = "arrived" /\ Claimed(h) /\ UNCHANGED faults
    BY <1>13, <1>a DEF ServeLocal
  <2>2. PICK e \in Outcomes(h) :
           IF call[c].direct /\ e # "ok" THEN Finish(c, e) ELSE Answered(c, h, e)
    BY <1>13 DEF ServeLocal
  <2>3. e \in Errors
    BY DEF Outcomes, Refusal, TurnEnds, Errors
  <2>4. OnRoute(c) => h = dir
    BY <2>1 DEF OnRoute
  <2> HIDE DEF h
  <2> QED
    BY <2>1, <2>2, <2>3, <2>4, AnswerConverges
<1>14. ASSUME NEW w \in wire, Serve(w) PROVE Converging(c)'
  <2>1. w.c = c /\ w.to \in Hosts /\ Claimed(w.to) /\ UNCHANGED <<faults, cache>>
    BY <1>14 DEF Serve, Types, RequestType, Single
  <2>2. PICK e \in Outcomes(w.to) :
           IF call[c].pc = "sent" /\ call[c].n = w.n
           THEN Answered(c, w.to, e) ELSE UNCHANGED call
    BY <1>14, <2>1 DEF Serve
  <2>3. CASE call[c].pc = "sent" /\ call[c].n = w.n
    <3>1. call[c].to = w.to
      BY <2>1, <2>3 DEF OnceInv, Pending, Unknown
    <3>2. OnRoute(c) => w.to = dir
      BY <2>3, <3>1 DEF OnRoute
    <3> QED
      BY <2>1, <2>2, <2>3, <3>2, AnswerConverges
  <2>4. CASE ~(call[c].pc = "sent" /\ call[c].n = w.n)
    <3>1. UNCHANGED call
      BY <2>2, <2>4
    <3>2. dir = NoHost \/ UNCHANGED dir
      BY <2>1, UpRefusal DEF Claimed
    <3> QED
      BY <2>1, <3>1, <3>2, WorldConverges
  <2> QED
    BY <2>3, <2>4
<1>15. ASSUME NoteFailure(c) PROVE Converging(c)'
  <2> DEFINE h == call[c].at
  <2>1. h \in Hosts /\ call[c].pc = "failed" /\ UNCHANGED faults
    BY <1>15, <1>a DEF NoteFailure
  <2>2. CASE call[c].err = "wrong-host" /\ Redirected(c) /\ Retried(c) /\ UNCHANGED dir
    <3>1. cache'[h] = IF call[c].hint = h THEN NoHost ELSE call[c].hint
      BY <2>1, <2>2 DEF Redirected, Types
    <3>2. OnRoute(c) => dir' # NoHost /\ (dir' = h \/ cache'[h] \in {dir', NoHost})
      BY <2>1, <2>2, <3>1 DEF OnRoute
    <3> QED
      BY <2>1, <2>2, <3>2, RetryConverges
  <2>3. CASE /\ cache' = [cache EXCEPT ![h] = NoHost] /\ Retried(c)
             /\ dir' \in {dir, IF dir = NoHost THEN dir ELSE EvictIfDead(dir)}
    <3>1. dir' = dir
      BY <1>t, <2>3 DEF EvictIfDead, Calm, Places
    <3>2. cache'[h] = NoHost
      BY <2>1, <2>3 DEF Types
    <3>3. OnRoute(c) => dir' # NoHost /\ (dir' = h \/ cache'[h] \in {dir', NoHost})
      BY <3>1, <3>2 DEF OnRoute
    <3> QED
      BY <2>1, <2>3, <3>3, RetryConverges
  <2>4. CASE Finish(c, "outcome-unknown") \/ Finish(c, "host-shutdown")
    BY <2>4, FinishEnds DEF Converging, Bounded
  <2> QED
    BY <1>15, <2>2, <2>3, <2>4 DEF NoteFailure
<1>16. CASE UNCHANGED vars
  BY <1>16, WorldConverges DEF vars, world
<1>17. ASSUME NEW d \in Calls, Step(d) \/ SendFails(d) \/ ConnectionLost(d) PROVE Converging(c)'
  <2>1. d = c
    BY DEF Single
  <2> QED
    BY <1>5, <1>6, <1>7, <1>8, <1>9, <1>11, <1>12, <1>13, <1>15, <1>17, <2>1 DEF Step
<1> QED
  BY <1>1, <1>2, <1>3, <1>4, <1>14, <1>16, <1>17 DEF Next

-----------------------------------------------------------------------------
(* Theorems.                                                               *)

LEMMA TypesHold == Spec => []Types
<1>1. Init => Types
  BY InitTypes
<1>2. Types /\ [Next]_vars => Types'
  BY NextTypes
<1> QED
  BY <1>1, <1>2, PTL DEF Spec

\* OnceInv, of #routedDispatch and the target's #onCall: over a framed transport
\* a request on the wire is the one its caller waits for, or belongs to a call
\* that ended without trying again; and a method that ran ended its call.
THEOREM OneRequestPerCall == ASSUME Framed PROVE Spec => [](Types /\ OnceInv)
<1>1. Init => Types /\ OnceInv
  BY InitTypes, InitOnce
<1>2. Types /\ OnceInv /\ [Next]_vars => (Types /\ OnceInv)'
  BY NextTypes, NextOnce
<1> QED
  BY <1>1, <1>2, PTL DEF Spec

\* AtMostOnce, of the retry loop of #routedDispatch: it runs no method twice,
\* whatever drains, dies, expires, fences or moves under the call.
THEOREM RoutedAtMostOnce == ASSUME Framed PROVE Spec => []AtMostOnce
<1>1. OnceInv => AtMostOnce
  BY DEF OnceInv, RanEnds, AtMostOnce
<1> QED
  BY <1>1, OneRequestPerCall, PTL

\* RefusedNeverRan, of #noteFailure's classification: a call that is told it was
\* refused, or not routed, was not executed.
THEOREM RefusedCallsNeverRan == ASSUME Framed PROVE Spec => []RefusedNeverRan
<1>1. OnceInv => RefusedNeverRan
  BY DEF OnceInv, RanEnds, Unknown, RefusedNeverRan
<1> QED
  BY <1>1, OneRequestPerCall, PTL

\* RoutesConverge, of #routedDispatch's MAX_ROUTE_RETRIES: a call that is alone
\* needs one attempt more than there are faults, so with more retries than
\* faults it never gives up unrouted.
THEOREM CallsConverge ==
  ASSUME Framed, Single, Patient PROVE Spec => []RoutesConverge
<1>1. Init => IInv
  BY InitTypes, InitOnce, InitConverge DEF IInv
<1>2. IInv /\ [Next]_vars => IInv'
  <2> SUFFICES ASSUME IInv, [Next]_vars PROVE IInv'
    OBVIOUS
  <2>1. Types' /\ OnceInv'
    BY NextTypes, NextOnce DEF IInv
  <2>2. ASSUME AllUp' PROVE Calm' /\ \A c \in Calls : Converging(c)'
    <3>1. AllUp /\ Calm /\ \A c \in Calls : Converging(c)
      BY <2>2, NextUp DEF IInv, ConvergeInv
    <3> QED
      BY <2>2, <3>1, NextCalm, NextConverges DEF IInv
  <2> QED
    BY <2>1, <2>2 DEF IInv, ConvergeInv
<1>3. IInv => RoutesConverge
  <2> SUFFICES ASSUME IInv PROVE RoutesConverge
    OBVIOUS
  <2>1. \A c \in Calls : /\ call[c].n \in 0 .. Retries
                        /\ call[c].at \in Hosts \cup {NoHost} /\ call[c].to \in Hosts \cup {NoHost}
    BY DEF IInv, Types, CallType, Places
  <2>2. \A w \in wire : w.to \in Hosts /\ w.c \in Calls /\ w.n \in 0 .. Retries
    BY DEF IInv, Types, RequestType
  <2>3. ran \in [Calls -> 0 .. Retries + 1]
    BY RoutingAssumption DEF IInv, Types, OnceInv, RanEnds
  <2>4. TypeOK
    BY <2>1, <2>2, <2>3 DEF TypeOK, IInv, Types, Places
  <2>5. Converges
    BY DEF IInv, ConvergeInv, Converges, AllUp, Converging
  <2> QED
    BY <2>4, <2>5 DEF RoutesConverge
<1> QED
  BY <1>1, <1>2, <1>3, PTL DEF Spec
=============================================================================
