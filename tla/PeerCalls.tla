----------------------------- MODULE PeerCalls -----------------------------
(***************************************************************************)
(* A call from one host to another in a cluster whose members differ: the  *)
(* host to place an actor on is chosen from the hosts that register its    *)
(* type (placement.ts), the call context crosses the hop in an envelope    *)
(* (envelope.ts) over the first transport that reaches the host            *)
(* (transport.ts), and the receiving endpoint serves it or refuses it with *)
(* an answer the caller can act on (host-endpoint.ts).  The turn that runs *)
(* there may call on, so one call grows into a stack of calls over several *)
(* hosts with clocks of their own, while hosts join, drain and leave.      *)
(*                                                                         *)
(* Abstracted: fnv1a is a constant table of scores (with ties); the body,  *)
(* the codec and the HMAC are left out, the freshness of the signature is  *)
(* kept; resolving a target is one step (its interleavings are the matter  *)
(* of Routing); a host does not leave under a call of the stack; one call  *)
(* enters the cluster, and MaxPeerCalls counts it and its nested ones.     *)
(***************************************************************************)
EXTENDS Integers, Sequences, FiniteSets, Functions

CONSTANTS
    PeerHosts,      \* host incarnations: a restarted pod is another member
    PeerActors,     \* actor ids
    StatelessRefs,  \* those of them that are stateless workers
    Unlisted,       \* hosts whose descriptor lists no types
    TypeAt,         \* [PeerHosts -> SUBSET PeerActors], what a host registers
    Wires,          \* [PeerHosts -> SUBSET {"tcp", "http"}], the addresses
    Score,          \* [PeerActors -> [PeerHosts -> Nat]], fnv1a of key | host
    Rank,           \* [PeerHosts -> Nat], the order of the host ids
    Skew,           \* [PeerHosts -> Int], a host's clock minus true time
    Policies,       \* the placement policies to try
    AuthWindow,     \* how far a signature's time may be off
    Budget,         \* the time a root call is given
    PeerRetries,    \* re-resolutions of a refused call
    MaxPeerNow, MaxPeerCalls, MaxChurn    \* bounds of the instance

NoHost == "none"
Kinds == {"ok", "wrong-host", "unreachable", "host-shutdown", "unplaceable", "deadlock",
          "forbidden", "unknown", "misuse", "unconverged"}

ASSUME PeerAssumption ==
    /\ NoHost \notin PeerHosts
    /\ StatelessRefs \subseteq PeerActors /\ Unlisted \subseteq PeerHosts
    /\ Policies \subseteq {"random", "consistent-hash", "prefer-local"}
    /\ AuthWindow \in Nat /\ Budget \in Nat /\ PeerRetries \in Nat
    /\ IsFiniteSet(PeerHosts)
    /\ \A h \in PeerHosts : Rank[h] \in Nat /\ Skew[h] \in Int
    /\ \A g, h \in PeerHosts : Rank[g] = Rank[h] => g = h
    /\ \A a \in PeerActors, h \in PeerHosts : Score[a][h] \in Nat

VARIABLES
    policy,     \* the policy this cluster is configured with
    standing,   \* [PeerHosts -> {"absent", "active", "draining", "gone"}], the store's truth
    seenBy,       \* [PeerHosts -> Seq([id, status])], each host's membership view
    routes,     \* [PeerHosts -> [PeerActors -> PeerHosts \cup {NoHost}]], the route caches
    home,       \* [PeerActors -> PeerHosts \cup {NoHost}], the directory
    stack,      \* the call and the calls nested in it, the top one moving
    answered,   \* how the last call ended, and whether on the caller's own host
    peerNow,    \* true time
    made,       \* calls made
    churn       \* members that came, drained or left, and views read

peerVars == <<policy, standing, seenBy, routes, home, stack, answered, peerNow, made, churn>>

----------------------------------------------------------------------------
(* Views and eligibility *)

Ids(view) == {view[i].id : i \in DOMAIN view}
(* The members of a view that are active, where they stand in it. *)
ActiveIn(view) == Restrict(view, {i \in DOMAIN view : view[i].status = "active"})

(* The live members as a provider lists them: ascending or descending, it is not said which. *)
Listings ==
    LET live == {h \in PeerHosts : standing[h] \in {"active", "draining"}}
        Place(h, up) == Cardinality({g \in live : IF up THEN Rank[g] <= Rank[h] ELSE Rank[g] >= Rank[h]})
    IN  {[i \in 1..Cardinality(live) |->
            LET id == CHOOSE h \in live : Place(h, up) = i IN [id |-> id, status |-> standing[id]]] :
            up \in BOOLEAN}

HostRegisters(h, a) == h \in Unlisted \/ a \in TypeAt[h]
EligibleFor(view, a) == Restrict(view, {i \in DOMAIN view : HostRegisters(view[i].id, a)})

(***************************************************************************)
(* The host with the highest score; of equal scores, the lowest id.        *)
(***************************************************************************)

RendezvousModulo(a, view) ==
    LET lowest == CHOOSE h \in Ids(view) : \A g \in Ids(view) : Rank[h] <= Rank[g]
        nth(n) == CHOOSE h \in Ids(view) : Cardinality({g \in Ids(view) : Rank[g] < Rank[h]}) = n
    IN  nth(Score[a][lowest] % Cardinality(Ids(view)))

Rendezvous(a, view) ==
    CHOOSE h \in Ids(view) : \A g \in Ids(view) \ {h} :
        \/ Score[a][h] > Score[a][g]
        \/ Score[a][h] = Score[a][g] /\ Rank[h] < Rank[g]

(* What each policy may answer, given the view it is handed. *)
PeerChoices(a, view, self) ==
    LET active == ActiveIn(view)
    IN  IF active = <<>> THEN {self} ELSE
        CASE policy = "random" -> Ids(active)
          [] policy = "consistent-hash" -> {Rendezvous(a, active)}
          [] policy = "prefer-local" -> IF self \in Ids(active) THEN {self} ELSE {Rendezvous(a, active)}

(* Nothing active anywhere: the full view.  Otherwise the eligible members of it, if any is active. *)
PlacedOn(a, self) ==
    LET view == seenBy[self]
        eligible == EligibleFor(view, a)
    IN  IF ActiveIn(view) = <<>> THEN PeerChoices(a, view, self)
        ELSE IF ActiveIn(eligible) = <<>> THEN {}
        ELSE PeerChoices(a, eligible, self)

----------------------------------------------------------------------------
(* The call context over the wire *)

LocalClock(h) == peerNow + Skew[h]
AtLeastZero(n) == IF n < 0 THEN 0 ELSE n

EncodeAbsolute(c) == c.due

(* remainingMs, and the deadline the receiver makes of it on its own clock. *)
EncodeDeadline(c) == AtLeastZero(c.due - LocalClock(c.from))
DecodeDeadline(left, h) == LocalClock(h) + AtLeastZero(left)

(* The chain arrives as it was sent. *)
ChainReceived(c) == c.chain

(* The first configured transport the target advertises; none reaches a host without either. *)
TransportFor(h) == CASE "tcp" \in Wires[h] -> "tcp" [] "http" \in Wires[h] -> "http" [] OTHER -> "none"

SignatureIsFresh(c) ==
    LET d == LocalClock(c.at) - c.sentAt IN d <= AuthWindow /\ -d <= AuthWindow

----------------------------------------------------------------------------
Top == stack[Len(stack)]
PutTop(c) == stack' = [stack EXCEPT ![Len(stack)] = c]
Below == SubSeq(stack, 1, Len(stack) - 1)

NewCall(h, a, chain, due, lag) ==
    [actor |-> a, from |-> h, at |-> NoHost, chain |-> chain, due |-> due, lag |-> lag, dueAt |-> 0,
     left |-> 0, sentAt |-> 0, sentTrue |-> 0, attempt |-> 0, phase |-> "route", targeted |-> FALSE]

(* A call ends: its caller's turn, if there is one, carries on. *)
Answer(kind, own) ==
    /\ stack' = Below
    /\ answered' = [kind |-> kind, own |-> own]
    /\ UNCHANGED <<routes, seenBy>>

(* Another attempt is left. *)
MayRetry(c) == c.attempt < PeerRetries

(***************************************************************************)
(* #noteFailure and the retry loop around it.  A refusal that moves the    *)
(* call elsewhere costs an attempt; wrong-host learns the owner it names,  *)
(* the others read the view afresh.                                        *)
(***************************************************************************)
Rerouted(c, learnt, refresh) ==
    /\ routes' = [routes EXCEPT ![c.from][c.actor] = IF learnt = c.from THEN NoHost ELSE learnt]
    /\ \/ refresh /\ \E l \in Listings : seenBy' = [seenBy EXCEPT ![c.from] = l]
       \/ ~refresh /\ UNCHANGED seenBy
    /\ \/ /\ MayRetry(c)
          /\ PutTop([NewCall(c.from, c.actor, c.chain, c.due, c.lag) EXCEPT !.attempt = c.attempt + 1])
          /\ UNCHANGED answered
       \/ /\ ~MayRetry(c)
          /\ stack' = Below
          /\ answered' = [kind |-> "unconverged", own |-> TRUE]

PeerFailed(c, kind, owner) ==
    \/ c.targeted /\ Answer(kind, c.at = c.from)
    \/ ~c.targeted /\ kind = "wrong-host" /\ Rerouted(c, owner, FALSE)
    \/ ~c.targeted /\ kind \in {"unreachable", "host-shutdown"} /\ Rerouted(c, NoHost, TRUE)
    \/ ~c.targeted /\ kind \in {"deadlock", "forbidden", "unknown"} /\ Answer(kind, c.at = c.from)

----------------------------------------------------------------------------
(* Starting a call *)

(* A call reaches host h from outside the cluster. *)
PlaceCall(h, a) ==
    /\ made = 0 /\ standing[h] = "active"
    /\ stack' = <<NewCall(h, a, <<>>, LocalClock(h) + Budget, 0)>>
    /\ made' = made + 1
    /\ UNCHANGED <<policy, standing, seenBy, routes, home, answered, peerNow, churn>>

(* The running turn calls on, with its chain and what is left of its deadline. *)
StartNested(a) ==
    /\ stack # <<>> /\ Top.phase = "running" /\ made < MaxPeerCalls
    /\ stack' = Append(stack, NewCall(Top.at, a, Append(Top.chain, Top.actor), Top.dueAt, Top.lag))
    /\ UNCHANGED <<policy, standing, seenBy, routes, home, answered, peerNow, churn>>
    /\ made' = made + 1

(***************************************************************************)
(* dispatchOn(), workerOn(): a stateless worker on a host of the caller's  *)
(* choice.  The guard against a stateful type sees only what the caller's  *)
(* own registry knows.  No retries.                                        *)
(***************************************************************************)
StartTargeted(h, g, a) ==
    /\ made = 0 /\ standing[h] = "active"
    /\ made' = made + 1
    /\ LET known == g = h \/ g \in Ids(seenBy[h])
           refusal == IF ~known THEN "unreachable" ELSE "misuse"
       IN  \/ /\ ~known \/ a \in TypeAt[h] \ StatelessRefs
              /\ answered' = [kind |-> refusal, own |-> TRUE]
              /\ UNCHANGED stack
           \/ /\ known /\ a \notin TypeAt[h] \ StatelessRefs
              /\ stack' = <<[NewCall(h, a, <<>>, LocalClock(h) + Budget, 0) EXCEPT
                                !.phase = "placed", !.at = g, !.targeted = TRUE]>>
              /\ UNCHANGED answered
    /\ UNCHANGED <<policy, standing, seenBy, routes, home, peerNow, churn>>

----------------------------------------------------------------------------
(* #resolveTarget *)

Placed(c, g) == PutTop([c EXCEPT !.phase = "placed", !.at = g])

(* Activated here, or a stateless worker this host registers: no routing at all. *)
StaysHere(c) == home[c.actor] = c.from \/ c.actor \in TypeAt[c.from] \cap StatelessRefs

Usable(h, g, a) == g = h \/ (g \in Ids(seenBy[h]) /\ HostRegisters(g, a))
UsableCached(c) == routes[c.from][c.actor] # NoHost /\ Usable(c.from, routes[c.from][c.actor], c.actor)

(* The directory names a member that can serve it. *)
Owned(c) == home[c.actor] # NoHost /\ Usable(c.from, home[c.actor], c.actor)

(* An entry of a member that cannot serve the type, or of a dead host, is evicted. *)
EvictedEntry(c) ==
    LET owner == home[c.actor]
    IN  IF owner \in Ids(seenBy[c.from]) \cup {g \in PeerHosts : standing[g] = "gone"}
        THEN [home EXCEPT ![c.actor] = NoHost] ELSE home

ResolveHere ==
    /\ stack # <<>> /\ Top.phase = "route" /\ StaysHere(Top)
    /\ Placed(Top, Top.from)
    /\ UNCHANGED <<policy, standing, seenBy, routes, home, answered, peerNow, made, churn>>

ResolveCached ==
    /\ stack # <<>> /\ Top.phase = "route" /\ ~StaysHere(Top) /\ UsableCached(Top)
    /\ Placed(Top, routes[Top.from][Top.actor])
    /\ UNCHANGED <<policy, standing, seenBy, routes, home, answered, peerNow, made, churn>>

ResolveOwner ==
    /\ stack # <<>> /\ Top.phase = "route" /\ ~StaysHere(Top) /\ ~UsableCached(Top) /\ Owned(Top)
    /\ Placed(Top, home[Top.actor])
    /\ routes' = [routes EXCEPT ![Top.from][Top.actor] = home[Top.actor]]
    /\ UNCHANGED <<policy, standing, seenBy, home, answered, peerNow, made, churn>>

(* The policy chooses, and the choice is cached so that racing calls agree. *)
ResolveByPolicy ==
    /\ stack # <<>> /\ Top.phase = "route" /\ ~StaysHere(Top) /\ ~UsableCached(Top) /\ ~Owned(Top)
    /\ home' = EvictedEntry(Top)
    /\ \E g \in PlacedOn(Top.actor, Top.from) :
        /\ Placed(Top, g)
        /\ routes' = [routes EXCEPT ![Top.from][Top.actor] = g]
    /\ UNCHANGED <<policy, standing, seenBy, answered, peerNow, made, churn>>

(* Nobody active registers the type: read the view and try again, the one pod may be joining. *)
Unplaceable ==
    /\ stack # <<>> /\ Top.phase = "route" /\ ~StaysHere(Top) /\ ~UsableCached(Top) /\ ~Owned(Top)
    /\ PlacedOn(Top.actor, Top.from) = {}
    /\ home' = EvictedEntry(Top)
    /\ Rerouted(Top, NoHost, TRUE)
    /\ UNCHANGED <<policy, standing, peerNow, made, churn>>

----------------------------------------------------------------------------
(* The hop *)

(* #transportDispatcher, encodeEnvelope, signAuth; no transport reaches the host: unreachable. *)
Send ==
    /\ stack # <<>> /\ Top.phase = "placed" /\ Top.at # Top.from
    /\ \/ /\ TransportFor(Top.at) = "none"
          /\ PeerFailed(Top, "unreachable", NoHost)
       \/ /\ TransportFor(Top.at) # "none"
          /\ PutTop([Top EXCEPT !.phase = "sent", !.left = EncodeDeadline(Top),
                                !.sentAt = LocalClock(Top.from), !.sentTrue = peerNow])
          /\ UNCHANGED <<routes, seenBy, answered>>
    /\ UNCHANGED <<policy, standing, home, peerNow, made, churn>>

(***************************************************************************)
(* The endpoint resolves every well-formed symbol, of a type the host does *)
(* not register too (resolveClusterSymbol), so that the placement's        *)
(* inbound guard gives the refusal, one that makes the caller place the    *)
(* call again; an unresolved symbol is a 404. The symbols of peers are all     *)
(* well-formed here: a malformed one, or the watch of a stream method, is *)
(* the only other way to a 404 and depends on nothing but the symbol.     *)
(***************************************************************************)
Resolves(c, h) == c.actor \in PeerActors

InboundRefusal(c, h) == IF c.actor \notin TypeAt[h] THEN "wrong-host" ELSE "serve"

Verdict(c, h) ==
    IF ~SignatureIsFresh(c) THEN "forbidden"
    ELSE IF ~Resolves(c, h) THEN "unknown"
    ELSE InboundRefusal(c, h)

InTurn(a) == \E i \in 1..(Len(stack) - 1) : stack[i].actor = a /\ stack[i].phase = "running"
Claimable(a, h) == home[a] \in {h, NoHost} \cup {g \in PeerHosts : standing[g] = "gone"}

(***************************************************************************)
(* #local.dispatch: the registry, the activation's claim, and the turn     *)
(* lane, which turns away a call whose chain already holds the actor and   *)
(* queues every other one behind the turn that runs.                       *)
(***************************************************************************)
RunAt(c, h) ==
    LET a == c.actor
        stateless == a \in StatelessRefs
        queued == ~stateless /\ InTurn(a)
        cyclic == queued /\ \E i \in DOMAIN c.chain : c.chain[i] = a
    IN  \/ a \notin TypeAt[h] /\ PeerFailed(c, "unknown", NoHost) /\ UNCHANGED home
        \/ /\ a \in TypeAt[h] /\ ~stateless /\ ~Claimable(a, h)
           /\ PeerFailed(c, "wrong-host", home[a]) /\ UNCHANGED home
        \/ /\ a \in TypeAt[h] /\ (stateless \/ Claimable(a, h)) /\ cyclic
           /\ PeerFailed(c, "deadlock", NoHost) /\ UNCHANGED home
        \/ /\ a \in TypeAt[h] /\ (stateless \/ Claimable(a, h)) /\ ~cyclic
           /\ PutTop([c EXCEPT !.phase = IF queued THEN "queued" ELSE "running"])
           /\ home' = IF stateless THEN home ELSE [home EXCEPT ![a] = h]
           /\ UNCHANGED <<routes, seenBy, answered>>

DispatchLocally ==
    /\ stack # <<>> /\ Top.phase = "placed" /\ Top.at = Top.from
    /\ RunAt([Top EXCEPT !.dueAt = Top.due], Top.from)
    /\ UNCHANGED <<policy, standing, peerNow, made, churn>>

(* The call context the envelope yields at the receiver. *)
Opened(c) ==
    [c EXCEPT !.dueAt = DecodeDeadline(c.left, c.at), !.chain = ChainReceived(c),
              !.lag = c.lag + peerNow - c.sentTrue, !.left = 0, !.sentAt = 0, !.sentTrue = 0]

(* handleHostRequest: the signature's age, the symbol, the inbound guard, then the local dispatcher. *)
Receive ==
    /\ stack # <<>> /\ Top.phase = "sent" /\ standing[Top.at] \in {"active", "draining"}
    /\ \/ Verdict(Top, Top.at) # "serve" /\ PeerFailed(Top, Verdict(Top, Top.at), NoHost) /\ UNCHANGED home
       \/ Verdict(Top, Top.at) = "serve" /\ RunAt(Opened(Top), Top.at)
       \/ /\ Verdict(Top, Top.at) = "serve" /\ standing[Top.at] = "draining"
          /\ PeerFailed(Top, "host-shutdown", NoHost) /\ UNCHANGED home
    /\ UNCHANGED <<policy, standing, peerNow, made, churn>>

(* Nobody listens there any more. *)
Undeliverable ==
    /\ stack # <<>> /\ Top.phase = "sent" /\ standing[Top.at] = "gone"
    /\ PeerFailed(Top, "unreachable", NoHost)
    /\ UNCHANGED <<policy, standing, home, peerNow, made, churn>>

(* The turn returns to its caller. *)
Finish ==
    /\ stack # <<>> /\ Top.phase = "running"
    /\ Answer("ok", Top.at = Top.from)
    /\ UNCHANGED <<policy, standing, home, peerNow, made, churn>>

----------------------------------------------------------------------------
(* The cluster around it *)

Uses(h) == \E i \in DOMAIN stack : stack[i].from = h \/ (stack[i].at = h /\ stack[i].phase = "running")

(* A host begins with a view of itself. *)
HostJoins(h) ==
    /\ standing[h] = "absent" /\ churn < MaxChurn
    /\ standing' = [standing EXCEPT ![h] = "active"]
    /\ seenBy' = [seenBy EXCEPT ![h] = <<[id |-> h, status |-> "active"]>>]
    /\ UNCHANGED <<policy, routes, home, stack, answered, peerNow, made>>
    /\ churn' = churn + 1

HostDrains(h) ==
    /\ standing[h] = "active" /\ churn < MaxChurn
    /\ standing' = [standing EXCEPT ![h] = "draining"]
    /\ UNCHANGED <<policy, seenBy, routes, home, stack, answered, peerNow, made>>
    /\ churn' = churn + 1

(* A drained host has released its actors; a crashed one leaves its entries behind. *)
HostLeaves(h) ==
    /\ standing[h] \in {"active", "draining"} /\ ~Uses(h) /\ churn < MaxChurn
    /\ standing' = [standing EXCEPT ![h] = "gone"]
    /\ home' = IF standing[h] = "active" THEN home
               ELSE [a \in PeerActors |-> IF home[a] = h THEN NoHost ELSE home[a]]
    /\ UNCHANGED <<policy, seenBy, routes, stack, answered, peerNow, made>>
    /\ churn' = churn + 1

(* A membership push; routes to the departed are pruned with it. *)
ReadView(h) ==
    /\ churn < MaxChurn /\ standing[h] \in {"active", "draining"}
    /\ \E l \in Listings :
        /\ seenBy' = [seenBy EXCEPT ![h] = l]
        /\ routes' = [routes EXCEPT ![h] =
                        [a \in PeerActors |-> IF @[a] \in Ids(l) \cup {h} THEN @[a] ELSE NoHost]]
    /\ churn' = churn + 1
    /\ UNCHANGED <<policy, standing, home, stack, answered, peerNow, made>>

(* Time passes while a call is on the wire or a turn runs. *)
PeerTick ==
    /\ peerNow < MaxPeerNow /\ stack # <<>> /\ Top.phase \in {"sent", "running"}
    /\ peerNow' = peerNow + 1
    /\ UNCHANGED <<policy, standing, seenBy, routes, home, stack, answered, made, churn>>

PeerInit ==
    /\ policy \in Policies
    /\ \E up \in SUBSET PeerHosts :
        /\ up # {}
        /\ standing = [h \in PeerHosts |-> IF h \in up THEN "active" ELSE "absent"]
    /\ \E l \in Listings : seenBy = [h \in PeerHosts |-> IF standing[h] = "active" THEN l ELSE <<>>]
    /\ routes = [h \in PeerHosts |-> [a \in PeerActors |-> NoHost]]
    /\ home = [a \in PeerActors |-> NoHost]
    /\ stack = <<>>
    /\ answered = [kind |-> "ok", own |-> TRUE]
    /\ peerNow = 0 /\ made = 0 /\ churn = 0

PeerNext ==
    \/ \E h \in PeerHosts : HostJoins(h) \/ HostDrains(h) \/ HostLeaves(h) \/ ReadView(h)
    \/ \E h \in PeerHosts, a \in PeerActors : PlaceCall(h, a)
    \/ \E h, g \in PeerHosts, a \in PeerActors : StartTargeted(h, g, a)
    \/ \E a \in PeerActors : StartNested(a)
    \/ ResolveHere \/ ResolveCached \/ ResolveOwner \/ ResolveByPolicy \/ Unplaceable
    \/ Send \/ DispatchLocally \/ Receive \/ Undeliverable \/ Finish \/ PeerTick

PeerSpec == PeerInit /\ [][PeerNext]_peerVars

----------------------------------------------------------------------------
(* The types of the state, and where each phase of a call has a host. *)
PeerTypeOK ==
    /\ policy \in Policies
    /\ standing \in [PeerHosts -> {"absent", "active", "draining", "gone"}]
    /\ \A h \in PeerHosts : Ids(seenBy[h]) \subseteq PeerHosts /\ Cardinality(Ids(seenBy[h])) = Len(seenBy[h])
    /\ routes \in [PeerHosts -> [PeerActors -> PeerHosts \cup {NoHost}]]
    /\ home \in [PeerActors -> PeerHosts \cup {NoHost}]
    /\ \A i \in DOMAIN stack :
        /\ stack[i].actor \in PeerActors /\ stack[i].from \in PeerHosts /\ stack[i].attempt \in 0..PeerRetries
        /\ (stack[i].at = NoHost) = (stack[i].phase = "route")
        /\ i < Len(stack) => stack[i].phase = "running"
    /\ answered.kind \in Kinds

(***************************************************************************)
(* In a cluster whose hosts register different types, a caller is told     *)
(* that a type is unknown only by its own host: a host a call was sent to  *)
(* in error always refuses it in a way that makes the caller place it      *)
(* again, never with the answer a caller can only fail on                  *)
(* (host-endpoint.ts:146-164, placement.ts:1218-1227).                     *)
(***************************************************************************)
UnknownIsLocal == answered.kind = "unknown" => answered.own

(***************************************************************************)
(* Hosts that see the same members place a new key on the same host, in    *)
(* whatever order their providers list them (placement.ts:597-600).        *)
(***************************************************************************)
HashersAgree ==
    \A g, h \in PeerHosts : seenBy[g] # seenBy[h] =>
        LET v == ActiveIn(seenBy[g])  w == ActiveIn(seenBy[h])
        IN  Ids(v) = Ids(w) /\ v # <<>> => \A a \in PeerActors : Rendezvous(a, v) = Rendezvous(a, w)

(***************************************************************************)
(* A membership change re-homes only the keys of the host that left        *)
(* (placement.ts:600-602): a host's next view moves no key between two     *)
(* hosts that are in both.                                                 *)
(***************************************************************************)
OnlyDepartedRehomed ==
    [][\A h \in PeerHosts : seenBy[h]' # seenBy[h] =>
        LET v == ActiveIn(seenBy[h])  w == ActiveIn(seenBy[h]')
        IN  v # <<>> /\ w # <<>> => \A a \in PeerActors :
                {Rendezvous(a, v), Rendezvous(a, w)} \subseteq Ids(v) \cap Ids(w)
                    => Rendezvous(a, v) = Rendezvous(a, w)]_peerVars

(***************************************************************************)
(* Every host on a call's way agrees with the root on whether its time is  *)
(* up, whatever their clocks say: none gives up before the root's deadline,*)
(* and none goes on past it by more than the time spent on the wire        *)
(* (envelope.ts:66-73, 170-172).                                           *)
(***************************************************************************)
ExpiryAgrees ==
    \A i \in DOMAIN stack : stack[i].phase = "running" =>
        LET due == stack[1].due - Skew[stack[1].from]
            past == LocalClock(stack[i].at) >= stack[i].dueAt
        IN  /\ peerNow < due => ~past
            /\ peerNow > due + stack[i].lag => past

(***************************************************************************)
(* No call waits for a turn of its own chain: the chain crosses every hop, *)
(* so a cycle through other hosts is answered, not queued behind itself.   *)
(***************************************************************************)
CycleIsAnswered == \A i \in DOMAIN stack : stack[i].phase # "queued"

====
