------------------------------ MODULE Topics ------------------------------
(***************************************************************************)
(* Topics: a publish is one dispatch per subscribing type.  The index of   *)
(* subscribers is derived from the host's registry, loading its lazy       *)
(* definitions, memoised once built and never when the build failed        *)
(* (host.ts).  The fan-out (host/topics.ts) waits for every handler's turn *)
(* ("settled") or only for its acceptance ("accepted") and answers with a  *)
(* report.  A handler is an ordinary turn and may publish on, under the    *)
(* call chain of the publish that started it.                              *)
(*                                                                         *)
(* Abstracted: one actor per subscribing type, non-reentrant, so a type    *)
(* stands for its turn lane; payloads, keys and deadlines are left out.    *)
(***************************************************************************)
EXTENDS Naturals, Sequences, FiniteSets

CONSTANTS
    TopicNames, SubTypes,
    Subscribes,         \* [TopicNames -> SUBSET SubTypes], what the deploy declares
    LazyTypes,          \* types registered with a loader
    RebuildsIndex,      \* __DEV__: the index is rebuilt for every publish
    MaxPublishes, MaxTopicFaults    \* bounds of the instance

ASSUME TopicsAssumption ==
    /\ Subscribes \in [TopicNames -> SUBSET SubTypes]
    /\ LazyTypes \subseteq SubTypes /\ RebuildsIndex \in BOOLEAN

VARIABLES
    loaded,     \* lazy types whose definition was loaded
    indexed,    \* #topicIndex: 0, or the build it holds
    builds,     \* per build: the types it waits for, and how it ended
    pubs,       \* per publish: its place in the fan-out and its report so far
    queues,     \* per type: the turns of its lane, the first one running
    topicFaults

topicVars == <<loaded, indexed, builds, pubs, queues, topicFaults>>

PubIds == 1 .. MaxPublishes
NoPub == [st |-> "unmade", topic |-> "-", mode |-> "-", chain |-> {}, by |-> "-", build |-> 0,
          ok |-> 0, bad |-> 0, open |-> 0, fault |-> FALSE]
NoBuild == [st |-> "unborn", left |-> {}]

Unpublished == {p \in PubIds : pubs[p].st = "unmade"}
NextPub(p) == p \in Unpublished /\ \A q \in Unpublished : p <= q
Resolved(t) == t \notin LazyTypes \/ t \in loaded

----------------------------------------------------------------------------
(* The fan-out *)

(* The deliveries of publish p, of topic n, and the lanes they join: a type already in the *)
(* call chain is a detected deadlock, unless nobody awaits the turn. *)
Cycles(p, n) == IF pubs[p].mode = "settled" THEN Subscribes[n] \cap pubs[p].chain ELSE {}

FanOutOf(p, lost) ==
    LET to == Subscribes[pubs[p].topic] \ (Cycles(p, pubs[p].topic) \cup lost)
        refused == Cardinality(Subscribes[pubs[p].topic] \ to)
    IN  [pubs[p] EXCEPT !.st = "sending", !.bad = refused, !.build = 0,
            !.ok = IF pubs[p].mode = "accepted" THEN Cardinality(to) ELSE 0,
            !.open = IF pubs[p].mode = "accepted" THEN 0 ELSE Cardinality(to)]

JoinLanes(p, lost) ==
    [t \in SubTypes |-> IF t \in Subscribes[pubs[p].topic] \ (Cycles(p, pubs[p].topic) \cup lost)
                        THEN Append(queues[t], p) ELSE queues[t]]

(* A subscriber whose host is gone or whose activation fails is one failure of its own. *)
FanOut(p) ==
    /\ pubs[p].st = "indexing" /\ builds[pubs[p].build].st = "built"
    /\ \E lost \in SUBSET Subscribes[pubs[p].topic] :
        /\ Cardinality(lost) <= MaxTopicFaults - topicFaults
        /\ pubs' = [pubs EXCEPT ![p] = FanOutOf(p, lost)]
        /\ queues' = JoinLanes(p, lost)
        /\ topicFaults' = topicFaults + Cardinality(lost)
    /\ UNCHANGED <<loaded, indexed, builds>>

(* Promise.all over the deliveries: the report. *)
Resolves(p) == pubs[p].open = 0

TopicReport(p) ==
    /\ pubs[p].st = "sending" /\ Resolves(p)
    /\ pubs' = [pubs EXCEPT ![p].st = "done"]
    /\ UNCHANGED <<loaded, indexed, builds, queues, topicFaults>>

----------------------------------------------------------------------------
(* The index *)

FreshBuild == CHOOSE b \in PubIds : builds[b].st = "unborn" /\ \A c \in 1 .. (b - 1) : builds[c].st # "unborn"

(* #subscriberIndex: the memo, or a build of its own. *)
Publishes(p, n, mode, by, chain) ==
    /\ NextPub(p)
    /\ \/ /\ indexed # 0 /\ ~RebuildsIndex
          /\ pubs' = [pubs EXCEPT ![p] = [NoPub EXCEPT !.st = "indexing", !.topic = n, !.mode = mode,
                                            !.chain = chain, !.by = by, !.build = indexed]]
          /\ UNCHANGED <<indexed, builds>>
       \/ /\ indexed = 0 \/ RebuildsIndex
          /\ builds' = [builds EXCEPT ![FreshBuild] =
                [st |-> "building", left |-> {t \in SubTypes : ~Resolved(t)}]]
          /\ indexed' = IF RebuildsIndex THEN 0 ELSE FreshBuild
          /\ pubs' = [pubs EXCEPT ![p] = [NoPub EXCEPT !.st = "indexing", !.topic = n, !.mode = mode,
                                            !.chain = chain, !.by = by, !.build = FreshBuild]]
    /\ UNCHANGED <<loaded, queues, topicFaults>>

PublishOutside(p, n, mode) == Publishes(p, n, mode, "-", {})

(* ctx.publish(): the running turn's chain, and its own actor added to it. *)
AwaitsPublish(t) == \E q \in PubIds : pubs[q].by = t /\ pubs[q].mode = "settled"
                                      /\ pubs[q].st \in {"indexing", "sending"}
PublishInTurn(p, n, mode, t) ==
    /\ queues[t] # <<>> /\ ~AwaitsPublish(t)
    /\ Publishes(p, n, mode, t, pubs[Head(queues[t])].chain \cup {t})

(* definition(): a loader that succeeds is remembered for its type. *)
Load(b, t) ==
    /\ builds[b].st = "building" /\ t \in builds[b].left
    /\ builds' = [builds EXCEPT ![b].left = @ \ {t}]
    /\ loaded' = loaded \cup {t}
    /\ UNCHANGED <<indexed, pubs, queues, topicFaults>>

Built(b) ==
    /\ builds[b].st = "building" /\ builds[b].left = {}
    /\ builds' = [builds EXCEPT ![b].st = "built"]
    /\ UNCHANGED <<loaded, indexed, pubs, queues, topicFaults>>

(* One loader that fails rejects the build; the memo is dropped if it is still this one. *)
IndexAfterFailure(b) == IF indexed = b THEN 0 ELSE indexed

LoadFails(b, t) ==
    /\ builds[b].st = "building" /\ t \in builds[b].left /\ topicFaults < MaxTopicFaults
    /\ builds' = [builds EXCEPT ![b] = [st |-> "failed", left |-> {}]]
    /\ indexed' = IndexAfterFailure(b)
    /\ pubs' = [p \in PubIds |-> IF pubs[p].build = b /\ pubs[p].st = "indexing"
                                 THEN [pubs[p] EXCEPT !.fault = TRUE] ELSE pubs[p]]
    /\ topicFaults' = topicFaults + 1
    /\ UNCHANGED <<loaded, queues>>

(* The publish fails with the loader's own error. *)
Rejected(p) ==
    /\ pubs[p].st = "indexing" /\ builds[pubs[p].build].st = "failed"
    /\ pubs' = [pubs EXCEPT ![p].st = "rejected", ![p].build = 0]
    /\ UNCHANGED <<loaded, indexed, builds, queues, topicFaults>>

----------------------------------------------------------------------------
(* A handler's turn ends; a settled publish counts it, an accepted one has counted it already. *)
Counts(p, ok) == IF p.mode = "accepted" THEN p
                 ELSE [p EXCEPT !.ok = @ + ok, !.bad = @ + 1 - ok, !.open = @ - 1]

EndHandler(t, ok) ==
    /\ queues[t] # <<>> /\ ~AwaitsPublish(t)
    /\ ok = 0 => topicFaults < MaxTopicFaults
    /\ pubs' = [pubs EXCEPT ![Head(queues[t])] = Counts(@, ok)]
    /\ queues' = [queues EXCEPT ![t] = Tail(@)]
    /\ topicFaults' = topicFaults + 1 - ok
    /\ UNCHANGED <<loaded, indexed, builds>>

TopicsInit ==
    /\ loaded = {} /\ indexed = 0 /\ topicFaults = 0
    /\ builds = [b \in PubIds |-> NoBuild]
    /\ pubs = [p \in PubIds |-> NoPub]
    /\ queues = [t \in SubTypes |-> <<>>]

TopicsProgress ==
    \/ \E b \in PubIds : Built(b) \/ \E t \in SubTypes : Load(b, t)
    \/ \E p \in PubIds : FanOut(p) \/ TopicReport(p) \/ Rejected(p)
    \/ \E t \in SubTypes : EndHandler(t, 1)

TopicsEnvironment ==
    \/ \E p \in PubIds, n \in TopicNames, mode \in {"settled", "accepted"} :
        PublishOutside(p, n, mode) \/ \E t \in SubTypes : PublishInTurn(p, n, mode, t)
    \/ \E b \in PubIds, t \in SubTypes : LoadFails(b, t)
    \/ \E t \in SubTypes : EndHandler(t, 0)

TopicsNext == TopicsProgress \/ TopicsEnvironment
TopicsSpec == TopicsInit /\ [][TopicsNext]_topicVars

----------------------------------------------------------------------------
(* The types of the state; a publish waits for a build only while it has no index. *)
TopicsTypeOK ==
    /\ loaded \subseteq LazyTypes /\ indexed \in 0 .. MaxPublishes
    /\ \A b \in PubIds : builds[b].st \in {"unborn", "building", "built", "failed"}
    /\ \A p \in PubIds :
        /\ pubs[p].st \in {"unmade", "indexing", "sending", "done", "rejected"}
        /\ (pubs[p].build # 0) = (pubs[p].st = "indexing")
        /\ pubs[p].open \in 0 .. Cardinality(SubTypes)
    /\ \A t \in SubTypes : \A i \in DOMAIN queues[t] : queues[t][i] \in PubIds

(***************************************************************************)
(* A report accounts for every subscriber the deploy declares, each once:  *)
(* none is missing because its definition was lazy, failed or refused its  *)
(* turn, and one subscriber's failure costs no other its delivery          *)
(* (host/topics.ts:101-107).                                               *)
(***************************************************************************)
ReportIsWhole ==
    \A p \in PubIds : pubs[p].st = "done" =>
        pubs[p].ok + pubs[p].bad = Cardinality(Subscribes[pubs[p].topic])

(***************************************************************************)
(* A publish is rejected only for a loader that failed while it waited: a  *)
(* failed build is never remembered, so the next publish loads again       *)
(* (host.ts:701-707).                                                      *)
(***************************************************************************)
RejectedForItsOwnBuild == \A p \in PubIds : pubs[p].st = "rejected" => pubs[p].fault

(***************************************************************************)
(* A settled publish never waits for a turn it is part of: when nothing    *)
(* moves and a publish still waits, two turns, neither of them started by  *)
(* the other, wait for one another (activation.ts:3106-3110).  Such a pair *)
(* can come of one publish, whose subscribers publish to each other; only  *)
(* the call deadline ends it.                                              *)
(***************************************************************************)
HangsOnlyAcrossChains ==
    LET waiting == {p \in PubIds : pubs[p].st \in {"indexing", "sending"}}
        ChainOf(t) == pubs[Head(queues[t])].chain
    IN  waiting # {} /\ ~ENABLED TopicsProgress =>
            \E t, u \in {x \in SubTypes : queues[x] # <<>> /\ AwaitsPublish(x)} :
                t # u /\ t \notin ChainOf(u) /\ u \notin ChainOf(t)

(* "A subscription that cycles back into this actor is a detected deadlock in the report, not a hang". *)
NoPublishHangs ==
    ENABLED TopicsProgress \/ \A p \in PubIds : pubs[p].st \notin {"indexing", "sending"}

====
