----------------------------- MODULE Membership -----------------------------
(***************************************************************************)
(* One host's membership over a store that forgets it: the heartbeat and   *)
(* the self-suspicion clock (cluster/heartbeat-clock.ts), join and leave   *)
(* of the TTL providers (redis, postgres, surreal) and of the Kubernetes   *)
(* lease, and what placement.ts does with a suspicion: fence a host that   *)
(* holds claims, rejoin one that cannot.                                   *)
(*                                                                         *)
(* Peers are one action: they evict the host's claims whenever the store   *)
(* says it is not alive.  Time is a counter of coarse ticks; the host's    *)
(* two clocks lag it by what a suspend or an NTP step took from them.      *)
(***************************************************************************)
EXTENDS Integers, FiniteSets

CONSTANTS
  TTL,            \* life of a record, in ticks
  LeaseSkew,      \* clockSkewMs of the lease provider
  Slots,          \* heartbeat writes that may be on the wire together
  MaxNow,         \* bound on time
  MaxMemFaults    \* bound on failed writes, suspends, clock steps, deletions

ASSUME MembershipAssumption ==
  /\ TTL \in Nat \ {0} /\ LeaseSkew \in Nat /\ IsFiniteSet(Slots)
  /\ MaxNow \in Nat /\ MaxMemFaults \in Nat

VARIABLES
  now,         \* the store's clock
  lag,         \* how far the host's monotonic and wall clocks are behind it
  rec,         \* when the host's record expires, or NoRecord
  writes,      \* slot -> a heartbeat write on the wire
  hb,          \* the heartbeatClock, and the true time its window opened
  member,      \* the provider and the placement of the host
  leaves,      \* the leave() calls of the placement's stop and of its fence
  evicted,     \* when peers last evicted its claims, and the window then open
  memCount     \* faults so far

memVars == <<now, lag, rec, writes, hb, member, leaves, evicted, memCount>>

NoRecord == -1
NoWrite  == [st |-> "free", wall |-> 0, join |-> FALSE]
NoLeave  == [st |-> "none", waits |-> {}]
NotEvicted == [at |-> 0, open |-> 0]

Mono == now - lag.mono
Wall == now - lag.wall
MemFault == memCount < MaxMemFaults /\ memCount' = memCount + 1
Lease == member.provider = "lease"
\* isAlive, and membership of a refreshed view.
RecordLive == rec # NoRecord /\ now <= rec

(***************************************************************************)
(* The clock: open, lapsed, fire.                                          *)
(***************************************************************************)
ClockOpened == [armed |-> TRUE, mono |-> Mono, wall |-> Wall, suspected |-> FALSE, at |-> now]
Lapsed(h) == h.armed /\ (Mono - h.mono > TTL \/ Wall - h.wall > TTL)
Suspects(h) == ~h.suspected /\ Lapsed(h)
\* #fence's early returns; stop() has unsubscribed.
AskFence(p) == IF p.stopping \/ p.fenced \/ p.fence = "asked" \/ p.rejoin # "none" THEN p
               ELSE [p EXCEPT !.fence = "asked"]
Fired(h)    == [h EXCEPT !.suspected = TRUE]
Suspected(p, h) == IF Suspects(h) THEN AskFence(p) ELSE p
Judged(h)       == IF Suspects(h) THEN Fired(h) ELSE h

(***************************************************************************)
(* Heartbeat writes: sent, landed in the store, acknowledged.              *)
(***************************************************************************)
FreeSlot(i) == writes[i].st = "free"
SendIn(i, join) == [writes EXCEPT ![i] = [st |-> "sent", wall |-> Wall, join |-> join]]
Freed(i) == writes' = [writes EXCEPT ![i] = NoWrite]
NotWaited(i) == leaves' = [t \in DOMAIN leaves |-> [leaves[t] EXCEPT !.waits = @ \ {i}]]

Beat(i) ==
  /\ member.intervals > 0 /\ FreeSlot(i)
  /\ hb' = Judged(hb)
  /\ member' = Suspected(member, hb)
  /\ writes' = IF member.self /\ ~member.left THEN SendIn(i, FALSE) ELSE writes
  /\ UNCHANGED <<now, lag, rec, leaves, evicted, memCount>>

\* The write reaches the store.  A TTL record is upserted; a lease is created
\* by join and otherwise only renewed while it exists.
Land(i) ==
  /\ writes[i].st = "sent"
  /\ \/ /\ ~Lease
        /\ rec' = now + TTL
        /\ writes' = [writes EXCEPT ![i].st = "landed"]
     \/ /\ Lease /\ (writes[i].join \/ rec # NoRecord)
        /\ rec' = writes[i].wall + TTL + LeaseSkew
        /\ writes' = [writes EXCEPT ![i].st = "landed"]
     \/ /\ Lease /\ ~writes[i].join /\ rec = NoRecord
        /\ writes' = [writes EXCEPT ![i].st = "gone"]
        /\ UNCHANGED rec
  /\ UNCHANGED <<now, lag, hb, member, leaves, evicted, memCount>>

\* confirmed(): did the window lapse in flight?  Then open it again.
Confirmed(p, h) == [p |-> Suspected(p, h), h |-> ClockOpened]

\* writeSelf and renew, after the await.
Ack(i) ==
  /\ \/ /\ writes[i].st = "landed"
        /\ writes[i].join => ~member.left \/ Lease
        /\ LET c == Confirmed(member, hb)
           IN IF member.left /\ ~Lease THEN UNCHANGED <<hb, member>>
              ELSE /\ hb' = c.h
                   /\ member' = [c.p EXCEPT !.joiner = IF writes[i].join THEN "arm" ELSE @]
     \/ /\ writes[i].st = "gone"
        /\ IF member.self /\ hb.armed /\ ~hb.suspected
           THEN hb' = Fired(hb) /\ member' = AskFence(member)
           ELSE UNCHANGED <<hb, member>>
  /\ Freed(i) /\ NotWaited(i)
  /\ UNCHANGED <<now, lag, rec, evicted, memCount>>

\* The join's own write comes back after leave() began: join goes on.
AckLeft(i) ==
  /\ writes[i].st = "landed" /\ writes[i].join /\ member.left /\ ~Lease
  /\ member' = [member EXCEPT !.joiner = "arm"]
  /\ Freed(i) /\ NotWaited(i)
  /\ UNCHANGED <<now, lag, rec, hb, evicted, memCount>>

\* The write fails, before or after it reached the store.
WriteFails(i) ==
  /\ writes[i].st \in {"sent", "landed"} /\ MemFault
  /\ hb' = IF writes[i].join THEN hb ELSE Judged(hb)
  /\ member' = IF writes[i].join THEN [member EXCEPT !.joiner = "failed"] ELSE Suspected(member, hb)
  /\ Freed(i) /\ NotWaited(i)
  /\ UNCHANGED <<now, lag, rec, evicted>>

(***************************************************************************)
(* join, leave.                                                            *)
(***************************************************************************)
JoinSends(i) ==
  /\ FreeSlot(i)
  /\ writes' = SendIn(i, TRUE)

\* arm() and the interval, after the rest of join.
JoinArms ==
  /\ member.joiner = "arm"
  /\ hb' = ClockOpened
  /\ member' = [member EXCEPT !.joiner = "done", !.intervals = @ + 1]
  /\ UNCHANGED <<now, lag, rec, writes, leaves, evicted, memCount>>

\* leave(): timers first, so that nothing new is sent ...
Left(p) == [p EXCEPT !.left = TRUE, !.intervals = 0]
LeaveBegins(t) == leaves' = [leaves EXCEPT ![t] = [st |-> "settle", waits |-> {}]]

\* the beats already on the wire, which the Kubernetes lease does not wait for
Awaited == IF Lease THEN {} ELSE {i \in Slots : writes[i].st # "free"}

\* ... then the record is given up ...
LeaveTakes(t) ==
  /\ leaves[t].st = "settle"
  /\ IF member.self
     THEN /\ leaves' = [leaves EXCEPT ![t] = [st |-> "drain", waits |-> Awaited]]
          /\ member' = [member EXCEPT !.self = FALSE]
     ELSE /\ leaves' = [leaves EXCEPT ![t] = [st |-> "done", waits |-> {}]]
          /\ UNCHANGED member
  /\ UNCHANGED <<now, lag, rec, writes, hb, evicted, memCount>>

\* ... and deleted, after every beat that was on the wire.
LeaveDeletes(t) ==
  /\ leaves[t].st = "drain" /\ leaves[t].waits = {}
  /\ \/ rec' = NoRecord /\ UNCHANGED memCount
     \/ MemFault /\ UNCHANGED rec
  /\ leaves' = [leaves EXCEPT ![t] = [st |-> "done", waits |-> {}]]
  /\ UNCHANGED <<now, lag, writes, hb, member, evicted>>

(***************************************************************************)
(* The placement: start, claims, fence, rejoin, stop.                      *)
(***************************************************************************)
\* start(): join under a provider, with stateful types or only workers.
StartMember(i) ==
  /\ now = 0 /\ member.joiner = "none" /\ member.rejoin = "none" /\ ~member.stopping
  /\ JoinSends(i)
  /\ \E pr \in {"ttl", "lease"}, st \in BOOLEAN :
       member' = [member EXCEPT !.provider = pr, !.stateful = st, !.self = TRUE, !.left = FALSE,
                                !.joiner = "write"]
  /\ UNCHANGED <<now, lag, rec, hb, leaves, evicted, memCount>>

Serves == member.intervals > 0 /\ ~member.fenced

\* beforeActivate: the fence is checked, then the claim is awaited.
ClaimStarts ==
  /\ Serves /\ member.stateful /\ ~member.stopping /\ ~member.claims /\ ~member.claiming
  /\ member' = [member EXCEPT !.claiming = TRUE]
  /\ UNCHANGED <<now, lag, rec, writes, hb, leaves, evicted, memCount>>

ClaimLands ==
  /\ member.claiming
  /\ member' = [member EXCEPT !.claiming = FALSE, !.claims = TRUE]
  /\ evicted' = NotEvicted
  /\ UNCHANGED <<now, lag, rec, writes, hb, leaves, memCount>>

\* A peer finds the host not alive and releases its claims.
PeerEvicts ==
  /\ ~RecordLive /\ member.claims /\ evicted = NotEvicted
  /\ evicted' = [at |-> now, open |-> hb.at]
  /\ UNCHANGED <<now, lag, rec, writes, hb, member, leaves, memCount>>

\* #checkSelfPresence: a view without self, then a fresh read.
SelfMissing ==
  /\ Serves /\ ~member.stopping /\ member.check = "no" /\ ~RecordLive
  /\ member' = [member EXCEPT !.check = "reading"]
  /\ UNCHANGED <<now, lag, rec, writes, hb, leaves, evicted, memCount>>

SelfChecked ==
  /\ member.check = "reading"
  /\ member' = [(IF RecordLive THEN member ELSE AskFence(member)) EXCEPT !.check = "no"]
  /\ UNCHANGED <<now, lag, rec, writes, hb, leaves, evicted, memCount>>

\* #registersStateful: is there anything a peer could have evicted?
RegistersStateful == member.stateful \/ member.claims

\* #fence with something to defend: refuse work, leave, deactivate.
FenceHost ==
  /\ member.fence = "asked" /\ RegistersStateful
  /\ member' = [Left(member) EXCEPT !.fence = "no", !.fenced = TRUE, !.claims = FALSE]
  /\ LeaveBegins("own") /\ evicted' = NotEvicted
  /\ UNCHANGED <<now, lag, rec, writes, hb, memCount>>

\* #fence with nothing: #rejoin, which leaves first.
RejoinLeaves ==
  /\ \/ member.fence = "asked" /\ ~RegistersStateful /\ ~member.stopping
     \/ member.rejoin = "backoff" /\ ~member.stopping
  /\ member' = [Left(member) EXCEPT !.fence = "no", !.rejoin = "leave", !.joiner = "none"]
  /\ LeaveBegins("own")
  /\ UNCHANGED <<now, lag, rec, writes, hb, evicted, memCount>>

RejoinJoins(i) ==
  /\ member.rejoin = "leave" /\ leaves["own"].st = "done"
  /\ JoinSends(i)
  /\ member' = [member EXCEPT !.rejoin = "join", !.self = TRUE, !.left = FALSE, !.joiner = "write"]
  /\ UNCHANGED <<now, lag, rec, hb, leaves, evicted, memCount>>

\* Back in, unless stop() came meanwhile: then out again.
MustUndo == member.stopping

RejoinDone ==
  /\ member.rejoin = "join"
  /\ \/ /\ member.joiner = "done" /\ ~MustUndo
        /\ member' = [member EXCEPT !.rejoin = "none"]
        /\ UNCHANGED leaves
     \/ /\ member.joiner = "done" /\ MustUndo
        /\ member' = [Left(member) EXCEPT !.rejoin = "none"]
        /\ LeaveBegins("own")
     \/ /\ member.joiner = "failed"
        /\ member' = [member EXCEPT !.rejoin = IF member.stopping THEN "none" ELSE "backoff"]
        /\ UNCHANGED leaves
  /\ UNCHANGED <<now, lag, rec, writes, hb, evicted, memCount>>

\* stop(), once activations are drained and their claims released.
StopMember ==
  /\ ~member.stopping /\ ~member.claiming /\ member.joiner # "none"
  /\ member.rejoin # "none" \/ member.joiner \in {"done", "failed"}
  /\ member' = [Left(member) EXCEPT !.stopping = TRUE, !.claims = FALSE, !.fence = "no",
                                    !.rejoin = IF @ = "backoff" THEN "none" ELSE @]
  /\ LeaveBegins("stop") /\ evicted' = NotEvicted
  /\ UNCHANGED <<now, lag, rec, writes, hb, memCount>>

(***************************************************************************)
(* Time, and what happens to a host meanwhile.                             *)
(***************************************************************************)
\* A host that is fenced or stopping reads no clock any more.
Tick ==
  /\ now < MaxNow /\ ~member.fenced /\ ~member.stopping
  /\ now' = now + 1
  /\ UNCHANGED <<lag, rec, writes, hb, member, leaves, evicted, memCount>>

\* The machine is suspended: the monotonic clock does not see it.
Suspend ==
  /\ now + TTL + 1 <= MaxNow /\ ~member.fenced /\ ~member.stopping /\ MemFault
  /\ now' = now + TTL + 1 /\ lag' = [lag EXCEPT !.mono = @ + TTL + 1]
  /\ UNCHANGED <<rec, writes, hb, member, leaves, evicted>>

\* A correcting NTP step.
StepsBack ==
  /\ lag.wall < 1 /\ ~member.fenced /\ ~member.stopping /\ MemFault
  /\ lag' = [lag EXCEPT !.wall = @ + 1]
  /\ UNCHANGED <<now, rec, writes, hb, member, leaves, evicted>>

\* An operator, or a store failing over, removes the record.
RecordLost ==
  /\ rec # NoRecord /\ MemFault
  /\ rec' = NoRecord
  /\ UNCHANGED <<now, lag, writes, hb, member, leaves, evicted>>

-----------------------------------------------------------------------------
MemInit ==
  /\ now = 0 /\ lag = [mono |-> 0, wall |-> 0] /\ rec = NoRecord
  /\ writes = [i \in Slots |-> NoWrite]
  /\ hb = [armed |-> FALSE, mono |-> 0, wall |-> 0, suspected |-> FALSE, at |-> 0]
  /\ member = [provider |-> "ttl", stateful |-> FALSE, self |-> FALSE, left |-> FALSE,
               joiner |-> "none", intervals |-> 0, claims |-> FALSE, claiming |-> FALSE, fence |-> "no",
               fenced |-> FALSE, rejoin |-> "none", check |-> "no", stopping |-> FALSE]
  /\ leaves = [t \in {"stop", "own"} |-> NoLeave]
  /\ evicted = NotEvicted /\ memCount = 0

MemNext ==
  \/ \E i \in Slots : \/ Beat(i) \/ Land(i) \/ Ack(i) \/ AckLeft(i) \/ WriteFails(i)
                      \/ StartMember(i) \/ RejoinJoins(i)
  \/ \E t \in {"stop", "own"} : LeaveTakes(t) \/ LeaveDeletes(t)
  \/ JoinArms \/ ClaimStarts \/ ClaimLands \/ PeerEvicts \/ SelfMissing \/ SelfChecked
  \/ FenceHost \/ RejoinLeaves \/ RejoinDone \/ StopMember
  \/ Tick \/ Suspend \/ StepsBack \/ RecordLost

MemSpec == MemInit /\ [][MemNext]_memVars

-----------------------------------------------------------------------------
\* Types; a host beats on one interval at a time (join never runs over a
\* live one), and never once it has left.
MemTypeOK ==
  /\ now \in 0..MaxNow /\ rec \in NoRecord..(MaxNow + TTL + LeaseSkew)
  /\ \A i \in Slots : writes[i].st \in {"free", "sent", "landed", "gone"}
  /\ member.intervals \in 0..1
  /\ member.fenced \/ (member.left /\ member.rejoin = "none") => member.intervals = 0

\* A host whose claims were evicted past the window it was granted does not go
\* on as a member: by the time a heartbeat confirms, it is fenced or about to be
\* ("either clock noticing is enough", "a correcting NTP step can never mask a
\* real lapse").
LapseIsNoticed ==
  /\ evicted # NotEvicted
  /\ evicted.at > evicted.open + TTL
  /\ hb.at >= evicted.at
  => member.fenced \/ member.fence = "asked"

\* The same as long as one of the clocks tells the time (#45: a late beat that
\* succeeds is no proof of membership): a suspend hidden from the wall clock by
\* a step back leaves neither to notice.
EvictedPastWindow == lag.mono = 0 \/ lag.wall = 0 => LapseIsNoticed

\* What the window is for, without that proviso: presence is only assumed
\* until "lastConfirmedWrite + ttlMs", after which the record expired.
EvictedIsFenced ==
  /\ evicted # NotEvicted
  /\ hb.at > evicted.at
  => member.fenced \/ member.fence = "asked"

\* A fence ends with nothing held ("stop claiming, drop what we hold").
FencedHoldsNothing == member.fenced => ~member.claims

MemQuiet == /\ \A i \in Slots : writes[i].st = "free"
            /\ \A t \in DOMAIN leaves : leaves[t].st \in {"none", "done"}
            /\ member.joiner # "write" /\ member.joiner # "arm" /\ member.rejoin \notin {"leave", "join"}

MemLeft == rec = NoRecord /\ member.intervals = 0

\* A host that left is not put back: no beat of its own, no rejoin, lands
\* behind the deletion (#209, #272).  For the TTL providers.
LeftStaysOut ==
  member.stopping /\ MemQuiet /\ memCount = 0 /\ ~Lease => MemLeft

\* stop(): a rejoin "must not put this host back into membership behind the
\* leave below", whatever the provider.
StopIsFinal ==
  member.stopping /\ MemQuiet /\ memCount = 0 => MemLeft
=============================================================================
