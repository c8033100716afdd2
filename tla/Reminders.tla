------------------------------ MODULE Reminders ------------------------------
(***************************************************************************)
(* Durable reminders: one reminder of one actor, under each of the five     *)
(* ActorReminders providers.  The sharded provider (host/reminders.ts) is   *)
(* a cached table saved under an etag by every host; the Redis, Postgres    *)
(* and SurrealDB providers claim and re-arm in one store transaction; the   *)
(* Durable Object provider works from the platform's alarm.                 *)
(*                                                                         *)
(* The actor is one activation that awaits its own reminder calls, but it   *)
(* moves between hosts, so those calls come from either host's provider     *)
(* instance.  Time is a bounded clock in tick periods.                      *)
(***************************************************************************)
EXTENDS Integers, Sequences, FiniteSets

CONSTANTS RHosts,     \* hosts (a Durable Object uses one of them)
          MaxClock,   \* bound on the clock
          Dues,       \* delays the actor asks for
          Period,     \* the period of a periodic reminder, in ticks
          MaxSets, MaxClears,     \* calls of the actor
          MaxUndelivered,         \* dispatches that fail
          MaxHostCrashes,         \* hosts that crash and restart
          Providers               \* the providers under test

ASSUME RemindersAssumption ==
    /\ MaxClock \in Nat /\ Dues \subseteq Nat /\ Period \in Nat \ {0}
    /\ MaxSets \in Nat /\ MaxClears \in Nat
    /\ MaxUndelivered \in Nat /\ MaxHostCrashes \in Nat
    /\ Providers \subseteq {"sharded", "redis", "pg", "surreal", "durable"}

MutateAttempts == 3

VARIABLES
    provider,    \* the provider of this behaviour, chosen once
    rclock,      \* Date.now() or the store's clock
    row,         \* the stored entry: [gen, due, period]; gen 0 is "absent"
    etag,        \* the shard record's version
    remCache,       \* host -> #remCache of the shard: [row, etag]; etag -1 is none
    contended,   \* host -> #contended: load before writing until this time
    chain,       \* host -> the #mutate queue of the shard
    firing,      \* host -> claims whose deliver() is under way
    undelivered, \* host -> claims whose deliver() failed, not yet re-armed
    alarm,       \* the Durable Object's alarm: a time, or -1 for none
    calling,     \* a set or clear the actor is awaiting
    latest,      \* the last set that took effect, 0 after a clear
    owed,        \* set -> armings of it less the claims of it
    delivered,   \* sets that have fired
    cleared,     \* a clear was acknowledged and nothing set since
    excused,     \* sets whose wake a crash or an exhausted retry gave up
    sets, clears, fails, crashes   \* bounds

reminderVars == <<provider, rclock, row, etag, remCache, contended, chain, firing,
                  undelivered, alarm, calling, latest, owed, delivered,
                  cleared, excused, sets, clears, fails, crashes>>

Gens == 1..MaxSets
NoRow == [gen |-> 0, due |-> 0, period |-> 0]
NoCache == [row |-> NoRow, etag |-> -1]
NoAlarm == -1

IsDue(r) == r.gen # 0 /\ r.due <= rclock

-----------------------------------------------------------------------------
(* The four claims: what replaces a due entry.  A one-shot is removed.       *)

Later(a, b) == IF a > b THEN a ELSE b
Sooner(a, b) == IF a < b THEN a ELSE b

\* sharded and Durable Object: keep the cadence, skip what was missed
CadenceAdvance(r) ==
    IF r.period = 0 THEN NoRow
    ELSE [r EXCEPT !.due = IF r.due + r.period <= rclock
                           THEN rclock + r.period ELSE r.due + r.period]

RedisAdvance(r) ==
    IF r.period = 0 THEN NoRow
    ELSE [r EXCEPT !.due = Later(r.due, rclock) + r.period]
PgAdvance(r) ==
    IF r.period = 0 THEN NoRow
    ELSE [r EXCEPT !.due = Later(r.due, rclock) + r.period]
SurrealAdvance(r) ==
    IF r.period = 0 THEN NoRow ELSE [r EXCEPT !.due = rclock + r.period]

Advance(r) == CASE provider \in {"sharded", "durable"} -> CadenceAdvance(r)
                [] provider = "redis" -> RedisAdvance(r)
                [] provider = "pg" -> PgAdvance(r)
                [] provider = "surreal" -> SurrealAdvance(r)

(* The re-arms: the entry r after a dispatch of claim c failed.  A claim      *)
(* remembers the set it came from and the entry it left behind.              *)

RetryAt == rclock + 1
Reinserted(c) == [gen |-> c.gen, due |-> RetryAt, period |-> 0]

ShardedRearm(r, c) ==
    IF c.left = NoRow
    THEN IF r = NoRow THEN Reinserted(c) ELSE r
    ELSE IF r # NoRow /\ r.due = c.left.due /\ r.period = c.left.period
         THEN [r EXCEPT !.due = Sooner(r.due, RetryAt)] ELSE r

\* Redis and Postgres compare the due time alone.
RedisRearm(r, c) ==
    IF c.left = NoRow
    THEN IF r = NoRow THEN Reinserted(c) ELSE r
    ELSE IF r # NoRow /\ r.due = c.left.due
         THEN [r EXCEPT !.due = Sooner(r.due, RetryAt)] ELSE r
PgRearm(r, c) ==
    IF c.left = NoRow
    THEN IF r = NoRow THEN Reinserted(c) ELSE r
    ELSE IF r # NoRow /\ r.due = c.left.due
         THEN [r EXCEPT !.due = Sooner(r.due, RetryAt)] ELSE r

SurrealRearm(r, c) ==
    IF c.left = NoRow
    THEN IF r = NoRow THEN Reinserted(c) ELSE r
    ELSE IF r # NoRow /\ r.due = c.left.due /\ r.due > RetryAt
         THEN [r EXCEPT !.due = RetryAt] ELSE r

DurableRetry(r, c) ==
    IF c.left = NoRow
    THEN IF r = NoRow THEN Reinserted(c) ELSE r
    ELSE IF r # NoRow /\ r.due = c.left.due /\ r.period = c.left.period
              /\ RetryAt < r.due
         THEN [r EXCEPT !.due = RetryAt] ELSE r

\* a plausible bug: a one-shot that could not be delivered is not put back
RearmForgets(r, c) == r

Rearmed(r, c) == CASE provider = "sharded" -> ShardedRearm(r, c)
                   [] provider = "redis" -> RedisRearm(r, c)
                   [] provider = "pg" -> PgRearm(r, c)
                   [] provider = "surreal" -> SurrealRearm(r, c)
                   [] provider = "durable" -> DurableRetry(r, c)

-----------------------------------------------------------------------------
RemInit ==
    /\ provider \in Providers
    /\ rclock = 0 /\ row = NoRow /\ etag = 0
    /\ remCache = [h \in RHosts |-> NoCache] /\ contended = [h \in RHosts |-> 0]
    /\ chain = [h \in RHosts |-> <<>>]
    /\ firing = [h \in RHosts |-> {}] /\ undelivered = [h \in RHosts |-> {}]
    /\ alarm = NoAlarm /\ calling = FALSE
    /\ latest = 0 /\ cleared = FALSE /\ excused = {}
    /\ owed = [g \in Gens |-> 0] /\ delivered = {}
    /\ sets = 0 /\ clears = 0 /\ fails = 0 /\ crashes = 0

\* What a store commit of each kind means to the actor's later expectations.
NoteSet(g) == /\ latest' = g /\ cleared' = FALSE
              /\ owed' = [owed EXCEPT ![g] = 1]
NoteClear == latest' = 0 /\ cleared' = TRUE /\ UNCHANGED owed
NoteClaim(r) == /\ owed' = [owed EXCEPT ![r.gen] = IF r.period = 0 THEN @ - 1 ELSE @]
                /\ UNCHANGED <<latest, cleared>>
NoteRearm(r, c) == /\ owed' = IF r = NoRow /\ c.left = NoRow
                              THEN [owed EXCEPT ![c.gen] = @ + 1] ELSE owed
                   /\ UNCHANGED <<latest, cleared>>

ClaimOf(r) == [gen |-> r.gen, left |-> Advance(r)]

-----------------------------------------------------------------------------
(* Providers whose store does the whole operation at once                    *)

Atomic == provider \in {"redis", "pg", "surreal"}

\* tick: claim what is due; single-flight per provider instance
ClaimTick(h) ==
    /\ Atomic /\ firing[h] = {} /\ undelivered[h] = {} /\ IsDue(row)
    /\ row' = Advance(row)
    /\ firing' = [firing EXCEPT ![h] = {ClaimOf(row)}]
    /\ NoteClaim(row)
    /\ UNCHANGED <<provider, rclock, etag, remCache, contended, chain, undelivered, alarm,
                   calling, delivered, excused, sets, clears, fails, crashes>>

\* One transaction for the batch's failures; one that fails too gives up.
StoreRearm(h, c, ok) ==
    /\ Atomic /\ c \in undelivered[h] /\ firing[h] = {}
    /\ undelivered' = [undelivered EXCEPT ![h] = @ \ {c}]
    /\ \/ /\ ok /\ row' = Rearmed(row, c) /\ NoteRearm(row, c)
          /\ UNCHANGED <<excused, fails>>
       \/ /\ ~ok /\ fails < MaxUndelivered /\ fails' = fails + 1
          /\ excused' = excused \cup {c.gen}
          /\ UNCHANGED <<row, latest, owed, cleared>>
    /\ UNCHANGED <<provider, rclock, etag, remCache, contended, chain, firing, alarm, calling,
                   delivered, sets, clears, crashes>>

NewRow(g, d, p) == [gen |-> g, due |-> rclock + d, period |-> p]

StoreSet(d, p) ==
    /\ Atomic /\ ~calling /\ sets < MaxSets
    /\ sets' = sets + 1
    /\ row' = NewRow(sets + 1, d, p)
    /\ NoteSet(sets + 1)
    /\ UNCHANGED <<provider, rclock, etag, remCache, contended, chain, firing, undelivered,
                   alarm, calling, delivered, excused, clears, fails, crashes>>

StoreClear ==
    /\ Atomic /\ ~calling /\ clears < MaxClears
    /\ clears' = clears + 1
    /\ row' = NoRow /\ NoteClear
    /\ UNCHANGED <<provider, rclock, etag, remCache, contended, chain, firing, undelivered,
                   alarm, calling, delivered, excused, sets, fails, crashes>>

-----------------------------------------------------------------------------
(* The sharded provider: #mutate queues an edit, #mutateNow applies it to     *)
(* the cached or loaded table and saves it under the etag it started from.   *)

Op(kind, g, d, p, c) ==
    [kind |-> kind, gen |-> g, due |-> d, period |-> p, claim |-> c,
     stage |-> "start", row |-> NoRow, etag |-> 0, attempt |-> 1, cached |-> FALSE]
NoClaim == [gen |-> 0, left |-> NoRow]
Enqueue(h, op) == chain' = [chain EXCEPT ![h] = Append(@, op)]
Sharded == provider = "sharded"

ApiSet(h, d, p) ==
    /\ Sharded /\ ~calling /\ sets < MaxSets
    /\ calling' = TRUE /\ sets' = sets + 1
    /\ Enqueue(h, Op("set", sets + 1, d, p, NoClaim))
    /\ UNCHANGED <<provider, rclock, row, etag, remCache, contended, firing, undelivered, alarm,
                   latest, owed, delivered, cleared, excused, clears, fails, crashes>>

ApiClear(h) ==
    /\ Sharded /\ ~calling /\ clears < MaxClears
    /\ calling' = TRUE /\ clears' = clears + 1
    /\ Enqueue(h, Op("clear", 0, 0, 0, NoClaim))
    /\ UNCHANGED <<provider, rclock, row, etag, remCache, contended, firing, undelivered, alarm,
                   latest, owed, delivered, cleared, excused, sets, fails, crashes>>

\* #tickShard by a host that owns the shard, or still believes it does
TickShard(h) ==
    /\ Sharded /\ chain[h] = <<>>
    /\ Enqueue(h, Op("tick", 0, 0, 0, NoClaim))
    /\ UNCHANGED <<provider, rclock, row, etag, remCache, contended, firing, undelivered, alarm,
                   calling, latest, owed, delivered, cleared, excused, sets,
                   clears, fails, crashes>>

QueueRearm(h, c) ==
    /\ Sharded /\ c \in undelivered[h]
    /\ undelivered' = [undelivered EXCEPT ![h] = @ \ {c}]
    /\ Enqueue(h, Op("rearm", 0, 0, 0, c))
    /\ UNCHANGED <<provider, rclock, row, etag, remCache, contended, firing, alarm, calling,
                   latest, owed, delivered, cleared, excused, sets, clears,
                   fails, crashes>>

\* What the edit makes of the table's entry
Edit(op, r) ==
    CASE op.kind = "set" -> NewRow(op.gen, op.due, op.period)
      [] op.kind = "clear" -> NoRow
      [] op.kind = "tick" -> IF IsDue(r) THEN Advance(r) ELSE r
      [] op.kind = "rearm" -> Rearmed(r, op.claim)
Changes(op, r) == IF op.kind = "tick" THEN IsDue(r) ELSE Edit(op, r) # r

\* A finished set or clear returns to the actor.
Return(op) == calling' = IF op.kind \in {"set", "clear"} THEN FALSE ELSE calling

\* The op h is at starts from the remCache, unless it must be fresh.
FromCache(h, op) ==
    op.kind # "tick" /\ rclock >= contended[h] /\ remCache[h].etag >= 0

\* From the table to the save, or straight back if nothing changes.
MutateRead(h) ==
    LET op == chain[h][1]
        cached == FromCache(h, op)
        rec == IF cached THEN remCache[h] ELSE [row |-> row, etag |-> etag]
        ready == [op EXCEPT !.stage = "saving", !.row = rec.row, !.etag = rec.etag,
                            !.cached = cached]
    IN /\ Sharded /\ chain[h] # <<>> /\ op.stage = "start"
       /\ remCache' = [remCache EXCEPT ![h] = rec]
       /\ contended' = IF op.kind = "tick" THEN [contended EXCEPT ![h] = 0] ELSE contended
       /\ IF Changes(op, rec.row)
          THEN /\ chain' = [chain EXCEPT ![h][1] = ready]
               /\ UNCHANGED <<calling, latest, cleared, owed>>
          ELSE /\ chain' = [chain EXCEPT ![h] = Tail(@)]
               /\ Return(op)
               /\ IF op.kind = "clear" THEN NoteClear
                  ELSE UNCHANGED <<latest, cleared, owed>>
       /\ UNCHANGED <<provider, rclock, row, etag, firing, undelivered, alarm, delivered,
                      excused, sets, clears, fails, crashes>>

EtagMatches(op) == op.etag = etag

\* The save is accepted; the tick collects the claim it just persisted.
MutateSave(h) ==
    LET op == chain[h][1] IN
    /\ Sharded /\ chain[h] # <<>> /\ op.stage = "saving" /\ EtagMatches(op)
    /\ row' = Edit(op, op.row) /\ etag' = etag + 1
    /\ remCache' = [remCache EXCEPT ![h] = [row |-> Edit(op, op.row), etag |-> etag + 1]]
    /\ chain' = [chain EXCEPT ![h] = Tail(@)]
    /\ Return(op)
    /\ CASE op.kind = "set" -> NoteSet(op.gen)
         [] op.kind = "clear" -> NoteClear
         [] op.kind = "tick" -> NoteClaim(op.row)
         [] op.kind = "rearm" -> NoteRearm(op.row, op.claim)
    /\ firing' = IF op.kind = "tick"
                 THEN [firing EXCEPT ![h] = @ \cup {ClaimOf(op.row)}] ELSE firing
    /\ UNCHANGED <<provider, rclock, contended, undelivered, alarm, delivered, excused,
                   sets, clears, fails, crashes>>

\* It is refused: replay on a fresh load, a bounded number of times.
MutateConflict(h) ==
    LET op == chain[h][1]
        last == op.attempt >= MutateAttempts
    IN /\ Sharded /\ chain[h] # <<>> /\ op.stage = "saving" /\ ~EtagMatches(op)
       /\ remCache' = [remCache EXCEPT ![h] = NoCache]
       /\ contended' = IF op.cached /\ ~last THEN [contended EXCEPT ![h] = rclock + 1]
                       ELSE contended
       /\ chain' = IF last THEN [chain EXCEPT ![h] = Tail(@)]
                   ELSE [chain EXCEPT ![h][1] = [op EXCEPT !.stage = "start",
                                                           !.attempt = @ + 1]]
       /\ IF last THEN Return(op) ELSE UNCHANGED calling
       /\ excused' = IF last /\ op.kind = "rearm" THEN excused \cup {op.claim.gen}
                     ELSE excused
       /\ UNCHANGED <<provider, rclock, row, etag, firing, undelivered, alarm, latest,
                      owed, delivered, cleared, sets, clears, fails, crashes>>

-----------------------------------------------------------------------------
(* The Durable Object provider: one object, gated table writes, an alarm      *)

Durable == provider = "durable"
Object == CHOOSE h \in RHosts : TRUE

\* rearm(table): move the alarm forward only, or drop it with the last entry
Rearm(r) == IF r = NoRow THEN NoAlarm
            ELSE IF alarm = NoAlarm \/ r.due < alarm THEN r.due ELSE alarm

\* rearm(table, consumed): the alarm that fired is stale, the next due wins
RearmConsumed(r) == IF r = NoRow THEN alarm ELSE r.due

ObjectSet(d, p) ==
    LET r == NewRow(sets + 1, d, p) IN
    /\ Durable /\ sets < MaxSets
    /\ sets' = sets + 1 /\ row' = r /\ alarm' = Rearm(r)
    /\ NoteSet(sets + 1)
    /\ UNCHANGED <<provider, rclock, etag, remCache, contended, chain, firing, undelivered,
                   calling, delivered, excused, clears, fails, crashes>>

ObjectClear ==
    /\ Durable /\ clears < MaxClears
    /\ clears' = clears + 1
    /\ row' = NoRow
    /\ alarm' = IF row = NoRow THEN alarm ELSE Rearm(NoRow)
    /\ NoteClear
    /\ UNCHANGED <<provider, rclock, etag, remCache, contended, chain, firing, undelivered,
                   calling, delivered, excused, sets, fails, crashes>>

\* onAlarm, phase 1: take what is due and persist the advance.  The platform
\* fires the alarm at its time, and drops it while the handler runs.
OnAlarm ==
    /\ Durable /\ alarm # NoAlarm /\ alarm <= rclock
    /\ firing[Object] = {} /\ undelivered[Object] = {} /\ chain[Object] = <<>>
    /\ alarm' = NoAlarm
    /\ IF IsDue(row)
       THEN /\ row' = Advance(row) /\ NoteClaim(row)
            /\ firing' = [firing EXCEPT ![Object] = {ClaimOf(row)}]
       ELSE UNCHANGED <<row, owed, latest, cleared, firing>>
    /\ chain' = [chain EXCEPT ![Object] = <<Op("alarm", 0, 0, 0, NoClaim)>>]
    /\ UNCHANGED <<provider, rclock, etag, remCache, contended, undelivered, calling,
                   delivered, excused, sets, clears, fails, crashes>>

\* phase 3: re-read, put the failure back, and arm from the newer table
AlarmDone ==
    LET failed == undelivered[Object]
        c == CHOOSE x \in failed : TRUE
        r == IF failed = {} THEN row ELSE Rearmed(row, c)
    IN /\ Durable /\ chain[Object] # <<>> /\ firing[Object] = {}
       /\ row' = r /\ alarm' = RearmConsumed(r)
       /\ IF failed = {} THEN UNCHANGED <<owed, latest, cleared>>
          ELSE NoteRearm(row, c)
       /\ undelivered' = [undelivered EXCEPT ![Object] = {}]
       /\ chain' = [chain EXCEPT ![Object] = <<>>]
       /\ UNCHANGED <<provider, rclock, etag, remCache, contended, firing, calling, delivered,
                      excused, sets, clears, fails, crashes>>

-----------------------------------------------------------------------------
(* Delivery, time and crashes, whatever the provider                          *)

Deliver(h, c) ==
    /\ c \in firing[h]
    /\ firing' = [firing EXCEPT ![h] = @ \ {c}]
    /\ delivered' = delivered \cup {c.gen}
    /\ UNCHANGED <<provider, rclock, row, etag, remCache, contended, chain, undelivered, alarm,
                   calling, latest, owed, cleared, excused, sets, clears, fails,
                   crashes>>

DeliverFails(h, c) ==
    /\ c \in firing[h] /\ fails < MaxUndelivered
    /\ firing' = [firing EXCEPT ![h] = @ \ {c}]
    /\ undelivered' = [undelivered EXCEPT ![h] = @ \cup {c}]
    /\ fails' = fails + 1
    /\ UNCHANGED <<provider, rclock, row, etag, remCache, contended, chain, alarm, calling,
                   latest, owed, delivered, cleared, excused, sets, clears, crashes>>

Elapse ==
    /\ rclock < MaxClock /\ rclock' = rclock + 1
    /\ UNCHANGED <<provider, row, etag, remCache, contended, chain, firing, undelivered, alarm,
                   calling, latest, owed, delivered, cleared, excused, sets,
                   clears, fails, crashes>>

\* Claims under way are skipped, not repeated.  A call of the actor is lost
\* with its host.  The platform runs an interrupted alarm handler again.
HostCrash(h) ==
    /\ crashes < MaxHostCrashes /\ crashes' = crashes + 1
    /\ excused' = excused \cup {c.gen : c \in firing[h] \cup undelivered[h]}
                    \cup ({chain[h][i].claim.gen : i \in 1..Len(chain[h])} \ {0})
    /\ firing' = [firing EXCEPT ![h] = {}] /\ undelivered' = [undelivered EXCEPT ![h] = {}]
    /\ calling' = (calling /\ \A i \in 1..Len(chain[h]) : chain[h][i].kind \notin {"set", "clear"})
    /\ alarm' = IF Durable /\ chain[h] # <<>> THEN rclock ELSE alarm
    /\ chain' = [chain EXCEPT ![h] = <<>>]
    /\ remCache' = [remCache EXCEPT ![h] = NoCache] /\ contended' = [contended EXCEPT ![h] = 0]
    /\ UNCHANGED <<provider, rclock, row, etag, latest, owed, delivered, cleared,
                   sets, clears, fails>>

-----------------------------------------------------------------------------
RemNext ==
    \/ \E h \in RHosts : \/ ClaimTick(h) \/ TickShard(h) \/ ApiClear(h) \/ HostCrash(h)
                         \/ MutateRead(h) \/ MutateSave(h) \/ MutateConflict(h)
                         \/ \E c \in firing[h] : Deliver(h, c) \/ DeliverFails(h, c)
                         \/ \E c \in undelivered[h] :
                              \/ QueueRearm(h, c)
                              \/ \E ok \in BOOLEAN : StoreRearm(h, c, ok)
    \/ \E d \in Dues, p \in {0, Period} :
         StoreSet(d, p) \/ ObjectSet(d, p) \/ \E h \in RHosts : ApiSet(h, d, p)
    \/ StoreClear \/ ObjectClear \/ OnAlarm \/ AlarmDone \/ Elapse

RemSpec == RemInit /\ [][RemNext]_reminderVars

-----------------------------------------------------------------------------
(* Properties                                                                *)

Entries == [gen : 0..MaxSets, due : Nat, period : {0, Period}]

\* The reminder state has its shape, no entry is armed before it is set, and
\* none is due further ahead than a delay or a period allows.
RemTypeOK ==
    /\ provider \in Providers /\ rclock \in 0..MaxClock
    /\ row \in Entries /\ row.gen <= sets /\ etag \in Nat
    /\ \E d \in Dues \cup {1, Period} : row.due <= rclock + d
    /\ \A h \in RHosts : remCache[h].row \in Entries /\ remCache[h].etag \in -1..etag
    /\ alarm \in -1..(MaxClock + MaxClock + Period)
    /\ latest \in 0..sets /\ excused \subseteq Gens

\* "At-most-once per firing": every claim used up an arming of its own, and an
\* armed entry has one left, whichever hosts tick the shard at the same time.
ClaimedOnce ==
    \A g \in Gens : (IF row.gen = g THEN 1 ELSE 0) <= owed[g]

\* A wake is never lost: until it has fired, the last set that took effect is
\* on the table, being delivered, or about to be put back - and a periodic one
\* always is - unless a crash or exhausted retries gave it up.
Pending(g) ==
    \E h \in RHosts : \/ \E c \in firing[h] \cup undelivered[h] : c.gen = g
                      \/ \E i \in 1..Len(chain[h]) : chain[h][i].claim.gen = g
WakeKept ==
    latest # 0 /\ latest \notin excused =>
        row.gen = latest \/ latest \in delivered \/ Pending(latest)

\* Outside its handler, a Durable Object with an entry on its table has an
\* alarm that fires no later than the entry is due.
AlarmCovers ==
    Durable /\ row # NoRow /\ chain[Object] = <<>> =>
        alarm # NoAlarm /\ alarm <= Later(row.due, rclock)

\* A clear that returned removed the reminder (without failed dispatches, whose
\* one-shots the documentation lets come back).
ClearHolds == cleared => row = NoRow
=============================================================================
