--------------------------- MODULE DirectoryStore ---------------------------
(***************************************************************************)
(* The actor directory as each backend keeps it: the in-process hub        *)
(* (cluster/memory.ts), redis (SET NX GET, compare-and-delete scripts, a   *)
(* SCAN for a host's sweep), postgres (one upsert that returns the winner) *)
(* and surreal (a create-if-absent query whose losers run it again).       *)
(*                                                                         *)
(* Hosts claim, release and evict with entries they hold or read earlier,  *)
(* and sweep another host's entries.  Every activation id is fresh, as     *)
(* placement mints them; a reply may be lost after the store applied it.   *)
(***************************************************************************)
EXTENDS Integers, FiniteSets

CONSTANTS
  Backends,      \* subset of {"memory", "redis", "pg", "surreal"}
  DirHosts, DirActors,
  MaxActivations,  \* bound on activation ids minted
  MaxDirFaults,    \* bound on lost replies
  Reruns           \* times a surreal transaction is retried (its `attempts`)

ASSUME DirectoryStoreAssumption ==
  /\ Backends \subseteq {"memory", "redis", "pg", "surreal"}
  /\ IsFiniteSet(DirHosts) /\ IsFiniteSet(DirActors)
  /\ MaxActivations \in Nat /\ MaxDirFaults \in Nat /\ Reruns \in Nat

VARIABLES
  backend,     \* which store it is
  entry,       \* actor -> its entry, or NoOwner
  holds,       \* host -> actor -> the entry it believes it holds
  stale,       \* host -> actor -> an entry of another host it read earlier
  sweep,       \* a redis sweep under way: the host and the keys left
  racing,      \* host -> its surreal claim that saw no record: [actor, id, runs]
  minted,      \* activation ids used
  takenFrom,   \* entries that were evicted, by anyone
  dirCount     \* lost replies so far

dirVars == <<backend, entry, holds, stale, sweep, racing, minted, takenFrom, dirCount>>

NoOwner == [host |-> "none", id |-> 0]
NoRace == [actor |-> "none", id |-> 0, runs |-> 0]
Lost == dirCount < MaxDirFaults /\ dirCount' = dirCount + 1

(***************************************************************************)
(* claim: create if absent, and the winning entry is the answer.           *)
(***************************************************************************)
MemoryClaim(a, mine) == IF entry[a] # NoOwner THEN entry[a] ELSE mine
\* SET NX GET answers the prior value; none means the claim won.
RedisClaim(a, mine) == LET prior == entry[a] IN IF prior = NoOwner THEN mine ELSE prior
\* ON CONFLICT DO UPDATE SET host_id to itself, RETURNING the row that stands.
PgClaim(a, mine) == IF entry[a] = NoOwner THEN mine ELSE entry[a]

Winner(a, mine) ==
  CASE backend = "memory"  -> MemoryClaim(a, mine)
    [] backend = "redis"   -> RedisClaim(a, mine)
    [] backend = "pg"      -> PgClaim(a, mine)

\* placement compares what came back with what it asked for.
Taken(won, mine) == won = mine

\* A host learns who won: it holds what it asked for, or knows another's entry.
Learns(h, a, won, mine) ==
  \/ /\ holds' = IF Taken(won, mine) THEN [holds EXCEPT ![h][a] = won] ELSE holds
     /\ stale' = IF ~Taken(won, mine) THEN [stale EXCEPT ![h][a] = won] ELSE stale
     /\ UNCHANGED dirCount
  \/ Lost /\ UNCHANGED <<holds, stale>>

ClaimEntry(h, a) ==
  LET mine == [host |-> h, id |-> minted + 1]
      won  == Winner(a, mine)
  IN /\ backend # "surreal" /\ minted < MaxActivations /\ minted' = minted + 1
     /\ holds[h][a] = NoOwner
     /\ entry' = [entry EXCEPT ![a] = won]
     /\ Learns(h, a, won, mine)
     /\ UNCHANGED <<backend, sweep, racing, takenFrom>>

(***************************************************************************)
(* surreal has no lock: two claims may both see no record and both CREATE  *)
(* it, and the commit aborts one of them, which is run again.              *)
(***************************************************************************)
SurrealClaim(h, a) ==
  LET mine == [host |-> h, id |-> minted + 1]
  IN /\ backend = "surreal" /\ minted < MaxActivations /\ minted' = minted + 1
     /\ holds[h][a] = NoOwner /\ racing[h] = NoRace
     /\ \/ /\ entry[a] # NoOwner
           /\ Learns(h, a, entry[a], mine)
           /\ UNCHANGED racing
        \/ /\ entry[a] = NoOwner
           /\ racing' = [racing EXCEPT ![h] = [actor |-> a, id |-> mine.id, runs |-> 0]]
           /\ UNCHANGED <<holds, stale, dirCount>>
     /\ UNCHANGED <<backend, entry, sweep, takenFrom>>

\* Mutant: the transaction conflict is not seen.
NoConflict(a) == TRUE
\* The write-write check of the commit.
CommitsAlone(a) == entry[a] = NoOwner

SurrealCommits(h) ==
  LET a == racing[h].actor
      mine == [host |-> h, id |-> racing[h].id]
  IN /\ racing[h] # NoRace /\ CommitsAlone(a)
     /\ entry' = [entry EXCEPT ![a] = mine]
     /\ Learns(h, a, mine, mine)
     /\ racing' = [racing EXCEPT ![h] = NoRace]
     /\ UNCHANGED <<backend, sweep, minted, takenFrom>>

\* surrealRetryable: the loser runs its query again and sees the winner, or no
\* record once more; out of attempts, the conflict is what the caller gets.
SurrealReruns(h) ==
  LET a == racing[h].actor
      mine == [host |-> h, id |-> racing[h].id]
  IN /\ racing[h] # NoRace /\ ~CommitsAlone(a)
     /\ \/ /\ racing[h].runs < Reruns
           /\ Learns(h, a, entry[a], mine)
           /\ racing' = [racing EXCEPT ![h] = NoRace]
        \/ /\ racing[h].runs < Reruns
           /\ racing' = [racing EXCEPT ![h].runs = @ + 1]
           /\ UNCHANGED <<holds, stale, dirCount>>
        \/ /\ racing[h].runs = Reruns
           /\ racing' = [racing EXCEPT ![h] = NoRace]
           /\ UNCHANGED <<holds, stale, dirCount>>
     /\ UNCHANGED <<backend, entry, sweep, minted, takenFrom>>

LookupEntry(h, a) ==
  /\ entry[a] # NoOwner /\ stale[h][a] # entry[a]
  /\ stale' = [stale EXCEPT ![h][a] = entry[a]]
  /\ UNCHANGED <<backend, entry, holds, sweep, racing, minted, takenFrom, dirCount>>

(***************************************************************************)
(* Compare-and-delete, for a release of one's own entry and an eviction.   *)
(***************************************************************************)
MatchesEntry(a, expected) == entry[a] = expected
Deleted(a, expected) == IF MatchesEntry(a, expected) THEN [entry EXCEPT ![a] = NoOwner] ELSE entry

ReleaseEntry(h, a) ==
  /\ holds[h][a] # NoOwner
  /\ holds' = [holds EXCEPT ![h][a] = NoOwner]
  /\ \/ entry' = Deleted(a, holds[h][a]) /\ UNCHANGED dirCount
     \/ Lost /\ entry' \in {entry, Deleted(a, holds[h][a])}
  /\ UNCHANGED <<backend, stale, sweep, racing, minted, takenFrom>>

EvictEntry(h, a) ==
  /\ stale[h][a] # NoOwner /\ stale[h][a].host # h
  /\ entry' = Deleted(a, stale[h][a])
  /\ takenFrom' = IF entry[a] = stale[h][a] THEN takenFrom \cup {entry[a]} ELSE takenFrom
  /\ stale' = [stale EXCEPT ![h][a] = NoOwner]
  /\ UNCHANGED <<backend, holds, sweep, racing, minted, dirCount>>

(***************************************************************************)
(* evictHost: one statement, or redis's SCAN with an owner check per key.  *)
(***************************************************************************)
\* redis looks at the owner again, key by key.
DelIfOwner(a, host) == entry[a].host = host

SweepHost(victim) ==
  /\ sweep.host = "none"
  /\ \/ /\ backend # "redis"
        /\ entry' = [a \in DirActors |-> IF entry[a].host = victim THEN NoOwner ELSE entry[a]]
        /\ takenFrom' = takenFrom \cup {entry[a] : a \in {b \in DirActors : entry[b].host = victim}}
        /\ UNCHANGED sweep
     \/ /\ backend = "redis"
        /\ sweep' = [host |-> victim, keys |-> {a \in DirActors : entry[a].host = victim}]
        /\ UNCHANGED <<entry, takenFrom>>
  /\ UNCHANGED <<backend, holds, stale, racing, minted, dirCount>>

SweepKey(a) ==
  /\ sweep.host # "none" /\ a \in sweep.keys
  /\ IF DelIfOwner(a, sweep.host)
     THEN /\ entry' = [entry EXCEPT ![a] = NoOwner]
          /\ takenFrom' = IF entry[a].host = sweep.host THEN takenFrom \cup {entry[a]} ELSE takenFrom
     ELSE UNCHANGED <<entry, takenFrom>>
  /\ sweep' = IF sweep.keys = {a} THEN [host |-> "none", keys |-> {}]
              ELSE [sweep EXCEPT !.keys = @ \ {a}]
  /\ UNCHANGED <<backend, holds, stale, racing, minted, dirCount>>

SweepEnds ==
  /\ sweep.host # "none" /\ sweep.keys = {}
  /\ sweep' = [host |-> "none", keys |-> {}]
  /\ UNCHANGED <<backend, entry, holds, stale, racing, minted, takenFrom, dirCount>>

-----------------------------------------------------------------------------
DirInit ==
  /\ backend \in Backends
  /\ entry = [a \in DirActors |-> NoOwner]
  /\ holds = [h \in DirHosts |-> [a \in DirActors |-> NoOwner]]
  /\ stale = [h \in DirHosts |-> [a \in DirActors |-> NoOwner]]
  /\ sweep = [host |-> "none", keys |-> {}]
  /\ racing = [h \in DirHosts |-> NoRace]
  /\ minted = 0 /\ takenFrom = {} /\ dirCount = 0

DirNext ==
  \/ \E h \in DirHosts, a \in DirActors :
       ClaimEntry(h, a) \/ SurrealClaim(h, a) \/ LookupEntry(h, a) \/ ReleaseEntry(h, a) \/ EvictEntry(h, a)
  \/ \E h \in DirHosts : SurrealCommits(h) \/ SurrealReruns(h) \/ SweepHost(h)
  \/ \E a \in DirActors : SweepKey(a)
  \/ SweepEnds

DirSpec == DirInit /\ [][DirNext]_dirVars

-----------------------------------------------------------------------------
\* Types; an entry names an activation that was minted.
DirTypeOK ==
  /\ backend \in Backends
  /\ \A a \in DirActors : entry[a] # NoOwner => entry[a].host \in DirHosts /\ entry[a].id \in 1..minted
  /\ \A h \in DirHosts, a \in DirActors : holds[h][a] # NoOwner => holds[h][a].host = h

\* An entry a host holds stays in the directory until it was evicted by name
\* or in a sweep of that host: no slow release, no late eviction and no sweep
\* of another host removes a successor's claim.
HeldUnlessEvicted ==
  \A h \in DirHosts, a \in DirActors :
    holds[h][a] # NoOwner => entry[a] = holds[h][a] \/ holds[h][a] \in takenFrom
=============================================================================
