---------------------------- MODULE ClusterProofs ----------------------------
(***************************************************************************)
(* Four promises of what the hosts of a cluster share, for every number of *)
(* clients, hosts, actors, writes, clears, claims, callers, changes and    *)
(* faults, every lease, clock, registry, view and provider.                *)
(*                                                                         *)
(* No store loses a write it acknowledged (StoresNeverLoseAWrite): the     *)
(* storage adapters keep what their callers were told is written, and      *)
(* once, whichever stale clients still write; and the directory names the  *)
(* holder of an actor until it lets go or is evicted.  Etags are what      *)
(* makes the first so: who holds the record's knows its content, and every *)
(* write gets one that nobody holds.                                       *)
(*                                                                         *)
(* Membership says what is so (MembershipIsHonest).  A clock that never    *)
(* lagged measures the lease, and whoever it makes suspicious asks for a   *)
(* fence; whatever may put a record back is the host's own, or awaited by  *)
(* the leave that deletes it; a flight answers only the calls older than   *)
(* its read; and what a view has not seen of the store it has yet to be    *)
(* told of or is about to read.                                            *)
(*                                                                         *)
(* Views move for cause (ViewsMoveForCause): of finitely many candidates   *)
(* one ranks first, so that two views place a key differently only where   *)
(* one lacks the other's choice.                                           *)
(*                                                                         *)
(* Peers agree (PeersAgree): the calls under a running one are up its      *)
(* chain, and on every clock its deadline is the root's but for the time   *)
(* on the wire; a rebalance round that nothing disturbed never has more    *)
(* left to shed than lies above the mean.                                  *)
(***************************************************************************)
EXTENDS MCCluster, FiniteSetTheorems, SequenceTheorems, WellFoundedInduction, TLAPS

-----------------------------------------------------------------------------
(* The storage.                                                            *)

Adapters == {"memory", "file", "sqlite", "redis", "pg", "surreal", "object"}
Rows == [has : BOOLEAN, state : Seq(Nat), etag : Nat]
Entries == [ord : Nat, w : Nat]
Knowledge == [knows : BOOLEAN, view : Seq(Nat), etag : Nat]

StShape ==
  /\ stProvider \in Adapters /\ stProvider \in StProviders
  /\ stRow \in Rows /\ stLog \in Seq(Entries) /\ stHead \in Nat
  /\ stClient \in [StClients -> Knowledge]
  /\ stBound \in [writes : 0..MaxStWrites, clears : Nat, lost : Nat]
  /\ stMinted = stBound.writes /\ stAcked \subseteq 1..stBound.writes

\* A record that is not there has left nothing behind; the object's log is past
\* its snapshot, and its head past both.
StRecord ==
  /\ stRow.has => stRow.etag # NullEtag
  /\ ~stRow.has => stRow = NoStRow /\ stLog = <<>> /\ stHead = 0
  /\ stProvider # "object" => stHead = 0
  /\ stProvider = "file" => stLog = <<>>
  /\ stHead # 0 => stHead > stRow.etag
  /\ stProvider = "object" => \A i \in 1..Len(stLog) : stLog[i].ord > stRow.etag

\* No write is twice in a sequence, and none is there that was not made.
OnceIn(s, n) ==
  /\ \A i \in 1..Len(s) : s[i] \in 1..n
  /\ \A i, j \in 1..Len(s) : s[i] = s[j] => i = j

StOnce == OnceIn(Content, stBound.writes)
          /\ \A c \in StClients : OnceIn(stClient[c].view, stBound.writes)

\* The highest etag anyone may hold.
TopEtag == IF stProvider \in Restarting THEN CurrentEtag ELSE stMinted

\* Who holds the record's etag knows what the record holds.
StFresh ==
  (stProvider \in Restarting => stBound.clears = 0) =>
    /\ stAcked \subseteq {Content[i] : i \in 1..Len(Content)}
    /\ CurrentEtag <= TopEtag
    /\ \A c \in StClients : stClient[c].knows =>
         /\ stClient[c].etag <= TopEtag
         /\ stClient[c].etag = CurrentEtag => stClient[c].view = Content
         /\ stClient[c].etag = NullEtag => stClient[c].view = <<>>

StInv == StShape /\ StRecord /\ StOnce /\ StFresh

\* What load returns of a row and a log: Content of any state.
ContentOf(p, row, log) ==
  LET replayed == IF p = "object"
                  THEN SubSeq(log, Cardinality({i \in 1..Len(log) : log[i].ord <= row.etag}) + 1, Len(log))
                  ELSE log
  IN row.state \o [i \in 1..Len(replayed) |-> replayed[i].w]

LEMMA ContentOfRecord ==
  ASSUME NEW p, NEW row \in Rows, NEW log \in Seq(Entries),
         p = "object" => \A i \in 1..Len(log) : log[i].ord > row.etag
  PROVE  /\ ContentOf(p, row, log) \in Seq(Nat)
         /\ Len(ContentOf(p, row, log)) = Len(row.state) + Len(log)
         /\ \A i \in 1..Len(row.state) : ContentOf(p, row, log)[i] = row.state[i]
         /\ \A i \in 1..Len(log) : ContentOf(p, row, log)[Len(row.state) + i] = log[i].w
<1> DEFINE skipped == {i \in 1..Len(log) : log[i].ord <= row.etag}
           replayed == IF p = "object" THEN SubSeq(log, Cardinality(skipped) + 1, Len(log)) ELSE log
           words == [i \in 1..Len(log) |-> log[i].w]
<1>0. row.state \in Seq(Nat) /\ row.etag \in Nat /\ Len(log) \in Nat
      /\ \A i \in 1..Len(log) : log[i] \in Entries
  BY DEF Rows
<1>1. p = "object" => skipped = {}
  BY <1>0 DEF Entries
<1>2. replayed = log
  <2>1. Cardinality({}) = 0 BY FS_EmptySet
  <2>2. SubSeq(log, 0 + 1, Len(log)) = log BY <1>0
  <2> HIDE DEF skipped
  <2> QED BY <1>1, <2>1, <2>2
<1>3. words \in Seq(Nat) /\ Len(words) = Len(log)
  BY <1>0 DEF Entries
<1>4. ContentOf(p, row, log) = row.state \o words
  BY <1>2 DEF ContentOf
<1> HIDE DEF skipped, replayed
<1>5. \A i \in 1..Len(log) : words[i] = log[i].w
  OBVIOUS
<1> HIDE DEF words
<1> DEFINE st == row.state
<1> HIDE DEF st
<1>6. st \in Seq(Nat) BY <1>0 DEF st
<1>7. /\ st \o words \in Seq(Nat) /\ Len(st \o words) = Len(st) + Len(words)
      /\ \A i \in 1..Len(st) : (st \o words)[i] = st[i]
      /\ \A i \in 1..Len(words) : (st \o words)[Len(st) + i] = words[i]
  <2>1. /\ st \o words \in Seq(Nat) /\ Len(st \o words) = Len(st) + Len(words)
        /\ \A i \in 1..Len(st) + Len(words) : (st \o words)[i] =
              IF i <= Len(st) THEN st[i] ELSE words[i - Len(st)]
    BY <1>3, <1>6, ConcatProperties
  <2>2. Len(st) \in Nat /\ Len(words) \in Nat BY <1>3, <1>6
  <2>3. ASSUME NEW i \in 1..Len(words) PROVE (st \o words)[Len(st) + i] = words[i]
    <3>1. Len(st) + i \in 1..Len(st) + Len(words) /\ ~(Len(st) + i <= Len(st))
          /\ Len(st) + i - Len(st) = i
      BY <2>2
    <3> QED BY <2>1, <3>1
  <2>4. \A i \in 1..Len(st) : (st \o words)[i] = st[i]
    BY <2>1, <2>2
  <2> QED BY <2>1, <2>3, <2>4
<1>8. ContentOf(p, row, log) = st \o words BY <1>4 DEF st
<1>9. /\ ContentOf(p, row, log) \in Seq(Nat)
      /\ Len(ContentOf(p, row, log)) = Len(st) + Len(log)
      /\ \A i \in 1..Len(st) : ContentOf(p, row, log)[i] = st[i]
      /\ \A i \in 1..Len(log) : ContentOf(p, row, log)[Len(st) + i] = log[i].w
  BY <1>3, <1>5, <1>7, <1>8
<1> QED BY <1>9 DEF st

LEMMA ContentIs == Content = ContentOf(stProvider, stRow, stLog)
<1>1. Superseded = {i \in 1..Len(stLog) : stLog[i].ord <= stRow.etag}
  BY DEF Superseded
<1> DEFINE f == {i \in 1..Len(stLog) : stLog[i].ord <= stRow.etag}
           r == IF stProvider = "object" THEN SubSeq(stLog, Cardinality(f) + 1, Len(stLog)) ELSE stLog
<1>2. Superseded = f BY <1>1
<1>3. ContentOf(stProvider, stRow, stLog) = stRow.state \o [i \in 1..Len(r) |-> r[i].w]
  BY Zenon DEF ContentOf
<1>4. Replayed = r
  <2> HIDE DEF f
  <2> QED BY <1>2 DEF Replayed
<1> HIDE DEF r
<1>5. Content = stRow.state \o [i \in 1..Len(r) |-> r[i].w]
  BY <1>4, Zenon DEF Content
<1> QED BY <1>3, <1>5

\* Every adapter's compare-and-set accepts the current etag and no other.
LEMMA MatchesCurrent ==
  ASSUME StShape, StRecord, NEW x \in Nat
  PROVE  /\ CurrentEtag \in Nat /\ (CurrentEtag = NullEtag <=> ~stRow.has)
         /\ Matches(x) <=> x = CurrentEtag
<1>1. stRow.has \in BOOLEAN /\ stRow.etag \in Nat /\ stHead \in Nat
  BY DEF StShape, Rows
<1>2. ~stRow.has => stRow.etag = NullEtag
  BY DEF StRecord, NoStRow
<1>3. CurrentEtag \in Nat /\ (CurrentEtag = NullEtag <=> ~stRow.has)
  BY <1>1, <1>2 DEF CurrentEtag, NullEtag, StRecord
<1>4. stProvider # "object" => CurrentEtag = stRow.etag
  BY <1>1, <1>2 DEF CurrentEtag, NullEtag, StRecord
<1>5. stProvider \in Adapters BY DEF StShape
<1>6. CASE stProvider \in {"memory", "file"}
  BY <1>3, <1>4, <1>6 DEF Matches, ProcessMatches
<1>7. CASE stProvider = "redis"
  BY <1>2, <1>3, <1>4, <1>7 DEF Matches, RedisMatches
<1>8. CASE stProvider \in {"sqlite", "pg", "surreal"}
  BY <1>2, <1>3, <1>4, <1>8 DEF Matches, SqlMatches
<1>9. CASE stProvider = "object"
  BY <1>3, <1>9 DEF Matches, ObjectMatches
<1> QED BY <1>5, <1>6, <1>7, <1>8, <1>9 DEF Adapters

\* A write's etag is past every etag that was.
LEMMA NextIsPastTop ==
  ASSUME StShape, StRecord
  PROVE  NextEtag = TopEtag + 1 /\ TopEtag \in Nat
<1>1. stRow.has \in BOOLEAN /\ stRow.etag \in Nat /\ stHead \in Nat /\ stMinted \in Nat
  BY StAssumption DEF StShape, Rows
<1>2. ~stRow.has => stRow.etag = NullEtag /\ stHead = 0
  BY DEF StRecord, NoStRow
<1>3. stProvider # "object" => CurrentEtag = stRow.etag
  BY <1>1, <1>2 DEF CurrentEtag, NullEtag, StRecord
<1>4. CurrentEtag = IF stHead # 0 THEN stHead ELSE stRow.etag
  BY <1>1, <1>2 DEF CurrentEtag, NullEtag
<1>5. CASE stProvider \in {"memory", "redis", "pg", "surreal"}
  BY <1>1, <1>5 DEF NextEtag, TopEtag, Restarting, UuidEtags
<1>6. CASE stProvider \in {"file", "sqlite"}
  BY <1>1, <1>3, <1>6 DEF NextEtag, TopEtag, Restarting, UuidEtags
<1>7. CASE stProvider = "object"
  BY <1>1, <1>4, <1>7 DEF NextEtag, TopEtag, Restarting, UuidEtags
<1> QED BY <1>5, <1>6, <1>7 DEF StShape, Adapters

\* A full save on every adapter: the row holds it all, and nothing is left of the log.
LEMMA Saved ==
  ASSUME StShape, StRecord, NEW content
  PROVE  /\ SaveTo(content).row = StoredRow(content, NextEtag)
         /\ SaveTo(content).log = <<>> /\ SaveTo(content).head = 0
<1> USE DEF Store, StoredRow
<1>1. CASE stProvider \in {"memory", "object"}
  BY <1>1 DEF SaveTo, MemorySave, ObjectSave
<1>2. CASE stProvider = "file"
  BY <1>2 DEF SaveTo, FileSave, StRecord
<1>3. CASE stProvider = "sqlite"
  <2>1. ~stRow.has => NextEtag = 1
    BY <1>3 DEF NextEtag, UuidEtags, StRecord, NoStRow, NullEtag
  <2> QED BY <1>3, <2>1 DEF SaveTo, SqliteSave, StRecord
<1>4. CASE stProvider \in {"redis", "pg", "surreal"}
  BY <1>4 DEF SaveTo, RedisSave, PgSave, SurrealSave, StRecord
<1> QED BY <1>1, <1>2, <1>3, <1>4 DEF StShape, Adapters

\* An append: one entry more, and the new etag in the row or in the head.
LEMMA AppendedTo ==
  ASSUME StShape, StRecord, NEW w
  PROVE  /\ AppendTo(w).log = Append(stLog, [ord |-> NextEtag, w |-> w])
         /\ stProvider = "object" => AppendTo(w).row = stRow /\ AppendTo(w).head = NextEtag
         /\ stProvider # "object" => /\ AppendTo(w).row = [stRow EXCEPT !.etag = NextEtag]
                                     /\ AppendTo(w).head = 0
BY DEF AppendTo, ObjectAppend, RowAppend, Store, LogEntry, StRecord

-----------------------------------------------------------------------------
LEMMA OnceAppended ==
  ASSUME NEW s \in Seq(Nat), NEW n \in Nat, OnceIn(s, n)
  PROVE  /\ Append(s, n + 1) \in Seq(Nat)
         /\ OnceIn(s, n + 1) /\ OnceIn(Append(s, n + 1), n + 1)
         /\ {s[i] : i \in 1..Len(s)} \cup {n + 1}
              \subseteq {Append(s, n + 1)[i] : i \in 1..Len(Append(s, n + 1))}
<1> DEFINE t == Append(s, n + 1)
<1>1. /\ t \in Seq(Nat) /\ Len(t) = Len(s) + 1 /\ Len(s) \in Nat
      /\ \A i \in 1..Len(s) : t[i] = s[i]
      /\ t[Len(s) + 1] = n + 1
  OBVIOUS
<1> HIDE DEF t
<1>2. OnceIn(s, n + 1) BY DEF OnceIn
<1>3. \A i \in 1..Len(t) : i \in 1..Len(s) \/ i = Len(s) + 1
  BY <1>1
<1>4. \A i \in 1..Len(s) : s[i] \in 1..n /\ s[i] # n + 1
  BY DEF OnceIn
<1>5. OnceIn(t, n + 1)
  <2>1. ASSUME NEW i \in 1..Len(t) PROVE t[i] \in 1..(n + 1)
    <3>1. CASE i \in 1..Len(s)
      <4>1. t[i] \in 1..n BY <1>1, <1>4, <3>1
      <4> QED BY <4>1
    <3>2. CASE i = Len(s) + 1 BY <1>1, <3>2
    <3> QED BY <1>3, <3>1, <3>2
  <2>2. ASSUME NEW i \in 1..Len(t), NEW j \in 1..Len(t), t[i] = t[j] PROVE i = j
    BY <1>1, <1>3, <1>4, <2>2 DEF OnceIn
  <2> QED BY <2>1, <2>2 DEF OnceIn
<1>6. {s[i] : i \in 1..Len(s)} \cup {n + 1} \subseteq {t[i] : i \in 1..Len(t)}
  <2>1. \A i \in 1..Len(s) : i \in 1..Len(t) /\ t[i] = s[i] BY <1>1
  <2>2. Len(s) + 1 \in 1..Len(t) BY <1>1
  <2> QED BY <1>1, <2>1, <2>2
<1> QED BY <1>1, <1>2, <1>5, <1>6 DEF t

LEMMA ContentType ==
  ASSUME StShape, StRecord
  PROVE  Content \in Seq(Nat)
<1>1. stRow \in Rows /\ stLog \in Seq(Entries) BY DEF StShape
<1> QED BY <1>1, ContentOfRecord, ContentIs DEF StRecord

\* A write that landed, whichever way it was stored, is known to be stored once, and
\* whoever does not know it has an etag that will not match again.
LEMMA WriteIsKept ==
  ASSUME StInv, NEW c \in StClients, stClient[c].knows, Matches(stClient[c].etag),
         NEW view, view = stClient[c].view,
         NEW w, w = stBound.writes + 1,
         Content' = Append(view, w) \/ Content' = Append(Content, w),
         CurrentEtag' = NextEtag, stMinted' = stMinted + 1, stProvider' = stProvider,
         LandsFor(c, Append(view, w), NextEtag, {w})
  PROVE  StOnce' /\ StFresh' /\ stClient' \in [StClients -> Knowledge]
         /\ stBound' \in [writes : {w}, clears : {stBound.clears}, lost : Nat]
         /\ stAcked' \subseteq 1..w
<1> DEFINE n == stBound.writes
<1>1. /\ n \in Nat /\ w = n + 1 /\ stBound \in [writes : 0..MaxStWrites, clears : Nat, lost : Nat]
      /\ stClient \in [StClients -> Knowledge] /\ stAcked \subseteq 1..n
      /\ stMinted \in Nat
  BY StAssumption DEF StInv, StShape
<1>2. /\ view \in Seq(Nat) /\ Content \in Seq(Nat)
      /\ \A d \in StClients : /\ stClient[d].view \in Seq(Nat) /\ stClient[d].etag \in Nat
                              /\ stClient[d].knows \in BOOLEAN
  BY <1>1, ContentType DEF StInv, Knowledge
<1>3. CurrentEtag \in Nat /\ stClient[c].etag = CurrentEtag
  BY <1>2, MatchesCurrent DEF StInv
<1>4. NextEtag = TopEtag + 1 /\ TopEtag \in Nat
  BY NextIsPastTop DEF StInv
<1>6. CurrentEtag' = TopEtag + 1 /\ TopEtag' = TopEtag + 1
  <2>1. CASE stProvider \in Restarting
    BY <1>4, <2>1 DEF TopEtag, Restarting
  <2>2. CASE stProvider \notin Restarting
    BY <1>4, <2>2 DEF TopEtag, Restarting
  <2> QED BY <2>1, <2>2
<1>7. stBound' \in [writes : {w}, clears : {stBound.clears}, lost : Nat]
  <2>1. CASE stBound' = [stBound EXCEPT !.writes = @ + 1]
    BY <1>1, <2>1
  <2>2. CASE stBound' = [stBound EXCEPT !.writes = @ + 1, !.lost = @ + 1]
    <3>1. stBound' = [writes |-> w, clears |-> stBound.clears, lost |-> stBound.lost + 1]
      BY <1>1, <2>2
    <3> QED BY <1>1, <3>1
  <2> QED BY <2>1, <2>2 DEF LandsFor
<1>8. \A d \in StClients : OnceIn(stClient[d].view, n)
  BY DEF StInv, StOnce
<1>9. /\ Append(view, w) \in Seq(Nat) /\ OnceIn(Append(view, w), w)
      /\ Append(Content, w) \in Seq(Nat) /\ OnceIn(Append(Content, w), w)
      /\ \A d \in StClients : OnceIn(stClient[d].view, w)
  <2>1. OnceIn(view, n) BY <1>8
  <2>2. OnceIn(Content, n) BY DEF StInv, StOnce
  <2>3. \A s \in Seq(Nat) : OnceIn(s, n) => /\ Append(s, w) \in Seq(Nat) /\ OnceIn(s, w)
                                           /\ OnceIn(Append(s, w), w)
    BY <1>1, OnceAppended
  <2> QED BY <1>2, <1>8, <2>1, <2>2, <2>3
<1>10. /\ stClient' \in [StClients -> Knowledge]
       /\ \A d \in StClients \ {c} : stClient'[d] = stClient[d]
       /\ \/ stClient'[c] = [knows |-> TRUE, view |-> Append(view, w), etag |-> NextEtag]
          \/ stClient'[c] = Unknowing
  <2>1. Unknowing \in Knowledge BY DEF Unknowing, Knowledge, NullEtag
  <2>2. [knows |-> TRUE, view |-> Append(view, w), etag |-> NextEtag] \in Knowledge
    BY <1>4, <1>9 DEF Knowledge
  <2> HIDE DEF Knowledge
  <2> QED BY <1>1, <2>1, <2>2 DEF LandsFor
<1>11. OnceIn(<<>>, w)
  BY DEF OnceIn
<1>12. StOnce'
  <2>1. OnceIn(Content', w) BY <1>9
  <2>2. \A d \in StClients : OnceIn(stClient'[d].view, w)
    <3>1. OnceIn(stClient'[c].view, w)
      <4>1. CASE stClient'[c] = Unknowing
        <5>1. stClient'[c].view = <<>> BY <4>1 DEF Unknowing
        <5> QED BY <1>11, <5>1
      <4>2. CASE stClient'[c] = [knows |-> TRUE, view |-> Append(view, w), etag |-> NextEtag]
        <5>1. stClient'[c].view = Append(view, w) BY <4>2
        <5> QED BY <1>9, <5>1
      <4> QED BY <1>10, <4>1, <4>2
    <3>2. \A d \in StClients \ {c} : OnceIn(stClient'[d].view, w)
      BY <1>9, <1>10
    <3> QED BY <3>1, <3>2
  <2>3. stBound'.writes = w BY <1>7
  <2> QED BY <2>1, <2>2, <2>3 DEF StOnce
<1>13. StFresh'
  <2> SUFFICES ASSUME stProvider \in Restarting => stBound.clears = 0
               PROVE  /\ stAcked' \subseteq {Content'[i] : i \in 1..Len(Content')}
                      /\ CurrentEtag' <= TopEtag'
                      /\ \A d \in StClients : stClient'[d].knows =>
                           /\ stClient'[d].etag <= TopEtag'
                           /\ stClient'[d].etag = CurrentEtag' => stClient'[d].view = Content'
                           /\ stClient'[d].etag = NullEtag => stClient'[d].view = <<>>
    BY <1>7 DEF StFresh
  <2>1. /\ stAcked \subseteq {Content[i] : i \in 1..Len(Content)}
        /\ \A d \in StClients : stClient[d].knows =>
             /\ stClient[d].etag <= TopEtag
             /\ stClient[d].etag = CurrentEtag => stClient[d].view = Content
             /\ stClient[d].etag = NullEtag => stClient[d].view = <<>>
    BY DEF StInv, StFresh
  <2>2. view = Content /\ Content' = Append(Content, w)
    BY <1>3, <2>1
  <2>3. stAcked' \subseteq stAcked \cup {w}
    BY DEF LandsFor
  <2>4. OnceIn(Content, n) BY DEF StInv, StOnce
  <2>5. {Content[i] : i \in 1..Len(Content)} \cup {w}
          \subseteq {Content'[i] : i \in 1..Len(Content')}
    <3>1. {Content[i] : i \in 1..Len(Content)} \cup {n + 1}
            \subseteq {Append(Content, n + 1)[i] : i \in 1..Len(Append(Content, n + 1))}
      BY <1>1, <1>2, <2>4, OnceAppended
    <3> QED BY <1>1, <2>2, <3>1
  <2>6. stAcked' \subseteq {Content'[i] : i \in 1..Len(Content')}
    BY <2>1, <2>3, <2>5
  <2>7. ASSUME NEW d \in StClients, stClient'[d].knows
        PROVE  /\ stClient'[d].etag <= TopEtag'
               /\ stClient'[d].etag = CurrentEtag' => stClient'[d].view = Content'
               /\ stClient'[d].etag = NullEtag => stClient'[d].view = <<>>
    <3>1. CASE d # c
      <4>1. stClient'[d] = stClient[d] BY <1>10, <3>1
      <4> QED BY <1>2, <1>4, <1>6, <2>1, <2>7, <4>1
    <3>2. CASE d = c
      <4>1. stClient'[c] = [knows |-> TRUE, view |-> Append(view, w), etag |-> NextEtag]
        BY <1>10, <2>7, <3>2 DEF Unknowing
      <4> QED BY <1>4, <1>6, <2>2, <3>2, <4>1 DEF NullEtag
    <3> QED BY <3>1, <3>2
  <2> QED BY <1>4, <1>6, <2>6, <2>7
<1>14. stAcked' \subseteq 1..w
  BY <1>1 DEF LandsFor
<1> QED BY <1>7, <1>10, <1>12, <1>13, <1>14

\* Reading, or dropping what one knew, takes nothing away.
LEMMA LearningKeeps ==
  ASSUME StInv, NEW c \in StClients, NEW k, stClient' = [stClient EXCEPT ![c] = k],
         k = [knows |-> TRUE, view |-> Content, etag |-> CurrentEtag] \/ k = Unknowing,
         UNCHANGED <<stProvider, stRow, stLog, stHead, stMinted, stAcked, stBound>>
  PROVE  StInv'
<1>1. /\ StRecord' /\ Content' = Content /\ CurrentEtag' = CurrentEtag /\ TopEtag' = TopEtag
  <2>1. StRecord' BY DEF StInv, StRecord
  <2>2. CurrentEtag' = CurrentEtag BY DEF CurrentEtag
  <2>3. TopEtag' = TopEtag BY <2>2 DEF TopEtag, Restarting
  <2>4. Content' = Content BY DEF Content, Replayed, Superseded
  <2> QED BY <2>1, <2>2, <2>3, <2>4
<1>2. Content \in Seq(Nat) /\ CurrentEtag \in Nat /\ (CurrentEtag = NullEtag <=> ~stRow.has)
  BY ContentType, MatchesCurrent DEF StInv, NullEtag
<1>3. k \in Knowledge
  <2>1. CASE k = [knows |-> TRUE, view |-> Content, etag |-> CurrentEtag]
    BY <1>2, <2>1 DEF Knowledge
  <2>2. CASE k = Unknowing
    BY <2>2 DEF Knowledge, Unknowing, NullEtag
  <2> QED BY <2>1, <2>2
<1>4. /\ stClient \in [StClients -> Knowledge] /\ stClient' \in [StClients -> Knowledge]
      /\ stClient'[c] = k /\ \A d \in StClients \ {c} : stClient'[d] = stClient[d]
  BY <1>3 DEF StInv, StShape
<1>5. StShape'
  BY <1>4 DEF StInv, StShape
<1>6. \/ k.view = Content /\ k.etag = CurrentEtag
      \/ k.view = <<>> /\ ~k.knows
  <2>1. CASE k = [knows |-> TRUE, view |-> Content, etag |-> CurrentEtag] BY <2>1
  <2>2. CASE k = Unknowing BY <2>2 DEF Unknowing
  <2> QED BY <2>1, <2>2
<1>7. StOnce'
  <2>1. OnceIn(<<>>, stBound.writes) BY DEF OnceIn
  <2>2. OnceIn(stClient'[c].view, stBound.writes)
    BY <1>4, <1>6, <2>1 DEF StInv, StOnce
  <2>3. \A d \in StClients : OnceIn(stClient'[d].view, stBound.writes)
    BY <1>4, <2>2 DEF StInv, StOnce
  <2> QED BY <1>1, <2>3 DEF StInv, StOnce
<1>8. ~stRow.has => Content = <<>>
  <2> SUFFICES ASSUME ~stRow.has PROVE Content = <<>>
    OBVIOUS
  <2>1. stRow = NoStRow /\ stLog = <<>> /\ stRow.state = <<>>
    BY DEF StInv, StRecord, NoStRow
  <2>2. Len(Content) = Len(stRow.state) + Len(stLog)
    BY ContentOfRecord, ContentIs DEF StInv, StShape, StRecord
  <2>3. Len(Content) = 0 BY <2>1, <2>2
  <2> QED BY <1>2, <2>3
<1>9. StFresh'
  <2> SUFFICES ASSUME stProvider \in Restarting => stBound.clears = 0
               PROVE  /\ stAcked \subseteq {Content[i] : i \in 1..Len(Content)}
                      /\ CurrentEtag <= TopEtag
                      /\ \A d \in StClients : stClient'[d].knows =>
                           /\ stClient'[d].etag <= TopEtag
                           /\ stClient'[d].etag = CurrentEtag => stClient'[d].view = Content
                           /\ stClient'[d].etag = NullEtag => stClient'[d].view = <<>>
    BY <1>1 DEF StFresh, Restarting
  <2>1. /\ stAcked \subseteq {Content[i] : i \in 1..Len(Content)}
        /\ CurrentEtag <= TopEtag
        /\ \A d \in StClients : stClient[d].knows =>
             /\ stClient[d].etag <= TopEtag
             /\ stClient[d].etag = CurrentEtag => stClient[d].view = Content
             /\ stClient[d].etag = NullEtag => stClient[d].view = <<>>
    BY DEF StInv, StFresh
  <2>2. ASSUME NEW d \in StClients, stClient'[d].knows
        PROVE  /\ stClient'[d].etag <= TopEtag
               /\ stClient'[d].etag = CurrentEtag => stClient'[d].view = Content
               /\ stClient'[d].etag = NullEtag => stClient'[d].view = <<>>
    <3>1. CASE d # c BY <1>4, <2>1, <2>2, <3>1
    <3>2. CASE d = c
      <4>1. k.view = Content /\ k.etag = CurrentEtag BY <1>4, <1>6, <2>2, <3>2
      <4> QED BY <1>2, <1>4, <1>8, <2>1, <3>2, <4>1
    <3> QED BY <3>1, <3>2
  <2> QED BY <2>1, <2>2
<1> QED BY <1>1, <1>5, <1>7, <1>9 DEF StInv

LEMMA SaveKeeps ==
  ASSUME StInv, NEW c \in StClients, StSave(c)
  PROVE  StInv'
<1> DEFINE w == stBound.writes + 1
           content == Append(stClient[c].view, w)
<1>1. /\ stClient[c].knows /\ Matches(stClient[c].etag) /\ stBound.writes < MaxStWrites
      /\ Becomes(SaveTo(content)) /\ stMinted' = stMinted + 1 /\ stProvider' = stProvider
      /\ LandsFor(c, content, SaveTo(content).row.etag, {w})
  BY DEF StSave
<1>2. /\ SaveTo(content).row = StoredRow(content, NextEtag)
      /\ SaveTo(content).log = <<>> /\ SaveTo(content).head = 0
  BY Saved DEF StInv
<1> HIDE DEF content
<1>3. stRow' = [has |-> TRUE, state |-> content, etag |-> NextEtag] /\ stLog' = <<>> /\ stHead' = 0
  BY <1>1, <1>2 DEF Becomes, StoredRow
<1>4. LandsFor(c, content, NextEtag, {w})
  BY <1>1, <1>2 DEF StoredRow
<1>5. NextEtag \in Nat /\ NextEtag # 0
  BY NextIsPastTop DEF StInv
<1>6. /\ w \in Nat /\ w \in 0..MaxStWrites /\ stClient[c].view \in Seq(Nat)
  BY <1>1, StAssumption DEF StInv, StShape, Knowledge
<1>7. content \in Seq(Nat)
  BY <1>6 DEF content
<1>8. /\ stRow' \in Rows /\ stLog' \in Seq(Entries) /\ stHead' \in Nat
  BY <1>3, <1>5, <1>7 DEF Rows
<1>9. StRecord'
  BY <1>3, <1>5, <1>1 DEF StRecord, NullEtag
<1>10. Content' = content /\ CurrentEtag' = NextEtag
  <2>1. Content' = ContentOf(stProvider', stRow', stLog')
    <3>1. (Content = ContentOf(stProvider, stRow, stLog))' BY ContentIs, PTL
    <3> QED BY <3>1
  <2>2. /\ Content' \in Seq(Nat) /\ Len(Content') = Len(content)
        /\ \A i \in 1..Len(content) : Content'[i] = content[i]
    <3>1. stLog' = <<>> /\ Len(stLog') = 0 /\ stRow'.state = content BY <1>3
    <3>3. \A i \in 1..Len(stLog') : stLog'[i].ord > stRow'.etag BY <3>1
    <3>2. /\ Content' \in Seq(Nat) /\ Len(Content') = Len(content) + 0
          /\ \A i \in 1..Len(content) : Content'[i] = content[i]
      <4> DEFINE r == stRow'
                 l == stLog'
                 q == stProvider'
      <4>1. r \in Rows /\ l \in Seq(Entries) /\ \A i \in 1..Len(l) : l[i].ord > r.etag
        BY <1>8, <3>3
      <4> HIDE DEF r, l, q
      <4>2. /\ ContentOf(q, r, l) \in Seq(Nat)
            /\ Len(ContentOf(q, r, l)) = Len(r.state) + Len(l)
            /\ \A i \in 1..Len(r.state) : ContentOf(q, r, l)[i] = r.state[i]
        BY <4>1, ContentOfRecord
      <4> QED BY <2>1, <3>1, <4>2 DEF r, l, q
    <3> QED BY <1>7, <3>2
  <2>3. Content' = content BY <1>7, <2>2, SeqEqual
  <2> QED BY <1>3, <2>3 DEF CurrentEtag
<1>11. /\ StOnce' /\ StFresh' /\ stClient' \in [StClients -> Knowledge]
       /\ stBound' \in [writes : {w}, clears : {stBound.clears}, lost : Nat]
       /\ stAcked' \subseteq 1..w
  BY <1>1, <1>4, <1>10, WriteIsKept DEF content
<1>12. StShape'
  BY <1>1, <1>6, <1>8, <1>11 DEF StShape, StInv
<1> QED BY <1>9, <1>11, <1>12 DEF StInv

LEMMA AppendKeeps ==
  ASSUME StInv, NEW c \in StClients, StAppend(c)
  PROVE  StInv'
<1> DEFINE w == stBound.writes + 1
           e == [ord |-> NextEtag, w |-> w]
<1>1. /\ stClient[c].knows /\ Matches(stClient[c].etag) /\ stBound.writes < MaxStWrites
      /\ stClient[c].etag # NullEtag /\ stProvider # "file"
      /\ Becomes(AppendTo(w)) /\ stMinted' = stMinted + 1 /\ stProvider' = stProvider
      /\ LandsFor(c, Append(stClient[c].view, w),
                  IF AppendTo(w).head # 0 THEN AppendTo(w).head ELSE AppendTo(w).row.etag, {w})
  BY DEF StAppend, Appends
<1>2. /\ NextEtag = TopEtag + 1 /\ TopEtag \in Nat /\ NextEtag \in Nat /\ NextEtag # 0
  BY NextIsPastTop DEF StInv
<1>3. /\ stRow \in Rows /\ stRow.has \in BOOLEAN /\ stRow.etag \in Nat /\ stHead \in Nat
      /\ stRow.state \in Seq(Nat) /\ stLog \in Seq(Entries) /\ stProvider \in Adapters
  BY DEF StInv, StShape, Rows
<1>4. /\ w \in Nat /\ w \in 0..MaxStWrites /\ stClient[c].view \in Seq(Nat) /\ stClient[c].etag \in Nat
  BY <1>1, StAssumption DEF StInv, StShape, Knowledge
<1>5. stRow.has
  BY <1>1, <1>4, MatchesCurrent DEF StInv
<1>6. /\ stLog' = Append(stLog, e)
      /\ stProvider = "object" => stRow' = stRow /\ stHead' = NextEtag
      /\ stProvider # "object" => stRow' = [stRow EXCEPT !.etag = NextEtag] /\ stHead' = 0
      /\ stHead' = AppendTo(w).head /\ stRow' = AppendTo(w).row
  BY <1>1, AppendedTo DEF StInv, Becomes
<1>7. /\ stRow' \in Rows /\ stRow'.has /\ stRow'.state = stRow.state
      /\ stRow'.etag = IF stProvider = "object" THEN stRow.etag ELSE NextEtag
      /\ stHead' = IF stProvider = "object" THEN NextEtag ELSE 0
  <2>1. CASE stProvider = "object" BY <1>3, <1>5, <1>6, <2>1
  <2>2. CASE stProvider # "object" BY <1>2, <1>3, <1>5, <1>6, <2>2 DEF Rows
  <2> QED BY <2>1, <2>2
<1>8. LandsFor(c, Append(stClient[c].view, w), NextEtag, {w})
  <2>1. (IF stHead' # 0 THEN stHead' ELSE stRow'.etag) = NextEtag
    BY <1>2, <1>7
  <2> QED BY <1>1, <1>6, <2>1
<1>9. /\ e \in Entries /\ stLog' \in Seq(Entries)
      /\ Len(stLog') = Len(stLog) + 1 /\ Len(stLog) \in Nat
      /\ stLog'[Len(stLog) + 1] = e
      /\ \A i \in 1..Len(stLog) : stLog'[i] = stLog[i]
  <2>1. e \in Entries BY <1>2, <1>4 DEF Entries
  <2> HIDE DEF e
  <2> QED BY <1>3, <1>6, <2>1
<1>10. stProvider = "object" => NextEtag > stRow.etag
  BY <1>2, <1>3, <1>5 DEF StInv, StRecord, TopEtag, Restarting, CurrentEtag
<1>11. ASSUME stProvider = "object", NEW i \in 1..Len(stLog') PROVE stLog'[i].ord > stRow'.etag
  <2>1. CASE i \in 1..Len(stLog)
    BY <1>7, <1>9, <1>11, <2>1 DEF StInv, StRecord
  <2>2. CASE i = Len(stLog) + 1
    BY <1>7, <1>9, <1>10, <1>11, <2>2
  <2> QED BY <1>9, <2>1, <2>2
<1>12. StRecord'
  BY <1>1, <1>2, <1>3, <1>5, <1>7, <1>10, <1>11 DEF StInv, StRecord, NullEtag
<1>13. CurrentEtag' = NextEtag
  BY <1>2, <1>7 DEF CurrentEtag
<1>14. Content' = Append(Content, w)
  <2>1. Content' = ContentOf(stProvider', stRow', stLog')
    <3>1. (Content = ContentOf(stProvider, stRow, stLog))' BY ContentIs, PTL
    <3> QED BY <3>1
  <2>2. /\ Content \in Seq(Nat) /\ Len(Content) = Len(stRow.state) + Len(stLog)
        /\ \A i \in 1..Len(stRow.state) : Content[i] = stRow.state[i]
        /\ \A i \in 1..Len(stLog) : Content[Len(stRow.state) + i] = stLog[i].w
    <3>1. stRow \in Rows /\ stLog \in Seq(Entries)
          /\ (stProvider = "object" => \A i \in 1..Len(stLog) : stLog[i].ord > stRow.etag)
      BY <1>3 DEF StInv, StRecord, StShape
    <3>2. /\ ContentOf(stProvider, stRow, stLog) \in Seq(Nat)
          /\ Len(ContentOf(stProvider, stRow, stLog)) = Len(stRow.state) + Len(stLog)
          /\ \A i \in 1..Len(stRow.state) : ContentOf(stProvider, stRow, stLog)[i] = stRow.state[i]
          /\ \A i \in 1..Len(stLog) :
               ContentOf(stProvider, stRow, stLog)[Len(stRow.state) + i] = stLog[i].w
      BY <3>1, ContentOfRecord
    <3> QED BY <3>2, ContentIs
  <2>3. /\ Content' \in Seq(Nat) /\ Len(Content') = Len(stRow.state) + Len(stLog')
        /\ \A i \in 1..Len(stRow.state) : Content'[i] = stRow.state[i]
        /\ \A i \in 1..Len(stLog') : Content'[Len(stRow.state) + i] = stLog'[i].w
    <3> DEFINE r == stRow'
               l == stLog'
               q == stProvider'
    <3>1. r \in Rows /\ l \in Seq(Entries) /\ (q = "object" => \A i \in 1..Len(l) : l[i].ord > r.etag)
      BY <1>1, <1>7, <1>9, <1>11
    <3> HIDE DEF r, l, q
    <3>2. /\ ContentOf(q, r, l) \in Seq(Nat)
          /\ Len(ContentOf(q, r, l)) = Len(r.state) + Len(l)
          /\ \A i \in 1..Len(r.state) : ContentOf(q, r, l)[i] = r.state[i]
          /\ \A i \in 1..Len(l) : ContentOf(q, r, l)[Len(r.state) + i] = l[i].w
      BY <3>1, ContentOfRecord
    <3> QED BY <1>7, <2>1, <3>2 DEF r, l, q
  <2> DEFINE a == Len(stRow.state)
             b == Len(stLog)
             old == Content
             new == Content'
  <2>4. /\ a \in Nat /\ b \in Nat /\ Len(stRow.state) = a /\ Len(stLog) = b
        /\ Len(stLog') = b + 1
    BY <1>3, <1>9
  <2> HIDE DEF a, b
  <2>5. /\ old \in Seq(Nat) /\ Len(old) = a + b /\ new \in Seq(Nat) /\ Len(new) = a + b + 1
    <3>1. Len(new) = a + (b + 1) BY <2>3, <2>4
    <3> QED BY <2>2, <2>3, <2>4, <3>1
  <2>6. /\ \A i \in 1..a : new[i] = old[i]
        /\ \A i \in 1..b : new[a + i] = old[a + i]
        /\ new[a + b + 1] = w
    <3>1. \A i \in 1..b : i \in 1..Len(stLog') /\ stLog'[i].w = stLog[i].w
      BY <1>9, <2>4
    <3>2. b + 1 \in 1..Len(stLog') /\ stLog'[b + 1].w = w
      BY <1>9, <2>4
    <3>3. new[a + (b + 1)] = w BY <2>3, <2>4, <3>2
    <3>4. a + (b + 1) = a + b + 1 BY <2>4
    <3>5. \A i \in 1..a : new[i] = old[i] BY <2>2, <2>3, <2>4
    <3>6. \A i \in 1..b : new[a + i] = old[a + i] BY <2>2, <2>3, <2>4, <3>1
    <3> QED BY <3>3, <3>4, <3>5, <3>6
  <2> HIDE DEF old, new
  <2>7. ASSUME NEW i \in 1..(a + b + 1) PROVE new[i] = Append(old, w)[i]
    <3>1. CASE i \in 1..a BY <1>4, <2>4, <2>5, <2>6, <3>1
    <3>2. CASE i \in (a + 1)..(a + b)
      <4>1. i - a \in 1..b /\ a + (i - a) = i BY <2>4, <3>2
      <4>2. new[i] = old[i] BY <2>6, <4>1
      <4> QED BY <1>4, <2>4, <2>5, <3>2, <4>2
    <3>3. CASE i = a + b + 1
      <4>1. Append(old, w)[Len(old) + 1] = w BY <1>4, <2>5
      <4> QED BY <2>5, <2>6, <3>3, <4>1
    <3>4. i \in 1..a \/ i \in (a + 1)..(a + b) \/ i = a + b + 1 BY <2>4
    <3> QED BY <3>1, <3>2, <3>3, <3>4
  <2>8. Append(old, w) \in Seq(Nat) /\ Len(Append(old, w)) = a + b + 1
    BY <1>4, <2>5
  <2>9. new = Append(old, w) BY <2>5, <2>7, <2>8, SeqEqual
  <2> QED BY <2>9 DEF old, new
<1> HIDE DEF e
<1>15. /\ StOnce' /\ StFresh' /\ stClient' \in [StClients -> Knowledge]
       /\ stBound' \in [writes : {w}, clears : {stBound.clears}, lost : Nat]
       /\ stAcked' \subseteq 1..w
  BY <1>1, <1>8, <1>13, <1>14, WriteIsKept
<1>16. StShape'
  BY <1>1, <1>2, <1>4, <1>7, <1>9, <1>15 DEF StShape, StInv
<1> QED BY <1>12, <1>15, <1>16 DEF StInv

LEMMA ClearKeeps ==
  ASSUME StInv, NEW c \in StClients, StClear(c)
  PROVE  StInv'
<1> DEFINE k == [Unknowing EXCEPT !.knows = TRUE]
<1>0. k \in Knowledge /\ k.view = <<>> /\ k.etag = NullEtag
  <2>1. Unknowing \in Knowledge /\ Unknowing.view = <<>> /\ Unknowing.etag = NullEtag
    BY DEF Unknowing, Knowledge, NullEtag
  <2> QED BY <2>1 DEF Knowledge
<1>1. /\ stClient' = [stClient EXCEPT ![c] = k]
      /\ stAcked' = {} /\ stMinted' = stMinted /\ stProvider' = stProvider
      /\ stBound' = [stBound EXCEPT !.clears = @ + 1]
  BY DEF StClear
<1> HIDE DEF k
<1>2. stRow' = NoStRow /\ stLog' = <<>> /\ stHead' = 0
  <2>1. CASE ~stRow.has
    BY <2>1 DEF StClear, Becomes, Store, StInv, StRecord
  <2>2. CASE stRow.has
    BY <2>2 DEF StClear, Becomes, Store, StInv, StRecord, ClearTo, ObjectClearAll, RowClear
  <2> QED BY <2>1, <2>2
<1>3. /\ stBound'.writes = stBound.writes /\ stBound'.clears = stBound.clears + 1
      /\ stBound' \in [writes : 0..MaxStWrites, clears : Nat, lost : Nat]
      /\ stBound.clears \in Nat /\ stMinted \in Nat
  BY <1>1, StAssumption DEF StInv, StShape
<1>5. /\ stClient' \in [StClients -> Knowledge] /\ stClient'[c] = k
      /\ \A d \in StClients \ {c} : stClient'[d] = stClient[d]
      /\ \A d \in StClients : stClient[d].etag \in Nat
  BY <1>0, <1>1 DEF StInv, StShape, Knowledge
<1>6. stRow' \in Rows /\ stLog' \in Seq(Entries) /\ stHead' \in Nat
  BY <1>2 DEF Rows, NoStRow, NullEtag
<1>7. StShape' BY <1>1, <1>3, <1>5, <1>6 DEF StInv, StShape
<1>8. StRecord' BY <1>2 DEF StRecord, NoStRow
<1>9. Content' = <<>> /\ CurrentEtag' = 0
  <2>1. Content' = ContentOf(stProvider', stRow', stLog')
    <3>1. (Content = ContentOf(stProvider, stRow, stLog))' BY ContentIs, PTL
    <3> QED BY <3>1
  <2>2. stRow'.state = <<>> /\ Len(stLog') = 0 /\ Len(stRow'.state) = 0 BY <1>2 DEF NoStRow
  <2>3. Content' \in Seq(Nat) /\ Len(Content') = 0
    <3> DEFINE r == stRow'
               l == stLog'
               q == stProvider'
    <3>1. r \in Rows /\ l \in Seq(Entries) /\ \A i \in 1..Len(l) : l[i].ord > r.etag
      BY <1>6, <2>2
    <3> HIDE DEF r, l, q
    <3>2. /\ ContentOf(q, r, l) \in Seq(Nat)
          /\ Len(ContentOf(q, r, l)) = Len(r.state) + Len(l)
      BY <3>1, ContentOfRecord
    <3> QED BY <2>1, <2>2, <3>2 DEF r, l, q
  <2>4. Content' = <<>> BY <2>3
  <2> QED BY <1>2, <2>4 DEF CurrentEtag, NoStRow, NullEtag
<1>10. StOnce'
  <2>1. OnceIn(<<>>, stBound.writes) BY DEF OnceIn
  <2>2. \A d \in StClients : OnceIn(stClient'[d].view, stBound.writes)
    BY <1>0, <1>5, <2>1 DEF StInv, StOnce
  <2> QED BY <1>3, <1>9, <2>1, <2>2 DEF StOnce
<1>11. StFresh'
  <2> SUFFICES ASSUME stProvider \notin Restarting
               PROVE  /\ stAcked' \subseteq {Content'[i] : i \in 1..Len(Content')}
                      /\ CurrentEtag' <= TopEtag'
                      /\ \A d \in StClients : stClient'[d].knows =>
                           /\ stClient'[d].etag <= TopEtag'
                           /\ stClient'[d].etag = CurrentEtag' => stClient'[d].view = Content'
                           /\ stClient'[d].etag = NullEtag => stClient'[d].view = <<>>
    BY <1>1, <1>3 DEF StFresh, Restarting
  <2>1. TopEtag' = stMinted /\ TopEtag = stMinted BY <1>1 DEF TopEtag, Restarting
  <2>2. \A d \in StClients : stClient[d].knows =>
             /\ stClient[d].etag <= TopEtag
             /\ stClient[d].etag = NullEtag => stClient[d].view = <<>>
    BY DEF StInv, StFresh
  <2>3. ASSUME NEW d \in StClients, stClient'[d].knows
        PROVE  /\ stClient'[d].etag <= TopEtag'
               /\ stClient'[d].etag = CurrentEtag' => stClient'[d].view = Content'
               /\ stClient'[d].etag = NullEtag => stClient'[d].view = <<>>
    <3>1. CASE d # c BY <1>5, <1>9, <2>1, <2>2, <2>3, <3>1 DEF NullEtag
    <3>2. CASE d = c BY <1>0, <1>3, <1>5, <1>9, <2>1, <3>2 DEF NullEtag
    <3> QED BY <3>1, <3>2
  <2> QED BY <1>1, <1>3, <1>9, <2>1, <2>3
<1> QED BY <1>7, <1>8, <1>10, <1>11 DEF StInv

LEMMA StorageStep ==
  ASSUME StInv, StNext
  PROVE  StInv'
<1>1. PICK c \in StClients : StLoad(c) \/ StRefuse(c) \/ StSave(c) \/ StAppend(c) \/ StClear(c)
  BY DEF StNext
<1>2. CASE StLoad(c) BY <1>2, LearningKeeps DEF StLoad
<1>3. CASE StRefuse(c) BY <1>3, LearningKeeps DEF StRefuse
<1> QED BY <1>1, <1>2, <1>3, SaveKeeps, AppendKeeps, ClearKeeps

LEMMA StorageStarts ==
  ASSUME StInit
  PROVE  StInv
<1>1. StShape
  BY StAssumption DEF StInit, StShape, Adapters, Rows, NoStRow, Knowledge, Unknowing, NullEtag
<1>2. StRecord
  BY DEF StInit, StRecord, NoStRow, NullEtag
<1>3. Content = <<>>
  <2>1. Content \in Seq(Nat) BY <1>1, <1>2, ContentType
  <2>2. Len(Content) = Len(stRow.state) + Len(stLog)
    BY <1>1, <1>2, ContentOfRecord, ContentIs DEF StShape, StRecord
  <2>3. Len(Content) = 0 BY <2>2 DEF StInit, NoStRow
  <2> QED BY <2>1, <2>3
<1>4. CurrentEtag = 0 /\ TopEtag = 0
  BY DEF StInit, CurrentEtag, TopEtag, NoStRow, NullEtag
<1>5. StOnce BY <1>3 DEF StOnce, OnceIn, StInit, Unknowing
<1>6. StFresh BY <1>3, <1>4 DEF StFresh, StInit, Unknowing
<1> QED BY <1>1, <1>2, <1>5, <1>6 DEF StInv

\* The properties of the storage that the run checks.
LEMMA StorageKeeps ==
  ASSUME StInv
  PROVE  StTypeOK /\ NoLostUpdate /\ ReplayedOnce
<1> DEFINE s == Content
           n == Len(s)
           words == {s[i] : i \in 1..n}
           f == [i \in 1..n |-> s[i]]
<1>1. s \in Seq(Nat) BY ContentType DEF StInv
<1>2. n \in Nat BY <1>1
<1>3. \A i, j \in 1..n : s[i] = s[j] => i = j BY DEF StInv, StOnce, OnceIn
<1>4. f \in Bijection(1..n, words)
  <2> HIDE DEF s, n
  <2>1. f \in [1..n -> words] OBVIOUS
  <2>2. \A i, j \in 1..n : f[i] = f[j] => i = j BY <1>3
  <2>3. \A x \in words : \E i \in 1..n : f[i] = x OBVIOUS
  <2> QED BY <2>1, <2>2, <2>3 DEF Bijection, Injection, Surjection, IsInjective
<1>5. Cardinality(words) = n
  <2> HIDE DEF s, n, f, words
  <2> QED BY <1>2, <1>4, FS_CountingElements DEF ExistsBijection
<1>6. ReplayedOnce BY <1>5 DEF ReplayedOnce
<1>7. StTypeOK
  BY StAssumption DEF StInv, StShape, StRecord, StTypeOK, Rows, Knowledge
<1>8. NoLostUpdate BY DEF StInv, StFresh, NoLostUpdate
<1> QED BY <1>6, <1>7, <1>8
-----------------------------------------------------------------------------
(* The directory.                                                          *)

DirShape ==
  /\ entry = [a \in DirActors |-> entry[a]]
  /\ holds = [h \in DirHosts |-> holds[h]]
  /\ \A h \in DirHosts : holds[h] = [a \in DirActors |-> holds[h][a]]
  /\ racing = [h \in DirHosts |-> racing[h]]
  /\ minted \in Nat

\* A claim that surreal runs again is of an activation that was minted.
RacesMinted ==
  \A h \in DirHosts : racing[h] # NoRace =>
    racing[h].actor \in DirActors /\ racing[h].id \in 1..minted

DirInv == DirShape /\ RacesMinted /\ DirTypeOK /\ HeldUnlessEvicted

\* What a host learns it holds is what it asked for.
LEMMA LearnsItsOwn ==
  ASSUME DirInv, NEW h \in DirHosts, NEW a \in DirActors, NEW won, NEW mine,
         Learns(h, a, won, mine)
  PROVE  /\ holds' = [k \in DirHosts |-> holds'[k]]
         /\ \A k \in DirHosts : holds'[k] = [b \in DirActors |-> holds'[k][b]]
         /\ \A k \in DirHosts, b \in DirActors :
              \/ holds'[k][b] = holds[k][b]
              \/ k = h /\ b = a /\ won = mine /\ holds'[k][b] = mine
<1>1. holds' = holds \/ (won = mine /\ holds' = [holds EXCEPT ![h][a] = mine])
  <2>1. CASE won = mine BY <2>1 DEF Learns, Taken
  <2>2. CASE won # mine BY <2>2 DEF Learns, Taken
  <2> QED BY <2>1, <2>2
<1>2. CASE holds' = holds
  BY <1>2 DEF DirInv, DirShape
<1>3. CASE won = mine /\ holds' = [holds EXCEPT ![h][a] = mine]
  <2>1. /\ holds'[h] = [holds[h] EXCEPT ![a] = mine]
        /\ \A k \in DirHosts \ {h} : holds'[k] = holds[k]
    BY <1>3 DEF DirInv, DirShape
  <2>2. \A k \in DirHosts : holds'[k] = [b \in DirActors |-> holds'[k][b]]
    BY <2>1 DEF DirInv, DirShape
  <2>3. holds' = [k \in DirHosts |-> holds'[k]]
    BY <1>3 DEF DirInv, DirShape
  <2>4. \A b \in DirActors : holds'[h][b] = IF b = a THEN mine ELSE holds[h][b]
    BY <2>1 DEF DirInv, DirShape
  <2> QED BY <1>3, <2>1, <2>2, <2>3, <2>4
<1> QED BY <1>1, <1>2, <1>3

\* A claim: the entry that stands is the winner, and no other entry moves.
LEMMA ClaimKeeps ==
  ASSUME DirInv, NEW h \in DirHosts, NEW a \in DirActors, NEW won, NEW id,
         id \in 1..minted',
         won = entry[a] \/ (entry[a] = NoOwner /\ won = [host |-> h, id |-> id]),
         Learns(h, a, won, [host |-> h, id |-> id]),
         entry' = [entry EXCEPT ![a] = won],
         minted' \in Nat, minted <= minted', RacesMinted',
         racing' = [k \in DirHosts |-> racing'[k]],
         UNCHANGED <<backend, takenFrom>>
  PROVE  DirInv'
<1> DEFINE mine == [host |-> h, id |-> id]
<1>1. mine # NoOwner /\ mine.host = h /\ mine.id = id
  <2>1. id # 0 /\ mine.id = id /\ mine.host = h OBVIOUS
  <2>2. NoOwner.id = 0 BY DEF NoOwner
  <2> QED BY <2>1, <2>2
<1> HIDE DEF mine
<1>2. /\ holds' = [k \in DirHosts |-> holds'[k]]
      /\ \A k \in DirHosts : holds'[k] = [b \in DirActors |-> holds'[k][b]]
      /\ \A k \in DirHosts, b \in DirActors :
           \/ holds'[k][b] = holds[k][b]
           \/ k = h /\ b = a /\ won = mine /\ holds'[k][b] = mine
  BY LearnsItsOwn DEF mine
<1>3. /\ entry' = [b \in DirActors |-> entry'[b]]
      /\ entry'[a] = won
      /\ \A b \in DirActors \ {a} : entry'[b] = entry[b]
  BY DEF DirInv, DirShape
<1>4. won = entry[a] \/ (entry[a] = NoOwner /\ won = mine)
  BY DEF mine
<1>5. minted \in Nat /\ 1..minted \subseteq 1..minted'
  BY DEF DirInv, DirShape
<1>6. DirShape' BY <1>2, <1>3 DEF DirShape
<1>7. ASSUME NEW b \in DirActors, entry'[b] # NoOwner
      PROVE  entry'[b].host \in DirHosts /\ entry'[b].id \in 1..minted'
  <2>1. CASE entry'[b] = entry[b]
    BY <1>5, <1>7, <2>1 DEF DirInv, DirTypeOK
  <2>2. CASE b = a /\ won = mine
    BY <1>1, <1>3, <2>2
  <2> QED BY <1>3, <1>4, <2>1, <2>2
<1>8. ASSUME NEW k \in DirHosts, NEW b \in DirActors, holds'[k][b] # NoOwner
      PROVE  /\ holds'[k][b].host = k
             /\ entry'[b] = holds'[k][b] \/ holds'[k][b] \in takenFrom'
  <2>1. CASE holds'[k][b] = holds[k][b]
    <3>1. /\ holds[k][b].host = k
          /\ entry[b] = holds[k][b] \/ holds[k][b] \in takenFrom
      BY <1>8, <2>1 DEF DirInv, DirTypeOK, HeldUnlessEvicted
    <3>2. entry[b] = holds[k][b] => entry'[b] = entry[b]
      BY <1>3, <1>4, <1>8, <2>1
    <3> QED BY <2>1, <3>1, <3>2
  <2>2. CASE k = h /\ b = a /\ won = mine /\ holds'[k][b] = mine
    BY <1>1, <1>3, <2>2
  <2> QED BY <1>2, <2>1, <2>2
<1>9. DirTypeOK' BY <1>7, <1>8 DEF DirInv, DirTypeOK
<1>10. HeldUnlessEvicted' BY <1>8 DEF HeldUnlessEvicted
<1> QED BY <1>6, <1>9, <1>10 DEF DirInv

\* An entry that goes was evicted, or nobody holds it.
LEMMA RemovalKeeps ==
  ASSUME DirInv, UNCHANGED <<backend, racing, minted>>,
         entry' = [a \in DirActors |-> entry'[a]],
         holds' = [h \in DirHosts |-> holds'[h]],
         \A h \in DirHosts : holds'[h] = [a \in DirActors |-> holds'[h][a]],
         \A a \in DirActors : entry'[a] = entry[a] \/ entry'[a] = NoOwner,
         \A h \in DirHosts, a \in DirActors : holds'[h][a] = holds[h][a] \/ holds'[h][a] = NoOwner,
         takenFrom \subseteq takenFrom',
         \A h \in DirHosts, a \in DirActors :
            holds'[h][a] # NoOwner /\ holds'[h][a] = entry[a] =>
               entry'[a] = entry[a] \/ entry[a] \in takenFrom'
  PROVE  DirInv'
<1>1. DirShape' BY DEF DirInv, DirShape
<1>2. RacesMinted' BY DEF DirInv, RacesMinted
<1>3. DirTypeOK'
  BY DEF DirInv, DirTypeOK
<1>4. HeldUnlessEvicted'
  BY DEF DirInv, HeldUnlessEvicted
<1> QED BY <1>1, <1>2, <1>3, <1>4 DEF DirInv

LEMMA DirectoryStep ==
  ASSUME DirInv, DirNext
  PROVE  DirInv'
<1> USE DEF DirInv
<1>1. ASSUME NEW h \in DirHosts, NEW a \in DirActors, ClaimEntry(h, a) PROVE DirInv'
  <2> DEFINE mine == [host |-> h, id |-> minted + 1]
             won == Winner(a, mine)
  <2>1. /\ backend \in {"memory", "redis", "pg"} /\ minted' = minted + 1
        /\ entry' = [entry EXCEPT ![a] = won]
        /\ Learns(h, a, won, mine) /\ UNCHANGED <<backend, sweep, racing, takenFrom>>
    BY <1>1, DirectoryStoreAssumption DEF ClaimEntry, DirTypeOK
  <2>2. won = entry[a] \/ (entry[a] = NoOwner /\ won = mine)
    <3>1. CASE backend = "memory" BY <3>1 DEF Winner, MemoryClaim
    <3>2. CASE backend = "redis" BY <3>2 DEF Winner, RedisClaim
    <3>3. CASE backend = "pg" BY <3>3 DEF Winner, PgClaim
    <3> QED BY <2>1, <3>1, <3>2, <3>3
  <2> HIDE DEF won
  <2>3. minted' \in Nat /\ minted <= minted' /\ minted + 1 \in 1..minted' /\ 1..minted \subseteq 1..minted'
    BY <2>1 DEF DirShape
  <2>4. RacesMinted' /\ racing' = [k \in DirHosts |-> racing'[k]]
    BY <2>1, <2>3 DEF RacesMinted, DirShape
  <2> QED BY <2>1, <2>2, <2>3, <2>4, ClaimKeeps
<1>2. ASSUME NEW h \in DirHosts, NEW a \in DirActors, SurrealClaim(h, a) PROVE DirInv'
  <2> DEFINE mine == [host |-> h, id |-> minted + 1]
  <2>1. /\ minted' = minted + 1 /\ UNCHANGED <<backend, entry, sweep, takenFrom>>
    BY <1>2 DEF SurrealClaim
  <2>2. minted' \in Nat /\ minted <= minted' /\ minted + 1 \in 1..minted' /\ 1..minted \subseteq 1..minted'
    BY <2>1 DEF DirShape
  <2>3. CASE Learns(h, a, entry[a], mine) /\ UNCHANGED racing
    <3>1. entry' = [entry EXCEPT ![a] = entry[a]] BY <2>1 DEF DirShape
    <3>2. RacesMinted' /\ racing' = [k \in DirHosts |-> racing'[k]]
      BY <2>2, <2>3 DEF RacesMinted, DirShape
    <3> QED BY <2>1, <2>2, <2>3, <3>1, <3>2, ClaimKeeps
  <2>4. CASE racing' = [racing EXCEPT ![h] = [actor |-> a, id |-> mine.id, runs |-> 0]]
             /\ UNCHANGED <<holds, stale, dirCount>>
    <3>1. racing' = [k \in DirHosts |-> racing'[k]] /\ RacesMinted'
      <4>1. racing'[h].actor = a /\ racing'[h].id = minted + 1 BY <2>4 DEF DirShape
      <4>2. \A k \in DirHosts \ {h} : racing'[k] = racing[k] BY <2>4 DEF DirShape
      <4>3. racing' = [k \in DirHosts |-> racing'[k]] BY <2>4 DEF DirShape
      <4> QED BY <2>2, <4>1, <4>2, <4>3 DEF RacesMinted
    <3>2. DirShape' BY <2>1, <2>2, <2>4, <3>1 DEF DirShape
    <3>3. DirTypeOK' BY <2>1, <2>2, <2>4 DEF DirTypeOK
    <3>4. HeldUnlessEvicted' BY <2>1, <2>4 DEF HeldUnlessEvicted
    <3> QED BY <3>1, <3>2, <3>3, <3>4
  <2> QED BY <1>2, <2>3, <2>4 DEF SurrealClaim
<1>3. ASSUME NEW h \in DirHosts, SurrealCommits(h) PROVE DirInv'
  <2> DEFINE a == racing[h].actor
             mine == [host |-> h, id |-> racing[h].id]
  <2>1. /\ racing[h] # NoRace /\ entry[a] = NoOwner /\ entry' = [entry EXCEPT ![a] = mine]
        /\ Learns(h, a, mine, mine) /\ racing' = [racing EXCEPT ![h] = NoRace]
        /\ UNCHANGED <<backend, sweep, minted, takenFrom>>
    BY <1>3 DEF SurrealCommits, CommitsAlone
  <2>2. a \in DirActors /\ racing[h].id \in 1..minted' /\ minted' \in Nat /\ minted <= minted'
    BY <2>1 DEF RacesMinted, DirShape
  <2>3. RacesMinted' /\ racing' = [k \in DirHosts |-> racing'[k]]
    BY <2>1 DEF RacesMinted, DirShape
  <2> HIDE DEF a
  <2> QED BY <2>1, <2>2, <2>3, ClaimKeeps
<1>4. ASSUME NEW h \in DirHosts, SurrealReruns(h) PROVE DirInv'
  <2> DEFINE a == racing[h].actor
             mine == [host |-> h, id |-> racing[h].id]
  <2>1. racing[h] # NoRace /\ UNCHANGED <<backend, entry, sweep, minted, takenFrom>>
    BY <1>4 DEF SurrealReruns
  <2>2. a \in DirActors /\ racing[h].id \in 1..minted' /\ minted' \in Nat /\ minted <= minted'
    BY <2>1 DEF RacesMinted, DirShape
  <2>3. CASE Learns(h, a, entry[a], mine) /\ racing' = [racing EXCEPT ![h] = NoRace]
    <3>1. entry' = [entry EXCEPT ![a] = entry[a]] BY <2>1, <2>2 DEF DirShape
    <3>2. RacesMinted' /\ racing' = [k \in DirHosts |-> racing'[k]]
      BY <2>1, <2>3 DEF RacesMinted, DirShape
    <3> HIDE DEF a
    <3> QED BY <2>1, <2>2, <2>3, <3>1, <3>2, ClaimKeeps
  <2>4. CASE UNCHANGED <<holds, stale, dirCount>>
             /\ (racing' = [racing EXCEPT ![h] = NoRace]
                 \/ racing' = [racing EXCEPT ![h].runs = @ + 1])
    <3>1. racing' = [k \in DirHosts |-> racing'[k]]
      BY <2>4 DEF DirShape
    <3>2. \A k \in DirHosts \ {h} : racing'[k] = racing[k]
      BY <2>4 DEF DirShape
    <3>3. racing'[h] = NoRace
          \/ (racing'[h].actor = racing[h].actor /\ racing'[h].id = racing[h].id)
      <4>1. CASE racing' = [racing EXCEPT ![h] = NoRace] BY <4>1 DEF DirShape
      <4>2. CASE racing' = [racing EXCEPT ![h].runs = @ + 1]
        <5>1. racing'[h] = [racing[h] EXCEPT !.runs = @ + 1] BY <4>2 DEF DirShape
        <5> QED BY <5>1
      <4> QED BY <2>4, <4>1, <4>2
    <3>4. RacesMinted'
      BY <2>1, <2>2, <3>2, <3>3 DEF RacesMinted
    <3>5. DirShape' BY <2>1, <2>4, <3>1 DEF DirShape
    <3>6. DirTypeOK' BY <2>1, <2>4 DEF DirTypeOK
    <3>7. HeldUnlessEvicted' BY <2>1, <2>4 DEF HeldUnlessEvicted
    <3> QED BY <3>4, <3>5, <3>6, <3>7
  <2> QED BY <1>4, <2>3, <2>4 DEF SurrealReruns
<1>5. ASSUME NEW h \in DirHosts, NEW a \in DirActors, LookupEntry(h, a) PROVE DirInv'
  BY <1>5 DEF LookupEntry, DirShape, RacesMinted, DirTypeOK, HeldUnlessEvicted
<1>6. ASSUME NEW h \in DirHosts, NEW a \in DirActors, ReleaseEntry(h, a) PROVE DirInv'
  <2>1. /\ holds[h][a] # NoOwner /\ holds' = [holds EXCEPT ![h][a] = NoOwner]
        /\ entry' = entry \/ entry' = Deleted(a, holds[h][a])
        /\ UNCHANGED <<backend, stale, sweep, racing, minted, takenFrom>>
    BY <1>6 DEF ReleaseEntry
  <2>2. /\ holds'[h] = [holds[h] EXCEPT ![a] = NoOwner]
        /\ \A k \in DirHosts \ {h} : holds'[k] = holds[k]
        /\ holds' = [k \in DirHosts |-> holds'[k]]
    BY <2>1 DEF DirShape
  <2>3. /\ \A k \in DirHosts : holds'[k] = [b \in DirActors |-> holds'[k][b]]
        /\ \A k \in DirHosts, b \in DirActors :
              holds'[k][b] = IF k = h /\ b = a THEN NoOwner ELSE holds[k][b]
    BY <2>2 DEF DirShape
  <2>4. entry' = entry \/ (entry[a] = holds[h][a] /\ entry' = [entry EXCEPT ![a] = NoOwner])
    BY <2>1 DEF Deleted, MatchesEntry
  <2>5. /\ entry' = [b \in DirActors |-> entry'[b]]
        /\ \A b \in DirActors : \/ entry'[b] = entry[b]
                                \/ entry'[b] = NoOwner /\ b = a /\ entry[a] = holds[h][a]
    BY <2>4 DEF DirShape
  <2>6. ASSUME NEW k \in DirHosts, NEW b \in DirActors,
               holds'[k][b] # NoOwner, holds'[k][b] = entry[b]
        PROVE  entry'[b] = entry[b]
    <3>1. holds'[k][b] = holds[k][b] /\ ~(k = h /\ b = a) BY <2>3, <2>6
    <3>2. holds[k][b].host = k /\ holds[h][a].host = h BY <2>1, <2>6, <3>1 DEF DirTypeOK
    <3>3. ~(b = a /\ entry[a] = holds[h][a]) BY <2>6, <3>1, <3>2
    <3> QED BY <2>5, <3>3
  <2> QED BY <2>1, <2>2, <2>3, <2>5, <2>6, RemovalKeeps
<1>7. ASSUME NEW h \in DirHosts, NEW a \in DirActors, EvictEntry(h, a) PROVE DirInv'
  <2>1. /\ entry' = Deleted(a, stale[h][a])
        /\ takenFrom \subseteq takenFrom'
        /\ entry[a] = stale[h][a] => entry[a] \in takenFrom'
        /\ UNCHANGED <<backend, holds, sweep, racing, minted, dirCount>>
    BY <1>7 DEF EvictEntry
  <2>2. entry' = entry \/ (entry[a] = stale[h][a] /\ entry' = [entry EXCEPT ![a] = NoOwner])
    BY <2>1 DEF Deleted, MatchesEntry
  <2>3. /\ entry' = [b \in DirActors |-> entry'[b]]
        /\ \A b \in DirActors : \/ entry'[b] = entry[b]
                                \/ entry'[b] = NoOwner /\ entry[b] \in takenFrom'
    BY <2>1, <2>2 DEF DirShape
  <2> QED BY <2>1, <2>3, RemovalKeeps DEF DirShape
<1>8. ASSUME NEW h \in DirHosts, SweepHost(h) PROVE DirInv'
  <2>1. UNCHANGED <<backend, holds, stale, racing, minted, dirCount>>
    BY <1>8 DEF SweepHost
  <2>2. CASE /\ entry' = [a \in DirActors |-> IF entry[a].host = h THEN NoOwner ELSE entry[a]]
             /\ takenFrom' = takenFrom \cup {entry[a] : a \in {b \in DirActors : entry[b].host = h}}
    <3>1. /\ entry' = [b \in DirActors |-> entry'[b]]
          /\ \A b \in DirActors : \/ entry'[b] = entry[b]
                                  \/ entry'[b] = NoOwner /\ entry[b] \in takenFrom'
      BY <2>2
    <3> QED BY <2>1, <2>2, <3>1, RemovalKeeps DEF DirShape
  <2>3. CASE UNCHANGED <<entry, takenFrom>>
    BY <2>1, <2>3, RemovalKeeps DEF DirShape
  <2> QED BY <1>8, <2>2, <2>3 DEF SweepHost
<1>9. ASSUME NEW a \in DirActors, SweepKey(a) PROVE DirInv'
  <2>1. UNCHANGED <<backend, holds, stale, racing, minted, dirCount>>
    BY <1>9 DEF SweepKey
  <2>2. CASE entry' = [entry EXCEPT ![a] = NoOwner] /\ takenFrom' = takenFrom \cup {entry[a]}
    <3>1. /\ entry' = [b \in DirActors |-> entry'[b]]
          /\ \A b \in DirActors : \/ entry'[b] = entry[b]
                                  \/ entry'[b] = NoOwner /\ entry[b] \in takenFrom'
      BY <2>2 DEF DirShape
    <3> QED BY <2>1, <2>2, <3>1, RemovalKeeps DEF DirShape
  <2>3. CASE UNCHANGED <<entry, takenFrom>>
    BY <2>1, <2>3, RemovalKeeps DEF DirShape
  <2> QED BY <1>9, <2>2, <2>3 DEF SweepKey, DelIfOwner
<1>10. ASSUME SweepEnds PROVE DirInv'
  BY <1>10 DEF SweepEnds, DirShape, RacesMinted, DirTypeOK, HeldUnlessEvicted
<1> QED BY <1>1, <1>2, <1>3, <1>4, <1>5, <1>6, <1>7, <1>8, <1>9, <1>10 DEF DirNext

LEMMA DirectoryStarts ==
  ASSUME DirInit
  PROVE  DirInv
BY DEF DirInit, DirInv, DirShape, RacesMinted, DirTypeOK, HeldUnlessEvicted
-----------------------------------------------------------------------------
(* Both, in the composition.                                               *)

StoresInv ==
  /\ focus \in Components
  /\ focus = "storage" => StInv
  /\ focus = "directory" => DirInv

LEMMA StoresStart == ClusterInit => StoresInv
BY StorageStarts, DirectoryStarts DEF ClusterInit, StoresInv

LEMMA StoresStep == StoresInv /\ [ClusterNext]_clusterVars => StoresInv'
<1> SUFFICES ASSUME StoresInv, [ClusterNext]_clusterVars PROVE StoresInv'
  OBVIOUS
<1>1. CASE focus = "storage" /\ StNext /\ UNCHANGED focus
  BY <1>1, StorageStep DEF StoresInv, Components
<1>2. CASE focus = "directory" /\ DirNext /\ UNCHANGED focus
  BY <1>2, DirectoryStep DEF StoresInv, Components
<1>3. CASE focus \notin {"storage", "directory"} /\ UNCHANGED focus
  BY <1>3 DEF StoresInv, Components
<1>4. CASE UNCHANGED clusterVars
  <2>1. UNCHANGED <<focus, storageVars, dirVars>> BY <1>4 DEF clusterVars
  <2>2. StInv => StInv'
    <3>1. UNCHANGED <<stProvider, stRow, stLog, stHead, stMinted, stClient, stAcked, stBound>>
      BY <2>1 DEF storageVars
    <3>2. Content' = Content /\ CurrentEtag' = CurrentEtag /\ TopEtag' = TopEtag
      BY <3>1 DEF Content, Replayed, Superseded, CurrentEtag, TopEtag, Restarting
    <3> QED BY <3>1, <3>2 DEF StInv, StShape, StRecord, StOnce, StFresh, Restarting
  <2>3. DirInv => DirInv'
    BY <2>1 DEF dirVars, DirInv, DirShape, RacesMinted, DirTypeOK, HeldUnlessEvicted
  <2> QED BY <2>1, <2>2, <2>3 DEF StoresInv, Components
<1> QED BY <1>1, <1>2, <1>3, <1>4 DEF ClusterNext

\* StoresNeverLoseAWrite: whatever answers are lost and whichever stale client or host
\* still writes, releases or evicts, the stores keep what they told their callers
\* (storage-memory.ts, redis, postgres, sqlite, surreal, files, Durable Objects; the
\* directory hub and its stores).
THEOREM StoresKeepWrites == ClusterSpec => []StoresNeverLoseAWrite
<1>1. StoresInv => StoresNeverLoseAWrite
  BY StorageKeeps DEF StoresInv, StoresNeverLoseAWrite, DirInv
<1> QED BY <1>1, StoresStart, StoresStep, PTL DEF ClusterSpec

-----------------------------------------------------------------------------
(* Membership: a host, its lease and who may take its claims.              *)

BeatWrites == [st : {"free", "sent", "landed", "gone"}, wall : -1..MaxNow, join : BOOLEAN]
MemberStates ==
  [provider : {"ttl", "lease"}, stateful : BOOLEAN, self : BOOLEAN, left : BOOLEAN,
   joiner : {"none", "write", "arm", "done", "failed"}, intervals : 0..1,
   claims : BOOLEAN, claiming : BOOLEAN, fence : {"no", "asked"}, fenced : BOOLEAN,
   rejoin : {"none", "leave", "join", "backoff"}, check : {"no", "reading"},
   stopping : BOOLEAN]

MemShape ==
  /\ now \in 0..MaxNow /\ lag \in [mono : Nat, wall : 0..1] /\ memCount \in Nat
  /\ rec \in NoRecord..(MaxNow + TTL + LeaseSkew)
  /\ writes \in [Slots -> BeatWrites]
  /\ hb \in [armed : BOOLEAN, mono : Int, wall : Int, suspected : BOOLEAN, at : Nat]
  /\ member \in MemberStates
  /\ leaves \in [{"stop", "own"} -> [st : {"none", "settle", "drain", "done"},
                                     waits : SUBSET Slots]]
  /\ evicted \in [at : Nat, open : Nat]

OnWire(i) == writes[i].st # "free"

\* A host joins once at a time, and nobody starts it twice.
OneJoin ==
  /\ member.joiner = "write" <=> \E i \in Slots : OnWire(i) /\ writes[i].join
  /\ \A i, j \in Slots : OnWire(i) /\ writes[i].join /\ OnWire(j) /\ writes[j].join => i = j
  /\ \A i \in Slots : writes[i].st = "gone" => ~writes[i].join
  /\ member.intervals = 1 => member.joiner = "done"
  /\ member.rejoin = "leave" => member.joiner = "none"
  /\ member.rejoin = "backoff" => member.joiner = "failed"
  /\ member.rejoin = "join" => member.joiner # "none" /\ leaves["own"].st = "done"
  /\ member.rejoin = "join" /\ ~member.stopping => ~member.left
  /\ member.rejoin = "none" /\ member.joiner \in {"write", "arm"} =>
       /\ ~member.left /\ ~member.stopping /\ ~hb.suspected
       /\ member.fence = "no" /\ member.check = "no"
       /\ \A i \in Slots : OnWire(i) => writes[i].join
       /\ member.joiner = "write" => ~hb.armed
  /\ member.rejoin = "none" /\ ~member.stopping /\ hb.armed => member.joiner \in {"arm", "done"}
  /\ member.joiner = "none" /\ member.rejoin = "none" =>
       /\ ~hb.armed /\ ~member.stopping /\ rec = NoRecord
       /\ \A i \in Slots : ~OnWire(i)

\* What a fence, a rejoin and a stop exclude.
OneWayOut ==
  /\ hb.suspected => hb.armed
  /\ member.intervals = 1 => hb.armed
  /\ member.check = "reading" => hb.armed
  /\ \A i \in Slots : OnWire(i) /\ ~writes[i].join => hb.armed
  /\ member.fence = "asked" => /\ hb.armed /\ member.rejoin = "none"
                               /\ ~member.stopping /\ ~member.fenced
  /\ member.rejoin # "none" => ~member.stateful
  /\ member.fenced => member.stateful /\ member.joiner = "done" /\ member.intervals = 0
  /\ member.left /\ member.rejoin = "none" => member.intervals = 0
  /\ member.stopping /\ member.intervals = 1 => member.rejoin = "join"
  /\ member.stopping => ~member.claims /\ ~member.claiming
  /\ member.claims \/ member.claiming => /\ member.stateful /\ hb.armed
                                         /\ member.joiner = "done"

\* A clock that never lagged measures the window; whoever suspects has asked.
WindowKnown ==
  /\ hb.at <= now
  /\ lag.mono = 0 /\ hb.armed => hb.mono = hb.at
  /\ lag.wall = 0 /\ hb.armed => hb.wall = hb.at
  /\ member.stateful /\ hb.suspected =>
       member.fence = "asked" \/ member.fenced \/ member.stopping
  /\ evicted # NotEvicted => member.claims /\ evicted.at <= now
  /\ /\ lag.mono = 0 \/ lag.wall = 0
     /\ evicted # NotEvicted /\ evicted.at > evicted.open + TTL
     => member.fenced \/ member.fence = "asked" \/ hb.at = evicted.open

Draining(t) == leaves[t].st = "drain"

\* Over a TTL provider whatever may put the record back is the host's own, or
\* awaited by a leave that deletes it after.
RecordGivenUp ==
  /\ ~member.stopping => leaves["stop"].st = "none"
  /\ leaves["own"].st \in {"settle", "drain"} =>
       member.rejoin = "leave" \/ member.fenced \/ member.stopping
  /\ member.joiner = "failed" => memCount > 0
  /\ ~Lease => \A i \in Slots : OnWire(i) =>
       \/ member.self
       \/ \E t \in {"stop", "own"} : Draining(t) /\ i \in leaves[t].waits
  /\ ~Lease /\ rec # NoRecord /\ memCount = 0 =>
       member.self \/ \E t \in {"stop", "own"} : Draining(t)
  /\ member.stopping /\ member.self /\ memCount = 0 =>
       \/ \E t \in {"stop", "own"} : leaves[t].st = "settle"
       \/ member.rejoin \in {"leave", "join"}

MemInv == MemShape /\ OneJoin /\ OneWayOut /\ WindowKnown /\ RecordGivenUp

ClockStates == [armed : BOOLEAN, mono : Int, wall : Int, suspected : BOOLEAN, at : Nat]
LeaveStates == [st : {"none", "settle", "drain", "done"}, waits : SUBSET Slots]

\* A judgement asks for a fence or leaves the placement alone.
LEMMA Judges ==
  ASSUME MemShape
  PROVE  /\ Judged(hb) \in ClockStates /\ ClockOpened \in ClockStates
         /\ Suspected(member, hb) \in MemberStates /\ AskFence(member) \in MemberStates
         /\ Fired(hb) \in ClockStates
<1>1. AskFence(member) \in MemberStates BY DEF AskFence, MemShape, MemberStates
<1>2. Fired(hb) \in ClockStates BY DEF Fired, MemShape, ClockStates
<1>3. Suspected(member, hb) \in MemberStates BY <1>1 DEF Suspected, MemShape
<1>4. Judged(hb) \in ClockStates BY <1>2 DEF Judged, MemShape, ClockStates
<1>5. ClockOpened \in ClockStates BY DEF ClockOpened, Mono, Wall, MemShape, ClockStates
<1> QED BY <1>1, <1>2, <1>3, <1>4, <1>5

\* The shape of what a step changes.
LEMMA ShapeOf ==
  ASSUME MemShape, now' \in 0..MaxNow, rec' = rec \/ rec' \in NoRecord..(MaxNow + TTL + LeaseSkew),
         lag' = lag, memCount' \in Nat, evicted' = evicted \/ evicted' \in [at : Nat, open : Nat],
         writes' \in [Slots -> BeatWrites], hb' \in ClockStates,
         member' \in MemberStates, leaves' \in [{"stop", "own"} -> LeaveStates]
  PROVE  MemShape'
BY DEF MemShape, ClockStates, LeaveStates

LEMMA WritesShape ==
  ASSUME MemShape, NEW i \in Slots
  PROVE  /\ \A b \in BOOLEAN : SendIn(i, b) \in [Slots -> BeatWrites]
         /\ [writes EXCEPT ![i] = NoWrite] \in [Slots -> BeatWrites]
         /\ [t \in DOMAIN leaves |-> [leaves[t] EXCEPT !.waits = @ \ {i}]]
              \in [{"stop", "own"} -> LeaveStates]
<1>1. \A b \in BOOLEAN : [st |-> "sent", wall |-> Wall, join |-> b] \in BeatWrites
  BY MembershipAssumption DEF MemShape, BeatWrites, Wall
<1>2. NoWrite \in BeatWrites BY MembershipAssumption DEF NoWrite, BeatWrites
<1>3. writes \in [Slots -> BeatWrites] BY DEF MemShape
<1>4. [t \in DOMAIN leaves |-> [leaves[t] EXCEPT !.waits = @ \ {i}]]
        \in [{"stop", "own"} -> LeaveStates]
  BY DEF MemShape, LeaveStates
<1> QED BY <1>1, <1>2, <1>3, <1>4 DEF SendIn

LEMMA MemberMoves ==
  ASSUME NEW p \in MemberStates
  PROVE  /\ [p EXCEPT !.joiner = "arm"] \in MemberStates /\ [p EXCEPT !.self = FALSE] \in MemberStates
BY ZenonT(60) DEF MemberStates

\* What each step leaves is of that shape.
LEMMA BeatShape == ASSUME MemShape, NEW i \in Slots, Beat(i) PROVE MemShape'
BY Judges, WritesShape, ShapeOf DEF Beat, MemShape, ClockStates, LeaveStates

LEMMA AckShape == ASSUME MemShape, OneJoin, NEW i \in Slots, Ack(i) PROVE MemShape'
<1>1. \/ UNCHANGED member
      \/ member' = AskFence(member)
      \/ member' = [Suspected(member, hb) EXCEPT !.joiner = IF writes[i].join THEN "arm" ELSE @]
  BY DEF Ack, Confirmed
<1>2. \A p \in MemberStates : \A b \in BOOLEAN :
        [p EXCEPT !.joiner = IF b THEN "arm" ELSE @] \in MemberStates BY DEF MemberStates
<1>3. member' \in MemberStates
  <2>1. CASE UNCHANGED member BY <2>1 DEF MemShape
  <2>2. CASE member' = AskFence(member) BY <2>2, Judges
  <2>3. CASE member' = [Suspected(member, hb) EXCEPT !.joiner = IF writes[i].join THEN "arm" ELSE @]
    BY <2>3, <1>2, Judges DEF MemShape, BeatWrites
  <2> QED BY <1>1, <2>1, <2>2, <2>3
<1>4. hb' \in {hb, ClockOpened, Fired(hb)} BY DEF Ack, Confirmed
<1> QED
  BY <1>3, <1>4, Judges, WritesShape, ShapeOf DEF Ack, Freed, NotWaited, MemShape,
     ClockStates, LeaveStates

LEMMA FailShape == ASSUME MemShape, OneJoin, NEW i \in Slots, WriteFails(i) PROVE MemShape'
<1>1. member' = [member EXCEPT !.joiner = "failed"] \/ member' = Suspected(member, hb)
  BY DEF WriteFails
<1>2. [member EXCEPT !.joiner = "failed"] \in MemberStates BY DEF MemShape, MemberStates
<1>3. hb' \in {hb, Judged(hb)} BY DEF WriteFails
<1>4. member' \in MemberStates BY <1>1, <1>2, Judges
<1>5. hb' \in ClockStates BY <1>3, Judges DEF MemShape, ClockStates
<1>6. memCount' \in Nat BY DEF WriteFails, MemFault, MemShape
<1>7. writes' \in [Slots -> BeatWrites] BY WritesShape DEF WriteFails, Freed
<1>8. leaves' \in [{"stop", "own"} -> LeaveStates]
  BY WritesShape DEF WriteFails, NotWaited, MemShape, LeaveStates
<1>9. UNCHANGED <<now, lag, rec, evicted>> BY DEF WriteFails
<1>10. now' \in 0..MaxNow BY <1>9 DEF MemShape
<1> QED BY <1>4, <1>5, <1>6, <1>7, <1>8, <1>9, <1>10, ShapeOf

LEMMA AckLeftShape == ASSUME MemShape, NEW i \in Slots, AckLeft(i) PROVE MemShape'
<1>1. member' \in MemberStates
  BY MemberMoves DEF AckLeft, MemShape
<1>2. writes' \in [Slots -> BeatWrites] BY WritesShape DEF AckLeft, Freed
<1>3. leaves' \in [{"stop", "own"} -> LeaveStates]
  BY WritesShape DEF AckLeft, NotWaited, MemShape, LeaveStates
<1>4. UNCHANGED <<now, lag, rec, hb, evicted, memCount>> BY DEF AckLeft
<1>5. now' \in 0..MaxNow /\ memCount' \in Nat /\ hb' \in ClockStates
  BY <1>4 DEF MemShape, ClockStates
<1> QED BY <1>1, <1>2, <1>3, <1>4, <1>5, ShapeOf

LEMMA StartShape == ASSUME MemShape, OneJoin, NEW i \in Slots, StartMember(i) PROVE MemShape'
<1>2. member' \in MemberStates
  <2>1. PICK pr \in {"ttl", "lease"}, st \in BOOLEAN :
          member' = [member EXCEPT !.provider = pr, !.stateful = st, !.self = TRUE, !.left = FALSE,
                                   !.joiner = "write"]
    BY DEF StartMember
  <2>2. member \in MemberStates BY DEF MemShape
  <2>3. member' = [provider |-> pr, stateful |-> st, self |-> TRUE, left |-> FALSE,
                   joiner |-> "write", intervals |-> member.intervals, claims |-> member.claims,
                   claiming |-> member.claiming, fence |-> member.fence, fenced |-> member.fenced,
                   rejoin |-> member.rejoin, check |-> member.check, stopping |-> member.stopping]
    BY <2>1, <2>2 DEF MemberStates
  <2>4. /\ member.intervals \in 0..1 /\ member.claims \in BOOLEAN /\ member.claiming \in BOOLEAN
        /\ member.fence \in {"no", "asked"} /\ member.fenced \in BOOLEAN
        /\ member.rejoin \in {"none", "leave", "join", "backoff"}
        /\ member.check \in {"no", "reading"} /\ member.stopping \in BOOLEAN
    BY <2>2 DEF MemberStates
  <2> QED BY <2>3, <2>4 DEF MemberStates
<1> QED
  BY <1>2, WritesShape, ShapeOf DEF StartMember, JoinSends, MemShape, ClockStates, LeaveStates

LEMMA TakeShape == ASSUME MemShape, NEW t \in {"stop", "own"}, LeaveTakes(t) PROVE MemShape'
<1>1. member' = [member EXCEPT !.self = FALSE] \/ member' = member BY DEF LeaveTakes
<1>2. member' \in MemberStates BY <1>1, MemberMoves DEF MemShape
<1>3. leaves' \in [{"stop", "own"} -> LeaveStates]
  BY DEF MemShape, LeaveTakes, LeaveStates, Awaited
<1> QED BY <1>2, <1>3, ShapeOf DEF LeaveTakes, MemShape, ClockStates

LEMMA RejoinJoinShape == ASSUME MemShape, NEW i \in Slots, RejoinJoins(i) PROVE MemShape'
<1>1. member' \in MemberStates BY DEF RejoinJoins, MemShape, MemberStates
<1> QED
  BY <1>1, WritesShape, ShapeOf DEF RejoinJoins, JoinSends, MemShape, ClockStates, LeaveStates

LEMMA ArmShape == ASSUME MemShape, OneJoin, JoinArms PROVE MemShape'
<1>1. member.intervals + 1 \in 0..1 BY DEF MemShape, OneJoin, JoinArms, MemberStates
<1> DEFINE n == member.intervals + 1
<1>2. member' = [member EXCEPT !.joiner = "done", !.intervals = n] BY DEF JoinArms
<1> HIDE DEF n
<1>3. n \in 0..1 BY <1>1 DEF n
<1>4. member' \in MemberStates BY <1>2, <1>3 DEF MemShape, MemberStates
<1> QED BY <1>4, Judges, ShapeOf DEF JoinArms, MemShape, LeaveStates

LEMMA LeftShape == ASSUME NEW p \in MemberStates PROVE Left(p) \in MemberStates
<1>1. \A b \in BOOLEAN, n \in 0..1 : [p EXCEPT !.left = b, !.intervals = n] \in MemberStates
  BY DEF MemberStates
<1>2. 0 \in 0..1 OBVIOUS
<1> QED BY <1>1, <1>2 DEF Left

LEMMA BeginsShape ==
  ASSUME MemShape, NEW t \in {"stop", "own"}, LeaveBegins(t)
  PROVE  leaves' \in [{"stop", "own"} -> LeaveStates]
BY DEF LeaveBegins, MemShape, LeaveStates

LEMMA FenceShape == ASSUME MemShape, FenceHost PROVE MemShape'
<1>1. Left(member) \in MemberStates BY LeftShape DEF MemShape
<1>2. member' \in MemberStates BY <1>1 DEF FenceHost, MemberStates
<1> QED BY <1>2, BeginsShape, ShapeOf DEF FenceHost, MemShape, ClockStates, NotEvicted

LEMMA RejoinShape == ASSUME MemShape, RejoinLeaves PROVE MemShape'
<1>1. Left(member) \in MemberStates BY LeftShape DEF MemShape
<1>2. member' \in MemberStates BY <1>1 DEF RejoinLeaves, MemberStates
<1> QED BY <1>2, BeginsShape, ShapeOf DEF RejoinLeaves, MemShape, ClockStates

LEMMA StopShape == ASSUME MemShape, StopMember PROVE MemShape'
<1>1. Left(member) \in MemberStates BY LeftShape DEF MemShape
<1>2. member' \in MemberStates BY <1>1 DEF StopMember, MemberStates
<1> QED BY <1>2, BeginsShape, ShapeOf DEF StopMember, MemShape, ClockStates, NotEvicted

LEMMA RejoinedShape == ASSUME MemShape, RejoinDone PROVE MemShape'
<1>1. Left(member) \in MemberStates BY LeftShape DEF MemShape
<1>2. \A p \in MemberStates : \A r \in {"none", "backoff"} : [p EXCEPT !.rejoin = r] \in MemberStates
  BY DEF MemberStates
<1>3. member' \in MemberStates /\ leaves' \in [{"stop", "own"} -> LeaveStates]
  <2>1. CASE member' = [member EXCEPT !.rejoin = "none"] /\ UNCHANGED leaves
    BY <1>2, <2>1 DEF MemShape, LeaveStates
  <2>2. CASE member' = [Left(member) EXCEPT !.rejoin = "none"] /\ LeaveBegins("own")
    BY <1>1, <1>2, <2>2, BeginsShape
  <2>3. CASE /\ member' = [member EXCEPT !.rejoin = IF member.stopping THEN "none" ELSE "backoff"]
             /\ UNCHANGED leaves
    BY <1>2, <2>3 DEF MemShape, LeaveStates
  <2> QED BY <2>1, <2>2, <2>3 DEF RejoinDone
<1> QED BY <1>3, ShapeOf DEF RejoinDone, MemShape, ClockStates

\* A rejoin that ends.
LEMMA RejoinedKeeps ==
  ASSUME MemShape, OneJoin, OneWayOut, WindowKnown, RecordGivenUp, RejoinDone
  PROVE  OneWayOut' /\ RecordGivenUp'
<1> USE DEF OnWire, Draining, Lease, NoRecord, MemberStates, MemShape, LeaveBegins, Left
<1>1. CASE /\ member.joiner = "done" /\ ~MustUndo
           /\ member' = [member EXCEPT !.rejoin = "none"]
           /\ UNCHANGED leaves
  <2>1. OneWayOut' BY <1>1 DEF RejoinDone, OneWayOut, OneJoin, MustUndo
  <2>2. RecordGivenUp' BY <1>1 DEF RejoinDone, OneWayOut, OneJoin, MustUndo, RecordGivenUp
  <2> QED BY <2>1, <2>2
<1>2. CASE /\ member.joiner = "done" /\ MustUndo
           /\ member' = [Left(member) EXCEPT !.rejoin = "none"]
           /\ LeaveBegins("own")
  <2>1. OneWayOut' BY <1>2 DEF RejoinDone, OneWayOut, OneJoin, MustUndo
  <2>2. RecordGivenUp' BY <1>2 DEF RejoinDone, OneWayOut, OneJoin, MustUndo, RecordGivenUp
  <2> QED BY <2>1, <2>2
<1>3. CASE /\ member.joiner = "failed"
           /\ member' = [member EXCEPT !.rejoin = IF member.stopping THEN "none" ELSE "backoff"]
           /\ UNCHANGED leaves
  <2>1. OneWayOut' BY <1>3 DEF RejoinDone, OneWayOut, OneJoin
  <2>2. RecordGivenUp' BY <1>3 DEF RejoinDone, OneWayOut, OneJoin, RecordGivenUp
  <2> QED BY <2>1, <2>2
<1> QED BY <1>1, <1>2, <1>3 DEF RejoinDone

\* Whether a judgement asks for a fence, and when it may.
LEMMA Asks ==
  ASSUME MemShape
  PROVE  \E f \in {"no", "asked"} :
           /\ Suspected(member, hb) = [member EXCEPT !.fence = f]
           /\ \/ f = member.fence
              \/ /\ f = "asked" /\ hb.armed /\ ~member.stopping /\ ~member.fenced
                 /\ member.rejoin = "none"
<1>1. member = [member EXCEPT !.fence = member.fence] BY DEF MemShape, MemberStates
<1>2. member.fence \in {"no", "asked"} BY DEF MemShape, MemberStates
<1> QED BY <1>1, <1>2 DEF Suspected, Suspects, Lapsed, AskFence

\* A beat that is acknowledged: the join is over, or the host was missing and is fenced.
LEMMA AckKeeps ==
  ASSUME MemShape, OneJoin, OneWayOut, WindowKnown, RecordGivenUp, NEW i \in Slots, Ack(i)
  PROVE  OneJoin' /\ OneWayOut'
<1> USE DEF OnWire, Draining, Lease, NoRecord, MemberStates, MemShape, BeatWrites
<1>1. CASE /\ writes[i].st = "landed" /\ ~(member.left /\ ~Lease)
           /\ hb' = ClockOpened
           /\ member' = [Suspected(member, hb) EXCEPT !.joiner = IF writes[i].join THEN "arm" ELSE @]
  <2>0. PICK f \in {"no", "asked"} :
          /\ Suspected(member, hb) = [member EXCEPT !.fence = f]
          /\ \/ f = member.fence
             \/ /\ f = "asked" /\ hb.armed /\ ~member.stopping /\ ~member.fenced
                /\ member.rejoin = "none"
    BY Asks
  <2>3. CASE writes[i].join
    <3>1. member' = [member EXCEPT !.fence = f, !.joiner = "arm"] BY <1>1, <2>0, <2>3
    <3>2. OneJoin'
      BY <1>1, <2>0, <2>3, <3>1 DEF Ack, Freed, NotWaited, NoWrite, OneJoin, OneWayOut,
         ClockOpened
    <3>3. OneWayOut'
      BY <1>1, <2>0, <2>3, <3>1 DEF Ack, Freed, NotWaited, NoWrite, OneJoin, OneWayOut,
         ClockOpened
    <3> QED BY <3>2, <3>3
  <2>4. CASE ~writes[i].join
    <3>1. member' = [member EXCEPT !.fence = f] BY <1>1, <2>0, <2>4
    <3>2. /\ writes' = [writes EXCEPT ![i] = NoWrite] /\ hb'.armed = TRUE /\ rec' = rec
          /\ hb'.suspected = FALSE
          /\ \A t \in {"stop", "own"} : leaves'[t].st = leaves[t].st
      BY <1>1 DEF Ack, Freed, NotWaited, ClockOpened
    <3>4. \A j \in Slots : writes'[j] = IF j = i THEN NoWrite ELSE writes[j] BY <3>2
    <3>5. /\ member'.joiner = member.joiner /\ member'.intervals = member.intervals
          /\ member'.rejoin = member.rejoin /\ member'.left = member.left
          /\ member'.stopping = member.stopping /\ member'.check = member.check
          /\ member'.fence = f
      BY <3>1
    <3>6. OneJoin'
      <4>1. member.rejoin = "none" => member.joiner \notin {"write", "arm"}
        BY <1>1, <2>4 DEF OneJoin
      <4>5. hb.armed BY <1>1, <2>4 DEF OneWayOut
      <4>2. \A j \in Slots : OnWire(j)' /\ writes'[j].join <=> OnWire(j) /\ writes[j].join
        BY <1>1, <2>4, <3>2, <3>4 DEF NoWrite
      <4>3. leaves'["own"].st = leaves["own"].st BY <3>2
      <4>4. \A j \in Slots :
              /\ OnWire(j)' => OnWire(j)
              /\ writes'[j].st = "gone" =>
                   writes[j].st = "gone" /\ writes'[j].join = writes[j].join
        BY <3>4 DEF NoWrite
      <4> HIDE DEF MemShape, MemberStates, OnWire
      <4> QED BY <1>1, <3>2, <3>5, <4>1, <4>2, <4>3, <4>4, <4>5 DEF OneJoin
    <3>3. OneWayOut'
      BY <1>1, <2>0, <2>4, <3>1 DEF Ack, Freed, NotWaited, NoWrite, OneJoin, OneWayOut,
         ClockOpened
    <3> QED BY <3>6, <3>3
  <2> QED BY <2>3, <2>4
<1>2. CASE /\ writes[i].st = "landed" /\ UNCHANGED <<hb, member>> /\ ~writes[i].join
  BY <1>2 DEF Ack, Freed, NotWaited, NoWrite, OneJoin, OneWayOut
<1>3. CASE /\ writes[i].st = "gone" /\ UNCHANGED <<hb, member>>
  BY <1>3 DEF Ack, Freed, NotWaited, NoWrite, OneJoin, OneWayOut
<1>4. CASE /\ writes[i].st = "gone" /\ hb.armed /\ hb' = Fired(hb) /\ member' = AskFence(member)
  <2>1. OneJoin' BY <1>4 DEF Ack, Freed, NotWaited, NoWrite, OneJoin, OneWayOut, Fired, AskFence
  <2>2. OneWayOut'
    BY <1>4 DEF Ack, Freed, NotWaited, NoWrite, OneJoin, OneWayOut, Fired, AskFence
  <2> QED BY <2>1, <2>2
<1> QED BY <1>1, <1>2, <1>3, <1>4 DEF Ack, Confirmed

\* An acknowledgement moves nothing of a member but its joining and its fence.
LEMMA AckSpares ==
  ASSUME MemShape, NEW i \in Slots, Ack(i)
  PROVE  /\ member'.self = member.self /\ member'.provider = member.provider
         /\ member'.stopping = member.stopping /\ member'.rejoin = member.rejoin
         /\ member'.fenced = member.fenced
         /\ member'.joiner = "failed" => member.joiner = "failed"
         /\ rec' = rec /\ memCount' = memCount
         /\ \A t \in {"stop", "own"} : /\ leaves'[t].st = leaves[t].st
                                       /\ leaves'[t].waits = leaves[t].waits \ {i}
         /\ \A j \in Slots : writes'[j].st # "free" => j # i /\ writes[j].st # "free"
<1> USE DEF MemShape, MemberStates, BeatWrites
<1>1. /\ rec' = rec /\ memCount' = memCount
      /\ \A t \in {"stop", "own"} : /\ leaves'[t].st = leaves[t].st
                                    /\ leaves'[t].waits = leaves[t].waits \ {i}
      /\ \A j \in Slots : writes'[j].st # "free" => j # i /\ writes[j].st # "free"
  BY DEF Ack, Freed, NotWaited, NoWrite
<1>2. \E f \in {"no", "asked"}, k \in {member.joiner, "arm"} :
         member' = [member EXCEPT !.fence = f, !.joiner = k]
  <2>1. CASE UNCHANGED member
    <3>1. member' = [member EXCEPT !.fence = member.fence, !.joiner = member.joiner] BY <2>1
    <3> QED BY <3>1
  <2>2. CASE member' = AskFence(member)
    <3>1. member' = [member EXCEPT !.fence = member.fence, !.joiner = member.joiner]
          \/ member' = [member EXCEPT !.fence = "asked", !.joiner = member.joiner]
      BY <2>2 DEF AskFence
    <3> QED BY <3>1
  <2>3. CASE member' = [Suspected(member, hb) EXCEPT !.joiner = IF writes[i].join THEN "arm" ELSE @]
    <3>1. PICK f \in {"no", "asked"} : Suspected(member, hb) = [member EXCEPT !.fence = f]
      BY Asks
    <3>2. member' = [member EXCEPT !.fence = f, !.joiner = IF writes[i].join THEN "arm" ELSE @]
      BY <2>3, <3>1
    <3> QED BY <3>2
  <2> QED BY <2>1, <2>2, <2>3 DEF Ack, Confirmed
<1>3. PICK f \in {"no", "asked"}, k \in {member.joiner, "arm"} :
         member' = [member EXCEPT !.fence = f, !.joiner = k]
  BY <1>2
<1> QED BY <1>1, <1>3

\* One step of a member keeps all of it.
LEMMA MemStep == MemInv /\ [MemNext]_memVars => MemInv'
<1> SUFFICES ASSUME MemInv, [MemNext]_memVars PROVE MemInv'
  OBVIOUS
<1> USE MembershipAssumption DEF BeatWrites, MemberStates, OnWire, Draining, Lease, NoRecord, NotEvicted
<1>0. MemShape /\ OneJoin /\ OneWayOut /\ WindowKnown /\ RecordGivenUp BY DEF MemInv
<1>1. ASSUME NEW i \in Slots, Beat(i) PROVE MemInv'
  <2>1. MemShape' BY <1>0, <1>1, BeatShape
  <2>2. OneJoin'
    BY <1>0, <1>1 DEF Beat, Judged, Suspected, Suspects, Lapsed, Fired, AskFence, FreeSlot,
       SendIn, Mono, Wall, MemShape, OneJoin
  <2>3. OneWayOut'
    BY <1>0, <1>1 DEF Beat, Judged, Suspected, Suspects, Lapsed, Fired, AskFence, FreeSlot,
       SendIn, Mono, Wall, MemShape, OneWayOut
  <2>4. WindowKnown'
    BY <1>0, <1>1 DEF Beat, Judged, Suspected, Suspects, Lapsed, Fired, AskFence, FreeSlot,
       SendIn, Mono, Wall, MemShape, OneJoin, OneWayOut, WindowKnown
  <2>5. RecordGivenUp'
    BY <1>0, <1>1 DEF Beat, Judged, Suspected, Suspects, Lapsed, Fired, AskFence, FreeSlot,
       SendIn, Mono, Wall, MemShape, RecordGivenUp
  <2> QED BY <2>1, <2>2, <2>3, <2>4, <2>5 DEF MemInv
<1>2. ASSUME NEW i \in Slots, Land(i) PROVE MemInv'
  <2>1. MemShape' BY <1>0, <1>2 DEF Land, MemShape
  <2>2. OneJoin' BY <1>0, <1>2, SMTT(60) DEF Land, MemShape, OneJoin
  <2>3. OneWayOut' BY <1>0, <1>2 DEF Land, MemShape, OneWayOut
  <2>4. WindowKnown' BY <1>0, <1>2 DEF Land, MemShape, WindowKnown
  <2>5. RecordGivenUp' BY <1>0, <1>2 DEF Land, MemShape, RecordGivenUp
  <2> QED BY <2>1, <2>2, <2>3, <2>4, <2>5 DEF MemInv
<1>3. ASSUME NEW i \in Slots, Ack(i) PROVE MemInv'
  <2>1. MemShape' BY <1>0, <1>3, AckShape
  <2>2. OneJoin' BY <1>0, <1>3, AckKeeps
  <2>3. OneWayOut' BY <1>0, <1>3, AckKeeps
  <2>4. WindowKnown'
    BY <1>0, <1>3, SMTT(60) DEF Ack, Confirmed, ClockOpened, Judged, Suspected, Suspects, Lapsed,
       Fired, AskFence, Freed, NotWaited, NoWrite, Mono, Wall, MemShape, OneJoin, OneWayOut,
       WindowKnown
  <2>5. RecordGivenUp' BY <1>0, <1>3, AckSpares DEF MemShape, RecordGivenUp
  <2> QED BY <2>1, <2>2, <2>3, <2>4, <2>5 DEF MemInv
<1>4. ASSUME NEW i \in Slots, AckLeft(i) PROVE MemInv'
  <2>1. MemShape' BY <1>0, <1>4, AckLeftShape
  <2>2. OneJoin' BY <1>0, <1>4 DEF AckLeft, Freed, NotWaited, NoWrite, MemShape, OneJoin
  <2>3. OneWayOut'
    BY <1>0, <1>4 DEF AckLeft, Freed, NotWaited, NoWrite, MemShape, OneJoin, OneWayOut
  <2>4. WindowKnown' BY <1>0, <1>4 DEF AckLeft, Freed, NotWaited, NoWrite, MemShape, WindowKnown
  <2>5. RecordGivenUp'
    BY <1>0, <1>4 DEF AckLeft, Freed, NotWaited, NoWrite, MemShape, RecordGivenUp
  <2> QED BY <2>1, <2>2, <2>3, <2>4, <2>5 DEF MemInv
<1>5. ASSUME NEW i \in Slots, WriteFails(i) PROVE MemInv'
  <2>1. MemShape' BY <1>0, <1>5, FailShape
  <2>2. OneJoin'
    BY <1>0, <1>5 DEF WriteFails, Judged, Suspected, Suspects, Lapsed, Fired, AskFence, Freed,
       NotWaited, NoWrite, Mono, Wall, MemFault, MemShape, OneJoin
  <2>3. OneWayOut'
    BY <1>0, <1>5 DEF WriteFails, Judged, Suspected, Suspects, Lapsed, Fired, AskFence, Freed,
       NotWaited, NoWrite, Mono, Wall, MemFault, MemShape, OneJoin, OneWayOut
  <2>4. WindowKnown'
    BY <1>0, <1>5 DEF WriteFails, Judged, Suspected, Suspects, Lapsed, Fired, AskFence, Freed,
       NotWaited, NoWrite, Mono, Wall, MemFault, MemShape, OneJoin, OneWayOut, WindowKnown
  <2>5. RecordGivenUp'
    BY <1>0, <1>5 DEF WriteFails, Judged, Suspected, Suspects, Lapsed, Fired, AskFence, Freed,
       NotWaited, NoWrite, Mono, Wall, MemFault, MemShape, RecordGivenUp
  <2> QED BY <2>1, <2>2, <2>3, <2>4, <2>5 DEF MemInv
<1>6. ASSUME NEW i \in Slots, StartMember(i) PROVE MemInv'
  <2>1. MemShape' BY <1>0, <1>6, StartShape
  <2>2. OneJoin'
    BY <1>0, <1>6 DEF StartMember, JoinSends, FreeSlot, SendIn, Wall, MemShape, OneJoin,
       OneWayOut
  <2>3. OneWayOut'
    BY <1>0, <1>6 DEF StartMember, JoinSends, FreeSlot, SendIn, Wall, MemShape, OneWayOut
  <2>4. WindowKnown'
    BY <1>0, <1>6 DEF StartMember, JoinSends, FreeSlot, SendIn, Wall, MemShape, OneJoin,
       OneWayOut, WindowKnown
  <2>5. RecordGivenUp'
    BY <1>0, <1>6 DEF StartMember, JoinSends, FreeSlot, SendIn, Wall, MemShape, RecordGivenUp
  <2> QED BY <2>1, <2>2, <2>3, <2>4, <2>5 DEF MemInv
<1>7. ASSUME NEW i \in Slots, RejoinJoins(i) PROVE MemInv'
  <2>1. MemShape' BY <1>0, <1>7, RejoinJoinShape
  <2>2. OneJoin'
    BY <1>0, <1>7 DEF RejoinJoins, JoinSends, FreeSlot, SendIn, Wall, MemShape, OneJoin
  <2>3. OneWayOut'
    BY <1>0, <1>7 DEF RejoinJoins, JoinSends, FreeSlot, SendIn, Wall, MemShape, OneWayOut
  <2>4. WindowKnown'
    BY <1>0, <1>7 DEF RejoinJoins, JoinSends, FreeSlot, SendIn, Wall, MemShape, WindowKnown
  <2>5. RecordGivenUp'
    BY <1>0, <1>7 DEF RejoinJoins, JoinSends, FreeSlot, SendIn, Wall, MemShape, RecordGivenUp
  <2> QED BY <2>1, <2>2, <2>3, <2>4, <2>5 DEF MemInv
<1>8. ASSUME NEW t \in {"stop", "own"}, LeaveTakes(t) PROVE MemInv'
  <2>1. MemShape' BY <1>0, <1>8, TakeShape
  <2>2. OneJoin' BY <1>0, <1>8 DEF LeaveTakes, Awaited, MemShape, OneJoin
  <2>3. OneWayOut' BY <1>0, <1>8 DEF LeaveTakes, Awaited, MemShape, OneWayOut
  <2>4. WindowKnown' BY <1>0, <1>8 DEF LeaveTakes, Awaited, MemShape, WindowKnown
  <2>5. RecordGivenUp' BY <1>0, <1>8 DEF LeaveTakes, Awaited, MemShape, RecordGivenUp
  <2> QED BY <2>1, <2>2, <2>3, <2>4, <2>5 DEF MemInv
<1>9. ASSUME NEW t \in {"stop", "own"}, LeaveDeletes(t) PROVE MemInv'
  <2>1. MemShape' BY <1>0, <1>9 DEF LeaveDeletes, MemFault, MemShape
  <2>2. OneJoin' BY <1>0, <1>9 DEF LeaveDeletes, MemFault, MemShape, OneJoin
  <2>3. OneWayOut' BY <1>0, <1>9 DEF LeaveDeletes, MemFault, MemShape, OneWayOut
  <2>4. WindowKnown' BY <1>0, <1>9 DEF LeaveDeletes, MemFault, MemShape, WindowKnown
  <2>5. RecordGivenUp' BY <1>0, <1>9 DEF LeaveDeletes, MemFault, MemShape, RecordGivenUp
  <2> QED BY <2>1, <2>2, <2>3, <2>4, <2>5 DEF MemInv
<1>10. ASSUME JoinArms PROVE MemInv'
  <2>1. MemShape' BY <1>0, <1>10, ArmShape
  <2>2. OneJoin' BY <1>0, <1>10 DEF JoinArms, ClockOpened, Mono, Wall, MemShape, OneJoin
  <2>3. OneWayOut'
    BY <1>0, <1>10 DEF JoinArms, ClockOpened, Mono, Wall, MemShape, OneJoin, OneWayOut
  <2>4. WindowKnown'
    BY <1>0, <1>10 DEF JoinArms, ClockOpened, Mono, Wall, MemShape, OneJoin, OneWayOut,
       WindowKnown
  <2>5. RecordGivenUp'
    BY <1>0, <1>10 DEF JoinArms, ClockOpened, Mono, Wall, MemShape, RecordGivenUp
  <2> QED BY <2>1, <2>2, <2>3, <2>4, <2>5 DEF MemInv
<1>11. ASSUME ClaimStarts PROVE MemInv'
  <2>1. MemShape' BY <1>0, <1>11 DEF ClaimStarts, Serves, MemShape
  <2>2. OneJoin' BY <1>0, <1>11 DEF ClaimStarts, Serves, MemShape, OneJoin
  <2>3. OneWayOut' BY <1>0, <1>11 DEF ClaimStarts, Serves, MemShape, OneJoin, OneWayOut
  <2>4. WindowKnown' BY <1>0, <1>11 DEF ClaimStarts, Serves, MemShape, WindowKnown
  <2>5. RecordGivenUp' BY <1>0, <1>11 DEF ClaimStarts, Serves, MemShape, RecordGivenUp
  <2> QED BY <2>1, <2>2, <2>3, <2>4, <2>5 DEF MemInv
<1>12. ASSUME ClaimLands PROVE MemInv'
  <2>1. MemShape' BY <1>0, <1>12 DEF ClaimLands, MemShape
  <2>2. OneJoin' BY <1>0, <1>12 DEF ClaimLands, MemShape, OneJoin
  <2>3. OneWayOut' BY <1>0, <1>12 DEF ClaimLands, MemShape, OneWayOut
  <2>4. WindowKnown' BY <1>0, <1>12 DEF ClaimLands, MemShape, WindowKnown
  <2>5. RecordGivenUp' BY <1>0, <1>12 DEF ClaimLands, MemShape, RecordGivenUp
  <2> QED BY <2>1, <2>2, <2>3, <2>4, <2>5 DEF MemInv
<1>13. ASSUME PeerEvicts PROVE MemInv'
  <2>1. MemShape' BY <1>0, <1>13 DEF PeerEvicts, RecordLive, MemShape
  <2>2. OneJoin' BY <1>0, <1>13 DEF PeerEvicts, RecordLive, MemShape, OneJoin
  <2>3. OneWayOut' BY <1>0, <1>13 DEF PeerEvicts, RecordLive, MemShape, OneWayOut
  <2>4. WindowKnown' BY <1>0, <1>13 DEF PeerEvicts, RecordLive, MemShape, WindowKnown
  <2>5. RecordGivenUp' BY <1>0, <1>13 DEF PeerEvicts, RecordLive, MemShape, RecordGivenUp
  <2> QED BY <2>1, <2>2, <2>3, <2>4, <2>5 DEF MemInv
<1>14. ASSUME SelfMissing PROVE MemInv'
  <2>1. MemShape' BY <1>0, <1>14 DEF SelfMissing, Serves, RecordLive, MemShape
  <2>2. OneJoin' BY <1>0, <1>14 DEF SelfMissing, Serves, RecordLive, MemShape, OneJoin
  <2>3. OneWayOut' BY <1>0, <1>14 DEF SelfMissing, Serves, RecordLive, MemShape, OneWayOut
  <2>4. WindowKnown' BY <1>0, <1>14 DEF SelfMissing, Serves, RecordLive, MemShape, WindowKnown
  <2>5. RecordGivenUp'
    BY <1>0, <1>14 DEF SelfMissing, Serves, RecordLive, MemShape, RecordGivenUp
  <2> QED BY <2>1, <2>2, <2>3, <2>4, <2>5 DEF MemInv
<1>15. ASSUME SelfChecked PROVE MemInv'
  <2>1. MemShape' BY <1>0, <1>15 DEF SelfChecked, AskFence, RecordLive, MemShape
  <2>2. OneJoin' BY <1>0, <1>15 DEF SelfChecked, AskFence, RecordLive, MemShape, OneJoin
  <2>3. OneWayOut' BY <1>0, <1>15 DEF SelfChecked, AskFence, RecordLive, MemShape, OneWayOut
  <2>4. WindowKnown' BY <1>0, <1>15 DEF SelfChecked, AskFence, RecordLive, MemShape, WindowKnown
  <2>5. RecordGivenUp'
    BY <1>0, <1>15 DEF SelfChecked, AskFence, RecordLive, MemShape, RecordGivenUp
  <2> QED BY <2>1, <2>2, <2>3, <2>4, <2>5 DEF MemInv
<1>16. ASSUME FenceHost PROVE MemInv'
  <2>1. MemShape' BY <1>0, <1>16, FenceShape
  <2>2. OneJoin'
    BY <1>0, <1>16 DEF FenceHost, RegistersStateful, Left, LeaveBegins, MemShape, OneJoin,
       OneWayOut
  <2>3. OneWayOut'
    BY <1>0, <1>16 DEF FenceHost, RegistersStateful, Left, LeaveBegins, MemShape, OneJoin,
       OneWayOut
  <2>4. WindowKnown'
    BY <1>0, <1>16 DEF FenceHost, RegistersStateful, Left, LeaveBegins, MemShape, WindowKnown
  <2>5. RecordGivenUp'
    BY <1>0, <1>16 DEF FenceHost, RegistersStateful, Left, LeaveBegins, MemShape, OneJoin,
       OneWayOut, RecordGivenUp
  <2> QED BY <2>1, <2>2, <2>3, <2>4, <2>5 DEF MemInv
<1>17. ASSUME RejoinLeaves PROVE MemInv'
  <2>1. MemShape' BY <1>0, <1>17, RejoinShape
  <2>2. OneJoin'
    BY <1>0, <1>17 DEF RejoinLeaves, RegistersStateful, Left, LeaveBegins, MemShape, OneJoin,
       OneWayOut
  <2>3. OneWayOut'
    BY <1>0, <1>17 DEF RejoinLeaves, RegistersStateful, Left, LeaveBegins, MemShape, OneWayOut
  <2>4. WindowKnown'
    BY <1>0, <1>17 DEF RejoinLeaves, RegistersStateful, Left, LeaveBegins, MemShape, OneJoin,
       OneWayOut, WindowKnown
  <2>5. RecordGivenUp'
    BY <1>0, <1>17, SMTT(60) DEF RejoinLeaves, RegistersStateful, Left, LeaveBegins, MemShape,
       OneJoin, OneWayOut, RecordGivenUp
  <2> QED BY <2>1, <2>2, <2>3, <2>4, <2>5 DEF MemInv
<1>18. ASSUME RejoinDone PROVE MemInv'
  <2>1. MemShape' BY <1>0, <1>18, RejoinedShape
  <2>2. OneJoin'
    BY <1>0, <1>18, ZenonT(60) DEF RejoinDone, MustUndo, Left, LeaveBegins, MemShape, OneJoin
  <2>3. OneWayOut' BY <1>0, <1>18, RejoinedKeeps
  <2>4. WindowKnown'
    BY <1>0, <1>18, ZenonT(60) DEF RejoinDone, MustUndo, Left, LeaveBegins, MemShape, OneJoin,
       OneWayOut, WindowKnown
  <2>5. RecordGivenUp' BY <1>0, <1>18, RejoinedKeeps
  <2> QED BY <2>1, <2>2, <2>3, <2>4, <2>5 DEF MemInv
<1>19. ASSUME StopMember PROVE MemInv'
  <2>1. MemShape' BY <1>0, <1>19, StopShape
  <2>2. OneJoin' BY <1>0, <1>19 DEF StopMember, Left, LeaveBegins, MemShape, OneJoin
  <2>3. OneWayOut' BY <1>0, <1>19 DEF StopMember, Left, LeaveBegins, MemShape, OneWayOut
  <2>4. WindowKnown' BY <1>0, <1>19 DEF StopMember, Left, LeaveBegins, MemShape, WindowKnown
  <2>5. RecordGivenUp' BY <1>0, <1>19 DEF StopMember, Left, LeaveBegins, MemShape, RecordGivenUp
  <2> QED BY <2>1, <2>2, <2>3, <2>4, <2>5 DEF MemInv
<1>20. ASSUME Tick PROVE MemInv'
  <2>1. MemShape' BY <1>0, <1>20 DEF Tick, MemShape
  <2>2. OneJoin' BY <1>0, <1>20 DEF Tick, MemShape, OneJoin
  <2>3. OneWayOut' BY <1>0, <1>20 DEF Tick, MemShape, OneWayOut
  <2>4. WindowKnown' BY <1>0, <1>20 DEF Tick, MemShape, WindowKnown
  <2>5. RecordGivenUp' BY <1>0, <1>20 DEF Tick, MemShape, RecordGivenUp
  <2> QED BY <2>1, <2>2, <2>3, <2>4, <2>5 DEF MemInv
<1>21. ASSUME Suspend PROVE MemInv'
  <2>1. MemShape' BY <1>0, <1>21 DEF Suspend, MemFault, MemShape
  <2>2. OneJoin' BY <1>0, <1>21 DEF Suspend, MemFault, MemShape, OneJoin
  <2>3. OneWayOut' BY <1>0, <1>21 DEF Suspend, MemFault, MemShape, OneWayOut
  <2>4. WindowKnown' BY <1>0, <1>21 DEF Suspend, MemFault, MemShape, WindowKnown
  <2>5. RecordGivenUp' BY <1>0, <1>21 DEF Suspend, MemFault, MemShape, RecordGivenUp
  <2> QED BY <2>1, <2>2, <2>3, <2>4, <2>5 DEF MemInv
<1>22. ASSUME StepsBack PROVE MemInv'
  <2>1. MemShape' BY <1>0, <1>22 DEF StepsBack, MemFault, MemShape
  <2>2. OneJoin' BY <1>0, <1>22 DEF StepsBack, MemFault, MemShape, OneJoin
  <2>3. OneWayOut' BY <1>0, <1>22 DEF StepsBack, MemFault, MemShape, OneWayOut
  <2>4. WindowKnown' BY <1>0, <1>22 DEF StepsBack, MemFault, MemShape, WindowKnown
  <2>5. RecordGivenUp' BY <1>0, <1>22 DEF StepsBack, MemFault, MemShape, RecordGivenUp
  <2> QED BY <2>1, <2>2, <2>3, <2>4, <2>5 DEF MemInv
<1>23. ASSUME RecordLost PROVE MemInv'
  <2>1. MemShape' BY <1>0, <1>23 DEF RecordLost, MemFault, MemShape
  <2>2. OneJoin' BY <1>0, <1>23 DEF RecordLost, MemFault, MemShape, OneJoin
  <2>3. OneWayOut' BY <1>0, <1>23 DEF RecordLost, MemFault, MemShape, OneWayOut
  <2>4. WindowKnown' BY <1>0, <1>23 DEF RecordLost, MemFault, MemShape, WindowKnown
  <2>5. RecordGivenUp' BY <1>0, <1>23 DEF RecordLost, MemFault, MemShape, RecordGivenUp
  <2> QED BY <2>1, <2>2, <2>3, <2>4, <2>5 DEF MemInv
<1>24. CASE UNCHANGED memVars
  BY <1>0, <1>24 DEF memVars, MemInv, MemShape, OneJoin, OneWayOut, WindowKnown, RecordGivenUp
<1> QED
  BY <1>1, <1>2, <1>3, <1>4, <1>5, <1>6, <1>7, <1>8, <1>9, <1>10, <1>11, <1>12, <1>13, <1>14,
     <1>15, <1>16, <1>17, <1>18, <1>19, <1>20, <1>21, <1>22, <1>23, <1>24 DEF MemNext

LEMMA MemStarts == MemInit => MemInv
<1> SUFFICES ASSUME MemInit PROVE MemInv
  OBVIOUS
<1> USE MembershipAssumption DEF BeatWrites, MemberStates, OnWire, Draining, Lease, NoRecord,
                                 NotEvicted, MemInit, NoWrite, NoLeave
<1>1. MemShape BY DEF MemShape
<1>2. OneJoin BY DEF OneJoin
<1>3. OneWayOut BY DEF OneWayOut
<1>4. WindowKnown BY DEF WindowKnown
<1>5. RecordGivenUp BY DEF RecordGivenUp
<1> QED BY <1>1, <1>2, <1>3, <1>4, <1>5 DEF MemInv

\* What is promised of membership follows.
LEMMA MemShows == MemInv => MemTypeOK /\ EvictedPastWindow /\ LeftStaysOut
<1> SUFFICES ASSUME MemInv PROVE MemTypeOK /\ EvictedPastWindow /\ LeftStaysOut
  OBVIOUS
<1>0. MemShape /\ OneJoin /\ OneWayOut /\ WindowKnown /\ RecordGivenUp BY DEF MemInv
<1>1. MemTypeOK
  BY <1>0 DEF MemShape, BeatWrites, MemberStates, OneWayOut, MemTypeOK
<1>2. EvictedPastWindow
  BY <1>0, MembershipAssumption DEF MemShape, WindowKnown, EvictedPastWindow, LapseIsNoticed
<1>3. LeftStaysOut
  BY <1>0 DEF MemShape, MemberStates, OneWayOut, RecordGivenUp, Draining, LeftStaysOut,
     MemQuiet, MemLeft
<1> QED BY <1>1, <1>2, <1>3

-----------------------------------------------------------------------------
(* The refreshes of a view.                                                *)

Readings == {Unread} \cup Nat
FlightStates == [on : BOOLEAN, ver : Readings, content : Readings, for : SUBSET Demands]
TrailingStates == [on : BOOLEAN, versionless : BOOLEAN, max : Nat, for : SUBSET Demands]
DemandStates == [st : {"idle", "waiting", "done", "failed", "nested"},
                 asked : Readings, got : Readings]
StoreStates == [content : 0..MaxContent, ver : Nat, unannounced : Nat, silent : BOOLEAN]
SeenStates == [storeVer : Nat, content : Nat, version : Nat]
RefShape ==
  /\ via \in {"redis", "pg", "surreal", "k8s"} /\ via \in RefProviders
  /\ store \in StoreStates
  /\ pushes \subseteq 0..store.ver
  /\ flight \in FlightStates /\ trailing \in TrailingStates
  /\ seen \in SeenStates
  /\ demand \in [Demands -> DemandStates]
  /\ settling \in {"no", "waiting", "settled"}
  /\ refCount \in Nat

\* Nothing is read that was not there, and nothing is announced that was not written.
ReadsBehind ==
  /\ store.ver + store.unannounced <= store.content
  /\ ~store.silent => store.ver + store.unannounced = store.content
  /\ seen.content <= store.content /\ seen.storeVer <= store.ver
  /\ flight.ver <= store.ver /\ flight.content <= store.content
  /\ flight.ver # Unread => seen.storeVer <= flight.ver
  /\ flight.content # Unread => seen.content <= flight.content
  /\ \A d \in Demands : demand[d].asked <= store.content

\* Whoever waits is in the refresh in flight, or in the one to follow it.
OneRefresh ==
  /\ ~flight.on => flight = NoFlight
  /\ ~trailing.on => ~trailing.versionless /\ trailing.max = 0 /\ (~K8s => trailing.for = {})
  /\ K8s => flight.for = {} /\ ~trailing.on
  /\ ~K8s => \A d \in Demands : demand[d].st = "waiting" => d \in flight.for \cup trailing.for
  /\ ~K8s /\ settling = "waiting" => ~Resting

\* The read of a flight that answers a call is not older than the call.
AnswersFresh ==
  /\ \A d \in Demands : demand[d].st = "idle" => d \notin flight.for \cup trailing.for
  /\ \A d \in flight.for : flight.content = Unread \/ demand[d].asked <= flight.content
  /\ K8s => \A d \in trailing.for :
              flight.on /\ (flight.content = Unread \/ demand[d].asked <= flight.content)
  /\ RefreshIsFresh

\* What of the store this host has not seen, it has yet to be told of or is about to read.
Redis == via = "redis"
ToldByRedis ==
  Redis =>
    /\ flight.content # Unread => flight.ver # Unread /\ flight.ver <= flight.content
    /\ seen.storeVer <= seen.content
    /\ ~store.silent =>
         \/ store.ver <= seen.storeVer
         \/ store.ver \in pushes
         \/ flight.on /\ (flight.ver = Unread \/ store.ver <= flight.ver)
         \/ trailing.on /\ (trailing.versionless \/ trailing.for # {} \/ store.ver <= trailing.max)

ToldBySurreal ==
  via = "surreal" =>
    /\ pushes \subseteq {0}
    /\ flight.ver = Unread <=> flight.content = Unread
    /\ ~store.silent =>
         \/ store.unannounced > 0
         \/ seen.content = store.content
         \/ 0 \in pushes
         \/ flight.on /\ (flight.content = Unread \/ flight.content = store.content)
         \/ trailing.on /\ (trailing.versionless \/ trailing.for # {})

RefInv == RefShape /\ ReadsBehind /\ OneRefresh /\ AnswersFresh /\ ToldByRedis /\ ToldBySurreal

\* The store after a change, an announcement and a loss.
LEMMA StoreShape ==
  ASSUME RefShape
  PROVE  /\ store.content < MaxContent =>
              /\ [store EXCEPT !.content = @ + 1, !.unannounced = @ + 1] \in StoreStates
              /\ [store EXCEPT !.content = @ + 1, !.silent = TRUE] \in StoreStates
         /\ store.unannounced > 0 =>
              [store EXCEPT !.unannounced = @ - 1, !.ver = @ + 1] \in StoreStates
         /\ [store EXCEPT !.silent = TRUE] \in StoreStates
<1> DEFINE c == store.content + 1  v == store.ver + 1
           u == store.unannounced + 1  w == store.unannounced - 1
<1>1. store \in StoreStates BY DEF RefShape
<1>2. store.content < MaxContent => c \in 0..MaxContent
  BY <1>1, RefreshingAssumption DEF StoreStates
<1>3. u \in Nat /\ v \in Nat /\ (store.unannounced > 0 => w \in Nat)
  BY <1>1 DEF StoreStates
<1> HIDE DEF c, u, v, w
<1>4. c \in 0..MaxContent => /\ [store EXCEPT !.content = c, !.unannounced = u] \in StoreStates
                             /\ [store EXCEPT !.content = c, !.silent = TRUE] \in StoreStates
  BY <1>1, <1>3 DEF StoreStates
<1>5. w \in Nat => [store EXCEPT !.unannounced = w, !.ver = v] \in StoreStates
  BY <1>1, <1>3 DEF StoreStates
<1>6. [store EXCEPT !.silent = TRUE] \in StoreStates BY <1>1 DEF StoreStates
<1> QED BY <1>2, <1>3, <1>4, <1>5, <1>6 DEF c, u, v, w

LEMMA RefShapeOf ==
  ASSUME RefShape, via' = via, store' \in StoreStates, pushes' \subseteq 0..store'.ver,
         flight' \in FlightStates, trailing' \in TrailingStates, seen' \in SeenStates,
         demand' \in [Demands -> DemandStates], settling' \in {"no", "waiting", "settled"},
         refCount' \in Nat
  PROVE  RefShape'
BY DEF RefShape

\* A flight that starts has read nothing.
LEMMA FlightShapes ==
  /\ \A ds \in SUBSET Demands : NewFlight(ds) \in FlightStates
  /\ NoFlight \in FlightStates /\ NoTrailing \in TrailingStates
BY DEF NewFlight, NoFlight, NoTrailing, FlightStates, TrailingStates, Readings, Unread

LEMMA FlightFields ==
  /\ \A ds \in SUBSET Demands : /\ NewFlight(ds).ver = Unread /\ NewFlight(ds).content = Unread
                               /\ NewFlight(ds).on /\ NewFlight(ds).for = ds
  /\ NoFlight.ver = Unread /\ NoFlight.content = Unread /\ ~NoFlight.on /\ NoFlight.for = {}
BY DEF NewFlight, NoFlight

\* What each step leaves is of that shape.
LEMMA WrittenShape == ASSUME RefShape, Written PROVE RefShape'
<1>1. store' \in StoreStates BY StoreShape DEF Written
<1>2. pushes' \subseteq 0..store'.ver BY DEF Written, RefShape, StoreStates
<1> QED BY <1>1, <1>2, RefShapeOf DEF Written, RefShape

LEMMA ExpiresShape == ASSUME RefShape, Expires PROVE RefShape'
<1>1. store' \in StoreStates BY StoreShape DEF Expires
<1>2. pushes' \subseteq 0..store'.ver BY DEF Expires, RefShape, StoreStates
<1> QED BY <1>1, <1>2, RefShapeOf DEF Expires, RefShape

LEMMA AnnouncedShape == ASSUME RefShape, Announced PROVE RefShape'
<1>1. store' \in StoreStates BY StoreShape DEF Announced
<1>2. pushes' \subseteq 0..store'.ver
  <2>1. store'.ver = store.ver + 1 BY DEF Announced, RefShape, StoreStates
  <2>2. store.ver \in Nat BY DEF RefShape, StoreStates
  <2>5. PICK q0 \in {0, store.ver + 1} : pushes' = pushes \cup {q0} BY DEF Announced
  <2>3. \A q \in pushes' : q \in pushes \/ q = 0 \/ q = store.ver + 1 BY <2>5
  <2>6. \A q \in pushes : q \in 0..store.ver BY DEF RefShape
  <2>4. \A q \in pushes' : q \in 0..(store.ver + 1) BY <2>2, <2>3, <2>6
  <2> QED BY <2>1, <2>4
<1> QED BY <1>1, <1>2, RefShapeOf DEF Announced, RefShape

LEMMA PushLostShape == ASSUME RefShape, PushLost PROVE RefShape'
<1>1. store' \in StoreStates BY StoreShape DEF PushLost
<1>2. pushes' \subseteq 0..store'.ver BY DEF PushLost, RefShape, StoreStates
<1>3. refCount' \in Nat BY DEF PushLost, RefFault, RefShape
<1> QED BY <1>1, <1>2, <1>3, RefShapeOf DEF PushLost, RefShape

LEMMA RelistShape == ASSUME RefShape, NEW d \in Demands, Relist(d) PROVE RefShape'
<1>1. flight' \in FlightStates BY FlightShapes DEF Relist, Relisted
<1>2. trailing' \in TrailingStates BY DEF Relist, RefShape, TrailingStates
<1>3. demand' \in [Demands -> DemandStates]
  BY DEF Relist, Asked, RefShape, DemandStates, StoreStates, Readings
<1> QED BY <1>1, <1>2, <1>3, RefShapeOf DEF Relist, RefShape

LEMMA DemandShape == ASSUME RefShape, NEW d \in Demands, Demand(d) PROVE RefShape'
<1>1. flight' \in FlightStates
  <2>1. {d} \cup trailing.for \in SUBSET Demands BY DEF RefShape, TrailingStates
  <2> QED BY <2>1, FlightShapes DEF Demand, DemandJoins, RefShape
<1>2. trailing' \in TrailingStates
  BY FlightShapes DEF Demand, DemandJoins, RefShape, TrailingStates
<1>3. demand' \in [Demands -> DemandStates]
  BY DEF Demand, Asked, RefShape, DemandStates, StoreStates, Readings
<1> QED BY <1>1, <1>2, <1>3, RefShapeOf DEF Demand, RefShape

LEMMA CounterShape == ASSUME RefShape, ReadCounter PROVE RefShape'
<1>1. \A v, c \in Readings : [flight EXCEPT !.ver = v, !.content = c] \in FlightStates
  BY DEF RefShape, FlightStates
<1>2. store.ver \in Readings /\ store.content \in Readings /\ flight.content \in Readings
  BY RefreshingAssumption DEF RefShape, StoreStates, FlightStates, Readings
<1>3. flight' \in FlightStates BY <1>1, <1>2 DEF ReadCounter
<1> QED BY <1>3, RefShapeOf DEF ReadCounter, RefShape

LEMMA ListStartsShape == ASSUME RefShape, ListStarts PROVE RefShape'
<1>1. refCount' \in Nat BY DEF ListStarts, RefFault, RefShape
<1>2. flight' \in FlightStates BY FlightShapes DEF ListStarts
<1> QED BY <1>1, <1>2, RefShapeOf DEF ListStarts, RefShape

\* How a refresh settles its callers.
LEMMA Settled ==
  ASSUME RefShape, NEW ds \in SUBSET Demands, NEW c \in Readings
  PROVE  /\ Resolved(ds, c) \in [Demands -> DemandStates]
         /\ Failed(ds) \in [Demands -> DemandStates]
         /\ \A d \in Demands :
              /\ Resolved(ds, c)[d].asked = demand[d].asked /\ Failed(ds)[d].asked = demand[d].asked
              /\ d \in ds => Resolved(ds, c)[d].st = "done" /\ Resolved(ds, c)[d].got = c
                             /\ Failed(ds)[d].st = "failed"
              /\ d \notin ds => Resolved(ds, c)[d] = demand[d] /\ Failed(ds)[d] = demand[d]
BY DEF RefShape, DemandStates, Resolved, Failed

LEMMA ListFailsShape == ASSUME RefShape, ListFails PROVE RefShape'
<1>1. refCount' \in Nat BY DEF ListFails, RefFault, RefShape
<1>2. flight' \in FlightStates /\ trailing' \in TrailingStates BY FlightShapes DEF ListFails
<1>3. demand' \in [Demands -> DemandStates]
  BY Settled DEF ListFails, RefShape, TrailingStates, Readings
<1> QED BY <1>1, <1>2, <1>3, RefShapeOf DEF ListFails, RefShape
\* A view that materializes.
LEMMA MaterializedIs ==
  ASSUME RefShape, NEW c \in Nat
  PROVE  /\ Materialized(c) \in SeenStates /\ Materialized(c).content = c
         /\ Materialized(c).storeVer = seen.storeVer
         /\ c # seen.content => Materialized(c).version > seen.version
<1> DEFINE n == seen.version + 1
<1>1. seen \in SeenStates BY DEF RefShape
<1>2. n \in Nat /\ n > seen.version BY <1>1 DEF SeenStates
<1>3. Materialized(c) = IF c # seen.content THEN [seen EXCEPT !.content = c, !.version = n] ELSE seen
  BY DEF Materialized
<1> HIDE DEF n
<1> QED BY <1>1, <1>2, <1>3 DEF SeenStates

LEMMA DeliversShape == ASSUME RefShape, WatchDelivers PROVE RefShape'
<1>1. seen.content + 1 \in Nat BY DEF RefShape, SeenStates
<1>2. seen' \in SeenStates BY <1>1, MaterializedIs DEF WatchDelivers
<1> QED BY <1>2, RefShapeOf DEF WatchDelivers, RefShape

\* A LIST that lands answers whoever asked before it read.
LEMMA ListLandsStep ==
  ASSUME RefShape, ReadsBehind, OneRefresh, AnswersFresh, ListLands
  PROVE  RefShape' /\ ReadsBehind' /\ AnswersFresh'
<1> DEFINE c == flight.content
<1>0. c \in Nat /\ c <= store.content
  BY DEF ListLands, RefShape, ReadsBehind, FlightStates, Readings, Unread
<1>1. /\ seen' \in SeenStates /\ seen'.content = c /\ seen'.storeVer = seen.storeVer
  BY <1>0, MaterializedIs DEF ListLands
<1>2. flight' = NoFlight /\ trailing' = NoTrailing BY DEF ListLands
<1>3. flight' \in FlightStates /\ trailing' \in TrailingStates BY <1>2, FlightShapes
<1>4. trailing.for \in SUBSET Demands /\ c \in Readings
  BY <1>0 DEF RefShape, TrailingStates, Readings
<1> DEFINE r == Resolved(trailing.for, c)
<1>5. /\ r \in [Demands -> DemandStates]
      /\ \A d \in Demands :
           /\ r[d].asked = demand[d].asked
           /\ d \in trailing.for => r[d].st = "done" /\ r[d].got = c
           /\ d \notin trailing.for => r[d] = demand[d]
  <2>1. PICK ds \in SUBSET Demands : ds = trailing.for BY <1>4
  <2>2. PICK x \in Readings : x = c BY <1>4
  <2>3. r = Resolved(ds, x) BY <2>1, <2>2
  <2>4. /\ Resolved(ds, x) \in [Demands -> DemandStates]
        /\ \A d \in Demands :
             /\ Resolved(ds, x)[d].asked = demand[d].asked
             /\ d \in ds => Resolved(ds, x)[d].st = "done" /\ Resolved(ds, x)[d].got = x
             /\ d \notin ds => Resolved(ds, x)[d] = demand[d]
    BY Settled
  <2> HIDE DEF r, c
  <2> QED BY <2>1, <2>2, <2>3, <2>4
<1>6. \A d \in Demands : r[d].st = "done" => r[d].got >= r[d].asked
  <2> SUFFICES ASSUME NEW d \in Demands, r[d].st = "done" PROVE r[d].got >= r[d].asked
    OBVIOUS
  <2>1. CASE d \in trailing.for
    <3>1. demand[d].asked <= c BY <2>1 DEF ListLands, AnswersFresh
    <3>2. demand[d].asked \in Readings BY DEF RefShape, DemandStates
    <3> QED BY <1>0, <1>5, <2>1, <3>1, <3>2 DEF Readings, Unread
  <2>2. CASE d \notin trailing.for BY <1>5, <2>2 DEF AnswersFresh, RefreshIsFresh
  <2> QED BY <2>1, <2>2
<1>7. \A d \in Demands : r[d].asked <= store.content BY <1>5 DEF ReadsBehind
<1> HIDE DEF r
<1>8. /\ demand' \in [Demands -> DemandStates]
      /\ \A d \in Demands : /\ demand'[d].st = "done" => demand'[d].got >= demand'[d].asked
                            /\ demand'[d].asked <= store.content
  <2>1. CASE demand' = r BY <1>5, <1>6, <1>7, <2>1
  <2>2. ASSUME NEW d \in Demands,
               demand' = [r EXCEPT ![d] = [st |-> "nested", asked |-> store.content, got |-> c]]
        PROVE /\ demand' \in [Demands -> DemandStates]
              /\ \A e \in Demands : /\ demand'[e].st = "done" => demand'[e].got >= demand'[e].asked
                                    /\ demand'[e].asked <= store.content
    <3>1. store.content \in Readings /\ store.content <= store.content
      BY DEF RefShape, StoreStates, Readings
    <3>2. [st |-> "nested", asked |-> store.content, got |-> c] \in DemandStates
      BY <1>4, <3>1 DEF DemandStates
    <3>3. demand' \in [Demands -> DemandStates] BY <1>5, <2>2, <3>2
    <3>4. ASSUME NEW e \in Demands
          PROVE /\ demand'[e].st = "done" => demand'[e].got >= demand'[e].asked
                /\ demand'[e].asked <= store.content
      <4>1. CASE e = d BY <1>5, <2>2, <3>1, <4>1
      <4>2. CASE e # d
        <5>1. demand'[e] = r[e] BY <1>5, <2>2, <4>2
        <5> QED BY <1>6, <1>7, <5>1
      <4> QED BY <4>1, <4>2
    <3> QED BY <3>3, <3>4
  <2> QED BY <2>1, <2>2 DEF ListLands, r
<1>9. RefShape' BY <1>1, <1>3, <1>8, RefShapeOf DEF ListLands, RefShape
<1>10. ReadsBehind'
  BY <1>0, <1>1, <1>2, <1>8 DEF ListLands, ReadsBehind, RefShape, SeenStates, StoreStates,
     NoFlight, Unread
<1>11. AnswersFresh' BY <1>2, <1>8 DEF AnswersFresh, RefreshIsFresh, NoFlight, NoTrailing
<1> QED BY <1>9, <1>10, <1>11

\* A push is skipped, starts a refresh, or is left to the one that follows.
LEMMA Noted ==
  ASSUME RefShape, NEW p \in pushes, Note(p)
  PROVE  \/ 0 < p /\ p <= seen.storeVer /\ UNCHANGED <<flight, trailing>>
         \/ Resting /\ flight' = NewFlight({}) /\ UNCHANGED trailing
         \/ /\ ~Resting /\ UNCHANGED flight
            /\ \E b \in BOOLEAN, m \in Nat :
                 /\ trailing' = [trailing EXCEPT !.on = TRUE, !.versionless = b, !.max = m]
                 /\ b <=> trailing.versionless \/ p = 0
                 /\ p <= m /\ trailing.max <= m /\ m \in {p, trailing.max}
<1>1. p \in Nat BY DEF RefShape, StoreStates
<1>2. trailing \in TrailingStates BY DEF RefShape
<1> DEFINE b == trailing.versionless \/ p = 0
           m == IF p > trailing.max THEN p ELSE trailing.max
<1>3. b \in BOOLEAN OBVIOUS
<1>4. m \in Nat /\ p <= m /\ trailing.max <= m /\ m \in {p, trailing.max}
  BY <1>1, <1>2 DEF TrailingStates
<1>5. \/ 0 < p /\ p <= seen.storeVer /\ UNCHANGED <<flight, trailing>>
      \/ Resting /\ flight' = NewFlight({}) /\ UNCHANGED trailing
      \/ /\ ~Resting /\ UNCHANGED flight
         /\ trailing' = [trailing EXCEPT !.on = TRUE, !.versionless = b, !.max = m]
  BY <1>1 DEF Note
<1>6. b <=> trailing.versionless \/ p = 0 OBVIOUS
<1> HIDE DEF b, m
<1> QED BY <1>3, <1>4, <1>5, <1>6

LEMMA NoteStep ==
  ASSUME RefShape, ReadsBehind, OneRefresh, AnswersFresh, ToldByRedis, ToldBySurreal,
         NEW p \in pushes, Note(p)
  PROVE  RefShape' /\ ReadsBehind' /\ OneRefresh' /\ ToldByRedis' /\ ToldBySurreal'
<1>0. /\ ~K8s /\ pushes' = pushes \ {p}
      /\ UNCHANGED <<via, store, seen, demand, settling, refCount>>
  BY DEF Note
<1>p. p \in Nat /\ p <= store.ver BY DEF RefShape, StoreStates
<1>1. CASE 0 < p /\ p <= seen.storeVer /\ UNCHANGED <<flight, trailing>>
  <2>1. RefShape' BY <1>0, <1>1, RefShapeOf DEF RefShape
  <2>2. ReadsBehind' BY <1>0, <1>1 DEF ReadsBehind
  <2>3. OneRefresh' BY <1>0, <1>1 DEF OneRefresh, Resting, K8s, NoFlight
  <2>4. ToldByRedis' BY <1>0, <1>1, <1>p DEF ToldByRedis, Redis
  <2>5. ToldBySurreal' BY <1>0, <1>1, <1>p DEF ToldBySurreal
  <2> QED BY <2>1, <2>2, <2>3, <2>4, <2>5
<1>2. CASE Resting /\ flight' = NewFlight({}) /\ UNCHANGED trailing
  <2>1. RefShape' BY <1>0, <1>2, FlightShapes, RefShapeOf DEF RefShape
  <2>2. ReadsBehind'
    BY <1>0, <1>2 DEF ReadsBehind, NewFlight, NoFlight, Unread, RefShape, StoreStates
  <2>3. OneRefresh' BY <1>0, <1>2 DEF OneRefresh, Resting, K8s, NewFlight, NoFlight
  <2>4. ToldByRedis' BY <1>0, <1>2 DEF ToldByRedis, Redis, NewFlight, NoFlight, Unread
  <2>5. ToldBySurreal' BY <1>0, <1>2 DEF ToldBySurreal, NewFlight, NoFlight, Unread
  <2> QED BY <2>1, <2>2, <2>3, <2>4, <2>5
<1>3. ASSUME NEW b \in BOOLEAN, NEW m \in Nat, ~Resting, UNCHANGED flight,
             trailing' = [trailing EXCEPT !.on = TRUE, !.versionless = b, !.max = m],
             b <=> trailing.versionless \/ p = 0,
             p <= m, trailing.max <= m
      PROVE  RefShape' /\ ReadsBehind' /\ OneRefresh' /\ ToldByRedis' /\ ToldBySurreal'
  <2>t. /\ trailing' \in TrailingStates /\ trailing'.on /\ trailing'.for = trailing.for
        /\ trailing'.max = m /\ trailing'.versionless = b
    BY <1>3 DEF RefShape, TrailingStates
  <2>1. RefShape' BY <1>0, <1>3, <2>t, RefShapeOf DEF RefShape
  <2>2. ReadsBehind' BY <1>0, <1>3 DEF ReadsBehind
  <2>3. OneRefresh' BY <1>0, <1>3, <2>t DEF OneRefresh, Resting, K8s, NoFlight
  <2>4. ToldByRedis'
    BY <1>0, <1>3, <1>p, <2>t DEF ToldByRedis, Redis, RefShape, StoreStates, TrailingStates,
       SeenStates
  <2>5. ToldBySurreal' BY <1>0, <1>3, <2>t DEF ToldBySurreal
  <2> QED BY <2>1, <2>2, <2>3, <2>4, <2>5
<1> QED BY <1>1, <1>2, <1>3, Noted

\* After a refresh the trailing one runs, or nobody needs it, or it waits out the window.
FlightGoes == /\ trailing.on /\ flight' = NewFlight(trailing.for) /\ trailing' = NoTrailing
              /\ settling' = settling
FlightRests == /\ flight' = NoFlight /\ trailing' = NoTrailing
               /\ settling' = IF settling = "waiting" THEN "settled" ELSE settling
               /\ trailing.on => /\ trailing.for = {} /\ ~trailing.versionless
                                 /\ trailing.max <= seen'.storeVer
FlightWaits == trailing.on /\ flight' = NoFlight /\ UNCHANGED <<trailing, settling>>

LEMMA AfterFlightIs ==
  ASSUME RefShape, NEW s \in SeenStates, AfterFlight(s), seen' = s
  PROVE  FlightGoes \/ FlightRests
<1>1. trailing.max \in Nat /\ s.storeVer \in Nat
  BY DEF RefShape, TrailingStates, SeenStates
<1>2. CASE trailing.on /\ Due(s) BY <1>2 DEF AfterFlight, FlightGoes
<1>3. CASE ~(trailing.on /\ Due(s)) BY <1>1, <1>3 DEF AfterFlight, FlightRests, Due
<1> QED BY <1>2, <1>3

\* A flight that ended settles its callers; those that came later are the trailing one's.
LEMMA FlightEnds ==
  ASSUME RefShape, ReadsBehind, OneRefresh, AnswersFresh, ~K8s,
         FlightGoes \/ FlightRests \/ FlightWaits,
         UNCHANGED <<via, pushes>>, store' \in StoreStates, refCount' \in Nat,
         store'.ver = store.ver, store'.content = store.content,
         store'.unannounced = store.unannounced, ~store'.silent => ~store.silent,
         seen' \in SeenStates, seen'.content <= store.content, seen'.storeVer <= store.ver,
         demand' \in [Demands -> DemandStates],
         \A d \in Demands : /\ demand'[d].asked = demand[d].asked
                            /\ demand'[d].st = "waiting" =>
                                 demand[d].st = "waiting" /\ d \notin flight.for
                            /\ demand'[d].st = "idle" => demand[d].st = "idle"
                            /\ demand'[d].st = "done" => demand'[d].got >= demand'[d].asked
  PROVE  RefShape' /\ ReadsBehind' /\ OneRefresh' /\ AnswersFresh'
<1>1. trailing.for \in SUBSET Demands BY DEF RefShape, TrailingStates
<1>2. /\ flight' \in FlightStates /\ trailing' \in TrailingStates
      /\ settling' \in {"no", "waiting", "settled"}
  BY <1>1, FlightShapes DEF FlightGoes, FlightRests, FlightWaits, RefShape
<1>3. RefShape'
  <2>1. pushes' \subseteq 0..store'.ver BY DEF RefShape
  <2> QED BY <1>2, <2>1, RefShapeOf
<1>4. flight'.ver = Unread /\ flight'.content = Unread
  BY <1>1, FlightFields DEF FlightGoes, FlightRests, FlightWaits
<1>5. ReadsBehind' BY <1>3, <1>4 DEF ReadsBehind, RefShape, StoreStates, SeenStates, Unread
<1>6. OneRefresh'
  <2>1. CASE FlightGoes
    BY <2>1 DEF FlightGoes, OneRefresh, NewFlight, NoFlight, NoTrailing, K8s, Resting
  <2>2. CASE FlightRests
    <3>1. ~trailing.on => trailing.for = {} BY DEF OneRefresh
    <3>2. \A d \in Demands : demand'[d].st # "waiting" BY <2>2, <3>1 DEF OneRefresh, FlightRests
    <3> QED
      BY <2>2, <3>2 DEF FlightRests, OneRefresh, NoFlight, NoTrailing, K8s, Resting, RefShape
  <2>3. CASE FlightWaits BY <2>3 DEF FlightWaits, OneRefresh, NoFlight, K8s, Resting
  <2> QED BY <2>1, <2>2, <2>3
<1>7. AnswersFresh'
  <2>1. \A d \in flight'.for \cup trailing'.for : d \in trailing.for
    BY <1>1, FlightFields DEF FlightGoes, FlightRests, FlightWaits, NoTrailing
  <2> QED BY <1>4, <2>1 DEF AnswersFresh, RefreshIsFresh, K8s
<1> QED BY <1>3, <1>5, <1>6, <1>7

\* What a view is made of that observes a refresh.
LEMMA ObserveIs ==
  ASSUME RefShape, NEW v \in Nat, NEW c \in Nat
  PROVE  /\ Observe(v, c) \in SeenStates /\ Observe(v, c).storeVer = v
         /\ Observe(v, c).content = c
         /\ c # seen.content => Observe(v, c).version > seen.version
<1>1. seen \in SeenStates BY DEF RefShape
<1>2. Exposed(v) \in Nat /\ Exposed(v) > seen.version BY <1>1 DEF Exposed, SeenStates
<1> QED BY <1>1, <1>2 DEF Observe, SeenStates

\* The view is now what the flight read, and what it is not is still to be told or read.
LEMMA FlightLandsStep ==
  ASSUME RefInv, FlightLands
  PROVE  RefInv'
<1>0. RefShape /\ ReadsBehind /\ OneRefresh /\ AnswersFresh /\ ToldByRedis /\ ToldBySurreal
  BY DEF RefInv
<1> DEFINE v == flight.ver  c == flight.content
<1>1. v \in Nat /\ c \in Nat /\ v <= store.ver /\ c <= store.content
  BY <1>0 DEF FlightLands, RefShape, ReadsBehind, FlightStates, Readings
<1>2. /\ seen' = Observe(v, c) /\ demand' = Resolved(flight.for, seen'.content)
      /\ ~K8s /\ UNCHANGED <<via, store, pushes, refCount>>
      /\ \/ AfterFlight(seen')
         \/ FlightWaits
  BY DEF FlightLands, AfterFlightQuiet, FlightWaits
<1>3. seen' \in SeenStates /\ seen'.storeVer = v /\ seen'.content = c
  BY <1>0, <1>1, <1>2, ObserveIs
<1>4. FlightGoes \/ FlightRests \/ FlightWaits BY <1>0, <1>2, <1>3, AfterFlightIs
<1>5. /\ demand' \in [Demands -> DemandStates]
      /\ \A d \in Demands : /\ demand'[d].asked = demand[d].asked
                            /\ d \in flight.for => demand'[d].st = "done" /\ demand'[d].got = c
                            /\ d \notin flight.for => demand'[d] = demand[d]
  <2>1. flight.for \in SUBSET Demands /\ c \in Readings
    BY <1>0, <1>1 DEF RefShape, FlightStates, Readings
  <2>2. demand' = Resolved(flight.for, c) BY <1>2, <1>3
  <2> HIDE DEF c
  <2> QED BY <1>0, <2>1, <2>2, Settled
<1>6. \A d \in Demands : /\ demand'[d].st = "idle" => demand[d].st = "idle"
                         /\ demand'[d].st = "waiting" => demand[d].st = "waiting" /\ d \notin flight.for
                         /\ demand'[d].st = "done" => demand'[d].got >= demand'[d].asked
  <2> SUFFICES ASSUME NEW d \in Demands
               PROVE /\ demand'[d].st = "idle" => demand[d].st = "idle"
                     /\ demand'[d].st = "waiting" => demand[d].st = "waiting" /\ d \notin flight.for
                     /\ demand'[d].st = "done" => demand'[d].got >= demand'[d].asked
    OBVIOUS
  <2>1. CASE d \in flight.for
    <3>1. demand[d].asked <= c BY <1>0, <1>1, <2>1 DEF AnswersFresh, Unread
    <3>2. demand[d].asked \in Readings BY <1>0 DEF RefShape, DemandStates
    <3> QED BY <1>1, <1>5, <2>1, <3>1, <3>2 DEF Readings, Unread
  <2>2. CASE d \notin flight.for BY <1>0, <1>5, <2>2 DEF AnswersFresh, RefreshIsFresh
  <2> QED BY <2>1, <2>2
<1>7. store' \in StoreStates /\ refCount' \in Nat BY <1>0, <1>2 DEF RefShape
<1>8. RefShape' /\ ReadsBehind' /\ OneRefresh' /\ AnswersFresh'
  BY <1>0, <1>1, <1>2, <1>3, <1>4, <1>5, <1>6, <1>7, FlightEnds
<1>f. trailing.for \in SUBSET Demands BY <1>0 DEF RefShape, TrailingStates
<1>9. flight'.ver = Unread /\ flight'.content = Unread
  BY <1>4, <1>f, FlightFields DEF FlightGoes, FlightRests, FlightWaits
<1>n. /\ store.ver \in Nat /\ seen.storeVer \in Nat /\ trailing.max \in Nat
      /\ store.unannounced \in Nat /\ store.content \in Nat
  BY <1>0 DEF RefShape, StoreStates, SeenStates, TrailingStates
<1>10. ToldByRedis'
  <2> SUFFICES ASSUME Redis PROVE ToldByRedis'
    BY <1>2 DEF ToldByRedis, Redis
  <2>1. v <= c BY <1>0, <1>1 DEF ToldByRedis, Unread
  <2>2. ~store.silent => \/ store.ver <= v \/ store.ver \in pushes
                         \/ trailing.on /\ (trailing.versionless \/ trailing.for # {}
                                            \/ store.ver <= trailing.max)
    <3>1. seen.storeVer <= v BY <1>0, <1>1 DEF ReadsBehind, Unread
    <3> QED BY <1>0, <1>1, <1>n, <3>1 DEF ToldByRedis, Unread
  <2>3. ~store.silent =>
         \/ store.ver <= v
         \/ store.ver \in pushes
         \/ flight'.on
         \/ trailing'.on /\ (trailing'.versionless \/ trailing'.for # {} \/ store.ver <= trailing'.max)
    <3>1. CASE FlightGoes BY <3>1 DEF FlightGoes, NewFlight, NoFlight
    <3>2. CASE FlightRests BY <1>1, <1>3, <1>n, <2>2, <3>2 DEF FlightRests
    <3>3. CASE FlightWaits BY <2>2, <3>3 DEF FlightWaits
    <3> QED BY <1>4, <3>1, <3>2, <3>3
  <2> QED BY <1>2, <1>3, <1>9, <2>1, <2>3 DEF ToldByRedis, Redis
<1>11. ToldBySurreal'
  <2> SUFFICES ASSUME via = "surreal" PROVE ToldBySurreal'
    BY <1>2 DEF ToldBySurreal
  <2>2. ~store.silent => \/ store.unannounced > 0 \/ c = store.content \/ 0 \in pushes
                         \/ trailing.on /\ (trailing.versionless \/ trailing.for # {})
    <3>1. seen.content = store.content => seen.content = store.content OBVIOUS
    <3>2. c # Unread BY <1>1 DEF Unread
    <3>3. CASE seen.content # store.content BY <1>0, <3>2, <3>3 DEF ToldBySurreal
    <3>4. CASE seen.content = store.content /\ c # store.content
      <4>1. seen.content <= c BY <1>0, <3>2 DEF ReadsBehind
      <4> QED BY <1>1, <1>n, <3>4, <4>1
    <3> QED BY <3>3, <3>4
  <2>3. ~store.silent =>
         \/ store.unannounced > 0 \/ c = store.content \/ 0 \in pushes \/ flight'.on
         \/ trailing'.on /\ (trailing'.versionless \/ trailing'.for # {})
    <3>1. CASE FlightGoes BY <3>1 DEF FlightGoes, NewFlight, NoFlight
    <3>2. CASE FlightRests BY <2>2, <3>2 DEF FlightRests
    <3>3. CASE FlightWaits BY <2>2, <3>3 DEF FlightWaits
    <3> QED BY <1>4, <3>1, <3>2, <3>3
  <2> QED BY <1>0, <1>2, <1>3, <1>9, <2>3 DEF ToldBySurreal
<1> QED BY <1>8, <1>10, <1>11 DEF RefInv

LEMMA FlightFailsStep ==
  ASSUME RefInv, FlightFails
  PROVE  RefInv'
<1>0. RefShape /\ ReadsBehind /\ OneRefresh /\ AnswersFresh /\ ToldByRedis /\ ToldBySurreal
  BY DEF RefInv
<1>1. /\ store' = [store EXCEPT !.silent = TRUE] /\ demand' = Failed(flight.for)
      /\ ~K8s /\ UNCHANGED <<via, pushes, seen>>
      /\ AfterFlight(seen) \/ FlightWaits
  BY DEF FlightFails, AfterFlightQuiet, FlightWaits
<1>2. FlightGoes \/ FlightRests \/ FlightWaits BY <1>0, <1>1, AfterFlightIs DEF RefShape
<1>3. /\ store' \in StoreStates /\ store'.silent = TRUE
      /\ store'.ver = store.ver /\ store'.content = store.content
      /\ store'.unannounced = store.unannounced
  BY <1>0, <1>1 DEF RefShape, StoreStates
<1>4. refCount' \in Nat BY <1>0 DEF FlightFails, RefFault, RefShape
<1>5. /\ demand' \in [Demands -> DemandStates]
      /\ \A d \in Demands : /\ demand'[d].asked = demand[d].asked
                            /\ d \in flight.for => demand'[d].st = "failed"
                            /\ d \notin flight.for => demand'[d] = demand[d]
  <2>1. flight.for \in SUBSET Demands /\ Unread \in Readings
    BY <1>0 DEF RefShape, FlightStates, Readings
  <2> QED BY <1>0, <1>1, <2>1, Settled
<1>6. \A d \in Demands : /\ demand'[d].st = "idle" => demand[d].st = "idle"
                         /\ demand'[d].st = "waiting" => demand[d].st = "waiting" /\ d \notin flight.for
                         /\ demand'[d].st = "done" => demand'[d].got >= demand'[d].asked
  <2> SUFFICES ASSUME NEW d \in Demands
               PROVE /\ demand'[d].st = "idle" => demand[d].st = "idle"
                     /\ demand'[d].st = "waiting" => demand[d].st = "waiting" /\ d \notin flight.for
                     /\ demand'[d].st = "done" => demand'[d].got >= demand'[d].asked
    OBVIOUS
  <2>1. CASE d \in flight.for BY <1>5, <2>1
  <2>2. CASE d \notin flight.for BY <1>0, <1>5, <2>2 DEF AnswersFresh, RefreshIsFresh
  <2> QED BY <2>1, <2>2
<1>7. seen' \in SeenStates /\ seen'.content <= store.content /\ seen'.storeVer <= store.ver
  BY <1>0, <1>1 DEF RefShape, ReadsBehind
<1>8. RefShape' /\ ReadsBehind' /\ OneRefresh' /\ AnswersFresh'
  BY <1>0, <1>1, <1>2, <1>3, <1>4, <1>5, <1>6, <1>7, FlightEnds
<1>f. trailing.for \in SUBSET Demands BY <1>0 DEF RefShape, TrailingStates
<1>9. flight'.ver = Unread /\ flight'.content = Unread
  BY <1>2, <1>f, FlightFields DEF FlightGoes, FlightRests, FlightWaits
<1>10. ToldByRedis' BY <1>0, <1>1, <1>3, <1>9 DEF ToldByRedis, Redis
<1>11. ToldBySurreal' BY <1>0, <1>1, <1>3, <1>9 DEF ToldBySurreal
<1> QED BY <1>8, <1>10, <1>11 DEF RefInv

\* One step of the refreshes keeps all of it.
LEMMA RefStep == RefInv /\ [RefNext]_refVars => RefInv'
<1> SUFFICES ASSUME RefInv, [RefNext]_refVars PROVE RefInv'
  OBVIOUS
<1> USE RefreshingAssumption
    DEF Readings, FlightStates, TrailingStates, DemandStates, StoreStates, SeenStates, K8s, Redis, Unread
<1>0. RefShape /\ ReadsBehind /\ OneRefresh /\ AnswersFresh /\ ToldByRedis /\ ToldBySurreal
  BY DEF RefInv
<1>a1. ASSUME Written PROVE RefInv'
  <2>1. RefShape' BY <1>0, <1>a1, WrittenShape
  <2>2. ReadsBehind' BY <1>0, <1>a1 DEF Written, RefShape, ReadsBehind
  <2>3. OneRefresh' BY <1>0, <1>a1 DEF Written, RefShape, OneRefresh, Resting, NoFlight
  <2>4. AnswersFresh' BY <1>0, <1>a1 DEF Written, RefShape, AnswersFresh, RefreshIsFresh
  <2>5. ToldByRedis' BY <1>0, <1>a1 DEF Written, RefShape, ToldByRedis
  <2>6. ToldBySurreal' BY <1>0, <1>a1 DEF Written, RefShape, ToldBySurreal
  <2> QED BY <2>1, <2>2, <2>3, <2>4, <2>5, <2>6 DEF RefInv
<1>a2. ASSUME Announced PROVE RefInv'
  <2>1. RefShape' BY <1>0, <1>a2, AnnouncedShape
  <2>2. ReadsBehind' BY <1>0, <1>a2 DEF Announced, RefShape, ReadsBehind
  <2>3. OneRefresh' BY <1>0, <1>a2 DEF Announced, RefShape, OneRefresh, Resting, NoFlight
  <2>4. AnswersFresh' BY <1>0, <1>a2 DEF Announced, RefShape, AnswersFresh, RefreshIsFresh
  <2>5. ToldByRedis' BY <1>0, <1>a2 DEF Announced, RefShape, ToldByRedis
  <2>6. ToldBySurreal' BY <1>0, <1>a2 DEF Announced, RefShape, ToldBySurreal
  <2> QED BY <2>1, <2>2, <2>3, <2>4, <2>5, <2>6 DEF RefInv
<1>a3. ASSUME Expires PROVE RefInv'
  <2>1. RefShape' BY <1>0, <1>a3, ExpiresShape
  <2>2. ReadsBehind' BY <1>0, <1>a3 DEF Expires, RefShape, ReadsBehind
  <2>3. OneRefresh' BY <1>0, <1>a3 DEF Expires, RefShape, OneRefresh, Resting, NoFlight
  <2>4. AnswersFresh' BY <1>0, <1>a3 DEF Expires, RefShape, AnswersFresh, RefreshIsFresh
  <2>5. ToldByRedis' BY <1>0, <1>a3 DEF Expires, RefShape, ToldByRedis
  <2>6. ToldBySurreal' BY <1>0, <1>a3 DEF Expires, RefShape, ToldBySurreal
  <2> QED BY <2>1, <2>2, <2>3, <2>4, <2>5, <2>6 DEF RefInv
<1>a4. ASSUME PushLost PROVE RefInv'
  <2>1. RefShape' BY <1>0, <1>a4, PushLostShape
  <2>2. ReadsBehind' BY <1>0, <1>a4 DEF PushLost, RefFault, RefShape, ReadsBehind
  <2>3. OneRefresh'
    BY <1>0, <1>a4 DEF PushLost, RefFault, RefShape, OneRefresh, Resting, NoFlight
  <2>4. AnswersFresh'
    BY <1>0, <1>a4 DEF PushLost, RefFault, RefShape, AnswersFresh, RefreshIsFresh
  <2>5. ToldByRedis' BY <1>0, <1>a4 DEF PushLost, RefFault, RefShape, ToldByRedis
  <2>6. ToldBySurreal' BY <1>0, <1>a4 DEF PushLost, RefFault, RefShape, ToldBySurreal
  <2> QED BY <2>1, <2>2, <2>3, <2>4, <2>5, <2>6 DEF RefInv
<1>a5. ASSUME NEW p \in pushes, Note(p) PROVE RefInv'
  <2>h. RefShape' /\ ReadsBehind' /\ OneRefresh' /\ ToldByRedis' /\ ToldBySurreal'
    BY <1>0, <1>a5, NoteStep
  <2>4. AnswersFresh'
    BY <1>0, <1>a5 DEF Note, Resting, NewFlight, NoFlight, NoTrailing, RefShape, AnswersFresh,
       RefreshIsFresh
  <2> QED BY <2>h, <2>4 DEF RefInv
<1>a6. ASSUME NEW d \in Demands, Demand(d) PROVE RefInv'
  <2>1. RefShape' BY <1>0, <1>a6, DemandShape
  <2>2. ReadsBehind'
    BY <1>0, <1>a6 DEF Demand, Asked, DemandJoins, NewFlight, NoFlight, NoTrailing, RefShape,
       ReadsBehind
  <2>3. OneRefresh'
    BY <1>0, <1>a6 DEF Demand, Asked, DemandJoins, NewFlight, NoFlight, NoTrailing, RefShape,
       OneRefresh, Resting
  <2>4. AnswersFresh'
    BY <1>0, <1>a6 DEF Demand, Asked, DemandJoins, NewFlight, NoFlight, NoTrailing, RefShape,
       AnswersFresh, RefreshIsFresh
  <2>5. ToldByRedis'
    BY <1>0, <1>a6 DEF Demand, Asked, DemandJoins, NewFlight, NoFlight, NoTrailing, RefShape,
       ToldByRedis
  <2>6. ToldBySurreal'
    BY <1>0, <1>a6 DEF Demand, Asked, DemandJoins, NewFlight, NoFlight, NoTrailing, RefShape,
       ToldBySurreal
  <2> QED BY <2>1, <2>2, <2>3, <2>4, <2>5, <2>6 DEF RefInv
<1>a7. ASSUME NEW d \in Demands, Relist(d) PROVE RefInv'
  <2>1. RefShape' BY <1>0, <1>a7, RelistShape
  <2>2. ReadsBehind'
    BY <1>0, <1>a7 DEF Relist, Asked, Relisted, NewFlight, NoFlight, NoTrailing, RefShape,
       ReadsBehind
  <2>3. OneRefresh'
    BY <1>0, <1>a7 DEF Relist, Asked, Relisted, NewFlight, NoFlight, NoTrailing, RefShape,
       OneRefresh, Resting
  <2>4. AnswersFresh'
    BY <1>0, <1>a7 DEF Relist, Asked, Relisted, NewFlight, NoFlight, NoTrailing, RefShape,
       AnswersFresh, RefreshIsFresh
  <2>5. ToldByRedis'
    BY <1>0, <1>a7 DEF Relist, Asked, Relisted, NewFlight, NoFlight, NoTrailing, RefShape,
       ToldByRedis
  <2>6. ToldBySurreal'
    BY <1>0, <1>a7 DEF Relist, Asked, Relisted, NewFlight, NoFlight, NoTrailing, RefShape,
       ToldBySurreal
  <2> QED BY <2>1, <2>2, <2>3, <2>4, <2>5, <2>6 DEF RefInv
<1>a8. ASSUME ReadCounter PROVE RefInv'
  <2>1. RefShape' BY <1>0, <1>a8, CounterShape
  <2>2. ReadsBehind' BY <1>0, <1>a8 DEF ReadCounter, RefShape, ReadsBehind
  <2>3. OneRefresh' BY <1>0, <1>a8 DEF ReadCounter, RefShape, OneRefresh, Resting, NoFlight
  <2>4. AnswersFresh'
    BY <1>0, <1>a8 DEF ReadCounter, RefShape, ReadsBehind, OneRefresh, AnswersFresh,
       RefreshIsFresh, Resting, NoFlight
  <2>5. ToldByRedis' BY <1>0, <1>a8 DEF ReadCounter, RefShape, ToldByRedis
  <2>6. ToldBySurreal' BY <1>0, <1>a8 DEF ReadCounter, RefShape, ToldBySurreal
  <2> QED BY <2>1, <2>2, <2>3, <2>4, <2>5, <2>6 DEF RefInv
<1>a9. ASSUME ReadRows PROVE RefInv'
  <2>1. RefShape' BY <1>0, <1>a9 DEF ReadRows, RefShape
  <2>2. ReadsBehind' BY <1>0, <1>a9 DEF ReadRows, RefShape, ReadsBehind
  <2>3. OneRefresh' BY <1>0, <1>a9 DEF ReadRows, RefShape, OneRefresh, Resting, NoFlight
  <2>4. AnswersFresh'
    BY <1>0, <1>a9 DEF ReadRows, RefShape, ReadsBehind, OneRefresh, AnswersFresh,
       RefreshIsFresh, Resting, NoFlight
  <2>5. ToldByRedis'
    BY <1>0, <1>a9 DEF ReadRows, RefShape, ReadsBehind, OneRefresh, ToldByRedis, Resting,
       NoFlight
  <2>6. ToldBySurreal' BY <1>0, <1>a9 DEF ReadRows, RefShape, ToldBySurreal
  <2> QED BY <2>1, <2>2, <2>3, <2>4, <2>5, <2>6 DEF RefInv
<1>a10. ASSUME FlightLands PROVE RefInv'
  BY <1>a10, FlightLandsStep
<1>a11. ASSUME FlightFails PROVE RefInv'
  BY <1>a11, FlightFailsStep
<1>a12. ASSUME QuietEnds PROVE RefInv'
  <2>1. RefShape'
    BY <1>0, <1>a12 DEF QuietEnds, AfterFlight, Due, NewFlight, NoFlight, NoTrailing, RefShape
  <2>2. ReadsBehind'
    BY <1>0, <1>a12 DEF QuietEnds, AfterFlight, Due, NewFlight, NoFlight, NoTrailing,
       RefShape, ReadsBehind, OneRefresh, Resting
  <2>3. OneRefresh'
    BY <1>0, <1>a12 DEF QuietEnds, AfterFlight, Due, NewFlight, NoFlight, NoTrailing,
       RefShape, OneRefresh, Resting
  <2>4. AnswersFresh'
    BY <1>0, <1>a12 DEF QuietEnds, AfterFlight, Due, NewFlight, NoFlight, NoTrailing,
       RefShape, AnswersFresh, RefreshIsFresh
  <2>5. ToldByRedis'
    BY <1>0, <1>a12 DEF QuietEnds, AfterFlight, Due, NewFlight, NoFlight, NoTrailing,
       RefShape, ToldByRedis
  <2>6. ToldBySurreal'
    BY <1>0, <1>a12 DEF QuietEnds, AfterFlight, Due, NewFlight, NoFlight, NoTrailing,
       RefShape, ToldBySurreal
  <2> QED BY <2>1, <2>2, <2>3, <2>4, <2>5, <2>6 DEF RefInv
<1>a13. ASSUME LeaveSettles PROVE RefInv'
  <2>1. RefShape' BY <1>0, <1>a13 DEF LeaveSettles, Resting, RefShape
  <2>2. ReadsBehind' BY <1>0, <1>a13 DEF LeaveSettles, Resting, RefShape, ReadsBehind
  <2>3. OneRefresh' BY <1>0, <1>a13 DEF LeaveSettles, Resting, RefShape, OneRefresh, NoFlight
  <2>4. AnswersFresh'
    BY <1>0, <1>a13 DEF LeaveSettles, Resting, RefShape, AnswersFresh, RefreshIsFresh
  <2>5. ToldByRedis' BY <1>0, <1>a13 DEF LeaveSettles, Resting, RefShape, ToldByRedis
  <2>6. ToldBySurreal' BY <1>0, <1>a13 DEF LeaveSettles, Resting, RefShape, ToldBySurreal
  <2> QED BY <2>1, <2>2, <2>3, <2>4, <2>5, <2>6 DEF RefInv
<1>a14. ASSUME ListReads PROVE RefInv'
  <2>1. RefShape' BY <1>0, <1>a14 DEF ListReads, RefShape
  <2>2. ReadsBehind' BY <1>0, <1>a14 DEF ListReads, RefShape, ReadsBehind
  <2>3. OneRefresh' BY <1>0, <1>a14 DEF ListReads, RefShape, OneRefresh, Resting, NoFlight
  <2>4. AnswersFresh'
    BY <1>0, <1>a14 DEF ListReads, RefShape, ReadsBehind, OneRefresh, AnswersFresh,
       RefreshIsFresh, Resting, NoFlight
  <2>5. ToldByRedis' BY <1>0, <1>a14 DEF ListReads, RefShape, ToldByRedis
  <2>6. ToldBySurreal' BY <1>0, <1>a14 DEF ListReads, RefShape, ToldBySurreal
  <2> QED BY <2>1, <2>2, <2>3, <2>4, <2>5, <2>6 DEF RefInv
<1>a15. ASSUME ListLands PROVE RefInv'
  <2>h. RefShape' /\ ReadsBehind' /\ AnswersFresh'
    BY <1>0, <1>a15, ListLandsStep
  <2>3. OneRefresh'
    BY <1>0, <1>a15 DEF ListLands, Materialized, Resolved, NewFlight, NoFlight, NoTrailing,
       RefShape, OneRefresh, Resting
  <2>5. ToldByRedis'
    BY <1>0, <1>a15 DEF ListLands, Materialized, Resolved, NewFlight, NoFlight, NoTrailing,
       RefShape, ToldByRedis
  <2>6. ToldBySurreal'
    BY <1>0, <1>a15 DEF ListLands, Materialized, Resolved, NewFlight, NoFlight, NoTrailing,
       RefShape, ToldBySurreal
  <2> QED BY <2>h, <2>3, <2>5, <2>6 DEF RefInv
<1>a16. ASSUME ListStarts PROVE RefInv'
  <2>1. RefShape' BY <1>0, <1>a16, ListStartsShape
  <2>2. ReadsBehind'
    BY <1>0, <1>a16 DEF ListStarts, RefFault, NewFlight, NoFlight, NoTrailing, RefShape,
       ReadsBehind, OneRefresh, Resting
  <2>3. OneRefresh'
    BY <1>0, <1>a16 DEF ListStarts, RefFault, NewFlight, NoFlight, NoTrailing, RefShape,
       OneRefresh, Resting
  <2>4. AnswersFresh'
    BY <1>0, <1>a16 DEF ListStarts, RefFault, NewFlight, NoFlight, NoTrailing, RefShape,
       AnswersFresh, RefreshIsFresh
  <2>5. ToldByRedis'
    BY <1>0, <1>a16 DEF ListStarts, RefFault, NewFlight, NoFlight, NoTrailing, RefShape,
       ToldByRedis
  <2>6. ToldBySurreal'
    BY <1>0, <1>a16 DEF ListStarts, RefFault, NewFlight, NoFlight, NoTrailing, RefShape,
       ToldBySurreal
  <2> QED BY <2>1, <2>2, <2>3, <2>4, <2>5, <2>6 DEF RefInv
<1>a17. ASSUME ListFails PROVE RefInv'
  <2>1. RefShape' BY <1>0, <1>a17, ListFailsShape
  <2>2. ReadsBehind'
    BY <1>0, <1>a17 DEF ListFails, Failed, RefFault, NewFlight, NoFlight, NoTrailing,
       RefShape, ReadsBehind
  <2>3. OneRefresh'
    BY <1>0, <1>a17 DEF ListFails, Failed, RefFault, NewFlight, NoFlight, NoTrailing,
       RefShape, OneRefresh, Resting
  <2>4. AnswersFresh'
    BY <1>0, <1>a17 DEF ListFails, Failed, RefFault, NewFlight, NoFlight, NoTrailing,
       RefShape, AnswersFresh, RefreshIsFresh
  <2>5. ToldByRedis'
    BY <1>0, <1>a17 DEF ListFails, Failed, RefFault, NewFlight, NoFlight, NoTrailing,
       RefShape, ToldByRedis
  <2>6. ToldBySurreal'
    BY <1>0, <1>a17 DEF ListFails, Failed, RefFault, NewFlight, NoFlight, NoTrailing,
       RefShape, ToldBySurreal
  <2> QED BY <2>1, <2>2, <2>3, <2>4, <2>5, <2>6 DEF RefInv
<1>a18. ASSUME WatchDelivers PROVE RefInv'
  <2>1. RefShape' BY <1>0, <1>a18, DeliversShape
  <2>2. ReadsBehind'
    BY <1>0, <1>a18 DEF WatchDelivers, Materialized, RefShape, ReadsBehind, OneRefresh,
       Resting, NoFlight
  <2>3. OneRefresh'
    BY <1>0, <1>a18 DEF WatchDelivers, Materialized, RefShape, OneRefresh, Resting, NoFlight
  <2>4. AnswersFresh'
    BY <1>0, <1>a18 DEF WatchDelivers, Materialized, RefShape, AnswersFresh, RefreshIsFresh
  <2>5. ToldByRedis' BY <1>0, <1>a18 DEF WatchDelivers, Materialized, RefShape, ToldByRedis
  <2>6. ToldBySurreal' BY <1>0, <1>a18 DEF WatchDelivers, Materialized, RefShape, ToldBySurreal
  <2> QED BY <2>1, <2>2, <2>3, <2>4, <2>5, <2>6 DEF RefInv
<1>z. CASE UNCHANGED refVars
  BY <1>0, <1>z DEF refVars, RefInv, RefreshIsFresh, Resting, NoFlight, RefShape, ReadsBehind,
     OneRefresh, AnswersFresh, ToldByRedis, ToldBySurreal
<1> QED
  BY <1>a1, <1>a2, <1>a3, <1>a4, <1>a5, <1>a6, <1>a7, <1>a8, <1>a9, <1>a10, <1>a11, <1>a12,
     <1>a13, <1>a14, <1>a15, <1>a16, <1>a17, <1>a18, <1>z DEF RefNext

LEMMA RefStarts == RefInit => RefInv
BY RefreshingAssumption
   DEF RefInit, RefInv, RefShape, ReadsBehind, OneRefresh, AnswersFresh, RefreshIsFresh,
       ToldByRedis, ToldBySurreal, Redis, K8s, Resting, NoFlight, NoTrailing, Unread, Readings,
       FlightStates, TrailingStates, DemandStates, StoreStates, SeenStates

\* What is promised of the views follows.
LEMMA RefShows == RefInv => RefTypeOK /\ RefreshIsFresh /\ PushIsEnough
<1> SUFFICES ASSUME RefInv PROVE RefTypeOK /\ RefreshIsFresh /\ PushIsEnough
  OBVIOUS
<1>0. RefShape /\ ReadsBehind /\ OneRefresh /\ AnswersFresh /\ ToldByRedis /\ ToldBySurreal
  BY DEF RefInv
<1>t. /\ store.content \in 0..MaxContent /\ store.ver \in Nat /\ store.unannounced \in Nat
      /\ seen.content \in Nat /\ seen.storeVer \in Nat
  BY <1>0 DEF RefShape, StoreStates, SeenStates
<1>v. store.ver <= MaxContent /\ seen.content <= store.content
  BY <1>0, <1>t, RefreshingAssumption DEF ReadsBehind
<1>1. RefTypeOK
  <2>1. pushes \subseteq 0..MaxContent BY <1>0, <1>t, <1>v, RefreshingAssumption DEF RefShape
  <2>2. seen.content \in 0..store.content /\ seen.storeVer <= store.ver
    BY <1>0, <1>t, <1>v DEF ReadsBehind
  <2>3. ~K8s /\ Resting => settling # "waiting" /\ \A d \in Demands : demand[d].st # "waiting"
    BY <1>0 DEF OneRefresh, Resting, NoFlight
  <2> QED BY <1>0, <2>1, <2>2, <2>3 DEF RefTypeOK, RefShape
<1>2. PushIsEnough
  <2> SUFFICES ASSUME PushQuiet, via \in {"redis", "surreal"} PROVE seen.content = store.content
    BY DEF PushIsEnough
  <2>1. CASE via = "redis"
    <3>1. store.ver <= seen.storeVer BY <1>0, <2>1 DEF ToldByRedis, Redis, PushQuiet, Resting
    <3>2. seen.storeVer <= seen.content BY <1>0, <2>1 DEF ToldByRedis, Redis
    <3>3. store.ver = store.content BY <1>0, <1>t DEF ReadsBehind, PushQuiet
    <3> QED BY <1>t, <1>v, <3>1, <3>2, <3>3
  <2>2. CASE via = "surreal" BY <1>0, <1>t, <2>2 DEF ToldBySurreal, PushQuiet, Resting
  <2> QED BY <2>1, <2>2
<1> QED BY <1>0, <1>1, <1>2 DEF AnswersFresh

-----------------------------------------------------------------------------
(* Membership and its views, in the composition.                           *)

HonestInv ==
  /\ focus \in Components
  /\ focus = "membership" => MemInv
  /\ focus = "views" => RefInv

LEMMA HonestStart == ClusterInit => HonestInv
BY MemStarts, RefStarts DEF ClusterInit, HonestInv

LEMMA HonestStep == HonestInv /\ [ClusterNext]_clusterVars => HonestInv'
<1> SUFFICES ASSUME HonestInv, [ClusterNext]_clusterVars PROVE HonestInv'
  OBVIOUS
<1>1. CASE focus = "membership" /\ MemNext /\ UNCHANGED focus
  BY <1>1, MemStep DEF HonestInv, Components
<1>2. CASE focus = "views" /\ RefNext /\ UNCHANGED focus
  BY <1>2, RefStep DEF HonestInv, Components
<1>3. CASE focus \notin {"membership", "views"} /\ UNCHANGED focus
  BY <1>3 DEF HonestInv, Components
<1>4. CASE UNCHANGED clusterVars
  BY <1>4, MemStep, RefStep DEF clusterVars, HonestInv, Components
<1> QED BY <1>1, <1>2, <1>3, <1>4 DEF ClusterNext

\* MembershipIsHonest: whatever beats, reads and pushes fail or come late, and whether the
\* host is suspended or its clock is set back, one whose claims were evicted past its window
\* is fenced or about to be once a beat confirms (heartbeat-clock.ts and the providers); one
\* that left is not put back; a refresh answers with what the store held when it was asked
\* for or later, and a push is enough (coalesce.ts, watch.ts).
THEOREM MembershipHonest == ClusterSpec => []MembershipIsHonest
<1>1. HonestInv => MembershipIsHonest
  BY MemShows, RefShows DEF HonestInv, MembershipIsHonest
<1> QED BY <1>1, HonestStart, HonestStep, PTL DEF ClusterSpec
-----------------------------------------------------------------------------
(* Calls between peers: views and who ranks first in them.                 *)

\* Of two hosts one ranks first.
Beats(a, g, h) == \/ Score[a][g] > Score[a][h]
                  \/ Score[a][g] = Score[a][h] /\ Rank[g] < Rank[h]

LEMMA OneRanksFirst ==
  ASSUME NEW a \in PeerActors, NEW g \in PeerHosts, NEW h \in PeerHosts
  PROVE  /\ g # h => Beats(a, g, h) \/ Beats(a, h, g)
         /\ ~(Beats(a, g, h) /\ Beats(a, h, g))
         /\ \A k \in PeerHosts : Beats(a, g, h) /\ Beats(a, h, k) => Beats(a, g, k)
BY PeerAssumption DEF Beats

\* Some host of a non-empty set ranks before all others of it: a smallest set without one
\* would have one more host than a set that has it.
LEMMA SomeoneRanksFirst ==
  ASSUME NEW a \in PeerActors, NEW up \in SUBSET PeerHosts, up # {}
  PROVE  \E h \in up : \A g \in up \ {h} : Beats(a, h, g)
<1> DEFINE First(s, h) == \A g \in s \ {h} : Beats(a, h, g)
           leaderless == {s \in SUBSET PeerHosts : s # {} /\ ~\E h \in s : First(s, h)}
<1> SUFFICES ASSUME leaderless # {} PROVE FALSE
  OBVIOUS
<1>1. IsWellFoundedOn(StrictSubsetOrdering(PeerHosts), SUBSET PeerHosts)
  BY PeerAssumption, FS_StrictSubsetOrderingWellFounded, FS_FiniteSubsetsOfFinite
<1>2. PICK s \in leaderless : \A t \in leaderless : ~(<<t, s>> \in StrictSubsetOrdering(PeerHosts))
  <2> HIDE DEF leaderless
  <2>1. leaderless \subseteq SUBSET PeerHosts BY DEF leaderless
  <2> QED BY <1>1, <2>1, WFMin
<1>3. PICK h \in s : h \in PeerHosts OBVIOUS
<1>4. PICK b \in s \ {h} : First(s \ {h}, b)
  <2>1. <<s \ {h}, s>> \in StrictSubsetOrdering(PeerHosts) BY <1>3 DEF StrictSubsetOrdering
  <2>2. s \ {h} \notin leaderless BY <1>2, <2>1
  <2>3. s \ {h} # {}
    <3> SUFFICES ASSUME s = {h} PROVE FALSE OBVIOUS
    <3>1. First(s, h) OBVIOUS
    <3> QED BY <1>3, <3>1
  <2> QED BY <2>2, <2>3
<1>5. b \in PeerHosts OBVIOUS
<1>6. CASE Beats(a, b, h)
  <2>1. First(s, b) BY <1>4, <1>6
  <2> QED BY <2>1
<1>7. CASE Beats(a, h, b)
  <2>1. \A g \in s \ {h} : Beats(a, h, g)
    <3> SUFFICES ASSUME NEW g \in s \ {h} PROVE Beats(a, h, g) OBVIOUS
    <3>1. CASE g = b BY <1>7, <3>1
    <3>2. CASE g # b
      <4>1. Beats(a, b, g) BY <1>4, <3>2
      <4>2. g \in PeerHosts OBVIOUS
      <4> HIDE DEF leaderless
      <4> QED BY <1>3, <1>5, <1>7, <4>1, <4>2, OneRanksFirst
    <3> QED BY <3>1, <3>2
  <2>2. First(s, h) BY <2>1
  <2> QED BY <1>3, <2>2
<1> QED BY <1>3, <1>4, <1>5, <1>6, <1>7, OneRanksFirst

\* The rendezvous of a view is its first.
LEMMA RendezvousIs ==
  ASSUME NEW a \in PeerActors, NEW view, Ids(view) \subseteq PeerHosts, Ids(view) # {}
  PROVE  /\ Rendezvous(a, view) \in Ids(view)
         /\ \A g \in Ids(view) \ {Rendezvous(a, view)} : Beats(a, Rendezvous(a, view), g)
BY SomeoneRanksFirst DEF Rendezvous, Beats

\* Two views place a key differently only where one lacks the other's choice.
LEMMA SameAmongBoth ==
  ASSUME NEW a \in PeerActors, NEW v, NEW w, Ids(v) \subseteq PeerHosts, Ids(w) \subseteq PeerHosts,
         {Rendezvous(a, v), Rendezvous(a, w)} \subseteq Ids(v) \cap Ids(w)
  PROVE  Rendezvous(a, v) = Rendezvous(a, w)
<1> DEFINE r == Rendezvous(a, v)  q == Rendezvous(a, w)
<1> SUFFICES ASSUME r # q PROVE FALSE OBVIOUS
<1>1. r \in Ids(v) /\ r \in Ids(w) /\ q \in Ids(v) /\ q \in Ids(w) OBVIOUS
<1>2. Ids(v) # {} /\ Ids(w) # {} BY <1>1
<1>3. Beats(a, r, q) BY <1>1, <1>2, RendezvousIs
<1>4. Beats(a, q, r) BY <1>1, <1>2, RendezvousIs
<1> QED BY <1>1, <1>3, <1>4, OneRanksFirst

\* A listing holds each living host once.
LEMMA ListingIs ==
  ASSUME NEW l \in Listings
  PROVE  /\ Ids(l) = {h \in PeerHosts : standing[h] \in {"active", "draining"}}
         /\ Cardinality(Ids(l)) = Len(l)
<1> DEFINE living == {h \in PeerHosts : standing[h] \in {"active", "draining"}}
           Ahead(h, up) == {g \in living : IF up THEN Rank[g] <= Rank[h] ELSE Rank[g] >= Rank[h]}
           n == Cardinality(living)
<1>1. IsFiniteSet(living) /\ n \in Nat BY PeerAssumption, FS_Subset, FS_CardinalityType
<1>2. PICK up \in BOOLEAN :
        l = [i \in 1..n |-> LET id == CHOOSE h \in living : Cardinality(Ahead(h, up)) = i
                            IN  [id |-> id, status |-> standing[id]]]
  BY DEF Listings
<1> DEFINE place == [h \in living |-> Cardinality(Ahead(h, up))]
<1>3. \A h \in living : IsFiniteSet(Ahead(h, up)) /\ place[h] \in 1..n
  <2> SUFFICES ASSUME NEW h \in living PROVE IsFiniteSet(Ahead(h, up)) /\ place[h] \in 1..n
    OBVIOUS
  <2>1. Ahead(h, up) \in SUBSET living OBVIOUS
  <2>2. IsFiniteSet(Ahead(h, up)) /\ Cardinality(Ahead(h, up)) <= n
    <3> HIDE DEF living, Ahead
    <3> QED BY <1>1, <2>1, FS_Subset
  <2>3. h \in Ahead(h, up) BY PeerAssumption
  <2>4. Cardinality(Ahead(h, up)) \in Nat /\ Cardinality(Ahead(h, up)) # 0
    BY <2>2, <2>3, FS_CardinalityType, FS_EmptySet
  <2> HIDE DEF Ahead, living, n
  <2> QED BY <1>1, <2>2, <2>4
<1>4. \A g, h \in living : place[g] = place[h] => g = h
  <2>1. ASSUME NEW g \in living, NEW h \in living, g # h, Ahead(g, up) \subseteq Ahead(h, up)
        PROVE  place[g] # place[h]
    <3>1. h \notin Ahead(g, up)
      <4>1. Rank[g] \in Nat /\ Rank[h] \in Nat /\ Rank[g] # Rank[h] BY <2>1, PeerAssumption
      <4>2. g \in Ahead(h, up) BY <2>1, <4>1
      <4> QED BY <4>1, <4>2
    <3>2. h \in Ahead(h, up) BY PeerAssumption
    <3>3. Ahead(g, up) # Ahead(h, up) BY <3>1, <3>2
    <3> HIDE DEF Ahead, living
    <3> QED BY <1>3, <2>1, <3>3, FS_Subset
  <2>2. \A g, h \in living : Ahead(g, up) \subseteq Ahead(h, up) \/ Ahead(h, up) \subseteq Ahead(g, up)
    BY PeerAssumption
  <2> HIDE DEF place, Ahead
  <2> QED BY <2>1, <2>2
<1>5. \A i \in 1..n : \E h \in living : place[h] = i
  <2>1. place \in Injection(living, 1..n)
    <3> HIDE DEF living, Ahead
    <3>1. place \in [living -> 1..n] BY <1>3
    <3> QED BY <1>4, <3>1 DEF Injection, IsInjective
  <2>2. IsFiniteSet(1..n) /\ Cardinality(1..n) = n BY <1>1, FS_Interval
  <2> HIDE DEF place, living
  <2>3. place \in Surjection(living, 1..n) BY <1>1, <2>1, <2>2, FS_Injection DEF n
  <2> QED BY <2>3 DEF Surjection
<1> DEFINE Nth(i) == CHOOSE h \in living : Cardinality(Ahead(h, up)) = i
<1>6. \A i \in 1..n : Nth(i) \in living /\ place[Nth(i)] = i
  <2> HIDE DEF living, Ahead
  <2> QED BY <1>5
<1>7. /\ DOMAIN l = 1..n /\ Len(l) = n
      /\ \A i \in 1..n : l[i].id = Nth(i)
  <2>1. l = [i \in 1..n |-> [id |-> Nth(i), status |-> standing[Nth(i)]]] BY <1>2
  <2> HIDE DEF Nth, n
  <2> QED BY <1>1, <2>1
<1>8. Ids(l) = living
  <2>1. \A h \in living : Nth(place[h]) = h /\ place[h] \in 1..n
    <3> HIDE DEF Nth, place, living
    <3> QED BY <1>3, <1>4, <1>6
  <2> HIDE DEF Nth, place, living, n
  <2> QED BY <1>6, <1>7, <2>1 DEF Ids
<1> HIDE DEF living
<1>9. Cardinality(Ids(l)) = Len(l) BY <1>7, <1>8
<1> QED BY <1>8, <1>9 DEF living

\* Every view a host is given is a listing, or of itself alone.
Fresh(v) == v \in Listings \/ \E h \in PeerHosts : v = <<[id |-> h, status |-> "active"]>>

ViewGiven == \E h, v : Fresh(v) /\ seenBy' = [seenBy EXCEPT ![h] = v]

LEMMA ReroutedGives ==
  ASSUME NEW c, NEW g, NEW refresh, Rerouted(c, g, refresh)
  PROVE  UNCHANGED seenBy \/ ViewGiven
BY DEF Rerouted, ViewGiven, Fresh

LEMMA FailedGives ==
  ASSUME NEW c, NEW kind, NEW g, PeerFailed(c, kind, g)
  PROVE  UNCHANGED seenBy \/ ViewGiven
BY ReroutedGives DEF PeerFailed, Answer

LEMMA RunGives ==
  ASSUME NEW c, NEW h, RunAt(c, h)
  PROVE  UNCHANGED seenBy \/ ViewGiven
BY FailedGives DEF RunAt

LEMMA ViewsGiven == PeerNext => UNCHANGED seenBy \/ ViewGiven
<1> SUFFICES ASSUME PeerNext PROVE UNCHANGED seenBy \/ ViewGiven OBVIOUS
<1>1. CASE \E h \in PeerHosts : HostJoins(h)
  BY <1>1 DEF HostJoins, ViewGiven, Fresh
<1>2. CASE \E h \in PeerHosts : ReadView(h)
  BY <1>2 DEF ReadView, ViewGiven, Fresh
<1>3. CASE Unplaceable BY <1>3, ReroutedGives DEF Unplaceable
<1>4. CASE Send BY <1>4, FailedGives DEF Send
<1>5. CASE DispatchLocally BY <1>5, RunGives DEF DispatchLocally
<1>6. CASE Receive BY <1>6, FailedGives, RunGives DEF Receive
<1>7. CASE Undeliverable BY <1>7, FailedGives DEF Undeliverable
<1>8. CASE Finish BY <1>8 DEF Finish, Answer
<1>9. CASE \/ ResolveHere \/ ResolveCached \/ ResolveOwner \/ ResolveByPolicy \/ PeerTick
           \/ \E h \in PeerHosts : HostDrains(h) \/ HostLeaves(h)
  BY <1>9 DEF ResolveHere, ResolveCached, ResolveOwner, ResolveByPolicy, PeerTick,
     HostDrains, HostLeaves
<1>10. CASE \/ \E h \in PeerHosts, a \in PeerActors : PlaceCall(h, a)
            \/ \E h, g \in PeerHosts, a \in PeerActors : StartTargeted(h, g, a)
            \/ \E a \in PeerActors : StartNested(a)
  BY <1>10 DEF PlaceCall, StartTargeted, StartNested
<1> QED BY <1>1, <1>2, <1>3, <1>4, <1>5, <1>6, <1>7, <1>8, <1>9, <1>10 DEF PeerNext

\* A view lists hosts of the cluster, each once.
ListedViews ==
  /\ DOMAIN seenBy = PeerHosts
  /\ \A h \in PeerHosts : Ids(seenBy[h]) \subseteq PeerHosts /\ Cardinality(Ids(seenBy[h])) = Len(seenBy[h])

LEMMA FreshLists ==
  ASSUME NEW v, Fresh(v) PROVE Ids(v) \subseteq PeerHosts /\ Cardinality(Ids(v)) = Len(v)
<1>1. CASE v \in Listings BY <1>1, ListingIs
<1>2. ASSUME NEW h \in PeerHosts, v = <<[id |-> h, status |-> "active"]>>
      PROVE  Ids(v) \subseteq PeerHosts /\ Cardinality(Ids(v)) = Len(v)
  <2>1. DOMAIN v = {1} /\ v[1].id = h /\ Len(v) = 1 BY <1>2
  <2>2. Ids(v) = {h} BY <2>1 DEF Ids
  <2> QED BY <2>1, <2>2, FS_Singleton
<1> QED BY <1>1, <1>2 DEF Fresh

LEMMA ListedStep == ListedViews /\ [PeerNext]_peerVars => ListedViews'
<1> SUFFICES ASSUME ListedViews, [PeerNext]_peerVars PROVE ListedViews' OBVIOUS
<1>1. CASE UNCHANGED seenBy BY <1>1 DEF ListedViews
<1>2. ASSUME NEW h, NEW v, Fresh(v), seenBy' = [seenBy EXCEPT ![h] = v] PROVE ListedViews'
  <2>1. DOMAIN seenBy' = PeerHosts BY <1>2 DEF ListedViews
  <2>2. \A g \in PeerHosts : seenBy'[g] = IF g = h THEN v ELSE seenBy[g]
    BY <1>2 DEF ListedViews
  <2>3. Ids(v) \subseteq PeerHosts /\ Cardinality(Ids(v)) = Len(v) BY <1>2, FreshLists
  <2>4. \A g \in PeerHosts : Ids(seenBy'[g]) \subseteq PeerHosts
                             /\ Cardinality(Ids(seenBy'[g])) = Len(seenBy'[g])
    <3> TAKE g \in PeerHosts
    <3>1. CASE g = h BY <2>2, <2>3, <3>1
    <3>2. CASE g # h BY <2>2, <3>2 DEF ListedViews
    <3> QED BY <3>1, <3>2
  <2> QED BY <2>1, <2>4 DEF ListedViews
<1>3. PeerNext \/ UNCHANGED seenBy BY DEF peerVars
<1> QED BY <1>1, <1>2, <1>3, ViewsGiven DEF ViewGiven

LEMMA ListedStart == PeerInit => ListedViews
<1> SUFFICES ASSUME PeerInit PROVE ListedViews OBVIOUS
<1>1. PICK l \in Listings : seenBy = [h \in PeerHosts |-> IF standing[h] = "active" THEN l ELSE <<>>]
  BY DEF PeerInit
<1>2. Ids(<<>>) = {} /\ Len(<<>>) = 0 /\ Cardinality(Ids(<<>>)) = 0 BY FS_EmptySet DEF Ids
<1>3. Ids(l) \subseteq PeerHosts /\ Cardinality(Ids(l)) = Len(l) BY ListingIs
<1>4. \A h \in PeerHosts : seenBy[h] \in {l, <<>>} BY <1>1
<1> QED BY <1>1, <1>2, <1>3, <1>4 DEF ListedViews

LEMMA ActiveIsListed ==
  ASSUME NEW v, Ids(v) \subseteq PeerHosts
  PROVE  Ids(ActiveIn(v)) \subseteq PeerHosts
BY DEF Ids, ActiveIn, Restrict

LEMMA RehomedStep ==
  ASSUME ListedViews, ListedViews'
  PROVE  \A h \in PeerHosts : seenBy[h]' # seenBy[h] =>
        LET v == ActiveIn(seenBy[h])  w == ActiveIn(seenBy[h]')
        IN  v # <<>> /\ w # <<>> => \A a \in PeerActors :
                {Rendezvous(a, v), Rendezvous(a, w)} \subseteq Ids(v) \cap Ids(w)
                    => Rendezvous(a, v) = Rendezvous(a, w)
<1> SUFFICES ASSUME NEW h \in PeerHosts, NEW a \in PeerActors, NEW v, NEW w,
                    v = ActiveIn(seenBy[h]), w = ActiveIn(seenBy'[h]),
                    {Rendezvous(a, v), Rendezvous(a, w)} \subseteq Ids(v) \cap Ids(w)
             PROVE  Rendezvous(a, v) = Rendezvous(a, w)
  OBVIOUS
<1>1. Ids(v) \subseteq PeerHosts BY ActiveIsListed DEF ListedViews
<1>2. Ids(w) \subseteq PeerHosts BY ActiveIsListed DEF ListedViews
<1> QED BY <1>1, <1>2, SameAmongBoth

-----------------------------------------------------------------------------
(* What moves a view.                                                      *)

\* Only what observes the store changes a view, and it moves the version.
LEMMA VersionStep ==
  ASSUME RefInv, [RefNext]_refVars, seen'.content # seen.content
  PROVE  seen'.version > seen.version
<1>0. RefShape BY DEF RefInv
<1>1. CASE FlightLands
  <2> DEFINE v == flight.ver  c == flight.content
  <2>1. v \in Nat /\ c \in Nat
    BY <1>0, <1>1 DEF FlightLands, RefShape, FlightStates, Readings
  <2>2. seen' = Observe(v, c) BY <1>1 DEF FlightLands
  <2> QED BY <1>0, <2>1, <2>2, ObserveIs
<1>2. CASE ListLands
  <2> DEFINE c == flight.content
  <2>1. c \in Nat BY <1>0, <1>2 DEF ListLands, RefShape, FlightStates, Readings
  <2>2. seen' = Materialized(c) BY <1>2 DEF ListLands
  <2> QED BY <1>0, <2>1, <2>2, MaterializedIs
<1>3. CASE WatchDelivers
  <2> DEFINE c == seen.content + 1
  <2>1. c \in Nat BY <1>0 DEF RefShape, SeenStates
  <2>2. seen' = Materialized(c) BY <1>3 DEF WatchDelivers
  <2> QED BY <1>0, <2>1, <2>2, MaterializedIs
<1>4. CASE \/ Written \/ Announced \/ Expires \/ PushLost \/ \E p \in pushes : Note(p)
           \/ \E d \in Demands : Demand(d) \/ Relist(d)
  BY <1>4 DEF Written, Announced, Expires, PushLost, Note, Demand, Relist
<1>5. CASE \/ ReadCounter \/ ReadRows \/ FlightFails \/ QuietEnds \/ LeaveSettles
           \/ ListReads \/ ListStarts \/ ListFails
  BY <1>5 DEF ReadCounter, ReadRows, FlightFails, QuietEnds, LeaveSettles, ListReads,
     ListStarts, ListFails
<1>6. CASE UNCHANGED refVars BY <1>6 DEF refVars
<1> QED BY <1>1, <1>2, <1>3, <1>4, <1>5, <1>6 DEF RefNext

ViewsInv == focus \in Components /\ (focus = "views" => RefInv) /\ ListedViews

LEMMA ViewsStart == ClusterInit => ViewsInv
BY RefStarts, ListedStart DEF ClusterInit, ViewsInv

LEMMA ViewsFocus ==
  [ClusterNext]_clusterVars =>
    /\ UNCHANGED focus
    /\ IF focus = "views" THEN [RefNext]_refVars ELSE UNCHANGED refVars
    /\ IF focus = "peers" THEN [PeerNext]_peerVars ELSE UNCHANGED peerVars
BY DEF ClusterNext, clusterVars, refVars, peerVars

LEMMA ViewsStep == ViewsInv /\ [ClusterNext]_clusterVars => ViewsInv'
<1> SUFFICES ASSUME ViewsInv, [ClusterNext]_clusterVars PROVE ViewsInv' OBVIOUS
<1>1. focus' = focus BY ViewsFocus
<1>2. focus = "views" => RefInv' BY RefStep, ViewsFocus DEF ViewsInv
<1>3. ListedViews'
  <2>1. [PeerNext]_peerVars BY ViewsFocus
  <2> QED BY <2>1, ListedStep DEF ViewsInv
<1> QED BY <1>1, <1>2, <1>3 DEF ViewsInv

\* ViewsMoveForCause: the version of a view moves with every change of what it shows, on
\* every provider and whatever is lost (coalesce.ts, and the Kubernetes provider's own loop),
\* and a view a host is given moves no key between two hosts that are in the old one and in
\* the new (placement.ts:600-602).
THEOREM ViewsMove == ClusterSpec => ViewsMoveForCause
<1>1. ViewsInv /\ [ClusterNext]_clusterVars
        => [seen'.content # seen.content => seen'.version > seen.version]_refVars
  <2> SUFFICES ASSUME ViewsInv, [ClusterNext]_clusterVars, seen'.content # seen.content
               PROVE  seen'.version > seen.version
    OBVIOUS
  <2>1. focus = "views" /\ [RefNext]_refVars BY ViewsFocus DEF refVars
  <2> QED BY <2>1, VersionStep DEF ViewsInv
<1>2. ViewsInv /\ ViewsInv' =>
        [\A h \in PeerHosts : seenBy[h]' # seenBy[h] =>
           LET v == ActiveIn(seenBy[h])  w == ActiveIn(seenBy[h]')
           IN  v # <<>> /\ w # <<>> => \A a \in PeerActors :
                   {Rendezvous(a, v), Rendezvous(a, w)} \subseteq Ids(v) \cap Ids(w)
                       => Rendezvous(a, v) = Rendezvous(a, w)]_peerVars
  BY RehomedStep DEF ViewsInv
<1> QED BY <1>1, <1>2, ViewsStart, ViewsStep, PTL
    DEF ClusterSpec, ViewsMoveForCause, ViewVersionMoves, OnlyDepartedRehomed

-----------------------------------------------------------------------------
(* Calls between peers: the stack of a call and the ones nested in it.     *)

PeerCall ==
  [actor : PeerActors, from : PeerHosts, at : PeerHosts \cup {NoHost}, chain : Seq(PeerActors),
   due : Int, lag : Nat, dueAt : Int, left : Nat, sentAt : Int, sentTrue : Nat,
   attempt : 0..PeerRetries, phase : {"route", "placed", "sent", "running", "queued"},
   targeted : BOOLEAN]

\* The true time a call is due at, by the clock of the host that made it; and what may
\* be made of the root's on the way: never sooner, and later by the time on the wire at
\* most, unless that is over.
TrueDue(c) == c.due - Skew[c.from]
Within(x, onwire, root, t) == root <= x /\ (x <= root + onwire \/ x <= t)

CallFits(c, root, t) ==
  /\ (c.at = NoHost) = (c.phase = "route") /\ c.phase # "queued"
  /\ c.phase # "sent" => Within(TrueDue(c), c.lag, root, t)
  /\ c.phase = "sent" => /\ c.sentTrue <= t /\ Within(TrueDue(c), c.lag, root, c.sentTrue)
                         /\ c.left = AtLeastZero(TrueDue(c) - c.sentTrue)
  /\ c.phase = "running" => Within(c.dueAt - Skew[c.at], c.lag, root, t)

\* Every call is up the chain of those nested in it.
UpChain(s) ==
  \A j \in 1..Len(s) : \A i \in 1..(j - 1) :
    \E k \in DOMAIN s[j].chain : s[j].chain[k] = s[i].actor

StackOf(s, t) ==
  /\ s \in Seq(PeerCall)
  /\ \A i \in 1..Len(s) : CallFits(s[i], TrueDue(s[1]), t)
  /\ \A i \in 1..Len(s) : i < Len(s) => s[i].phase = "running"
  /\ UpChain(s)

LEMMA TopIs ==
  ASSUME stack \in Seq(PeerCall), stack # <<>>
  PROVE  Len(stack) \in Nat \ {0} /\ Top \in PeerCall
BY DEF Top

LEMMA CallIs ==
  ASSUME NEW c \in PeerCall
  PROVE  /\ c.actor \in PeerActors /\ c.from \in PeerHosts /\ c.at \in PeerHosts \cup {NoHost}
         /\ c.chain \in Seq(PeerActors) /\ c.due \in Int /\ c.lag \in Nat /\ c.dueAt \in Int
         /\ c.left \in Nat /\ c.sentTrue \in Nat /\ c.attempt \in 0..PeerRetries
         /\ TrueDue(c) \in Int /\ (c.at # NoHost => c.dueAt - Skew[c.at] \in Int)
<1>1. c.from \in PeerHosts /\ c.at \in PeerHosts \cup {NoHost} /\ c.due \in Int /\ c.dueAt \in Int
  BY DEF PeerCall
<1>2. Skew[c.from] \in Int BY <1>1, PeerAssumption
<1>3. c.at # NoHost => Skew[c.at] \in Int BY <1>1, PeerAssumption
<1> QED BY <1>1, <1>2, <1>3 DEF PeerCall, TrueDue

\* The top call changes, and nothing others go by.
LEMMA PutFits ==
  ASSUME StackOf(stack, peerNow), stack # <<>>, NEW d \in PeerCall, PutTop(d),
         d.actor = Top.actor, d.from = Top.from, d.chain = Top.chain, d.due = Top.due,
         CallFits(d, TrueDue(stack[1]), peerNow)
  PROVE  StackOf(stack', peerNow)
<1> DEFINE n == Len(stack)
<1>1. n \in Nat \ {0} /\ stack \in Seq(PeerCall) BY TopIs DEF StackOf
<1>2. stack' \in Seq(PeerCall) /\ Len(stack') = n BY <1>1 DEF PutTop
<1>3. \A i \in 1..n : stack'[i] = IF i = n THEN d ELSE stack[i] BY <1>1 DEF PutTop
<1>4. TrueDue(stack'[1]) = TrueDue(stack[1]) BY <1>1, <1>3 DEF TrueDue, Top
<1>5. \A i \in 1..n : CallFits(stack'[i], TrueDue(stack[1]), peerNow)
  BY <1>1, <1>3 DEF StackOf
<1>6. \A i \in 1..n : i < n => stack'[i].phase = "running" BY <1>1, <1>3 DEF StackOf
<1>7. \A i \in 1..n : stack'[i].actor = stack[i].actor /\ stack'[i].chain = stack[i].chain
  BY <1>1, <1>3 DEF Top
<1>8. UpChain(stack')
  <2> SUFFICES ASSUME NEW j \in 1..n, NEW i \in 1..(j - 1)
               PROVE  \E k \in DOMAIN stack'[j].chain : stack'[j].chain[k] = stack'[i].actor
    BY <1>2 DEF UpChain
  <2>1. i \in 1..n BY <1>1
  <2>2. \E k \in DOMAIN stack[j].chain : stack[j].chain[k] = stack[i].actor
    BY DEF StackOf, UpChain
  <2> QED BY <1>7, <2>1, <2>2
<1> QED BY <1>2, <1>4, <1>5, <1>6, <1>8 DEF StackOf

\* The top call ends.
LEMMA BelowFits ==
  ASSUME StackOf(stack, peerNow), stack # <<>>, stack' = Below
  PROVE  StackOf(stack', peerNow)
<1> DEFINE n == Len(stack) - 1
<1>1. Len(stack) \in Nat \ {0} /\ stack \in Seq(PeerCall) /\ n \in Nat BY TopIs DEF StackOf
<1>2. stack' \in Seq(PeerCall) /\ Len(stack') = n /\ \A i \in 1..n : stack'[i] = stack[i]
  <2>1. \A i \in 1..n : stack[i] \in PeerCall BY <1>1
  <2>2. stack' = SubSeq(stack, 1, n) BY DEF Below
  <2> HIDE DEF n
  <2> QED BY <1>1, <2>1, <2>2, SubSeqProperties
<1>3. CASE n = 0 BY <1>1, <1>2, <1>3 DEF StackOf, UpChain
<1>4. CASE n # 0
  <2>1. stack'[1] = stack[1] BY <1>1, <1>2, <1>4
  <2>2. \A i \in 1..n : CallFits(stack'[i], TrueDue(stack'[1]), peerNow)
    BY <1>1, <1>2, <2>1 DEF StackOf
  <2>3. \A i \in 1..n : i < n => stack'[i].phase = "running" BY <1>1, <1>2 DEF StackOf
  <2>4. UpChain(stack')
    <3> SUFFICES ASSUME NEW j \in 1..n, NEW i \in 1..(j - 1)
                 PROVE  \E k \in DOMAIN stack'[j].chain : stack'[j].chain[k] = stack'[i].actor
      <4> HIDE DEF n
      <4> QED BY <1>1, <1>2 DEF UpChain
    <3>1. i \in 1..n /\ j \in 1..Len(stack) BY <1>1
    <3>2. \E k \in DOMAIN stack[j].chain : stack[j].chain[k] = stack[i].actor
      BY <3>1 DEF StackOf, UpChain
    <3> QED BY <1>2, <3>1, <3>2
  <2> QED BY <1>2, <2>2, <2>3, <2>4 DEF StackOf
<1> QED BY <1>3, <1>4

\* A running turn calls on.
LEMMA AppendFits ==
  ASSUME StackOf(stack, peerNow), stack # <<>>, NEW d \in PeerCall, stack' = Append(stack, d),
         Top.phase = "running", d.chain = Append(Top.chain, Top.actor),
         CallFits(d, TrueDue(stack[1]), peerNow)
  PROVE  StackOf(stack', peerNow)
<1> DEFINE n == Len(stack)
<1>1. n \in Nat \ {0} /\ stack \in Seq(PeerCall) /\ Top \in PeerCall BY TopIs DEF StackOf
<1>2. /\ stack' \in Seq(PeerCall) /\ Len(stack') = n + 1 /\ stack'[n + 1] = d
      /\ \A i \in 1..n : stack'[i] = stack[i]
  BY <1>1
<1>3. stack'[1] = stack[1] BY <1>1, <1>2
<1>4. \A i \in 1..(n + 1) : CallFits(stack'[i], TrueDue(stack'[1]), peerNow)
  BY <1>1, <1>2, <1>3 DEF StackOf
<1>5. \A i \in 1..(n + 1) : i < n + 1 => stack'[i].phase = "running"
  BY <1>1, <1>2 DEF StackOf, Top
<1>6. UpChain(stack')
  <2> SUFFICES ASSUME NEW j \in 1..(n + 1), NEW i \in 1..(j - 1)
               PROVE  \E k \in DOMAIN stack'[j].chain : stack'[j].chain[k] = stack'[i].actor
    BY <1>2 DEF UpChain
  <2>0. i \in 1..n BY <1>1
  <2>1. CASE j # n + 1
    <3>1. j \in 1..n BY <1>1, <2>1
    <3>2. \E k \in DOMAIN stack[j].chain : stack[j].chain[k] = stack[i].actor
      BY <3>1 DEF StackOf, UpChain
    <3> QED BY <1>2, <2>0, <3>1, <3>2
  <2> DEFINE m == Len(Top.chain)
  <2>2. Top.chain \in Seq(PeerActors) /\ Top.actor \in PeerActors /\ m \in Nat
    BY <1>1 DEF PeerCall
  <2>3. /\ DOMAIN d.chain = 1..(m + 1) /\ d.chain[m + 1] = Top.actor
        /\ \A k \in 1..m : d.chain[k] = Top.chain[k]
    BY <2>2
  <2>4. CASE j = n + 1 /\ i = n
    <3>1. stack'[j].chain[m + 1] = stack'[i].actor /\ m + 1 \in DOMAIN stack'[j].chain
      BY <1>2, <2>0, <2>2, <2>3, <2>4 DEF Top
    <3> QED BY <3>1
  <2>5. CASE j = n + 1 /\ i # n
    <3>1. i \in 1..(n - 1) /\ n \in 1..n BY <1>1, <2>0, <2>5
    <3>2. PICK k \in DOMAIN Top.chain : Top.chain[k] = stack[i].actor
      BY <3>1 DEF StackOf, UpChain, Top
    <3>3. k \in 1..m BY <2>2, <3>2
    <3>4. k \in DOMAIN d.chain /\ d.chain[k] = stack[i].actor BY <2>2, <2>3, <3>2, <3>3
    <3> QED BY <1>2, <2>0, <2>5, <3>4
  <2> QED BY <2>1, <2>4, <2>5
<1> QED BY <1>2, <1>4, <1>5, <1>6 DEF StackOf

\* A call from outside starts a stack.
LEMMA RootFits ==
  ASSUME NEW d \in PeerCall, stack' = <<d>>, d.phase \in {"route", "placed"},
         (d.at = NoHost) = (d.phase = "route"), peerNow \in Nat
  PROVE  StackOf(stack', peerNow)
<1>1. TrueDue(d) \in Int /\ d.lag \in Nat BY CallIs
<1>2. CallFits(d, TrueDue(d), peerNow) BY <1>1 DEF CallFits, Within
<1>3. stack' \in Seq(PeerCall) /\ Len(stack') = 1 /\ stack'[1] = d OBVIOUS
<1> QED BY <1>2, <1>3 DEF StackOf, UpChain

\* Time passes.
LEMMA TickFits ==
  ASSUME StackOf(stack, peerNow), UNCHANGED stack, peerNow \in Nat, peerNow' = peerNow + 1
  PROVE  StackOf(stack', peerNow')
<1> SUFFICES ASSUME NEW i \in 1..Len(stack)
             PROVE  CallFits(stack[i], TrueDue(stack[1]), peerNow')
  BY DEF StackOf
<1> DEFINE c == stack[i]  root == TrueDue(stack[1])
<1>1. Len(stack) \in Nat /\ c \in PeerCall /\ stack[1] \in PeerCall BY DEF StackOf
<1>2. root \in Int /\ TrueDue(c) \in Int BY <1>1, CallIs
<1>3. c.phase = "running" => c.dueAt - Skew[c.at] \in Int
  BY <1>1, CallIs DEF StackOf, CallFits
<1>4. CallFits(c, root, peerNow) BY DEF StackOf
<1>5. c.lag \in Nat /\ c.sentTrue \in Nat BY <1>1, CallIs
<1>6. \A x \in Int : Within(x, c.lag, root, peerNow) => Within(x, c.lag, root, peerNow')
  BY <1>2, <1>5 DEF Within
<1>7. c.phase = "sent" => c.sentTrue <= peerNow'
  BY <1>4, <1>5 DEF CallFits
<1>8. CallFits(c, root, peerNow')
  <2> HIDE DEF c, root
  <2> QED BY <1>2, <1>3, <1>4, <1>6, <1>7 DEF CallFits
<1> QED BY <1>8

AroundOK ==
  /\ policy \in Policies /\ peerNow \in Nat /\ answered.kind \in Kinds
  /\ standing \in [PeerHosts -> {"absent", "active", "draining", "gone"}]
  /\ routes \in [PeerHosts -> [PeerActors -> PeerHosts \cup {NoHost}]]
  /\ home \in [PeerActors -> PeerHosts \cup {NoHost}]

PeersInv == AroundOK /\ ListedViews /\ StackOf(stack, peerNow) /\ UnknownIsLocal

\* c is the top call with what its hop has made of it.
Carries(c) ==
  /\ c \in PeerCall /\ c.at # NoHost
  /\ c.actor = Top.actor /\ c.from = Top.from /\ c.chain = Top.chain /\ c.due = Top.due
  /\ Within(TrueDue(c), c.lag, TrueDue(stack[1]), peerNow)

LEMMA TopFits ==
  ASSUME PeersInv, stack # <<>>
  PROVE  /\ Top \in PeerCall /\ stack[1] \in PeerCall /\ CallFits(Top, TrueDue(stack[1]), peerNow)
         /\ Within(TrueDue(Top), Top.lag, TrueDue(stack[1]), peerNow)
<1>1. Top \in PeerCall /\ Len(stack) \in Nat \ {0} BY TopIs DEF PeersInv, StackOf
<1>2. stack[1] \in PeerCall /\ CallFits(Top, TrueDue(stack[1]), peerNow)
  BY <1>1 DEF PeersInv, StackOf, Top
<1>3. TrueDue(Top) \in Int /\ TrueDue(stack[1]) \in Int /\ Top.lag \in Nat
      /\ Top.sentTrue \in Nat /\ peerNow \in Nat
  BY <1>1, <1>2, CallIs DEF PeersInv, AroundOK
<1>4. Within(TrueDue(Top), Top.lag, TrueDue(stack[1]), peerNow)
  <2>1. CASE Top.phase # "sent" BY <1>2, <2>1 DEF CallFits
  <2>2. CASE Top.phase = "sent"
    <3>1. Within(TrueDue(Top), Top.lag, TrueDue(stack[1]), Top.sentTrue) /\ Top.sentTrue <= peerNow
      BY <1>2, <2>2 DEF CallFits
    <3> QED BY <1>3, <3>1 DEF Within
  <2> QED BY <2>1, <2>2
<1> QED BY <1>1, <1>2, <1>4

LEMMA TopCarries ==
  ASSUME PeersInv, stack # <<>>, Top.phase # "route" PROVE Carries(Top)
BY TopFits DEF Carries, CallFits

\* A call made anew, by the host that made it.
LEMMA NewCallIs ==
  ASSUME NEW h \in PeerHosts, NEW a \in PeerActors, NEW chain \in Seq(PeerActors),
         NEW due \in Int, NEW onwire \in Nat, NEW d, d = NewCall(h, a, chain, due, onwire)
  PROVE  /\ d \in PeerCall /\ d.actor = a /\ d.from = h /\ d.chain = chain /\ d.due = due
         /\ d.lag = onwire /\ d.phase = "route" /\ d.at = NoHost
<1>1. 0 \in 0..PeerRetries BY PeerAssumption
<1> QED BY <1>1 DEF NewCall, PeerCall

\* The next attempt of a call.
Again(c, n) == [NewCall(c.from, c.actor, c.chain, c.due, c.lag) EXCEPT !.attempt = n]

LEMMA AgainIs ==
  ASSUME NEW c \in PeerCall, NEW n \in 0..PeerRetries, NEW d, d = Again(c, n)
  PROVE  /\ d \in PeerCall /\ d.actor = c.actor /\ d.from = c.from /\ d.chain = c.chain
         /\ d.due = c.due /\ d.lag = c.lag /\ d.phase = "route" /\ d.at = NoHost
<1>1. d = [actor |-> c.actor, from |-> c.from, at |-> NoHost, chain |-> c.chain, due |-> c.due,
           lag |-> c.lag, dueAt |-> 0, left |-> 0, sentAt |-> 0, sentTrue |-> 0, attempt |-> n,
           phase |-> "route", targeted |-> FALSE]
  BY DEF Again, NewCall
<1>2. /\ c.actor \in PeerActors /\ c.from \in PeerHosts /\ c.chain \in Seq(PeerActors)
      /\ c.due \in Int /\ c.lag \in Nat
  BY CallIs
<1> QED BY <1>1, <1>2 DEF PeerCall

\* What a refusal does, wherever it is raised.
LEMMA ReroutedFits ==
  ASSUME PeersInv, stack # <<>>, UNCHANGED <<policy, standing, peerNow>>,
         NEW c, Carries(c) \/ (c = Top),
         NEW g \in PeerHosts \cup {NoHost}, NEW refresh, Rerouted(c, g, refresh)
  PROVE  StackOf(stack', peerNow) /\ answered'.kind \in Kinds /\ UnknownIsLocal'
         /\ routes' \in [PeerHosts -> [PeerActors -> PeerHosts \cup {NoHost}]]
<1>1. /\ c \in PeerCall
      /\ c.actor = Top.actor /\ c.from = Top.from /\ c.chain = Top.chain /\ c.due = Top.due
      /\ Within(TrueDue(c), c.lag, TrueDue(stack[1]), peerNow)
  BY TopFits DEF Carries
<1>2. /\ c.actor \in PeerActors /\ c.from \in PeerHosts /\ c.chain \in Seq(PeerActors)
      /\ c.due \in Int /\ c.lag \in Nat /\ c.attempt \in 0..PeerRetries
  BY <1>1, CallIs
<1>3. routes' \in [PeerHosts -> [PeerActors -> PeerHosts \cup {NoHost}]]
  BY <1>2 DEF Rerouted, PeersInv, AroundOK
<1>4. CASE MayRetry(c) /\ UNCHANGED answered
           /\ PutTop([NewCall(c.from, c.actor, c.chain, c.due, c.lag) EXCEPT !.attempt = c.attempt + 1])
  <2>1. c.attempt + 1 \in 0..PeerRetries BY <1>2, <1>4, PeerAssumption DEF MayRetry
  <2>2. PICK d : d = Again(c, c.attempt + 1) OBVIOUS
  <2>3. /\ d \in PeerCall /\ d.actor = c.actor /\ d.from = c.from /\ d.chain = c.chain
        /\ d.due = c.due /\ d.lag = c.lag /\ d.phase = "route" /\ d.at = NoHost
    BY <1>1, <2>1, <2>2, AgainIs
  <2>4. PutTop(d) BY <1>4, <2>2 DEF Again
  <2>5. TrueDue(d) = TrueDue(c) BY <2>3 DEF TrueDue
  <2>6. CallFits(d, TrueDue(stack[1]), peerNow) BY <1>1, <2>3, <2>5 DEF CallFits
  <2>7. StackOf(stack', peerNow) BY <1>1, <2>3, <2>4, <2>6, PutFits DEF PeersInv
  <2> QED BY <1>3, <1>4, <2>7 DEF PeersInv, AroundOK, UnknownIsLocal
<1>5. CASE stack' = Below /\ answered' = [kind |-> "unconverged", own |-> TRUE]
  BY <1>3, <1>5, BelowFits DEF PeersInv, UnknownIsLocal, Kinds
<1> QED BY <1>4, <1>5 DEF Rerouted

LEMMA AnswerFits ==
  ASSUME PeersInv, stack # <<>>, NEW kind \in Kinds, NEW own, Answer(kind, own),
         kind = "unknown" => own
  PROVE  StackOf(stack', peerNow) /\ answered'.kind \in Kinds /\ UnknownIsLocal'
         /\ routes' \in [PeerHosts -> [PeerActors -> PeerHosts \cup {NoHost}]]
<1>1. StackOf(stack', peerNow) BY BelowFits DEF Answer, PeersInv
<1>2. answered'.kind = kind /\ answered'.own = own BY DEF Answer
<1>3. UnknownIsLocal' BY <1>2 DEF UnknownIsLocal
<1> QED BY <1>1, <1>2, <1>3 DEF Answer, PeersInv, AroundOK

LEMMA FailedFits ==
  ASSUME PeersInv, stack # <<>>, UNCHANGED <<policy, standing, peerNow>>,
         NEW c, Carries(c), NEW kind \in Kinds, NEW g \in PeerHosts \cup {NoHost},
         PeerFailed(c, kind, g), kind = "unknown" => c.at = c.from
  PROVE  StackOf(stack', peerNow) /\ answered'.kind \in Kinds /\ UnknownIsLocal'
         /\ routes' \in [PeerHosts -> [PeerActors -> PeerHosts \cup {NoHost}]]
<1>1. CASE Answer(kind, c.at = c.from) BY <1>1, AnswerFits
<1>2. CASE Rerouted(c, g, FALSE) BY <1>2, ReroutedFits
<1>3. CASE Rerouted(c, NoHost, TRUE) BY <1>3, ReroutedFits
<1> QED BY <1>1, <1>2, <1>3 DEF PeerFailed

\* Who would wait for a turn of its own chain is refused; a running turn is given what was
\* left.
LEMMA RunFits ==
  ASSUME PeersInv, stack # <<>>, UNCHANGED <<policy, standing, peerNow>>,
         NEW h \in PeerHosts, NEW c, Carries(c), c.at = h,
         Within(c.dueAt - Skew[h], c.lag, TrueDue(stack[1]), peerNow),
         h = c.from \/ c.actor \in TypeAt[h], RunAt(c, h)
  PROVE  StackOf(stack', peerNow) /\ answered'.kind \in Kinds /\ UnknownIsLocal'
         /\ routes' \in [PeerHosts -> [PeerActors -> PeerHosts \cup {NoHost}]]
         /\ home' \in [PeerActors -> PeerHosts \cup {NoHost}]
<1> DEFINE a == c.actor  queued == a \notin StatelessRefs /\ InTurn(a)
           cyclic == queued /\ \E i \in DOMAIN c.chain : c.chain[i] = a
<1>1. a \in PeerActors BY CallIs DEF Carries
<1>2. home[a] \in PeerHosts \cup {NoHost} /\ home \in [PeerActors -> PeerHosts \cup {NoHost}]
  BY <1>1 DEF PeersInv, AroundOK
<1>3. CASE a \notin TypeAt[h] /\ PeerFailed(c, "unknown", NoHost) /\ UNCHANGED home
  BY <1>2, <1>3, FailedFits DEF Kinds
<1>4. CASE PeerFailed(c, "wrong-host", home[a]) /\ UNCHANGED home
  BY <1>2, <1>4, FailedFits DEF Kinds
<1>5. CASE PeerFailed(c, "deadlock", NoHost) /\ UNCHANGED home
  BY <1>2, <1>5, FailedFits DEF Kinds
<1>6. queued => cyclic
  <2> SUFFICES ASSUME InTurn(a) PROVE \E i \in DOMAIN c.chain : c.chain[i] = a OBVIOUS
  <2>1. Len(stack) \in Nat \ {0} BY TopIs DEF PeersInv, StackOf
  <2>2. PICK i \in 1..(Len(stack) - 1) : stack[i].actor = a BY DEF InTurn
  <2>3. \E k \in DOMAIN Top.chain : Top.chain[k] = stack[i].actor
    BY <2>1, <2>2 DEF PeersInv, StackOf, UpChain, Top
  <2> QED BY <2>2, <2>3 DEF Carries
<1>7. CASE /\ ~cyclic /\ PutTop([c EXCEPT !.phase = IF queued THEN "queued" ELSE "running"])
           /\ home' = (IF a \in StatelessRefs THEN home ELSE [home EXCEPT ![a] = h])
           /\ UNCHANGED <<routes, seenBy, answered>>
  <2>1. PICK d : d = [c EXCEPT !.phase = "running"] OBVIOUS
  <2>2. PutTop(d)
    <3>1. ~queued BY <1>6, <1>7
    <3> HIDE DEF queued
    <3> QED BY <1>7, <2>1, <3>1
  <2>3. /\ d \in PeerCall /\ d.phase = "running" /\ d.at = c.at /\ d.dueAt = c.dueAt /\ d.lag = c.lag
        /\ d.actor = c.actor /\ d.from = c.from /\ d.chain = c.chain /\ d.due = c.due
    BY <2>1 DEF Carries, PeerCall
  <2>4. TrueDue(d) = TrueDue(c) BY <2>3 DEF TrueDue
  <2>5. CallFits(d, TrueDue(stack[1]), peerNow) BY <2>3, <2>4 DEF CallFits, Carries
  <2>6. StackOf(stack', peerNow) BY <2>2, <2>3, <2>5, PutFits DEF PeersInv, Carries
  <2>7. home' \in [PeerActors -> PeerHosts \cup {NoHost}] BY <1>1, <1>2, <1>7
  <2> QED BY <1>7, <2>6, <2>7 DEF PeersInv, AroundOK, UnknownIsLocal
<1> QED BY <1>3, <1>4, <1>5, <1>7 DEF RunAt


\* Whom the policy names is a host.
LEMMA ChoicesAreHosts ==
  ASSUME policy \in Policies, NEW a \in PeerActors, NEW view, NEW self \in PeerHosts,
         Ids(view) \subseteq PeerHosts
  PROVE  PeerChoices(a, view, self) \subseteq PeerHosts
<1> DEFINE active == ActiveIn(view)
<1>1. Ids(active) \subseteq PeerHosts BY DEF Ids, ActiveIn, Restrict
<1>2. active # <<>> => \E h \in PeerHosts : h \in Ids(active)
  <2>1. active = [i \in DOMAIN active |-> active[i]] BY DEF ActiveIn, Restrict
  <2> HIDE DEF active
  <2>2. active # <<>> => DOMAIN active # {} BY <2>1
  <2> QED BY <1>1, <2>2 DEF Ids
<1>3. active # <<>> => Rendezvous(a, active) \in PeerHosts
  BY <1>1, <1>2, RendezvousIs
<1>4. CASE active = <<>> BY <1>4 DEF PeerChoices
<1>5. CASE active # <<>>
  <2>1. PeerChoices(a, view, self) =
          CASE policy = "random" -> Ids(active)
            [] policy = "consistent-hash" -> {Rendezvous(a, active)}
            [] policy = "prefer-local" ->
                 IF self \in Ids(active) THEN {self} ELSE {Rendezvous(a, active)}
    BY <1>5 DEF PeerChoices
  <2> HIDE DEF active
  <2> QED BY <1>1, <1>3, <1>5, <2>1, PeerAssumption
<1> QED BY <1>4, <1>5

LEMMA PlacedIsHost ==
  ASSUME PeersInv, NEW a \in PeerActors, NEW self \in PeerHosts, NEW g \in PlacedOn(a, self)
  PROVE  g \in PeerHosts
<1>1. policy \in Policies /\ Ids(seenBy[self]) \subseteq PeerHosts
  BY DEF PeersInv, AroundOK, ListedViews
<1>2. Ids(EligibleFor(seenBy[self], a)) \subseteq PeerHosts BY <1>1 DEF Ids, EligibleFor, Restrict
<1>3. g \in PeerChoices(a, seenBy[self], self) \/ g \in PeerChoices(a, EligibleFor(seenBy[self], a), self)
  BY DEF PlacedOn
<1> QED BY <1>1, <1>2, <1>3, ChoicesAreHosts

\* The call is placed.
LEMMA PlacedFits ==
  ASSUME PeersInv, stack # <<>>, Top.phase = "route", NEW g \in PeerHosts, Placed(Top, g)
  PROVE  StackOf(stack', peerNow)
<1>1. PICK d : d = [Top EXCEPT !.phase = "placed", !.at = g] OBVIOUS
<1>2. Top \in PeerCall /\ Within(TrueDue(Top), Top.lag, TrueDue(stack[1]), peerNow) BY TopFits
<1>3. /\ d \in PeerCall /\ d.phase = "placed" /\ d.at = g /\ d.lag = Top.lag
      /\ d.actor = Top.actor /\ d.from = Top.from /\ d.chain = Top.chain /\ d.due = Top.due
  BY <1>1, <1>2 DEF PeerCall
<1>4. TrueDue(d) = TrueDue(Top) BY <1>3 DEF TrueDue
<1>5. CallFits(d, TrueDue(stack[1]), peerNow) BY <1>2, <1>3, <1>4, PeerAssumption DEF CallFits
<1>6. PutTop(d) BY <1>1 DEF Placed
<1> QED BY <1>3, <1>5, <1>6, PutFits DEF PeersInv

\* It goes on the wire with what is left of its time.
LEMMA SentFits ==
  ASSUME PeersInv, stack # <<>>, Top.phase = "placed",
         PutTop([Top EXCEPT !.phase = "sent", !.left = EncodeDeadline(Top),
                            !.sentAt = LocalClock(Top.from), !.sentTrue = peerNow])
  PROVE  StackOf(stack', peerNow)
<1> DEFINE left == EncodeDeadline(Top)  clock == LocalClock(Top.from)
<1>1. /\ Top \in PeerCall /\ Within(TrueDue(Top), Top.lag, TrueDue(stack[1]), peerNow)
      /\ Top.at # NoHost
  BY TopFits DEF CallFits
<1>2. Top.from \in PeerHosts /\ Top.due \in Int /\ peerNow \in Nat
  BY <1>1, CallIs DEF PeersInv, AroundOK
<1>3. Skew[Top.from] \in Int BY <1>2, PeerAssumption
<1>4. left \in Nat /\ clock \in Int /\ left = AtLeastZero(TrueDue(Top) - peerNow)
  <2>1. /\ Top.due - LocalClock(Top.from) = TrueDue(Top) - peerNow
        /\ Top.due - LocalClock(Top.from) \in Int /\ clock \in Int
    BY <1>2, <1>3 DEF LocalClock, TrueDue
  <2>2. \A x \in Int : AtLeastZero(x) \in Nat BY DEF AtLeastZero
  <2> QED BY <2>1, <2>2 DEF EncodeDeadline
<1>5. PICK d : d = [Top EXCEPT !.phase = "sent", !.left = left, !.sentAt = clock, !.sentTrue = peerNow]
  OBVIOUS
<1>6. PutTop(d) BY <1>5
<1> HIDE DEF left, clock
<1>7. /\ d \in PeerCall /\ d.phase = "sent" /\ d.at = Top.at /\ d.lag = Top.lag
      /\ d.left = left /\ d.sentTrue = peerNow
      /\ d.actor = Top.actor /\ d.from = Top.from /\ d.chain = Top.chain /\ d.due = Top.due
  BY <1>1, <1>2, <1>4, <1>5 DEF PeerCall
<1>8. TrueDue(d) = TrueDue(Top) BY <1>7 DEF TrueDue
<1>9. CallFits(d, TrueDue(stack[1]), peerNow) BY <1>1, <1>2, <1>4, <1>7, <1>8 DEF CallFits
<1> QED BY <1>6, <1>7, <1>9, PutFits DEF PeersInv

LEMMA DueIs ==
  ASSUME NEW c \in PeerCall, NEW x \in Int, NEW d, d = [c EXCEPT !.dueAt = x]
  PROVE  /\ d \in PeerCall /\ d.dueAt = x /\ d.at = c.at /\ d.lag = c.lag
         /\ d.actor = c.actor /\ d.from = c.from /\ d.chain = c.chain /\ d.due = c.due
BY DEF PeerCall

\* The call as its receiver has it.
Opening(c, dueAt, onwire) ==
  [c EXCEPT !.dueAt = dueAt, !.chain = c.chain, !.lag = onwire, !.left = 0, !.sentAt = 0, !.sentTrue = 0]

LEMMA OpeningIs ==
  ASSUME NEW c \in PeerCall, NEW x \in Int, NEW onwire \in Nat, NEW d, d = Opening(c, x, onwire)
  PROVE  /\ d \in PeerCall /\ d.dueAt = x /\ d.at = c.at /\ d.lag = onwire
         /\ d.actor = c.actor /\ d.from = c.from /\ d.chain = c.chain /\ d.due = c.due
<1>1. d = [actor |-> c.actor, from |-> c.from, at |-> c.at, chain |-> c.chain, due |-> c.due,
           lag |-> onwire, dueAt |-> x, left |-> 0, sentAt |-> 0, sentTrue |-> 0,
           attempt |-> c.attempt, phase |-> c.phase, targeted |-> c.targeted]
  BY DEF Opening, PeerCall
<1>2. /\ c.actor \in PeerActors /\ c.from \in PeerHosts /\ c.at \in PeerHosts \cup {NoHost}
      /\ c.chain \in Seq(PeerActors) /\ c.due \in Int /\ c.attempt \in 0..PeerRetries
      /\ c.phase \in {"route", "placed", "sent", "running", "queued"} /\ c.targeted \in BOOLEAN
  BY DEF PeerCall
<1> QED BY <1>1, <1>2 DEF PeerCall

LEMMA OpenedCarries ==
  ASSUME PeersInv, stack # <<>>, Top.phase = "sent"
  PROVE  /\ Carries(Opened(Top)) /\ Opened(Top).at = Top.at /\ Opened(Top).actor = Top.actor
         /\ Within(Opened(Top).dueAt - Skew[Top.at], Opened(Top).lag, TrueDue(stack[1]), peerNow)
<1> DEFINE dueAt == DecodeDeadline(Top.left, Top.at)  onwire == Top.lag + peerNow - Top.sentTrue
           root == TrueDue(stack[1])
<1>1. Top \in PeerCall /\ stack[1] \in PeerCall /\ CallFits(Top, root, peerNow) BY TopFits
<1>2. /\ Top.at \in PeerHosts /\ Top.left \in Nat /\ Top.lag \in Nat /\ Top.sentTrue \in Nat
      /\ peerNow \in Nat /\ TrueDue(Top) \in Int /\ root \in Int
  BY <1>1, CallIs DEF PeersInv, AroundOK, CallFits
<1>3. Skew[Top.at] \in Int BY <1>2, PeerAssumption
<1>4. /\ Top.sentTrue <= peerNow /\ Within(TrueDue(Top), Top.lag, root, Top.sentTrue)
      /\ Top.left = AtLeastZero(TrueDue(Top) - Top.sentTrue)
  BY <1>1 DEF CallFits
<1>5. dueAt \in Int /\ dueAt - Skew[Top.at] = peerNow + Top.left
  <2>1. dueAt = peerNow + Skew[Top.at] + Top.left
    <3>1. AtLeastZero(Top.left) = Top.left BY <1>2 DEF AtLeastZero
    <3>2. dueAt = LocalClock(Top.at) + Top.left BY <3>1 DEF DecodeDeadline
    <3>3. LocalClock(Top.at) = peerNow + Skew[Top.at] BY DEF LocalClock
    <3> HIDE DEF dueAt
    <3> QED BY <3>2, <3>3
  <2> HIDE DEF dueAt
  <2> QED BY <1>2, <1>3, <2>1
<1>6. onwire \in Nat BY <1>2, <1>4
<1>7. Within(dueAt - Skew[Top.at], onwire, root, peerNow)
  <2>1. Within(peerNow + Top.left, onwire, root, peerNow)
    BY <1>2, <1>4 DEF Within, AtLeastZero
  <2> QED BY <1>5, <2>1
<1>8. Within(TrueDue(Top), onwire, root, peerNow) BY <1>2, <1>4 DEF Within
<1>9. PICK d : d = Opening(Top, dueAt, onwire) OBVIOUS
<1>10. Opened(Top) = d BY <1>9 DEF Opened, Opening, ChainReceived
<1> HIDE DEF dueAt, onwire, root
<1>11. /\ d \in PeerCall /\ d.dueAt = dueAt /\ d.at = Top.at /\ d.lag = onwire
       /\ d.actor = Top.actor /\ d.from = Top.from /\ d.chain = Top.chain /\ d.due = Top.due
  BY <1>1, <1>5, <1>6, <1>9, OpeningIs
<1>12. TrueDue(d) = TrueDue(Top) BY <1>11 DEF TrueDue
<1>13. Carries(d) BY <1>2, <1>8, <1>11, <1>12, PeerAssumption DEF Carries, root
<1> QED BY <1>7, <1>10, <1>11, <1>13 DEF root

LEMMA LocallyCarries ==
  ASSUME PeersInv, stack # <<>>, Top.phase = "placed", Top.at = Top.from,
         NEW d, d = [Top EXCEPT !.dueAt = Top.due]
  PROVE  /\ Carries(d) /\ d.at = Top.from /\ d.from = Top.from
         /\ Within(d.dueAt - Skew[Top.from], d.lag, TrueDue(stack[1]), peerNow)
<1>1. Top \in PeerCall /\ Within(TrueDue(Top), Top.lag, TrueDue(stack[1]), peerNow) BY TopFits
<1>2. Top.due \in Int /\ Top.from \in PeerHosts BY <1>1, CallIs
<1>3. /\ d \in PeerCall /\ d.dueAt = Top.due /\ d.at = Top.at /\ d.lag = Top.lag
      /\ d.actor = Top.actor /\ d.from = Top.from /\ d.chain = Top.chain /\ d.due = Top.due
  BY <1>1, <1>2, DueIs
<1>4. TrueDue(d) = TrueDue(Top) /\ d.dueAt - Skew[Top.from] = TrueDue(Top) BY <1>3 DEF TrueDue
<1> QED BY <1>1, <1>2, <1>3, <1>4, PeerAssumption DEF Carries

\* A call is made.
LEMMA NestedFits ==
  ASSUME PeersInv, NEW a \in PeerActors, StartNested(a)
  PROVE  StackOf(stack', peerNow)
<1>1. stack # <<>> /\ Top.phase = "running" BY DEF StartNested
<1>2. PICK at : at = Top.at OBVIOUS
<1>3. PICK chain : chain = Append(Top.chain, Top.actor) OBVIOUS
<1>4. PICK due : due = Top.dueAt OBVIOUS
<1>5. PICK onwire : onwire = Top.lag OBVIOUS
<1>6. PICK d : d = NewCall(at, a, chain, due, onwire) OBVIOUS
<1>7. Top \in PeerCall /\ CallFits(Top, TrueDue(stack[1]), peerNow) BY <1>1, TopFits
<1>8. at \in PeerHosts /\ chain \in Seq(PeerActors) /\ due \in Int /\ onwire \in Nat
  BY <1>1, <1>2, <1>3, <1>4, <1>5, <1>7, CallIs DEF CallFits
<1>9. /\ d \in PeerCall /\ d.from = at /\ d.chain = chain /\ d.due = due
      /\ d.lag = onwire /\ d.phase = "route" /\ d.at = NoHost
  BY <1>6, <1>8, NewCallIs
<1>10. Within(due - Skew[at], onwire, TrueDue(stack[1]), peerNow)
  BY <1>1, <1>2, <1>4, <1>5, <1>7 DEF CallFits
<1>11. CallFits(d, TrueDue(stack[1]), peerNow) BY <1>9, <1>10 DEF CallFits, TrueDue
<1>12. stack' = Append(stack, d) BY <1>2, <1>3, <1>4, <1>5, <1>6 DEF StartNested
<1> QED BY <1>1, <1>3, <1>9, <1>11, <1>12, AppendFits DEF PeersInv

LEMMA RootStarts ==
  ASSUME PeersInv, NEW h \in PeerHosts, NEW a \in PeerActors, PlaceCall(h, a)
  PROVE  StackOf(stack', peerNow)
<1>1. PICK due : due = LocalClock(h) + Budget OBVIOUS
<1>2. PICK none : none = <<>> OBVIOUS
<1>3. PICK d : d = NewCall(h, a, none, due, 0) OBVIOUS
<1>4. peerNow \in Nat /\ due \in Int /\ none \in Seq(PeerActors)
  BY <1>1, <1>2, PeerAssumption DEF PeersInv, AroundOK, LocalClock
<1>5. d \in PeerCall /\ d.phase = "route" /\ d.at = NoHost BY <1>3, <1>4, NewCallIs
<1>6. stack' = <<d>> BY <1>1, <1>2, <1>3 DEF PlaceCall
<1> QED BY <1>4, <1>5, <1>6, RootFits

LEMMA TargetedStarts ==
  ASSUME PeersInv, NEW h \in PeerHosts, NEW g \in PeerHosts, NEW a \in PeerActors,
         StartTargeted(h, g, a)
  PROVE  StackOf(stack', peerNow) /\ answered'.kind \in Kinds /\ UnknownIsLocal'
<1>1. ASSUME NEW kind \in {"unreachable", "misuse"}, answered' = [kind |-> kind, own |-> TRUE],
             UNCHANGED stack
      PROVE  StackOf(stack', peerNow) /\ answered'.kind \in Kinds /\ UnknownIsLocal'
  BY <1>1 DEF PeersInv, StackOf, UpChain, UnknownIsLocal, Kinds
<1>2. CASE /\ UNCHANGED answered
           /\ stack' = <<[NewCall(h, a, <<>>, LocalClock(h) + Budget, 0) EXCEPT
                            !.phase = "placed", !.at = g, !.targeted = TRUE]>>
  <2>1. PICK due : due = LocalClock(h) + Budget OBVIOUS
  <2>2. PICK none : none = <<>> OBVIOUS
  <2>3. PICK c : c = NewCall(h, a, none, due, 0) OBVIOUS
  <2>4. PICK d : d = [c EXCEPT !.phase = "placed", !.at = g, !.targeted = TRUE] OBVIOUS
  <2>5. peerNow \in Nat /\ due \in Int /\ none \in Seq(PeerActors)
    BY <2>1, <2>2, PeerAssumption DEF PeersInv, AroundOK, LocalClock
  <2>6. c \in PeerCall BY <2>3, <2>5, NewCallIs
  <2>7. d \in PeerCall /\ d.phase = "placed" /\ d.at = g BY <2>4, <2>6 DEF PeerCall
  <2>8. stack' = <<d>> BY <1>2, <2>1, <2>2, <2>3, <2>4
  <2>9. StackOf(stack', peerNow) BY <2>5, <2>7, <2>8, RootFits, PeerAssumption
  <2> QED BY <1>2, <2>9 DEF PeersInv, AroundOK, UnknownIsLocal
<1> QED BY <1>1, <1>2 DEF StartTargeted

\* What the steps around the stack keep.
Stepped == AroundOK' /\ StackOf(stack', peerNow') /\ UnknownIsLocal'

LEMMA StandsStill ==
  ASSUME PeersInv, UNCHANGED <<stack, answered, peerNow>>
  PROVE  StackOf(stack', peerNow') /\ UnknownIsLocal' /\ answered'.kind \in Kinds
<1>1. answered.kind \in Kinds /\ peerNow' = peerNow /\ stack' = stack BY DEF PeersInv, AroundOK
<1> QED BY <1>1 DEF PeersInv, UnknownIsLocal

\* A call is placed, or its caller told why not.
LEMMA ResolvesStep ==
  ASSUME PeersInv, ResolveHere \/ ResolveCached \/ ResolveOwner \/ ResolveByPolicy \/ Unplaceable
  PROVE  Stepped
<1>0. stack # <<>> /\ Top.phase = "route" /\ UNCHANGED <<policy, standing, peerNow>>
  BY DEF ResolveHere, ResolveCached, ResolveOwner, ResolveByPolicy, Unplaceable
<1>1. Top.from \in PeerHosts /\ Top.actor \in PeerActors BY <1>0, TopFits, CallIs
<1>2. /\ policy' \in Policies /\ peerNow' \in Nat /\ peerNow' = peerNow /\ answered.kind \in Kinds
      /\ standing' \in [PeerHosts -> {"absent", "active", "draining", "gone"}]
      /\ routes \in [PeerHosts -> [PeerActors -> PeerHosts \cup {NoHost}]]
      /\ home \in [PeerActors -> PeerHosts \cup {NoHost}]
  BY <1>0 DEF PeersInv, AroundOK
<1>3. EvictedEntry(Top) \in [PeerActors -> PeerHosts \cup {NoHost}] BY <1>2 DEF EvictedEntry
<1>4. \A g \in PeerHosts : [routes EXCEPT ![Top.from][Top.actor] = g]
                             \in [PeerHosts -> [PeerActors -> PeerHosts \cup {NoHost}]]
  BY <1>1, <1>2
<1>5. ASSUME NEW g \in PeerHosts, Placed(Top, g), UNCHANGED answered,
             home' \in [PeerActors -> PeerHosts \cup {NoHost}],
             routes' \in [PeerHosts -> [PeerActors -> PeerHosts \cup {NoHost}]]
      PROVE  Stepped
  <2>1. StackOf(stack', peerNow) BY <1>0, <1>5, PlacedFits
  <2> QED BY <1>2, <1>5, <2>1 DEF Stepped, AroundOK, PeersInv, UnknownIsLocal
<1>6. CASE ResolveHere BY <1>1, <1>2, <1>5, <1>6 DEF ResolveHere
<1>7. CASE ResolveCached
  <2>1. routes[Top.from][Top.actor] \in PeerHosts BY <1>1, <1>2, <1>7 DEF ResolveCached, UsableCached
  <2> QED BY <1>2, <1>5, <1>7, <2>1 DEF ResolveCached
<1>8. CASE ResolveOwner
  <2>1. home[Top.actor] \in PeerHosts BY <1>1, <1>2, <1>8 DEF ResolveOwner, Owned
  <2> QED BY <1>2, <1>4, <1>5, <1>8, <2>1 DEF ResolveOwner
<1>9. CASE ResolveByPolicy
  <2>1. PICK g \in PlacedOn(Top.actor, Top.from) :
          Placed(Top, g) /\ routes' = [routes EXCEPT ![Top.from][Top.actor] = g]
    BY <1>9 DEF ResolveByPolicy
  <2>2. g \in PeerHosts BY <1>1, PlacedIsHost
  <2>3. UNCHANGED answered /\ home' = EvictedEntry(Top) BY <1>9 DEF ResolveByPolicy
  <2> QED BY <1>3, <1>4, <1>5, <2>1, <2>2, <2>3
<1>10. CASE Unplaceable
  <2>1. Rerouted(Top, NoHost, TRUE) /\ home' = EvictedEntry(Top) BY <1>10 DEF Unplaceable
  <2>2. PICK c : c = Top OBVIOUS
  <2>3. Rerouted(c, NoHost, TRUE) BY <2>1, <2>2
  <2>4. StackOf(stack', peerNow) /\ answered'.kind \in Kinds /\ UnknownIsLocal'
        /\ routes' \in [PeerHosts -> [PeerActors -> PeerHosts \cup {NoHost}]]
    BY <1>0, <2>2, <2>3, ReroutedFits
  <2> QED BY <1>2, <1>3, <2>1, <2>4 DEF Stepped, AroundOK
<1> QED BY <1>6, <1>7, <1>8, <1>9, <1>10

\* The hop, and the turn at its end.
LEMMA HopStep ==
  ASSUME PeersInv, Send \/ DispatchLocally \/ Receive \/ Undeliverable \/ Finish
  PROVE  Stepped
<1>0. stack # <<>> /\ Top.phase # "route" /\ UNCHANGED <<policy, standing, peerNow>>
  BY DEF Send, DispatchLocally, Receive, Undeliverable, Finish
<1>1. /\ policy' \in Policies /\ peerNow' \in Nat /\ peerNow' = peerNow
      /\ standing' \in [PeerHosts -> {"absent", "active", "draining", "gone"}]
      /\ home \in [PeerActors -> PeerHosts \cup {NoHost}]
  BY <1>0 DEF PeersInv, AroundOK
<1>2. ASSUME StackOf(stack', peerNow), answered'.kind \in Kinds, UnknownIsLocal',
             routes' \in [PeerHosts -> [PeerActors -> PeerHosts \cup {NoHost}]],
             home' \in [PeerActors -> PeerHosts \cup {NoHost}]
      PROVE  Stepped
  BY <1>1, <1>2 DEF Stepped, AroundOK
<1>3. PICK c : c = Top OBVIOUS
<1>4. Carries(c) /\ c.at \in PeerHosts /\ c.from \in PeerHosts /\ c.actor \in PeerActors
  BY <1>0, <1>3, TopCarries, TopFits, CallIs DEF Carries
<1>5. ASSUME NEW kind \in Kinds \ {"unknown"}, PeerFailed(c, kind, NoHost), UNCHANGED home
      PROVE  Stepped
  BY <1>0, <1>1, <1>2, <1>4, <1>5, FailedFits
<1>6. CASE Send
  <2>1. CASE PeerFailed(Top, "unreachable", NoHost)
    BY <1>3, <1>5, <1>6, <2>1 DEF Send, Kinds
  <2>2. CASE /\ PutTop([Top EXCEPT !.phase = "sent", !.left = EncodeDeadline(Top),
                                   !.sentAt = LocalClock(Top.from), !.sentTrue = peerNow])
             /\ UNCHANGED <<routes, seenBy, answered>>
    <3>1. StackOf(stack', peerNow) BY <1>6, <2>2, SentFits DEF Send
    <3> QED BY <1>1, <1>2, <1>6, <2>2, <3>1 DEF Send, PeersInv, AroundOK, UnknownIsLocal
  <2> QED BY <1>6, <2>1, <2>2 DEF Send
<1>7. CASE DispatchLocally
  <2>1. PICK d : d = [Top EXCEPT !.dueAt = Top.due] OBVIOUS
  <2>2. PICK h : h = Top.from OBVIOUS
  <2>3. Carries(d) /\ d.at = h /\ d.from = h /\ Within(d.dueAt - Skew[h], d.lag, TrueDue(stack[1]), peerNow)
    BY <1>7, <2>1, <2>2, LocallyCarries DEF DispatchLocally
  <2>4. RunAt(d, h) BY <1>7, <2>1, <2>2 DEF DispatchLocally
  <2>5. h \in PeerHosts BY <1>3, <1>4, <2>2
  <2> QED BY <1>0, <1>2, <2>3, <2>4, <2>5, RunFits
<1>8. CASE Receive
  <2>1. CASE Verdict(Top, Top.at) # "serve" /\ PeerFailed(Top, Verdict(Top, Top.at), NoHost)
             /\ UNCHANGED home
    <3>1. PICK v : v = Verdict(Top, Top.at) OBVIOUS
    <3>2. v \in {"forbidden", "wrong-host"}
      BY <1>3, <1>4, <2>1, <3>1 DEF Verdict, Resolves, InboundRefusal
    <3> QED BY <1>3, <1>5, <2>1, <3>1, <3>2 DEF Kinds
  <2>2. CASE Verdict(Top, Top.at) = "serve" /\ RunAt(Opened(Top), Top.at)
    <3>1. PICK d : d = Opened(Top) OBVIOUS
    <3>2. PICK h : h = Top.at OBVIOUS
    <3>3. Carries(d) /\ d.at = h /\ d.actor = Top.actor
          /\ Within(d.dueAt - Skew[h], d.lag, TrueDue(stack[1]), peerNow)
      BY <1>8, <3>1, <3>2, OpenedCarries DEF Receive
    <3>4. RunAt(d, h) /\ h \in PeerHosts BY <1>3, <1>4, <2>2, <3>1, <3>2
    <3>5. d.actor \in TypeAt[h] BY <2>2, <3>2, <3>3 DEF Verdict, InboundRefusal
    <3> QED BY <1>0, <1>2, <3>3, <3>4, <3>5, RunFits
  <2>3. CASE PeerFailed(Top, "host-shutdown", NoHost) /\ UNCHANGED home
    BY <1>3, <1>5, <2>3 DEF Kinds
  <2> QED BY <1>8, <2>1, <2>2, <2>3 DEF Receive
<1>9. CASE Undeliverable BY <1>3, <1>5, <1>9 DEF Undeliverable, Kinds
<1>10. CASE Finish
  <2>1. StackOf(stack', peerNow) /\ answered'.kind \in Kinds /\ UnknownIsLocal'
        /\ routes' \in [PeerHosts -> [PeerActors -> PeerHosts \cup {NoHost}]]
    BY <1>0, <1>10, AnswerFits DEF Finish, Kinds
  <2> QED BY <1>1, <1>2, <1>10, <2>1 DEF Finish
<1> QED BY <1>6, <1>7, <1>8, <1>9, <1>10

LEMMA PeersStep ==
  ASSUME PeersInv, [PeerNext]_peerVars
  PROVE  PeersInv'
<1>0. ListedViews' BY ListedStep DEF PeersInv
<1> SUFFICES Stepped BY <1>0 DEF Stepped, PeersInv
<1>1. /\ policy \in Policies /\ peerNow \in Nat /\ answered.kind \in Kinds
      /\ standing \in [PeerHosts -> {"absent", "active", "draining", "gone"}]
      /\ routes \in [PeerHosts -> [PeerActors -> PeerHosts \cup {NoHost}]]
      /\ home \in [PeerActors -> PeerHosts \cup {NoHost}]
  BY DEF PeersInv, AroundOK
<1>2. ASSUME UNCHANGED <<policy, stack, answered, peerNow>>,
             standing' \in [PeerHosts -> {"absent", "active", "draining", "gone"}],
             routes' \in [PeerHosts -> [PeerActors -> PeerHosts \cup {NoHost}]],
             home' \in [PeerActors -> PeerHosts \cup {NoHost}]
      PROVE  Stepped
  BY <1>1, <1>2, StandsStill DEF Stepped, AroundOK
<1>3. ASSUME NEW h \in PeerHosts, HostJoins(h) PROVE Stepped
  BY <1>1, <1>2, <1>3 DEF HostJoins
<1>4. ASSUME NEW h \in PeerHosts, HostDrains(h) PROVE Stepped
  BY <1>1, <1>2, <1>4 DEF HostDrains
<1>5. ASSUME NEW h \in PeerHosts, HostLeaves(h) PROVE Stepped
  <2>1. home' \in [PeerActors -> PeerHosts \cup {NoHost}] BY <1>1, <1>5 DEF HostLeaves
  <2> QED BY <1>1, <1>2, <1>5, <2>1 DEF HostLeaves
<1>6. ASSUME NEW h \in PeerHosts, ReadView(h) PROVE Stepped
  <2>1. PICK l \in Listings :
          routes' = [routes EXCEPT ![h] =
                       [a \in PeerActors |-> IF @[a] \in Ids(l) \cup {h} THEN @[a] ELSE NoHost]]
    BY <1>6 DEF ReadView
  <2>2. PICK r : r = [a \in PeerActors |-> IF routes[h][a] \in Ids(l) \cup {h} THEN routes[h][a]
                                           ELSE NoHost] OBVIOUS
  <2>3. r \in [PeerActors -> PeerHosts \cup {NoHost}] BY <1>1, <2>2
  <2>4. routes' = [routes EXCEPT ![h] = r] BY <1>1, <2>1, <2>2
  <2>5. routes' \in [PeerHosts -> [PeerActors -> PeerHosts \cup {NoHost}]] BY <1>1, <2>3, <2>4
  <2> QED BY <1>1, <1>2, <1>6, <2>5 DEF ReadView
<1>7. ASSUME NEW h \in PeerHosts, NEW a \in PeerActors, PlaceCall(h, a) PROVE Stepped
  <2>1. StackOf(stack', peerNow) BY <1>7, RootStarts
  <2> QED BY <1>1, <1>7, <2>1 DEF PlaceCall, Stepped, AroundOK, PeersInv, UnknownIsLocal
<1>8. ASSUME NEW h \in PeerHosts, NEW g \in PeerHosts, NEW a \in PeerActors, StartTargeted(h, g, a)
      PROVE  Stepped
  <2>1. StackOf(stack', peerNow) /\ answered'.kind \in Kinds /\ UnknownIsLocal'
    BY <1>8, TargetedStarts
  <2> QED BY <1>1, <1>8, <2>1 DEF StartTargeted, Stepped, AroundOK
<1>9. ASSUME NEW a \in PeerActors, StartNested(a) PROVE Stepped
  <2>1. StackOf(stack', peerNow) BY <1>9, NestedFits
  <2> QED BY <1>1, <1>9, <2>1 DEF StartNested, Stepped, AroundOK, PeersInv, UnknownIsLocal
<1>10. CASE PeerTick
  <2>1. StackOf(stack', peerNow') /\ peerNow' \in Nat
    BY <1>1, <1>10, TickFits DEF PeerTick, PeersInv
  <2> QED BY <1>1, <1>10, <2>1 DEF PeerTick, Stepped, AroundOK, PeersInv, UnknownIsLocal
<1>11. CASE UNCHANGED peerVars
  BY <1>1, <1>2, <1>11 DEF peerVars
<1> QED
  BY <1>3, <1>4, <1>5, <1>6, <1>7, <1>8, <1>9, <1>10, <1>11, ResolvesStep, HopStep DEF PeerNext

LEMMA PeersStart == PeerInit => PeersInv
<1> SUFFICES ASSUME PeerInit PROVE PeersInv OBVIOUS
<1>1. ListedViews BY ListedStart
<1>2. AroundOK /\ UnknownIsLocal BY DEF PeerInit, AroundOK, UnknownIsLocal, Kinds
<1>3. StackOf(stack, peerNow)
  <2>1. stack = <<>> BY DEF PeerInit
  <2> QED BY <2>1 DEF StackOf, UpChain
<1> QED BY <1>1, <1>2, <1>3 DEF PeersInv

\* What the run checks of it.
LEMMA PeersShow ==
  ASSUME PeersInv
  PROVE  PeerTypeOK /\ UnknownIsLocal /\ HashersAgree /\ ExpiryAgrees /\ CycleIsAnswered
<1>1. stack \in Seq(PeerCall) /\ Len(stack) \in Nat /\ DOMAIN stack = 1..Len(stack)
  BY DEF PeersInv, StackOf
<1>2. ASSUME NEW i \in DOMAIN stack
      PROVE  /\ stack[i] \in PeerCall /\ CallFits(stack[i], TrueDue(stack[1]), peerNow)
             /\ i < Len(stack) => stack[i].phase = "running"
  BY <1>1 DEF PeersInv, StackOf
<1>3. PeerTypeOK
  <2>1. \A i \in DOMAIN stack :
          /\ stack[i].actor \in PeerActors /\ stack[i].from \in PeerHosts
          /\ stack[i].attempt \in 0..PeerRetries
          /\ (stack[i].at = NoHost) = (stack[i].phase = "route")
          /\ i < Len(stack) => stack[i].phase = "running"
    BY <1>2, CallIs DEF CallFits
  <2> QED BY <2>1 DEF PeerTypeOK, PeersInv, AroundOK, ListedViews
<1>4. HashersAgree
  <2>1. ASSUME NEW v, NEW w, Ids(v) = Ids(w), NEW a \in PeerActors
        PROVE  Rendezvous(a, v) = Rendezvous(a, w)
    BY <2>1 DEF Rendezvous
  <2> QED BY <2>1 DEF HashersAgree
<1>5. ExpiryAgrees
  <2> SUFFICES ASSUME NEW i \in DOMAIN stack, stack[i].phase = "running"
               PROVE  LET due == stack[1].due - Skew[stack[1].from]
                          past == LocalClock(stack[i].at) >= stack[i].dueAt
                      IN  /\ peerNow < due => ~past
                          /\ peerNow > due + stack[i].lag => past
    BY DEF ExpiryAgrees
  <2>1. PICK c : c = stack[i] OBVIOUS
  <2>2. PICK due : due = TrueDue(stack[1]) OBVIOUS
  <2>3. c \in PeerCall /\ CallFits(c, due, peerNow) /\ stack[1] \in PeerCall
    BY <1>1, <1>2, <2>1, <2>2
  <2>4. /\ c.at \in PeerHosts /\ c.dueAt \in Int /\ c.lag \in Nat /\ due \in Int /\ peerNow \in Nat
        /\ Within(c.dueAt - Skew[c.at], c.lag, due, peerNow)
    BY <2>1, <2>2, <2>3, CallIs DEF CallFits, PeersInv, AroundOK
  <2>5. Skew[c.at] \in Int BY <2>4, PeerAssumption
  <2>6. /\ peerNow < due => ~(LocalClock(c.at) >= c.dueAt)
        /\ peerNow > due + c.lag => LocalClock(c.at) >= c.dueAt
    BY <2>4, <2>5 DEF Within, LocalClock
  <2> QED BY <2>1, <2>2, <2>6 DEF TrueDue
<1>6. CycleIsAnswered BY <1>2 DEF CycleIsAnswered, CallFits
<1> QED BY <1>3, <1>4, <1>5, <1>6 DEF PeersInv
-----------------------------------------------------------------------------
(* Spreading activations: what a policy object keeps, and how far a round  *)
(* sheds.                                                                  *)

HeldBy(w, h) == {a \in LbActors : w[a] = h}

LbRound ==
  [pc : {"idle", "probe", "move"}, host : LbHosts \cup {0}, own : Nat, todo : SUBSET LbHosts,
   answers : Nat, sum : Nat, left : SUBSET LbActors, moved : Nat, real : Nat, quiet : BOOLEAN,
   floor : Int]

LbRefresh == [on : BOOLEAN, for : LbHosts \cup {0}, todo : SUBSET LbHosts]

LbShape ==
  /\ where \in [LbActors -> LbHosts \cup {0}] /\ runtimes \subseteq Attaching
  /\ loads \in [LbHosts -> -1 .. Cardinality(LbActors)] /\ predicted \in [LbHosts -> Nat]
  /\ refreshing \in LbRefresh /\ refreshing.for \notin refreshing.todo

\* A round that nothing disturbed knows what its host has, and never has more to shed
\* than lies above the mean, all of it still there.
RoundFits(r, w) ==
  /\ r \in LbRound /\ (r.pc # "idle" => r.host # 0)
  /\ r.moved + Cardinality(r.left) <= MaxShed
  /\ r.pc # "move" => r.moved = 0 /\ r.left = {}
  /\ r.pc = "probe" /\ r.quiet => Cardinality(HeldBy(w, r.host)) = r.own
  /\ r.pc = "move" /\ r.quiet => /\ r.left \subseteq HeldBy(w, r.host)
                                 /\ Cardinality(r.left) + r.floor <= Cardinality(HeldBy(w, r.host))

LbInv == LbShape /\ UnattachedKeepsNothing /\ RoundFits(round, where)

LEMMA HeldIs ==
  ASSUME NEW w, NEW h
  PROVE  /\ IsFiniteSet(HeldBy(w, h)) /\ Cardinality(HeldBy(w, h)) \in Nat
         /\ Cardinality(HeldBy(w, h)) <= Cardinality(LbActors) /\ Cardinality(LbActors) \in Nat
<1>1. HeldBy(w, h) \subseteq LbActors BY DEF HeldBy
<1> QED BY <1>1, LbAssumption, FS_Subset, FS_CardinalityType

LEMMA CountIs == ASSUME NEW h PROVE Count(h) = Cardinality(HeldBy(where, h))
BY DEF Count, HeldBy

\* What lies above the mean, rounded down, and the mean, rounded up, make up what is there.
LEMMA AboveTheMean ==
  ASSUME NEW own \in Nat, NEW n \in Nat \ {0}, NEW t \in Int
  PROVE  /\ (t + n - 1) \div n \in Int /\ (own * n - t) \div n \in Int
         /\ (t + n - 1) \div n + (own * n - t) \div n <= own
<1>1. PICK m \in Int : m = own * n OBVIOUS
<1>2. PICK r \in Int : r = (t + n - 1) \div n OBVIOUS
<1>3. PICK q \in Int : q = (m - t) \div n OBVIOUS
<1>4. n * r <= t + n - 1 BY <1>2
<1>5. n * q <= m - t BY <1>3
<1>6. n * (r + q) <= n * own + n - 1 BY <1>1, <1>4, <1>5
<1>7. r + q <= own
  <2> SUFFICES ASSUME r + q >= own + 1 PROVE FALSE OBVIOUS
  <2>1. PICK k \in Nat : r + q = own + 1 + k
    <3>1. r + q - own - 1 \in Nat OBVIOUS
    <3> QED BY <3>1
  <2>2. n * (r + q) = n * own + n + n * k BY <2>1
  <2>3. n * k \in Nat BY <2>1
  <2>4. n * own \in Nat OBVIOUS
  <2> QED BY <1>6, <2>2, <2>3, <2>4
<1> QED BY <1>1, <1>2, <1>3, <1>7

LEMMA NoRoundFits == ASSUME NEW w PROVE RoundFits(NoRound, w)
<1>1. Cardinality({}) = 0 BY FS_EmptySet
<1>2. NoRound \in LbRound BY DEF NoRound, LbRound
<1> QED BY <1>1, <1>2, LbAssumption DEF RoundFits, NoRound

\* A placement or an idle-out on host g: the round on g knows of it, another is not
\* concerned.
LEMMA DisturbedFits ==
  ASSUME RoundFits(round, where), NEW g, NEW w,
         \A h \in LbHosts \ {g} : HeldBy(w, h) = HeldBy(where, h), round' = Disturbed(g)
  PROVE  RoundFits(round', w)
<1>1. CASE round.pc # "idle" /\ round.host = g
  <2>1. round' = [round EXCEPT !.quiet = FALSE] BY <1>1 DEF Disturbed
  <2>2. /\ round' \in LbRound /\ ~round'.quiet /\ round'.pc = round.pc /\ round'.host = round.host
        /\ round'.moved = round.moved /\ round'.left = round.left
    BY <2>1 DEF RoundFits, LbRound
  <2> QED BY <2>2 DEF RoundFits
<1>2. CASE ~(round.pc # "idle" /\ round.host = g)
  <2>1. round' = round BY <1>2 DEF Disturbed
  <2>2. CASE round.pc = "idle" BY <2>1, <2>2 DEF RoundFits
  <2>3. CASE round.pc # "idle"
    <3>1. round.host \in LbHosts \ {g} BY <1>2, <2>3 DEF RoundFits, LbRound
    <3>2. HeldBy(w, round.host) = HeldBy(where, round.host) BY <3>1
    <3> QED BY <2>1, <3>2 DEF RoundFits
  <2> QED BY <2>2, <2>3
<1> QED BY <1>1, <1>2

LEMMA PlaceKeeps ==
  ASSUME LbInv, NEW x \in LbActors, Place(x)
  PROVE  LbInv'
<1>1. PICK a, b \in LbHosts :
        LET c == Chosen(a, b)
        IN /\ where' = [where EXCEPT ![x] = c]
           /\ IF runtimes # {}
              THEN /\ predicted' = [predicted EXCEPT ![c] = @ + 1]
                   /\ since' = [since EXCEPT ![c] = @ + 1]
              ELSE UNCHANGED <<predicted, since>>
           /\ round' = Disturbed(c)
  BY DEF Place
<1>2. PICK c \in LbHosts : c = Chosen(a, b) BY DEF Chosen
<1>3. where[x] = 0 /\ UNCHANGED <<runtimes, loads, refreshing>> BY DEF Place
<1>4. where' = [where EXCEPT ![x] = c] /\ round' = Disturbed(c) BY <1>1, <1>2
<1>5. where' \in [LbActors -> LbHosts \cup {0}] BY <1>4 DEF LbInv, LbShape
<1>6. \A h \in LbHosts \ {c} : HeldBy(where', h) = HeldBy(where, h)
  BY <1>3, <1>4, LbAssumption DEF HeldBy, LbInv, LbShape
<1>7. RoundFits(round', where') BY <1>4, <1>6, DisturbedFits DEF LbInv
<1>8. predicted' \in [LbHosts -> Nat]
  <2>1. CASE runtimes # {}
    <3>1. predicted' = [predicted EXCEPT ![c] = @ + 1] BY <1>1, <1>2, <2>1
    <3> QED BY <3>1 DEF LbInv, LbShape
  <2>2. CASE runtimes = {} BY <1>1, <2>2 DEF LbInv, LbShape
  <2> QED BY <2>1, <2>2
<1>9. runtimes = {} => UNCHANGED predicted BY <1>1
<1>10. UnattachedKeepsNothing' BY <1>3, <1>9 DEF LbInv, UnattachedKeepsNothing, Unknown, Nothing
<1> QED BY <1>3, <1>5, <1>7, <1>8, <1>10 DEF LbInv, LbShape

LEMMA IdlesOutKeeps ==
  ASSUME LbInv, NEW x \in LbActors, IdlesOut(x)
  PROVE  LbInv'
<1>1. PICK g : g = where[x] OBVIOUS
<1>2. /\ where' = [where EXCEPT ![x] = 0] /\ round' = Disturbed(g)
      /\ UNCHANGED <<runtimes, loads, predicted, refreshing>>
  BY <1>1 DEF IdlesOut
<1>3. where' \in [LbActors -> LbHosts \cup {0}] BY <1>2 DEF LbInv, LbShape
<1>4. \A h \in LbHosts \ {g} : HeldBy(where', h) = HeldBy(where, h)
  BY <1>1, <1>2, LbAssumption DEF HeldBy, LbInv, LbShape
<1>5. RoundFits(round', where') BY <1>2, <1>4, DisturbedFits DEF LbInv
<1>6. UnattachedKeepsNothing' BY <1>2 DEF LbInv, UnattachedKeepsNothing, Unknown, Nothing
<1> QED BY <1>2, <1>3, <1>5, <1>6 DEF LbInv, LbShape

\* Of the policy object itself.
LEMMA PolicyKeeps ==
  ASSUME LbInv, (\E h \in LbHosts : Attach(h) \/ Interval(h) \/ Detach(h) \/ Probed(h)) \/ Refreshed
  PROVE  LbInv'
<1>0. UNCHANGED <<where, round>> BY DEF Attach, Interval, Detach, Probed, Refreshed
<1>1. RoundFits(round', where') BY <1>0 DEF LbInv
<1>2. /\ where' \in [LbActors -> LbHosts \cup {0}] /\ runtimes \subseteq Attaching
      /\ loads \in [LbHosts -> -1 .. Cardinality(LbActors)] /\ predicted \in [LbHosts -> Nat]
      /\ refreshing \in LbRefresh /\ refreshing.for \notin refreshing.todo
  BY <1>0 DEF LbInv, LbShape
<1>3. \A h \in LbHosts : Count(h) \in -1 .. Cardinality(LbActors) BY HeldIs, CountIs
<1>4. /\ Unknown \in [LbHosts -> -1 .. Cardinality(LbActors)] /\ Nothing \in [LbHosts -> Nat]
      /\ NoRefresh \in LbRefresh /\ NoRefresh.for \notin NoRefresh.todo
  BY HeldIs DEF Unknown, Nothing, NoRefresh, LbRefresh
<1>5. ASSUME runtimes' \subseteq Attaching, loads' \in [LbHosts -> -1 .. Cardinality(LbActors)],
             predicted' \in [LbHosts -> Nat],
             refreshing' \in LbRefresh, refreshing'.for \notin refreshing'.todo,
             runtimes' = {} => loads' = Unknown /\ predicted' = Nothing
      PROVE  LbInv'
  BY <1>1, <1>2, <1>5 DEF LbInv, LbShape, UnattachedKeepsNothing, Unknown, Nothing
<1>6. ASSUME NEW h \in LbHosts, loads' = SelfRead(h), refreshing' = Refresh(h), UNCHANGED predicted,
             runtimes' \subseteq Attaching, runtimes' # {}
      PROVE  LbInv'
  <2>1. loads' \in [LbHosts -> -1 .. Cardinality(LbActors)] BY <1>2, <1>3, <1>6 DEF SelfRead
  <2>2. refreshing' \in LbRefresh /\ refreshing'.for \notin refreshing'.todo
    <3>1. CASE refreshing.on BY <1>2, <1>6, <3>1 DEF Refresh
    <3>2. CASE ~refreshing.on BY <1>6, <3>2 DEF Refresh, LbRefresh
    <3> QED BY <3>1, <3>2
  <2> QED BY <1>2, <1>5, <1>6, <2>1, <2>2
<1>7. ASSUME NEW h \in LbHosts, Attach(h) PROVE LbInv' BY <1>2, <1>6, <1>7 DEF Attach
<1>8. ASSUME NEW h \in LbHosts, Interval(h) PROVE LbInv' BY <1>2, <1>6, <1>8 DEF Interval
<1>9. ASSUME NEW h \in LbHosts, Detach(h) PROVE LbInv'
  <2>0. refreshing' \in LbRefresh /\ refreshing'.for \notin refreshing'.todo
    <3>1. CASE refreshing.for = h
      <4>1. refreshing' = [refreshing EXCEPT !.for = 0] BY <1>9, <3>1 DEF Detach, Orphaned
      <4>2. refreshing'.for = 0 /\ refreshing'.todo = refreshing.todo
            /\ refreshing' \in LbRefresh
        BY <1>2, <4>1 DEF LbRefresh
      <4> QED BY <1>2, <4>2, LbAssumption DEF LbRefresh
    <3>2. CASE refreshing.for # h BY <1>2, <1>9, <3>2 DEF Detach, Orphaned
    <3> QED BY <3>1, <3>2
  <2>1. CASE runtimes' = {} BY <1>2, <1>4, <1>5, <1>9, <2>0, <2>1 DEF Detach
  <2>2. CASE runtimes' # {} BY <1>2, <1>5, <1>9, <2>0, <2>2 DEF Detach
  <2> QED BY <2>1, <2>2
<1>10. ASSUME NEW p \in LbHosts, Probed(p) PROVE LbInv'
  <2>0. UNCHANGED <<runtimes, predicted>> BY <1>10 DEF Probed
  <2>1. ASSUME refreshing' = [refreshing EXCEPT !.todo = @ \ {p}]
        PROVE  refreshing' \in LbRefresh /\ refreshing'.for \notin refreshing'.todo
    <3>1. refreshing'.for = refreshing.for /\ refreshing' \in LbRefresh
      BY <1>2, <2>1 DEF LbRefresh
    <3>2. refreshing'.todo \subseteq refreshing.todo BY <1>2, <2>1 DEF LbRefresh
    <3> QED BY <1>2, <3>1, <3>2
  <2>2. CASE /\ LbLive /\ loads' = [loads EXCEPT ![p] = Count(p)]
             /\ refreshing' = [refreshing EXCEPT !.todo = @ \ {p}]
    <3>1. runtimes' # {} BY <2>0, <2>2 DEF LbLive
    <3>2. loads' \in [LbHosts -> -1 .. Cardinality(LbActors)] BY <1>2, <1>3, <2>2
    <3> QED BY <1>2, <1>5, <2>0, <2>1, <2>2, <3>1, <3>2
  <2>4. CASE refreshing' = [refreshing EXCEPT !.todo = @ \ {p}] /\ UNCHANGED loads
    BY <1>2, <1>5, <2>0, <2>1, <2>4 DEF LbInv, UnattachedKeepsNothing
  <2> QED BY <1>10, <2>2, <2>4 DEF Probed
<1>11. CASE Refreshed
  <2>1. CASE LbLive
    <3>1. predicted' = Nothing /\ runtimes' # {} /\ UNCHANGED <<runtimes, loads>>
      BY <1>11, <2>1 DEF Refreshed, LbLive
    <3> QED BY <1>2, <1>4, <1>5, <1>11, <3>1 DEF Refreshed
  <2>2. CASE ~LbLive
    BY <1>2, <1>4, <1>5, <1>11, <2>2 DEF Refreshed, LbInv, UnattachedKeepsNothing
  <2> QED BY <2>1, <2>2
<1> QED BY <1>7, <1>8, <1>9, <1>10, <1>11

\* The round's own steps; the others are untouched by it.
LEMMA RoundStepKeeps ==
  ASSUME LbInv, UNCHANGED <<runtimes, loads, predicted, refreshing>>, RoundFits(round', where'),
         where' \in [LbActors -> LbHosts \cup {0}]
  PROVE  LbInv'
BY DEF LbInv, LbShape, UnattachedKeepsNothing, Unknown, Nothing

LEMMA BeginKeeps ==
  ASSUME LbInv, NEW h \in LbHosts, BeginRound(h)
  PROVE  LbInv'
<1>1. PICK n : n = Count(h) OBVIOUS
<1>2. n \in Nat /\ n = Cardinality(HeldBy(where, h)) BY <1>1, HeldIs, CountIs
<1>3. round' = [pc |-> "probe", host |-> h, own |-> n, todo |-> LbHosts \ {h}, answers |-> 0,
                sum |-> 0, left |-> {}, moved |-> 0, real |-> 0, quiet |-> TRUE, floor |-> 0]
  BY <1>1 DEF BeginRound, NoRound
<1>4. round' \in LbRound BY <1>2, <1>3 DEF LbRound
<1>5. Cardinality({}) = 0 BY FS_EmptySet
<1>6. RoundFits(round', where) BY <1>2, <1>3, <1>4, <1>5, LbAssumption DEF RoundFits
<1> QED BY <1>6, RoundStepKeeps DEF BeginRound, LbInv, LbShape

LEMMA ReportKeeps ==
  ASSUME LbInv, NEW p \in LbHosts, PeerReports(p)
  PROVE  LbInv'
<1>1. Count(p) \in Nat BY HeldIs, CountIs
<1>2. round \in LbRound /\ RoundFits(round, where) BY DEF LbInv, RoundFits
<1>3. /\ round' \in LbRound /\ round'.pc = round.pc /\ round'.host = round.host
      /\ round'.own = round.own /\ round'.left = round.left /\ round'.moved = round.moved
      /\ round'.quiet = round.quiet /\ round'.floor = round.floor
  <2>1. CASE round' = [round EXCEPT !.todo = @ \ {p}, !.answers = @ + 1, !.sum = @ + Count(p)]
    <3>1. PICK n \in Nat, m \in Nat : n = round.answers + 1 /\ m = round.sum + Count(p)
      BY <1>1, <1>2 DEF LbRound
    <3>2. PICK rest \in SUBSET LbHosts : rest = round.todo \ {p} BY <1>2 DEF LbRound
    <3>3. round' = [round EXCEPT !.todo = rest, !.answers = n, !.sum = m]
      BY <2>1, <3>1, <3>2
    <3> QED BY <1>2, <3>3 DEF LbRound
  <2>2. CASE round' = [round EXCEPT !.todo = @ \ {p}] BY <1>2, <2>2 DEF LbRound
  <2> QED BY <2>1, <2>2 DEF PeerReports
<1>4. RoundFits(round', where) BY <1>2, <1>3 DEF RoundFits
<1> QED BY <1>4, RoundStepKeeps DEF PeerReports, LbInv, LbShape

\* The verdict of a round, with the candidates it sheds.
Shedding(r, few, floor) ==
  [r EXCEPT !.pc = "move", !.left = few, !.answers = 0, !.sum = 0, !.floor = floor]

LEMMA SheddingIs ==
  ASSUME NEW r \in LbRound, NEW few \in SUBSET LbActors, NEW floor \in Int, NEW d,
         d = Shedding(r, few, floor)
  PROVE  /\ d \in LbRound /\ d.pc = "move" /\ d.host = r.host /\ d.left = few /\ d.moved = r.moved
         /\ d.quiet = r.quiet /\ d.floor = floor
<1>1. d = [pc |-> "move", host |-> r.host, own |-> r.own, todo |-> r.todo, answers |-> 0, sum |-> 0,
           left |-> few, moved |-> r.moved, real |-> r.real, quiet |-> r.quiet, floor |-> floor]
  BY DEF Shedding, LbRound
<1>2. /\ r.host \in LbHosts \cup {0} /\ r.own \in Nat /\ r.todo \in SUBSET LbHosts /\ r.moved \in Nat
      /\ r.real \in Nat /\ r.quiet \in BOOLEAN
  BY DEF LbRound
<1> QED BY <1>1, <1>2 DEF LbRound

\* No more than maxMoves, and no more than lies above the mean.
LEMMA BudgetIs ==
  ASSUME round \in LbRound
  PROVE  LbBudget \in Int /\ LbBudget <= MaxShed
         /\ LbBudget <= (round.own * LbAsked - Total) \div LbAsked
<1>1. LbAsked \in Nat \ {0} /\ Total \in Nat /\ round.own \in Nat BY DEF LbAsked, Total, LbRound
<1>2. PICK q \in Int : q = (round.own * LbAsked - Total) \div LbAsked BY <1>1, AboveTheMean
<1>3. MaxShed \in Int BY LbAssumption
<1>4. LbBudget = Min({MaxShed, q}) BY <1>2 DEF LbBudget
<1>5. \E x \in {MaxShed, q} : \A y \in {MaxShed, q} : x =< y BY <1>2, <1>3
<1>6. Min({MaxShed, q}) \in {MaxShed, q} /\ \A y \in {MaxShed, q} : Min({MaxShed, q}) =< y
  BY <1>5 DEF Min
<1> QED BY <1>2, <1>3, <1>4, <1>6

LEMMA DecideKeeps ==
  ASSUME LbInv, Decide
  PROVE  LbInv'
<1>1. round \in LbRound /\ RoundFits(round, where) /\ round.pc = "probe"
  BY DEF LbInv, RoundFits, Decide
<1>2. SUFFICES RoundFits(round', where) BY RoundStepKeeps DEF Decide, LbInv, LbShape
<1>3. CASE round' = NoRound BY <1>3, NoRoundFits
<1>4. ASSUME NEW few \in SUBSET {a \in LbActors : where[a] = round.host},
             Cardinality(few) <= LbBudget,
             round' = [round EXCEPT !.pc = "move", !.left = few, !.answers = 0, !.sum = 0,
                                    !.floor = (Total + LbAsked - 1) \div LbAsked]
      PROVE  RoundFits(round', where)
  <2>1. LbAsked \in Nat \ {0} /\ Total \in Nat /\ round.own \in Nat
    BY <1>1 DEF LbAsked, Total, LbRound
  <2>2. PICK up \in Int : up = (Total + LbAsked - 1) \div LbAsked BY <2>1, AboveTheMean
  <2>3. PICK q \in Int : q = (round.own * LbAsked - Total) \div LbAsked BY <2>1, AboveTheMean
  <2>4. up + q <= round.own
    <3>1. PICK own \in Nat, n \in Nat \ {0}, t \in Int : own = round.own /\ n = LbAsked /\ t = Total
      BY <2>1
    <3>2. (t + n - 1) \div n + (own * n - t) \div n <= own BY AboveTheMean
    <3>3. up = (t + n - 1) \div n /\ q = (own * n - t) \div n BY <2>2, <2>3, <3>1
    <3> QED BY <3>1, <3>2, <3>3
  <2>5. few \subseteq HeldBy(where, round.host) /\ few \in SUBSET LbActors BY <1>4 DEF HeldBy
  <2>6. Cardinality(few) \in Nat BY <2>5, HeldIs, FS_Subset, FS_CardinalityType
  <2>7. Cardinality(few) <= MaxShed /\ Cardinality(few) <= q
    BY <1>1, <1>4, <2>3, <2>6, BudgetIs, LbAssumption
  <2>8. round' = Shedding(round, few, up) BY <1>4, <2>2 DEF Shedding
  <2>9. /\ round' \in LbRound /\ round'.pc = "move" /\ round'.host = round.host
        /\ round'.left = few /\ round'.moved = round.moved /\ round'.quiet = round.quiet
        /\ round'.floor = up
    BY <1>1, <2>2, <2>5, <2>8, SheddingIs
  <2>10. round.moved = 0 /\ round.host # 0
         /\ (round.quiet => Cardinality(HeldBy(where, round.host)) = round.own)
    BY <1>1 DEF RoundFits
  <2> QED BY <2>1, <2>2, <2>3, <2>4, <2>5, <2>6, <2>7, <2>9, <2>10, LbAssumption DEF RoundFits
<1> QED BY <1>3, <1>4 DEF Decide

LEMMA MigrateKeeps ==
  ASSUME LbInv, NEW x \in LbActors, Migrate(x)
  PROVE  LbInv'
<1> DEFINE here == HeldBy(where, round.host)
<1>1. /\ round \in LbRound /\ RoundFits(round, where) /\ round.pc = "move" /\ x \in round.left
      /\ where \in [LbActors -> LbHosts \cup {0}] /\ round.left \subseteq LbActors /\ round.host # 0
  BY DEF LbInv, LbShape, RoundFits, Migrate, LbRound
<1>2. PICK rest : rest = round.left \ {x} OBVIOUS
<1>3. /\ Cardinality(rest) = Cardinality(round.left) - 1 /\ Cardinality(rest) \in Nat
      /\ Cardinality(round.left) \in Nat
  <2>1. IsFiniteSet(round.left) BY <1>1, LbAssumption, FS_Subset
  <2> QED BY <1>1, <1>2, <2>1, FS_RemoveElement, FS_Subset, FS_CardinalityType
<1>4. /\ round' \in LbRound /\ round'.pc = "move" /\ round'.host = round.host
      /\ round'.quiet = round.quiet /\ round'.floor = round.floor /\ round'.left = rest
      /\ round'.moved \in {round.moved, round.moved + 1}
  <2>1. CASE round' = [round EXCEPT !.left = @ \ {x}, !.moved = @ + 1,
                                    !.real = IF where[x] = round.host THEN @ + 1 ELSE @]
    <3>1. PICK n \in Nat : n = IF where[x] = round.host THEN round.real + 1 ELSE round.real
      BY <1>1 DEF LbRound
    <3>2. PICK m \in Nat : m = round.moved + 1 BY <1>1 DEF LbRound
    <3>3. round' = [round EXCEPT !.left = rest, !.moved = m, !.real = n]
      BY <1>1, <1>2, <2>1, <3>1, <3>2
    <3>4. rest \in SUBSET LbActors BY <1>1, <1>2
    <3> QED BY <1>1, <3>2, <3>3, <3>4 DEF LbRound
  <2>2. CASE round' = [round EXCEPT !.left = @ \ {x}] BY <1>1, <1>2, <2>2 DEF LbRound
  <2> QED BY <2>1, <2>2 DEF Migrate
<1>5. where' \in [LbActors -> LbHosts \cup {0}] BY <1>1 DEF Migrate
<1>6. HeldBy(where', round.host) \in {here, here \ {x}}
  <2>1. CASE where' = where BY <2>1
  <2>2. CASE where' = [where EXCEPT ![x] = 0]
    <3>1. HeldBy(where', round.host) = here \ {x} BY <1>1, <2>2 DEF HeldBy
    <3> QED BY <3>1
  <2> QED BY <2>1, <2>2 DEF Migrate
<1>7. round.quiet => /\ rest \subseteq HeldBy(where', round.host)
                     /\ Cardinality(rest) + round.floor <= Cardinality(HeldBy(where', round.host))
  <2> SUFFICES ASSUME round.quiet
               PROVE  /\ rest \subseteq HeldBy(where', round.host)
                      /\ Cardinality(rest) + round.floor <= Cardinality(HeldBy(where', round.host))
    OBVIOUS
  <2>1. round.left \subseteq here /\ Cardinality(round.left) + round.floor <= Cardinality(here)
    BY <1>1 DEF RoundFits
  <2>2. Cardinality(here \ {x}) = Cardinality(here) - 1 /\ Cardinality(here) \in Nat
    BY <1>1, <2>1, HeldIs, FS_RemoveElement
  <2>3. round.floor \in Int BY <1>1 DEF LbRound
  <2>4. PICK held : held = HeldBy(where', round.host) OBVIOUS
  <2>5. held \in {here, here \ {x}} BY <1>6, <2>4
  <2> HIDE DEF here
  <2>6. rest \subseteq held BY <1>2, <2>1, <2>5
  <2>7. Cardinality(rest) + round.floor <= Cardinality(held)
    <3>1. CASE held = here BY <1>3, <2>1, <2>2, <2>3, <3>1
    <3>2. CASE held = here \ {x} BY <1>3, <2>1, <2>2, <2>3, <3>2
    <3> QED BY <2>5, <3>1, <3>2
  <2> QED BY <2>4, <2>6, <2>7
<1>8. round.moved + Cardinality(round.left) <= MaxShed /\ round.moved \in Nat
  BY <1>1 DEF RoundFits, LbRound
<1>9. RoundFits(round', where')
  BY <1>1, <1>3, <1>4, <1>7, <1>8, LbAssumption DEF RoundFits
<1> QED BY <1>5, <1>9, RoundStepKeeps DEF Migrate

LEMMA LbStep ==
  ASSUME LbInv, [LbNext]_lbVars
  PROVE  LbInv'
<1>1. CASE EndRound BY <1>1, NoRoundFits, RoundStepKeeps DEF EndRound, LbInv, LbShape
<1>2. CASE UNCHANGED lbVars BY <1>2, RoundStepKeeps DEF lbVars, LbInv, LbShape
<1> QED
  BY <1>1, <1>2, PolicyKeeps, PlaceKeeps, IdlesOutKeeps, BeginKeeps, ReportKeeps, DecideKeeps,
     MigrateKeeps DEF LbNext

LEMMA LbStart == LbInit => LbInv
<1> SUFFICES ASSUME LbInit PROVE LbInv OBVIOUS
<1>1. where \in [LbActors -> LbHosts \cup {0}] BY DEF LbInit
<1>2. Cardinality(LbActors) \in Nat BY HeldIs
<1>3. LbShape /\ UnattachedKeepsNothing
  BY <1>1, <1>2 DEF LbInit, LbShape, LbRefresh, UnattachedKeepsNothing, Unknown, Nothing, NoRefresh
<1> QED BY <1>3, NoRoundFits DEF LbInit, LbInv

\* What the run checks of it.
LEMMA LbShow ==
  ASSUME LbInv
  PROVE  LbTypeOK /\ UnattachedKeepsNothing /\ QuietRoundStopsAtMean
<1>1. round \in LbRound /\ RoundFits(round, where) BY DEF LbInv, RoundFits
<1>2. round.moved \in Nat /\ round.left \subseteq LbActors /\ round.floor \in Int
  BY <1>1 DEF LbRound
<1>3. Cardinality(round.left) \in Nat BY <1>2, LbAssumption, FS_Subset, FS_CardinalityType
<1>4. LbTypeOK
  <2>1. round.moved <= MaxShed BY <1>1, <1>2, <1>3, LbAssumption DEF RoundFits
  <2> QED BY <2>1 DEF LbTypeOK, LbInv, LbShape
<1>5. QuietRoundStopsAtMean
  BY <1>1, <1>2, <1>3, HeldIs, CountIs DEF QuietRoundStopsAtMean, RoundFits
<1> QED BY <1>4, <1>5 DEF LbInv

-----------------------------------------------------------------------------
(* Both together, as the cluster of the runs takes their steps.            *)

PeersAgreeInv ==
  /\ focus \in Components
  /\ focus = "peers" => PeersInv
  /\ focus = "balancing" => LbInv

LEMMA AgreeStart == ClusterInit => PeersAgreeInv
BY PeersStart, LbStart DEF ClusterInit, PeersAgreeInv

LEMMA AgreeStep == PeersAgreeInv /\ [ClusterNext]_clusterVars => PeersAgreeInv'
<1> SUFFICES ASSUME PeersAgreeInv, [ClusterNext]_clusterVars PROVE PeersAgreeInv'
  OBVIOUS
<1>1. CASE focus = "peers" /\ PeerNext /\ UNCHANGED focus
  BY <1>1, PeersStep DEF PeersAgreeInv, Components
<1>2. CASE focus = "balancing" /\ LbNext /\ UNCHANGED focus
  BY <1>2, LbStep DEF PeersAgreeInv, Components
<1>3. CASE focus \notin {"peers", "balancing"} /\ UNCHANGED focus
  BY <1>3 DEF PeersAgreeInv, Components
<1>4. CASE UNCHANGED clusterVars
  BY <1>4, PeersStep, LbStep DEF clusterVars, PeersAgreeInv, Components
<1> QED BY <1>1, <1>2, <1>3, <1>4 DEF ClusterNext

\* PeersAgree: whatever clocks, views and registries differ in, and whatever is refused on the
\* way, a call is told that its type is unknown by its caller's own host only; hosts that see
\* the same members place a new key on the same one; none gives up before the root's deadline
\* or goes on past it by more than the time on the wire; and a cycle is answered, not queued
\* behind itself (placement.ts, envelope.ts, host-endpoint.ts).  A policy object that nobody
\* is attached to keeps nothing, and a round that nothing else disturbed sheds no further
\* than the mean (load-policy.ts, placement.ts).
THEOREM PeersDoAgree == ClusterSpec => []PeersAgree
<1>1. PeersAgreeInv => PeersAgree
  BY PeersShow, LbShow DEF PeersAgreeInv, PeersAgree
<1> QED BY <1>1, AgreeStart, AgreeStep, PTL DEF ClusterSpec
=============================================================================
