------------------------------- MODULE Storage -------------------------------
(***************************************************************************)
(* The ActorStorage adapters: how each keeps one actor's record (a         *)
(* snapshot, an etag, a log of entries appended since) and decides a       *)
(* compare-and-set.  The clients are the activations that may hold an etag *)
(* of the record: one of them may be stale.  Each adapter's operation is   *)
(* one step, as its script, statement, transaction, per-file chain or gate *)
(* makes it; its answer may be lost although it landed.                    *)
(*                                                                         *)
(* A record's content is the sequence of writes it holds: a client that    *)
(* saves writes the content it knows and its own write, one that appends   *)
(* adds its own to the log.                                                *)
(***************************************************************************)
EXTENDS Integers, Sequences, FiniteSets

CONSTANTS StClients, StProviders, MaxStWrites, MaxStClears, MaxLostReplies

ASSUME StAssumption ==
    /\ StProviders \subseteq {"memory", "file", "sqlite", "redis", "pg", "surreal", "object"}
    /\ MaxStWrites \in Nat /\ MaxStClears \in Nat /\ MaxLostReplies \in Nat

VARIABLES
    stProvider,    \* the adapter
    stRow,         \* the record's row, hash or file
    stLog,         \* the log beside it, or in it: entries with the ordinal of their key
    stHead,        \* the Durable Object's head key (0: absent)
    stMinted,      \* etags minted so far by a counter of the store, or UUIDs
    stClient,      \* what each client knows: the content, the etag, whether it may use them
    stAcked,       \* the writes whose callers were told, since the last clear
    stBound        \* writes, clears and lost replies so far

storageVars == <<stProvider, stRow, stLog, stHead, stMinted, stClient, stAcked, stBound>>

NullEtag == 0                               \* expectedEtag: null
NoStRow == [has |-> FALSE, state |-> <<>>, etag |-> NullEtag]
Unknowing == [knows |-> FALSE, view |-> <<>>, etag |-> NullEtag]

UuidEtags == {"redis", "pg", "surreal"}
Restarting == {"file", "sqlite", "object"}  \* the etag is a version, 1 again after a clear
Appends == stProvider # "file"              \* appendText is absent

Store == [row |-> stRow, log |-> stLog, head |-> stHead]
StoredRow(content, etag) == [has |-> TRUE, state |-> content, etag |-> etag]

\* The etag a write that is accepted now gets.
NextEtag ==
    CASE stProvider = "memory" -> stMinted + 1
      [] stProvider \in UuidEtags -> stMinted + 1
      [] stProvider \in {"file", "sqlite"} -> stRow.etag + 1
      [] stProvider = "object" -> (IF stHead # 0 THEN stHead ELSE stRow.etag) + 1

-----------------------------------------------------------------------------
(* Each adapter's compare-and-set, by its own condition.                    *)

\* memoryStorage and fileStorage: (existing?.etag ?? null) === expectedEtag
ProcessMatches(x) == stRow.etag = x
\* redisStorage: '' stands for null and for a missing hash
RedisMatches(x) == (IF stRow.has THEN stRow.etag ELSE NullEtag) = x
\* sqliteStorage, pgStorage, surrealStorage: an insert for null, else WHERE etag = x
SqlMatches(x) == IF x = NullEtag THEN ~stRow.has ELSE stRow.has /\ stRow.etag = x
\* durableObjectStorage: the head an append minted, else the snapshot's own
CurrentEtag == IF ~stRow.has THEN NullEtag ELSE IF stHead # 0 THEN stHead ELSE stRow.etag
ObjectMatches(x) == CurrentEtag = x

Matches(x) ==
    CASE stProvider \in {"memory", "file"} -> ProcessMatches(x)
      [] stProvider = "redis" -> RedisMatches(x)
      [] stProvider \in {"sqlite", "pg", "surreal"} -> SqlMatches(x)
      [] stProvider = "object" -> ObjectMatches(x)

\* A full save is the compaction: the log goes with it.
MemorySave(content) == [row |-> StoredRow(content, NextEtag), log |-> <<>>, head |-> 0]
FileSave(content) == [Store EXCEPT !.row = StoredRow(content, NextEtag)]
RedisSave(content) == [Store EXCEPT !.row = StoredRow(content, NextEtag), !.log = <<>>]
\* An insert leaves the log table alone: a record that does not exist has no log rows.
SqliteSave(content) ==
    IF ~stRow.has THEN [Store EXCEPT !.row = StoredRow(content, 1)]
    ELSE [Store EXCEPT !.row = StoredRow(content, NextEtag), !.log = <<>>]
PgSave(content) == [Store EXCEPT !.row = StoredRow(content, NextEtag), !.log = <<>>]
SurrealSave(content) == [Store EXCEPT !.row = StoredRow(content, NextEtag), !.log = <<>>]
ObjectSave(content) == [row |-> StoredRow(content, NextEtag), log |-> <<>>, head |-> 0]

SaveTo(content) ==
    CASE stProvider = "memory" -> MemorySave(content)
      [] stProvider = "file" -> FileSave(content)
      [] stProvider = "redis" -> RedisSave(content)
      [] stProvider = "sqlite" -> SqliteSave(content)
      [] stProvider = "pg" -> PgSave(content)
      [] stProvider = "surreal" -> SurrealSave(content)
      [] stProvider = "object" -> ObjectSave(content)

\* An append adds one entry and mints an etag; the object's leaves its snapshot alone.
LogEntry(w) == [ord |-> NextEtag, w |-> w]
RowAppend(w) == [Store EXCEPT !.row.etag = NextEtag, !.log = Append(@, LogEntry(w))]
ObjectAppend(w) == [Store EXCEPT !.head = NextEtag, !.log = Append(@, LogEntry(w))]
AppendTo(w) == IF stProvider = "object" THEN ObjectAppend(w) ELSE RowAppend(w)

RowClear == [Store EXCEPT !.row = NoStRow, !.log = <<>>]
ObjectClearAll == [row |-> NoStRow, log |-> <<>>, head |-> 0]
ClearTo == IF stProvider = "object" THEN ObjectClearAll ELSE RowClear

\* What load returns: the snapshot and the entries after it.  The object lists its log by
\* ordinal and replays none at or below its snapshot's.
Superseded == {i \in 1..Len(stLog) : stLog[i].ord <= stRow.etag}
Replayed ==
    IF stProvider = "object" THEN SubSeq(stLog, Cardinality(Superseded) + 1, Len(stLog)) ELSE stLog
Content == stRow.state \o [i \in 1..Len(Replayed) |-> Replayed[i].w]

-----------------------------------------------------------------------------
StInit ==
    /\ stProvider \in StProviders
    /\ stRow = NoStRow /\ stLog = <<>> /\ stHead = 0 /\ stMinted = 0
    /\ stClient = [c \in StClients |-> Unknowing]
    /\ stAcked = {} /\ stBound = [writes |-> 0, clears |-> 0, lost |-> 0]

Becomes(s) == stRow' = s.row /\ stLog' = s.log /\ stHead' = s.head

StLoad(c) ==
    /\ ~stClient[c].knows
    /\ stClient' = [stClient EXCEPT ![c] = [knows |-> TRUE, view |-> Content, etag |-> CurrentEtag]]
    /\ UNCHANGED <<stProvider, stRow, stLog, stHead, stMinted, stAcked, stBound>>

\* A write is refused (ActorStorageConflict) and the client's copy is discarded ...
StRefuse(c) ==
    /\ stClient[c].knows /\ ~Matches(stClient[c].etag)
    /\ stClient' = [stClient EXCEPT ![c] = Unknowing]
    /\ UNCHANGED <<stProvider, stRow, stLog, stHead, stMinted, stAcked, stBound>>

\* ... or lands; the client is told, or loses the answer: it then knows nothing
\* and has to load again, which is a StLoad of its own, any number of steps later.
LandsFor(c, view, etag, w) ==
    \/ /\ stClient' = [stClient EXCEPT ![c] = [knows |-> TRUE, view |-> view, etag |-> etag]]
       /\ stAcked' = stAcked \cup w
       /\ stBound' = [stBound EXCEPT !.writes = @ + 1]
    \/ /\ stBound.lost < MaxLostReplies
       /\ stClient' = [stClient EXCEPT ![c] = Unknowing]
       /\ stBound' = [stBound EXCEPT !.writes = @ + 1, !.lost = @ + 1]
       /\ UNCHANGED stAcked

\* save and saveText; without appendText the host appends by a full save.
StSave(c) ==
    LET w == stBound.writes + 1
        content == Append(stClient[c].view, w)
    IN /\ stClient[c].knows /\ Matches(stClient[c].etag) /\ stBound.writes < MaxStWrites
       /\ Becomes(SaveTo(content))
       /\ stMinted' = stMinted + 1
       /\ LandsFor(c, content, SaveTo(content).row.etag, {w})
       /\ UNCHANGED stProvider

\* appendText: there must be a record to append to.
StAppend(c) ==
    LET w == stBound.writes + 1
        next == AppendTo(w)
    IN /\ Appends /\ stClient[c].knows /\ stClient[c].etag # NullEtag
       /\ Matches(stClient[c].etag) /\ stBound.writes < MaxStWrites
       /\ Becomes(next)
       /\ stMinted' = stMinted + 1
       /\ LandsFor(c, Append(stClient[c].view, w),
                    IF next.head # 0 THEN next.head ELSE next.row.etag, {w})
       /\ UNCHANGED stProvider

\* clear: of what is not there only by a client that knows so.
StClear(c) ==
    /\ stClient[c].knows /\ Matches(stClient[c].etag) /\ stBound.clears < MaxStClears
    /\ Becomes(IF stRow.has THEN ClearTo ELSE Store)
    /\ stClient' = [stClient EXCEPT ![c] = [Unknowing EXCEPT !.knows = TRUE]]
    /\ stAcked' = {}
    /\ stBound' = [stBound EXCEPT !.clears = @ + 1]
    /\ UNCHANGED <<stProvider, stMinted>>

StNext == \E c \in StClients : StLoad(c) \/ StRefuse(c) \/ StSave(c) \/ StAppend(c) \/ StClear(c)
StSpec == StInit /\ [][StNext]_storageVars

-----------------------------------------------------------------------------
\* The store has its shape, and an actor without a record has no log left to be replayed
\* onto the next one.
StTypeOK ==
    /\ stProvider \in StProviders /\ stRow.has \in BOOLEAN /\ stRow.etag \in Nat /\ stHead \in Nat
    /\ stMinted \in 0..MaxStWrites /\ stAcked \subseteq 1..MaxStWrites
    /\ \A c \in StClients : stClient[c].knows \in BOOLEAN /\ stClient[c].etag \in Nat
    /\ ~stRow.has => stLog = <<>> /\ stHead = 0

\* No update is lost: whatever a caller was told is written is in what the next load
\* returns, whichever stale clients still write.  The adapters whose versions restart are
\* excepted once a record has been cleared: there an old etag may match again.
NoLostUpdate ==
    (stProvider \in Restarting => stBound.clears = 0) =>
        stAcked \subseteq {Content[i] : i \in 1..Len(Content)}

\* "A log that survives its snapshot is replayed onto a state that already contains it":
\* no write is ever in what load returns twice.
ReplayedOnce == Cardinality({Content[i] : i \in 1..Len(Content)}) = Len(Content)
=============================================================================
