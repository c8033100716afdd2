--------------------------- MODULE HostConnection ---------------------------
(***************************************************************************)
(* One multiplexed connection between two hosts: the class HostConnection   *)
(* of cluster/connection.ts, run by both ends of a socket.  The socket is a *)
(* FIFO of frames per direction.  Unary calls and streams of either end     *)
(* share it; a stream is throttled by per-stream credit and by the socket's *)
(* high-water mark; an end may be retired (GOAWAY 0), closed, or lose its   *)
(* socket at any moment.                                                    *)
(*                                                                         *)
(* Payloads, authentication and codecs are abstracted to "the callee may    *)
(* refuse the call".  A call stands for its correlation id: allocate()      *)
(* hands out fresh ids until it wraps after 2^31 calls.                     *)
(***************************************************************************)
EXTENDS Integers, Sequences, FiniteSets
LOCAL INSTANCE SequencesExt

CONSTANTS Unary,       \* unary calls
          Streams,     \* stream calls
          AcceptorCalls, \* the calls the accepting end makes; the dialer the rest
          Window,      \* ConnectionOptions.credit
          Chunks,      \* values a stream's generator yields before it is done
          HighWater,   \* frames the socket buffers before write() says "full"
          MaxConnFaults    \* sockets lost, hosts stopped, unparsable bytes received

ASSUME ConnectionAssumption ==
    /\ Window \in Nat \ {0} /\ Chunks \in Nat
    /\ HighWater \in Nat \ {0} /\ MaxConnFaults \in Nat

Ends == {"dialer", "acceptor"}
ConnCalls == Unary \cup Streams
Caller(c) == IF c \in AcceptorCalls THEN "acceptor" ELSE "dialer"

VARIABLES
    conn,       \* per end: the fields of its HostConnection and what it wrote
    broken,     \* per end: the socket is destroyed (a write throws)
    dispatched, \* the calls that were handed to the connection
    outcome,    \* unary call -> how its promise settled
    reader,     \* stream -> the generator the caller's side consumes
    serving,    \* call -> where the callee's #onCall / #serveStream is
    connRan,        \* unary call -> times runtime.dispatch was called
    credit,     \* stream -> InboundStream.credit
    made,       \* stream -> values the callee's generator has yielded
    connFaults      \* connFaults so far

connVars == <<conn, broken, dispatched, outcome, reader, serving, connRan, credit,
              made, connFaults>>

Peer(e) == IF e = "dialer" THEN "acceptor" ELSE "dialer"

Frame(t, c, n) == [type |-> t, corr |-> c, n |-> n]
NoCorr == "none"
Goaway(n) == Frame("GOAWAY", NoCorr, n)

-----------------------------------------------------------------------------
(* The parts of the class every handler goes through: each maps a record k   *)
(* of connection fields to the record after the call.                        *)

\* close(): everything pending is rejected (see ConnCommit), inbound is cancelled.
Close(k) == [k EXCEPT !.closed = TRUE, !.unary = {}, !.streams = {},
                      !.inbound = {}]

\* #send: a write on a destroyed socket throws and closes the connection; what
\* is written to a peer that has closed goes nowhere.
SendFrame(k, e, f) ==
    IF k.closed THEN k
    ELSE IF broken[e] THEN Close(k)
    ELSE IF conn[Peer(e)].closed THEN k
    ELSE [k EXCEPT !.out = Append(@, f), !.writable = Len(k.out) + 1 < HighWater]

\* #settleRetirement
Drained(k) == k.retiring /\ ~k.sentDone /\ k.unary = {} /\ k.streams = {}
SettleRetirement(k, e) ==
    LET said == IF Drained(k) /\ ~k.closed
                THEN SendFrame([k EXCEPT !.sentDone = TRUE], e, Goaway(0)) ELSE k
    IN IF ~k.retiring THEN k
       ELSE IF ~said.closed /\ said.sentDone /\ said.peerDone
       THEN Close(said) ELSE said

\* #forgetUnary and #forgetStream
Forget(k, e, c) ==
    IF c \in k.unary \cup k.streams
    THEN SettleRetirement([k EXCEPT !.unary = @ \ {c}, !.streams = @ \ {c}], e)
    ELSE k

\* #cancelInbound: the stream is aborted exactly when it left the map.
CancelInbound(k, s) == [k EXCEPT !.inbound = @ \ {s}]

\* The end e moves to k; the calls that left its maps because it closed are
\* rejected: a unary call with "outcome unknown", a stream with "unreachable".
\* (A call forgotten before the close is not among them.)
FailStreams(e, k, rd, forgotten) ==
    [s \in Streams |->
        IF s \in conn[e].streams \ (k.streams \cup {forgotten}) /\ k.closed
        THEN [rd[s] EXCEPT !.over = "failed"] ELSE rd[s]]
CommitWith(e, next, rd, forgotten) == \E k \in {next} :
    /\ conn' = [conn EXCEPT ![e] = k, ![Peer(e)] = IF k.closed THEN [@ EXCEPT !.out = <<>>] ELSE @]
    /\ reader' = FailStreams(e, k, rd, forgotten)
LostWith(e, k) == {c \in conn[e].unary \ k.unary : k.closed}

Reject(e, k) == [c \in Unary |-> IF c \in LostWith(e, k) THEN "lost" ELSE outcome[c]]
ConnCommit(e, next) == \E k \in {next} :
    CommitWith(e, k, reader, NoCorr) /\ outcome' = Reject(e, k)

-----------------------------------------------------------------------------
NewConn == [closed |-> FALSE, retiring |-> FALSE, sentDone |-> FALSE,
            peerDone |-> FALSE, writable |-> TRUE, unary |-> {},
            streams |-> {}, inbound |-> {}, out |-> <<>>]
NewReader == [at |-> "idle", queue |-> 0, taken |-> 0, got |-> 0, over |-> "no"]

ConnInit ==
    /\ conn = [e \in Ends |-> NewConn]
    /\ broken = [e \in Ends |-> FALSE]
    /\ dispatched = {}
    /\ outcome = [c \in Unary |-> "none"]
    /\ reader = [s \in Streams |-> NewReader]
    /\ serving = [c \in ConnCalls |-> "idle"]
    /\ connRan = [c \in Unary |-> 0]
    /\ credit = [s \in Streams |-> 0]
    /\ made = [s \in Streams |-> 0]
    /\ connFaults = 0

-----------------------------------------------------------------------------
(* Outbound: dispatch and dispatchStream                                    *)

\* The connection refuses before writing, or writes and only then registers.
Dispatch(c) ==
    LET e == Caller(c)
        k == SendFrame(conn[e], e, Frame("CALL", c, 0))
        sent == ~conn[e].closed /\ ~conn[e].retiring /\ ~k.closed
        refused == conn[e].closed \/ conn[e].retiring
    IN /\ c \notin dispatched
       /\ dispatched' = dispatched \cup {c}
       /\ IF refused THEN UNCHANGED <<conn, reader>>
          ELSE CommitWith(e, IF sent THEN [k EXCEPT !.unary = @ \cup {c}] ELSE k,
                          reader, NoCorr)
       /\ outcome' = [Reject(e, IF refused THEN conn[e] ELSE k)
                        EXCEPT ![c] = IF sent THEN "none" ELSE "unreachable"]
       /\ UNCHANGED <<broken, serving, connRan, credit, made, connFaults>>

\* onAbort: forgotten first (which may finish a retirement), then cancelled.
AbortUnary(c) ==
    LET e == Caller(c)
        k == Forget(conn[e], e, c)
    IN /\ c \in conn[e].unary
       /\ LET k2 == SendFrame(k, e, Frame("CANCEL", c, 0)) IN
          /\ CommitWith(e, k2, reader, c)
          /\ outcome' = [Reject(e, k2) EXCEPT ![c] = "aborted"]
       /\ UNCHANGED <<broken, dispatched, serving, connRan, credit, made, connFaults>>

\* A stream registers before it writes; an unsent one fails at its first pull.
DispatchStream(s) ==
    LET e == Caller(s)
        refused == conn[e].closed \/ conn[e].retiring
        k == SendFrame([conn[e] EXCEPT !.streams = @ \cup {s}], e, Frame("CALL", s, Window))
        sent == ~refused /\ ~k.closed
        rd == [reader EXCEPT ![s] = [NewReader EXCEPT !.at = "waiting",
                                     !.over = IF sent THEN "no" ELSE "failed"]]
    IN /\ s \notin dispatched
       /\ dispatched' = dispatched \cup {s}
       /\ CommitWith(e, IF refused THEN conn[e] ELSE k, rd, NoCorr)
       /\ outcome' = Reject(e, IF refused THEN conn[e] ELSE k)
       /\ UNCHANGED <<broken, serving, connRan, credit, made, connFaults>>

\* a plausible bug: the credit is returned only once the window is overdrawn
TopUpLate(taken) == taken > Window

\* Half the window has been taken: the credit goes back to the producer.
TopUp(taken) == 2 * taken >= Window

\* run(): the consumer takes a queued value ...
ReaderTake(s) ==
    LET e == Caller(s)
        r == reader[s]
        n == r.taken + 1
        k == IF TopUp(n) THEN SendFrame(conn[e], e, Frame("CREDIT", s, n)) ELSE conn[e]
    IN /\ r.at \in {"waiting", "yielded"} /\ r.queue > 0
       /\ CommitWith(e, k, [reader EXCEPT ![s] =
             [r EXCEPT !.at = "yielded", !.queue = @ - 1, !.got = @ + 1,
                       !.taken = IF TopUp(n) THEN 0 ELSE n]], NoCorr)
       /\ outcome' = Reject(e, k)
       /\ UNCHANGED <<broken, dispatched, serving, connRan, credit, made, connFaults>>

\* ... or waits to be woken ...
ReaderWait(s) ==
    /\ reader[s].at = "yielded" /\ reader[s].queue = 0 /\ reader[s].over = "no"
    /\ reader' = [reader EXCEPT ![s].at = "waiting"]
    /\ UNCHANGED <<conn, broken, dispatched, outcome, serving, connRan, credit, made, connFaults>>

\* ... or is through: the finally block forgets the stream and says CANCEL.
ReaderFinish(s) ==
    LET e == Caller(s)
        k == Forget(conn[e], e, s)
        k2 == IF s \in conn[e].streams THEN SendFrame(k, e, Frame("CANCEL", s, 0)) ELSE k
    IN /\ CommitWith(e, k2, [reader EXCEPT ![s].at = "finished"], s)
       /\ outcome' = Reject(e, k2)
       /\ UNCHANGED <<broken, dispatched, serving, connRan, credit, made, connFaults>>

ReaderEnd(s) ==
    /\ reader[s].at \in {"waiting", "yielded"}
    /\ reader[s].queue = 0 /\ reader[s].over # "no"
    /\ ReaderFinish(s)

\* A consumer parked at the yield may return() instead of pulling on.
ReaderReturn(s) == reader[s].at = "yielded" /\ ReaderFinish(s)

\* The caller's signal fires: forget, CANCEL, and fail the generator.
AbortStream(s) ==
    LET e == Caller(s)
        k == Forget(conn[e], e, s)
        k2 == IF s \in conn[e].streams THEN SendFrame(k, e, Frame("CANCEL", s, 0)) ELSE k
        over == IF reader[s].over = "failed" THEN "failed" ELSE "aborted"
    IN /\ reader[s].at \in {"waiting", "yielded"} /\ reader[s].over # "aborted"
       /\ CommitWith(e, k2, [reader EXCEPT ![s].over = over], s)
       /\ outcome' = Reject(e, k2)
       /\ UNCHANGED <<broken, dispatched, serving, connRan, credit, made, connFaults>>

-----------------------------------------------------------------------------
(* Inbound: #onData / #onFrame, one frame at a time                          *)

\* The head of the peer's frames, and the peer's record without it: a socket
\* whose buffer empties says 'drain'.
Ready(e) == ~conn[e].closed /\ conn[Peer(e)].out # <<>>
Incoming(e) == conn[Peer(e)].out[1]
Popped(e, k) ==
    LET p == conn[Peer(e)] IN
    [p EXCEPT !.out = IF k.closed THEN <<>> ELSE Tail(@),
              !.writable = @ \/ Tail(p.out) = <<>>]

\* e handles the head frame: its record becomes k, its peer loses the frame.
Handle(e, k, rd, out) ==
    /\ \E after \in {k} :
          /\ conn' = [conn EXCEPT ![e] = after, ![Peer(e)] = Popped(e, after)]
          /\ reader' = FailStreams(e, after, rd, NoCorr)
    /\ outcome' = out

OnCall(e) ==
    /\ Incoming(e).type = "CALL"
    /\ Handle(e, conn[e], reader, outcome)
    /\ serving' = [serving EXCEPT ![Incoming(e).corr] = "resolving"]
    /\ UNCHANGED <<broken, dispatched, connRan, credit, made, connFaults>>

\* REPLY and ERROR settle a unary call that is still in the map.
OnAnswer(e) ==
    LET c == Incoming(e).corr
        k == Forget(conn[e], e, c)
        o == IF Incoming(e).type = "REPLY" THEN "replied" ELSE "refused"
    IN /\ Incoming(e).type \in {"REPLY", "ERROR"} /\ c \in Unary
       /\ Handle(e, k, reader,
                 IF c \in conn[e].unary THEN [Reject(e, k) EXCEPT ![c] = o] ELSE outcome)
       /\ UNCHANGED <<broken, dispatched, serving, connRan, credit, made, connFaults>>

\* CHUNK, END and ERROR reach the stream's queue while it is in the map.
OnStreamFrame(e) ==
    LET s == Incoming(e).corr
        r == reader[s]
        rd == CASE Incoming(e).type = "CHUNK" -> [r EXCEPT !.queue = @ + 1]
                [] Incoming(e).type = "END" -> [r EXCEPT !.over = "end"]
                [] OTHER -> [r EXCEPT !.over = "failed"]
    IN /\ Incoming(e).type \in {"CHUNK", "END", "ERROR"} /\ s \in Streams
       /\ Handle(e, conn[e],
                 IF s \in conn[e].streams THEN [reader EXCEPT ![s] = rd] ELSE reader,
                 outcome)
       /\ UNCHANGED <<broken, dispatched, serving, connRan, credit, made, connFaults>>

\* CANCEL knows streams only, and only those #serveStream has registered.
OnCancel(e) ==
    /\ Incoming(e).type = "CANCEL"
    /\ Handle(e, CancelInbound(conn[e], Incoming(e).corr), reader, outcome)
    /\ UNCHANGED <<broken, dispatched, serving, connRan, credit, made, connFaults>>

OnCredit(e) ==
    LET s == Incoming(e).corr IN
    /\ Incoming(e).type = "CREDIT"
    /\ Handle(e, conn[e], reader, outcome)
    /\ credit' = IF s \in conn[e].inbound
                 THEN [credit EXCEPT ![s] = @ + Incoming(e).n] ELSE credit
    /\ UNCHANGED <<broken, dispatched, serving, connRan, made, connFaults>>

\* GOAWAY 0: the peer's outbound work is done.  Anything else is a refusal.
OnGoaway(e) ==
    LET k == IF Incoming(e).n = 0
             THEN SettleRetirement([conn[e] EXCEPT !.peerDone = TRUE,
                                                   !.retiring = TRUE], e)
             ELSE Close(conn[e])
    IN /\ Incoming(e).type = "GOAWAY"
       /\ Handle(e, k, reader, Reject(e, k))
       /\ UNCHANGED <<broken, dispatched, serving, connRan, credit, made, connFaults>>

-----------------------------------------------------------------------------
(* Serving: the rest of #onCall, and #serveStream                            *)

\* Authorised and resolved, or refused; a connection closed meanwhile drops it.
ResolveCall(c, ok) ==
    LET e == Peer(Caller(c)) IN
    /\ serving[c] = "resolving"
    /\ \/ /\ ~ok
          /\ ConnCommit(e, SendFrame(conn[e], e, Frame("ERROR", c, 0)))
          /\ serving' = [serving EXCEPT ![c] = "done"]
          /\ UNCHANGED <<connRan, credit>>
       \/ /\ ok /\ conn[e].closed
          /\ serving' = [serving EXCEPT ![c] = "done"]
          /\ UNCHANGED <<conn, reader, outcome, connRan, credit>>
       \/ /\ ok /\ ~conn[e].closed /\ c \in Unary
          /\ serving' = [serving EXCEPT ![c] = "running"]
          /\ connRan' = [connRan EXCEPT ![c] = @ + 1]
          /\ UNCHANGED <<conn, reader, outcome, credit>>
       \/ /\ ok /\ ~conn[e].closed /\ c \in Streams
          /\ ConnCommit(e, [conn[e] EXCEPT !.inbound = @ \cup {c}])
          /\ serving' = [serving EXCEPT ![c] = "pumping"]
          /\ credit' = [credit EXCEPT ![c] = Window]
          /\ UNCHANGED connRan
    /\ UNCHANGED <<broken, dispatched, made, connFaults>>

Answer(c, ok) ==
    LET e == Peer(Caller(c)) IN
    /\ serving[c] = "running"
    /\ serving' = [serving EXCEPT ![c] = "done"]
    /\ ConnCommit(e, SendFrame(conn[e], e, Frame(IF ok THEN "REPLY" ELSE "ERROR", c, 0)))
    /\ UNCHANGED <<broken, dispatched, connRan, credit, made, connFaults>>

AbortedInbound(s) == s \notin conn[Peer(Caller(s))].inbound

\* Credit first, then the socket, then the generator.
MayPull(s) ==
    credit[s] > 0 /\ (conn[Peer(Caller(s))].writable \/ conn[Peer(Caller(s))].closed)

Pump(s) ==
    /\ serving[s] = "pumping"
    /\ \/ AbortedInbound(s) /\ serving' = [serving EXCEPT ![s] = "done"]
       \/ ~AbortedInbound(s) /\ MayPull(s) /\ serving' = [serving EXCEPT ![s] = "pulling"]
    /\ UNCHANGED <<conn, broken, dispatched, outcome, reader, connRan, credit, made, connFaults>>

\* generator.next() answers.  A value is sent even if the stream was cancelled
\* meanwhile; an end or an error is not.
Pulled(s, r) ==
    LET e == Peer(Caller(s))
        off == CancelInbound(conn[e], s)
    IN /\ serving[s] = "pulling"
       /\ \/ /\ r = "value" /\ made[s] < Chunks
             /\ made' = [made EXCEPT ![s] = @ + 1]
             /\ credit' = [credit EXCEPT ![s] = @ - 1]
             /\ serving' = [serving EXCEPT ![s] = "pumping"]
             /\ ConnCommit(e, SendFrame(conn[e], e, Frame("CHUNK", s, 0)))
          \/ /\ r = "end" /\ (made[s] = Chunks \/ AbortedInbound(s))
             /\ serving' = [serving EXCEPT ![s] = "done"]
             /\ ConnCommit(e, IF AbortedInbound(s) THEN conn[e]
                          ELSE SendFrame(off, e, Frame("END", s, 0)))
             /\ UNCHANGED <<made, credit>>
          \/ /\ r = "error"
             /\ serving' = [serving EXCEPT ![s] = "done"]
             /\ ConnCommit(e, IF AbortedInbound(s) THEN conn[e]
                          ELSE SendFrame(off, e, Frame("ERROR", s, 0)))
             /\ UNCHANGED <<made, credit>>
       /\ UNCHANGED <<broken, dispatched, connRan, connFaults>>

-----------------------------------------------------------------------------
(* Retirement, closing and connFaults                                            *)

Retire(e) ==
    /\ ~conn[e].closed /\ ~conn[e].retiring
    /\ ConnCommit(e, SettleRetirement([conn[e] EXCEPT !.retiring = TRUE], e))
    /\ UNCHANGED <<broken, dispatched, serving, connRan, credit, made, connFaults>>

\* close('host stopping') or close('peer left the cluster') by the transport
Stop(e) ==
    /\ connFaults < MaxConnFaults /\ connFaults' = connFaults + 1
    /\ ~conn[e].closed
    /\ ConnCommit(e, Close(conn[e]))
    /\ UNCHANGED <<broken, dispatched, serving, connRan, credit, made>>

\* Bytes that are not a frame, or too many of them.
OnBadBytes(e) ==
    /\ connFaults < MaxConnFaults /\ connFaults' = connFaults + 1
    /\ ~conn[e].closed
    /\ ConnCommit(e, Close(SendFrame(conn[e], e, Goaway(400))))
    /\ UNCHANGED <<broken, dispatched, serving, connRan, credit, made>>

LinkBreaks(e) ==
    /\ connFaults < MaxConnFaults /\ connFaults' = connFaults + 1
    /\ ~broken[e] /\ broken' = [broken EXCEPT ![e] = TRUE]
    /\ UNCHANGED <<conn, dispatched, outcome, reader, serving, connRan, credit, made>>

\* link.onClose: what the peer wrote and the network still held is gone.
LinkClosed(e) ==
    /\ ~conn[e].closed
    /\ broken[e] \/ broken[Peer(e)] \/ conn[Peer(e)].closed
    /\ ConnCommit(e, Close(conn[e]))
    /\ UNCHANGED <<broken, dispatched, serving, connRan, credit, made, connFaults>>

-----------------------------------------------------------------------------
OnFrame(e) ==
    /\ Ready(e)
    /\ \/ OnCall(e) \/ OnAnswer(e) \/ OnStreamFrame(e)
       \/ OnCancel(e) \/ OnCredit(e) \/ OnGoaway(e)
ServeCall(c) == \/ \E ok \in BOOLEAN : ResolveCall(c, ok)
            \/ \E ok \in BOOLEAN : Answer(c, ok)
Produce(s) == Pump(s) \/ \E r \in {"value", "end", "error"} : Pulled(s, r)
Consume(s) == ReaderTake(s) \/ ReaderWait(s) \/ ReaderEnd(s)

ConnNext ==
    \/ \E c \in Unary : Dispatch(c)
    \/ \E s \in Streams : DispatchStream(s)
    \/ \E c \in Unary : AbortUnary(c)
    \/ \E s \in Streams : AbortStream(s) \/ ReaderReturn(s)
    \/ \E s \in Streams : Consume(s) \/ Produce(s)
    \/ \E c \in ConnCalls : ServeCall(c)
    \/ \E e \in Ends : OnFrame(e)
    \/ \E e \in Ends : Retire(e) \/ Stop(e) \/ OnBadBytes(e) \/ LinkBreaks(e) \/ LinkClosed(e)

(***************************************************************************)
(* Frames are delivered or the socket closes; a method returns; a consumer  *)
(* keeps pulling.  Nobody has to dispatch, abort, return, retire or fail.   *)
(* Every such step uses something up, so there are finitely many in a row    *)
(* and what must happen eventually has happened when none is left.           *)
(***************************************************************************)
ConnProgress ==
    \/ \E s \in Streams : Consume(s) \/ Produce(s)
    \/ \E c \in ConnCalls : ServeCall(c)
    \/ \E e \in Ends : LinkClosed(e) \/ OnFrame(e)

ConnSpec == ConnInit /\ [][ConnNext]_connVars /\ WF_connVars(ConnProgress)

-----------------------------------------------------------------------------
(* Properties                                                                *)

FrameTypes == {"CALL", "REPLY", "ERROR", "CHUNK", "END", "CANCEL", "CREDIT", "GOAWAY"}
Frames == [type : FrameTypes, corr : ConnCalls \cup {NoCorr}, n : Nat]

\* The connection's state has its shape, and a closed end holds nothing pending.
ConnTypeOK ==
    /\ \A e \in Ends :
         /\ conn[e].unary \subseteq Unary /\ conn[e].streams \subseteq Streams
         /\ conn[e].inbound \subseteq Streams
         /\ \A i \in 1..Len(conn[e].out) : conn[e].out[i] \in Frames
         /\ conn[e].closed => conn[e].unary \cup conn[e].streams
                                \cup conn[e].inbound = {}
    /\ broken \in [Ends -> BOOLEAN]
    /\ dispatched \subseteq ConnCalls
    /\ outcome \in [Unary -> {"none", "replied", "refused", "lost", "unreachable", "aborted"}]
    /\ serving \in [ConnCalls -> {"idle", "resolving", "running", "pumping", "pulling", "done"}]
    /\ connRan \in [Unary -> Nat] /\ credit \in [Streams -> Int] /\ made \in [Streams -> Nat]
    /\ connFaults \in 0..MaxConnFaults

OnWire(e, t, c) == {i \in 1..Len(conn[e].out) : conn[e].out[i].type = t
                                                /\ conn[e].out[i].corr = c}

\* "unreachable means PROVABLY NOT EXECUTED": a unary call that failed so is
\* neither running, nor run, nor on its way to the peer.
UnreachableNeverRuns ==
    \A c \in Unary : outcome[c] = "unreachable" =>
        /\ connRan[c] = 0 /\ serving[c] = "idle"
        /\ \A e \in Ends : OnWire(e, "CALL", c) = {}

\* Taking a connection out of service cuts nothing that is on it: without a
\* lost socket, a stopped host or broken bytes, no call ends "outcome unknown"
\* and no stream is failed by the connection.
RetirementLosesNothing ==
    connFaults = 0 =>
        /\ \A c \in Unary : outcome[c] # "lost"
        /\ \A s \in Streams : s \in dispatched /\ serving[s] \in {"pumping", "pulling"}
              => s \in conn[Caller(s)].streams \/ reader[s].at = "finished"
                 \/ reader[s].over = "aborted"

CreditUnderWay(q, s) ==
    FoldLeft(LAMBDA sum, f : IF f.type = "CREDIT" /\ f.corr = s THEN sum + f.n ELSE sum,
             0, q)

\* Every chunk of a running stream is somewhere: the credit left, the chunks
\* under way, queued and taken, and the credit under way add up to the window,
\* so the consumer never buffers more than it asked for and no credit is lost.
CreditConserved ==
    \A s \in Streams : s \in dispatched =>
        LET e == Caller(s) p == Peer(e) r == reader[s] IN
        /\ r.queue <= Window
        /\ s \in conn[e].streams /\ s \in conn[p].inbound =>
              credit[s] + Cardinality(OnWire(p, "CHUNK", s)) + r.queue + r.taken
                + CreditUnderWay(conn[e].out, s) = Window

\* Nobody is left waiting: when nothing is left that must happen, every call that
\* was dispatched has settled, every consumer that keeps pulling is at the end of its stream or at
\* its failure (credit and backpressure never hold up both sides), and an end
\* taken out of service has closed.
AllSettled ==
    /\ \A c \in Unary : c \in dispatched => outcome[c] # "none"
    /\ \A s \in Streams : s \in dispatched => reader[s].at = "finished"
    /\ \A e \in Ends : conn[e].retiring => conn[e].closed
NothingIsStuck == AllSettled \/ ENABLED ConnProgress

\* A consumer that gave up, or an aborting dispatched, stops the producer.
CancelStopsProducer ==
    \A s \in Streams : (reader[s].at = "finished") ~> (serving[s] \in {"idle", "done"})
=============================================================================
