------------------------------ MODULE TcpLinks ------------------------------
(***************************************************************************)
(* The socket pool of the TCP transport (actors-tcp/src/index.ts) on two    *)
(* hosts that call each other: which connection a host routes on, the       *)
(* arbitration of simultaneous dials, the handshake and its deadline, the   *)
(* retirement of the losing connection, membership changes and stop().      *)
(*                                                                         *)
(* Host 1's id is the lexicographically smaller one.  What one connection   *)
(* does with its calls is HostConnection's business; here a connection end  *)
(* only knows whether calls of its own are outstanding on it.               *)
(***************************************************************************)
EXTENDS Integers, Sequences, FiniteSets

CONSTANTS MaxConns,       \* sockets opened in a behaviour
          MaxPending,     \* maxPendingInbound
          MaxLinkFaults,  \* sockets lost, timeouts fired, membership losses
          MaxStops,       \* hosts that stop
          MaxLinkCalls    \* calls a host starts

ASSUME TcpAssumption == /\ MaxConns \in Nat /\ MaxPending \in Nat \ {0}
                        /\ MaxLinkFaults \in Nat /\ MaxStops \in Nat
                        /\ MaxLinkCalls \in Nat

Hosts2 == {1, 2}
Conns == 1..MaxConns
Other(h) == 3 - h

VARIABLES
    dialer,       \* socket -> the host that dialled it (0: not opened)
    side,         \* socket, host -> that end's HostConnection
    mail,         \* socket, host -> connection frames on their way to host
    dead,         \* sockets the network has lost
    links,        \* host -> the connection it routes on (0: none)
    dialing,      \* host -> the dial in flight (0: none)
    pendingInbound, retired,  \* host -> connections held outside links
    pick,         \* host -> the connection a call under way was given (0: none)
    asked,        \* host -> calls it has started
    stopped,      \* hosts whose transport stopped
    linkFaults,   \* faults so far
    cut           \* a connection was closed with calls outstanding on it

tcpVars == <<dialer, side, mail, dead, links, dialing, pendingInbound, retired,
             pick, asked, stopped, linkFaults, cut>>

\* One end: "none", "connecting" (dialled, no 'connect' event), "up", "closed".
NewEnd(st) == [st |-> st, retiring |-> FALSE, said |-> FALSE, heard |-> FALSE,
               named |-> FALSE, busy |-> FALSE]
Open(c, h) == side[c][h].st \in {"connecting", "up"}
IsOutbound(c, h) == dialer[c] = h
Opened == {c \in Conns : dialer[c] # 0}

TcpInit ==
    /\ dialer = [c \in Conns |-> 0]
    /\ side = [c \in Conns |-> [h \in Hosts2 |-> NewEnd("none")]]
    /\ mail = [c \in Conns |-> [h \in Hosts2 |-> <<>>]]
    /\ dead = {}
    /\ links = [h \in Hosts2 |-> 0] /\ dialing = [h \in Hosts2 |-> 0]
    /\ pendingInbound = [h \in Hosts2 |-> {}] /\ retired = [h \in Hosts2 |-> {}]
    /\ pick = [h \in Hosts2 |-> 0] /\ asked = [h \in Hosts2 |-> 0]
    /\ stopped = {} /\ linkFaults = 0 /\ cut = FALSE

-----------------------------------------------------------------------------
(* What the connections of a host look like after a step.  A pool p holds    *)
(* the fields of one host's transport; the operators below are its closures. *)

Pool(h) == [side |-> [c \in Conns |-> side[c][h]],
            out |-> [c \in Conns |-> <<>>],       \* frames written by this step
            links |-> links[h], pending |-> pendingInbound[h], retired |-> retired[h],
            cut |-> FALSE]

\* HostConnection.close and the transport's onClose for it.
CloseIn(p, c) ==
    IF p.side[c].st \notin {"connecting", "up"} THEN p
    ELSE [p EXCEPT !.side[c] = [NewEnd("closed") EXCEPT !.named = p.side[c].named],
                   !.cut = @ \/ p.side[c].busy,
                   !.pending = @ \ {c}, !.retired = @ \ {c},
                   !.links = IF @ = c THEN 0 ELSE @]

\* #settleRetirement: GOAWAY 0 once idle, close once both ends said it.
SettleIn(p, c) ==
    LET e == p.side[c]
        say == e.st = "up" /\ e.retiring /\ ~e.said /\ ~e.busy
        p2 == IF say THEN [p EXCEPT !.side[c].said = TRUE,
                                    !.out[c] = Append(@, "GOAWAY")] ELSE p
    IN IF p2.side[c].st = "up" /\ p2.side[c].said /\ p2.side[c].heard
       THEN CloseIn(p2, c) ELSE p2

RetireIn(p, c) ==
    IF p.side[c].st # "up" \/ p.side[c].retiring THEN p
    ELSE SettleIn([p EXCEPT !.side[c].retiring = TRUE], c)

\* a plausible bug: whoever holds a link keeps it
KeepAny(h, existing, c) == TRUE

\* Two sockets, one each way: the smaller id's outbound one wins.  Two the
\* same way: the newer one.
KeepExisting(h, existing, c) ==
    /\ IsOutbound(existing, h) # IsOutbound(c, h)
    /\ (h < Other(h)) = IsOutbound(existing, h)

Register(h, p, c) ==
    LET x == p.links IN
    IF p.side[c].st # "up" \/ p.side[c].retiring THEN p
    ELSE IF x = 0 \/ x = c \/ p.side[x].st # "up" THEN [p EXCEPT !.links = c]
    ELSE IF p.side[x].retiring
         THEN [p EXCEPT !.retired = @ \cup {x}, !.links = c]
    ELSE IF KeepExisting(h, x, c)
         THEN RetireIn([p EXCEPT !.retired = @ \cup {c}], c)
    ELSE RetireIn([p EXCEPT !.retired = @ \cup {x}, !.links = c], x)

\* The pool p becomes host h's; box is the mail without the frame just read.
Update(h, p, box) ==
    /\ side' = [c \in Conns |-> [side[c] EXCEPT ![h] = p.side[c]]]
    /\ mail' = [c \in Conns |->
          [box[c] EXCEPT ![Other(h)] =
              IF side[c][Other(h)].st = "closed" THEN <<>> ELSE @ \o p.out[c],
                         ![h] = IF p.side[c].st = "closed" THEN <<>> ELSE @]]
    /\ links' = [links EXCEPT ![h] = p.links]
    /\ pendingInbound' = [pendingInbound EXCEPT ![h] = p.pending]
    /\ retired' = [retired EXCEPT ![h] = p.retired]

-----------------------------------------------------------------------------
(* Calls: linkTo, dial, and the dispatch that follows prepare's awaits       *)

Usable(h) == links[h] # 0 /\ ~side[links[h]][h].retiring /\ side[links[h]][h].st = "up"

\* A call finds a usable link ...
LinkTo(h) ==
    /\ h \notin stopped /\ pick[h] = 0 /\ Usable(h)
    /\ asked[h] < MaxLinkCalls /\ asked' = [asked EXCEPT ![h] = @ + 1]
    /\ pick' = [pick EXCEPT ![h] = links[h]]
    /\ UNCHANGED <<dialer, side, mail, dead, links, dialing, pendingInbound,
                   retired, stopped, linkFaults, cut>>

\* ... or starts the one dial every caller of that peer waits for.
Dial(h) ==
    /\ h \notin stopped /\ pick[h] = 0 /\ ~Usable(h) /\ dialing[h] = 0
    /\ asked[h] < MaxLinkCalls /\ asked' = [asked EXCEPT ![h] = @ + 1]
    /\ \E c \in Conns :
         /\ c = Cardinality(Opened) + 1
         /\ dialer' = [dialer EXCEPT ![c] = h]
         /\ side' = [side EXCEPT ![c][h] = NewEnd("connecting")]
         /\ dialing' = [dialing EXCEPT ![h] = c]
    /\ UNCHANGED <<mail, dead, links, pendingInbound, retired, pick, stopped,
                   linkFaults, cut>>

\* 'connect': HELLO goes out, the arbitration runs, the caller gets the survivor.
Connected(h) ==
    LET c == dialing[h]
        up == [Pool(h) EXCEPT !.side[c].st = "up", !.out[c] = <<"HELLO">>]
        p == Register(h, up, c)
    IN /\ c # 0 /\ side[c][h].st = "connecting"
       /\ c \notin dead /\ side[c][Other(h)].st = "up"
       /\ Update(h, p, mail)
       /\ pick' = [pick EXCEPT ![h] = IF p.links # 0 THEN p.links ELSE c]
       /\ dialing' = [dialing EXCEPT ![h] = 0]
       /\ UNCHANGED <<dialer, dead, asked, stopped, linkFaults, cut>>

\* Refused, reset or timed out before 'connect': the call fails as unreachable.
ConnectFails(h) ==
    LET c == dialing[h] IN
    /\ c # 0 /\ side[c][h].st = "connecting"
    /\ \/ /\ c \in dead \/ side[c][Other(h)].st = "closed"
             \/ (side[c][Other(h)].st = "none" /\ Other(h) \in stopped)
          /\ UNCHANGED linkFaults
       \/ linkFaults < MaxLinkFaults /\ linkFaults' = linkFaults + 1
    /\ Update(h, CloseIn(Pool(h), c), mail)
    /\ dialing' = [dialing EXCEPT ![h] = 0]
    /\ UNCHANGED <<dialer, dead, pick, asked, stopped, cut>>

\* dispatch on the connection that was picked: refused if it went out of service.
WriteCall(h) ==
    LET c == pick[h] IN
    /\ c # 0
    /\ side' = IF side[c][h].st = "up" /\ ~side[c][h].retiring
               THEN [side EXCEPT ![c][h].busy = TRUE] ELSE side
    /\ pick' = [pick EXCEPT ![h] = 0]
    /\ UNCHANGED <<dialer, mail, dead, links, dialing, pendingInbound, retired,
                   asked, stopped, linkFaults, cut>>

\* The answers to a host's calls on a connection arrive.
CallsSettle(c, h) ==
    /\ side[c][h].st = "up" /\ side[c][h].busy /\ c \notin dead
    /\ side[c][Other(h)].st = "up"
    /\ LET p == SettleIn([Pool(h) EXCEPT !.side[c].busy = FALSE], c) IN
       Update(h, p, mail) /\ cut' = (cut \/ p.cut)
    /\ UNCHANGED <<dialer, dead, dialing, pick, asked, stopped, linkFaults>>

-----------------------------------------------------------------------------
(* The listener and the frames of the handshake and of retirement            *)

\* Capped before adopted; an adopted socket is pending until HELLO names it.
Accept(c, h) ==
    /\ dialer[c] = Other(h) /\ side[c][h].st = "none" /\ c \notin dead
    /\ side[c][Other(h)].st = "connecting" /\ h \notin stopped
    /\ IF Cardinality(pendingInbound[h]) >= MaxPending
       THEN /\ side' = [side EXCEPT ![c][h] = NewEnd("closed")]
            /\ UNCHANGED <<mail, pendingInbound>>
       ELSE /\ side' = [side EXCEPT ![c][h] = NewEnd("up")]
            /\ mail' = [mail EXCEPT ![c][Other(h)] = <<"WELCOME">>]
            /\ pendingInbound' = [pendingInbound EXCEPT ![h] = @ \cup {c}]
    /\ UNCHANGED <<dialer, dead, links, dialing, retired, pick, asked, stopped,
                   linkFaults, cut>>

\* onPeer for HELLO and WELCOME; GOAWAY 0 retires the connection here too.
OnLinkFrame(c, h) ==
    LET f == mail[c][h][1]
        box == [mail EXCEPT ![c][h] = Tail(@)]
        p == Pool(h)
        p2 == IF f = "GOAWAY"
              THEN SettleIn(RetireIn([p EXCEPT !.side[c].heard = TRUE], c), c)
              ELSE Register(h, [p EXCEPT !.side[c].named = TRUE,
                                         !.pending = @ \ {c}], c)
    IN /\ side[c][h].st = "up" /\ mail[c][h] # <<>> /\ c \notin dead
       /\ Update(h, p2, box)
       /\ cut' = (cut \/ p2.cut)
       /\ UNCHANGED <<dialer, dead, dialing, pick, asked, stopped, linkFaults>>

\* The handshake deadline of an accepted socket that never said HELLO.
HandshakeTimeout(c, h) ==
    /\ linkFaults < MaxLinkFaults /\ linkFaults' = linkFaults + 1
    /\ side[c][h].st = "up" /\ ~IsOutbound(c, h) /\ ~side[c][h].named
    /\ Update(h, CloseIn(Pool(h), c), mail)
    /\ UNCHANGED <<dialer, dead, dialing, pick, asked, stopped, cut>>

\* The socket's own close: the peer closed it, or the network lost it.
SocketClosed(c, h) ==
    /\ side[c][h].st = "up"
    /\ c \in dead \/ side[c][Other(h)].st = "closed"
    /\ LET p == CloseIn(Pool(h), c) IN Update(h, p, mail) /\ cut' = (cut \/ p.cut)
    /\ UNCHANGED <<dialer, dead, dialing, pick, asked, stopped, linkFaults>>

SocketLost(c) ==
    /\ linkFaults < MaxLinkFaults /\ linkFaults' = linkFaults + 1
    /\ c \in Opened \ dead /\ dead' = dead \cup {c}
    /\ UNCHANGED <<dialer, side, mail, links, dialing, pendingInbound, retired,
                   pick, asked, stopped, cut>>

\* onMembership: the peer is not in the view, the link to it is closed.
PeerLeft(h) ==
    /\ linkFaults < MaxLinkFaults /\ linkFaults' = linkFaults + 1
    /\ links[h] # 0
    /\ LET p == CloseIn(Pool(h), links[h]) IN
       Update(h, [p EXCEPT !.links = 0], mail) /\ cut' = (cut \/ p.cut)
    /\ UNCHANGED <<dialer, dead, dialing, pick, asked, stopped>>

\* stop(): links, pending and retired connections are closed, and the listener.
StopTransport(h) ==
    LET held == (IF links[h] = 0 THEN {} ELSE {links[h]})
                  \cup pendingInbound[h] \cup retired[h]
        p == Pool(h)
        after == [p EXCEPT !.side = [c \in Conns |->
                                       IF c \in held THEN NewEnd("closed") ELSE p.side[c]],
                           !.links = 0, !.pending = {}, !.retired = {}]
    IN /\ h \notin stopped /\ Cardinality(stopped) < MaxStops
       /\ stopped' = stopped \cup {h}
       /\ Update(h, after, mail)
       /\ linkFaults' = MaxLinkFaults
       /\ UNCHANGED <<dialer, dead, dialing, pick, asked, cut>>

-----------------------------------------------------------------------------
\* Sockets connect or fail, frames arrive, closes are noticed, calls go out
\* and are answered.
TcpProgress ==
    \/ \E h \in Hosts2 : Connected(h) \/ ConnectFails(h) \/ WriteCall(h)
    \/ \E c \in Conns, h \in Hosts2 :
         Accept(c, h) \/ OnLinkFrame(c, h) \/ CallsSettle(c, h) \/ SocketClosed(c, h)

TcpNext ==
    \/ TcpProgress
    \/ \E h \in Hosts2 : LinkTo(h) \/ Dial(h) \/ PeerLeft(h) \/ StopTransport(h)
    \/ \E c \in Conns : SocketLost(c)
    \/ \E c \in Conns, h \in Hosts2 : HandshakeTimeout(c, h)

TcpSpec == TcpInit /\ [][TcpNext]_tcpVars

-----------------------------------------------------------------------------
(* Properties                                                                *)

\* The pool has its shape, and a host never routes on a closed connection.
TcpTypeOK ==
    /\ dialer \in [Conns -> Hosts2 \cup {0}]
    /\ \A c \in Conns, h \in Hosts2 :
         /\ side[c][h] \in [st : {"none", "connecting", "up", "closed"}, retiring : BOOLEAN,
                            said : BOOLEAN, heard : BOOLEAN, named : BOOLEAN, busy : BOOLEAN]
         /\ \A i \in 1..Len(mail[c][h]) : mail[c][h][i] \in {"HELLO", "WELCOME", "GOAWAY"}
    /\ links \in [Hosts2 -> Conns \cup {0}] /\ dialing \in [Hosts2 -> Conns \cup {0}]
    /\ \A h \in Hosts2 : links[h] # 0 => side[links[h]][h].st = "up"
    /\ pick \in [Hosts2 -> Conns \cup {0}]
    /\ pendingInbound \in [Hosts2 -> SUBSET Conns] /\ retired \in [Hosts2 -> SUBSET Conns]
    /\ dead \subseteq Conns /\ stopped \subseteq Hosts2

\* Every open connection of a running host is one stop() would find: the
\* route, a pending or retired socket, or the dial in flight.
EveryConnectionIsHeld ==
    \A h \in Hosts2 \ stopped, c \in Conns : Open(c, h) =>
        c \in pendingInbound[h] \cup retired[h] \cup {links[h], dialing[h]}

\* The arbitration cuts no call: a connection with calls on it is only ever
\* closed by a lost socket, a timeout, a membership change or a stop.
ArbitrationCutsNothing == linkFaults = 0 => ~cut

\* Once both hosts are quiet again, nothing open is still out of service, and
\* without faults exactly one of the connections that were set up is left open
\* and both ends route on it.
QuietPool ==
    /\ \A h \in Hosts2 : pick[h] = 0 /\ dialing[h] = 0
    /\ \A c \in Conns, h \in Hosts2 :
         mail[c][h] = <<>> /\ ~side[c][h].busy
         /\ (side[c][h].st = "up" => side[c][Other(h)].st = "up")
OneSurvivor ==
    QuietPool =>
        /\ \A c \in Conns, h \in Hosts2 : Open(c, h) => ~side[c][h].retiring
        /\ linkFaults = 0 =>
              /\ links[1] = links[2]
              /\ (\E c \in Conns : \A h \in Hosts2 : side[c][h].named) => links[1] # 0
              /\ \A c \in Conns, h \in Hosts2 : Open(c, h) => c = links[h]

\* "Close the listener and every peer connection": a stopped host has none.
StopClosesAll == \A h \in stopped, c \in Conns : ~Open(c, h) \/ dialing[h] = c
=============================================================================
