----------------------------- MODULE TcpSystem -----------------------------
(***************************************************************************)
(* A TCP client and its server together: TcpServer and TcpClient with the  *)
(* network between them, over connections that break at any time and are   *)
(* noticed to be broken at one end and at the other independently.         *)
(*                                                                         *)
(* The client asks for one address.  Its end of a connection is its        *)
(* control connection or a tunnel's; the server's end is a bufferevent.    *)
(* What one end has sent may be read after it has closed, and after newer  *)
(* connections were made.  Either program may be stopped and started again.*)
(*                                                                         *)
(* Left to TcpServer alone: what visitors send, that they leave, and the   *)
(* early-close watch, which is off here.                                   *)
(***************************************************************************)
EXTENDS Integers, Sequences

CONSTANTS
    Bev, Addr, Visitor, MaxIndex,       \* as in TcpServer
    NoBev, NoAddr, NoVisitor,
    Tunnel, NoTunnel, FreedTunnel,      \* as in TcpClient
    MaxArrive, MaxInput,
    Mapping,      \* the address the client maps
    Control,      \* the client's end of its control connection
    NoPeer,       \* the other end is closed, or the network lost it
    Map,          \* the request to map the address (index 0)
    NoRequest     \* nothing was sent, or it was read

ASSUME SystemAssumption ==
    /\ MaxIndex \in Nat \ {0} /\ MaxArrive \in Nat /\ MaxInput \in Nat
    /\ NoBev \notin Bev /\ NoAddr \notin Addr /\ NoVisitor \notin Visitor
    /\ NoTunnel \notin Tunnel
    /\ \A r \in [index : 0 .. MaxIndex, srv : {"connecting", "connected", "ready"},
                 from : {"connecting", "ready"}, relay : BOOLEAN] : r # FreedTunnel
    /\ Mapping \in Addr
    /\ Control \notin Tunnel /\ NoPeer \notin Tunnel \union {Control}
    /\ Map \notin Nat /\ NoRequest \notin Nat \union {Map}

VARIABLES
    health, cb, sbe, msa, asa, bound, seq, visitorOf, clientOf, timer,   \* as in TcpServer
    watch, vis, unread, gone, edge, told, issues,
    clientHealth, state, dns, retry, conn, input, mst, tun,              \* as in TcpClient
    peer,         \* the client's end of the connection of a bufferevent
    request,      \* what the client has sent on it first
    penetrates    \* packages on their way to the client

S == INSTANCE TcpServer WITH EarlyClose <- FALSE

C == INSTANCE TcpClient WITH
        Index <- 1 .. MaxIndex, Bad <- 0, Freed <- FreedTunnel, health <- clientHealth, timer <- retry

serverVars == <<health, cb, sbe, msa, asa, bound, seq, visitorOf, clientOf, timer,
                watch, vis, unread, gone, edge, told, issues>>
clientVars == <<clientHealth, state, dns, retry, conn, input, mst, tun>>
network == <<peer, request, penetrates>>
vars == <<serverVars, clientVars, network>>

Init ==
    /\ S!Init
    /\ C!Init
    /\ peer = [b \in Bev |-> NoPeer]
    /\ request = [b \in Bev |-> NoRequest]
    /\ penetrates = <<>>

-----------------------------------------------------------------------------

(***************************************************************************)
(* The network.                                                            *)
(***************************************************************************)

\* The client still has its end e, its connection being c and its tunnels u.
Holds(e, c, u) ==
    \/ e = Control /\ c = "up"
    \/ e \in Tunnel /\ u[e] # FreedTunnel /\ u[e].srv # "connecting"

\* The connections after a step of one of the programs: p, less those of
\* which it has closed an end.
Connections(p) ==
    peer' = [b \in Bev |-> IF cb'[b] # "freed" /\ Holds(p[b], conn', tun') THEN p[b] ELSE NoPeer]

\* What is still to be read, r, less what was sent to a freed bufferevent.
Requests(r) ==
    request' = [b \in Bev |-> IF cb'[b] # "freed" THEN r[b] ELSE NoRequest]

\* What is on its way to a client that has closed is lost.
Penetrates(p) == penetrates' = IF conn' = "up" THEN p ELSE <<>>

ClientAlone ==
    /\ UNCHANGED serverVars
    /\ Connections(peer) /\ Requests(request) /\ Penetrates(penetrates)

ServerAlone ==
    /\ UNCHANGED clientVars
    /\ Connections(peer) /\ Requests(request)

ControlUp == \E b \in Bev : peer[b] = Control
Attached(t) == \E b \in Bev : peer[b] = t

(***************************************************************************)
(* The control connection.                                                 *)
(***************************************************************************)

Query == (C!QueryAsks \/ C!QueryAnsweredAtOnce) /\ ClientAlone

QueryFails == (C!QueryFails \/ C!QueryFailsAtOnce \/ C!NoAddress) /\ ClientAlone

AddressFound == C!AddressFound /\ ClientAlone

\* The connect succeeds; the client sends its request at once.
Dial(b) ==
    /\ C!Connected
    /\ S!Accept(b)
    /\ Connections([peer EXCEPT ![b] = Control])
    /\ Requests([request EXCEPT ![b] = Map])
    /\ penetrates' = <<>>

\* The client's end fails without a reason at the server; or it is told that
\* the server has closed.
ControlBreaks ==
    /\ conn = "connecting" \/ ControlUp
    /\ C!ConnectionFails
    /\ ClientAlone

ControlEnds ==
    /\ conn = "up" /\ ~ControlUp
    /\ C!ConnectionFails
    /\ ClientAlone

\* The same at the server, for a connection that is no tunnel's.  It may find
\* the client's end closed before it has read what was sent.
ServerBreaks(b) ==
    /\ peer[b] # NoPeer
    /\ S!Rejected(b) \/ S!AgentFail(b)
    /\ ServerAlone
    /\ UNCHANGED penetrates

ServerNotices(b) ==
    /\ peer[b] = NoPeer
    /\ S!Rejected(b) \/ S!AgentFail(b)
    /\ ServerAlone
    /\ UNCHANGED penetrates

\* on_bufferevent_data_read: the request to map.
MapRequested(b) ==
    /\ request[b] = Map
    /\ S!AllocOk(b, Mapping)
    /\ UNCHANGED <<clientVars, penetrates>>
    /\ Connections(peer) /\ Requests([request EXCEPT ![b] = NoRequest])

MapRefused(b) ==
    /\ request[b] = Map
    /\ S!AllocFails(b, Mapping)
    /\ ServerAlone
    /\ UNCHANGED penetrates

(***************************************************************************)
(* Tunnels.                                                                *)
(***************************************************************************)

\* A visitor comes to the mapped address and is announced on the control
\* connection of its agent, if that still has a client.
Visit(a, v) ==
    /\ S!VisitOk(a, v) \/ S!VisitFails(a, v)
    /\ ServerAlone
    /\ penetrates' = IF <<seq', v>> \in told' /\ peer[bound[a]] = Control
                     THEN Append(penetrates, seq') ELSE penetrates

\* The first n packages reach the client.
Delivered(n) ==
    /\ n <= Len(penetrates) /\ n <= MaxArrive
    /\ C!Reads(SubSeq(penetrates, 1, n))
    /\ UNCHANGED serverVars
    /\ Connections(peer) /\ Requests(request)
    /\ Penetrates(SubSeq(penetrates, n + 1, Len(penetrates)))

\* A tunnel of the client is connected to the server, and sends its index.
TunnelDials(t, b) ==
    /\ C!ServerConnected(t)
    /\ S!Accept(b)
    /\ Connections([peer EXCEPT ![b] = t])
    /\ Requests([request EXCEPT ![b] = tun[t].index])
    /\ UNCHANGED penetrates

TunnelReady(t) == (C!PenetrateSent(t) \/ C!FromConnected(t)) /\ ClientAlone

\* One of its ends fails or is closed; or it is told that the server has
\* closed.
TunnelBreaks(t) ==
    /\ tun[t] # FreedTunnel /\ (tun[t].srv = "connecting" \/ Attached(t))
    /\ C!EndFails(t) \/ C!RelayCloses(t)
    /\ ClientAlone

TunnelEnds(t) ==
    /\ tun[t] # FreedTunnel /\ tun[t].srv # "connecting" /\ ~Attached(t)
    /\ C!EndFails(t) \/ C!RelayCloses(t)
    /\ ClientAlone

\* on_bufferevent_data_read at the server: the index of a tunnel.
JoinRequested(b) ==
    /\ request[b] \in S!Index
    /\ \/ S!JoinRefused(b, request[b]) \/ S!JoinOk(b, request[b])
       \/ S!JoinAttachFails(b, request[b]) \/ S!JoinStartFails(b, request[b])
    /\ UNCHANGED <<clientVars, penetrates>>
    /\ Connections(peer) /\ Requests([request EXCEPT ![b] = NoRequest])

\* The join timer fires; the relay of a joined tunnel closes.
ServerTunnelEnds(i) ==
    /\ S!JoinTimeout(i) \/ S!RelayCloses(i)
    /\ ServerAlone
    /\ UNCHANGED penetrates

(***************************************************************************)
(* The programs.                                                           *)
(***************************************************************************)

\* The server ends and is started again.  What it has sent may still arrive.
ServerRestart ==
    /\ S!Restart
    /\ ServerAlone
    /\ UNCHANGED penetrates

Stop == C!Stop /\ ClientAlone

Restart ==
    /\ clientHealth = "stopped"
    /\ clientHealth' = "ok"
    /\ UNCHANGED <<serverVars, network, state, dns, retry, conn, input, mst, tun>>

-----------------------------------------------------------------------------

Next ==
    \/ Query \/ QueryFails \/ AddressFound
    \/ ControlBreaks \/ ControlEnds
    \/ \E b \in Bev :
          \/ Dial(b) \/ ServerBreaks(b) \/ ServerNotices(b)
          \/ MapRequested(b) \/ MapRefused(b) \/ JoinRequested(b)
          \/ \E t \in Tunnel : TunnelDials(t, b)
    \/ \E a \in Addr, v \in Visitor : Visit(a, v)
    \/ \E n \in 1 .. MaxArrive : Delivered(n)
    \/ \E t \in Tunnel : TunnelReady(t) \/ TunnelBreaks(t) \/ TunnelEnds(t)
    \/ \E i \in S!Index : ServerTunnelEnds(i)
    \/ Stop \/ Restart \/ ServerRestart

\* What must happen next on the way to a control connection: the retry timer
\* fires, a name server answers, keepalive or the server tells the client that
\* its connection has ended, somebody starts the client again.
LinkGoesOn == Query \/ AddressFound \/ ControlEnds \/ Restart

\* What is readable is read; keepalive tells the server of a dead client.
ServerReads(b) == MapRequested(b) \/ MapRefused(b) \/ JoinRequested(b) \/ ServerNotices(b)

\* A tunnel's connects succeed or fail, its index is written, and it is told
\* that the server has closed.
TunnelGoesOn(t) ==
    \/ \E b \in Bev : TunnelDials(t, b)
    \/ TunnelReady(t)
    \/ TunnelEnds(t)
    \/ tun[t] # FreedTunnel /\ tun[t].srv = "connecting" /\ TunnelBreaks(t)

\* The relay of a tunnel of the server is told that the client has closed.
RelayGoesOn(i) == clientOf[i] # NoBev /\ peer[clientOf[i]] = NoPeer /\ ServerTunnelEnds(i)

\* In each of these one thing is to happen next, or several in any order but
\* each of them once.
Fairness ==
    /\ WF_vars(LinkGoesOn)
    /\ SF_vars(\E b \in Bev : Dial(b))
    /\ WF_vars(\E n \in 1 .. MaxArrive : Delivered(n))
    /\ \A b \in Bev : WF_vars(ServerReads(b))
    /\ \A t \in Tunnel : WF_vars(TunnelGoesOn(t))
    /\ \A i \in S!Index : WF_vars(RelayGoesOn(i))

Spec == Init /\ [][Next]_vars /\ Fairness

-----------------------------------------------------------------------------

(***************************************************************************)
(* Correctness.                                                            *)
(***************************************************************************)

\* What may go wrong with the mapping of the address.
Trouble ==
    \/ QueryFails \/ ControlBreaks \/ Stop \/ ServerRestart
    \/ \E b \in Bev : ServerBreaks(b) \/ MapRefused(b)

\* The client has the address, on the connection that it has.
Mapped ==
    \E b \in Bev : peer[b] = Control /\ asa[Mapping] = b /\ bound[Mapping] = b

\* The bound Bev does not stand in the way of a control connection.
Room == ControlUp \/ \E b \in Bev : cb[b] = "freed"

\* When there is no more trouble, the address is mapped at last and stays so,
\* whatever requests of earlier connections the server has still to read: one
\* of those may take the address away from the connection in use, but the
\* client is told, and comes again.
MappedAtLast == <>[][~Trouble]_vars /\ []<>Room => <>[]Mapped

\* A tunnel of the client and one of the server are connected and relaying.
Met(t) ==
    /\ tun[t] # FreedTunnel /\ tun[t].relay
    /\ \E b \in Bev : peer[b] = t /\ clientOf[tun[t].index] = b

\* A tunnel of the client meets the server's tunnel of its visitor or is
\* gone: refused, too late, or cut off on the way, it does not hold on to the
\* mapped host for nobody.
TunnelsMeet ==
    \A t \in Tunnel : []<>(tun[t] = FreedTunnel \/ Met(t))

\* What a visitor's connection is joined to is the client's tunnel of the
\* index that was told for this visitor and for no other: however late a
\* request is read, and whatever the bufferevent was used for before, nobody
\* is connected to the host as somebody else.
EachToItsOwn ==
    \A i \in S!Index :
        clientOf[i] # NoBev /\ peer[clientOf[i]] # NoPeer =>
            LET t == peer[clientOf[i]]
            IN  /\ t \in Tunnel /\ tun[t].index = i
                /\ {p \in told : p[1] = i} = {<<i, visitorOf[i]>>}

\* Two tunnels that have met go on until one of their relays closes or one of
\* the programs ends: no package still on its way, late join, reconnect,
\* eviction or time-out at either side comes between a visitor and its host.
MetUndisturbed ==
    [][\A t \in Tunnel : Met(t) =>
          LET i == tun[t].index
          IN  \/ tun'[t] = tun[t] /\ clientOf'[i] = clientOf[i] /\ visitorOf'[i] = visitorOf[i]
              \/ C!RelayCloses(t) \/ S!RelayCloses(i)
              \/ Stop \/ ServerRestart]_vars
=============================================================================
