---------------------------- MODULE UdpSessions ----------------------------
(***************************************************************************)
(* The sessions of all UDP mappings: the server's two tables, the agents'  *)
(* mss_session (visitor -> session) and the global mis_session (number ->  *)
(* session), and each client's mis_session (number -> a socket of its own  *)
(* to the mapped host).  Nothing is agreed upon beforehand: the first      *)
(* package of a visitor makes the session on both sides.                   *)
(*                                                                         *)
(* Each mapping has one agent and one client, and both have its name.      *)
(* Sessions time out, agents die and clients give up at any moment here:   *)
(* UdpAging and UdpLink say when.  The network may lose, delay, repeat and *)
(* reorder whatever is under way.                                          *)
(***************************************************************************)
EXTENDS Integers, FiniteSets

CONSTANTS
    Agent, Visitor,
    MaxId,                  \* session numbers are 1 .. MaxId, and wrap
    IPM_UDP_MAX_SESSION,
    NoVisitor, NoSession

Id == 1 .. MaxId
Session == [agent : Agent, visitor : Visitor]

ASSUME ConstantsAssumption ==
    /\ MaxId \in Nat \ {0}
    /\ IPM_UDP_MAX_SESSION \in Nat
    /\ NoVisitor \notin Visitor
    /\ NoSession \notin Session

VARIABLES
    client_addr,    \* where an agent sends to; "none": there is no agent
    mss_session,    \* an agent's sessions: the number a visitor has, or 0
    mis_session,    \* the server's index of all sessions by number
    session_seq,
    hosts,          \* a client's sockets to its mapped host, by number: the
                    \* visitor whose package opened it
    toClient,       \* packages under way to the clients' present sockets
    toServer,       \* packages of the mapped hosts under way
    given,          \* history: whom a number was given to
    issues,         \* history: how many numbers were given
    astray          \* history: packages handed to someone else's socket

server == <<client_addr, mss_session, mis_session, session_seq, given, issues>>
net == <<toClient, toServer>>
vars == <<client_addr, mss_session, mis_session, session_seq, hosts,
          toClient, toServer, given, issues, astray>>

\* A package carries a number; which visitor and mapping it belongs to is
\* what its payload is about.
Package == [id : Id, agent : Agent, visitor : Visitor]

Nobody == [v \in Visitor |-> 0]
Nothing == [i \in Id |-> NoSession]
NoSockets == [i \in Id |-> NoVisitor]

\* session_seq is seeded at random.
Init ==
    /\ client_addr = [a \in Agent |-> "none"]
    /\ mss_session = [a \in Agent |-> Nobody]
    /\ mis_session = Nothing
    /\ session_seq \in 0 .. MaxId
    /\ hosts = [a \in Agent |-> NoSockets]
    /\ toClient = {} /\ toServer = {}
    /\ given = Nothing
    /\ issues = 0
    /\ astray = {}

-----------------------------------------------------------------------------

(***************************************************************************)
(* The server.                                                             *)
(***************************************************************************)

\* next_session_id: 0 marks a control package and is skipped.
NextId(s) == IF s = MaxId THEN 1 ELSE s + 1

\* Both tables have room: the agent's is looked at first, then the server's.
Room(a) ==
    /\ Cardinality({v \in Visitor : mss_session[a][v] # 0}) < IPM_UDP_MAX_SESSION
    /\ Cardinality({i \in Id : mis_session[i] # NoSession}) < IPM_UDP_MAX_SESSION

\* to_client: what is sent to a former socket of the client is lost.
ToClient(a, i, v) ==
    toClient' = IF client_addr[a] = "current"
                THEN toClient \union {[id |-> i, agent |-> a, visitor |-> v]}
                ELSE toClient

\* on_readable of the agent: a package of a visitor it knows ...
VisitorSends(a, v) ==
    /\ client_addr[a] # "none"
    /\ mss_session[a][v] # 0
    /\ ToClient(a, mss_session[a][v], v)
    /\ UNCHANGED <<server, hosts, toServer, astray>>

\* ... and of one it does not.  Fewer numbers are given in all than there are.
NewVisitorSends(a, v) ==
    LET id == NextId(session_seq)
        session == [agent |-> a, visitor |-> v]
    IN  /\ client_addr[a] # "none"
        /\ mss_session[a][v] = 0
        /\ Room(a)
        /\ issues < MaxId
        /\ issues' = issues + 1
        /\ session_seq' = id
        /\ mis_session' = [mis_session EXCEPT ![id] = session]
        /\ mss_session' = [mss_session EXCEPT ![a][v] = id]
        /\ given' = [given EXCEPT ![id] = session]
        /\ ToClient(a, id, v)
        /\ UNCHANGED <<client_addr, hosts, toServer, astray>>

\* handle_register: from the client's present socket or, late, a former one.
HandleRegister(a, from) ==
    /\ client_addr' = [client_addr EXCEPT ![a] = from]
    /\ UNCHANGED <<mss_session, mis_session, session_seq, given, issues, hosts, net, astray>>

\* handle_data: the package goes to the visitor of the session that has its
\* number now, or nowhere.
HandleData(m) ==
    /\ m \in toServer
    /\ mis_session[m.id] # NoSession
    /\ astray' = IF mis_session[m.id] = [agent |-> m.agent, visitor |-> m.visitor]
                 THEN astray ELSE astray \union {m}
    /\ UNCHANGED <<server, hosts, net>>

\* on_session_timeout of the agent, and del_session.
BugServerTimeoutKeepsNumber(a, v) ==
    /\ mss_session[a][v] # 0
    /\ mss_session' = [mss_session EXCEPT ![a][v] = 0]
    /\ UNCHANGED <<client_addr, mis_session, session_seq, given, issues, hosts, net, astray>>

ServerTimeout(a, v) ==
    /\ mss_session[a][v] # 0
    /\ mis_session' = [mis_session EXCEPT ![mss_session[a][v]] = NoSession]
    /\ mss_session' = [mss_session EXCEPT ![a][v] = 0]
    /\ UNCHANGED <<client_addr, session_seq, given, issues, hosts, net, astray>>

\* on_heartbeat_timeout, and exit of the agent: each of its sessions is taken
\* out of the server's index.
AgentDies(a) ==
    /\ client_addr[a] # "none"
    /\ client_addr' = [client_addr EXCEPT ![a] = "none"]
    /\ mis_session' = [i \in Id |-> IF \E v \in Visitor : mss_session[a][v] = i
                                    THEN NoSession ELSE mis_session[i]]
    /\ mss_session' = [mss_session EXCEPT ![a] = Nobody]
    /\ UNCHANGED <<session_seq, given, issues, hosts, net, astray>>

\* The server is stopped and started again.  Its new seed is random, and out
\* of reach of the numbers given before; here the count just goes on.
BugServerRestartsFromZero ==
    /\ client_addr' = [a \in Agent |-> "none"]
    /\ mss_session' = [a \in Agent |-> Nobody]
    /\ mis_session' = Nothing
    /\ session_seq' = 0
    /\ UNCHANGED <<given, issues, hosts, net, astray>>

ServerRestarts ==
    /\ client_addr' = [a \in Agent |-> "none"]
    /\ mss_session' = [a \in Agent |-> Nobody]
    /\ mis_session' = Nothing
    /\ UNCHANGED <<session_seq, given, issues, hosts, net, astray>>

(***************************************************************************)
(* A client.                                                               *)
(***************************************************************************)

\* new_session, while the table has room.
NewSession(a, id, v) ==
    /\ Cardinality({i \in Id : hosts[a][i] # NoVisitor}) < IPM_UDP_MAX_SESSION
    /\ hosts' = [hosts EXCEPT ![a][id] = v]

\* on_server_readable: the package of a known session goes out by its socket,
\* that of an unknown one opens a socket.
ClientReceives(m) ==
    LET known == hosts[m.agent][m.id]
    IN  /\ m \in toClient
        /\ \/ /\ known # NoVisitor
              /\ astray' = IF known = m.visitor THEN astray ELSE astray \union {m}
              /\ UNCHANGED hosts
           \/ /\ known = NoVisitor
              /\ NewSession(m.agent, m.id, m.visitor)
              /\ UNCHANGED astray
        /\ UNCHANGED <<server, net>>

\* on_session_readable: the mapped host answers.
HostReplies(a, i) ==
    /\ hosts[a][i] # NoVisitor
    /\ toServer' = toServer \union {[id |-> i, agent |-> a, visitor |-> hosts[a][i]]}
    /\ UNCHANGED <<server, hosts, toClient, astray>>

\* on_session_timeout of the client.
ClientTimeout(a, i) ==
    /\ hosts[a][i] # NoVisitor
    /\ hosts' = [hosts EXCEPT ![a][i] = NoVisitor]
    /\ UNCHANGED <<server, net, astray>>

\* on_fail, client_exit: the sessions end, and so does the socket to the
\* server with what is under way to it.
ClientFails(a) ==
    /\ hosts' = [hosts EXCEPT ![a] = NoSockets]
    /\ toClient' = {m \in toClient : m.agent # a}
    /\ client_addr' = [client_addr EXCEPT ![a] = IF @ = "current" THEN "old" ELSE @]
    /\ UNCHANGED <<mss_session, mis_session, session_seq, given, issues, toServer, astray>>

-----------------------------------------------------------------------------

Next ==
    \/ \E a \in Agent :
          \/ \E v \in Visitor : VisitorSends(a, v) \/ NewVisitorSends(a, v) \/ ServerTimeout(a, v)
          \/ \E from \in {"current", "old"} : HandleRegister(a, from)
          \/ \E i \in Id : HostReplies(a, i) \/ ClientTimeout(a, i)
          \/ AgentDies(a) \/ ClientFails(a)
    \/ \E m \in toClient : ClientReceives(m)
    \/ \E m \in toServer : HandleData(m)
    \/ ServerRestarts

Spec == Init /\ [][Next]_vars

-----------------------------------------------------------------------------

(***************************************************************************)
(* Correctness.                                                            *)
(***************************************************************************)

\* The types of the variables.
TypeOK ==
    /\ client_addr \in [Agent -> {"none", "current", "old"}]
    /\ mss_session \in [Agent -> [Visitor -> 0 .. MaxId]]
    /\ mis_session \in [Id -> Session \union {NoSession}]
    /\ session_seq \in 0 .. MaxId
    /\ hosts \in [Agent -> [Id -> Visitor \union {NoVisitor}]]
    /\ toClient \subseteq Package
    /\ toServer \subseteq Package
    /\ given \in [Id -> Session \union {NoSession}]
    /\ issues \in 0 .. MaxId
    /\ astray \subseteq Package

\* The server's two tables agree, and a dead agent has no sessions: a number
\* leads to a session of a living agent or to nothing, so no package reaches
\* a freed agent, and no entry is left behind to fill a table.
TablesAgree ==
    /\ \A a \in Agent, v \in Visitor, i \in Id :
          mss_session[a][v] = i <=> mis_session[i] = [agent |-> a, visitor |-> v]
    /\ \A a \in Agent : client_addr[a] = "none" => mss_session[a] = Nobody

\* No package ever reaches another visitor, or the host by another visitor's
\* socket: neither when a number comes late, nor after either side has
\* dropped its sessions and the other has not (ipm_types.h:79-81).
NoneAstray == astray = {}
=============================================================================
