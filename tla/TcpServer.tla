----------------------------- MODULE TcpServer -----------------------------
(***************************************************************************)
(* The TCP server: ipm_server with its agents (ipm_server_agent, one per   *)
(* mapped address) and its tunnels (ipm_server_tunnel, one per visitor).   *)
(* One thread runs everything, so each callback is one action.             *)
(*                                                                         *)
(* A connection from a client is a bufferevent: at first the server's own  *)
(* (sbe_bufferevent), then, by its first package, the control connection   *)
(* of an agent or the client's end of a tunnel.  Bufferevents are freed    *)
(* and their addresses reused, so a Bev stands for a pointer, and cb says  *)
(* whose callbacks are set on what it points to.                           *)
(***************************************************************************)
EXTENDS Integers

CONSTANTS
    Bev,          \* bufferevents (their addresses)
    Addr,         \* addresses a client may ask for
    Visitor,      \* connections to a mapped address, each used once
    MaxIndex,     \* largest tunnel index: 2^64 - 1
    EarlyClose,   \* the platform has EV_FEATURE_EARLY_CLOSE and EV_FEATURE_ET
    NoBev, NoAddr, NoVisitor

ASSUME ConstantsAssumption ==
    /\ MaxIndex \in Nat \ {0}
    /\ EarlyClose \in BOOLEAN
    /\ NoBev \notin Bev /\ NoAddr \notin Addr /\ NoVisitor \notin Visitor

VARIABLES
    health,       \* "ok", "fatal" after on_fail, "misuse" after a double free
    cb,           \* whose callbacks a bufferevent has, "freed" if it is no more
    sbe,          \* sbe_bufferevent
    msa,          \* msa_agent: the address of the agent of a bufferevent
    asa,          \* asa_agent: the bufferevent of the agent of an address
    bound,        \* whose listener listens on an address
    seq,          \* tunnel_seq
    visitorOf,    \* mst_tunnel: the visitor of the tunnel of an index
    clientOf,     \* client_bufferevent of that tunnel, NoBev before the join
    timer,        \* its join_timer is pending
    watch,        \* its to_watch_event is registered
    vis,          \* a visitor's socket: "new", "open", "closed" by the server
    unread,       \* the visitor has sent data nobody has read
    gone,         \* the visitor has closed: "no", "fin", "rst"
    edge,         \* the next edge to_watch_event reports
    told,         \* history: pairs <<index, visitor>> sent in a penetrate
    issues        \* history: how many indices were issued

agentVars == <<msa, asa, bound>>
tunnelVars == <<visitorOf, clientOf, timer, watch>>
visitorVars == <<unread, gone, edge>>
historyVars == <<told, issues>>
vars == <<health, cb, sbe, msa, asa, bound, seq, visitorOf, clientOf, timer, watch,
          vis, unread, gone, edge, told, issues>>

Index == 1 .. MaxIndex

Live(i) == visitorOf[i] # NoVisitor
Joined(i) == clientOf[i] # NoBev
Waiting(i) == Live(i) /\ ~Joined(i)

Init ==
    /\ health = "ok"
    /\ cb = [b \in Bev |-> "freed"]
    /\ sbe = {}
    /\ msa = [b \in Bev |-> NoAddr]
    /\ asa = [a \in Addr |-> NoBev]
    /\ bound = [a \in Addr |-> NoBev]
    /\ seq \in 0 .. MaxIndex
    /\ visitorOf = [i \in Index |-> NoVisitor]
    /\ clientOf = [i \in Index |-> NoBev]
    /\ timer = [i \in Index |-> FALSE]
    /\ watch = [i \in Index |-> FALSE]
    /\ vis = [v \in Visitor |-> "new"]
    /\ unread = [v \in Visitor |-> FALSE]
    /\ gone = [v \in Visitor |-> "no"]
    /\ edge = [v \in Visitor |-> FALSE]
    /\ told = {}
    /\ issues = 0

-----------------------------------------------------------------------------

(***************************************************************************)
(* Connections that have not said what they are.                           *)
(***************************************************************************)

\* on_listener.  When it fails, the socket is closed and nothing changes.
Accept(b) ==
    /\ health = "ok"
    /\ cb[b] = "freed"
    /\ cb' = [cb EXCEPT ![b] = "server"]
    /\ sbe' = sbe \union {b}
    /\ UNCHANGED <<health, agentVars, seq, tunnelVars, vis, visitorVars, historyVars>>

\* close_and_remove_bufferevent, from callbacks table c and health h: fatal
\* when the bufferevent is not in the set, a double free when it is freed.
CloseAndRemove(b, c, h) ==
    /\ cb' = [c EXCEPT ![b] = "freed"]
    /\ sbe' = sbe \ {b}
    /\ health' = IF b \notin sbe THEN "fatal" ELSE IF c[b] = "freed" THEN "misuse" ELSE h

\* remove_bufferevent, after the bufferevent got an owner.
Remove(b, c) ==
    /\ cb' = c
    /\ sbe' = sbe \ {b}
    /\ health' = IF b \notin sbe THEN "fatal" ELSE health

\* The callbacks ipm_server sets: an error, the end of the stream, or a
\* first package whose checksum is wrong.
Rejected(b) ==
    /\ health = "ok"
    /\ cb[b] = "server"
    /\ CloseAndRemove(b, cb, health)
    /\ UNCHANGED <<agentVars, seq, tunnelVars, vis, visitorVars, historyVars>>

(***************************************************************************)
(* Agents.                                                                 *)
(***************************************************************************)

\* The tables after ipm_server_agent::exit of the agent of o: it frees its
\* bufferevent and its listener.
BugUnboundByNone(o) == bound
Unbound(o) == [a \in Addr |-> IF bound[a] = o THEN NoBev ELSE bound[a]]

\* asa_agent names an agent that msa_agent does not know.
EvictFatal(a) == asa[a] # NoBev /\ msa[asa[a]] = NoAddr

\* alloc_agent evicts the agent of the address first: asa_agent, then the
\* agent itself, then msa_agent.
BugEvictKeepsConnection(a) ==
    LET o == asa[a]
    IN  IF o = NoBev \/ EvictFatal(a)
        THEN [msa |-> msa, asa |-> asa, cb |-> cb, bound |-> bound]
        ELSE [msa |-> [msa EXCEPT ![o] = NoAddr],
              asa |-> [asa EXCEPT ![a] = NoBev],
              cb |-> cb,
              bound |-> Unbound(o)]

Evict(a) ==
    LET o == asa[a]
    IN  IF o = NoBev \/ EvictFatal(a)
        THEN [msa |-> msa, asa |-> asa, cb |-> cb, bound |-> bound]
        ELSE [msa |-> [msa EXCEPT ![o] = NoAddr],
              asa |-> [asa EXCEPT ![a] = NoBev],
              cb |-> [cb EXCEPT ![o] = "freed"],
              bound |-> Unbound(o)]

\* The connection can become the agent of the address: no agent stands in
\* the way, be it in the maps or with its listener.
CanListen(b, a) == cb[b] = "server" /\ ~EvictFatal(a) /\ Evict(a).bound[a] = NoBev

\* A request to map address a (index 0): the agent starts to listen.
AllocOk(b, a) ==
    LET e == Evict(a)
    IN  /\ health = "ok"
        /\ CanListen(b, a)
        /\ msa' = [e.msa EXCEPT ![b] = a]
        /\ asa' = [e.asa EXCEPT ![a] = b]
        /\ bound' = [e.bound EXCEPT ![a] = b]
        /\ Remove(b, [e.cb EXCEPT ![b] = "agent"])
        /\ UNCHANGED <<seq, tunnelVars, vis, visitorVars, historyVars>>

\* It cannot listen: another program has the port, or the address is not
\* one of this host's.  The old agent is gone all the same.  Or eviction
\* found the maps in disagreement, which is fatal.
AllocFails(b, a) ==
    LET e == Evict(a)
    IN  /\ health = "ok"
        /\ cb[b] = "server"
        /\ msa' = e.msa
        /\ asa' = e.asa
        /\ bound' = e.bound
        /\ CloseAndRemove(b, e.cb, IF EvictFatal(a) THEN "fatal" ELSE health)
        /\ UNCHANGED <<seq, tunnelVars, vis, visitorVars, historyVars>>

\* The client's control connection fails, ends, or says anything.  Tunnels
\* stay.
BugAgentFailKeepsAddr(b) ==
    /\ health = "ok"
    /\ cb[b] = "agent"
    /\ msa[b] # NoAddr
    /\ msa' = [msa EXCEPT ![b] = NoAddr]
    /\ bound' = Unbound(b)
    /\ cb' = [cb EXCEPT ![b] = "freed"]
    /\ UNCHANGED <<health, asa, sbe, seq, tunnelVars, vis, visitorVars, historyVars>>

AgentFail(b) ==
    /\ health = "ok"
    /\ cb[b] = "agent"
    /\ IF msa[b] = NoAddr
       THEN health' = "fatal" /\ UNCHANGED <<cb, agentVars>>
       ELSE /\ asa' = [asa EXCEPT ![msa[b]] = NoBev]
            /\ msa' = [msa EXCEPT ![b] = NoAddr]
            /\ bound' = Unbound(b)
            /\ cb' = [cb EXCEPT ![b] = "freed"]
            /\ UNCHANGED health
    /\ UNCHANGED <<sbe, seq, tunnelVars, vis, visitorVars, historyVars>>

(***************************************************************************)
(* Tunnels.                                                                *)
(***************************************************************************)

\* next_tunnel_index: the counter wraps, and 0 is skipped.
BugNextSeqRecycles(s) == CHOOSE i \in Index : ~Live(i)
NextSeq(s) == IF s = MaxIndex THEN 1 ELSE s + 1

\* A visitor is accepted on a mapped address.  Bound: the counter does not
\* go round all of its values.
Visits(a, v) ==
    /\ health = "ok"
    /\ bound[a] # NoBev
    /\ vis[v] = "new"
    /\ issues < MaxIndex
    /\ seq' = NextSeq(seq)
    /\ issues' = issues + 1
    /\ UNCHANGED <<health, cb, sbe, agentVars, clientOf, unread, gone>>

\* on_listener of the agent: the index goes to the client, then the tunnel
\* is made, with its timer and, where there is one, its watch.
BugVisitOkNoTimer(a, v) ==
    /\ Visits(a, v)
    /\ told' = told \union {<<seq', v>>}
    /\ visitorOf' = [visitorOf EXCEPT ![seq'] = v]
    /\ timer' = [timer EXCEPT ![seq'] = ~EarlyClose]
    /\ watch' = [watch EXCEPT ![seq'] = EarlyClose]
    /\ edge' = [edge EXCEPT ![v] = EarlyClose]
    /\ vis' = [vis EXCEPT ![v] = "open"]

VisitOk(a, v) ==
    /\ Visits(a, v)
    /\ told' = told \union {<<seq', v>>}
    /\ visitorOf' = [visitorOf EXCEPT ![seq'] = v]
    /\ timer' = [timer EXCEPT ![seq'] = TRUE]
    /\ watch' = [watch EXCEPT ![seq'] = EarlyClose]
    /\ edge' = [edge EXCEPT ![v] = EarlyClose]
    /\ vis' = [vis EXCEPT ![v] = "open"]

\* The penetrate cannot be written, or it is written and the tunnel cannot
\* be made: the visitor's socket is closed, the index is used up.
BugVisitFailsLeaks(a, v) ==
    /\ Visits(a, v)
    /\ told' \in {told, told \union {<<seq', v>>}}
    /\ vis' = [vis EXCEPT ![v] = "open"]
    /\ UNCHANGED <<visitorOf, timer, watch, edge>>

VisitFails(a, v) ==
    /\ Visits(a, v)
    /\ told' \in {told, told \union {<<seq', v>>}}
    /\ vis' = [vis EXCEPT ![v] = "closed"]
    /\ UNCHANGED <<visitorOf, timer, watch, edge>>

\* on_interface_ipm_server_tunnel_fail, and ipm_server_tunnel::exit with
\* it: the watch, the timer, the client's bufferevent and the sockets.
Freed(b, c) == [x \in Bev |-> IF x = b THEN "freed" ELSE c[x]]

BugTunnelEndsKeepsClient(i) ==
    /\ visitorOf' = [visitorOf EXCEPT ![i] = NoVisitor]
    /\ timer' = [timer EXCEPT ![i] = FALSE]
    /\ watch' = [watch EXCEPT ![i] = FALSE]
    /\ vis' = [vis EXCEPT ![visitorOf[i]] = "closed"]
    /\ UNCHANGED clientOf

TunnelEnds(i) ==
    /\ visitorOf' = [visitorOf EXCEPT ![i] = NoVisitor]
    /\ clientOf' = [clientOf EXCEPT ![i] = NoBev]
    /\ timer' = [timer EXCEPT ![i] = FALSE]
    /\ watch' = [watch EXCEPT ![i] = FALSE]
    /\ vis' = [vis EXCEPT ![visitorOf[i]] = "closed"]

\* on_to_watch: an edge is reported and the visitor's socket peeked at.
\* Data still to be read keeps the tunnel waiting; on a socket that was
\* reset the peek may see the data or the error.
BugToWatchErrorsOnly(i) ==
    LET v == visitorOf[i]
    IN  /\ health = "ok"
        /\ watch[i] /\ edge[v]
        /\ edge' = [edge EXCEPT ![v] = FALSE]
        /\ \/ /\ unread[v] \/ gone[v] # "rst"
              /\ UNCHANGED <<cb, tunnelVars, vis>>
           \/ /\ gone[v] = "rst"
              /\ TunnelEnds(i)
              /\ cb' = Freed(clientOf[i], cb)
        /\ UNCHANGED <<health, sbe, agentVars, seq, unread, gone, historyVars>>

ToWatch(i) ==
    LET v == visitorOf[i]
    IN  /\ health = "ok"
        /\ watch[i] /\ edge[v]
        /\ edge' = [edge EXCEPT ![v] = FALSE]
        /\ \/ /\ unread[v] \/ gone[v] = "no"
              /\ UNCHANGED <<cb, tunnelVars, vis>>
           \/ /\ gone[v] = "rst" \/ (gone[v] = "fin" /\ ~unread[v])
              /\ TunnelEnds(i)
              /\ cb' = Freed(clientOf[i], cb)
        /\ UNCHANGED <<health, sbe, agentVars, seq, unread, gone, historyVars>>

\* on_join_timeout.
JoinTimeout(i) ==
    /\ health = "ok"
    /\ timer[i]
    /\ TunnelEnds(i)
    /\ cb' = Freed(clientOf[i], cb)
    /\ UNCHANGED <<health, sbe, agentVars, seq, visitorVars, historyVars>>

\* A request to join tunnel i, which is unknown (it never was, or it has
\* ended) or has its client already: the connection is closed.
BugJoinRefusedKeepsConnection(b, i) ==
    /\ health = "ok"
    /\ cb[b] = "server"
    /\ ~Live(i) \/ Joined(i)
    /\ UNCHANGED <<health, cb, sbe, agentVars, seq, tunnelVars, vis, visitorVars, historyVars>>

JoinRefused(b, i) ==
    /\ health = "ok"
    /\ cb[b] = "server"
    /\ ~Live(i) \/ Joined(i)
    /\ CloseAndRemove(b, cb, health)
    /\ UNCHANGED <<agentVars, seq, tunnelVars, vis, visitorVars, historyVars>>

\* client_connected: the watch and the timer are taken back, even when they
\* are due in this very round of the event loop.
BugJoinOkOverJoined(b, i) ==
    /\ health = "ok"
    /\ cb[b] = "server"
    /\ Live(i)
    /\ clientOf' = [clientOf EXCEPT ![i] = b]
    /\ timer' = [timer EXCEPT ![i] = FALSE]
    /\ watch' = [watch EXCEPT ![i] = FALSE]
    /\ Remove(b, [cb EXCEPT ![b] = "relay"])
    /\ UNCHANGED <<agentVars, seq, visitorOf, vis, visitorVars, historyVars>>

BugJoinOkKeepsTimer(b, i) ==
    /\ health = "ok"
    /\ cb[b] = "server"
    /\ Waiting(i)
    /\ clientOf' = [clientOf EXCEPT ![i] = b]
    /\ watch' = [watch EXCEPT ![i] = FALSE]
    /\ Remove(b, [cb EXCEPT ![b] = "relay"])
    /\ UNCHANGED <<agentVars, seq, visitorOf, timer, vis, visitorVars, historyVars>>

BugJoinOkStaysPending(b, i) ==
    /\ health = "ok"
    /\ cb[b] = "server"
    /\ Waiting(i)
    /\ clientOf' = [clientOf EXCEPT ![i] = b]
    /\ timer' = [timer EXCEPT ![i] = FALSE]
    /\ watch' = [watch EXCEPT ![i] = FALSE]
    /\ cb' = [cb EXCEPT ![b] = "relay"]
    /\ UNCHANGED <<health, sbe, agentVars, seq, visitorOf, vis, visitorVars, historyVars>>

JoinOk(b, i) ==
    /\ health = "ok"
    /\ cb[b] = "server"
    /\ Waiting(i)
    /\ clientOf' = [clientOf EXCEPT ![i] = b]
    /\ timer' = [timer EXCEPT ![i] = FALSE]
    /\ watch' = [watch EXCEPT ![i] = FALSE]
    /\ Remove(b, [cb EXCEPT ![b] = "relay"])
    /\ UNCHANGED <<agentVars, seq, visitorOf, vis, visitorVars, historyVars>>

\* relay.attach fails: the tunnel ends, the connection is still the
\* server's and closed by it.
JoinAttachFails(b, i) ==
    /\ health = "ok"
    /\ cb[b] = "server"
    /\ Waiting(i)
    /\ TunnelEnds(i)
    /\ CloseAndRemove(b, cb, health)
    /\ UNCHANGED <<agentVars, seq, visitorVars, historyVars>>

\* relay.start fails: the connection is the tunnel's and freed with it;
\* the server only forgets it.
BugJoinStartFailsReturnsFalse(b, i) ==
    /\ health = "ok"
    /\ cb[b] = "server"
    /\ Waiting(i)
    /\ TunnelEnds(i)
    /\ CloseAndRemove(b, Freed(b, cb), health)
    /\ UNCHANGED <<agentVars, seq, visitorVars, historyVars>>

JoinStartFails(b, i) ==
    /\ health = "ok"
    /\ cb[b] = "server"
    /\ Waiting(i)
    /\ TunnelEnds(i)
    /\ Remove(b, Freed(b, cb))
    /\ UNCHANGED <<agentVars, seq, visitorVars, historyVars>>

\* The relay of a joined tunnel closes (module Relay says when).
RelayCloses(i) ==
    /\ health = "ok"
    /\ Live(i) /\ Joined(i)
    /\ TunnelEnds(i)
    /\ cb' = Freed(clientOf[i], cb)
    /\ UNCHANGED <<health, sbe, agentVars, seq, visitorVars, historyVars>>

(***************************************************************************)
(* The program.                                                            *)
(***************************************************************************)

\* exit frees what the tunnels have, then what the agents have, then what is
\* still the server's own.
FreesOnce ==
    /\ \A i, j \in Index : Joined(i) /\ clientOf[i] = clientOf[j] => i = j
    /\ \A i \in Index : Joined(i) => clientOf[i] \notin sbe /\ msa[clientOf[i]] = NoAddr
    /\ \A b \in sbe : msa[b] = NoAddr

\* The program ends by exit, or is killed, and is started again.  The counter
\* starts at a random number, out of reach of the indices told before: as if
\* it went on.
Restart ==
    /\ health = "ok"
    /\ health' = IF FreesOnce THEN health ELSE "misuse"
    /\ cb' = [b \in Bev |-> "freed"]
    /\ sbe' = {}
    /\ msa' = [b \in Bev |-> NoAddr]
    /\ asa' = [a \in Addr |-> NoBev]
    /\ bound' = [a \in Addr |-> NoBev]
    /\ visitorOf' = [i \in Index |-> NoVisitor]
    /\ clientOf' = [i \in Index |-> NoBev]
    /\ timer' = [i \in Index |-> FALSE]
    /\ watch' = [i \in Index |-> FALSE]
    /\ vis' = [v \in Visitor |-> IF vis[v] = "open" THEN "closed" ELSE vis[v]]
    /\ UNCHANGED <<seq, visitorVars, historyVars>>

(***************************************************************************)
(* The visitors.                                                           *)
(***************************************************************************)

VisitorSends(v) ==
    /\ vis[v] = "open" /\ gone[v] = "no" /\ ~unread[v]
    /\ unread' = [unread EXCEPT ![v] = TRUE]
    /\ UNCHANGED <<health, cb, sbe, agentVars, seq, tunnelVars, vis, gone, edge, historyVars>>

VisitorLeaves(v, how) ==
    /\ vis[v] = "open" /\ gone[v] = "no"
    /\ gone' = [gone EXCEPT ![v] = how]
    /\ edge' = [edge EXCEPT ![v] = EarlyClose]
    /\ UNCHANGED <<health, cb, sbe, agentVars, seq, tunnelVars, vis, unread, historyVars>>

-----------------------------------------------------------------------------

Next ==
    \/ Restart
    \/ \E b \in Bev :
          \/ Accept(b)
          \/ Rejected(b)
          \/ AgentFail(b)
          \/ \E a \in Addr : AllocOk(b, a) \/ AllocFails(b, a)
          \/ \E i \in Index : \/ JoinRefused(b, i) \/ JoinOk(b, i)
                              \/ JoinAttachFails(b, i) \/ JoinStartFails(b, i)
    \/ \E a \in Addr, v \in Visitor : VisitOk(a, v) \/ VisitFails(a, v)
    \/ \E i \in Index : ToWatch(i) \/ JoinTimeout(i) \/ RelayCloses(i)
    \/ \E v \in Visitor : VisitorSends(v) \/ \E how \in {"fin", "rst"} : VisitorLeaves(v, how)

Spec == Init /\ [][Next]_vars

\* A pending timer fires.
TimersFire == \A i \in Index : WF_vars(JoinTimeout(i))

\* A reported edge is handled.
EdgesHandled == \A i \in Index : WF_vars(ToWatch(i))

-----------------------------------------------------------------------------

(***************************************************************************)
(* Correctness.                                                            *)
(***************************************************************************)

\* The types of the variables.
TypeOK ==
    /\ health \in {"ok", "fatal", "misuse"}
    /\ cb \in [Bev -> {"freed", "server", "agent", "relay"}]
    /\ sbe \subseteq Bev
    /\ msa \in [Bev -> Addr \union {NoAddr}]
    /\ asa \in [Addr -> Bev \union {NoBev}]
    /\ bound \in [Addr -> Bev \union {NoBev}]
    /\ seq \in 0 .. MaxIndex
    /\ visitorOf \in [Index -> Visitor \union {NoVisitor}]
    /\ clientOf \in [Index -> Bev \union {NoBev}]
    /\ timer \in [Index -> BOOLEAN]
    /\ watch \in [Index -> BOOLEAN]
    /\ vis \in [Visitor -> {"new", "open", "closed"}]
    /\ unread \in [Visitor -> BOOLEAN]
    /\ gone \in [Visitor -> {"no", "fin", "rst"}]
    /\ edge \in [Visitor -> BOOLEAN]
    /\ told \subseteq Index \X Visitor
    /\ issues \in 0 .. MaxIndex

\* The branches the code calls fatal ("msa_agent error", "remove_bufferevent
\* error", "close_and_remove_bufferevent error") are never taken, and no
\* bufferevent is freed twice: one client cannot take the server down.
Healthy == health = "ok"

\* Each bufferevent has exactly one owner, the one whose callbacks it has,
\* and a freed one has none; so no callback ever runs on a freed object.
OneOwner ==
    \A b \in Bev :
        /\ b \in sbe <=> cb[b] = "server"
        /\ msa[b] # NoAddr <=> cb[b] = "agent"
        /\ (\E i \in Index : clientOf[i] = b) <=> cb[b] = "relay"
        /\ \A i, j \in Index : clientOf[i] = b /\ clientOf[j] = b => i = j

\* The two maps of agents and the listeners agree: an agent is found by its
\* connection exactly when it is found by its address and listens there.
MapsAgree ==
    \A b \in Bev, a \in Addr :
        /\ msa[b] = a <=> asa[a] = b
        /\ bound[a] = asa[a]

\* A tunnel that waits for its client has a deadline; one that has its
\* client has neither timer nor watch, so only its relay ends it; and one
\* that is no more has nothing left.
Guarded ==
    \A i \in Index :
        /\ timer[i] <=> Waiting(i)
        /\ watch[i] <=> Waiting(i) /\ EarlyClose
        /\ Joined(i) => Live(i)

\* No index is 0, which means "map an address" on the wire, and none is
\* given to two visitors: a late or repeated join never reaches a visitor
\* other than the one its penetrate was sent for.
JoinReachesItsVisitor ==
    /\ \A i \in Index, v, w \in Visitor : <<i, v>> \in told /\ <<i, w>> \in told => v = w
    /\ \A i \in Index : Live(i) => <<i, visitorOf[i]>> \in told
    /\ issues > 0 => seq \in Index

\* Every visitor the server has accepted and not closed belongs to exactly
\* one tunnel: no socket is forgotten.
VisitorsOwned ==
    \A v \in Visitor :
        /\ vis[v] = "open" <=> \E i \in Index : visitorOf[i] = v
        /\ \A i, j \in Index : visitorOf[i] = v /\ visitorOf[j] = v => i = j

\* A client that comes back before the server has noticed that its old
\* connection is dead gets its address: the listener of the old agent is
\* never what stands in the way.
ReclaimPossible ==
    \A b \in sbe, a \in Addr : CanListen(b, a)

\* Once a tunnel has its client it keeps it, and only its relay ends it, or
\* the program's end: no second join, no timer, no failing or evicted agent.
JoinedOnlyEndsByRelay ==
    [][\A i \in Index :
          Live(i) /\ Joined(i) =>
              \/ RelayCloses(i) \/ Restart
              \/ visitorOf'[i] = visitorOf[i] /\ clientOf'[i] = clientOf[i]]_vars

\* No visitor waits for ever for a client that does not come: the timer alone
\* sees to it, whatever else happens or does not.
WaitingEnds ==
    TimersFire => \A i \in Index : Waiting(i) ~> ~Waiting(i)

\* Where the platform reports early closes, a visitor that leaves without
\* having said anything gives its tunnel up, be the timer as slow as it likes
\* and although each edge is reported once only.
LeaverNoticed ==
    EdgesHandled =>
        \A i \in Index, v \in Visitor :
            (Waiting(i) /\ visitorOf[i] = v /\ gone[v] # "no" /\ ~unread[v]) ~> ~Waiting(i)
=============================================================================
