------------------------------ MODULE UdpLink ------------------------------
(***************************************************************************)
(* The control link of one UDP mapping: the client's state machine with    *)
(* its registrations and heartbeats (ipm_client_udp), and the life of the  *)
(* agent that serves it (ipm_server_udp, ipm_server_udp_agent).  One       *)
(* package is both registration and heartbeat; the server echoes it as its *)
(* acknowledgement.                                                        *)
(*                                                                         *)
(* Time is discrete, in seconds, as time(NULL) and the client's one-second *)
(* tick are.  Data matters only as far as it tells the client that the     *)
(* server is there.  Each reconnection gives the client a new socket, so   *)
(* an address is "current" or "old".                                       *)
(***************************************************************************)
EXTENDS Integers

CONSTANTS
    IPM_UDP_HEARTBEAT_IDLE, IPM_UDP_REG_RETRY, IPM_UDP_REG_TRIES,
    IPM_UDP_HEARTBEAT_TRIES, IPM_UDP_AGENT_TIMEOUT,
    client_reconn_time      \* option -w

ASSUME ConstantsAssumption ==
    /\ {IPM_UDP_HEARTBEAT_IDLE, IPM_UDP_REG_RETRY, IPM_UDP_REG_TRIES,
        IPM_UDP_HEARTBEAT_TRIES, IPM_UDP_AGENT_TIMEOUT} \subseteq Nat \ {0}
    /\ client_reconn_time \in Nat

VARIABLES
    client_state,
    sinceSend,      \* seconds since last_send, as far as they matter
    sinceRecv,      \* seconds since last_recv, as far as they matter
    waited,         \* seconds since wait_since
    reg_tries, hb_pending, hb_miss,
    agent,          \* where the agent sends to, "none" if there is no agent
    hbAge,          \* seconds since hb_timer was set
    toServer,       \* registrations under way, by the address they are from
    toClient,       \* packages under way to the client's current address
    busy,           \* the mapping has visitors that send data
    env,            \* how the surroundings behave: "fine", "lossy", "rough", "calm"
    calmFor,        \* seconds since they became calm, as far as they matter
    recovering      \* history: the client ran, failed, and no attempt has failed since

timers == <<sinceSend, sinceRecv, waited>>
counts == <<reg_tries, hb_pending, hb_miss>>
client == <<client_state, timers, counts, recovering>>
server == <<agent, hbAge>>
net == <<toServer, toClient>>
vars == <<client_state, sinceSend, sinceRecv, waited, reg_tries, hb_pending, hb_miss,
          agent, hbAge, toServer, toClient, busy, env, calmFor, recovering>>

\* Longest silence of the server a running client puts up with.
DetectTime == IPM_UDP_HEARTBEAT_IDLE + IPM_UDP_HEARTBEAT_TRIES * IPM_UDP_REG_RETRY

\* Longest time a working link takes to be up again: the last heartbeat or
\* registration of a vain series was lost, and then comes the wait; or the
\* agent has gone and the client is idle until the next heartbeat.
RecoverTime ==
    LET afterWait == IPM_UDP_REG_RETRY + client_reconn_time
    IN  1 + IF afterWait > IPM_UDP_HEARTBEAT_IDLE THEN afterWait ELSE IPM_UDP_HEARTBEAT_IDLE

\* Longest time a client that is still connected may have asked or run without
\* hearing anything, so that what it hears next may be that old.
LongestUnheard ==
    LET asking == IPM_UDP_REG_TRIES * IPM_UDP_REG_RETRY
    IN  IF asking > DetectTime THEN asking ELSE DetectTime

\* The server's patience with a client it does not hear of outlasts an answer
\* as old as can be and the client's own patience after it; a silent client
\* asks sooner than an idle one (ipm_types.h:107-114).
ASSUME TimeoutsAssumption ==
    /\ DetectTime + LongestUnheard <= IPM_UDP_AGENT_TIMEOUT + 1
    /\ IPM_UDP_REG_RETRY < IPM_UDP_HEARTBEAT_IDLE

\* Clocks stop where no comparison tells their values apart.
Later(age, bound) == IF age < bound THEN age + 1 ELSE bound

Init ==
    /\ client_state = "DNS_QUERYING"
    /\ sinceSend = IPM_UDP_REG_RETRY
    /\ sinceRecv = DetectTime
    /\ waited = 0
    /\ reg_tries = 0
    /\ hb_pending = FALSE
    /\ hb_miss = 0
    /\ agent = "none"
    /\ hbAge = 0
    /\ toServer = {}
    /\ toClient = {}
    /\ busy \in BOOLEAN
    /\ env = "fine"
    /\ calmFor = 0
    /\ recovering = FALSE

-----------------------------------------------------------------------------

(***************************************************************************)
(* The client.                                                             *)
(***************************************************************************)

\* client_exit and client_reset: the socket is closed, what was under way
\* to it is lost, and what it sent comes from an address it has no more.
Disconnects ==
    /\ sinceSend' = IPM_UDP_REG_RETRY
    /\ sinceRecv' = DetectTime
    /\ reg_tries' = 0
    /\ hb_pending' = FALSE
    /\ hb_miss' = 0
    /\ agent' = IF agent = "current" THEN "old" ELSE agent
    /\ toServer' = {"old" : m \in toServer}
    /\ toClient' = {}

OnFail ==
    /\ Disconnects
    /\ waited' = 0
    /\ client_state' = "WAITING"
    /\ recovering' = (client_state = "RUNNING")

SendRegister ==
    /\ sinceSend' = 0
    /\ toServer' = toServer \union {"current"}
    /\ UNCHANGED toClient

\* on_evdns_getaddrinfo: an address was found and a socket opened.  It may
\* run inside dns_query_server, whose caller has set the state before.
BugDnsAnswersOverwritten ==
    /\ client_state = "DNS_QUERYING"
    /\ SendRegister
    /\ reg_tries' = 0
    /\ UNCHANGED <<client_state, sinceRecv, waited, hb_pending, hb_miss, recovering, server, busy, env, calmFor>>

DnsAnswers ==
    /\ client_state = "DNS_QUERYING"
    /\ SendRegister
    /\ reg_tries' = 0
    /\ client_state' = "SERVER_REGISTERING"
    /\ UNCHANGED <<sinceRecv, waited, hb_pending, hb_miss, recovering, server, busy, env, calmFor>>

\* No address, no socket, or the first registration could not be sent.
DnsFails ==
    /\ client_state = "DNS_QUERYING"
    /\ env = "rough"
    /\ OnFail
    /\ UNCHANGED <<hbAge, busy, env, calmFor>>

\* on_server_readable: an acknowledgement or data.
Receive(m) ==
    /\ m \in toClient
    /\ client_state \in {"SERVER_REGISTERING", "RUNNING"}
    /\ toClient' = toClient \ {m}
    /\ sinceRecv' = 0
    /\ hb_pending' = FALSE
    /\ hb_miss' = 0
    /\ client_state' = IF m = "ack" THEN "RUNNING" ELSE client_state
    /\ recovering' = (recovering /\ m # "ack")
    /\ UNCHANGED <<sinceSend, waited, reg_tries, server, toServer, busy, env, calmFor>>

\* on_tick while SERVER_REGISTERING, s seconds after last_send and r after
\* last_recv.
TickRegistering(s, r) ==
    /\ client_state = "SERVER_REGISTERING"
    /\ \/ /\ s < IPM_UDP_REG_RETRY
          /\ sinceSend' = s /\ sinceRecv' = r
          /\ UNCHANGED <<client_state, waited, counts, recovering, net, agent>>
       \/ /\ s >= IPM_UDP_REG_RETRY
          /\ reg_tries + 1 < IPM_UDP_REG_TRIES
          /\ reg_tries' = reg_tries + 1
          /\ SendRegister /\ sinceRecv' = r
          /\ UNCHANGED <<client_state, waited, hb_pending, hb_miss, recovering, agent>>
       \/ /\ s >= IPM_UDP_REG_RETRY
          /\ reg_tries + 1 >= IPM_UDP_REG_TRIES
          /\ OnFail

\* on_tick while RUNNING, a heartbeat being unanswered.
BugTickPendingResets(s, r) ==
    /\ client_state = "RUNNING" /\ hb_pending
    /\ \/ /\ s < IPM_UDP_REG_RETRY
          /\ sinceSend' = s /\ sinceRecv' = r
          /\ UNCHANGED <<client_state, waited, counts, recovering, net, agent>>
       \/ /\ s >= IPM_UDP_REG_RETRY
          /\ SendRegister /\ sinceRecv' = r
          /\ UNCHANGED <<client_state, waited, counts, recovering, agent>>

TickPending(s, r) ==
    /\ client_state = "RUNNING" /\ hb_pending
    /\ \/ /\ s < IPM_UDP_REG_RETRY
          /\ sinceSend' = s /\ sinceRecv' = r
          /\ UNCHANGED <<client_state, waited, counts, recovering, net, agent>>
       \/ /\ s >= IPM_UDP_REG_RETRY
          /\ hb_miss + 1 < IPM_UDP_HEARTBEAT_TRIES
          /\ hb_miss' = hb_miss + 1
          /\ SendRegister /\ sinceRecv' = r
          /\ UNCHANGED <<client_state, waited, reg_tries, hb_pending, recovering, agent>>
       \/ /\ s >= IPM_UDP_REG_RETRY
          /\ hb_miss + 1 >= IPM_UDP_HEARTBEAT_TRIES
          /\ OnFail

\* on_tick while RUNNING, with nothing unanswered: a heartbeat is due when
\* the server has been silent, not when the client has.
TickIdle(s, r) ==
    /\ client_state = "RUNNING" /\ ~hb_pending
    /\ \/ /\ r < IPM_UDP_HEARTBEAT_IDLE
          /\ sinceSend' = s /\ sinceRecv' = r
          /\ UNCHANGED <<client_state, waited, counts, recovering, net, agent>>
       \/ /\ r >= IPM_UDP_HEARTBEAT_IDLE
          /\ hb_pending' = TRUE
          /\ hb_miss' = 0
          /\ SendRegister /\ sinceRecv' = r
          /\ UNCHANGED <<client_state, waited, reg_tries, recovering, agent>>

\* on_tick while WAITING or DNS_QUERYING.
BugTickApartWaitsAnew(s, r, w) ==
    /\ sinceSend' = s /\ sinceRecv' = r
    /\ UNCHANGED <<counts, recovering, net, agent>>
    /\ \/ /\ client_state = "WAITING"
          /\ waited' = 0
          /\ client_state' = IF w >= client_reconn_time THEN "DNS_QUERYING" ELSE "WAITING"
       \/ /\ client_state = "DNS_QUERYING"
          /\ UNCHANGED <<client_state, waited>>

TickApart(s, r, w) ==
    /\ sinceSend' = s /\ sinceRecv' = r
    /\ UNCHANGED <<counts, recovering, net, agent>>
    /\ \/ /\ client_state = "WAITING"
          /\ waited' = w
          /\ client_state' = IF w >= client_reconn_time THEN "DNS_QUERYING" ELSE "WAITING"
       \/ /\ client_state = "DNS_QUERYING"
          /\ UNCHANGED <<client_state, waited>>

\* A second passes, and on_tick is called.  The agent's timer does not wait,
\* and where the surroundings behave, packages and the name service take
\* less than a second.
Tick ==
    LET s == Later(sinceSend, IPM_UDP_REG_RETRY)
        r == Later(sinceRecv, DetectTime)
        w == Later(waited, client_reconn_time)
    IN  /\ agent = "none" \/ hbAge < IPM_UDP_AGENT_TIMEOUT
        /\ env # "rough" => toServer = {} /\ toClient = {} /\ client_state # "DNS_QUERYING"
        /\ TickRegistering(s, r) \/ TickPending(s, r) \/ TickIdle(s, r) \/ TickApart(s, r, w)
        /\ hbAge' = IF agent = "none" THEN 0 ELSE hbAge + 1
        /\ calmFor' = IF env = "calm" THEN Later(calmFor, RecoverTime) ELSE 0
        /\ UNCHANGED <<busy, env>>

(***************************************************************************)
(* The server.                                                             *)
(***************************************************************************)

\* handle_register: the agent is made if there is none, sends to where the
\* package came from, lives for another IPM_UDP_AGENT_TIMEOUT, and the
\* package goes back.
BugHandleRegisterFirstWins(from) ==
    /\ from \in toServer
    /\ toServer' = toServer \ {from}
    /\ agent' = IF agent = "none" THEN from ELSE agent
    /\ hbAge' = 0
    /\ toClient' = IF from = "current" THEN toClient \union {"ack"} ELSE toClient
    /\ UNCHANGED <<client, busy, env, calmFor>>

BugHandleRegisterKeepsTimer(from) ==
    /\ from \in toServer
    /\ toServer' = toServer \ {from}
    /\ agent' = from
    /\ UNCHANGED hbAge
    /\ toClient' = IF from = "current" THEN toClient \union {"ack"} ELSE toClient
    /\ UNCHANGED <<client, busy, env, calmFor>>

HandleRegister(from) ==
    /\ from \in toServer
    /\ toServer' = toServer \ {from}
    /\ agent' = from
    /\ hbAge' = 0
    /\ toClient' = IF from = "current" THEN toClient \union {"ack"} ELSE toClient
    /\ UNCHANGED <<client, busy, env, calmFor>>

\* There is no agent, and none can be made: its port cannot be bound.  The
\* client hears nothing.
AgentFails(from) ==
    /\ env = "rough"
    /\ agent = "none"
    /\ from \in toServer
    /\ toServer' = toServer \ {from}
    /\ UNCHANGED <<client, server, toClient, busy, env, calmFor>>

\* on_readable of the agent, and to_client: a visitor's package goes on.
VisitorData ==
    /\ busy
    /\ agent = "current"
    /\ toClient' = toClient \union {"data"}
    /\ UNCHANGED <<client, server, toServer, busy, env, calmFor>>

\* on_heartbeat_timeout: the agent and its sessions are dropped.
AgentDies ==
    /\ agent # "none"
    /\ hbAge = IPM_UDP_AGENT_TIMEOUT
    /\ agent' = "none"
    /\ hbAge' = 0
    /\ UNCHANGED <<client, net, busy, env, calmFor>>

(***************************************************************************)
(* The surroundings: fine at first, then they may lose packages, then do   *)
(* anything, at last they are calm.  At most one package of each kind and  *)
(* address is under way.                                                   *)
(***************************************************************************)

Weather ==
    /\ \/ env = "fine" /\ env' = "lossy"
       \/ env = "lossy" /\ env' = "rough"
       \/ env = "rough" /\ env' = "calm"
    /\ UNCHANGED <<client, server, net, busy, calmFor>>

Lose ==
    /\ env \in {"lossy", "rough"}
    /\ \/ \E m \in toServer : toServer' = toServer \ {m} /\ UNCHANGED toClient
       \/ \E m \in toClient : toClient' = toClient \ {m} /\ UNCHANGED toServer
    /\ UNCHANGED <<client, server, busy, env, calmFor>>

ServerRestarts ==
    /\ env = "rough"
    /\ agent' = "none"
    /\ hbAge' = 0
    /\ UNCHANGED <<client, net, busy, env, calmFor>>

ClientRestarts ==
    /\ env = "rough"
    /\ Disconnects
    /\ client_state' = "DNS_QUERYING"
    /\ waited' = 0
    /\ recovering' = FALSE
    /\ UNCHANGED <<hbAge, busy, env, calmFor>>

-----------------------------------------------------------------------------

Next ==
    \/ Tick \/ DnsAnswers \/ DnsFails
    \/ \E m \in toClient : Receive(m)
    \/ \E from \in toServer : HandleRegister(from) \/ AgentFails(from)
    \/ VisitorData \/ AgentDies
    \/ Weather \/ Lose \/ ServerRestarts \/ ClientRestarts

Spec == Init /\ [][Next]_vars

\* Time passes, however much happens within a second; packages arrive and
\* the name service answers.  Nothing makes the surroundings rough or calm.
FairSpec ==
    /\ Spec
    /\ SF_vars(Tick) /\ WF_vars(DnsAnswers) /\ WF_vars(AgentDies)
    /\ \A m \in {"ack", "data"} : WF_vars(Receive(m))
    /\ \A from \in {"current", "old"} : WF_vars(HandleRegister(from))

-----------------------------------------------------------------------------

(***************************************************************************)
(* Correctness.                                                            *)
(***************************************************************************)

\* The types of the variables.
TypeOK ==
    /\ client_state \in {"DNS_QUERYING", "SERVER_REGISTERING", "RUNNING", "WAITING"}
    /\ sinceSend \in 0 .. IPM_UDP_REG_RETRY
    /\ sinceRecv \in 0 .. DetectTime
    /\ waited \in 0 .. client_reconn_time
    /\ reg_tries \in 0 .. IPM_UDP_REG_TRIES - 1
    /\ hb_pending \in BOOLEAN
    /\ hb_miss \in 0 .. IPM_UDP_HEARTBEAT_TRIES - 1
    /\ agent \in {"none", "current", "old"}
    /\ hbAge \in 0 .. IPM_UDP_AGENT_TIMEOUT
    /\ toServer \subseteq {"current", "old"}
    /\ toClient \subseteq {"ack", "data"}
    /\ busy \in BOOLEAN
    /\ env \in {"fine", "lossy", "rough", "calm"}
    /\ calmFor \in 0 .. RecoverTime
    /\ recovering \in BOOLEAN

\* A client never believes in a silent server for longer than the idle time
\* and all the heartbeats it tries.
SilenceNoticed == client_state = "RUNNING" => sinceRecv < DetectTime

\* The client is served: its agent is there and sends to where it is.
Served == client_state = "RUNNING" /\ agent = "current"

\* Once the surroundings behave, whatever happened before, a mapping whose
\* visitors are quiet is up again within RecoverTime, and stays.
BackInTime == calmFor = RecoverTime /\ ~busy => Served

\* The server does not give up the agent of a quiet mapping, and with it the
\* sessions, while its client runs, whatever the surroundings do; nor, as long
\* as they only lose packages, while a client whose link broke is recovering:
\* IPM_UDP_AGENT_TIMEOUT outlasts the detection, the wait of -w, the name
\* query and every registration of the attempt after it (ipm_types.h:111-113).
\* An attempt that fails, too, means another wait, and there the promise ends.
AgentOutlivesClient ==
    [][AgentDies /\ ~busy =>
           /\ client_state # "RUNNING"
           /\ env \in {"fine", "lossy"} => ~recovering]_vars

\* As long as nothing is lost, late or restarted, no agent is given up, busy
\* or not: the client has nothing to recover from.
UndisturbedAgentStays == [][AgentDies => env # "fine"]_vars

\* However busy the visitors are, once the surroundings behave the client is
\* served, again and again.
ServedAgain == env = "calm" ~> Served
=============================================================================
