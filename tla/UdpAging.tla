----------------------------- MODULE UdpAging ------------------------------
(***************************************************************************)
(* How one UDP session ages on its two sides.  The server drops it when it *)
(* has passed nothing on for ServerTimeout seconds, the client when it has *)
(* passed nothing on for ClientTimeout + IPM_UDP_CLIENT_LAG: the client's  *)
(* socket to the mapped host should be there as long as the session is, or *)
(* the host sees the same visitor come from another port.                  *)
(*                                                                         *)
(* Each side sets its timer when a package passes, whatever its direction; *)
(* a package is under way for Delay seconds at most.  The control link is  *)
(* UdpLink's subject: here the agent sends to the client's present socket, *)
(* or to a former one for as long as the client takes to register.         *)
(***************************************************************************)
EXTENDS Integers

CONSTANTS
    ServerTimeout,          \* option -T of the server
    ClientTimeout,          \* option -T of the client
    IPM_UDP_CLIENT_LAG,
    Delay,
    Lossy                   \* packages of the visitor may get lost

ASSUME ConstantsAssumption ==
    /\ ServerTimeout \in Nat \ {0} /\ ClientTimeout \in Nat \ {0}
    /\ IPM_UDP_CLIENT_LAG \in Nat
    /\ Delay \in Nat
    /\ Lossy \in BOOLEAN

\* The client's session_tv.
BugClientLifetimeNoLag == ClientTimeout
ClientLifetime == ClientTimeout + IPM_UDP_CLIENT_LAG

VARIABLES
    srv,            \* the server's session: "live" or "gone"
    srvAge,         \* seconds since its timer was set
    cli,            \* the client's: "none" (none yet, or lost with its link), "live", "gone"
    cliAge,         \* seconds since its timer was set
    link,           \* the agent sends to the client's "current" socket or an "old" one
    toClient,       \* ages of the visitor's packages under way
    toServer        \* ages of the host's packages under way

vars == <<srv, srvAge, cli, cliAge, link, toClient, toServer>>

\* The visitor's first package has just made the session.
Init ==
    /\ srv = "live" /\ srvAge = 0
    /\ cli = "none" /\ cliAge = 0
    /\ link = "current"
    /\ toClient = {0} /\ toServer = {}

-----------------------------------------------------------------------------

(***************************************************************************)
(* The server.                                                             *)
(***************************************************************************)

\* on_readable of the agent, for a visitor whose session there is.
VisitorSends ==
    /\ srv = "live"
    /\ srvAge' = 0
    /\ toClient' = IF link = "current" THEN toClient \union {0} ELSE toClient
    /\ UNCHANGED <<srv, cli, cliAge, link, toServer>>

\* handle_data and send_to_peer: a package of a session that has ended is
\* dropped.  A package may come twice.
ServerReceives(m) ==
    /\ m \in toServer
    /\ toServer' \in {toServer, toServer \ {m}}
    /\ srvAge' = IF srv = "live" THEN 0 ELSE srvAge
    /\ UNCHANGED <<srv, cli, cliAge, link, toClient>>

\* on_session_timeout of the agent.
ServerTimesOut ==
    /\ srv = "live" /\ srvAge = ServerTimeout
    /\ srv' = "gone" /\ srvAge' = 0
    /\ UNCHANGED <<cli, cliAge, link, toClient, toServer>>

\* The agent dies or the server restarts.
ServerDrops ==
    /\ srv = "live"
    /\ srv' = "gone" /\ srvAge' = 0
    /\ UNCHANGED <<cli, cliAge, link, toClient, toServer>>

(***************************************************************************)
(* The client.                                                             *)
(***************************************************************************)

\* on_server_readable: the socket to the host is opened if there is none.
BugClientReceivesNoTimer(m) ==
    /\ m \in toClient
    /\ toClient' \in {toClient, toClient \ {m}}
    /\ cli' = "live"
    /\ cliAge' = IF cli = "live" THEN cliAge ELSE 0
    /\ UNCHANGED <<srv, srvAge, link, toServer>>

ClientReceives(m) ==
    /\ m \in toClient
    /\ toClient' \in {toClient, toClient \ {m}}
    /\ cli' = "live" /\ cliAge' = 0
    /\ UNCHANGED <<srv, srvAge, link, toServer>>

\* on_session_readable: the mapped host answers.
HostReplies ==
    /\ cli = "live"
    /\ cliAge' = 0
    /\ toServer' = toServer \union {0}
    /\ UNCHANGED <<srv, srvAge, cli, link, toClient>>

\* on_session_timeout of the client.
ClientTimesOut ==
    /\ cli = "live" /\ cliAge = ClientLifetime
    /\ cli' = "gone" /\ cliAge' = 0
    /\ UNCHANGED <<srv, srvAge, link, toClient, toServer>>

\* on_fail: the client's sessions and its socket to the server are closed.
ClientFails ==
    /\ cli' = "none" /\ cliAge' = 0
    /\ link' = "old"
    /\ toClient' = {}
    /\ UNCHANGED <<srv, srvAge, toServer>>

\* The registration from its new socket reaches the server.
Registered ==
    /\ link = "old"
    /\ link' = "current"
    /\ UNCHANGED <<srv, srvAge, cli, cliAge, toClient, toServer>>

(***************************************************************************)
(* The network and the clock.                                              *)
(***************************************************************************)

\* Packages of the host may always get lost, those of the visitor if Lossy.
Lose ==
    \E c \in SUBSET (IF Lossy THEN toClient ELSE {}), s \in SUBSET toServer :
        /\ toClient' = toClient \ c
        /\ toServer' = toServer \ s
        /\ UNCHANGED <<srv, srvAge, cli, cliAge, link>>

\* A second passes: no timer is overdue, and no package more than Delay old.
Tick ==
    /\ srv = "live" => srvAge < ServerTimeout
    /\ cli = "live" => cliAge < ClientLifetime
    /\ \A m \in toClient \union toServer : m < Delay
    /\ srvAge' = IF srv = "live" THEN srvAge + 1 ELSE srvAge
    /\ cliAge' = IF cli = "live" THEN cliAge + 1 ELSE cliAge
    /\ toClient' = {m + 1 : m \in toClient}
    /\ toServer' = {m + 1 : m \in toServer}
    /\ UNCHANGED <<srv, cli, link>>

-----------------------------------------------------------------------------

Next ==
    \/ VisitorSends \/ ServerTimesOut \/ ServerDrops
    \/ HostReplies \/ ClientTimesOut \/ ClientFails \/ Registered
    \/ \E m \in toClient : ClientReceives(m)
    \/ \E m \in toServer : ServerReceives(m)
    \/ Lose \/ Tick

Spec == Init /\ [][Next]_vars

-----------------------------------------------------------------------------

(***************************************************************************)
(* Correctness.                                                            *)
(***************************************************************************)

\* The types of the variables.
TypeOK ==
    /\ srv \in {"live", "gone"}
    /\ srvAge \in 0 .. ServerTimeout
    /\ cli \in {"none", "live", "gone"}
    /\ cliAge \in 0 .. ClientLifetime
    /\ link \in {"current", "old"}
    /\ toClient \subseteq 0 .. Delay
    /\ toServer \subseteq 0 .. Delay
    /\ srv # "live" => srvAge = 0
    /\ cli # "live" => cliAge = 0

\* "The client's session lives longer than the server's ... it must not end
\* earlier" (ipm_types.h:116): while the server has the session, the client
\* has not timed it out.
ClientOutlives == ~(srv = "live" /\ cli = "gone")

\* What that is for: the mapped host never sees the session come back from
\* another port while client and server stay connected.
SamePort == [][cli = "gone" => cli' # "live"]_vars
=============================================================================
