----------------------------- MODULE TcpClient -----------------------------
(***************************************************************************)
(* The TCP client: ipm_client, which keeps a control connection to the     *)
(* server, and its tunnels (ipm_client_tunnel), one for each visitor the   *)
(* server announces on that connection with a penetrate package.  One      *)
(* thread runs everything, so each callback is one action.                 *)
(*                                                                         *)
(* A tunnel is an object that the map mst_tunnel finds by its index; its   *)
(* two connections call it back whether the map knows it or not, and say   *)
(* the index only.  Objects are freed and reused: a Tunnel stands for a    *)
(* pointer.                                                                *)
(***************************************************************************)
EXTENDS Integers, Sequences, Functions

CONSTANTS
    Index,        \* tunnel indices the server may announce (not 0)
    Tunnel,       \* ipm_client_tunnel objects (their addresses)
    Bad,          \* a package whose checksum is wrong or whose index is 0
    MaxArrive,    \* packages that may arrive between two read callbacks
    MaxInput,     \* packages that may be in the input buffer
    NoTunnel, Freed

ASSUME ConstantsAssumption ==
    /\ MaxArrive \in Nat /\ MaxInput \in Nat
    /\ Bad \notin Index /\ NoTunnel \notin Tunnel
    /\ \A r \in [index : Index \union {Bad}, srv : {"connecting", "connected", "ready"},
                 from : {"connecting", "ready"}, relay : BOOLEAN] : r # Freed

VARIABLES
    health,       \* "ok", "fatal" after on_fatal_fail, "stopped" after exit
    state,        \* client_state
    dns,          \* server_evdns_base: "none", "asked", "answered"
    timer,        \* timer_event is pending
    conn,         \* server_bufferevent: "none", "connecting", "up"
    input,        \* packages in its input buffer
    mst,          \* mst_tunnel
    tun           \* what a tunnel object knows, Freed if there is none

linkVars == <<dns, timer, conn, input>>
tunnelVars == <<mst, tun>>
vars == <<health, state, dns, timer, conn, input, mst, tun>>

Init ==
    /\ health = "ok"
    /\ state = "IDLE"
    /\ dns = "none"
    /\ timer = FALSE
    /\ conn = "none"
    /\ input = <<>>
    /\ mst = [i \in Index |-> NoTunnel]
    /\ tun = [t \in Tunnel |-> Freed]

-----------------------------------------------------------------------------

(***************************************************************************)
(* The control connection.                                                 *)
(***************************************************************************)

\* on_fail, but for the state it sets: the name server, the timer and the
\* connection are freed, what is left in its buffer with it; the timer is
\* set.  Tunnels stay.
Disconnects ==
    /\ dns' = "none"
    /\ timer' = TRUE
    /\ conn' = "none"
    /\ input' = <<>>

BugOnFailNoTimer ==
    /\ dns' = "none"
    /\ timer' = FALSE
    /\ conn' = "none"
    /\ input' = <<>>
    /\ state' = "WAITING"

OnFail == Disconnects /\ state' = "WAITING"

\* dns_query_server, from init (the state is IDLE) or from the timer.  It
\* may fail; ask a name server; or, when the address is a literal, call
\* on_evdns_getaddrinfo before it returns.  The state is set afterwards,
\* over whatever that call has set: DNS_QUERYING while the connection is
\* being made, or while the timer runs.
MayQuery ==
    /\ health = "ok"
    /\ state = "IDLE" \/ timer

QueryFails ==
    /\ MayQuery
    /\ OnFail
    /\ UNCHANGED <<health, tunnelVars>>

QueryAsks ==
    /\ MayQuery
    /\ dns' = "asked"
    /\ timer' = FALSE
    /\ state' = "DNS_QUERYING"
    /\ UNCHANGED <<health, conn, input, tunnelVars>>

BugQueryAnsweredAtOnceIsDone ==
    /\ MayQuery
    /\ dns' = "answered"
    /\ timer' = FALSE
    /\ state' = "DNS_QUERYING"
    /\ UNCHANGED <<health, conn, input, tunnelVars>>

QueryAnsweredAtOnce ==
    /\ MayQuery
    /\ dns' = "answered"
    /\ timer' = FALSE
    /\ conn' = "connecting"
    /\ state' = "DNS_QUERYING"
    /\ UNCHANGED <<health, input, tunnelVars>>

QueryFailsAtOnce ==
    /\ MayQuery
    /\ Disconnects
    /\ state' = "DNS_QUERYING"
    /\ UNCHANGED <<health, tunnelVars>>

\* on_evdns_getaddrinfo from the event loop: an address is found and the
\* connect begins, or neither.
AddressFound ==
    /\ health = "ok"
    /\ dns = "asked"
    /\ dns' = "answered"
    /\ conn' = "connecting"
    /\ state' = "SERVER_CONNECTING"
    /\ UNCHANGED <<health, timer, input, tunnelVars>>

NoAddress ==
    /\ health = "ok"
    /\ dns = "asked"
    /\ OnFail
    /\ UNCHANGED <<health, tunnelVars>>

\* BEV_EVENT_CONNECTED: the request to map the address is sent.
Connected ==
    /\ health = "ok"
    /\ conn = "connecting"
    /\ conn' = "up"
    /\ state' = "RUNNING"
    /\ UNCHANGED <<health, dns, timer, input, tunnelVars>>

\* The connect fails or the request cannot be sent; later, the connection
\* fails or ends.
BugConnectionFailsEndsTunnels ==
    /\ health = "ok"
    /\ conn # "none"
    /\ OnFail
    /\ mst' = [i \in Index |-> NoTunnel]
    /\ tun' = [t \in Tunnel |-> Freed]
    /\ UNCHANGED health

ConnectionFails ==
    /\ health = "ok"
    /\ conn # "none"
    /\ OnFail
    /\ UNCHANGED <<health, tunnelVars>>

(***************************************************************************)
(* Tunnels begin and end.                                                  *)
(***************************************************************************)

\* The maps after tunnels have begun (new, from index to object) and others
\* have ended (the tunnels of the indices in ended).  A tunnel whose index
\* begins anew ends first; whoever ends has its connections freed.
Begun(i) == [index |-> i, srv |-> "connecting", from |-> "connecting", relay |-> FALSE]

BugChangeTunnelsKeepsReplaced(new, ended) ==
    /\ mst' = [i \in Index |-> IF i \in DOMAIN new THEN new[i]
                               ELSE IF i \in ended THEN NoTunnel ELSE mst[i]]
    /\ tun' = [t \in Tunnel |->
                  IF \E i \in DOMAIN new : new[i] = t
                  THEN Begun(CHOOSE i \in DOMAIN new : new[i] = t)
                  ELSE IF \E i \in Index \intersect ended : mst[i] = t
                  THEN Freed ELSE tun[t]]

BugChangeTunnelsKeepsEntry(new, ended) ==
    /\ mst' = [i \in Index |-> IF i \in DOMAIN new THEN new[i] ELSE mst[i]]
    /\ tun' = [t \in Tunnel |->
                  IF \E i \in DOMAIN new : new[i] = t
                  THEN Begun(CHOOSE i \in DOMAIN new : new[i] = t)
                  ELSE IF \E i \in Index \intersect (DOMAIN new \union ended) : mst[i] = t
                  THEN Freed ELSE tun[t]]

ChangeTunnels(new, ended) ==
    /\ mst' = [i \in Index |-> IF i \in DOMAIN new THEN new[i]
                               ELSE IF i \in ended THEN NoTunnel ELSE mst[i]]
    /\ tun' = [t \in Tunnel |->
                  IF \E i \in DOMAIN new : new[i] = t
                  THEN Begun(CHOOSE i \in DOMAIN new : new[i] = t)
                  ELSE IF \E i \in Index \intersect (DOMAIN new \union ended) : mst[i] = t
                  THEN Freed ELSE tun[t]]

\* New objects for a set of indices: one each, none in use.
NewTunnels(indices) == Injection(indices, {t \in Tunnel : tun[t] = Freed})

\* on_bufferevent_data_read after the packages s have arrived: p is what
\* the buffer holds.
Arrivals == UNION {[1 .. n -> Index \union {Bad}] : n \in 1 .. MaxArrive}

Acceptable(pkg) == pkg \in Index

AllAcceptable(p) == \A k \in DOMAIN p : Acceptable(p[k])

Reading(s) ==
    /\ health = "ok"
    /\ conn = "up"
    /\ Len(input \o s) <= MaxInput

\* Every package is a penetrate and its tunnel begins.
ReadsAll(s) ==
    LET p == input \o s
    IN  /\ Reading(s)
        /\ state = "RUNNING"
        /\ AllAcceptable(p)
        /\ \E new \in NewTunnels(Range(p)) : ChangeTunnels(new, {})
        /\ input' = <<>>
        /\ UNCHANGED <<health, state, dns, timer, conn>>

\* The connection is not up, in the client's view, or there is a package
\* that is no penetrate: the connection is given up.  The tunnels of the
\* packages before it have begun.
ReadsBad(s) ==
    LET p == input \o s
    IN  /\ Reading(s)
        /\ IF state # "RUNNING"
           THEN UNCHANGED tunnelVars
           ELSE \E n \in 1 .. Len(p) :
                    /\ ~Acceptable(p[n])
                    /\ AllAcceptable(SubSeq(p, 1, n - 1))
                    /\ \E new \in NewTunnels(Range(SubSeq(p, 1, n - 1))) :
                          ChangeTunnels(new, {})
        /\ OnFail
        /\ UNCHANGED health

\* A tunnel does not start.  The one its index had has ended all the same,
\* and the loop with it: the packages behind stay in the buffer.
ReadsUntilStartFails(s) ==
    LET p == input \o s
    IN  /\ Reading(s)
        /\ state = "RUNNING"
        /\ \E n \in 1 .. Len(p) :
              /\ AllAcceptable(SubSeq(p, 1, n))
              /\ \E new \in NewTunnels(Range(SubSeq(p, 1, n - 1)) \ {p[n]}) :
                    ChangeTunnels(new, {p[n]})
              /\ input' = SubSeq(p, n + 1, Len(p))
        /\ UNCHANGED <<health, state, dns, timer, conn>>

Reads(s) == ReadsAll(s) \/ ReadsBad(s) \/ ReadsUntilStartFails(s)

\* on_interface_ipm_tunnel_client_fail: object t says its index only.
OnTunnelFail(t) ==
    IF mst[tun[t].index] = NoTunnel
    THEN health' = "fatal" /\ UNCHANGED tunnelVars
    ELSE ChangeTunnels(<<>>, {tun[t].index}) /\ UNCHANGED health

(***************************************************************************)
(* A tunnel's connections, to the server and to the mapped host ("from").  *)
(* Nothing is read from them until the relay starts.                       *)
(***************************************************************************)

\* start_relay, called by the second end to be ready.  Attaching and
\* starting may fail.
StartRelay(t, ends) ==
    \/ /\ tun' = [tun EXCEPT ![t] = [ends EXCEPT !.relay = ends.srv = "ready" /\ ends.from = "ready"]]
       /\ UNCHANGED <<health, mst>>
    \/ /\ ends.srv = "ready" /\ ends.from = "ready"
       /\ OnTunnelFail(t)

ServerConnected(t) ==
    /\ health = "ok"
    /\ tun[t] # Freed /\ tun[t].srv = "connecting"
    /\ tun' = [tun EXCEPT ![t].srv = "connected"]
    /\ UNCHANGED <<health, state, linkVars, mst>>

\* on_server_bufferevent_data_write_callback: the index has been sent back.
BugPenetrateSentNoStart(t) ==
    /\ health = "ok"
    /\ tun[t] # Freed /\ tun[t].srv = "connected"
    /\ tun' = [tun EXCEPT ![t].srv = "ready"]
    /\ UNCHANGED <<health, state, linkVars, mst>>

PenetrateSent(t) ==
    /\ health = "ok"
    /\ tun[t] # Freed /\ tun[t].srv = "connected"
    /\ StartRelay(t, [tun[t] EXCEPT !.srv = "ready"])
    /\ UNCHANGED <<state, linkVars>>

BugFromConnectedStarts(t) ==
    /\ health = "ok"
    /\ tun[t] # Freed /\ tun[t].from = "connecting"
    /\ tun' = [tun EXCEPT ![t].from = "ready", ![t].relay = TRUE]
    /\ UNCHANGED <<health, state, linkVars, mst>>

FromConnected(t) ==
    /\ health = "ok"
    /\ tun[t] # Freed /\ tun[t].from = "connecting"
    /\ StartRelay(t, [tun[t] EXCEPT !.from = "ready"])
    /\ UNCHANGED <<state, linkVars>>

\* A connection fails before its end is ready.
EndFails(t) ==
    /\ health = "ok"
    /\ tun[t] # Freed
    /\ tun[t].srv # "ready" \/ tun[t].from # "ready"
    /\ OnTunnelFail(t)
    /\ UNCHANGED <<state, linkVars>>

\* on_interface_ipm_relay_close (module Relay says when).
RelayCloses(t) ==
    /\ health = "ok"
    /\ tun[t] # Freed /\ tun[t].relay
    /\ OnTunnelFail(t)
    /\ UNCHANGED <<state, linkVars>>

\* exit and reset, after SIGINT or a fatal failure.
Stop ==
    /\ health # "stopped"
    /\ health' = "stopped"
    /\ state' = "IDLE"
    /\ dns' = "none" /\ timer' = FALSE /\ conn' = "none" /\ input' = <<>>
    /\ mst' = [i \in Index |-> NoTunnel]
    /\ tun' = [t \in Tunnel |-> IF t \in Range(mst) THEN Freed ELSE tun[t]]

-----------------------------------------------------------------------------

Next ==
    \/ QueryFails \/ QueryAsks \/ QueryAnsweredAtOnce \/ QueryFailsAtOnce
    \/ AddressFound \/ NoAddress
    \/ Connected \/ ConnectionFails
    \/ \E s \in Arrivals : ReadsAll(s) \/ ReadsBad(s) \/ ReadsUntilStartFails(s)
    \/ \E t \in Tunnel :
          \/ ServerConnected(t) \/ PenetrateSent(t) \/ FromConnected(t)
          \/ EndFails(t) \/ RelayCloses(t)
    \/ Stop

Spec == Init /\ [][Next]_vars

\* The timer fires and a name server answers; who tries again and again finds
\* the address and reaches the server at last.  A tunnel's connect succeeds or
\* fails, and twelve bytes fit into the buffer of a new connection.
Fairness ==
    /\ SF_vars(QueryAsks \/ QueryAnsweredAtOnce)
    /\ SF_vars(AddressFound)
    /\ SF_vars(Connected)
    /\ \A t \in Tunnel : /\ WF_vars(ServerConnected(t) \/ EndFails(t))
                         /\ WF_vars(PenetrateSent(t))
                         /\ WF_vars(FromConnected(t) \/ EndFails(t))

FairSpec == Spec /\ Fairness

-----------------------------------------------------------------------------

(***************************************************************************)
(* Correctness.                                                            *)
(***************************************************************************)

\* The types of the variables.
TypeOK ==
    /\ health \in {"ok", "fatal", "stopped"}
    /\ state \in {"IDLE", "DNS_QUERYING", "SERVER_CONNECTING", "RUNNING", "WAITING"}
    /\ dns \in {"none", "asked", "answered"}
    /\ timer \in BOOLEAN
    /\ conn \in {"none", "connecting", "up"}
    /\ input \in Seq(Index \union {Bad})
    /\ mst \in [Index -> Tunnel \union {NoTunnel}]
    /\ tun \in [Tunnel -> {Freed} \union
                   [index : Index, srv : {"connecting", "connected", "ready"},
                    from : {"connecting", "ready"}, relay : BOOLEAN]]

\* The branch the code calls fatal, a tunnel that fails and is not in the
\* map ("unknown tunnel index"), is never taken: no visitor ends the client.
NeverFatal == health # "fatal"

\* The map and the tunnels agree: the objects with connections are those in
\* the map, each under its own index.  So no callback runs on a freed tunnel,
\* and none ends the tunnel of another, also when an index is announced twice.
MapFindsTunnels ==
    \A t \in Tunnel, i \in Index : mst[i] = t <=> tun[t] # Freed /\ tun[t].index = i

\* A package is read in state RUNNING, although a literal address makes the
\* state say DNS_QUERYING while the connection is made: the error branch for
\* other states is never taken.
ReadsWhenRunning == conn = "up" <=> state = "RUNNING"

\* Once started, the client is always after exactly one thing: a timer, a
\* name server's answer or a connection; so it never stops trying, and never
\* leaks an earlier attempt.  It knows when it has reached the server.
OneAttempt ==
    /\ health = "ok" /\ state # "IDLE" =>
          /\ timer <=> dns = "none"
          /\ conn # "none" <=> dns = "answered"
          /\ state = "WAITING" => timer
    /\ ReadsWhenRunning

\* The relay runs exactly when the index has been sent back and the mapped
\* host is reached, whichever comes last: not before (it would send data
\* ahead of the index) and not never.
RelayNeedsBothEnds ==
    \A t \in Tunnel :
        tun[t] # Freed => (tun[t].relay <=> tun[t].srv = "ready" /\ tun[t].from = "ready")

\* exit leaves no tunnel with connections behind.
NothingLeft == health = "stopped" => \A t \in Tunnel : tun[t] = Freed

\* A visitor's traffic outlives the control connection: a relaying tunnel
\* ends when its relay closes or its index is announced anew, and never
\* because the client loses the server, asks again or fails to start another.
RelayOutlivesLink ==
    [][\A t \in Tunnel :
          tun[t] # Freed /\ tun[t].relay =>
              \/ tun'[t] = tun[t]
              \/ RelayCloses(t)
              \/ health' = "stopped"
              \/ \E s \in Arrivals : tun[t].index \in Range(input \o s) /\ Reads(s)]_vars

\* Whatever happened to the connection, the client is connected again.
ComesBack == health = "ok" ~> state = "RUNNING" \/ health # "ok"

\* Every tunnel that begins is relaying or gone at last: no order of the
\* connections' events leaves one waiting.
TunnelsSettle ==
    \A t \in Tunnel : tun[t] # Freed ~> tun[t] = Freed \/ tun[t].relay \/ health # "ok"

\* "A start may fail" (ipm_client.cpp:245) at no cost to the other visitors:
\* when the callback returns, no complete package is left unread.
NoPackageLeft == conn = "up" => input = <<>>
=============================================================================
