-------------------------- MODULE TcpClientProofs --------------------------
(***************************************************************************)
(* Proofs about TcpClient.  The map and the tunnels change together in one *)
(* place, ChangeTunnels, so most of the work is the lemma TunnelsChange;   *)
(* the control connection needs that nothing is under way before the       *)
(* client starts (Idle), and that nothing is left to read without one.     *)
(***************************************************************************)
EXTENDS TcpClient, SequenceTheorems, TLAPS

USE ConstantsAssumption

TunnelsOK ==
    /\ mst \in [Index -> Tunnel \union {NoTunnel}]
    /\ tun \in [Tunnel -> {Freed} \union
                   [index : Index, srv : {"connecting", "connected", "ready"},
                    from : {"connecting", "ready"}, relay : BOOLEAN]]
    /\ MapFindsTunnels
    /\ RelayNeedsBothEnds

Idle ==
    /\ state = "IDLE" => dns = "none" /\ ~timer /\ conn = "none"
    /\ health = "stopped" => state = "IDLE"
    /\ conn # "up" => input = <<>>

LinkOK ==
    /\ health \in {"ok", "fatal", "stopped"}
    /\ state \in {"IDLE", "DNS_QUERYING", "SERVER_CONNECTING", "RUNNING", "WAITING"}
    /\ dns \in {"none", "asked", "answered"}
    /\ timer \in BOOLEAN
    /\ conn \in {"none", "connecting", "up"}
    /\ input \in Seq(Index \union {Bad})
    /\ OneAttempt /\ ReadsWhenRunning /\ Idle

Inv == LinkOK /\ TunnelsOK /\ NeverFatal /\ NothingLeft

-----------------------------------------------------------------------------

\* New objects for a set of indices are different, and were free.
Fits(new) ==
    /\ DOMAIN new \subseteq Index
    /\ \A i \in DOMAIN new : new[i] \in Tunnel /\ tun[new[i]] = Freed
    /\ \A i, j \in DOMAIN new : new[i] = new[j] => i = j

LEMMA NewTunnelsFit ==
    ASSUME NEW S, S \subseteq Index, NEW new \in NewTunnels(S)
    PROVE  Fits(new) /\ DOMAIN new = S
BY DEF NewTunnels, Injection, IsInjective, Fits

LEMMA NoneFits == Fits(<<>>) /\ DOMAIN <<>> = {}
BY DEF Fits

\* Whoever begins and ends, map and tunnels agree afterwards, and a tunnel
\* that changes was free, or ended under its own index.
LEMMA TunnelsChange ==
    ASSUME TunnelsOK, NEW new, NEW ended, Fits(new), ChangeTunnels(new, ended)
    PROVE  /\ TunnelsOK'
           /\ \A t \in Tunnel :
                 tun[t] # Freed /\ tun'[t] # tun[t] => tun[t].index \in DOMAIN new \union ended
           /\ \A t \in Tunnel :
                 tun'[t] \in {Freed, tun[t]} \/ tun'[t].index \in DOMAIN new
<1> DEFINE Ends(t) == \E i \in Index \intersect (DOMAIN new \union ended) : mst[i] = t
           Begins(t) == \E i \in DOMAIN new : new[i] = t
<1>1. ASSUME NEW i \in DOMAIN new  PROVE tun'[new[i]] = Begun(i)
  <2>1. (CHOOSE k \in DOMAIN new : new[k] = new[i]) = i
    BY DEF Fits
  <2> QED  BY <2>1 DEF Fits, ChangeTunnels
<1>2. ASSUME NEW t \in Tunnel, ~Begins(t)
      PROVE  tun'[t] = IF Ends(t) THEN Freed ELSE tun[t]
  BY <1>2 DEF ChangeTunnels
<1>3. \A i \in Index : mst'[i] = IF i \in DOMAIN new THEN new[i]
                                 ELSE IF i \in ended THEN NoTunnel ELSE mst[i]
  BY DEF ChangeTunnels
<1>4. ASSUME NEW i \in DOMAIN new
      PROVE  /\ Begun(i) # Freed
             /\ Begun(i) \in [index : Index, srv : {"connecting", "connected", "ready"},
                              from : {"connecting", "ready"}, relay : BOOLEAN]
             /\ Begun(i).index = i
             /\ Begun(i).relay <=> Begun(i).srv = "ready" /\ Begun(i).from = "ready"
  BY DEF Begun, Fits
<1>5. MapFindsTunnels'
  <2> SUFFICES ASSUME NEW t \in Tunnel, NEW i \in Index
               PROVE  mst'[i] = t <=> tun'[t] # Freed /\ tun'[t].index = i
    BY DEF MapFindsTunnels
  <2>1. CASE Begins(t)
    <3>1. PICK j \in DOMAIN new : new[j] = t
      BY <2>1
    <3>2. tun'[t] # Freed /\ tun'[t].index = j
      BY <1>1, <1>4, <3>1
    <3>3. mst[i] # t
      BY <3>1 DEF Fits, TunnelsOK, MapFindsTunnels
    <3> QED  BY <1>3, <3>1, <3>2, <3>3 DEF Fits
  <2>2. CASE ~Begins(t)
    <3>1. mst'[i] = t <=> mst[i] = t /\ i \notin DOMAIN new /\ i \notin ended
      BY <1>3, <2>2
    <3>2. mst[i] = t <=> tun[t] # Freed /\ tun[t].index = i
      BY DEF TunnelsOK, MapFindsTunnels
    <3>3. Ends(t) /\ mst[i] = t => i \in DOMAIN new \union ended
      BY DEF TunnelsOK, MapFindsTunnels
    <3> QED  BY <1>2, <2>2, <3>1, <3>2, <3>3
  <2> QED  BY <2>1, <2>2
<1>6. RelayNeedsBothEnds'
  BY <1>1, <1>2, <1>4 DEF TunnelsOK, RelayNeedsBothEnds
<1>7. mst' \in [Index -> Tunnel \union {NoTunnel}]
  BY DEF ChangeTunnels, TunnelsOK, Fits
<1>8. ASSUME NEW t \in Tunnel
      PROVE  tun'[t] \in {Freed} \union
                 [index : Index, srv : {"connecting", "connected", "ready"},
                  from : {"connecting", "ready"}, relay : BOOLEAN]
  BY <1>1, <1>2, <1>4 DEF TunnelsOK
<1>9. tun' \in [Tunnel -> {Freed} \union
                   [index : Index, srv : {"connecting", "connected", "ready"},
                    from : {"connecting", "ready"}, relay : BOOLEAN]]
  BY <1>8 DEF ChangeTunnels
<1>10. ASSUME NEW t \in Tunnel, tun[t] # Freed, tun'[t] # tun[t]
       PROVE  tun[t].index \in DOMAIN new \union ended
  <2>1. ~Begins(t)
    BY <1>10 DEF Fits
  <2>2. Ends(t)
    BY <1>2, <1>10, <2>1
  <2> QED  BY <2>2 DEF TunnelsOK, MapFindsTunnels
<1>11. ASSUME NEW t \in Tunnel
       PROVE  tun'[t] \in {Freed, tun[t]} \/ tun'[t].index \in DOMAIN new
  BY <1>1, <1>2, <1>4
<1> QED  BY <1>5, <1>6, <1>7, <1>9, <1>10, <1>11 DEF TunnelsOK

\* No tunnel begins, and those that go on keep their indices.
NoneBegins ==
    \A t \in Tunnel : tun'[t] # Freed => tun[t] # Freed /\ tun'[t].index = tun[t].index

\* A tunnel that fails is in the map, so nothing fatal happens, and it is
\* the only one that ends.
LEMMA FailureEndsOne ==
    ASSUME TunnelsOK, NEW t \in Tunnel, tun[t] # Freed, OnTunnelFail(t)
    PROVE  /\ health' = health
           /\ TunnelsOK'
           /\ \A u \in Tunnel : u # t /\ tun[u] # Freed => tun'[u] = tun[u]
           /\ NoneBegins
<1>1. tun[t].index \in Index /\ mst[tun[t].index] = t
  BY DEF TunnelsOK, MapFindsTunnels
<1>2. ChangeTunnels(<<>>, {tun[t].index}) /\ health' = health
  BY <1>1 DEF OnTunnelFail
<1>3. /\ TunnelsOK'
      /\ \A u \in Tunnel : tun[u] # Freed /\ tun'[u] # tun[u] => tun[u].index = tun[t].index
      /\ \A u \in Tunnel : tun'[u] \in {Freed, tun[u]}
  BY <1>2, NoneFits, TunnelsChange
<1>4. ASSUME NEW u \in Tunnel, tun[u] # Freed, tun[u].index = tun[t].index
      PROVE  u = t
  BY <1>1, <1>4 DEF TunnelsOK, MapFindsTunnels
<1>5. NoneBegins
  BY <1>3 DEF NoneBegins
<1> QED  BY <1>2, <1>3, <1>4, <1>5

\* The packages of a buffer.
LEMMA BufferTyped ==
    ASSUME LinkOK, NEW s \in Arrivals
    PROVE  input \o s \in Seq(Index \union {Bad})
<1>1. PICK n \in 1 .. MaxArrive : s \in [1 .. n -> Index \union {Bad}]
  BY DEF Arrivals
<1>2. s \in Seq(Index \union {Bad})
  BY <1>1
<1> QED  BY <1>2 DEF LinkOK

LEMMA AcceptableIndices ==
    ASSUME NEW p, AllAcceptable(p)
    PROVE  Range(p) \subseteq Index
BY DEF AllAcceptable, Acceptable, Range

\* A read changes the tunnels of announced indices only.
LEMMA ReadsChange ==
    ASSUME TunnelsOK, LinkOK, NEW s \in Arrivals, Reads(s)
    PROVE  /\ TunnelsOK'
           /\ health' = health
           /\ \A t \in Tunnel :
                 tun[t] # Freed /\ tun'[t] # tun[t] => tun[t].index \in Range(input \o s)
<1> DEFINE p == input \o s
<1>1. p \in Seq(Index \union {Bad})
  BY BufferTyped
<1>2. ASSUME NEW n \in 1 .. Len(p)
      PROVE  /\ Range(SubSeq(p, 1, n - 1)) \subseteq Range(p)
             /\ p[n] \in Range(p)
  <2> HIDE DEF p
  <2>1. /\ DOMAIN p = 1 .. Len(p)
        /\ DOMAIN SubSeq(p, 1, n - 1) = 1 .. (n - 1)
        /\ \A k \in 1 .. (n - 1) : SubSeq(p, 1, n - 1)[k] = p[k]
        /\ Len(p) \in Nat
    BY <1>1
  <2>2. 1 .. (n - 1) \subseteq 1 .. Len(p)
    BY <2>1
  <2> QED  BY <2>1, <2>2 DEF Range
<1>3. CASE ReadsAll(s)
  <2>1. PICK new \in NewTunnels(Range(p)) : ChangeTunnels(new, {})
    BY <1>3 DEF ReadsAll
  <2>2. Fits(new) /\ DOMAIN new = Range(p)
    BY <1>3, AcceptableIndices, NewTunnelsFit DEF ReadsAll
  <2> QED  BY <1>3, <2>1, <2>2, TunnelsChange DEF ReadsAll
<1>4. CASE ReadsBad(s)
  <2>1. CASE state # "RUNNING"
    BY <1>4, <2>1 DEF ReadsBad, tunnelVars, TunnelsOK, MapFindsTunnels, RelayNeedsBothEnds
  <2>2. CASE state = "RUNNING"
    <3>1. PICK n \in 1 .. Len(p) :
              /\ AllAcceptable(SubSeq(p, 1, n - 1))
              /\ \E new \in NewTunnels(Range(SubSeq(p, 1, n - 1))) : ChangeTunnels(new, {})
      BY <1>4, <2>2 DEF ReadsBad
    <3>2. PICK new \in NewTunnels(Range(SubSeq(p, 1, n - 1))) : ChangeTunnels(new, {})
      BY <3>1
    <3>3. Fits(new) /\ DOMAIN new = Range(SubSeq(p, 1, n - 1))
      BY <3>1, AcceptableIndices, NewTunnelsFit
    <3> QED  BY <1>2, <1>4, <3>2, <3>3, TunnelsChange DEF ReadsBad
  <2> QED  BY <2>1, <2>2
<1>5. CASE ReadsUntilStartFails(s)
  <2>1. PICK n \in 1 .. Len(p) :
            /\ AllAcceptable(SubSeq(p, 1, n))
            /\ \E new \in NewTunnels(Range(SubSeq(p, 1, n - 1)) \ {p[n]}) :
                  ChangeTunnels(new, {p[n]})
    BY <1>5 DEF ReadsUntilStartFails
  <2>2. PICK new \in NewTunnels(Range(SubSeq(p, 1, n - 1)) \ {p[n]}) :
            ChangeTunnels(new, {p[n]})
    BY <2>1
  <2>3. Range(SubSeq(p, 1, n - 1)) \subseteq Index
    <3> HIDE DEF p
    <3>1. ASSUME NEW k \in 1 .. (n - 1)
          PROVE  SubSeq(p, 1, n - 1)[k] = SubSeq(p, 1, n)[k] /\ k \in DOMAIN SubSeq(p, 1, n)
      BY <1>1
    <3>2. DOMAIN SubSeq(p, 1, n - 1) = 1 .. (n - 1)
      BY <1>1
    <3> QED  BY <2>1, <3>1, <3>2 DEF AllAcceptable, Acceptable, Range
  <2>4. Fits(new) /\ DOMAIN new = Range(SubSeq(p, 1, n - 1)) \ {p[n]}
    BY <2>3, NewTunnelsFit
  <2> QED  BY <1>2, <1>5, <2>2, <2>4, TunnelsChange DEF ReadsUntilStartFails
<1> QED  BY <1>3, <1>4, <1>5 DEF Reads

\* A read begins tunnels of the first m packages of the buffer and leaves the
\* packages behind, unless the connection is given up.
BeginsFirst(p, m) ==
    /\ \A t \in Tunnel : tun'[t] \in {Freed, tun[t]} \/ \E k \in 1 .. m : p[k] = tun'[t].index
    /\ conn' = "up" => input' = SubSeq(p, m + 1, Len(p))

LEMMA RangeOfFirst ==
    ASSUME NEW T, NEW p \in Seq(T), NEW n \in 1 .. Len(p)
    PROVE  /\ \A i \in Range(p) : \E k \in 1 .. Len(p) : p[k] = i
           /\ \A i \in Range(SubSeq(p, 1, n - 1)) : \E k \in 1 .. n : p[k] = i
<1>1. /\ DOMAIN p = 1 .. Len(p)
      /\ DOMAIN SubSeq(p, 1, n - 1) = 1 .. (n - 1)
      /\ \A k \in 1 .. (n - 1) : SubSeq(p, 1, n - 1)[k] = p[k]
      /\ 1 .. (n - 1) \subseteq 1 .. n
  OBVIOUS
<1> QED  BY <1>1 DEF Range

LEMMA ReadsBegin ==
    ASSUME TunnelsOK, LinkOK, NEW s \in Arrivals, Reads(s)
    PROVE  \E m \in 0 .. Len(input \o s) : BeginsFirst(input \o s, m)
<1> DEFINE p == input \o s
<1>1. p \in Seq(Index \union {Bad}) /\ Len(p) \in Nat
  BY BufferTyped
<1> HIDE DEF p
<1>2. CASE ReadsAll(s)
  <2>1. PICK new \in NewTunnels(Range(p)) : ChangeTunnels(new, {})
    BY <1>2 DEF ReadsAll, p
  <2>2. Fits(new) /\ DOMAIN new = Range(p)
    BY <1>2, AcceptableIndices, NewTunnelsFit DEF ReadsAll, p
  <2>3. \A t \in Tunnel : tun'[t] \in {Freed, tun[t]} \/ tun'[t].index \in Range(p)
    BY <2>1, <2>2, TunnelsChange
  <2>4. \A i \in Range(p) : \E k \in 1 .. Len(p) : p[k] = i
    BY <1>1 DEF Range
  <2>5. input' = SubSeq(p, Len(p) + 1, Len(p))
    BY <1>1, <1>2 DEF ReadsAll
  <2>6. BeginsFirst(p, Len(p))
    BY <2>3, <2>4, <2>5 DEF BeginsFirst
  <2> QED  BY <1>1, <2>6 DEF p
<1>3. CASE ReadsBad(s)
  <2>1. conn' # "up"
    BY <1>3 DEF ReadsBad, OnFail, Disconnects
  <2>2. CASE state # "RUNNING"
    <3>1. UNCHANGED tun
      BY <1>3, <2>2 DEF ReadsBad, tunnelVars
    <3>2. BeginsFirst(p, 0)
      BY <2>1, <3>1 DEF BeginsFirst
    <3> QED  BY <1>1, <3>2 DEF p
  <2>3. CASE state = "RUNNING"
    <3>1. PICK n \in 1 .. Len(p) :
              /\ AllAcceptable(SubSeq(p, 1, n - 1))
              /\ \E new \in NewTunnels(Range(SubSeq(p, 1, n - 1))) : ChangeTunnels(new, {})
      BY <1>3, <2>3 DEF ReadsBad, p
    <3>2. PICK new \in NewTunnels(Range(SubSeq(p, 1, n - 1))) : ChangeTunnels(new, {})
      BY <3>1
    <3>3. Fits(new) /\ DOMAIN new = Range(SubSeq(p, 1, n - 1))
      BY <3>1, AcceptableIndices, NewTunnelsFit
    <3>4. \A t \in Tunnel : tun'[t] \in {Freed, tun[t]} \/ tun'[t].index \in Range(SubSeq(p, 1, n - 1))
      BY <3>2, <3>3, TunnelsChange
    <3>5. BeginsFirst(p, n)
      BY <1>1, <2>1, <3>4, RangeOfFirst DEF BeginsFirst
    <3> QED  BY <1>1, <3>5 DEF p
  <2> QED  BY <2>2, <2>3
<1>4. CASE ReadsUntilStartFails(s)
  <2>1. PICK n \in 1 .. Len(p) :
            /\ AllAcceptable(SubSeq(p, 1, n))
            /\ \E new \in NewTunnels(Range(SubSeq(p, 1, n - 1)) \ {p[n]}) :
                  ChangeTunnels(new, {p[n]})
            /\ input' = SubSeq(p, n + 1, Len(p))
    BY <1>4 DEF ReadsUntilStartFails, p
  <2>2. PICK new \in NewTunnels(Range(SubSeq(p, 1, n - 1)) \ {p[n]}) :
            ChangeTunnels(new, {p[n]})
    BY <2>1
  <2>3. Range(SubSeq(p, 1, n - 1)) \subseteq Index
    <3>1. ASSUME NEW k \in 1 .. (n - 1)
          PROVE  SubSeq(p, 1, n - 1)[k] = SubSeq(p, 1, n)[k] /\ k \in DOMAIN SubSeq(p, 1, n)
      BY <1>1
    <3>2. DOMAIN SubSeq(p, 1, n - 1) = 1 .. (n - 1)
      BY <1>1
    <3> QED  BY <2>1, <3>1, <3>2 DEF AllAcceptable, Acceptable, Range
  <2>4. Fits(new) /\ DOMAIN new = Range(SubSeq(p, 1, n - 1)) \ {p[n]}
    BY <2>3, NewTunnelsFit
  <2>5. \A t \in Tunnel : tun'[t] \in {Freed, tun[t]} \/ tun'[t].index \in Range(SubSeq(p, 1, n - 1))
    BY <2>2, <2>4, TunnelsChange
  <2>6. BeginsFirst(p, n)
    BY <1>1, <2>1, <2>5, RangeOfFirst DEF BeginsFirst
  <2> QED  BY <1>1, <2>6 DEF p
<1> QED  BY <1>2, <1>3, <1>4 DEF Reads

LEMMA TunnelsUnchanged ==
    ASSUME TunnelsOK, UNCHANGED tunnelVars
    PROVE  TunnelsOK'
BY DEF TunnelsOK, tunnelVars, MapFindsTunnels, RelayNeedsBothEnds

\* A relay starts when its second end is ready.
LEMMA StartChange ==
    ASSUME TunnelsOK, NEW t \in Tunnel, tun[t] # Freed, NEW srv, NEW from,
           srv \in {"connecting", "connected", "ready"}, from \in {"connecting", "ready"},
           NEW ends, ends = [tun[t] EXCEPT !.srv = srv, !.from = from],
           StartRelay(t, ends)
    PROVE  /\ TunnelsOK'
           /\ health' = health
           /\ \A u \in Tunnel : u # t /\ tun[u] # Freed => tun'[u] = tun[u]
           /\ NoneBegins
<1>1. CASE OnTunnelFail(t)
  BY <1>1, FailureEndsOne
<1>2. CASE /\ tun' = [tun EXCEPT ![t] = [ends EXCEPT !.relay = ends.srv = "ready" /\ ends.from = "ready"]]
           /\ UNCHANGED <<health, mst>>
  <2> DEFINE r == [ends EXCEPT !.relay = ends.srv = "ready" /\ ends.from = "ready"]
             T == [index : Index, srv : {"connecting", "connected", "ready"},
                   from : {"connecting", "ready"}, relay : BOOLEAN]
  <2>1. tun[t] \in T
    BY DEF TunnelsOK
  <2>2. ends.srv = srv /\ ends.from = from /\ ends.index = tun[t].index /\ ends \in T
    BY <2>1
  <2>3. /\ r \in T
        /\ r.index = tun[t].index
        /\ r.relay <=> r.srv = "ready" /\ r.from = "ready"
    BY <2>2
  <2>4. r # Freed
    BY <2>3
  <2> HIDE DEF r
  <2>5. \A u \in Tunnel : tun'[u] = IF u = t THEN r ELSE tun[u]
    BY <1>2 DEF TunnelsOK, r
  <2>6. tun' \in [Tunnel -> {Freed} \union T]
    BY <1>2, <2>3 DEF TunnelsOK, r
  <2>7. MapFindsTunnels'
    BY <1>2, <2>3, <2>4, <2>5 DEF TunnelsOK, MapFindsTunnels
  <2>8. RelayNeedsBothEnds'
    BY <2>3, <2>5 DEF TunnelsOK, RelayNeedsBothEnds
  <2>9. NoneBegins
    BY <2>3, <2>5 DEF NoneBegins
  <2> QED  BY <1>2, <2>5, <2>6, <2>7, <2>8, <2>9 DEF TunnelsOK
<1> QED  BY <1>1, <1>2 DEF StartRelay

\* A step of tunnel t, or of its connections, touches no other tunnel.
TunnelStep(t) ==
    ServerConnected(t) \/ PenetrateSent(t) \/ FromConnected(t) \/ EndFails(t) \/ RelayCloses(t)

LEMMA TunnelSteps ==
    ASSUME TunnelsOK, NEW t \in Tunnel, TunnelStep(t)
    PROVE  /\ TunnelsOK'
           /\ UNCHANGED <<health, state, linkVars>>
           /\ \A u \in Tunnel : u # t /\ tun[u] # Freed => tun'[u] = tun[u]
           /\ tun[t] # Freed
           /\ tun[t].relay => RelayCloses(t)
           /\ NoneBegins
<1> DEFINE T == [index : Index, srv : {"connecting", "connected", "ready"},
                 from : {"connecting", "ready"}, relay : BOOLEAN]
<1>1. tun[t] # Freed => tun[t] \in T
  BY DEF TunnelsOK
<1>2. tun[t] # Freed => (tun[t].relay <=> tun[t].srv = "ready" /\ tun[t].from = "ready")
  BY DEF TunnelsOK, RelayNeedsBothEnds
<1>3. CASE ServerConnected(t)
  <2> DEFINE r == [tun[t] EXCEPT !.srv = "connected"]
  <2>1. r \in T /\ r.index = tun[t].index /\ r.srv = "connected" /\ ~r.relay
    BY <1>1, <1>2, <1>3 DEF ServerConnected
  <2>2. r # Freed
    BY <2>1
  <2> HIDE DEF r
  <2>3. \A u \in Tunnel : tun'[u] = IF u = t THEN r ELSE tun[u]
    BY <1>3 DEF ServerConnected, TunnelsOK, r
  <2>4. tun' \in [Tunnel -> {Freed} \union T]
    BY <1>3, <2>1 DEF ServerConnected, TunnelsOK, r
  <2>5. MapFindsTunnels'
    BY <1>3, <2>1, <2>2, <2>3 DEF ServerConnected, TunnelsOK, MapFindsTunnels
  <2>6. RelayNeedsBothEnds'
    BY <2>1, <2>3 DEF TunnelsOK, RelayNeedsBothEnds
  <2>7. NoneBegins
    BY <1>3, <2>1, <2>3 DEF ServerConnected, NoneBegins
  <2> QED  BY <1>2, <1>3, <2>3, <2>4, <2>5, <2>6, <2>7 DEF ServerConnected, TunnelsOK, linkVars
<1>4. CASE PenetrateSent(t)
  <2> DEFINE ends == [tun[t] EXCEPT !.srv = "ready"]
  <2>1. tun[t] \in T /\ ends = [tun[t] EXCEPT !.srv = "ready", !.from = tun[t].from]
    BY <1>1, <1>4 DEF PenetrateSent
  <2>2. tun[t].from \in {"connecting", "ready"}
    BY <2>1
  <2> HIDE DEF ends
  <2>3. StartRelay(t, ends)
    BY <1>4 DEF PenetrateSent, ends
  <2> QED  BY <1>2, <1>4, <2>1, <2>2, <2>3, StartChange DEF PenetrateSent, linkVars
<1>5. CASE FromConnected(t)
  <2> DEFINE ends == [tun[t] EXCEPT !.from = "ready"]
  <2>1. tun[t] \in T /\ ends = [tun[t] EXCEPT !.srv = tun[t].srv, !.from = "ready"]
    BY <1>1, <1>5 DEF FromConnected
  <2>2. tun[t].srv \in {"connecting", "connected", "ready"}
    BY <2>1
  <2> HIDE DEF ends
  <2>3. StartRelay(t, ends)
    BY <1>5 DEF FromConnected, ends
  <2> QED  BY <1>2, <1>5, <2>1, <2>2, <2>3, StartChange DEF FromConnected, linkVars
<1>6. CASE EndFails(t)
  BY <1>2, <1>6, FailureEndsOne DEF EndFails, linkVars
<1>7. CASE RelayCloses(t)
  BY <1>7, FailureEndsOne DEF RelayCloses, linkVars
<1> QED  BY <1>3, <1>4, <1>5, <1>6, <1>7 DEF TunnelStep

\* The steps of the control connection that read nothing.
LinkStep ==
    \/ QueryFails \/ QueryAsks \/ QueryAnsweredAtOnce \/ QueryFailsAtOnce
    \/ AddressFound \/ NoAddress \/ Connected \/ ConnectionFails

LEMMA LinkSteps ==
    ASSUME LinkOK, LinkStep
    PROVE  /\ LinkOK'
           /\ UNCHANGED <<health, tunnelVars>>
           /\ conn' = "up" => input' = input
<1> USE DEF LinkOK, OneAttempt, ReadsWhenRunning, Idle, tunnelVars
<1>1. <<>> \in Seq(Index \union {Bad})
  OBVIOUS
<1>2. CASE QueryFails
  BY <1>1, <1>2 DEF QueryFails, MayQuery, OnFail, Disconnects
<1>3. CASE QueryAsks
  BY <1>3 DEF QueryAsks, MayQuery
<1>4. CASE QueryAnsweredAtOnce
  BY <1>4 DEF QueryAnsweredAtOnce, MayQuery
<1>5. CASE QueryFailsAtOnce
  BY <1>1, <1>5 DEF QueryFailsAtOnce, MayQuery, Disconnects
<1>6. CASE AddressFound
  BY <1>6 DEF AddressFound
<1>7. CASE NoAddress
  BY <1>1, <1>7 DEF NoAddress, OnFail, Disconnects
<1>8. CASE Connected
  BY <1>8 DEF Connected
<1>9. CASE ConnectionFails
  BY <1>1, <1>9 DEF ConnectionFails, OnFail, Disconnects
<1> QED  BY <1>2, <1>3, <1>4, <1>5, <1>6, <1>7, <1>8, <1>9 DEF LinkStep

LEMMA ReadsKeepLink ==
    ASSUME LinkOK, NEW s \in Arrivals, Reads(s), health' = health
    PROVE  LinkOK'
<1> USE DEF LinkOK, OneAttempt, ReadsWhenRunning, Idle
<1> DEFINE p == input \o s
<1>1. <<>> \in Seq(Index \union {Bad}) /\ p \in Seq(Index \union {Bad})
  BY BufferTyped
<1>2. CASE ReadsAll(s)
  BY <1>1, <1>2 DEF ReadsAll
<1>3. CASE ReadsBad(s)
  BY <1>1, <1>3 DEF ReadsBad, Reading, OnFail, Disconnects
<1>4. CASE ReadsUntilStartFails(s)
  <2>1. PICK n \in 1 .. Len(p) : input' = SubSeq(p, n + 1, Len(p))
    BY <1>4 DEF ReadsUntilStartFails
  <2>2. input' \in Seq(Index \union {Bad})
    <3> HIDE DEF p
    <3> QED  BY <1>1, <2>1
  <2>3. state = "RUNNING" /\ UNCHANGED <<state, dns, timer, conn>>
    BY <1>4 DEF ReadsUntilStartFails
  <2> QED  BY <2>2, <2>3
<1> QED  BY <1>2, <1>3, <1>4 DEF Reads

LEMMA StopStep ==
    ASSUME Inv, Stop
    PROVE  Inv'
<1> USE DEF Inv, Stop
<1>1. \A t \in Tunnel : tun'[t] = Freed
  BY DEF TunnelsOK, MapFindsTunnels, Range
<1>2. TunnelsOK'
  BY <1>1 DEF TunnelsOK, MapFindsTunnels, RelayNeedsBothEnds
<1>3. <<>> \in Seq(Index \union {Bad})
  OBVIOUS
<1>4. LinkOK'
  BY <1>3 DEF LinkOK, OneAttempt, ReadsWhenRunning, Idle
<1> QED  BY <1>1, <1>2, <1>4 DEF NeverFatal, NothingLeft

-----------------------------------------------------------------------------

LEMMA Initially == Init => Inv
<1> SUFFICES ASSUME Init PROVE Inv
  OBVIOUS
<1>1. <<>> \in Seq(Index \union {Bad})
  OBVIOUS
<1>2. LinkOK
  BY <1>1 DEF Init, LinkOK, OneAttempt, ReadsWhenRunning, Idle
<1>3. TunnelsOK
  BY DEF Init, TunnelsOK, MapFindsTunnels, RelayNeedsBothEnds
<1> QED  BY <1>2, <1>3 DEF Init, Inv, NeverFatal, NothingLeft

LEMMA NextSteps ==
    ASSUME Next
    PROVE  \/ LinkStep
           \/ \E s \in Arrivals : Reads(s)
           \/ \E t \in Tunnel : TunnelStep(t)
           \/ Stop
BY DEF Next, LinkStep, Reads, TunnelStep

LEMMA Inductive == Inv /\ [Next]_vars => Inv'
<1> SUFFICES ASSUME Inv, [Next]_vars PROVE Inv'
  OBVIOUS
<1>1. CASE LinkStep
  <2>1. health = "ok"
    BY <1>1 DEF LinkStep, QueryFails, QueryAsks, QueryAnsweredAtOnce, QueryFailsAtOnce,
                MayQuery, AddressFound, NoAddress, Connected, ConnectionFails
  <2> QED  BY <1>1, <2>1, LinkSteps, TunnelsUnchanged DEF Inv, NeverFatal, NothingLeft
<1>2. ASSUME NEW s \in Arrivals, Reads(s)  PROVE Inv'
  <2>1. health = "ok"
    BY <1>2 DEF Reads, ReadsAll, ReadsBad, ReadsUntilStartFails, Reading
  <2> QED  BY <1>2, <2>1, ReadsChange, ReadsKeepLink DEF Inv, NeverFatal, NothingLeft
<1>3. ASSUME NEW t \in Tunnel, TunnelStep(t)  PROVE Inv'
  <2>1. health = "ok"
    BY <1>3 DEF TunnelStep, ServerConnected, PenetrateSent, FromConnected, EndFails, RelayCloses
  <2>2. TunnelsOK' /\ UNCHANGED <<health, state, linkVars>>
    BY <1>3, TunnelSteps DEF Inv
  <2> QED
    BY <2>1, <2>2 DEF Inv, LinkOK, OneAttempt, ReadsWhenRunning, Idle, linkVars, NeverFatal, NothingLeft
<1>4. CASE Stop
  BY <1>4, StopStep
<1>5. CASE UNCHANGED vars
  BY <1>5 DEF Inv, LinkOK, OneAttempt, ReadsWhenRunning, Idle, vars, NeverFatal, NothingLeft,
              TunnelsOK, MapFindsTunnels, RelayNeedsBothEnds
<1> QED  BY <1>1, <1>2, <1>3, <1>4, <1>5, NextSteps

\* The inductive invariant.
THEOREM Invariant == Spec => []Inv
BY Initially, Inductive, PTL DEF Spec

\* Every variable keeps its type.
THEOREM TypeCorrect == Spec => []TypeOK
<1>1. Inv => TypeOK
  BY DEF Inv, LinkOK, TunnelsOK, TypeOK
<1> QED  BY <1>1, Invariant, PTL

\* However many visitors come, with whatever indices, no failing tunnel is
\* unknown to the client (the fatal branch of
\* on_interface_ipm_tunnel_client_fail).
THEOREM NoTunnelIsFatal == Spec => []NeverFatal
BY Invariant, PTL DEF Inv

\* mst_tunnel and the tunnels with connections agree, so no callback runs on
\* a freed tunnel or ends the tunnel of another.
THEOREM MapAgrees == Spec => []MapFindsTunnels
<1>1. Inv => MapFindsTunnels
  BY DEF Inv, TunnelsOK
<1> QED  BY <1>1, Invariant, PTL

\* The client is always after exactly one thing.
THEOREM AlwaysTrying == Spec => []OneAttempt
<1>1. Inv => OneAttempt
  BY DEF Inv, LinkOK
<1> QED  BY <1>1, Invariant, PTL

\* Packages are read in state RUNNING only.
THEOREM StateIsRight == Spec => []ReadsWhenRunning
<1>1. Inv => ReadsWhenRunning
  BY DEF Inv, LinkOK
<1> QED  BY <1>1, Invariant, PTL

\* A relay runs exactly when both its ends are ready.
THEOREM RelayStartsOnce == Spec => []RelayNeedsBothEnds
<1>1. Inv => RelayNeedsBothEnds
  BY DEF Inv, TunnelsOK
<1> QED  BY <1>1, Invariant, PTL

\* exit frees every tunnel.
THEOREM ExitFreesAll == Spec => []NothingLeft
BY Invariant, PTL DEF Inv

\* A relaying tunnel ends by its own relay, by exit, or because its index
\* was announced anew; never with the control connection.
THEOREM RelaysOutliveTheLink == Spec => RelayOutlivesLink
<1> DEFINE Kept(t) ==
      \/ tun'[t] = tun[t]
      \/ RelayCloses(t)
      \/ health' = "stopped"
      \/ \E s \in Arrivals : tun[t].index \in Range(input \o s) /\ Reads(s)
    Step == \A t \in Tunnel : tun[t] # Freed /\ tun[t].relay => Kept(t)
<1>1. Inv /\ [Next]_vars => [Step]_vars
  <2> SUFFICES ASSUME Inv, Next, NEW t \in Tunnel, tun[t] # Freed, tun[t].relay
               PROVE  Kept(t)
    OBVIOUS
  <2>1. CASE LinkStep
    BY <2>1, LinkSteps DEF Inv, tunnelVars
  <2>2. ASSUME NEW s \in Arrivals, Reads(s)  PROVE Kept(t)
    BY <2>2, ReadsChange DEF Inv
  <2>3. ASSUME NEW u \in Tunnel, TunnelStep(u)  PROVE Kept(t)
    BY <2>3, TunnelSteps DEF Inv
  <2>4. CASE Stop
    BY <2>4 DEF Stop
  <2> QED  BY <2>1, <2>2, <2>3, <2>4, NextSteps
<1> QED  BY <1>1, Invariant, PTL DEF Spec, RelayOutlivesLink
=============================================================================
