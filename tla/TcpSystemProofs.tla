-------------------------- MODULE TcpSystemProofs --------------------------
(***************************************************************************)
(* Theorems about TcpSystem.  The server in it is a TcpServer and the      *)
(* client, but for being started again, a TcpClient: what is proved of     *)
(* each of them holds here, and the lemmas of TcpServerProofs (SP) and     *)
(* TcpClientProofs (CP) are used.  What is new is the line of packages     *)
(* between them, in which no index comes twice, and none is that of a      *)
(* tunnel (LineOK), and the connections, whose ends agree (EndsOK).        *)
(***************************************************************************)
EXTENDS TcpSystem, SequenceTheorems, TLAPS

SP == INSTANCE TcpServerProofs WITH EarlyClose <- FALSE

CP == INSTANCE TcpClientProofs WITH
        Index <- 1 .. MaxIndex, Bad <- 0, Freed <- FreedTunnel, health <- clientHealth, timer <- retry

\* The assumptions of TcpServer and of TcpClient hold of the constants here.
LEMMA Assumed ==
    /\ MaxIndex \in Nat \ {0}
    /\ FALSE \in BOOLEAN
    /\ NoBev \notin Bev /\ NoAddr \notin Addr /\ NoVisitor \notin Visitor
    /\ MaxArrive \in Nat /\ MaxInput \in Nat
    /\ 0 \notin 1 .. MaxIndex /\ NoTunnel \notin Tunnel
    /\ \A r \in [index : 1 .. MaxIndex \union {0}, srv : {"connecting", "connected", "ready"},
                 from : {"connecting", "ready"}, relay : BOOLEAN] : r # FreedTunnel
<1>1. 1 .. MaxIndex \union {0} = 0 .. MaxIndex
  BY SystemAssumption
<1> QED BY <1>1, SystemAssumption

-----------------------------------------------------------------------------

(***************************************************************************)
(* The actions of the instances of TcpSystem are those of the lemmas.      *)
(***************************************************************************)

LEMMA ServerActions ==
    /\ S!vars = SP!vars /\ S!Index = SP!Index
    /\ S!Init <=> SP!Init
    /\ S!Restart <=> SP!Restart
    /\ \A b \in Bev :
          /\ S!Accept(b) <=> SP!Accept(b)
          /\ S!Rejected(b) <=> SP!Rejected(b)
          /\ S!AgentFail(b) <=> SP!AgentFail(b)
    /\ \A b \in Bev, a \in Addr :
          /\ S!AllocOk(b, a) <=> SP!AllocOk(b, a)
          /\ S!AllocFails(b, a) <=> SP!AllocFails(b, a)
    /\ \A b \in Bev, i \in S!Index :
          /\ S!JoinRefused(b, i) <=> SP!JoinRefused(b, i)
          /\ S!JoinOk(b, i) <=> SP!JoinOk(b, i)
          /\ S!JoinAttachFails(b, i) <=> SP!JoinAttachFails(b, i)
          /\ S!JoinStartFails(b, i) <=> SP!JoinStartFails(b, i)
    /\ \A a \in Addr, v \in Visitor :
          /\ S!VisitOk(a, v) <=> SP!VisitOk(a, v)
          /\ S!VisitFails(a, v) <=> SP!VisitFails(a, v)
    /\ \A i \in S!Index :
          /\ S!ToWatch(i) <=> SP!ToWatch(i)
          /\ S!JoinTimeout(i) <=> SP!JoinTimeout(i)
          /\ S!RelayCloses(i) <=> SP!RelayCloses(i)
    /\ \A v \in Visitor, how \in {"fin", "rst"} :
          /\ S!VisitorSends(v) <=> SP!VisitorSends(v)
          /\ S!VisitorLeaves(v, how) <=> SP!VisitorLeaves(v, how)
<1> USE DEF S!agentVars, SP!agentVars, S!tunnelVars, SP!tunnelVars, S!visitorVars, SP!visitorVars,
            S!historyVars, SP!historyVars
<1>1. S!vars = SP!vars /\ S!Index = SP!Index
  BY DEF S!vars, SP!vars, S!Index, SP!Index
<1>2. S!Init <=> SP!Init
  BY <1>1 DEF S!Init, SP!Init
<1>3. S!Restart <=> SP!Restart
  BY <1>1 DEF S!Restart, SP!Restart, S!FreesOnce, SP!FreesOnce, S!Joined, SP!Joined
<1>4. ASSUME NEW b \in Bev
      PROVE  /\ S!Accept(b) <=> SP!Accept(b)
             /\ S!Rejected(b) <=> SP!Rejected(b)
             /\ S!AgentFail(b) <=> SP!AgentFail(b)
  BY DEF S!Accept, SP!Accept, S!Rejected, SP!Rejected, S!AgentFail, SP!AgentFail,
         S!CloseAndRemove, SP!CloseAndRemove, S!Unbound, SP!Unbound
<1>5. ASSUME NEW b \in Bev, NEW a \in Addr
      PROVE  /\ S!AllocOk(b, a) <=> SP!AllocOk(b, a)
             /\ S!AllocFails(b, a) <=> SP!AllocFails(b, a)
  BY DEF S!AllocOk, SP!AllocOk, S!CanListen, SP!CanListen, S!AllocFails, SP!AllocFails, S!Evict, SP!Evict,
         S!EvictFatal, SP!EvictFatal, S!Unbound, SP!Unbound, S!Remove, SP!Remove,
         S!CloseAndRemove, SP!CloseAndRemove
<1>6. ASSUME NEW b \in Bev, NEW i \in S!Index
      PROVE  /\ S!JoinRefused(b, i) <=> SP!JoinRefused(b, i)
             /\ S!JoinOk(b, i) <=> SP!JoinOk(b, i)
             /\ S!JoinAttachFails(b, i) <=> SP!JoinAttachFails(b, i)
             /\ S!JoinStartFails(b, i) <=> SP!JoinStartFails(b, i)
  BY DEF S!JoinRefused, SP!JoinRefused, S!JoinOk, SP!JoinOk, S!JoinAttachFails,
         SP!JoinAttachFails, S!JoinStartFails, SP!JoinStartFails, S!Waiting, SP!Waiting,
         S!Live, SP!Live, S!Joined, SP!Joined, S!Remove, SP!Remove,
         S!CloseAndRemove, SP!CloseAndRemove, S!Freed, SP!Freed, S!TunnelEnds, SP!TunnelEnds
<1>7. ASSUME NEW a \in Addr, NEW v \in Visitor
      PROVE  /\ S!VisitOk(a, v) <=> SP!VisitOk(a, v)
             /\ S!VisitFails(a, v) <=> SP!VisitFails(a, v)
  BY DEF S!VisitOk, SP!VisitOk, S!VisitFails, SP!VisitFails, S!Visits, SP!Visits,
         S!NextSeq, SP!NextSeq
<1>8. ASSUME NEW i \in S!Index
      PROVE  /\ S!ToWatch(i) <=> SP!ToWatch(i)
             /\ S!JoinTimeout(i) <=> SP!JoinTimeout(i)
             /\ S!RelayCloses(i) <=> SP!RelayCloses(i)
  BY DEF S!ToWatch, SP!ToWatch, S!JoinTimeout, SP!JoinTimeout, S!RelayCloses, SP!RelayCloses,
         S!Live, SP!Live, S!Joined, SP!Joined, S!Freed, SP!Freed, S!TunnelEnds, SP!TunnelEnds
<1>9. ASSUME NEW v \in Visitor, NEW how
      PROVE  /\ S!VisitorSends(v) <=> SP!VisitorSends(v)
             /\ S!VisitorLeaves(v, how) <=> SP!VisitorLeaves(v, how)
  BY DEF S!VisitorSends, SP!VisitorSends, S!VisitorLeaves, SP!VisitorLeaves
<1> QED BY <1>1, <1>2, <1>3, <1>4, <1>5, <1>6, <1>7, <1>8, <1>9

LEMMA ClientActions ==
    /\ C!vars = CP!vars /\ C!Arrivals = CP!Arrivals
    /\ C!Init <=> CP!Init
    /\ C!Stop <=> CP!Stop
    /\ C!QueryAsks <=> CP!QueryAsks
    /\ C!QueryAnsweredAtOnce <=> CP!QueryAnsweredAtOnce
    /\ C!QueryFails <=> CP!QueryFails
    /\ C!QueryFailsAtOnce <=> CP!QueryFailsAtOnce
    /\ C!NoAddress <=> CP!NoAddress
    /\ C!AddressFound <=> CP!AddressFound
    /\ C!Connected <=> CP!Connected
    /\ C!ConnectionFails <=> CP!ConnectionFails
    /\ \A s : C!Reads(s) <=> CP!Reads(s)
    /\ \A t \in Tunnel :
          /\ C!ServerConnected(t) <=> CP!ServerConnected(t)
          /\ C!PenetrateSent(t) <=> CP!PenetrateSent(t)
          /\ C!FromConnected(t) <=> CP!FromConnected(t)
          /\ C!EndFails(t) <=> CP!EndFails(t)
          /\ C!RelayCloses(t) <=> CP!RelayCloses(t)
<1> USE DEF C!tunnelVars, CP!tunnelVars, C!linkVars, CP!linkVars
<1>1. C!vars = CP!vars /\ C!Arrivals = CP!Arrivals
  BY DEF C!vars, CP!vars, C!Arrivals, CP!Arrivals
<1>2. C!Init <=> CP!Init
  BY DEF C!Init, CP!Init
<1>3. C!Stop <=> CP!Stop
  BY DEF C!Stop, CP!Stop, C!Range, CP!Range
<1>4. /\ C!QueryAsks <=> CP!QueryAsks
      /\ C!QueryAnsweredAtOnce <=> CP!QueryAnsweredAtOnce
      /\ C!QueryFails <=> CP!QueryFails
      /\ C!QueryFailsAtOnce <=> CP!QueryFailsAtOnce
  BY DEF C!QueryAsks, CP!QueryAsks, C!QueryAnsweredAtOnce, CP!QueryAnsweredAtOnce,
         C!QueryFails, CP!QueryFails, C!QueryFailsAtOnce, CP!QueryFailsAtOnce,
         C!MayQuery, CP!MayQuery, C!OnFail, CP!OnFail, C!Disconnects, CP!Disconnects
<1>5. /\ C!NoAddress <=> CP!NoAddress
      /\ C!AddressFound <=> CP!AddressFound
      /\ C!Connected <=> CP!Connected
      /\ C!ConnectionFails <=> CP!ConnectionFails
  BY DEF C!NoAddress, CP!NoAddress, C!AddressFound, CP!AddressFound, C!Connected, CP!Connected,
         C!ConnectionFails, CP!ConnectionFails, C!OnFail, CP!OnFail, C!Disconnects, CP!Disconnects
<1>6. ASSUME NEW s
      PROVE  C!Reads(s) <=> CP!Reads(s)
  BY DEF C!Reads, CP!Reads, C!ReadsAll, CP!ReadsAll, C!ReadsBad, CP!ReadsBad,
         C!ReadsUntilStartFails, CP!ReadsUntilStartFails, C!Reading, CP!Reading,
         C!AllAcceptable, CP!AllAcceptable, C!Acceptable, CP!Acceptable,
         C!NewTunnels, CP!NewTunnels, C!Injection, CP!Injection, C!IsInjective, CP!IsInjective,
         C!Range, CP!Range, C!ChangeTunnels, CP!ChangeTunnels, C!Begun, CP!Begun,
         C!OnFail, CP!OnFail, C!Disconnects, CP!Disconnects
<1>7. ASSUME NEW t \in Tunnel
      PROVE  /\ C!ServerConnected(t) <=> CP!ServerConnected(t)
             /\ C!PenetrateSent(t) <=> CP!PenetrateSent(t)
             /\ C!FromConnected(t) <=> CP!FromConnected(t)
             /\ C!EndFails(t) <=> CP!EndFails(t)
             /\ C!RelayCloses(t) <=> CP!RelayCloses(t)
  BY DEF C!ServerConnected, CP!ServerConnected, C!PenetrateSent, CP!PenetrateSent,
         C!FromConnected, CP!FromConnected, C!EndFails, CP!EndFails, C!RelayCloses, CP!RelayCloses,
         C!StartRelay, CP!StartRelay, C!OnTunnelFail, CP!OnTunnelFail,
         C!ChangeTunnels, CP!ChangeTunnels, C!Begun, CP!Begun
<1> QED BY <1>1, <1>2, <1>3, <1>4, <1>5, <1>6, <1>7

-----------------------------------------------------------------------------

(***************************************************************************)
(* What a step of the system is for the server, for the client and for the *)
(* packages between them.                                                  *)
(***************************************************************************)

LinkAlone ==
    /\ CP!LinkStep
    /\ UNCHANGED serverVars
    /\ penetrates' = IF conn' = "up" THEN penetrates ELSE <<>>

Dials ==
    /\ CP!LinkStep /\ conn # "up"
    /\ SP!Runs /\ told' = told
    /\ penetrates' = <<>>

ServerWorks ==
    /\ SP!Runs /\ told' = told
    /\ UNCHANGED clientVars /\ penetrates' = penetrates

VisitorComes(a, v) ==
    /\ SP!VisitOk(a, v) \/ SP!VisitFails(a, v)
    /\ UNCHANGED clientVars
    /\ \/ penetrates' = penetrates
       \/ <<seq', v>> \in told' /\ penetrates' = Append(penetrates, seq')

Delivers(n) ==
    /\ n <= Len(penetrates)
    /\ CP!Reads(SubSeq(penetrates, 1, n))
    /\ UNCHANGED serverVars
    /\ penetrates' = IF conn' = "up" THEN SubSeq(penetrates, n + 1, Len(penetrates)) ELSE <<>>

TunnelWorks(t) ==
    /\ CP!TunnelStep(t)
    /\ [SP!Runs]_(SP!vars) /\ told' = told
    /\ penetrates' = penetrates \/ (conn' # "up" /\ penetrates' = <<>>)

Stops ==
    /\ CP!Stop
    /\ UNCHANGED serverVars
    /\ penetrates' = <<>>

ServerRestarts ==
    /\ SP!Restart
    /\ UNCHANGED clientVars /\ penetrates' = penetrates

Restarts == Restart /\ UNCHANGED serverVars /\ penetrates' = penetrates

\* What a step is for the client and for the line.
LEMMA NextSteps ==
    ASSUME Next
    PROVE  \/ LinkAlone \/ Dials \/ ServerWorks \/ Restarts
           \/ (ServerRestarts /\ ServerRestart) \/ (Stops /\ Stop)
           \/ \E a \in Addr, v \in Visitor : VisitorComes(a, v)
           \/ \E n \in 1 .. MaxArrive : Delivers(n)
           \/ \E t \in Tunnel : TunnelWorks(t)
<1> USE ServerActions, ClientActions, SystemAssumption
<1>1. CASE Query \/ QueryFails \/ AddressFound \/ ControlBreaks \/ ControlEnds
  BY <1>1 DEF Query, QueryFails, AddressFound, ControlBreaks, ControlEnds, ClientAlone,
              Penetrates, LinkAlone, CP!LinkStep
<1>2. ASSUME NEW b \in Bev, Dial(b)
      PROVE  Dials
  BY <1>2 DEF Dial, Dials, CP!LinkStep, CP!Connected, SP!Runs, SP!Accept, SP!historyVars
<1>3. ASSUME NEW b \in Bev, ServerBreaks(b) \/ ServerNotices(b)
      PROVE  ServerWorks
  BY <1>3 DEF ServerBreaks, ServerNotices, ServerAlone, ServerWorks, SP!Runs, SP!Rejected,
              SP!AgentFail, SP!historyVars
<1>4. ASSUME NEW b \in Bev, MapRequested(b) \/ MapRefused(b)
      PROVE  ServerWorks
  BY <1>4 DEF MapRequested, MapRefused, ServerAlone, ServerWorks, SP!Runs, SP!AllocOk,
              SP!AllocFails, SP!historyVars
<1>5. ASSUME NEW b \in Bev, JoinRequested(b)
      PROVE  ServerWorks
  <2> DEFINE i == request[b]
  <2>1. i \in S!Index /\ UNCHANGED clientVars /\ penetrates' = penetrates
    BY <1>5 DEF JoinRequested
  <2>2. S!JoinRefused(b, i) \/ S!JoinOk(b, i) \/ S!JoinAttachFails(b, i) \/ S!JoinStartFails(b, i)
    BY <1>5 DEF JoinRequested
  <2> HIDE DEF i
  <2>3. SP!JoinRefused(b, i) \/ SP!JoinOk(b, i) \/ SP!JoinAttachFails(b, i) \/ SP!JoinStartFails(b, i)
    BY <2>1, <2>2
  <2>4. told' = told
    BY <2>3 DEF SP!JoinRefused, SP!JoinOk, SP!JoinAttachFails, SP!JoinStartFails, SP!historyVars
  <2> QED BY <2>1, <2>3, <2>4 DEF ServerWorks, SP!Runs
<1>6. ASSUME NEW i \in S!Index, ServerTunnelEnds(i)
      PROVE  ServerWorks
  BY <1>6 DEF ServerTunnelEnds, ServerAlone, ServerWorks, SP!Runs, SP!JoinTimeout,
              SP!RelayCloses, SP!historyVars
<1>7. ASSUME NEW a \in Addr, NEW v \in Visitor, Visit(a, v)
      PROVE  VisitorComes(a, v)
  BY <1>7 DEF Visit, ServerAlone, VisitorComes
<1>8. ASSUME NEW n \in 1 .. MaxArrive, Delivered(n)
      PROVE  Delivers(n)
  BY <1>8 DEF Delivered, Penetrates, Delivers
<1>9. ASSUME NEW t \in Tunnel, NEW b \in Bev, TunnelDials(t, b)
      PROVE  TunnelWorks(t)
  BY <1>9 DEF TunnelDials, TunnelWorks, CP!TunnelStep, SP!Runs, SP!Accept, SP!historyVars
<1>10. ASSUME NEW t \in Tunnel, TunnelReady(t) \/ TunnelBreaks(t) \/ TunnelEnds(t)
       PROVE  TunnelWorks(t)
  <2>1. CP!TunnelStep(t)
    BY <1>10 DEF TunnelReady, TunnelBreaks, TunnelEnds, CP!TunnelStep
  <2>2. /\ UNCHANGED serverVars
        /\ penetrates' = penetrates \/ (conn' # "up" /\ penetrates' = <<>>)
    BY <1>10 DEF TunnelReady, TunnelBreaks, TunnelEnds, ClientAlone, Penetrates
  <2> QED BY <2>1, <2>2 DEF TunnelWorks, serverVars, SP!vars
<1>11. CASE ServerRestart
  BY <1>11 DEF ServerRestart, ServerAlone, ServerRestarts
<1>12. CASE Stop
  BY <1>12 DEF Stop, ClientAlone, Penetrates, Stops, CP!Stop
<1>13. CASE Restart
  BY <1>13 DEF Restart, Restarts, network
<1> QED
  BY <1>1, <1>2, <1>3, <1>4, <1>5, <1>6, <1>7, <1>8, <1>9, <1>10, <1>11, <1>12, <1>13 DEF Next

-----------------------------------------------------------------------------

(***************************************************************************)
(* The packages on their way and in the buffer of the client: each has an  *)
(* index that was told, none comes twice, and no tunnel has it already.    *)
(***************************************************************************)

Known(i, td) == \E p \in td : p[1] = i

Fresh(line, tn, td) ==
    /\ \A k \in 1 .. Len(line) : Known(line[k], td)
    /\ \A j, k \in 1 .. Len(line) : line[j] = line[k] => j = k
    /\ \A t \in Tunnel :
          tn[t] # FreedTunnel =>
              /\ Known(tn[t].index, td)
              /\ \A k \in 1 .. Len(line) : line[k] # tn[t].index

LineOK ==
    /\ input \in Seq(1 .. MaxIndex) /\ penetrates \in Seq(1 .. MaxIndex)
    /\ Fresh(input \o penetrates, tun, told)

SystemInv == SP!IInv /\ CP!Inv /\ LineOK

\* Tunnels that end leave the line as fresh as it was; so does a line lost.
LEMMA FewerTunnels ==
    ASSUME NEW line, NEW tn, NEW un, NEW td, Fresh(line, tn, td),
           \A t \in Tunnel : un[t] # FreedTunnel => tn[t] # FreedTunnel /\ un[t].index = tn[t].index
    PROVE  Fresh(line, un, td) /\ Fresh(<<>>, un, td)
<1>1. Fresh(line, un, td)
  BY DEF Fresh
<1>2. \A k \in 1 .. Len(<<>>) : FALSE
  OBVIOUS
<1> QED BY <1>1, <1>2, Zenon DEF Fresh

\* An index nobody knows is put at the end of the line, or only told.
LEMMA OneMore ==
    ASSUME NEW T, NEW line \in Seq(T), NEW tn, NEW td, NEW x \in T, NEW v, Fresh(line, tn, td),
           ~Known(x, td)
    PROVE  /\ Fresh(Append(line, x), tn, td \union {<<x, v>>})
           /\ Fresh(line, tn, td \union {<<x, v>>})
<1> DEFINE more == Append(line, x)
           ud == td \union {<<x, v>>}
<1>1. /\ Len(line) \in Nat /\ Len(more) = Len(line) + 1
      /\ \A k \in 1 .. Len(more) : \/ k \in 1 .. Len(line) /\ more[k] = line[k]
                                   \/ k = Len(line) + 1 /\ more[k] = x
  OBVIOUS
<1> HIDE DEF more
<1>2. (\A i : Known(i, td) => Known(i, ud)) /\ Known(x, ud)
  <2>1. <<x, v>>[1] = x
    OBVIOUS
  <2> QED BY <2>1 DEF Known
<1> HIDE DEF ud
<1>3. \A k \in 1 .. Len(line) : line[k] # x
  BY DEF Fresh
<1>4. \A k \in 1 .. Len(more) : Known(more[k], ud)
  BY <1>1, <1>2 DEF Fresh
<1>5. \A j, k \in 1 .. Len(more) : more[j] = more[k] => j = k
  <2> SUFFICES ASSUME NEW j \in 1 .. Len(more), NEW k \in 1 .. Len(more), more[j] = more[k]
               PROVE  j = k
    OBVIOUS
  <2>1. CASE j \in 1 .. Len(line) /\ k \in 1 .. Len(line) /\ more[j] = line[j] /\ more[k] = line[k]
    BY <2>1, Zenon DEF Fresh
  <2>2. CASE j = Len(line) + 1 /\ k = Len(line) + 1
    BY <2>2
  <2> QED BY <1>1, <1>3, <2>1, <2>2
<1>6. ASSUME NEW t \in Tunnel, tn[t] # FreedTunnel
      PROVE  /\ Known(tn[t].index, ud)
             /\ \A k \in 1 .. Len(more) : more[k] # tn[t].index
  BY <1>1, <1>2, <1>6 DEF Fresh
<1>7. Fresh(more, tn, ud)
  BY <1>4, <1>5, <1>6 DEF Fresh
<1>8. Fresh(line, tn, ud)
  BY <1>2, <1>6 DEF Fresh
<1> QED BY <1>7, <1>8 DEF more, ud

\* The first m packages are read: their indices are those of new tunnels.
LEMMA FewerPackages ==
    ASSUME NEW T, NEW line \in Seq(T), NEW tn, NEW un, NEW td, NEW m \in 0 .. Len(line),
           Fresh(line, tn, td),
           \A t \in Tunnel : un[t] \in {FreedTunnel, tn[t]} \/ \E k \in 1 .. m : line[k] = un[t].index
    PROVE  Fresh(SubSeq(line, m + 1, Len(line)), un, td)
<1> DEFINE less == SubSeq(line, m + 1, Len(line))
<1>1. /\ Len(less) \in Nat /\ Len(line) \in Nat /\ m \in Nat
      /\ \A k \in 1 .. Len(less) : less[k] = line[m + k] /\ m + k \in 1 .. Len(line)
      /\ \A k \in 1 .. m : k \in 1 .. Len(line)
  OBVIOUS
<1> HIDE DEF less
<1>2. \A k \in 1 .. Len(less) : Known(less[k], td)
  BY <1>1 DEF Fresh
<1>3. \A j, k \in 1 .. Len(less) : less[j] = less[k] => j = k
  <2> SUFFICES ASSUME NEW j \in 1 .. Len(less), NEW k \in 1 .. Len(less), less[j] = less[k]
               PROVE  j = k
    OBVIOUS
  <2>1. line[m + j] = line[m + k] /\ m + j \in 1 .. Len(line) /\ m + k \in 1 .. Len(line)
    BY <1>1
  <2>2. m + j = m + k
    BY <2>1, Zenon DEF Fresh
  <2> QED BY <1>1, <2>2
<1>4. ASSUME NEW t \in Tunnel, un[t] # FreedTunnel
      PROVE  /\ Known(un[t].index, td)
             /\ \A k \in 1 .. Len(less) : less[k] # un[t].index
  <2>1. CASE un[t] = tn[t]
    BY <1>1, <1>4, <2>1 DEF Fresh
  <2>2. CASE \E k \in 1 .. m : line[k] = un[t].index
    <3>1. PICK j \in 1 .. m : line[j] = un[t].index
      BY <2>2
    <3>2. j \in 1 .. Len(line)
      BY <1>1
    <3>3. Known(un[t].index, td)
      BY <3>1, <3>2 DEF Fresh
    <3>4. ASSUME NEW k \in 1 .. Len(less), less[k] = un[t].index
          PROVE  FALSE
      <4>1. line[m + k] = line[j] /\ m + k \in 1 .. Len(line)
        BY <1>1, <3>1, <3>4
      <4>2. m + k = j
        BY <3>2, <4>1, Zenon DEF Fresh
      <4> QED BY <1>1, <4>2
    <3> QED BY <3>3, <3>4
  <2> QED BY <1>4, <2>1, <2>2
<1> QED BY <1>2, <1>3, <1>4 DEF Fresh, less

\* Parts of the line put together, and the front of a line.
Associative(T) == \A x, y, z \in Seq(T) : (x \o y) \o z = x \o (y \o z)

LEMMA PutTogether ==
    ASSUME NEW T
    PROVE  Associative(T)
<1> USE DEF Associative
<1> SUFFICES ASSUME NEW x \in Seq(T), NEW y \in Seq(T), NEW z \in Seq(T)
             PROVE  (x \o y) \o z = x \o (y \o z)
  OBVIOUS
<1> QED BY ConcatAssociative

LEMMA FrontTyped ==
    ASSUME NEW T, NEW U, NEW s \in Seq(T), NEW n \in 1 .. Len(s), T \subseteq U
    PROVE  SubSeq(s, 1, n) \in [1 .. n -> U]
<1>1. /\ DOMAIN SubSeq(s, 1, n) = 1 .. n
      /\ SubSeq(s, 1, n) = [i \in 1 .. n |-> s[i]]
      /\ \A i \in 1 .. n : s[i] \in T
  OBVIOUS
<1>2. \A i \in 1 .. n : s[i] \in U
  BY <1>1
<1> QED BY <1>1, <1>2

\* What is read and what is not make up the line, and what the client leaves
\* of what it reads is still its first part.
Parted(T, a, b, n, m) ==
    LET p == a \o SubSeq(b, 1, n)
        r == SubSeq(b, n + 1, Len(b))
    IN  /\ p \in Seq(T) /\ r \in Seq(T) /\ SubSeq(p, m + 1, Len(p)) \in Seq(T)
        /\ m \in 0 .. Len(a \o b)
        /\ \A k \in 1 .. m : p[k] = (a \o b)[k]
        /\ SubSeq(p, m + 1, Len(p)) \o r = SubSeq(a \o b, m + 1, Len(a \o b))

\* What is left of a sequence behind its first m elements.
LeftBehind(T, q, m) ==
    LET w == SubSeq(q, m + 1, Len(q))
    IN  /\ w \in Seq(T) /\ Len(w) = Len(q) - m
        /\ \A i \in 1 .. Len(w) : w[i] = q[m + i] /\ m + i \in 1 .. Len(q)

LEMMA Behind ==
    ASSUME NEW T, NEW q \in Seq(T), NEW m \in 0 .. Len(q)
    PROVE  LeftBehind(T, q, m)
<1>1. /\ SubSeq(q, m + 1, Len(q)) \in Seq(T)
      /\ Len(SubSeq(q, m + 1, Len(q))) = Len(q) - m
  BY SubSeqProperties
<1>2. ASSUME NEW i \in 1 .. Len(q) - m
      PROVE  SubSeq(q, m + 1, Len(q))[i] = q[m + i] /\ m + i \in 1 .. Len(q)
  OBVIOUS
<1> QED BY <1>1, <1>2 DEF LeftBehind

LEMMA LaterPart ==
    ASSUME NEW T, NEW a \in Seq(T), NEW b \in Seq(T), NEW n \in 1 .. Len(b),
           NEW m \in 0 .. Len(a \o SubSeq(b, 1, n))
    PROVE  Parted(T, a, b, n, m)
<1> DEFINE s == SubSeq(b, 1, n)
           p == a \o s
           r == SubSeq(b, n + 1, Len(b))
           q == a \o b
           u == SubSeq(p, m + 1, Len(p))
           w == SubSeq(q, m + 1, Len(q))
<1>1. s \in Seq(T) /\ r \in Seq(T) /\ Len(s) = n /\ Len(r) = Len(b) - n
  OBVIOUS
<1>2. s \o r = b
  <2>1. SubSeq(b, 1, n) \o SubSeq(b, n + 1, Len(b)) = SubSeq(b, 1, Len(b))
    BY ConcatAdjacentSubSeq
  <2> QED BY <2>1, SubSeqFull
<1> HIDE DEF s, r
<1>3. p \in Seq(T) /\ p \o r = q
  <2>1. a \o s \in Seq(T)
    BY <1>1, ConcatProperties
  <2>2. s \in Seq(T) /\ r \in Seq(T)
    BY <1>1
  <2>3. (a \o s) \o r = a \o (s \o r)
    <3>1. Associative(T)
      BY PutTogether, Zenon
    <3> QED BY <2>2, <3>1, Zenon DEF Associative
  <2> QED BY <1>2, <2>1, <2>3, Zenon
<1>4. m \in 0 .. Len(p)
  BY Zenon DEF s
<1> HIDE DEF p, q
<1>5. Len(q) = Len(p) + Len(r) /\ Len(p) \in Nat /\ Len(r) \in Nat /\ q \in Seq(T)
  <2>1. p \in Seq(T) /\ r \in Seq(T) /\ p \o r = q
    BY <1>1, <1>3
  <2>2. Len(p \o r) = Len(p) + Len(r) /\ p \o r \in Seq(T)
    BY <2>1, ConcatProperties, Zenon
  <2> QED BY <2>1, <2>2
<1>6. \A i \in 1 .. Len(q) : q[i] = IF i <= Len(p) THEN p[i] ELSE r[i - Len(p)]
  BY <1>1, <1>3, <1>5, ConcatProperties
<1>7. /\ u \in Seq(T) /\ Len(u) = Len(p) - m
      /\ \A i \in 1 .. Len(u) : u[i] = p[m + i] /\ m + i \in 1 .. Len(p)
  <2>1. LeftBehind(T, p, m)
    BY <1>3, <1>4, Behind, Zenon
  <2> QED BY <2>1, Zenon DEF LeftBehind, u
<1>8. /\ w \in Seq(T) /\ Len(w) = Len(q) - m
      /\ \A i \in 1 .. Len(w) : w[i] = q[m + i] /\ m + i \in 1 .. Len(q)
  <2>1. q \in Seq(T) /\ m \in 0 .. Len(q)
    BY <1>4, <1>5
  <2>2. LeftBehind(T, q, m)
    BY <2>1, Behind, Zenon
  <2> QED BY <2>2, Zenon DEF LeftBehind, w
<1> HIDE DEF u, w
<1>9. /\ u \o r \in Seq(T) /\ Len(u \o r) = Len(u) + Len(r)
      /\ \A i \in 1 .. Len(u) + Len(r) : (u \o r)[i] = IF i <= Len(u) THEN u[i] ELSE r[i - Len(u)]
  BY <1>1, <1>7, ConcatProperties
<1>10. Len(u \o r) = Len(w)
  BY <1>4, <1>5, <1>7, <1>8, <1>9
<1>11. ASSUME NEW i \in 1 .. Len(w)
       PROVE  (u \o r)[i] = w[i]
  <2>1. i \in 1 .. Len(u) + Len(r) /\ w[i] = q[m + i] /\ m + i \in 1 .. Len(q)
    BY <1>8, <1>9, <1>10
  <2>2. CASE i <= Len(u)
    BY <1>4, <1>5, <1>6, <1>7, <1>9, <2>1, <2>2, SMTT(30)
  <2>3. CASE ~(i <= Len(u))
    <3>1. ~(m + i <= Len(p)) /\ (m + i) - Len(p) = i - Len(u)
      BY <1>4, <1>5, <1>7, <2>1, <2>3
    <3> QED BY <1>6, <1>9, <2>1, <2>3, <3>1
  <2> QED BY <2>2, <2>3
<1>12. u \o r = w
  BY <1>8, <1>9, <1>10, <1>11, SeqEqual
<1>13. m \in 0 .. Len(q) /\ \A k \in 1 .. m : p[k] = q[k]
  BY <1>4, <1>5, <1>6
<1> QED BY <1>1, <1>3, <1>7, <1>12, <1>13 DEF s, p, r, q, u, w, Parted

-----------------------------------------------------------------------------

(***************************************************************************)
(* The invariant.                                                          *)
(***************************************************************************)

LEMMA Initially == Init => SystemInv
<1> SUFFICES ASSUME Init PROVE SystemInv
  OBVIOUS
<1>1. SP!IInv
  BY SP!Initially, Assumed, ServerActions DEF Init
<1>2. CP!Inv
  BY CP!Initially, Assumed, ClientActions DEF Init
<1>3. input = <<>> /\ penetrates = <<>> /\ \A t \in Tunnel : tun[t] = FreedTunnel
  BY DEF Init, C!Init
<1>4. <<>> \o <<>> = <<>> /\ <<>> \in Seq(1 .. MaxIndex) /\ Len(<<>>) = 0
  BY EmptySeq, ConcatEmptySeq
<1>5. LineOK
  BY <1>3, <1>4 DEF LineOK, Fresh
<1> QED BY <1>1, <1>2, <1>5 DEF SystemInv

\* A step of the system is one of the server's.
LEMMA ServerSteps ==
    ASSUME Next
    PROVE  [SP!Next]_(SP!vars)
<1> USE DEF SP!Next, SP!Runs, serverVars, SP!vars
<1>1. CASE LinkAlone \/ Stops \/ Restarts
  BY <1>1 DEF LinkAlone, Stops, Restarts
<1>2. CASE Dials \/ ServerWorks \/ ServerRestarts
  BY <1>2 DEF Dials, ServerWorks, ServerRestarts
<1>3. ASSUME NEW a \in Addr, NEW v \in Visitor, VisitorComes(a, v)
      PROVE  SP!Next
  BY <1>3 DEF VisitorComes
<1>4. ASSUME NEW n \in 1 .. MaxArrive, Delivers(n)
      PROVE  UNCHANGED SP!vars
  BY <1>4 DEF Delivers
<1>5. ASSUME NEW t \in Tunnel, TunnelWorks(t)
      PROVE  [SP!Next]_(SP!vars)
  BY <1>5 DEF TunnelWorks
<1> QED BY <1>1, <1>2, <1>3, <1>4, <1>5, NextSteps

\* What arrives at once.
LEMMA Arriving ==
    ASSUME LineOK, NEW n \in 1 .. MaxArrive, n <= Len(penetrates)
    PROVE  SubSeq(penetrates, 1, n) \in CP!Arrivals /\ n \in 1 .. Len(penetrates)
<1>1. penetrates \in Seq(1 .. MaxIndex) /\ Len(penetrates) \in Nat /\ MaxArrive \in Nat
  BY Assumed DEF LineOK
<1>2. n \in Nat /\ n \in 1 .. Len(penetrates)
  BY <1>1
<1>3. SubSeq(penetrates, 1, n) \in [1 .. n -> 1 .. MaxIndex \union {0}]
  <2> DEFINE T == 1 .. MaxIndex
             U == T \union {0}
  <2>1. T \subseteq U /\ penetrates \in Seq(T) /\ n \in 1 .. Len(penetrates)
    BY <1>1, <1>2
  <2> HIDE DEF T, U
  <2>2. SubSeq(penetrates, 1, n) \in [1 .. n -> U]
    BY <2>1, FrontTyped
  <2> QED BY <2>2 DEF T, U
<1> QED BY <1>2, <1>3 DEF CP!Arrivals

\* A step of the system is one of the client's, or starts it again.
LEMMA ClientSteps ==
    ASSUME LineOK, Next
    PROVE  [CP!Next]_(CP!vars) \/ Restarts
<1> USE DEF CP!Next, clientVars, CP!vars
<1>1. CASE LinkAlone \/ Dials
  BY <1>1 DEF LinkAlone, Dials, CP!LinkStep
<1>2. CASE ServerWorks \/ ServerRestarts
  BY <1>2 DEF ServerWorks, ServerRestarts
<1>3. ASSUME NEW a \in Addr, NEW v \in Visitor, VisitorComes(a, v)
      PROVE  UNCHANGED CP!vars
  BY <1>3 DEF VisitorComes
<1>4. ASSUME NEW n \in 1 .. MaxArrive, Delivers(n)
      PROVE  CP!Next
  <2>1. SubSeq(penetrates, 1, n) \in CP!Arrivals
    BY <1>4, Arriving DEF Delivers
  <2>2. CP!Reads(SubSeq(penetrates, 1, n))
    BY <1>4 DEF Delivers
  <2> QED BY <2>1, <2>2 DEF CP!Reads
<1>5. ASSUME NEW t \in Tunnel, TunnelWorks(t)
      PROVE  CP!Next
  BY <1>5 DEF TunnelWorks, CP!TunnelStep
<1>6. CASE Stops
  BY <1>6 DEF Stops
<1> QED BY <1>1, <1>2, <1>3, <1>4, <1>5, <1>6, NextSteps

-----------------------------------------------------------------------------

(***************************************************************************)
(* The line stays fresh.                                                   *)
(***************************************************************************)

\* When no tunnel begins and nothing is told, the line stays as it is, or is
\* lost with the control connection.
LEMMA LineStays ==
    ASSUME LineOK, told' = told, CP!NoneBegins,
           (input' = input /\ penetrates' = penetrates) \/ (input' = <<>> /\ penetrates' = <<>>)
    PROVE  LineOK'
<1> DEFINE line == input \o penetrates
<1>1. Fresh(line, tun, told)
  BY DEF LineOK
<1>2. \A t \in Tunnel : tun'[t] # FreedTunnel => tun[t] # FreedTunnel /\ tun'[t].index = tun[t].index
  BY DEF CP!NoneBegins
<1> HIDE DEF line
<1>3. Fresh(line, tun', told) /\ Fresh(<<>>, tun', told)
  BY <1>1, <1>2, FewerTunnels
<1>4. CASE input' = input /\ penetrates' = penetrates
  BY <1>3, <1>4 DEF LineOK, line
<1>5. CASE input' = <<>> /\ penetrates' = <<>>
  <2>1. <<>> \o <<>> = <<>> /\ <<>> \in Seq(1 .. MaxIndex)
    BY EmptySeq, ConcatEmptySeq
  <2> QED BY <1>3, <1>5, <2>1 DEF LineOK
<1> QED BY <1>4, <1>5

\* A package for a new visitor.
LEMMA LineGrows ==
    ASSUME LineOK, SP!IInv, NEW a \in Addr, NEW v \in Visitor, VisitorComes(a, v)
    PROVE  LineOK'
<1> DEFINE T == 1 .. MaxIndex
           line == input \o penetrates
<1>1. SP!Visits(a, v)
  BY DEF VisitorComes, SP!VisitOk, SP!VisitFails
<1>2. issues < MaxIndex /\ seq' = SP!NextSeq(seq)
  BY <1>1 DEF SP!Visits
<1>3. SP!TypeOK /\ SP!Issued
  BY DEF SP!IInv, SP!Owners, SP!Tunnels
<1>4. \A p \in told : p[1] # seq'
  BY <1>2, <1>3, SP!FreshIndex, Assumed
<1>5. seq' \in T
  <2>1. seq \in 0 .. MaxIndex
    BY <1>3 DEF SP!TypeOK
  <2> QED BY <1>2, <2>1, SP!NextSeqType, Assumed DEF SP!Index
<1>6. told' \in {told, told \union {<<seq', v>>}} /\ UNCHANGED <<input, tun>>
  BY DEF VisitorComes, SP!VisitOk, SP!VisitFails, clientVars
<1>7. input \in Seq(T) /\ penetrates \in Seq(T) /\ line \in Seq(T) /\ Fresh(line, tun, told)
  BY DEF LineOK
<1>8. ~Known(seq', told)
  BY <1>4 DEF Known
<1> HIDE DEF T, line
<1>9. /\ Fresh(Append(line, seq'), tun, told \union {<<seq', v>>})
      /\ Fresh(line, tun, told \union {<<seq', v>>})
  BY <1>5, <1>7, <1>8, OneMore
<1>10. CASE penetrates' = penetrates
  BY <1>6, <1>7, <1>9, <1>10 DEF LineOK, T, line
<1>11. CASE <<seq', v>> \in told' /\ penetrates' = Append(penetrates, seq')
  <2>1. told' = told \union {<<seq', v>>}
    <3>1. <<seq', v>> \notin told
      BY <1>4
    <3> QED BY <1>6, <1>11, <3>1
  <2>2. input \o Append(penetrates, seq') = Append(line, seq') /\ Append(penetrates, seq') \in Seq(T)
    BY <1>5, <1>7 DEF line
  <2> QED BY <1>6, <1>7, <1>9, <1>11, <2>1, <2>2 DEF LineOK, T
<1> QED BY <1>10, <1>11 DEF VisitorComes

\* Packages are delivered, and some of them are read.
LEMMA LineShrinks ==
    ASSUME LineOK, CP!Inv, NEW n \in 1 .. MaxArrive, Delivers(n)
    PROVE  LineOK'
<1> DEFINE T == 1 .. MaxIndex
           s == SubSeq(penetrates, 1, n)
           p == input \o s
           r == SubSeq(penetrates, n + 1, Len(penetrates))
           q == input \o penetrates
<1>1. /\ n \in 1 .. Len(penetrates)
      /\ s \in CP!Arrivals
      /\ CP!Reads(s)
      /\ UNCHANGED told
      /\ penetrates' = IF conn' = "up" THEN r ELSE <<>>
  BY Arriving DEF Delivers, serverVars
<1>2. input \in Seq(T) /\ penetrates \in Seq(T) /\ Fresh(q, tun, told)
  BY DEF LineOK
<1>3. CP!TunnelsOK /\ CP!LinkOK
  BY DEF CP!Inv
<1> HIDE DEF s
<1>4. PICK m \in 0 .. Len(p) : CP!BeginsFirst(p, m)
  BY <1>1, <1>3, CP!ReadsBegin, Assumed
<1>5. CP!LinkOK'
  BY <1>1, <1>3, CP!ReadsChange, CP!ReadsKeepLink, Assumed
<1> DEFINE u == SubSeq(p, m + 1, Len(p))
           w == SubSeq(q, m + 1, Len(q))
<1>6. /\ r \in Seq(T) /\ u \in Seq(T) /\ u \o r = w
      /\ m \in 0 .. Len(q) /\ q \in Seq(T)
      /\ \A k \in 1 .. m : p[k] = q[k]
  <2>1. m \in 0 .. Len(input \o SubSeq(penetrates, 1, n))
    BY <1>4 DEF s
  <2>2. input \in Seq(T) /\ penetrates \in Seq(T)
    BY <1>2
  <2> HIDE DEF T
  <2>3. q \in Seq(T)
    BY <2>2
  <2>4. Parted(T, input, penetrates, n, m)
    BY <1>1, <2>1, <2>2, LaterPart, Zenon
  <2> QED BY <2>3, <2>4 DEF Parted, s
<1>7. /\ \A t \in Tunnel : \/ tun'[t] \in {FreedTunnel, tun[t]}
                           \/ \E k \in 1 .. m : q[k] = tun'[t].index
      /\ conn' = "up" => input' = u
  BY <1>4, <1>6 DEF CP!BeginsFirst
<1> HIDE DEF T, p, r, q, u
<1>8. Fresh(w, tun', told)
  BY <1>2, <1>6, <1>7, FewerPackages
<1> HIDE DEF w
<1>9. CASE conn' = "up"
  BY <1>1, <1>6, <1>7, <1>8, <1>9 DEF LineOK, T
<1>10. CASE conn' # "up"
  <2>1. input' = <<>>
    BY <1>5, <1>10 DEF CP!LinkOK, CP!Idle
  <2>2. Fresh(<<>>, tun', told)
    BY <1>8, FewerTunnels
  <2>3. <<>> \o <<>> = <<>> /\ <<>> \in Seq(1 .. MaxIndex)
    BY EmptySeq, ConcatEmptySeq
  <2> QED BY <1>1, <1>10, <2>1, <2>2, <2>3 DEF LineOK
<1> QED BY <1>9, <1>10

\* Every step leaves the line fresh: what is read of it leaves it as it is
\* begun, and what enters it was never issued before.
LEMMA LineStaysFresh ==
    ASSUME SystemInv, Next
    PROVE  LineOK'
<1>1. LineOK /\ SP!IInv /\ CP!Inv /\ CP!TunnelsOK /\ CP!LinkOK
  BY DEF SystemInv, CP!Inv
<1>2. CASE LinkAlone \/ Dials
  <2>1. CP!LinkStep /\ told' = told
    BY <1>2 DEF LinkAlone, Dials, serverVars
  <2>2. CP!LinkOK' /\ tun' = tun /\ (conn' = "up" => input' = input)
    BY <1>1, <2>1, CP!LinkSteps, Assumed DEF CP!tunnelVars
  <2>3. CP!NoneBegins
    BY <2>2 DEF CP!NoneBegins
  <2>4. (conn # "up" => input = <<>>) /\ (conn' # "up" => input' = <<>>)
    BY <1>1, <2>2 DEF CP!LinkOK, CP!Idle
  <2>5. (input' = input /\ penetrates' = penetrates) \/ (input' = <<>> /\ penetrates' = <<>>)
    BY <1>2, <2>2, <2>4 DEF LinkAlone, Dials
  <2> QED BY <1>1, <2>1, <2>3, <2>5, LineStays
<1>3. CASE ServerWorks \/ ServerRestarts \/ Restarts
  <2>1. told' = told /\ UNCHANGED <<tun, input, penetrates>>
    BY <1>3 DEF ServerWorks, ServerRestarts, Restarts, Restart, SP!Restart, SP!historyVars,
                serverVars, clientVars
  <2>2. CP!NoneBegins
    BY <2>1 DEF CP!NoneBegins
  <2> QED BY <1>1, <2>1, <2>2, LineStays
<1>4. CASE Stops
  <2>1. told' = told /\ input' = <<>> /\ penetrates' = <<>> /\ CP!NoneBegins
    BY <1>4 DEF Stops, CP!Stop, CP!NoneBegins, serverVars
  <2> QED BY <1>1, <2>1, LineStays
<1>5. ASSUME NEW a \in Addr, NEW v \in Visitor, VisitorComes(a, v)
      PROVE  LineOK'
  BY <1>1, <1>5, LineGrows
<1>6. ASSUME NEW n \in 1 .. MaxArrive, Delivers(n)
      PROVE  LineOK'
  BY <1>1, <1>6, LineShrinks
<1>7. ASSUME NEW t \in Tunnel, TunnelWorks(t)
      PROVE  LineOK'
  <2>1. CP!TunnelStep(t) /\ told' = told
    BY <1>7 DEF TunnelWorks
  <2>2. CP!NoneBegins /\ input' = input /\ conn' = conn
    BY <1>1, <2>1, CP!TunnelSteps, Assumed DEF CP!linkVars
  <2>3. conn # "up" => input = <<>>
    BY <1>1 DEF CP!LinkOK, CP!Idle
  <2>4. (input' = input /\ penetrates' = penetrates) \/ (input' = <<>> /\ penetrates' = <<>>)
    BY <1>7, <2>2, <2>3 DEF TunnelWorks
  <2> QED BY <1>1, <2>1, <2>2, <2>4, LineStays
<1> QED BY <1>2, <1>3, <1>4, <1>5, <1>6, <1>7, NextSteps

\* What is proved of a client with any server holds with this one, and when
\* it is started again.
LEMMA ClientKept ==
    ASSUME SystemInv, Next
    PROVE  CP!Inv'
<1>1. LineOK /\ CP!Inv
  BY DEF SystemInv
<1>2. CASE [CP!Next]_(CP!vars)
  BY <1>1, <1>2, CP!Inductive, Assumed
<1>3. CASE Restarts
  BY <1>1, <1>3 DEF Restarts, Restart, CP!Inv, CP!LinkOK, CP!OneAttempt, CP!ReadsWhenRunning,
      CP!Idle, CP!TunnelsOK, CP!MapFindsTunnels, CP!RelayNeedsBothEnds, CP!NeverFatal, CP!NothingLeft
<1> QED BY <1>1, <1>2, <1>3, ClientSteps

\* The inductive invariant.
THEOREM SystemInvariant == Spec => []SystemInv
<1>1. SystemInv /\ [Next]_vars => SystemInv'
  <2>1. ASSUME SystemInv, Next
        PROVE  SystemInv'
    <3>1. SP!IInv'
      BY <2>1, ServerSteps, SP!Inductive, Assumed DEF SystemInv
    <3> QED BY <2>1, <3>1, ClientKept, LineStaysFresh DEF SystemInv
  <2>2. ASSUME SystemInv, UNCHANGED vars
        PROVE  SystemInv'
    <3>1. UNCHANGED SP!vars /\ UNCHANGED CP!vars
      BY <2>2 DEF vars, serverVars, clientVars, SP!vars, CP!vars
    <3>2. SP!IInv' /\ CP!Inv'
      BY <2>2, <3>1, SP!Inductive, CP!Inductive, Assumed DEF SystemInv
    <3>3. LineOK'
      BY <2>2 DEF SystemInv, LineOK, vars, serverVars, clientVars, network
    <3> QED BY <3>2, <3>3 DEF SystemInv
  <2> QED BY <2>1, <2>2
<1> QED BY <1>1, Initially, PTL DEF Spec

-----------------------------------------------------------------------------

(***************************************************************************)
(* Tunnels that have met.                                                  *)
(***************************************************************************)

\* No package that can be read has the index of a tunnel that is there: what
\* the client reads parts no tunnel of its own.
LEMMA ReadsPartNone ==
    ASSUME LineOK, CP!Inv, NEW n \in 1 .. MaxArrive, Delivers(n),
           NEW t \in Tunnel, tun[t] # FreedTunnel
    PROVE  tun'[t] = tun[t]
<1> DEFINE T == 1 .. MaxIndex
           s == SubSeq(penetrates, 1, n)
           p == input \o s
           q == input \o penetrates
<1>1. n \in 1 .. Len(penetrates) /\ s \in CP!Arrivals /\ CP!Reads(s)
  BY Arriving DEF Delivers
<1>2. input \in Seq(T) /\ penetrates \in Seq(T) /\ Fresh(q, tun, told)
  BY DEF LineOK
<1>3. tun'[t] # tun[t] => tun[t].index \in CP!Range(p)
  <2> HIDE DEF s
  <2> QED BY <1>1, CP!ReadsChange, Assumed DEF CP!Inv
<1>4. p \in Seq(T) /\ Len(p) \in Nat /\ \A k \in 1 .. Len(p) : p[k] = q[k] /\ k \in 1 .. Len(q)
  <2> HIDE DEF T
  <2>1. s \in Seq(T) /\ q \in Seq(T)
    BY <1>1, <1>2
  <2>2. p \in Seq(T) /\ Len(p) \in Nat
    BY <1>2, <2>1
  <2>3. Len(p) \in 0 .. Len(p)
    BY <2>2
  <2>4. Parted(T, input, penetrates, n, Len(p))
    BY <1>1, <1>2, <2>3, LaterPart, Zenon
  <2>5. /\ Len(p) \in 0 .. Len(q)
        /\ \A k \in 1 .. Len(p) : p[k] = q[k]
    BY <2>4 DEF Parted
  <2> QED BY <2>1, <2>2, <2>5
<1> HIDE DEF T, p, q
<1>5. ASSUME tun[t].index \in CP!Range(p)
      PROVE  FALSE
  <2>1. PICK k \in 1 .. Len(p) : p[k] = tun[t].index
    BY <1>4, <1>5 DEF CP!Range
  <2> QED BY <1>2, <1>4, <2>1 DEF Fresh
<1> QED BY <1>3, <1>5

\* What MetUndisturbed says of one tunnel.
Undisturbed(t) ==
    LET i == tun[t].index
    IN  \/ tun'[t] = tun[t] /\ clientOf'[i] = clientOf[i] /\ visitorOf'[i] = visitorOf[i]
        \/ C!RelayCloses(t) \/ S!RelayCloses(i)
        \/ Stop \/ ServerRestart

\* Only relays that close and programs that end disturb two that have met.
LEMMA NothingDisturbs ==
    ASSUME SystemInv, Next, NEW t \in Tunnel, Met(t)
    PROVE  Undisturbed(t)
<1> DEFINE i == tun[t].index
           ServerKeeps == clientOf'[i] = clientOf[i] /\ visitorOf'[i] = visitorOf[i]
<1>1. LineOK /\ SP!IInv /\ CP!Inv /\ CP!TunnelsOK /\ CP!LinkOK
  BY DEF SystemInv, CP!Inv
<1>2. tun[t] # FreedTunnel /\ tun[t].relay /\ clientOf[i] \in Bev
  BY DEF Met
<1>3. i \in S!Index /\ i \in SP!Index
  BY <1>1, <1>2 DEF CP!TunnelsOK, S!Index, SP!Index
<1>4. SP!Live(i) /\ SP!Joined(i)
  BY <1>1, <1>2, <1>3, SystemAssumption DEF SP!IInv, SP!Tunnels, SP!Guarded, SP!Joined
<1>5. (C!RelayCloses(t) <=> CP!RelayCloses(t)) /\ (S!RelayCloses(i) <=> SP!RelayCloses(i))
  BY <1>3, ServerActions, ClientActions
<1> HIDE DEF i
<1>6. [SP!Runs]_(SP!vars) => ServerKeeps \/ SP!RelayCloses(i)
  BY <1>1, <1>3, <1>4, SP!RunsKeepJoined, Assumed
<1>7. UNCHANGED serverVars => ServerKeeps
  BY DEF serverVars
<1>8. UNCHANGED clientVars => tun'[t] = tun[t]
  BY DEF clientVars
<1> HIDE DEF ServerKeeps
<1>9. ASSUME tun'[t] = tun[t] \/ CP!RelayCloses(t), ServerKeeps \/ SP!RelayCloses(i)
      PROVE  Undisturbed(t)
  BY <1>5, <1>9 DEF Undisturbed, ServerKeeps, i
<1>10. CASE LinkAlone \/ Dials
  <2>1. CP!LinkStep /\ (UNCHANGED serverVars \/ SP!Runs)
    BY <1>10 DEF LinkAlone, Dials
  <2>2. tun' = tun
    BY <1>1, <2>1, CP!LinkSteps, Assumed DEF CP!tunnelVars
  <2> QED BY <1>6, <1>7, <1>9, <2>1, <2>2
<1>11. CASE ServerWorks
  BY <1>6, <1>8, <1>9, <1>11 DEF ServerWorks
<1>12. CASE Restarts
  BY <1>7, <1>9, <1>12 DEF Restarts, Restart
<1>13. CASE Stop \/ ServerRestart
  BY <1>13 DEF Undisturbed
<1>14. ASSUME NEW a \in Addr, NEW v \in Visitor, VisitorComes(a, v)
       PROVE  Undisturbed(t)
  BY <1>6, <1>8, <1>9, <1>14 DEF VisitorComes, SP!Runs
<1>15. ASSUME NEW n \in 1 .. MaxArrive, Delivers(n)
       PROVE  Undisturbed(t)
  <2>1. tun'[t] = tun[t]
    BY <1>1, <1>2, <1>15, ReadsPartNone
  <2>2. UNCHANGED serverVars
    BY <1>15 DEF Delivers
  <2> QED BY <1>7, <1>9, <2>1, <2>2
<1>16. ASSUME NEW u \in Tunnel, TunnelWorks(u)
       PROVE  Undisturbed(t)
  <2>1. CP!TunnelStep(u) /\ [SP!Runs]_(SP!vars)
    BY <1>16 DEF TunnelWorks
  <2>2. tun'[t] = tun[t] \/ CP!RelayCloses(t)
    BY <1>1, <1>2, <2>1, CP!TunnelSteps, Assumed
  <2> QED BY <1>6, <1>9, <2>1, <2>2
<1> QED BY <1>10, <1>11, <1>12, <1>13, <1>14, <1>15, <1>16, NextSteps

\* A visitor and its host that have been brought together stay so until one
\* of the two relays closes or one of the programs ends.
THEOREM MetStayMet == Spec => MetUndisturbed
<1>1. SystemInv /\ [Next]_vars => [\A t \in Tunnel : Met(t) => Undisturbed(t)]_vars
  BY NothingDisturbs
<1>2. SystemInv /\ [Next]_vars =>
          [\A t \in Tunnel : Met(t) =>
              LET i == tun[t].index
              IN  \/ tun'[t] = tun[t] /\ clientOf'[i] = clientOf[i] /\ visitorOf'[i] = visitorOf[i]
                  \/ C!RelayCloses(t) \/ S!RelayCloses(i)
                  \/ Stop \/ ServerRestart]_vars
  BY <1>1 DEF Undisturbed
<1> QED BY <1>2, SystemInvariant, PTL DEF Spec, MetUndisturbed

-----------------------------------------------------------------------------

(***************************************************************************)
(* The parts of the system.                                                *)
(***************************************************************************)

\* The server of the system behaves as TcpServer says, whatever its client
\* and the network do: every theorem about TcpServer holds of it.
THEOREM ServerIsATcpServer == Spec => S!Spec
<1>1. Init => S!Init
  BY DEF Init
<1>2. [Next]_vars => [S!Next]_(S!vars)
  <2>1. SP!Next <=> S!Next
    BY ServerActions DEF SP!Next, S!Next
  <2>2. UNCHANGED vars => UNCHANGED S!vars
    BY DEF vars, serverVars, S!vars
  <2>3. UNCHANGED S!vars <=> UNCHANGED SP!vars
    BY DEF S!vars, SP!vars
  <2> QED BY <2>1, <2>2, <2>3, ServerSteps
<1> QED BY <1>1, <1>2, PTL DEF Spec, S!Spec

\* The client of the system behaves as TcpClient says until it is stopped,
\* and again each time that it is started.
THEOREM ClientIsATcpClient == Spec => C!Init /\ [][C!Next \/ Restart]_(C!vars)
<1>1. Init => C!Init
  BY DEF Init
<1>2. SystemInv /\ [Next]_vars => [C!Next \/ Restart]_(C!vars)
  <2>1. CP!Next <=> C!Next
    BY ClientActions DEF CP!Next, C!Next, CP!Reads, C!Reads
  <2>2. UNCHANGED vars => UNCHANGED C!vars
    BY DEF vars, clientVars, C!vars
  <2>3. UNCHANGED C!vars <=> UNCHANGED CP!vars
    BY DEF C!vars, CP!vars
  <2> QED BY <2>1, <2>2, <2>3, ClientSteps DEF SystemInv, Restarts
<1> QED BY <1>1, <1>2, SystemInvariant, PTL DEF Spec

-----------------------------------------------------------------------------

(***************************************************************************)
(* The ends of the connections.                                            *)
(***************************************************************************)

\* The client still has its end of a connection of which the server has the
\* other; what it has sent on it is the request to map, or the index of the
\* tunnel whose end it is; and to this index the server has joined it.
EndsOK ==
    /\ peer \in [Bev -> Tunnel \union {Control, NoPeer}]
    /\ request \in [Bev -> Nat \union {Map, NoRequest}]
    /\ \A b \in Bev : peer[b] # NoPeer => cb[b] # "freed" /\ Holds(peer[b], conn, tun)
    /\ \A b \in Bev : peer[b] = Control => request[b] \in {Map, NoRequest}
    /\ \A b \in Bev : peer[b] \in Tunnel => request[b] \in {tun[peer[b]].index, NoRequest}
    /\ \A b \in Bev, i \in SP!Index :
          clientOf[i] = b /\ peer[b] # NoPeer => peer[b] \in Tunnel /\ tun[peer[b]].index = i

\* A tunnel of the client never changes its index.
IndexKept ==
    \A t \in Tunnel :
        tun[t] # FreedTunnel /\ tun'[t] # FreedTunnel => tun'[t].index = tun[t].index

LEMMA IndicesStay ==
    ASSUME SystemInv, Next
    PROVE  IndexKept
<1> USE DEF IndexKept
<1>1. LineOK /\ CP!Inv /\ CP!TunnelsOK /\ CP!LinkOK
  BY DEF SystemInv, CP!Inv
<1>2. CASE LinkAlone \/ Dials
  <2>1. tun' = tun
    BY <1>1, <1>2, CP!LinkSteps, Assumed DEF LinkAlone, Dials, CP!tunnelVars
  <2> QED BY <2>1
<1>3. CASE ServerWorks \/ ServerRestarts \/ Restarts
  BY <1>3 DEF ServerWorks, ServerRestarts, Restarts, Restart, clientVars
<1>4. CASE Stops
  BY <1>4 DEF Stops, CP!Stop
<1>5. ASSUME NEW a \in Addr, NEW v \in Visitor, VisitorComes(a, v)
      PROVE  IndexKept
  BY <1>5 DEF VisitorComes, clientVars
<1>6. ASSUME NEW n \in 1 .. MaxArrive, Delivers(n)
      PROVE  IndexKept
  <2>1. \A t \in Tunnel : tun[t] # FreedTunnel => tun'[t] = tun[t]
    BY <1>1, <1>6, ReadsPartNone
  <2> QED BY <2>1
<1>7. ASSUME NEW u \in Tunnel, TunnelWorks(u)
      PROVE  IndexKept
  <2>1. CP!NoneBegins
    BY <1>1, <1>7, CP!TunnelSteps, Assumed DEF TunnelWorks
  <2> QED BY <2>1 DEF CP!NoneBegins
<1> QED BY <1>2, <1>3, <1>4, <1>5, <1>6, <1>7, NextSteps

\* A step on the connections there are: nothing is sent first on them, and
\* the server joins a connection to the index that was sent on it.
OldConnections ==
    /\ Connections(peer)
    /\ request' \in [Bev -> Nat \union {Map, NoRequest}]
    /\ \A b \in Bev : request'[b] \in {request[b], NoRequest}
    /\ \A b \in Bev, i \in SP!Index : clientOf'[i] = b => clientOf[i] = b \/ request[b] = i

\* A connection is made from end e of the client, with request q.
NewConnection(b, e, q) ==
    /\ cb[b] = "freed" /\ clientOf' = clientOf
    /\ Connections([peer EXCEPT ![b] = e])
    /\ Requests([request EXCEPT ![b] = q])
    /\ \/ e = Control /\ q = Map
       \/ e \in Tunnel /\ tun[e] # FreedTunnel /\ q = tun[e].index

\* Requests are read, or lost with their connections; none is changed.
LEMMA OldRequests ==
    ASSUME EndsOK, NEW b \in Bev,
           Requests(request) \/ Requests([request EXCEPT ![b] = NoRequest])
    PROVE  /\ request' \in [Bev -> Nat \union {Map, NoRequest}]
           /\ \A c \in Bev : request'[c] \in {request[c], NoRequest}
BY DEF EndsOK, Requests

\* What a step is for the connections.
LEMMA NextConnections ==
    ASSUME SystemInv, EndsOK, Next
    PROVE  \/ OldConnections \/ Restarts
           \/ \E b \in Bev : \E e, q : NewConnection(b, e, q)
<1> USE DEF OldConnections
<1>1. Requests(request) => /\ request' \in [Bev -> Nat \union {Map, NoRequest}]
                           /\ \A b \in Bev : request'[b] \in {request[b], NoRequest}
  BY DEF EndsOK, Requests
<1>2. SP!TypeOK
  BY DEF SystemInv, SP!IInv, SP!Owners
<1>3. ASSUME ClientAlone
      PROVE  OldConnections
  BY <1>1, <1>3 DEF ClientAlone, serverVars
<1>4. CASE Query \/ QueryFails \/ AddressFound \/ ControlBreaks \/ ControlEnds \/ Stop
  BY <1>3, <1>4 DEF Query, QueryFails, AddressFound, ControlBreaks, ControlEnds, Stop
<1>5. ASSUME NEW t \in Tunnel, TunnelReady(t) \/ TunnelBreaks(t) \/ TunnelEnds(t)
      PROVE  OldConnections
  BY <1>3, <1>5 DEF TunnelReady, TunnelBreaks, TunnelEnds
<1>6. ASSUME ServerAlone, UNCHANGED clientOf
      PROVE  OldConnections
  BY <1>1, <1>6 DEF ServerAlone
<1>7. ASSUME NEW b \in Bev, ServerBreaks(b) \/ ServerNotices(b) \/ MapRefused(b)
      PROVE  OldConnections
  <2>1. ServerAlone
    BY <1>7 DEF ServerBreaks, ServerNotices, MapRefused
  <2>2. UNCHANGED clientOf
    BY <1>7 DEF ServerBreaks, ServerNotices, MapRefused, S!Rejected, S!AgentFail, S!AllocFails,
                S!tunnelVars
  <2> QED BY <1>6, <2>1, <2>2
<1>8. ASSUME NEW b \in Bev, MapRequested(b)
      PROVE  OldConnections
  <2>1. UNCHANGED clientOf
    BY <1>8 DEF MapRequested, S!AllocOk, S!tunnelVars
  <2>2. Connections(peer) /\ Requests([request EXCEPT ![b] = NoRequest])
    BY <1>8 DEF MapRequested
  <2> QED BY <2>1, <2>2, OldRequests
<1>9. ASSUME NEW b \in Bev, JoinRequested(b)
      PROVE  OldConnections
  <2> DEFINE i == request[b]
  <2>1. i \in SP!Index /\ Connections(peer) /\ Requests([request EXCEPT ![b] = NoRequest])
    BY <1>9, ServerActions DEF JoinRequested
  <2>2. S!JoinRefused(b, i) \/ S!JoinOk(b, i) \/ S!JoinAttachFails(b, i) \/ S!JoinStartFails(b, i)
    BY <1>9 DEF JoinRequested
  <2> HIDE DEF i
  <2>3. \/ clientOf' = clientOf
        \/ clientOf' = [clientOf EXCEPT ![i] = b]
        \/ clientOf' = [clientOf EXCEPT ![i] = NoBev]
    BY <2>2 DEF S!JoinRefused, S!JoinOk, S!JoinAttachFails, S!JoinStartFails, S!TunnelEnds,
                S!tunnelVars
  <2>4. \A c \in Bev, j \in SP!Index : clientOf'[j] = c => clientOf[j] = c \/ (c = b /\ j = i)
    BY <1>2, <2>1, <2>3, SystemAssumption DEF SP!TypeOK
  <2>5. \A c \in Bev, j \in SP!Index : clientOf'[j] = c => clientOf[j] = c \/ request[c] = j
    BY <2>4 DEF i
  <2> QED BY <2>1, <2>5, OldRequests
<1>10. ASSUME NEW i \in S!Index, ServerTunnelEnds(i)
       PROVE  OldConnections
  <2>1. clientOf' = [clientOf EXCEPT ![i] = NoBev] /\ ServerAlone
    BY <1>10 DEF ServerTunnelEnds, S!JoinTimeout, S!RelayCloses, S!TunnelEnds
  <2>2. \A c \in Bev, j \in SP!Index : clientOf'[j] = c => clientOf[j] = c
    BY <1>2, <2>1, SystemAssumption DEF SP!TypeOK
  <2> QED BY <1>1, <2>1, <2>2 DEF ServerAlone
<1>11. ASSUME NEW a \in Addr, NEW v \in Visitor, Visit(a, v)
       PROVE  OldConnections
  <2>1. UNCHANGED clientOf /\ ServerAlone
    BY <1>11 DEF Visit, S!VisitOk, S!VisitFails, S!Visits
  <2> QED BY <1>6, <2>1
<1>12. ASSUME NEW n \in 1 .. MaxArrive, Delivered(n)
       PROVE  OldConnections
  BY <1>1, <1>12 DEF Delivered, serverVars
<1>13. CASE ServerRestart
  <2>1. ServerAlone /\ clientOf' = [i \in SP!Index |-> NoBev]
    BY <1>13, ServerActions DEF ServerRestart, S!Restart
  <2>2. \A c \in Bev, j \in SP!Index : clientOf'[j] = c => clientOf[j] = c
    BY <2>1, SystemAssumption
  <2> QED BY <1>1, <2>1, <2>2 DEF ServerAlone
<1>14. CASE Restart
  BY <1>14 DEF Restart, Restarts, network
<1>15. ASSUME NEW b \in Bev, Dial(b)
       PROVE  NewConnection(b, Control, Map)
  BY <1>15 DEF Dial, NewConnection, S!Accept, S!tunnelVars
<1>16. ASSUME NEW b \in Bev, NEW t \in Tunnel, TunnelDials(t, b)
       PROVE  NewConnection(b, t, tun[t].index)
  BY <1>16 DEF TunnelDials, NewConnection, S!Accept, S!tunnelVars, C!ServerConnected
<1> QED
  BY <1>4, <1>5, <1>7, <1>8, <1>9, <1>10, <1>11, <1>12, <1>13, <1>14, <1>15, <1>16 DEF Next

\* A connection given up is known to nobody at the client; a tunnel that ends
\* takes its end along, and a new one comes with a connection the server does
\* not know yet.
LEMMA EndsKept ==
    ASSUME SystemInv, EndsOK, Next
    PROVE  EndsOK'
<1> DEFINE PeerOK(b) ==
      /\ peer[b] \in Tunnel \union {Control, NoPeer}
      /\ peer[b] # NoPeer => cb[b] # "freed" /\ Holds(peer[b], conn, tun)
      /\ peer[b] = Control => request[b] \in {Map, NoRequest}
      /\ peer[b] \in Tunnel => request[b] \in {tun[peer[b]].index, NoRequest}
      /\ \A i \in SP!Index :
            clientOf[i] = b /\ peer[b] # NoPeer => peer[b] \in Tunnel /\ tun[peer[b]].index = i
<1>1. \A b \in Bev : PeerOK(b)
  BY DEF EndsOK
<1>2. IndexKept
  BY IndicesStay
<1>3. Control \notin Tunnel /\ NoPeer \notin Tunnel /\ NoPeer # Control /\ Map \notin Nat
      /\ NoRequest \notin Nat /\ NoRequest # Map
  BY SystemAssumption
<1>4. \A i \in SP!Index : i \in Nat
  BY DEF SP!Index
<1>5. ASSUME NEW e, Holds(e, conn, tun), e \in Tunnel
      PROVE  tun[e] # FreedTunnel
  BY <1>3, <1>5 DEF Holds
<1>6. ASSUME NEW p \in [Bev -> Tunnel \union {Control, NoPeer}], Connections(p)
      PROVE  /\ peer' \in [Bev -> Tunnel \union {Control, NoPeer}]
             /\ \A b \in Bev :
                   peer'[b] # NoPeer =>
                       peer'[b] = p[b] /\ cb'[b] # "freed" /\ Holds(peer'[b], conn', tun')
  BY <1>6 DEF Connections
<1>7. ASSUME NEW e, Holds(e, conn', tun'), e \in Tunnel
      PROVE  tun'[e] # FreedTunnel
  BY <1>3, <1>7 DEF Holds
<1>8. CASE OldConnections
  <2>1. /\ peer' \in [Bev -> Tunnel \union {Control, NoPeer}]
        /\ \A b \in Bev :
              peer'[b] # NoPeer =>
                  peer'[b] = peer[b] /\ cb'[b] # "freed" /\ Holds(peer'[b], conn', tun')
    BY <1>6, <1>8 DEF OldConnections, EndsOK
  <2>2. ASSUME NEW b \in Bev, peer'[b] \in Tunnel
        PROVE  tun'[peer'[b]].index = tun[peer[b]].index /\ peer'[b] = peer[b]
    <3>1. peer'[b] = peer[b] /\ Holds(peer'[b], conn', tun')
      BY <1>3, <2>1, <2>2
    <3>2. tun[peer[b]] # FreedTunnel /\ tun'[peer[b]] # FreedTunnel
      BY <1>1, <1>3, <1>5, <1>7, <2>2, <3>1
    <3> QED BY <1>2, <2>2, <3>1, <3>2 DEF IndexKept
  <2>3. \A b \in Bev : peer'[b] = Control => request'[b] \in {Map, NoRequest}
    BY <1>1, <1>3, <1>8, <2>1 DEF OldConnections
  <2>4. \A b \in Bev : peer'[b] \in Tunnel => request'[b] \in {tun'[peer'[b]].index, NoRequest}
    BY <1>1, <1>8, <2>2 DEF OldConnections
  <2>5. ASSUME NEW b \in Bev, NEW i \in SP!Index, clientOf'[i] = b, peer'[b] # NoPeer
        PROVE  peer'[b] \in Tunnel /\ tun'[peer'[b]].index = i
    <3>1. peer'[b] = peer[b] /\ peer[b] \in Tunnel \union {Control}
      BY <1>1, <2>1, <2>5
    <3>2. clientOf[i] = b \/ request[b] = i
      BY <1>8, <2>5 DEF OldConnections
    <3>3. peer[b] \in Tunnel /\ tun[peer[b]].index = i
      BY <1>1, <1>3, <1>4, <3>1, <3>2
    <3> QED BY <2>2, <3>1, <3>3
  <2>6. request' \in [Bev -> Nat \union {Map, NoRequest}]
    BY <1>8 DEF OldConnections
  <2> QED BY <2>1, <2>3, <2>4, <2>5, <2>6 DEF EndsOK
<1>9. ASSUME NEW b \in Bev, NEW e, NEW q, NewConnection(b, e, q)
      PROVE  EndsOK'
  <2> DEFINE p == [peer EXCEPT ![b] = e]
  <2>1. /\ cb[b] = "freed" /\ clientOf' = clientOf
        /\ Connections(p) /\ Requests([request EXCEPT ![b] = q])
        /\ (e = Control /\ q = Map) \/ (e \in Tunnel /\ tun[e] # FreedTunnel /\ q = tun[e].index)
    BY <1>9 DEF NewConnection
  <2>2. /\ p \in [Bev -> Tunnel \union {Control, NoPeer}]
        /\ \A c \in Bev : p[c] = IF c = b THEN e ELSE peer[c]
    BY <2>1 DEF EndsOK
  <2> HIDE DEF p
  <2>3. q \in Nat \union {Map}
    <3>1. \A t \in Tunnel : tun[t] # FreedTunnel => tun[t].index \in 1 .. MaxIndex
      BY DEF SystemInv, CP!Inv, CP!TunnelsOK
    <3> QED BY <2>1, <3>1
  <2>4. /\ request' \in [Bev -> Nat \union {Map, NoRequest}]
        /\ \A c \in Bev : request'[c] \in {IF c = b THEN q ELSE request[c], NoRequest}
    BY <2>1, <2>3 DEF EndsOK, Requests
  <2>5. /\ peer' \in [Bev -> Tunnel \union {Control, NoPeer}]
        /\ \A c \in Bev :
              peer'[c] # NoPeer =>
                  peer'[c] = p[c] /\ cb'[c] # "freed" /\ Holds(peer'[c], conn', tun')
    BY <1>6, <2>1, <2>2
  <2>6. ASSUME NEW c \in Bev, peer'[c] \in Tunnel
        PROVE  tun'[peer'[c]].index = tun[p[c]].index /\ peer'[c] = p[c]
    <3>1. peer'[c] = p[c] /\ Holds(peer'[c], conn', tun')
      BY <1>3, <2>5, <2>6
    <3>2. tun'[p[c]] # FreedTunnel
      BY <1>7, <2>6, <3>1
    <3>3. tun[p[c]] # FreedTunnel
      BY <1>1, <1>3, <1>5, <2>1, <2>2, <2>6, <3>1
    <3> QED BY <1>2, <2>6, <3>1, <3>2, <3>3 DEF IndexKept
  <2>7. \A c \in Bev : peer'[c] = Control => request'[c] \in {Map, NoRequest}
    BY <1>1, <1>3, <2>1, <2>2, <2>4, <2>5
  <2>8. \A c \in Bev : peer'[c] \in Tunnel => request'[c] \in {tun'[peer'[c]].index, NoRequest}
    BY <1>1, <1>3, <2>1, <2>2, <2>4, <2>6
  <2>9. ASSUME NEW c \in Bev, NEW i \in SP!Index, clientOf'[i] = c, peer'[c] # NoPeer
        PROVE  peer'[c] \in Tunnel /\ tun'[peer'[c]].index = i
    <3>1. c # b
      BY <2>1, <2>9 DEF SystemInv, SP!IInv, SP!Owners, SP!OneOwner
    <3>2. peer'[c] = peer[c]
      BY <2>2, <2>5, <2>9, <3>1
    <3>3. peer[c] \in Tunnel /\ tun[peer[c]].index = i
      BY <1>1, <2>1, <2>9, <3>2
    <3> QED BY <2>2, <2>6, <3>1, <3>2, <3>3
  <2> QED BY <2>4, <2>5, <2>7, <2>8, <2>9 DEF EndsOK
<1>10. CASE Restarts
  BY <1>10 DEF Restarts, Restart, network, serverVars, EndsOK, Holds
<1> QED BY <1>8, <1>9, <1>10, NextConnections

\* The two ends of a connection are about the same: what the server reads first
\* on it, and joins it to, is what the client has at the other end.
THEOREM EndsInvariant == Spec => []EndsOK
<1>1. Init => EndsOK
  BY SystemAssumption DEF Init, S!Init, EndsOK, Holds, S!Index, SP!Index
<1>2. EndsOK /\ UNCHANGED vars => EndsOK'
  BY DEF EndsOK, vars, serverVars, clientVars, network, Holds
<1>3. SystemInv /\ EndsOK /\ [Next]_vars => EndsOK'
  BY <1>2, EndsKept
<1> QED BY <1>1, <1>3, SystemInvariant, PTL DEF Spec

\* Nobody is connected to the mapped host as somebody else: a visitor is
\* joined to the tunnel that its own package has begun.
THEOREM EachGetsItsOwn == Spec => []EachToItsOwn
<1>1. SystemInv /\ EndsOK => EachToItsOwn
  <2> SUFFICES ASSUME SystemInv, EndsOK, NEW i \in S!Index,
                      clientOf[i] # NoBev, peer[clientOf[i]] # NoPeer
               PROVE  /\ peer[clientOf[i]] \in Tunnel /\ tun[peer[clientOf[i]]].index = i
                      /\ {p \in told : p[1] = i} = {<<i, visitorOf[i]>>}
    BY DEF EachToItsOwn
  <2>1. i \in SP!Index /\ clientOf[i] \in Bev
    <3>1. i \in SP!Index
      BY ServerActions
    <3> QED BY <3>1 DEF SystemInv, SP!IInv, SP!Owners, SP!TypeOK
  <2>2. peer[clientOf[i]] \in Tunnel /\ tun[peer[clientOf[i]]].index = i
    BY <2>1 DEF EndsOK
  <2>3. SP!Live(i)
    BY <2>1 DEF SystemInv, SP!IInv, SP!Tunnels, SP!Guarded, SP!Joined
  <2>4. /\ <<i, visitorOf[i]>> \in told
        /\ \A v, w \in Visitor : <<i, v>> \in told /\ <<i, w>> \in told => v = w
    BY <2>1, <2>3 DEF SystemInv, SP!IInv, SP!Tunnels, SP!JoinReachesItsVisitor
  <2>5. told \subseteq SP!Index \X Visitor
    BY DEF SystemInv, SP!IInv, SP!Owners, SP!TypeOK
  <2>6. {p \in told : p[1] = i} = {<<i, visitorOf[i]>>}
    BY <2>4, <2>5
  <2> QED BY <2>2, <2>6
<1> QED BY <1>1, SystemInvariant, EndsInvariant, PTL

=============================================================================
