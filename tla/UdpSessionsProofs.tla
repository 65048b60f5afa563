------------------------- MODULE UdpSessionsProofs -------------------------
(***************************************************************************)
(* Theorems about UdpSessions, for all mappings, visitors, limits and      *)
(* numbers of sessions.                                                    *)
(***************************************************************************)
EXTENDS UdpSessions, TLAPS

\* The numbers given so far follow upon one another from s on, and the last
\* of them is session_seq; they may have gone round.
Run(s) ==
    \/ /\ session_seq = s + issues
       /\ \A i \in Id : given[i] # NoSession => s < i /\ i <= session_seq
    \/ /\ session_seq + MaxId = s + issues
       /\ \A i \in Id : given[i] # NoSession => s < i \/ i <= session_seq

Issued == \E s \in 0 .. MaxId : Run(s)

\* Whoever mentions a number means the visitor it was given to.
Belongs(m) == given[m.id] = [agent |-> m.agent, visitor |-> m.visitor]

Identify ==
    /\ \A i \in Id : mis_session[i] # NoSession => mis_session[i] = given[i]
    /\ \A a \in Agent, i \in Id :
          hosts[a][i] # NoVisitor => given[i] = [agent |-> a, visitor |-> hosts[a][i]]
    /\ \A m \in toClient : Belongs(m)
    /\ \A m \in toServer : Belongs(m)

IInv == TypeOK /\ TablesAgree /\ Issued /\ Identify /\ NoneAstray

-----------------------------------------------------------------------------

LEMMA NextIdType ==
    ASSUME NEW s \in 0 .. MaxId
    PROVE  NextId(s) \in Id
BY ConstantsAssumption DEF NextId, Id

LEMMA SessionType ==
    ASSUME NEW a \in Agent, NEW v \in Visitor
    PROVE  /\ [agent |-> a, visitor |-> v] \in Session
           /\ [agent |-> a, visitor |-> v] # NoSession
BY ConstantsAssumption DEF Session

\* The next number has never been given: the count has not gone round since
\* it began.
LEMMA FreshNumber ==
    ASSUME TypeOK, Issued, issues < MaxId
    PROVE  given[NextId(session_seq)] = NoSession
<1>1. PICK s \in 0 .. MaxId : Run(s)
  BY DEF Issued
<1>2. NextId(session_seq) \in Id
  BY NextIdType DEF TypeOK
<1>3. /\ session_seq \in Int /\ issues \in Int /\ MaxId \in Int /\ s \in Int
      /\ 0 <= s /\ 0 <= session_seq /\ session_seq <= MaxId /\ 0 <= issues
      /\ NextId(session_seq) \in Int
  BY <1>2, ConstantsAssumption DEF TypeOK, Id
<1>4. SUFFICES ASSUME given[NextId(session_seq)] # NoSession
               PROVE  FALSE
  OBVIOUS
<1>5. CASE session_seq = s + issues /\ \A i \in Id : given[i] # NoSession => s < i /\ i <= session_seq
  <2>1. s < NextId(session_seq) /\ NextId(session_seq) <= session_seq
    BY <1>2, <1>4, <1>5
  <2> QED BY <1>3, <1>5, <2>1 DEF NextId
<1>6. CASE session_seq + MaxId = s + issues /\ \A i \in Id : given[i] # NoSession => s < i \/ i <= session_seq
  <2>1. s < NextId(session_seq) \/ NextId(session_seq) <= session_seq
    BY <1>2, <1>4, <1>6
  <2> QED BY <1>3, <1>6, <2>1 DEF NextId
<1> QED BY <1>1, <1>5, <1>6 DEF Run

\* The run goes on with the number that follows.
LEMMA RunGoesOn ==
    ASSUME TypeOK, Issued, issues < MaxId, NEW session,
           session_seq' = NextId(session_seq), issues' = issues + 1,
           given' = [given EXCEPT ![NextId(session_seq)] = session]
    PROVE  Issued'
<1>1. PICK s \in 0 .. MaxId : Run(s)
  BY DEF Issued
<1>3. /\ session_seq \in Int /\ issues \in Int /\ MaxId \in Int /\ s \in Int
      /\ 0 <= s /\ 0 <= session_seq /\ session_seq <= MaxId /\ 0 <= issues /\ s <= MaxId
  BY ConstantsAssumption DEF TypeOK
<1>4. \A i \in Id : i \in Int /\ (given'[i] # NoSession => given[i] # NoSession \/ i = session_seq')
  BY ConstantsAssumption DEF TypeOK, Id
<1>5. Run(s)'
  <2>1. CASE session_seq = s + issues /\ \A i \in Id : given[i] # NoSession => s < i /\ i <= session_seq
    <3>1. CASE session_seq = MaxId
      <4>1. session_seq' = 1 /\ session_seq' + MaxId = s + issues'
        BY <1>3, <2>1, <3>1 DEF NextId
      <4>2. \A i \in Id : given'[i] # NoSession => s < i \/ i <= session_seq'
        BY <1>3, <1>4, <2>1, <4>1
      <4> QED BY <4>1, <4>2 DEF Run
    <3>2. CASE session_seq # MaxId
      <4>1. session_seq' = session_seq + 1 /\ session_seq' = s + issues'
        BY <1>3, <2>1, <3>2 DEF NextId
      <4>2. \A i \in Id : given'[i] # NoSession => s < i /\ i <= session_seq'
        BY <1>3, <1>4, <2>1, <4>1
      <4> QED BY <4>1, <4>2 DEF Run
    <3> QED BY <3>1, <3>2
  <2>2. CASE session_seq + MaxId = s + issues /\ \A i \in Id : given[i] # NoSession => s < i \/ i <= session_seq
    <3>1. session_seq' = session_seq + 1 /\ session_seq' + MaxId = s + issues'
      BY <1>3, <2>2 DEF NextId
    <3>2. \A i \in Id : given'[i] # NoSession => s < i \/ i <= session_seq'
      BY <1>3, <1>4, <2>2, <3>1
    <3> QED BY <3>1, <3>2 DEF Run
  <2> QED BY <1>1, <2>1, <2>2 DEF Run
<1> QED BY <1>5 DEF Issued

LEMMA InitIInv == Init => IInv
<1> SUFFICES ASSUME Init
             PROVE  IInv
  OBVIOUS
<1>1. TypeOK
  BY ConstantsAssumption DEF Init, TypeOK, Nobody, Nothing, NoSockets
<1>2. TablesAgree
  <2>1. \A a \in Agent, v \in Visitor, i \in Id :
           /\ mss_session[a][v] = 0 /\ i # 0
           /\ mis_session[i] = NoSession
    BY ConstantsAssumption DEF Init, Nobody, Nothing, Id
  <2> QED BY <2>1, SessionType DEF Init, TablesAgree
<1>3. Issued
  <2>1. session_seq \in 0 .. MaxId /\ issues = 0 /\ \A i \in Id : given[i] = NoSession
    BY DEF Init, Nothing
  <2>2. Run(session_seq)
    BY <2>1, ConstantsAssumption DEF Run
  <2> QED BY <2>1, <2>2 DEF Issued
<1>4. Identify /\ NoneAstray
  BY DEF Init, Identify, NoneAstray, Nothing, NoSockets
<1> QED BY <1>1, <1>2, <1>3, <1>4 DEF IInv

-----------------------------------------------------------------------------

(***************************************************************************)
(* The steps.                                                              *)
(***************************************************************************)

\* What is sent to a client mentions the number it was given.
LEMMA Sent ==
    ASSUME TypeOK, Identify, NEW a \in Agent, NEW v \in Visitor, NEW i \in Id,
           ToClient(a, i, v),
           given'[i] = [agent |-> a, visitor |-> v],
           \A j \in Id : given[j] # NoSession => given'[j] = given[j]
    PROVE  toClient' \subseteq Package /\ \A m \in toClient' : Belongs(m)'
<1>1. \A m \in toClient : m \in Package /\ Belongs(m)
  BY DEF TypeOK, Identify
<1>2. \A m \in Package : m.id \in Id /\ m.agent \in Agent /\ m.visitor \in Visitor
  BY DEF Package
<1>3. \A m \in toClient : Belongs(m)'
  <2> TAKE m \in toClient
  <2>1. given[m.id] = [agent |-> m.agent, visitor |-> m.visitor] /\ m.id \in Id
    BY <1>1, <1>2 DEF Belongs
  <2>2. given[m.id] # NoSession
    BY <1>1, <1>2, <2>1, SessionType
  <2> QED BY <2>1, <2>2 DEF Belongs
<1>4. \A m \in toClient' : m \in toClient \/ m = [id |-> i, agent |-> a, visitor |-> v]
  BY DEF ToClient
<1>5. [id |-> i, agent |-> a, visitor |-> v] \in Package
  BY DEF Package
<1>6. Belongs([id |-> i, agent |-> a, visitor |-> v])'
  BY DEF Belongs
<1>7. toClient' \subseteq Package
  BY <1>1, <1>4, <1>5
<1>8. \A m \in toClient' : Belongs(m)'
  <2> TAKE m \in toClient'
  <2>1. CASE m \in toClient
    BY <1>3, <2>1
  <2>2. CASE m = [id |-> i, agent |-> a, visitor |-> v]
    BY <1>6, <2>2
  <2> QED BY <1>4, <2>1, <2>2
<1> QED BY <1>7, <1>8

LEMMA VisitorSendsIInv ==
    ASSUME IInv, NEW a \in Agent, NEW v \in Visitor, VisitorSends(a, v)
    PROVE  IInv'
<1> DEFINE i == mss_session[a][v]
<1> USE DEF IInv, server
<1>1. i \in Id
  BY DEF VisitorSends, TypeOK, Id
<1>2. mis_session[i] = [agent |-> a, visitor |-> v]
  BY <1>1 DEF TablesAgree
<1>3. given[i] = [agent |-> a, visitor |-> v] /\ given' = given
  BY <1>1, <1>2, SessionType DEF Identify, VisitorSends
<1>4. toClient' \subseteq Package /\ \A m \in toClient' : Belongs(m)'
  BY <1>1, <1>3, Sent DEF VisitorSends
<1>5. TypeOK'
  BY <1>4 DEF VisitorSends, TypeOK
<1>6. TablesAgree' /\ Issued' /\ NoneAstray'
  BY DEF VisitorSends, TablesAgree, Issued, Run, NoneAstray
<1>7. Identify'
  BY <1>4 DEF VisitorSends, Identify, Belongs
<1> QED BY <1>5, <1>6, <1>7

LEMMA NewVisitorSendsIInv ==
    ASSUME IInv, NEW a \in Agent, NEW v \in Visitor, NewVisitorSends(a, v)
    PROVE  IInv'
<1> DEFINE id == NextId(session_seq)
           session == [agent |-> a, visitor |-> v]
<1> USE DEF IInv
<1>1. /\ client_addr[a] # "none" /\ mss_session[a][v] = 0
      /\ issues < MaxId /\ issues' = issues + 1 /\ session_seq' = id
      /\ mis_session' = [mis_session EXCEPT ![id] = session]
      /\ mss_session' = [mss_session EXCEPT ![a][v] = id]
      /\ given' = [given EXCEPT ![id] = session]
      /\ ToClient(a, id, v)
      /\ UNCHANGED <<client_addr, hosts, toServer, astray>>
  BY DEF NewVisitorSends
<1>2. id \in Id /\ session \in Session /\ session # NoSession
  BY NextIdType, SessionType DEF TypeOK
<1>3. given[id] = NoSession
  BY <1>1, FreshNumber
<1> HIDE DEF id, session
<1>4. /\ \A j \in Id : given'[j] = IF j = id THEN session ELSE given[j]
      /\ \A j \in Id : mis_session'[j] = IF j = id THEN session ELSE mis_session[j]
      /\ \A b \in Agent, w \in Visitor :
            mss_session'[b][w] = IF b = a /\ w = v THEN id ELSE mss_session[b][w]
  BY <1>1, <1>2 DEF TypeOK
<1>5. mis_session[id] = NoSession
  BY <1>2, <1>3 DEF Identify
<1>6. toClient' \subseteq Package /\ \A m \in toClient' : Belongs(m)'
  <2>1. given'[id] = [agent |-> a, visitor |-> v]
    BY <1>2, <1>4 DEF session
  <2>2. \A j \in Id : given[j] # NoSession => given'[j] = given[j]
    BY <1>3, <1>4
  <2> QED BY <1>1, <1>2, <2>1, <2>2, Sent
<1>7. TypeOK'
  <2>1. mis_session' \in [Id -> Session \union {NoSession}] /\ given' \in [Id -> Session \union {NoSession}]
    BY <1>1, <1>2 DEF TypeOK
  <2>2. mss_session' \in [Agent -> [Visitor -> 0 .. MaxId]]
    BY <1>1, <1>2 DEF TypeOK, Id
  <2>3. session_seq' \in 0 .. MaxId /\ issues' \in 0 .. MaxId
    BY <1>1, <1>2, ConstantsAssumption DEF TypeOK, Id
  <2> QED BY <1>1, <1>6, <2>1, <2>2, <2>3 DEF TypeOK
<1>8. TablesAgree'
  <2>1. \A b \in Agent, w \in Visitor : mss_session[b][w] # id
    <3> SUFFICES ASSUME NEW b \in Agent, NEW w \in Visitor, mss_session[b][w] = id
                 PROVE  FALSE
      OBVIOUS
    <3>1. mis_session[id] = [agent |-> b, visitor |-> w]
      BY <1>2 DEF TablesAgree
    <3> QED BY <1>5, <3>1, SessionType
  <2>2. \A b \in Agent, w \in Visitor, j \in Id :
           mss_session'[b][w] = j <=> mis_session'[j] = [agent |-> b, visitor |-> w]
    <3> TAKE b \in Agent, w \in Visitor, j \in Id
    <3>1. session = [agent |-> b, visitor |-> w] <=> b = a /\ w = v
      BY DEF session
    <3>2. CASE j = id
      BY <1>2, <1>4, <2>1, <3>1, <3>2
    <3>3. CASE j # id
      <4>1. mis_session'[j] = mis_session[j]
        BY <1>4, <3>3
      <4>2. CASE b = a /\ w = v
        <5>1. mss_session'[b][w] = id /\ mss_session[b][w] = 0 /\ j # 0
          BY <1>1, <1>4, <4>2, ConstantsAssumption DEF Id
        <5> QED BY <3>3, <4>1, <5>1 DEF TablesAgree
      <4>3. CASE ~(b = a /\ w = v)
        BY <1>4, <4>1, <4>3 DEF TablesAgree
      <4> QED BY <4>2, <4>3
    <3> QED BY <3>2, <3>3
  <2>3. \A b \in Agent : client_addr'[b] = "none" => mss_session'[b] = Nobody
    <3> TAKE b \in Agent
    <3>1. CASE b = a
      BY <1>1, <3>1
    <3>2. CASE b # a
      BY <1>1, <3>2 DEF TablesAgree, TypeOK
    <3> QED BY <3>1, <3>2
  <2> QED BY <2>2, <2>3 DEF TablesAgree
<1>9. Issued'
  BY <1>1, RunGoesOn DEF id
<1>10. Identify'
  <2>1. \A j \in Id : mis_session'[j] # NoSession => mis_session'[j] = given'[j]
    BY <1>4 DEF Identify
  <2>2. \A b \in Agent, j \in Id :
           hosts'[b][j] # NoVisitor => given'[j] = [agent |-> b, visitor |-> hosts'[b][j]]
    <3> SUFFICES ASSUME NEW b \in Agent, NEW j \in Id, hosts[b][j] # NoVisitor
                 PROVE  given'[j] = [agent |-> b, visitor |-> hosts[b][j]]
      BY <1>1
    <3>1. given[j] = [agent |-> b, visitor |-> hosts[b][j]] /\ hosts[b][j] \in Visitor
      BY DEF Identify, TypeOK
    <3>2. given[j] # NoSession
      BY <3>1, SessionType
    <3> QED BY <1>3, <1>4, <3>1, <3>2
  <2>3. \A m \in toServer' : Belongs(m)'
    <3> SUFFICES ASSUME NEW m \in toServer
                 PROVE  Belongs(m)'
      BY <1>1
    <3>1. m.id \in Id /\ m.agent \in Agent /\ m.visitor \in Visitor
      BY DEF TypeOK, Package
    <3>2. given[m.id] = [agent |-> m.agent, visitor |-> m.visitor]
      BY DEF Identify, Belongs
    <3>3. given[m.id] # NoSession
      BY <3>1, <3>2, SessionType
    <3> QED BY <1>3, <1>4, <3>1, <3>2, <3>3 DEF Belongs
  <2> QED BY <1>6, <2>1, <2>2, <2>3 DEF Identify
<1> QED BY <1>1, <1>7, <1>8, <1>9, <1>10 DEF NoneAstray

LEMMA ServerTimeoutIInv ==
    ASSUME IInv, NEW a \in Agent, NEW v \in Visitor, ServerTimeout(a, v)
    PROVE  IInv'
<1> DEFINE i == mss_session[a][v]
<1> USE DEF IInv, net
<1>1. i \in Id /\ mis_session[i] = [agent |-> a, visitor |-> v]
  BY DEF ServerTimeout, TypeOK, Id, TablesAgree
<1>2. /\ \A j \in Id : mis_session'[j] = IF j = i THEN NoSession ELSE mis_session[j]
      /\ \A b \in Agent, w \in Visitor :
            mss_session'[b][w] = IF b = a /\ w = v THEN 0 ELSE mss_session[b][w]
  BY <1>1 DEF ServerTimeout, TypeOK
<1>3. TypeOK'
  <2>1. mis_session' \in [Id -> Session \union {NoSession}]
    BY DEF ServerTimeout, TypeOK
  <2>2. mss_session' \in [Agent -> [Visitor -> 0 .. MaxId]]
    BY ConstantsAssumption DEF ServerTimeout, TypeOK
  <2> QED BY <2>1, <2>2 DEF ServerTimeout, TypeOK
<1>4. TablesAgree'
  <2>1. \A b \in Agent, w \in Visitor, j \in Id :
           mss_session'[b][w] = j <=> mis_session'[j] = [agent |-> b, visitor |-> w]
    <3> TAKE b \in Agent, w \in Visitor, j \in Id
    <3>1. mss_session[b][w] = j <=> mis_session[j] = [agent |-> b, visitor |-> w]
      BY DEF TablesAgree
    <3>2. [agent |-> b, visitor |-> w] # NoSession /\ j # 0
      BY SessionType, ConstantsAssumption DEF Id
    <3>3. [agent |-> a, visitor |-> v] = [agent |-> b, visitor |-> w] <=> b = a /\ w = v
      OBVIOUS
    <3> HIDE DEF i
    <3>4. i = mss_session[a][v]
      BY DEF i
    <3> QED BY <1>1, <1>2, <3>1, <3>2, <3>3, <3>4
  <2>2. \A b \in Agent : client_addr'[b] = "none" => mss_session'[b] = Nobody
    <3> SUFFICES ASSUME NEW b \in Agent, client_addr[b] = "none"
                 PROVE  mss_session'[b] = Nobody
      BY DEF ServerTimeout
    <3>1. mss_session[b] = Nobody
      BY DEF TablesAgree
    <3>2. b # a
      BY <3>1 DEF ServerTimeout, Nobody
    <3> QED BY <3>1, <3>2 DEF ServerTimeout, TypeOK
  <2> QED BY <2>1, <2>2 DEF TablesAgree
<1>5. Issued' /\ NoneAstray'
  BY DEF ServerTimeout, Issued, Run, NoneAstray
<1>6. Identify'
  BY <1>2 DEF ServerTimeout, Identify, Belongs
<1> QED BY <1>3, <1>4, <1>5, <1>6

LEMMA AgentDiesIInv ==
    ASSUME IInv, NEW a \in Agent, AgentDies(a)
    PROVE  IInv'
<1> USE DEF IInv, net
<1>1. /\ \A b \in Agent : mss_session'[b] = IF b = a THEN Nobody ELSE mss_session[b]
      /\ \A b \in Agent : client_addr'[b] = IF b = a THEN "none" ELSE client_addr[b]
      /\ \A j \in Id : mis_session'[j] = IF \E v \in Visitor : mss_session[a][v] = j
                                         THEN NoSession ELSE mis_session[j]
  BY DEF AgentDies, TypeOK
<1>2. TypeOK'
  BY ConstantsAssumption DEF AgentDies, TypeOK, Nobody
<1>3. TablesAgree'
  <2>1. \A b \in Agent, w \in Visitor, j \in Id :
           mss_session'[b][w] = j <=> mis_session'[j] = [agent |-> b, visitor |-> w]
    <3> TAKE b \in Agent, w \in Visitor, j \in Id
    <3>1. mss_session[b][w] = j <=> mis_session[j] = [agent |-> b, visitor |-> w]
      BY DEF TablesAgree
    <3>2. [agent |-> b, visitor |-> w] # NoSession /\ j # 0 /\ Nobody[w] = 0
      BY SessionType, ConstantsAssumption DEF Id, Nobody
    <3>3. CASE b = a
      BY <1>1, <3>1, <3>2, <3>3
    <3>4. CASE b # a
      <4>1. ASSUME NEW v \in Visitor, mss_session[a][v] = j
            PROVE  mis_session[j] # [agent |-> b, visitor |-> w]
        <5>1. mis_session[j] = [agent |-> a, visitor |-> v]
          BY <4>1 DEF TablesAgree
        <5> QED BY <3>4, <5>1
      <4> QED BY <1>1, <3>1, <3>2, <3>4, <4>1
    <3> QED BY <3>3, <3>4
  <2> QED BY <1>1, <2>1 DEF TablesAgree
<1>4. Issued' /\ NoneAstray'
  BY DEF AgentDies, Issued, Run, NoneAstray
<1>5. Identify'
  BY <1>1 DEF AgentDies, Identify, Belongs
<1> QED BY <1>2, <1>3, <1>4, <1>5

LEMMA ClientReceivesIInv ==
    ASSUME IInv, NEW m \in toClient, ClientReceives(m)
    PROVE  IInv'
<1> USE DEF IInv, net, server
<1>1. m.id \in Id /\ m.agent \in Agent /\ m.visitor \in Visitor
  BY DEF TypeOK, Package
<1>2. given[m.id] = [agent |-> m.agent, visitor |-> m.visitor]
  BY DEF Identify, Belongs
<1>3. CASE hosts[m.agent][m.id] # NoVisitor
  <2>1. hosts[m.agent][m.id] = m.visitor
    <3>1. given[m.id] = [agent |-> m.agent, visitor |-> hosts[m.agent][m.id]]
      BY <1>1, <1>3 DEF Identify
    <3>2. [agent |-> m.agent, visitor |-> hosts[m.agent][m.id]].visitor
            = [agent |-> m.agent, visitor |-> m.visitor].visitor
      BY <1>2, <3>1
    <3> QED BY <3>2
  <2>2. UNCHANGED vars
    <3>1. UNCHANGED <<server, net>>
      BY DEF ClientReceives, NewSession
    <3>2. hosts' = hosts /\ astray' = astray
      BY <1>3, <2>1 DEF ClientReceives, NewSession
    <3> QED BY <3>1, <3>2 DEF vars
  <2>3. TypeOK' /\ NoneAstray'
    BY <2>2 DEF vars, TypeOK, NoneAstray
  <2>4. TablesAgree' /\ Issued'
    BY <2>2 DEF vars, TablesAgree, Issued, Run
  <2>5. Identify'
    BY <2>2 DEF vars, Identify, Belongs
  <2> QED BY <2>3, <2>4, <2>5
<1>4. CASE hosts[m.agent][m.id] = NoVisitor
  <2>1. hosts' = [hosts EXCEPT ![m.agent][m.id] = m.visitor] /\ UNCHANGED <<astray, server, net>>
    BY <1>4 DEF ClientReceives, NewSession
  <2>2. \A a \in Agent, i \in Id :
           hosts'[a][i] = IF a = m.agent /\ i = m.id THEN m.visitor ELSE hosts[a][i]
    BY <1>1, <2>1 DEF TypeOK
  <2>3. TypeOK'
    BY <1>1, <2>1 DEF TypeOK
  <2>4. Identify'
    BY <1>2, <2>1, <2>2 DEF Identify, Belongs
  <2> QED BY <2>1, <2>3, <2>4 DEF TablesAgree, Issued, Run, NoneAstray
<1> QED BY <1>3, <1>4

LEMMA HostRepliesIInv ==
    ASSUME IInv, NEW a \in Agent, NEW i \in Id, HostReplies(a, i)
    PROVE  IInv'
<1> DEFINE m == [id |-> i, agent |-> a, visitor |-> hosts[a][i]]
<1> USE DEF IInv, server
<1>1. m \in Package
  BY DEF HostReplies, TypeOK, Package
<1>2. Belongs(m)
  BY DEF HostReplies, Identify, Belongs
<1>3. \A n \in toServer' : n \in toServer \/ n = m
  BY DEF HostReplies
<1>4. TypeOK'
  BY <1>1 DEF HostReplies, TypeOK
<1>5. Identify'
  <2>1. \A n \in toServer' : Belongs(n)
    BY <1>2, <1>3 DEF Identify
  <2> QED BY <2>1 DEF HostReplies, Identify, Belongs
<1> QED BY <1>4, <1>5 DEF HostReplies, TablesAgree, Issued, Run, NoneAstray

LEMMA NextIInv == IInv /\ [Next]_vars => IInv'
<1> SUFFICES ASSUME IInv, [Next]_vars
             PROVE  IInv'
  OBVIOUS
<1> USE DEF IInv, net, server
<1>1. ASSUME NEW a \in Agent, NEW v \in Visitor,
             VisitorSends(a, v) \/ NewVisitorSends(a, v) \/ ServerTimeout(a, v)
      PROVE  IInv'
  BY <1>1, VisitorSendsIInv, NewVisitorSendsIInv, ServerTimeoutIInv
<1>2. ASSUME NEW a \in Agent, NEW from \in {"current", "old"}, HandleRegister(a, from)
      PROVE  IInv'
  <2>1. TypeOK'
    BY <1>2 DEF HandleRegister, TypeOK
  <2>2. TablesAgree'
    BY <1>2 DEF HandleRegister, TablesAgree, TypeOK
  <2> QED BY <1>2, <2>1, <2>2 DEF HandleRegister, Issued, Run, Identify, Belongs, NoneAstray
<1>3. ASSUME NEW a \in Agent, NEW i \in Id, HostReplies(a, i)
      PROVE  IInv'
  BY <1>3, HostRepliesIInv
<1>4. ASSUME NEW a \in Agent, NEW i \in Id, ClientTimeout(a, i)
      PROVE  IInv'
  <2>1. \A b \in Agent, j \in Id :
           hosts'[b][j] = IF b = a /\ j = i THEN NoVisitor ELSE hosts[b][j]
    BY <1>4 DEF ClientTimeout, TypeOK
  <2>2. TypeOK'
    BY <1>4 DEF ClientTimeout, TypeOK
  <2>3. Identify'
    BY <1>4, <2>1 DEF ClientTimeout, Identify, Belongs
  <2> QED BY <1>4, <2>2, <2>3 DEF ClientTimeout, TablesAgree, Issued, Run, NoneAstray
<1>5. ASSUME NEW a \in Agent, AgentDies(a)
      PROVE  IInv'
  BY <1>5, AgentDiesIInv
<1>6. ASSUME NEW a \in Agent, ClientFails(a)
      PROVE  IInv'
  <2>1. \A b \in Agent, j \in Id : hosts'[b][j] = IF b = a THEN NoVisitor ELSE hosts[b][j]
    BY <1>6 DEF ClientFails, TypeOK, NoSockets
  <2>2. TypeOK'
    BY <1>6 DEF ClientFails, TypeOK, NoSockets
  <2>3. TablesAgree'
    <3>1. \A b \in Agent : client_addr'[b] = "none" => client_addr[b] = "none"
      BY <1>6 DEF ClientFails, TypeOK
    <3> QED BY <1>6, <3>1 DEF ClientFails, TablesAgree
  <2>4. Identify'
    BY <1>6, <2>1 DEF ClientFails, Identify, Belongs
  <2> QED BY <1>6, <2>2, <2>3, <2>4 DEF ClientFails, Issued, Run, NoneAstray
<1>7. ASSUME NEW m \in toClient, ClientReceives(m)
      PROVE  IInv'
  BY <1>7, ClientReceivesIInv
<1>8. ASSUME NEW m \in toServer, HandleData(m)
      PROVE  IInv'
  <2>1. m.id \in Id
    BY DEF TypeOK, Package
  <2>2. mis_session[m.id] = [agent |-> m.agent, visitor |-> m.visitor]
    BY <1>8, <2>1 DEF HandleData, Identify, Belongs
  <2> QED BY <1>8, <2>2 DEF HandleData, TypeOK, TablesAgree, Issued, Run, Identify, Belongs, NoneAstray
<1>9. CASE ServerRestarts
  <2>1. TypeOK'
    BY <1>9, ConstantsAssumption DEF ServerRestarts, TypeOK, Nobody, Nothing
  <2>2. TablesAgree'
    <3>1. \A a \in Agent, v \in Visitor, i \in Id :
             /\ mss_session'[a][v] = 0 /\ i # 0
             /\ mis_session'[i] = NoSession
      BY <1>9, ConstantsAssumption DEF ServerRestarts, Nobody, Nothing, Id
    <3>2. \A a \in Agent : mss_session'[a] = Nobody
      BY <1>9 DEF ServerRestarts
    <3> QED BY <3>1, <3>2, SessionType DEF TablesAgree
  <2>3. Identify'
    BY <1>9 DEF ServerRestarts, Identify, Belongs, Nothing
  <2> QED BY <1>9, <2>1, <2>2, <2>3 DEF ServerRestarts, Issued, Run, NoneAstray
<1>10. CASE UNCHANGED vars
  BY <1>10 DEF vars, TypeOK, TablesAgree, Issued, Run, Identify, Belongs, NoneAstray
<1> QED BY <1>1, <1>2, <1>3, <1>4, <1>5, <1>6, <1>7, <1>8, <1>9, <1>10 DEF Next

-----------------------------------------------------------------------------

(***************************************************************************)
(* The theorems.                                                           *)
(***************************************************************************)

LEMMA Invariance == Spec => []IInv
BY InitIInv, NextIInv, PTL DEF Spec

\* Every variable keeps its type; in particular no session has number 0.
THEOREM TypeCorrect == Spec => []TypeOK
<1>1. IInv => TypeOK
  BY DEF IInv
<1> QED BY <1>1, Invariance, PTL

\* The agents' tables and the server's index agree, and dead agents have no
\* sessions, however many mappings and visitors there are.
THEOREM ServersTablesAgree == Spec => []TablesAgree
<1>1. IInv => TablesAgree
  BY DEF IInv
<1> QED BY <1>1, Invariance, PTL

\* No package ever reaches another visitor or the host by another visitor's
\* socket, whatever is lost, late or repeated and whoever restarts.
THEOREM NeverAstray == Spec => []NoneAstray
<1>1. IInv => NoneAstray
  BY DEF IInv
<1> QED BY <1>1, Invariance, PTL
=============================================================================
