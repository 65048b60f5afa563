-------------------------- MODULE TcpServerProofs --------------------------
(***************************************************************************)
(* Theorems about TcpServer, for any number of connections, addresses and  *)
(* visitors and any width of the tunnel index.                             *)
(***************************************************************************)
EXTENDS TcpServer, TLAPS

\* The indices issued since the counter had the value s: it has not come
\* back to s, with or without going through its largest value.
Run(s) ==
    \/ /\ seq = s + issues
       /\ \A p \in told : s < p[1] /\ p[1] <= seq
    \/ /\ seq + MaxIndex = s + issues
       /\ \A p \in told : s < p[1] \/ p[1] <= seq

Issued == \E s \in 0 .. MaxIndex : Run(s)

\* Owners and maps.
Owners == TypeOK /\ Healthy /\ OneOwner /\ MapsAgree

\* Tunnels.
Tunnels == Guarded /\ VisitorsOwned /\ JoinReachesItsVisitor /\ Issued

IInv == Owners /\ Tunnels

-----------------------------------------------------------------------------

(***************************************************************************)
(* Types.                                                                  *)
(***************************************************************************)

LEMMA InitTypeOK == Init => TypeOK
BY ConstantsAssumption DEF Init, TypeOK, Index

LEMMA EvictType ==
    ASSUME TypeOK, NEW a \in Addr
    PROVE  /\ Evict(a).msa \in [Bev -> Addr \union {NoAddr}]
           /\ Evict(a).asa \in [Addr -> Bev \union {NoBev}]
           /\ Evict(a).bound \in [Addr -> Bev \union {NoBev}]
           /\ Evict(a).cb \in [Bev -> {"freed", "server", "agent", "relay"}]
BY DEF TypeOK, Evict, Unbound

LEMMA NextSeqType ==
    ASSUME NEW s \in 0 .. MaxIndex
    PROVE  NextSeq(s) \in Index
BY ConstantsAssumption DEF NextSeq, Index

LEMMA NextTypeOK == TypeOK /\ [Next]_vars => TypeOK'
<1> SUFFICES ASSUME TypeOK, [Next]_vars
             PROVE  TypeOK'
  OBVIOUS
<1> USE DEF agentVars, tunnelVars, visitorVars, historyVars
<1>1. ASSUME NEW b \in Bev, Accept(b) \/ Rejected(b) \/ AgentFail(b)
      PROVE  TypeOK'
  BY <1>1 DEF TypeOK, Accept, Rejected, AgentFail, CloseAndRemove, Unbound
<1>2. ASSUME NEW b \in Bev, NEW a \in Addr, AllocOk(b, a) \/ AllocFails(b, a)
      PROVE  TypeOK'
  <2> DEFINE e == Evict(a)
  <2>1. /\ e.msa \in [Bev -> Addr \union {NoAddr}]
        /\ e.asa \in [Addr -> Bev \union {NoBev}]
        /\ e.bound \in [Addr -> Bev \union {NoBev}]
        /\ e.cb \in [Bev -> {"freed", "server", "agent", "relay"}]
    BY EvictType
  <2> HIDE DEF e
  <2>2. CASE AllocOk(b, a)
    BY <2>1, <2>2 DEF TypeOK, AllocOk, Remove, e
  <2>3. CASE AllocFails(b, a)
    BY <2>1, <2>3 DEF TypeOK, AllocFails, CloseAndRemove, e
  <2> QED BY <1>2, <2>2, <2>3
<1>3. ASSUME NEW b \in Bev, NEW i \in Index,
             JoinRefused(b, i) \/ JoinOk(b, i) \/ JoinAttachFails(b, i) \/ JoinStartFails(b, i)
      PROVE  TypeOK'
  <2>1. CASE JoinRefused(b, i)
    BY <2>1 DEF TypeOK, JoinRefused, CloseAndRemove
  <2>2. CASE JoinOk(b, i)
    BY <2>2 DEF TypeOK, JoinOk, Remove
  <2>3. CASE JoinAttachFails(b, i)
    BY <2>3 DEF TypeOK, JoinAttachFails, CloseAndRemove, TunnelEnds
  <2>4. CASE JoinStartFails(b, i)
    BY <2>4 DEF TypeOK, JoinStartFails, Remove, Freed, TunnelEnds
  <2> QED BY <1>3, <2>1, <2>2, <2>3, <2>4
<1>4. ASSUME NEW a \in Addr, NEW v \in Visitor, VisitOk(a, v) \/ VisitFails(a, v)
      PROVE  TypeOK'
  <2>1. Visits(a, v)
    BY <1>4 DEF VisitOk, VisitFails
  <2>2. seq' \in Index
    BY <2>1, NextSeqType DEF TypeOK, Visits
  <2>3. seq' \in 0 .. MaxIndex /\ issues' \in 0 .. MaxIndex
    BY <2>1, <2>2, ConstantsAssumption DEF TypeOK, Visits, Index
  <2>4. told' \subseteq Index \X Visitor
    <3>1. told' \subseteq told \union {<<seq', v>>}
      BY <1>4 DEF VisitOk, VisitFails
    <3>2. <<seq', v>> \in Index \X Visitor
      BY <2>2
    <3>3. told \subseteq Index \X Visitor
      BY DEF TypeOK
    <3> QED BY <3>1, <3>2, <3>3
  <2>5. CASE VisitOk(a, v)
    <3>1. visitorOf' \in [Index -> Visitor \union {NoVisitor}]
      BY <2>2, <2>5 DEF TypeOK, VisitOk
    <3>2. timer' \in [Index -> BOOLEAN] /\ watch' \in [Index -> BOOLEAN]
      BY <2>2, <2>5, ConstantsAssumption, Zenon DEF TypeOK, VisitOk
    <3>3. edge' \in [Visitor -> BOOLEAN] /\ vis' \in [Visitor -> {"new", "open", "closed"}]
      BY <2>5, ConstantsAssumption DEF TypeOK, VisitOk
    <3> QED BY <2>1, <2>3, <2>4, <3>1, <3>2, <3>3 DEF TypeOK, Visits
  <2>6. CASE VisitFails(a, v)
    <3>1. vis' \in [Visitor -> {"new", "open", "closed"}]
      BY <2>6 DEF TypeOK, VisitFails
    <3> QED BY <2>1, <2>3, <2>4, <2>6, <3>1 DEF TypeOK, Visits, VisitFails
  <2> QED BY <1>4, <2>5, <2>6
<1>5. ASSUME NEW i \in Index, ToWatch(i) \/ JoinTimeout(i) \/ RelayCloses(i)
      PROVE  TypeOK'
  <2>1. ASSUME NEW b \in Bev \union {NoBev}
        PROVE  Freed(b, cb) \in [Bev -> {"freed", "server", "agent", "relay"}]
    BY DEF TypeOK, Freed
  <2>2. clientOf[i] \in Bev \union {NoBev}
    BY DEF TypeOK
  <2>3. Freed(clientOf[i], cb) \in [Bev -> {"freed", "server", "agent", "relay"}]
    BY <2>1, <2>2
  <2>4. ASSUME TunnelEnds(i)
        PROVE  /\ visitorOf' \in [Index -> Visitor \union {NoVisitor}]
               /\ clientOf' \in [Index -> Bev \union {NoBev}]
               /\ timer' \in [Index -> BOOLEAN]
               /\ watch' \in [Index -> BOOLEAN]
               /\ vis' \in [Visitor -> {"new", "open", "closed"}]
    BY <2>4 DEF TypeOK, TunnelEnds
  <2>5. CASE JoinTimeout(i)
    BY <2>3, <2>4, <2>5 DEF TypeOK, JoinTimeout
  <2>6. CASE RelayCloses(i)
    BY <2>3, <2>4, <2>6 DEF TypeOK, RelayCloses
  <2>7. CASE ToWatch(i)
    <3>1. edge' \in [Visitor -> BOOLEAN]
      BY <2>7 DEF TypeOK, ToWatch
    <3>2. CASE UNCHANGED <<cb, tunnelVars, vis>>
      BY <2>7, <3>1, <3>2 DEF TypeOK, ToWatch
    <3>3. CASE TunnelEnds(i) /\ cb' = Freed(clientOf[i], cb)
      BY <2>3, <2>4, <2>7, <3>1, <3>3 DEF TypeOK, ToWatch
    <3> QED BY <2>7, <3>2, <3>3 DEF ToWatch
  <2> QED BY <1>5, <2>5, <2>6, <2>7
<1>6. ASSUME NEW v \in Visitor, VisitorSends(v) \/ \E how \in {"fin", "rst"} : VisitorLeaves(v, how)
      PROVE  TypeOK'
  <2>1. CASE VisitorSends(v)
    BY <2>1 DEF TypeOK, VisitorSends
  <2>2. ASSUME NEW how \in {"fin", "rst"}, VisitorLeaves(v, how)
        PROVE  TypeOK'
    <3>1. gone' \in [Visitor -> {"no", "fin", "rst"}]
      BY <2>2 DEF TypeOK, VisitorLeaves
    <3>2. edge' \in [Visitor -> BOOLEAN]
      BY <2>2, ConstantsAssumption, Zenon DEF TypeOK, VisitorLeaves
    <3> QED BY <2>2, <3>1, <3>2 DEF TypeOK, VisitorLeaves
  <2> QED BY <1>6, <2>1, <2>2
<1>7. CASE Restart
  <2>1. health' \in {"ok", "fatal", "misuse"}
    BY <1>7 DEF TypeOK, Restart
  <2>2. vis' \in [Visitor -> {"new", "open", "closed"}]
    BY <1>7 DEF TypeOK, Restart
  <2> QED BY <1>7, <2>1, <2>2 DEF TypeOK, Restart
<1>8. CASE UNCHANGED vars
  BY <1>8 DEF TypeOK, vars
<1> QED BY <1>1, <1>2, <1>3, <1>4, <1>5, <1>6, <1>7, <1>8 DEF Next

THEOREM TypeCorrect == Spec => []TypeOK
BY InitTypeOK, NextTypeOK, PTL DEF Spec

-----------------------------------------------------------------------------

(***************************************************************************)
(* Owners: who frees what.                                                 *)
(***************************************************************************)

LEMMA InitOwners == Init => Owners
<1> SUFFICES ASSUME Init
             PROVE  Owners
  OBVIOUS
<1>1. TypeOK /\ Healthy
  BY InitTypeOK DEF Init, Healthy
<1>2. OneOwner
  BY ConstantsAssumption DEF Init, OneOwner
<1>3. MapsAgree
  BY ConstantsAssumption DEF Init, MapsAgree
<1> QED BY <1>1, <1>2, <1>3 DEF Owners

\* What alloc_agent leaves of the agent that has the address.
LEMMA EvictOwners ==
    ASSUME Owners, NEW a \in Addr
    PROVE  /\ ~EvictFatal(a)
           /\ Evict(a).asa[a] = NoBev
           /\ \A b \in Bev, x \in Addr :
                 /\ Evict(a).msa[b] = x <=> Evict(a).asa[x] = b
                 /\ Evict(a).bound[x] = Evict(a).asa[x]
           /\ \A b \in Bev :
                 /\ Evict(a).msa[b] # NoAddr <=> Evict(a).cb[b] = "agent"
                 /\ Evict(a).cb[b] = "server" <=> cb[b] = "server"
                 /\ Evict(a).cb[b] = "relay" <=> cb[b] = "relay"
<1> DEFINE o == asa[a]
<1>1. CASE o = NoBev
  <2>1. ~EvictFatal(a)
    BY <1>1 DEF EvictFatal
  <2> QED BY <1>1, <2>1 DEF Evict, Owners, OneOwner, MapsAgree, TypeOK
<1>2. CASE o # NoBev
  <2>1. o \in Bev /\ msa[o] = a /\ cb[o] = "agent"
    BY <1>2, ConstantsAssumption DEF Owners, TypeOK, OneOwner, MapsAgree
  <2>2. ~EvictFatal(a)
    BY <2>1, ConstantsAssumption DEF EvictFatal
  <2>3. /\ Evict(a).msa = [msa EXCEPT ![o] = NoAddr]
        /\ Evict(a).asa = [asa EXCEPT ![a] = NoBev]
        /\ Evict(a).cb = [cb EXCEPT ![o] = "freed"]
        /\ Evict(a).bound = Unbound(o)
    BY <1>2, <2>2 DEF Evict
  <2>4. \A x \in Addr : asa[x] = o => x = a
    BY <2>1 DEF Owners, TypeOK, MapsAgree
  <2> HIDE DEF o
  <2>5. \A b \in Bev, x \in Addr : Evict(a).msa[b] = x <=> Evict(a).asa[x] = b
    <3> TAKE b \in Bev, x \in Addr
    <3>1. Evict(a).msa[b] = IF b = o THEN NoAddr ELSE msa[b]
      BY <2>1, <2>3 DEF Owners, TypeOK
    <3>2. Evict(a).asa[x] = IF x = a THEN NoBev ELSE asa[x]
      BY <2>3 DEF Owners, TypeOK
    <3> QED BY <2>1, <2>4, <3>1, <3>2, ConstantsAssumption DEF Owners, TypeOK, MapsAgree
  <2>6. \A x \in Addr : Evict(a).bound[x] = Evict(a).asa[x]
    <3> TAKE x \in Addr
    <3>1. Evict(a).bound[x] = IF bound[x] = o THEN NoBev ELSE bound[x]
      BY <2>3 DEF Unbound
    <3>2. Evict(a).asa[x] = IF x = a THEN NoBev ELSE asa[x]
      BY <2>3 DEF Owners, TypeOK
    <3>3. bound[x] = asa[x] /\ (asa[x] = o <=> x = a)
      BY <2>1, <2>4 DEF Owners, MapsAgree, o
    <3> QED BY <3>1, <3>2, <3>3
  <2>7. \A b \in Bev : /\ Evict(a).msa[b] # NoAddr <=> Evict(a).cb[b] = "agent"
                       /\ Evict(a).cb[b] = "server" <=> cb[b] = "server"
                       /\ Evict(a).cb[b] = "relay" <=> cb[b] = "relay"
    <3> TAKE b \in Bev
    <3>1. Evict(a).msa[b] = IF b = o THEN NoAddr ELSE msa[b]
      BY <2>1, <2>3 DEF Owners, TypeOK
    <3>2. Evict(a).cb[b] = IF b = o THEN "freed" ELSE cb[b]
      BY <2>1, <2>3 DEF Owners, TypeOK
    <3> QED BY <2>1, <3>1, <3>2 DEF Owners, OneOwner
  <2> QED BY <2>1, <2>2, <2>3, <2>5, <2>6, <2>7 DEF Owners, TypeOK
<1> QED BY <1>1, <1>2

LEMMA AcceptOwners ==
    ASSUME Owners, NEW b \in Bev, Accept(b)
    PROVE  Healthy' /\ OneOwner' /\ MapsAgree'
<1> USE DEF agentVars, tunnelVars
<1>1. Healthy' /\ MapsAgree'
  BY DEF Owners, Healthy, MapsAgree, Accept
<1>2. OneOwner'
  BY DEF Owners, TypeOK, OneOwner, Accept
<1> QED BY <1>1, <1>2

\* A bufferevent of the server's is closed, and no table but cb changes.
LEMMA CloseOwners ==
    ASSUME Owners, NEW b \in Bev, cb[b] = "server", CloseAndRemove(b, cb, health),
           UNCHANGED agentVars, UNCHANGED tunnelVars
    PROVE  Healthy' /\ OneOwner' /\ MapsAgree'
<1> USE DEF agentVars, tunnelVars
<1>1. Healthy' /\ MapsAgree'
  BY DEF Owners, TypeOK, Healthy, OneOwner, MapsAgree, CloseAndRemove
<1>2. OneOwner'
  BY DEF Owners, TypeOK, OneOwner, CloseAndRemove
<1> QED BY <1>1, <1>2

LEMMA AllocOwners ==
    ASSUME Owners, NEW b \in Bev, NEW a \in Addr, AllocOk(b, a) \/ AllocFails(b, a)
    PROVE  Healthy' /\ OneOwner' /\ MapsAgree'
<1> DEFINE e == Evict(a)
<1> USE DEF tunnelVars
<1>1. /\ e.msa \in [Bev -> Addr \union {NoAddr}]
      /\ e.asa \in [Addr -> Bev \union {NoBev}]
      /\ e.bound \in [Addr -> Bev \union {NoBev}]
      /\ e.cb \in [Bev -> {"freed", "server", "agent", "relay"}]
  BY EvictType DEF Owners
<1>2. /\ ~EvictFatal(a)
      /\ e.asa[a] = NoBev
      /\ \A c \in Bev, x \in Addr : e.msa[c] = x <=> e.asa[x] = c
      /\ \A x \in Addr : e.bound[x] = e.asa[x]
      /\ \A c \in Bev : /\ e.msa[c] # NoAddr <=> e.cb[c] = "agent"
                        /\ e.cb[c] = "server" <=> cb[c] = "server"
                        /\ e.cb[c] = "relay" <=> cb[c] = "relay"
  BY EvictOwners
<1>3. cb[b] = "server" /\ b \in sbe
  BY DEF AllocOk, CanListen, AllocFails, Owners, OneOwner
<1>4. \A c \in Bev : c \in sbe <=> cb[c] = "server"
  BY DEF Owners, OneOwner
<1>5. \A c \in Bev : (\E i \in Index : clientOf[i] = c) <=> cb[c] = "relay"
  BY DEF Owners, OneOwner
<1>6. \A c \in Bev : \A i, j \in Index : clientOf[i] = c /\ clientOf[j] = c => i = j
  BY DEF Owners, OneOwner
<1>7. CASE AllocOk(b, a)
  <2>1. /\ msa' = [e.msa EXCEPT ![b] = a]
        /\ asa' = [e.asa EXCEPT ![a] = b]
        /\ bound' = [e.bound EXCEPT ![a] = b]
        /\ cb' = [e.cb EXCEPT ![b] = "agent"]
        /\ sbe' = sbe \ {b}
        /\ UNCHANGED <<health, clientOf>>
    BY <1>3, <1>7 DEF AllocOk, Remove
  <2> HIDE DEF e
  <2>2. MapsAgree'
    <3>1. \A c \in Bev, x \in Addr : msa'[c] = x <=> asa'[x] = c
      BY <1>1, <1>2, <1>3, <2>1, ConstantsAssumption
    <3>2. \A x \in Addr : bound'[x] = asa'[x]
      BY <1>1, <1>2, <2>1
    <3> QED BY <3>1, <3>2 DEF MapsAgree
  <2>3. OneOwner'
    <3> SUFFICES ASSUME NEW c \in Bev
                 PROVE  /\ c \in sbe' <=> cb'[c] = "server"
                        /\ msa'[c] # NoAddr <=> cb'[c] = "agent"
                        /\ (\E i \in Index : clientOf'[i] = c) <=> cb'[c] = "relay"
                        /\ \A i, j \in Index : clientOf'[i] = c /\ clientOf'[j] = c => i = j
      BY DEF OneOwner
    <3>1. /\ cb'[c] = IF c = b THEN "agent" ELSE e.cb[c]
          /\ msa'[c] = IF c = b THEN a ELSE e.msa[c]
      BY <1>1, <2>1
    <3>2. \A i, j \in Index : clientOf'[i] = c /\ clientOf'[j] = c => i = j
      BY <1>6, <2>1
    <3>3. (\E i \in Index : clientOf'[i] = c) <=> cb[c] = "relay"
      BY <1>5, <2>1
    <3> QED BY <1>2, <1>3, <1>4, <2>1, <3>1, <3>2, <3>3, ConstantsAssumption
  <2> QED BY <2>1, <2>2, <2>3 DEF Owners, Healthy
<1>8. CASE AllocFails(b, a)
  <2>1. /\ msa' = e.msa
        /\ asa' = e.asa
        /\ bound' = e.bound
        /\ cb' = [e.cb EXCEPT ![b] = "freed"]
        /\ sbe' = sbe \ {b}
        /\ e.cb[b] = "server"
        /\ UNCHANGED <<health, clientOf>>
    BY <1>2, <1>3, <1>8 DEF AllocFails, CloseAndRemove
  <2> HIDE DEF e
  <2>2. MapsAgree'
    BY <1>2, <2>1 DEF MapsAgree
  <2>3. OneOwner'
    <3> SUFFICES ASSUME NEW c \in Bev
                 PROVE  /\ c \in sbe' <=> cb'[c] = "server"
                        /\ msa'[c] # NoAddr <=> cb'[c] = "agent"
                        /\ (\E i \in Index : clientOf'[i] = c) <=> cb'[c] = "relay"
                        /\ \A i, j \in Index : clientOf'[i] = c /\ clientOf'[j] = c => i = j
      BY DEF OneOwner
    <3>1. cb'[c] = IF c = b THEN "freed" ELSE e.cb[c]
      BY <1>1, <2>1
    <3>2. \A i, j \in Index : clientOf'[i] = c /\ clientOf'[j] = c => i = j
      BY <1>6, <2>1
    <3>3. (\E i \in Index : clientOf'[i] = c) <=> cb[c] = "relay"
      BY <1>5, <2>1
    <3> QED BY <1>2, <1>3, <1>4, <2>1, <3>1, <3>2, <3>3
  <2> QED BY <2>1, <2>2, <2>3 DEF Owners, Healthy
<1> QED BY <1>7, <1>8

LEMMA AgentFailOwners ==
    ASSUME Owners, NEW b \in Bev, AgentFail(b)
    PROVE  Healthy' /\ OneOwner' /\ MapsAgree'
<1> DEFINE a == msa[b]
<1>1. cb[b] = "agent" /\ a # NoAddr /\ a \in Addr /\ asa[a] = b
  BY DEF AgentFail, Owners, TypeOK, OneOwner, MapsAgree
<1>2. /\ asa' = [asa EXCEPT ![a] = NoBev]
      /\ msa' = [msa EXCEPT ![b] = NoAddr]
      /\ bound' = Unbound(b)
      /\ cb' = [cb EXCEPT ![b] = "freed"]
      /\ UNCHANGED <<health, sbe, clientOf>>
  BY <1>1 DEF AgentFail, tunnelVars
<1>3. \A x \in Addr : asa[x] = b <=> x = a
  BY <1>1 DEF Owners, TypeOK, MapsAgree
<1> HIDE DEF a
<1>4. MapsAgree'
  <2>1. \A c \in Bev, x \in Addr : msa'[c] = x <=> asa'[x] = c
    <3> TAKE c \in Bev, x \in Addr
    <3>1. /\ msa'[c] = IF c = b THEN NoAddr ELSE msa[c]
          /\ asa'[x] = IF x = a THEN NoBev ELSE asa[x]
      BY <1>2 DEF Owners, TypeOK
    <3>2. msa[c] = x <=> asa[x] = c
      BY DEF Owners, MapsAgree
    <3> QED BY <1>3, <3>1, <3>2, ConstantsAssumption
  <2>2. \A x \in Addr : bound'[x] = asa'[x]
    <3> TAKE x \in Addr
    <3>1. /\ bound'[x] = IF bound[x] = b THEN NoBev ELSE bound[x]
          /\ asa'[x] = IF x = a THEN NoBev ELSE asa[x]
      BY <1>2 DEF Owners, TypeOK, Unbound
    <3>2. bound[x] = asa[x]
      BY DEF Owners, MapsAgree
    <3> QED BY <1>3, <3>1, <3>2
  <2> QED BY <2>1, <2>2 DEF MapsAgree
<1>5. OneOwner'
  <2> SUFFICES ASSUME NEW c \in Bev
               PROVE  /\ c \in sbe' <=> cb'[c] = "server"
                      /\ msa'[c] # NoAddr <=> cb'[c] = "agent"
                      /\ (\E i \in Index : clientOf'[i] = c) <=> cb'[c] = "relay"
                      /\ \A i, j \in Index : clientOf'[i] = c /\ clientOf'[j] = c => i = j
    BY DEF OneOwner
  <2>1. /\ cb'[c] = IF c = b THEN "freed" ELSE cb[c]
        /\ msa'[c] = IF c = b THEN NoAddr ELSE msa[c]
    BY <1>2 DEF Owners, TypeOK
  <2> QED BY <1>1, <1>2, <2>1 DEF Owners, OneOwner
<1> QED BY <1>2, <1>4, <1>5 DEF Owners, Healthy

\* A tunnel ends: its client's bufferevent, if it has one, is freed.
LEMMA EndOwners ==
    ASSUME Owners, NEW i \in Index, TunnelEnds(i), cb' = Freed(clientOf[i], cb),
           UNCHANGED <<health, sbe>>, UNCHANGED agentVars
    PROVE  Healthy' /\ OneOwner' /\ MapsAgree'
<1> USE DEF agentVars
<1>1. Healthy' /\ MapsAgree'
  BY DEF Owners, Healthy, MapsAgree
<1>2. OneOwner'
  <2> SUFFICES ASSUME NEW c \in Bev
               PROVE  /\ c \in sbe' <=> cb'[c] = "server"
                      /\ msa'[c] # NoAddr <=> cb'[c] = "agent"
                      /\ (\E j \in Index : clientOf'[j] = c) <=> cb'[c] = "relay"
                      /\ \A j, k \in Index : clientOf'[j] = c /\ clientOf'[k] = c => j = k
    BY DEF OneOwner
  <2>1. \A j \in Index : clientOf'[j] = IF j = i THEN NoBev ELSE clientOf[j]
    BY DEF Owners, TypeOK, TunnelEnds
  <2>2. cb'[c] = IF c = clientOf[i] THEN "freed" ELSE cb[c]
    BY DEF Freed
  <2>3. c # NoBev
    BY ConstantsAssumption
  <2>4. c = clientOf[i] => cb[c] = "relay"
    BY DEF Owners, OneOwner
  <2> QED BY <2>1, <2>2, <2>3, <2>4 DEF Owners, OneOwner
<1> QED BY <1>1, <1>2

LEMMA JoinOwners ==
    ASSUME Owners, NEW b \in Bev, NEW i \in Index,
           JoinOk(b, i) \/ JoinAttachFails(b, i) \/ JoinStartFails(b, i)
    PROVE  Healthy' /\ OneOwner' /\ MapsAgree'
<1> USE DEF agentVars
<1>1. cb[b] = "server" /\ b \in sbe /\ clientOf[i] = NoBev
  BY DEF JoinOk, JoinAttachFails, JoinStartFails, Waiting, Joined, Owners, OneOwner
<1>2. Healthy' /\ MapsAgree'
  BY <1>1 DEF JoinOk, JoinAttachFails, JoinStartFails, CloseAndRemove, Remove, Freed,
              Owners, Healthy, MapsAgree
<1>3. OneOwner'
  <2> SUFFICES ASSUME NEW c \in Bev
               PROVE  /\ c \in sbe' <=> cb'[c] = "server"
                      /\ msa'[c] # NoAddr <=> cb'[c] = "agent"
                      /\ (\E j \in Index : clientOf'[j] = c) <=> cb'[c] = "relay"
                      /\ \A j, k \in Index : clientOf'[j] = c /\ clientOf'[k] = c => j = k
    BY DEF OneOwner
  <2>1. \A j \in Index : clientOf[j] # b
    BY <1>1 DEF Owners, OneOwner
  <2>2. sbe' = sbe \ {b} /\ UNCHANGED msa
    BY DEF JoinOk, JoinAttachFails, JoinStartFails, CloseAndRemove, Remove
  <2>3. CASE JoinOk(b, i)
    <3>1. /\ cb'[c] = IF c = b THEN "relay" ELSE cb[c]
          /\ \A j \in Index : clientOf'[j] = IF j = i THEN b ELSE clientOf[j]
      BY <2>3 DEF JoinOk, Remove, Owners, TypeOK
    <3> QED BY <1>1, <2>1, <2>2, <3>1, ConstantsAssumption DEF Owners, OneOwner
  <2>4. CASE JoinAttachFails(b, i) \/ JoinStartFails(b, i)
    <3>1. /\ cb'[c] = IF c = b THEN "freed" ELSE cb[c]
          /\ \A j \in Index : clientOf'[j] = IF j = i THEN NoBev ELSE clientOf[j]
      BY <2>4 DEF JoinAttachFails, JoinStartFails, TunnelEnds, CloseAndRemove, Remove, Freed,
                  Owners, TypeOK
    <3> QED BY <1>1, <2>1, <2>2, <3>1, ConstantsAssumption DEF Owners, OneOwner
  <2> QED BY <2>3, <2>4
<1> QED BY <1>2, <1>3

\* Whatever the server has when it ends has one owner, who frees it.
LEMMA RestartOwners ==
    ASSUME Owners, Restart
    PROVE  Healthy' /\ OneOwner' /\ MapsAgree'
<1>1. FreesOnce
  <2>1. OneOwner /\ sbe \subseteq Bev
    BY DEF Owners, TypeOK
  <2>2. \A i \in Index : Joined(i) => clientOf[i] \in Bev
    BY DEF Owners, TypeOK, Joined
  <2>3. \A i, j \in Index : Joined(i) /\ clientOf[i] = clientOf[j] => i = j
    BY <2>1, <2>2 DEF OneOwner
  <2>4. \A i \in Index : Joined(i) => clientOf[i] \notin sbe /\ msa[clientOf[i]] = NoAddr
    <3> SUFFICES ASSUME NEW i \in Index, Joined(i)
                 PROVE  clientOf[i] \notin sbe /\ msa[clientOf[i]] = NoAddr
      OBVIOUS
    <3> DEFINE b == clientOf[i]
    <3>1. b \in Bev /\ \E j \in Index : clientOf[j] = b
      BY <2>2
    <3> HIDE DEF b
    <3>2. cb[b] = "relay" /\ b \notin sbe /\ msa[b] = NoAddr
      BY <2>1, <3>1 DEF OneOwner
    <3> QED BY <3>2 DEF b
  <2>5. \A b \in sbe : msa[b] = NoAddr
    BY <2>1 DEF OneOwner
  <2> QED BY <2>3, <2>4, <2>5 DEF FreesOnce
<1>2. Healthy'
  BY <1>1 DEF Owners, Healthy, Restart
<1>3. OneOwner'
  BY ConstantsAssumption DEF Restart, OneOwner
<1>4. MapsAgree'
  BY ConstantsAssumption DEF Restart, MapsAgree
<1> QED BY <1>2, <1>3, <1>4

LEMMA NextOwners == Owners /\ [Next]_vars => Owners'
<1> SUFFICES ASSUME Owners, [Next]_vars
             PROVE  Owners'
  OBVIOUS
<1> DEFINE Kept == Healthy' /\ OneOwner' /\ MapsAgree'
<1>0. ASSUME UNCHANGED <<health, cb, sbe>>, UNCHANGED agentVars, UNCHANGED clientOf
      PROVE  Kept
  BY <1>0 DEF Owners, Healthy, OneOwner, MapsAgree, agentVars
<1>1. TypeOK'
  BY NextTypeOK DEF Owners
<1>2. ASSUME NEW b \in Bev, Accept(b)
      PROVE  Kept
  BY <1>2, AcceptOwners
<1>3. ASSUME NEW b \in Bev, Rejected(b)
      PROVE  Kept
  BY <1>3, CloseOwners DEF Rejected
<1>4. ASSUME NEW b \in Bev, AgentFail(b)
      PROVE  Kept
  BY <1>4, AgentFailOwners
<1>5. ASSUME NEW b \in Bev, NEW a \in Addr, AllocOk(b, a) \/ AllocFails(b, a)
      PROVE  Kept
  BY <1>5, AllocOwners
<1>6. ASSUME NEW b \in Bev, NEW i \in Index, JoinRefused(b, i)
      PROVE  Kept
  BY <1>6, CloseOwners DEF JoinRefused
<1>7. ASSUME NEW b \in Bev, NEW i \in Index,
             JoinOk(b, i) \/ JoinAttachFails(b, i) \/ JoinStartFails(b, i)
      PROVE  Kept
  BY <1>7, JoinOwners
<1>8. ASSUME NEW a \in Addr, NEW v \in Visitor, VisitOk(a, v) \/ VisitFails(a, v)
      PROVE  Kept
  BY <1>0, <1>8 DEF VisitOk, VisitFails, Visits
<1>9. ASSUME NEW i \in Index, ToWatch(i) \/ JoinTimeout(i) \/ RelayCloses(i)
      PROVE  Kept
  <2>1. CASE JoinTimeout(i) \/ RelayCloses(i)
    BY <2>1, EndOwners DEF JoinTimeout, RelayCloses
  <2>2. CASE ToWatch(i)
    <3>1. CASE UNCHANGED <<cb, tunnelVars, vis>>
      BY <1>0, <2>2, <3>1 DEF ToWatch, tunnelVars
    <3>2. CASE TunnelEnds(i) /\ cb' = Freed(clientOf[i], cb)
      BY <2>2, <3>2, EndOwners DEF ToWatch
    <3> QED BY <2>2, <3>1, <3>2 DEF ToWatch
  <2> QED BY <1>9, <2>1, <2>2
<1>10. ASSUME NEW v \in Visitor, VisitorSends(v) \/ \E how \in {"fin", "rst"} : VisitorLeaves(v, how)
       PROVE  Kept
  BY <1>0, <1>10 DEF VisitorSends, VisitorLeaves, tunnelVars
<1>11. ASSUME UNCHANGED vars
       PROVE  Kept
  BY <1>0, <1>11 DEF vars, agentVars
<1>12. ASSUME Restart
       PROVE  Kept
  BY <1>12, RestartOwners
<1>13. Healthy' /\ OneOwner' /\ MapsAgree'
  BY <1>2, <1>3, <1>4, <1>5, <1>6, <1>7, <1>8, <1>9, <1>10, <1>11, <1>12 DEF Next
<1> QED BY <1>1, <1>13 DEF Owners

\* The server never takes one of its fatal branches and never frees a
\* connection twice, whatever clients and visitors do.
THEOREM NeverFatal == Spec => []Healthy
<1>1. Owners => Healthy
  BY DEF Owners
<1> QED BY <1>1, InitOwners, NextOwners, PTL DEF Spec

\* Every connection has one owner, the one whose callbacks it has.
THEOREM OwnedByOne == Spec => []OneOwner
<1>1. Owners => OneOwner
  BY DEF Owners
<1> QED BY <1>1, InitOwners, NextOwners, PTL DEF Spec

\* The maps of agents and the listeners never disagree.
THEOREM AgentMapsAgree == Spec => []MapsAgree
<1>1. Owners => MapsAgree
  BY DEF Owners
<1> QED BY <1>1, InitOwners, NextOwners, PTL DEF Spec

\* A client that comes back always gets its address, if the system lets the
\* server listen: eviction leaves no map and no listener in the way.
THEOREM AlwaysReclaimed == Spec => []ReclaimPossible
<1>1. Owners => ReclaimPossible
  <2> SUFFICES ASSUME Owners, NEW b \in sbe, NEW a \in Addr
               PROVE  CanListen(b, a)
    BY DEF ReclaimPossible
  <2>1. b \in Bev /\ cb[b] = "server"
    BY DEF Owners, TypeOK, OneOwner
  <2>2. ~EvictFatal(a) /\ Evict(a).asa[a] = NoBev /\ Evict(a).bound[a] = Evict(a).asa[a]
    BY <2>1, EvictOwners
  <2> QED BY <2>1, <2>2 DEF CanListen
<1> QED BY <1>1, InitOwners, NextOwners, PTL DEF Spec

-----------------------------------------------------------------------------

(***************************************************************************)
(* Tunnels: an index is given out once, so what is known of it is fresh.   *)
(***************************************************************************)

LEMMA InitTunnels == Init => Tunnels
<1> SUFFICES ASSUME Init
             PROVE  Tunnels
  OBVIOUS
<1>1. Guarded
  BY ConstantsAssumption DEF Init, Guarded, Waiting, Live, Joined
<1>2. VisitorsOwned
  BY ConstantsAssumption DEF Init, VisitorsOwned
<1>3. JoinReachesItsVisitor
  BY DEF Init, JoinReachesItsVisitor, Live
<1>4. Issued
  <2>1. seq \in 0 .. MaxIndex /\ issues = 0 /\ told = {}
    BY DEF Init
  <2>2. Run(seq)
    BY <2>1, ConstantsAssumption DEF Run
  <2> QED BY <2>1, <2>2 DEF Issued
<1> QED BY <1>1, <1>2, <1>3, <1>4 DEF Tunnels

\* The next index has never been told to a client: the counter has not gone
\* round its values since it had its first.
LEMMA FreshIndex ==
    ASSUME TypeOK, Issued, issues < MaxIndex
    PROVE  \A p \in told : p[1] # NextSeq(seq)
<1>1. PICK s \in 0 .. MaxIndex : Run(s)
  BY DEF Issued
<1>2. \A p \in told : p[1] \in Int
  BY ConstantsAssumption DEF TypeOK, Index
<1>3. /\ seq \in Int /\ issues \in Int /\ MaxIndex \in Int /\ s \in Int
      /\ 0 <= s /\ 0 <= seq /\ seq <= MaxIndex /\ 0 <= issues
  BY ConstantsAssumption DEF TypeOK
<1>4. CASE seq = s + issues /\ \A p \in told : s < p[1] /\ p[1] <= seq
  BY <1>2, <1>3, <1>4 DEF NextSeq
<1>5. CASE seq + MaxIndex = s + issues /\ \A p \in told : s < p[1] \/ p[1] <= seq
  BY <1>2, <1>3, <1>5 DEF NextSeq
<1> QED BY <1>1, <1>4, <1>5 DEF Run

\* The run goes on with the index that follows.
LEMMA RunGoesOn ==
    ASSUME TypeOK, Issued, NEW v \in Visitor, issues < MaxIndex,
           seq' = NextSeq(seq), issues' = issues + 1,
           told' \in {told, told \union {<<seq', v>>}}
    PROVE  Issued'
<1>1. PICK s \in 0 .. MaxIndex : Run(s)
  BY DEF Issued
<1>2. \A p \in told : p[1] \in Int
  BY ConstantsAssumption DEF TypeOK, Index
<1>3. /\ seq \in Int /\ issues \in Int /\ MaxIndex \in Int /\ s \in Int
      /\ 0 <= s /\ 0 <= seq /\ seq <= MaxIndex /\ 0 <= issues /\ s <= MaxIndex
  BY ConstantsAssumption DEF TypeOK
<1>4. \A p \in told' : p \in told \/ p[1] = seq'
  OBVIOUS
<1>5. Run(s)'
  <2>1. CASE seq = s + issues /\ \A p \in told : s < p[1] /\ p[1] <= seq
    <3>1. CASE seq = MaxIndex
      <4>1. seq' = 1 /\ seq' + MaxIndex = s + issues'
        BY <1>3, <2>1, <3>1 DEF NextSeq
      <4>2. \A p \in told' : s < p[1] \/ p[1] <= seq'
        BY <1>2, <1>3, <1>4, <2>1, <4>1
      <4> QED BY <4>1, <4>2 DEF Run
    <3>2. CASE seq # MaxIndex
      <4>1. seq' = seq + 1 /\ seq' = s + issues'
        BY <1>3, <2>1, <3>2 DEF NextSeq
      <4>2. \A p \in told' : s < p[1] /\ p[1] <= seq'
        BY <1>2, <1>3, <1>4, <2>1, <4>1
      <4> QED BY <4>1, <4>2 DEF Run
    <3> QED BY <3>1, <3>2
  <2>2. CASE seq + MaxIndex = s + issues /\ \A p \in told : s < p[1] \/ p[1] <= seq
    <3>1. seq' = seq + 1 /\ seq' + MaxIndex = s + issues'
      BY <1>3, <2>2 DEF NextSeq
    <3>2. \A p \in told' : s < p[1] \/ p[1] <= seq'
      BY <1>2, <1>3, <1>4, <2>2, <3>1
    <3> QED BY <3>1, <3>2 DEF Run
  <2> QED BY <1>1, <2>1, <2>2 DEF Run
<1> QED BY <1>5 DEF Issued

LEMMA SameTunnels ==
    ASSUME Tunnels, UNCHANGED tunnelVars, UNCHANGED historyVars, UNCHANGED <<seq, vis>>
    PROVE  Tunnels'
<1> USE DEF tunnelVars, historyVars
<1>1. Guarded'
  BY DEF Tunnels, Guarded, Waiting, Live, Joined
<1>2. VisitorsOwned'
  BY DEF Tunnels, VisitorsOwned
<1>3. JoinReachesItsVisitor'
  BY DEF Tunnels, JoinReachesItsVisitor, Live
<1>4. Issued'
  BY DEF Tunnels, Issued, Run
<1> QED BY <1>1, <1>2, <1>3, <1>4 DEF Tunnels

LEMMA EndTunnels ==
    ASSUME TypeOK, Tunnels, NEW i \in Index, TunnelEnds(i),
           UNCHANGED historyVars, UNCHANGED seq
    PROVE  Tunnels'
<1> USE DEF historyVars
<1>1. \A j \in Index :
         /\ visitorOf'[j] = IF j = i THEN NoVisitor ELSE visitorOf[j]
         /\ clientOf'[j] = IF j = i THEN NoBev ELSE clientOf[j]
         /\ timer'[j] = IF j = i THEN FALSE ELSE timer[j]
         /\ watch'[j] = IF j = i THEN FALSE ELSE watch[j]
  BY DEF TypeOK, TunnelEnds
<1>2. \A v \in Visitor : vis'[v] = IF v = visitorOf[i] THEN "closed" ELSE vis[v]
  BY DEF TypeOK, TunnelEnds
<1>3. Guarded'
  <2> SUFFICES ASSUME NEW j \in Index
               PROVE  /\ timer'[j] <=> Waiting(j)'
                      /\ watch'[j] <=> Waiting(j)' /\ EarlyClose
                      /\ Joined(j)' => Live(j)'
    BY DEF Guarded
  <2>1. CASE j = i
    BY <1>1, <2>1 DEF Waiting, Live, Joined
  <2>2. CASE j # i
    BY <1>1, <2>2 DEF Tunnels, Guarded, Waiting, Live, Joined
  <2> QED BY <2>1, <2>2
<1>4. VisitorsOwned'
  <2> SUFFICES ASSUME NEW v \in Visitor
               PROVE  /\ vis'[v] = "open" <=> \E j \in Index : visitorOf'[j] = v
                      /\ \A j, k \in Index : visitorOf'[j] = v /\ visitorOf'[k] = v => j = k
    BY DEF VisitorsOwned
  <2>1. v # NoVisitor
    BY ConstantsAssumption
  <2>2. /\ vis[v] = "open" <=> \E j \in Index : visitorOf[j] = v
        /\ \A j, k \in Index : visitorOf[j] = v /\ visitorOf[k] = v => j = k
    BY DEF Tunnels, VisitorsOwned
  <2> QED BY <1>1, <1>2, <2>1, <2>2, ZenonT(30)
<1>5. JoinReachesItsVisitor'
  BY <1>1 DEF Tunnels, JoinReachesItsVisitor, Live
<1>6. Issued'
  BY DEF Tunnels, Issued, Run
<1> QED BY <1>3, <1>4, <1>5, <1>6 DEF Tunnels

LEMMA JoinTunnels ==
    ASSUME TypeOK, Tunnels, NEW b \in Bev, NEW i \in Index, JoinOk(b, i)
    PROVE  Tunnels'
<1> USE DEF historyVars
<1>1. /\ Waiting(i)
      /\ UNCHANGED <<visitorOf, vis, seq, told, issues>>
      /\ \A j \in Index :
            /\ clientOf'[j] = IF j = i THEN b ELSE clientOf[j]
            /\ timer'[j] = IF j = i THEN FALSE ELSE timer[j]
            /\ watch'[j] = IF j = i THEN FALSE ELSE watch[j]
  BY DEF TypeOK, JoinOk
<1>2. Guarded'
  <2> SUFFICES ASSUME NEW j \in Index
               PROVE  /\ timer'[j] <=> Waiting(j)'
                      /\ watch'[j] <=> Waiting(j)' /\ EarlyClose
                      /\ Joined(j)' => Live(j)'
    BY DEF Guarded
  <2>1. CASE j = i
    BY <1>1, <2>1, ConstantsAssumption DEF Waiting, Live, Joined
  <2>2. CASE j # i
    BY <1>1, <2>2 DEF Tunnels, Guarded, Waiting, Live, Joined
  <2> QED BY <2>1, <2>2
<1>3. VisitorsOwned'
  BY <1>1 DEF Tunnels, VisitorsOwned
<1>4. JoinReachesItsVisitor'
  BY <1>1 DEF Tunnels, JoinReachesItsVisitor, Live
<1>5. Issued'
  BY <1>1 DEF Tunnels, Issued, Run
<1> QED BY <1>2, <1>3, <1>4, <1>5 DEF Tunnels

LEMMA VisitTunnels ==
    ASSUME TypeOK, Tunnels, NEW a \in Addr, NEW v \in Visitor, VisitOk(a, v) \/ VisitFails(a, v)
    PROVE  Tunnels'
<1> DEFINE n == NextSeq(seq)
<1>1. Visits(a, v)
  BY DEF VisitOk, VisitFails
<1>2. /\ vis[v] = "new" /\ issues < MaxIndex
      /\ seq' = n /\ issues' = issues + 1 /\ UNCHANGED clientOf
      /\ told' \in {told, told \union {<<n, v>>}}
  BY <1>1 DEF Visits, VisitOk, VisitFails
<1>3. n \in Index
  BY NextSeqType DEF TypeOK
<1>4. \A p \in told : p[1] # n
  BY <1>2, FreshIndex DEF Tunnels
<1>5. ~Live(n) /\ ~Joined(n)
  <2>1. ~Live(n)
    BY <1>3, <1>4 DEF Tunnels, JoinReachesItsVisitor
  <2> QED BY <1>3, <2>1 DEF Tunnels, Guarded
<1>6. Issued'
  BY <1>2, RunGoesOn DEF Tunnels
<1> HIDE DEF n
<1>7. \A j \in Index : visitorOf[j] # v
  BY <1>2 DEF Tunnels, VisitorsOwned
<1>8. /\ \A i \in Index, w, x \in Visitor : <<i, w>> \in told' /\ <<i, x>> \in told' => w = x
      /\ issues' > 0 => seq' \in Index
  <2> SUFFICES ASSUME NEW i \in Index, NEW w \in Visitor, NEW x \in Visitor,
                      <<i, w>> \in told', <<i, x>> \in told'
               PROVE  w = x
    BY <1>2, <1>3
  <2>1. \A y \in Visitor : <<n, y>> \notin told
    BY <1>4
  <2>2. \A y \in Visitor : <<i, y>> \in told' => <<i, y>> \in told \/ (i = n /\ y = v)
    BY <1>2
  <2> QED BY <2>1, <2>2 DEF Tunnels, JoinReachesItsVisitor
<1>9. CASE VisitFails(a, v)
  <2>1. /\ UNCHANGED <<visitorOf, timer, watch>>
        /\ \A w \in Visitor : vis'[w] = IF w = v THEN "closed" ELSE vis[w]
    BY <1>9 DEF VisitFails, TypeOK
  <2>2. Guarded'
    BY <1>2, <2>1 DEF Tunnels, Guarded, Waiting, Live, Joined
  <2>3. VisitorsOwned'
    BY <1>2, <1>7, <2>1 DEF Tunnels, VisitorsOwned
  <2>4. \A i \in Index : Live(i)' => <<i, visitorOf'[i]>> \in told'
    BY <1>2, <2>1 DEF Tunnels, JoinReachesItsVisitor, Live
  <2> QED BY <1>6, <1>8, <2>2, <2>3, <2>4 DEF Tunnels, JoinReachesItsVisitor
<1>10. CASE VisitOk(a, v)
  <2>1. /\ \A w \in Visitor : vis'[w] = IF w = v THEN "open" ELSE vis[w]
        /\ \A j \in Index :
              /\ visitorOf'[j] = IF j = n THEN v ELSE visitorOf[j]
              /\ timer'[j] = IF j = n THEN TRUE ELSE timer[j]
              /\ watch'[j] = IF j = n THEN EarlyClose ELSE watch[j]
        /\ told' = told \union {<<n, v>>}
    BY <1>2, <1>3, <1>10 DEF VisitOk, TypeOK
  <2>2. Guarded'
    <3> SUFFICES ASSUME NEW j \in Index
                 PROVE  /\ timer'[j] <=> Waiting(j)'
                        /\ watch'[j] <=> Waiting(j)' /\ EarlyClose
                        /\ Joined(j)' => Live(j)'
      BY DEF Guarded
    <3>1. CASE j = n
      BY <1>2, <1>5, <2>1, <3>1, ConstantsAssumption DEF Waiting, Live, Joined
    <3>2. CASE j # n
      BY <1>2, <2>1, <3>2 DEF Tunnels, Guarded, Waiting, Live, Joined
    <3> QED BY <3>1, <3>2
  <2>3. VisitorsOwned'
    <3> SUFFICES ASSUME NEW w \in Visitor
                 PROVE  /\ vis'[w] = "open" <=> \E j \in Index : visitorOf'[j] = w
                        /\ \A j, k \in Index : visitorOf'[j] = w /\ visitorOf'[k] = w => j = k
      BY DEF VisitorsOwned
    <3>1. visitorOf[n] # w
      BY <1>5, ConstantsAssumption DEF Live
    <3>2. CASE w = v
      BY <1>3, <1>7, <2>1, <3>2
    <3>3. CASE w # v
      <4>1. \A j \in Index : visitorOf'[j] = w <=> visitorOf[j] = w
        BY <2>1, <3>1, <3>3
      <4>2. /\ vis[w] = "open" <=> \E j \in Index : visitorOf[j] = w
            /\ \A j, k \in Index : visitorOf[j] = w /\ visitorOf[k] = w => j = k
        BY DEF Tunnels, VisitorsOwned
      <4> QED BY <2>1, <3>3, <4>1, <4>2
    <3> QED BY <3>2, <3>3
  <2>4. \A i \in Index : Live(i)' => <<i, visitorOf'[i]>> \in told'
    BY <2>1 DEF Tunnels, JoinReachesItsVisitor, Live
  <2> QED BY <1>6, <1>8, <2>2, <2>3, <2>4 DEF Tunnels, JoinReachesItsVisitor
<1> QED BY <1>9, <1>10

\* A server that starts again has no tunnels; the indices told stay told.
LEMMA RestartTunnels ==
    ASSUME TypeOK, Tunnels, Restart
    PROVE  Tunnels'
<1> USE DEF historyVars
<1>1. Guarded'
  BY ConstantsAssumption DEF Restart, Guarded, Waiting, Live, Joined
<1>2. VisitorsOwned'
  <2>1. \A v \in Visitor : vis'[v] # "open"
    BY DEF Restart
  <2>2. \A v \in Visitor, i \in Index : visitorOf'[i] # v
    BY ConstantsAssumption DEF Restart
  <2> QED BY <2>1, <2>2 DEF VisitorsOwned
<1>3. JoinReachesItsVisitor'
  BY DEF Restart, Tunnels, JoinReachesItsVisitor, Live
<1>4. Issued'
  BY DEF Restart, Tunnels, Issued, Run
<1> QED BY <1>1, <1>2, <1>3, <1>4 DEF Tunnels

LEMMA NextTunnels == TypeOK /\ Tunnels /\ [Next]_vars => Tunnels'
<1> SUFFICES ASSUME TypeOK, Tunnels, [Next]_vars
             PROVE  Tunnels'
  OBVIOUS
<1>1. ASSUME NEW b \in Bev, Accept(b) \/ Rejected(b) \/ AgentFail(b)
      PROVE  Tunnels'
  BY <1>1, SameTunnels DEF Accept, Rejected, AgentFail
<1>2. ASSUME NEW b \in Bev, NEW a \in Addr, AllocOk(b, a) \/ AllocFails(b, a)
      PROVE  Tunnels'
  BY <1>2, SameTunnels DEF AllocOk, AllocFails
<1>3. ASSUME NEW b \in Bev, NEW i \in Index, JoinRefused(b, i)
      PROVE  Tunnels'
  BY <1>3, SameTunnels DEF JoinRefused
<1>4. ASSUME NEW b \in Bev, NEW i \in Index, JoinOk(b, i)
      PROVE  Tunnels'
  BY <1>4, JoinTunnels
<1>5. ASSUME NEW b \in Bev, NEW i \in Index, JoinAttachFails(b, i) \/ JoinStartFails(b, i)
      PROVE  Tunnels'
  BY <1>5, EndTunnels DEF JoinAttachFails, JoinStartFails
<1>6. ASSUME NEW a \in Addr, NEW v \in Visitor, VisitOk(a, v) \/ VisitFails(a, v)
      PROVE  Tunnels'
  BY <1>6, VisitTunnels
<1>7. ASSUME NEW i \in Index, JoinTimeout(i) \/ RelayCloses(i)
      PROVE  Tunnels'
  BY <1>7, EndTunnels DEF JoinTimeout, RelayCloses
<1>8. ASSUME NEW i \in Index, ToWatch(i)
      PROVE  Tunnels'
  <2>1. CASE UNCHANGED <<cb, tunnelVars, vis>>
    BY <1>8, <2>1, SameTunnels DEF ToWatch
  <2>2. CASE TunnelEnds(i)
    BY <1>8, <2>2, EndTunnels DEF ToWatch
  <2> QED BY <1>8, <2>1, <2>2 DEF ToWatch
<1>9. ASSUME NEW v \in Visitor, VisitorSends(v) \/ \E how \in {"fin", "rst"} : VisitorLeaves(v, how)
      PROVE  Tunnels'
  BY <1>9, SameTunnels DEF VisitorSends, VisitorLeaves
<1>10. CASE Restart
  BY <1>10, RestartTunnels
<1>11. CASE UNCHANGED vars
  BY <1>11, SameTunnels DEF vars, tunnelVars, historyVars
<1> QED BY <1>1, <1>2, <1>3, <1>4, <1>5, <1>6, <1>7, <1>8, <1>9, <1>10, <1>11 DEF Next

LEMMA Initially == Init => IInv
BY InitOwners, InitTunnels DEF IInv

LEMMA Inductive == IInv /\ [Next]_vars => IInv'
<1>1. IInv => TypeOK
  BY DEF IInv, Owners
<1> QED BY <1>1, NextOwners, NextTunnels DEF IInv

LEMMA Invariance == Spec => []IInv
BY Initially, Inductive, PTL DEF Spec

\* An index is told to a client for one visitor only, and a tunnel that is
\* there has the visitor its index was told for.
THEOREM JoinsReachTheirVisitors == Spec => []JoinReachesItsVisitor
<1>1. IInv => JoinReachesItsVisitor
  BY DEF IInv, Tunnels
<1> QED BY <1>1, Invariance, PTL

\* A waiting tunnel has its deadline; a joined one has neither timer nor
\* watch.
THEOREM AlwaysGuarded == Spec => []Guarded
<1>1. IInv => Guarded
  BY DEF IInv, Tunnels
<1> QED BY <1>1, Invariance, PTL

\* Each open visitor's socket belongs to exactly one tunnel.
THEOREM VisitorsAlwaysOwned == Spec => []VisitorsOwned
<1>1. IInv => VisitorsOwned
  BY DEF IInv, Tunnels
<1> QED BY <1>1, Invariance, PTL

\* The steps of a server that goes on running.
Runs ==
    \/ \E b \in Bev :
          \/ Accept(b)
          \/ Rejected(b)
          \/ AgentFail(b)
          \/ \E a \in Addr : AllocOk(b, a) \/ AllocFails(b, a)
          \/ \E i \in Index : \/ JoinRefused(b, i) \/ JoinOk(b, i)
                              \/ JoinAttachFails(b, i) \/ JoinStartFails(b, i)
    \/ \E a \in Addr, v \in Visitor : VisitOk(a, v) \/ VisitFails(a, v)
    \/ \E i \in Index : ToWatch(i) \/ JoinTimeout(i) \/ RelayCloses(i)
    \/ \E v \in Visitor : VisitorSends(v) \/ \E how \in {"fin", "rst"} : VisitorLeaves(v, how)

\* None of them parts a joined tunnel but the one that closes its relay.
LEMMA RunsKeepJoined ==
    ASSUME IInv, [Runs]_vars, NEW i \in Index, Live(i), Joined(i), ~RelayCloses(i)
    PROVE  visitorOf'[i] = visitorOf[i] /\ clientOf'[i] = clientOf[i]
<1> USE DEF tunnelVars
<1>1. TypeOK /\ ~Waiting(i) /\ ~timer[i] /\ ~watch[i]
  BY DEF IInv, Owners, Tunnels, Guarded, Waiting
<1>2. ASSUME NEW b \in Bev, Accept(b) \/ Rejected(b) \/ AgentFail(b)
      PROVE  UNCHANGED <<visitorOf, clientOf>>
  BY <1>2 DEF Accept, Rejected, AgentFail
<1>3. ASSUME NEW b \in Bev, NEW a \in Addr, AllocOk(b, a) \/ AllocFails(b, a)
      PROVE  UNCHANGED <<visitorOf, clientOf>>
  BY <1>3 DEF AllocOk, AllocFails
<1>4. ASSUME NEW b \in Bev, NEW j \in Index, JoinRefused(b, j)
      PROVE  UNCHANGED <<visitorOf, clientOf>>
  BY <1>4 DEF JoinRefused
<1>5. ASSUME NEW j \in Index, j # i, TunnelEnds(j)
      PROVE  visitorOf'[i] = visitorOf[i] /\ clientOf'[i] = clientOf[i]
  BY <1>1, <1>5 DEF TunnelEnds, TypeOK
<1>6. ASSUME NEW b \in Bev, NEW j \in Index,
             JoinOk(b, j) \/ JoinAttachFails(b, j) \/ JoinStartFails(b, j)
      PROVE  visitorOf'[i] = visitorOf[i] /\ clientOf'[i] = clientOf[i]
  <2>1. j # i
    BY <1>1, <1>6 DEF JoinOk, JoinAttachFails, JoinStartFails
  <2>2. CASE JoinOk(b, j)
    BY <1>1, <2>1, <2>2 DEF JoinOk, TypeOK
  <2> QED BY <1>5, <1>6, <2>1, <2>2 DEF JoinAttachFails, JoinStartFails
<1>7. ASSUME NEW a \in Addr, NEW v \in Visitor, VisitOk(a, v) \/ VisitFails(a, v)
      PROVE  visitorOf'[i] = visitorOf[i] /\ clientOf'[i] = clientOf[i]
  <2>1. NextSeq(seq) # i
    <3>1. <<i, visitorOf[i]>> \in told
      BY DEF IInv, Tunnels, JoinReachesItsVisitor
    <3>2. issues < MaxIndex
      BY <1>7 DEF VisitOk, VisitFails, Visits
    <3>3. \A p \in told : p[1] # NextSeq(seq)
      BY <1>1, <3>2, FreshIndex DEF IInv, Tunnels
    <3> QED BY <3>1, <3>3
  <2> QED BY <1>1, <1>7, <2>1 DEF VisitOk, VisitFails, Visits, TypeOK
<1>8. ASSUME NEW j \in Index, ToWatch(j) \/ JoinTimeout(j) \/ RelayCloses(j)
      PROVE  visitorOf'[i] = visitorOf[i] /\ clientOf'[i] = clientOf[i]
  <2>1. j # i
    BY <1>1, <1>8 DEF ToWatch, JoinTimeout
  <2> QED BY <1>5, <1>8, <2>1 DEF ToWatch, JoinTimeout, RelayCloses
<1>9. ASSUME NEW v \in Visitor,
             VisitorSends(v) \/ \E how \in {"fin", "rst"} : VisitorLeaves(v, how)
      PROVE  UNCHANGED <<visitorOf, clientOf>>
  BY <1>9 DEF VisitorSends, VisitorLeaves
<1>10. CASE UNCHANGED vars
  BY <1>10 DEF vars
<1> QED BY <1>2, <1>3, <1>4, <1>6, <1>7, <1>8, <1>9, <1>10 DEF Runs

\* A joined tunnel keeps its two ends until its relay closes it or the
\* program ends.
THEOREM JoinedKeepsItsEnds == Spec => JoinedOnlyEndsByRelay
<1> DEFINE Keeps(i) == Live(i) /\ Joined(i) =>
                          \/ RelayCloses(i) \/ Restart
                          \/ visitorOf'[i] = visitorOf[i] /\ clientOf'[i] = clientOf[i]
<1>1. IInv /\ [Next]_vars => \A i \in Index : Keeps(i)
  BY RunsKeepJoined DEF Next, Runs
<1>2. IInv /\ [Next]_vars => [\A i \in Index : Keeps(i)]_vars
  BY <1>1
<1> QED BY <1>2, Invariance, PTL DEF Spec, JoinedOnlyEndsByRelay

=============================================================================
