--------------------------- MODULE UdpLinkProofs ---------------------------
(***************************************************************************)
(* Theorems about UdpLink, for every choice of the intervals and counts of *)
(* ipm_types.h and of the wait between reconnections.  The last two need   *)
(* TimeoutsAssumption, a relation between them that those of ipm_types.h   *)
(* satisfy, and AgentOutlivesItsClient needs WaitFits, which bounds the    *)
(* wait.                                                                   *)
(***************************************************************************)
EXTENDS UdpLink, TLAPS

\* What a running client has counted accounts for the server's silence.
Accounted ==
    client_state = "RUNNING" =>
        /\ ~hb_pending => sinceRecv < IPM_UDP_HEARTBEAT_IDLE
        /\ hb_pending =>
              /\ sinceSend < IPM_UDP_REG_RETRY
              /\ sinceRecv <= IPM_UDP_HEARTBEAT_IDLE + hb_miss * IPM_UDP_REG_RETRY + sinceSend

IInv == TypeOK /\ Accounted

-----------------------------------------------------------------------------

LEMMA Constants ==
    /\ IPM_UDP_HEARTBEAT_IDLE \in Nat \ {0}
    /\ IPM_UDP_REG_RETRY \in Nat \ {0}
    /\ IPM_UDP_REG_TRIES \in Nat \ {0}
    /\ IPM_UDP_HEARTBEAT_TRIES \in Nat \ {0}
    /\ IPM_UDP_AGENT_TIMEOUT \in Nat \ {0}
    /\ client_reconn_time \in Nat
BY ConstantsAssumption

LEMMA Products ==
    ASSUME NEW m \in Nat, NEW n \in Nat
    PROVE  /\ (m + 1) * IPM_UDP_REG_RETRY = m * IPM_UDP_REG_RETRY + IPM_UDP_REG_RETRY
           /\ m * IPM_UDP_REG_RETRY \in Nat
           /\ m <= n => m * IPM_UDP_REG_RETRY <= n * IPM_UDP_REG_RETRY
<1>1. IPM_UDP_REG_RETRY \in Nat
  BY Constants
<1>2. m * IPM_UDP_REG_RETRY \in Nat
  BY <1>1
<1>3. (m + 1) * IPM_UDP_REG_RETRY = m * IPM_UDP_REG_RETRY + IPM_UDP_REG_RETRY
  BY <1>1
<1>4. m <= n => m * IPM_UDP_REG_RETRY <= n * IPM_UDP_REG_RETRY
  BY <1>1
<1> QED BY <1>2, <1>3, <1>4

LEMMA Times == DetectTime \in Nat /\ RecoverTime \in Nat
<1>1. IPM_UDP_HEARTBEAT_TRIES * IPM_UDP_REG_RETRY \in Nat
  BY Constants, Products
<1> QED BY <1>1, Constants DEF DetectTime, RecoverTime

LEMMA Bounds ==
    /\ 0 \in 0 .. IPM_UDP_REG_RETRY /\ IPM_UDP_REG_RETRY \in 0 .. IPM_UDP_REG_RETRY
    /\ 0 \in 0 .. DetectTime /\ DetectTime \in 0 .. DetectTime
    /\ 0 \in 0 .. client_reconn_time
    /\ 0 \in 0 .. IPM_UDP_REG_TRIES - 1
    /\ 0 \in 0 .. IPM_UDP_HEARTBEAT_TRIES - 1
    /\ 0 \in 0 .. IPM_UDP_AGENT_TIMEOUT
    /\ 0 \in 0 .. RecoverTime
BY Constants, Times

LEMMA LaterType ==
    ASSUME NEW bound \in Nat, NEW age \in 0 .. bound
    PROVE  Later(age, bound) \in 0 .. bound /\ Later(age, bound) <= age + 1
BY DEF Later

LEMMA Below ==
    \A silent, idle, done, all, retry, sent \in Int :
        sent < retry /\ silent <= idle + done + sent /\ done + retry <= all => silent < idle + all
OBVIOUS

\* An interval that has not reached its end gives way.
LEMMA Silence == TypeOK /\ Accounted => SilenceNoticed
<1> SUFFICES ASSUME TypeOK, Accounted, client_state = "RUNNING"
             PROVE  sinceRecv < DetectTime
  BY DEF SilenceNoticed
<1>1. CASE ~hb_pending
  <2>1. IPM_UDP_HEARTBEAT_TRIES * IPM_UDP_REG_RETRY \in Nat
    BY Constants, Products
  <2> QED BY <1>1, <2>1, Constants DEF Accounted, DetectTime, TypeOK
<1>2. CASE hb_pending
  <2> DEFINE m == hb_miss
  <2>1. m \in Nat /\ m + 1 <= IPM_UDP_HEARTBEAT_TRIES /\ sinceRecv \in Int /\ sinceSend \in Int
    BY Times, Constants DEF TypeOK
  <2>2. (m + 1) * IPM_UDP_REG_RETRY <= IPM_UDP_HEARTBEAT_TRIES * IPM_UDP_REG_RETRY
    BY <2>1, Constants, Products
  <2>3. (m + 1) * IPM_UDP_REG_RETRY = m * IPM_UDP_REG_RETRY + IPM_UDP_REG_RETRY
    BY <2>1, Products
  <2>4. /\ sinceSend < IPM_UDP_REG_RETRY
        /\ sinceRecv <= IPM_UDP_HEARTBEAT_IDLE + m * IPM_UDP_REG_RETRY + sinceSend
    BY <1>2 DEF Accounted
  <2>5. m * IPM_UDP_REG_RETRY \in Nat /\ IPM_UDP_HEARTBEAT_TRIES * IPM_UDP_REG_RETRY \in Nat
    BY <2>1, Constants, Products
  <2>6. m * IPM_UDP_REG_RETRY + IPM_UDP_REG_RETRY <= IPM_UDP_HEARTBEAT_TRIES * IPM_UDP_REG_RETRY
    BY <2>2, <2>3
  <2>7. /\ m * IPM_UDP_REG_RETRY \in Int /\ IPM_UDP_HEARTBEAT_TRIES * IPM_UDP_REG_RETRY \in Int
        /\ IPM_UDP_REG_RETRY \in Int /\ IPM_UDP_HEARTBEAT_IDLE \in Int
    BY <2>5, Constants
  <2> QED BY <2>1, <2>4, <2>6, <2>7, Below, Zenon DEF DetectTime
<1> QED BY <1>1, <1>2

LEMMA InitIInv == Init => IInv
<1> SUFFICES ASSUME Init
             PROVE  TypeOK /\ Accounted
  BY DEF IInv
<1>1. TypeOK
  BY Bounds DEF Init, TypeOK
<1>2. Accounted
  BY DEF Init, Accounted
<1> QED BY <1>1, <1>2

-----------------------------------------------------------------------------

(***************************************************************************)
(* The steps.                                                              *)
(***************************************************************************)

LEMMA FailType ==
    ASSUME TypeOK, OnFail
    PROVE  /\ client_state' = "WAITING"
           /\ sinceSend' \in 0 .. IPM_UDP_REG_RETRY
           /\ sinceRecv' \in 0 .. DetectTime
           /\ waited' \in 0 .. client_reconn_time
           /\ reg_tries' \in 0 .. IPM_UDP_REG_TRIES - 1
           /\ hb_pending' \in BOOLEAN
           /\ hb_miss' \in 0 .. IPM_UDP_HEARTBEAT_TRIES - 1
           /\ agent' \in {"none", "current", "old"}
           /\ toServer' \subseteq {"current", "old"}
           /\ toClient' \subseteq {"ack", "data"}
           /\ recovering' \in BOOLEAN
BY Bounds DEF TypeOK, OnFail, Disconnects

LEMMA TickIInv ==
    ASSUME TypeOK, Accounted, Tick
    PROVE  TypeOK' /\ Accounted'
<1> DEFINE s == Later(sinceSend, IPM_UDP_REG_RETRY)
           r == Later(sinceRecv, DetectTime)
           w == Later(waited, client_reconn_time)
<1> USE DEF counts, net
<1>1. /\ s \in 0 .. IPM_UDP_REG_RETRY
      /\ r \in 0 .. DetectTime /\ r <= sinceRecv + 1
      /\ w \in 0 .. client_reconn_time
  BY Constants, Times, LaterType DEF TypeOK
<1>2. s = IF sinceSend < IPM_UDP_REG_RETRY THEN sinceSend + 1 ELSE IPM_UDP_REG_RETRY
  BY DEF Later
<1>3. hbAge' \in 0 .. IPM_UDP_AGENT_TIMEOUT
  BY Constants DEF Tick, TypeOK
<1>4. calmFor' \in 0 .. RecoverTime
  <2>1. Later(calmFor, RecoverTime) \in 0 .. RecoverTime
    BY Times, LaterType DEF TypeOK
  <2> QED BY <2>1, Times DEF Tick, TypeOK
<1>5. env' = env /\ busy' = busy
  BY DEF Tick
<1>6. TickRegistering(s, r) \/ TickPending(s, r) \/ TickIdle(s, r) \/ TickApart(s, r, w)
  BY DEF Tick
<1> HIDE DEF s, r, w
<1>7. ASSUME OnFail
      PROVE  TypeOK' /\ Accounted'
  BY <1>3, <1>4, <1>5, <1>7, FailType DEF TypeOK, Accounted
<1>8. CASE TickRegistering(s, r)
  <2>1. CASE OnFail
    BY <1>7, <2>1
  <2>2. CASE ~OnFail
    <3>1. TypeOK'
      <4>1. /\ sinceRecv' = r
            /\ client_state' = client_state
            /\ UNCHANGED <<waited, hb_pending, hb_miss, recovering, agent>>
        BY <1>8, <2>2 DEF TickRegistering
      <4>2. sinceSend' \in 0 .. IPM_UDP_REG_RETRY /\ toServer' \subseteq {"current", "old"} /\ toClient' = toClient
        BY <1>1, <1>8, <2>2, Bounds DEF TickRegistering, SendRegister, TypeOK
      <4>3. reg_tries' \in 0 .. IPM_UDP_REG_TRIES - 1
        BY <1>8, <2>2, Constants DEF TickRegistering, TypeOK
      <4> QED BY <1>1, <1>3, <1>4, <1>5, <4>1, <4>2, <4>3 DEF TypeOK
    <3>2. Accounted'
      BY <1>8, <2>2 DEF TickRegistering, Accounted
    <3> QED BY <3>1, <3>2
  <2> QED BY <2>1, <2>2
<1>9. CASE TickPending(s, r)
  <2>1. CASE OnFail
    BY <1>7, <2>1
  <2>2. CASE s < IPM_UDP_REG_RETRY
    <3>1. s = sinceSend + 1
      BY <1>2, <2>2, Constants DEF TypeOK
    <3>2. /\ sinceSend' = s /\ sinceRecv' = r
          /\ UNCHANGED <<client_state, waited, counts, recovering, net, agent>>
      <4>1. ~(s >= IPM_UDP_REG_RETRY)
        BY <1>1, <2>2, Constants
      <4> QED BY <1>9, <4>1 DEF TickPending
    <3>3. TypeOK'
      BY <1>1, <1>3, <1>4, <1>5, <3>2 DEF TypeOK
    <3>4. hb_miss * IPM_UDP_REG_RETRY \in Nat
      BY Products, Constants DEF TypeOK
    <3>5. sinceRecv' <= IPM_UDP_HEARTBEAT_IDLE + hb_miss * IPM_UDP_REG_RETRY + sinceSend'
      <4>1. sinceRecv <= IPM_UDP_HEARTBEAT_IDLE + hb_miss * IPM_UDP_REG_RETRY + sinceSend
        BY <1>9 DEF TickPending, Accounted
      <4>2. sinceRecv \in Int /\ r \in Int /\ sinceSend \in Int
        BY <1>1, Times, Constants DEF TypeOK
      <4> QED BY <1>1, <3>1, <3>2, <3>4, <4>1, <4>2, Constants
    <3>6. Accounted'
      BY <1>9, <2>2, <3>2, <3>5 DEF TickPending, Accounted
    <3> QED BY <3>3, <3>6
  <2>3. CASE ~OnFail /\ s >= IPM_UDP_REG_RETRY
    <3>1. /\ client_state = "RUNNING" /\ hb_pending
          /\ hb_miss + 1 < IPM_UDP_HEARTBEAT_TRIES
          /\ hb_miss' = hb_miss + 1
          /\ SendRegister /\ sinceRecv' = r
          /\ UNCHANGED <<client_state, waited, reg_tries, hb_pending, recovering, agent>>
      <4>1. ~(s < IPM_UDP_REG_RETRY)
        BY <1>1, <2>3, Constants
      <4> QED BY <1>9, <2>3, <4>1 DEF TickPending
    <3>2. TypeOK'
      BY <1>1, <1>3, <1>4, <1>5, <3>1, Constants DEF SendRegister, TypeOK
    <3>3. hb_miss' * IPM_UDP_REG_RETRY = hb_miss * IPM_UDP_REG_RETRY + IPM_UDP_REG_RETRY
      BY <3>1, Products, Constants DEF TypeOK
    <3>4. sinceRecv' <= IPM_UDP_HEARTBEAT_IDLE + hb_miss' * IPM_UDP_REG_RETRY + sinceSend'
      <4>1. /\ sinceRecv <= IPM_UDP_HEARTBEAT_IDLE + hb_miss * IPM_UDP_REG_RETRY + sinceSend
            /\ sinceSend < IPM_UDP_REG_RETRY
        BY <3>1 DEF Accounted
      <4>2. sinceRecv \in Int /\ r \in Int /\ sinceSend \in Int
        BY <1>1, Times, Constants DEF TypeOK
      <4>3. hb_miss * IPM_UDP_REG_RETRY \in Nat
        BY Products, Constants DEF TypeOK
      <4>4. sinceSend' = 0
        BY <3>1 DEF SendRegister
      <4> QED BY <1>1, <3>1, <3>3, <4>1, <4>2, <4>3, <4>4, Constants
    <3>5. Accounted'
      BY <3>1, <3>4, Constants DEF SendRegister, Accounted
    <3> QED BY <3>2, <3>5
  <2> QED BY <1>1, <2>1, <2>2, <2>3, Constants
<1>10. CASE TickIdle(s, r)
  <2>1. CASE r < IPM_UDP_HEARTBEAT_IDLE
    <3>1. TypeOK'
      <4>1. ~(r >= IPM_UDP_HEARTBEAT_IDLE)
        BY <1>1, <2>1, Constants, Times
      <4>2. /\ sinceSend' = s /\ sinceRecv' = r
            /\ UNCHANGED <<client_state, waited, counts, recovering, net, agent>>
        BY <1>10, <4>1 DEF TickIdle
      <4> QED BY <1>1, <1>3, <1>4, <1>5, <4>2 DEF TypeOK
    <3>2. Accounted'
      BY <1>1, <1>10, <2>1, Constants, Times DEF TickIdle, Accounted
    <3> QED BY <3>1, <3>2
  <2>2. CASE r >= IPM_UDP_HEARTBEAT_IDLE
    <3>1. /\ client_state = "RUNNING" /\ ~hb_pending
          /\ hb_pending' = TRUE
          /\ hb_miss' = 0
          /\ SendRegister /\ sinceRecv' = r
          /\ UNCHANGED <<client_state, waited, reg_tries, recovering, agent>>
      BY <1>1, <1>10, <2>2, Constants, Times DEF TickIdle
    <3>2. TypeOK'
      BY <1>1, <1>3, <1>4, <1>5, <3>1, Constants DEF SendRegister, TypeOK
    <3>3. sinceRecv < IPM_UDP_HEARTBEAT_IDLE
      BY <3>1 DEF Accounted
    <3>4. hb_miss' * IPM_UDP_REG_RETRY = 0
      BY <3>1, Constants
    <3>5. sinceRecv' <= IPM_UDP_HEARTBEAT_IDLE
      BY <1>1, <3>1, <3>3, Constants, Times DEF TypeOK
    <3>6. Accounted'
      BY <1>1, <3>1, <3>4, <3>5, Constants, Times DEF SendRegister, Accounted
    <3> QED BY <3>2, <3>6
  <2> QED BY <1>1, <2>1, <2>2, Constants, Times
<1>11. CASE TickApart(s, r, w)
  <2>1. TypeOK'
    BY <1>1, <1>3, <1>4, <1>5, <1>11 DEF TickApart, TypeOK
  <2>2. Accounted'
    BY <1>11 DEF TickApart, Accounted
  <2> QED BY <2>1, <2>2
<1> QED BY <1>6, <1>8, <1>9, <1>10, <1>11

LEMMA NextIInv == IInv /\ [Next]_vars => IInv'
<1> SUFFICES ASSUME TypeOK, Accounted, [Next]_vars
             PROVE  TypeOK' /\ Accounted'
  BY DEF IInv
<1> USE DEF timers, counts, client, server, net
<1>1. CASE Tick
  BY <1>1, TickIInv
<1>2. CASE DnsAnswers
  BY <1>2, Constants DEF DnsAnswers, SendRegister, TypeOK, Accounted
<1>3. CASE DnsFails
  <2>1. OnFail /\ UNCHANGED <<hbAge, busy, env, calmFor>>
    BY <1>3 DEF DnsFails
  <2> QED BY <2>1, FailType DEF TypeOK, Accounted
<1>4. ASSUME NEW m \in toClient, Receive(m)
      PROVE  TypeOK' /\ Accounted'
  <2>1. TypeOK'
    BY <1>4, Bounds DEF Receive, TypeOK
  <2>2. Accounted'
    BY <1>4, Constants DEF Receive, Accounted
  <2> QED BY <2>1, <2>2
<1>5. ASSUME NEW from \in toServer, HandleRegister(from)
      PROVE  TypeOK' /\ Accounted'
  BY <1>5, Constants DEF HandleRegister, TypeOK, Accounted
<1>6. CASE VisitorData
  BY <1>6 DEF VisitorData, TypeOK, Accounted
<1>7. CASE AgentDies
  BY <1>7, Constants DEF AgentDies, TypeOK, Accounted
<1>8. CASE Weather
  BY <1>8 DEF Weather, TypeOK, Accounted
<1>9. CASE Lose
  BY <1>9 DEF Lose, TypeOK, Accounted
<1>10. CASE ServerRestarts
  BY <1>10, Constants DEF ServerRestarts, TypeOK, Accounted
<1>11. CASE ClientRestarts
  BY <1>11, Bounds DEF ClientRestarts, Disconnects, TypeOK, Accounted
<1>12. ASSUME NEW from \in toServer, AgentFails(from)
       PROVE  TypeOK' /\ Accounted'
  BY <1>12 DEF AgentFails, TypeOK, Accounted
<1>13. CASE UNCHANGED vars
  BY <1>13 DEF vars, TypeOK, Accounted
<1> QED BY <1>1, <1>2, <1>3, <1>4, <1>5, <1>6, <1>7, <1>8, <1>9, <1>10, <1>11, <1>12, <1>13 DEF Next

LEMMA Invariance == Spec => []IInv
BY InitIInv, NextIInv, PTL DEF Spec

\* Every variable keeps its type; no count reaches its limit unnoticed.
THEOREM TypeCorrect == Spec => []TypeOK
<1>1. IInv => TypeOK
  BY DEF IInv
<1> QED BY <1>1, Invariance, PTL

\* The client gives a silent server up in time, whatever the intervals and
\* counts, and however much data it sends or the network loses.
THEOREM SilenceIsNoticed == Spec => []SilenceNoticed
<1>1. IInv => SilenceNoticed
  BY Silence DEF IInv
<1> QED BY <1>1, Invariance, PTL

-----------------------------------------------------------------------------

(***************************************************************************)
(* How old what a client hears can be, and the agent of a quiet mapping.   *)
(***************************************************************************)

\* Seconds since a client that asks for its s seconds after its n-th retry began.
Asking(n, s) == n * IPM_UDP_REG_RETRY + s

\* A client without a socket has nothing under way, and no agent.
Apart ==
    client_state \in {"DNS_QUERYING", "WAITING"} =>
        "current" \notin toServer /\ toClient = {} /\ agent # "current"

\* A client that registers tries again in time.
Prompt == client_state = "SERVER_REGISTERING" => sinceSend < IPM_UDP_REG_RETRY

\* Only acknowledgements reach the client of a quiet mapping.  One under way
\* was sent when the agent's timer was last set, or later, and the client has
\* heard nothing since then: it is no older than the client's silence.
Ages ==
    ~busy =>
        /\ "data" \notin toClient
        /\ agent # "none" /\ toClient # {} =>
              /\ client_state = "SERVER_REGISTERING" => hbAge <= Asking(reg_tries, sinceSend)
              /\ client_state = "RUNNING" => hbAge <= sinceRecv
        /\ agent # "none" /\ client_state = "RUNNING" => hbAge < sinceRecv + LongestUnheard

AgeInv == IInv /\ Apart /\ Prompt /\ Ages

LEMMA LongestUnheardType ==
    /\ LongestUnheard \in Nat
    /\ DetectTime <= LongestUnheard
    /\ IPM_UDP_REG_TRIES * IPM_UDP_REG_RETRY <= LongestUnheard
<1>1. IPM_UDP_REG_TRIES * IPM_UDP_REG_RETRY \in Nat
  BY Constants, Products
<1> QED BY <1>1, Times DEF LongestUnheard

LEMMA AskingTime ==
    ASSUME NEW n \in Nat, NEW s \in Nat
    PROVE  /\ Asking(n, s) \in Nat
           /\ Asking(n, s + 1) = Asking(n, s) + 1
           /\ s + 1 = IPM_UDP_REG_RETRY => Asking(n + 1, 0) = Asking(n, s) + 1
           /\ n < IPM_UDP_REG_TRIES /\ s < IPM_UDP_REG_RETRY =>
                 /\ Asking(n, s) < IPM_UDP_REG_TRIES * IPM_UDP_REG_RETRY
                 /\ Asking(n, s) < LongestUnheard
<1> DEFINE done == n * IPM_UDP_REG_RETRY
           all == IPM_UDP_REG_TRIES * IPM_UDP_REG_RETRY
<1>1. done \in Nat /\ all \in Nat /\ IPM_UDP_REG_RETRY \in Nat
  BY Constants, Products
<1>2. (n + 1) * IPM_UDP_REG_RETRY = done + IPM_UDP_REG_RETRY
  BY Products
<1>3. ASSUME n < IPM_UDP_REG_TRIES
      PROVE  done + IPM_UDP_REG_RETRY <= all
  <2>1. n + 1 \in Nat /\ n + 1 <= IPM_UDP_REG_TRIES
    BY <1>3, Constants
  <2> QED BY <1>2, <2>1, Products, Constants
<1> HIDE DEF done, all
<1>4. Asking(n, s) = done + s /\ Asking(n, s + 1) = done + (s + 1)
  BY DEF Asking, done
<1>5. Asking(n + 1, 0) = done + IPM_UDP_REG_RETRY
  BY <1>1, <1>2 DEF Asking
<1>6. all <= LongestUnheard /\ LongestUnheard \in Nat
  BY LongestUnheardType DEF all
<1>7. n < IPM_UDP_REG_TRIES /\ s < IPM_UDP_REG_RETRY => Asking(n, s) < all
  BY <1>1, <1>3, <1>4
<1> QED BY <1>1, <1>4, <1>5, <1>6, <1>7 DEF all

\* What a second does to a client that has a socket.
Waits ==
    /\ sinceSend + 1 < IPM_UDP_REG_RETRY
    /\ sinceSend' = sinceSend + 1
    /\ UNCHANGED <<reg_tries, hb_pending, recovering, agent, net>>

AsksAgain ==
    /\ sinceSend + 1 = IPM_UDP_REG_RETRY
    /\ SendRegister
    /\ client_state = "SERVER_REGISTERING" => reg_tries' = reg_tries + 1
    /\ UNCHANGED <<hb_pending, recovering, agent>>

Idles ==
    /\ sinceRecv + 1 < IPM_UDP_HEARTBEAT_IDLE
    /\ UNCHANGED <<reg_tries, hb_pending, recovering, agent, net>>

Beats ==
    /\ sinceRecv + 1 = IPM_UDP_HEARTBEAT_IDLE
    /\ hb_pending' = TRUE
    /\ SendRegister
    /\ UNCHANGED <<recovering, agent>>

Unanswered == client_state = "SERVER_REGISTERING" \/ (client_state = "RUNNING" /\ hb_pending)
Idle == client_state = "RUNNING" /\ ~hb_pending

\* What the clocks that a second moves become.
SecondPasses ==
    /\ hbAge' = IF agent = "none" THEN 0 ELSE hbAge + 1
    /\ agent # "none" => hbAge < IPM_UDP_AGENT_TIMEOUT
    /\ UNCHANGED <<busy, env>>
    /\ env # "rough" => toServer = {} /\ toClient = {} /\ client_state # "DNS_QUERYING"
    /\ calmFor' = IF env = "calm" THEN Later(calmFor, RecoverTime) ELSE 0

\* A second of a client with a socket, of one that fails, of one without.
LEMMA TickCases ==
    ASSUME IInv, Prompt, Tick
    PROVE  /\ SecondPasses
           /\ \/ /\ Unanswered /\ (Waits \/ AsksAgain)
                 /\ client_state' = client_state
                 /\ client_state = "RUNNING" => sinceRecv' = sinceRecv + 1
              \/ /\ Idle /\ (Idles \/ Beats)
                 /\ client_state' = client_state
                 /\ sinceRecv' = sinceRecv + 1
              \/ Unanswered /\ sinceSend + 1 = IPM_UDP_REG_RETRY /\ OnFail
              \/ TickApart(Later(sinceSend, IPM_UDP_REG_RETRY), Later(sinceRecv, DetectTime),
                           Later(waited, client_reconn_time))
<1> DEFINE s == Later(sinceSend, IPM_UDP_REG_RETRY)
           r == Later(sinceRecv, DetectTime)
           w == Later(waited, client_reconn_time)
<1> USE DEF counts, net
<1>1. SecondPasses
  BY DEF Tick, SecondPasses
<1>2. TickRegistering(s, r) \/ TickPending(s, r) \/ TickIdle(s, r) \/ TickApart(s, r, w)
  BY DEF Tick
<1>3. client_state = "RUNNING" => r = sinceRecv + 1
  BY Silence DEF IInv, SilenceNoticed, Later
<1>4. /\ sinceSend \in Nat /\ sinceRecv \in Nat /\ IPM_UDP_REG_RETRY \in Nat
      /\ IPM_UDP_HEARTBEAT_IDLE \in Nat
  BY Constants, Times DEF IInv, TypeOK
<1>5. ASSUME Unanswered
      PROVE  s = sinceSend + 1 /\ sinceSend < IPM_UDP_REG_RETRY
  BY <1>5 DEF Unanswered, Prompt, IInv, Accounted, Later
<1> HIDE DEF s, r, w
<1>6. CASE TickRegistering(s, r)
  <2>1. Unanswered /\ client_state = "SERVER_REGISTERING"
    BY <1>6 DEF TickRegistering, Unanswered
  <2>2. CASE s < IPM_UDP_REG_RETRY
    <3>1. ~(s >= IPM_UDP_REG_RETRY)
      BY <1>4, <1>5, <2>1, <2>2
    <3>2. Waits /\ client_state' = client_state
      BY <1>5, <1>6, <2>1, <2>2, <3>1 DEF TickRegistering, Waits
    <3> QED BY <1>1, <2>1, <3>2
  <2>3. CASE ~(s < IPM_UDP_REG_RETRY)
    <3>1. sinceSend + 1 = IPM_UDP_REG_RETRY
      BY <1>4, <1>5, <2>1, <2>3
    <3>2. OnFail \/ (AsksAgain /\ client_state' = client_state)
      BY <1>6, <2>3, <3>1 DEF TickRegistering, AsksAgain
    <3> QED BY <1>1, <2>1, <3>1, <3>2
  <2> QED BY <2>2, <2>3
<1>7. CASE TickPending(s, r)
  <2>1. Unanswered /\ client_state = "RUNNING"
    BY <1>7 DEF TickPending, Unanswered
  <2>2. CASE s < IPM_UDP_REG_RETRY
    <3>1. ~(s >= IPM_UDP_REG_RETRY)
      BY <1>4, <1>5, <2>1, <2>2
    <3>2. Waits /\ client_state' = client_state /\ sinceRecv' = r
      BY <1>5, <1>7, <2>1, <2>2, <3>1 DEF TickPending, Waits
    <3> QED BY <1>1, <1>3, <2>1, <3>2
  <2>3. CASE ~(s < IPM_UDP_REG_RETRY)
    <3>1. sinceSend + 1 = IPM_UDP_REG_RETRY
      BY <1>4, <1>5, <2>1, <2>3
    <3>2. OnFail \/ (AsksAgain /\ client_state' = client_state /\ sinceRecv' = r)
      BY <1>7, <2>1, <2>3, <3>1 DEF TickPending, AsksAgain
    <3> QED BY <1>1, <1>3, <2>1, <3>1, <3>2
  <2> QED BY <2>2, <2>3
<1>8. CASE TickIdle(s, r)
  <2>1. Idle /\ r = sinceRecv + 1
    BY <1>3, <1>8 DEF TickIdle, Idle
  <2>2. sinceRecv < IPM_UDP_HEARTBEAT_IDLE
    BY <2>1 DEF Idle, IInv, Accounted
  <2>3. client_state' = client_state /\ sinceRecv' = r
    BY <1>8 DEF TickIdle
  <2>4. Idles \/ Beats
    BY <1>4, <1>8, <2>1, <2>2 DEF TickIdle, Idles, Beats
  <2> QED BY <1>1, <2>1, <2>3, <2>4
<1>9. CASE TickApart(s, r, w)
  BY <1>1, <1>9 DEF s, r, w
<1> QED BY <1>2, <1>6, <1>7, <1>8, <1>9

\* Disconnecting leaves nothing of the client's behind.
LEMMA FailAges ==
    ASSUME TypeOK, Ages, Disconnects, client_state' \in {"WAITING", "DNS_QUERYING"}, busy' = busy
    PROVE  Apart' /\ Prompt' /\ Ages'
<1>1. /\ toServer' = {"old" : m \in toServer} /\ toClient' = {}
      /\ agent' = IF agent = "current" THEN "old" ELSE agent
  BY DEF Disconnects
<1>2. "current" \notin toServer' /\ agent' # "current"
  BY <1>1 DEF TypeOK
<1> QED BY <1>1, <1>2 DEF Apart, Prompt, Ages

LEMMA TickAges ==
    ASSUME AgeInv, Tick
    PROVE  Apart' /\ Prompt' /\ Ages'
<1> USE DEF AgeInv, net
<1>1. SecondPasses
  BY TickCases
<1>2. /\ sinceSend \in Nat /\ sinceRecv \in Nat /\ hbAge \in Nat /\ reg_tries \in Nat
      /\ reg_tries < IPM_UDP_REG_TRIES /\ IPM_UDP_REG_RETRY \in Nat /\ LongestUnheard \in Nat
  BY Constants, Times, LongestUnheardType DEF IInv, TypeOK
<1>3. busy' = busy /\ (agent # "none" => hbAge' = hbAge + 1)
  BY <1>1 DEF SecondPasses
<1>4. ASSUME agent' = agent, client_state' = client_state, toClient' = toClient, ~busy,
             client_state = "RUNNING" => sinceRecv' = sinceRecv + 1,
             client_state = "SERVER_REGISTERING" =>
                 Asking(reg_tries', sinceSend') = Asking(reg_tries, sinceSend) + 1
      PROVE  Ages'
  <2>1. Asking(reg_tries, sinceSend) \in Nat
    BY <1>2, AskingTime
  <2> QED BY <1>2, <1>3, <1>4, <2>1 DEF Ages
<1>5. CASE Unanswered /\ (Waits \/ AsksAgain) /\ client_state' = client_state
           /\ (client_state = "RUNNING" => sinceRecv' = sinceRecv + 1)
  <2>1. agent' = agent /\ toClient' = toClient
    BY <1>5 DEF Waits, AsksAgain, SendRegister
  <2>2. client_state = "SERVER_REGISTERING" =>
            Asking(reg_tries', sinceSend') = Asking(reg_tries, sinceSend) + 1
    <3>1. CASE Waits
      BY <1>2, <3>1, AskingTime DEF Waits
    <3>2. CASE AsksAgain
      BY <1>2, <3>2, AskingTime DEF AsksAgain, SendRegister
    <3> QED BY <1>5, <3>1, <3>2
  <2>3. sinceSend' < IPM_UDP_REG_RETRY
    BY <1>2, <1>5, Constants DEF Waits, AsksAgain, SendRegister
  <2>4. Ages'
    <3>1. CASE busy
      BY <1>3, <3>1 DEF Ages
    <3> QED BY <1>4, <1>5, <2>1, <2>2, <3>1
  <2> QED BY <1>5, <2>3, <2>4 DEF Unanswered, Apart, Prompt
<1>6. CASE Idle /\ (Idles \/ Beats) /\ client_state' = client_state /\ sinceRecv' = sinceRecv + 1
  <2>1. agent' = agent /\ toClient' = toClient
    BY <1>6 DEF Idles, Beats, SendRegister
  <2>2. client_state = "RUNNING"
    BY <1>6 DEF Idle
  <2>3. Ages'
    <3>1. CASE busy
      BY <1>3, <3>1 DEF Ages
    <3> QED BY <1>4, <1>6, <2>1, <2>2, <3>1
  <2> QED BY <1>6, <2>2, <2>3 DEF Apart, Prompt
<1>7. CASE OnFail
  BY <1>3, <1>7, FailAges DEF OnFail, IInv
<1>8. CASE TickApart(Later(sinceSend, IPM_UDP_REG_RETRY), Later(sinceRecv, DetectTime),
                     Later(waited, client_reconn_time))
  <2>1. /\ client_state \in {"WAITING", "DNS_QUERYING"} /\ client_state' \in {"WAITING", "DNS_QUERYING"}
        /\ UNCHANGED <<net, agent>>
    BY <1>8 DEF TickApart
  <2> QED BY <1>3, <2>1 DEF Apart, Prompt, Ages
<1> QED BY <1>5, <1>6, <1>7, <1>8, TickCases

LEMMA NextAges ==
    ASSUME AgeInv, [Next]_vars
    PROVE  AgeInv'
<1> SUFFICES Apart' /\ Prompt' /\ Ages'
  BY NextIInv DEF AgeInv
<1> USE DEF AgeInv, timers, counts, client, server, net
<1>0. /\ sinceSend \in Nat /\ sinceRecv \in Nat /\ hbAge \in Nat /\ reg_tries \in Nat
      /\ reg_tries < IPM_UDP_REG_TRIES /\ IPM_UDP_REG_RETRY \in Nat \ {0}
      /\ LongestUnheard \in Nat \ {0} /\ Asking(reg_tries, sinceSend) \in Nat
  <2>1. LongestUnheard \in Nat \ {0}
    <3>1. IPM_UDP_REG_TRIES * IPM_UDP_REG_RETRY > 0
      <4>1. (0 + 1) * IPM_UDP_REG_RETRY <= IPM_UDP_REG_TRIES * IPM_UDP_REG_RETRY
        BY Constants, Products
      <4> QED BY <4>1, Constants, Products
    <3> QED BY <3>1, Constants, LongestUnheardType, Products
  <2> QED BY <2>1, Constants, Times, AskingTime DEF IInv, TypeOK
<1>1. CASE Tick
  BY <1>1, TickAges
<1>2. CASE DnsAnswers
  BY <1>0, <1>2 DEF DnsAnswers, SendRegister, Apart, Prompt, Ages
<1>3. CASE DnsFails
  BY <1>3, FailAges DEF DnsFails, OnFail, IInv
<1>4. ASSUME NEW m \in toClient, Receive(m)
      PROVE  Apart' /\ Prompt' /\ Ages'
  <2>1. Apart' /\ Prompt'
    BY <1>4 DEF Receive, Apart, Prompt
  <2>2. Ages'
    <3>1. CASE busy
      BY <1>4, <3>1 DEF Receive, Ages
    <3>2. CASE ~busy
      <4>1. m = "ack" /\ toClient' = {} /\ client_state' = "RUNNING" /\ sinceRecv' = 0
        BY <1>4, <3>2 DEF Receive, Ages, IInv, TypeOK
      <4>2. ASSUME agent # "none"
            PROVE  hbAge < LongestUnheard
        <5>1. CASE client_state = "RUNNING"
          <6>1. hbAge <= sinceRecv /\ sinceRecv < DetectTime
            BY <3>2, <4>2, <5>1, Silence DEF Ages, IInv, SilenceNoticed
          <6> QED BY <1>0, <6>1, LongestUnheardType, Times
        <5>2. CASE client_state = "SERVER_REGISTERING"
          <6>1. hbAge <= Asking(reg_tries, sinceSend) /\ sinceSend < IPM_UDP_REG_RETRY
            BY <3>2, <4>2, <5>2 DEF Ages, Prompt
          <6>2. Asking(reg_tries, sinceSend) < LongestUnheard
            BY <1>0, <6>1, AskingTime
          <6> QED BY <1>0, <6>1, <6>2
        <5> QED BY <1>4, <5>1, <5>2 DEF Receive
      <4>3. agent' = agent /\ hbAge' = hbAge
        BY <1>4 DEF Receive
      <4>4. agent # "none" => hbAge < 0 + LongestUnheard
        BY <1>0, <4>2
      <4> QED BY <3>2, <4>1, <4>3, <4>4 DEF Ages
    <3> QED BY <3>1, <3>2
  <2> QED BY <2>1, <2>2
<1>5. ASSUME NEW from \in toServer, HandleRegister(from)
      PROVE  Apart' /\ Prompt' /\ Ages'
  BY <1>0, <1>5 DEF HandleRegister, Apart, Prompt, Ages
<1>6. CASE VisitorData
  BY <1>6 DEF VisitorData, Apart, Prompt, Ages
<1>7. CASE AgentDies
  BY <1>7 DEF AgentDies, Apart, Prompt, Ages
<1>8. CASE Weather
  BY <1>8 DEF Weather, Apart, Prompt, Ages
<1>9. CASE Lose
  BY <1>9 DEF Lose, Apart, Prompt, Ages
<1>10. CASE ServerRestarts
  BY <1>10 DEF ServerRestarts, Apart, Prompt, Ages
<1>11. CASE ClientRestarts
  BY <1>11, FailAges DEF ClientRestarts, IInv
<1>12. ASSUME NEW from \in toServer, AgentFails(from)
       PROVE  Apart' /\ Prompt' /\ Ages'
  BY <1>12 DEF AgentFails, Apart, Prompt, Ages
<1>13. CASE UNCHANGED vars
  BY <1>13 DEF vars, Apart, Prompt, Ages
<1> QED BY <1>1, <1>2, <1>3, <1>4, <1>5, <1>6, <1>7, <1>8, <1>9, <1>10, <1>11, <1>12, <1>13 DEF Next

\* While its client runs, the agent of a quiet mapping is not due.
LEMMA AgentNotDue ==
    ASSUME AgeInv, ~busy, agent # "none", client_state = "RUNNING"
    PROVE  hbAge < IPM_UDP_AGENT_TIMEOUT
<1>1. hbAge < sinceRecv + LongestUnheard /\ sinceRecv < DetectTime
  BY Silence DEF AgeInv, Ages, IInv, SilenceNoticed
<1>2. sinceRecv \in Nat /\ hbAge \in Nat
  BY Times, Constants DEF AgeInv, IInv, TypeOK
<1> QED BY <1>1, <1>2, TimeoutsAssumption, LongestUnheardType, Times, Constants

-----------------------------------------------------------------------------

(***************************************************************************)
(* The agent of a client that recovers.  As long as nothing is late, the   *)
(* agent's timer is no older than the client's silence, and after that     *)
(* than detection, wait and attempt have taken so far.                     *)
(***************************************************************************)

\* The time-out is longer than a client takes to detect that its server is
\* silent, to wait, and to make all the tries of the attempt that follows.
\* The program takes any wait: -w 29 is the longest that the constants of
\* ipm_types.h bear, and -w 28 the longest that satisfies this.
WaitFits ==
    DetectTime + client_reconn_time + IPM_UDP_REG_TRIES * IPM_UDP_REG_RETRY < IPM_UDP_AGENT_TIMEOUT

\* Packages may have been lost, but none was late, and nobody restarted.
OnlyLosses == env \in {"fine", "lossy"}

\* Seconds in which detection and wait are over, the second included in which
\* even no wait at all is noticed.
Away == DetectTime + client_reconn_time + 1

RecoveryAges ==
    OnlyLosses /\ ~busy /\ agent # "none" =>
        /\ toClient # {} => hbAge = 0
        /\ client_state = "RUNNING" => hbAge <= sinceRecv
        /\ recovering =>
              /\ client_state = "WAITING" => hbAge <= DetectTime + waited
              /\ client_state = "DNS_QUERYING" => hbAge <= Away
              /\ client_state = "SERVER_REGISTERING" => hbAge <= Away + Asking(reg_tries, sinceSend)

LEMMA TickRecoveryAges ==
    ASSUME AgeInv, RecoveryAges, Tick
    PROVE  RecoveryAges'
<1> USE DEF AgeInv, net
<1>1. SecondPasses
  BY TickCases
<1>2. /\ sinceSend \in Nat /\ sinceRecv \in Nat /\ hbAge \in Nat /\ reg_tries \in Nat
      /\ waited \in Nat /\ waited <= client_reconn_time /\ client_reconn_time \in Nat
      /\ DetectTime \in Nat /\ IPM_UDP_REG_RETRY \in Nat /\ Away \in Nat
  BY Constants, Times DEF IInv, TypeOK, Away
<1> SUFFICES ASSUME OnlyLosses', ~busy', agent' # "none"
             PROVE  RecoveryAges'
  BY DEF RecoveryAges
<1>3. OnlyLosses /\ ~busy /\ toClient = {} /\ client_state # "DNS_QUERYING"
  BY <1>1 DEF SecondPasses, OnlyLosses
<1>4. ASSUME agent # "none"
      PROVE  hbAge' = hbAge + 1
  BY <1>1, <1>4 DEF SecondPasses
<1>5. CASE Unanswered /\ (Waits \/ AsksAgain) /\ client_state' = client_state
           /\ (client_state = "RUNNING" => sinceRecv' = sinceRecv + 1)
  <2>1. toClient' = {} /\ agent' = agent /\ recovering' = recovering
    BY <1>3, <1>5 DEF Waits, AsksAgain, SendRegister
  <2>2. client_state = "SERVER_REGISTERING" =>
            Asking(reg_tries', sinceSend') = Asking(reg_tries, sinceSend) + 1
    <3>1. CASE Waits
      BY <1>2, <3>1, AskingTime DEF Waits
    <3>2. CASE AsksAgain
      BY <1>2, <3>2, AskingTime DEF AsksAgain, SendRegister
    <3> QED BY <1>5, <3>1, <3>2
  <2>3. Asking(reg_tries, sinceSend) \in Nat
    BY <1>2, AskingTime
  <2>4. client_state \in {"SERVER_REGISTERING", "RUNNING"}
    BY <1>5 DEF Unanswered
  <2> QED BY <1>2, <1>3, <1>4, <1>5, <2>1, <2>2, <2>3, <2>4 DEF RecoveryAges, Away
<1>6. CASE Idle /\ (Idles \/ Beats) /\ client_state' = client_state /\ sinceRecv' = sinceRecv + 1
  <2>1. toClient' = {} /\ agent' = agent
    BY <1>3, <1>6 DEF Idles, Beats, SendRegister
  <2>2. client_state = "RUNNING"
    BY <1>6 DEF Idle
  <2> QED BY <1>2, <1>3, <1>4, <1>6, <2>1, <2>2 DEF RecoveryAges
<1>7. CASE Unanswered /\ OnFail
  <2>1. /\ client_state' = "WAITING" /\ waited' = 0 /\ toClient' = {}
        /\ recovering' = (client_state = "RUNNING") /\ agent # "none"
    BY <1>7 DEF OnFail, Disconnects
  <2>2. recovering' => hbAge <= sinceRecv /\ sinceRecv < DetectTime
    BY <1>3, <2>1, Silence DEF RecoveryAges, IInv, SilenceNoticed
  <2> QED BY <1>2, <1>4, <2>1, <2>2 DEF RecoveryAges
<1>8. CASE TickApart(Later(sinceSend, IPM_UDP_REG_RETRY), Later(sinceRecv, DetectTime),
                     Later(waited, client_reconn_time))
  <2>1. /\ client_state = "WAITING" /\ agent' = agent /\ toClient' = {} /\ recovering' = recovering
        /\ waited' = Later(waited, client_reconn_time)
        /\ client_state' = IF waited' >= client_reconn_time THEN "DNS_QUERYING" ELSE "WAITING"
    BY <1>3, <1>8 DEF TickApart
  <2>2. recovering => hbAge <= DetectTime + waited
    BY <1>3, <2>1 DEF RecoveryAges
  <2>3. CASE client_state' = "DNS_QUERYING"
    BY <1>2, <1>4, <2>1, <2>2, <2>3 DEF RecoveryAges, Away
  <2>4. CASE client_state' = "WAITING"
    <3>1. waited' = waited + 1
      BY <1>2, <2>1, <2>4 DEF Later
    <3> QED BY <1>2, <1>4, <2>1, <2>2, <2>4, <3>1 DEF RecoveryAges
  <2> QED BY <2>1, <2>3, <2>4
<1> QED BY <1>5, <1>6, <1>7, <1>8, TickCases

LEMMA NextRecoveryAges ==
    ASSUME AgeInv, RecoveryAges, [Next]_vars
    PROVE  RecoveryAges'
<1> USE DEF AgeInv, timers, counts, client, server, net
<1>0. /\ sinceSend \in Nat /\ sinceRecv \in Nat /\ hbAge \in Nat /\ reg_tries \in Nat
      /\ waited \in Nat /\ Away \in Nat /\ DetectTime \in Nat /\ Asking(reg_tries, sinceSend) \in Nat
  BY Constants, Times, AskingTime DEF IInv, TypeOK, Away
<1>1. CASE Tick
  BY <1>1, TickRecoveryAges
<1>2. CASE DnsAnswers
  <2>1. Asking(reg_tries', sinceSend') = 0
    BY <1>2, Constants DEF DnsAnswers, SendRegister, Asking
  <2> QED BY <1>0, <1>2, <2>1 DEF DnsAnswers, SendRegister, RecoveryAges, OnlyLosses
<1>3. ASSUME NEW m \in toClient, Receive(m)
      PROVE  RecoveryAges'
  <2> SUFFICES ASSUME OnlyLosses', ~busy', agent' # "none"
               PROVE  RecoveryAges'
    BY DEF RecoveryAges
  <2>1. OnlyLosses /\ ~busy /\ agent # "none" /\ hbAge' = hbAge
    BY <1>3 DEF Receive, OnlyLosses
  <2>2. m = "ack" /\ toClient' = {} /\ client_state' = "RUNNING" /\ sinceRecv' = 0 /\ ~recovering'
    BY <1>3, <2>1 DEF Receive, Ages, IInv, TypeOK
  <2>3. hbAge = 0
    BY <1>3, <2>1 DEF RecoveryAges
  <2> QED BY <2>1, <2>2, <2>3 DEF RecoveryAges
<1>4. ASSUME NEW from \in toServer, HandleRegister(from)
      PROVE  RecoveryAges'
  BY <1>0, <1>4 DEF HandleRegister, RecoveryAges
<1>5. CASE VisitorData
  BY <1>5 DEF VisitorData, RecoveryAges
<1>6. CASE AgentDies
  BY <1>6 DEF AgentDies, RecoveryAges
<1>7. ASSUME env' \in {"rough", "calm"}
      PROVE  RecoveryAges'
  BY <1>7 DEF RecoveryAges, OnlyLosses
<1>8. CASE DnsFails \/ ServerRestarts \/ ClientRestarts
  BY <1>7, <1>8 DEF DnsFails, ServerRestarts, ClientRestarts
<1>9. CASE Weather
  <2>1. CASE env = "fine"
    BY <1>9, <2>1 DEF Weather, RecoveryAges, OnlyLosses
  <2> QED BY <1>7, <1>9, <2>1 DEF Weather
<1>10. CASE Lose
  BY <1>10 DEF Lose, RecoveryAges, OnlyLosses
<1>11. ASSUME NEW from \in toServer, AgentFails(from)
       PROVE  RecoveryAges'
  BY <1>7, <1>11 DEF AgentFails
<1>12. CASE UNCHANGED vars
  BY <1>12 DEF vars, RecoveryAges, OnlyLosses
<1> QED BY <1>1, <1>2, <1>3, <1>4, <1>5, <1>6, <1>8, <1>9, <1>10, <1>11, <1>12 DEF Next

LEMMA RecoveryInvariance == Spec => [](AgeInv /\ RecoveryAges)
<1>1. Init => AgeInv /\ RecoveryAges
  <2>1. Init => AgeInv
    BY InitIInv DEF Init, AgeInv, Apart, Prompt, Ages
  <2>2. Init => RecoveryAges
    BY DEF Init, RecoveryAges
  <2> QED BY <2>1, <2>2
<1>2. AgeInv /\ RecoveryAges /\ [Next]_vars => (AgeInv /\ RecoveryAges)'
  BY NextAges, NextRecoveryAges
<1> QED BY <1>1, <1>2, PTL DEF Spec

\* While its client recovers from losses, the agent of a quiet mapping is not due.
LEMMA AgentNotDueYet ==
    ASSUME WaitFits, AgeInv, RecoveryAges, OnlyLosses, ~busy, agent # "none", recovering
    PROVE  hbAge < IPM_UDP_AGENT_TIMEOUT
<1> DEFINE all == IPM_UDP_REG_TRIES * IPM_UDP_REG_RETRY
<1>1. /\ sinceSend \in Nat /\ reg_tries \in Nat /\ reg_tries < IPM_UDP_REG_TRIES /\ hbAge \in Nat
      /\ waited \in Nat /\ waited <= client_reconn_time /\ sinceRecv \in Nat
      /\ DetectTime \in Nat /\ client_reconn_time \in Nat /\ IPM_UDP_AGENT_TIMEOUT \in Nat
  BY Constants, Times DEF AgeInv, IInv, TypeOK
<1>2. all \in Nat /\ 0 < all
  <2>1. Asking(0, 0) \in Nat /\ Asking(0, 0) < all
    BY Constants, AskingTime
  <2>2. all \in Nat
    BY Constants, Products
  <2> QED BY <2>1, <2>2
<1>3. DetectTime + client_reconn_time + all < IPM_UDP_AGENT_TIMEOUT
  BY DEF WaitFits
<1>4. CASE client_state = "RUNNING"
  <2>1. hbAge <= sinceRecv /\ sinceRecv < DetectTime
    BY <1>4, Silence DEF RecoveryAges, AgeInv, IInv, SilenceNoticed
  <2> HIDE DEF all
  <2> QED BY <1>1, <1>2, <1>3, <2>1
<1>5. CASE client_state = "WAITING"
  <2>1. hbAge <= DetectTime + waited
    BY <1>5 DEF RecoveryAges
  <2> HIDE DEF all
  <2> QED BY <1>1, <1>2, <1>3, <2>1
<1>6. CASE client_state = "DNS_QUERYING"
  <2>1. hbAge <= DetectTime + client_reconn_time + 1
    BY <1>6 DEF RecoveryAges, Away
  <2> HIDE DEF all
  <2> QED BY <1>1, <1>2, <1>3, <2>1
<1>7. CASE client_state = "SERVER_REGISTERING"
  <2>1. hbAge <= DetectTime + client_reconn_time + 1 + Asking(reg_tries, sinceSend)
    BY <1>7 DEF RecoveryAges, Away
  <2>2. Asking(reg_tries, sinceSend) \in Nat /\ Asking(reg_tries, sinceSend) < all
    BY <1>1, <1>7, AskingTime DEF AgeInv, Prompt
  <2> HIDE DEF all
  <2> QED BY <1>1, <1>2, <1>3, <2>1, <2>2
<1> QED BY <1>4, <1>5, <1>6, <1>7 DEF AgeInv, IInv, TypeOK

\* The server never gives the agent of a quiet mapping up before its client
\* has given up, however late packages are and whoever restarts; nor, where
\* packages are only lost, before a client whose link broke has waited and
\* made every try of its next attempt.
THEOREM AgentOutlivesItsClient == ASSUME WaitFits PROVE Spec => AgentOutlivesClient
<1>1. ASSUME AgeInv, RecoveryAges, [Next]_vars
      PROVE  [AgentDies /\ ~busy =>
                 /\ client_state # "RUNNING"
                 /\ env \in {"fine", "lossy"} => ~recovering]_vars
  BY <1>1, WaitFits, AgentNotDue, AgentNotDueYet, Constants DEF AgentDies, OnlyLosses
<1> QED BY <1>1, RecoveryInvariance, PTL DEF Spec, AgentOutlivesClient

-----------------------------------------------------------------------------

(***************************************************************************)
(* Recovery.  Whatever was wrong when the surroundings became calm, it is  *)
(* noticed in a time that what is left of the intervals bounds: the client *)
(* has not heard, or not asked, for longer than it has been calm.          *)
(***************************************************************************)

\* Where it is not calm, the count has not begun; what an earlier address
\* sent is gone after a second.
Settled ==
    /\ env # "calm" => calmFor = 0
    /\ "old" \in toServer => calmFor = 0

\* An unanswered client was unanswered before, or asks right now.
AskedInTime ==
    Unanswered => calmFor <= sinceSend \/ "current" \in toServer \/ toClient # {}

\* A client that waits began to before it was calm for long.
WaitsInTime ==
    client_state = "WAITING" =>
        calmFor + 1 < RecoverTime /\ calmFor + client_reconn_time < waited + RecoverTime

\* An answer comes from an agent that serves the client now.
AnswersAreCurrent == toClient # {} => calmFor = 0 \/ agent = "current"

\* A client that believes in an agent it has not heard of for longer than it
\* has been calm.
BelievesForNow == Idle /\ agent # "current" => calmFor <= sinceRecv

UpInTime == ~Served => calmFor < RecoverTime

Recovering ==
    /\ Settled
    /\ ~busy => AskedInTime /\ WaitsInTime /\ AnswersAreCurrent /\ BelievesForNow /\ UpInTime

RecoverInv == AgeInv /\ Recovering

LEMMA RecoverTimes ==
    /\ RecoverTime \in Nat
    /\ 1 + IPM_UDP_REG_RETRY + client_reconn_time <= RecoverTime
    /\ 1 + IPM_UDP_HEARTBEAT_IDLE <= RecoverTime
    /\ 2 + IPM_UDP_REG_RETRY <= RecoverTime
<1>1. IPM_UDP_REG_RETRY + 1 <= IPM_UDP_HEARTBEAT_IDLE
  BY TimeoutsAssumption, Constants
<1> QED BY <1>1, Constants, Times DEF RecoverTime

LEMMA Room ==
    \A calm, wait, retry, gone, all \in Int :
        /\ calm <= retry /\ 2 + retry <= all => calm + 1 < all
        /\ calm <= retry /\ 1 + retry + wait <= all => calm + wait < 0 + all
        /\ 0 <= gone /\ 0 <= retry /\ 1 + retry + wait <= all => 0 + wait < gone + all
OBVIOUS

LEMMA LessRoom ==
    \A calm, more, wait, gone, all \in Int :
        more <= calm + 1 /\ calm + wait < gone + all =>
            /\ more + wait < (gone + 1) + all
            /\ gone + 1 < wait => more + 1 < all
OBVIOUS

\* A client waits in time if it has no longer to wait than is left.
LEMMA WaitingIsInTime ==
    ASSUME NEW c \in Nat, NEW w \in Nat, c + 1 < RecoverTime, c + client_reconn_time < w + RecoverTime,
           calmFor' = c, waited' = w
    PROVE  WaitsInTime'
BY DEF WaitsInTime

LEMMA TickRecovering ==
    ASSUME RecoverInv, Tick
    PROVE  Recovering'
<1> DEFINE s == Later(sinceSend, IPM_UDP_REG_RETRY)
           r == Later(sinceRecv, DetectTime)
           w == Later(waited, client_reconn_time)
<1> USE DEF RecoverInv, AgeInv, net
<1>1. SecondPasses
  BY TickCases
<1>2. /\ sinceSend \in Nat /\ sinceRecv \in Nat /\ calmFor \in Nat /\ IPM_UDP_REG_RETRY \in Nat \ {0}
      /\ waited \in Nat /\ client_reconn_time \in Nat /\ IPM_UDP_HEARTBEAT_IDLE \in Nat
      /\ waited <= client_reconn_time /\ calmFor <= RecoverTime
      /\ sinceSend <= IPM_UDP_REG_RETRY
  BY Constants, Times DEF IInv, TypeOK
<1>3. busy' = busy /\ env' = env
  BY <1>1 DEF SecondPasses
<1>4. /\ calmFor' \in Nat /\ calmFor' <= calmFor + 1
      /\ env # "calm" => calmFor' = 0
      /\ env = "calm" => toServer = {} /\ toClient = {} /\ client_state # "DNS_QUERYING"
  BY <1>1, <1>2, RecoverTimes DEF SecondPasses, Later
<1>5. /\ calmFor \in Int /\ calmFor' \in Int /\ client_reconn_time \in Int /\ waited \in Int
      /\ IPM_UDP_REG_RETRY \in Int /\ RecoverTime \in Int
  BY <1>2, <1>4, RecoverTimes
<1>6. CASE env # "calm"
  <2>1. calmFor' = 0
    BY <1>4, <1>6
  <2>2. /\ sinceSend' \in Nat /\ sinceRecv' \in Nat /\ waited' \in Nat
    BY NextIInv, Constants, Times DEF IInv, TypeOK, Next
  <2>3. Settled' /\ AskedInTime' /\ AnswersAreCurrent' /\ BelievesForNow' /\ UpInTime'
    BY <1>2, <2>1, <2>2, RecoverTimes
       DEF Settled, AskedInTime, AnswersAreCurrent, BelievesForNow, UpInTime
  <2>4. WaitsInTime'
    <3>1. 0 + 1 < RecoverTime
      BY <1>2, RecoverTimes
    <3>2. 0 + client_reconn_time < waited' + RecoverTime
      <4>1. 0 <= waited' /\ waited' \in Int /\ 0 <= IPM_UDP_REG_RETRY
        BY <1>2, <2>2
      <4> QED BY <1>5, <4>1, RecoverTimes, Room, Zenon
    <3> QED BY <2>1, <2>2, <3>1, <3>2, WaitingIsInTime
  <2> QED BY <2>3, <2>4 DEF Recovering
<1>7. CASE env = "calm"
  <2>1. /\ toServer = {} /\ toClient = {} /\ client_state # "DNS_QUERYING"
    BY <1>4, <1>7
  <2>2. ASSUME "old" \notin toServer'
        PROVE  Settled'
    BY <1>3, <1>7, <2>2 DEF Settled
  <2>3. CASE busy
    <3>1. "old" \notin toServer'
      <4>1. CASE Waits \/ AsksAgain \/ Idles \/ Beats
        BY <2>1, <4>1 DEF Waits, AsksAgain, Idles, Beats, SendRegister
      <4>2. CASE OnFail
        BY <2>1, <4>2 DEF OnFail, Disconnects
      <4>3. CASE TickApart(s, r, w)
        BY <2>1, <4>3 DEF TickApart
      <4> QED BY <4>1, <4>2, <4>3, TickCases
    <3> QED BY <1>3, <2>2, <2>3, <3>1 DEF Recovering
  <2>4. CASE ~busy
    <3>1. AskedInTime /\ WaitsInTime /\ AnswersAreCurrent /\ BelievesForNow /\ UpInTime
      BY <2>4 DEF Recovering
    <3>2. CASE Unanswered /\ (Waits \/ AsksAgain) /\ client_state' = client_state
      <4>1. /\ agent' = agent /\ toClient' = {} /\ hb_pending' = hb_pending
            /\ "old" \notin toServer'
        BY <2>1, <3>2 DEF Waits, AsksAgain, SendRegister
      <4>2. calmFor <= sinceSend /\ calmFor' <= IPM_UDP_REG_RETRY
        BY <1>2, <1>4, <2>1, <3>1, <3>2 DEF AskedInTime, Waits, AsksAgain
      <4>3. AskedInTime'
        BY <1>2, <1>4, <3>2, <4>2 DEF AskedInTime, Waits, AsksAgain, SendRegister
      <4>4. ~Idle' /\ client_state' # "WAITING"
        BY <3>2, <4>1 DEF Unanswered, Idle
      <4>5. UpInTime'
        BY <1>2, <1>4, <4>2, RecoverTimes DEF UpInTime
      <4> QED BY <2>2, <4>1, <4>3, <4>4, <4>5
              DEF Recovering, WaitsInTime, AnswersAreCurrent, BelievesForNow
    <3>3. CASE Idle /\ (Idles \/ Beats) /\ client_state' = client_state /\ sinceRecv' = sinceRecv + 1
      <4>1. agent' = agent /\ toClient' = {} /\ "old" \notin toServer'
        BY <2>1, <3>3 DEF Idles, Beats, SendRegister
      <4>2. client_state' = "RUNNING"
        BY <3>3 DEF Idle
      <4>3. AskedInTime'
        <5>1. CASE Idles
          BY <3>3, <4>2, <5>1 DEF Idle, Idles, Unanswered, AskedInTime
        <5>2. CASE Beats
          BY <5>2 DEF Beats, SendRegister, AskedInTime
        <5> QED BY <3>3, <5>1, <5>2
      <4>4. BelievesForNow'
        BY <1>2, <1>4, <3>1, <3>3, <4>1 DEF BelievesForNow
      <4>5. UpInTime'
        <5>1. CASE agent = "current"
          BY <4>1, <4>2, <5>1 DEF UpInTime, Served
        <5>2. CASE agent # "current"
          <6>1. calmFor <= sinceRecv /\ sinceRecv + 1 <= IPM_UDP_HEARTBEAT_IDLE
            BY <1>2, <3>1, <3>3, <5>2 DEF BelievesForNow, Idles, Beats
          <6> QED BY <1>2, <1>4, <6>1, RecoverTimes DEF UpInTime
        <5> QED BY <5>1, <5>2
      <4> QED BY <2>2, <4>1, <4>2, <4>3, <4>4, <4>5 DEF Recovering, WaitsInTime, AnswersAreCurrent
    <3>4. CASE Unanswered /\ sinceSend + 1 = IPM_UDP_REG_RETRY /\ OnFail
      <4>1. /\ client_state' = "WAITING" /\ waited' = 0 /\ toClient' = {}
            /\ "old" \notin toServer'
        BY <2>1, <3>4 DEF OnFail, Disconnects
      <4>2. calmFor' <= IPM_UDP_REG_RETRY
        BY <1>2, <1>4, <2>1, <3>1, <3>4 DEF AskedInTime
      <4>3. UpInTime'
        BY <1>2, <1>4, <4>2, RecoverTimes DEF UpInTime
      <4>4. WaitsInTime'
        <5>1. calmFor' + 1 < RecoverTime /\ calmFor' + client_reconn_time < 0 + RecoverTime
          BY <1>5, <4>2, RecoverTimes, Room, Zenon
        <5> QED BY <1>4, <4>1, <5>1, WaitingIsInTime
      <4> QED BY <2>2, <4>1, <4>3, <4>4
              DEF Recovering, AskedInTime, AnswersAreCurrent, BelievesForNow, Unanswered, Idle
    <3>5. CASE TickApart(s, r, w)
      <4>1. /\ client_state = "WAITING" /\ waited' = w /\ toClient' = {} /\ toServer' = {}
            /\ client_state' = IF w >= client_reconn_time THEN "DNS_QUERYING" ELSE "WAITING"
        BY <2>1, <3>5 DEF TickApart
      <4>2. calmFor + 1 < RecoverTime /\ calmFor + client_reconn_time < waited + RecoverTime
        BY <3>1, <4>1 DEF WaitsInTime
      <4>3. UpInTime'
        BY <1>2, <1>4, <4>2, RecoverTimes DEF UpInTime
      <4>4. WaitsInTime'
        <5>1. ASSUME client_state' = "WAITING"
              PROVE  w = waited + 1 /\ waited + 1 < client_reconn_time
          BY <1>2, <4>1, <5>1 DEF Later
        <5>2. ASSUME client_state' = "WAITING"
              PROVE  calmFor' + 1 < RecoverTime
          BY <1>4, <1>5, <4>2, <5>1, <5>2, LessRoom, Zenon
        <5>3. ASSUME client_state' = "WAITING"
              PROVE  calmFor' + client_reconn_time < (waited + 1) + RecoverTime
          BY <1>4, <1>5, <4>2, LessRoom, Zenon
        <5>4. ASSUME client_state' = "WAITING"
              PROVE  waited' = waited + 1
          BY <4>1, <5>1, <5>4
        <5>5. client_state' = "WAITING" => WaitsInTime'
          BY <1>2, <1>4, <5>2, <5>3, <5>4, WaitingIsInTime
        <5> QED BY <5>5 DEF WaitsInTime
      <4> QED BY <2>2, <4>1, <4>3, <4>4
              DEF Recovering, AskedInTime, AnswersAreCurrent, BelievesForNow, Unanswered, Idle
    <3> QED BY <3>2, <3>3, <3>4, <3>5, TickCases
  <2> QED BY <2>3, <2>4
<1> QED BY <1>6, <1>7

\* A step that is no tick and not a failure leaves the time as it is.
LEMMA NextRecovering ==
    ASSUME RecoverInv, [Next]_vars
    PROVE  Recovering'
<1> USE DEF RecoverInv, AgeInv, timers, counts, client, server, net
<1>0. /\ sinceSend \in Nat /\ sinceRecv \in Nat /\ calmFor \in Nat /\ RecoverTime \in Nat
      /\ 0 < RecoverTime /\ toServer \subseteq {"current", "old"}
  BY Constants, Times, RecoverTimes DEF IInv, TypeOK
<1>1. CASE Tick
  BY <1>1, TickRecovering
<1>2. CASE DnsAnswers
  <2>1. Settled' /\ AskedInTime' /\ BelievesForNow'
    BY <1>2 DEF DnsAnswers, SendRegister, Recovering, Settled, AskedInTime, BelievesForNow, Idle
  <2>2. toClient' = toClient /\ agent' = agent /\ calmFor' = calmFor /\ busy' = busy
        /\ client_state = "DNS_QUERYING" /\ client_state' = "SERVER_REGISTERING"
    BY <1>2 DEF DnsAnswers, SendRegister
  <2>3. ~busy => WaitsInTime' /\ AnswersAreCurrent' /\ UpInTime'
    BY <2>2 DEF Recovering, WaitsInTime, AnswersAreCurrent, UpInTime, Served
  <2> QED BY <2>1, <2>2, <2>3 DEF Recovering
<1>3. ASSUME env = "rough", Disconnects, client_state' \in {"WAITING", "DNS_QUERYING"}, waited' = 0,
             UNCHANGED <<busy, env, calmFor>>
      PROVE  Recovering'
  <2>1. calmFor' = 0
    BY <1>3 DEF Recovering, Settled
  <2>2. toClient' = {} /\ ~Unanswered' /\ ~Idle'
    BY <1>3 DEF Disconnects, Unanswered, Idle
  <2>3. WaitsInTime'
    <3>1. 0 + 1 < RecoverTime
      BY Constants, RecoverTimes
    <3>2. 0 + client_reconn_time < 0 + RecoverTime
      BY Constants, RecoverTimes
    <3> QED BY <1>3, <2>1, <3>1, <3>2, WaitingIsInTime
  <2> QED BY <1>0, <2>1, <2>2, <2>3
          DEF Recovering, Settled, AskedInTime, AnswersAreCurrent, BelievesForNow, UpInTime
<1>4. CASE DnsFails
  BY <1>3, <1>4 DEF DnsFails, OnFail
<1>5. CASE ClientRestarts
  BY <1>3, <1>5 DEF ClientRestarts
<1>6. ASSUME NEW m \in toClient, Receive(m)
      PROVE  Recovering'
  <2>1. UNCHANGED <<toServer, env, busy, calmFor, agent>> /\ client_state \in {"SERVER_REGISTERING", "RUNNING"}
    BY <1>6 DEF Receive
  <2>2. Settled'
    BY <2>1 DEF Recovering, Settled
  <2>3. CASE busy
    BY <2>1, <2>2, <2>3 DEF Recovering
  <2>4. CASE ~busy
    <3>1. m = "ack" /\ toClient' = {} /\ client_state' = "RUNNING" /\ sinceRecv' = 0 /\ ~hb_pending'
      BY <1>6, <2>4 DEF Receive, Ages, IInv, TypeOK
    <3>2. calmFor = 0 \/ agent = "current"
      BY <1>6, <2>4 DEF Recovering, AnswersAreCurrent
    <3>3. AskedInTime' /\ WaitsInTime' /\ AnswersAreCurrent'
      BY <3>1 DEF AskedInTime, WaitsInTime, AnswersAreCurrent, Unanswered
    <3>4. BelievesForNow' /\ UpInTime'
      BY <1>0, <2>1, <3>1, <3>2 DEF BelievesForNow, UpInTime, Served
    <3> QED BY <2>2, <3>3, <3>4 DEF Recovering
  <2> QED BY <2>3, <2>4
<1>7. ASSUME NEW from \in toServer, HandleRegister(from)
      PROVE  Recovering'
  <2>1. /\ UNCHANGED <<client_state, sinceSend, sinceRecv, waited, hb_pending, busy, env, calmFor>>
        /\ toServer' = toServer \ {from} /\ agent' = from
        /\ toClient' = IF from = "current" THEN toClient \union {"ack"} ELSE toClient
    BY <1>7 DEF HandleRegister
  <2>2. Settled' /\ (~busy => WaitsInTime')
    BY <2>1 DEF Recovering, Settled, WaitsInTime
  <2>3. CASE from = "current"
    <3>1. AskedInTime' /\ AnswersAreCurrent' /\ BelievesForNow'
      BY <2>1, <2>3 DEF AskedInTime, AnswersAreCurrent, BelievesForNow
    <3>2. ~busy => UpInTime'
      BY <2>1, <2>3 DEF Recovering, UpInTime, Served
    <3> QED BY <2>1, <2>2, <3>1, <3>2 DEF Recovering
  <2>4. CASE from # "current"
    <3>1. from = "old" /\ calmFor' = 0
      BY <1>0, <2>1, <2>4 DEF Recovering, Settled
    <3>2. AskedInTime' /\ AnswersAreCurrent' /\ BelievesForNow' /\ UpInTime'
      BY <1>0, <2>1, <3>1 DEF AskedInTime, AnswersAreCurrent, BelievesForNow, UpInTime
    <3> QED BY <2>1, <2>2, <3>2 DEF Recovering
  <2> QED BY <2>3, <2>4
<1>8. CASE VisitorData
  <2>1. busy /\ busy' = busy /\ UNCHANGED <<toServer, env, calmFor>>
    BY <1>8 DEF VisitorData
  <2> QED BY <2>1 DEF Recovering, Settled
<1>9. CASE AgentDies
  <2>1. /\ agent # "none" /\ hbAge = IPM_UDP_AGENT_TIMEOUT /\ agent' = "none"
        /\ UNCHANGED <<client, net, busy, env, calmFor>>
    BY <1>9 DEF AgentDies
  <2>2. CASE busy
    BY <2>1, <2>2 DEF Recovering, Settled
  <2>3. CASE ~busy
    <3>1. client_state # "RUNNING"
      BY <2>1, <2>3, AgentNotDue, Constants
    <3>2. toClient # {} => calmFor = 0
      <4> SUFFICES ASSUME toClient # {}
                   PROVE  FALSE
        OBVIOUS
      <4>1. client_state = "SERVER_REGISTERING"
        BY <3>1 DEF Apart, IInv, TypeOK
      <4>2. hbAge <= Asking(reg_tries, sinceSend) /\ sinceSend < IPM_UDP_REG_RETRY
        BY <2>1, <2>3, <4>1 DEF Ages, Prompt
      <4>3. reg_tries \in Nat /\ reg_tries < IPM_UDP_REG_TRIES
        BY Constants DEF IInv, TypeOK
      <4>4. Asking(reg_tries, sinceSend) < LongestUnheard /\ Asking(reg_tries, sinceSend) \in Nat
        BY <1>0, <4>2, <4>3, AskingTime
      <4>5. LongestUnheard <= IPM_UDP_AGENT_TIMEOUT
        <5>1. 0 < DetectTime
          <6>1. IPM_UDP_HEARTBEAT_TRIES * IPM_UDP_REG_RETRY \in Nat
            BY Constants, Products
          <6> QED BY <6>1, Constants DEF DetectTime
        <5> QED BY <5>1, TimeoutsAssumption, LongestUnheardType, Times, Constants
      <4> QED BY <2>1, <4>2, <4>4, <4>5, LongestUnheardType, Constants
    <3>3. Settled' /\ AskedInTime' /\ WaitsInTime'
      BY <2>1, <2>3 DEF Recovering, Settled, AskedInTime, WaitsInTime, Unanswered
    <3>4. AnswersAreCurrent' /\ BelievesForNow'
      BY <2>1, <3>1, <3>2 DEF AnswersAreCurrent, BelievesForNow, Idle
    <3>5. UpInTime'
      BY <2>1, <2>3, <3>1 DEF Recovering, UpInTime, Served
    <3> QED BY <3>3, <3>4, <3>5 DEF Recovering
  <2> QED BY <2>2, <2>3
<1>10. ASSUME env # "calm", calmFor' = calmFor, busy' = busy,
              UNCHANGED client,
              toServer' \subseteq toServer, toClient' \subseteq toClient
       PROVE  Recovering'
  <2>1. calmFor' = 0
    BY <1>10 DEF Recovering, Settled
  <2>2. ~busy => WaitsInTime'
    BY <1>10 DEF Recovering, WaitsInTime
  <2> QED BY <1>0, <1>10, <2>1, <2>2
          DEF Recovering, Settled, AskedInTime, AnswersAreCurrent, BelievesForNow, UpInTime
<1>11. CASE Weather
  BY <1>10, <1>11 DEF Weather
<1>12. CASE Lose
  BY <1>10, <1>12 DEF Lose
<1>13. CASE ServerRestarts
  BY <1>10, <1>13 DEF ServerRestarts
<1>14. ASSUME NEW from \in toServer, AgentFails(from)
      PROVE  Recovering'
  BY <1>14, <1>10 DEF AgentFails
<1>15. CASE UNCHANGED vars
  BY <1>15 DEF vars, Recovering, Settled, AskedInTime, WaitsInTime, AnswersAreCurrent, BelievesForNow,
               UpInTime, Served, Unanswered, Idle
<1> QED BY <1>1, <1>2, <1>4, <1>5, <1>6, <1>7, <1>14, <1>8, <1>9, <1>11, <1>12, <1>13, <1>15 DEF Next

LEMMA RecoverInvariance == Spec => []RecoverInv
<1>1. Init => RecoverInv
  <2>1. ASSUME Init
        PROVE  AgeInv
    BY <2>1, InitIInv DEF Init, AgeInv, Apart, Prompt, Ages
  <2>2. ASSUME Init
        PROVE  Recovering
    <3>1. calmFor = 0 /\ client_state = "DNS_QUERYING" /\ toClient = {} /\ 0 < RecoverTime
      BY <2>2, RecoverTimes, Constants DEF Init
    <3> QED BY <3>1
            DEF Recovering, Settled, AskedInTime, WaitsInTime, AnswersAreCurrent, BelievesForNow,
                UpInTime, Unanswered, Idle
  <2> QED BY <2>1, <2>2 DEF RecoverInv
<1>2. ASSUME RecoverInv, [Next]_vars
      PROVE  RecoverInv'
  BY <1>2, NextAges, NextRecovering DEF RecoverInv
<1> QED BY <1>1, <1>2, PTL DEF Spec

\* Whatever was lost, late or restarted, and whenever it stops: within
\* RecoverTime a mapping whose visitors are quiet is served, and stays so.
THEOREM IsBackInTime == Spec => []BackInTime
<1>1. RecoverInv => BackInTime
  BY RecoverTimes DEF RecoverInv, Recovering, UpInTime, BackInTime
<1> QED BY <1>1, RecoverInvariance, PTL

=============================================================================
