-------------------------- MODULE UdpAgingProofs ---------------------------
(***************************************************************************)
(* Theorems about UdpAging, for every time-out, lag and delay: what the    *)
(* comment at IPM_UDP_CLIENT_LAG asks for holds as long as the lag makes   *)
(* up for two delays, the client's -T is not below the server's and no     *)
(* package of the visitor is lost.                                         *)
(***************************************************************************)
EXTENDS UdpAging, TLAPS

\* When the client's session may not end before the server's.
Matched ==
    /\ Lossy = FALSE
    /\ ServerTimeout <= ClientTimeout
    /\ 2 * Delay < IPM_UDP_CLIENT_LAG

\* With nothing under way to it, the client's timer lags a delay at most.
InStep ==
    cli = "live" /\ srv = "live" /\ toClient = {} => cliAge <= srvAge + Delay

\* What is under way was sent before the server's session timed out.
Reminded ==
    cli = "live" /\ toClient # {} =>
        \E m \in toClient : cliAge <= ServerTimeout + Delay + m

\* What the host sends sets the client's timer first.
Answered == cli = "live" => \A m \in toServer : cliAge <= m

\* Once timed out, a session is over for both and nothing brings it back.
Over == cli = "gone" => srv = "gone" /\ toClient = {}

\* Without its link the client has no sessions.
Unlinked == link = "old" => cli = "none" /\ toClient = {}

Aging == InStep /\ Reminded /\ Answered /\ Over /\ Unlinked
IInv == TypeOK /\ Aging

-----------------------------------------------------------------------------

LEMMA Constants ==
    /\ ServerTimeout \in Nat /\ ServerTimeout > 0
    /\ ClientTimeout \in Nat
    /\ IPM_UDP_CLIENT_LAG \in Nat
    /\ Delay \in Nat
    /\ ClientLifetime \in Nat
    /\ ClientLifetime = ClientTimeout + IPM_UDP_CLIENT_LAG
BY ConstantsAssumption DEF ClientLifetime

LEMMA InitIInv == Init => IInv
BY Constants DEF Init, IInv, TypeOK, Aging, InStep, Reminded, Answered, Over, Unlinked

\* The types do not depend on how the constants are matched.
LEMMA NextTypeOK == TypeOK /\ [Next]_vars => TypeOK'
<1> SUFFICES ASSUME TypeOK, [Next]_vars
             PROVE  TypeOK'
  OBVIOUS
<1>1. CASE VisitorSends
  BY <1>1, Constants DEF VisitorSends, TypeOK
<1>2. CASE ServerTimesOut
  BY <1>2, Constants DEF ServerTimesOut, TypeOK
<1>3. CASE ServerDrops
  BY <1>3, Constants DEF ServerDrops, TypeOK
<1>4. CASE HostReplies
  BY <1>4, Constants DEF HostReplies, TypeOK
<1>5. CASE ClientTimesOut
  BY <1>5, Constants DEF ClientTimesOut, TypeOK
<1>6. CASE ClientFails
  BY <1>6, Constants DEF ClientFails, TypeOK
<1>7. CASE Registered
  BY <1>7 DEF Registered, TypeOK
<1>8. ASSUME NEW m \in toClient, ClientReceives(m)
      PROVE  TypeOK'
  BY <1>8, Constants DEF ClientReceives, TypeOK
<1>9. ASSUME NEW m \in toServer, ServerReceives(m)
      PROVE  TypeOK'
  BY <1>9, Constants DEF ServerReceives, TypeOK
<1>10. CASE Lose
  BY <1>10 DEF Lose, TypeOK
<1>11. CASE Tick
  <2>1. srvAge' \in 0 .. ServerTimeout /\ cliAge' \in 0 .. ClientLifetime
    BY <1>11, Constants DEF Tick, TypeOK
  <2>2. toClient' \subseteq 0 .. Delay /\ toServer' \subseteq 0 .. Delay
    BY <1>11, Constants DEF Tick, TypeOK
  <2> QED BY <1>11, <2>1, <2>2 DEF Tick, TypeOK
<1>12. CASE UNCHANGED vars
  BY <1>12 DEF vars, TypeOK
<1> QED BY <1>1, <1>2, <1>3, <1>4, <1>5, <1>6, <1>7, <1>8, <1>9, <1>10, <1>11, <1>12 DEF Next

-----------------------------------------------------------------------------

(***************************************************************************)
(* The two timers.                                                         *)
(***************************************************************************)

\* Before the client's timer fires the server's has, and nothing is under way.
LEMMA NotBefore ==
    ASSUME Matched, IInv, cli = "live", cliAge = ClientLifetime
    PROVE  srv = "gone" /\ toClient = {}
<1>1. ASSUME toClient # {}
      PROVE  FALSE
  <2>1. PICK m \in toClient : cliAge <= ServerTimeout + Delay + m
    BY <1>1 DEF IInv, Aging, Reminded
  <2>2. m \in 0 .. Delay
    BY DEF IInv, TypeOK
  <2> QED BY <2>1, <2>2, Constants DEF Matched
<1>2. ASSUME srv = "live"
      PROVE  FALSE
  <2>1. cliAge <= srvAge + Delay
    BY <1>1, <1>2 DEF IInv, Aging, InStep
  <2>2. srvAge \in 0 .. ServerTimeout
    BY DEF IInv, TypeOK
  <2> QED BY <2>1, <2>2, Constants DEF Matched
<1> QED BY <1>1, <1>2 DEF IInv, TypeOK

LEMMA VisitorSendsAging ==
    ASSUME IInv, VisitorSends
    PROVE  Aging'
<1> USE DEF IInv, Aging, VisitorSends
<1>1. Reminded'
  <2> SUFFICES ASSUME cli = "live"
               PROVE  \E m \in toClient' : cliAge <= ServerTimeout + Delay + m
    BY DEF Reminded
  <2>1. link = "current" /\ 0 \in toClient' /\ toClient \subseteq toClient'
    BY DEF Unlinked, TypeOK
  <2>2. CASE toClient = {}
    <3>1. cliAge <= srvAge + Delay
      BY <2>2 DEF InStep
    <3>2. cliAge <= ServerTimeout + Delay + 0
      BY <3>1, Constants DEF TypeOK
    <3> QED BY <2>1, <3>2
  <2>3. CASE toClient # {}
    BY <2>1, <2>3 DEF Reminded
  <2> QED BY <2>2, <2>3
<1>2. InStep'
  BY DEF InStep, Unlinked, TypeOK
<1> QED BY <1>1, <1>2 DEF Answered, Over, Unlinked

LEMMA TickAging ==
    ASSUME IInv, Tick
    PROVE  Aging'
<1> USE DEF IInv, Aging
<1>1. InStep'
  BY Constants DEF Tick, InStep, TypeOK
<1>2. Reminded'
  <2> SUFFICES ASSUME cli = "live", toClient' # {}
               PROVE  \E m \in toClient' : cliAge' <= ServerTimeout + Delay + m
    BY DEF Reminded, Tick
  <2>1. toClient # {}
    BY DEF Tick
  <2>2. PICK m \in toClient : cliAge <= ServerTimeout + Delay + m
    BY <2>1 DEF Reminded
  <2>3. m + 1 \in toClient' /\ cliAge' = cliAge + 1
    BY DEF Tick
  <2>4. cliAge' <= ServerTimeout + Delay + (m + 1)
    BY <2>2, <2>3, Constants DEF TypeOK
  <2> QED BY <2>3, <2>4
<1>3. Answered'
  <2> SUFFICES ASSUME cli = "live", NEW n \in toServer'
               PROVE  cliAge' <= n
    BY DEF Answered, Tick
  <2>1. PICK m \in toServer : n = m + 1
    BY DEF Tick
  <2>2. cliAge <= m /\ cliAge' = cliAge + 1
    BY DEF Answered, Tick
  <2> QED BY <2>1, <2>2, Constants DEF TypeOK
<1>4. Over' /\ Unlinked'
  BY DEF Tick, Over, Unlinked
<1> QED BY <1>1, <1>2, <1>3, <1>4

LEMMA NextAging == Matched /\ IInv /\ [Next]_vars => Aging'
<1> SUFFICES ASSUME Matched, IInv, [Next]_vars
             PROVE  Aging'
  OBVIOUS
<1> USE DEF IInv, Aging
<1>1. CASE VisitorSends
  BY <1>1, VisitorSendsAging
<1>2. CASE ServerTimesOut
  BY <1>2 DEF ServerTimesOut, InStep, Reminded, Answered, Over, Unlinked
<1>3. CASE ServerDrops
  BY <1>3 DEF ServerDrops, InStep, Reminded, Answered, Over, Unlinked
<1>4. CASE HostReplies
  <2>1. InStep' /\ Answered'
    BY <1>4, Constants DEF HostReplies, InStep, Answered, TypeOK
  <2>2. Reminded'
    <3> SUFFICES ASSUME NEW m \in toClient
                 PROVE  0 <= ServerTimeout + Delay + m
      BY <1>4 DEF HostReplies, Reminded
    <3> QED BY Constants DEF TypeOK
  <2> QED BY <1>4, <2>1, <2>2 DEF HostReplies, Over, Unlinked
<1>5. CASE ClientTimesOut
  <2>1. srv = "gone" /\ toClient = {}
    BY <1>5, NotBefore DEF ClientTimesOut
  <2> QED BY <1>5, <2>1 DEF ClientTimesOut, InStep, Reminded, Answered, Over, Unlinked
<1>6. CASE ClientFails
  BY <1>6 DEF ClientFails, InStep, Reminded, Answered, Over, Unlinked
<1>7. CASE Registered
  BY <1>7 DEF Registered, InStep, Reminded, Answered, Over, Unlinked
<1>8. ASSUME NEW m \in toClient, ClientReceives(m)
      PROVE  Aging'
  <2>1. InStep' /\ Answered'
    BY <1>8, Constants DEF ClientReceives, InStep, Answered, TypeOK
  <2>2. Reminded'
    <3> SUFFICES ASSUME NEW n \in toClient
                 PROVE  0 <= ServerTimeout + Delay + n
      BY <1>8 DEF ClientReceives, Reminded
    <3> QED BY Constants DEF TypeOK
  <2> QED BY <1>8, <2>1, <2>2 DEF ClientReceives, Over, Unlinked
<1>9. ASSUME NEW m \in toServer, ServerReceives(m)
      PROVE  Aging'
  <2>1. cli = "live" => cliAge <= Delay
    BY Constants DEF Answered, TypeOK
  <2>2. InStep'
    BY <1>9, <2>1, Constants DEF ServerReceives, InStep, TypeOK
  <2> QED BY <1>9, <2>2 DEF ServerReceives, Reminded, Answered, Over, Unlinked
<1>10. CASE Lose
  <2>1. toClient' = toClient /\ toServer' \subseteq toServer
    BY <1>10 DEF Lose, Matched
  <2> QED BY <1>10, <2>1 DEF Lose, InStep, Reminded, Answered, Over, Unlinked
<1>11. CASE Tick
  BY <1>11, TickAging
<1>12. CASE UNCHANGED vars
  BY <1>12 DEF vars, InStep, Reminded, Answered, Over, Unlinked
<1> QED BY <1>1, <1>2, <1>3, <1>4, <1>5, <1>6, <1>7, <1>8, <1>9, <1>10, <1>11, <1>12 DEF Next

-----------------------------------------------------------------------------

(***************************************************************************)
(* The theorems.                                                           *)
(***************************************************************************)

\* Every variable keeps its type, whatever the constants.
THEOREM TypeCorrect == Spec => []TypeOK
<1>1. Init => TypeOK
  BY InitIInv DEF IInv
<1> QED BY <1>1, NextTypeOK, PTL DEF Spec

LEMMA Invariance ==
    ASSUME Matched
    PROVE  Spec => []IInv
<1>1. IInv /\ [Next]_vars => IInv'
  BY NextTypeOK, NextAging DEF IInv
<1> QED BY <1>1, InitIInv, PTL DEF Spec

\* With matched time-outs, the client's session outlives the server's: the
\* sentence at IPM_UDP_CLIENT_LAG, and what it takes.
THEOREM OutlivesTheServers ==
    ASSUME Matched
    PROVE  Spec => []ClientOutlives
<1>1. IInv => ClientOutlives
  BY DEF IInv, Aging, Over, ClientOutlives
<1> QED BY <1>1, Invariance, PTL

\* With matched time-outs, the mapped host sees one port for the session as
\* long as client and server stay connected.
THEOREM OnePort ==
    ASSUME Matched
    PROVE  Spec => SamePort
<1>1. IInv /\ [Next]_vars => [cli = "gone" => cli' # "live"]_vars
  <2> SUFFICES ASSUME IInv, [Next]_vars, cli = "gone"
               PROVE  cli' # "live"
    OBVIOUS
  <2>1. toClient = {}
    BY DEF IInv, Aging, Over
  <2> QED BY <2>1 DEF Next, VisitorSends, ServerTimesOut, ServerDrops, HostReplies,
            ClientTimesOut, ClientFails, Registered, ServerReceives, Lose, Tick, vars
<1> QED BY <1>1, Invariance, PTL DEF Spec, SamePort
=============================================================================
