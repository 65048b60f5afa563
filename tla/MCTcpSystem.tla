---------------------------- MODULE MCTcpSystem ----------------------------
(***************************************************************************)
(* Instances of TcpSystem for TLC.                                         *)
(***************************************************************************)
EXTENDS TcpSystem

\* The counter starts anywhere; where it starts makes no difference here.
FirstIndexInit == Init /\ seq = 0

FirstIndexSpec == FirstIndexInit /\ [][Next]_vars /\ Fairness
=============================================================================
