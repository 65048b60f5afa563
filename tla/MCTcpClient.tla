---------------------------- MODULE MCTcpClient ----------------------------
(***************************************************************************)
(* Instances of TcpClient for TLC.                                         *)
(***************************************************************************)
EXTENDS TcpClient, TLC

\* Tunnel objects are interchangeable, and so are the indices.
Symmetry == Permutations(Tunnel) \union Permutations(Index)
=============================================================================
