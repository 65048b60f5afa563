--------------------------- MODULE MCUdpSessions ---------------------------
(***************************************************************************)
(* Instances of UdpSessions for TLC.                                       *)
(***************************************************************************)
EXTENDS UdpSessions, TLC

\* Mappings are interchangeable, and so are visitors.
Symmetry == Permutations(Agent) \union Permutations(Visitor)
=============================================================================
