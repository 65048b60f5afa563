----------------------------- MODULE MCUdpBatch -----------------------------
(***************************************************************************)
(* Instances of UdpBatch for TLC.                                          *)
(***************************************************************************)
EXTENDS UdpBatch

CONSTANTS s1, s2

Sessions == {s1, s2}

\* Empty, too short for a session number, and of different lengths, with two
\* destinations and with none.
Datagrams ==
    {[len |-> l, session |-> s1] : l \in 0 .. 3}
        \union {[len |-> l, session |-> s2] : l \in 2 .. 3}
        \union {[len |-> 2, session |-> NoSession]}
=============================================================================
