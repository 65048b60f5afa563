---------------------------- MODULE MCUdpAging -----------------------------
(***************************************************************************)
(* Instances of UdpAging for TLC.                                          *)
(***************************************************************************)
EXTENDS UdpAging
=============================================================================
