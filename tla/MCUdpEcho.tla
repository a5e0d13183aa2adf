----------------------------- MODULE MCUdpEcho -----------------------------
(***************************************************************************)
(* Instances of UdpEcho for TLC.                                           *)
(***************************************************************************)
EXTENDS UdpEcho

CONSTANTS a, b

=============================================================================
