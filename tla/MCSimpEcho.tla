---------------------------- MODULE MCSimpEcho -----------------------------
(* Instances of SimpEcho for TLC: one client, and a descriptor for the log *)
(* besides the one for the connection.                                     *)
EXTENDS SimpEcho

TwoFds == {4, 5}
=============================================================================
