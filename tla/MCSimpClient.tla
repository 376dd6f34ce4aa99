--------------------------- MODULE MCSimpClient ----------------------------
(* Instances of SimpClient for TLC: one client against any server.         *)
EXTENDS SimpClient
=============================================================================
