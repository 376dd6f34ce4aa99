---------------------------- MODULE MCNbServer -----------------------------
(* Instances of NbServer for TLC: one descriptor more than there are       *)
(* slots, so that a connection can be accepted only to be refused.         *)
EXTENDS NbServer

TwoFds   == {4, 5}
ThreeFds == {4, 5, 6}
=============================================================================
