--------------------------- MODULE MCSimpServer ----------------------------
(* Instances of SimpServer for TLC.  Descriptors 0, 1 and 2 are the        *)
(* terminal's, so socket() returns 3 and clients and the log get 4, 5, ... *)
EXTENDS SimpServer

TwoFds   == {4, 5}
ThreeFds == {4, 5, 6}
=============================================================================
