------------------------------ MODULE TcpConn ------------------------------
(***************************************************************************)
(* The kernel's end of one accepted TCP connection, as far as the servers  *)
(* of this repository can see it: what recv() and send() return on a       *)
(* descriptor, what makes select() report it, and what the remote peer may *)
(* do to it.  This is code outside src/, modelled from the calls src/ makes *)
(* (recv, send, close and select on Linux).                                 *)
(*                                                                         *)
(* A connection is a record:                                               *)
(*   st     "none"  the descriptor is not an open connection               *)
(*          "open"  established                                            *)
(*          "fin"   the peer's FIN arrived: recv() returns 0 once drained  *)
(*          "reset" RST arrived while established, ECONNRESET pending      *)
(*          "dead"  RST after the FIN, or its error has been reported      *)
(*   in     messages received and not yet read by the server               *)
(*   out    replies accepted by the kernel and not yet read by the peer    *)
(*   fails  calls on this connection that the server saw fail: an error    *)
(*          from recv() or send(), or end of file.  The kernel keeps no    *)
(*          such count; it is an observer's, used to state properties.     *)
(***************************************************************************)
EXTENDS Integers

CONSTANTS MaxIn,   (* messages the receive buffer of a connection holds    *)
          MaxOut   (* replies the send buffer of a connection holds        *)

ASSUME BufferAssumption ==
    /\ MaxIn \in Nat \ {0}
    /\ MaxOut \in Nat \ {0}

ConnState == {"none", "open", "fin", "reset", "dead"}

Conn == [st : ConnState, in : 0..MaxIn, out : 0..MaxOut, fails : Nat]

NoConn  == [st |-> "none", in |-> 0, out |-> 0, fails |-> 0]
NewConn == [st |-> "open", in |-> 0, out |-> 0, fails |-> 0]

IsOpen(c) == c.st # "none"

(* The peer's half of the connection is gone: nothing more will arrive.    *)
PeerGone(c) == c.st \in {"fin", "reset", "dead"}

(* select() reports the descriptor readable.                               *)
Readable(c) == c.in > 0 \/ PeerGone(c)

-----------------------------------------------------------------------------
(* recv(): data is delivered even after the peer has gone; the error of a  *)
(* reset connection is reported once, and it reads as ended from then on.  *)
(* A connection that has ended already reads as ended after an RST, too.   *)
RecvResult(c) ==
    CASE c.in > 0                             -> "data"
      [] c.in = 0 /\ c.st = "reset"           -> "error"
      [] c.in = 0 /\ c.st \in {"fin", "dead"} -> "eof"
      [] OTHER                                -> "again"

Failing(c) == [c EXCEPT !.fails = @ + 1]
Dying(c)   == [Failing(c) EXCEPT !.st = "dead"]

AfterRecvData(c, n) == [c EXCEPT !.in = @ - n]

AfterRecvNothing(c) ==
    CASE RecvResult(c) = "error" -> Dying(c)
      [] RecvResult(c) = "eof"   -> Failing(c)
      [] OTHER                   -> c

(* send() on a non-blocking descriptor.  ECONNRESET is reported as an      *)
(* error; EPIPE, the answer of a dead connection, comes with SIGPIPE,      *)
(* whose default action ends the process.                                  *)
SendResult(c) ==
    CASE c.st \in {"open", "fin"} /\ c.out < MaxOut -> "ok"
      [] c.st \in {"open", "fin"} /\ c.out = MaxOut -> "again"
      [] c.st = "reset"                             -> "error"
      [] OTHER                                      -> "sigpipe"

AfterSend(c) ==
    CASE SendResult(c) = "ok"    -> [c EXCEPT !.out = @ + 1]
      [] SendResult(c) = "error" -> Dying(c)
      [] OTHER                   -> Failing(c)

-----------------------------------------------------------------------------
(* What the remote peer does: it sends, reads replies, closes its end, or  *)
(* aborts.  An RST after a FIN answers something the server sent.          *)
CanPeerSend(c)  == c.st = "open" /\ c.in < MaxIn
CanPeerRead(c)  == c.st \in {"open", "fin"} /\ c.out > 0
CanPeerClose(c) == c.st = "open"
CanPeerReset(c) == c.st = "open" \/ (c.st = "fin" /\ c.out > 0)

PeerSends(c)  == [c EXCEPT !.in = @ + 1]
PeerReads(c)  == [c EXCEPT !.out = @ - 1]
PeerCloses(c) == [c EXCEPT !.st = "fin"]
PeerResets(c) ==
    [st    |-> IF c.st = "open" THEN "reset" ELSE "dead",
     in    |-> c.in, out |-> 0, fails |-> c.fails]
=============================================================================
