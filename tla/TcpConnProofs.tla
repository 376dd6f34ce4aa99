--------------------------- MODULE TcpConnProofs ---------------------------
(***************************************************************************)
(* Lemmas about the operators of TcpConn, for every buffer size: what the  *)
(* calls of a server and the moves of a peer preserve of a connection.     *)
(***************************************************************************)
EXTENDS TcpConn, TLAPS

(* recv() and send() that move no data keep a connection a connection,     *)
(* keep it open, and count one failure exactly when the caller sees one.   *)
LEMMA FailedCalls ==
    ASSUME NEW c \in Conn
    PROVE  /\ AfterRecvNothing(c) \in Conn
           /\ IsOpen(c) => IsOpen(AfterRecvNothing(c))
           /\ RecvResult(c) = "again" => AfterRecvNothing(c) = c
           /\ RecvResult(c) \in {"error", "eof"} =>
                 AfterRecvNothing(c).fails = c.fails + 1
           /\ AfterSend(c) \in Conn
           /\ IsOpen(c) => IsOpen(AfterSend(c))
           /\ SendResult(c) = "ok" => AfterSend(c).fails = c.fails
           /\ SendResult(c) # "ok" => AfterSend(c).fails = c.fails + 1
  <1>1. RecvResult(c) \in {"data", "error", "eof", "again"}
    BY DEF Conn, ConnState, RecvResult
  <1>2. SendResult(c) \in {"ok", "again", "error", "sigpipe"}
    BY BufferAssumption DEF Conn, ConnState, SendResult
  <1>3. SendResult(c) = "ok" => c.out + 1 \in 0..MaxOut
    BY BufferAssumption DEF Conn, ConnState, SendResult
  <1>4. /\ Failing(c) \in Conn
        /\ Dying(c) \in Conn
        /\ SendResult(c) = "ok" => [c EXCEPT !.out = @ + 1] \in Conn
    <2>1. Failing(c) \in Conn
      BY DEF Conn, ConnState, Failing
    <2>2. Dying(c) \in Conn
      BY <2>1 DEF Conn, ConnState, Dying
    <2>3. SendResult(c) = "ok" => [c EXCEPT !.out = @ + 1] \in Conn
      BY <1>3, BufferAssumption DEF Conn, ConnState
    <2>4. QED
      BY <2>1, <2>2, <2>3
  <1>5. /\ AfterRecvNothing(c) \in Conn
        /\ AfterSend(c) \in Conn
    BY <1>1, <1>2, <1>4 DEF AfterRecvNothing, AfterSend
  <1>6. /\ IsOpen(c) => IsOpen(AfterRecvNothing(c))
        /\ RecvResult(c) = "again" => AfterRecvNothing(c) = c
        /\ RecvResult(c) \in {"error", "eof"} =>
              AfterRecvNothing(c).fails = c.fails + 1
    BY <1>1 DEF Conn, AfterRecvNothing, Failing, Dying, IsOpen
  <1>7. /\ IsOpen(c) => IsOpen(AfterSend(c))
        /\ SendResult(c) = "ok" => AfterSend(c).fails = c.fails
        /\ SendResult(c) # "ok" => AfterSend(c).fails = c.fails + 1
    BY <1>2 DEF Conn, AfterSend, Failing, Dying, IsOpen
  <1>8. QED
    BY <1>5, <1>6, <1>7

(* What a peer may do leaves the connection open to the server, counts as  *)
(* no failure, and never takes back that the descriptor is readable.       *)
LEMMA PeerMoves ==
    ASSUME NEW c \in Conn
    PROVE  /\ CanPeerSend(c) => PeerSends(c) \in Conn /\ Readable(PeerSends(c))
           /\ CanPeerRead(c) => PeerReads(c) \in Conn
           /\ CanPeerRead(c) /\ Readable(c) => Readable(PeerReads(c))
           /\ CanPeerClose(c) => PeerCloses(c) \in Conn /\ Readable(PeerCloses(c))
           /\ CanPeerReset(c) => PeerResets(c) \in Conn /\ Readable(PeerResets(c))
           /\ \A d \in {PeerSends(c), PeerReads(c), PeerCloses(c), PeerResets(c)} :
                 /\ d.fails = c.fails
                 /\ IsOpen(c) => IsOpen(d)
  <1> USE BufferAssumption DEF Conn, ConnState, Readable, PeerGone, IsOpen
  <1>1. /\ CanPeerSend(c) => PeerSends(c) \in Conn /\ Readable(PeerSends(c))
        /\ PeerSends(c).fails = c.fails
        /\ IsOpen(c) => IsOpen(PeerSends(c))
    BY DEF CanPeerSend, PeerSends
  <1>2. /\ CanPeerRead(c) => PeerReads(c) \in Conn
        /\ CanPeerRead(c) /\ Readable(c) => Readable(PeerReads(c))
        /\ PeerReads(c).fails = c.fails
        /\ IsOpen(c) => IsOpen(PeerReads(c))
    BY DEF CanPeerRead, PeerReads
  <1>3. /\ CanPeerClose(c) => PeerCloses(c) \in Conn /\ Readable(PeerCloses(c))
        /\ PeerCloses(c).fails = c.fails
        /\ IsOpen(c) => IsOpen(PeerCloses(c))
    BY DEF CanPeerClose, PeerCloses
  <1>4. /\ CanPeerReset(c) => PeerResets(c) \in Conn /\ Readable(PeerResets(c))
        /\ PeerResets(c).fails = c.fails
        /\ IsOpen(c) => IsOpen(PeerResets(c))
    BY DEF CanPeerReset, PeerResets
  <1>5. QED
    BY <1>1, <1>2, <1>3, <1>4

LEMMA PlainConns == NoConn \in Conn /\ NewConn \in Conn
                    /\ ~IsOpen(NoConn) /\ IsOpen(NewConn)
  <1>1. NoConn \in Conn /\ ~IsOpen(NoConn)
    BY BufferAssumption DEF NoConn, Conn, ConnState, IsOpen
  <1>2. NewConn \in Conn /\ IsOpen(NewConn)
    BY BufferAssumption DEF NewConn, Conn, ConnState, IsOpen
  <1>3. QED
    BY <1>1, <1>2

(* Reading n of the messages that have arrived.                            *)
LEMMA ReadData ==
    ASSUME NEW c \in Conn, NEW n \in 1..MaxIn, n <= c.in
    PROVE  /\ AfterRecvData(c, n) \in Conn
           /\ AfterRecvData(c, n).fails = c.fails
           /\ IsOpen(c) <=> IsOpen(AfterRecvData(c, n))
  BY BufferAssumption DEF Conn, ConnState, AfterRecvData, IsOpen

(* A readable connection has data, has ended or has failed: recv() on it   *)
(* never answers EAGAIN.                                                   *)
LEMMA ReadableGivesResult ==
    ASSUME NEW c \in Conn, Readable(c)
    PROVE  RecvResult(c) \in {"data", "error", "eof"}
  BY DEF Conn, ConnState, Readable, PeerGone, RecvResult
=============================================================================
