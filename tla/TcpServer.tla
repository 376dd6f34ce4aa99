----------------------------- MODULE TcpServer -----------------------------
(***************************************************************************)
(* The server src/src/tcpserver.c: one connection, one echo of             *)
(* BufferLength characters, and the end.  tsAt is                          *)
(*   "start"   main() up to and including listen()                         *)
(*   "accept"  accept()                                                    *)
(*   "select"  the select() for at most 15 seconds                         *)
(*   "read"    the loop that fills the buffer                              *)
(*   "write"   write() of totalcnt characters                              *)
(*   "exited", "killed"  the end, the latter by SIGPIPE                    *)
(* The socket blocks: only the first read() is known not to wait.          *)
(***************************************************************************)
EXTENDS TcpConn

CONSTANT BufferLength

ASSUME TsAssumption == BufferLength \in 1..MaxOut

VARIABLES tsAt, tsConn, totalcnt, tsStatus,
          tsSent           (* what the client has sent in all              *)

tsVars == <<tsAt, tsConn, totalcnt, tsStatus, tsSent>>

TsInit ==
    /\ tsAt = "start" /\ tsConn = NoConn /\ totalcnt = 0 /\ tsStatus = 0 /\ tsSent = 0

(* close() of both sockets and exit().                                     *)
TsExits(status) ==
    /\ tsAt' = "exited"
    /\ tsStatus' = status
    /\ UNCHANGED <<totalcnt, tsSent>>

TsStartupFails ==
    /\ tsAt = "start"
    /\ TsExits(-1)
    /\ UNCHANGED tsConn

TsStarts ==
    /\ tsAt = "start"
    /\ tsAt' = "accept"
    /\ UNCHANGED <<tsConn, totalcnt, tsStatus, tsSent>>

TsAccepts ==
    /\ tsAt = "accept"
    /\ tsConn' = NewConn
    /\ tsAt' = "select"
    /\ UNCHANGED <<totalcnt, tsStatus, tsSent>>

TsAcceptFails ==
    /\ tsAt = "accept"
    /\ TsExits(-1)
    /\ UNCHANGED tsConn

TsSelects ==
    /\ tsAt = "select"
    /\ Readable(tsConn)
    /\ tsAt' = "read"
    /\ totalcnt' = 0
    /\ UNCHANGED <<tsConn, tsStatus, tsSent>>

(* Nothing in 15 seconds, or an error of select().                         *)
TsSelectEnds ==
    /\ tsAt = "select"
    /\ TsExits(-1)
    /\ tsConn' = NoConn

-----------------------------------------------------------------------------
Filled_Fault(n) == n > 0

(* The read loop ends.                                                     *)
Filled(n) == n >= BufferLength

TsReads(k) ==
    /\ tsAt = "read"
    /\ k <= tsConn.in
    /\ k <= BufferLength - totalcnt
    /\ totalcnt' = totalcnt + k
    /\ tsConn' = AfterRecvData(tsConn, k)
    /\ tsAt' = IF Filled(totalcnt + k) THEN "write" ELSE "read"
    /\ UNCHANGED <<tsStatus, tsSent>>

(* The client has closed, or the connection broke.                         *)
TsReadEnds ==
    /\ tsAt = "read"
    /\ RecvResult(tsConn) \in {"eof", "error"}
    /\ tsConn' = AfterRecvNothing(tsConn)
    /\ TsExits(-1)

TsWrites ==
    /\ tsAt = "write"
    /\ tsConn.st \in {"open", "fin"}
    /\ tsConn' = [tsConn EXCEPT !.out = @ + totalcnt]
    /\ TsExits(0)

TsWriteFails ==
    /\ tsAt = "write"
    /\ tsConn.st = "reset"
    /\ tsConn' = AfterSend(tsConn)
    /\ TsExits(-1)

TsWriteKills ==
    /\ tsAt = "write"
    /\ tsConn.st = "dead"
    /\ tsAt' = "killed"
    /\ UNCHANGED <<tsConn, totalcnt, tsStatus, tsSent>>

-----------------------------------------------------------------------------
(* The client.  One that has only shut down its half may still abort.      *)
TsClient(can, does, sent) ==
    /\ tsAt \notin {"exited", "killed"}
    /\ can
    /\ tsConn' = does
    /\ tsSent' = sent
    /\ UNCHANGED <<tsAt, totalcnt, tsStatus>>

TsClientSends  == TsClient(CanPeerSend(tsConn) /\ tsSent <= BufferLength,
                           PeerSends(tsConn), tsSent + 1)
TsClientCloses == TsClient(CanPeerClose(tsConn), PeerCloses(tsConn), tsSent)
TsClientResets ==
    TsClient(CanPeerReset(tsConn) \/ tsConn.st = "fin",
             PeerResets(tsConn), tsSent)

-----------------------------------------------------------------------------
TsNext ==
    \/ TsStartupFails \/ TsStarts \/ TsAccepts \/ TsAcceptFails
    \/ TsSelects \/ TsSelectEnds
    \/ \E k \in 1..BufferLength : TsReads(k)
    \/ TsReadEnds \/ TsWrites \/ TsWriteFails \/ TsWriteKills
    \/ TsClientSends \/ TsClientCloses \/ TsClientResets

TsSpec == TsInit /\ [][TsNext]_tsVars

-----------------------------------------------------------------------------
TsTypeOK ==
    /\ tsAt \in {"start", "accept", "select", "read", "write", "exited", "killed"}
    /\ tsConn \in Conn
    /\ totalcnt \in 0..BufferLength /\ tsSent \in 0..BufferLength + 1
    /\ tsStatus \in {-1, 0}

(* What was sent was read, or is in the socket until the server closes it. *)
AllAccountedFor ==
    (tsConn # NoConn /\ tsAt # "exited") => totalcnt + tsConn.in = tsSent

(* What goes back is always one whole buffer, and with it the server ends  *)
(* with 0; a client that sends less never gets an answer.                  *)
WholeEcho ==
    /\ tsAt = "write" => totalcnt = BufferLength
    /\ (tsAt = "exited" /\ tsStatus = 0) => /\ tsConn.out = BufferLength
                                            /\ tsSent >= BufferLength
    /\ (tsAt # "exited" \/ tsStatus # 0) => tsConn.out = 0

(* How far the program is says what it has: no connection before accept(), *)
(* nothing read before select(), and less than a buffer in the read loop.  *)
TsPhases ==
    /\ tsAt \in {"start", "accept"} => tsConn = NoConn /\ tsSent = 0
    /\ tsAt \in {"start", "accept", "select"} => totalcnt = 0
    /\ tsAt \in {"select", "read", "write"} => IsOpen(tsConn)
    /\ tsAt = "read" => totalcnt < BufferLength

TsInv == TsTypeOK /\ AllAccountedFor /\ WholeEcho /\ TsPhases
=============================================================================
