----------------------------- MODULE NbClient ------------------------------
(***************************************************************************)
(* The client src/src/nbclient.cxx on Linux, with the server it talks to:  *)
(* a loop that sends a line, then reads without blocking until something   *)
(* comes back.  ncAt is                                                    *)
(*   "start"   main() up to run_nbclient()                                 *)
(*   "top"     the top of the loop, before check_key()                     *)
(*   "send"    send()                                                      *)
(*   "failed"  the pauses after a send() that failed                       *)
(*   "rest"    the pauses after one that did not                           *)
(*   "read"    read()                                                      *)
(*   "after"   check_key() at the end of the loop                          *)
(*   "end"     NB_Client_End                                               *)
(*   "exited", "killed"  the end, the latter by SIGPIPE                    *)
(*                                                                         *)
(* ncConn is the kernel's end of the connection as the client sees it: in  *)
(* counts answers, out lines.  nc_is_paused, nc_wait_4_reply and           *)
(* nc_recv_errors lack the nc_ in the code, last_read2 the 2; it is 0 or 1 *)
(* for the time at which it was set: how long ago that is, is left open.   *)
(* nul_read_cnt is not counted past write_after.  send_errors is counted   *)
(* and not looked at on Linux, and left out.                               *)
(***************************************************************************)
EXTENDS TcpConn

CONSTANTS max_recv_errors, write_after,
          NcMaxHalves      (* bound: lines that are answered in two pieces *)

VARIABLES ncAt, ncConn, nc_is_paused, nc_wait_4_reply,
          nc_recv_errors, last_read2, nul_read_cnt, ncHalves

ncReadVars == <<nc_recv_errors, last_read2, nul_read_cnt>>
ncVars == <<ncAt, ncConn, nc_is_paused, nc_wait_4_reply,
            nc_recv_errors, last_read2, nul_read_cnt, ncHalves>>

NcStopped == ncAt \in {"exited", "killed"}

NcInit ==
    /\ ncAt = "start" /\ ncConn = NoConn
    /\ nc_is_paused = FALSE /\ nc_wait_4_reply = FALSE
    /\ nc_recv_errors = 0 /\ last_read2 = 0 /\ nul_read_cnt = 0
    /\ ncHalves = 0

(* Help, a bad argument, an unknown host; or no socket or connection.      *)
NcStartupEnds ==
    /\ ncAt = "start"
    /\ ncAt' \in {"exited", "end"}
    /\ UNCHANGED <<ncConn, nc_is_paused, nc_wait_4_reply, ncReadVars, ncHalves>>

NcConnects ==
    /\ ncAt = "start"
    /\ ncAt' = "top"
    /\ ncConn' = NewConn
    /\ UNCHANGED <<nc_is_paused, nc_wait_4_reply, ncReadVars, ncHalves>>

-----------------------------------------------------------------------------
(* check_key(): ESC ends the loop, p toggles the pause, and everything     *)
(* else changes nothing that matters.                                      *)

NcKeys == {"none", "p", "ESC"}

PausedAfter(key) == IF key = "p" THEN ~nc_is_paused ELSE nc_is_paused

NcTop(key) ==
    /\ ncAt = "top"
    /\ nc_is_paused' = PausedAfter(key)
    /\ ncAt' = CASE key = "ESC"      -> "end"
                 [] nc_is_paused'    -> "top"
                 [] nc_wait_4_reply  -> "read"
                 [] OTHER            -> "send"
    /\ UNCHANGED <<ncConn, nc_wait_4_reply, ncReadVars, ncHalves>>

(* Failed calls are not counted here.                                      *)
NcUncounted(c) == [c EXCEPT !.fails = 0]

NcSends ==
    /\ ncAt = "send"
    /\ SendResult(ncConn) # "sigpipe"
    /\ ncConn' = NcUncounted(AfterSend(ncConn))
    /\ ncAt' = IF SendResult(ncConn) = "ok" THEN "rest" ELSE "failed"
    /\ UNCHANGED <<nc_is_paused, nc_wait_4_reply, ncReadVars, ncHalves>>

NcSendKills ==
    /\ ncAt = "send"
    /\ SendResult(ncConn) = "sigpipe"
    /\ ncAt' = "killed"
    /\ ncConn' = NoConn
    /\ UNCHANGED <<nc_is_paused, nc_wait_4_reply, ncReadVars, ncHalves>>

(* After a failure the loop starts over; otherwise it waits for a reply.   *)
NcPauses(key) ==
    /\ ncAt \in {"failed", "rest"}
    /\ nc_is_paused' = PausedAfter(key)
    /\ nc_wait_4_reply' = (nc_wait_4_reply \/ (ncAt = "rest" /\ key # "ESC"))
    /\ ncAt' = CASE key = "ESC"     -> "end"
                 [] ncAt = "failed" -> "top"
                 [] OTHER           -> "read"
    /\ UNCHANGED <<ncConn, ncReadVars, ncHalves>>

-----------------------------------------------------------------------------
(* read().                                                                 *)

NcReadsNothing ==
    /\ ncAt = "read"
    /\ RecvResult(ncConn) = "again"
    /\ ncAt' = "top"
    /\ UNCHANGED <<ncConn, nc_is_paused, nc_wait_4_reply, ncReadVars, ncHalves>>

NcReadFails(esc) ==
    /\ ncAt = "read"
    /\ RecvResult(ncConn) = "error"
    /\ ncConn' = NcUncounted(AfterRecvNothing(ncConn))
    /\ nc_recv_errors' = nc_recv_errors + 1
    /\ ncAt' = IF nc_recv_errors' > max_recv_errors \/ esc THEN "end" ELSE "top"
    /\ UNCHANGED <<nc_is_paused, nc_wait_4_reply, last_read2, nul_read_cnt, ncHalves>>

WaitsAfterNull_Fault == nc_wait_4_reply

(* Once write_after null reads were noted, it tries to write.              *)
WaitsAfterNull == nc_wait_4_reply /\ nul_read_cnt' < write_after

(* The end of the connection, noted if none was or some time ago.          *)
NcReadsNull(late) ==
    /\ ncAt = "read"
    /\ RecvResult(ncConn) = "eof"
    /\ last_read2 = 0 \/ late
    /\ ncConn' = NcUncounted(AfterRecvNothing(ncConn))
    /\ last_read2' = 1
    /\ nul_read_cnt' = IF nul_read_cnt < write_after THEN nul_read_cnt + 1 ELSE nul_read_cnt
    /\ nc_wait_4_reply' = WaitsAfterNull
    /\ ncAt' = "top"
    /\ UNCHANGED <<nc_is_paused, nc_recv_errors, ncHalves>>

(* Data, or a null read soon after one that was noted.                     *)
NcReads ==
    /\ ncAt = "read"
    /\ \/ /\ RecvResult(ncConn) = "data"
          /\ ncConn' = AfterRecvData(ncConn, ncConn.in)
          /\ nc_wait_4_reply' = FALSE
       \/ /\ RecvResult(ncConn) = "eof"
          /\ last_read2 # 0
          /\ UNCHANGED <<ncConn, nc_wait_4_reply>>
    /\ nc_recv_errors' = 0
    /\ last_read2' = 0
    /\ ncAt' = "after"
    /\ UNCHANGED <<nc_is_paused, nul_read_cnt, ncHalves>>

NcAfter(key) ==
    /\ ncAt = "after"
    /\ nc_is_paused' = PausedAfter(key)
    /\ ncAt' = IF key = "ESC" THEN "end" ELSE "top"
    /\ UNCHANGED <<ncConn, nc_wait_4_reply, ncReadVars, ncHalves>>

NcEnds ==
    /\ ncAt = "end"
    /\ ncAt' = "exited"
    /\ ncConn' = NoConn
    /\ UNCHANGED <<nc_is_paused, nc_wait_4_reply, ncReadVars, ncHalves>>

-----------------------------------------------------------------------------
(* The server and the network.                                             *)

NcPeer(can, does) ==
    /\ can
    /\ ncConn' = does
    /\ UNCHANGED <<ncAt, nc_is_paused, nc_wait_4_reply, ncReadVars>>

NcAnswered(c) == [c EXCEPT !.in = @ + 1, !.out = @ - 1]

(* nbserver answers what it has of a line, and the rest of it once more.   *)
NcServerAnswers ==
    /\ NcPeer(CanPeerSend(ncConn) /\ CanPeerRead(ncConn), NcAnswered(ncConn))
    /\ UNCHANGED ncHalves

NcServerAnswersHalf ==
    /\ ncHalves < NcMaxHalves
    /\ ncHalves' = ncHalves + 1
    /\ NcPeer(CanPeerSend(ncConn) /\ CanPeerRead(ncConn), PeerSends(ncConn))

NcServerCloses == NcPeer(CanPeerClose(ncConn), PeerCloses(ncConn)) /\ UNCHANGED ncHalves
NcServerResets == NcPeer(CanPeerReset(ncConn), PeerResets(ncConn)) /\ UNCHANGED ncHalves

-----------------------------------------------------------------------------
NcLoop(key) ==
    \/ NcTop(key) \/ NcPauses(key) \/ NcAfter(key)
    \/ NcSends \/ NcSendKills
    \/ NcReadsNothing \/ NcReads
    \/ NcReadFails(key = "ESC")
    \/ \E late \in BOOLEAN : NcReadsNull(late)

NcNext ==
    \/ NcStartupEnds \/ NcConnects
    \/ \E key \in NcKeys : NcLoop(key)
    \/ NcEnds
    \/ NcServerAnswers \/ NcServerAnswersHalf \/ NcServerCloses \/ NcServerResets

(* What the process does while nobody touches the keyboard.                *)
NcWork == NcLoop("none") \/ NcEnds

(* What is sent to a server that has closed is answered with RST.          *)
NcAnswersWithRst == ncConn.st = "fin" /\ NcServerResets

NcSpec == NcInit /\ [][NcNext]_ncVars /\ WF_ncVars(NcWork) /\ WF_ncVars(NcAnswersWithRst)

(* A client whose server has gone comes to an end, unless it was paused:   *)
(* it is not left waiting for the reply that will never come.              *)
NbClientEnds == PeerGone(ncConn) ~> NcStopped \/ nc_is_paused
=============================================================================
