---------------------------- MODULE SimpClient -----------------------------
(***************************************************************************)
(* The stop-and-wait TCP client src/src/simp_client.cxx, one thread, in    *)
(* its default build: select(), non-blocking, Linux system calls.  The     *)
(* client sends a message, waits for any reply, and sends the next.        *)
(*                                                                         *)
(* A step is the code between two system calls others can observe; pc is   *)
(*   "start"    main() up to the host lookup                               *)
(*   "connect"  the while (not_connected) loop of do_client_connect()      *)
(*   "loop"     head of run_client()'s while (1): throttle, keys, pause    *)
(*   "send"     write()                                                    *)
(*   "select"   select() on the one socket                                 *)
(*   "recv"     recv()                                                     *)
(*   "end"      End_App in main()                                          *)
(*   "exited"   the process has returned from main()                       *)
(*   "killed"   the process was ended by SIGPIPE                           *)
(*                                                                         *)
(* The rest are the program's statics under their own names, and end, the  *)
(* kernel's end of the client's connection; the server is its peer.  Left  *)
(* out: statistics, verbosity, the log, and how long the throttle lasts.   *)
(* X_Fault is X with a plausible mistake, as in SimpServer.                *)
(***************************************************************************)
EXTENDS TcpConn

CONSTANTS MaxRecvErrors,   (* max_recv_errors                              *)
          MaxResets,       (* bound: times 'r' ends a wait                 *)
          MaxConnects,     (* bound: connections the client ever makes     *)
          MaxGlitches      (* bound: select() and recv() failures that     *)
                           (* leave the connection as it is (ENOMEM, say)  *)

ASSUME ClientAssumption ==
    /\ MaxRecvErrors \in Nat
    /\ MaxResets \in Nat
    /\ MaxConnects \in Nat
    /\ MaxGlitches \in Nat

VARIABLES pc, iret,
          end,                       (* the socket, as the kernel keeps it *)
          not_connected,
          wait_4_reply,
          recv_errors,               (* m_client.recv_errors               *)
          is_paused,
          receive_only, once_only,   (* options -r and -1                  *)
          resets, connects, glitches (* how much of the bounds is used up  *)

optionVars == <<receive_only, once_only>>
waitVars   == <<wait_4_reply, resets>>
linkVars   == <<end, not_connected, connects>>
vars == <<pc, iret, end, not_connected, wait_4_reply, recv_errors, is_paused,
          receive_only, once_only, resets, connects, glitches>>

(* The observer in end is not needed here and stays at zero.               *)
Uncounted(c) == [c EXCEPT !.fails = 0]

TypeOK ==
    /\ pc \in {"start", "connect", "loop", "send", "select", "recv", "end",
               "exited", "killed"}
    /\ iret \in {0, 1}
    /\ end \in Conn /\ end.fails = 0
    /\ recv_errors \in Nat
    /\ not_connected \in BOOLEAN /\ wait_4_reply \in BOOLEAN /\ is_paused \in BOOLEAN
    /\ receive_only \in BOOLEAN /\ once_only \in BOOLEAN
    /\ resets \in 0..MaxResets
    /\ connects \in 0..MaxConnects
    /\ glitches \in 0..MaxGlitches

Init ==
    /\ pc = "start" /\ iret = 0
    /\ end = NoConn /\ not_connected = TRUE
    /\ wait_4_reply = FALSE /\ recv_errors = 0 /\ is_paused = FALSE
    /\ receive_only \in BOOLEAN /\ once_only \in BOOLEAN
    /\ resets = 0 /\ connects = 0 /\ glitches = 0

-----------------------------------------------------------------------------
(* The keyboard.  check_key() takes what has been typed; ESC stops.        *)

Keys == {"none", "p", "r", "esc"}

TakeKey(key) ==
    /\ is_paused' = IF key = "p" THEN ~is_paused ELSE is_paused
    /\ IF key = "r" /\ wait_4_reply
       THEN /\ resets < MaxResets
            /\ wait_4_reply' = FALSE
            /\ resets' = resets + 1
       ELSE UNCHANGED waitVars

-----------------------------------------------------------------------------
(* main() and do_client_connect().                                         *)

BadArgs ==
    /\ pc = "start"
    /\ pc' = "exited"
    /\ iret' \in {0, 1}
    /\ UNCHANGED <<linkVars, waitVars, recv_errors, is_paused, optionVars, glitches>>

HostLookup ==
    /\ pc = "start"
    /\ \/ pc' = "connect" /\ UNCHANGED iret
       \/ pc' = "end" /\ iret' = 1
    /\ UNCHANGED <<linkVars, waitVars, recv_errors, is_paused, optionVars, glitches>>

SocketFails ==
    /\ pc = "connect"
    /\ pc' = "end" /\ iret' = 1
    /\ UNCHANGED <<linkVars, waitVars, recv_errors, is_paused, optionVars, glitches>>

(* connect() is refused: check_key_sleep(), and again on the same socket.  *)
ConnectFails(key) ==
    /\ pc = "connect"
    /\ TakeKey(key)
    /\ IF key = "esc" THEN pc' = "end" /\ iret' = 1
                      ELSE UNCHANGED <<pc, iret>>
    /\ UNCHANGED <<linkVars, recv_errors, optionVars, glitches>>

(* A new socket is connected; nothing else is reset.                       *)
Connected ==
    /\ pc = "connect"
    /\ connects < MaxConnects
    /\ connects' = connects + 1
    /\ end' = NewConn
    /\ not_connected' = FALSE
    /\ pc' = "loop"
    /\ UNCHANGED <<iret, waitVars, recv_errors, is_paused, optionVars, glitches>>

-----------------------------------------------------------------------------
(* run_client().                                                           *)

Reconnect ==
    /\ pc = "loop"
    /\ not_connected
    /\ pc' = "connect"
    /\ UNCHANGED <<iret, linkVars, waitVars, recv_errors, is_paused, optionVars, glitches>>

(* Too early for the next pass: look at the keyboard and start over.       *)
Throttle(key) ==
    /\ pc = "loop"
    /\ ~not_connected
    /\ TakeKey(key)
    /\ pc' = IF key = "esc" THEN "end" ELSE "loop"
    /\ UNCHANGED <<iret, linkVars, recv_errors, optionVars, glitches>>

MayWrite_Always(waiting) == ~receive_only
MayWrite(waiting) == ~receive_only /\ ~waiting

Pass(key) ==
    /\ pc = "loop"
    /\ ~not_connected
    /\ TakeKey(key)
    /\ pc' = IF key = "esc" THEN "end"
             ELSE IF is_paused' THEN "loop"
             ELSE IF MayWrite(wait_4_reply') THEN "send" ELSE "select"
    /\ UNCHANGED <<iret, linkVars, recv_errors, optionVars, glitches>>

(* write() succeeds.  wait_4_reply is set after a look at the keyboard, so *)
(* an 'r' typed in between has no effect.                                  *)
Write(key) ==
    /\ pc = "send"
    /\ SendResult(end) = "ok"
    /\ end' = AfterSend(end)
    /\ is_paused' = IF key = "p" THEN ~is_paused ELSE is_paused
    /\ IF key = "esc" THEN pc' = "end" /\ UNCHANGED wait_4_reply
                      ELSE pc' = "select" /\ wait_4_reply' = TRUE
    /\ UNCHANGED <<iret, not_connected, connects, recv_errors, resets, optionVars, glitches>>

(* write() fails: nothing is counted, and the next pass writes again.      *)
WriteFails(key) ==
    /\ pc = "send"
    /\ SendResult(end) \in {"again", "error"}
    /\ end' = Uncounted(AfterSend(end))
    /\ TakeKey(key)
    /\ pc' = IF key = "esc" THEN "end" ELSE "loop"
    /\ UNCHANGED <<iret, not_connected, connects, recv_errors, optionVars, glitches>>

WriteKills ==
    /\ pc = "send"
    /\ SendResult(end) = "sigpipe"
    /\ pc' = "killed"
    /\ end' = NoConn
    /\ UNCHANGED <<iret, not_connected, connects, waitVars, recv_errors, is_paused, optionVars,
                   glitches>>

SelectReturns ==
    /\ pc = "select"
    /\ pc' = IF Readable(end) THEN "recv" ELSE "loop"
    /\ UNCHANGED <<iret, linkVars, waitVars, recv_errors, is_paused, optionVars, glitches>>

SelectFails ==
    /\ pc = "select"
    /\ glitches < MaxGlitches
    /\ glitches' = glitches + 1
    /\ pc' = "end" /\ iret' = 1
    /\ UNCHANGED <<linkVars, waitVars, recv_errors, is_paused, optionVars>>

(* recv() returns data: n of the replies that have arrived.                *)
ReceiveData(n) ==
    /\ pc = "recv"
    /\ RecvResult(end) = "data"
    /\ n <= end.in
    /\ end' = AfterRecvData(end, n)
    /\ recv_errors' = 0
    /\ wait_4_reply' = FALSE
    /\ pc' = IF once_only THEN "end" ELSE "loop"
    /\ UNCHANGED <<iret, not_connected, connects, is_paused, optionVars, resets, glitches>>

CountedError_NotAtAll == recv_errors

CountedError == recv_errors + 1

TooManyErrors(errors) == errors > MaxRecvErrors

CloseSocket_OnlyFlag == not_connected' = TRUE /\ UNCHANGED end

CloseSocket == end' = NoConn /\ not_connected' = TRUE

(* recv() fails.  Above the limit the socket is closed and the loop goes   *)
(* back to connecting.  failed is the connection after the call.           *)
ReceiveError(failed) ==
    /\ recv_errors' = CountedError
    /\ IF TooManyErrors(recv_errors')
       THEN CloseSocket
       ELSE end' = failed /\ UNCHANGED not_connected
    /\ pc' = "loop"
    /\ UNCHANGED <<iret, connects, waitVars, is_paused, optionVars>>

ReceiveReset ==
    /\ pc = "recv"
    /\ RecvResult(end) = "error"
    /\ ReceiveError(Uncounted(AfterRecvNothing(end)))
    /\ UNCHANGED glitches

ReceiveGlitch ==
    /\ pc = "recv"
    /\ glitches < MaxGlitches
    /\ glitches' = glitches + 1
    /\ ReceiveError(end)

(* recv() returns zero, "treated as an ERROR", but above the limit the     *)
(* client gives up instead of connecting again.                            *)
ReceiveEnd ==
    /\ pc = "recv"
    /\ RecvResult(end) = "eof"
    /\ end' = Uncounted(AfterRecvNothing(end))
    /\ recv_errors' = CountedError
    /\ IF TooManyErrors(recv_errors') THEN pc' = "end" /\ iret' = 1
                                      ELSE pc' = "loop" /\ UNCHANGED iret
    /\ UNCHANGED <<not_connected, connects, waitVars, is_paused, optionVars, glitches>>

(* End_App.                                                                *)
EndApp ==
    /\ pc = "end"
    /\ end' = NoConn
    /\ pc' = "exited"
    /\ UNCHANGED <<iret, not_connected, connects, waitVars, recv_errors, is_paused, optionVars,
                   glitches>>

-----------------------------------------------------------------------------
(* The server and the network.                                             *)

PeerDoes(can, does) ==
    /\ can
    /\ end' = does
    /\ UNCHANGED <<pc, iret, not_connected, connects, waitVars, recv_errors, is_paused,
                   optionVars, glitches>>

ServerTakes   == PeerDoes(CanPeerRead(end), PeerReads(end))
ServerReplies == PeerDoes(CanPeerSend(end), PeerSends(end))
ServerCloses  == PeerDoes(CanPeerClose(end), PeerCloses(end))
ServerResets  == PeerDoes(CanPeerReset(end), PeerResets(end))

-----------------------------------------------------------------------------
Receive ==
    \/ \E n \in 1..MaxIn : ReceiveData(n)
    \/ ReceiveReset
    \/ ReceiveGlitch
    \/ ReceiveEnd

Client ==
    \/ BadArgs \/ HostLookup
    \/ SocketFails \/ Connected \/ Reconnect
    \/ \E key \in Keys :
          ConnectFails(key) \/ Throttle(key) \/ Pass(key) \/ Write(key) \/ WriteFails(key)
    \/ WriteKills
    \/ SelectReturns \/ SelectFails
    \/ Receive
    \/ EndApp

Server == ServerTakes \/ ServerReplies \/ ServerCloses \/ ServerResets

Stopped == pc \in {"exited", "killed"}
Terminated == Stopped /\ UNCHANGED vars

Next == Client \/ Server \/ Terminated

Spec == Init /\ [][Next]_vars

(* What the thread does when nobody touches the keyboard.                  *)
Work ==
    \/ HostLookup \/ Reconnect
    \/ Pass("none") \/ Write("none") \/ WriteFails("none") \/ WriteKills
    \/ SelectReturns
    \/ Receive
    \/ EndApp

(* The one thread is scheduled, and the throttle lets a pass through in    *)
(* the end.  Whether there is a server to connect to is not the client's   *)
(* to promise, nor does it owe a key.  The kernel of a server that has     *)
(* closed its socket answers what is still sent there with an RST.         *)
FairSpec ==
    /\ Spec
    /\ WF_vars(Work)
    /\ WF_vars(end.st = "fin" /\ ServerResets)

-----------------------------------------------------------------------------
(* Properties.                                                             *)

(* A client past connecting has a socket, and one that is to connect again *)
(* has none left: no way through the error branches leaks or reuses one.   *)
SocketMatches ==
    /\ pc \in {"loop", "send", "select", "recv"} => (IsOpen(end) <=> ~not_connected)
    /\ pc \in {"send", "select", "recv"} => ~not_connected
    /\ Stopped => ~IsOpen(end)

(* A client that is not paused for good notices that its server has gone:  *)
(* it ends, or closes the socket to connect again.                         *)
LossNoticed ==
    <>[]~is_paused => (PeerGone(end) ~> ~PeerGone(end))

(* The help text promises "Seconds to wait for re-connection": a client    *)
(* whose system calls do not fail of themselves ends in error only while   *)
(* it has no connection; losing one leads back to connecting.              *)
LossReconnects ==
    pc = "exited" /\ iret = 1 => not_connected

-----------------------------------------------------------------------------
(* The inductive invariant: connecting starts without a socket, also when  *)
(* it is not the first time, so that Connected loses none.                 *)
NoSocketYet ==
    pc \in {"start", "connect"} => not_connected /\ ~IsOpen(end)

ClientInv ==
    /\ TypeOK
    /\ SocketMatches
    /\ NoSocketYet
=============================================================================
