---------------------------- MODULE UnixClient -----------------------------
(***************************************************************************)
(* The client src/src/unix_client.cxx with the echo server it is made for. *)
(* Its socket blocks: send() waits until it has handed over all, recv()    *)
(* until at least something is there.  ucAt is                             *)
(*   "start"   main() up to and including connect()                        *)
(*   "type"    fgets() and the cut of the trailing blanks                  *)
(*   "send"    send() of ucLen characters, the final zero included         *)
(*   "recv"    the one recv() for the echo                                 *)
(*   "exited", "killed"  the end, the latter by SIGPIPE                    *)
(*                                                                         *)
(* ucConn is the kernel's end of the connection, seen from the client:     *)
(* out is what the server has yet to read, in what has come back.          *)
(***************************************************************************)
EXTENDS TcpConn

CONSTANT UcLens            (* lengths of what is typed, with the zero      *)

ASSUME UcAssumption == UcLens \subseteq 1..MaxOut

VARIABLES ucAt, ucLen, ucConn, ucIret

ucVars == <<ucAt, ucLen, ucConn, ucIret>>

UcInit == ucAt = "start" /\ ucLen = 0 /\ ucConn = NoConn /\ ucIret = 0

UcExits(iret) ==
    /\ ucAt' = "exited"
    /\ ucIret' = iret
    /\ ucConn' = NoConn
    /\ UNCHANGED ucLen

(* Help, a bad argument, no socket or no connection.                       *)
UcStartupEnds(iret) == ucAt = "start" /\ UcExits(iret)

UcConnects ==
    /\ ucAt = "start"
    /\ ucAt' = "type"
    /\ ucConn' = NewConn
    /\ UNCHANGED <<ucLen, ucIret>>

UcTypes(n) ==
    /\ ucAt = "type"
    /\ ucLen' = n
    /\ ucAt' = "send"
    /\ UNCHANGED <<ucConn, ucIret>>

(* Nothing but blanks, or the end of the input.                            *)
UcTypesNothing == ucAt = "type" /\ UcExits(0)

UcSends ==
    /\ ucAt = "send"
    /\ ucConn.st \in {"open", "fin"}
    /\ ucConn.out + ucLen <= MaxOut
    /\ ucConn' = [ucConn EXCEPT !.out = @ + ucLen]
    /\ ucAt' = "recv"
    /\ UNCHANGED <<ucLen, ucIret>>

UcSendFails == ucAt = "send" /\ ucConn.st = "reset" /\ UcExits(1)

UcSendKills ==
    /\ ucAt = "send"
    /\ ucConn.st = "dead"
    /\ ucAt' = "killed"
    /\ ucConn' = NoConn
    /\ UNCHANGED <<ucLen, ucIret>>

IsTheEcho_Fault(got) == got > 0

(* All of it at once, or the client gives up.                              *)
IsTheEcho(got) == got = ucLen

UcReceives ==
    /\ ucAt = "recv"
    /\ RecvResult(ucConn) = "data"
    /\ IsTheEcho(ucConn.in)
    /\ ucConn' = AfterRecvData(ucConn, ucConn.in)
    /\ ucAt' = "type"
    /\ UNCHANGED <<ucLen, ucIret>>

(* A part of the echo, the end of the connection, or an error.             *)
UcRecvEnds ==
    /\ ucAt = "recv"
    /\ RecvResult(ucConn) # "again"
    /\ ~(RecvResult(ucConn) = "data" /\ IsTheEcho(ucConn.in))
    /\ UcExits(1)

-----------------------------------------------------------------------------
(* The server and the network.  The echo comes back in pieces of any size. *)

UcServer(can, does) ==
    /\ can
    /\ ucConn' = does
    /\ UNCHANGED <<ucAt, ucLen, ucIret>>

UcEchoed(c) == [c EXCEPT !.out = @ - 1, !.in = @ + 1]

UcServerEchoes == UcServer(CanPeerSend(ucConn) /\ CanPeerRead(ucConn), UcEchoed(ucConn))
UcServerCloses == UcServer(CanPeerClose(ucConn), PeerCloses(ucConn))
UcServerResets == UcServer(CanPeerReset(ucConn), PeerResets(ucConn))

-----------------------------------------------------------------------------
UcNext ==
    \/ \E iret \in {0, 1} : UcStartupEnds(iret)
    \/ UcConnects
    \/ \E n \in UcLens : UcTypes(n)
    \/ UcTypesNothing
    \/ UcSends \/ UcSendFails \/ UcSendKills
    \/ UcReceives \/ UcRecvEnds
    \/ UcServerEchoes \/ UcServerCloses \/ UcServerResets

UcSpec == UcInit /\ [][UcNext]_ucVars

-----------------------------------------------------------------------------
UcTypeOK ==
    /\ ucAt \in {"start", "type", "send", "recv", "exited", "killed"}
    /\ ucLen \in {0} \cup UcLens
    /\ ucConn \in Conn
    /\ ucIret \in {0, 1}

(* When the next message is typed or sent, nothing of an earlier one is    *)
(* under way in either direction: an echo is never taken for another's.    *)
EchoInStep ==
    ucAt \in {"type", "send"} => ucConn.in = 0 /\ ucConn.out = 0

(* While it waits, what is under way is what it sent and has no echo of.   *)
EchoIsComing ==
    ucAt = "recv" =>
        /\ ucConn.in + ucConn.out <= ucLen
        /\ ucConn.st \in {"open", "fin"} => ucConn.in + ucConn.out = ucLen

UcInv == UcTypeOK /\ EchoInStep /\ EchoIsComing
=============================================================================
