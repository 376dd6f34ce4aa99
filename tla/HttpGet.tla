------------------------------ MODULE HttpGet ------------------------------
(***************************************************************************)
(* The client src/src/httpget.cxx with the server it fetches a file from.  *)
(* hgAt is                                                                 *)
(*   "start"   main() up to and including connect()                        *)
(*   "send"    sendRequest()                                               *)
(*   "loop"    the head of the loop and select()                           *)
(*   "read"    read() of what select() reported                            *)
(*   "end"     End_Get                                                     *)
(*   "exited", "killed"  the end, the latter by SIGPIPE                    *)
(*                                                                         *)
(* hgServed is what the server has sent, hgTotal is total_recv, hgLogged   *)
(* what is in the log, all in pieces; hgWhy says how the loop was left.    *)
(***************************************************************************)
EXTENDS TcpConn

CONSTANTS max_tries,       (* passes of the loop: 10 in the code           *)
          HgMaxServed      (* bound: pieces the server sends               *)

ASSUME HgAssumption == max_tries \in Nat /\ HgMaxServed \in Nat

VARIABLES hgAt, hgConn, hgServed, hgTries, hgTotal, plog, hgLogged, hgWhy, hgIret

hgVars == <<hgAt, hgConn, hgServed, hgTries, hgTotal, plog, hgLogged, hgWhy, hgIret>>
hgLog  == <<plog, hgLogged>>

HgInit ==
    /\ hgAt = "start" /\ hgConn = NoConn /\ hgServed = 0
    /\ hgTries = 0 /\ hgTotal = 0 /\ plog = "none" /\ hgLogged = 0
    /\ hgWhy = "none" /\ hgIret = 0

HgLeaves(why, iret) ==
    /\ hgAt' = "end"
    /\ hgWhy' = why
    /\ hgIret' = iret

-----------------------------------------------------------------------------
(* Help and bad arguments, an unknown host, no socket.                     *)
HgStartupEnds(iret) ==
    /\ hgAt = "start"
    /\ hgAt' = "exited"
    /\ hgIret' = iret
    /\ UNCHANGED <<hgConn, hgServed, hgTries, hgTotal, hgLog, hgWhy>>

HgRefused ==
    /\ hgAt = "start"
    /\ HgLeaves("error", 1)
    /\ UNCHANGED <<hgConn, hgServed, hgTries, hgTotal, hgLog>>

HgConnects ==
    /\ hgAt = "start"
    /\ hgAt' = "send"
    /\ hgConn' = NewConn
    /\ UNCHANGED <<hgServed, hgTries, hgTotal, hgLog, hgWhy, hgIret>>

HgRequests ==
    /\ hgAt = "send"
    /\ SendResult(hgConn) = "ok"
    /\ hgConn' = AfterSend(hgConn)
    /\ hgAt' = "loop"
    /\ UNCHANGED <<hgServed, hgTries, hgTotal, hgLog, hgWhy, hgIret>>

HgRequestFails ==
    /\ hgAt = "send"
    /\ SendResult(hgConn) = "error"
    /\ hgConn' = AfterSend(hgConn)
    /\ HgLeaves("error", 1)
    /\ UNCHANGED <<hgServed, hgTries, hgTotal, hgLog>>

HgRequestKills ==
    /\ hgAt = "send"
    /\ SendResult(hgConn) = "sigpipe"
    /\ hgConn' = NoConn
    /\ hgAt' = "killed"
    /\ UNCHANGED <<hgServed, hgTries, hgTotal, hgLog, hgWhy, hgIret>>

-----------------------------------------------------------------------------
HgTriesOver ==
    /\ hgAt = "loop"
    /\ hgTries >= max_tries
    /\ HgLeaves("tries", 0)
    /\ UNCHANGED <<hgConn, hgServed, hgTries, hgTotal, hgLog>>

HgPass ==
    /\ hgAt = "loop"
    /\ hgTries < max_tries
    /\ hgTries' = hgTries + 1
    /\ UNCHANGED <<hgConn, hgServed, hgTotal, hgLog>>

HgSelects ==
    /\ HgPass
    /\ Readable(hgConn)
    /\ hgAt' = "read"
    /\ UNCHANGED <<hgWhy, hgIret>>

EndsQuietly_Fault == TRUE

(* A second without anything ends the program only if it has received      *)
(* something before.                                                       *)
EndsQuietly == hgTotal > 0

HgTimesOut ==
    /\ HgPass
    /\ ~Readable(hgConn)
    /\ IF EndsQuietly THEN HgLeaves("quiet", 0) ELSE UNCHANGED <<hgAt, hgWhy, hgIret>>

HgSelectFails == HgPass /\ HgLeaves("error", 1)

-----------------------------------------------------------------------------
(* write_to_log(): it is opened at the first piece, and given up for good  *)
(* when it cannot be opened or written.                                    *)
WritesLog(k) ==
    \/ plog # "bad" /\ plog' = "open" /\ hgLogged' = hgLogged + k
    \/ plog' = "bad" /\ UNCHANGED hgLogged

HgReads(k) ==
    /\ hgAt = "read"
    /\ k <= hgConn.in
    /\ hgConn' = AfterRecvData(hgConn, k)
    /\ hgTotal' = hgTotal + k
    /\ WritesLog(k)
    /\ hgAt' = "loop"
    /\ UNCHANGED <<hgServed, hgTries, hgWhy, hgIret>>

HgReadsNothing ==
    /\ hgAt = "read"
    /\ RecvResult(hgConn) \in {"eof", "error"}
    /\ hgConn' = AfterRecvNothing(hgConn)
    /\ IF RecvResult(hgConn) = "eof" THEN HgLeaves("closed", 0) ELSE HgLeaves("error", 1)
    /\ UNCHANGED <<hgServed, hgTries, hgTotal, hgLog>>

HgEnds ==
    /\ hgAt = "end"
    /\ hgAt' = "exited"
    /\ hgConn' = NoConn
    /\ UNCHANGED <<hgServed, hgTries, hgTotal, hgLog, hgWhy, hgIret>>

-----------------------------------------------------------------------------
(* The server answers the request, and closes or breaks the connection.    *)
HgServer(can, does, served) ==
    /\ can
    /\ hgConn' = does
    /\ hgServed' = served
    /\ UNCHANGED <<hgAt, hgTries, hgTotal, hgLog, hgWhy, hgIret>>

HgServes == HgServer(CanPeerSend(hgConn) /\ hgConn.out > 0 /\ hgServed < HgMaxServed,
                     PeerSends(hgConn), hgServed + 1)
HgServerCloses == HgServer(CanPeerClose(hgConn), PeerCloses(hgConn), hgServed)
HgServerResets == HgServer(CanPeerReset(hgConn), PeerResets(hgConn), hgServed)

-----------------------------------------------------------------------------
HgNext ==
    \/ \E iret \in {0, 1} : HgStartupEnds(iret)
    \/ HgRefused \/ HgConnects \/ HgRequests \/ HgRequestFails \/ HgRequestKills
    \/ HgTriesOver \/ HgSelects \/ HgTimesOut \/ HgSelectFails
    \/ \E k \in 1..MaxIn : HgReads(k)
    \/ HgReadsNothing \/ HgEnds
    \/ HgServes \/ HgServerCloses \/ HgServerResets

HgSpec == HgInit /\ [][HgNext]_hgVars

-----------------------------------------------------------------------------
HgTypeOK ==
    /\ hgAt \in {"start", "send", "loop", "read", "end", "exited", "killed"}
    /\ hgConn \in Conn
    /\ hgServed \in 0..HgMaxServed /\ hgTries \in 0..max_tries
    /\ hgTotal \in 0..HgMaxServed /\ hgLogged \in 0..HgMaxServed
    /\ plog \in {"none", "open", "bad"}
    /\ hgWhy \in {"none", "tries", "quiet", "closed", "error"} /\ hgIret \in {0, 1}

(* Nothing is lost or read twice: what the server sent is in total_recv,   *)
(* or waits in the socket.                                                 *)
NothingLostOnTheWay ==
    hgAt \in {"send", "loop", "read", "end"} => hgTotal + hgConn.in = hgServed

(* The log holds all that was received, until it is given up, and is never *)
(* taken up again.                                                         *)
LogFollows ==
    /\ (plog = "none") = (hgTotal = 0)
    /\ plog = "open" => hgLogged = hgTotal
    /\ hgLogged <= hgTotal

(* Without an error the program ends with the whole file only when it has  *)
(* read the end; silence, after something came, and the number of passes   *)
(* end it too, the latter though nothing may have come at all.             *)
EndsForAReason ==
    hgAt = "end" =>
        /\ hgWhy = "closed" => hgTotal = hgServed
        /\ hgWhy = "quiet"  => hgTotal > 0
        /\ hgWhy = "tries"  => hgTries = max_tries
        /\ (hgWhy = "error") = (hgIret = 1)

(* Before connect() there is nothing, and nothing can follow the end of    *)
(* the connection that was read.                                           *)
HgPhases ==
    /\ hgAt = "start" => /\ hgConn = NoConn /\ hgServed = 0
                         /\ hgTotal = 0
    /\ hgAt \in {"send", "loop", "read"} => IsOpen(hgConn)
    /\ (hgAt = "end" /\ hgWhy = "closed") => hgConn.st \in {"fin", "dead"}

HttpInv == HgTypeOK /\ NothingLostOnTheWay /\ LogFollows /\ EndsForAReason /\ HgPhases
=============================================================================
