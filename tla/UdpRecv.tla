------------------------------ MODULE UdpRecv --------------------------------
(***************************************************************************)
(* src/src/udp-recv.cxx: it appends every datagram it receives to a log    *)
(* and, with -e yes, sends it back.  The log is opened when the first      *)
(* datagram comes, for appending with -a and anew without, and is written  *)
(* through a buffer of the C library, which is lost if the program is      *)
(* killed.  A datagram is in the log or not; one cut short counts as not.   *)
(*                                                                         *)
(* The program runs MaxRecvRuns times, one run after the other.  It is at  *)
(*   "start"   parse_args(), socket(), bind()                              *)
(*   "recv"    recvfrom() and, on EAGAIN, the keys                         *)
(*   "echo"    sendto()                                                    *)
(*   "over"    between two runs                                            *)
(* A datagram is its number: the datagrams of all runs in the order in     *)
(* which they are received.                                                *)
(* Left out: write_msg_header, which is 0 and stays so, the texts, and     *)
(* recvfrom() giving 0, which for a datagram without bytes does nothing.   *)
(* X_Fault is X with a plausible mistake.                                  *)
(***************************************************************************)
EXTENDS Integers, Sequences

CONSTANTS MaxRecvRuns,   (* bound: runs of the program                     *)
          MaxGot         (* bound: datagrams received in all               *)

ASSUME RecvAssumption == {MaxRecvRuns, MaxGot} \subseteq Nat

VARIABLES recvAt, echo_received_data, append_to_log,
          msg_file,      (* "NULL", "open" or "failed", the code's -1      *)
          logOnDisk, logBuffer,
          got, echoed, recvRuns,
          gotBefore,     (* history: got when the log was last opened      *)
          appending,     (* history: every run so far had -a               *)
          logHarmed      (* history: a run was killed, a write failed      *)

recvVars == <<recvAt, echo_received_data, append_to_log, msg_file, logOnDisk,
              logBuffer, got, echoed, recvRuns, gotBefore, appending, logHarmed>>

recvHistory == <<gotBefore, appending, logHarmed>>

RecvTypeOK ==
    /\ recvAt \in {"start", "recv", "echo", "over"}
    /\ {echo_received_data, append_to_log, appending, logHarmed} \subseteq BOOLEAN
    /\ msg_file \in {"NULL", "open", "failed"}
    /\ logOnDisk \in Seq(1..MaxGot) /\ logBuffer \in Seq(1..MaxGot)
    /\ {got, gotBefore} \subseteq 0..MaxGot
    /\ echoed \subseteq 1..got
    /\ recvRuns \in 0..MaxRecvRuns

RecvInit ==
    /\ recvAt = "over"
    /\ echo_received_data = FALSE /\ append_to_log = FALSE
    /\ msg_file = "NULL" /\ logOnDisk = <<>> /\ logBuffer = <<>>
    /\ got = 0 /\ echoed = {} /\ recvRuns = 0
    /\ gotBefore = 0 /\ appending = TRUE /\ logHarmed = FALSE

(* A run begins: its statics are as main() finds them.                     *)
RecvRuns ==
    /\ recvAt = "over"
    /\ recvRuns < MaxRecvRuns
    /\ recvRuns' = recvRuns + 1
    /\ echo_received_data' \in BOOLEAN
    /\ append_to_log' \in BOOLEAN
    /\ appending' = (appending /\ append_to_log')
    /\ msg_file' = "NULL"
    /\ recvAt' = "start"
    /\ UNCHANGED <<logOnDisk, logBuffer, got, echoed, gotBefore, logHarmed>>

(* The program returns, and the C library writes out its buffer.           *)
RecvReturns ==
    /\ recvAt' = "over"
    /\ logOnDisk' = logOnDisk \o logBuffer
    /\ logBuffer' = <<>>

RecvStarts ==
    /\ recvAt = "start"
    /\ recvAt' = "recv"
    /\ UNCHANGED <<echo_received_data, append_to_log, msg_file, logOnDisk,
                   logBuffer, got, echoed, recvRuns, recvHistory>>

(* A bad option, socket() or bind() fails; or, later, recvfrom(), or a key *)
(* is hit while nothing comes.                                             *)
RecvStops ==
    /\ recvAt \in {"start", "recv"}
    /\ RecvReturns
    /\ UNCHANGED <<echo_received_data, append_to_log, msg_file, got, echoed,
                   recvRuns, recvHistory>>

(* What the log holds when a run opens it.                                 *)
Opened_Fault == <<>>
Opened == IF append_to_log THEN logOnDisk ELSE <<>>

(* write_msg_log(): the log is opened if this is the first datagram of the *)
(* run; a log that failed once is left alone.                              *)
LogWrites(n) ==
    \/ /\ msg_file # "failed"
       /\ msg_file' = "open"
       /\ logOnDisk' = IF msg_file = "NULL" THEN Opened ELSE logOnDisk
       /\ logBuffer' = Append(logBuffer, n)
       /\ gotBefore' = IF msg_file = "NULL" THEN got ELSE gotBefore
       /\ UNCHANGED logHarmed
    \/ /\ msg_file' = "failed"
       /\ logHarmed' = TRUE
       /\ \E k \in 0..Len(logBuffer), old \in (IF msg_file = "NULL"
                                             THEN {logOnDisk, Opened}
                                             ELSE {logOnDisk}) :
             logOnDisk' = old \o SubSeq(logBuffer, 1, k)
       /\ logBuffer' = <<>>
       /\ UNCHANGED gotBefore

RecvReceives ==
    /\ recvAt = "recv"
    /\ got < MaxGot
    /\ got' = got + 1
    /\ LogWrites(got + 1)
    /\ recvAt' = IF echo_received_data THEN "echo" ELSE "recv"
    /\ UNCHANGED <<echo_received_data, append_to_log, echoed, recvRuns, appending>>

(* A short sendto() is reported, no more; a failing one ends the run.      *)
RecvEchoes ==
    /\ recvAt = "echo"
    /\ \/ /\ echoed' = echoed \cup {got}
          /\ recvAt' = "recv"
          /\ UNCHANGED <<logOnDisk, logBuffer>>
       \/ /\ RecvReturns
          /\ UNCHANGED echoed
    /\ UNCHANGED <<echo_received_data, append_to_log, msg_file, got, recvRuns,
                   recvHistory>>

(* A signal ends the run, and what is in the buffer is lost.               *)
RecvKilled ==
    /\ recvAt \in {"start", "recv", "echo"}
    /\ recvAt' = "over"
    /\ \E n \in 0..Len(logBuffer) :
          logOnDisk' = logOnDisk \o SubSeq(logBuffer, 1, n)
    /\ logBuffer' = <<>>
    /\ logHarmed' = TRUE
    /\ UNCHANGED <<echo_received_data, append_to_log, msg_file, got, echoed,
                   recvRuns, gotBefore, appending>>

RecvNext == \/ RecvRuns \/ RecvStarts \/ RecvStops \/ RecvReceives
            \/ RecvEchoes \/ RecvKilled

RecvSpec == RecvInit /\ [][RecvNext]_recvVars

-----------------------------------------------------------------------------
(* Properties                                                              *)

Log == logOnDisk \o logBuffer

From(n) == [i \in 1..(got - n) |-> n + i]

(* The log holds the datagrams in the order in which they came, and none   *)
(* twice, whatever runs were killed (src/src/udp-recv.cxx:207-242).        *)
LogInOrder == \A i, j \in 1..Len(Log) : i < j => Log[i] < Log[j]

(* If every run had -a, no run was killed and no write failed, the log     *)
(* holds every datagram of all runs.                                       *)
LogKeepsRuns == appending /\ ~logHarmed => Log = From(0)

(* A run without -a takes the log of the others away with its first        *)
(* datagram, not before: one that receives none leaves it as it was.       *)
LogOfThisRun ==
    msg_file = "open" /\ ~append_to_log /\ ~logHarmed => Log = From(gotBefore)
LogOutlivesIdleRun ==
    msg_file = "NULL" /\ ~logHarmed => Log # <<>> \/ got = 0

(* What makes the above inductive.  The buffer is that of a log that is    *)
(* open in a run; a log that could not be opened or written was harmed.    *)
BufferOfOpenLog ==
    /\ recvAt = "over" \/ msg_file # "open" => logBuffer = <<>>
    /\ msg_file = "failed" => logHarmed

(* Nothing in the log is later than the last datagram, and an open one     *)
(* holds the datagram it was opened for.                                   *)
LogIsOfThePast ==
    /\ \A i \in 1..Len(Log) : Log[i] <= got
    /\ gotBefore <= got
    /\ recvAt = "echo" => got > 0
    /\ msg_file = "open" /\ ~logHarmed => Log # <<>>

(* What appending says of every run it says of the one that is running.    *)
AppendingNow == recvAt # "over" /\ appending => append_to_log

RecvInv == /\ RecvTypeOK /\ LogInOrder /\ LogKeepsRuns
           /\ LogOfThisRun /\ LogOutlivesIdleRun
           /\ BufferOfOpenLog /\ LogIsOfThePast /\ AppendingNow
=============================================================================
