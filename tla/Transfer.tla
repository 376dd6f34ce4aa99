----------------------------- MODULE Transfer ------------------------------
(***************************************************************************)
(* The loops that move count characters through a stream, one call after   *)
(* the other: sock_write() and sock_read() of src/src/sockhelp.c, and      *)
(* tcp_write() and tcp_readFully() of src/src/ebsocket.c.  They differ in  *)
(* what they do when a signal interrupts the call: trRetries says that it  *)
(* is repeated, as in sockhelp.c.                                          *)
(*                                                                         *)
(* A writer and a reader share a stream that holds TrCap characters.       *)
(* wTold and rTold are what the callers were told of, by values returned   *)
(* that are not negative; wLost and rLost were moved by calls that failed. *)
(* SIGPIPE is taken to be ignored, which is what ignore_pipe() is for.     *)
(***************************************************************************)
EXTENDS Integers

CONSTANTS TrCap,           (* what fits between writer and reader          *)
          TrCounts,        (* the counts callers ask for                   *)
          TrMaxCalls       (* bound: calls of each                         *)

ASSUME TrAssumption ==
    /\ TrCap \in Nat \ {0}
    /\ TrCounts \subseteq Nat
    /\ TrMaxCalls \in Nat

VARIABLES trRetries,
          wAt, wCount, wDone, wTold, wLost, wCalls,
          rAt, rCount, rDone, rTold, rLost, rCalls,
          pipe, pipeEnd, trDropped

wVars  == <<wAt, wCount, wDone, wTold, wLost, wCalls>>
rVars  == <<rAt, rCount, rDone, rTold, rLost, rCalls>>
trVars == <<trRetries, wVars, rVars, pipe, pipeEnd, trDropped>>

TrInit ==
    /\ trRetries \in BOOLEAN
    /\ wAt = "idle" /\ wCount = 0 /\ wDone = 0 /\ wTold = 0 /\ wLost = 0 /\ wCalls = 0
    /\ rAt = "idle" /\ rCount = 0 /\ rDone = 0 /\ rTold = 0 /\ rLost = 0 /\ rCalls = 0
    /\ pipe = 0 /\ pipeEnd = "open" /\ trDropped = 0

-----------------------------------------------------------------------------
(* The writer.                                                             *)

TrWriteCall(n) ==
    /\ wAt = "idle"
    /\ pipeEnd # "closed"
    /\ wCalls < TrMaxCalls
    /\ wCalls' = wCalls + 1
    /\ wAt' = "writing" /\ wCount' = n /\ wDone' = 0
    /\ UNCHANGED <<trRetries, wTold, wLost, rVars, pipe, pipeEnd, trDropped>>

WriteRest_Fault == wCount

(* What is left of the buffer.                                             *)
WriteRest == wCount - wDone

(* The kernel takes some of it.                                            *)
TrWrites(k) ==
    /\ wAt = "writing"
    /\ wDone < wCount
    /\ pipeEnd = "open"
    /\ k <= WriteRest
    /\ pipe + k <= TrCap
    /\ wDone' = wDone + k
    /\ pipe' = pipe + k
    /\ UNCHANGED <<trRetries, wAt, wCount, wTold, wLost, wCalls, rVars, pipeEnd, trDropped>>

(* All was written: the count is returned.                                 *)
TrWriteReturns ==
    /\ wAt = "writing"
    /\ wDone >= wCount
    /\ wAt' = "idle" /\ wDone' = 0
    /\ wTold' = wTold + wCount
    /\ UNCHANGED <<trRetries, wCount, wLost, wCalls, rVars, pipe, pipeEnd, trDropped>>

(* -1: the connection is gone, the buffer of a non-blocking socket is      *)
(* full, or a signal came in a loop that does not try again.               *)
TrWriteFails ==
    /\ wAt = "writing"
    /\ wDone < wCount
    /\ pipeEnd # "open" \/ pipe = TrCap \/ ~trRetries
    /\ wAt' = "idle" /\ wDone' = 0
    /\ wLost' = wLost + wDone
    /\ UNCHANGED <<trRetries, wCount, wTold, wCalls, rVars, pipe, pipeEnd, trDropped>>

-----------------------------------------------------------------------------
(* The reader.                                                             *)

TrReadCall(n) ==
    /\ rAt = "idle"
    /\ rCalls < TrMaxCalls
    /\ rCalls' = rCalls + 1
    /\ rAt' = "reading" /\ rCount' = n /\ rDone' = 0
    /\ UNCHANGED <<trRetries, wVars, rTold, rLost, pipe, pipeEnd, trDropped>>

ReadRest == rCount - rDone

TrReads(k) ==
    /\ rAt = "reading"
    /\ rDone < rCount
    /\ k <= ReadRest
    /\ k <= pipe
    /\ rDone' = rDone + k
    /\ pipe' = pipe - k
    /\ UNCHANGED <<trRetries, wVars, rAt, rCount, rTold, rLost, rCalls, pipeEnd, trDropped>>

(* All is there, or the end of the stream: what was read is returned.      *)
TrReadReturns ==
    /\ rAt = "reading"
    /\ rDone >= rCount \/ (pipe = 0 /\ pipeEnd = "closed")
    /\ rAt' = "idle" /\ rDone' = 0
    /\ rTold' = rTold + rDone
    /\ UNCHANGED <<trRetries, wVars, rCount, rLost, rCalls, pipe, pipeEnd, trDropped>>

(* -1: a broken connection, nothing to read from a non-blocking socket, or *)
(* a signal.                                                               *)
TrReadFails ==
    /\ rAt = "reading"
    /\ rDone < rCount
    /\ \/ pipeEnd = "reset"
       \/ pipe = 0 /\ pipeEnd = "open"
       \/ ~trRetries
    /\ rAt' = "idle" /\ rDone' = 0
    /\ rLost' = rLost + rDone
    /\ UNCHANGED <<trRetries, wVars, rCount, rTold, rCalls, pipe, pipeEnd, trDropped>>

-----------------------------------------------------------------------------
(* The writer's program closes, or the connection breaks.                  *)

TrCloses ==
    /\ wAt = "idle"
    /\ pipeEnd = "open"
    /\ pipeEnd' = "closed"
    /\ UNCHANGED <<trRetries, wVars, rVars, pipe, trDropped>>

TrBreaks ==
    /\ pipeEnd # "reset"
    /\ pipeEnd' = "reset"
    /\ trDropped' = trDropped + pipe
    /\ pipe' = 0
    /\ UNCHANGED <<trRetries, wVars, rVars>>

-----------------------------------------------------------------------------
TrWriter == (\E n \in TrCounts : TrWriteCall(n)) \/ (\E k \in 1..TrCap : TrWrites(k))
            \/ TrWriteReturns \/ TrWriteFails

TrReader == (\E n \in TrCounts : TrReadCall(n)) \/ (\E k \in 1..TrCap : TrReads(k))
            \/ TrReadReturns \/ TrReadFails

TrNext == TrWriter \/ TrReader \/ TrCloses \/ TrBreaks

TrSpec == TrInit /\ [][TrNext]_trVars

-----------------------------------------------------------------------------
TrTypeOK ==
    /\ trRetries \in BOOLEAN
    /\ wAt \in {"idle", "writing"} /\ rAt \in {"idle", "reading"}
    /\ pipeEnd \in {"open", "closed", "reset"}
    /\ wCount \in Nat /\ wDone \in Nat /\ wTold \in Nat /\ wLost \in Nat
    /\ wCalls \in 0..TrMaxCalls
    /\ rCount \in Nat /\ rDone \in Nat /\ rTold \in Nat /\ rLost \in Nat
    /\ rCalls \in 0..TrMaxCalls
    /\ pipe \in 0..TrCap /\ trDropped \in Nat

(* Neither loop goes past the buffer it was given.                         *)
WithinBuffers ==
    /\ wAt = "writing" => wDone <= wCount
    /\ rAt = "reading" => rDone <= rCount

(* Every character is moved once, in order: those the reader has, those    *)
(* still under way and those a broken connection took with it are just the *)
(* ones the writer handed over, interrupted and short calls included.      *)
EachMovedOnce ==
    wTold + wLost + wDone = rTold + rLost + rDone + pipe + trDropped

(* Between calls nothing is half counted.                                  *)
IdleIsClean ==
    /\ wAt = "idle" => wDone = 0
    /\ rAt = "idle" => rDone = 0
    /\ pipeEnd = "closed" => wAt = "idle"
    /\ pipeEnd = "reset" => pipe = 0
    /\ trDropped > 0 => pipeEnd = "reset"

(* A reader that was told of everything it took has got all that was       *)
(* written, once the stream has ended well and is empty.                   *)
NothingMissing ==
    (pipeEnd = "closed" /\ pipe = 0 /\ rAt = "idle" /\ rLost = 0) => rTold = wTold + wLost

TransferInv ==
    /\ TrTypeOK /\ WithinBuffers /\ EachMovedOnce /\ IdleIsClean /\ NothingMissing
=============================================================================
