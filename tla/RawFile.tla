------------------------------ MODULE RawFile --------------------------------
(***************************************************************************)
(* The raw file of src/src/simgear/mpserver.cxx, which writes into it      *)
(* every datagram it receives, and the two programs that read one back:    *)
(* src/src/mpclient.cxx, which sends the messages it finds, over and over, *)
(* and src/src/simgear/fgmp_msg.cxx, which reads it once and lists them.   *)
(*                                                                         *)
(* After the bytes of a datagram come enough '=' to fill a block of 16,    *)
(* and a block more.  The writer counts by what recvfrom() returned, the   *)
(* readers by the MsgLen they find in the header; the server compares the  *)
(* two only after it has written, and what it cannot write it may leave    *)
(* out in the middle of the file.  A record is therefore what should have  *)
(* been written, the MsgLen in it, and whether its Magic and Version are   *)
(* known; a reader that is not at the start of a record finds anything.    *)
(*                                                                         *)
(* rawAt is "recording" while mpserver writes, and then, for the reader,   *)
(*   "turn"     the head of the loop of mpclient                           *)
(*   "wait"     the loop in which it looks for a reply                     *)
(*   "sleep"    check_key_sleep()                                          *)
(*   "list"     the loop of test_fgmp_message()                            *)
(*   "listed"   the end of test_fgmp_message()                             *)
(*   "exited"                                                              *)
(* Left out: what the positions say but for their time, statistics,        *)
(* verbosity and pause.                                                    *)
(* X_Fault is X with a plausible mistake.                                  *)
(***************************************************************************)
EXTENDS Integers, FiniteSets

CONSTANTS Lens,            (* the lengths of datagrams, and the MsgLens    *)
          CutAt,           (* bytes that may be left of a record           *)
          Times,           (* the times of positions                       *)
          max_wait_cycles,
          MaxRecords,      (* bound: datagrams recorded                    *)
          MaxStrangers     (* bound: datagrams that reach the client       *)

ASSUME RawAssumption ==
    /\ Lens \subseteq Nat \ {0} /\ CutAt \subseteq Nat /\ Times \subseteq Nat
    /\ {max_wait_cycles, MaxRecords, MaxStrangers} \subseteq Nat

VARIABLES rawAt, fTempRaw,
          records,         (* offset -> [wrote, MsgLen, known]             *)
          fileEnd,
          fSampRaw,        (* the reader's file is open                    *)
          rawPos,          (* and where it is                              *)
          sent,            (* history: the part of the file last taken for *)
                           (* a message, [at, len], or NoMessage           *)
          raw_wait_cycles, goesTo, strangers,
          total_msgs, mMotionInfo,
          lastKept         (* history: the time last put in mMotionInfo    *)

writerVars == <<fTempRaw, records, fileEnd>>
clientVars == <<raw_wait_cycles, goesTo, strangers>>
listVars   == <<total_msgs, mMotionInfo, lastKept>>
rawVars    == <<rawAt, fTempRaw, records, fileEnd, fSampRaw, rawPos, sent,
                raw_wait_cycles, goesTo, strangers,
                total_msgs, mMotionInfo, lastKept>>

HeaderLen == 32            (* sizeof(T_MsgHdr)                             *)
NoMessage == [at |-> 0, len |-> 0]

(* The '=' after n bytes.                                                  *)
Padding(n) == ((16 - (n % 16)) % 16) + 16

RawTypeOK ==
    /\ rawAt \in {"recording", "turn", "wait", "sleep", "list", "listed",
                 "exited"}
    /\ {fTempRaw, fSampRaw} \subseteq BOOLEAN
    /\ DOMAIN records \subseteq Nat
    /\ \A o \in DOMAIN records : 
          records[o] \in [wrote : Lens, MsgLen : Lens, known : BOOLEAN]
    /\ fileEnd \in Nat /\ rawPos \in Nat
    /\ sent \in [at : Nat, len : Nat]
    /\ raw_wait_cycles \in 0..(max_wait_cycles + 1)
    /\ goesTo \in {"server", "other"} /\ strangers \in 0..MaxStrangers
    /\ total_msgs \in Nat /\ mMotionInfo \subseteq Times /\ lastKept \in Nat

RawInit ==
    /\ rawAt = "recording" /\ fTempRaw = TRUE
    /\ records = [o \in {} |-> NoMessage] /\ fileEnd = 0
    /\ fSampRaw = FALSE /\ rawPos = 0 /\ sent = NoMessage
    /\ raw_wait_cycles = 0
    /\ goesTo = "server" /\ strangers = 0
    /\ total_msgs = 0 /\ mMotionInfo = {} /\ lastKept = 0

-----------------------------------------------------------------------------
(* mpserver: WriteRawData()                                                *)

RecordAt(n, l, b) ==
    [o \in DOMAIN records \cup {fileEnd} |->
        IF o = fileEnd THEN [wrote |-> n, MsgLen |-> l, known |-> b] ELSE records[o]]

Recording == rawAt = "recording" /\ fTempRaw /\ Cardinality(DOMAIN records) < MaxRecords

WriteRawData(n, l, b) ==
    /\ Recording
    /\ records' = RecordAt(n, l, b)
    /\ fileEnd' = fileEnd + n + Padding(n)
    /\ UNCHANGED <<rawAt, fTempRaw, fSampRaw, rawPos, sent, clientVars, listVars>>

(* Where a failing fwrite() may leave the end of the file: what earlier    *)
(* calls left in the buffer of the C library can be lost with it.          *)
Ends == {o + k : o \in DOMAIN records \cup {fileEnd}, k \in CutAt}

(* The records of rs that begin before e.                                  *)
CutTo(e, rs) == [o \in {p \in DOMAIN rs : p < e} |-> rs[o]]

(* The datagram is not written, and the file abandoned; what is left is    *)
(* also what a server that is killed may leave.                            *)
WriteFails(n, l, b, e) ==
    /\ Recording
    /\ e < fileEnd + n
    /\ records' = CutTo(e, RecordAt(n, l, b))
    /\ fileEnd' = e
    /\ fTempRaw' = FALSE
    /\ UNCHANGED <<rawAt, fSampRaw, rawPos, sent, clientVars, listVars>>

(* The fwrite() of the padding fails, which nobody looks at: the next      *)
(* datagram is written wherever the file ends now.                         *)
PaddingFails(n, l, b, e) ==
    /\ Recording
    /\ e < fileEnd + n + Padding(n)
    /\ records' = CutTo(e, RecordAt(n, l, b))
    /\ fileEnd' = e
    /\ UNCHANGED <<rawAt, fTempRaw, fSampRaw, rawPos, sent, clientVars, listVars>>

(* A copy of the file is given to one of the readers.  fgmp_msg ends if it *)
(* cannot open it, mpclient goes on without.                               *)
OpensFile(program, opened) ==
    /\ rawAt = "recording"
    /\ rawAt' = IF program = "list" /\ ~opened THEN "exited" ELSE program
    /\ fSampRaw' = opened
    /\ UNCHANGED <<writerVars, rawPos, sent, clientVars, listVars>>

-----------------------------------------------------------------------------
(* Reading a message, in either program                                    *)

(* The bytes at p are the header of a record, and no other is written over *)
(* its end.                                                                *)
HeaderOf(p) ==
    /\ p \in DOMAIN records
    /\ \A q \in DOMAIN records : p < q => p + HeaderLen <= q

(* l is a MsgLen that the bytes at p may show.                             *)
ShowsLen(p, l) ==
    /\ p + HeaderLen <= fileEnd
    /\ HeaderOf(p) => l = records[p].MsgLen

Whole(p, l) == p + l <= fileEnd

(* After the message its padding is read, as much as there is.             *)
Beyond_Fault(p, l) ==
    LET q == p + l + (16 - (l % 16)) IN IF q <= fileEnd THEN q ELSE fileEnd
Beyond(p, l) ==
    LET q == p + l + Padding(l) IN IF q <= fileEnd THEN q ELSE fileEnd

-----------------------------------------------------------------------------
(* mpclient: run_udpclient() and myFillPosMsg()                            *)

(* Where the next header is read: at the start again if none is left here. *)
HeaderAt == IF rawPos + HeaderLen <= fileEnd THEN rawPos ELSE 0

(* A message is filled from the file, or the file is closed.               *)
FillsFromFile ==
    /\ fSampRaw
    /\ \/ /\ HeaderLen > fileEnd
          /\ fSampRaw' = FALSE /\ sent' = NoMessage /\ UNCHANGED rawPos
       \/ \E l \in Lens :
             /\ ShowsLen(HeaderAt, l)
             /\ IF HeaderLen < l /\ Whole(HeaderAt, l)
                THEN /\ rawPos' = Beyond(HeaderAt, l)
                     /\ sent' = [at |-> HeaderAt, len |-> l]
                     /\ UNCHANGED fSampRaw
                ELSE /\ fSampRaw' = FALSE /\ sent' = NoMessage /\ UNCHANGED rawPos

FillsWithout ==
    /\ ~fSampRaw
    /\ sent' = NoMessage
    /\ UNCHANGED <<fSampRaw, rawPos>>

(* The message is given its header, and sent.                              *)
MpClientSends ==
    /\ rawAt = "turn"
    /\ FillsFromFile \/ FillsWithout
    /\ raw_wait_cycles' = 0
    /\ rawAt' = "wait"
    /\ UNCHANGED <<writerVars, goesTo, strangers, listVars>>

MpClientSendFails ==
    /\ rawAt = "turn"
    /\ FillsFromFile \/ FillsWithout
    /\ rawAt' = "exited"
    /\ UNCHANGED <<writerVars, clientVars, listVars>>

MpClientEscape ==
    /\ rawAt \in {"turn", "wait", "sleep"}
    /\ rawAt' = "exited"
    /\ UNCHANGED <<writerVars, fSampRaw, rawPos, sent, clientVars, listVars>>

(* The turns of the wait, this one counted.                                *)
TurnsNow_Fault == raw_wait_cycles
TurnsNow == raw_wait_cycles + 1

Waits == rawAt = "wait" /\ raw_wait_cycles' = TurnsNow

WaitedEnough == TurnsNow > max_wait_cycles

(* A turn of the wait that is one too many, or finds no datagram; an r has *)
(* the wait end with it.                                                   *)
MpClientWaits(reset) ==
    /\ Waits
    /\ rawAt' = IF WaitedEnough \/ reset THEN "sleep" ELSE "wait"
    /\ UNCHANGED <<writerVars, fSampRaw, rawPos, sent, goesTo, strangers, listVars>>

(* A datagram arrives: mpserver sends none, so it is from another host,    *)
(* and the messages go there from now on.                                  *)
MpClientReceives ==
    /\ Waits /\ ~WaitedEnough
    /\ strangers < MaxStrangers
    /\ strangers' = strangers + 1
    /\ goesTo' = "other"
    /\ rawAt' = "sleep"
    /\ UNCHANGED <<writerVars, fSampRaw, rawPos, sent, listVars>>

MpClientReceiveFails ==
    /\ Waits /\ ~WaitedEnough
    /\ rawAt' = "exited"
    /\ UNCHANGED <<writerVars, fSampRaw, rawPos, sent, goesTo, strangers, listVars>>

MpClientSleeps ==
    /\ rawAt = "sleep"
    /\ rawAt' = "turn"
    /\ UNCHANGED <<writerVars, fSampRaw, rawPos, sent, clientVars, listVars>>

-----------------------------------------------------------------------------
(* fgmp_msg: test_fgmp_message(), _ProcessPosMsg() and _addMotionInfo()    *)

Newest == CHOOSE t \in mMotionInfo : \A u \in mMotionInfo : u <= t

DropsTime_Fault(t) == FALSE
DropsTime(t) == mMotionInfo # {} /\ t < Newest /\ ~(t < Newest - 10)
StartsOver(t) == mMotionInfo # {} /\ t < Newest - 10

(* A time well before the newest means that the sender began anew; one a   *)
(* little before is out of order, and dropped.                             *)
AddMotionInfo(t) ==
    IF DropsTime(t) THEN UNCHANGED <<mMotionInfo, lastKept>>
    ELSE /\ mMotionInfo' = (IF StartsOver(t) THEN {} ELSE mMotionInfo) \cup {t}
         /\ lastKept' = t

(* A whole message is counted; a position that can be used is kept.        *)
ListsMessage ==
    /\ rawAt = "list"
    /\ HeaderOf(rawPos) => records[rawPos].known
    /\ \E l \in Lens :
          /\ ShowsLen(rawPos, l)
          /\ HeaderLen <= l /\ Whole(rawPos, l)
          /\ rawPos' = Beyond(rawPos, l)
          /\ sent' = [at |-> rawPos, len |-> l]
    /\ total_msgs' = total_msgs + 1
    /\ \/ \E t \in Times : AddMotionInfo(t)
       \/ UNCHANGED <<mMotionInfo, lastKept>>
    /\ UNCHANGED <<rawAt, writerVars, fSampRaw, clientVars>>

(* No header is left, its magic or version is wrong, or the message is not *)
(* all there: the list ends.                                               *)
ListEnds ==
    /\ rawAt = "list"
    /\ \/ rawPos + HeaderLen > fileEnd
       \/ ~HeaderOf(rawPos)
       \/ HeaderOf(rawPos) /\ ~records[rawPos].known
       \/ \E l \in Lens : ShowsLen(rawPos, l) /\ ~(HeaderLen <= l /\ Whole(rawPos, l))
    /\ fSampRaw' = FALSE
    /\ mMotionInfo' = {}
    /\ lastKept' = 0
    /\ rawAt' = "listed"
    /\ UNCHANGED <<writerVars, rawPos, sent, clientVars, total_msgs>>

-----------------------------------------------------------------------------
MpClientTurns == MpClientSends \/ MpClientWaits(FALSE) \/ MpClientSleeps

RawNext ==
    \/ \E n, l \in Lens, b \in BOOLEAN :
          \/ WriteRawData(n, l, b)
          \/ \E e \in Ends : WriteFails(n, l, b, e) \/ PaddingFails(n, l, b, e)
    \/ \E b \in BOOLEAN : OpensFile("turn", b) \/ OpensFile("list", b)
    \/ MpClientTurns \/ MpClientWaits(TRUE)
    \/ MpClientSendFails \/ MpClientEscape
    \/ MpClientReceives \/ MpClientReceiveFails
    \/ ListsMessage \/ ListEnds

RawSpec == RawInit /\ [][RawNext]_rawVars

(* The client's loop turns as long as nobody ends it.                      *)
RawFairSpec == RawSpec /\ WF_rawVars(MpClientTurns)

-----------------------------------------------------------------------------
(* Properties                                                              *)

InStep(p) == p \in DOMAIN records \cup {fileEnd}

EndOf(o) == o + records[o].wrote + Padding(records[o].wrote)

(* The datagram at o is as long as it says it is, and the next record, if  *)
(* there is one, begins after its padding; Intact records only up to p.    *)
Intact(o) ==
    /\ records[o].wrote = records[o].MsgLen
    /\ \A q \in DOMAIN records : o < q => EndOf(o) <= q

IntactBefore(p) == \A o \in DOMAIN records : o < p => Intact(o)

(* Writer and readers keep step as far as the records are intact: up to    *)
(* the first that lies about its length or was not all written, what a     *)
(* reader takes for a message is one, from its first byte to its last;     *)
(* damage never reaches back, and a file cut at its end does none          *)
(* (src/src/simgear/mpserver.cxx:105-126, src/src/mpclient.cxx:180-239,    *)
(* src/src/simgear/fgmp_msg.cxx:633-740).  The server writes before it     *)
(* checks (mpserver.cxx:487) and does not look whether the padding was     *)
(* written (:124), so beyond that record nothing is promised.              *)
ReadersKeepStep ==
    /\ IntactBefore(rawPos) => InStep(rawPos)
    /\ (sent # NoMessage /\ IntactBefore(sent.at + 1)) =>
          sent.at \in DOMAIN records /\ sent.len = records[sent.at].wrote

(* fgmp_msg counts every message once: as many as there are records before *)
(* its position (fgmp_msg.cxx:685-696).                                    *)
CountsEachOnce ==
    rawAt \in {"list", "listed"} /\ IntactBefore(rawPos) =>
        total_msgs = Cardinality({o \in DOMAIN records : o < rawPos})

(* Its list ends before no intact record of the protocol that is all there *)
(* (fgmp_msg.cxx:655, :670-682, :688).                                     *)
ListsAll ==
    (rawAt = "listed" /\ rawPos \in DOMAIN records) =>
        \/ ~Intact(rawPos) \/ ~records[rawPos].known
        \/ records[rawPos].wrote < HeaderLen
        \/ rawPos + records[rawPos].wrote > fileEnd

(* The padding is read over the header of the message just read, and only  *)
(* over it, so that myFillMsgHdr() makes the message good again            *)
(* (src/src/mpclient.cxx:227-236, :289-293).                               *)
PaddingFits == \A l \in Lens : Padding(l) < HeaderLen

(* The newest position kept is the one last accepted: none that came out   *)
(* of order is among those kept (fgmp_msg.cxx:136-157).                    *)
NewestIsLast == mMotionInfo # {} => Newest = lastKept

RawInv ==
    /\ RawTypeOK /\ ReadersKeepStep /\ CountsEachOnce /\ ListsAll
    /\ PaddingFits /\ NewestIsLast

(* mpclient waits for a reply that never comes only so many turns, and     *)
(* until it exits it goes on to its next message, sample or no sample      *)
(* (src/src/mpclient.cxx:346-348, unlike udpclient.cxx:258; :180-239).     *)
MpClientGoesOn ==
    /\ rawAt = "wait" ~> rawAt # "wait"
    /\ rawAt \in {"turn", "sleep"} ~> rawAt \in {"wait", "exited"}
=============================================================================
