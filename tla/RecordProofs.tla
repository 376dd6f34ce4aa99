---------------------------- MODULE RecordProofs -----------------------------
(***************************************************************************)
(* Proofs about what the programs that only collect datagrams keep of      *)
(* them.  The raw file: its writer and its two readers keep step up to the *)
(* first record that is damaged, wherever the file was cut, and however    *)
(* often it is read.                                                       *)
(* The log of udp-recv: which datagrams it holds after any number of runs. *)
(* The map of mpserver, and that a property list which verifies is read:   *)
(* the lists are walked by recursive functions, of which it is shown that  *)
(* there are such functions (SomeWalk) and that they go on together        *)
(* (HarderWalk, by a last place at which they would not).                  *)
(***************************************************************************)
EXTENDS RawFile, MpServer, UdpRecv, FiniteSetTheorems, SequenceTheorems,
        WellFoundedInduction, TLAPS

-----------------------------------------------------------------------------
(* The raw file.                                                           *)

Offsets == DOMAIN records

(* The file is a row of records: each reaches to the end of the file, or   *)
(* another one begins no later than its own end.                           *)
Covers(rs, end) ==
    /\ IsFiniteSet(DOMAIN rs)
    /\ 0 \in DOMAIN rs \cup {end}
    /\ \A o \in DOMAIN rs :
          /\ o < end
          /\ \/ end <= o + rs[o].wrote + Padding(rs[o].wrote)
             \/ \E q \in DOMAIN rs :
                   o < q /\ q <= o + rs[o].wrote + Padding(rs[o].wrote)

RowOfRecords == Covers(records, fileEnd)

NotYetRead ==
    rawAt = "recording" => /\ rawPos = 0 /\ sent = NoMessage /\ total_msgs = 0

WaitCounted == rawAt = "wait" => raw_wait_cycles <= max_wait_cycles

LastIsNewest ==
    mMotionInfo # {} =>
        /\ lastKept \in mMotionInfo
        /\ \A t \in mMotionInfo : t <= lastKept

RawIInv ==
    /\ RawTypeOK /\ RowOfRecords /\ NotYetRead /\ WaitCounted
    /\ ReadersKeepStep /\ CountsEachOnce /\ ListsAll /\ LastIsNewest

-----------------------------------------------------------------------------
(* The padding is more than nothing, and less than a header; with it a     *)
(* record is no shorter than a header.                                     *)
LEMMA PaddingBound ==
    ASSUME NEW n \in Nat
    PROVE  Padding(n) \in 16..31
  BY DEF Padding

LEMMA PaddedHoldsHeader ==
    ASSUME NEW n \in Nat \ {0}
    PROVE  HeaderLen <= n + Padding(n)
<1>1. CASE n >= 17
  BY <1>1, PaddingBound DEF HeaderLen
<1>2. CASE n = 16
  BY <1>2 DEF HeaderLen, Padding
<1>3. CASE n < 16
  <2>1. n % 16 = n
    BY <1>3
  <2>2. (16 - n) % 16 = 16 - n
    BY <1>3
  <2> QED
    BY <2>1, <2>2 DEF HeaderLen, Padding
<1> QED
  BY <1>1, <1>2, <1>3

LEMMA PaddingAlwaysFits == PaddingFits
  BY PaddingBound, RawAssumption DEF PaddingFits, HeaderLen

LEMMA InitRawIInv == RawInit => RawIInv
<1> SUFFICES ASSUME RawInit PROVE RawIInv
  OBVIOUS
<1>1. Offsets = {}
  BY DEF RawInit, Offsets
<1>2. RawTypeOK
  <2>1. DOMAIN records \subseteq Nat /\ \A o \in DOMAIN records :
            records[o] \in [wrote : Lens, MsgLen : Lens, known : BOOLEAN]
    BY <1>1 DEF Offsets
  <2>2. sent \in [at : Nat, len : Nat]
    BY DEF RawInit, NoMessage
  <2>3. raw_wait_cycles \in 0..(max_wait_cycles + 1) /\ strangers \in 0..MaxStrangers
    BY RawAssumption DEF RawInit
  <2> QED
    BY <2>1, <2>2, <2>3 DEF RawInit, RawTypeOK
<1>3. RowOfRecords
  BY <1>1, FS_EmptySet DEF RawInit, RowOfRecords, Covers, Offsets
<1>4. ReadersKeepStep
  BY DEF RawInit, ReadersKeepStep, InStep
<1> QED
  BY <1>2, <1>3, <1>4 DEF RawInit, RawIInv, NotYetRead, WaitCounted,
     CountsEachOnce, ListsAll, LastIsNewest

-----------------------------------------------------------------------------
(* A record after the last one keeps the row, and so does cutting it off   *)
(* anywhere.                                                               *)
LEMMA AddedKeepsRow ==
    ASSUME RawTypeOK, RowOfRecords, NEW n \in Lens, NEW l \in Lens, NEW b \in BOOLEAN
    PROVE  /\ Covers(RecordAt(n, l, b), fileEnd + n + Padding(n))
           /\ DOMAIN RecordAt(n, l, b) \subseteq Nat
           /\ \A o \in DOMAIN RecordAt(n, l, b) :
                 RecordAt(n, l, b)[o] \in [wrote : Lens, MsgLen : Lens, known : BOOLEAN]
<1> USE RawAssumption
<1> DEFINE R == RecordAt(n, l, b)
           F == fileEnd + n + Padding(n)
           Rec == [wrote : Lens, MsgLen : Lens, known : BOOLEAN]
<1>1. n \in Nat \ {0} /\ Padding(n) \in 16..31 /\ fileEnd \in Nat /\ F \in Nat
  BY PaddingBound DEF RawTypeOK
<1>2. Offsets \subseteq Nat /\ \A o \in Offsets : records[o] \in Rec /\ o < fileEnd
  BY DEF RawTypeOK, RowOfRecords, Covers, Offsets
<1>3. DOMAIN R = Offsets \cup {fileEnd}
  BY DEF RecordAt, Offsets
<1>4. R[fileEnd] = [wrote |-> n, MsgLen |-> l, known |-> b]
  BY DEF RecordAt
<1>5. \A o \in Offsets : R[o] = records[o]
  BY <1>1, <1>2 DEF RecordAt, Offsets
<1>6. \A o \in DOMAIN R : R[o] \in Rec
  <2> HIDE DEF R
  <2>1. R[fileEnd] \in Rec
    BY <1>4
  <2> QED
    BY <2>1, <1>2, <1>3, <1>5
<1>7. IsFiniteSet(DOMAIN R) /\ 0 \in DOMAIN R \cup {F}
  <2>1. IsFiniteSet(Offsets) /\ 0 \in Offsets \cup {fileEnd}
    BY DEF RowOfRecords, Covers, Offsets
  <2> QED
    BY <2>1, <1>3, FS_AddElement
<1>8. ASSUME NEW o \in DOMAIN R
      PROVE  /\ o < F
             /\ \/ F <= o + R[o].wrote + Padding(R[o].wrote)
                \/ \E q \in DOMAIN R : o < q /\ q <= o + R[o].wrote + Padding(R[o].wrote)
  <2>1. CASE o = fileEnd
    <3>1. R[o].wrote = n
      BY <2>1, <1>4
    <3> QED
      BY <2>1, <3>1, <1>1
  <2>2. CASE o \in Offsets
    <3>1. o < F
      BY <2>2, <1>1, <1>2
    <3>2. \/ fileEnd <= o + R[o].wrote + Padding(R[o].wrote)
          \/ \E q \in Offsets : o < q /\ q <= o + R[o].wrote + Padding(R[o].wrote)
      BY <2>2, <1>5 DEF RowOfRecords, Covers, Offsets
    <3> QED
      BY <2>2, <3>1, <3>2, <1>2, <1>3
  <2> QED
    BY <2>1, <2>2, <1>3
<1>9. Covers(R, F)
  BY <1>7, <1>8 DEF Covers
<1> HIDE DEF R, F
<1>10. DOMAIN R \subseteq Nat
  BY <1>1, <1>2, <1>3
<1> QED
  BY <1>6, <1>9, <1>10 DEF R, F

LEMMA CutKeepsRow ==
    ASSUME NEW R, NEW F \in Nat, NEW e \in Nat, e < F,
           DOMAIN R \subseteq Nat,
           \A o \in DOMAIN R : R[o].wrote \in Nat,
           Covers(R, F)
    PROVE  Covers(CutTo(e, R), e)
<1> DEFINE C == CutTo(e, R)
<1>1. DOMAIN C = {p \in DOMAIN R : p < e} /\ \A o \in DOMAIN C : C[o] = R[o]
  BY DEF CutTo
<1>2. IsFiniteSet(DOMAIN C)
  BY <1>1, FS_Subset DEF Covers
<1>3. 0 \in DOMAIN C \cup {e}
  <2>1. 0 \in DOMAIN R
    BY DEF Covers
  <2> QED
    BY <2>1, <1>1
<1>4. ASSUME NEW o \in DOMAIN C
      PROVE  /\ o < e
             /\ \/ e <= o + C[o].wrote + Padding(C[o].wrote)
                \/ \E q \in DOMAIN C : o < q /\ q <= o + C[o].wrote + Padding(C[o].wrote)
  <2>1. o \in DOMAIN R /\ o \in Nat /\ o < e /\ C[o] = R[o]
    BY <1>1
  <2> DEFINE Z == o + R[o].wrote + Padding(R[o].wrote)
  <2>2. Z \in Nat
    BY <2>1, PaddingBound
  <2>3. F <= Z \/ \E q \in DOMAIN R : o < q /\ q <= Z
    BY <2>1 DEF Covers
  <2>4. e <= Z \/ \E q \in DOMAIN C : o < q /\ q <= Z
    <3> HIDE DEF Z, C
    <3>1. CASE F <= Z
      BY <3>1, <2>2
    <3>2. ASSUME NEW q \in DOMAIN R, o < q, q <= Z
          PROVE  e <= Z \/ \E r \in DOMAIN C : o < r /\ r <= Z
      <4>1. CASE q < e
        BY <3>2, <4>1, <1>1
      <4>2. CASE ~(q < e)
        BY <3>2, <4>2, <2>2
      <4> QED
        BY <4>1, <4>2
    <3> QED
      BY <2>3, <3>1, <3>2
  <2> QED
    BY <2>1, <2>4
<1> QED
  BY <1>2, <1>3, <1>4 DEF Covers

-----------------------------------------------------------------------------
(* Records are only ever written while nothing has been read.              *)
LEMMA WriterKeepsRawIInv ==
    ASSUME RawIInv, NEW n \in Lens, NEW l \in Lens, NEW b \in BOOLEAN, NEW e \in Nat,
           WriteRawData(n, l, b) \/ WriteFails(n, l, b, e) \/ PaddingFails(n, l, b, e)
    PROVE  RawIInv'
<1> USE RawAssumption
<1> DEFINE R == RecordAt(n, l, b)
           F == fileEnd + n + Padding(n)
           Rec == [wrote : Lens, MsgLen : Lens, known : BOOLEAN]
<1>1. rawAt = "recording" /\ rawAt' = "recording" /\ fTempRaw' \in BOOLEAN
  BY DEF WriteRawData, WriteFails, PaddingFails, Recording, RawIInv, RawTypeOK
<1>2. UNCHANGED <<fSampRaw, rawPos, sent, clientVars, listVars>>
  BY DEF WriteRawData, WriteFails, PaddingFails
<1>3. n \in Nat /\ Padding(n) \in 16..31 /\ fileEnd \in Nat /\ F \in Nat
  BY PaddingBound DEF RawIInv, RawTypeOK
<1>4. Covers(R, F) /\ DOMAIN R \subseteq Nat /\ \A o \in DOMAIN R : R[o] \in Rec
  BY AddedKeepsRow DEF RawIInv
<1>5. \/ records' = R /\ fileEnd' = F
      \/ records' = CutTo(e, R) /\ fileEnd' = e /\ e < F
  <2>1. e < fileEnd + n => e < F
    BY <1>3
  <2> QED
    BY <2>1 DEF WriteRawData, WriteFails, PaddingFails
<1>6. /\ RowOfRecords' /\ fileEnd' \in Nat /\ DOMAIN records' \subseteq Nat
      /\ \A o \in DOMAIN records' : records'[o] \in Rec
  <2> HIDE DEF R, F
  <2>1. CASE records' = R /\ fileEnd' = F
    BY <2>1, <1>3, <1>4 DEF RowOfRecords, Covers
  <2>2. CASE records' = CutTo(e, R) /\ fileEnd' = e /\ e < F
    <3>1. Covers(CutTo(e, R), e)
      BY <2>2, <1>3, <1>4, CutKeepsRow
    <3>2. /\ DOMAIN CutTo(e, R) \subseteq DOMAIN R
          /\ \A o \in DOMAIN CutTo(e, R) : CutTo(e, R)[o] = R[o]
      BY DEF CutTo
    <3> QED
      BY <2>2, <3>1, <3>2, <1>4 DEF RowOfRecords, Covers
  <2> QED
    BY <1>5, <2>1, <2>2
<1>7. RawTypeOK'
  BY <1>1, <1>2, <1>6 DEF RawIInv, RawTypeOK, clientVars, listVars
<1>8. ReadersKeepStep'
  <2>1. rawPos' = 0 /\ sent' = NoMessage
    BY <1>1, <1>2 DEF RawIInv, NotYetRead
  <2>2. InStep(0)'
    BY <1>6 DEF RowOfRecords, Covers, InStep
  <2> QED
    BY <2>1, <2>2 DEF ReadersKeepStep
<1> QED
  BY <1>1, <1>2, <1>6, <1>7, <1>8
  DEF RawIInv, NotYetRead, WaitCounted, CountsEachOnce, ListsAll, LastIsNewest,
      clientVars, listVars

(* An intact record shows its own header.                                  *)
LEMMA IntactShows ==
    ASSUME RawTypeOK, NEW p \in Offsets, Intact(p)
    PROVE  /\ HeaderOf(p)
           /\ p \in Nat /\ records[p].wrote \in Nat \ {0} /\ EndOf(p) \in Nat
           /\ p + HeaderLen <= EndOf(p)
<1> USE RawAssumption
<1> DEFINE n == records[p].wrote
<1>1. Offsets \subseteq Nat /\ n \in Nat \ {0}
  BY DEF RawTypeOK, Offsets
<1>2. HeaderLen <= n + Padding(n) /\ Padding(n) \in 16..31
  BY <1>1, PaddedHoldsHeader, PaddingBound
<1>3. EndOf(p) = p + n + Padding(n)
  BY DEF EndOf
<1> HIDE DEF n
<1>4. p \in Nat /\ EndOf(p) \in Nat /\ p + HeaderLen <= EndOf(p)
  BY <1>1, <1>2, <1>3 DEF HeaderLen
<1>5. HeaderOf(p)
  <2> SUFFICES ASSUME NEW q \in Offsets, p < q PROVE p + HeaderLen <= q
    BY DEF HeaderOf, Offsets
  <2>1. EndOf(p) <= q /\ q \in Nat
    BY <1>1 DEF Intact, Offsets
  <2> QED
    BY <2>1, <1>4 DEF HeaderLen
<1> QED
  BY <1>1, <1>4, <1>5 DEF n

(* A reader that is in step at p and finds a whole message there has       *)
(* passed one record and is in step after it, if that record is intact.    *)
LEMMA ReadingKeepsStep ==
    ASSUME RawTypeOK, RowOfRecords, NEW p \in Nat, NEW l \in Lens,
           ShowsLen(p, l), Whole(p, l), IntactBefore(p) => InStep(p)
    PROVE  /\ Beyond(p, l) \in Nat
           /\ IntactBefore(p + 1) => p \in Offsets /\ l = records[p].wrote
           /\ IntactBefore(Beyond(p, l)) =>
                 /\ IntactBefore(p) /\ InStep(Beyond(p, l))
                 /\ p \notin {o \in Offsets : o < p}
                 /\ {o \in Offsets : o < Beyond(p, l)} = {o \in Offsets : o < p} \cup {p}
<1> USE RawAssumption
<1> DEFINE B == Beyond(p, l)
<1>1. fileEnd \in Nat /\ l \in Nat \ {0} /\ Padding(l) \in 16..31 /\ Offsets \subseteq Nat
  BY PaddingBound DEF RawTypeOK, Offsets
<1>2. p < fileEnd /\ p < B /\ B \in Nat
  BY <1>1 DEF ShowsLen, HeaderLen, Beyond
<1>3. IntactBefore(p) => p \in Offsets
  BY <1>1, <1>2 DEF InStep, Offsets
<1>4. ASSUME NEW m \in Nat, p < m, IntactBefore(m)
      PROVE  IntactBefore(p) /\ p \in Offsets /\ Intact(p) /\ l = records[p].wrote
  <2>1. IntactBefore(p)
    BY <1>1, <1>4 DEF IntactBefore, Offsets
  <2>2. p \in Offsets /\ Intact(p)
    BY <2>1, <1>3, <1>4 DEF IntactBefore, Offsets
  <2>3. HeaderOf(p)
    BY <2>2, IntactShows
  <2> QED
    BY <2>1, <2>2, <2>3 DEF ShowsLen, Intact
<1>5. IntactBefore(p + 1) => p \in Offsets /\ l = records[p].wrote
  BY <1>4
<1>6. ASSUME IntactBefore(B)
      PROVE  /\ IntactBefore(p) /\ InStep(B) /\ p \notin {o \in Offsets : o < p}
             /\ {o \in Offsets : o < B} = {o \in Offsets : o < p} \cup {p}
  <2>1. IntactBefore(p) /\ p \in Offsets /\ Intact(p) /\ l = records[p].wrote
    BY <1>2, <1>4, <1>6
  <2>2. EndOf(p) = p + l + Padding(l) /\ EndOf(p) \in Nat
    BY <2>1, <1>1 DEF EndOf
  <2>3. B = IF EndOf(p) <= fileEnd THEN EndOf(p) ELSE fileEnd
    BY <2>2 DEF Beyond
  <2>4. \A q \in Offsets : q \in Nat /\ (p < q => EndOf(p) <= q)
    BY <2>1, <1>1 DEF Intact, Offsets
  <2>5. fileEnd <= EndOf(p) \/ \E q \in Offsets : p < q /\ q <= EndOf(p)
    BY <2>1 DEF RowOfRecords, Covers, EndOf, Offsets
  <2> HIDE DEF B
  <2>6. B \in Offsets \cup {fileEnd}
    <3>1. CASE fileEnd <= EndOf(p)
      BY <3>1, <2>2, <2>3, <1>1
    <3>2. ASSUME NEW q \in Offsets, p < q, q <= EndOf(p), ~(fileEnd <= EndOf(p))
          PROVE  B \in Offsets \cup {fileEnd}
      <4>1. q = EndOf(p)
        BY <3>2, <2>2, <2>4
      <4> QED
        BY <4>1, <3>2, <2>2, <2>3, <1>1
    <3> QED
      BY <2>5, <3>1, <3>2
  <2>7. ASSUME NEW o \in Offsets
        PROVE  o < B <=> o < p \/ o = p
    <3>1. B <= EndOf(p)
      BY <2>2, <2>3, <1>1
    <3> QED
      BY <3>1, <2>2, <2>4, <1>1, <1>2
  <2>8. {o \in Offsets : o < B} = {o \in Offsets : o < p} \cup {p}
    BY <2>7, <2>1
  <2> QED
    BY <2>1, <2>6, <2>8 DEF InStep, Offsets
<1> QED
  BY <1>2, <1>5, <1>6

(* mpclient moves on by one message, goes back to the first, or closes the *)
(* file.                                                                   *)
LEMMA FillingKeepsStep ==
    ASSUME RawIInv, FillsFromFile \/ FillsWithout, UNCHANGED writerVars
    PROVE  /\ rawPos' \in Nat /\ sent' \in [at : Nat, len : Nat]
           /\ fSampRaw' \in BOOLEAN /\ ReadersKeepStep'
<1> USE RawAssumption
<1>1. CASE UNCHANGED rawPos /\ sent' = NoMessage
  <2>1. fSampRaw' \in BOOLEAN
    BY <1>1 DEF FillsFromFile, FillsWithout, RawIInv, RawTypeOK
  <2>2. ReadersKeepStep'
    BY <1>1 DEF writerVars, RawIInv, ReadersKeepStep, InStep, NoMessage,
       IntactBefore, Intact, EndOf
  <2> QED
    BY <1>1, <2>1, <2>2 DEF RawIInv, RawTypeOK, NoMessage
<1>2. ASSUME NEW l \in Lens, ShowsLen(HeaderAt, l), Whole(HeaderAt, l),
             rawPos' = Beyond(HeaderAt, l),
             sent' = [at |-> HeaderAt, len |-> l], UNCHANGED fSampRaw
      PROVE  /\ rawPos' \in Nat /\ sent' \in [at : Nat, len : Nat]
             /\ fSampRaw' \in BOOLEAN /\ ReadersKeepStep'
  <2>1. HeaderAt \in Nat /\ fileEnd \in Nat /\ l \in Nat
    BY DEF HeaderAt, RawIInv, RawTypeOK
  <2>2. IntactBefore(HeaderAt) => InStep(HeaderAt)
    BY DEF HeaderAt, RawIInv, RowOfRecords, Covers, InStep, ReadersKeepStep
  <2>3. /\ Beyond(HeaderAt, l) \in Nat
        /\ IntactBefore(HeaderAt + 1) =>
              HeaderAt \in Offsets /\ l = records[HeaderAt].wrote
        /\ IntactBefore(Beyond(HeaderAt, l)) => InStep(Beyond(HeaderAt, l))
    BY <1>2, <2>1, <2>2, ReadingKeepsStep DEF RawIInv
  <2>4. sent'.at = HeaderAt /\ sent'.len = l
    BY <1>2
  <2>5. UNCHANGED <<records, fileEnd>>
    BY DEF writerVars
  <2>6. ReadersKeepStep'
    BY <1>2, <2>3, <2>4, <2>5
    DEF ReadersKeepStep, IntactBefore, Intact, EndOf, InStep, Offsets
  <2>7. fSampRaw' \in BOOLEAN
    BY <1>2 DEF RawIInv, RawTypeOK
  <2> QED
    BY <1>2, <2>1, <2>3, <2>6, <2>7
<1> QED
  BY <1>1, <1>2 DEF FillsFromFile, FillsWithout

(* What is kept of the positions after a message of fgmp_msg.              *)
LEMMA MotionKeepsNewest ==
    ASSUME RawIInv, (\E t \in Times : AddMotionInfo(t)) \/ UNCHANGED <<mMotionInfo, lastKept>>
    PROVE  LastIsNewest' /\ mMotionInfo' \subseteq Times /\ lastKept' \in Nat
<1> USE RawAssumption
<1>1. mMotionInfo \subseteq Times /\ lastKept \in Nat /\ LastIsNewest
  BY DEF RawIInv, RawTypeOK
<1>2. mMotionInfo # {} => Newest = lastKept
  <2> SUFFICES ASSUME mMotionInfo # {} PROVE Newest = lastKept
    OBVIOUS
  <2>1. lastKept \in mMotionInfo /\ \A u \in mMotionInfo : u <= lastKept
    BY <1>1 DEF LastIsNewest
  <2>2. Newest \in mMotionInfo /\ \A u \in mMotionInfo : u <= Newest
    BY <2>1 DEF Newest
  <2> QED
    BY <1>1, <2>1, <2>2
<1>3. CASE UNCHANGED <<mMotionInfo, lastKept>>
  BY <1>1, <1>3 DEF LastIsNewest
<1>4. ASSUME NEW t \in Times, ~DropsTime(t),
             mMotionInfo' = (IF StartsOver(t) THEN {} ELSE mMotionInfo) \cup {t},
             lastKept' = t
      PROVE  LastIsNewest' /\ mMotionInfo' \subseteq Times /\ lastKept' \in Nat
  <2>1. t \in Nat
    OBVIOUS
  <2>2. CASE StartsOver(t) \/ mMotionInfo = {}
    <3>1. mMotionInfo' = {t}
      BY <1>4, <2>2
    <3> QED
      BY <1>4, <2>1, <3>1 DEF LastIsNewest
  <2>3. CASE ~StartsOver(t) /\ mMotionInfo # {}
    <3>1. lastKept <= t
      BY <1>1, <1>2, <1>4, <2>1, <2>3 DEF DropsTime, StartsOver
    <3>2. \A u \in mMotionInfo : u <= t
      BY <1>1, <2>1, <2>3, <3>1 DEF LastIsNewest
    <3>3. mMotionInfo' = mMotionInfo \cup {t} /\ lastKept' = t
      BY <1>4, <2>3
    <3>4. \A u \in mMotionInfo' : u <= lastKept'
      BY <2>1, <3>2, <3>3
    <3> QED
      BY <1>1, <2>1, <3>3, <3>4 DEF LastIsNewest
  <2> QED
    BY <2>2, <2>3
<1> QED
  BY <1>1, <1>3, <1>4 DEF AddMotionInfo

-----------------------------------------------------------------------------
(* Steps that read nothing.                                                *)
LEMMA UnmovedKeepsRawIInv ==
    ASSUME RawIInv, UNCHANGED <<writerVars, rawPos, sent, listVars>>,
           rawAt' \in {"turn", "wait", "sleep", "list", "exited"},
           rawAt' = "list" => rawAt \in {"recording", "list"},
           fSampRaw' \in BOOLEAN,
           raw_wait_cycles' \in 0..(max_wait_cycles + 1),
           rawAt' = "wait" => raw_wait_cycles' <= max_wait_cycles,
           goesTo' \in {"server", "other"}, strangers' \in 0..MaxStrangers
    PROVE  RawIInv'
<1>1. RawTypeOK'
  BY DEF RawIInv, RawTypeOK, writerVars, listVars
<1>2. RowOfRecords'
  BY DEF RawIInv, RowOfRecords, Covers, writerVars
<1>3. ReadersKeepStep' /\ ListsAll'
  BY DEF RawIInv, ReadersKeepStep, ListsAll, IntactBefore, Intact, EndOf, InStep,
     writerVars
<1>4. CountsEachOnce'
  <2>1. CASE rawAt' = "list" /\ rawAt = "recording"
    <3>1. {o \in DOMAIN records : o < rawPos} = {}
      BY <2>1 DEF RawIInv, RawTypeOK, NotYetRead
    <3> QED
      BY <2>1, <3>1, FS_EmptySet
      DEF RawIInv, NotYetRead, CountsEachOnce, writerVars, listVars
  <2>2. CASE rawAt' = "list" /\ rawAt = "list"
    BY <2>2 DEF RawIInv, CountsEachOnce, IntactBefore, Intact, EndOf, writerVars, listVars
  <2>3. CASE rawAt' # "list"
    BY <2>3 DEF CountsEachOnce
  <2> QED
    BY <2>1, <2>2, <2>3
<1>5. NotYetRead' /\ WaitCounted' /\ LastIsNewest'
  BY DEF RawIInv, NotYetRead, WaitCounted, LastIsNewest, listVars
<1> QED
  BY <1>1, <1>2, <1>3, <1>4, <1>5 DEF RawIInv

LEMMA ClientKeepsRawIInv ==
    ASSUME RawIInv, MpClientSends \/ MpClientSendFails
    PROVE  RawIInv'
<1> USE RawAssumption
<1>1. /\ FillsFromFile \/ FillsWithout
      /\ UNCHANGED <<writerVars, goesTo, strangers, listVars>>
      /\ rawAt' \in {"wait", "exited"}
      /\ raw_wait_cycles' = 0 \/ (rawAt' = "exited" /\ UNCHANGED raw_wait_cycles)
  BY DEF MpClientSends, MpClientSendFails, clientVars
<1>2. /\ rawPos' \in Nat /\ sent' \in [at : Nat, len : Nat]
      /\ fSampRaw' \in BOOLEAN /\ ReadersKeepStep'
  BY <1>1, FillingKeepsStep
<1>3. raw_wait_cycles' \in 0..(max_wait_cycles + 1)
  BY <1>1 DEF RawIInv, RawTypeOK
<1>4. RawTypeOK'
  BY <1>1, <1>2, <1>3 DEF RawIInv, RawTypeOK, writerVars, listVars
<1>5. RowOfRecords'
  BY <1>1 DEF RawIInv, RowOfRecords, Covers, writerVars
<1>6. WaitCounted' /\ NotYetRead' /\ CountsEachOnce' /\ ListsAll' /\ LastIsNewest'
  BY <1>1
  DEF WaitCounted, NotYetRead, CountsEachOnce, ListsAll, LastIsNewest, RawIInv, listVars
<1> QED
  BY <1>2, <1>4, <1>5, <1>6 DEF RawIInv

LEMMA ListKeepsRawIInv ==
    ASSUME RawIInv, ListsMessage
    PROVE  RawIInv'
<1> USE RawAssumption
<1>1. PICK l \in Lens : /\ ShowsLen(rawPos, l) /\ HeaderLen <= l /\ Whole(rawPos, l)
                        /\ rawPos' = Beyond(rawPos, l)
                        /\ sent' = [at |-> rawPos, len |-> l]
  BY DEF ListsMessage
<1>2. /\ rawAt = "list" /\ rawAt' = "list" /\ total_msgs' = total_msgs + 1
      /\ UNCHANGED <<writerVars, fSampRaw, clientVars>>
  BY DEF ListsMessage
<1>3. rawPos \in Nat /\ fileEnd \in Nat /\ l \in Nat /\ total_msgs \in Nat
  BY DEF RawIInv, RawTypeOK
<1>4. rawPos' \in Nat
  BY <1>1, <1>3, PaddingBound DEF Beyond
<1>5. LastIsNewest' /\ mMotionInfo' \subseteq Times /\ lastKept' \in Nat
  BY MotionKeepsNewest DEF ListsMessage
<1>6. RawTypeOK'
  BY <1>1, <1>2, <1>3, <1>4, <1>5 DEF RawIInv, RawTypeOK, writerVars, clientVars
<1>7. RowOfRecords'
  BY <1>2 DEF RawIInv, RowOfRecords, Covers, writerVars
<1>8. /\ IntactBefore(rawPos + 1) => rawPos \in Offsets /\ l = records[rawPos].wrote
      /\ IntactBefore(Beyond(rawPos, l)) =>
            /\ IntactBefore(rawPos) /\ InStep(Beyond(rawPos, l))
            /\ rawPos \notin {o \in Offsets : o < rawPos}
            /\ {o \in Offsets : o < Beyond(rawPos, l)}
                   = {o \in Offsets : o < rawPos} \cup {rawPos}
  BY <1>1, <1>3, ReadingKeepsStep DEF RawIInv, ReadersKeepStep
<1>9. sent'.at = rawPos /\ sent'.len = l
  BY <1>1
<1>10. UNCHANGED <<records, fileEnd>>
  BY <1>2 DEF writerVars
<1>11. ReadersKeepStep'
  BY <1>1, <1>8, <1>9, <1>10
  DEF ReadersKeepStep, IntactBefore, Intact, EndOf, InStep, Offsets
<1>12. CountsEachOnce'
  <2> SUFFICES ASSUME IntactBefore(rawPos')
               PROVE  total_msgs' = Cardinality({o \in Offsets : o < rawPos'})
    BY <1>10 DEF CountsEachOnce, IntactBefore, Intact, EndOf, Offsets
  <2> DEFINE Past == {o \in Offsets : o < rawPos}
  <2>1. IntactBefore(rawPos) /\ rawPos \notin Past
    BY <1>1, <1>8
  <2>2. total_msgs = Cardinality(Past)
    BY <1>2, <2>1 DEF RawIInv, CountsEachOnce, Offsets
  <2>3. IsFiniteSet(Past)
    BY FS_Subset DEF RawIInv, RowOfRecords, Covers, Offsets
  <2>4. Cardinality(Past \cup {rawPos}) = Cardinality(Past) + 1
    BY <2>1, <2>3, FS_AddElement
  <2> QED
    BY <1>1, <1>2, <1>8, <2>2, <2>4
<1>13. ListsAll'
  BY <1>2 DEF ListsAll
<1> QED
  BY <1>2, <1>5, <1>6, <1>7, <1>11, <1>12, <1>13
  DEF RawIInv, NotYetRead, WaitCounted

LEMMA ListEndKeepsRawIInv ==
    ASSUME RawIInv, ListEnds
    PROVE  RawIInv'
<1> USE RawAssumption
<1>1. /\ rawAt = "list" /\ rawAt' = "listed" /\ fSampRaw' = FALSE
      /\ mMotionInfo' = {} /\ lastKept' = 0
      /\ UNCHANGED <<writerVars, rawPos, sent, clientVars, total_msgs>>
  BY DEF ListEnds
<1>2. RawTypeOK'
  BY <1>1 DEF RawIInv, RawTypeOK, writerVars, clientVars
<1>3. RowOfRecords'
  BY <1>1 DEF RawIInv, RowOfRecords, Covers, writerVars
<1>4. ReadersKeepStep' /\ CountsEachOnce'
  BY <1>1 DEF RawIInv, ReadersKeepStep, CountsEachOnce, IntactBefore, Intact,
     EndOf, InStep, writerVars
<1>5. ListsAll'
  <2> SUFFICES ASSUME rawPos \in Offsets, Intact(rawPos), records[rawPos].known,
                      ~(records[rawPos].wrote < HeaderLen)
               PROVE  rawPos + records[rawPos].wrote > fileEnd
    BY <1>1 DEF ListsAll, Intact, EndOf, Offsets, writerVars
  <2>1. HeaderOf(rawPos) /\ rawPos \in Nat /\ records[rawPos].wrote \in Nat
    BY IntactShows DEF RawIInv
  <2>2. fileEnd \in Nat /\ Lens \subseteq Nat
    BY DEF RawIInv, RawTypeOK
  <2>3. CASE rawPos + HeaderLen > fileEnd
    BY <2>1, <2>2, <2>3 DEF HeaderLen
  <2>4. ASSUME NEW l \in Lens, ShowsLen(rawPos, l), ~(HeaderLen <= l /\ Whole(rawPos, l))
        PROVE  rawPos + records[rawPos].wrote > fileEnd
    <3>1. l = records[rawPos].wrote
      BY <2>1, <2>4 DEF ShowsLen, Intact
    <3> QED
      BY <2>1, <2>2, <2>4, <3>1 DEF Whole, HeaderLen
  <2> QED
    BY <2>1, <2>3, <2>4 DEF ListEnds
<1> QED
  BY <1>1, <1>2, <1>3, <1>4, <1>5
  DEF RawIInv, NotYetRead, WaitCounted, LastIsNewest

-----------------------------------------------------------------------------
LEMMA NextKeepsRawIInv == RawIInv /\ [RawNext]_rawVars => RawIInv'
<1> SUFFICES ASSUME RawIInv, [RawNext]_rawVars PROVE RawIInv'
  OBVIOUS
<1> USE RawAssumption
<1> DEFINE Types == /\ fSampRaw \in BOOLEAN /\ strangers \in 0..MaxStrangers
                    /\ raw_wait_cycles \in 0..(max_wait_cycles + 1)
                    /\ goesTo \in {"server", "other"}
<1>0. Types
  BY DEF RawIInv, RawTypeOK
<1>1. ASSUME NEW n \in Lens, NEW l \in Lens, NEW b \in BOOLEAN,
             WriteRawData(n, l, b)
      PROVE  RawIInv'
  BY <1>1, 0 \in Nat, WriterKeepsRawIInv
<1>2. ASSUME NEW n \in Lens, NEW l \in Lens, NEW b \in BOOLEAN, NEW e \in Ends,
             WriteFails(n, l, b, e) \/ PaddingFails(n, l, b, e)
      PROVE  RawIInv'
  <2>1. DOMAIN records \cup {fileEnd} \subseteq Nat
    BY DEF RawIInv, RawTypeOK
  <2>2. e \in Nat
    BY <2>1 DEF Ends
  <2> QED
    BY <1>2, <2>2, WriterKeepsRawIInv
<1>3. ASSUME NEW b \in BOOLEAN, OpensFile("turn", b) \/ OpensFile("list", b)
      PROVE  RawIInv'
  <2>1. rawAt = "recording" /\ rawAt' \in {"turn", "list", "exited"}
    BY <1>3 DEF OpensFile
  <2>2. fSampRaw' \in BOOLEAN /\ UNCHANGED <<writerVars, rawPos, sent, clientVars, listVars>>
    BY <1>3 DEF OpensFile
  <2> QED
    BY <1>0, <2>1, <2>2, UnmovedKeepsRawIInv DEF clientVars
<1>4. CASE MpClientSends \/ MpClientSendFails
  BY <1>4, ClientKeepsRawIInv
<1>5. ASSUME NEW b \in BOOLEAN, MpClientWaits(b)
      PROVE  RawIInv'
  <2>1. rawAt = "wait" /\ raw_wait_cycles \in 0..max_wait_cycles
    BY <1>0, <1>5 DEF MpClientWaits, Waits, RawIInv, WaitCounted
  <2>2. /\ raw_wait_cycles' = raw_wait_cycles + 1
        /\ rawAt' = "wait" => raw_wait_cycles' <= max_wait_cycles
        /\ rawAt' \in {"wait", "sleep"}
    BY <1>5, <2>1 DEF MpClientWaits, Waits, WaitedEnough, TurnsNow
  <2>3. UNCHANGED <<writerVars, fSampRaw, rawPos, sent, goesTo, strangers, listVars>>
    BY <1>5 DEF MpClientWaits
  <2>4. raw_wait_cycles' \in 0..(max_wait_cycles + 1)
    BY <2>1, <2>2
  <2> QED
    BY <1>0, <2>2, <2>3, <2>4, UnmovedKeepsRawIInv
<1>6. CASE MpClientReceives \/ MpClientReceiveFails
  <2>1. rawAt = "wait" /\ raw_wait_cycles \in 0..max_wait_cycles
    BY <1>0, <1>6
    DEF MpClientReceives, MpClientReceiveFails, Waits, RawIInv, WaitCounted
  <2>2. raw_wait_cycles' \in 0..(max_wait_cycles + 1) /\ rawAt' \in {"sleep", "exited"}
    BY <1>6, <2>1 DEF MpClientReceives, MpClientReceiveFails, Waits, TurnsNow
  <2>3. goesTo' \in {"server", "other"} /\ strangers' \in 0..MaxStrangers
    BY <1>0, <1>6 DEF MpClientReceives, MpClientReceiveFails
  <2>4. UNCHANGED <<writerVars, fSampRaw, rawPos, sent, listVars>>
    BY <1>6 DEF MpClientReceives, MpClientReceiveFails
  <2> QED
    BY <1>0, <2>2, <2>3, <2>4, UnmovedKeepsRawIInv
<1>7. CASE MpClientEscape \/ MpClientSleeps
  <2>1. rawAt' \in {"turn", "exited"}
    BY <1>7 DEF MpClientEscape, MpClientSleeps
  <2>2. UNCHANGED <<writerVars, fSampRaw, rawPos, sent, clientVars, listVars>>
    BY <1>7 DEF MpClientEscape, MpClientSleeps
  <2> QED
    BY <1>0, <2>1, <2>2, UnmovedKeepsRawIInv DEF clientVars
<1>8. CASE ListsMessage
  BY <1>8, ListKeepsRawIInv
<1>9. CASE ListEnds
  BY <1>9, ListEndKeepsRawIInv
<1>10. CASE UNCHANGED rawVars
  BY <1>10
  DEF rawVars, RawIInv, RawTypeOK, RowOfRecords, Covers, NotYetRead, WaitCounted,
      ReadersKeepStep, CountsEachOnce, ListsAll, LastIsNewest, InStep,
      IntactBefore, Intact, EndOf
<1> QED
  BY <1>1, <1>2, <1>3, <1>4, <1>5, <1>6, <1>7, <1>8, <1>9, <1>10
  DEF RawNext, MpClientTurns

LEMMA NewestIsLastKept == RawIInv => NewestIsLast
<1> SUFFICES ASSUME RawIInv, mMotionInfo # {} PROVE Newest = lastKept
  BY DEF NewestIsLast
<1> USE RawAssumption
<1>1. mMotionInfo \subseteq Nat
  BY DEF RawIInv, RawTypeOK
<1>2. lastKept \in mMotionInfo /\ \A u \in mMotionInfo : u <= lastKept
  BY DEF RawIInv, LastIsNewest
<1>3. Newest \in mMotionInfo /\ \A u \in mMotionInfo : u <= Newest
  BY <1>2 DEF Newest
<1> QED
  BY <1>1, <1>2, <1>3

(* Up to the first record that lies about its length or was not all        *)
(* written, and however many follow it, a reader of the raw file never     *)
(* takes a part of a record, or parts of two, for a message; fgmp_msg      *)
(* counts each once, leaves out none it should list, keeps no position     *)
(* that is out of order, and mpclient's padding stays within the header    *)
(* it then rewrites.                                                       *)
THEOREM RawInvariant == RawSpec => []RawInv
<1>1. RawInit => RawIInv
  BY InitRawIInv
<1>2. RawIInv /\ [RawNext]_rawVars => RawIInv'
  BY NextKeepsRawIInv
<1>3. RawIInv => RawInv
  BY PaddingAlwaysFits, NewestIsLastKept DEF RawIInv, RawInv
<1> QED
  BY <1>1, <1>2, <1>3, PTL DEF RawSpec

-----------------------------------------------------------------------------
(* The log of udp-recv.                                                    *)

Got == 1..MaxGot

(* Writing to the buffer is writing at the end of the log.                 *)
LEMMA BufferIsTheEnd ==
    ASSUME NEW S, NEW d \in Seq(S), NEW b \in Seq(S), NEW n \in S
    PROVE  d \o Append(b, n) = Append(d \o b, n)
<1>1. <<n>> \in Seq(S) /\ d \o b \in Seq(S)
  BY ConcatProperties
<1>2. Append(b, n) = b \o <<n>>
  BY AppendIsConcat
<1>3. Append(d \o b, n) = (d \o b) \o <<n>>
  BY <1>1, AppendIsConcat
<1>4. d \o (b \o <<n>>) = (d \o b) \o <<n>>
  BY <1>1, ConcatAssociative
<1> QED BY <1>2, <1>3, <1>4

(* Of a buffer of which only a part is written the log keeps the front.    *)
LEMMA FrontIsKept ==
    ASSUME NEW S, NEW d \in Seq(S), NEW b \in Seq(S), NEW k \in 0..Len(b)
    PROVE  /\ d \o SubSeq(b, 1, k) \in Seq(S)
           /\ Len(d \o SubSeq(b, 1, k)) = Len(d) + k
           /\ Len(d) + k <= Len(d \o b)
           /\ \A i \in 1..(Len(d) + k) : (d \o SubSeq(b, 1, k))[i] = (d \o b)[i]
<1>1. Len(d) \in Nat /\ Len(b) \in Nat /\ k \in Nat /\ k <= Len(b)
  BY LenProperties
<1>2. \A i \in 1..k : b[i] \in S
  BY <1>1, ElementOfSeq
<1> DEFINE front == SubSeq(b, 1, k)
<1>3. front \in Seq(S) /\ Len(front) = k /\ \A i \in 1..k : front[i] = b[i]
  <2>1. front \in Seq(S) /\ Len(front) = (IF 1 <= k THEN k - 1 + 1 ELSE 0)
        /\ \A i \in 1..(k - 1 + 1) : front[i] = b[1 + i - 1]
    BY <1>1, <1>2, SubSeqProperties
  <2> QED BY <1>1, <2>1
<1> HIDE DEF front
<1>4. /\ d \o front \in Seq(S) /\ Len(d \o front) = Len(d) + k
      /\ \A i \in 1..(Len(d) + k) :
            (d \o front)[i] = IF i <= Len(d) THEN d[i] ELSE front[i - Len(d)]
  BY <1>3, ConcatProperties
<1>5. /\ Len(d \o b) = Len(d) + Len(b)
      /\ \A i \in 1..(Len(d) + Len(b)) :
            (d \o b)[i] = IF i <= Len(d) THEN d[i] ELSE b[i - Len(d)]
  BY ConcatProperties
<1>6. ASSUME NEW i \in 1..(Len(d) + k) PROVE (d \o front)[i] = (d \o b)[i]
  <2>1. i \in 1..(Len(d) + Len(b))
    BY <1>1
  <2>2. CASE i <= Len(d)
    BY <1>4, <1>5, <2>1, <2>2
  <2>3. CASE ~(i <= Len(d))
    <3>1. i - Len(d) \in 1..k
      BY <1>1, <2>3
    <3>2. front[i - Len(d)] = b[i - Len(d)]
      BY <1>3, <3>1
    <3> QED BY <1>4, <1>5, <2>1, <2>3, <3>2
  <2> QED BY <2>2, <2>3
<1> QED BY <1>1, <1>4, <1>5, <1>6 DEF front

LEMMA RecvTypes ==
    ASSUME RecvInv
    PROVE  /\ got \in Nat /\ MaxGot \in Nat /\ gotBefore \in Nat /\ gotBefore <= got
           /\ logOnDisk \in Seq(Got) /\ logBuffer \in Seq(Got)
           /\ Log \in Seq(Got) /\ Len(Log) \in Nat
           /\ \A i \in 1..Len(Log) : Log[i] \in Nat
<1>1. /\ got \in Nat /\ MaxGot \in Nat /\ gotBefore \in Nat /\ gotBefore <= got
      /\ logOnDisk \in Seq(Got) /\ logBuffer \in Seq(Got)
  BY RecvAssumption DEF RecvInv, RecvTypeOK, LogIsOfThePast, Got
<1>2. Log \in Seq(Got)
  BY <1>1, ConcatProperties DEF Log
<1>3. Len(Log) \in Nat /\ \A i \in 1..Len(Log) : Log[i] \in Got
  BY <1>2, LenProperties, ElementOfSeq
<1>4. Got \subseteq Nat
  BY <1>1 DEF Got
<1> QED BY <1>1, <1>2, <1>3, <1>4

(* From(n) is the sequence of the numbers after n up to got.               *)
Numbers(n, last) == [i \in 1..(last - n) |-> n + i]

LEMMA NumbersAreAll ==
    ASSUME NEW last \in Nat, NEW n \in 0..last
    PROVE  /\ Numbers(n, last) \in Seq(Nat) /\ Len(Numbers(n, last)) = last - n
           /\ \A i \in 1..(last - n) : Numbers(n, last)[i] = n + i
<1>1. n \in Nat /\ last - n \in Nat
  OBVIOUS
<1>2. PICK m \in Nat : m = last - n
  BY <1>1
<1>3. Numbers(n, last) = [i \in 1..m |-> n + i]
  BY <1>2 DEF Numbers
<1>4. Numbers(n, last) \in Seq(Nat) /\ Len(Numbers(n, last)) = m
      /\ \A i \in 1..m : Numbers(n, last)[i] = n + i
  BY <1>1, <1>3
<1> QED BY <1>2, <1>4

LEMMA FromIsTheRest == \A n : From(n) = Numbers(n, got)
BY DEF From, Numbers

LEMMA RecvInitInv == RecvInit => RecvInv
<1> SUFFICES ASSUME RecvInit PROVE RecvInv
  OBVIOUS
<1>1. logOnDisk = <<>> /\ logBuffer = <<>> /\ got = 0
  BY DEF RecvInit
<1>2. <<>> \in Seq(1..MaxGot) /\ <<>> \o <<>> = <<>> /\ Len(<<>>) = 0
  BY EmptySeq, ConcatEmptySeq
<1>3. Log = <<>>
  BY <1>1, <1>2 DEF Log
<1>4. From(0) = <<>>
  <2>1. From(0) \in Seq(Nat) /\ Len(From(0)) = 0
    BY <1>1, FromIsTheRest, NumbersAreAll
  <2> QED BY <2>1, EmptySeq
<1>5. RecvTypeOK
  <2>1. /\ logOnDisk \in Seq(1..MaxGot) /\ logBuffer \in Seq(1..MaxGot)
        /\ recvRuns \in 0..MaxRecvRuns /\ got \in 0..MaxGot /\ gotBefore \in 0..MaxGot
    BY <1>1, <1>2, RecvAssumption DEF RecvInit
  <2> QED BY <2>1 DEF RecvInit, RecvTypeOK
<1> QED
  BY <1>2, <1>3, <1>4, <1>5
  DEF RecvInit, RecvInv, LogInOrder, LogKeepsRuns, LogOfThisRun, LogOutlivesIdleRun,
      BufferOfOpenLog, LogIsOfThePast, AppendingNow

(* What holds of the log alone, d on the disk and b in the buffer.         *)
InOrder(log) == \A i, j \in 1..Len(log) : i < j => log[i] < log[j]

(* The log that is left if the end of it is lost is in order as well.      *)
LEMMA FrontInOrder ==
    ASSUME RecvInv, NEW k \in 0..Len(logBuffer),
           logOnDisk' = logOnDisk \o SubSeq(logBuffer, 1, k) \/ logOnDisk' = <<>>,
           logBuffer' = <<>>
    PROVE  /\ logOnDisk' \in Seq(1..MaxGot) /\ logBuffer' \in Seq(1..MaxGot)
           /\ LogInOrder'
           /\ \A i \in 1..Len(Log') : Log'[i] <= got
<1>1. /\ logOnDisk \in Seq(Got) /\ logBuffer \in Seq(Got) /\ Log \in Seq(Got)
      /\ Len(Log) \in Nat
  BY RecvTypes
<1>2. <<>> \in Seq(Got) /\ Len(<<>>) = 0
  BY EmptySeq
<1>3. CASE logOnDisk' = <<>>
  <2>1. Log' = <<>>
    BY <1>2, <1>3, ConcatEmptySeq DEF Log
  <2> QED BY <1>2, <1>3, <2>1 DEF LogInOrder, Got
<1>4. CASE logOnDisk' = logOnDisk \o SubSeq(logBuffer, 1, k)
  <2>1. /\ logOnDisk' \in Seq(Got) /\ Len(logOnDisk') = Len(logOnDisk) + k
        /\ Len(logOnDisk) + k <= Len(Log)
        /\ \A i \in 1..(Len(logOnDisk) + k) : logOnDisk'[i] = Log[i]
    BY <1>1, <1>4, FrontIsKept DEF Log
  <2>2. Log' = logOnDisk'
    BY <2>1, ConcatEmptySeq DEF Log
  <2>3. Len(Log') \in Nat /\ Len(Log') <= Len(Log)
        /\ \A i \in 1..Len(Log') : Log'[i] = Log[i]
    BY <2>1, <2>2, LenProperties
  <2>4. LogInOrder'
    <3> SUFFICES ASSUME NEW i \in 1..Len(Log'), NEW j \in 1..Len(Log'), i < j
                 PROVE  Log'[i] < Log'[j]
      BY DEF LogInOrder
    <3>1. i \in 1..Len(Log) /\ j \in 1..Len(Log)
      BY <1>1, <2>3
    <3> QED BY <2>3, <3>1 DEF RecvInv, LogInOrder
  <2>5. \A i \in 1..Len(Log') : Log'[i] <= got
    <3> SUFFICES ASSUME NEW i \in 1..Len(Log') PROVE Log'[i] <= got
      OBVIOUS
    <3>1. i \in 1..Len(Log)
      BY <1>1, <2>3
    <3> QED BY <2>3, <3>1 DEF RecvInv, LogIsOfThePast
  <2> QED BY <1>2, <2>1, <2>4, <2>5 DEF Got
<1> QED BY <1>3, <1>4

(* The program leaves the log as it is, or returns, which writes it out.   *)
LEMMA LogStays ==
    ASSUME RecvInv,
           \/ UNCHANGED <<logOnDisk, logBuffer>>
           \/ logOnDisk' = logOnDisk \o logBuffer /\ logBuffer' = <<>>
    PROVE  /\ Log' = Log
           /\ logOnDisk' \in Seq(1..MaxGot) /\ logBuffer' \in Seq(1..MaxGot)
<1>1. logOnDisk \in Seq(Got) /\ logBuffer \in Seq(Got) /\ Log \in Seq(Got)
  BY RecvTypes
<1>2. CASE UNCHANGED <<logOnDisk, logBuffer>>
  BY <1>1, <1>2 DEF Log, Got
<1>3. CASE logOnDisk' = logOnDisk \o logBuffer /\ logBuffer' = <<>>
  <2>1. logOnDisk' = Log
    BY <1>3 DEF Log
  <2>2. Log' = Log
    BY <1>1, <1>3, <2>1, ConcatEmptySeq DEF Log
  <2> QED BY <1>1, <1>3, <2>1, <2>2, EmptySeq DEF Got
<1> QED BY <1>2, <1>3

(* Steps that write nothing to the log.                                    *)
LEMMA RecvQuiet ==
    ASSUME RecvInv, RecvRuns \/ RecvStarts \/ RecvStops \/ RecvEchoes
    PROVE  RecvInv'
<1>1. /\ \/ UNCHANGED <<logOnDisk, logBuffer>> /\ (recvAt' = "over" => recvAt = "over")
         \/ logOnDisk' = logOnDisk \o logBuffer /\ logBuffer' = <<>> /\ recvAt' = "over"
      /\ UNCHANGED <<got, gotBefore, logHarmed>>
  BY DEF RecvRuns, RecvStarts, RecvStops, RecvReturns, RecvEchoes, recvHistory
<1>2. /\ Log' = Log
      /\ logOnDisk' \in Seq(1..MaxGot) /\ logBuffer' \in Seq(1..MaxGot)
  BY <1>1, LogStays
<1>3. From(0)' = From(0) /\ From(gotBefore)' = From(gotBefore)
  BY <1>1 DEF From
<1>4. \/ UNCHANGED <<msg_file, append_to_log, appending>> /\ recvAt # "over"
      \/ /\ msg_file' = "NULL" /\ recvAt = "over" /\ recvAt' = "start"
         /\ append_to_log' \in BOOLEAN /\ appending' = (appending /\ append_to_log')
  BY DEF RecvRuns, RecvStarts, RecvStops, RecvReturns, RecvEchoes, recvHistory
<1>5. RecvTypeOK' /\ (recvAt' = "echo" => got > 0)
  <2>1. recvAt' \in {"start", "recv", "echo", "over"} /\ (recvAt' = "echo" => recvAt = "echo")
        /\ {echo_received_data', append_to_log', appending'} \subseteq BOOLEAN
        /\ recvRuns' \in 0..MaxRecvRuns
    <3>1. CASE RecvRuns
      BY <3>1, RecvAssumption DEF RecvRuns, RecvInv, RecvTypeOK
    <3>2. CASE RecvStarts \/ RecvStops \/ RecvEchoes
      BY <3>2 DEF RecvStarts, RecvStops, RecvReturns, RecvEchoes, recvHistory, RecvInv,
         RecvTypeOK
    <3> QED BY <3>1, <3>2
  <2>2. echoed' \subseteq 1..got
    <3>1. CASE RecvEchoes
      <4>1. echoed' \subseteq echoed \cup {got} /\ got > 0 /\ got \in Nat
        BY <3>1, RecvTypes DEF RecvEchoes, RecvInv, LogIsOfThePast
      <4>2. got \in 1..got
        BY <4>1
      <4> QED BY <4>1, <4>2 DEF RecvInv, RecvTypeOK
    <3>2. CASE ~RecvEchoes
      BY <3>2 DEF RecvRuns, RecvStarts, RecvStops, RecvInv, RecvTypeOK
    <3> QED BY <3>1, <3>2
  <2> QED
    BY <1>1, <1>2, <1>4, <2>1, <2>2 DEF RecvInv, RecvTypeOK, LogIsOfThePast
<1>6. LogInOrder' /\ LogIsOfThePast'
  BY <1>1, <1>2, <1>4, <1>5 DEF RecvInv, LogInOrder, LogIsOfThePast
<1>7. LogKeepsRuns' /\ LogOfThisRun'
  <2>1. appending' => appending
    BY <1>4
  <2>2. msg_file' = "open" => UNCHANGED <<msg_file, append_to_log>>
    BY <1>4
  <2>3. UNCHANGED <<logHarmed, gotBefore, Log>> /\ From(0)' = From(0)
        /\ From(gotBefore)' = From(gotBefore)
    BY <1>1, <1>2, <1>3
  <2> QED BY <2>1, <2>2, <2>3 DEF RecvInv, LogKeepsRuns, LogOfThisRun
<1>8. LogOutlivesIdleRun'
  <2>1. CASE ~logHarmed /\ got # 0
    <3>1. msg_file # "failed"
      BY <2>1 DEF RecvInv, BufferOfOpenLog
    <3>2. Log # <<>>
      BY <2>1, <3>1 DEF RecvInv, RecvTypeOK, LogOutlivesIdleRun, LogIsOfThePast
    <3> QED BY <1>2, <3>2 DEF LogOutlivesIdleRun
  <2> QED BY <1>1, <2>1 DEF LogOutlivesIdleRun
<1>9. BufferOfOpenLog'
  BY <1>1, <1>4 DEF RecvInv, BufferOfOpenLog
<1>10. AppendingNow'
  BY <1>4 DEF RecvInv, AppendingNow
<1> QED BY <1>5, <1>6, <1>7, <1>8, <1>9, <1>10 DEF RecvInv

(* A signal: what was in the buffer may be lost.                           *)
LEMMA RecvKilledInv ==
    ASSUME RecvInv, RecvKilled
    PROVE  RecvInv'
<1>1. PICK n \in 0..Len(logBuffer) : logOnDisk' = logOnDisk \o SubSeq(logBuffer, 1, n)
  BY DEF RecvKilled
<1>2. /\ recvAt' = "over" /\ logBuffer' = <<>> /\ logHarmed' = TRUE
      /\ UNCHANGED <<echo_received_data, append_to_log, msg_file, got, echoed,
                     recvRuns, gotBefore, appending>>
  BY DEF RecvKilled
<1>3. /\ logOnDisk' \in Seq(1..MaxGot) /\ logBuffer' \in Seq(1..MaxGot)
      /\ LogInOrder' /\ \A i \in 1..Len(Log') : Log'[i] <= got
  BY <1>1, <1>2, FrontInOrder
<1>4. RecvTypeOK'
  BY <1>2, <1>3 DEF RecvInv, RecvTypeOK
<1>5. LogIsOfThePast' /\ BufferOfOpenLog' /\ AppendingNow'
  BY <1>2, <1>3 DEF RecvInv, LogIsOfThePast, BufferOfOpenLog, AppendingNow
<1>6. LogKeepsRuns' /\ LogOfThisRun' /\ LogOutlivesIdleRun'
  BY <1>2 DEF LogKeepsRuns, LogOfThisRun, LogOutlivesIdleRun
<1> QED BY <1>3, <1>4, <1>5, <1>6 DEF RecvInv

(* The log grows by the datagram received; old is what it held before.     *)
LEMMA LogGrows ==
    ASSUME RecvInv, got < MaxGot, got' = got + 1,
           NEW old, old = Log \/ old = <<>>, Log' = Append(old, got + 1)
    PROVE  /\ Log' \in Seq(Got) /\ Log' # <<>>
           /\ LogInOrder'
           /\ \A i \in 1..Len(Log') : Log'[i] <= got'
           /\ \A n \in 0..got : old = From(n) => Log' = From(n)'
<1>1. /\ got \in Nat /\ MaxGot \in Nat /\ Log \in Seq(Got)
      /\ \A i \in 1..Len(Log) : Log[i] \in Nat
  BY RecvTypes
<1>2. old \in Seq(Got) /\ Len(old) \in Nat /\ got + 1 \in Got
  <2>1. got + 1 \in Got
    BY <1>1 DEF Got
  <2>2. old \in Seq(Got)
    BY <1>1, EmptySeq
  <2> QED BY <2>1, <2>2, LenProperties
<1>3. /\ Log' \in Seq(Got) /\ Log' # <<>> /\ Len(Log') = Len(old) + 1
      /\ \A i \in 1..Len(old) : Log'[i] = old[i]
      /\ Log'[Len(old) + 1] = got + 1
  BY <1>2, AppendProperties
<1>4. /\ \A i \in 1..Len(old) : old[i] \in Nat /\ old[i] <= got
      /\ \A i, j \in 1..Len(old) : i < j => old[i] < old[j]
  <2>1. CASE old = Log
    BY <1>1, <2>1 DEF RecvInv, LogIsOfThePast, LogInOrder
  <2>2. CASE old = <<>>
    BY <2>2, EmptySeq
  <2> QED BY <2>1, <2>2
<1>5. LogInOrder'
  <2> SUFFICES ASSUME NEW i \in 1..Len(Log'), NEW j \in 1..Len(Log'), i < j
               PROVE  Log'[i] < Log'[j]
    BY DEF LogInOrder
  <2>1. i \in 1..Len(old) /\ (j \in 1..Len(old) \/ j = Len(old) + 1)
    BY <1>2, <1>3
  <2>2. CASE j \in 1..Len(old)
    BY <1>3, <1>4, <2>1, <2>2
  <2>3. CASE j = Len(old) + 1
    <3>1. Log'[i] \in Nat /\ Log'[i] <= got /\ Log'[j] = got + 1
      BY <1>3, <1>4, <2>1, <2>3
    <3> QED BY <1>1, <3>1
  <2> QED BY <2>1, <2>2, <2>3
<1>6. ASSUME NEW i \in 1..Len(Log') PROVE Log'[i] <= got'
  <2>1. i \in 1..Len(old) \/ i = Len(old) + 1
    BY <1>2, <1>3
  <2>2. CASE i \in 1..Len(old)
    <3>1. Log'[i] \in Nat /\ Log'[i] <= got
      BY <1>3, <1>4, <2>2
    <3> QED BY <1>1, <3>1
  <2>3. CASE i = Len(old) + 1
    BY <1>1, <1>3, <2>3
  <2> QED BY <2>1, <2>2, <2>3
<1>7. ASSUME NEW n \in 0..got, old = From(n) PROVE Log' = From(n)'
  <2>1. /\ Len(old) = got - n /\ \A i \in 1..(got - n) : old[i] = n + i
    BY <1>1, <1>7, FromIsTheRest, NumbersAreAll
  <2>2. PICK last \in Nat : last = got + 1
    BY <1>1
  <2>3. n \in Nat /\ n \in 0..last
    BY <1>1, <2>2
  <2>4. From(n)' = Numbers(n, last)
    <3>1. From(n)' = Numbers(n, got')
      BY DEF From, Numbers
    <3> QED BY <2>2, <3>1
  <2>5. /\ Numbers(n, last) \in Seq(Nat) /\ Len(Numbers(n, last)) = last - n
        /\ \A i \in 1..(last - n) : Numbers(n, last)[i] = n + i
    BY <2>3, NumbersAreAll
  <2>6. Len(Log') = last - n
    BY <1>1, <1>3, <2>1, <2>2, <2>3
  <2>6a. ASSUME NEW i \in 1..(last - n) PROVE Log'[i] = n + i
    <3>1. CASE i \in 1..(got - n)
      BY <1>3, <2>1, <3>1
    <3>2. CASE i = got - n + 1
      <4>1. Log'[i] = got + 1
        BY <1>3, <2>1, <3>2
      <4>2. n + i = got + 1
        BY <1>1, <2>3, <3>2
      <4> QED BY <4>1, <4>2
    <3>3. i \in 1..(got - n) \/ i = got - n + 1
      BY <1>1, <2>2, <2>3
    <3> QED BY <3>1, <3>2, <3>3
  <2>7. Got \subseteq Nat
    BY <1>1 DEF Got
  <2>8. Log' \in Seq(Nat)
    BY <1>3, <2>7, SeqMonotonic
  <2>9. Log' = Numbers(n, last)
    BY <2>5, <2>6, <2>6a, <2>8, SeqEqual
  <2> QED BY <2>4, <2>9
<1> QED BY <1>3, <1>5, <1>6, <1>7

LEMMA RecvReceivesInv ==
    ASSUME RecvInv, RecvReceives
    PROVE  RecvInv'
<1>1. /\ recvAt = "recv" /\ got < MaxGot /\ got' = got + 1 /\ LogWrites(got + 1)
      /\ recvAt' \in {"echo", "recv"}
      /\ UNCHANGED <<echo_received_data, append_to_log, echoed, recvRuns, appending>>
  BY DEF RecvReceives
<1>2. /\ got \in Nat /\ MaxGot \in Nat /\ gotBefore \in Nat /\ gotBefore <= got
      /\ logOnDisk \in Seq(Got) /\ logBuffer \in Seq(Got) /\ Log \in Seq(Got)
  BY RecvTypes
<1>3. got + 1 \in Got /\ got' \in 0..MaxGot /\ got' > 0 /\ <<>> \in Seq(Got)
  BY <1>1, <1>2, EmptySeq DEF Got
<1>4. appending => append_to_log
  BY <1>1 DEF RecvInv, AppendingNow
<1>5. echoed' \subseteq 1..got'
  <2>1. 1..got \subseteq 1..got'
    BY <1>1, <1>2
  <2> QED BY <1>1, <2>1 DEF RecvInv, RecvTypeOK
<1>6. CASE /\ msg_file # "failed"
           /\ msg_file' = "open"
           /\ logOnDisk' = IF msg_file = "NULL" THEN Opened ELSE logOnDisk
           /\ logBuffer' = Append(logBuffer, got + 1)
           /\ gotBefore' = IF msg_file = "NULL" THEN got ELSE gotBefore
           /\ UNCHANGED logHarmed
  <2>1. (logOnDisk' = logOnDisk \/ logOnDisk' = <<>>) /\ logOnDisk' \in Seq(Got)
    BY <1>2, <1>3, <1>6 DEF Opened
  <2>2. msg_file = "NULL" => logBuffer = <<>>
    BY DEF RecvInv, BufferOfOpenLog
  <2> DEFINE old == logOnDisk' \o logBuffer
  <2>3. Log' = Append(old, got + 1) /\ logBuffer' \in Seq(Got)
    <3>1. logBuffer' = Append(logBuffer, got + 1)
      BY <1>6
    <3>2. Append(logBuffer, got + 1) \in Seq(Got)
      BY <1>2, <1>3, AppendProperties
    <3>3. logOnDisk' \o Append(logBuffer, got + 1) = Append(old, got + 1)
      BY <1>2, <1>3, <2>1, BufferIsTheEnd
    <3> QED BY <3>1, <3>2, <3>3 DEF Log
  <2>4. /\ logOnDisk' = logOnDisk => old = Log
        /\ logOnDisk' # logOnDisk => old = <<>>
    <3>1. CASE logOnDisk' = logOnDisk
      BY <3>1 DEF Log
    <3>2. CASE logOnDisk' # logOnDisk
      <4>1. logOnDisk' = <<>> /\ logBuffer = <<>>
        BY <1>6, <2>1, <2>2, <3>2
      <4> QED BY <3>2, <4>1, <1>3, ConcatEmptySeq
    <3> QED BY <3>1, <3>2
  <2> HIDE DEF old
  <2>5. /\ Log' \in Seq(Got) /\ Log' # <<>> /\ LogInOrder'
        /\ \A i \in 1..Len(Log') : Log'[i] <= got'
        /\ \A n \in 0..got : old = From(n) => Log' = From(n)'
    BY <1>1, <2>3, <2>4, LogGrows
  <2>6. gotBefore' \in 0..MaxGot /\ gotBefore' <= got' /\ gotBefore' \in 0..got
    BY <1>1, <1>2, <1>6
  <2>7. RecvTypeOK'
    BY <1>1, <1>3, <1>5, <1>6, <2>1, <2>3, <2>6 DEF RecvInv, RecvTypeOK, Got
  <2>8. LogKeepsRuns'
    <3> SUFFICES ASSUME appending, ~logHarmed PROVE Log' = From(0)'
      BY <1>1, <1>6 DEF LogKeepsRuns
    <3>1. logOnDisk' = logOnDisk
      BY <1>4, <1>6 DEF Opened
    <3>2. old = From(0)
      BY <2>4, <3>1 DEF RecvInv, LogKeepsRuns
    <3> QED BY <1>2, <2>5, <3>2
  <2>9. LogOfThisRun'
    <3> SUFFICES ASSUME ~append_to_log, ~logHarmed PROVE Log' = From(gotBefore)'
      BY <1>1, <1>6 DEF LogOfThisRun
    <3>1. PICK g \in 0..got : g = gotBefore'
      BY <2>6
    <3>2. From(gotBefore)' = From(g)'
      BY <3>1 DEF From
    <3>3. CASE msg_file = "NULL"
      <4>1. logOnDisk' = <<>> /\ logBuffer = <<>> /\ g = got
        BY <1>6, <2>2, <3>1, <3>3 DEF Opened
      <4>2. old = <<>>
        BY <1>3, <4>1, ConcatEmptySeq DEF old
      <4>3. From(got) \in Seq(Nat) /\ Len(From(got)) = 0
        <5>1. got \in 0..got /\ got - got = 0
          BY <1>2
        <5>2. Len(Numbers(got, got)) = got - got /\ Numbers(got, got) \in Seq(Nat)
          BY <1>2, <5>1, NumbersAreAll
        <5> QED BY <5>1, <5>2, FromIsTheRest
      <4>4. From(got) = <<>>
        BY <4>3, EmptySeq
      <4>5. old = From(g)
        BY <4>1, <4>2, <4>4
      <4> QED BY <2>5, <3>2, <4>5
    <3>4. CASE msg_file = "open"
      <4>1. old = Log /\ g = gotBefore
        BY <1>6, <2>4, <3>1, <3>4
      <4>2. Log = From(gotBefore)
        BY <3>4 DEF RecvInv, LogOfThisRun
      <4>3. old = From(g)
        BY <4>1, <4>2
      <4> QED BY <2>5, <3>2, <4>3
    <3>5. msg_file \in {"NULL", "open"}
      BY <1>6 DEF RecvInv, RecvTypeOK
    <3> QED BY <3>3, <3>4, <3>5
  <2>10. /\ LogOutlivesIdleRun' /\ BufferOfOpenLog' /\ LogIsOfThePast' /\ AppendingNow'
    BY <1>1, <1>3, <1>4, <1>6, <2>5, <2>6
    DEF LogOutlivesIdleRun, BufferOfOpenLog, LogIsOfThePast, AppendingNow
  <2> QED BY <2>5, <2>7, <2>8, <2>9, <2>10 DEF RecvInv
<1>7. CASE /\ msg_file' = "failed" /\ logHarmed' = TRUE
           /\ \E k \in 0..Len(logBuffer), old \in (IF msg_file = "NULL"
                                                 THEN {logOnDisk, Opened}
                                                 ELSE {logOnDisk}) :
                 logOnDisk' = old \o SubSeq(logBuffer, 1, k)
           /\ logBuffer' = <<>> /\ UNCHANGED gotBefore
  <2>1. PICK k \in 0..Len(logBuffer), old \in {logOnDisk, <<>>} :
            /\ logOnDisk' = old \o SubSeq(logBuffer, 1, k)
            /\ old # logOnDisk => msg_file = "NULL"
    BY <1>7 DEF Opened
  <2>2. logOnDisk' = logOnDisk \o SubSeq(logBuffer, 1, k) \/ logOnDisk' = <<>>
    <3>1. CASE old = logOnDisk
      BY <2>1, <3>1
    <3>2. CASE old # logOnDisk
      <4>1. logBuffer = <<>> /\ old = <<>>
        BY <2>1, <3>2 DEF RecvInv, BufferOfOpenLog
      <4>2. k = 0
        BY <4>1, EmptySeq
      <4>3. SubSeq(logBuffer, 1, k) = <<>>
        BY <4>2, SubSeqEmpty
      <4> QED BY <1>3, <2>1, <4>1, <4>3, ConcatEmptySeq
    <3> QED BY <3>1, <3>2
  <2>3. /\ logOnDisk' \in Seq(1..MaxGot) /\ logBuffer' \in Seq(1..MaxGot)
        /\ LogInOrder' /\ \A i \in 1..Len(Log') : Log'[i] <= got
    BY <1>7, <2>2, FrontInOrder
  <2>4. \A i \in 1..Len(Log') : Log'[i] <= got'
    <3> SUFFICES ASSUME NEW i \in 1..Len(Log') PROVE Log'[i] <= got'
      OBVIOUS
    <3>1. Log' \in Seq(Got)
      BY <2>3, ConcatProperties DEF Log, Got
    <3>2. Log'[i] \in Nat /\ Log'[i] <= got
      BY <1>2, <2>3, <3>1, ElementOfSeq DEF Got
    <3> QED BY <1>1, <1>2, <3>2
  <2>5. RecvTypeOK'
    BY <1>1, <1>3, <1>5, <1>7, <2>3 DEF RecvInv, RecvTypeOK
  <2>6. LogIsOfThePast'
    BY <1>1, <1>2, <1>3, <1>7, <2>4 DEF LogIsOfThePast
  <2>7. /\ LogKeepsRuns' /\ LogOfThisRun' /\ LogOutlivesIdleRun' /\ BufferOfOpenLog'
        /\ AppendingNow'
    BY <1>1, <1>4, <1>7 DEF LogKeepsRuns, LogOfThisRun, LogOutlivesIdleRun, BufferOfOpenLog,
       AppendingNow
  <2> QED BY <2>3, <2>5, <2>6, <2>7 DEF RecvInv
<1> QED BY <1>1, <1>6, <1>7 DEF LogWrites

LEMMA RecvStepInv == RecvInv /\ [RecvNext]_recvVars => RecvInv'
<1> SUFFICES ASSUME RecvInv, [RecvNext]_recvVars PROVE RecvInv'
  OBVIOUS
<1>1. CASE UNCHANGED recvVars
  BY <1>1 DEF recvVars, RecvInv, RecvTypeOK, LogInOrder, LogKeepsRuns, LogOfThisRun,
     LogOutlivesIdleRun, BufferOfOpenLog, LogIsOfThePast, AppendingNow, Log, From
<1>2. CASE RecvNext
  BY <1>2, RecvQuiet, RecvKilledInv, RecvReceivesInv DEF RecvNext
<1> QED BY <1>1, <1>2

(* The log of udp-recv, over however many runs, killed or not, and however *)
(* writing fails: in the order received, whole if every run appended, and  *)
(* that of the last run which received something if it did not.            *)
THEOREM LogOfUdpRecv == RecvSpec => []RecvInv
BY RecvInitInv, RecvStepInv, PTL DEF RecvSpec

-----------------------------------------------------------------------------
(* mpserver: property lists.                                               *)

LEMMA NumbersHaveLeast ==
    ASSUME NEW S \in SUBSET Nat, S # {}
    PROVE  \E x \in S : \A y \in S : x <= y
<1> DEFINE R == {ss \in Nat \X Nat : ss[1] < ss[2]}
<1>1. IsWellFoundedOn(R, Nat)
  BY NatLessThanWellFounded DEF OpToRel
<1> HIDE DEF R
<1>2. PICK x \in S : \A y \in S : ~(<<y, x>> \in R)
  BY <1>1, WFMin
<1>3. \A y \in S : ~(y < x)
  BY <1>2 DEF R
<1> QED BY <1>2, <1>3

(* A walk over n places, from each to the next one after it: all of the    *)
(* places it comes to are in P.                                            *)
Walks(n, next, P, all) ==
    all = [j \in 1..n |-> j \in P /\ (next[j] <= n => all[next[j]])]

(* There is one, whatever the places and their successors are: j begins a  *)
(* walk that passes if it is in a part of P that no step leads out of.     *)
LEMMA SomeWalk ==
    ASSUME NEW n \in Nat, NEW next \in [1..n -> Nat \ {0}], NEW P
    PROVE  \E all : Walks(n, next, P, all)
<1> DEFINE Inside(S) == S \subseteq P \cap 1..n
                        /\ \A x \in S : next[x] <= n => next[x] \in S
           all == [j \in 1..n |-> \E S \in SUBSET (1..n) : Inside(S) /\ j \in S]
<1>1. ASSUME NEW j \in 1..n
      PROVE  all[j] <=> j \in P /\ (next[j] <= n => all[next[j]])
  <2>1. next[j] <= n => next[j] \in 1..n
    OBVIOUS
  <2>2. ASSUME all[j] PROVE j \in P /\ (next[j] <= n => all[next[j]])
    <3>1. PICK S \in SUBSET (1..n) : Inside(S) /\ j \in S
      BY <2>2
    <3>2. j \in P /\ (next[j] <= n => next[j] \in S)
      BY <3>1
    <3> QED BY <2>1, <3>1, <3>2
  <2>3. ASSUME j \in P, next[j] <= n => all[next[j]] PROVE all[j]
    <3>1. CASE next[j] <= n
      <4>1. PICK S \in SUBSET (1..n) : Inside(S) /\ next[j] \in S
        BY <2>1, <2>3, <3>1
      <4>2. Inside(S \cup {j}) /\ S \cup {j} \in SUBSET (1..n)
        BY <2>3, <4>1
      <4> QED BY <4>2
    <3>2. CASE ~(next[j] <= n)
      <4>1. Inside({j}) /\ {j} \in SUBSET (1..n)
        BY <2>3, <3>2
      <4> QED BY <4>1
    <3> QED BY <3>1, <3>2
  <2> QED BY <2>2, <2>3
<1>2. all = [j \in 1..n |-> j \in P /\ (next[j] <= n => all[next[j]])]
  <2>1. \A j \in 1..n : all[j] = (j \in P /\ (next[j] <= n => all[next[j]]))
    <3> SUFFICES ASSUME NEW j \in 1..n
                 PROVE  all[j] = (j \in P /\ (next[j] <= n => all[next[j]]))
      OBVIOUS
    <3>1. all[j] \in BOOLEAN
      BY Zenon
    <3> HIDE DEF all
    <3> QED BY <1>1, <3>1
  <2>2. all = [j \in 1..n |-> all[j]]
    OBVIOUS
  <2> HIDE DEF all
  <2> QED BY <2>1, <2>2
<1> HIDE DEF all
<1> QED BY <1>2 DEF Walks

(* If it only goes forward, a walk that passes a harder test passes an     *)
(* easier one: there would be a last place where it did not.               *)
LEMMA HarderWalk ==
    ASSUME NEW n \in Nat, NEW next \in [1..n -> Nat \ {0}],
           \A j \in 1..n : j < next[j],
           NEW P, NEW Q, P \subseteq Q,
           NEW all, NEW more, Walks(n, next, P, all), Walks(n, next, Q, more),
           NEW i \in 1..n, all[i]
    PROVE  more[i]
<1>1. /\ \A j \in 1..n : all[j] <=> j \in P /\ (next[j] <= n => all[next[j]])
      /\ \A j \in 1..n : more[j] <=> j \in Q /\ (next[j] <= n => more[next[j]])
  BY DEF Walks
<1> SUFFICES ASSUME ~more[i] PROVE FALSE
  OBVIOUS
<1> DEFINE Bad  == {j \in 1..n : all[j] /\ ~more[j]}
           Left == {n - j : j \in Bad}
<1>2. Left \in SUBSET Nat /\ n - i \in Left
  OBVIOUS
<1>3. PICK x \in Left : \A y \in Left : x <= y
  <2> HIDE DEF Left
  <2> QED BY <1>2, NumbersHaveLeast
<1>4. PICK j \in Bad : x = n - j
  BY <1>3
<1>5. j \in 1..n /\ all[j] /\ ~more[j]
  BY <1>4
<1>6. next[j] <= n /\ all[next[j]] /\ ~more[next[j]]
  BY <1>1, <1>5
<1>7. next[j] \in 1..n /\ j < next[j]
  BY <1>5, <1>6
<1>8. next[j] \in Bad
  BY <1>6, <1>7
<1>9. x <= n - next[j]
  BY <1>3, <1>8
<1> QED BY <1>4, <1>5, <1>7, <1>9

(* A property ends after it began.                                         *)
LEMMA PropertyEnds ==
    ASSUME NEW words \in Seq(Nat), NEW j \in 1..Len(words)
    PROVE  AfterProperty(words, j) \in Nat \ {0} /\ j < AfterProperty(words, j)
<1>1. j \in Nat /\ Len(words) \in Nat
  BY LenProperties
<1>2. j < Len(words) => words[j + 1] \in Nat
  <2>1. j < Len(words) => j + 1 \in 1..Len(words)
    BY <1>1
  <2> QED BY <2>1, ElementOfSeq
<1>3. ASSUME NEW m \in Nat PROVE StringWords(m) \in Nat
  <2>1. MAX_TEXT_SIZE \in Nat
    BY MpAssumption DEF MpAssumption
  <2>2. PICK k \in Nat : k = IF m > MAX_TEXT_SIZE THEN MAX_TEXT_SIZE ELSE m
    BY <2>1
  <2>3. StringWords(m) = ((k + 3) \div 4) * 4
    BY <2>2 DEF StringWords
  <2>4. (k + 3) \div 4 \in Nat
    OBVIOUS
  <2> QED BY <2>3, <2>4
<1>4. CASE FindProperty(words[j]) = "string" /\ j < Len(words)
  <2>1. AfterProperty(words, j) = j + 2 + StringWords(words[j + 1])
    BY <1>4 DEF AfterProperty
  <2>2. StringWords(words[j + 1]) \in Nat
    BY <1>2, <1>3, <1>4
  <2> QED BY <1>1, <2>1, <2>2
<1>5. CASE ~(FindProperty(words[j]) = "string" /\ j < Len(words))
  <2>1. AfterProperty(words, j) = j + 2 \/ AfterProperty(words, j) = j + 2 + 0
    BY <1>5 DEF AfterProperty
  <2> QED BY <1>1, <2>1
<1> QED BY <1>4, <1>5

Verifying(words) ==
    CHOOSE all : all = [j \in 1..Len(words) |->
        /\ KnownAt(words, j) /\ SoundAt(words, j)
        /\ AfterProperty(words, j) <= Len(words) => all[AfterProperty(words, j)]]

Reading(words) ==
    CHOOSE all : all = [j \in 1..Len(words) |->
        /\ KnownAt(words, j)
        /\ AfterProperty(words, j) <= Len(words) => all[AfterProperty(words, j)]]

LEMMA VerifyingAndReading ==
    ASSUME NEW words, NEW i
    PROVE  /\ VerifyProperties(words, i) <=> (i <= Len(words) => Verifying(words)[i])
           /\ ReadProperties(words, i) <=> (i <= Len(words) => Reading(words)[i])
<1>1. VerifyProperties(words, i) <=> (i <= Len(words) => Verifying(words)[i])
  BY DEF VerifyProperties, AllFrom, Verifying
<1>2. ReadProperties(words, i) <=> (i <= Len(words) => Reading(words)[i])
  BY DEF ReadProperties, AllFrom, Reading
<1> QED BY <1>1, <1>2

(* A list that _verifyProperties() accepts is read to its end.             *)
LEMMA VerifiedListIsRead ==
    ASSUME NEW words \in Seq(Nat), NEW i \in Nat \ {0}, VerifyProperties(words, i)
    PROVE  ReadProperties(words, i)
<1> DEFINE n    == Len(words)
           next == [j \in 1..n |-> AfterProperty(words, j)]
           P    == {j \in 1..n : KnownAt(words, j) /\ SoundAt(words, j)}
           Q    == {j \in 1..n : KnownAt(words, j)}
<1>1. n \in Nat
  BY LenProperties
<1>2. next \in [1..n -> Nat \ {0}] /\ \A j \in 1..n : j < next[j]
  BY PropertyEnds
<1>3. P \subseteq Q
  OBVIOUS
<1>4. Walks(n, next, P, Verifying(words))
  <2>1. PICK all : Walks(n, next, P, all)
    <3> HIDE DEF n, next, P
    <3> QED BY <1>1, <1>2, SomeWalk
  <2>2. \A w : Walks(n, next, P, w) <=>
            w = [j \in 1..Len(words) |->
                /\ KnownAt(words, j) /\ SoundAt(words, j)
                /\ AfterProperty(words, j) <= Len(words) => w[AfterProperty(words, j)]]
    BY DEF Walks
  <2> HIDE DEF n, next, P
  <2> QED BY <2>1, <2>2 DEF Verifying
<1>5. Walks(n, next, Q, Reading(words))
  <2>1. PICK all : Walks(n, next, Q, all)
    <3> HIDE DEF n, next, Q
    <3> QED BY <1>1, <1>2, SomeWalk
  <2>2. \A w : Walks(n, next, Q, w) <=>
            w = [j \in 1..Len(words) |->
                /\ KnownAt(words, j)
                /\ AfterProperty(words, j) <= Len(words) => w[AfterProperty(words, j)]]
    BY DEF Walks
  <2> HIDE DEF n, next, Q
  <2> QED BY <2>1, <2>2 DEF Reading
<1>6. i <= n => Verifying(words)[i]
  BY VerifyingAndReading
<1>7. i <= n => Reading(words)[i]
  <2> SUFFICES ASSUME i <= n PROVE Reading(words)[i]
    OBVIOUS
  <2>1. i \in 1..n
    BY <1>1
  <2>2. Verifying(words)[i]
    BY <1>6
  <2> HIDE DEF n, next, P, Q
  <2> QED BY <1>1, <1>2, <1>3, <1>4, <1>5, <2>1, <2>2, HarderWalk
<1> QED BY <1>7, VerifyingAndReading

(* So a position is refused only if its pad is 0.                          *)
LEMMA RefusedHasNoPad ==
    ASSUME NEW words \in Seq(Nat), ~ProcessPosMsg(words)
    PROVE  words[1] = 0
<1> SUFFICES ASSUME words[1] # 0 PROVE FALSE
  OBVIOUS
<1>1. ~ReadProperties(words, ReadFrom(words))
  BY DEF ProcessPosMsg
<1>2. CASE VerifyProperties(words, 1)
  <2>1. ReadFrom(words) = 1
    BY <1>2 DEF ReadFrom
  <2> QED BY <1>1, <1>2, <2>1, VerifiedListIsRead
<1>3. CASE ~VerifyProperties(words, 1) /\ VerifyProperties(words, 2)
  <2>1. ReadFrom(words) = 2
    BY <1>3 DEF ReadFrom
  <2> QED BY <1>1, <1>3, <2>1, VerifiedListIsRead
<1>4. CASE ~VerifyProperties(words, 1) /\ ~VerifyProperties(words, 2)
  <2>1. ReadFrom(words) = Len(words) + 1
    BY <1>4 DEF ReadFrom
  <2>2. Len(words) \in Nat /\ ~(Len(words) + 1 <= Len(words))
    BY LenProperties
  <2> QED BY <1>1, <2>1, <2>2, VerifyingAndReading
<1> QED BY <1>2, <1>3, <1>4

-----------------------------------------------------------------------------
(* mpserver: the map and the records.                                      *)

MapRecords == {m_MPMap[s] : s \in InMap}

LEMMA MpSizes ==
    ASSUME MpInv
    PROVE  /\ IsFiniteSet(InMap) /\ Cardinality(InMap) \in Nat
           /\ IsFiniteSet(MapRecords) /\ MapRecords \subseteq mpLive
           /\ Cardinality(MapRecords) = Cardinality(InMap)
           /\ IsFiniteSet(mpLive) /\ Cardinality(mpLive) \in Nat
           /\ Cardinality(mpLive) <= heard
           /\ Cardinality(mpLive) = Cardinality(InMap) + unread
           /\ heard \in Nat /\ MaxHeard \in Nat /\ heard <= MaxHeard
           /\ client_id \in Nat /\ unread \in Nat
           /\ client_id = Cardinality(InMap) /\ total_clients = client_id
           /\ heard + 1 \notin mpLive
<1>1. /\ heard \in Nat /\ MaxHeard \in Nat /\ heard <= MaxHeard
      /\ client_id \in Nat /\ unread \in Nat /\ mpLive \subseteq 1..heard
  BY MpAssumption DEF MpInv, MpTypeOK
<1>2. IsFiniteSet(InMap) /\ Cardinality(InMap) \in Nat
  <2>1. IsFiniteSet(Callsigns)
    BY MpAssumption
  <2>2. InMap \subseteq Callsigns
    BY DEF InMap
  <2> QED BY <2>1, <2>2, FS_Subset, FS_CardinalityType
<1>3. IsFiniteSet(mpLive) /\ Cardinality(mpLive) \in Nat /\ Cardinality(mpLive) <= heard
  <2>1. IsFiniteSet(1..heard) /\ Cardinality(1..heard) = heard
    <3>1. IsFiniteSet(1..heard)
          /\ Cardinality(1..heard) = IF 1 <= heard THEN heard - 1 + 1 ELSE 0
      BY <1>1, FS_Interval
    <3> QED BY <1>1, <3>1
  <2>2. IsFiniteSet(mpLive) /\ Cardinality(mpLive) <= Cardinality(1..heard)
    BY <1>1, <2>1, FS_Subset
  <2> QED BY <2>1, <2>2, FS_CardinalityType
<1>4. /\ MapRecords \subseteq mpLive /\ Cardinality(MapRecords) = Cardinality(InMap)
      /\ Cardinality(mpLive) = Cardinality(InMap) + unread
  BY DEF MpInv, MapHoldsRecords, MapRecords
<1>5. IsFiniteSet(MapRecords)
  BY <1>3, <1>4, FS_Subset
<1>6. heard + 1 \notin mpLive
  BY <1>1
<1> QED BY <1>1, <1>2, <1>3, <1>4, <1>5, <1>6 DEF MpInv, IdsAreNumbers

LEMMA MpInitInv == MpInit => MpInv
<1> SUFFICES ASSUME MpInit PROVE MpInv
  OBVIOUS
<1>1. MaxHeard \in Nat
  BY MpAssumption
<1>2. InMap = {}
  BY DEF MpInit, InMap
<1>3. {m_MPMap[s] : s \in InMap} = {} /\ {mpId[m_MPMap[s]] : s \in InMap} = {}
  BY <1>2
<1>4. Cardinality({}) = 0
  BY FS_EmptySet
<1>5. IdsAreNumbers /\ MapHoldsRecords
  BY <1>2, <1>3, <1>4 DEF MpInit, IdsAreNumbers, MapHoldsRecords
<1>6. MpTypeOK
  BY <1>1 DEF MpInit, MpTypeOK, Records
<1>7. FirstAddressStays /\ VerifiedIsRead /\ EscapeEnds
  BY <1>2 DEF MpInit, FirstAddressStays, VerifiedIsRead, EscapeEnds
<1> QED BY <1>5, <1>6, <1>7 DEF MpInv

(* Whatever leaves the map alone leaves what is said of it.                *)
LEMMA MapStays ==
    ASSUME MpInv, UNCHANGED mpTable
    PROVE  InMap' = InMap /\ MapRecords' = MapRecords /\ IdsAreNumbers'
BY DEF MpInv, mpTable, InMap, MapRecords, IdsAreNumbers

(* Nothing is received.                                                    *)
LEMMA MpQuiet ==
    ASSUME MpInv,
           MpStarts \/ MpEnds \/ (\E b \in BOOLEAN : MpKeys(b) \/ MpNothing(b))
    PROVE  MpInv'
<1>1. /\ UNCHANGED <<mpTable, mpLive, clientaddr, heard, unread, refused, swallowed>>
      /\ mpAt' \in {"keys", "recv", "end", "exited"} /\ mpAt # "exited"
      /\ mpAt = "end" => mpAt' = "exited"
      /\ \/ escapes' = escapes
         \/ escapes' = escapes + 1 /\ mpAt = "keys" /\ mpAt' = "end"
  BY DEF MpStarts, MpEnds, MpKeys, MpNothing
<1>2. escapes \in 0..2 /\ swallowed \in {0, 1}
  BY DEF MpInv, MpTypeOK
<1>3. escapes' \in 0..2 /\ EscapeEnds'
  <2>1. CASE escapes' = escapes
    BY <1>1, <1>2, <2>1 DEF MpInv, EscapeEnds
  <2>2. CASE escapes' = escapes + 1 /\ mpAt = "keys" /\ mpAt' = "end"
    <3>1. ~(escapes > swallowed)
      BY <2>2 DEF MpInv, EscapeEnds
    <3> QED BY <1>2, <2>2, <3>1 DEF EscapeEnds
  <2> QED BY <1>1, <2>1, <2>2
<1>4. MpTypeOK'
  BY <1>1, <1>3 DEF MpInv, MpTypeOK, mpTable
<1>5. IdsAreNumbers'
  BY <1>1, MapStays
<1>6. MapHoldsRecords' /\ FirstAddressStays' /\ VerifiedIsRead'
  BY <1>1 DEF MpInv, MapHoldsRecords, FirstAddressStays, VerifiedIsRead, mpTable, InMap
<1> QED BY <1>3, <1>4, <1>5, <1>6 DEF MpInv

(* One more record is kept without an entry of the map, or none is.        *)
LEMMA RecordForgotten ==
    ASSUME MpInv, UNCHANGED mpTable, heard < MaxHeard, heard' = heard + 1,
           \/ mpLive' = mpLive \cup {NewRecord} /\ unread' = unread + 1
           \/ UNCHANGED <<mpLive, unread>>
    PROVE  /\ MapHoldsRecords' /\ mpLive' \subseteq 1..heard'
           /\ heard' \in 0..MaxHeard /\ unread' \in 0..MaxHeard
<1>1. /\ InMap' = InMap /\ MapRecords' = MapRecords
      /\ heard \in Nat /\ MaxHeard \in Nat /\ mpLive \subseteq 1..heard
  BY MapStays, MpSizes DEF MpInv, MpTypeOK
<1>2. heard' \in 0..MaxHeard /\ 1..heard \subseteq 1..heard' /\ NewRecord \in 1..heard'
  BY <1>1 DEF NewRecord
<1>3. mpLive \subseteq mpLive' /\ mpLive' \subseteq 1..heard'
  BY <1>1, <1>2
<1>4. Cardinality(mpLive') = Cardinality(InMap) + unread' /\ unread' \in 0..MaxHeard
  <2>1. CASE mpLive' = mpLive \cup {NewRecord} /\ unread' = unread + 1
    <3>1. Cardinality(mpLive') = Cardinality(mpLive) + 1
      BY <2>1, MpSizes, FS_AddElement DEF NewRecord
    <3>2. unread + 1 <= heard + 1
      BY MpSizes
    <3> QED BY <1>1, <2>1, <3>1, <3>2, MpSizes
  <2>2. CASE UNCHANGED <<mpLive, unread>>
    BY <2>2, MpSizes DEF MpInv, MpTypeOK
  <2> QED BY <2>1, <2>2
<1>5. MapRecords' \subseteq mpLive' /\ Cardinality(MapRecords') = Cardinality(InMap')
  BY <1>1, <1>3, MpSizes
<1> QED BY <1>1, <1>2, <1>3, <1>4, <1>5 DEF MapHoldsRecords, MapRecords

(* What is written into the new record is in no record of the map.         *)
LEMMA AddressesStay ==
    ASSUME MpInv, UNCHANGED mpTable,
           \/ UNCHANGED clientaddr
           \/ \E addr \in Addrs : clientaddr' = [clientaddr EXCEPT ![NewRecord] = addr]
    PROVE  FirstAddressStays' /\ clientaddr' \in [Records -> Addrs \cup {"unset"}]
<1>1. clientaddr \in [Records -> Addrs \cup {"unset"}]
  BY DEF MpInv, MpTypeOK
<1>2. InMap' = InMap /\ m_MPMap' = m_MPMap /\ firstFrom' = firstFrom
  BY MapStays DEF mpTable
<1>3. ASSUME NEW s \in InMap PROVE clientaddr'[m_MPMap[s]] = clientaddr[m_MPMap[s]]
  <2>1. m_MPMap[s] \in MapRecords
    BY DEF MapRecords
  <2>2. m_MPMap[s] # NewRecord
    BY <2>1, MpSizes DEF NewRecord
  <2>3. CASE UNCHANGED clientaddr
    BY <2>3
  <2>4. CASE \E addr \in Addrs : clientaddr' = [clientaddr EXCEPT ![NewRecord] = addr]
    <3>1. PICK addr \in Addrs : clientaddr' = [clientaddr EXCEPT ![NewRecord] = addr]
      BY <2>4
    <3>2. m_MPMap[s] \in Records
      BY DEF MpInv, MpTypeOK, InMap
    <3> QED BY <1>1, <2>2, <3>1, <3>2
  <2> QED BY <2>3, <2>4
<1>4. FirstAddressStays'
  BY <1>2, <1>3 DEF MpInv, FirstAddressStays
<1> QED BY <1>1, <1>4

(* A datagram that adds nothing to the map.                                *)
LEMMA MpNotAdded ==
    ASSUME MpInv, UNCHANGED mpTable, MpHears,
           \/ UNCHANGED clientaddr
           \/ \E addr \in Addrs : clientaddr' = [clientaddr EXCEPT ![NewRecord] = addr],
           \/ mpLive' = mpLive \cup {NewRecord} /\ unread' = unread + 1
           \/ UNCHANGED <<mpLive, unread>>,
           mpAt' \in {"keys", "end"},
           \/ UNCHANGED <<escapes, swallowed>>
           \/ UNCHANGED swallowed /\ escapes' = escapes + 1 /\ mpAt' = "end"
           \/ swallowed = 0 /\ swallowed' = 1 /\ escapes' = escapes + 1,
           refused' \subseteq {0}
    PROVE  MpInv'
<1>1. mpAt = "recv" /\ heard < MaxHeard /\ heard' = heard + 1
  BY DEF MpHears
<1>2. escapes \in 0..2 /\ swallowed \in {0, 1} /\ ~(escapes > swallowed)
  BY <1>1 DEF MpInv, MpTypeOK, EscapeEnds
<1>3. escapes' \in 0..2 /\ swallowed' \in {0, 1} /\ EscapeEnds'
  BY <1>2 DEF EscapeEnds
<1>4. /\ MapHoldsRecords' /\ mpLive' \subseteq 1..heard'
      /\ heard' \in 0..MaxHeard /\ unread' \in 0..MaxHeard
  BY <1>1, RecordForgotten
<1>5. FirstAddressStays' /\ clientaddr' \in [Records -> Addrs \cup {"unset"}]
  BY AddressesStay
<1>6. IdsAreNumbers' /\ VerifiedIsRead'
  BY MapStays DEF VerifiedIsRead
<1>7. MpTypeOK'
  BY <1>3, <1>4, <1>5 DEF MpInv, MpTypeOK, mpTable
<1> QED BY <1>3, <1>4, <1>5, <1>6, <1>7 DEF MpInv

(* A new callsign.                                                         *)
LEMMA MpAddsInv ==
    ASSUME MpInv, NEW words \in Bodies, NEW s \in Callsigns, NEW addr \in Addrs,
           MpAdds(words, s, addr)
    PROVE  MpInv'
<1>1. /\ mpAt = "recv" /\ mpAt' = "keys" /\ heard < MaxHeard /\ heard' = heard + 1
      /\ m_MPMap[s] = NoRecord
      /\ mpLive' = mpLive \cup {NewRecord}
      /\ clientaddr' = [clientaddr EXCEPT ![NewRecord] = addr]
      /\ client_id' = client_id + 1 /\ total_clients' = total_clients + 1
      /\ mpId' = [mpId EXCEPT ![NewRecord] = client_id + 1]
      /\ m_MPMap' = [m_MPMap EXCEPT ![s] = NewRecord]
      /\ firstFrom' = IF firstFrom[s] = "unset"
                      THEN [firstFrom EXCEPT ![s] = addr] ELSE firstFrom
      /\ UNCHANGED <<unread, refused, escapes, swallowed>>
  BY DEF MpAdds, MpHears, Counted
<1>2. /\ m_MPMap \in [Callsigns -> Records \cup {NoRecord}]
      /\ clientaddr \in [Records -> Addrs \cup {"unset"}]
      /\ mpId \in [Records -> 0..MaxHeard]
      /\ firstFrom \in [Callsigns -> Addrs \cup {"unset"}]
      /\ mpLive \subseteq 1..heard /\ refused \subseteq Nat
      /\ swallowed \in {0, 1} /\ escapes \in 0..2 /\ unread \in 0..MaxHeard
  BY DEF MpInv, MpTypeOK
<1>3. /\ NewRecord \in Records /\ NewRecord # NoRecord /\ NewRecord \in 1..heard'
      /\ heard' \in 0..MaxHeard /\ 1..heard \subseteq 1..heard'
  BY <1>1, MpSizes DEF NewRecord, Records, NoRecord
<1>4. InMap' = InMap \cup {s} /\ s \notin InMap
  BY <1>1, <1>2, <1>3 DEF InMap
<1>5. /\ \A t \in InMap : m_MPMap'[t] = m_MPMap[t] /\ m_MPMap[t] # NewRecord
                          /\ m_MPMap[t] \in Records
      /\ m_MPMap'[s] = NewRecord
  <2> SUFFICES ASSUME NEW t \in InMap
               PROVE  /\ m_MPMap'[t] = m_MPMap[t] /\ m_MPMap[t] # NewRecord
                      /\ m_MPMap[t] \in Records
    BY <1>1, <1>2
  <2>1. m_MPMap[t] \in MapRecords /\ t \in Callsigns /\ t # s /\ m_MPMap[t] # NoRecord
    BY <1>4 DEF MapRecords, InMap
  <2>2. m_MPMap[t] # NewRecord
    BY <2>1, MpSizes DEF NewRecord
  <2> QED BY <1>1, <1>2, <2>1, <2>2
<1>6. MapRecords' = MapRecords \cup {NewRecord} /\ NewRecord \notin MapRecords
  BY <1>4, <1>5 DEF MapRecords
<1>7. Cardinality(InMap') = Cardinality(InMap) + 1
  BY <1>4, MpSizes, FS_AddElement
<1>8. Cardinality(MapRecords') = Cardinality(MapRecords) + 1
  BY <1>6, MpSizes, FS_AddElement
<1>9. Cardinality(mpLive') = Cardinality(mpLive) + 1
  BY <1>1, MpSizes, FS_AddElement DEF NewRecord
<1>10. MapHoldsRecords'
  <2>1. MapRecords' \subseteq mpLive'
    BY <1>1, <1>6, MpSizes
  <2>2. Cardinality(MapRecords') = Cardinality(InMap')
    BY <1>7, <1>8, MpSizes
  <2>3. Cardinality(mpLive') = Cardinality(InMap') + unread'
    BY <1>1, <1>7, <1>9, MpSizes
  <2> QED BY <2>1, <2>2, <2>3 DEF MapHoldsRecords, MapRecords
<1>11. client_id' = Cardinality(InMap') /\ total_clients' = client_id'
       /\ client_id' \in 0..MaxHeard
  <2>1. client_id <= heard
    BY MpSizes
  <2> QED BY <1>1, <1>7, <2>1, MpSizes
<1>12. IdsAreNumbers'
  <2>1. /\ \A t \in InMap : mpId'[m_MPMap'[t]] = mpId[m_MPMap[t]]
        /\ mpId'[m_MPMap'[s]] = client_id + 1
    BY <1>1, <1>2, <1>3, <1>5
  <2>2. {mpId'[m_MPMap'[t]] : t \in InMap'}
           = {mpId[m_MPMap[t]] : t \in InMap} \cup {client_id + 1}
    BY <1>4, <2>1
  <2>3. {mpId[m_MPMap[t]] : t \in InMap} = 1..client_id
    BY DEF MpInv, IdsAreNumbers
  <2>4. (1..client_id) \cup {client_id + 1} = 1..(client_id + 1)
    BY MpSizes
  <2>5. {mpId'[m_MPMap'[t]] : t \in InMap'} = 1..client_id'
    BY <1>1, <2>2, <2>3, <2>4
  <2> QED BY <1>11, <2>5 DEF IdsAreNumbers
<1>13. FirstAddressStays'
  <2>1. firstFrom[s] = "unset"
    BY <1>4 DEF MpInv, FirstAddressStays
  <2>2. firstFrom' = [firstFrom EXCEPT ![s] = addr]
    BY <1>1, <2>1
  <2>3. clientaddr'[m_MPMap'[s]] = firstFrom'[s]
    BY <1>1, <1>2, <1>3, <1>5, <2>2
  <2>4. ASSUME NEW t \in InMap PROVE clientaddr'[m_MPMap'[t]] = firstFrom'[t]
    <3>1. clientaddr'[m_MPMap'[t]] = clientaddr[m_MPMap[t]] /\ t # s /\ t \in Callsigns
      BY <1>1, <1>2, <1>4, <1>5 DEF InMap
    <3>2. firstFrom'[t] = firstFrom[t]
      BY <1>2, <2>2, <3>1
    <3> QED BY <3>1, <3>2 DEF MpInv, FirstAddressStays
  <2>5. ASSUME NEW t \in Callsigns \ InMap' PROVE firstFrom'[t] = "unset"
    <3>1. t \in Callsigns \ InMap /\ t # s
      BY <1>4, <2>5
    <3>2. firstFrom'[t] = firstFrom[t]
      BY <1>2, <2>2, <3>1
    <3> QED BY <3>1, <3>2 DEF MpInv, FirstAddressStays
  <2> QED BY <1>4, <2>3, <2>4, <2>5 DEF FirstAddressStays
<1>14. VerifiedIsRead' /\ EscapeEnds'
  BY <1>1 DEF MpInv, VerifiedIsRead, EscapeEnds
<1>15. MpTypeOK'
  <2>1. client_id + 1 \in 0..MaxHeard /\ total_clients' \in 0..MaxHeard
    BY <1>1, <1>11
  <2>2. /\ m_MPMap' \in [Callsigns -> Records \cup {NoRecord}]
        /\ clientaddr' \in [Records -> Addrs \cup {"unset"}]
        /\ mpId' \in [Records -> 0..MaxHeard]
    BY <1>1, <1>2, <1>3, <2>1
  <2>3. firstFrom' \in [Callsigns -> Addrs \cup {"unset"}]
    BY <1>1, <1>2
  <2>4. mpLive' \subseteq 1..heard'
    BY <1>1, <1>2, <1>3
  <2> QED BY <1>1, <1>2, <1>3, <1>11, <2>1, <2>2, <2>3, <2>4 DEF MpTypeOK
<1> QED BY <1>10, <1>12, <1>13, <1>14, <1>15 DEF MpInv

LEMMA MpStepInv == MpInv /\ [MpNext]_mpVars => MpInv'
<1> SUFFICES ASSUME MpInv, [MpNext]_mpVars PROVE MpInv'
  OBVIOUS
<1>1. CASE UNCHANGED mpVars
  BY <1>1 DEF mpVars, MpInv, MpTypeOK, IdsAreNumbers, MapHoldsRecords, FirstAddressStays,
     VerifiedIsRead, EscapeEnds, InMap
<1>2. CASE MpStarts \/ MpEnds \/ (\E b \in BOOLEAN : MpKeys(b) \/ MpNothing(b))
  BY <1>2, MpQuiet
<1>3. refused \subseteq {0}
  BY DEF MpInv, VerifiedIsRead
<1>4. CASE MpNoPosition
  BY <1>3, <1>4, MpNotAdded DEF MpNoPosition
<1>5. ASSUME NEW b \in BOOLEAN, MpForeign(b) PROVE MpInv'
  BY <1>3, <1>5, MpNotAdded DEF MpForeign
<1>6. ASSUME NEW words \in Bodies, NEW s \in Callsigns, NEW addr \in Addrs,
             MpExists(words, s, addr)
      PROVE  MpInv'
  BY <1>3, <1>6, MpNotAdded DEF MpExists
<1>7. ASSUME NEW words \in Bodies, NEW s \in Callsigns, NEW addr \in Addrs,
             MpAdds(words, s, addr)
      PROVE  MpInv'
  BY <1>7, MpAddsInv
<1>8. ASSUME NEW words \in Bodies, NEW addr \in Addrs, NEW esc \in BOOLEAN,
             MpBadPosition(words, addr, esc)
      PROVE  MpInv'
  <2>1. words \in Seq(Nat)
    BY MpAssumption
  <2>2. words[1] = 0
    BY <1>8, <2>1, RefusedHasNoPad DEF MpBadPosition
  <2>3. refused' \subseteq {0}
    BY <1>3, <1>8, <2>2 DEF MpBadPosition
  <2> QED BY <1>8, <2>3, MpNotAdded DEF MpBadPosition
<1> QED
  BY <1>1, <1>2, <1>4, <1>5, <1>6, <1>7, <1>8 DEF MpNext, MpTakes

(* mpserver, for any callsigns, addresses and messages: the two counters   *)
(* and the ids agree with the map, no record of it is deleted or lost, a   *)
(* callsign keeps its first address, and a position whose list verifies is *)
(* never refused.                                                          *)
THEOREM MapOfMpServer == MpSpec => []MpInv
BY MpInitInv, MpStepInv, PTL DEF MpSpec
=============================================================================
