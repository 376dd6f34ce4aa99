---------------------------- MODULE StreamProofs ---------------------------
(***************************************************************************)
(* Proofs about the small programs and libraries that use streams, for     *)
(* every capacity, every set of descriptors, ports, clients and processes, *)
(* and every bound: the invariant of each is inductive, and the invariant  *)
(* of the run that checks them together follows.                           *)
(***************************************************************************)
EXTENDS MCStreams, TcpConnProofs, FiniteSetTheorems, WellFoundedInduction

-----------------------------------------------------------------------------
(* unix_server: UnixInv is inductive, and the server implements ConnTable. *)

Scanning == uxAt \in {"scan", "accept", "recv", "send", "drop"}

LEMMA PendingFinite ==
    ASSUME working_set \subseteq UxAll
    PROVE  IsFiniteSet(UxPending)
  <1>1. IsFiniteSet(UxAll)
    BY UxAssumption, FS_Singleton, FS_Union DEF UxAll
  <1>2. UxPending \subseteq UxAll
    BY DEF UxPending
  <1>3. QED
    BY <1>1, <1>2, FS_Subset

LEMMA UxInitInv == UxInit => UnixInv
  <1> SUFFICES ASSUME UxInit PROVE UnixInv
    OBVIOUS
  <1> USE UxAssumption, PlainConns DEF UxInit
  <1>1. UxTypeOK
    <2>1. uxConn \in [UxFds -> Conn]
      OBVIOUS
    <2>2. /\ uxConnects \in 0..UxMaxConnects /\ uxSends \in 0..UxMaxSends
          /\ uxQueue \in 0..UxBacklog /\ uxLen \in 0..UxBuffer
      OBVIOUS
    <2>3. end_server \in BOOLEAN /\ max_sd \in {0} \cup UxAll /\ uxI \in Nat /\ desc_ready \in Nat
      OBVIOUS
    <2>4. QED
      BY <2>1, <2>2, <2>3 DEF UxTypeOK
  <1>2. SetMatchesKernel
    BY DEF SetMatchesKernel, UxUp
  <1>3. QED
    BY <1>1, <1>2 DEF UnixInv, MaxIsHighest, ScanFindsReady, ServesOpen, UxUp

LEMMA UxStartupInv ==
    ASSUME UnixInv, UxStartupEnds \/ UxStartupDone
    PROVE  UnixInv'
  <1> USE UxAssumption DEF UxStartupEnds, UxStartupDone, uxScanVars, uxKernelVars
  <1>1. UxTypeOK'
    BY DEF UnixInv, UxTypeOK, UxAll
  <1>2. SetMatchesKernel'
    BY DEF UnixInv, SetMatchesKernel, MaxIsHighest, UxUp
  <1>3. MaxIsHighest'
    BY DEF UnixInv, MaxIsHighest, UxUp
  <1>4. QED
    BY <1>1, <1>2, <1>3 DEF UnixInv, ScanFindsReady, ServesOpen

LEMMA UxSelectInv ==
    ASSUME UnixInv, UxSelectReturns
    PROVE  UnixInv'
  <1> USE DEF UxSelectReturns, uxKernelVars
  <1>1. UxReady \subseteq master_set /\ master_set \subseteq UxAll /\ UxAll \subseteq Nat
    BY UxAssumption DEF UxReady, UnixInv, UxTypeOK, UxAll
  <1>2. UxPending' = UxReady
    <2>1. \A f \in UxReady : f > 0 \/ f = 0
      BY <1>1
    <2>2. UxPending' = {f \in UxReady : f > 0 \/ f = 0}
      BY DEF UxPending
    <2>3. QED
      BY <2>1, <2>2
  <1>3. desc_ready' \in Nat
    <2>1. working_set' \subseteq UxAll
      BY <1>1
    <2>2. IsFiniteSet(UxReady)
      <3>1. IsFiniteSet(UxAll)
        BY UxAssumption, FS_Singleton, FS_Union DEF UxAll
      <3>2. QED
        BY <1>1, <3>1, FS_Subset
    <2>3. QED
      BY <2>2, FS_CardinalityType
  <1>4. UxTypeOK'
    BY <1>1, <1>3 DEF UnixInv, UxTypeOK
  <1>5. SetMatchesKernel' /\ MaxIsHighest'
    BY DEF UnixInv, SetMatchesKernel, MaxIsHighest, UxUp
  <1>6. ScanFindsReady'
    BY <1>1, <1>2 DEF ScanFindsReady, UxReady, UxIsReady
  <1>7. ServesOpen'
    BY DEF ServesOpen
  <1>8. QED
    BY <1>4, <1>5, <1>6, <1>7 DEF UnixInv

(* The scan comes to the lowest descriptor that is pending.                *)
LEMMA UxVisitInv ==
    ASSUME UnixInv, NEW f \in UxAll, UxVisit(f)
    PROVE  UnixInv'
  <1> USE DEF UxVisit, uxKernelVars
  <1>1. /\ working_set \subseteq UxAll /\ UxAll \subseteq Nat /\ uxI \in Nat
        /\ f \in working_set /\ f >= uxI
        /\ \A g \in working_set : g >= uxI => f <= g
    BY UxAssumption DEF UnixInv, UxTypeOK, UxAll, UxIsNext, UxToVisit
  <1>2. f \in UxPending /\ UxPending' = UxPending \ {f}
    <2>1. f \in UxPending
      BY <1>1 DEF UxPending
    <2>2. \A g \in working_set : g > f <=> (g > uxI \/ g = uxI) /\ g # f
      BY <1>1
    <2>3. UxPending = {g \in working_set : g > uxI \/ g = uxI}
      BY DEF UxPending
    <2>4. UxPending' = {g \in working_set : g > f}
      BY DEF UxPending
    <2>5. QED
      BY <2>1, <2>2, <2>3, <2>4
  <1>3. IsFiniteSet(UxPending) /\ desc_ready = Cardinality(UxPending)
    BY <1>1, PendingFinite DEF UnixInv, ScanFindsReady
  <1>4. desc_ready' = Cardinality(UxPending')
    BY <1>2, <1>3, FS_RemoveElement
  <1>5. UxPending \subseteq master_set /\ (\A g \in UxPending : UxIsReady(g))
    BY DEF UnixInv, ScanFindsReady
  <1>6. ScanFindsReady'
    BY <1>2, <1>4, <1>5 DEF ScanFindsReady, UxIsReady
  <1>7. UxTypeOK'
    BY <1>1 DEF UnixInv, UxTypeOK
  <1>8. SetMatchesKernel' /\ MaxIsHighest'
    BY DEF UnixInv, SetMatchesKernel, MaxIsHighest, UxUp
  <1>9. ServesOpen'
    BY <1>2, <1>5 DEF ServesOpen, UxAll, UnixInv, SetMatchesKernel
  <1>10. QED
    BY <1>6, <1>7, <1>8, <1>9 DEF UnixInv

(* Steps that end the scan, or the loop.                                   *)
LEMMA UxQuietInv ==
    ASSUME UnixInv, UxScanEnds \/ \E fails \in BOOLEAN : UxSelectEnds(fails)
    PROVE  UnixInv'
  <1> USE DEF UxScanEnds, UxSelectEnds, uxScanVars, uxKernelVars
  <1>1. /\ uxAt \in {"scan", "select"} /\ uxAt' \in {"select", "cleanup"}
        /\ UNCHANGED <<master_set, max_sd, end_server, uxLen, working_set, uxI, desc_ready,
                       uxConn, uxQueue, uxConnects, uxSends>>
    OBVIOUS
  <1>2. QED
    BY <1>1 DEF UnixInv, UxTypeOK, SetMatchesKernel, MaxIsHighest, ScanFindsReady,
                ServesOpen, UxUp

-----------------------------------------------------------------------------
(* The listening socket.                                                   *)

LEMMA UxAcceptsInv ==
    ASSUME UnixInv, UxAccepts
    PROVE  UnixInv'
  <1> USE DEF UxAccepts, uxScanVars
  <1> PICK f \in UxLowestUnused :
          /\ uxConn' = [uxConn EXCEPT ![f] = NewConn]
          /\ master_set' = master_set \cup {f}
          /\ max_sd' = RaisedMax(f)
    OBVIOUS
  <1>1. f \in UxFds /\ ~IsOpen(uxConn[f]) /\ f \in UxAll /\ f # UxListenFd
    BY UxAssumption DEF UxLowestUnused, UxUnused, UxAll
  <1>2. /\ uxConn' \in [UxFds -> Conn] /\ uxConn'[f] = NewConn
        /\ \A g \in UxFds : g # f => uxConn'[g] = uxConn[g]
    BY <1>1, PlainConns DEF UnixInv, UxTypeOK
  <1>3. UxTypeOK'
    <2>1. max_sd' \in {0} \cup UxAll
      BY <1>1 DEF RaisedMax, UnixInv, UxTypeOK
    <2>2. QED
      BY <1>1, <1>2, <2>1, UxAssumption DEF UnixInv, UxTypeOK
  <1>4. SetMatchesKernel'
    <2>1. {g \in UxFds : IsOpen(uxConn'[g])} = {g \in UxFds : IsOpen(uxConn[g])} \cup {f}
      BY <1>1, <1>2, PlainConns
    <2>2. QED
      BY <2>1 DEF UnixInv, SetMatchesKernel, UxUp
  <1>5. MaxIsHighest'
    BY <1>1, UxAssumption DEF UnixInv, MaxIsHighest, RaisedMax, UxUp, UxTypeOK, UxAll
  <1>6. ScanFindsReady'
    <2>1. UxPending' = UxPending
      BY DEF UxPending
    <2>2. UxPending \subseteq master_set /\ f \notin UxPending
      BY <1>1 DEF UnixInv, ScanFindsReady, SetMatchesKernel
    <2>3. \A g \in UxPending : g \in UxFds /\ g # f /\ UxIsReady(g)
      <3>1. uxI = UxListenFd /\ master_set \subseteq UxAll
        BY DEF UnixInv, ServesOpen, UxTypeOK
      <3>2. \A g \in UxPending : g # UxListenFd
        BY <3>1, UxAssumption DEF UxPending
      <3>3. QED
        BY <2>2, <3>1, <3>2 DEF UxAll, UnixInv, ScanFindsReady
    <2>4. \A g \in UxPending : UxIsReady(g)'
      BY <2>3, <1>2, UxAssumption DEF UxIsReady
    <2>5. QED
      BY <2>1, <2>2, <2>4 DEF UnixInv, ScanFindsReady
  <1>7. ServesOpen'
    BY DEF UnixInv, ServesOpen
  <1>8. QED
    BY <1>3, <1>4, <1>5, <1>6, <1>7 DEF UnixInv

(* Going on from a descriptor leaves those behind it pending.              *)
LEMMA GoesOnPending ==
    ASSUME UxTypeOK, UxGoesOn, uxAt # "scan", UNCHANGED working_set
    PROVE  UxPending' = UxPending
  <1>1. \A g \in working_set : (g > uxI + 1 \/ g = uxI + 1) <=> g > uxI
    BY UxAssumption DEF UxTypeOK, UxAll
  <1>2. UxPending = {g \in working_set : g > uxI}
    BY DEF UxPending
  <1>3. UxPending' = {g \in working_set : g > uxI + 1 \/ g = uxI + 1}
    BY DEF UxGoesOn, UxPending
  <1>4. QED
    BY <1>1, <1>2, <1>3

LEMMA UxAcceptEndsInv ==
    ASSUME UnixInv, NEW fails \in BOOLEAN, UxAcceptsNothing(fails)
    PROVE  UnixInv'
  <1> USE DEF UxAcceptsNothing, uxKernelVars
  <1>1. UxPending' = UxPending
    BY GoesOnPending DEF UnixInv
  <1>2. uxAt' = "scan" /\ uxI' = uxI + 1
    BY DEF UxGoesOn
  <1>3. UxTypeOK'
    BY <1>2 DEF UnixInv, UxTypeOK
  <1>4. SetMatchesKernel' /\ MaxIsHighest'
    BY <1>2 DEF UnixInv, SetMatchesKernel, MaxIsHighest, UxUp
  <1>5. ScanFindsReady'
    BY <1>1, <1>2 DEF UnixInv, ScanFindsReady, UxIsReady
  <1>6. ServesOpen'
    BY <1>2 DEF ServesOpen
  <1>7. QED
    BY <1>3, <1>4, <1>5, <1>6 DEF UnixInv

-----------------------------------------------------------------------------
(* One connection changes and stays open; the scan stays where it is.      *)
LEMMA OneConnStays ==
    ASSUME UnixInv, NEW f \in UxFds, NEW c \in Conn,
           uxConn' = [uxConn EXCEPT ![f] = c],
           IsOpen(uxConn[f]), IsOpen(c),
           \/ Readable(uxConn[f]) => Readable(c)
           \/ f = uxI /\ uxAt \in {"recv", "send"},
           uxAt' = uxAt \/ (uxAt \in {"recv", "send"} /\ uxAt' \in {"recv", "send", "drop"}),
           uxAt' = "send" => uxLen' > 0,
           uxLen' \in 0..UxBuffer, uxQueue' = uxQueue,
           uxConnects' \in 0..UxMaxConnects, uxSends' \in 0..UxMaxSends,
           UNCHANGED <<master_set, max_sd, end_server, working_set, uxI, desc_ready>>
    PROVE  UnixInv'
  <1>1. /\ uxConn' \in [UxFds -> Conn] /\ uxConn'[f] = c
        /\ \A g \in UxFds : g # f => uxConn'[g] = uxConn[g]
    BY DEF UnixInv, UxTypeOK
  <1>2. UxTypeOK'
    BY <1>1 DEF UnixInv, UxTypeOK
  <1>3. \A g \in UxFds : IsOpen(uxConn'[g]) <=> IsOpen(uxConn[g])
    BY <1>1
  <1>4. SetMatchesKernel' /\ MaxIsHighest'
    BY <1>3 DEF UnixInv, SetMatchesKernel, MaxIsHighest, UxUp
  <1>5. ScanFindsReady'
    <2> SUFFICES ASSUME Scanning PROVE ScanFindsReady'
      BY DEF Scanning, ScanFindsReady
    <2>1. UxPending' = UxPending
      BY DEF UxPending, Scanning
    <2>2. /\ UxPending \subseteq master_set /\ desc_ready = Cardinality(UxPending)
          /\ \A g \in UxPending : UxIsReady(g)
      BY DEF UnixInv, ScanFindsReady, Scanning
    <2>3. \A g \in UxPending : UxIsReady(g)'
      <3> SUFFICES ASSUME NEW g \in UxPending PROVE UxIsReady(g)'
        OBVIOUS
      <3>1. UxIsReady(g) /\ g \in UxAll
        BY <2>2 DEF UnixInv, UxTypeOK
      <3>2. CASE g = UxListenFd
        BY <3>1, <3>2 DEF UxIsReady
      <3>3. CASE g # UxListenFd /\ g # f
        BY <3>1, <3>3, <1>1 DEF UxIsReady, UxAll
      <3>4. CASE g # UxListenFd /\ g = f
        <4>1. g # uxI \/ uxAt = "scan"
          BY UxAssumption DEF UxPending, UxAll, UnixInv, UxTypeOK
        <4>2. Readable(c)
          BY <3>1, <3>4, <4>1 DEF UxIsReady
        <4>3. QED
          BY <3>4, <4>2, <1>1 DEF UxIsReady
      <3>5. QED
        BY <3>2, <3>3, <3>4
    <2>4. QED
      BY <2>1, <2>2, <2>3 DEF ScanFindsReady
  <1>6. ServesOpen'
    BY <1>3 DEF UnixInv, ServesOpen
  <1>7. QED
    BY <1>2, <1>4, <1>5, <1>6 DEF UnixInv

(* What is known of the descriptor that is served.                         *)
LEMMA Served ==
    ASSUME UnixInv, uxAt \in {"recv", "send", "drop"}
    PROVE  /\ uxI \in UxFds /\ IsOpen(uxConn[uxI]) /\ uxConn[uxI] \in Conn
           /\ uxQueue \in 0..UxBacklog /\ uxConnects \in 0..UxMaxConnects
           /\ uxSends \in 0..UxMaxSends /\ uxLen \in 0..UxBuffer
  BY DEF UnixInv, ServesOpen, UxTypeOK

LEMMA UxSame ==
    ASSUME UnixInv
    PROVE  /\ UNCHANGED uxLen => uxLen' \in 0..UxBuffer
           /\ uxLen' = 0 => uxLen' \in 0..UxBuffer
           /\ UNCHANGED uxConnects => uxConnects' \in 0..UxMaxConnects
           /\ UNCHANGED uxSends => uxSends' \in 0..UxMaxSends
  BY UxAssumption DEF UnixInv, UxTypeOK

LEMMA UxReceivesInv ==
    ASSUME UnixInv, UxReceives \/ UxRecvEnds
    PROVE  UnixInv'
  <1> USE Served, UxAssumption, BufferAssumption DEF uxScanVars
  <1>1. CASE UxReceives
    <2> USE <1>1 DEF UxReceives
    <2>1. /\ uxLen' \in 1..MaxIn /\ uxLen' <= uxConn[uxI].in /\ uxLen' \in 1..UxBuffer
      BY DEF UxRecvLen, RecvResult, Conn
    <2>2. AfterRecvData(uxConn[uxI], uxLen') \in Conn
          /\ IsOpen(AfterRecvData(uxConn[uxI], uxLen'))
      BY <2>1, ReadData
    <2> HIDE DEF UxReceives
    <2>3. /\ uxConn' = [uxConn EXCEPT ![uxI] = AfterRecvData(uxConn[uxI], uxLen')]
          /\ uxAt = "recv" /\ uxAt' = "send"
          /\ UNCHANGED <<master_set, max_sd, end_server, working_set, uxI, desc_ready,
                         uxQueue, uxConnects, uxSends>>
      BY DEF UxReceives
    <2>4. uxI \in UxFds /\ IsOpen(uxConn[uxI])
      BY <2>3, Served
    <2>5. /\ uxLen' \in 0..UxBuffer /\ uxLen' > 0
          /\ uxConnects' \in 0..UxMaxConnects /\ uxSends' \in 0..UxMaxSends
      BY <2>1, <2>3, UxSame
    <2> DEFINE c == AfterRecvData(uxConn[uxI], uxLen')
    <2>6. c \in Conn /\ IsOpen(c) /\ uxConn' = [uxConn EXCEPT ![uxI] = c]
      BY <2>2, <2>3
    <2> HIDE DEF c
    <2>7. QED
      BY <2>3, <2>4, <2>5, <2>6, OneConnStays
  <1>2. CASE UxRecvEnds
    <2>1. /\ uxConn' = [uxConn EXCEPT ![uxI] = AfterRecvNothing(uxConn[uxI])]
          /\ uxAt = "recv" /\ uxAt' = "drop"
          /\ UNCHANGED <<master_set, max_sd, end_server, working_set, uxI, desc_ready, uxLen,
                         uxQueue, uxConnects, uxSends>>
      BY <1>2 DEF UxRecvEnds
    <2>2. AfterRecvNothing(uxConn[uxI]) \in Conn /\ IsOpen(AfterRecvNothing(uxConn[uxI]))
      BY <2>1, FailedCalls
    <2>3. uxI \in UxFds /\ IsOpen(uxConn[uxI])
      BY <2>1, Served
    <2>4. QED
      BY <2>1, <2>2, <2>3, UxSame, OneConnStays
  <1>3. QED
    BY <1>1, <1>2

LEMMA UxEchoesInv ==
    ASSUME UnixInv, UxEchoes \/ UxEchoFails
    PROVE  UnixInv'
  <1> USE Served, UxAssumption DEF uxScanVars
  <1>1. CASE UxEchoes
    <2> DEFINE c == [uxConn[uxI] EXCEPT !.out = @ + uxLen]
    <2>1. /\ uxConn' = [uxConn EXCEPT ![uxI] = c]
          /\ uxAt = "send" /\ uxAt' = "recv" /\ uxLen' = 0
          /\ UNCHANGED <<master_set, max_sd, end_server, working_set, uxI, desc_ready,
                         uxQueue, uxConnects, uxSends>>
      BY <1>1 DEF UxEchoes
    <2>2. c \in Conn /\ IsOpen(c)
      BY <1>1, BufferAssumption DEF UxEchoes, UxFits, Conn, ConnState, IsOpen
    <2> HIDE DEF c
    <2>3. uxI \in UxFds /\ IsOpen(uxConn[uxI])
      BY <2>1, Served
    <2>4. QED
      BY <2>1, <2>2, <2>3, UxSame, OneConnStays
  <1>2. CASE UxEchoFails
    <2>1. /\ uxConn' = [uxConn EXCEPT ![uxI] = AfterSend(uxConn[uxI])]
          /\ uxAt = "send" /\ uxAt' = "drop" /\ uxLen' = 0
          /\ UNCHANGED <<master_set, max_sd, end_server, working_set, uxI, desc_ready,
                         uxQueue, uxConnects, uxSends>>
      BY <1>2 DEF UxEchoFails
    <2>2. AfterSend(uxConn[uxI]) \in Conn /\ IsOpen(AfterSend(uxConn[uxI]))
      BY <2>1, FailedCalls
    <2>3. uxI \in UxFds /\ IsOpen(uxConn[uxI])
      BY <2>1, Served
    <2>4. QED
      BY <2>1, <2>2, <2>3, UxSame, OneConnStays
  <1>3. QED
    BY <1>1, <1>2

(* The one closed is not among those that are pending.                     *)
LEMMA UxDropsInv ==
    ASSUME UnixInv, UxDrops
    PROVE  UnixInv'
  <1> USE DEF UxDrops, ClearedSet
  <1>1. uxI \in UxFds /\ uxI # UxListenFd /\ uxAt = "drop"
    BY Served, UxAssumption
  <1>2. /\ uxConn' \in [UxFds -> Conn] /\ uxConn'[uxI] = NoConn
        /\ \A g \in UxFds : g # uxI => uxConn'[g] = uxConn[g]
    BY <1>1, PlainConns DEF UnixInv, UxTypeOK
  <1>3. uxAt' = "scan" /\ uxI' = uxI + 1 /\ uxI' \in Nat
    BY DEF UxGoesOn, UnixInv, UxTypeOK
  <1>4. MaxIsHighest' /\ max_sd' \in UxAll
    <2>1. /\ max_sd \in master_set /\ \A g \in master_set : g <= max_sd
          /\ master_set \subseteq UxAll /\ master_set' = master_set \ {uxI}
          /\ UxUp'
      BY <1>1, <1>3 DEF UnixInv, MaxIsHighest, UxUp, UxTypeOK
    <2>2. CASE uxI = max_sd
      BY <2>1, <2>2 DEF LoweredMax, MaxIsHighest
    <2>3. CASE uxI # max_sd
      BY <2>1, <2>3 DEF LoweredMax, MaxIsHighest
    <2>4. QED
      BY <2>2, <2>3
  <1>5. UxTypeOK'
    BY <1>2, <1>3, <1>4 DEF UnixInv, UxTypeOK
  <1>6. SetMatchesKernel'
    <2>1. {g \in UxFds : IsOpen(uxConn'[g])} = {g \in UxFds : IsOpen(uxConn[g])} \ {uxI}
      BY <1>2, PlainConns
    <2>2. QED
      BY <2>1, <1>1, <1>3 DEF UnixInv, SetMatchesKernel, UxUp
  <1>7. ScanFindsReady'
    <2>1. UxPending' = UxPending
      BY GoesOnPending DEF UnixInv
    <2>2. /\ UxPending \subseteq master_set /\ desc_ready = Cardinality(UxPending)
          /\ \A g \in UxPending : UxIsReady(g)
      BY DEF UnixInv, ScanFindsReady
    <2>3. \A g \in UxPending : g # uxI /\ g \in UxAll
      BY <1>1, UxAssumption DEF UxPending, UxAll, UnixInv, UxTypeOK
    <2>4. \A g \in UxPending : UxIsReady(g)'
      BY <2>2, <2>3, <1>2 DEF UxIsReady, UxAll
    <2>5. QED
      BY <2>1, <2>2, <2>3, <2>4 DEF ScanFindsReady
  <1>8. ServesOpen'
    BY <1>3 DEF ServesOpen
  <1>9. QED
    BY <1>4, <1>5, <1>6, <1>7, <1>8 DEF UnixInv

(* The process is gone.                                                    *)
LEMMA UxGoneInv ==
    ASSUME UnixInv, UxEchoKills \/ UxCleanup
    PROVE  UnixInv'
  <1>1. uxAt' \in {"exited", "killed"} /\ UxGone
    BY DEF UxEchoKills, UxCleanup
  <1> USE <1>1 DEF UxGone, uxScanVars
  <1>2. UxTypeOK'
    BY PlainConns, UxAssumption DEF UnixInv, UxTypeOK
  <1>3. SetMatchesKernel'
    BY PlainConns DEF SetMatchesKernel, UxUp
  <1>4. QED
    BY <1>2, <1>3 DEF UnixInv, MaxIsHighest, ScanFindsReady, ServesOpen, UxUp

-----------------------------------------------------------------------------
(* The clients.                                                            *)

LEMMA UxPeersInv ==
    ASSUME UnixInv, UxPeers
    PROVE  UnixInv'
  <1>1. CASE UxPeerConnects
    <2> USE <1>1 DEF UxPeerConnects, uxScanVars
    <2>1. uxQueue' \in 0..UxBacklog /\ uxConnects' \in 0..UxMaxConnects
          /\ uxQueue' = uxQueue + 1 /\ uxQueue \in Nat
      BY UxAssumption DEF UnixInv, UxTypeOK
    <2>2. UxTypeOK'
      BY <2>1 DEF UnixInv, UxTypeOK
    <2>3. SetMatchesKernel' /\ MaxIsHighest' /\ ServesOpen'
      BY DEF UnixInv, SetMatchesKernel, MaxIsHighest, ServesOpen, UxUp
    <2>4. \A g : UxIsReady(g) => UxIsReady(g)'
      BY <2>1 DEF UxIsReady
    <2>5. UxPending' = UxPending
      BY DEF UxPending
    <2>6. ScanFindsReady'
      BY <2>4, <2>5 DEF UnixInv, ScanFindsReady
    <2>7. QED
      BY <2>2, <2>3, <2>6 DEF UnixInv
  <1>2. ASSUME NEW f \in UxFds,
               UxPeerSend(f) \/ UxPeerRead(f) \/ UxPeerClose(f) \/ UxPeerReset(f)
        PROVE  UnixInv'
    <2>1. uxConn[f] \in Conn
      BY DEF UnixInv, UxTypeOK
    <2>2. PICK c \in Conn :
              /\ uxConn' = [uxConn EXCEPT ![f] = c]
              /\ IsOpen(uxConn[f]) /\ IsOpen(c)
              /\ Readable(uxConn[f]) => Readable(c)
      <3> USE DEF UxPeerDoes
      <3>1. CASE UxPeerSend(f)
        BY <2>1, <3>1, PeerMoves DEF UxPeerSend, CanPeerSend, IsOpen
      <3>2. CASE UxPeerRead(f)
        BY <2>1, <3>2, PeerMoves DEF UxPeerRead, CanPeerRead, IsOpen
      <3>3. CASE UxPeerClose(f)
        BY <2>1, <3>3, PeerMoves DEF UxPeerClose, CanPeerClose, IsOpen
      <3>4. CASE UxPeerReset(f)
        BY <2>1, <3>4, PeerMoves DEF UxPeerReset, CanPeerReset, IsOpen
      <3>5. QED
        BY <1>2, <3>1, <3>2, <3>3, <3>4
    <2>3. /\ uxSends' \in 0..UxMaxSends
          /\ UNCHANGED <<uxAt, master_set, max_sd, end_server, uxLen, working_set, uxI,
                         desc_ready, uxQueue, uxConnects>>
      BY <1>2, UxAssumption DEF UxPeerSend, UxPeerRead, UxPeerClose, UxPeerReset, UxPeerDoes,
                                uxScanVars, UnixInv, UxTypeOK
    <2>4. uxLen' \in 0..UxBuffer /\ uxConnects' \in 0..UxMaxConnects
          /\ (uxAt' = "send" => uxLen' > 0)
      BY <2>3 DEF UnixInv, UxTypeOK, ServesOpen
    <2>5. QED
      BY <2>2, <2>3, <2>4, OneConnStays
  <1>3. QED
    BY <1>1, <1>2 DEF UxPeers

LEMMA UxStepInv == UnixInv /\ [UxNext]_uxVars => UnixInv'
  <1> SUFFICES ASSUME UnixInv, [UxNext]_uxVars PROVE UnixInv'
    OBVIOUS
  <1>1. CASE UxClientIO
    BY <1>1, UxReceivesInv, UxEchoesInv, UxGoneInv, UxDropsInv DEF UxClientIO
  <1>2. CASE UxServer
    BY <1>1, <1>2, UxStartupInv, UxSelectInv, UxVisitInv, UxQuietInv, UxAcceptsInv,
       UxAcceptEndsInv, UxGoneInv DEF UxServer
  <1>3. CASE UxPeers
    BY <1>3, UxPeersInv
  <1>4. CASE UNCHANGED uxVars
    BY <1>4 DEF uxVars, UnixInv, UxTypeOK, SetMatchesKernel, MaxIsHighest, ScanFindsReady,
                ServesOpen, UxUp, UxPending, UxIsReady
  <1>5. QED
    BY <1>2, <1>3, <1>4 DEF UxNext

(* UnixInv holds in every reachable state of unix_server: the set is the   *)
(* open connections, and the scan finds each ready one and no other.       *)
THEOREM UnixInvariant == UxSpec => []UnixInv
  BY UxInitInv, UxStepInv, PTL DEF UxSpec

-----------------------------------------------------------------------------
(* unix_server implements ConnTable.                                       *)

LEMMA UxTableInit == UxInit => UxTable!Init
  BY DEF UxInit, UxTable!Init, UxPhase, UxStopped, UxClients, UxSuspects

LEMMA UxUnseen ==
    ASSUME UNCHANGED master_set, uxAt \notin {"start", "drop", "exited", "killed"},
           uxAt' \notin {"start", "drop", "exited", "killed"}
    PROVE  UNCHANGED UxTable!tableVars
  BY DEF UxTable!tableVars, UxPhase, UxStopped, UxClients, UxSuspects

LEMMA UxTableStep == UnixInv /\ [UxNext]_uxVars => [UxTable!Next]_(UxTable!tableVars)
  <1> SUFFICES ASSUME UnixInv, [UxNext]_uxVars
               PROVE  [UxTable!Next]_(UxTable!tableVars)
    OBVIOUS
  <1> USE DEF UxPhase, UxStopped, UxClients, UxSuspects
  <1>1. CASE UxStartupEnds \/ UxEchoKills \/ UxCleanup
    <2>1. uxAt' \in {"exited", "killed"} /\ master_set' = {}
      BY <1>1 DEF UxStartupEnds, UxEchoKills, UxCleanup, UxGone, UnixInv, MaxIsHighest, UxUp
    <2>2. QED
      BY <2>1 DEF UxTable!End, UxTable!Next
  <1>2. CASE UxStartupDone
    <2>1. /\ uxAt = "start" /\ uxAt' = "select" /\ master_set' = {UxListenFd}
          /\ \A g \in UxFds : uxConn'[g] = uxConn[g]
      BY <1>2 DEF UxStartupDone, uxKernelVars
    <2>2. UxClients = {} /\ UxClients' = {} /\ UxSuspects = {} /\ UxSuspects' = {}
      BY <2>1 DEF UnixInv, MaxIsHighest, UxUp
    <2>3. QED
      BY <2>1, <2>2 DEF UxTable!Listen, UxTable!Next
  <1>3. CASE UxAccepts
    <2> PICK f \in UxLowestUnused : master_set' = master_set \cup {f}
      BY <1>3 DEF UxAccepts
    <2>1. f \in UxFds /\ f # UxListenFd /\ f \notin master_set /\ uxAt = "accept"
          /\ uxAt' = "accept"
      BY <1>3, UxAssumption
         DEF UxAccepts, UxLowestUnused, UxUnused, UnixInv, SetMatchesKernel
    <2>2. UxTable!Admit(f)
      BY <2>1 DEF UxTable!Admit
    <2>3. QED
      BY <2>1, <2>2 DEF UxTable!Next
  <1>4. CASE UxRecvEnds \/ UxEchoFails
    <2>1. /\ uxAt \in {"recv", "send"} /\ uxAt' = "drop"
          /\ UNCHANGED <<master_set, uxI>>
      BY <1>4 DEF UxRecvEnds, UxEchoFails, uxScanVars
    <2>2. uxI \in UxFds /\ uxI \in UxClients
      BY <2>1, Served, UxAssumption DEF UnixInv, SetMatchesKernel
    <2>3. UxTable!Suspect(uxI)
      BY <2>1, <2>2 DEF UxTable!Suspect
    <2>4. QED
      BY <2>2, <2>3 DEF UxTable!Next
  <1>5. CASE UxDrops
    <2>1. uxAt = "drop" /\ uxAt' = "scan" /\ master_set' = master_set \ {uxI}
          /\ uxI \in UxFds
      BY <1>5, Served DEF UxDrops, UxGoesOn, ClearedSet
    <2>2. UxTable!Drop(uxI)
      BY <2>1 DEF UxTable!Drop
    <2>3. QED
      BY <2>1, <2>2 DEF UxTable!Next
  <1>6. CASE \/ UxSelectReturns \/ \E fails \in BOOLEAN : UxSelectEnds(fails)
             \/ \E fails \in BOOLEAN : UxAcceptsNothing(fails)
             \/ \E f \in UxAll : UxVisit(f)
             \/ UxScanEnds \/ UxReceives \/ UxEchoes
    <2>1. /\ UNCHANGED master_set
          /\ uxAt \in {"select", "accept", "scan", "recv", "send"}
          /\ uxAt' \in {"select", "accept", "scan", "recv", "send", "cleanup"}
      BY <1>6 DEF UxSelectReturns, UxSelectEnds, UxAcceptsNothing, UxVisit, UxScanEnds,
                  UxReceives, UxEchoes, UxGoesOn
    <2>2. QED
      BY <2>1, UxUnseen
  <1>7. CASE UxPeers \/ UNCHANGED uxVars
    <2>1. UNCHANGED <<uxAt, master_set, uxI>>
      BY <1>7 DEF uxVars, UxPeers, UxPeerConnects, UxPeerSend, UxPeerRead, UxPeerClose,
                  UxPeerReset, UxPeerDoes, uxScanVars
    <2>2. QED
      BY <2>1 DEF UxTable!tableVars
  <1>8. QED
    BY <1>1, <1>2, <1>3, <1>4, <1>5, <1>6, <1>7 DEF UxNext, UxServer, UxClientIO

(* unix_server implements the connection table.                            *)
THEOREM UxImplements == UxSpec => UxImplementsConnTable
  BY UxTableInit, UxTableStep, UnixInvariant, PTL
     DEF UxSpec, UxImplementsConnTable, UxTable!Spec

-----------------------------------------------------------------------------
(* sockhelp: sock_puts(), sock_gets() and the like.  TrCore is the part of *)
(* TransferInv that is inductive; the rest follows from that.              *)

TrCore == TrTypeOK /\ WithinBuffers /\ EachMovedOnce /\ IdleIsClean

LEMMA TrInitInv == TrInit => TrCore
  BY TrAssumption
     DEF TrInit, TrCore, TrTypeOK, WithinBuffers, EachMovedOnce, IdleIsClean

LEMMA CoreSuffices == TrCore => TransferInv
  BY DEF TrCore, TransferInv, TrTypeOK, WithinBuffers, EachMovedOnce, IdleIsClean,
         NothingMissing

LEMMA TrWriterInv ==
    ASSUME TrCore, TrWriter
    PROVE  TrCore'
  <1> USE TrAssumption
      DEF TrCore, TrTypeOK, WithinBuffers, EachMovedOnce, IdleIsClean, rVars
  <1>1. ASSUME NEW n \in TrCounts, TrWriteCall(n)
        PROVE  TrCore'
    BY <1>1 DEF TrWriteCall
  <1>2. ASSUME NEW k \in 1..TrCap, TrWrites(k)
        PROVE  TrCore'
    BY <1>2 DEF TrWrites, WriteRest
  <1>3. CASE TrWriteReturns
    BY <1>3 DEF TrWriteReturns
  <1>4. CASE TrWriteFails
    BY <1>4 DEF TrWriteFails
  <1>5. QED
    BY <1>1, <1>2, <1>3, <1>4 DEF TrWriter

LEMMA TrReaderInv ==
    ASSUME TrCore, TrReader
    PROVE  TrCore'
  <1> USE TrAssumption
      DEF TrCore, TrTypeOK, WithinBuffers, EachMovedOnce, IdleIsClean, wVars
  <1>1. ASSUME NEW n \in TrCounts, TrReadCall(n)
        PROVE  TrCore'
    BY <1>1 DEF TrReadCall
  <1>2. ASSUME NEW k \in 1..TrCap, TrReads(k)
        PROVE  TrCore'
    BY <1>2 DEF TrReads, ReadRest
  <1>3. CASE TrReadReturns
    BY <1>3 DEF TrReadReturns
  <1>4. CASE TrReadFails
    BY <1>4 DEF TrReadFails
  <1>5. QED
    BY <1>1, <1>2, <1>3, <1>4 DEF TrReader

LEMMA TrStepInv == TrCore /\ [TrNext]_trVars => TrCore'
  <1> SUFFICES ASSUME TrCore, [TrNext]_trVars PROVE TrCore'
    OBVIOUS
  <1>1. CASE TrWriter
    BY <1>1, TrWriterInv
  <1>2. CASE TrReader
    BY <1>2, TrReaderInv
  <1>3. CASE TrCloses \/ TrBreaks \/ UNCHANGED trVars
    BY <1>3, TrAssumption
       DEF TrCloses, TrBreaks, trVars, wVars, rVars, TrCore, TrTypeOK, WithinBuffers,
           EachMovedOnce, IdleIsClean
  <1>4. QED
    BY <1>1, <1>2, <1>3 DEF TrNext

(* Whatever pieces the kernel takes and gives, and whichever calls fail:   *)
(* no character is moved twice, none is left out, no buffer is overrun.    *)
THEOREM TransferInvariant == TrSpec => []TransferInv
  BY TrInitInv, TrStepInv, CoreSuffices, PTL DEF TrSpec

-----------------------------------------------------------------------------
(* unix_client.                                                            *)

LEMMA UcInitInv == UcInit => UcInv
  BY PlainConns DEF UcInit, UcInv, UcTypeOK, EchoInStep, EchoIsComing

LEMMA UcOutsideInv ==
    ASSUME UcInv, UcServerEchoes \/ UcServerCloses \/ UcServerResets
    PROVE  UcInv'
  <1> USE UcAssumption, BufferAssumption DEF UcServer
  <1>1. ucConn \in Conn /\ ucLen \in Nat /\ UNCHANGED <<ucAt, ucLen, ucIret>>
    BY DEF UcInv, UcTypeOK, UcServerEchoes, UcServerCloses, UcServerResets
  <1>2. CASE UcServerEchoes
    <2>1. /\ ucConn.out > 0 /\ ucConn.in < MaxIn
          /\ ucConn' = UcEchoed(ucConn)
          /\ ucConn.st = "open"
      BY <1>2 DEF UcServerEchoes, CanPeerRead, CanPeerSend
    <2>2. /\ ucConn' \in Conn /\ ucConn'.st = ucConn.st
          /\ ucConn'.in + ucConn'.out = ucConn.in + ucConn.out
      <3>1. /\ ucConn.in \in 0..MaxIn /\ ucConn.out \in 0..MaxOut
            /\ ucConn.in + 1 \in 0..MaxIn /\ ucConn.out - 1 \in 0..MaxOut
        BY <1>1, <2>1 DEF Conn
      <3>2. ucConn' = [ucConn EXCEPT !.out = @ - 1, !.in = @ + 1]
        BY <2>1 DEF UcEchoed
      <3>3. /\ ucConn' \in Conn /\ ucConn'.st = ucConn.st
            /\ ucConn'.in = ucConn.in + 1 /\ ucConn'.out = ucConn.out - 1
        BY <1>1, <3>1, <3>2 DEF Conn
      <3>4. QED
        BY <3>1, <3>3
    <2>3. ucAt \notin {"type", "send"}
      BY <2>1 DEF UcInv, EchoInStep
    <2>4. QED
      BY <1>1, <2>2, <2>3 DEF UcInv, UcTypeOK, EchoInStep, EchoIsComing
  <1>3. CASE UcServerCloses \/ UcServerResets
    <2>1. /\ ucConn' \in Conn /\ ucConn'.in = ucConn.in
          /\ \/ ucConn'.out = ucConn.out
             \/ ucConn'.out = 0 /\ ucConn'.st \in {"reset", "dead"}
          /\ ucConn'.st \in {"open", "fin"} => ucConn.st \in {"open", "fin"}
      <3>1. CASE UcServerCloses
        <4>1. ucConn.st = "open" /\ ucConn' = PeerCloses(ucConn) /\ ucConn' \in Conn
          BY <1>1, <3>1, PeerMoves DEF UcServerCloses, CanPeerClose
        <4>2. ucConn' = [ucConn EXCEPT !.st = "fin"]
          BY <4>1 DEF PeerCloses
        <4>3. QED
          BY <1>1, <4>1, <4>2 DEF Conn
      <3>2. CASE UcServerResets
        BY <1>1, <3>2, PeerMoves DEF UcServerResets, PeerResets, CanPeerReset, Conn
      <3>3. QED
        BY <1>3, <3>1, <3>2
    <2>2. ucConn.in \in Nat /\ ucConn.out \in Nat
      BY <1>1 DEF Conn
    <2>3. QED
      BY <1>1, <2>1, <2>2 DEF UcInv, UcTypeOK, EchoInStep, EchoIsComing
  <1>4. QED
    BY <1>2, <1>3

LEMMA UcStepInv == UcInv /\ [UcNext]_ucVars => UcInv'
  <1> SUFFICES ASSUME UcInv, [UcNext]_ucVars PROVE UcInv'
    OBVIOUS
  <1> USE UcAssumption, BufferAssumption
      DEF UcTypeOK, EchoInStep, EchoIsComing
  <1>1. CASE \/ \E ret \in {0, 1} : UcStartupEnds(ret)
             \/ UcTypesNothing \/ UcSendFails \/ UcSendKills \/ UcRecvEnds
    <2>1. /\ ucAt' \in {"exited", "killed"} /\ ucConn' = NoConn /\ UNCHANGED ucLen
          /\ ucIret' \in {0, 1}
      BY <1>1 DEF UcStartupEnds, UcTypesNothing, UcSendFails, UcSendKills, UcRecvEnds,
                  UcExits, UcInv
    <2>2. QED
      BY <2>1, PlainConns DEF UcInv
  <1>2. CASE UcConnects
    BY <1>2, PlainConns DEF UcInv, UcConnects, NewConn
  <1>3. CASE \E n \in UcLens : UcTypes(n)
    BY <1>3 DEF UcInv, UcTypes
  <1>4. CASE UcSends
    <2>1. /\ ucConn \in Conn /\ ucConn.out = 0 /\ ucConn.in = 0 /\ ucLen \in Nat
          /\ ucConn' = [ucConn EXCEPT !.out = @ + ucLen] /\ ucConn.out + ucLen <= MaxOut
          /\ ucAt' = "recv" /\ UNCHANGED <<ucLen, ucIret>>
      BY <1>4 DEF UcInv, UcSends
    <2>2. ucConn' \in Conn /\ ucConn'.in = 0 /\ ucConn'.out = ucLen
      BY <2>1 DEF Conn
    <2>3. QED
      BY <2>1, <2>2 DEF UcInv
  <1>5. CASE UcReceives
    <2>1. /\ ucConn \in Conn /\ ucAt = "recv" /\ ucConn.in = ucLen
          /\ ucConn' = AfterRecvData(ucConn, ucConn.in)
          /\ ucConn.in > 0
          /\ ucAt' = "type" /\ UNCHANGED <<ucLen, ucIret>>
      BY <1>5 DEF UcInv, UcReceives, RecvResult, IsTheEcho, Conn, ConnState
    <2>2. ucConn.out = 0
      BY <2>1 DEF UcInv, Conn
    <2>3. ucConn' \in Conn
      BY <2>1, ReadData DEF Conn
    <2>4. ucConn'.in = 0 /\ ucConn'.out = 0
      BY <2>1, <2>2 DEF AfterRecvData, Conn
    <2>5. QED
      BY <2>1, <2>3, <2>4 DEF UcInv
  <1>6. CASE UcServerEchoes \/ UcServerCloses \/ UcServerResets
    BY <1>6, UcOutsideInv
  <1>7. CASE UNCHANGED ucVars
    BY <1>7 DEF UcInv, ucVars
  <1>8. QED
    BY <1>1, <1>2, <1>3, <1>4, <1>5, <1>6, <1>7 DEF UcNext

(* unix_client never takes a piece of one message's echo for another's:    *)
(* nothing is under way when the next one is typed, whatever the server    *)
(* and the network do.                                                     *)
THEOREM EchoInvariantOfUnixClient == UcSpec => []UcInv
  BY UcInitInv, UcStepInv, PTL DEF UcSpec

-----------------------------------------------------------------------------
(* tcpserver.                                                              *)

LEMMA TsInitInv == TsInit => TsInv
  BY PlainConns, TsAssumption
     DEF TsInit, TsInv, TsTypeOK, AllAccountedFor, WholeEcho, TsPhases, NoConn

(* What the client may do leaves an open connection open and its unread    *)
(* answers unread, and sends at most one character.                        *)
LEMMA TsClientInv ==
    ASSUME TsInv, TsClientSends \/ TsClientCloses \/ TsClientResets
    PROVE  TsInv'
  <1> USE TsAssumption, BufferAssumption
  <1>1. /\ tsConn \in Conn /\ tsAt \notin {"exited", "killed"}
        /\ UNCHANGED <<tsAt, totalcnt, tsStatus>> /\ tsConn.out = 0
        /\ tsSent \in 0..BufferLength + 1
    BY DEF TsInv, TsTypeOK, WholeEcho, TsClientSends, TsClientCloses, TsClientResets, TsClient
  <1>2. tsConn.st \in {"open", "fin"}
    BY <1>1 DEF TsClientSends, TsClientCloses, TsClientResets, TsClient,
                CanPeerSend, CanPeerClose, CanPeerReset
  <1>3. tsConn # NoConn /\ tsAt \in {"select", "read", "write"}
    BY <1>1, <1>2 DEF TsInv, TsTypeOK, TsPhases, NoConn
  <1>4. tsSent = totalcnt + tsConn.in
    BY <1>1, <1>3 DEF TsInv, AllAccountedFor
  <1>5. /\ tsConn' \in Conn /\ tsConn'.out = 0 /\ IsOpen(tsConn')
        /\ tsSent' \in 0..BufferLength + 1
        /\ tsSent' - tsConn'.in = tsSent - tsConn.in
    <2>1. CASE TsClientSends
      <3>1. /\ tsConn' = [tsConn EXCEPT !.in = @ + 1] /\ tsConn' \in Conn
            /\ tsSent' = tsSent + 1 /\ tsSent <= BufferLength
        BY <1>1, <2>1, PeerMoves DEF TsClientSends, TsClient, PeerSends
      <3>2. tsConn'.in = tsConn.in + 1 /\ tsConn'.out = 0 /\ tsConn'.st = tsConn.st
        BY <1>1, <3>1 DEF Conn
      <3>3. tsConn.in \in Nat
        BY <1>1 DEF Conn
      <3>4. QED
        BY <1>1, <1>2, <3>1, <3>2, <3>3 DEF IsOpen
    <2>2. CASE TsClientCloses
      <3>1. /\ tsConn' = [tsConn EXCEPT !.st = "fin"] /\ tsConn' \in Conn
            /\ tsSent' = tsSent
        BY <1>1, <2>2, PeerMoves DEF TsClientCloses, TsClient, PeerCloses
      <3>2. tsConn'.in = tsConn.in /\ tsConn'.out = 0 /\ tsConn'.st = "fin"
        BY <1>1, <3>1 DEF Conn
      <3>3. QED
        BY <1>1, <3>1, <3>2 DEF IsOpen
    <2>3. CASE TsClientResets
      <3>1. tsConn' = PeerResets(tsConn) /\ tsSent' = tsSent
        BY <2>3 DEF TsClientResets, TsClient
      <3>2. QED
        BY <1>1, <3>1 DEF PeerResets, Conn, ConnState, IsOpen
    <2>4. QED
      BY <2>1, <2>2, <2>3
  <1>6. tsConn'.in \in Nat /\ tsConn.in \in Nat /\ totalcnt \in Nat
    BY <1>1, <1>5 DEF Conn, TsInv, TsTypeOK
  <1>7. totalcnt + tsConn'.in = tsSent'
    BY <1>1, <1>4, <1>5, <1>6
  <1>8. QED
    BY <1>1, <1>3, <1>5, <1>7
       DEF TsInv, TsTypeOK, AllAccountedFor, WholeEcho, TsPhases

LEMMA TsReadsInv ==
    ASSUME TsInv, NEW k \in 1..BufferLength, TsReads(k)
    PROVE  TsInv'
  <1> USE TsAssumption, BufferAssumption
  <1>1. /\ tsConn \in Conn /\ tsAt = "read" /\ k <= tsConn.in /\ k \in 1..MaxIn
        /\ totalcnt \in 0..BufferLength /\ IsOpen(tsConn) /\ tsConn # NoConn
        /\ totalcnt' = totalcnt + k /\ totalcnt' \in 0..BufferLength
        /\ UNCHANGED <<tsStatus, tsSent>>
    BY DEF TsInv, TsTypeOK, TsPhases, TsReads, Conn, IsOpen, NoConn
  <1>2. tsConn' = [tsConn EXCEPT !.in = @ - k] /\ tsConn' \in Conn /\ IsOpen(tsConn')
    BY <1>1, ReadData DEF TsReads, AfterRecvData
  <1>3. tsConn'.in = tsConn.in - k /\ tsConn'.out = tsConn.out
        /\ tsConn.in \in Nat
    BY <1>1, <1>2 DEF Conn
  <1>4. \/ tsAt' = "write" /\ totalcnt' = BufferLength
        \/ tsAt' = "read" /\ totalcnt' < BufferLength
    BY <1>1 DEF TsReads, Filled
  <1>5. tsConn.out = 0 /\ totalcnt + tsConn.in = tsSent
    BY <1>1 DEF TsInv, WholeEcho, AllAccountedFor
  <1>6. totalcnt' + tsConn'.in = tsSent'
    BY <1>1, <1>3, <1>5
  <1>7. QED
    BY <1>1, <1>2, <1>3, <1>4, <1>5, <1>6
       DEF TsInv, TsTypeOK, AllAccountedFor, WholeEcho, TsPhases

LEMMA TsEndsInv ==
    ASSUME TsInv, TsReadEnds \/ TsWrites \/ TsWriteFails \/ TsWriteKills
    PROVE  TsInv'
  <1> USE TsAssumption, BufferAssumption
  <1>1. /\ tsConn \in Conn /\ tsAt \in {"read", "write"} /\ tsConn.out = 0
        /\ UNCHANGED <<totalcnt, tsSent>>
        /\ tsConn # NoConn /\ totalcnt + tsConn.in = tsSent
        /\ totalcnt \in 0..BufferLength /\ tsConn.in \in Nat
    BY DEF TsInv, TsTypeOK, WholeEcho, AllAccountedFor, TsReadEnds, TsWrites, TsWriteFails,
           TsWriteKills, TsExits, TsPhases, IsOpen, NoConn, Conn
  <1>2. CASE TsReadEnds \/ TsWriteFails
    <2>1. tsAt' = "exited" /\ tsStatus' = -1
      BY <1>2 DEF TsReadEnds, TsWriteFails, TsExits
    <2>2. tsConn' \in Conn /\ tsConn'.out = 0
      <3>1. CASE TsReadEnds
        BY <1>1, <3>1, FailedCalls
           DEF TsReadEnds, AfterRecvNothing, Dying, Failing, Conn
      <3>2. CASE TsWriteFails
        <4>1. SendResult(tsConn) = "error"
          BY <3>2 DEF TsWriteFails, SendResult
        <4>2. AfterSend(tsConn) = Dying(tsConn)
          BY <4>1 DEF AfterSend
        <4>3. QED
          BY <1>1, <3>2, <4>2, FailedCalls DEF TsWriteFails, Dying, Failing, Conn
      <3>3. QED
        BY <1>2, <3>1, <3>2
    <2>3. QED
      BY <1>1, <2>1, <2>2 DEF TsInv, TsTypeOK, AllAccountedFor, WholeEcho, TsPhases
  <1>3. CASE TsWrites
    <2>1. /\ tsAt' = "exited" /\ tsStatus' = 0 /\ totalcnt = BufferLength
          /\ tsConn' = [tsConn EXCEPT !.out = @ + totalcnt]
      BY <1>3 DEF TsWrites, TsExits, TsInv, WholeEcho
    <2>2. tsConn' \in Conn /\ tsConn'.out = BufferLength
      BY <1>1, <2>1 DEF Conn
    <2>3. tsSent >= BufferLength
      BY <1>1, <2>1
    <2>4. QED
      BY <1>1, <2>1, <2>2, <2>3 DEF TsInv, TsTypeOK, AllAccountedFor, WholeEcho, TsPhases
  <1>4. CASE TsWriteKills
    BY <1>1, <1>4 DEF TsWriteKills, TsInv, TsTypeOK, AllAccountedFor, WholeEcho, TsPhases
  <1>5. QED
    BY <1>2, <1>3, <1>4

LEMMA TsStepInv == TsInv /\ [TsNext]_tsVars => TsInv'
  <1> SUFFICES ASSUME TsInv, [TsNext]_tsVars PROVE TsInv'
    OBVIOUS
  <1> USE TsAssumption DEF TsTypeOK, AllAccountedFor, WholeEcho, TsPhases
  <1>1. CASE TsStartupFails \/ TsStarts \/ TsAcceptFails
    BY <1>1 DEF TsStartupFails, TsStarts, TsAcceptFails, TsExits, TsInv, NoConn
  <1>2. CASE TsAccepts
    BY <1>2, PlainConns DEF TsAccepts, TsInv, NewConn
  <1>3. CASE TsSelects
    BY <1>3 DEF TsSelects, TsInv
  <1>4. CASE TsSelectEnds
    BY <1>4, PlainConns DEF TsSelectEnds, TsExits, TsInv, NoConn
  <1>5. CASE UNCHANGED tsVars
    BY <1>5 DEF tsVars, TsInv
  <1>6. QED
    BY <1>1, <1>2, <1>3, <1>4, <1>5, TsReadsInv, TsEndsInv, TsClientInv DEF TsNext

(* tcpserver answers with one whole buffer or not at all, and loses no     *)
(* character on the way, in whatever pieces they come.                     *)
THEOREM WholeEchoOfTcpServer == TsSpec => []TsInv
  BY TsInitInv, TsStepInv, PTL DEF TsSpec

-----------------------------------------------------------------------------
(* httpget.                                                                *)

LEMMA HgInitInv == HgInit => HttpInv
  BY PlainConns, HgAssumption
     DEF HgInit, HttpInv, HgTypeOK, NothingLostOnTheWay, LogFollows, EndsForAReason,
         HgPhases, NoConn

(* An invariant of the connection's state and what it holds; the rest of   *)
(* the program stays where it is.                                          *)
LEMMA HgServerInv ==
    ASSUME HttpInv, HgServes \/ HgServerCloses \/ HgServerResets
    PROVE  HttpInv'
  <1> USE HgAssumption, BufferAssumption
  <1>1. /\ hgConn \in Conn /\ hgConn.in \in Nat /\ hgServed \in 0..HgMaxServed
        /\ UNCHANGED <<hgAt, hgTries, hgTotal, hgLog, hgWhy, hgIret>>
    BY DEF HttpInv, HgTypeOK, HgServes, HgServerCloses, HgServerResets, HgServer, Conn
  <1>2. IsOpen(hgConn)
    BY <1>1 DEF HgServes, HgServerCloses, HgServerResets, HgServer, CanPeerSend,
                CanPeerClose, CanPeerReset, IsOpen
  <1>3. hgAt # "start"
    BY <1>2, PlainConns DEF HttpInv, HgPhases
  <1>4. /\ hgConn' \in Conn /\ IsOpen(hgConn') /\ hgServed' \in 0..HgMaxServed
        /\ hgConn'.in \in Nat /\ hgServed' - hgConn'.in = hgServed - hgConn.in
        /\ hgConn.st \in {"fin", "dead"} =>
              hgConn'.st \in {"fin", "dead"} /\ hgServed' = hgServed
    <2>1. CASE HgServes
      <3>1. /\ hgConn' = [hgConn EXCEPT !.in = @ + 1] /\ hgConn' \in Conn
            /\ hgServed' = hgServed + 1 /\ hgServed < HgMaxServed /\ hgConn.st = "open"
        BY <1>1, <2>1, PeerMoves DEF HgServes, HgServer, PeerSends, CanPeerSend
      <3>2. hgConn'.in = hgConn.in + 1 /\ hgConn'.st = "open"
        BY <1>1, <3>1 DEF Conn
      <3>3. QED
        BY <1>1, <3>1, <3>2 DEF IsOpen
    <2>2. CASE HgServerCloses
      <3>1. /\ hgConn' = [hgConn EXCEPT !.st = "fin"] /\ hgConn' \in Conn
            /\ hgServed' = hgServed
        BY <1>1, <2>2, PeerMoves DEF HgServerCloses, HgServer, PeerCloses
      <3>2. hgConn'.in = hgConn.in /\ hgConn'.st = "fin"
        BY <1>1, <3>1 DEF Conn
      <3>3. QED
        BY <1>1, <3>1, <3>2 DEF IsOpen
    <2>3. CASE HgServerResets
      <3>1. hgConn' = PeerResets(hgConn) /\ hgServed' = hgServed /\ CanPeerReset(hgConn)
        BY <2>3 DEF HgServerResets, HgServer
      <3>2. hgConn' \in Conn
        BY <1>1, <3>1, PeerMoves
      <3>3. hgConn'.in = hgConn.in /\ hgConn'.st = IF hgConn.st = "open" THEN "reset" ELSE "dead"
        BY <3>1 DEF PeerResets
      <3>4. QED
        BY <1>1, <3>1, <3>2, <3>3 DEF IsOpen
    <2>4. QED
      BY <1>1, <2>1, <2>2, <2>3 DEF HgServes, HgServerCloses, HgServerResets
  <1>5. NothingLostOnTheWay'
    <2>1. hgTotal \in Nat /\ (hgAt' = hgAt /\ hgTotal' = hgTotal)
      BY <1>1 DEF HttpInv, HgTypeOK
    <2>2. QED
      BY <1>1, <1>4, <2>1 DEF HttpInv, NothingLostOnTheWay
  <1>6. HgTypeOK' /\ LogFollows'
    BY <1>1, <1>4 DEF HttpInv, HgTypeOK, LogFollows, hgLog
  <1>7. EndsForAReason' /\ HgPhases'
    BY <1>1, <1>3, <1>4 DEF HttpInv, HgPhases, EndsForAReason
  <1>8. QED
    BY <1>5, <1>6, <1>7 DEF HttpInv

(* A call that fails keeps what waits in the socket.                       *)
LEMMA FailureKeepsData ==
    ASSUME NEW c \in Conn
    PROVE  AfterRecvNothing(c).in = c.in /\ AfterSend(c).in = c.in
  <1>1. Failing(c).in = c.in /\ Dying(c).in = c.in
    BY DEF Failing, Dying, Conn
  <1>2. [c EXCEPT !.out = @ + 1].in = c.in
    BY DEF Conn
  <1>3. SendResult(c) \in {"ok", "again", "error", "sigpipe"}
    BY BufferAssumption DEF Conn, ConnState, SendResult
  <1>4. RecvResult(c) \in {"data", "error", "eof", "again"}
    BY DEF Conn, ConnState, RecvResult
  <1>5. QED
    BY <1>1, <1>2, <1>3, <1>4 DEF AfterRecvNothing, AfterSend

LEMMA HgSendsInv ==
    ASSUME HttpInv, HgRequests \/ HgRequestFails
    PROVE  HttpInv'
  <1>1. /\ hgAt = "send" /\ hgConn \in Conn /\ IsOpen(hgConn)
        /\ hgConn' = AfterSend(hgConn)
        /\ UNCHANGED <<hgServed, hgTries, hgTotal, hgLog>>
        /\ \/ hgAt' = "loop" /\ UNCHANGED <<hgWhy, hgIret>>
           \/ hgAt' = "end" /\ hgWhy' = "error" /\ hgIret' = 1
    BY DEF HttpInv, HgTypeOK, HgPhases, HgRequests, HgRequestFails, HgLeaves
  <1>2. hgConn' \in Conn /\ IsOpen(hgConn') /\ hgConn'.in = hgConn.in
    BY <1>1, FailedCalls, FailureKeepsData
  <1>3. HgTypeOK'
    BY <1>1, <1>2 DEF HttpInv, HgTypeOK, hgLog
  <1>4. NothingLostOnTheWay' /\ LogFollows' /\ EndsForAReason' /\ HgPhases'
    BY <1>1, <1>2 DEF HttpInv, NothingLostOnTheWay, LogFollows, EndsForAReason, HgPhases, hgLog
  <1>5. QED
    BY <1>3, <1>4 DEF HttpInv

LEMMA HgPassInv ==
    ASSUME HttpInv, HgTriesOver \/ HgSelects \/ HgTimesOut \/ HgSelectFails
    PROVE  HttpInv'
  <1> USE HgAssumption
  <1>1. /\ hgAt = "loop" /\ UNCHANGED <<hgConn, hgServed, hgTotal, hgLog>>
        /\ hgConn \in Conn /\ IsOpen(hgConn)
        /\ hgTries \in 0..max_tries /\ hgTries' \in 0..max_tries
    BY DEF HttpInv, HgTypeOK, HgPhases, HgTriesOver, HgSelects, HgTimesOut, HgSelectFails, HgPass
  <1>2. \/ hgAt' \in {"loop", "read"} /\ UNCHANGED <<hgWhy, hgIret>>
        \/ /\ hgAt' = "end"
           /\ \/ hgWhy' = "tries" /\ hgIret' = 0 /\ hgTries' = max_tries
              \/ hgWhy' = "quiet" /\ hgIret' = 0 /\ hgTotal > 0
              \/ hgWhy' = "error" /\ hgIret' = 1
    BY <1>1 DEF HgTriesOver, HgSelects, HgTimesOut, HgSelectFails, HgPass, HgLeaves, EndsQuietly
  <1>3. HgTypeOK'
    BY <1>1, <1>2 DEF HttpInv, HgTypeOK, hgLog
  <1>4. NothingLostOnTheWay' /\ LogFollows' /\ HgPhases'
    BY <1>1, <1>2 DEF HttpInv, NothingLostOnTheWay, LogFollows, HgPhases, hgLog
  <1>5. EndsForAReason'
    BY <1>1, <1>2 DEF EndsForAReason
  <1>6. QED
    BY <1>3, <1>4, <1>5 DEF HttpInv

LEMMA HgReadsInv ==
    ASSUME HttpInv, (\E k \in 1..MaxIn : HgReads(k)) \/ HgReadsNothing
    PROVE  HttpInv'
  <1> USE HgAssumption, BufferAssumption
  <1>1. /\ hgAt = "read" /\ hgConn \in Conn /\ IsOpen(hgConn) /\ hgConn.in \in Nat
        /\ UNCHANGED <<hgServed, hgTries>>
        /\ hgTotal + hgConn.in = hgServed
        /\ hgTotal \in 0..HgMaxServed /\ hgLogged \in 0..HgMaxServed
        /\ hgServed \in 0..HgMaxServed
    BY DEF HttpInv, HgTypeOK, HgPhases, NothingLostOnTheWay, HgReads, HgReadsNothing, Conn
  <1>2. ASSUME NEW k \in 1..MaxIn, HgReads(k)
        PROVE  HttpInv'
    <2>1. /\ k <= hgConn.in /\ hgConn' = AfterRecvData(hgConn, k)
          /\ hgTotal' = hgTotal + k /\ WritesLog(k)
          /\ hgAt' = "loop" /\ UNCHANGED <<hgWhy, hgIret>>
      BY <1>2 DEF HgReads
    <2>2. hgConn' \in Conn /\ IsOpen(hgConn')
      BY <1>1, <2>1, ReadData
    <2>3. hgConn'.in = hgConn.in - k
      BY <1>1, <2>1 DEF AfterRecvData, Conn
    <2>4. hgTotal' \in 1..HgMaxServed
      BY <1>1, <2>1
    <2>5. LogFollows' /\ hgLogged' \in 0..HgMaxServed /\ plog' \in {"open", "bad"}
      <3>1. LogFollows /\ plog \in {"none", "open", "bad"}
        BY DEF HttpInv, HgTypeOK
      <3>2. plog # "bad" => hgLogged = hgTotal
        BY <1>1, <3>1 DEF LogFollows
      <3>3. CASE plog # "bad" /\ plog' = "open" /\ hgLogged' = hgLogged + k
        BY <1>1, <2>1, <2>4, <3>2, <3>3 DEF LogFollows
      <3>4. CASE plog' = "bad" /\ UNCHANGED hgLogged
        BY <1>1, <2>1, <2>4, <3>1, <3>4 DEF LogFollows
      <3>5. QED
        BY <2>1, <3>3, <3>4 DEF WritesLog
    <2>6. HgTypeOK'
      BY <1>1, <2>1, <2>2, <2>4, <2>5 DEF HttpInv, HgTypeOK
    <2>7. NothingLostOnTheWay' /\ EndsForAReason' /\ HgPhases'
      BY <1>1, <2>1, <2>2, <2>3 DEF NothingLostOnTheWay, EndsForAReason, HgPhases
    <2>8. QED
      BY <2>5, <2>6, <2>7 DEF HttpInv
  <1>3. CASE HgReadsNothing
    <2>1. /\ hgConn' = AfterRecvNothing(hgConn) /\ UNCHANGED <<hgTotal, hgLog>>
          /\ hgAt' = "end" /\ RecvResult(hgConn) \in {"eof", "error"}
          /\ RecvResult(hgConn) = "eof" => hgWhy' = "closed" /\ hgIret' = 0
          /\ RecvResult(hgConn) = "error" => hgWhy' = "error" /\ hgIret' = 1
      BY <1>3 DEF HgReadsNothing, HgLeaves
    <2>2. hgConn' \in Conn /\ hgConn'.in = hgConn.in
      BY <1>1, <2>1, FailedCalls, FailureKeepsData
    <2>3. RecvResult(hgConn) = "eof" => hgConn.in = 0 /\ hgConn'.st \in {"fin", "dead"}
      <3> SUFFICES ASSUME RecvResult(hgConn) = "eof"
                   PROVE  hgConn.in = 0 /\ hgConn'.st \in {"fin", "dead"}
        OBVIOUS
      <3>1. hgConn.in = 0 /\ hgConn.st \in {"fin", "dead"}
        BY <1>1 DEF RecvResult, Conn, ConnState
      <3>2. hgConn' = [hgConn EXCEPT !.fails = @ + 1]
        BY <2>1 DEF AfterRecvNothing, Failing
      <3>3. QED
        BY <1>1, <3>1, <3>2 DEF Conn
    <2>4. HgTypeOK'
      BY <1>1, <2>1, <2>2 DEF HttpInv, HgTypeOK, hgLog
    <2>5. NothingLostOnTheWay' /\ LogFollows'
      BY <1>1, <2>1, <2>2 DEF HttpInv, NothingLostOnTheWay, LogFollows, hgLog
    <2>6. EndsForAReason' /\ HgPhases'
      BY <1>1, <2>1, <2>3 DEF EndsForAReason, HgPhases
    <2>7. QED
      BY <2>4, <2>5, <2>6 DEF HttpInv
  <1>4. QED
    BY <1>2, <1>3

LEMMA HgStepInv == HttpInv /\ [HgNext]_hgVars => HttpInv'
  <1> SUFFICES ASSUME HttpInv, [HgNext]_hgVars PROVE HttpInv'
    OBVIOUS
  <1> USE DEF HgTypeOK, NothingLostOnTheWay, LogFollows, EndsForAReason, HgPhases, hgLog
  <1>1. CASE (\E ret \in {0, 1} : HgStartupEnds(ret)) \/ HgRequestKills \/ HgEnds
    <2>1. /\ hgAt' \in {"exited", "killed"} /\ hgConn' \in Conn /\ hgIret' \in {0, 1}
          /\ UNCHANGED <<hgServed, hgTries, hgTotal, hgLog, hgWhy>>
      BY <1>1, PlainConns DEF HgStartupEnds, HgRequestKills, HgEnds, HttpInv
    <2>2. QED
      BY <2>1 DEF HttpInv
  <1>2. CASE HgRefused
    BY <1>2 DEF HgRefused, HgLeaves, HttpInv, NoConn
  <1>3. CASE HgConnects
    BY <1>3, PlainConns DEF HgConnects, HttpInv, NewConn
  <1>4. CASE UNCHANGED hgVars
    BY <1>4 DEF hgVars, HttpInv
  <1>5. QED
    BY <1>1, <1>2, <1>3, <1>4, HgServerInv, HgSendsInv, HgPassInv, HgReadsInv DEF HgNext

(* httpget logs and counts each piece once, and says that it has the whole *)
(* file only when it has: whatever the server sends, closes or breaks.     *)
THEOREM FileInvariantOfHttpGet == HgSpec => []HttpInv
  BY HgInitInv, HgStepInv, PTL DEF HgSpec

-----------------------------------------------------------------------------
(* ebsocket.                                                               *)

LEMMA NaturalsHaveLeast ==
    ASSUME NEW S \in SUBSET Nat, S # {}
    PROVE  \E x \in S : \A y \in S : x <= y
  <1> DEFINE R == {ss \in Nat \X Nat : ss[1] < ss[2]}
  <1>1. IsWellFoundedOn(R, Nat)
    BY NatLessThanWellFounded DEF OpToRel
  <1> HIDE DEF R
  <1>2. PICK x \in S : \A y \in S : ~(<<y, x>> \in R)
    BY <1>1, WFMin
  <1>3. \A y \in S : ~(y < x)
    BY <1>2 DEF R
  <1>4. QED
    BY <1>2, <1>3

(* socket() returns a descriptor that nobody has.                          *)
LEMMA LowestIsFree ==
    ASSUME EbFree # {}
    PROVE  /\ Lowest \in EbFds /\ Lowest \in Nat
           /\ Lowest \notin ebCallers /\ Lowest \notin ebShut /\ Lowest # listen_s
  <1>1. EbFree \in SUBSET Nat
    BY EbAssumption DEF EbFree
  <1>2. PICK x \in EbFree : \A y \in EbFree : x <= y
    BY <1>1, NaturalsHaveLeast
  <1>3. Lowest \in EbFree
    BY <1>2 DEF Lowest
  <1>4. QED
    BY <1>1, <1>3, EbAssumption DEF EbFree, EbOpen

(* One more descriptor that was only shut down.                            *)
LEMMA OneMoreShut ==
    ASSUME ebShut \subseteq EbFds, LostByShutdown, ebUnlistened \in Nat, ebFailed \in Nat,
           NEW fd, fd \notin ebShut, ebShut' = ebShut \cup {fd},
           ebUnlistened' + ebFailed' = ebUnlistened + ebFailed + 1
    PROVE  LostByShutdown'
  <1>1. IsFiniteSet(ebShut)
    BY EbAssumption, FS_Subset
  <1>2. Cardinality(ebShut') = Cardinality(ebShut) + 1
    BY <1>1, FS_AddElement
  <1>3. QED
    BY <1>2 DEF LostByShutdown

LEMMA EbInitInv == EbInit => EbInv
  <1>1. Cardinality({}) = 0 /\ -1 \notin EbFds
    BY EbAssumption, FS_EmptySet
  <1> SUFFICES ASSUME EbInit PROVE EbInv
    OBVIOUS
  <1>2. LostByShutdown
    BY <1>1 DEF EbInit, LostByShutdown
  <1>3. EbTypeOK
    <2>1. ebOnce \in BOOLEAN
      BY Zenon DEF EbInit
    <2>2. QED
      BY <2>1 DEF EbInit, EbTypeOK
  <1>4. QED
    BY <1>2, <1>3 DEF EbInit, EbInv, OneOwner, OnceLeavesNone, AtRetry

(* The calls that leave the listening socket alone.                        *)
LEMMA EbCallersInv ==
    ASSUME EbInv, TcpConnectFails \/ TcpConnect \/ \E fd \in EbFds : TcpClose(fd)
    PROVE  EbInv'
  <1> USE DEF EbTypeOK, OneOwner, OnceLeavesNone, AtRetry, ebCall
  <1>1. CASE TcpConnectFails /\ EbFree # {}
    <2>1. LostByShutdown'
      BY <1>1, LowestIsFree, OneMoreShut DEF TcpConnectFails, EbInv
    <2>2. QED
      BY <1>1, <2>1, LowestIsFree DEF TcpConnectFails, EbInv
  <1>2. CASE TcpConnectFails /\ EbFree = {}
    BY <1>2 DEF TcpConnectFails, EbInv, LostByShutdown
  <1>3. CASE TcpConnect
    BY <1>3, LowestIsFree DEF TcpConnect, EbInv, LostByShutdown
  <1>4. CASE \E fd \in EbFds : TcpClose(fd)
    BY <1>4 DEF TcpClose, EbInv, LostByShutdown
  <1>5. QED
    BY <1>1, <1>2, <1>3, <1>4

LEMMA EbListenInv ==
    ASSUME EbInv,
           \/ \E port \in EbPorts, once \in BOOLEAN : TcpListen(port, once)
           \/ ListenAgain \/ ListenOpens \/ ListenNoSocket \/ ListenFails
    PROVE  EbInv'
  <1> USE EbAssumption DEF EbTypeOK, OneOwner, OnceLeavesNone, AtRetry, ebCall
  <1>1. CASE \E port \in EbPorts, once \in BOOLEAN : TcpListen(port, once)
    BY <1>1 DEF TcpListen, EbInv, LostByShutdown
  <1>2. CASE ListenAgain
    BY <1>2 DEF ListenAgain, EbInv, LostByShutdown
  <1>3. CASE ListenOpens
    BY <1>3, LowestIsFree DEF ListenOpens, EbInv, LostByShutdown
  <1>4. CASE ListenNoSocket
    BY <1>4 DEF ListenNoSocket, EbInv, LostByShutdown
  <1>5. CASE ListenFails
    <2>1. LostByShutdown'
      BY <1>5, LowestIsFree, OneMoreShut DEF ListenFails, EbInv
    <2>2. listen_s = -1
      BY <1>5 DEF ListenFails, EbInv
    <2>3. /\ ebAt' = "idle" /\ ebShut' = ebShut \cup {Lowest}
          /\ ebUnlistened' = ebUnlistened + 1 /\ Lowest \in EbFds
          /\ Lowest \notin ebCallers /\ Lowest # listen_s
          /\ UNCHANGED <<listen_s, ebPort, ebCall, ebTries, ebCallers, ebFailed>>
      BY <1>5, LowestIsFree DEF ListenFails
    <2>4. QED
      BY <2>1, <2>2, <2>3 DEF EbInv
  <1>6. QED
    BY <1>1, <1>2, <1>3, <1>4, <1>5

(* tcp_unlisten(), by the caller or in tcp_listen().                       *)
LEMMA UnlistensKeeps ==
    ASSUME EbInv, Unlistens, listen_s \in EbFds, UNCHANGED ebFailed
    PROVE  /\ LostByShutdown' /\ ebShut' \subseteq EbFds /\ ebUnlistened' \in Nat
           /\ listen_s' = -1 /\ ebPort' = 0
           /\ ebShut' = ebShut \cup {listen_s}
  <1>1. LostByShutdown'
    <2>1. listen_s \notin ebShut
      BY DEF EbInv, OneOwner
    <2>2. QED
      BY <2>1, OneMoreShut DEF Unlistens, EbInv, EbTypeOK
  <1>2. QED
    BY <1>1 DEF Unlistens, EbInv, EbTypeOK

LEMMA EbAcceptInv ==
    ASSUME EbInv, AcceptReturns \/ AcceptFails \/ TcpUnlisten
    PROVE  EbInv'
  <1> USE EbAssumption DEF EbTypeOK, OneOwner, OnceLeavesNone, AtRetry, ebCall
  <1>1. listen_s \in EbFds
    BY DEF EbInv, AcceptReturns, AcceptFails, TcpUnlisten
  <1>2. CASE AcceptReturns
    <2>1. /\ ebAt' = "idle" /\ ebCallers' = ebCallers \cup {Lowest}
          /\ UNCHANGED <<ebCall, ebTries, ebFailed>>
          /\ Lowest \in EbFds /\ Lowest \notin ebShut /\ Lowest # listen_s
          /\ Lowest # -1
      BY <1>2, LowestIsFree DEF AcceptReturns
    <2>2. CASE EndsListening
      <3>1. /\ LostByShutdown' /\ ebShut' \subseteq EbFds /\ ebUnlistened' \in Nat
            /\ listen_s' = -1 /\ ebPort' = 0
            /\ ebShut' = ebShut \cup {listen_s}
        BY <1>1, <1>2, <2>1, <2>2, UnlistensKeeps DEF AcceptReturns
      <3>2. QED
        BY <1>1, <2>1, <3>1 DEF EbInv
    <2>3. CASE ~EndsListening
      <3>1. UNCHANGED <<listen_s, ebPort, ebShut, ebUnlistened>> /\ ~ebOnce
        BY <1>2, <2>3 DEF AcceptReturns, EndsListening
      <3>2. QED
        BY <1>1, <2>1, <3>1 DEF EbInv, LostByShutdown
    <2>4. QED
      BY <2>2, <2>3
  <1>3. CASE AcceptFails \/ TcpUnlisten
    <2>1. /\ LostByShutdown' /\ ebShut' \subseteq EbFds /\ ebUnlistened' \in Nat
          /\ listen_s' = -1 /\ ebPort' = 0
          /\ ebShut' = ebShut \cup {listen_s}
      BY <1>1, <1>3, UnlistensKeeps DEF AcceptFails, TcpUnlisten
    <2>2. UNCHANGED <<ebCall, ebCallers, ebFailed>>
      BY <1>3 DEF AcceptFails, TcpUnlisten
    <2>3. \/ ebAt' = "idle" /\ UNCHANGED ebTries
          \/ ebAt = "accept" /\ ebAt' = "listen" /\ ebTries' \in 0..2
      BY <1>3 DEF AcceptFails, TcpUnlisten, EbInv
    <2>4. -1 \notin EbFds /\ (ebAt = "accept" => ebWanted \in EbPorts)
      BY DEF AcceptFails, EbInv
    <2>5. QED
      BY <1>1, <2>1, <2>2, <2>3, <2>4 DEF EbInv
  <1>4. QED
    BY <1>2, <1>3

LEMMA EbStepInv == EbInv /\ [EbNext]_ebVars => EbInv'
  <1> SUFFICES ASSUME EbInv, [EbNext]_ebVars PROVE EbInv'
    OBVIOUS
  <1>1. CASE UNCHANGED ebVars
    BY <1>1 DEF ebVars, EbInv, EbTypeOK, OneOwner, LostByShutdown, OnceLeavesNone, AtRetry
  <1>2. QED
    BY <1>1, EbCallersInv, EbListenInv, EbAcceptInv DEF EbNext

(* Every descriptor of ebsocket has one owner, and each tcp_unlisten() and *)
(* each failed tcp_connect() takes exactly one for good, however many      *)
(* calls are made.                                                         *)
THEOREM DescriptorsOfEbsocket == EbSpec => []EbInv
  BY EbInitInv, EbStepInv, PTL DEF EbSpec

-----------------------------------------------------------------------------
(* get_connection() and make_connection().                                 *)

LEMMA GcNames ==
    /\ "server" \in GcProcs /\ L \notin GcClients /\ "none" \notin GcClients
    /\ "none" # L
    /\ \A p \in GcChildren : p \in GcProcs /\ p # "server"
    /\ \A p \in GcProcs : p = "server" \/ p \in GcChildren
  BY GcAssumption DEF GcProcs, L

LEMMA GcInitInv == GcInit => GcInv
  <1> SUFFICES ASSUME GcInit PROVE GcInv
    OBVIOUS
  <1> USE GcNames, GcAssumption
  <1>1. GcTypeOK
    BY DEF GcInit, GcTypeOK
  <1>2. \A p \in GcProcs : /\ gcAt[p] \in {"none", "socket"} /\ gcHolds[p] = {}
                           /\ gcGot[p] = "none" /\ ~gcHandler[p]
    BY DEF GcInit
  <1>3. \A c \in GcClients : mcAt[c] = "idle" /\ mcOpen[c] = 0 /\ mcTries[c] = 0
    BY DEF GcInit
  <1>4. gcAt["server"] = "socket" /\ \A p \in GcChildren : gcAt[p] = "none"
    BY DEF GcInit
  <1>5. QED
    BY <1>1, <1>2, <1>3, <1>4
       DEF GcInv, HoldsOnlyItsOwn, EachChildItsClient, HandlerClosesListener,
           NobodyLeftWaiting, GcPhases, McSockets

(* The part that is inductive by itself.                                   *)
GcCore ==
    /\ GcTypeOK /\ HoldsOnlyItsOwn /\ EachChildItsClient /\ HandlerClosesListener
    /\ GcPhases /\ McSockets

(* A connection nobody serves is held by nobody: whoever holds it serves   *)
(* it, and the server that accepts or has ended serves none.               *)
LEMMA GcCoreSuffices == GcCore => GcInv
  <1> SUFFICES ASSUME GcCore,
                      NEW c \in GcClients, mcAt[c] = "accepted",
                      gcAt["server"] \in {"accept", "exited"},
                      \A p \in GcChildren : gcGot[p] # c
               PROVE  EndIsVisible(c)
    BY DEF GcCore, GcInv, NobodyLeftWaiting
  <1>1. gcGot["server"] = "none" /\ c # "none" /\ c # L
    BY GcNames DEF GcCore, GcPhases
  <1>2. \A p \in GcProcs : c \notin gcHolds[p]
    BY <1>1, GcNames DEF GcCore, HoldsOnlyItsOwn
  <1>3. QED
    BY <1>2 DEF EndIsVisible

LEMMA GcHasCore == GcInv => GcCore
  BY DEF GcInv, GcCore

(* A process that serves a connection has it open, and its client knows it *)
(* is accepted.                                                            *)
LEMMA GotIsHeld ==
    ASSUME GcCore, NEW p \in GcProcs, gcGot[p] # "none"
    PROVE  /\ gcGot[p] \in gcHolds[p] /\ gcGot[p] \in GcClients
           /\ mcAt[gcGot[p]] = "accepted"
  <1>1. gcGot[p] \in GcClients
    BY DEF GcCore, GcTypeOK
  <1>2. CASE p = "server"
    BY <1>1, <1>2 DEF GcCore, GcPhases, GcTypeOK
  <1>3. CASE p \in GcChildren
    BY <1>1, <1>3 DEF GcCore, GcPhases, EachChildItsClient
  <1>4. QED
    BY <1>2, <1>3, GcNames

LEMMA GcEndsInv ==
    ASSUME GcCore, NEW p \in GcProcs, GcEnds(p)
    PROVE  GcCore'
  <1> USE GcNames
  <1>1. /\ gcAt' = [gcAt EXCEPT ![p] = "exited"]
        /\ gcHolds' = [gcHolds EXCEPT ![p] = {}]
        /\ gcGot' = [gcGot EXCEPT ![p] = "none"]
        /\ gcHandler' = [gcHandler EXCEPT ![p] = FALSE]
        /\ UNCHANGED <<gcType, mcVars>>
    BY DEF GcEnds
  <1>2. /\ gcAt'[p] = "exited" /\ gcHolds'[p] = {} /\ gcGot'[p] = "none"
        /\ gcHandler'[p] = FALSE
        /\ \A q \in GcProcs : q # p => /\ gcAt'[q] = gcAt[q] /\ gcHolds'[q] = gcHolds[q]
                                       /\ gcGot'[q] = gcGot[q]
                                       /\ gcHandler'[q] = gcHandler[q]
        /\ McSockets'
    BY <1>1 DEF GcCore, GcTypeOK, McSockets, mcVars
  <1>3. GcTypeOK'
    BY <1>1 DEF GcCore, GcTypeOK, mcVars
  <1>4. HoldsOnlyItsOwn' /\ HandlerClosesListener'
    BY <1>2 DEF GcCore, HoldsOnlyItsOwn, HandlerClosesListener
  <1>5. mcAt' = mcAt
    BY <1>1 DEF mcVars
  <1>6. EachChildItsClient'
    <2>1. \A q \in GcChildren : q # p => /\ gcAt'[q] = gcAt[q] /\ gcHolds'[q] = gcHolds[q]
                                         /\ gcGot'[q] = gcGot[q]
      BY <1>2
    <2>2. \A q \in GcChildren : gcAt[q] \in {"child", "returned"} => gcGot[q] # "none"
      <3>1. \A q \in GcChildren : gcAt[q] \in {"child", "returned"} =>
                gcGot[q] \in gcHolds[q] /\ gcHolds[q] \subseteq GcClients \cup {L}
        BY DEF GcCore, EachChildItsClient, GcTypeOK
      <3>2. QED
        BY <3>1
    <2>3. QED
      BY <1>2, <1>5, <2>1, <2>2 DEF GcCore, EachChildItsClient
  <1>7. GcPhases'
    <2>1. CASE p = "server"
      BY <1>2, <2>1 DEF GcCore, GcPhases
    <2>2. CASE p # "server"
      <3>1. /\ gcAt'["server"] = gcAt["server"] /\ gcGot'["server"] = gcGot["server"]
            /\ gcHolds'["server"] = gcHolds["server"]
        BY <1>2, <2>2
      <3>2. gcAt["server"] = "fork" => gcGot["server"] # "none"
        BY DEF GcCore, GcPhases, GcTypeOK
      <3>3. QED
        BY <1>2, <1>5, <2>2, <3>1, <3>2 DEF GcCore, GcPhases
    <2>3. QED
      BY <2>1, <2>2
  <1>8. QED
    BY <1>2, <1>3, <1>4, <1>6, <1>7 DEF GcCore

(* The server's own steps that touch no connection.                        *)
LEMMA GcServerInv ==
    ASSUME GcCore, GcOpensSocket \/ GcBinds
    PROVE  GcCore'
  <1> USE GcNames
  <1>1. GcTypeOK'
    <2>1. CASE GcOpensSocket
      BY <2>1 DEF GcCore, GcTypeOK, GcOpensSocket, mcVars
    <2>2. CASE GcBinds
      BY <2>2 DEF GcCore, GcTypeOK, GcBinds, mcVars
    <2>3. QED
      BY <2>1, <2>2
  <1>2. /\ \A q \in GcChildren : gcAt'[q] = gcAt[q] /\ gcHolds'[q] = gcHolds[q]
                                 /\ gcHandler'[q] = gcHandler[q]
        /\ gcGot' = gcGot /\ gcGot["server"] = "none" /\ UNCHANGED mcVars
        /\ gcAt'["server"] \in {"bind", "accept", "returned"}
        /\ gcHolds'["server"] \ {L} = {}
        /\ gcHandler'["server"] => L \in gcHolds'["server"]
    <2>1. CASE GcOpensSocket
      BY <2>1 DEF GcOpensSocket, GcCore, GcTypeOK, GcPhases
    <2>2. CASE GcBinds
      <3>1. gcGot["server"] = "none" /\ UNCHANGED <<gcHolds, gcGot, gcHandler, mcVars>>
        BY <2>2 DEF GcBinds, GcCore, GcPhases
      <3>2. gcHolds["server"] \ {L} = {}
        BY <3>1 DEF GcCore, HoldsOnlyItsOwn, GcTypeOK
      <3>3. QED
        BY <2>2, <3>1, <3>2 DEF GcBinds, GcCore, GcTypeOK, HandlerClosesListener
    <2>3. QED
      BY <2>1, <2>2
  <1>3. HoldsOnlyItsOwn' /\ HandlerClosesListener'
    BY <1>2 DEF GcCore, HoldsOnlyItsOwn, HandlerClosesListener
  <1>4. EachChildItsClient'
    BY <1>2 DEF GcCore, EachChildItsClient, mcVars
  <1>5. GcPhases' /\ McSockets'
    BY <1>2 DEF GcCore, GcPhases, McSockets, mcVars
  <1>6. QED
    BY <1>1, <1>3, <1>4, <1>5 DEF GcCore

LEMMA GcAcceptsInv ==
    ASSUME GcCore, NEW c \in GcClients, GcAccepts(c)
    PROVE  GcCore'
  <1> USE GcNames DEF GcAccepts
  <1>1. GcTypeOK'
    BY DEF GcCore, GcTypeOK
  <1>2. /\ \A q \in GcChildren : gcAt'[q] = gcAt[q] /\ gcGot'[q] = gcGot[q]
                                 /\ gcHolds'[q] = gcHolds[q]
        /\ gcGot["server"] = "none" /\ gcGot'["server"] = c
        /\ gcHolds'["server"] = gcHolds["server"] \cup {c}
        /\ gcAt'["server"] = "fork" /\ gcHandler' = gcHandler
        /\ mcAt'[c] = "accepted" /\ mcAt[c] = "waiting"
        /\ \A d \in GcClients : d # c => mcAt'[d] = mcAt[d]
    BY DEF GcCore, GcTypeOK, GcPhases
  <1>3. \A p \in GcProcs : gcGot[p] # c
    BY <1>2, GotIsHeld
  <1>4. HoldsOnlyItsOwn' /\ HandlerClosesListener'
    <2>1. gcHolds["server"] \ {L} = {}
      BY <1>2 DEF GcCore, HoldsOnlyItsOwn, GcTypeOK
    <2>2. QED
      BY <1>2, <2>1 DEF GcCore, HoldsOnlyItsOwn, HandlerClosesListener
  <1>5. EachChildItsClient'
    <2>1. \A p \in GcChildren : gcAt[p] \in {"child", "returned"} =>
              gcGot[p] \in GcClients
      BY GotIsHeld DEF GcCore, EachChildItsClient, GcTypeOK
    <2>2. QED
      BY <1>2, <1>3, <2>1 DEF GcCore, EachChildItsClient
  <1>6. GcPhases'
    BY <1>2, <1>3 DEF GcCore, GcPhases
  <1>7. McSockets'
    BY <1>2 DEF GcCore, McSockets
  <1>8. QED
    BY <1>1, <1>4, <1>5, <1>6, <1>7 DEF GcCore

(* fork(): the child has what the server has, and no child had it before.  *)
LEMMA GcForksInv ==
    ASSUME GcCore, NEW p \in GcProcs, GcForks(p)
    PROVE  GcCore'
  <1> USE GcNames
  <1>1. /\ p \in GcChildren /\ p # "server" /\ gcAt["server"] = "fork" /\ gcAt[p] = "none"
        /\ UNCHANGED <<gcType, mcAt, mcOpen, mcTries>>
    BY DEF GcForks, GcCore, GcPhases, mcVars
  <1>2. /\ gcAt'["server"] = "parent" /\ gcAt'[p] = "child"
        /\ gcHolds'[p] = gcHolds["server"] /\ gcGot'[p] = gcGot["server"]
        /\ gcHandler'[p] = gcHandler["server"]
        /\ \A q \in GcProcs : q # p => /\ gcHolds'[q] = gcHolds[q] /\ gcGot'[q] = gcGot[q]
                                       /\ gcHandler'[q] = gcHandler[q]
                                       /\ q # "server" => gcAt'[q] = gcAt[q]
    BY <1>1 DEF GcForks, GcCore, GcTypeOK
  <1>3. GcTypeOK'
    <2>1. /\ gcHolds["server"] \subseteq GcClients \cup {L}
          /\ gcGot["server"] \in GcClients \cup {"none"}
          /\ gcHandler["server"] \in BOOLEAN
      BY DEF GcCore, GcTypeOK
    <2>2. /\ gcHolds' \in [GcProcs -> SUBSET (GcClients \cup {L})]
          /\ gcGot' \in [GcProcs -> GcClients \cup {"none"}]
          /\ gcHandler' \in [GcProcs -> BOOLEAN]
      BY <2>1 DEF GcForks, GcCore, GcTypeOK
    <2>3. gcAt' \in [GcProcs -> {"none", "socket", "bind", "accept", "fork", "parent", "child",
                                 "returned", "exited"}]
      BY DEF GcForks, GcCore, GcTypeOK
    <2>4. QED
      BY <1>1, <2>2, <2>3 DEF GcCore, GcTypeOK
  <1>4. HoldsOnlyItsOwn' /\ HandlerClosesListener'
    BY <1>2 DEF GcCore, HoldsOnlyItsOwn, HandlerClosesListener
  <1>5. /\ gcGot["server"] \in GcClients /\ gcGot["server"] \in gcHolds["server"]
        /\ gcGot["server"] # L /\ mcAt[gcGot["server"]] = "accepted"
        /\ \A q \in GcChildren : gcGot[q] # gcGot["server"]
    BY <1>1, GotIsHeld DEF GcCore, GcPhases, GcTypeOK
  <1>6. EachChildItsClient'
    BY <1>1, <1>2, <1>5 DEF GcCore, EachChildItsClient
  <1>7. GcPhases'
    BY <1>1, <1>2, <1>5 DEF GcCore, GcPhases
  <1>8. McSockets'
    BY <1>1 DEF GcCore, McSockets
  <1>9. QED
    BY <1>3, <1>4, <1>6, <1>7, <1>8 DEF GcCore

(* The close() of one descriptor behind fork(), in either process.         *)
LEMMA GcParentInv ==
    ASSUME GcCore, GcParentGoesOn
    PROVE  GcCore'
  <1> USE GcNames DEF KeepsInParent
  <1>1. /\ gcAt["server"] \in {"fork", "parent"}
        /\ gcHandler' = gcHandler /\ UNCHANGED <<gcType, mcAt, mcOpen, mcTries>>
    BY DEF GcParentGoesOn, mcVars
  <1>2. /\ gcAt'["server"] = "accept" /\ gcGot'["server"] = "none"
        /\ gcHolds'["server"] = gcHolds["server"] \ {gcGot["server"]}
        /\ \A q \in GcChildren : /\ gcAt'[q] = gcAt[q] /\ gcHolds'[q] = gcHolds[q]
                                 /\ gcGot'[q] = gcGot[q]
    BY DEF GcParentGoesOn, GcCore, GcTypeOK
  <1>3. gcHolds["server"] \ {gcGot["server"]} \subseteq {L} /\ gcGot["server"] # L
    BY <1>1 DEF GcCore, HoldsOnlyItsOwn, GcPhases
  <1>4. GcTypeOK'
    <2>1. gcHolds["server"] \ {gcGot["server"]} \subseteq GcClients \cup {L}
      BY DEF GcCore, GcTypeOK
    <2>2. QED
      BY <1>1, <2>1 DEF GcParentGoesOn, GcCore, GcTypeOK
  <1>5. HoldsOnlyItsOwn' /\ HandlerClosesListener'
    BY <1>1, <1>2, <1>3 DEF GcCore, HoldsOnlyItsOwn, HandlerClosesListener
  <1>6. EachChildItsClient'
    BY <1>1, <1>2 DEF GcCore, EachChildItsClient
  <1>7. GcPhases' /\ McSockets'
    BY <1>1, <1>2 DEF GcCore, GcPhases, McSockets
  <1>8. QED
    BY <1>4, <1>5, <1>6, <1>7 DEF GcCore

LEMMA GcChildInv ==
    ASSUME GcCore, NEW p \in GcProcs, GcChildReturns(p)
    PROVE  GcCore'
  <1> USE GcNames
  <1>1. /\ p \in GcChildren /\ p # "server" /\ gcAt[p] = "child"
        /\ gcAt' = [gcAt EXCEPT ![p] = "returned"]
        /\ gcHolds' = [gcHolds EXCEPT ![p] = gcHolds[p] \ {L}]
        /\ gcGot' = gcGot /\ gcGot' = [gcGot EXCEPT ![p] = gcGot[p]]
        /\ gcHandler' = [gcHandler EXCEPT ![p] = FALSE]
        /\ UNCHANGED <<gcType, mcVars>>
    BY DEF GcChildReturns, GcCore, GcPhases, GcTypeOK
  <1>2. /\ gcAt'[p] = "returned" /\ gcHolds'[p] = gcHolds[p] \ {L}
        /\ gcHandler'[p] = FALSE
        /\ \A q \in GcProcs : q # p => /\ gcAt'[q] = gcAt[q] /\ gcHolds'[q] = gcHolds[q]
                                       /\ gcHandler'[q] = gcHandler[q]
        /\ McSockets'
    BY <1>1 DEF GcCore, GcTypeOK, McSockets, mcVars
  <1>3. GcTypeOK'
    BY <1>1 DEF GcCore, GcTypeOK, mcVars
  <1>4. HoldsOnlyItsOwn' /\ HandlerClosesListener'
    BY <1>1, <1>2 DEF GcCore, HoldsOnlyItsOwn, HandlerClosesListener
  <1>5. gcGot[p] \in GcClients /\ gcGot[p] # L
    BY <1>1 DEF GcCore, EachChildItsClient, GcTypeOK, HoldsOnlyItsOwn
  <1>6. EachChildItsClient'
    BY <1>1, <1>2, <1>5 DEF GcCore, EachChildItsClient, mcVars
  <1>7. GcPhases'
    BY <1>1, <1>2 DEF GcCore, GcPhases, mcVars
  <1>8. QED
    BY <1>2, <1>3, <1>4, <1>6, <1>7 DEF GcCore

-----------------------------------------------------------------------------
(* A client that has not been accepted, or no longer is served, may do     *)
(* what it likes.                                                          *)
LEMMA McInv ==
    ASSUME GcCore, NEW c \in GcClients,
           McUnknown(c) \/ McFails(c) \/ McConnects(c) \/ McBinds(c) \/ McSeesEnd(c)
    PROVE  GcCore'
  <1> USE GcNames, GcAssumption
  <1>1. UNCHANGED <<gcType, gcAt, gcHolds, gcGot, gcHandler>>
    BY DEF McUnknown, McFails, McConnects, McBinds, McSeesEnd
  <1>2. /\ mcOpen[c] \in Nat /\ mcTries[c] \in 0..McMaxTries /\ mcOpen[c] <= mcTries[c]
        /\ mcAt[c] # "idle" => mcOpen[c] > 0
    BY DEF GcCore, GcTypeOK, McSockets
  <1>3. \A p \in GcProcs : gcGot[p] # c
    <2>1. CASE mcAt[c] # "accepted"
      BY <2>1, GotIsHeld
    <2>2. CASE \A p \in GcProcs : c \notin gcHolds[p]
      BY <2>2, GotIsHeld
    <2>3. QED
      BY <2>1, <2>2 DEF McUnknown, McFails, McConnects, McBinds, McSeesEnd, McCalls, EndIsVisible
  <1>4. /\ \A d \in GcClients : d # c => /\ mcAt'[d] = mcAt[d] /\ mcOpen'[d] = mcOpen[d]
                                         /\ mcTries'[d] = mcTries[d]
        /\ mcAt'[c] \in {"idle", "waiting", "bound"}
        /\ mcOpen'[c] \in 0..McMaxTries /\ mcOpen'[c] <= mcTries'[c]
        /\ mcTries'[c] \in 0..McMaxTries
        /\ mcAt'[c] # "idle" => mcOpen'[c] > 0
    <2>1. CASE McUnknown(c)
      BY <1>2, <2>1 DEF McUnknown, McCalls, GcCore, GcTypeOK
    <2>2. CASE McFails(c)
      BY <1>2, <2>2 DEF McFails, McCalls, GcCore, GcTypeOK
    <2>3. CASE McConnects(c)
      BY <1>2, <2>3 DEF McConnects, McCalls, GcCore, GcTypeOK
    <2>4. CASE McBinds(c)
      BY <1>2, <2>4 DEF McBinds, McCalls, GcCore, GcTypeOK
    <2>5. CASE McSeesEnd(c)
      BY <1>2, <2>5 DEF McSeesEnd, EndIsVisible, GcCore, GcTypeOK
    <2>6. QED
      BY <2>1, <2>2, <2>3, <2>4, <2>5
  <1>5. /\ mcAt' \in [GcClients -> {"idle", "waiting", "accepted", "bound"}]
        /\ mcTries' \in [GcClients -> 0..McMaxTries]
        /\ mcOpen' \in [GcClients -> 0..McMaxTries]
    <2>1. /\ mcAt' = [mcAt EXCEPT ![c] = mcAt'[c]]
          /\ mcTries' = [mcTries EXCEPT ![c] = mcTries'[c]]
          /\ mcOpen' = [mcOpen EXCEPT ![c] = mcOpen'[c]]
      BY DEF McUnknown, McFails, McConnects, McBinds, McSeesEnd, McCalls, GcCore, GcTypeOK
    <2> HIDE DEF GcTypeOK
    <2>2. QED
      BY <1>4, <2>1 DEF GcCore, GcTypeOK
  <1>6. GcTypeOK' /\ HoldsOnlyItsOwn' /\ HandlerClosesListener'
    BY <1>1, <1>5 DEF GcCore, GcTypeOK, HoldsOnlyItsOwn, HandlerClosesListener
  <1>7. \A p \in GcProcs : gcGot[p] \in GcClients => mcAt'[gcGot[p]] = mcAt[gcGot[p]]
    BY <1>3, <1>4
  <1>8. EachChildItsClient' /\ GcPhases'
    <2>1. \A p \in GcProcs : gcGot[p] \in GcClients \/ gcGot[p] = "none"
      BY DEF GcCore, GcTypeOK
    <2>2. \A p \in GcProcs : gcHolds[p] \subseteq GcClients \cup {L}
      BY DEF GcCore, GcTypeOK
    <2>3. EachChildItsClient'
      BY <1>1, <1>7, <2>1, <2>2 DEF GcCore, EachChildItsClient
    <2>4. GcPhases'
      BY <1>1, <1>7, <2>1, <2>2 DEF GcCore, GcPhases
    <2>5. QED
      BY <2>3, <2>4
  <1>9. McSockets'
    BY <1>4 DEF GcCore, McSockets
  <1>10. QED
    BY <1>6, <1>8, <1>9 DEF GcCore

LEMMA GcStepInv == GcInv /\ [GcNext]_gcVars => GcInv'
  <1> SUFFICES ASSUME GcInv, [GcNext]_gcVars PROVE GcCore'
    BY GcCoreSuffices, PTL
  <1>1. GcCore
    BY GcHasCore
  <1>2. CASE UNCHANGED gcVars
    BY <1>1, <1>2
       DEF gcVars, GcCore, GcTypeOK, HoldsOnlyItsOwn, EachChildItsClient,
           HandlerClosesListener, GcPhases, McSockets
  <1>3. QED
    BY <1>1, <1>2, GcServerInv, GcParentInv, GcEndsInv, GcForksInv, GcChildInv,
       GcAcceptsInv, McInv DEF GcNext

(* get_connection(): each child serves one connection that no other        *)
(* process keeps open, so that its client sees the end of it, however the  *)
(* processes and the signals interleave, for any number of each.           *)
THEOREM ConnectionsOfGetConnection == GcSpec => []GcInv
  BY GcInitInv, GcStepInv, PTL DEF GcSpec

-----------------------------------------------------------------------------
(* The programs together, as they are checked: none is disturbed by the    *)
(* steps of another.                                                       *)
LEMMA ListenStep == ListenInv /\ [StreamsNext]_streamsVars => ListenInv'
  <1> SUFFICES ASSUME ListenInv, [StreamsNext]_streamsVars PROVE ListenInv'
    OBVIOUS
  <1>1. [GcNext]_gcVars
    BY DEF StreamsNext, streamsVars, ScOnly, UxOnly, UcOnly, NcOnly, TrOnly, GcOnly, EbOnly, HgOnly, TsOnly
  <1>2. [EbNext]_ebVars
    BY DEF StreamsNext, streamsVars, ScOnly, UxOnly, UcOnly, NcOnly, TrOnly, GcOnly, EbOnly, HgOnly, TsOnly
  <1>3. QED
    BY <1>1, <1>2, GcStepInv, EbStepInv DEF ListenInv

(* The life of descriptors and connections in sockhelp.c and ebsocket.c.   *)
THEOREM ListenInvariant == StreamsSpec => []ListenInv
  BY GcInitInv, EbInitInv, ListenStep, PTL DEF StreamsSpec, StreamsInit, ListenInv
=============================================================================
