-------------------------- MODULE NbServerProofs ---------------------------
(***************************************************************************)
(* Proofs about NbServer for every number of slots and descriptors, every  *)
(* line length, backlog and buffer size: NbInv is inductive, so that each  *)
(* of its parts is an invariant, and the server implements ConnTable.      *)
(***************************************************************************)
EXTENDS NbServer, TcpConnProofs

(* What the invariant says of the slot read_socks() is at.                 *)
LEMMA AtSlot ==
    ASSUME NbInv, pc \in {"gets", "reply", "drop"}
    PROVE  /\ listnum \in Slots
           /\ Fd \in FreeFds
           /\ Fd # 0
           /\ conn[Fd] \in Conn
           /\ IsOpen(conn[Fd])
           /\ sock = ListenFd
           /\ connection = 0
  BY NbAssumption
     DEF NbInv, TypeOK, Phases, SlotsMatchKernel, Tracked, Fd, Stopped, Slots

(* Steps that touch neither the slots nor the connections.                 *)
LEMMA SameSlots ==
    ASSUME NbInv, UNCHANGED <<connectlist, conn, connection>>
    PROVE  SlotsMatchKernel'
  BY DEF NbInv, SlotsMatchKernel, Tracked

(* Steps that change one connection and keep it open.                      *)
LEMMA OneConnChanged ==
    ASSUME NbInv, NEW f \in FreeFds, NEW c \in Conn,
           conn' = [conn EXCEPT ![f] = c],
           IsOpen(conn[f]) <=> IsOpen(c),
           UNCHANGED <<connectlist, connection>>
    PROVE  /\ conn' \in [FreeFds -> Conn]
           /\ SlotsMatchKernel'
  <1>1. /\ conn' \in [FreeFds -> Conn]
        /\ \A g \in FreeFds : IsOpen(conn'[g]) <=> IsOpen(conn[g])
    BY DEF NbInv, TypeOK
  <1>2. SlotsMatchKernel'
    BY <1>1 DEF NbInv, SlotsMatchKernel, Tracked
  <1>3. QED
    BY <1>1, <1>2

LEMMA InitInv == Init => NbInv
  <1> SUFFICES ASSUME Init PROVE NbInv
    OBVIOUS
  <1> USE NbAssumption, PlainConns DEF Init, NoClients, NoConns, NoInput
  <1>1. TypeOK
    BY DEF TypeOK, NoConn
  <1>2. SlotsMatchKernel
    BY DEF SlotsMatchKernel, Tracked, Slots
  <1>3. QED
    BY <1>1, <1>2 DEF NbInv, SelectNotStale, Phases, PassInv, NothingLeftOver, Stopped

LEMMA StartupInv ==
    ASSUME NbInv, StartupEnds \/ StartupDone
    PROVE  NbInv'
  <1> USE DEF StartupEnds, StartupDone, passVars, readVars, kernelVars, boundVars
  <1>1. /\ pc = "start" /\ pc' \in {"select", "end"}
        /\ sock' \in {NoSock, ListenFd} /\ (pc' = "select" => sock' = ListenFd)
        /\ highsock' \in {highsock, ListenFd}
        /\ connectlist' \in {connectlist, NoClients}
        /\ UNCHANGED <<socks, connection, listnum, rlen, last_read, conn, input,
                       backlog, connects, sends>>
    OBVIOUS
  <1>2. connectlist = NoClients /\ connectlist' = NoClients
    BY <1>1 DEF NbInv, Phases
  <1>3. TypeOK'
    <2>1. UNCHANGED connectlist
      BY <1>2
    <2>2. QED
      BY <1>1, <2>1, NbAssumption DEF NbInv, TypeOK
  <1>4. SlotsMatchKernel'
    BY <1>1, <1>2, SameSlots
  <1>5. SelectNotStale' /\ Phases' /\ PassInv' /\ NothingLeftOver'
    BY <1>1, <1>2, NbAssumption
       DEF NbInv, SelectNotStale, Phases, PassInv, NothingLeftOver, Stopped, NoSock
  <1>6. QED
    BY <1>3, <1>4, <1>5 DEF NbInv

LEMMA SelectInv ==
    ASSUME NbInv, SelectReturns \/ SelectFails
    PROVE  NbInv'
  <1> USE DEF SelectReturns, SelectFails, passVars, readVars, kernelVars, boundVars
  <1>1. highsock' \in {0, ListenFd} \cup FreeFds
    BY DEF RaisedHighsock, NbInv, TypeOK, Tracked
  <1>2. /\ pc = "select" /\ pc' \in {"keys", "accept", "scan", "end"}
        /\ sock = ListenFd
        /\ UNCHANGED <<sock, connectlist, connection, rlen, last_read, conn, input,
                       backlog, connects, sends>>
    BY DEF NbInv, Phases, Stopped
  <1>3. socks' \subseteq FreeFds \cup {ListenFd} /\ listnum' \in Nat \ {0}
    BY <1>2 DEF SelectResult, NbInv, TypeOK, Tracked
  <1>4. TypeOK'
    BY <1>1, <1>2, <1>3 DEF NbInv, TypeOK
  <1>5. SlotsMatchKernel'
    BY <1>2, SameSlots
  <1>6. SelectNotStale'
    <2> SUFFICES ASSUME pc' \in {"accept", "scan"}, NEW k \in Slots,
                        connectlist[k] # 0, connectlist[k] \in socks'
                 PROVE  Readable(conn[connectlist[k]])
      BY <1>2 DEF SelectNotStale, IsPending
    <2>1. connectlist[k] \in FreeFds /\ connectlist[k] # sock
      BY <1>2, NbAssumption DEF NbInv, TypeOK
    <2>2. QED
      BY <2>1, <1>2 DEF SelectResult, IsReady
  <1>7. Phases' /\ PassInv' /\ NothingLeftOver'
    <2>1. pc' = "accept" => socks' \subseteq {sock'} \cup Tracked'
      BY <1>2 DEF SelectResult, Tracked
    <2>2. QED
      BY <1>2, <2>1 DEF NbInv, Phases, PassInv, NothingLeftOver, Stopped
  <1>8. QED
    BY <1>4, <1>5, <1>6, <1>7 DEF NbInv

(* Steps that only move the program counter, and reads that begin.         *)
LEMMA QuietInv ==
    ASSUME NbInv,
           \/ \E k \in Slots : ReadSlot(k)
           \/ FinishScan
           \/ \E esc \in BOOLEAN : CheckKeys(esc)
    PROVE  NbInv'
  <1> USE DEF passVars, readVars, kernelVars, boundVars
  <1>1. CASE \E k \in Slots : ReadSlot(k)
    <2> PICK k \in Slots : ReadSlot(k)
      BY <1>1
    <2> USE DEF ReadSlot
    <2>1. IsPending(k) /\ listnum' = k /\ pc = "scan" /\ pc' = "gets"
      BY DEF IsNext
    <2>2. TypeOK'
      BY NbAssumption DEF NbInv, TypeOK, Slots
    <2>3. SlotsMatchKernel'
      BY SameSlots
    <2>4. SelectNotStale'
      BY DEF SelectNotStale
    <2>5. Phases'
      BY <2>1 DEF NbInv, Phases, IsPending, Tracked, Fd, Stopped, NoClients
    <2>6. PassInv'
      <3> SUFFICES ASSUME NEW j \in Slots, j > k, connectlist[j] # 0,
                          connectlist[j] \in socks
                   PROVE  Readable(conn[connectlist[j]])
        BY DEF PassInv
      <3>1. j >= listnum
        BY <2>1 DEF IsPending, NbInv, TypeOK, Slots
      <3>2. QED
        BY <3>1, <2>1 DEF IsPending, NbInv, SelectNotStale
    <2>7. NothingLeftOver'
      BY DEF NbInv, NothingLeftOver
    <2>8. QED
      BY <2>2, <2>3, <2>4, <2>5, <2>6, <2>7 DEF NbInv
  <1>2. CASE FinishScan \/ \E esc \in BOOLEAN : CheckKeys(esc)
    <2>1. /\ pc \in {"scan", "keys"} /\ pc' \in {"keys", "select", "end"}
          /\ UNCHANGED <<sock, highsock, connectlist, socks, connection, listnum,
                         rlen, last_read, conn, input, backlog, connects, sends>>
      BY <1>2 DEF FinishScan, CheckKeys
    <2>2. TypeOK'
      BY <2>1 DEF NbInv, TypeOK
    <2>3. SlotsMatchKernel'
      BY <2>1, SameSlots
    <2>4. SelectNotStale' /\ Phases' /\ PassInv' /\ NothingLeftOver'
      BY <2>1 DEF NbInv, SelectNotStale, Phases, PassInv, NothingLeftOver, Stopped, NoClients
    <2>5. QED
      BY <2>2, <2>3, <2>4 DEF NbInv
  <1>3. QED
    BY <1>1, <1>2

-----------------------------------------------------------------------------
(* handle_new_connection().                                                *)

LEMMA AcceptInv ==
    ASSUME NbInv, AcceptClient
    PROVE  NbInv'
  <1> USE DEF AcceptClient, readVars, boundVars
  <1> PICK f \in LowestUnused :
        /\ conn' = [conn EXCEPT ![f] = NewConn]
        /\ \/ \E k \in FreeSlot :
                 /\ connectlist' = [connectlist EXCEPT ![k] = f]
                 /\ pc' = "scan"
                 /\ UNCHANGED connection
           \/ /\ FreeSlot = {}
              /\ connection' = f
              /\ pc' = "refuse"
              /\ UNCHANGED connectlist
    OBVIOUS
  <1>1. f \in FreeFds /\ f # 0 /\ ~IsOpen(conn[f]) /\ f \notin Tracked
    BY NbAssumption DEF LowestUnused, Unused, NbInv, SlotsMatchKernel
  <1>2. /\ pc = "accept" /\ pc' \in {"scan", "refuse"}
        /\ sock = ListenFd /\ connection = 0
        /\ UNCHANGED <<sock, highsock, socks, listnum, rlen, last_read, input,
                       connects, sends>>
    BY DEF NbInv, Phases, Stopped
  <1>3. /\ conn' \in [FreeFds -> Conn]
        /\ conn'[f] = NewConn
        /\ \A g \in FreeFds : g # f => conn'[g] = conn[g]
    BY <1>1, PlainConns DEF NbInv, TypeOK
  <1>4. {g \in FreeFds : IsOpen(conn'[g])} = {g \in FreeFds : IsOpen(conn[g])} \cup {f}
    BY <1>1, <1>3, PlainConns
  <1>5. Len(<<>>) = 0 /\ NewConn.in = 0 /\ input[f] = <<>>
    BY <1>1 DEF NewConn, NbInv, NothingLeftOver
  <1>6. TypeOK'
    <2>1. connectlist' \in [Slots -> {0} \cup FreeFds] /\ connection' \in {0} \cup FreeFds
      <3>1. CASE UNCHANGED connectlist /\ connection' = f
        BY <1>1, <3>1 DEF NbInv, TypeOK
      <3>2. CASE \E k \in FreeSlot : connectlist' = [connectlist EXCEPT ![k] = f]
                                     /\ UNCHANGED connection
        BY <1>1, <3>2 DEF NbInv, TypeOK, FreeSlot
      <3>3. QED
        BY <3>1, <3>2
    <2>2. backlog' \in 0..Backlog
      BY NbAssumption DEF NbInv, TypeOK
    <2>3. \A g \in FreeFds : Len(input[g]) = conn'[g].in
      BY <1>3, <1>5 DEF NbInv, TypeOK
    <2>4. QED
      BY <1>2, <1>3, <2>1, <2>2, <2>3 DEF NbInv, TypeOK
  <1>7. CASE \E k \in FreeSlot : /\ connectlist' = [connectlist EXCEPT ![k] = f]
                                 /\ pc' = "scan"
                                 /\ UNCHANGED connection
    <2> PICK k \in FreeSlot : /\ connectlist' = [connectlist EXCEPT ![k] = f]
                              /\ pc' = "scan"
                              /\ UNCHANGED connection
      BY <1>7
    <2>1. /\ k \in Slots /\ connectlist[k] = 0 /\ connectlist'[k] = f
          /\ \A j \in Slots : j # k => connectlist'[j] = connectlist[j]
      BY DEF FreeSlot, NbInv, TypeOK
    <2>2. Tracked' = Tracked \cup {f}
      BY <1>1, <2>1 DEF Tracked
    <2>3. SlotsMatchKernel'
      <3>1. {g \in FreeFds : IsOpen(conn'[g])} = Tracked' \cup ({connection'} \ {0})
        BY <1>2, <1>4, <2>2 DEF NbInv, SlotsMatchKernel
      <3>2. connection' \notin Tracked'
        BY <1>1, <1>2, <2>2 DEF NbInv, SlotsMatchKernel
      <3>3. \A i, j \in Slots : connectlist'[i] = connectlist'[j] =>
                                  i = j \/ connectlist'[i] = 0
        BY <1>1, <2>1 DEF NbInv, SlotsMatchKernel, Tracked
      <3>4. QED
        BY <3>1, <3>2, <3>3 DEF SlotsMatchKernel
    <2>4. SelectNotStale'
      <3> SUFFICES ASSUME NEW j \in Slots, j >= listnum, connectlist'[j] # 0,
                          connectlist'[j] \in socks
                   PROVE  Readable(conn'[connectlist'[j]])
        BY <1>2 DEF SelectNotStale, IsPending
      <3>1. connectlist'[j] # f
        BY <1>1, <1>2, NbAssumption DEF NbInv, PassInv
      <3>2. j # k
        BY <2>1, <3>1
      <3>3. connectlist'[j] = connectlist[j] /\ connectlist[j] \in FreeFds
        BY <2>1, <3>2 DEF NbInv, TypeOK
      <3>4. Readable(conn[connectlist[j]])
        BY <1>2, <3>3 DEF NbInv, SelectNotStale, IsPending
      <3>5. QED
        BY <1>3, <3>1, <3>3, <3>4
    <2>5. Phases'
      BY <1>2, NbAssumption DEF NbInv, Phases, Stopped, NoSock
    <2>6. PassInv' /\ NothingLeftOver'
      BY <1>2, <1>3, PlainConns DEF NbInv, PassInv, NothingLeftOver
    <2>7. QED
      BY <1>6, <2>3, <2>4, <2>5, <2>6 DEF NbInv
  <1>8. CASE FreeSlot = {} /\ connection' = f /\ pc' = "refuse" /\ UNCHANGED connectlist
    <2>1. SlotsMatchKernel'
      BY <1>1, <1>2, <1>4, <1>8 DEF NbInv, SlotsMatchKernel, Tracked
    <2>2. SelectNotStale'
      <3>1. \A j \in Slots : connectlist[j] # 0 =>
               connectlist[j] # f /\ connectlist[j] \in FreeFds
        BY <1>1 DEF Tracked, NbInv, TypeOK
      <3>2. QED
        BY <1>2, <1>3, <1>8, <3>1 DEF SelectNotStale, IsPending, NbInv
    <2>3. Phases' /\ PassInv' /\ NothingLeftOver'
      BY <1>1, <1>2, <1>3, <1>8, NbAssumption
         DEF NbInv, Phases, PassInv, NothingLeftOver, Stopped, NoSock
    <2>4. QED
      BY <1>6, <2>1, <2>2, <2>3 DEF NbInv
  <1>9. QED
    BY <1>7, <1>8

(* Closing a connection that has no slot: nobody looks at it any more.     *)
LEMMA RefuseInv ==
    ASSUME NbInv, Refuse
    PROVE  NbInv'
  <1> USE DEF Refuse, Closed, readVars, boundVars
  <1>1. /\ pc = "refuse" /\ pc' = "scan" /\ connection \in FreeFds /\ connection # 0
        /\ sock = ListenFd /\ connection' = 0
        /\ UNCHANGED <<sock, highsock, connectlist, socks, listnum, rlen, last_read,
                       backlog, connects, sends>>
    BY DEF NbInv, TypeOK, Phases, Stopped
  <1>2. /\ conn' \in [FreeFds -> Conn]
        /\ input' \in [FreeFds -> Seq(Chars)]
        /\ conn'[connection] = NoConn /\ input'[connection] = <<>>
        /\ \A g \in FreeFds : g # connection => conn'[g] = conn[g] /\ input'[g] = input[g]
    BY <1>1, PlainConns DEF NbInv, TypeOK
  <1>3. TypeOK'
    <2>1. \A g \in FreeFds : Len(input'[g]) = conn'[g].in
      BY <1>2 DEF NbInv, TypeOK, NoConn
    <2>2. QED
      BY <1>1, <1>2, <2>1 DEF NbInv, TypeOK
  <1>4. SlotsMatchKernel'
    <2>1. {g \in FreeFds : IsOpen(conn'[g])} = {g \in FreeFds : IsOpen(conn[g])} \ {connection}
      BY <1>2, PlainConns
    <2>2. QED
      BY <1>1, <2>1 DEF NbInv, SlotsMatchKernel, Tracked
  <1>5. \A k \in Slots : connectlist[k] # 0 =>
            connectlist[k] # connection /\ connectlist[k] \in FreeFds
    BY DEF NbInv, SlotsMatchKernel, Tracked, TypeOK
  <1>6. SelectNotStale'
    BY <1>1, <1>2, <1>5 DEF NbInv, SelectNotStale, IsPending
  <1>7. Phases' /\ PassInv' /\ NothingLeftOver'
    BY <1>1, <1>2, NbAssumption DEF NbInv, Phases, PassInv, NothingLeftOver, Stopped, NoSock
  <1>8. QED
    BY <1>3, <1>4, <1>6, <1>7 DEF NbInv

-----------------------------------------------------------------------------
(* The client of one slot.                                                 *)

(* A call on the connection of the current slot that keeps it open: the    *)
(* slots behind it are as before.                                          *)
LEMMA CallInv ==
    ASSUME NbInv, pc \in {"gets", "reply"}, NEW c \in Conn, NEW q \in Seq(Chars),
           IsOpen(c), Len(q) = c.in,
           conn' = [conn EXCEPT ![Fd] = c],
           input' = [input EXCEPT ![Fd] = q],
           \/ pc' \in {"gets", "reply", "drop"} /\ UNCHANGED listnum
           \/ pc' = "scan" /\ listnum' = listnum + 1,
           rlen' \in 0..MaxLine, last_read' \in {"none"} \cup Chars,
           UNCHANGED <<sock, highsock, connectlist, socks, connection, backlog, connects,
                       sends>>
    PROVE  NbInv'
  <1>1. /\ listnum \in Slots /\ Fd \in FreeFds /\ Fd # 0 /\ IsOpen(conn[Fd])
        /\ sock = ListenFd /\ connection = 0
    BY AtSlot
  <1>2. conn' \in [FreeFds -> Conn] /\ SlotsMatchKernel'
    BY <1>1, OneConnChanged
  <1>3. /\ input' \in [FreeFds -> Seq(Chars)]
        /\ \A g \in FreeFds : Len(input'[g]) = conn'[g].in
        /\ \A g \in FreeFds : g # Fd => conn'[g] = conn[g] /\ input'[g] = input[g]
    BY <1>1 DEF NbInv, TypeOK
  <1>4. listnum' \in Nat \ {0} /\ (pc' = "scan" \/ listnum' \in Slots)
    BY <1>1 DEF Slots
  <1>5. TypeOK'
    BY <1>2, <1>3, <1>4 DEF NbInv, TypeOK
  <1>6. \A k \in Slots : k > listnum /\ connectlist[k] # 0 =>
            connectlist[k] # Fd /\ connectlist[k] \in FreeFds
    BY <1>1 DEF NbInv, SlotsMatchKernel, TypeOK, Fd, Slots
  <1>7. \A k \in Slots : (k > listnum /\ connectlist[k] # 0 /\ connectlist[k] \in socks)
                              => Readable(conn'[connectlist[k]])
    BY <1>3, <1>6 DEF NbInv, PassInv
  <1>8. SelectNotStale' /\ PassInv'
    <2>1. \A k \in Slots : k >= listnum + 1 => k > listnum
      BY <1>1 DEF Slots
    <2>2. QED
      BY <1>7, <2>1 DEF SelectNotStale, IsPending, PassInv
  <1>9. Phases'
    BY <1>1, <1>4, NbAssumption DEF NbInv, Phases, Fd, Tracked, Stopped, NoSock
  <1>10. NothingLeftOver'
    BY <1>1, <1>3 DEF NbInv, NothingLeftOver, TypeOK
  <1>11. QED
    BY <1>2, <1>5, <1>8, <1>9, <1>10 DEF NbInv

LEMMA GetsInv ==
    ASSUME NbInv, GetsChar \/ GetsEnds
    PROVE  NbInv'
  <1> USE DEF GetsChar, GetsEnds, passVars, readVars, boundVars
  <1>1. /\ pc = "gets" /\ Fd \in FreeFds /\ conn[Fd] \in Conn /\ IsOpen(conn[Fd])
        /\ input[Fd] \in Seq(Chars) /\ Len(input[Fd]) = conn[Fd].in
        /\ rlen \in 0..MaxLine
    BY AtSlot DEF NbInv, TypeOK
  <1>2. CASE GetsChar
    <2>1. conn[Fd].in > 0
      BY <1>1, <1>2, BufferAssumption DEF RecvResult, Conn
    <2>2. 1 \in 1..MaxIn /\ 1 <= conn[Fd].in
      BY <1>1, <2>1, BufferAssumption DEF Conn
    <2>3. /\ AfterRecvData(conn[Fd], 1) \in Conn
          /\ IsOpen(AfterRecvData(conn[Fd], 1))
      BY <1>1, <2>2, ReadData
    <2>4. /\ Tail(input[Fd]) \in Seq(Chars)
          /\ Len(Tail(input[Fd])) = AfterRecvData(conn[Fd], 1).in
          /\ Head(input[Fd]) \in Chars
      BY <1>1, <2>1 DEF AfterRecvData, Conn
    <2>5. rlen' \in 0..MaxLine
      BY <1>1, <1>2, NbAssumption DEF Room
    <2>6. QED
      BY <1>1, <1>2, <2>3, <2>4, <2>5, CallInv DEF Chars
  <1>3. CASE GetsEnds
    <2>1. /\ AfterRecvNothing(conn[Fd]) \in Conn
          /\ IsOpen(AfterRecvNothing(conn[Fd]))
      BY <1>1, FailedCalls
    <2>2. AfterRecvNothing(conn[Fd]).in = conn[Fd].in
      BY <1>1 DEF AfterRecvNothing, Failing, Dying, Conn
    <2>3. input' = [input EXCEPT ![Fd] = input[Fd]]
      BY <1>3 DEF NbInv, TypeOK
    <2>4. last_read' \in {"none"} \cup Chars /\ pc' \in {"reply", "drop"}
      BY <1>3 DEF GetsNothing, NbInv, TypeOK
    <2>5. QED
      BY <1>1, <1>3, <2>1, <2>2, <2>3, <2>4, CallInv
  <1>4. QED
    BY <1>2, <1>3

LEMMA ReplyInv ==
    ASSUME NbInv, Reply
    PROVE  NbInv'
  <1> USE DEF Reply, readVars, boundVars
  <1>1. /\ pc = "reply" /\ Fd \in FreeFds /\ conn[Fd] \in Conn /\ IsOpen(conn[Fd])
        /\ input[Fd] \in Seq(Chars) /\ Len(input[Fd]) = conn[Fd].in
    BY AtSlot DEF NbInv, TypeOK
  <1>2. AfterSend(conn[Fd]) \in Conn /\ IsOpen(AfterSend(conn[Fd]))
    BY <1>1, FailedCalls
  <1>3. AfterSend(conn[Fd]).in = conn[Fd].in
    BY <1>1 DEF AfterSend, Failing, Dying, Conn
  <1>4. input' = [input EXCEPT ![Fd] = input[Fd]]
    BY DEF NbInv, TypeOK
  <1>5. rlen' \in 0..MaxLine /\ last_read' \in {"none"} \cup Chars
    BY DEF NbInv, TypeOK
  <1>6. QED
    BY <1>1, <1>2, <1>3, <1>4, <1>5, CallInv

(* Closing the connection of the current slot frees the slot.              *)
LEMMA DropInv ==
    ASSUME NbInv, Drop
    PROVE  NbInv'
  <1> USE DEF Drop, Closed, FreedSlot, readVars, boundVars
  <1> DEFINE f == Fd
  <1>1. /\ pc = "drop" /\ pc' = "scan" /\ listnum \in Slots /\ f \in FreeFds /\ f # 0
        /\ IsOpen(conn[f]) /\ sock = ListenFd /\ connection = 0 /\ listnum' = listnum + 1
        /\ connectlist[listnum] = f
        /\ UNCHANGED <<sock, highsock, socks, connection, rlen, last_read, backlog,
                       connects, sends>>
    BY AtSlot DEF Fd
  <1>2. /\ conn' \in [FreeFds -> Conn]
        /\ input' \in [FreeFds -> Seq(Chars)]
        /\ conn'[f] = NoConn /\ input'[f] = <<>>
        /\ \A g \in FreeFds : g # f => conn'[g] = conn[g] /\ input'[g] = input[g]
    BY <1>1, PlainConns DEF NbInv, TypeOK
  <1>3. /\ connectlist' \in [Slots -> {0} \cup FreeFds]
        /\ connectlist'[listnum] = 0
        /\ \A k \in Slots : k # listnum =>
              connectlist'[k] = connectlist[k] /\ connectlist[k] # f
    BY <1>1 DEF NbInv, TypeOK, SlotsMatchKernel
  <1> HIDE DEF f
  <1>4. TypeOK'
    <2>1. \A g \in FreeFds : Len(input'[g]) = conn'[g].in
      BY <1>2 DEF NbInv, TypeOK, NoConn
    <2>2. listnum' \in Nat \ {0}
      BY <1>1 DEF Slots
    <2>3. QED
      BY <1>1, <1>2, <1>3, <2>1, <2>2 DEF NbInv, TypeOK
  <1>5. Tracked' = Tracked \ {f}
    BY <1>1, <1>3 DEF Tracked
  <1>6. SlotsMatchKernel'
    <2>1. {g \in FreeFds : IsOpen(conn'[g])} = {g \in FreeFds : IsOpen(conn[g])} \ {f}
      BY <1>2, PlainConns
    <2>2. \A j, k \in Slots : connectlist'[j] = connectlist'[k] =>
                                  j = k \/ connectlist'[j] = 0
      BY <1>1, <1>3 DEF NbInv, SlotsMatchKernel
    <2>3. QED
      BY <1>1, <1>5, <2>1, <2>2 DEF NbInv, SlotsMatchKernel
  <1>7. SelectNotStale'
    <2> SUFFICES ASSUME NEW k \in Slots, k >= listnum + 1, connectlist'[k] # 0,
                        connectlist'[k] \in socks
                 PROVE  Readable(conn'[connectlist'[k]])
      BY <1>1 DEF SelectNotStale, IsPending
    <2>1. k > listnum /\ k # listnum
      BY <1>1 DEF Slots
    <2>2. connectlist'[k] = connectlist[k] /\ connectlist[k] # f /\ connectlist[k] \in FreeFds
      BY <1>3, <2>1 DEF NbInv, TypeOK
    <2>3. Readable(conn[connectlist[k]])
      BY <1>1, <2>1, <2>2 DEF NbInv, PassInv
    <2>4. QED
      BY <1>2, <2>2, <2>3
  <1>8. Phases' /\ PassInv' /\ NothingLeftOver'
    BY <1>1, <1>2, NbAssumption
       DEF NbInv, Phases, PassInv, NothingLeftOver, Stopped, NoSock
  <1>9. QED
    BY <1>4, <1>6, <1>7, <1>8 DEF NbInv

-----------------------------------------------------------------------------
(* The end of the process, and the peers.                                  *)

LEMMA GoneInv ==
    ASSUME NbInv, AcceptFails \/ ReplyKills \/ EndApp
    PROVE  NbInv'
  <1>1. /\ pc' \in {"exited", "killed"} /\ ProcessGone /\ connection = 0
    BY DEF AcceptFails, ReplyKills, EndApp, NbInv, Phases
  <1> USE DEF ProcessGone, NoClients, NoConns, NoInput, passVars, readVars, boundVars
  <1>2. TypeOK'
    <2>1. \A g \in FreeFds : Len(input'[g]) = conn'[g].in
      BY <1>1 DEF NoConn
    <2>2. backlog' \in 0..Backlog
      BY <1>1, NbAssumption
    <2>3. /\ conn' \in [FreeFds -> Conn]
          /\ input' \in [FreeFds -> Seq(Chars)]
          /\ connectlist' \in [Slots -> {0} \cup FreeFds]
      BY <1>1, PlainConns
    <2>4. QED
      BY <1>1, <2>1, <2>2, <2>3 DEF NbInv, TypeOK
  <1>3. SlotsMatchKernel'
    BY <1>1, PlainConns DEF SlotsMatchKernel, Tracked
  <1>4. SelectNotStale' /\ Phases' /\ PassInv' /\ NothingLeftOver'
    BY <1>1 DEF SelectNotStale, Phases, PassInv, NothingLeftOver, Stopped
  <1>5. QED
    BY <1>2, <1>3, <1>4 DEF NbInv

(* A peer's move leaves the connection open and, if it was, readable.      *)
LEMMA PeersInv ==
    ASSUME NbInv, Peers
    PROVE  NbInv'
  <1> USE DEF passVars, readVars, boundVars
  <1>1. CASE PeerConnects
    <2> USE DEF PeerConnects
    <2>1. TypeOK'
      BY <1>1, NbAssumption DEF NbInv, TypeOK
    <2>2. SlotsMatchKernel'
      BY <1>1, SameSlots
    <2>3. SelectNotStale' /\ Phases' /\ PassInv' /\ NothingLeftOver'
      BY <1>1 DEF NbInv, SelectNotStale, IsPending, Phases, PassInv, NothingLeftOver,
                  Stopped, Fd, Tracked
    <2>4. QED
      BY <2>1, <2>2, <2>3 DEF NbInv
  <1>2. ASSUME NEW f \in FreeFds, NEW c \in Conn, NEW q \in Seq(Chars),
               IsOpen(conn[f]), IsOpen(c), Len(q) = c.in,
               Readable(conn[f]) => Readable(c),
               conn' = [conn EXCEPT ![f] = c],
               input' = [input EXCEPT ![f] = q],
               sends' \in 0..MaxSends,
               UNCHANGED <<pc, sock, highsock, connectlist, passVars, readVars, backlog,
                           connects>>
        PROVE  NbInv'
    <2>1. conn' \in [FreeFds -> Conn] /\ SlotsMatchKernel'
      BY <1>2, OneConnChanged
    <2>2. /\ input' \in [FreeFds -> Seq(Chars)]
          /\ conn'[f] = c /\ input'[f] = q
          /\ \A g \in FreeFds : g # f => conn'[g] = conn[g] /\ input'[g] = input[g]
      BY <1>2 DEF NbInv, TypeOK
    <2>3. TypeOK'
      <3>1. \A g \in FreeFds : Len(input'[g]) = conn'[g].in
        BY <1>2, <2>2 DEF NbInv, TypeOK
      <3>2. QED
        BY <1>2, <2>1, <2>2, <3>1 DEF NbInv, TypeOK
    <2>4. \A k \in Slots : connectlist[k] # 0 /\ Readable(conn[connectlist[k]])
                               => Readable(conn'[connectlist[k]])
      BY <1>2, <2>2 DEF NbInv, TypeOK
    <2>5. SelectNotStale' /\ PassInv'
      BY <1>2, <2>4 DEF NbInv, SelectNotStale, IsPending, PassInv, Tracked
    <2>6. Phases' /\ NothingLeftOver'
      BY <1>2, <2>2 DEF NbInv, Phases, NothingLeftOver, Stopped, Fd, Tracked
    <2>7. QED
      BY <2>1, <2>3, <2>5, <2>6 DEF NbInv
  <1>3. ASSUME NEW f \in FreeFds, NEW ch \in Chars, PeerSend(f, ch)
        PROVE  NbInv'
    <2> USE <1>3 DEF PeerSend, PeerDoes
    <2>1. conn[f] \in Conn /\ input[f] \in Seq(Chars) /\ Len(input[f]) = conn[f].in
      BY DEF NbInv, TypeOK
    <2>2. IsOpen(conn[f])
      BY DEF CanPeerSend, IsOpen
    <2>3. PeerSends(conn[f]) \in Conn /\ Readable(PeerSends(conn[f])) /\ IsOpen(PeerSends(conn[f]))
      BY <2>1, <2>2, PeerMoves
    <2>4. Append(input[f], ch) \in Seq(Chars) /\ Len(Append(input[f], ch)) = PeerSends(conn[f]).in
      BY <2>1 DEF PeerSends, Conn
    <2>5. sends' \in 0..MaxSends
      BY NbAssumption DEF NbInv, TypeOK
    <2>6. QED
      BY <1>2, <2>2, <2>3, <2>4, <2>5
  <1>4. ASSUME NEW f \in FreeFds, PeerRead(f) \/ PeerClose(f) \/ PeerReset(f)
        PROVE  NbInv'
    <2> USE DEF PeerRead, PeerClose, PeerReset, PeerDoes
    <2>1. conn[f] \in Conn /\ input[f] \in Seq(Chars) /\ Len(input[f]) = conn[f].in
      BY DEF NbInv, TypeOK
    <2>2. IsOpen(conn[f])
      BY <1>4 DEF CanPeerRead, CanPeerClose, CanPeerReset, IsOpen
    <2>3. input' = [input EXCEPT ![f] = input[f]] /\ sends' \in 0..MaxSends
      BY <1>4 DEF NbInv, TypeOK
    <2>4. PICK c \in {PeerReads(conn[f]), PeerCloses(conn[f]), PeerResets(conn[f])} :
              /\ conn' = [conn EXCEPT ![f] = c]
              /\ c \in Conn
              /\ Readable(conn[f]) => Readable(c)
      BY <1>4, <2>1, PeerMoves
    <2>5. IsOpen(c)
      BY <2>1, <2>2, <2>4, PeerMoves
    <2>6. c.in = conn[f].in
      BY <2>1, <2>4 DEF PeerReads, PeerCloses, PeerResets, Conn
    <2>7. QED
      BY <1>2, <1>4, <2>1, <2>2, <2>3, <2>4, <2>5, <2>6
  <1>5. QED
    BY <1>1, <1>3, <1>4 DEF Peers

-----------------------------------------------------------------------------
LEMMA StepInv == NbInv /\ [Next]_vars => NbInv'
  <1> SUFFICES ASSUME NbInv, [Next]_vars PROVE NbInv'
    OBVIOUS
  <1>1. CASE Accepting
    BY <1>1, AcceptInv, RefuseInv, GoneInv DEF Accepting
  <1>2. CASE Reading
    BY <1>2, GetsInv, ReplyInv, DropInv, GoneInv DEF Reading
  <1>3. CASE Server
    BY <1>1, <1>2, <1>3, StartupInv, SelectInv, QuietInv, GoneInv DEF Server
  <1>4. CASE Peers
    BY <1>4, PeersInv
  <1>5. CASE UNCHANGED vars
    <2>1. TypeOK' /\ SlotsMatchKernel'
      BY <1>5, SameSlots DEF vars, NbInv, TypeOK
    <2>2. SelectNotStale'
      BY <1>5 DEF vars, NbInv, SelectNotStale, IsPending
    <2>3. Phases' /\ PassInv' /\ NothingLeftOver'
      BY <1>5 DEF vars, NbInv, Phases, PassInv, NothingLeftOver, Stopped, Fd, Tracked
    <2>4. QED
      BY <2>1, <2>2, <2>3 DEF NbInv
  <1>6. QED
    BY <1>3, <1>4, <1>5 DEF Next, Terminated

(* NbInv holds in every reachable state of nbserver.                       *)
THEOREM NbInvariant == Spec => []NbInv
  BY InitInv, StepInv, PTL DEF Spec

(* The variables keep their types; in particular sock_gets() never counts  *)
(* more characters than its caller's buffer takes.                         *)
THEOREM TypeCorrect == Spec => []TypeOK
  <1>1. NbInv => TypeOK
    BY DEF NbInv
  <1>2. QED
    BY <1>1, NbInvariant, PTL

(* The slots hold the open connections, each once.                         *)
THEOREM NoConnectionLost == Spec => []SlotsMatchKernel
  <1>1. NbInv => SlotsMatchKernel
    BY DEF NbInv
  <1>2. QED
    BY <1>1, NbInvariant, PTL

(* What select() reported is still so when read_socks() comes to it.       *)
THEOREM ReadinessKept == Spec => []SelectNotStale
  <1>1. NbInv => SelectNotStale
    BY DEF NbInv
  <1>2. QED
    BY <1>1, NbInvariant, PTL

-----------------------------------------------------------------------------
(* nbserver implements ConnTable.                                          *)

LEMMA TableInit == Init => Table!Init
  BY NbAssumption
     DEF Init, Table!Init, TablePhase, Tracked, Suspects, Stopped, NoClients, Slots, NoSock

(* A step that leaves the slots, the listening socket and the suspect as   *)
(* they are is not seen in the table.                                      *)
LEMMA Unseen ==
    ASSUME UNCHANGED <<sock, connectlist>>, pc # "drop", pc' # "drop", ~Stopped, ~Stopped'
    PROVE  UNCHANGED Table!tableVars
  BY DEF Table!tableVars, TablePhase, Tracked, Suspects, Stopped

(* A client that is handed back by sock_gets() without anything becomes    *)
(* suspect, and all else stays.                                            *)
LEMMA SuspectStep ==
    ASSUME NbInv, pc = "gets", pc' = "drop", UNCHANGED <<sock, connectlist, listnum>>
    PROVE  Table!Suspect(Fd) /\ Fd \in FreeFds
  <1>1. Fd \in FreeFds /\ Fd \in Tracked
    BY AtSlot DEF NbInv, Phases
  <1>2. Suspects = {} /\ Suspects' = {Fd}
    BY DEF Suspects, Fd
  <1>3. UNCHANGED <<TablePhase, Tracked>>
    BY DEF TablePhase, Tracked, Stopped
  <1>4. QED
    BY <1>1, <1>2, <1>3 DEF Table!Suspect

LEMMA DropStep ==
    ASSUME NbInv, Drop
    PROVE  Table!Drop(Fd) /\ Fd \in FreeFds
  <1> DEFINE f == Fd
  <1>1. /\ pc = "drop" /\ pc' = "scan" /\ listnum \in Slots /\ f \in FreeFds /\ f # 0
        /\ connectlist[listnum] = f /\ sock' = sock
    BY AtSlot DEF Fd, Drop
  <1>2. /\ connectlist'[listnum] = 0
        /\ \A k \in Slots : k # listnum =>
              connectlist'[k] = connectlist[k] /\ connectlist[k] # f
    BY <1>1 DEF Drop, FreedSlot, NbInv, TypeOK, SlotsMatchKernel
  <1>3. Suspects = {f} /\ Suspects' = {}
    BY <1>1 DEF Suspects
  <1> HIDE DEF f
  <1>4. Tracked' = Tracked \ {f}
    BY <1>1, <1>2 DEF Tracked
  <1>5. TablePhase' = TablePhase
    BY <1>1 DEF TablePhase, Stopped
  <1>6. Table!Drop(f)
    BY <1>3, <1>4, <1>5 DEF Table!Drop
  <1>7. QED
    BY <1>1, <1>6 DEF f

(* A new connection is admitted when it gets a slot; one that gets none is *)
(* never in the table.                                                     *)
LEMMA AcceptStep ==
    ASSUME NbInv, AcceptClient
    PROVE  [Table!Next]_(Table!tableVars)
  <1>1. /\ pc = "accept" /\ pc' \in {"scan", "refuse"} /\ UNCHANGED sock /\ sock = ListenFd
    BY DEF AcceptClient, NbInv, Phases, Stopped
  <1>2. CASE UNCHANGED connectlist
    BY <1>1, <1>2, Unseen DEF Stopped
  <1>3. CASE \E f \in LowestUnused, k \in FreeSlot :
                connectlist' = [connectlist EXCEPT ![k] = f]
    <2> PICK f \in LowestUnused, k \in FreeSlot :
                connectlist' = [connectlist EXCEPT ![k] = f]
      BY <1>3
    <2>1. f \in FreeFds /\ f # 0 /\ f \notin Tracked
      BY NbAssumption DEF LowestUnused, Unused, NbInv, SlotsMatchKernel
    <2>2. /\ k \in Slots /\ connectlist[k] = 0 /\ connectlist'[k] = f
          /\ \A j \in Slots : j # k => connectlist'[j] = connectlist[j]
      BY DEF FreeSlot, NbInv, TypeOK
    <2>3. Tracked' = Tracked \cup {f}
      BY <2>1, <2>2 DEF Tracked
    <2>4. TablePhase = "up" /\ TablePhase' = "up" /\ Suspects' = Suspects
      BY <1>1 DEF TablePhase, Suspects, Stopped
    <2>5. Table!Admit(f)
      BY <2>1, <2>3, <2>4 DEF Table!Admit
    <2>6. QED
      BY <2>1, <2>5 DEF Table!Next
  <1>4. QED
    BY <1>2, <1>3 DEF AcceptClient

LEMMA EndStep ==
    ASSUME NbInv, AcceptFails \/ ReplyKills \/ EndApp
    PROVE  Table!End
  <1>1. pc' \in {"exited", "killed"} /\ ProcessGone
    BY DEF AcceptFails, ReplyKills, EndApp
  <1>2. Tracked' = {} /\ Suspects' = {} /\ TablePhase' = "down"
    BY <1>1 DEF ProcessGone, NoClients, Tracked, Suspects, TablePhase, Stopped
  <1>3. QED
    BY <1>2 DEF Table!End

LEMMA StartupStep ==
    ASSUME NbInv, StartupEnds \/ StartupDone
    PROVE  [Table!Next]_(Table!tableVars)
  <1>1. /\ pc = "start" /\ pc' \in {"select", "end"} /\ sock' \in {NoSock, ListenFd}
        /\ sock = NoSock /\ connectlist = NoClients /\ connectlist' = NoClients
    BY DEF StartupEnds, StartupDone, NbInv, Phases
  <1>2. Tracked' = Tracked /\ Suspects' = Suspects /\ TablePhase = "idle"
    BY <1>1, NbAssumption DEF Tracked, Suspects, TablePhase, Stopped, NoSock
  <1>3. TablePhase' = IF sock' = ListenFd THEN "up" ELSE "idle"
    BY <1>1 DEF TablePhase, Stopped
  <1>4. QED
    BY <1>2, <1>3 DEF Table!Next, Table!Listen, Table!tableVars

LEMMA TableStep ==
    NbInv /\ [Next]_vars => [Table!Next]_(Table!tableVars)
  <1> SUFFICES ASSUME NbInv, [Next]_vars PROVE [Table!Next]_(Table!tableVars)
    OBVIOUS
  <1>1. CASE AcceptFails \/ ReplyKills \/ EndApp
    BY <1>1, EndStep DEF Table!Next
  <1>2. CASE StartupEnds \/ StartupDone
    BY <1>2, StartupStep
  <1>3. CASE AcceptClient
    BY <1>3, AcceptStep
  <1>4. CASE Drop
    BY <1>4, DropStep DEF Table!Next
  <1>5. CASE GetsChar \/ GetsEnds
    <2>1. pc = "gets" /\ UNCHANGED <<sock, connectlist, listnum>> /\ ~Stopped /\ ~Stopped'
      BY <1>5 DEF GetsChar, GetsEnds, GetsNothing, passVars, Stopped
    <2>2. CASE pc' = "drop"
      BY <2>1, <2>2, SuspectStep DEF Table!Next
    <2>3. CASE pc' # "drop"
      BY <2>1, <2>3, Unseen
    <2>4. QED
      BY <2>2, <2>3
  <1>6. CASE \/ SelectReturns \/ SelectFails \/ Refuse
             \/ \E k \in Slots : ReadSlot(k)
             \/ FinishScan \/ Reply
             \/ \E esc \in BOOLEAN : CheckKeys(esc)
    <2>1. /\ UNCHANGED <<sock, connectlist>>
          /\ pc \notin {"drop", "exited", "killed"} /\ pc' \notin {"drop", "exited", "killed"}
      BY <1>6 DEF SelectReturns, SelectFails, Refuse, ReadSlot, FinishScan, Reply, CheckKeys
    <2>2. QED
      BY <2>1, Unseen DEF Stopped
  <1>7. CASE Peers \/ UNCHANGED vars
    <2>1. UNCHANGED <<pc, sock, connectlist, listnum>>
      BY <1>7 DEF vars, Peers, PeerConnects, PeerSend, PeerRead, PeerClose, PeerReset,
                  PeerDoes, passVars
    <2>2. QED
      BY <2>1 DEF Table!tableVars, TablePhase, Tracked, Suspects, Stopped, Fd
  <1>8. QED
    BY <1>1, <1>2, <1>3, <1>4, <1>5, <1>6, <1>7
       DEF Next, Server, Accepting, Reading, Terminated

(* nbserver implements the connection table.                               *)
THEOREM Implements == Spec => ImplementsConnTable
  BY TableInit, TableStep, NbInvariant, PTL DEF Spec, ImplementsConnTable, Table!Spec
=============================================================================
