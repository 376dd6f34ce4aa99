-------------------------- MODULE SimpClientProofs --------------------------
(***************************************************************************)
(* Proofs about SimpClient, for every buffer size, error limit and bound:  *)
(* ClientInv is inductive, and so no path through the client's error       *)
(* branches leaks its socket or uses one that it has closed.               *)
(***************************************************************************)
EXTENDS SimpClient, TcpConnProofs

(* The observer's count aside, an end stays what it is.                    *)
LEMMA UncountedEnd ==
    ASSUME NEW c \in Conn
    PROVE  /\ Uncounted(c) \in Conn
           /\ Uncounted(c).fails = 0
           /\ IsOpen(Uncounted(c)) <=> IsOpen(c)
  BY DEF Uncounted, Conn, IsOpen

LEMMA TypeFacts ==
    ASSUME ClientInv
    PROVE  /\ end \in Conn /\ end.fails = 0
           /\ recv_errors \in Nat /\ iret \in {0, 1}
           /\ resets \in 0..MaxResets /\ connects \in 0..MaxConnects
           /\ glitches \in 0..MaxGlitches
           /\ not_connected \in BOOLEAN /\ wait_4_reply \in BOOLEAN
           /\ is_paused \in BOOLEAN
           /\ receive_only \in BOOLEAN /\ once_only \in BOOLEAN
  BY DEF ClientInv, TypeOK

-----------------------------------------------------------------------------
LEMMA InitInv == Init => ClientInv
  <1> SUFFICES ASSUME Init PROVE ClientInv
    OBVIOUS
  <1>1. TypeOK
    <2>1. end \in Conn /\ end.fails = 0
      BY PlainConns DEF Init, NoConn
    <2>2. 0 \in 0..MaxResets /\ 0 \in 0..MaxConnects /\ 0 \in 0..MaxGlitches
      BY ClientAssumption
    <2>3. QED
      BY <2>1, <2>2 DEF Init, TypeOK
  <1>2. ~IsOpen(end)
    BY PlainConns DEF Init
  <1>3. QED
    BY <1>1, <1>2 DEF Init, ClientInv, SocketMatches, NoSocketYet, Stopped

(* A key changes the switches and no more.                                 *)
LEMMA KeyTaken ==
    ASSUME ClientInv, NEW key \in Keys, TakeKey(key)
    PROVE  /\ is_paused' \in BOOLEAN
           /\ wait_4_reply' \in BOOLEAN
           /\ resets' \in 0..MaxResets
  <1>1. is_paused' \in BOOLEAN
    BY TypeFacts DEF TakeKey
  <1>2. CASE key = "r" /\ wait_4_reply
    <2>1. resets < MaxResets /\ wait_4_reply' = FALSE
          /\ resets' = resets + 1
      BY <1>2, Zenon DEF TakeKey
    <2>2. resets' \in 0..MaxResets
      <3>1. resets \in 0..MaxResets
        BY TypeFacts
      <3>2. QED
        BY <2>1, <3>1, ClientAssumption
    <2>3. QED
      BY <1>1, <2>1, <2>2
  <1>3. CASE ~(key = "r" /\ wait_4_reply)
    BY <1>1, <1>3, TypeFacts DEF TakeKey, waitVars
  <1>4. QED
    BY <1>2, <1>3

-----------------------------------------------------------------------------
(* Start-up and connecting.                                                *)
LEMMA ConnectingInv ==
    ASSUME ClientInv,
           \/ BadArgs \/ HostLookup \/ SocketFails \/ Connected \/ Reconnect
           \/ \E key \in Keys : ConnectFails(key)
    PROVE  ClientInv'
  <1> USE DEF waitVars, linkVars, optionVars
  <1>1. CASE BadArgs \/ HostLookup \/ SocketFails \/ Reconnect
    <2>1. TypeOK'
      BY <1>1 DEF BadArgs, HostLookup, SocketFails, Reconnect, ClientInv, TypeOK
    <2>2. SocketMatches' /\ NoSocketYet'
      BY <1>1 DEF BadArgs, HostLookup, SocketFails, Reconnect, ClientInv,
                  SocketMatches, NoSocketYet, Stopped
    <2>3. QED
      BY <2>1, <2>2 DEF ClientInv
  <1>2. CASE Connected
    <2>1. connects' \in 0..MaxConnects
      BY <1>2, TypeFacts, ClientAssumption DEF Connected
    <2>2. end' \in Conn /\ end'.fails = 0 /\ IsOpen(end')
      BY <1>2, PlainConns DEF Connected, NewConn
    <2>3. TypeOK'
      BY <1>2, <2>1, <2>2 DEF Connected, ClientInv, TypeOK
    <2>4. SocketMatches' /\ NoSocketYet'
      BY <1>2, <2>2 DEF Connected, SocketMatches, NoSocketYet, Stopped
    <2>5. QED
      BY <2>3, <2>4 DEF ClientInv
  <1>3. ASSUME NEW key \in Keys, ConnectFails(key)
        PROVE  ClientInv'
    <2>1. TypeOK'
      BY <1>3, TypeFacts, KeyTaken DEF ConnectFails, ClientInv, TypeOK
    <2>2. SocketMatches' /\ NoSocketYet'
      BY <1>3 DEF ConnectFails, ClientInv, SocketMatches, NoSocketYet, Stopped
    <2>3. QED
      BY <2>1, <2>2 DEF ClientInv
  <1>4. QED
    BY <1>1, <1>2, <1>3

(* Keys, select(), and the writes.                                         *)
LEMMA SendingInv ==
    ASSUME ClientInv,
           \/ \E key \in Keys :
                 Throttle(key) \/ Pass(key) \/ Write(key) \/ WriteFails(key)
           \/ WriteKills \/ SelectReturns \/ SelectFails
    PROVE  ClientInv'
  <1> USE DEF waitVars, linkVars, optionVars
  <1>1. ASSUME NEW key \in Keys, Throttle(key) \/ Pass(key)
        PROVE  ClientInv'
    <2>1. TypeOK'
      BY <1>1, TypeFacts, KeyTaken DEF Throttle, Pass, ClientInv, TypeOK
    <2>2. SocketMatches' /\ NoSocketYet'
      BY <1>1 DEF Throttle, Pass, ClientInv, SocketMatches, NoSocketYet, Stopped
    <2>3. QED
      BY <2>1, <2>2 DEF ClientInv
  <1>2. ASSUME NEW key \in Keys, Write(key)
        PROVE  ClientInv'
    <2>1. end' \in Conn /\ end'.fails = 0 /\ (IsOpen(end) => IsOpen(end'))
      BY <1>2, TypeFacts, FailedCalls DEF Write
    <2>2. TypeOK'
      BY <1>2, <2>1, TypeFacts DEF Write, ClientInv, TypeOK
    <2>3. SocketMatches' /\ NoSocketYet'
      BY <1>2, <2>1 DEF Write, ClientInv, SocketMatches, NoSocketYet, Stopped
    <2>4. QED
      BY <2>2, <2>3 DEF ClientInv
  <1>3. ASSUME NEW key \in Keys, WriteFails(key)
        PROVE  ClientInv'
    <2>1. end' \in Conn /\ end'.fails = 0 /\ (IsOpen(end) => IsOpen(end'))
      BY <1>3, TypeFacts, FailedCalls, UncountedEnd DEF WriteFails
    <2>2. TypeOK'
      BY <1>3, <2>1, TypeFacts, KeyTaken DEF WriteFails, ClientInv, TypeOK
    <2>3. SocketMatches' /\ NoSocketYet'
      BY <1>3, <2>1 DEF WriteFails, ClientInv, SocketMatches, NoSocketYet, Stopped
    <2>4. QED
      BY <2>2, <2>3 DEF ClientInv
  <1>4. CASE WriteKills
    <2>1. TypeOK'
      BY <1>4, TypeFacts, PlainConns DEF WriteKills, ClientInv, TypeOK, NoConn
    <2>2. SocketMatches' /\ NoSocketYet'
      BY <1>4, PlainConns DEF WriteKills, SocketMatches, NoSocketYet, Stopped
    <2>3. QED
      BY <2>1, <2>2 DEF ClientInv
  <1>5. CASE SelectReturns
    BY <1>5 DEF SelectReturns, ClientInv, TypeOK, SocketMatches, NoSocketYet, Stopped
  <1>6. CASE SelectFails
    <2>1. glitches' \in 0..MaxGlitches
      BY <1>6, TypeFacts, ClientAssumption DEF SelectFails
    <2>2. QED
      BY <1>6, <2>1
      DEF SelectFails, ClientInv, TypeOK, SocketMatches, NoSocketYet, Stopped
  <1>7. QED
    BY <1>1, <1>2, <1>3, <1>4, <1>5, <1>6

-----------------------------------------------------------------------------
(* The error branch of recv(), with the connection it leaves behind.       *)
LEMMA ErrorBranch ==
    ASSUME ClientInv, pc = "recv",
           NEW failed \in Conn, failed.fails = 0, IsOpen(failed),
           ReceiveError(failed), glitches' \in 0..MaxGlitches
    PROVE  ClientInv'
  <1> USE DEF waitVars, optionVars
  <1>1. /\ end' \in Conn /\ end'.fails = 0
        /\ not_connected' \in BOOLEAN
        /\ IsOpen(end') <=> ~not_connected'
    <2>1. ~not_connected
      BY DEF ClientInv, SocketMatches
    <2>2. CASE TooManyErrors(recv_errors')
      BY <2>2, PlainConns DEF ReceiveError, CloseSocket, NoConn
    <2>3. CASE ~TooManyErrors(recv_errors')
      BY <2>1, <2>3, TypeFacts DEF ReceiveError
    <2>4. QED
      BY <2>2, <2>3
  <1>2. TypeOK'
    BY <1>1, TypeFacts DEF ReceiveError, CountedError, ClientInv, TypeOK
  <1>3. SocketMatches' /\ NoSocketYet'
    BY <1>1 DEF ReceiveError, SocketMatches, NoSocketYet, Stopped
  <1>4. QED
    BY <1>2, <1>3 DEF ClientInv

LEMMA ReceivingInv ==
    ASSUME ClientInv, Receive \/ EndApp
    PROVE  ClientInv'
  <1> USE DEF waitVars, linkVars, optionVars
  <1>1. ASSUME NEW n \in 1..MaxIn, ReceiveData(n)
        PROVE  ClientInv'
    <2>1. end' \in Conn /\ end'.fails = 0 /\ (IsOpen(end) <=> IsOpen(end'))
      BY <1>1, TypeFacts, ReadData DEF ReceiveData
    <2>2. TypeOK'
      BY <1>1, <2>1, TypeFacts DEF ReceiveData, ClientInv, TypeOK
    <2>3. SocketMatches' /\ NoSocketYet'
      BY <1>1, <2>1 DEF ReceiveData, ClientInv, SocketMatches, NoSocketYet, Stopped
    <2>4. QED
      BY <2>2, <2>3 DEF ClientInv
  <1>2. pc = "recv" => IsOpen(end)
    BY DEF ClientInv, SocketMatches
  <1>3. LET after == Uncounted(AfterRecvNothing(end))
        IN  after \in Conn /\ after.fails = 0 /\ (IsOpen(end) => IsOpen(after))
    BY TypeFacts, FailedCalls, UncountedEnd
  <1>4. CASE ReceiveReset
    <2>1. glitches' \in 0..MaxGlitches
      BY <1>4, TypeFacts DEF ReceiveReset
    <2>2. QED
      BY <1>2, <1>3, <1>4, <2>1, ErrorBranch DEF ReceiveReset
  <1>5. CASE ReceiveGlitch
    <2>1. glitches' \in 0..MaxGlitches
      BY <1>5, TypeFacts, ClientAssumption DEF ReceiveGlitch
    <2>2. QED
      BY <1>2, <1>5, <2>1, TypeFacts, ErrorBranch DEF ReceiveGlitch
  <1>6. CASE ReceiveEnd
    <2>1. end' \in Conn /\ end'.fails = 0 /\ (IsOpen(end) => IsOpen(end'))
      BY <1>3, <1>6 DEF ReceiveEnd
    <2>2. TypeOK'
      BY <1>6, <2>1, TypeFacts DEF ReceiveEnd, CountedError, ClientInv, TypeOK
    <2>3. SocketMatches' /\ NoSocketYet'
      BY <1>2, <1>6, <2>1
      DEF ReceiveEnd, ClientInv, SocketMatches, NoSocketYet, Stopped
    <2>4. QED
      BY <2>2, <2>3 DEF ClientInv
  <1>7. CASE EndApp
    <2>1. TypeOK'
      BY <1>7, TypeFacts, PlainConns DEF EndApp, ClientInv, TypeOK, NoConn
    <2>2. SocketMatches' /\ NoSocketYet'
      BY <1>7, PlainConns DEF EndApp, SocketMatches, NoSocketYet, Stopped
    <2>3. QED
      BY <2>1, <2>2 DEF ClientInv
  <1>8. QED
    BY <1>1, <1>4, <1>5, <1>6, <1>7 DEF Receive

(* The server only ever moves an end that is open, and leaves it open.     *)
LEMMA ServerInv ==
    ASSUME ClientInv, Server
    PROVE  ClientInv'
  <1> USE DEF Server, ServerTakes, ServerReplies, ServerCloses, ServerResets, PeerDoes
  <1>1. IsOpen(end)
    BY DEF CanPeerRead, CanPeerSend, CanPeerClose, CanPeerReset, IsOpen
  <1>2. end' \in Conn /\ end'.fails = 0 /\ IsOpen(end')
    BY <1>1, TypeFacts, PeerMoves
  <1>3. TypeOK'
    BY <1>2, TypeFacts DEF ClientInv, TypeOK, waitVars, optionVars
  <1>4. SocketMatches' /\ NoSocketYet'
    BY <1>1, <1>2 DEF ClientInv, SocketMatches, NoSocketYet, Stopped
  <1>5. QED
    BY <1>3, <1>4 DEF ClientInv

LEMMA StepInv == ClientInv /\ [Next]_vars => ClientInv'
  <1> SUFFICES ASSUME ClientInv, [Next]_vars PROVE ClientInv'
    OBVIOUS
  <1>1. CASE Client
    BY <1>1, ConnectingInv, SendingInv, ReceivingInv DEF Client
  <1>2. CASE Server
    BY <1>2, ServerInv
  <1>3. CASE UNCHANGED vars
    BY <1>3 DEF vars, ClientInv, TypeOK, SocketMatches, NoSocketYet, Stopped
  <1>4. QED
    BY <1>1, <1>2, <1>3 DEF Next, Terminated

-----------------------------------------------------------------------------
(* In every reachable state the client's variables have their types, and   *)
(* socket and not_connected are as ClientInv says.                         *)
THEOREM ClientInvariant == Spec => []ClientInv
  BY InitInv, StepInv, PTL DEF Spec

(* SocketMatches, for every max_recv_errors and however often the client   *)
(* connects: run_client() never works on a closed socket, and never gives  *)
(* up an open one without closing it.                                      *)
THEOREM SocketKept == Spec => []SocketMatches
  <1>1. ClientInv => SocketMatches
    BY DEF ClientInv
  <1>2. QED
    BY <1>1, ClientInvariant, PTL
=============================================================================
