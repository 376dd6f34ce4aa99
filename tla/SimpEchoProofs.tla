--------------------------- MODULE SimpEchoProofs ---------------------------
(***************************************************************************)
(* Proofs about SimpEcho, for every buffer size, error limit and bound:    *)
(* EchoInv is inductive.  From it follow stop and wait, that neither       *)
(* program counts an error as long as both are there, and that the client  *)
(* does not kill the server: both if the user leaves the wait alone.       *)
(*                                                                         *)
(* The two components bring their own invariants: a step of one of them is *)
(* a step of SimpServer or SimpClient, whose proofs are cited, and only    *)
(* what they do to what is under way between them is left to be proved.    *)
(***************************************************************************)
EXTENDS SimpEcho, SimpServerProofs

CP == INSTANCE SimpClientProofs WITH
        pc <- cpc, iret <- ciret, end <- cend, is_paused <- cpaused,
        connects <- cconnects, glitches <- 0, MaxConnects <- 1, MaxGlitches <- 0

-----------------------------------------------------------------------------
(* C of SimpEcho and CP here are the same instance: one names the actions, *)
(* the other the theorems.                                                 *)

(* The assumptions that SimpClient makes on its constants hold here.       *)
LEMMA ClientAssumed == CP!ClientAssumption /\ CP!BufferAssumption
  BY EchoAssumption, BufferAssumption DEF CP!ClientAssumption, CP!BufferAssumption

LEMMA SameClientInv == C!ClientInv <=> CP!ClientInv
  BY DEF C!ClientInv, C!TypeOK, C!SocketMatches, C!NoSocketYet, C!Stopped,
         C!Conn, C!ConnState, C!IsOpen,
         CP!ClientInv, CP!TypeOK, CP!SocketMatches, CP!NoSocketYet, CP!Stopped,
         CP!Conn, CP!ConnState, CP!IsOpen

LEMMA SamePeers ==
    ASSUME C!ServerTakes \/ C!ServerReplies \/ C!ServerCloses \/ C!ServerResets
    PROVE  CP!Next
  BY DEF C!ServerTakes, C!ServerReplies, C!ServerCloses, C!ServerResets, C!PeerDoes,
         C!CanPeerRead, C!CanPeerSend, C!CanPeerClose, C!CanPeerReset,
         C!PeerReads, C!PeerSends, C!PeerCloses, C!PeerResets, C!waitVars, C!optionVars,
         CP!ServerTakes, CP!ServerReplies, CP!ServerCloses, CP!ServerResets, CP!PeerDoes,
         CP!CanPeerRead, CP!CanPeerSend, CP!CanPeerClose, CP!CanPeerReset,
         CP!PeerReads, CP!PeerSends, CP!PeerCloses, CP!PeerResets, CP!waitVars,
         CP!optionVars, CP!Server, CP!Next

LEMMA SameStartup ==
    ASSUME \/ C!BadArgs \/ C!HostLookup \/ C!SocketFails \/ C!Connected
           \/ C!SelectReturns \/ C!WriteKills \/ C!EndApp
    PROVE  CP!Next
  BY DEF C!BadArgs, C!HostLookup, C!SocketFails, C!Connected, C!SelectReturns,
         C!WriteKills, C!EndApp, C!linkVars, C!waitVars, C!optionVars, C!NewConn,
         C!NoConn, C!Readable, C!PeerGone, C!SendResult,
         CP!BadArgs, CP!HostLookup, CP!SocketFails, CP!Connected, CP!SelectReturns,
         CP!WriteKills, CP!EndApp, CP!linkVars, CP!waitVars, CP!optionVars, CP!NewConn,
         CP!NoConn, CP!Readable, CP!PeerGone, CP!SendResult,
         CP!Client, CP!Next

LEMMA SameKeys ==
    ASSUME NEW key \in C!Keys,
           \/ C!ConnectFails(key) \/ C!Throttle(key) \/ C!Pass(key)
           \/ C!Write(key) \/ C!WriteFails(key)
    PROVE  CP!Next
  BY DEF C!Keys, C!ConnectFails, C!Throttle, C!Pass, C!Write, C!WriteFails, C!TakeKey,
         C!MayWrite, C!linkVars, C!waitVars, C!optionVars, C!SendResult, C!AfterSend,
         C!Uncounted, C!Dying, C!Failing,
         CP!Keys, CP!ConnectFails, CP!Throttle, CP!Pass, CP!Write, CP!WriteFails,
         CP!TakeKey, CP!MayWrite, CP!linkVars, CP!waitVars, CP!optionVars,
         CP!SendResult, CP!AfterSend, CP!Uncounted, CP!Dying, CP!Failing,
         CP!Client, CP!Next

LEMMA SameReceive ==
    ASSUME \/ \E n \in 1..MaxIn : C!ReceiveData(n)
           \/ C!ReceiveReset \/ C!ReceiveEnd
    PROVE  CP!Next
  BY DEF C!ReceiveData, C!ReceiveReset, C!ReceiveEnd, C!ReceiveError, C!CountedError,
         C!TooManyErrors, C!CloseSocket, C!NoConn, C!linkVars, C!waitVars, C!optionVars,
         C!RecvResult, C!AfterRecvData, C!AfterRecvNothing, C!Uncounted, C!Dying,
         C!Failing,
         CP!ReceiveData, CP!ReceiveReset, CP!ReceiveEnd, CP!ReceiveError,
         CP!CountedError, CP!TooManyErrors, CP!CloseSocket, CP!NoConn, CP!linkVars,
         CP!waitVars, CP!optionVars, CP!RecvResult, CP!AfterRecvData,
         CP!AfterRecvNothing, CP!Uncounted, CP!Dying, CP!Failing,
         CP!Receive, CP!Client, CP!Next

(* So every step of the client keeps the client's own invariant.           *)
LEMMA ClientKeepsInv ==
    ASSUME C!ClientInv,
           \/ ClientAlone \/ C!Connected \/ UNCHANGED clientVars
           \/ C!ServerTakes \/ C!ServerReplies \/ C!ServerCloses \/ C!ServerResets
    PROVE  C!ClientInv'
  <1>1. CP!Next \/ UNCHANGED CP!vars
    BY SamePeers, SameStartup, SameKeys, SameReceive
    DEF ClientAlone, clientVars, CP!vars
  <1>2. CP!ClientInv /\ [CP!Next]_CP!vars => CP!ClientInv'
    BY ClientAssumed, CP!StepInv
  <1>3. (C!ClientInv <=> CP!ClientInv)'
    BY SameClientInv, PTL
  <1>4. QED
    BY <1>1, <1>2, <1>3, SameClientInv

-----------------------------------------------------------------------------
(* What the parts of the state are.                                        *)

LEMMA Links ==
    /\ NoLink \notin FreeFds /\ Pending \notin FreeFds /\ Gone \notin FreeFds
    /\ NoLink # Pending /\ Pending # Gone /\ NoLink # Gone
  BY ServerAssumption DEF NoLink, Pending, Gone

LEMMA Types ==
    ASSUME EchoInv
    PROVE  /\ cend \in Conn /\ cend.in \in Nat /\ cend.out \in 0..MaxOut
           /\ conn \in [FreeFds -> Conn]
           /\ Linked => /\ conn[link].in \in Nat
                        /\ conn[link].out \in 0..MaxOut
                        /\ conn[link].fails \in Nat
           /\ AtServer \in Nat
           /\ toServer.data \in Nat /\ toClient.data \in Nat
           /\ resets \in Nat /\ cconnects \in 0..1
           /\ wait_4_reply \in BOOLEAN
  <1>1. cend \in Conn /\ wait_4_reply \in BOOLEAN
        /\ resets \in Nat /\ cconnects \in 0..1
    BY EchoAssumption DEF EchoInv, EchoTypeOK, C!TypeOK, C!Conn, C!ConnState, Conn, ConnState
  <1>2. conn \in [FreeFds -> Conn]
    BY DEF EchoInv, EchoTypeOK, TypeOK
  <1>3. toServer \in Wire /\ toClient \in Wire
    BY DEF EchoInv, EchoTypeOK
  <1>4. Linked => conn[link] \in Conn
    BY <1>2 DEF Linked
  <1>5. cend.in \in Nat /\ cend.out \in 0..MaxOut
    BY <1>1, BufferAssumption DEF Conn
  <1>6. Linked => /\ conn[link].in \in Nat
                  /\ conn[link].out \in 0..MaxOut
                  /\ conn[link].fails \in Nat
    BY <1>4, BufferAssumption DEF Conn
  <1>7. AtServer \in Nat
    BY <1>6, BufferAssumption DEF AtServer, Atom
  <1>8. toServer.data \in Nat /\ toClient.data \in Nat
    BY <1>3, BufferAssumption DEF Wire
  <1>9. QED
    BY <1>1, <1>2, <1>5, <1>6, <1>7, <1>8

LEMMA Wires ==
    /\ NoWire \in Wire /\ NoWire.data = 0 /\ NoWire.last = "none"
    /\ [data |-> 0, last |-> "rst"] \in Wire
    /\ \A c \in Conn : /\ Leaves(c) \in Wire
                       /\ Leaves(c).data \in {0, c.out}
  BY BufferAssumption DEF NoWire, Wire, Leaves, Conn, ConnState

-----------------------------------------------------------------------------
(* The client.                                                             *)

(* A step of the client that keeps its socket, or its lack of one.         *)
LEMMA ClientMoves ==
    ASSUME EchoInv, C!ClientInv',
           UNCHANGED <<vars, wireVars, cconnects>>,
           IsOpen(cend') <=> IsOpen(cend),
           InFlight' <= Atom(wait_4_reply \/ cpc = "end" \/ ~IsOpen(cend))' + resets',
           resets' >= resets,
           cpc' = "send" => ~wait_4_reply',
           cpc' \in {"start", "connect"} => cpc \in {"start", "connect"},
           cconnects = 0 => UNCHANGED <<cend, recv_errors>>,
           link # Gone => cend'.st = cend.st /\ recv_errors' \in {0, recv_errors}
    PROVE  EchoInv'
  <1>1. ServerInv'
    BY StepInv DEF EchoInv
  <1>2. EchoTypeOK'
    BY <1>1 DEF EchoInv, EchoTypeOK, ServerInv, C!ClientInv, wireVars
  <1>3. OneInFlight'
    BY DEF OneInFlight
  <1>4. LinkMatches'
    BY DEF EchoInv, LinkMatches, vars, wireVars
  <1>5. ClientPhases'
    BY DEF EchoInv, ClientPhases, wireVars
  <1>6. BothEstablished'
    BY DEF EchoInv, BothEstablished, Linked, vars, wireVars
  <1>7. NoFailedCall' /\ DeadIsAnswered'
    <2>1. resets' = 0 => resets = 0
      <3>1. resets \in Nat /\ resets' \in Nat
        BY <1>2, EchoAssumption DEF EchoInv, EchoTypeOK, C!TypeOK
      <3>2. QED
        BY <3>1
    <2>2. QED
      BY <2>1 DEF EchoInv, NoFailedCall, DeadIsAnswered, Linked, vars, wireVars
  <1>8. QED
    BY <1>1, <1>2, <1>3, <1>4, <1>5, <1>6, <1>7 DEF EchoInv

(* A step of the client that closes its socket, or finds it closed.        *)
LEMMA ClientCloseInv ==
    ASSUME EchoInv, C!ClientInv',
           UNCHANGED <<vars, link, cconnects, resets>>,
           cend' = NoConn,
           recv_errors' = recv_errors \/ cconnects # 0,
           cpc' \notin {"start", "connect", "send"},
           IF IsOpen(cend)
           THEN /\ toServer' = IF link = Gone THEN NoWire ELSE Leaves(cend)
                /\ toClient' = NoWire
           ELSE UNCHANGED <<toServer, toClient>>
    PROVE  EchoInv'
  <1>1. ServerInv'
    BY StepInv DEF EchoInv
  <1>2. toServer' \in Wire /\ toClient' \in Wire
    BY Types, Wires DEF EchoInv, EchoTypeOK
  <1>3. EchoTypeOK'
    BY <1>1, <1>2 DEF EchoInv, EchoTypeOK, ServerInv, C!ClientInv
  <1>4. OneInFlight'
    <2>1. AtServer' = AtServer
      BY DEF AtServer, Linked, vars
    <2>2. cend'.in = 0 /\ cend'.out = 0 /\ ~IsOpen(cend')
      BY DEF NoConn, IsOpen
    <2>3. /\ toServer'.data \in {0, cend.out, toServer.data}
          /\ toClient'.data \in {0, toClient.data}
          /\ toServer'.data = toServer.data \/ toServer'.data \in {0, cend.out}
      BY Types, Wires
    <2>4. InFlight' <= InFlight
      BY <2>1, <2>2, <2>3, Types DEF InFlight
    <2>5. InFlight <= 1 + resets
      BY Types DEF EchoInv, OneInFlight, Atom, InFlight
    <2>6. InFlight' <= 1 + resets'
      BY <2>1, <2>2, <2>3, <2>4, <2>5, Types DEF InFlight
    <2>7. QED
      BY <2>2, <2>6 DEF OneInFlight, Atom
  <1>5. LinkMatches'
    BY DEF EchoInv, LinkMatches, vars
  <1>6. ClientPhases'
    BY DEF EchoInv, ClientPhases, NoConn, IsOpen
  <1>7. BothEstablished'
    BY DEF EchoInv, BothEstablished, Linked, vars, NoConn, IsOpen
  <1>8. NoFailedCall' /\ DeadIsAnswered'
    BY DEF EchoInv, NoFailedCall, DeadIsAnswered, Linked, vars, NoConn, IsOpen
  <1>9. QED
    BY <1>1, <1>3, <1>4, <1>5, <1>6, <1>7, <1>8 DEF EchoInv

(* A look at the keyboard: 'r' takes back a wait and is counted.           *)
LEMMA KeyTakes ==
    ASSUME EchoInv, NEW key \in C!Keys, C!TakeKey(key)
    PROVE  \/ wait_4_reply' = wait_4_reply /\ resets' = resets
           \/ wait_4_reply' = FALSE /\ resets' = resets + 1
  BY DEF C!TakeKey, C!waitVars

(* A step that leaves the socket alone.                                    *)
LEMMA ClientQuietInv ==
    ASSUME EchoInv, ClientStep(ClientAlone),
           \/ C!BadArgs \/ C!HostLookup \/ C!SocketFails \/ C!SelectReturns
           \/ \E key \in C!Keys : C!ConnectFails(key) \/ C!Throttle(key) \/ C!Pass(key)
    PROVE  EchoInv'
  <1> USE DEF C!linkVars, C!waitVars, C!optionVars
  <1>1. C!ClientInv'
    BY ClientKeepsInv DEF EchoInv, ClientStep
  <1>2. UNCHANGED <<cend, not_connected, cconnects, recv_errors>>
    BY DEF C!BadArgs, C!HostLookup, C!SocketFails, C!SelectReturns, C!ConnectFails,
           C!Throttle, C!Pass
  <1>3. \/ wait_4_reply' = wait_4_reply /\ resets' = resets
        \/ wait_4_reply' = FALSE /\ resets' = resets + 1
    BY KeyTakes DEF C!BadArgs, C!HostLookup, C!SocketFails, C!SelectReturns,
                    C!ConnectFails, C!Throttle, C!Pass
  <1>4. /\ cpc # "end"
        /\ cpc' = "send" => ~wait_4_reply'
        /\ cpc' \in {"start", "connect"} => cpc \in {"start", "connect"}
    BY DEF C!BadArgs, C!HostLookup, C!SocketFails, C!SelectReturns, C!ConnectFails,
           C!Throttle, C!Pass, C!MayWrite
  <1>5. UNCHANGED <<vars, wireVars>>
    BY <1>2 DEF ClientStep, ClientCloses, wireVars
  <1>6. resets' >= resets
    BY <1>3, Types
  <1>7. InFlight' <= Atom(wait_4_reply \/ cpc = "end" \/ ~IsOpen(cend))' + resets'
    <2>1. InFlight' = InFlight
      BY <1>2, <1>5 DEF InFlight, AtServer, Linked, wireVars, vars
    <2>2. InFlight <= Atom(wait_4_reply \/ cpc = "end" \/ ~IsOpen(cend)) + resets
      BY DEF EchoInv, OneInFlight
    <2>3. InFlight \in Nat
      BY Types DEF InFlight
    <2>4. QED
      BY <1>2, <1>3, <1>4, <2>1, <2>2, <2>3, Types DEF Atom
  <1>8. QED
    BY <1>1, <1>2, <1>4, <1>5, <1>6, <1>7, ClientMoves

(* write().                                                                *)
LEMMA ClientWriteInv ==
    ASSUME EchoInv, ClientStep(ClientAlone),
           \/ \E key \in C!Keys : C!Write(key) \/ C!WriteFails(key)
           \/ C!WriteKills
    PROVE  EchoInv'
  <1> USE DEF C!linkVars, C!waitVars, C!optionVars
  <1>1. C!ClientInv'
    BY ClientKeepsInv DEF EchoInv, ClientStep
  <1>2. cpc = "send" /\ IsOpen(cend) /\ cconnects # 0 /\ UNCHANGED cconnects
        /\ ~wait_4_reply
    BY DEF C!Write, C!WriteFails, C!WriteKills, EchoInv, ClientPhases,
           C!ClientInv, C!SocketMatches, C!IsOpen, IsOpen, NoConn
  <1>3. InFlight <= resets /\ InFlight \in Nat
    BY <1>2, Types DEF EchoInv, OneInFlight, Atom, InFlight
  <1>4. link # Gone => cend.st = "open"
    BY <1>2 DEF EchoInv, BothEstablished
  <1>5. ASSUME NEW key \in C!Keys, C!Write(key)
        PROVE  EchoInv'
    <2>1. cend' = [cend EXCEPT !.out = @ + 1]
      BY <1>5 DEF C!Write, C!AfterSend
    <2>2. /\ IsOpen(cend') /\ cend'.st = cend.st
          /\ cend'.in = cend.in /\ cend'.out = cend.out + 1
      BY <1>2, <2>1, Types DEF Conn, IsOpen
    <2>3. UNCHANGED <<vars, wireVars>>
      BY <2>2, <1>5 DEF ClientStep, ClientCloses, wireVars
    <2>4. /\ cpc' = "end" \/ wait_4_reply'
          /\ cpc' \in {"end", "select"}
          /\ UNCHANGED <<recv_errors, resets>>
      BY <1>5 DEF C!Write
    <2>5. InFlight' = InFlight + 1
      <3>1. UNCHANGED <<AtServer, toServer, toClient>>
        BY <2>3 DEF AtServer, Linked, wireVars, vars
      <3>2. QED
        BY <2>2, <3>1, Types DEF InFlight
    <2>6. InFlight' <= Atom(wait_4_reply \/ cpc = "end" \/ ~IsOpen(cend))' + resets'
      BY <1>3, <2>4, <2>5, Types DEF Atom
    <2>7. resets' >= resets
      BY <2>4, Types
    <2>8. QED
      BY <1>1, <1>2, <2>2, <2>3, <2>4, <2>6, <2>7, ClientMoves
  <1>6. ASSUME NEW key \in C!Keys, C!WriteFails(key)
        PROVE  EchoInv'
    <2>1. /\ IsOpen(cend') /\ (cend.st = "open" => cend'.st = cend.st)
          /\ cend'.in = cend.in /\ cend'.out = cend.out
      BY <1>2, <1>6, Types
      DEF C!WriteFails, C!AfterSend, C!SendResult, C!Uncounted, C!Dying, C!Failing,
          Conn, IsOpen
    <2>2. UNCHANGED <<vars, wireVars>>
      BY <2>1 DEF ClientStep, ClientCloses, wireVars
    <2>3. /\ wait_4_reply' = wait_4_reply
          /\ cpc' \in {"end", "loop"}
          /\ UNCHANGED <<recv_errors, resets>>
      BY <1>2, <1>6 DEF C!WriteFails, C!TakeKey
    <2>4. InFlight' = InFlight
      BY <2>1, <2>2 DEF InFlight, AtServer, Linked, wireVars, vars
    <2>5. InFlight' <= Atom(wait_4_reply \/ cpc = "end" \/ ~IsOpen(cend))' + resets'
      BY <1>3, <2>3, <2>4, Types DEF Atom
    <2>6. resets' >= resets
      BY <2>3, Types
    <2>7. QED
      BY <1>1, <1>2, <1>4, <2>1, <2>2, <2>3, <2>5, <2>6, ClientMoves
  <1>7. CASE C!WriteKills
    <2>1. cend' = NoConn /\ cpc' = "killed" /\ UNCHANGED <<cconnects, recv_errors, resets>>
      BY <1>7 DEF C!WriteKills, C!NoConn, NoConn
    <2>2. ClientCloses
      BY <1>2, <2>1, PlainConns DEF ClientCloses
    <2>3. QED
      BY <1>1, <1>2, <2>1, <2>2, ClientCloseInv DEF ClientStep
  <1>8. QED
    BY <1>5, <1>6, <1>7

(* recv(), and the close() at the end.                                     *)
LEMMA ClientReceiveInv ==
    ASSUME EchoInv, ClientStep(ClientAlone),
           \/ \E n \in 1..MaxIn : C!ReceiveData(n)
           \/ C!ReceiveReset \/ C!ReceiveEnd
           \/ C!EndApp
    PROVE  EchoInv'
  <1> USE DEF C!linkVars, C!waitVars, C!optionVars
  <1>1. C!ClientInv'
    BY ClientKeepsInv DEF EchoInv, ClientStep
  <1>2. cpc = "recv" => IsOpen(cend) /\ cconnects # 0
    BY DEF EchoInv, ClientPhases, C!ClientInv, C!SocketMatches, C!IsOpen, IsOpen, NoConn
  <1>3. InFlight <= Atom(wait_4_reply \/ cpc = "end" \/ ~IsOpen(cend)) + resets
        /\ InFlight \in Nat
    BY Types DEF EchoInv, OneInFlight, InFlight
  <1>4. link # Gone /\ IsOpen(cend) => cend.st = "open"
    BY DEF EchoInv, BothEstablished
  <1>5. ASSUME NEW n \in 1..MaxIn, C!ReceiveData(n)
        PROVE  EchoInv'
    <2>1. cpc = "recv" /\ n <= cend.in /\ cend' = [cend EXCEPT !.in = @ - n]
          /\ recv_errors' = 0 /\ ~wait_4_reply' /\ cpc' \in {"end", "loop"}
          /\ UNCHANGED <<cconnects, resets>>
      BY <1>5 DEF C!ReceiveData, C!AfterRecvData
    <2>2. n \in Nat \ {0}
      BY BufferAssumption
    <2>3. /\ IsOpen(cend') /\ cend'.st = cend.st
          /\ cend'.in = cend.in - n /\ cend'.out = cend.out
      BY <1>2, <2>1, Types DEF Conn, IsOpen
    <2>4. UNCHANGED <<vars, wireVars>>
      BY <2>3 DEF ClientStep, ClientCloses, wireVars
    <2>5. InFlight' = InFlight - n
      <3>1. UNCHANGED <<AtServer, toServer, toClient>>
        BY <2>4 DEF AtServer, Linked, wireVars, vars
      <3>2. QED
        BY <2>2, <2>3, <3>1, Types DEF InFlight
    <2>6. InFlight' <= resets'
      BY <1>3, <2>1, <2>2, <2>5, Types DEF Atom
    <2>7. InFlight' <= Atom(wait_4_reply \/ cpc = "end" \/ ~IsOpen(cend))' + resets'
      BY <2>1, <2>2, <2>5, <2>6, <1>3, Types DEF Atom
    <2>8. resets' >= resets
      BY <2>1, Types
    <2>9. QED
      BY <1>1, <1>2, <2>1, <2>3, <2>4, <2>7, <2>8, ClientMoves
  <1>6. ASSUME C!ReceiveReset \/ C!ReceiveEnd, IsOpen(cend')
        PROVE  EchoInv'
    <2>1. cpc = "recv" /\ UNCHANGED <<cconnects, resets, wait_4_reply>>
          /\ cpc' \in {"end", "loop"}
      BY <1>6 DEF C!ReceiveReset, C!ReceiveEnd, C!ReceiveError
    <2>2. cend.st \in {"reset", "fin", "dead"}
      BY <1>6, Types DEF C!ReceiveReset, C!ReceiveEnd, C!RecvResult, Conn
    <2>3. link = Gone
      BY <1>2, <1>4, <2>1, <2>2
    <2>4. cend'.in = cend.in /\ cend'.out = cend.out
      <3>1. cend' = C!Uncounted(C!AfterRecvNothing(cend))
        BY <1>6 DEF C!ReceiveReset, C!ReceiveEnd, C!ReceiveError, C!CloseSocket,
                    C!NoConn, IsOpen
      <3>2. C!AfterRecvNothing(cend) \in {cend, C!Failing(cend), C!Dying(cend)}
        BY DEF C!AfterRecvNothing
      <3>3. QED
        BY <3>1, <3>2, Types DEF C!Uncounted, C!Dying, C!Failing, Conn
    <2>5. UNCHANGED <<vars, wireVars>>
      BY <1>6 DEF ClientStep, ClientCloses, wireVars
    <2>6. InFlight' = InFlight
      BY <2>4, <2>5 DEF InFlight, AtServer, Linked, wireVars, vars
    <2>7. InFlight' <= Atom(wait_4_reply \/ cpc = "end" \/ ~IsOpen(cend))' + resets'
      BY <1>2, <1>3, <1>6, <2>1, <2>6, Types DEF Atom
    <2>8. resets' >= resets
      BY <2>1, Types
    <2>9. QED
      BY <1>1, <1>2, <1>6, <2>1, <2>3, <2>5, <2>7, <2>8, ClientMoves
  <1>7. ASSUME C!ReceiveReset, ~IsOpen(cend')
        PROVE  EchoInv'
    <2>1. cpc = "recv" /\ cpc' = "loop" /\ UNCHANGED <<cconnects, resets>>
      BY <1>7 DEF C!ReceiveReset, C!ReceiveError
    <2>2. cend' = NoConn
      BY <1>7, <1>2, <2>1, Types
      DEF C!ReceiveReset, C!ReceiveError, C!CloseSocket, C!NoConn, NoConn,
          C!AfterRecvNothing, C!RecvResult, C!Uncounted, C!Dying, C!Failing, Conn, IsOpen
    <2>3. ClientCloses
      BY <1>2, <1>7, <2>1 DEF ClientCloses
    <2>4. QED
      BY <1>1, <1>2, <2>1, <2>2, <2>3, ClientCloseInv DEF ClientStep
  <1>8. C!ReceiveEnd => IsOpen(cend')
    BY <1>2, Types
    DEF C!ReceiveEnd, C!AfterRecvNothing, C!RecvResult, C!Uncounted, C!Failing,
        Conn, IsOpen
  <1>9. CASE C!EndApp
    <2>1. cend' = NoConn /\ cpc' = "exited" /\ UNCHANGED <<cconnects, recv_errors, resets>>
      BY <1>9 DEF C!EndApp, C!NoConn, NoConn
    <2>2. ClientCloses <=> IsOpen(cend)
      BY <2>1, PlainConns DEF ClientCloses
    <2>3. QED
      BY <1>1, <2>1, <2>2, ClientCloseInv DEF ClientStep
  <1>10. QED
    BY <1>5, <1>6, <1>7, <1>8, <1>9

LEMMA ClientInv ==
    ASSUME EchoInv, ClientStep(ClientAlone)
    PROVE  EchoInv'
  BY ClientQuietInv, ClientWriteInv, ClientReceiveInv DEF ClientStep, ClientAlone

-----------------------------------------------------------------------------
(* The server.                                                             *)

(* The only client the server can have is this one.                        *)
LEMMA OnlyClient ==
    ASSUME EchoInv, NEW k \in DOMAIN vInClients
    PROVE  Linked /\ vInClients[k].sock = link /\ conn[link] \in Conn
           /\ IsOpen(conn[link])
  <1>1. vInClients[k].sock \in FreeFds
    BY Entries DEF EchoInv, EchoTypeOK
  <1>2. vInClients[k].sock \in Tracked
    BY DEF Tracked, Range
  <1>3. IsOpen(conn[vInClients[k].sock])
    BY <1>1, <1>2 DEF EchoInv, ServerInv, TableMatchesKernel
  <1>4. vInClients[k].sock = link
    BY <1>1, <1>3 DEF EchoInv, LinkMatches
  <1>5. QED
    BY <1>1, <1>3, <1>4, Types DEF Linked

(* A step of the server that neither takes the connection nor closes it.   *)
LEMMA ServerMoves ==
    ASSUME EchoInv, ServerInv',
           UNCHANGED <<clientVars, wireVars, backlog, connects, sockfd>>,
           \A f \in FreeFds : IsOpen(conn'[f]) <=> IsOpen(conn[f]),
           AtServer' \in Nat, AtServer' <= AtServer,
           pc' \in {"start", "exited", "killed"} => link \in {NoLink, Gone},
           Linked => (conn'[link].st # "open" => conn[link].st # "open"),
           NoFailedCall', DeadIsAnswered'
    PROVE  EchoInv'
  <1>1. C!ClientInv'
    BY ClientKeepsInv DEF EchoInv
  <1>2. EchoTypeOK'
    BY <1>1 DEF EchoInv, EchoTypeOK, ServerInv, C!ClientInv, wireVars
  <1>3. OneInFlight'
    <2>1. InFlight' <= InFlight
      BY Types DEF InFlight, clientVars, wireVars
    <2>2. InFlight' \in Nat /\ InFlight \in Nat
      BY Types DEF InFlight, clientVars, wireVars
    <2>3. QED
      BY <2>1, <2>2, Types DEF EchoInv, OneInFlight, Atom, clientVars
  <1>4. LinkMatches'
    BY DEF EchoInv, LinkMatches, clientVars, wireVars
  <1>5. ClientPhases'
    BY DEF EchoInv, ClientPhases, clientVars, wireVars
  <1>6. BothEstablished'
    BY DEF EchoInv, BothEstablished, Linked, clientVars, wireVars
  <1>7. QED
    BY <1>1, <1>2, <1>3, <1>4, <1>5, <1>6 DEF EchoInv

(* Steps that leave the connection alone: startup, the keyboard, select(). *)
LEMMA ServerQuietInv ==
    ASSUME EchoInv, ServerStep(Server),
           \/ Startup \/ \E key \in Keys : CheckKey(key)
           \/ SelectReturns \/ SelectFails \/ AcceptFails \/ FinishReads \/ EraseDone
    PROVE  EchoInv'
  <1> USE DEF mainVars, tableVars, passVars, keyVars, kernelVars, peerVars
  <1>1. ServerInv'
    BY StepInv DEF EchoInv, ServerStep, Next
  <1>2. UNCHANGED <<conn, backlog, connects>>
    BY DEF Startup, BadArgs, StartupFails, StartupDone, CheckKey, SelectReturns,
           SelectFails, AcceptFails, FinishReads, EraseDone
  <1>3. /\ pc # "reply" /\ pc' \notin {"reply", "start", "killed"}
        /\ pc # "start" => pc' # "exited" /\ sockfd' = sockfd
    BY DEF Startup, BadArgs, StartupFails, StartupDone, CheckKey, SelectReturns,
           SelectFails, AcceptFails, FinishReads, EraseDone
  <1>4. pc = "start" => link \in {NoLink, Gone}
    BY DEF EchoInv, LinkMatches
  <1>5. UNCHANGED <<clientVars, wireVars>>
    <2>1. backlog' = backlog /\ backlog \in Nat
      BY <1>2, ServerAssumption DEF EchoInv, EchoTypeOK, TypeOK
    <2>2. ~(link = Pending /\ pc = "accept" /\ backlog' < backlog)
      BY <2>1
    <2>3. ~(link = Pending /\ sockfd # NoSock /\ sockfd' = NoSock)
      BY <1>3, <1>4, Links
    <2>4. ~(Linked /\ ~IsOpen(conn'[link]))
      BY <1>2 DEF EchoInv, LinkMatches, Linked
    <2>5. QED
      BY <2>2, <2>3, <2>4 DEF ServerStep
  <1>6. AtServer' = AtServer
    BY <1>2, <1>3, <1>5, Types DEF AtServer, Atom, Linked, wireVars
  <1>7. NoFailedCall'
    BY <1>2, <1>5 DEF EchoInv, NoFailedCall, Linked, clientVars, wireVars
  <1>8. DeadIsAnswered'
    BY <1>2, <1>3, <1>5 DEF EchoInv, DeadIsAnswered, Linked, clientVars, wireVars
  <1>9. CASE pc # "start"
    <2>1. sockfd' = sockfd
      BY <1>3, <1>9
    <2>2. pc' \notin {"start", "exited", "killed"}
      BY <1>3, <1>9
    <2>3. QED
      BY <1>1, <1>2, <1>5, <1>6, <1>7, <1>8, <2>1, <2>2, Types, ServerMoves
  <1>10. CASE pc = "start"
    <2>1. C!ClientInv'
      BY <1>5, ClientKeepsInv DEF EchoInv
    <2>2. EchoTypeOK'
      BY <1>1, <1>5, <2>1 DEF EchoInv, EchoTypeOK, ServerInv, C!ClientInv, wireVars
    <2>3. OneInFlight'
      BY <1>5, <1>6 DEF EchoInv, OneInFlight, InFlight, clientVars, wireVars
    <2>4. LinkMatches'
      BY <1>2, <1>4, <1>5, <1>10, Links DEF EchoInv, LinkMatches, clientVars, wireVars
    <2>5. ClientPhases' /\ BothEstablished'
      BY <1>2, <1>5
      DEF EchoInv, ClientPhases, BothEstablished, Linked, clientVars, wireVars
    <2>6. QED
      BY <1>1, <1>7, <1>8, <2>1, <2>2, <2>3, <2>4, <2>5 DEF EchoInv
  <1>11. QED
    BY <1>9, <1>10

(* accept() takes the one connection there is from the backlog.            *)
LEMMA ServerAcceptInv ==
    ASSUME EchoInv, ServerStep(Server), AcceptClient
    PROVE  EchoInv'
  <1> USE DEF passVars, keyVars, peerVars
  <1>1. ServerInv'
    BY StepInv DEF EchoInv, ServerStep, Next, Server, Loop
  <1>2. PICK f \in FreeFds : conn' = [conn EXCEPT ![f] = NewConn]
    BY DEF AcceptClient, LowestUnused, Unused
  <1>3. /\ backlog = 1 /\ backlog' = 0 /\ link = Pending
        /\ pc = "accept" /\ pc' = "loop" /\ sockfd' = sockfd
        /\ connects' = connects
    <2>1. backlog \in Nat
      BY ServerAssumption DEF EchoInv, EchoTypeOK, TypeOK
    <2>2. QED
      BY <2>1 DEF AcceptClient, EchoInv, LinkMatches
  <1>4. /\ \A g \in FreeFds : ~IsOpen(conn[g])
        /\ \A g \in FreeFds : IsOpen(conn'[g]) <=> g = f
        /\ conn'[f] = NewConn
    BY <1>2, <1>3, Links, Types, PlainConns DEF EchoInv, LinkMatches
  <1>5. link' = f /\ UNCHANGED <<clientVars, toServer, toClient>>
    <2>1. link = Pending /\ pc = "accept" /\ backlog' < backlog
      BY <1>3
    <2>2. ~(link = Pending /\ sockfd # NoSock /\ sockfd' = NoSock)
          /\ ~(Linked /\ ~IsOpen(conn'[link]))
      BY <1>3, Links DEF Linked
    <2>3. /\ link' \in {g \in FreeFds : ~IsOpen(conn[g]) /\ IsOpen(conn'[g])}
          /\ UNCHANGED <<clientVars, toServer, toClient>>
      BY <2>1, <2>2 DEF ServerStep
    <2>4. QED
      BY <1>4, <2>3
  <1>6. C!ClientInv'
    BY <1>5, ClientKeepsInv DEF EchoInv
  <1>7. EchoTypeOK'
    BY <1>1, <1>5, <1>6 DEF EchoInv, EchoTypeOK, ServerInv, C!ClientInv
  <1>8. OneInFlight'
    <2>1. AtServer = 0 /\ AtServer' = 0
      BY <1>3, <1>4, <1>5, Links DEF AtServer, Linked, NewConn, Atom
    <2>2. QED
      BY <1>5, <2>1 DEF EchoInv, OneInFlight, InFlight, clientVars
  <1>9. LinkMatches'
    <2>1. cconnects # 0
      BY <1>3, Links DEF EchoInv, LinkMatches
    <2>2. QED
      BY <1>3, <1>4, <1>5, <2>1, Links DEF EchoInv, LinkMatches, clientVars
  <1>10. ClientPhases'
    BY <1>5 DEF EchoInv, ClientPhases, clientVars
  <1>11. BothEstablished'
    BY <1>3, <1>4, <1>5, Links
    DEF EchoInv, BothEstablished, Linked, NewConn, clientVars
  <1>12. NoFailedCall'
    BY <1>2, <1>3, <1>4, <1>5, Links, Types DEF EchoInv, NoFailedCall, NewConn, clientVars
  <1>13. DeadIsAnswered'
    BY <1>3, <1>4, <1>5 DEF DeadIsAnswered, NewConn
  <1>14. QED
    BY <1>1, <1>6, <1>7, <1>8, <1>9, <1>10, <1>11, <1>12, <1>13 DEF EchoInv

(* A call of the server on the connection, from which d is what is left.   *)
LEMMA ServerCallInv ==
    ASSUME EchoInv, ServerStep(Server), Linked,
           NEW d \in Conn, IsOpen(d), conn' = [conn EXCEPT ![link] = d],
           UNCHANGED <<backlog, connects, sockfd>>,
           pc' \in {"process", "reply"},
           d.in + d.out + Atom(pc' = "reply")
             <= conn[link].in + conn[link].out + Atom(pc = "reply"),
           d.st # "open" => conn[link].st # "open",
           resets = 0 => /\ conn[link].st = "open" => d.fails = conn[link].fails
                         /\ d.st = "dead" => d.in = 0 /\ pc' # "reply"
    PROVE  EchoInv'
  <1>1. ServerInv'
    BY StepInv DEF EchoInv, ServerStep, Next
  <1>2. /\ conn'[link] = d /\ IsOpen(conn[link])
        /\ \A f \in FreeFds : f # link => conn'[f] = conn[f]
    BY Types DEF EchoInv, LinkMatches, Linked
  <1>3. UNCHANGED <<clientVars, wireVars>>
    <2>1. link # Pending
      BY Links DEF Linked
    <2>2. QED
      BY <1>2, <2>1 DEF ServerStep
  <1>4. \A f \in FreeFds : IsOpen(conn'[f]) <=> IsOpen(conn[f])
    BY <1>2
  <1>5. AtServer' \in Nat /\ AtServer' <= AtServer
    <2>1. d.in \in Nat /\ d.out \in Nat
      BY BufferAssumption DEF Conn
    <2>2. AtServer' = d.in + d.out + Atom(pc' = "reply")
      BY <1>2, <1>3 DEF AtServer, Linked, Atom, wireVars
    <2>3. QED
      BY <2>1, <2>2, Types DEF AtServer, Atom
  <1>6. pc' \notin {"start", "exited", "killed"}
    OBVIOUS
  <1>7. NoFailedCall'
    <2>1. SUFFICES ASSUME resets = 0, IsOpen(cend), link # Gone
                   PROVE  recv_errors = 0 /\ conn'[link].fails = 0
      BY <1>3 DEF NoFailedCall, clientVars, wireVars
    <2>2. recv_errors = 0 /\ conn[link].fails = 0
      BY <2>1 DEF EchoInv, NoFailedCall
    <2>3. conn[link].st = "open"
      BY <2>1 DEF EchoInv, BothEstablished
    <2>4. QED
      BY <1>2, <2>1, <2>2, <2>3 DEF Linked
  <1>8. DeadIsAnswered'
    BY <1>2, <1>3 DEF DeadIsAnswered, clientVars, wireVars
  <1>9. QED
    BY <1>1, <1>2, <1>3, <1>4, <1>5, <1>6, <1>7, <1>8, ServerMoves

LEMMA ServerReceiveInv ==
    ASSUME EchoInv, ServerStep(Server), NEW k \in DOMAIN vInClients,
           ReceiveNothing(k) \/ \E n \in 1..MaxIn : ReceiveData(k, n)
    PROVE  EchoInv'
  <1> USE DEF mainVars, keyVars, peerVars
  <1> DEFINE c == conn[link]
  <1>1. /\ Linked /\ vInClients[k].sock = link /\ c \in Conn /\ IsOpen(c)
        /\ c.in \in Nat /\ c.out \in 0..MaxOut /\ c.fails \in Nat
    BY OnlyClient, Types
  <1>2. /\ pc = "process" /\ UNCHANGED <<backlog, connects, sockfd>>
        /\ pc' \in {"process", "reply"}
    BY DEF ReceiveNothing, ReceiveData
  <1>3. ASSUME ReceiveNothing(k)
        PROVE  EchoInv'
    <2> DEFINE d == AfterRecvNothing(c)
    <2>1. conn' = [conn EXCEPT ![link] = d] /\ pc' = "process" /\ RecvResult(c) # "data"
      BY <1>1, <1>3 DEF ReceiveNothing
    <2>2. c.in = 0
      BY <1>1, <2>1 DEF RecvResult
    <2>3. d \in Conn /\ IsOpen(d)
      BY <1>1, FailedCalls
    <2>4. /\ d.in = c.in /\ d.out = c.out
          /\ c.st = "open" => d = c
          /\ c.st # "open" => d.st # "open"
      <3>1. c.st = "open" => RecvResult(c) = "again" /\ d = c
        BY <1>1, <2>2, FailedCalls DEF RecvResult
      <3>2. d \in {c, Failing(c), Dying(c)}
        BY DEF AfterRecvNothing
      <3>3. QED
        BY <1>1, <3>1, <3>2 DEF Failing, Dying, Conn
    <2>5. d.in + d.out + Atom(pc' = "reply") <= c.in + c.out + Atom(pc = "reply")
      BY <1>1, <1>2, <2>1, <2>4 DEF Atom
    <2> HIDE DEF d
    <2>6. QED
      BY <1>1, <1>2, <2>1, <2>2, <2>3, <2>4, <2>5, ServerCallInv
  <1>4. ASSUME NEW n \in 1..MaxIn, ReceiveData(k, n)
        PROVE  EchoInv'
    <2> DEFINE d == AfterRecvData(c, n)
    <2>1. conn' = [conn EXCEPT ![link] = d] /\ n <= c.in
      BY <1>1, <1>4 DEF ReceiveData
    <2>2. n \in Nat \ {0}
      BY BufferAssumption
    <2>3. d \in Conn /\ IsOpen(d) /\ d.fails = c.fails
      BY <1>1, <2>1, ReadData
    <2>4. d.in = c.in - n /\ d.out = c.out /\ d.st = c.st
      BY <1>1 DEF AfterRecvData, Conn
    <2>5. d.in + d.out + Atom(pc' = "reply") <= c.in + c.out + Atom(pc = "reply")
      BY <1>1, <1>2, <2>1, <2>2, <2>4 DEF Atom
    <2>6. resets = 0 => c.st # "dead"
      BY <1>1, <2>1, <2>2 DEF EchoInv, DeadIsAnswered
    <2> HIDE DEF d
    <2>7. QED
      BY <1>1, <1>2, <2>1, <2>3, <2>4, <2>5, <2>6, ServerCallInv
  <1>5. QED
    BY <1>3, <1>4

(* send() of a reply.  Stop and wait leaves room for it, unless the user   *)
(* ended a wait; and nothing is under way besides it.                      *)
LEMMA ServerReplyInv ==
    ASSUME EchoInv, ServerStep(Server), Reply
    PROVE  EchoInv'
  <1> USE DEF mainVars, keyVars, peerVars
  <1> DEFINE c == conn[link]
             d == AfterSend(c)
  <1>1. /\ Linked /\ vInClients[idx].sock = link /\ c \in Conn /\ IsOpen(c)
        /\ c.in \in Nat /\ c.out \in 0..MaxOut /\ c.fails \in Nat
    <2>1. pc = "reply" => idx \in DOMAIN vInClients
      BY DEF EchoInv, ServerInv, PassInv
    <2>2. QED
      BY <2>1, OnlyClient, Types DEF Reply
  <1>2. /\ pc = "reply" /\ pc' = "process" /\ UNCHANGED <<backlog, connects, sockfd>>
        /\ conn' = [conn EXCEPT ![link] = d]
        /\ SendResult(c) # "sigpipe"
    BY <1>1 DEF Reply
  <1>3. SendResult(c) \in {"ok", "again", "error"}
    BY <1>1, <1>2 DEF SendResult
  <1>4. d \in Conn /\ IsOpen(d)
    BY <1>1, FailedCalls
  <1>5. resets = 0 => c.in = 0 /\ c.out = 0
    <2>1. AtServer = c.in + c.out + 1
      BY <1>1, <1>2 DEF AtServer, Atom
    <2>2. InFlight \in Nat /\ AtServer <= InFlight
      BY Types DEF InFlight
    <2>3. resets = 0 => InFlight <= 1
      BY <2>2 DEF EchoInv, OneInFlight, Atom
    <2>4. c.in \in Nat /\ c.out \in Nat
      BY <1>1, BufferAssumption
    <2>5. QED
      BY <2>1, <2>2, <2>3, <2>4
  <1>6. CASE SendResult(c) = "ok"
    <2>1. d.in = c.in /\ d.out = c.out + 1 /\ d.st = c.st /\ d.fails = c.fails
      BY <1>1, <1>6 DEF AfterSend, Conn
    <2>2. d.in + d.out + Atom(pc' = "reply") <= c.in + c.out + Atom(pc = "reply")
      BY <1>1, <1>2, <2>1 DEF Atom
    <2>3. c.st # "dead"
      BY <1>6 DEF SendResult
    <2> HIDE DEF d
    <2>4. QED
      BY <1>1, <1>2, <1>4, <2>1, <2>2, <2>3, ServerCallInv
  <1>7. CASE SendResult(c) = "again"
    <2>1. d.in = c.in /\ d.out = c.out /\ d.st = c.st
      BY <1>1, <1>7 DEF AfterSend, Failing, Conn
    <2>2. d.in + d.out + Atom(pc' = "reply") <= c.in + c.out + Atom(pc = "reply")
      BY <1>1, <1>2, <2>1 DEF Atom
    <2>3. resets # 0
      BY <1>1, <1>5, <1>7, BufferAssumption DEF SendResult
    <2> HIDE DEF d
    <2>4. QED
      BY <1>1, <1>2, <1>4, <2>1, <2>2, <2>3, ServerCallInv
  <1>8. CASE SendResult(c) = "error"
    <2>1. d.in = c.in /\ d.out = c.out /\ d.st = "dead"
      BY <1>1, <1>8 DEF AfterSend, Dying, Failing, Conn
    <2>2. d.in + d.out + Atom(pc' = "reply") <= c.in + c.out + Atom(pc = "reply")
      BY <1>1, <1>2, <2>1 DEF Atom
    <2>3. c.st # "open"
      BY <1>1, <1>8, BufferAssumption DEF SendResult
    <2> HIDE DEF d
    <2>4. QED
      BY <1>1, <1>2, <1>4, <1>5, <2>1, <2>2, <2>3, ServerCallInv
  <1>9. QED
    BY <1>3, <1>6, <1>7, <1>8

(* The server closes its end, or all that it has open.                     *)
LEMMA ServerCloseInv ==
    ASSUME EchoInv, ServerStep(Server),
           \A f \in FreeFds : ~IsOpen(conn'[f]),
           UNCHANGED connects,
           pc' \notin {"start", "reply"},
           resets = 0 => pc' # "killed",
           link = Pending => sockfd # NoSock /\ sockfd' = NoSock /\ pc # "accept",
           link \in {Pending, NoLink, Gone} \cup FreeFds,
           backlog' = 0
    PROVE  EchoInv'
  <1>1. ServerInv'
    BY StepInv DEF EchoInv, ServerStep, Next
  <1>2. /\ UNCHANGED clientVars
        /\ CASE link = Pending -> link' = Gone /\ toServer' = toServer
                                  /\ toClient' = [data |-> 0, last |-> "rst"]
             [] Linked -> link' = Gone /\ toServer' = NoWire
                          /\ toClient' = Leaves(conn[link])
             [] OTHER -> UNCHANGED wireVars
    <2>1. CASE link = Pending
      BY <2>1, Links DEF ServerStep, Linked
    <2>2. CASE Linked
      BY <2>2, Links DEF ServerStep, Linked
    <2>3. CASE link # Pending /\ ~Linked
      BY <2>3 DEF ServerStep
    <2>4. QED
      BY <2>1, <2>2, <2>3
  <1>3. link' \in {NoLink, Gone} /\ (link = NoLink <=> link' = NoLink)
    BY <1>2, Links DEF Linked, wireVars
  <1>4. /\ toServer' \in Wire /\ toClient' \in Wire
        /\ toServer' \in {toServer, NoWire}
        /\ link = NoLink => UNCHANGED wireVars
        /\ link # NoLink => cconnects # 0
    <2>1. toServer \in Wire /\ toClient \in Wire
      BY DEF EchoInv, EchoTypeOK
    <2>2. Linked => conn[link] \in Conn
      BY Types DEF Linked
    <2>3. link # NoLink => cconnects # 0
      BY DEF EchoInv, LinkMatches
    <2>4. QED
      BY <1>2, <2>1, <2>2, <2>3, Links, Wires DEF wireVars, Linked
  <1>5. C!ClientInv'
    BY <1>2, ClientKeepsInv DEF EchoInv
  <1>6. EchoTypeOK'
    BY <1>1, <1>3, <1>4, <1>5 DEF EchoInv, EchoTypeOK, ServerInv, C!ClientInv
  <1>7. OneInFlight'
    <2>1. AtServer' = 0
      BY <1>3, Links DEF AtServer, Linked
    <2>2. toServer'.data \in {0, toServer.data}
      BY <1>4, Wires
    <2>3. toClient'.data \in Nat /\ toClient'.data <= toClient.data + AtServer
      <3>1. CASE link = Pending
        BY <1>2, <3>1, Types, Links DEF Linked
      <3>2. CASE Linked
        <4>1. Leaves(conn[link]).data \in {0, conn[link].out}
          BY <3>2, Types, Wires DEF Linked
        <4>2. AtServer >= conn[link].out
          BY <3>2, Types DEF AtServer, Atom
        <4>3. toClient' = Leaves(conn[link])
          BY <1>2, <3>2, Links DEF Linked
        <4>4. QED
          BY <3>2, <4>1, <4>2, <4>3, Types
      <3>3. CASE link # Pending /\ ~Linked
        BY <1>2, <3>3, Types DEF wireVars
      <3>4. QED
        BY <3>1, <3>2, <3>3
    <2>4. UNCHANGED <<cend, cpc, wait_4_reply, resets>>
      BY <1>2 DEF clientVars
    <2>5. InFlight' <= InFlight /\ InFlight' \in Nat /\ InFlight \in Nat
      BY <2>1, <2>2, <2>3, <2>4, Types DEF InFlight
    <2>6. QED
      BY <2>4, <2>5, Types DEF EchoInv, OneInFlight, Atom
  <1>8. LinkMatches'
    BY <1>2, <1>3, Links DEF EchoInv, LinkMatches, clientVars
  <1>9. ClientPhases'
    BY <1>2, <1>4 DEF EchoInv, ClientPhases, clientVars, wireVars
  <1>10. BothEstablished'
    BY <1>2, <1>3, <1>4, Links DEF EchoInv, BothEstablished, Linked, clientVars, wireVars
  <1>11. NoFailedCall'
    BY <1>2, <1>3, Links DEF EchoInv, NoFailedCall, Linked, clientVars
  <1>12. DeadIsAnswered'
    BY <1>2, <1>3, Links DEF DeadIsAnswered, Linked, clientVars
  <1>13. QED
    BY <1>1, <1>5, <1>6, <1>7, <1>8, <1>9, <1>10, <1>11, <1>12 DEF EchoInv

LEMMA ServerEndInv ==
    ASSUME EchoInv, ServerStep(Server),
           \/ EndApp \/ ReplyKills
           \/ \E k \in DOMAIN vInClients : EraseClient(k)
    PROVE  EchoInv'
  <1> USE DEF mainVars, keyVars, peerVars
  <1>1. link \in {Pending, NoLink, Gone} \cup FreeFds
    BY DEF EchoInv, EchoTypeOK
  <1>2. \A f \in FreeFds : f # link => ~IsOpen(conn[f])
    BY DEF EchoInv, LinkMatches
  <1>3. ServerInv'
    BY StepInv DEF EchoInv, ServerStep, Next
  <1>4. ASSUME NEW k \in DOMAIN vInClients, EraseClient(k)
        PROVE  EchoInv'
    <2>1. /\ conn' = [conn EXCEPT ![link] = NoConn]
          /\ Linked /\ pc' = "erase" /\ UNCHANGED <<connects, backlog>>
      BY <1>4, OnlyClient DEF EraseClient
    <2>2. \A f \in FreeFds : ~IsOpen(conn'[f])
      BY <1>2, <2>1, Types, PlainConns
    <2>3. backlog = 0
      <3>1. backlog \in Nat
        BY ServerAssumption DEF EchoInv, EchoTypeOK, TypeOK
      <3>2. QED
        BY <2>1, <3>1, Links DEF EchoInv, LinkMatches, Linked
    <2>4. QED
      BY <1>1, <2>1, <2>2, <2>3, Links, ServerCloseInv DEF Linked
  <1>5. link = Pending => sockfd # NoSock
    BY ServerAssumption DEF EchoInv, LinkMatches, NoSock
  <1>6. CASE EndApp
    <2>1. /\ pc = "end" /\ pc' = "exited" /\ sockfd' = NoSock /\ backlog' = 0
          /\ vInClients' = <<>> /\ UNCHANGED connects
      BY <1>6 DEF EndApp
    <2>2. \A f \in FreeFds : ~IsOpen(conn'[f])
      BY <1>3, <2>1 DEF ServerInv, TableMatchesKernel, Tracked, Range
    <2>3. QED
      BY <1>1, <1>5, <2>1, <2>2, ServerCloseInv
  <1>7. CASE ReplyKills
    <2>1. /\ pc = "reply" /\ pc' = "killed" /\ sockfd' = NoSock /\ backlog' = 0
          /\ UNCHANGED connects
          /\ \A f \in FreeFds : conn'[f] = NoConn
          /\ SendResult(conn[vInClients[idx].sock]) = "sigpipe"
      BY <1>7 DEF ReplyKills
    <2>2. Linked /\ vInClients[idx].sock = link /\ conn[link] \in Conn
          /\ IsOpen(conn[link])
      <3>1. idx \in DOMAIN vInClients
        BY <2>1 DEF EchoInv, ServerInv, PassInv
      <3>2. QED
        BY <3>1, OnlyClient
    <2>3. conn[link].st = "dead"
      BY <2>1, <2>2, BufferAssumption DEF SendResult, Conn, ConnState, IsOpen
    <2>4. resets # 0
      BY <2>1, <2>2, <2>3 DEF EchoInv, DeadIsAnswered
    <2>5. QED
      BY <1>1, <1>5, <2>1, <2>4, PlainConns, ServerCloseInv
  <1>8. QED
    BY <1>4, <1>6, <1>7

LEMMA ServerStepInv ==
    ASSUME EchoInv, ServerStep(Server)
    PROVE  EchoInv'
  <1>1. Server
    BY DEF ServerStep
  <1>2. QED
    BY <1>1, ServerQuietInv, ServerAcceptInv, ServerReceiveInv, ServerReplyInv,
       ServerEndInv
    DEF Server, Loop, Process

-----------------------------------------------------------------------------
(* The network.                                                            *)

LEMMA ConnectsInv ==
    ASSUME EchoInv, Connects
    PROVE  EchoInv'
  <1>1. /\ cconnects = 0 /\ cconnects' = 1 /\ cend' = NewConn /\ cpc' = "loop"
        /\ UNCHANGED <<recv_errors, wait_4_reply, resets>>
    BY Types DEF Connects, C!Connected, C!waitVars, C!NewConn, NewConn
  <1>2. /\ sockfd = ListenFd /\ pc \notin {"start", "exited", "killed"}
        /\ backlog' = backlog + 1 /\ connects' = connects + 1
        /\ UNCHANGED <<pc, sockfd, conn>>
    BY DEF Connects, PeerConnects, Listening, Running, mainVars
  <1>3. link = NoLink /\ link' = Pending /\ toServer' = NoWire /\ toClient' = NoWire
        /\ recv_errors = 0
    BY <1>1 DEF EchoInv, LinkMatches, ClientPhases, Connects
  <1>4. ServerInv'
    BY PeersInv DEF EchoInv, Connects, Peers
  <1>5. C!ClientInv'
    BY ClientKeepsInv DEF EchoInv, Connects
  <1>6. EchoTypeOK'
    BY <1>3, <1>4, <1>5, Wires DEF EchoInv, EchoTypeOK, ServerInv, C!ClientInv
  <1>7. OneInFlight'
    <2>1. AtServer' = 0
      BY <1>3, Links DEF AtServer, Linked
    <2>2. InFlight' = 0
      BY <1>1, <1>3, <2>1, Wires DEF InFlight, NewConn
    <2>3. QED
      BY <1>1, <2>2, Types DEF OneInFlight, Atom
  <1>8. LinkMatches'
    <2>1. backlog = 0
      <3>1. backlog \in Nat
        BY ServerAssumption DEF EchoInv, EchoTypeOK, TypeOK
      <3>2. QED
        BY <1>3, <3>1, Links DEF EchoInv, LinkMatches
    <2>2. connects = 0
      BY <1>1 DEF EchoInv, LinkMatches
    <2>3. QED
      BY <1>1, <1>2, <1>3, <2>1, <2>2, Links DEF EchoInv, LinkMatches
  <1>9. ClientPhases'
    BY <1>1 DEF ClientPhases
  <1>10. BothEstablished'
    BY <1>1, <1>3, Links DEF BothEstablished, Linked, NewConn
  <1>11. NoFailedCall' /\ DeadIsAnswered'
    BY <1>1, <1>2, <1>3, Links DEF EchoInv, NoFailedCall, DeadIsAnswered, Linked
  <1>12. QED
    BY <1>4, <1>5, <1>6, <1>7, <1>8, <1>9, <1>10, <1>11 DEF EchoInv

(* Whatever the network does, it leaves the programs' own variables, and   *)
(* which sockets are open, alone.  What it changes is given by d and e,    *)
(* the two ends afterwards.                                                *)
LEMMA NetworkMoves ==
    ASSUME EchoInv, ServerInv', C!ClientInv',
           UNCHANGED <<pc, sockfd, backlog, connects, link, cpc, recv_errors,
                       wait_4_reply, resets, cconnects>>,
           \A f \in FreeFds : IsOpen(conn'[f]) <=> IsOpen(conn[f]),
           IsOpen(cend') <=> IsOpen(cend),
           cconnects = 0 => cend' = cend /\ toServer' = toServer /\ toClient' = toClient,
           toServer' \in Wire, toClient' \in Wire,
           InFlight' \in Nat, InFlight' <= InFlight,
           BothEstablished',
           (Linked /\ resets = 0 /\ IsOpen(cend)) => conn'[link].fails = conn[link].fails,
           resets = 0 => ((Linked /\ conn'[link].st = "dead") =>
                             conn'[link].in = 0 /\ pc # "reply")
    PROVE  EchoInv'
  <1>1. EchoTypeOK'
    BY DEF EchoInv, EchoTypeOK, ServerInv, C!ClientInv
  <1>2. OneInFlight'
    <2>1. InFlight \in Nat
      BY Types DEF InFlight
    <2>2. QED
      BY <2>1, Types DEF EchoInv, OneInFlight, Atom
  <1>3. LinkMatches'
    BY DEF EchoInv, LinkMatches
  <1>4. ClientPhases'
    BY DEF EchoInv, ClientPhases
  <1>5. NoFailedCall'
    BY DEF EchoInv, NoFailedCall, Linked
  <1>6. DeadIsAnswered'
    BY DEF EchoInv, DeadIsAnswered, Linked
  <1>7. QED
    BY <1>1, <1>2, <1>3, <1>4, <1>5, <1>6 DEF EchoInv

(* What the client's end becomes.                                          *)
LEMMA ClientEnd ==
    ASSUME cend \in Conn,
           C!ServerTakes \/ C!ServerReplies \/ C!ServerCloses \/ C!ServerResets
    PROVE  /\ IsOpen(cend) /\ IsOpen(cend')
           /\ UNCHANGED <<cpc, recv_errors, wait_4_reply, resets, cconnects>>
           /\ C!ServerTakes => /\ cend'.st = cend.st /\ cend'.in = cend.in
                              /\ cend.out > 0 /\ cend'.out = cend.out - 1
           /\ C!ServerReplies => /\ cend'.st = cend.st /\ cend.st = "open"
                                /\ cend'.in = cend.in + 1 /\ cend'.out = cend.out
           /\ C!ServerCloses => cend'.in = cend.in /\ cend'.out = cend.out
           /\ C!ServerResets => cend'.in = cend.in /\ cend'.out = 0
  <1> USE DEF C!PeerDoes, C!waitVars, C!optionVars, Conn, ConnState, IsOpen
  <1>1. CASE C!ServerTakes
    BY <1>1 DEF C!ServerTakes, C!ServerReplies, C!ServerCloses, C!ServerResets,
                C!CanPeerRead, C!PeerReads, C!PeerSends, C!PeerCloses, C!PeerResets
  <1>2. CASE C!ServerReplies
    BY <1>2 DEF C!ServerTakes, C!ServerReplies, C!ServerCloses, C!ServerResets,
                C!CanPeerSend, C!PeerReads, C!PeerSends, C!PeerCloses, C!PeerResets
  <1>3. CASE C!ServerCloses
    BY <1>3 DEF C!ServerTakes, C!ServerReplies, C!ServerCloses, C!ServerResets,
                C!CanPeerClose, C!PeerReads, C!PeerSends, C!PeerCloses, C!PeerResets
  <1>4. CASE C!ServerResets
    BY <1>4 DEF C!ServerTakes, C!ServerReplies, C!ServerCloses, C!ServerResets,
                C!CanPeerReset, C!PeerReads, C!PeerSends, C!PeerCloses, C!PeerResets
  <1>5. QED
    BY <1>1, <1>2, <1>3, <1>4

(* What the server's end becomes.                                          *)
LEMMA ServerEnd ==
    ASSUME EchoInv, Linked,
           \/ Arrives(PeerSends(conn[link]))
           \/ PeerRead(link) \/ PeerClose(link) \/ PeerReset(link)
    PROVE  /\ ServerInv'
           /\ UNCHANGED <<pc, sockfd, backlog, connects>>
           /\ conn'[link].fails = conn[link].fails
           /\ \A f \in FreeFds : IsOpen(conn'[f]) <=> IsOpen(conn[f])
           /\ Arrives(PeerSends(conn[link])) =>
                 /\ conn[link].st = "open" /\ conn'[link].st = "open"
                 /\ conn'[link].in = conn[link].in + 1
                 /\ conn'[link].out = conn[link].out
           /\ PeerRead(link) =>
                 /\ conn[link].st \in {"open", "fin"} /\ conn'[link].st = conn[link].st
                 /\ conn'[link].in = conn[link].in /\ conn[link].out > 0
                 /\ conn'[link].out = conn[link].out - 1
           /\ PeerClose(link) =>
                 /\ conn'[link].st = "fin"
                 /\ conn'[link].in = conn[link].in /\ conn'[link].out = conn[link].out
           /\ PeerReset(link) =>
                 /\ conn[link].st = "open" => conn'[link].st = "reset"
                 /\ conn'[link].in = conn[link].in /\ conn'[link].out = 0
  <1> USE DEF Arrives, PeerRead, PeerClose, PeerReset
  <1>1. ServerInv'
    <2>1. link \in FreeFds /\ sends' = sends /\ sends \in 0..MaxSends
      BY DEF Linked, EchoInv, ServerInv, TypeOK
    <2>2. ServerInv
      BY DEF EchoInv
    <2>3. QED
      BY <2>1, <2>2, PeerDoesInv
  <1>2. UNCHANGED <<pc, sockfd, backlog, connects>>
    BY DEF PeerDoes, mainVars
  <1>3. conn[link] \in Conn /\ IsOpen(conn[link])
    BY Types DEF Linked, EchoInv, LinkMatches
  <1>4. \A g \in FreeFds : g # link => conn'[g] = conn[g]
    BY Types DEF PeerDoes, Linked
  <1>5. conn'[link].fails = conn[link].fails /\ IsOpen(conn'[link])
    BY <1>3, PeerMoves, Types DEF PeerDoes, Linked
  <1>6. \A f \in FreeFds : IsOpen(conn'[f]) <=> IsOpen(conn[f])
    BY <1>3, <1>4, <1>5
  <1> USE Types, <1>3 DEF PeerDoes, Linked, Conn, ConnState
  <1>7. Arrives(PeerSends(conn[link])) =>
           /\ conn[link].st = "open" /\ conn'[link].st = "open"
           /\ conn'[link].in = conn[link].in + 1
           /\ conn'[link].out = conn[link].out
    BY DEF CanPeerSend, PeerSends
  <1>8. PeerRead(link) =>
           /\ conn[link].st \in {"open", "fin"} /\ conn'[link].st = conn[link].st
           /\ conn'[link].in = conn[link].in /\ conn[link].out > 0
           /\ conn'[link].out = conn[link].out - 1
    BY DEF CanPeerRead, PeerReads
  <1>9. PeerClose(link) =>
           /\ conn'[link].st = "fin"
           /\ conn'[link].in = conn[link].in /\ conn'[link].out = conn[link].out
    BY DEF PeerCloses
  <1>10. PeerReset(link) =>
           /\ conn[link].st = "open" => conn'[link].st = "reset"
           /\ conn'[link].in = conn[link].in /\ conn'[link].out = 0
    BY DEF PeerResets
  <1>11. QED
    BY <1>1, <1>2, <1>5, <1>6, <1>7, <1>8, <1>9, <1>10

(* A message reaches the server.                                           *)
LEMMA DeliverRequestInv ==
    ASSUME EchoInv, DeliverRequest
    PROVE  EchoInv'
  <1>1. Linked /\ Arrives(PeerSends(conn[link])) /\ UNCHANGED <<link, toClient>>
    BY DEF DeliverRequest, Arrives
  <1>2. toServer \in Wire /\ toClient \in Wire
    BY DEF EchoInv, EchoTypeOK
  <1>3. \/ C!ServerTakes /\ toServer' = toServer
        \/ /\ toServer.data > 0 /\ UNCHANGED clientVars
           /\ toServer' = [toServer EXCEPT !.data = @ - 1]
    BY DEF DeliverRequest
  <1>4. C!ClientInv'
    BY <1>3, ClientKeepsInv DEF EchoInv
  <1>5. /\ UNCHANGED <<cpc, recv_errors, wait_4_reply, resets, cconnects>>
        /\ IsOpen(cend') <=> IsOpen(cend)
        /\ cend'.st = cend.st /\ cend'.in = cend.in
    BY <1>3, ClientEnd, Types DEF clientVars
  <1>6. toServer' \in Wire /\ (toServer' = toServer \/ toServer # NoWire)
    BY <1>2, <1>3, BufferAssumption DEF Wire, NoWire
  <1>7. cend'.out + toServer'.data = cend.out + toServer.data - 1
        /\ cend'.out \in Nat /\ toServer'.data \in Nat
    <2>1. CASE C!ServerTakes /\ toServer' = toServer
      BY <2>1, ClientEnd, Types, BufferAssumption
    <2>2. CASE toServer.data > 0 /\ UNCHANGED clientVars
               /\ toServer' = [toServer EXCEPT !.data = @ - 1]
      <3>1. toServer'.data = toServer.data - 1
        BY <2>2, <1>2 DEF Wire
      <3>2. QED
        BY <2>2, <3>1, Types, BufferAssumption DEF clientVars
    <2>3. QED
      BY <1>3, <2>1, <2>2
  <1>8. AtServer' = AtServer + 1
    BY <1>1, ServerEnd, Types, BufferAssumption DEF AtServer, Linked, Atom
  <1>9. InFlight' = InFlight /\ InFlight \in Nat
    BY <1>1, <1>5, <1>7, <1>8, Types, BufferAssumption DEF InFlight
  <1>10. BothEstablished'
    BY <1>1, <1>5, <1>6, ServerEnd DEF EchoInv, BothEstablished, Linked
  <1>11. conn'[link].st = "open"
    BY <1>1, ServerEnd
  <1>12. cconnects # 0
    BY <1>1, Links DEF EchoInv, LinkMatches, Linked
  <1>13. QED
    BY <1>1, <1>2, <1>4, <1>5, <1>6, <1>9, <1>10, <1>11, <1>12, ServerEnd, NetworkMoves

(* The end of the client reaches the server, which was still established.  *)
LEMMA DeliverClientEndInv ==
    ASSUME EchoInv, DeliverClientEnd
    PROVE  EchoInv'
  <1>1. /\ Linked /\ (PeerClose(link) \/ PeerReset(link))
        /\ toServer.last \in {"fin", "rst"} /\ toServer' = NoWire
        /\ UNCHANGED <<clientVars, link, toClient>>
    BY DEF DeliverClientEnd
  <1>2. ~IsOpen(cend) /\ conn[link].st = "open" /\ toServer # NoWire
    BY <1>1 DEF EchoInv, BothEstablished, NoWire
  <1>3. C!ClientInv'
    BY <1>1, ClientKeepsInv DEF EchoInv
  <1>4. conn'[link].st \in {"fin", "reset"}
    BY <1>1, <1>2, ServerEnd
  <1>5. toServer' \in Wire /\ toClient' \in Wire
    BY <1>1, Wires DEF EchoInv, EchoTypeOK
  <1>6. AtServer' \in Nat /\ AtServer' <= AtServer
    BY <1>1, ServerEnd, Types, BufferAssumption DEF AtServer, Linked, Atom
  <1>7. InFlight' <= InFlight /\ InFlight' \in Nat
    BY <1>1, <1>6, Types, Wires, BufferAssumption DEF InFlight, clientVars
  <1>8. BothEstablished'
    BY <1>1, <1>2 DEF EchoInv, BothEstablished, Linked, clientVars
  <1>9. cconnects # 0
    BY <1>1, Links DEF EchoInv, LinkMatches, Linked
  <1>10. UNCHANGED <<cend, cpc, recv_errors, wait_4_reply, resets, cconnects>>
    BY <1>1 DEF clientVars
  <1>11. QED
    BY <1>1, <1>3, <1>4, <1>5, <1>7, <1>8, <1>9, <1>10, ServerEnd, NetworkMoves

(* An answer of the client's kernel.  Besides the reply it refuses nothing *)
(* was under way.                                                          *)
LEMMA ClientKernelResetsInv ==
    ASSUME EchoInv, ClientKernelResets
    PROVE  EchoInv'
  <1>1. /\ Linked /\ ~IsOpen(cend) /\ toServer = NoWire /\ conn[link].out > 0
        /\ PeerReset(link) /\ UNCHANGED <<clientVars, wireVars>>
    BY DEF ClientKernelResets
  <1>2. C!ClientInv'
    BY <1>1, ClientKeepsInv DEF EchoInv
  <1>3. UNCHANGED <<cend, cpc, recv_errors, wait_4_reply, resets, cconnects,
                    link, toServer, toClient>>
    BY <1>1 DEF clientVars, wireVars
  <1>4. toServer' \in Wire /\ toClient' \in Wire
    BY <1>3 DEF EchoInv, EchoTypeOK
  <1>5. AtServer' \in Nat /\ AtServer' <= AtServer
    BY <1>1, <1>3, ServerEnd, Types, BufferAssumption DEF AtServer, Linked, Atom
  <1>6. InFlight' <= InFlight /\ InFlight' \in Nat
    BY <1>3, <1>5, Types, BufferAssumption DEF InFlight
  <1>7. BothEstablished'
    BY <1>1, <1>3 DEF EchoInv, BothEstablished, Linked
  <1>8. resets = 0 => conn[link].in = 0 /\ pc # "reply"
    <2>1. InFlight \in Nat /\ AtServer <= InFlight
      BY Types, BufferAssumption DEF InFlight
    <2>2. resets = 0 => AtServer <= 1
      BY <2>1, Types DEF EchoInv, OneInFlight, Atom
    <2>3. QED
      BY <1>1, <2>2, Types, BufferAssumption DEF AtServer, Atom
  <1>9. QED
    BY <1>1, <1>2, <1>3, <1>4, <1>6, <1>7, <1>8, ServerEnd, NetworkMoves

(* A reply reaches the client.                                             *)
LEMMA DeliverReplyInv ==
    ASSUME EchoInv, DeliverReply
    PROVE  EchoInv'
  <1>1. /\ C!ServerReplies /\ UNCHANGED <<link, toServer>>
        /\ \/ Linked /\ PeerRead(link) /\ toClient' = toClient
           \/ /\ toClient.data > 0 /\ UNCHANGED vars
              /\ toClient' = [toClient EXCEPT !.data = @ - 1]
    BY DEF DeliverReply
  <1>2. C!ClientInv'
    BY <1>1, ClientKeepsInv DEF EchoInv
  <1>3. /\ UNCHANGED <<cpc, recv_errors, wait_4_reply, resets, cconnects>>
        /\ IsOpen(cend) /\ IsOpen(cend') /\ cend'.st = cend.st /\ cend.st = "open"
        /\ cend'.in = cend.in + 1 /\ cend'.out = cend.out
    BY <1>1, ClientEnd, Types
  <1>4. toServer \in Wire /\ toClient \in Wire
    BY DEF EchoInv, EchoTypeOK
  <1>5. cconnects # 0
    BY <1>3 DEF EchoInv, ClientPhases, NoConn
  <1>6. CASE Linked /\ PeerRead(link) /\ toClient' = toClient
    <2>1. AtServer' = AtServer - 1 /\ AtServer' \in Nat
      BY <1>1, <1>6, ServerEnd, Types, BufferAssumption DEF AtServer, Linked, Atom
    <2>2. InFlight' = InFlight /\ InFlight \in Nat
      BY <1>1, <1>3, <1>6, <2>1, Types, BufferAssumption DEF InFlight
    <2>3. BothEstablished'
      BY <1>1, <1>3, <1>6, ServerEnd DEF EchoInv, BothEstablished, Linked
    <2>4. conn'[link].st # "dead"
      BY <1>6, ServerEnd
    <2>5. QED
      BY <1>1, <1>2, <1>3, <1>4, <1>5, <1>6, <2>2, <2>3, <2>4, ServerEnd, NetworkMoves
  <1>7. CASE toClient.data > 0 /\ UNCHANGED vars
             /\ toClient' = [toClient EXCEPT !.data = @ - 1]
    <2>1. toClient' \in Wire /\ toClient'.data = toClient.data - 1 /\ toClient # NoWire
      BY <1>4, <1>7, BufferAssumption DEF Wire, NoWire
    <2>2. UNCHANGED <<AtServer, toServer, link, conn, pc, sockfd, backlog, connects>>
      BY <1>1, <1>7 DEF AtServer, Linked, vars
    <2>3. InFlight' = InFlight /\ InFlight \in Nat
      BY <1>3, <2>1, <2>2, Types, BufferAssumption DEF InFlight
    <2>4. BothEstablished'
      BY <1>3, <2>1, <2>2 DEF EchoInv, BothEstablished, Linked
    <2>5. ServerInv'
      BY <1>7, StepInv DEF EchoInv
    <2>6. resets = 0 => ((Linked /\ conn[link].st = "dead") =>
                            conn[link].in = 0 /\ pc # "reply")
      BY DEF EchoInv, DeadIsAnswered
    <2>7. QED
      BY <1>2, <1>3, <1>4, <1>5, <2>1, <2>2, <2>3, <2>4, <2>5, <2>6, NetworkMoves
  <1>8. QED
    BY <1>1, <1>6, <1>7

(* The end of the server reaches the client: a FIN, an RST, or the answer  *)
(* of its kernel.                                                          *)
LEMMA ServerGoneInv ==
    ASSUME EchoInv, DeliverServerEnd \/ ServerKernelResets
    PROVE  EchoInv'
  <1>1. /\ C!ServerCloses \/ C!ServerResets
        /\ UNCHANGED <<vars, link, toServer>> /\ toClient' \in {NoWire, toClient}
    BY DEF DeliverServerEnd, ServerKernelResets, wireVars
  <1>2. link = Gone
    BY DEF DeliverServerEnd, ServerKernelResets, EchoInv, BothEstablished, NoWire
  <1>3. C!ClientInv'
    BY <1>1, ClientKeepsInv DEF EchoInv
  <1>4. /\ UNCHANGED <<cpc, recv_errors, wait_4_reply, resets, cconnects>>
        /\ IsOpen(cend) /\ IsOpen(cend')
        /\ cend'.in = cend.in /\ cend'.out \in {0, cend.out}
    BY <1>1, ClientEnd, Types
  <1>5. toServer' \in Wire /\ toClient' \in Wire
        /\ toClient'.data \in {0, toClient.data}
    BY <1>1, Wires DEF EchoInv, EchoTypeOK
  <1>6. UNCHANGED <<AtServer, conn, pc, sockfd, backlog, connects>>
    BY <1>1 DEF AtServer, Linked, vars
  <1>7. InFlight' \in Nat /\ InFlight' <= InFlight
    BY <1>1, <1>4, <1>5, <1>6, Types, BufferAssumption DEF InFlight
  <1>8. BothEstablished'
    BY <1>1, <1>2, <1>4, Links DEF EchoInv, BothEstablished, Linked
  <1>9. ServerInv'
    BY <1>1, StepInv DEF EchoInv
  <1>10. cconnects # 0
    BY <1>4 DEF EchoInv, ClientPhases, NoConn, IsOpen
  <1>11. ~Linked
    BY <1>2, Links DEF Linked
  <1>12. QED
    BY <1>1, <1>3, <1>4, <1>5, <1>6, <1>7, <1>8, <1>9, <1>10, <1>11, NetworkMoves

-----------------------------------------------------------------------------
(* The theorems.                                                           *)

LEMMA EchoInitInv == EchoInit => EchoInv
  <1> SUFFICES ASSUME EchoInit PROVE EchoInv
    OBVIOUS
  <1>1. ServerInv
    BY InitInv DEF EchoInit
  <1>2. C!ClientInv
    <2>1. CP!Init
      BY DEF EchoInit, C!Init, C!NoConn, CP!Init, CP!NoConn
    <2>2. CP!ClientInv
      BY <2>1, ClientAssumed, CP!InitInv
    <2>3. QED
      BY <2>2, SameClientInv
  <1>3. /\ pc = "start" /\ backlog = 0 /\ connects = 0
        /\ conn = [f \in FreeFds |-> NoConn]
        /\ link = NoLink /\ toServer = NoWire /\ toClient = NoWire
        /\ cpc = "start" /\ cend = NoConn /\ recv_errors = 0 /\ resets = 0
        /\ cconnects = 0
    BY DEF EchoInit, Init, C!Init, C!NoConn, NoConn
  <1>4. EchoTypeOK
    BY <1>1, <1>2, <1>3, Wires DEF EchoTypeOK, ServerInv, C!ClientInv
  <1>5. OneInFlight
    BY <1>3, Links DEF OneInFlight, InFlight, AtServer, Linked, NoConn, NoWire, Atom
  <1>6. LinkMatches /\ ClientPhases
    BY <1>3, Links, PlainConns DEF LinkMatches, ClientPhases
  <1>7. BothEstablished /\ NoFailedCall /\ DeadIsAnswered
    BY <1>3, Links, PlainConns DEF BothEstablished, NoFailedCall, DeadIsAnswered, Linked
  <1>8. QED
    BY <1>1, <1>2, <1>4, <1>5, <1>6, <1>7 DEF EchoInv

LEMMA EchoStepInv == EchoInv /\ [EchoNext]_echoVars => EchoInv'
  <1> SUFFICES ASSUME EchoInv, [EchoNext]_echoVars PROVE EchoInv'
    OBVIOUS
  <1>1. CASE ServerStep(Server)
    BY <1>1, ServerStepInv
  <1>2. CASE Connects
    BY <1>2, ConnectsInv
  <1>3. CASE ClientStep(ClientAlone)
    BY <1>3, ClientInv
  <1>4. CASE ToServer
    BY <1>4, DeliverRequestInv, DeliverClientEndInv, ClientKernelResetsInv DEF ToServer
  <1>5. CASE ToClient
    BY <1>5, DeliverReplyInv, ServerGoneInv DEF ToClient
  <1>6. CASE UNCHANGED echoVars
    <2>1. UNCHANGED vars /\ UNCHANGED clientVars /\ UNCHANGED wireVars
      BY <1>6 DEF echoVars
    <2>2. ServerInv' /\ C!ClientInv'
      BY <2>1, StepInv, ClientKeepsInv DEF EchoInv
    <2>3. EchoTypeOK'
      BY <2>1, <2>2 DEF EchoInv, EchoTypeOK, ServerInv, C!ClientInv, wireVars
    <2>4. OneInFlight'
      BY <2>1 DEF EchoInv, OneInFlight, InFlight, AtServer, Linked, vars, clientVars, wireVars
    <2>5. LinkMatches' /\ ClientPhases'
      BY <2>1 DEF EchoInv, LinkMatches, ClientPhases, vars, clientVars, wireVars
    <2>6. BothEstablished' /\ NoFailedCall' /\ DeadIsAnswered'
      BY <2>1 DEF EchoInv, BothEstablished, NoFailedCall, DeadIsAnswered, Linked,
                  vars, clientVars, wireVars
    <2>7. QED
      BY <2>2, <2>3, <2>4, <2>5, <2>6 DEF EchoInv
  <1>7. QED
    BY <1>1, <1>2, <1>3, <1>4, <1>5, <1>6 DEF EchoNext, Ended

(* EchoInv holds throughout: the two programs keep their own invariants    *)
(* with each other for a peer, and whatever the buffers, the limits and    *)
(* the keys, what is under way between them never exceeds the one message  *)
(* the client waits for and those whose wait the user ended.               *)
THEOREM EchoInvariant == EchoSpec => []EchoInv
  BY EchoInitInv, EchoStepInv, PTL DEF EchoSpec

(* The promise of stop and wait in the form a user sees it: as long as 'r' *)
(* is not used and the client runs, one message is under way at most, and  *)
(* none while the client does not wait.                                    *)
THEOREM StopAndWait ==
    EchoSpec => []((IsOpen(cend) /\ cpc # "end" /\ resets = 0) =>
                      InFlight <= Atom(wait_4_reply))
  <1>1. EchoInv => ((IsOpen(cend) /\ cpc # "end" /\ resets = 0) =>
                       InFlight <= Atom(wait_4_reply))
    BY DEF EchoInv, OneInFlight, Atom
  <1>2. QED
    BY <1>1, EchoInvariant, PTL

(* No buffer is too small and no limit too low: as long as both programs   *)
(* are there and the user leaves the wait alone, neither sees a call fail. *)
THEOREM NeitherCharged == EchoSpec => []NobodyCharged
  <1>1. EchoInv => NobodyCharged
    <2> SUFFICES ASSUME EchoInv, resets = 0, IsOpen(cend), link # Gone
                 PROVE  /\ recv_errors = 0
                        /\ \A c \in Range(vInClients) : c.had_rw_error = 0
      BY DEF NobodyCharged
    <2>1. recv_errors = 0 /\ (Linked => conn[link].fails = 0)
      BY DEF EchoInv, NoFailedCall
    <2>2. ASSUME NEW k \in DOMAIN vInClients
          PROVE  vInClients[k].had_rw_error = 0
      <3>1. vInClients[k].had_rw_error = conn[vInClients[k].sock].fails
        BY DEF EchoInv, ServerInv, ErrorsBelongToConnection, Range
      <3>2. QED
        BY <2>1, <3>1, OnlyClient
    <2>3. QED
      BY <2>1, <2>2 DEF Range
  <1>2. QED
    BY <1>1, EchoInvariant, PTL

(* As long as the user leaves the wait alone, simp_client never ends       *)
(* simp_server by SIGPIPE, however it leaves.                              *)
THEOREM ServerNotKilled == EchoSpec => []ServerSurvives
  <1>1. EchoInv => ServerSurvives
    BY DEF EchoInv, DeadIsAnswered, ServerSurvives
  <1>2. QED
    BY <1>1, EchoInvariant, PTL
=============================================================================
