----------------------------- MODULE SimpEcho ------------------------------
(***************************************************************************)
(* simp_client talking to simp_server: SimpServer and SimpClient over one  *)
(* TCP connection, each process with its own keyboard.                     *)
(*                                                                         *)
(* The server's variables keep their names, the client's get a c.  Between *)
(* the two ends a message in out of one end is still on its way to in of   *)
(* the other.  link says where the server's end of the connection is:      *)
(* nowhere yet, in the backlog, a descriptor, or closed.  What an end that *)
(* was closed still has to deliver is in toServer and toClient: its last   *)
(* messages, then a FIN or, when it was closed with messages unread, an    *)
(* RST instead.                                                            *)
(***************************************************************************)
EXTENDS SimpServer

CONSTANTS MaxRecvErrors, MaxResets

ASSUME EchoAssumption ==
    /\ MaxRecvErrors \in Nat
    /\ MaxResets \in Nat

VARIABLES cpc, ciret, cend, not_connected, wait_4_reply, recv_errors, cpaused,
          receive_only, once_only, resets, cconnects,
          link, toServer, toClient

C == INSTANCE SimpClient WITH
        pc <- cpc, iret <- ciret, end <- cend, is_paused <- cpaused,
        connects <- cconnects, glitches <- 0, MaxConnects <- 1, MaxGlitches <- 0

clientVars == <<cpc, ciret, cend, not_connected, wait_4_reply, recv_errors, cpaused,
                receive_only, once_only, resets, cconnects>>
wireVars == <<link, toServer, toClient>>
echoVars == <<vars, clientVars, wireVars>>

NoLink  == -1
Pending == 0
Gone    == -2

Wire    == [data : 0..MaxOut, last : {"none", "fin", "rst"}]
NoWire  == [data |-> 0, last |-> "none"]

EchoTypeOK ==
    /\ TypeOK
    /\ C!TypeOK
    /\ link \in {NoLink, Pending, Gone} \cup FreeFds
    /\ toServer \in Wire
    /\ toClient \in Wire

EchoInit ==
    /\ Init
    /\ C!Init
    /\ link = NoLink
    /\ toServer = NoWire
    /\ toClient = NoWire

Linked == link \in FreeFds

-----------------------------------------------------------------------------
(* close() on an end c, by the process or at its exit.                     *)
Leaves(c) ==
    CASE c.st \notin {"open", "fin"} -> NoWire
      [] c.in > 0                    -> [data |-> 0, last |-> "rst"]
      [] OTHER                       -> [data |-> c.out, last |-> "fin"]

ServerStep(step) ==
    /\ step
    /\ UNCHANGED clientVars
    /\ CASE link = Pending /\ pc = "accept" /\ backlog' < backlog ->
              /\ link' \in {f \in FreeFds : ~IsOpen(conn[f]) /\ IsOpen(conn'[f])}
              /\ UNCHANGED <<toServer, toClient>>
         [] link = Pending /\ sockfd # NoSock /\ sockfd' = NoSock ->
              /\ link' = Gone
              /\ toClient' = [data |-> 0, last |-> "rst"]
              /\ UNCHANGED toServer
         [] Linked /\ ~IsOpen(conn'[link]) ->
              /\ link' = Gone
              /\ toClient' = Leaves(conn[link])
              /\ toServer' = NoWire
         [] OTHER -> UNCHANGED wireVars

ClientCloses == IsOpen(cend) /\ ~IsOpen(cend')

ClientStep(step) ==
    /\ step
    /\ UNCHANGED <<vars, link>>
    /\ IF ClientCloses THEN /\ toServer' = IF link = Gone THEN NoWire ELSE Leaves(cend)
                            /\ toClient' = NoWire
                       ELSE UNCHANGED <<toServer, toClient>>

Connects ==
    /\ PeerConnects
    /\ C!Connected
    /\ link' = Pending
    /\ UNCHANGED <<toServer, toClient>>

-----------------------------------------------------------------------------
(* The network.  Data and its end arrive in order and only once.           *)

Arrives(does) ==
    /\ PeerDoes(link, CanPeerSend(conn[link]), does)
    /\ UNCHANGED <<sends, link, toClient>>

DeliverRequest ==
    /\ Linked
    /\ Arrives(PeerSends(conn[link]))
    /\ \/ C!ServerTakes /\ UNCHANGED toServer
       \/ /\ toServer.data > 0
          /\ toServer' = [toServer EXCEPT !.data = @ - 1]
          /\ UNCHANGED clientVars

DeliverClientEnd ==
    /\ Linked
    /\ toServer.data = 0
    /\ \/ toServer.last = "fin" /\ PeerClose(link)
       \/ toServer.last = "rst" /\ PeerReset(link)
    /\ toServer' = NoWire
    /\ UNCHANGED <<clientVars, link, toClient>>

(* The client's kernel answers what is sent to its closed socket.          *)
ClientKernelResets ==
    /\ Linked
    /\ ~IsOpen(cend)
    /\ toServer = NoWire
    /\ conn[link].out > 0
    /\ PeerReset(link)
    /\ UNCHANGED <<clientVars, wireVars>>

DeliverReply ==
    /\ C!ServerReplies
    /\ \/ /\ Linked
          /\ PeerRead(link)
          /\ UNCHANGED toClient
       \/ /\ toClient.data > 0
          /\ toClient' = [toClient EXCEPT !.data = @ - 1]
          /\ UNCHANGED vars
    /\ UNCHANGED <<link, toServer>>

DeliverServerEnd ==
    /\ toClient.data = 0
    /\ \/ toClient.last = "fin" /\ C!ServerCloses
       \/ toClient.last = "rst" /\ C!ServerResets
    /\ toClient' = NoWire
    /\ UNCHANGED <<vars, link, toServer>>

(* The server's kernel answers what is sent to its closed socket.          *)
ServerKernelResets ==
    /\ link = Gone
    /\ cend.out > 0
    /\ toClient = NoWire
    /\ C!ServerResets
    /\ UNCHANGED <<vars, wireVars>>

-----------------------------------------------------------------------------
ClientAlone ==
    \/ C!BadArgs \/ C!HostLookup \/ C!SocketFails
    \/ \E key \in C!Keys :
          C!ConnectFails(key) \/ C!Throttle(key) \/ C!Pass(key)
            \/ C!Write(key) \/ C!WriteFails(key)
    \/ C!WriteKills
    \/ C!SelectReturns
    \/ \E n \in 1..MaxIn : C!ReceiveData(n)
    \/ C!ReceiveReset \/ C!ReceiveEnd
    \/ C!EndApp

ToServer == DeliverRequest \/ DeliverClientEnd \/ ClientKernelResets
ToClient == DeliverReply \/ DeliverServerEnd \/ ServerKernelResets

Ended == Stopped /\ C!Stopped /\ UNCHANGED echoVars

EchoNext ==
    \/ ServerStep(Server)
    \/ Connects
    \/ ClientStep(ClientAlone)
    \/ ToServer
    \/ ToClient
    \/ Ended

EchoSpec == EchoInit /\ [][EchoNext]_echoVars

(* Both threads are scheduled as in FairSpec of SimpServer and SimpClient, *)
(* and TCP delivers in both directions.                                    *)
EchoFairSpec ==
    /\ EchoSpec
    /\ WF_echoVars(ServerStep(Work))
    /\ WF_echoVars(ClientStep(C!Work))
    /\ WF_echoVars(ToServer)
    /\ WF_echoVars(ToClient)

-----------------------------------------------------------------------------
(* Properties.                                                             *)

Atom(condition) == IF condition THEN 1 ELSE 0

(* Messages and replies that are on their way between the two programs,    *)
(* wherever they are: in a buffer, on the wire, or being answered.         *)
AtServer ==
    IF Linked THEN conn[link].in + conn[link].out + Atom(pc = "reply") ELSE 0

InFlight == cend.out + toServer.data + AtServer + toClient.data + cend.in

(* Stop and wait: a message is under way only while the client waits for   *)
(* its reply, except for those whose wait the user ended with 'r', and for *)
(* the one that a client leaves behind when it ends.                       *)
OneInFlight ==
    InFlight <= Atom(wait_4_reply \/ cpc = "end" \/ ~IsOpen(cend)) + resets

(* What EchoInv needs to be preserved by every step.  The server's table   *)
(* holds this connection and no other, and the two ends agree on how far   *)
(* it has come.                                                            *)
LinkMatches ==
    /\ link = Pending <=> backlog > 0
    /\ backlog <= 1
    /\ connects = cconnects
    /\ \A f \in FreeFds : IsOpen(conn[f]) <=> link = f
    /\ cconnects = 0 => link = NoLink
    /\ link = Pending => sockfd = ListenFd
    /\ pc \in {"start", "exited", "killed"} => link \in {NoLink, Gone}

(* The client sends only when it waits for nothing, and up to its one      *)
(* connection nothing has been sent by anybody.                            *)
ClientPhases ==
    /\ cpc = "send" => ~wait_4_reply
    /\ cpc \in {"start", "connect"} => cconnects = 0
    /\ cconnects = 0 =>
          /\ cend = NoConn /\ recv_errors = 0
          /\ toServer = NoWire /\ toClient = NoWire

(* While both ends are open, both are established and no end of data is on *)
(* its way; an end in another state has been told so by the other, which   *)
(* sends nothing more.                                                     *)
BothEstablished ==
    /\ link # Gone => toClient = NoWire
    /\ IsOpen(cend) => toServer = NoWire
    /\ (Linked /\ conn[link].st # "open") => ~IsOpen(cend) /\ toServer = NoWire
    /\ (IsOpen(cend) /\ link # Gone) => cend.st = "open"

(* A failed call is the first sign of an end that has come, and a          *)
(* connection that is dead to the server has nothing more to be answered.  *)
NoFailedCall ==
    (resets = 0 /\ IsOpen(cend) /\ link # Gone) =>
        /\ recv_errors = 0
        /\ Linked => conn[link].fails = 0

DeadIsAnswered ==
    resets = 0 =>
        /\ pc # "killed"
        /\ (Linked /\ conn[link].st = "dead") =>
               conn[link].in = 0 /\ pc # "reply"

(* The types of the wire, the link and the counts, stop and wait, and what *)
(* they rest on.                                                           *)
EchoInv ==
    /\ EchoTypeOK
    /\ ServerInv
    /\ C!ClientInv
    /\ OneInFlight
    /\ LinkMatches
    /\ ClientPhases
    /\ BothEstablished
    /\ NoFailedCall
    /\ DeadIsAnswered

(* As long as the user leaves the wait alone and the client lives, neither *)
(* program counts an error, whatever the sizes of the buffers: stop and    *)
(* wait never fills one, and no reply is sent that nobody waits for.       *)
NobodyCharged ==
    (resets = 0 /\ IsOpen(cend) /\ link # Gone) =>
        /\ recv_errors = 0
        /\ \A c \in Range(vInClients) : c.had_rw_error = 0

(* simp_client does not kill simp_server: a client that leaves in the      *)
(* middle of an exchange resets a connection on which the server has no    *)
(* more than one reply to send, so that it never sends on a dead one.      *)
ServerSurvives == resets = 0 => pc # "killed"

(* With the echo on, the wait for a reply ends: by the reply or by the end *)
(* of one of the programs.                                                 *)
WaitsEnd ==
    ([]do_echo /\ []<>~is_paused /\ <>[]~cpaused) =>
        (wait_4_reply ~> (~wait_4_reply \/ C!Stopped))

(* Each program notices that the other has ended.                          *)
EndsNoticed ==
    /\ []<>~is_paused => (C!Stopped ~> (link \in {NoLink, Gone} \/ Stopped))
    /\ <>[]~cpaused => ((Stopped /\ IsOpen(cend)) ~> ~IsOpen(cend))
=============================================================================
