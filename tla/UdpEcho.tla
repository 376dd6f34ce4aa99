------------------------------ MODULE UdpEcho -------------------------------
(***************************************************************************)
(* src/src/udpserver.cxx, which sends every datagram back in upper case,   *)
(* and src/src/udpclient.cxx, which sends a numbered message, waits for a  *)
(* datagram, and goes on with the next.  Both descriptors are              *)
(* non-blocking, and both programs run on Linux.                           *)
(*                                                                         *)
(* The server is at                                                        *)
(*   "start"    main() up to run_udpserver()                               *)
(*   "keys"     check_key()                                                *)
(*   "recv"     recvfrom(), and the output file                            *)
(*   "echo"     sendto()                                                   *)
(*   "end"      Server_Exit in main()                                      *)
(*   "exited"                                                              *)
(* and the client at                                                       *)
(*   "start"    main() up to run_udpclient()                               *)
(*   "turn"     the head of the outer loop and its sendto()                *)
(*   "wait"     check_key() in the inner loop                              *)
(*   "recv"     recvfrom() in the inner loop                               *)
(*   "retry"    the loop after an error of recvfrom()                      *)
(*   "end", "exited"                                                       *)
(*                                                                         *)
(* The network loses, delays and repeats datagrams, as in UdpCounter, and  *)
(* a third host may send one to the client.  recvfrom() comes back with    *)
(* EAGAIN as long as nothing has arrived.  A datagram is the number of its *)
(* message, and towards the client also who sent it.  The variables of     *)
(* history at the end of the list are read by no program.                  *)
(* Left out: statistics, verbosity, printing, and is_paused, which both    *)
(* programs toggle and never read.                                         *)
(* X_Fault is X with a plausible mistake.                                  *)
(***************************************************************************)
EXTENDS Naturals, FiniteSets

CONSTANTS MaxMessages,   (* bound: messages the client ever sends          *)
          MaxRetries,    (* the 200 of the loop after an error             *)
          MaxLosses,     (* bound: datagrams the network loses             *)
          MaxRepeats,    (* bound: deliveries that leave a copy under way  *)
          MaxStrays,     (* bound: datagrams of the third host             *)
          MaxGlitches,   (* bound: errors of recvfrom() but EAGAIN         *)
          MaxCuts        (* bound: waits the user cuts short with r        *)

ASSUME EchoAssumption ==
    /\ MaxRetries \in Nat \ {0}
    /\ {MaxMessages, MaxLosses, MaxRepeats, MaxStrays, MaxGlitches, MaxCuts} \subseteq Nat

VARIABLES udpServerAt, do_an_echo, out_file, held,      (* the server      *)
          udpClientAt, no_send, wait_receive,           (* the client      *)
          serveraddr, serveraddrlen, message_counter, retries,
          toServer, toClient,                           (* under way       *)
          losses, repeats, strays, glitches,            (* history         *)
          cuts, diverted, strayed, mismatches

echoServer  == <<udpServerAt, do_an_echo, out_file, held>>
echoClient  == <<udpClientAt, no_send, wait_receive, serveraddr,
                 serveraddrlen, message_counter, retries>>
waitHistory == <<cuts, diverted, strayed, mismatches>>
echoNet     == <<toServer, toClient, losses, repeats, strays>>
udpEchoVars == <<udpServerAt, do_an_echo, out_file, held, udpClientAt, no_send,
                 wait_receive, serveraddr, serveraddrlen, message_counter,
                 retries, toServer, toClient, losses, repeats, strays,
                 glitches, cuts, diverted, strayed, mismatches>>

Hosts == {"server", "other"}

(* The size of a sockaddr_in, and that of a pointer to one.                *)
WholeAddr   == 16
PointerSize == 8

UdpEchoTypeOK ==
    /\ udpServerAt \in {"start", "keys", "recv", "echo", "end", "exited"}
    /\ udpClientAt \in {"start", "turn", "wait", "recv", "retry", "end", "exited"}
    /\ {do_an_echo, out_file, no_send, wait_receive} \subseteq BOOLEAN
    /\ held \in 0..MaxMessages
    /\ serveraddr \in Hosts
    /\ serveraddrlen \in {PointerSize, WholeAddr}
    /\ message_counter \in 0..MaxMessages
    /\ retries \in 0..MaxRetries
    /\ toServer \subseteq 1..message_counter
    /\ toClient \subseteq [from : Hosts, no : 0..message_counter]
    /\ {losses, repeats, strays, glitches, cuts, diverted, strayed, mismatches}
          \subseteq Nat

UdpEchoInit ==
    /\ udpServerAt = "start"
    /\ do_an_echo = TRUE /\ out_file = FALSE /\ held = 0
    /\ udpClientAt = "start"
    /\ no_send = FALSE /\ wait_receive = FALSE
    /\ serveraddr = "server" /\ serveraddrlen = WholeAddr
    /\ message_counter = 0 /\ retries = 0
    /\ toServer = {} /\ toClient = {}
    /\ losses = 0 /\ repeats = 0 /\ strays = 0 /\ glitches = 0
    /\ cuts = 0 /\ diverted = 0 /\ strayed = 0 /\ mismatches = 0

-----------------------------------------------------------------------------
(* udpserver: main() and run_udpserver()                                   *)

(* The command line; a bad one and -? end the process from main().         *)
EchoServerArgs ==
    /\ do_an_echo' \in BOOLEAN
    /\ out_file' \in BOOLEAN

(* The host look-up, socket(), bind() and fopen() succeed, or one fails.   *)
EchoServerStarts ==
    /\ udpServerAt = "start"
    /\ EchoServerArgs
    /\ udpServerAt' \in {"keys", "end"}
    /\ UNCHANGED <<held, echoClient, echoNet, glitches, waitHistory>>

EchoServerBadArgs ==
    /\ udpServerAt = "start"
    /\ udpServerAt' = "exited"
    /\ UNCHANGED <<do_an_echo, out_file, held, echoClient, echoNet, glitches,
                   waitHistory>>

EchoServerKeys(esc) ==
    /\ udpServerAt = "keys"
    /\ udpServerAt' = IF esc THEN "end" ELSE "recv"
    /\ UNCHANGED <<do_an_echo, out_file, held, echoClient, echoNet, glitches,
                   waitHistory>>

(* A delivery that may leave a copy of the datagram under way.             *)
Repeating(again) ==
    /\ again => repeats < MaxRepeats
    /\ repeats' = IF again THEN repeats + 1 ELSE repeats

(* A datagram is received and written to the output file; a short write    *)
(* ends the server.                                                        *)
EchoServerReceives(n) ==
    /\ udpServerAt = "recv"
    /\ n \in toServer
    /\ \E again \in BOOLEAN :
          /\ Repeating(again)
          /\ toServer' = IF again THEN toServer ELSE toServer \ {n}
    /\ \/ /\ held' = IF do_an_echo THEN n ELSE 0
          /\ udpServerAt' = IF do_an_echo THEN "echo" ELSE "keys"
       \/ /\ out_file
          /\ held' = 0
          /\ udpServerAt' = "end"
    /\ UNCHANGED <<do_an_echo, out_file, echoClient, toClient, losses, strays,
                   glitches, waitHistory>>

(* recvfrom() fails, with EAGAIN or with an error that ends the server.    *)
EchoServerNothing(error) ==
    /\ udpServerAt = "recv"
    /\ udpServerAt' = IF error THEN "end" ELSE "keys"
    /\ UNCHANGED <<do_an_echo, out_file, held, echoClient, echoNet, glitches,
                   waitHistory>>

(* The reply goes to the client.                                           *)
RepliesAfter_Fault == toClient
RepliesAfter == toClient \cup {[from |-> "server", no |-> held]}

EchoServerReplies ==
    /\ udpServerAt = "echo"
    /\ toClient' = RepliesAfter
    /\ held' = 0
    /\ udpServerAt' = "keys"
    /\ UNCHANGED <<do_an_echo, out_file, echoClient, toServer, losses, repeats,
                   strays, glitches, waitHistory>>

EchoServerReplyFails ==
    /\ udpServerAt = "echo"
    /\ held' = 0
    /\ udpServerAt' = "end"
    /\ UNCHANGED <<do_an_echo, out_file, echoClient, echoNet, glitches,
                   waitHistory>>

EchoServerEnds ==
    /\ udpServerAt = "end"
    /\ udpServerAt' = "exited"
    /\ UNCHANGED <<do_an_echo, out_file, held, echoClient, echoNet, glitches,
                   waitHistory>>

-----------------------------------------------------------------------------
(* udpclient: main() and run_udpclient()                                   *)

(* Options, the address of the server, socket() and non-blocking, or a     *)
(* failure of one of them.                                                 *)
EchoClientStarts ==
    /\ udpClientAt = "start"
    /\ no_send' \in BOOLEAN
    /\ udpClientAt' \in {"turn", "end"}
    /\ UNCHANGED <<wait_receive, serveraddr, serveraddrlen, message_counter,
                   retries, echoServer, echoNet, glitches, waitHistory>>

(* ESC, which every check_key() of the client looks for.                   *)
EchoClientEscape ==
    /\ udpClientAt \in {"turn", "wait", "retry"}
    /\ udpClientAt' = "end"
    /\ UNCHANGED <<no_send, wait_receive, serveraddr, serveraddrlen,
                   message_counter, retries, echoServer, echoNet, glitches,
                   waitHistory>>

(* sendto() takes the address only at its full length.                     *)
AddressTaken == serveraddrlen = WholeAddr

(* Message n goes to whoever serveraddr names.                             *)
SentTo(host, n) == IF host = "server" THEN toServer \cup {n} ELSE toServer

(* The next message is sent, and the wait begins.                          *)
EchoClientSends ==
    /\ udpClientAt = "turn"
    /\ ~no_send
    /\ message_counter < MaxMessages
    /\ AddressTaken
    /\ message_counter' = message_counter + 1
    /\ toServer' = SentTo(serveraddr, message_counter')
    /\ diverted' = diverted + (IF serveraddr = "server" THEN 0 ELSE 1)
    /\ wait_receive' = TRUE
    /\ udpClientAt' = "wait"
    /\ UNCHANGED <<no_send, serveraddr, serveraddrlen, retries, echoServer,
                   toClient, losses, repeats, strays, glitches, cuts, strayed,
                   mismatches>>

(* sendto() fails: EINVAL for a short address, or for another reason.      *)
EchoClientSendFails ==
    /\ udpClientAt = "turn"
    /\ ~no_send
    /\ message_counter < MaxMessages
    /\ message_counter' = message_counter + 1
    /\ udpClientAt' = "end"
    /\ UNCHANGED <<no_send, wait_receive, serveraddr, serveraddrlen, retries,
                   echoServer, echoNet, glitches, waitHistory>>

(* -n: nothing is sent.                                                    *)
EchoClientSkips ==
    /\ udpClientAt = "turn"
    /\ no_send
    /\ wait_receive' = TRUE
    /\ udpClientAt' = "wait"
    /\ UNCHANGED <<no_send, serveraddr, serveraddrlen, message_counter, retries,
                   echoServer, echoNet, glitches, waitHistory>>

(* What the length of the address becomes before recvfrom(): the size of a *)
(* pointer, as serveraddr is one here.                                     *)
LenBeforeRecv == PointerSize

(* The inner loop looks for a key; an r ends the wait with this turn.      *)
EchoClientWaits(reset) ==
    /\ udpClientAt = "wait"
    /\ reset => cuts < MaxCuts
    /\ wait_receive' = ~reset
    /\ serveraddrlen' = LenBeforeRecv
    /\ udpClientAt' = "recv"
    /\ UNCHANGED <<no_send, serveraddr, message_counter, retries, echoServer,
                   echoNet, glitches, waitHistory>>

(* recvfrom() gives datagram d, writes its sender over serveraddr and the  *)
(* full length over the other.                                             *)
EchoClientGets(d) ==
    /\ d \in toClient
    /\ \E again \in BOOLEAN :
          /\ Repeating(again)
          /\ toClient' = IF again THEN toClient ELSE toClient \ {d}
    /\ serveraddr' = d.from
    /\ serveraddrlen' = WholeAddr

(* Whether datagram d is the echo of the message last sent.                *)
Echoes(d) == d.from = "server" /\ d.no = message_counter

(* Any datagram ends the wait.                                             *)
EchoClientReceives(d) ==
    /\ udpClientAt = "recv"
    /\ EchoClientGets(d)
    /\ wait_receive' = FALSE
    /\ udpClientAt' = "turn"
    /\ strayed' = strayed + (IF d.from = "other" THEN 1 ELSE 0)
    /\ mismatches' = mismatches + (IF ~no_send /\ ~Echoes(d) THEN 1 ELSE 0)
    /\ UNCHANGED <<no_send, message_counter, retries, echoServer, toServer,
                   losses, strays, glitches, cuts, diverted>>

(* EAGAIN: the wait goes on, unless an r has ended it.                     *)
AfterNothing_Fault == "turn"
AfterNothing == IF wait_receive THEN "wait" ELSE "turn"

EchoClientNothing ==
    /\ udpClientAt = "recv"
    /\ udpClientAt' = AfterNothing
    /\ cuts' = IF wait_receive THEN cuts ELSE cuts + 1
    /\ UNCHANGED <<no_send, wait_receive, serveraddr, serveraddrlen,
                   message_counter, retries, echoServer, echoNet, glitches,
                   diverted, strayed, mismatches>>

(* Another error of recvfrom().                                            *)
EchoClientGlitch ==
    /\ udpClientAt = "recv"
    /\ glitches < MaxGlitches
    /\ glitches' = glitches + 1
    /\ retries' = MaxRetries
    /\ udpClientAt' = "retry"
    /\ UNCHANGED <<no_send, wait_receive, serveraddr, serveraddrlen,
                   message_counter, echoServer, echoNet, waitHistory>>

(* A turn of the loop that follows: the length is still that of a pointer, *)
(* and the next sendto() fails.                                            *)
EchoClientRetrySend ==
    /\ udpClientAt = "retry"
    /\ retries > 0
    /\ ~no_send
    /\ ~AddressTaken
    /\ message_counter < MaxMessages
    /\ message_counter' = message_counter + 1
    /\ udpClientAt' = "end"
    /\ UNCHANGED <<no_send, wait_receive, serveraddr, serveraddrlen, retries,
                   echoServer, echoNet, glitches, waitHistory>>

(* With -n it only receives, until something comes or the turns are over.  *)
EchoClientRetryRecv ==
    /\ udpClientAt = "retry"
    /\ retries > 0
    /\ no_send
    /\ \/ /\ \E d \in toClient :
                /\ EchoClientGets(d)
                /\ strayed' = strayed + (IF d.from = "other" THEN 1 ELSE 0)
          /\ udpClientAt' = "turn"
          /\ UNCHANGED <<toServer, losses, strays, retries>>
       \/ /\ retries' = retries - 1
          /\ UNCHANGED <<udpClientAt, serveraddr, serveraddrlen, echoNet, strayed>>
    /\ UNCHANGED <<no_send, wait_receive, message_counter, echoServer, glitches,
                   cuts, diverted, mismatches>>

EchoClientRetriesOver ==
    /\ udpClientAt = "retry"
    /\ retries = 0
    /\ udpClientAt' = "turn"
    /\ UNCHANGED <<no_send, wait_receive, serveraddr, serveraddrlen,
                   message_counter, retries, echoServer, echoNet, glitches,
                   waitHistory>>

EchoClientEnds ==
    /\ udpClientAt = "end"
    /\ udpClientAt' = "exited"
    /\ UNCHANGED <<no_send, wait_receive, serveraddr, serveraddrlen,
                   message_counter, retries, echoServer, echoNet, glitches,
                   waitHistory>>

-----------------------------------------------------------------------------
(* The network and the third host                                          *)

LoseDatagram ==
    /\ losses < MaxLosses
    /\ losses' = losses + 1
    /\ \/ /\ \E n \in toServer : toServer' = toServer \ {n}
          /\ UNCHANGED toClient
       \/ /\ \E d \in toClient : toClient' = toClient \ {d}
          /\ UNCHANGED toServer
    /\ UNCHANGED <<echoServer, echoClient, repeats, strays, glitches, waitHistory>>

StraySends ==
    /\ strays < MaxStrays
    /\ strays' = strays + 1
    /\ toClient' = toClient \cup {[from |-> "other", no |-> 0]}
    /\ UNCHANGED <<echoServer, echoClient, toServer, losses, repeats, glitches,
                   waitHistory>>

-----------------------------------------------------------------------------
EchoServerWork ==
    \/ EchoServerKeys(FALSE) \/ EchoServerNothing(FALSE)
    \/ EchoServerReplies \/ EchoServerEnds
    \/ \E n \in toServer : EchoServerReceives(n)

EchoClientWork ==
    \/ EchoClientSends \/ EchoClientSkips \/ EchoClientWaits(FALSE)
    \/ EchoClientNothing \/ EchoClientRetrySend \/ EchoClientRetryRecv
    \/ EchoClientRetriesOver \/ EchoClientEnds
    \/ \E d \in toClient : EchoClientReceives(d)

UdpEchoNext ==
    \/ EchoServerStarts \/ EchoServerBadArgs \/ EchoServerWork
    \/ EchoServerKeys(TRUE) \/ EchoServerNothing(TRUE) \/ EchoServerReplyFails
    \/ EchoClientStarts \/ EchoClientWork
    \/ EchoClientEscape \/ EchoClientSendFails \/ EchoClientGlitch
    \/ EchoClientWaits(TRUE)
    \/ LoseDatagram \/ StraySends

UdpEchoSpec == UdpEchoInit /\ [][UdpEchoNext]_udpEchoVars

(* Both programs run, and a datagram that stays under way arrives: EAGAIN  *)
(* is not what recvfrom() says for ever.                                   *)
UdpEchoFairness ==
    /\ WF_udpEchoVars(EchoServerWork)
    /\ WF_udpEchoVars(EchoClientWork)
    /\ SF_udpEchoVars(\E n \in toServer : EchoServerReceives(n))
    /\ SF_udpEchoVars(\E d \in toClient : EchoClientReceives(d))

UdpEchoFairSpec == UdpEchoSpec /\ UdpEchoFairness

-----------------------------------------------------------------------------
(* Properties                                                              *)

(* The datagrams of the exchange that are under way, or held by the server.*)
Exchange ==
    Cardinality(toServer) + Cardinality({d \in toClient : d.from = "server"})
        + (IF udpServerAt = "echo" THEN 1 ELSE 0)

(* One send of the client, for which it waits.                             *)
Waiting == IF udpClientAt \in {"wait", "recv"} /\ ~no_send THEN 1 ELSE 0

(* What disturbed the exchange until now.                                  *)
Disturbances == repeats + strayed + cuts + glitches

(* Stop and wait: no more of the exchange is under way than the one        *)
(* message the client waits for, but for what the network repeated and for *)
(* waits that ended with a datagram of somebody else, an r or an error     *)
(* (src/src/udpclient.cxx:383: whatever arrives ends the wait).            *)
OneExchange ==
    udpClientAt \notin {"end", "exited"} =>
        Exchange <= Waiting + Disturbances

(* The client takes nothing but the echo of its last message for the       *)
(* reply, unless the network repeated a datagram, a third host wrote to    *)
(* it, or a wait was given up while the echo was still coming: nothing in  *)
(* a datagram says which message it answers (src/src/udpclient.cxx:383).   *)
RepliesMatch == mismatches > 0 => Disturbances > 0

(* A wait that is given up, with r ("Reset wait for receive", udpclient.cxx*)
(* :106) or after an error of recvfrom() ("should wait a little, then      *)
(* continue", :327), leaves the client able to send its next message:      *)
(* whenever it comes to a sendto(), the length of the address is whole.    *)
NextSendIsTaken ==
    ~no_send /\ (udpClientAt = "turn" \/ (udpClientAt = "retry" /\ retries > 0)) =>
        AddressTaken

(* What makes the above inductive.  First, what is under way is finite,    *)
(* and the server holds a message that was sent.                           *)
UnderWay ==
    /\ IsFiniteSet(toClient)
    /\ held <= message_counter

(* Until something disturbs the exchange, what is under way while the      *)
(* client waits is its last message, in one form or the other; only a      *)
(* datagram of the other host makes the client write to that host.         *)
OnlyTheLast ==
    /\ (udpClientAt \in {"wait", "recv"} /\ ~no_send /\ Disturbances = 0) =>
          /\ toServer \subseteq {message_counter}
          /\ udpServerAt = "echo" => held = message_counter
          /\ \A d \in toClient : d.from = "server" => d.no = message_counter
    /\ serveraddr = "other" => strayed > 0

UdpEchoInv ==
    UdpEchoTypeOK /\ OneExchange /\ RepliesMatch /\ UnderWay /\ OnlyTheLast

(* While an echoing server runs and the network loses nothing, the reply   *)
(* to a message that is on its way ends the wait; nothing else does, for   *)
(* the wait has no limit (src/src/udpclient.cxx:258, :318).                *)
WaitGetsReply ==
    (/\ udpClientAt \in {"wait", "recv"}
     /\ message_counter \in toServer
     /\ do_an_echo /\ udpServerAt \in {"keys", "recv", "echo"})
        ~> \/ udpClientAt \notin {"wait", "recv"}
           \/ losses > 0
           \/ udpServerAt \in {"end", "exited"}
=============================================================================
