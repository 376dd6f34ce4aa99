------------------------------ MODULE UdpOnce ------------------------------
(***************************************************************************)
(* The first editions of the datagram echo, which all three of the servers *)
(* (src/src/udpserver.c, udpserver1.cxx, udpserver-ok.c) and all three of  *)
(* the clients (src/src/udpclient.c, udpclient1.cxx, udpclient-ok.c) run   *)
(* once: a server takes one datagram, sends it back and ends, a client     *)
(* sends one, takes one and ends.  recvfrom() blocks.                      *)
(*                                                                         *)
(* Any edition of one side may meet any edition of the other.  A server    *)
(* that has ended may be started again, in any edition; without a server   *)
(* a request goes nowhere.  The network loses, delays and repeats          *)
(* datagrams.  Texts are "Hello" for what the clients send, "HELLO" for    *)
(* the same in upper case, and "stray" for another host's datagram, which  *)
(* is shorter than the buffer of a server.                                 *)
(***************************************************************************)
EXTENDS Naturals, FiniteSets

CONSTANTS OnceClients,     (* processes of a client                        *)
          MaxRuns,         (* bound: servers ever started                  *)
          MaxAgain,        (* bound: deliveries that leave a copy          *)
          MaxOthers        (* bound: datagrams of other hosts              *)

ASSUME OnceAssumption ==
    /\ IsFiniteSet(OnceClients) /\ "other" \notin OnceClients
    /\ {MaxRuns, MaxAgain, MaxOthers} \subseteq Nat

VARIABLES onceServer,      (* [at, edition, from, text] of the server      *)
          onceClient,      (* [at, edition] of each client                 *)
          onceGot,         (* the text each client got, or "nothing"       *)
          onceRequests,    (* datagrams on their way to the server         *)
          onceReplies,     (* datagrams on their way back                  *)
          onceRuns, onceAgain, onceOthers

onceVars == <<onceServer, onceClient, onceGot, onceRequests, onceReplies,
              onceRuns, onceAgain, onceOthers>>

ServerEditions == {"udpserver.c", "udpserver1.cxx", "udpserver-ok.c"}
ClientEditions == {"udpclient.c", "udpclient1.cxx", "udpclient-ok.c"}
Senders == OnceClients \cup {"other"}
Texts   == {"Hello", "HELLO", "stray", "STRAY"}

(* text fills the buffer; a reply is as long as the buffer in any case     *)
Request == [from : Senders, text : {"Hello", "stray"}, filled : BOOLEAN]
Reply   == [to : Senders, text : Texts, filled : BOOLEAN]

OnceTypeOK ==
    /\ onceServer \in [at : {"off", "recv", "echo"},
                       edition : ServerEditions \cup {"none"}, request : Request]
    /\ onceClient \in [OnceClients ->
                         [at : {"start", "send", "recv", "exited"},
                          edition : ClientEditions \cup {"none"}]]
    /\ onceGot \in [OnceClients -> {"nothing"} \cup Texts]
    /\ onceRequests \subseteq Request
    /\ onceReplies \subseteq Reply
    /\ onceRuns \in 0..MaxRuns /\ onceAgain \in 0..MaxAgain
    /\ onceOthers \in 0..MaxOthers

Stray == [from |-> "other", text |-> "stray", filled |-> FALSE]

OnceInit ==
    /\ onceServer = [at |-> "off", edition |-> "none", request |-> Stray]
    /\ onceClient = [c \in OnceClients |-> [at |-> "start", edition |-> "none"]]
    /\ onceGot = [c \in OnceClients |-> "nothing"]
    /\ onceRequests = {} /\ onceReplies = {}
    /\ onceRuns = 0 /\ onceAgain = 0 /\ onceOthers = 0

-----------------------------------------------------------------------------
Leaving(again) ==
    /\ again => onceAgain < MaxAgain
    /\ onceAgain' = IF again THEN onceAgain + 1 ELSE onceAgain

(* Where a server is after it has answered.                                *)
AfterRun_Fault == "recv"
AfterRun == "off"

(* One run of a server: socket() and bind(), recvfrom(), sendto() of what  *)
(* Echo makes of the text, close().  Any call but close() may fail and end *)
(* the process.                                                            *)
OnceServer(edition, Echo(_)) ==
    \/ /\ onceServer.at = "off"
       /\ onceRuns < MaxRuns
       /\ onceRuns' = onceRuns + 1
       /\ \E at \in {"recv", "off"} :
             onceServer' = [onceServer EXCEPT !.at = at, !.edition = edition]
       /\ UNCHANGED <<onceClient, onceGot, onceRequests, onceReplies, onceAgain,
                      onceOthers>>
    \/ /\ onceServer.at = "recv" /\ onceServer.edition = edition
       /\ \E r \in onceRequests, again \in BOOLEAN :
             /\ Leaving(again)
             /\ onceRequests' = IF again THEN onceRequests ELSE onceRequests \ {r}
             /\ onceServer' = [onceServer EXCEPT !.at = "echo", !.request = r]
       /\ UNCHANGED <<onceClient, onceGot, onceReplies, onceRuns, onceOthers>>
    \/ /\ onceServer.at = "echo" /\ onceServer.edition = edition
       /\ onceReplies' = onceReplies \cup
             {[to |-> onceServer.request.from,
               text |-> Echo(onceServer.request.text),
               filled |-> onceServer.request.filled]}
       /\ onceServer' = [onceServer EXCEPT !.at = AfterRun]
       /\ UNCHANGED <<onceClient, onceGot, onceRequests, onceRuns, onceAgain,
                      onceOthers>>
    \/ /\ onceServer.at \in {"recv", "echo"} /\ onceServer.edition = edition
       /\ onceServer' = [onceServer EXCEPT !.at = "off"]
       /\ UNCHANGED <<onceClient, onceGot, onceRequests, onceReplies, onceRuns,
                      onceAgain, onceOthers>>

(* toupper() of each character.                                            *)
Upper(text) == IF text \in {"Hello", "HELLO"} THEN "HELLO" ELSE "STRAY"
AsIs(text)  == text

udpserver_c   == OnceServer("udpserver.c", AsIs)
udpserver1    == OnceServer("udpserver1.cxx", Upper)
udpserver_ok  == OnceServer("udpserver-ok.c", AsIs)

Gone == [at |-> "exited", edition |-> "none"]

(* One run of a client: socket() and the address of the server, sendto()   *)
(* of the whole buffer, recvfrom(), close().                               *)
OnceClient(c, edition) ==
    \/ /\ onceClient[c].at = "start"
       /\ \E at \in {"send", "exited"} :
             onceClient' = [onceClient EXCEPT
                              ![c] = IF at = "send" THEN [at |-> at, edition |-> edition]
                                                    ELSE Gone]
       /\ UNCHANGED <<onceServer, onceGot, onceRequests, onceReplies, onceRuns,
                      onceAgain, onceOthers>>
    \/ /\ onceClient[c].at = "send" /\ onceClient[c].edition = edition
       /\ onceRequests' = onceRequests \cup
             {[from |-> c, text |-> "Hello", filled |-> TRUE]}
       /\ onceClient' = [onceClient EXCEPT ![c].at = "recv"]
       /\ UNCHANGED <<onceServer, onceGot, onceReplies, onceRuns, onceAgain,
                      onceOthers>>
    \/ /\ onceClient[c].at = "recv" /\ onceClient[c].edition = edition
       /\ \E r \in onceReplies, again \in BOOLEAN :
             /\ r.to = c
             /\ Leaving(again)
             /\ onceReplies' = IF again THEN onceReplies ELSE onceReplies \ {r}
             /\ onceGot' = [onceGot EXCEPT ![c] = r.text]
       /\ onceClient' = [onceClient EXCEPT ![c] = Gone]
       /\ UNCHANGED <<onceServer, onceRequests, onceRuns, onceOthers>>
    \/ /\ onceClient[c].at \in {"send", "recv"} /\ onceClient[c].edition = edition
       /\ onceClient' = [onceClient EXCEPT ![c] = Gone]
       /\ UNCHANGED <<onceServer, onceGot, onceRequests, onceReplies, onceRuns,
                      onceAgain, onceOthers>>

udpclient_c(c)  == OnceClient(c, "udpclient.c")
udpclient1(c)   == OnceClient(c, "udpclient1.cxx")
udpclient_ok(c) == OnceClient(c, "udpclient-ok.c")

OnceLoses ==
    /\ \/ /\ \E r \in onceRequests : onceRequests' = onceRequests \ {r}
          /\ UNCHANGED onceReplies
       \/ /\ \E r \in onceReplies : onceReplies' = onceReplies \ {r}
          /\ UNCHANGED onceRequests
    /\ UNCHANGED <<onceServer, onceClient, onceGot, onceRuns, onceAgain, onceOthers>>

OtherSends ==
    /\ onceOthers < MaxOthers
    /\ onceOthers' = onceOthers + 1
    /\ onceRequests' = onceRequests \cup {Stray}
    /\ UNCHANGED <<onceServer, onceClient, onceGot, onceReplies, onceRuns, onceAgain>>

OnceNext ==
    \/ udpserver_c \/ udpserver1 \/ udpserver_ok
    \/ \E c \in OnceClients : udpclient_c(c) \/ udpclient1(c) \/ udpclient_ok(c)
    \/ OnceLoses \/ OtherSends

OnceSpec == OnceInit /\ [][OnceNext]_onceVars

-----------------------------------------------------------------------------
Answered == {c \in OnceClients : onceGot[c] # "nothing"}

(* Each answer costs a run of a server: of the clients that a server finds *)
(* waiting, all but one are left in recvfrom() (src/src/udpserver.c:93:    *)
(* one recvfrom(), no loop), and a datagram of another host uses the run   *)
(* up as well.  onceServer.at = "off" once the run is spent.               *)
AnswersCostRuns ==
    Cardinality(Answered)
      + Cardinality({r \in onceReplies : r.to \in OnceClients /\ r.to \notin Answered})
      + (IF onceServer.at = "off" THEN 0 ELSE 1)  <= onceRuns

(* A client is sent its own message, in the case its server sends it, and  *)
(* every byte of it came from the client: a server sends its whole buffer  *)
(* back however little it has received (src/src/udpserver.c:117), and only *)
(* the other host's short datagram leaves it partly unset.                 *)
OwnEcho ==
    /\ \A c \in Answered : onceGot[c] \in {"Hello", "HELLO"}
    /\ \A r \in onceReplies : r.to \in OnceClients => r.filled

(* What is on its way, and what the server is about to send back, is as    *)
(* its sender wrote it, and a client that waits has got nothing yet.       *)
AsItWasSent ==
    /\ \A r \in onceRequests : r.from \in OnceClients => r.text = "Hello" /\ r.filled
    /\ onceServer.request.from \in OnceClients =>
          onceServer.request.text = "Hello" /\ onceServer.request.filled
    /\ \A r \in onceReplies : r.to \in OnceClients => r.text \in {"Hello", "HELLO"}
    /\ IsFiniteSet(onceReplies)
    /\ \A c \in OnceClients : onceClient[c].at # "exited" => onceGot[c] = "nothing"

OnceInv == OnceTypeOK /\ AnswersCostRuns /\ OwnEcho /\ AsItWasSent
=============================================================================
