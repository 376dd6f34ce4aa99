----------------------------- MODULE EbSocket ------------------------------
(***************************************************************************)
(* The connection layer src/src/ebsocket.c, in one program that uses it:   *)
(* what becomes of the descriptors of makeSocket(), tcp_connect(),         *)
(* tcp_listen(), tcp_unlisten() and tcp_close().                           *)
(*                                                                         *)
(* tcp_unlisten(), and tcp_connect() on a failure, call shutdown() and not *)
(* close(): the descriptor stays in the process's table, ebShut, and       *)
(* nobody knows it any more.  ebAt is "idle", or in tcp_listen() "listen"  *)
(* at the label retry and "accept" at accept(); ebOnce and ebTries are its *)
(* locals, ebWanted the port it was called for.                            *)
(***************************************************************************)
EXTENDS Integers, FiniteSets

CONSTANTS EbFds,           (* the descriptors the process may have         *)
          EbPorts

(* Descriptors and ports are natural numbers; 0 is the port of no socket.  *)
ASSUME EbAssumption ==
    /\ EbFds \subseteq Nat /\ IsFiniteSet(EbFds)
    /\ EbPorts \subseteq Nat \ {0}

VARIABLES listen_s, ebPort,             (* static; the port it is bound to *)
          ebAt, ebOnce, ebTries, ebWanted,
          ebCallers, ebShut,            (* descriptors of either kind      *)
          ebUnlistened, ebFailed        (* tcp_unlisten()s, failed calls   *)

ebVars == <<listen_s, ebPort, ebAt, ebOnce, ebTries, ebWanted, ebCallers, ebShut,
            ebUnlistened, ebFailed>>
ebCall == <<ebOnce, ebWanted>>

EbInit ==
    /\ listen_s = -1 /\ ebPort = 0
    /\ ebAt = "idle" /\ ebOnce = FALSE /\ ebTries = 0 /\ ebWanted = 0
    /\ ebCallers = {} /\ ebShut = {} /\ ebUnlistened = 0 /\ ebFailed = 0

EbOpen == ebCallers \cup ebShut \cup ({listen_s} \ {-1})

(* socket() returns the lowest descriptor that is free, or fails.          *)
EbFree == EbFds \ EbOpen
Lowest == CHOOSE fd \in EbFree : \A other \in EbFree : fd <= other

-----------------------------------------------------------------------------
TcpConnectFails ==
    /\ ebAt = "idle"
    /\ ebShut' = IF EbFree = {} THEN ebShut ELSE ebShut \cup {Lowest}
    /\ ebFailed' = IF EbFree = {} THEN ebFailed ELSE ebFailed + 1
    /\ UNCHANGED <<listen_s, ebPort, ebAt, ebCall, ebTries, ebCallers, ebUnlistened>>

TcpConnect ==
    /\ ebAt = "idle"
    /\ EbFree # {}
    /\ ebCallers' = ebCallers \cup {Lowest}
    /\ UNCHANGED <<listen_s, ebPort, ebAt, ebCall, ebTries, ebShut, ebUnlistened, ebFailed>>

(* close(fh), and a shutdown() of what is no longer there.                 *)
TcpClose(fd) ==
    /\ ebAt = "idle"
    /\ fd \in ebCallers
    /\ ebCallers' = ebCallers \ {fd}
    /\ UNCHANGED <<listen_s, ebPort, ebAt, ebCall, ebTries, ebShut, ebUnlistened, ebFailed>>

-----------------------------------------------------------------------------
TcpListen(port, once) ==
    /\ ebAt = "idle"
    /\ ebAt' = "listen" /\ ebOnce' = once /\ ebTries' = 1 /\ ebWanted' = port
    /\ UNCHANGED <<listen_s, ebPort, ebCallers, ebShut, ebUnlistened, ebFailed>>

(* An open listening socket is used again, whatever port is asked for.     *)
ListenAgain ==
    /\ ebAt = "listen"
    /\ listen_s >= 0
    /\ ebAt' = "accept"
    /\ UNCHANGED <<listen_s, ebPort, ebCall, ebTries, ebCallers, ebShut, ebUnlistened, ebFailed>>

ListenOpens ==
    /\ ebAt = "listen"
    /\ listen_s < 0
    /\ EbFree # {}
    /\ listen_s' = Lowest
    /\ ebPort' = ebWanted
    /\ ebAt' = "accept"
    /\ UNCHANGED <<ebCall, ebTries, ebCallers, ebShut, ebUnlistened, ebFailed>>

ListenNoSocket ==
    /\ ebAt = "listen"
    /\ listen_s < 0
    /\ EbFree = {}
    /\ ebAt' = "idle"
    /\ UNCHANGED <<listen_s, ebPort, ebCall, ebTries, ebCallers, ebShut, ebUnlistened, ebFailed>>

(* bind() or listen() failed, and tcp_unlisten().                          *)
ListenFails ==
    /\ ebAt = "listen"
    /\ listen_s < 0
    /\ EbFree # {}
    /\ ebShut' = ebShut \cup {Lowest}
    /\ ebUnlistened' = ebUnlistened + 1
    /\ ebAt' = "idle"
    /\ UNCHANGED <<listen_s, ebPort, ebCall, ebTries, ebCallers, ebFailed>>

Unlistens ==
    /\ ebShut' = ebShut \cup {listen_s}
    /\ listen_s' = -1 /\ ebPort' = 0
    /\ ebUnlistened' = ebUnlistened + 1

EndsListening_Fault == FALSE

(* With once the listening socket goes when there is a connection.         *)
EndsListening == ebOnce

AcceptReturns ==
    /\ ebAt = "accept"
    /\ EbFree # {}
    /\ ebCallers' = ebCallers \cup {Lowest}
    /\ ebAt' = "idle"
    /\ IF EndsListening THEN Unlistens
                        ELSE UNCHANGED <<listen_s, ebPort, ebShut, ebUnlistened>>
    /\ UNCHANGED <<ebCall, ebTries, ebFailed>>

(* An accept() that fails is tried again once, with a new socket.          *)
AcceptFails ==
    /\ ebAt = "accept"
    /\ Unlistens
    /\ IF ebOnce \/ ebTries > 1
       THEN ebAt' = "idle"   /\ UNCHANGED ebTries
       ELSE ebAt' = "listen" /\ ebTries' = ebTries + 1
    /\ UNCHANGED <<ebCall, ebCallers, ebFailed>>

(* A caller's own tcp_unlisten().                                          *)
TcpUnlisten ==
    /\ ebAt = "idle"
    /\ listen_s >= 0
    /\ Unlistens
    /\ UNCHANGED <<ebAt, ebCall, ebTries, ebCallers, ebFailed>>

-----------------------------------------------------------------------------
EbNext ==
    \/ TcpConnectFails \/ TcpConnect
    \/ \E fd \in EbFds : TcpClose(fd)
    \/ \E port \in EbPorts, once \in BOOLEAN : TcpListen(port, once)
    \/ ListenAgain \/ ListenOpens \/ ListenNoSocket \/ ListenFails
    \/ AcceptReturns \/ AcceptFails \/ TcpUnlisten

EbSpec == EbInit /\ [][EbNext]_ebVars

-----------------------------------------------------------------------------
EbTypeOK ==
    /\ listen_s \in EbFds \cup {-1}
    /\ ebPort \in EbPorts \cup {0} /\ ebWanted \in EbPorts \cup {0}
    /\ ebAt \in {"idle", "listen", "accept"}
    /\ ebOnce \in BOOLEAN /\ ebTries \in 0..2
    /\ ebCallers \subseteq EbFds /\ ebShut \subseteq EbFds
    /\ ebUnlistened \in Nat /\ ebFailed \in Nat

(* The table's descriptors have one owner each: the callers', the          *)
(* listening one, and those that were only shut down.                      *)
OneOwner ==
    /\ ebCallers \cap ebShut = {}
    /\ listen_s \notin ebCallers \cup ebShut
    /\ ebAt = "accept" => listen_s \in EbFds

(* Every tcp_unlisten() and every failed connect() takes one descriptor    *)
(* for good, and nothing else does.                                        *)
LostByShutdown == Cardinality(ebShut) = ebUnlistened + ebFailed

(* A call with once leaves no listening socket behind, whichever way it    *)
(* ends: the next call for another port then listens on that port.         *)
OnceLeavesNone ==
    /\ (ebAt = "idle" /\ ebOnce) => listen_s = -1
    /\ (ebAt = "accept" /\ ebTries = 2) => ebPort = ebWanted
    /\ (listen_s = -1) = (ebPort = 0)

(* A call knows its port until it ends, and comes back to the label retry  *)
(* with no listening socket.                                               *)
AtRetry ==
    /\ ebAt # "idle" => ebWanted \in EbPorts
    /\ (ebAt = "listen" /\ ebTries = 2) => listen_s = -1

EbInv == EbTypeOK /\ OneOwner /\ LostByShutdown /\ OnceLeavesNone /\ AtRetry
=============================================================================
