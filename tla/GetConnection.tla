--------------------------- MODULE GetConnection ---------------------------
(***************************************************************************)
(* The helpers of src/src/sockhelp.c that make connections: in the server  *)
(* get_connection(), which forks a process for each one and returns in the *)
(* child; in the clients make_connection().  gcAt[p] is                    *)
(*   "none"      the process does not exist yet                            *)
(*   "socket"    up to and including socket()                              *)
(*   "bind"      bind() and listen()                                       *)
(*   "accept"    accept()                                                  *)
(*   "fork"      fork(), with a connection in connected_socket             *)
(*   "parent", "child"  behind fork(), in either process                   *)
(*   "returned"  the caller of get_connection() is at work                 *)
(*   "exited"    the process has ended                                     *)
(*                                                                         *)
(* gcHolds[p] are the sockets process p has open: the listening one, and   *)
(* connections, each named after its client.  gcHandler[p] says that the   *)
(* caller's *listener is not -1, so that a signal handler may close it.    *)
(***************************************************************************)
EXTENDS Integers, FiniteSets

CONSTANTS GcChildren,      (* processes that fork() may make               *)
          GcClients,       (* processes that call make_connection()        *)
          GcBacklog,       (* the argument of listen()                     *)
          McMaxTries       (* bound: calls by each client                  *)

ASSUME GcAssumption ==
    /\ "server" \notin GcChildren
    /\ {"none", "listening_socket"} \cap GcClients = {}
    /\ GcBacklog \in Nat /\ McMaxTries \in Nat

GcProcs == {"server"} \cup GcChildren
L == "listening_socket"

VARIABLES gcType, gcAt, gcHolds, gcGot, gcHandler, mcAt, mcOpen, mcTries

gcVars == <<gcType, gcAt, gcHolds, gcGot, gcHandler, mcAt, mcOpen, mcTries>>
mcVars == <<mcAt, mcOpen, mcTries>>

GcInit ==
    /\ gcType \in {"stream", "dgram"}
    /\ gcAt = [p \in GcProcs |-> IF p = "server" THEN "socket" ELSE "none"]
    /\ gcHolds = [p \in GcProcs |-> {}]
    /\ gcGot = [p \in GcProcs |-> "none"]
    /\ gcHandler = [p \in GcProcs |-> FALSE]
    /\ mcAt = [c \in GcClients |-> "idle"]
    /\ mcOpen = [c \in GcClients |-> 0]
    /\ mcTries = [c \in GcClients |-> 0]

-----------------------------------------------------------------------------
(* exit(), here or in the caller, or a signal: the kernel closes all that  *)
(* the process had open.                                                   *)
GcEnds(p) ==
    /\ gcAt[p] \notin {"none", "exited"}
    /\ gcAt' = [gcAt EXCEPT ![p] = "exited"]
    /\ gcHolds' = [gcHolds EXCEPT ![p] = {}]
    /\ gcHandler' = [gcHandler EXCEPT ![p] = FALSE]
    /\ gcGot' = [gcGot EXCEPT ![p] = "none"]
    /\ UNCHANGED <<gcType, mcVars>>

GcOpensSocket ==
    /\ gcAt["server"] = "socket"
    /\ gcAt' = [gcAt EXCEPT !["server"] = "bind"]
    /\ gcHolds' = [gcHolds EXCEPT !["server"] = {L}]
    /\ gcHandler' = [gcHandler EXCEPT !["server"] = TRUE]
    /\ UNCHANGED <<gcType, gcGot, mcVars>>

(* bind(), and listen(), whose result nobody looks at; the socket for      *)
(* datagrams is returned at once.                                          *)
GcBinds ==
    /\ gcAt["server"] = "bind"
    /\ gcAt' = [gcAt EXCEPT !["server"] =
                    IF gcType = "stream" THEN "accept" ELSE "returned"]
    /\ UNCHANGED <<gcType, gcHolds, gcGot, gcHandler, mcVars>>

(* A call a signal interrupted is made again, and is no step.              *)
GcAccepts(c) ==
    /\ gcAt["server"] = "accept"
    /\ mcAt[c] = "waiting"
    /\ mcAt' = [mcAt EXCEPT ![c] = "accepted"]
    /\ gcGot' = [gcGot EXCEPT !["server"] = c]
    /\ gcHolds' = [gcHolds EXCEPT !["server"] = @ \cup {c}]
    /\ gcAt' = [gcAt EXCEPT !["server"] = "fork"]
    /\ UNCHANGED <<gcType, gcHandler, mcOpen, mcTries>>

(* The child begins with a copy of everything.                             *)
GcForks(p) ==
    /\ gcAt["server"] = "fork"
    /\ gcAt[p] = "none"
    /\ gcAt' = [gcAt EXCEPT !["server"] = "parent", ![p] = "child"]
    /\ gcHolds' = [gcHolds EXCEPT ![p] = gcHolds["server"]]
    /\ gcGot' = [gcGot EXCEPT ![p] = gcGot["server"]]
    /\ gcHandler' = [gcHandler EXCEPT ![p] = gcHandler["server"]]
    /\ UNCHANGED <<gcType, mcVars>>

KeepsInParent_Fault(open, c) == open

(* What is left open in the process that accepts.                          *)
KeepsInParent(open, c) == open \ {c}

(* The parent goes on, or fork() failed: the connection is closed here.    *)
GcParentGoesOn ==
    /\ gcAt["server"] \in {"parent", "fork"}
    /\ gcAt' = [gcAt EXCEPT !["server"] = "accept"]
    /\ gcHolds' = [gcHolds EXCEPT !["server"] = KeepsInParent(@, gcGot["server"])]
    /\ gcGot' = [gcGot EXCEPT !["server"] = "none"]
    /\ UNCHANGED <<gcType, gcHandler, mcVars>>

GcChildReturns(p) ==
    /\ gcAt[p] = "child"
    /\ gcAt' = [gcAt EXCEPT ![p] = "returned"]
    /\ gcHolds' = [gcHolds EXCEPT ![p] = @ \ {L}]
    /\ gcHandler' = [gcHandler EXCEPT ![p] = FALSE]
    /\ UNCHANGED <<gcType, gcGot, mcVars>>

-----------------------------------------------------------------------------
(* make_connection() in a client.                                          *)

Listening == gcType = "stream" /\ \E p \in GcProcs : L \in gcHolds[p] /\ gcAt[p] # "bind"
Queued    == {c \in GcClients : mcAt[c] = "waiting"}

McCalls(c) ==
    /\ mcAt[c] = "idle"
    /\ mcTries[c] < McMaxTries
    /\ mcTries' = [mcTries EXCEPT ![c] = @ + 1]

(* No such service or address: -1 before there is a socket.                *)
McUnknown(c) ==
    /\ McCalls(c)
    /\ UNCHANGED <<gcType, gcAt, gcHolds, gcGot, gcHandler, mcAt, mcOpen>>

(* connect() or bind() failed: -1, and the socket stays open.              *)
McFails(c) ==
    /\ McCalls(c)
    /\ mcOpen' = [mcOpen EXCEPT ![c] = @ + 1]
    /\ UNCHANGED <<gcType, gcAt, gcHolds, gcGot, gcHandler, mcAt>>

McConnects(c) ==
    /\ McCalls(c)
    /\ Listening
    /\ Cardinality(Queued) <= GcBacklog
    /\ mcOpen' = [mcOpen EXCEPT ![c] = @ + 1]
    /\ mcAt' = [mcAt EXCEPT ![c] = "waiting"]
    /\ UNCHANGED <<gcType, gcAt, gcHolds, gcGot, gcHandler>>

(* For datagrams it binds the socket to the address instead.               *)
McBinds(c) ==
    /\ McCalls(c)
    /\ gcType = "dgram"
    /\ mcOpen' = [mcOpen EXCEPT ![c] = @ + 1]
    /\ mcAt' = [mcAt EXCEPT ![c] = "bound"]
    /\ UNCHANGED <<gcType, gcAt, gcHolds, gcGot, gcHandler>>

(* The client reads the end of its connection, and closes.                 *)
EndIsVisible(c) ==
    \/ mcAt[c] = "accepted" /\ \A p \in GcProcs : c \notin gcHolds[p]
    \/ mcAt[c] = "waiting" /\ ~Listening

McSeesEnd(c) ==
    /\ EndIsVisible(c)
    /\ mcAt' = [mcAt EXCEPT ![c] = "idle"]
    /\ mcOpen' = [mcOpen EXCEPT ![c] = @ - 1]
    /\ UNCHANGED <<gcType, gcAt, gcHolds, gcGot, gcHandler, mcTries>>

-----------------------------------------------------------------------------
GcNext ==
    \/ GcOpensSocket \/ GcBinds \/ GcParentGoesOn
    \/ \E p \in GcProcs : GcEnds(p) \/ GcForks(p) \/ GcChildReturns(p)
    \/ \E c \in GcClients : \/ GcAccepts(c) \/ McUnknown(c) \/ McFails(c)
                            \/ McConnects(c) \/ McBinds(c) \/ McSeesEnd(c)

GcSpec == GcInit /\ [][GcNext]_gcVars

-----------------------------------------------------------------------------
GcTypeOK ==
    /\ gcType \in {"stream", "dgram"}
    /\ gcAt \in [GcProcs -> {"none", "socket", "bind", "accept", "fork", "parent", "child",
                             "returned", "exited"}]
    /\ gcHolds \in [GcProcs -> SUBSET (GcClients \cup {L})]
    /\ gcGot \in [GcProcs -> GcClients \cup {"none"}]
    /\ gcHandler \in [GcProcs -> BOOLEAN]
    /\ mcAt \in [GcClients -> {"idle", "waiting", "accepted", "bound"}]
    /\ mcTries \in [GcClients -> 0..McMaxTries]
    /\ mcOpen \in [GcClients -> 0..McMaxTries]

(* Whoever has a connection open is at work on it: no process keeps one it *)
(* has inherited, or has handed on to a child.                             *)
HoldsOnlyItsOwn ==
    \A p \in GcProcs : \A c \in gcHolds[p] \ {L} : gcGot[p] = c

(* A child serves one connection, no other does, and it has no part in the *)
(* listening socket any more.                                              *)
EachChildItsClient ==
    \A p \in GcChildren : gcAt[p] \in {"child", "returned"} =>
        /\ gcGot[p] \in gcHolds[p]
        /\ mcAt[gcGot[p]] = "accepted"
        /\ \A q \in GcChildren \ {p} : gcGot[q] # gcGot[p]
        /\ gcAt[p] = "returned" => L \notin gcHolds[p]

(* What a signal handler may close is always the listening socket.         *)
HandlerClosesListener ==
    \A p \in GcProcs : gcHandler[p] => L \in gcHolds[p]

(* When its child has ended, a client is not left waiting: it reads the    *)
(* end of its connection, as soon as the server accepts again.             *)
NobodyLeftWaiting ==
    \A c \in GcClients :
        (/\ mcAt[c] = "accepted"
         /\ gcAt["server"] \in {"accept", "exited"}
         /\ \A p \in GcChildren : gcGot[p] # c) => EndIsVisible(c)

(* What a process has, by where it is; between accept() and the close() in *)
(* the parent the server has the connection, before fork() it alone.       *)
GcPhases ==
    /\ gcAt["server"] \notin {"none", "child"}
    /\ \A p \in GcChildren : gcAt[p] \in {"none", "child", "returned", "exited"}
    /\ \A p \in GcProcs : gcAt[p] \in {"none", "socket", "exited"} =>
           gcHolds[p] = {} /\ gcGot[p] = "none" /\ ~gcHandler[p]
    /\ gcAt["server"] \in {"bind", "accept", "returned"} => gcGot["server"] = "none"
    /\ gcAt["server"] \in {"fork", "parent"} =>
           /\ gcGot["server"] \in gcHolds["server"] \ {L}
           /\ mcAt[gcGot["server"]] = "accepted"
    /\ gcAt["server"] = "fork" => \A p \in GcChildren : gcGot[p] # gcGot["server"]

(* A client has one socket for the connection it is at work on, and at     *)
(* most one more for each call.                                            *)
McSockets ==
    \A c \in GcClients : /\ mcOpen[c] <= mcTries[c]
                         /\ mcAt[c] # "idle" => mcOpen[c] > 0

GcInv ==
    /\ GcTypeOK /\ HoldsOnlyItsOwn /\ EachChildItsClient /\ HandlerClosesListener
    /\ NobodyLeftWaiting /\ GcPhases /\ McSockets
=============================================================================
