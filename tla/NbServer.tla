----------------------------- MODULE NbServer ------------------------------
(***************************************************************************)
(* The line server src/src/nbserver.cxx with the reader and the writer of  *)
(* src/src/sockhelp.c, one thread, select(), non-blocking, on Linux: every *)
(* line a client sends is sent back in upper case.                         *)
(*                                                                         *)
(* A step is the code between two system calls others can observe; pc is   *)
(*   "start"    main() up to and including listen()                        *)
(*   "select"   build_select_list() and select()                           *)
(*   "accept"   handle_new_connection(), before accept()                   *)
(*   "refuse"   handle_new_connection() with no slot for connection        *)
(*   "scan"     the loop of read_socks(), at slot listnum                  *)
(*   "gets"     the loop of sock_gets() on the client of slot listnum      *)
(*   "reply"    deal_with_data() with rlen > 0                             *)
(*   "drop"     deal_with_data() with rlen <= 0                            *)
(*   "keys"     check_keys()                                               *)
(*   "end"      NB_Server_End in main()                                    *)
(*   "exited"   the process has ended by itself                            *)
(*   "killed"   the process was ended by SIGPIPE                           *)
(*                                                                         *)
(* Statics and locals keep their names; connectlist is the fd field of the *)
(* entries.  What a client sends is a sequence of "text", a character      *)
(* other than LF, and "lf": conn counts them, input has them in order.     *)
(* Left out: timing, what is printed, and the client's address.            *)
(* X_Fault is X with a plausible mistake, as in SimpServer.                *)
(***************************************************************************)
EXTENDS TcpConn, Sequences, FiniteSets, Functions

CONSTANTS ListenFd,      (* what socket() returns in main()                *)
          FreeFds,       (* further descriptors the process may still open *)
          MaxConns,      (* MY_MX_CONNS                                    *)
          MaxLine,       (* MY_MX_RCV                                      *)
          Backlog,       (* the argument of listen()                       *)
          MaxConnects,   (* bound: connections that ever arrive            *)
          MaxSends       (* bound: characters the clients ever send        *)

ASSUME NbAssumption ==
    /\ ListenFd \in Nat \ {0}
    /\ FreeFds \subseteq Nat \ {0}
    /\ IsFiniteSet(FreeFds)
    /\ ListenFd \notin FreeFds
    /\ MaxConns \in Nat \ {0}
    /\ MaxLine \in Nat \ {0}
    /\ Backlog \in Nat \ {0}
    /\ MaxConnects \in Nat
    /\ MaxSends \in Nat

NoSock == -1

VARIABLES pc,
          sock, highsock,          (* the listening socket, select()'s bound *)
          connectlist,             (* the slots: a descriptor, or 0          *)
          socks,                   (* the fd_set, as select() left it        *)
          connection,              (* local of handle_new_connection()       *)
          listnum,                 (* local of read_socks()                  *)
          rlen, last_read,         (* total_count, last_read of sock_gets()  *)
          conn, input, backlog,    (* the kernel's side                      *)
          connects, sends          (* how much of the bounds is used up      *)

readVars   == <<rlen, last_read>>
passVars   == <<socks, connection, listnum>>
boundVars  == <<connects, sends>>
kernelVars == <<conn, input, backlog, boundVars>>
vars == <<pc, sock, highsock, connectlist, socks, connection, listnum, rlen,
          last_read, conn, input, backlog, connects, sends>>

Slots == 1..MaxConns
Chars == {"text", "lf"}

Tracked == {connectlist[k] : k \in Slots} \ {0}
Stopped == pc \in {"exited", "killed"}

TypeOK ==
    /\ pc \in {"start", "select", "accept", "refuse", "scan", "gets", "reply",
               "drop", "keys", "end", "exited", "killed"}
    /\ sock \in {NoSock, ListenFd}
    /\ highsock \in {0, ListenFd} \cup FreeFds
    /\ connectlist \in [Slots -> {0} \cup FreeFds]
    /\ socks \subseteq FreeFds \cup {ListenFd}
    /\ connection \in {0} \cup FreeFds
    /\ listnum \in Nat \ {0}
    /\ rlen \in 0..MaxLine
    /\ last_read \in {"none"} \cup Chars
    /\ conn \in [FreeFds -> Conn]
    /\ input \in [FreeFds -> Seq(Chars)]
    /\ \A f \in FreeFds : Len(input[f]) = conn[f].in
    /\ backlog \in 0..Backlog
    /\ connects \in 0..MaxConnects
    /\ sends \in 0..MaxSends

NoClients == [k \in Slots |-> 0]
NoConns   == [f \in FreeFds |-> NoConn]
NoInput   == [f \in FreeFds |-> <<>>]

Init ==
    /\ pc = "start"
    /\ sock = NoSock /\ highsock = 0
    /\ connectlist = NoClients
    /\ socks = {} /\ connection = 0 /\ listnum = 1
    /\ rlen = 0 /\ last_read = "none"
    /\ conn = NoConns /\ input = NoInput
    /\ backlog = 0 /\ connects = 0 /\ sends = 0

-----------------------------------------------------------------------------
(* main() before the loop.  Help and errors leave through NB_Server_End,   *)
(* with or without the socket.                                             *)

StartupEnds ==
    /\ pc = "start"
    /\ pc' = "end"
    /\ sock' \in {NoSock, ListenFd}
    /\ UNCHANGED <<highsock, connectlist, passVars, readVars, kernelVars>>

StartupDone ==
    /\ pc = "start"
    /\ pc' = "select"
    /\ sock' = ListenFd
    /\ highsock' = ListenFd
    /\ connectlist' = NoClients
    /\ UNCHANGED <<passVars, readVars, kernelVars>>

-----------------------------------------------------------------------------
(* run_nbserver(): build_select_list() and select().                       *)

RaisedHighsock_NotAtAll == {highsock}

(* The highest of highsock and the descriptors in the slots.               *)
RaisedHighsock ==
    {h \in {highsock} \cup Tracked : \A f \in {highsock} \cup Tracked : f <= h}

IsReady(f) == IF f = sock THEN backlog > 0 ELSE Readable(conn[f])

SelectResult(high) == {f \in {sock} \cup Tracked : f <= high /\ IsReady(f)}

SelectReturns ==
    /\ pc = "select"
    /\ highsock' \in RaisedHighsock
    /\ socks' = SelectResult(highsock')
    /\ listnum' = 1
    /\ pc' = CASE socks' = {}    -> "keys"
               [] sock \in socks' -> "accept"
               [] OTHER           -> "scan"
    /\ UNCHANGED <<sock, connectlist, connection, readVars, kernelVars>>

SelectFails ==
    /\ pc = "select"
    /\ highsock' \in RaisedHighsock
    /\ pc' = "end"
    /\ UNCHANGED <<sock, connectlist, passVars, readVars, kernelVars>>

-----------------------------------------------------------------------------
(* handle_new_connection().                                                *)

Unused == {f \in FreeFds : ~IsOpen(conn[f])}
LowestUnused == {f \in Unused : \A g \in Unused : f <= g}

FreeSlot_First == {1}

(* The first slot with no descriptor in it, if there is one.               *)
FreeSlot == {k \in Slots : connectlist[k] = 0 /\ \A j \in 1..(k - 1) : connectlist[j] # 0}

AcceptClient ==
    /\ pc = "accept"
    /\ backlog > 0
    /\ backlog' = backlog - 1
    /\ \E f \in LowestUnused :
          /\ conn' = [conn EXCEPT ![f] = NewConn]
          /\ \/ \E k \in FreeSlot :
                   /\ connectlist' = [connectlist EXCEPT ![k] = f]
                   /\ pc' = "scan"
                   /\ UNCHANGED connection
             \/ /\ FreeSlot = {}
                /\ connection' = f
                /\ pc' = "refuse"
                /\ UNCHANGED connectlist
    /\ UNCHANGED <<sock, highsock, socks, listnum, readVars, input, boundVars>>

(* The process exits on the spot, and the kernel closes what it had open.  *)
ProcessGone ==
    /\ sock' = NoSock
    /\ connectlist' = NoClients
    /\ conn' = NoConns
    /\ input' = NoInput
    /\ backlog' = 0
    /\ UNCHANGED <<highsock, passVars, readVars, boundVars>>

AcceptFails ==
    /\ pc = "accept"
    /\ pc' = "exited"
    /\ ProcessGone

Closed(f) ==
    /\ conn' = [conn EXCEPT ![f] = NoConn]
    /\ input' = [input EXCEPT ![f] = <<>>]

(* "Sorry, this server is too busy", and the connection is closed.  It was *)
(* accepted a moment ago, has seen no other call and cannot raise SIGPIPE. *)
Refuse ==
    /\ pc = "refuse"
    /\ Closed(connection)
    /\ connection' = 0
    /\ pc' = "scan"
    /\ UNCHANGED <<sock, highsock, connectlist, socks, listnum, readVars, backlog,
                   boundVars>>

-----------------------------------------------------------------------------
(* read_socks(): the slots whose descriptor select() left in the set.      *)

IsPending_AnyClient(k) == k \in Slots /\ k >= listnum /\ connectlist[k] # 0

IsPending(k) ==
    /\ k \in Slots
    /\ k >= listnum
    /\ connectlist[k] # 0
    /\ connectlist[k] \in socks

IsNext(k) == IsPending(k) /\ \A j \in Slots : IsPending(j) => k <= j

ReadSlot(k) ==
    /\ pc = "scan"
    /\ IsNext(k)
    /\ listnum' = k
    /\ rlen' = 0 /\ last_read' = "none"
    /\ pc' = "gets"
    /\ UNCHANGED <<sock, highsock, connectlist, socks, connection, kernelVars>>

FinishScan ==
    /\ pc = "scan"
    /\ \A k \in Slots : ~IsPending(k)
    /\ pc' = "keys"
    /\ UNCHANGED <<sock, highsock, connectlist, passVars, readVars, kernelVars>>

-----------------------------------------------------------------------------
(* sock_gets(): one recv() of one character per step.                      *)

Fd == connectlist[listnum]

Room_OneMore == rlen <= MaxLine

Room == rlen < MaxLine

(* A character other than LF is kept as long as there is room for it.      *)
GetsChar ==
    /\ pc = "gets"
    /\ RecvResult(conn[Fd]) = "data"
    /\ conn' = [conn EXCEPT ![Fd] = AfterRecvData(@, 1)]
    /\ input' = [input EXCEPT ![Fd] = Tail(@)]
    /\ last_read' = Head(input[Fd])
    /\ rlen' = IF last_read' = "text" /\ Room THEN rlen + 1 ELSE rlen
    /\ pc' = IF last_read' = "text" THEN "gets"
             ELSE IF rlen > 0 THEN "reply" ELSE "drop"
    /\ UNCHANGED <<sock, highsock, connectlist, passVars, backlog, boundVars>>

(* What sock_gets() makes of the end of the data, or of the connection: it *)
(* returns the number of characters it has.                                *)
GetsNothing == IF rlen > 0 THEN "reply" ELSE "drop"

GetsEnds ==
    /\ pc = "gets"
    /\ RecvResult(conn[Fd]) # "data"
    /\ conn' = [conn EXCEPT ![Fd] = AfterRecvNothing(@)]
    /\ pc' = IF RecvResult(conn[Fd]) = "error" THEN "drop" ELSE GetsNothing
    /\ UNCHANGED <<sock, highsock, connectlist, passVars, readVars, input, backlog,
                   boundVars>>

-----------------------------------------------------------------------------
(* deal_with_data() after sock_gets().                                     *)

(* What sock_write() returns is not looked at.                             *)
Reply ==
    /\ pc = "reply"
    /\ SendResult(conn[Fd]) # "sigpipe"
    /\ conn' = [conn EXCEPT ![Fd] = AfterSend(@)]
    /\ listnum' = listnum + 1
    /\ pc' = "scan"
    /\ UNCHANGED <<sock, highsock, connectlist, socks, connection, readVars, input,
                   backlog, boundVars>>

ReplyKills ==
    /\ pc = "reply"
    /\ SendResult(conn[Fd]) = "sigpipe"
    /\ pc' = "killed"
    /\ ProcessGone

FreedSlot == [connectlist EXCEPT ![listnum] = 0]

Drop ==
    /\ pc = "drop"
    /\ Closed(Fd)
    /\ connectlist' = FreedSlot
    /\ listnum' = listnum + 1
    /\ pc' = "scan"
    /\ UNCHANGED <<sock, highsock, socks, connection, readVars, backlog, boundVars>>

-----------------------------------------------------------------------------
(* check_keys(), and the end.                                              *)

CheckKeys(esc) ==
    /\ pc = "keys"
    /\ pc' = IF esc THEN "end" ELSE "select"
    /\ UNCHANGED <<sock, highsock, connectlist, passVars, readVars, kernelVars>>

(* main() closes the listening socket; the clients are left to the exit.   *)
EndApp ==
    /\ pc = "end"
    /\ pc' = "exited"
    /\ ProcessGone

-----------------------------------------------------------------------------
(* The clients and the network.                                            *)

Listening == pc \notin {"start", "end"} /\ sock = ListenFd

PeerConnects ==
    /\ Listening
    /\ backlog < Backlog
    /\ connects < MaxConnects
    /\ backlog' = backlog + 1
    /\ connects' = connects + 1
    /\ UNCHANGED <<pc, sock, highsock, connectlist, passVars, readVars, conn, input,
                   sends>>

PeerDoes(f, can, does) ==
    /\ can
    /\ conn' = [conn EXCEPT ![f] = does]
    /\ UNCHANGED <<pc, sock, highsock, connectlist, passVars, readVars, backlog,
                   connects>>

PeerSend(f, c) ==
    /\ sends < MaxSends
    /\ sends' = sends + 1
    /\ input' = [input EXCEPT ![f] = Append(@, c)]
    /\ PeerDoes(f, CanPeerSend(conn[f]), PeerSends(conn[f]))

PeerRead(f) ==
    /\ UNCHANGED <<input, sends>>
    /\ PeerDoes(f, CanPeerRead(conn[f]), PeerReads(conn[f]))

PeerClose(f) ==
    /\ UNCHANGED <<input, sends>>
    /\ PeerDoes(f, CanPeerClose(conn[f]), PeerCloses(conn[f]))

PeerReset(f) ==
    /\ UNCHANGED <<input, sends>>
    /\ PeerDoes(f, CanPeerReset(conn[f]), PeerResets(conn[f]))

-----------------------------------------------------------------------------
Accepting == AcceptClient \/ AcceptFails \/ Refuse
Reading   == GetsChar \/ GetsEnds \/ Reply \/ ReplyKills \/ Drop

Server ==
    \/ StartupEnds \/ StartupDone
    \/ SelectReturns \/ SelectFails
    \/ Accepting
    \/ \E k \in Slots : ReadSlot(k)
    \/ FinishScan
    \/ Reading
    \/ \E esc \in BOOLEAN : CheckKeys(esc)
    \/ EndApp

Peers ==
    \/ PeerConnects
    \/ \E f \in FreeFds :
          \/ \E c \in Chars : PeerSend(f, c)
          \/ PeerRead(f) \/ PeerClose(f) \/ PeerReset(f)

Terminated == Stopped /\ UNCHANGED vars

Next == Server \/ Peers \/ Terminated

Spec == Init /\ [][Next]_vars

(* What the process does when nobody presses ESC and select() works.       *)
Work ==
    \/ StartupDone \/ SelectReturns \/ Accepting
    \/ \E k \in Slots : ReadSlot(k)
    \/ FinishScan \/ Reading \/ CheckKeys(FALSE) \/ EndApp

FairSpec == Spec /\ WF_vars(Work)

-----------------------------------------------------------------------------
(* Properties.                                                             *)

(* Every open connection has exactly one slot, but for one that is being   *)
(* refused, which has none; and no slot has a closed descriptor.           *)
SlotsMatchKernel ==
    /\ {f \in FreeFds : IsOpen(conn[f])} = Tracked \cup ({connection} \ {0})
    /\ connection \notin Tracked
    /\ \A j, k \in Slots : connectlist[j] = connectlist[k] => j = k \/ connectlist[j] = 0

(* While read_socks() goes through the slots, those select() reported and  *)
(* it has yet to come to are still readable, also after a connection was   *)
(* accepted into a slot, refused, or dropped in the same pass: sock_gets() *)
(* never finds nothing and takes a quiet client for a lost one.            *)
SelectNotStale ==
    pc \in {"accept", "refuse", "scan"} =>
        \A k \in Slots : IsPending(k) => Readable(conn[connectlist[k]])

(* Liveness: what a client has sent is read or dropped with it, a full     *)
(* table or arriving connections notwithstanding.                          *)
InputIsRead ==
    \A f \in FreeFds : conn[f].in > 0 ~> conn[f].in = 0

(* Liveness: a slot is not kept by a client that has gone.                 *)
SlotsAreFreed ==
    \A f \in FreeFds : PeerGone(conn[f]) ~> ~IsOpen(conn[f])

(* "/* Connection closed, close this end and free up entry": a connection  *)
(* is dropped when it is lost, that is after a call on it has failed.      *)
LiveClientsKept ==
    [][ pc = "drop" => conn[Fd].fails > 0 ]_vars

-----------------------------------------------------------------------------
(* The inductive invariant.                                                *)

(* The slots behind the one being served are as select() reported them,    *)
(* and a connection accepted in the same pass is not among those.          *)
PassInv ==
    /\ pc = "accept" => socks \subseteq {sock} \cup Tracked
    /\ pc \in {"gets", "reply", "drop"} =>
          \A k \in Slots :
              (k > listnum /\ connectlist[k] # 0 /\ connectlist[k] \in socks)
                  => Readable(conn[connectlist[k]])

(* A descriptor that is handed out again has nothing left to read.         *)
NothingLeftOver ==
    \A f \in FreeFds : ~IsOpen(conn[f]) => input[f] = <<>>

Phases ==
    /\ ~Stopped /\ pc \notin {"start", "end"} => sock = ListenFd
    /\ pc = "start" => sock = NoSock
    /\ sock = NoSock => connectlist = NoClients
    /\ connection # 0 <=> pc = "refuse"
    /\ pc \in {"gets", "reply", "drop"} => listnum \in Slots /\ Fd \in Tracked

NbInv ==
    /\ TypeOK
    /\ SlotsMatchKernel
    /\ SelectNotStale
    /\ Phases
    /\ PassInv
    /\ NothingLeftOver

-----------------------------------------------------------------------------
(* The slots are a connection table.  A connection is suspect from the     *)
(* moment sock_gets() has come back from it with nothing.                  *)

TablePhase == IF Stopped THEN "down" ELSE IF sock = ListenFd THEN "up" ELSE "idle"

Suspects == IF pc = "drop" THEN {Fd} ELSE {}

Table == INSTANCE ConnTable WITH
    Conns <- FreeFds, phase <- TablePhase, clients <- Tracked, suspects <- Suspects

(* nbserver keeps the promises of ConnTable: one slot for each connection  *)
(* it admits, a refused one never admitted, none dropped but the one       *)
(* sock_gets() has just come back from.                                    *)
ImplementsConnTable == Table!Spec
=============================================================================
