---------------------------- MODULE SimpServer -----------------------------
(***************************************************************************)
(* The select()-driven TCP server src/src/simp_server.cxx, one thread, in  *)
(* its default build: non-blocking descriptors, Linux system calls.        *)
(*                                                                         *)
(* A step of the server is the code between two system calls that other    *)
(* parties can observe.  Its position is pc:                               *)
(*   "start"    main() up to and including listen()                        *)
(*   "loop"     head of run_server()'s while (1)                           *)
(*   "select"   setup_fd_set() and select()                                *)
(*   "accept"   select() reported the listening socket                     *)
(*   "process"  first loop of process_clients(), at client number idx      *)
(*   "reply"    handle_receive() between recv() and send()                 *)
(*   "erase"    the while (had_errors--) loop of process_clients()         *)
(*   "end"      End_App in main()                                          *)
(*   "exited"   the process has returned from main()                       *)
(*   "killed"   the process was ended by SIGPIPE                           *)
(*                                                                         *)
(* The rest of the state is the program's statics, under their own names,  *)
(* and the kernel's side of it (conn, backlog, peers' remaining moves).    *)
(* Left out: timing, statistics, verbosity and what is printed.            *)
(*                                                                         *)
(* An operator X_Fault is X with a plausible mistake; no definition uses   *)
(* it.  PROJECT.json names the property that each fault breaks.            *)
(***************************************************************************)
EXTENDS TcpConn, Sequences, FiniteSets, Functions

CONSTANTS ListenFd,      (* what socket() returns in main()                *)
          FreeFds,       (* further descriptors the process may still open *)
          MaxRwErrors,   (* max_rw_errors                                  *)
          Backlog,       (* DEF_BACKLOG                                    *)
          MaxConnects,   (* bound: connections that ever arrive            *)
          MaxSends       (* bound: messages the peers ever send            *)

ASSUME ServerAssumption ==
    /\ ListenFd \in Nat \ {0}
    /\ FreeFds \subseteq Nat \ {0}
    /\ IsFiniteSet(FreeFds)
    /\ ListenFd \notin FreeFds
    /\ MaxRwErrors \in Nat
    /\ Backlog \in Nat \ {0}
    /\ MaxConnects \in Nat
    /\ MaxSends \in Nat

NoSock == -1             (* socket() failed, or no descriptor at all       *)

VARIABLES pc, iret,
          sockfd, highest,         (* the listening socket, select()'s bound *)
          vInClients,              (* the vector of clients                  *)
          ListenSocket,            (* the fd_set, as select() left it        *)
          idx, had_errors,         (* locals of process_clients()            *)
          is_paused, do_echo,      (* toggled from the keyboard              *)
          msg_file,                (* descriptor of the data log             *)
          conn, backlog,           (* the kernel's side                      *)
          connects, sends          (* how much of the bounds is used up      *)

mainVars   == <<iret, sockfd, highest>>
tableVars  == <<vInClients, highest>>
passVars   == <<ListenSocket, idx, had_errors>>
keyVars    == <<is_paused, do_echo>>
peerVars   == <<connects, sends>>
kernelVars == <<conn, backlog, msg_file, peerVars>>
vars == <<pc, iret, sockfd, highest, vInClients, ListenSocket, idx, had_errors,
          is_paused, do_echo, msg_file, conn, backlog, connects, sends>>

(* A PINCLIENT: the fields of INCLIENT that decide anything.               *)
Client == [sock : FreeFds, had_rw_error : Nat]

LogClosed == -1          (* msg_file is NULL                               *)
LogFailed == -2          (* msg_file is the mark of a failed open or write *)

Tracked  == {c.sock : c \in Range(vInClients)}
Running  == pc \notin {"start", "exited", "killed"}

TypeOK ==
    /\ pc \in {"start", "loop", "select", "accept", "process", "reply",
               "erase", "end", "exited", "killed"}
    /\ iret \in {0, 1}
    /\ sockfd \in {NoSock, ListenFd}
    /\ highest \in {0, ListenFd} \cup FreeFds
    /\ vInClients \in Seq(Client)
    /\ ListenSocket \subseteq FreeFds \cup {ListenFd}
    /\ idx \in Nat \ {0}
    /\ had_errors \in Nat
    /\ is_paused \in BOOLEAN
    /\ do_echo \in BOOLEAN
    /\ msg_file \in {LogClosed, LogFailed} \cup FreeFds
    /\ conn \in [FreeFds -> Conn]
    /\ backlog \in 0..Backlog
    /\ connects \in 0..MaxConnects
    /\ sends \in 0..MaxSends

Init ==
    /\ pc = "start" /\ iret = 0
    /\ sockfd = NoSock /\ highest = 0
    /\ vInClients = <<>>
    /\ ListenSocket = {} /\ idx = 1 /\ had_errors = 0
    /\ is_paused = FALSE
    /\ do_echo \in BOOLEAN
    /\ msg_file = LogClosed
    /\ conn = [f \in FreeFds |-> NoConn]
    /\ backlog = 0 /\ connects = 0 /\ sends = 0

-----------------------------------------------------------------------------
(* main() before the loop.                                                 *)

(* A bad argument, or -?: main() returns without passing End_App.          *)
BadArgs ==
    /\ pc = "start"
    /\ pc' = "exited"
    /\ iret' \in {0, 1}
    /\ UNCHANGED <<sockfd, tableVars, passVars, keyVars, kernelVars>>

(* Host lookup, socket(), bind(), getsockname() or listen() fails.  After  *)
(* a failed lookup sockfd was never assigned: whatever End_App then closes *)
(* is not a descriptor of this model, and NoSock stands for it.            *)
StartupFails ==
    /\ pc = "start"
    /\ pc' = "end"
    /\ iret' = 1
    /\ \/ UNCHANGED <<sockfd, highest>>
       \/ sockfd' = ListenFd /\ highest' = ListenFd
    /\ UNCHANGED <<vInClients, passVars, keyVars, kernelVars>>

StartupDone ==
    /\ pc = "start"
    /\ pc' = "loop"
    /\ sockfd' = ListenFd
    /\ highest' = ListenFd
    /\ UNCHANGED <<iret, vInClients, passVars, keyVars, kernelVars>>

-----------------------------------------------------------------------------
(* run_server(): keyboard, pause, select.                                  *)

Keys == {"none", "e", "p", "esc"}

CheckKey(key) ==
    /\ pc = "loop"
    /\ do_echo' = IF key = "e" THEN ~do_echo ELSE do_echo
    /\ is_paused' = IF key = "p" THEN ~is_paused ELSE is_paused
    /\ pc' = IF key = "esc" THEN "end"
             ELSE IF is_paused' THEN "loop" ELSE "select"
    /\ UNCHANGED <<mainVars, vInClients, passVars, kernelVars>>

SelectSet_NoClients == {sockfd}

(* setup_fd_set(): the listening socket and every client.                  *)
SelectSet == {sockfd} \cup {f \in Tracked : f # 0}

IsReady(f) == IF f = sockfd THEN backlog > 0 ELSE Readable(conn[f])

(* What select(highest + 1, ...) leaves in the set: descriptors above      *)
(* highest are not looked at.                                              *)
SelectResult == {f \in SelectSet : f <= highest /\ IsReady(f)}

SelectReturns ==
    /\ pc = "select"
    /\ \A f \in SelectSet \ {sockfd} : IsOpen(conn[f])
    /\ ListenSocket' = SelectResult
    /\ idx' = 1
    /\ had_errors' = 0
    /\ pc' = CASE SelectResult = {}      -> "loop"
               [] sockfd \in SelectResult -> "accept"
               [] OTHER                   -> "process"
    /\ UNCHANGED <<mainVars, vInClients, keyVars, kernelVars>>

SelectFails ==
    /\ pc = "select"
    /\ iret' = 1
    /\ pc' = "end"
    /\ UNCHANGED <<sockfd, tableVars, passVars, keyVars, kernelVars>>

-----------------------------------------------------------------------------
(* Descriptors: the kernel hands out the lowest one that is free.          *)

Unused == {f \in FreeFds : ~IsOpen(conn[f]) /\ f # msg_file}
LowestUnused == {f \in Unused : \A g \in Unused : f <= g}

NewHighest_NeverRaised(f) == highest

NewHighest(f) == IF f > highest THEN f ELSE highest

NewClient_NotZeroed(f) == [sock |-> f, had_rw_error |-> MaxRwErrors + 1]

NewClient(f) == [sock |-> f, had_rw_error |-> 0]

(* accept() and add_client().  A descriptor already in the vector is not   *)
(* added a second time.                                                    *)
AcceptClient ==
    /\ pc = "accept"
    /\ backlog > 0
    /\ \E f \in LowestUnused :
          /\ conn' = [conn EXCEPT ![f] = NewConn]
          /\ IF f \in Tracked
             THEN UNCHANGED <<vInClients, highest>>
             ELSE /\ vInClients' = Append(vInClients, NewClient(f))
                  /\ highest' = NewHighest(f)
    /\ backlog' = backlog - 1
    /\ pc' = "loop"
    /\ UNCHANGED <<iret, sockfd, passVars, keyVars, msg_file, peerVars>>

(* accept() fails when the process is out of descriptors: a warning, and   *)
(* the connection stays in the backlog.                                    *)
AcceptFails ==
    /\ pc = "accept"
    /\ Unused = {}
    /\ pc' = "loop"
    /\ UNCHANGED <<mainVars, vInClients, passVars, keyVars, kernelVars>>

-----------------------------------------------------------------------------
(* process_clients(): read from every client the fd_set names.             *)

IsPending_AnyClient(k) == k \in DOMAIN vInClients /\ k >= idx

IsPending(k) ==
    /\ k \in DOMAIN vInClients
    /\ k >= idx
    /\ vInClients[k].sock # 0
    /\ vInClients[k].sock \in ListenSocket

IsNext(k) == IsPending(k) /\ \A j \in DOMAIN vInClients : IsPending(j) => k <= j

OverLimit_Reached(c) == c.had_rw_error >= MaxRwErrors
OverLimit(c) == c.had_rw_error > MaxRwErrors
OverClients  == {c \in Range(vInClients) : OverLimit(c)}

CountRwError_EachTime(k) ==
    /\ vInClients' = [vInClients EXCEPT ![k].had_rw_error = @ + 1]
    /\ had_errors' = had_errors + 1

(* The caller's side of a handle_receive() that returned 1.                *)
CountRwError(k) ==
    /\ vInClients' = [vInClients EXCEPT ![k].had_rw_error = @ + 1]
    /\ had_errors' = IF OverLimit(vInClients'[k]) THEN had_errors + 1
                                                  ELSE had_errors

(* write_msg_log(): the log is opened by the first message received, and   *)
(* given up for good if it cannot be opened or written.                    *)
WriteMsgLog ==
    LET opened == IF msg_file # LogClosed THEN {msg_file}
                  ELSE IF Unused = {} THEN {LogFailed}
                  ELSE LowestUnused
    IN  msg_file' \in opened \cup {LogFailed}

(* recv() returned data: n of the messages that have arrived.              *)
ReceiveData(k, n) ==
    LET f == vInClients[k].sock IN
    /\ pc = "process"
    /\ IsNext(k)
    /\ RecvResult(conn[f]) = "data"
    /\ n <= conn[f].in
    /\ conn' = [conn EXCEPT ![f] = AfterRecvData(@, n)]
    /\ WriteMsgLog
    /\ IF do_echo THEN pc' = "reply" /\ idx' = k
                  ELSE pc' = "process" /\ idx' = k + 1
    /\ UNCHANGED <<mainVars, vInClients, ListenSocket, had_errors, keyVars,
                   backlog, peerVars>>

(* recv() returned 0 or an error; EAGAIN alone is not counted.             *)
ReceiveNothing(k) ==
    LET f == vInClients[k].sock IN
    /\ pc = "process"
    /\ IsNext(k)
    /\ RecvResult(conn[f]) # "data"
    /\ conn' = [conn EXCEPT ![f] = AfterRecvNothing(@)]
    /\ IF RecvResult(conn[f]) = "again"
       THEN UNCHANGED <<vInClients, had_errors>>
       ELSE CountRwError(k)
    /\ idx' = k + 1
    /\ UNCHANGED <<pc, mainVars, ListenSocket, keyVars, msg_file, backlog,
                   peerVars>>

(* send() of the acknowledgement.  On a non-blocking descriptor a full     *)
(* send buffer is an error like any other.                                 *)
Reply ==
    LET f == vInClients[idx].sock IN
    /\ pc = "reply"
    /\ SendResult(conn[f]) # "sigpipe"
    /\ conn' = [conn EXCEPT ![f] = AfterSend(@)]
    /\ IF SendResult(conn[f]) = "ok"
       THEN UNCHANGED <<vInClients, had_errors>>
       ELSE CountRwError(idx)
    /\ idx' = idx + 1
    /\ pc' = "process"
    /\ UNCHANGED <<mainVars, ListenSocket, keyVars, msg_file, backlog, peerVars>>

(* The peer reset the connection after closing it: send() raises SIGPIPE,  *)
(* which simp_server neither ignores nor handles.  The kernel closes all   *)
(* the process had open.                                                   *)
ReplyKills ==
    /\ pc = "reply"
    /\ SendResult(conn[vInClients[idx].sock]) = "sigpipe"
    /\ pc' = "killed"
    /\ conn' = [f \in FreeFds |-> NoConn]
    /\ vInClients' = <<>>
    /\ sockfd' = NoSock
    /\ msg_file' = LogClosed
    /\ backlog' = 0
    /\ UNCHANGED <<iret, highest, passVars, keyVars, peerVars>>

FinishReads ==
    /\ pc = "process"
    /\ \A k \in DOMAIN vInClients : ~IsPending(k)
    /\ pc' = "erase"
    /\ UNCHANGED <<mainVars, vInClients, passVars, keyVars, kernelVars>>

IsFirstOver_First(k) == k = 1 /\ k \in DOMAIN vInClients

(* The first client over the limit, as the inner loop of the erase pass    *)
(* finds it.                                                               *)
IsFirstOver(k) ==
    /\ k \in DOMAIN vInClients
    /\ vInClients[k].sock # 0 /\ OverLimit(vInClients[k])
    /\ \A j \in 1..(k - 1) :
          ~(vInClients[j].sock # 0 /\ OverLimit(vInClients[j]))

EraseOffset_FromOne(k) == k

(* offset: how many entries with a descriptor were passed on the way.      *)
EraseOffset(k) == Cardinality({j \in 1..(k - 1) : vInClients[j].sock # 0})

(* vInClients.erase(vInClients.begin() + offset), counting from zero.      *)
WithoutOffset(s, offset) ==
    [j \in 1..(Len(s) - 1) |-> IF j <= offset THEN s[j] ELSE s[j + 1]]

EraseClient(k) ==
    LET f == vInClients[k].sock IN
    /\ pc = "erase"
    /\ had_errors > 0
    /\ IsFirstOver(k)
    /\ conn' = [conn EXCEPT ![f] = NoConn]
    /\ vInClients' = WithoutOffset(vInClients, EraseOffset(k))
    /\ had_errors' = had_errors - 1
    /\ UNCHANGED <<pc, mainVars, ListenSocket, idx, keyVars, msg_file, backlog,
                   peerVars>>

EraseDone ==
    /\ pc = "erase"
    /\ had_errors = 0
    /\ pc' = "loop"
    /\ UNCHANGED <<mainVars, vInClients, passVars, keyVars, kernelVars>>

-----------------------------------------------------------------------------
(* End_App: clear_client_list(), close the listening socket, return.  The  *)
(* log is closed by the C library's exit.                                  *)
ClosedAtEnd_None == {}
ClosedAtEnd == {f \in Tracked : f # 0}

EndApp ==
    /\ pc = "end"
    /\ conn' = [f \in FreeFds |-> IF f \in ClosedAtEnd THEN NoConn ELSE conn[f]]
    /\ vInClients' = <<>>
    /\ sockfd' = NoSock
    /\ msg_file' = LogClosed
    /\ backlog' = 0
    /\ pc' = "exited"
    /\ UNCHANGED <<iret, highest, passVars, keyVars, peerVars>>

-----------------------------------------------------------------------------
(* The remote peers and the network, between any two steps of the server.  *)

Listening == Running /\ pc # "end" /\ sockfd = ListenFd

PeerConnects ==
    /\ Listening
    /\ backlog < Backlog
    /\ connects < MaxConnects
    /\ backlog' = backlog + 1
    /\ connects' = connects + 1
    /\ UNCHANGED <<pc, mainVars, vInClients, passVars, keyVars, msg_file, conn,
                   sends>>

PeerDoes(f, can, does) ==
    /\ Running
    /\ can
    /\ conn' = [conn EXCEPT ![f] = does]
    /\ UNCHANGED <<pc, mainVars, vInClients, passVars, keyVars, msg_file,
                   backlog, connects>>

PeerSend(f) ==
    /\ sends < MaxSends
    /\ sends' = sends + 1
    /\ PeerDoes(f, CanPeerSend(conn[f]), PeerSends(conn[f]))

PeerRead(f) ==
    /\ UNCHANGED sends
    /\ PeerDoes(f, CanPeerRead(conn[f]), PeerReads(conn[f]))

PeerClose(f) ==
    /\ UNCHANGED sends
    /\ PeerDoes(f, CanPeerClose(conn[f]), PeerCloses(conn[f]))

PeerReset(f) ==
    /\ UNCHANGED sends
    /\ PeerDoes(f, CanPeerReset(conn[f]), PeerResets(conn[f]))

-----------------------------------------------------------------------------
Startup == BadArgs \/ StartupFails \/ StartupDone

Loop ==
    \/ \E key \in Keys : CheckKey(key)
    \/ SelectReturns
    \/ SelectFails
    \/ AcceptClient
    \/ AcceptFails

Process ==
    \/ \E k \in DOMAIN vInClients :
          \/ \E n \in 1..MaxIn : ReceiveData(k, n)
          \/ ReceiveNothing(k)
          \/ EraseClient(k)
    \/ Reply
    \/ ReplyKills
    \/ FinishReads
    \/ EraseDone

Server == Startup \/ Loop \/ Process \/ EndApp

Peers ==
    \/ PeerConnects
    \/ \E f \in FreeFds :
          PeerSend(f) \/ PeerRead(f) \/ PeerClose(f) \/ PeerReset(f)

(* The process is gone; nothing more happens.                              *)
Stopped == pc \in {"exited", "killed"}
Terminated == Stopped /\ UNCHANGED vars

Next == Server \/ Peers \/ Terminated

Spec == Init /\ [][Next]_vars

(* What the process does when nobody touches the keyboard.                 *)
Work ==
    \/ Startup \/ CheckKey("none")
    \/ SelectReturns \/ AcceptClient \/ AcceptFails
    \/ Process
    \/ EndApp

(* Its one thread is scheduled as long as it can run; peers and keyboard   *)
(* owe nothing.                                                            *)
FairSpec == Spec /\ WF_vars(Work)

-----------------------------------------------------------------------------
(* Safety.                                                                 *)

(* Every open connection of the process is in the vector exactly once, and *)
(* every entry is an open connection: add_client() never loses a socket,   *)
(* process_clients() erases the entry whose socket it closed, and the log  *)
(* file never shares a descriptor with a client.                           *)
TableMatchesKernel ==
    /\ Tracked = {f \in FreeFds : IsOpen(conn[f])}
    /\ \A j, k \in DOMAIN vInClients :
          vInClients[j].sock = vInClients[k].sock => j = k
    /\ msg_file \notin Tracked

(* select() looks at every client: highest, which only ever grows, bounds  *)
(* the descriptors of the vector and the listening socket.                 *)
HighestCovers ==
    /\ sockfd = ListenFd => ListenFd <= highest
    /\ \A f \in Tracked : f <= highest

(* had_errors counts exactly the clients that are over the limit, so the   *)
(* erase loop removes them all and none survives into the next pass.       *)
ErrorsAccounted ==
    IF pc \in {"process", "reply", "erase"}
    THEN Cardinality(OverClients) = had_errors
    ELSE OverClients = {}

(* What select() reported stays true until process_clients() has acted on  *)
(* it: recv() never finds a reported client empty, and none of them was    *)
(* closed or replaced in between.                                          *)
ReadinessHolds ==
    pc = "process" =>
        \A k \in DOMAIN vInClients :
            IsPending(k) => Readable(conn[vInClients[k].sock])

(* The error count of an entry is that of its own connection: it starts at *)
(* zero with each accepted connection, also when the descriptor is reused, *)
(* and misses no failed call.                                              *)
ErrorsBelongToConnection ==
    \A c \in Range(vInClients) : c.had_rw_error = conn[c.sock].fails

(* While the server runs it closes a connection only after more than       *)
(* max_rw_errors calls on it have failed.                                  *)
ClosedOnlyAfterErrors ==
    [][ \A f \in FreeFds :
          (IsOpen(conn[f]) /\ ~IsOpen(conn'[f])) =>
              \/ conn[f].fails > MaxRwErrors
              \/ pc = "end" \/ pc' = "killed" ]_vars

(* Liveness.  Both are about a server that is not left paused for ever.    *)

(* A connection whose peer has gone is closed, or the server ends.         *)
GonePeersAreDropped ==
    []<>~is_paused =>
        \A f \in FreeFds : PeerGone(conn[f]) ~> (~IsOpen(conn[f]) \/ Stopped)

(* What a client has sent is read, or the server ends: a readable client   *)
(* is not starved by the accept-or-process choice once connections stop    *)
(* arriving.                                                               *)
MessagesAreRead ==
    []<>~is_paused => \A f \in FreeFds : conn[f].in > 0 ~> conn[f].in = 0

(* The comment at the head of run_server's loop, "repeat forever... or     *)
(* until ESC key exit": no signal ends the server.                         *)
RunsUntilTold == pc # "killed"

-----------------------------------------------------------------------------
(* The inductive invariant: the safety properties above, and what they     *)
(* need to be preserved by every step.                                     *)

(* Where the program is tells what it has set up.                          *)
Phases ==
    /\ pc \in {"loop", "select", "accept", "process", "reply", "erase"} =>
          sockfd = ListenFd
    /\ (pc = "start" \/ sockfd = NoSock) => vInClients = <<>>

(* process_clients() has reached idx: nobody from there on is over the     *)
(* limit yet, so each client is counted at most once in a pass, and those  *)
(* after the one being answered are still as select() reported them.       *)
PassInv ==
    /\ pc \in {"process", "reply"} =>
          \A k \in DOMAIN vInClients : k >= idx => ~OverLimit(vInClients[k])
    /\ pc = "reply" =>
          /\ idx \in DOMAIN vInClients
          /\ \A k \in DOMAIN vInClients :
                (k > idx /\ vInClients[k].sock \in ListenSocket) =>
                    Readable(conn[vInClients[k].sock])

ServerInv ==
    /\ TypeOK
    /\ TableMatchesKernel
    /\ HighestCovers
    /\ ErrorsAccounted
    /\ ReadinessHolds
    /\ ErrorsBelongToConnection
    /\ Phases
    /\ PassInv

-----------------------------------------------------------------------------
(* The table the server keeps is a connection table: the listening socket  *)
(* says whether it is up, an entry's had_rw_error whether it is suspect.   *)

TablePhase == IF Stopped THEN "down"
              ELSE IF sockfd = ListenFd THEN "up" ELSE "idle"

Suspects == {c.sock : c \in {d \in Range(vInClients) : d.had_rw_error > 0}}

Table == INSTANCE ConnTable WITH
    Conns <- FreeFds, phase <- TablePhase, clients <- Tracked, suspects <- Suspects

(* simp_server keeps the promises of ConnTable: it admits a connection only *)
(* while it listens, drops it only after one of its calls has failed, and  *)
(* leaves none when it ends.                                               *)
ImplementsConnTable == Table!Spec
=============================================================================
