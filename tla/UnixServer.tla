---------------------------- MODULE UnixServer -----------------------------
(***************************************************************************)
(* The echo server src/src/unix_server.cxx, one thread, select(), on       *)
(* Linux.  There the accepted sockets do not take over O_NONBLOCK from the *)
(* listening one, so that recv() and send() on them wait.                  *)
(*                                                                         *)
(* A step is the code between two system calls others can observe; uxAt is *)
(*   "start"    main() up to and including listen()                        *)
(*   "select"   the copy of master_set and select()                        *)
(*   "scan"     the loop over the descriptors, before it looks at uxI      *)
(*   "accept"   accept() on the listening socket                           *)
(*   "recv"     recv() on descriptor uxI                                   *)
(*   "send"     the echo of uxLen characters to descriptor uxI             *)
(*   "drop"     close_conn is TRUE for descriptor uxI                      *)
(*   "cleanup"  the loop behind the main one                               *)
(*   "exited"   the process has ended by itself                            *)
(*   "killed"   the process was ended by SIGPIPE                           *)
(*                                                                         *)
(* listen_sd is the constant UxListenFd once it is open.  Left out: the    *)
(* contents of the messages, what is printed, how long the timeout is.     *)
(* X_Fault is X with a plausible mistake.                                  *)
(***************************************************************************)
EXTENDS TcpConn, FiniteSets

CONSTANTS UxListenFd,      (* what socket() returns in main()              *)
          UxFds,           (* further descriptors the process may open     *)
          UxBuffer,        (* what buffer takes, in characters             *)
          UxBacklog,       (* the argument of listen()                     *)
          UxMaxConnects,   (* bound: connections that ever arrive          *)
          UxMaxSends       (* bound: characters the clients ever send      *)

ASSUME UxAssumption ==
    /\ UxListenFd \in Nat
    /\ UxFds \subseteq Nat
    /\ IsFiniteSet(UxFds)
    /\ UxListenFd \notin UxFds
    /\ UxBuffer \in Nat \ {0}
    /\ UxBacklog \in Nat \ {0}
    /\ UxMaxConnects \in Nat
    /\ UxMaxSends \in Nat

VARIABLES uxAt,
          master_set, working_set, max_sd,
          uxI, desc_ready,           (* locals of the scan                 *)
          end_server,
          uxLen,                     (* len                                *)
          uxConn, uxQueue,           (* the kernel: connections, backlog   *)
          uxConnects, uxSends        (* how much of the bounds is used up  *)

uxScanVars   == <<working_set, uxI, desc_ready>>
uxKernelVars == <<uxConn, uxQueue, uxConnects, uxSends>>
uxVars == <<uxAt, master_set, working_set, max_sd, uxI, desc_ready, end_server, uxLen,
            uxConn, uxQueue, uxConnects, uxSends>>

UxAll     == {UxListenFd} \cup UxFds
UxStopped == uxAt \in {"exited", "killed"}
UxUp      == uxAt \notin {"start", "exited", "killed"}

UxTypeOK ==
    /\ uxAt \in {"start", "select", "scan", "accept", "recv", "send", "drop", "cleanup",
                 "exited", "killed"}
    /\ master_set \subseteq UxAll
    /\ working_set \subseteq UxAll
    /\ max_sd \in {0} \cup UxAll
    /\ uxI \in Nat
    /\ desc_ready \in Nat
    /\ end_server \in BOOLEAN
    /\ uxLen \in 0..UxBuffer
    /\ uxConn \in [UxFds -> Conn]
    /\ uxQueue \in 0..UxBacklog
    /\ uxConnects \in 0..UxMaxConnects
    /\ uxSends \in 0..UxMaxSends

UxInit ==
    /\ uxAt = "start"
    /\ master_set = {} /\ working_set = {} /\ max_sd = 0
    /\ uxI = 0 /\ desc_ready = 0 /\ end_server = FALSE /\ uxLen = 0
    /\ uxConn = [f \in UxFds |-> NoConn]
    /\ uxQueue = 0 /\ uxConnects = 0 /\ uxSends = 0

-----------------------------------------------------------------------------
(* main() before the loop.                                                 *)

(* Help, a bad argument, or a call that fails.                             *)
UxStartupEnds ==
    /\ uxAt = "start"
    /\ uxAt' = "exited"
    /\ UNCHANGED <<master_set, max_sd, end_server, uxLen, uxScanVars, uxKernelVars>>

UxStartupDone ==
    /\ uxAt = "start"
    /\ uxAt' = "select"
    /\ master_set' = {UxListenFd}
    /\ max_sd' = UxListenFd
    /\ UNCHANGED <<end_server, uxLen, uxScanVars, uxKernelVars>>

-----------------------------------------------------------------------------
(* The copy of the set, and select().                                      *)

UxIsReady(f) == IF f = UxListenFd THEN uxQueue > 0 ELSE Readable(uxConn[f])

UxReady == {f \in master_set : f <= max_sd /\ UxIsReady(f)}

UxSelectReturns ==
    /\ uxAt = "select"
    /\ UxReady # {}
    /\ working_set' = UxReady
    /\ desc_ready' = Cardinality(working_set')
    /\ uxI' = 0
    /\ uxAt' = "scan"
    /\ UNCHANGED <<master_set, max_sd, end_server, uxLen, uxKernelVars>>

(* It fails, or nothing happens until the timeout is over.                 *)
UxSelectEnds(fails) ==
    /\ uxAt = "select"
    /\ fails \/ UxReady = {}
    /\ uxAt' = "cleanup"
    /\ UNCHANGED <<master_set, max_sd, end_server, uxLen, uxScanVars, uxKernelVars>>

-----------------------------------------------------------------------------
(* The scan, as long as descriptors that are ready are to be found.        *)

UxToVisit == {f \in working_set : f >= uxI}

UxIsNext(f) == f \in UxToVisit /\ f <= max_sd /\ \A g \in UxToVisit : f <= g

UxVisit(f) ==
    /\ uxAt = "scan"
    /\ desc_ready > 0
    /\ UxIsNext(f)
    /\ uxI' = f
    /\ desc_ready' = desc_ready - 1
    /\ uxAt' = IF f = UxListenFd THEN "accept" ELSE "recv"
    /\ UNCHANGED <<master_set, max_sd, working_set, end_server, uxLen, uxKernelVars>>

UxScanEnds ==
    /\ uxAt = "scan"
    /\ desc_ready = 0 \/ ~\E f \in working_set : UxIsNext(f)
    /\ uxAt' = IF end_server THEN "cleanup" ELSE "select"
    /\ UNCHANGED <<master_set, max_sd, end_server, uxLen, uxScanVars, uxKernelVars>>

UxGoesOn ==
    /\ uxAt' = "scan"
    /\ uxI' = uxI + 1

-----------------------------------------------------------------------------
(* The listening socket: accept() until there is nothing to accept.        *)

UxUnused == {f \in UxFds : ~IsOpen(uxConn[f])}
UxLowestUnused == {f \in UxUnused : \A g \in UxUnused : f <= g}

RaisedMax(f) == IF f > max_sd THEN f ELSE max_sd

UxAccepts ==
    /\ uxAt = "accept"
    /\ uxQueue > 0
    /\ uxQueue' = uxQueue - 1
    /\ \E f \in UxLowestUnused :
          /\ uxConn' = [uxConn EXCEPT ![f] = NewConn]
          /\ master_set' = master_set \cup {f}
          /\ max_sd' = RaisedMax(f)
    /\ UNCHANGED <<uxAt, end_server, uxLen, uxScanVars, uxConnects, uxSends>>

(* EWOULDBLOCK, or a failure that ends the server after this scan.         *)
UxAcceptsNothing(fails) ==
    /\ uxAt = "accept"
    /\ fails \/ uxQueue = 0
    /\ end_server' = (end_server \/ fails)
    /\ UxGoesOn
    /\ UNCHANGED <<master_set, max_sd, working_set, desc_ready, uxLen, uxKernelVars>>

-----------------------------------------------------------------------------
(* A client: recv() and send() in turns, until recv() ends it.             *)

UxRecvLen(c) == IF c.in < UxBuffer THEN c.in ELSE UxBuffer

UxReceives ==
    /\ uxAt = "recv"
    /\ RecvResult(uxConn[uxI]) = "data"
    /\ uxLen' = UxRecvLen(uxConn[uxI])
    /\ uxConn' = [uxConn EXCEPT ![uxI] = AfterRecvData(@, uxLen')]
    /\ uxAt' = "send"
    /\ UNCHANGED <<master_set, max_sd, end_server, uxScanVars, uxQueue, uxConnects, uxSends>>

(* End of file or an error: close_conn is TRUE.                            *)
UxRecvEnds ==
    /\ uxAt = "recv"
    /\ RecvResult(uxConn[uxI]) \in {"eof", "error"}
    /\ uxConn' = [uxConn EXCEPT ![uxI] = AfterRecvNothing(@)]
    /\ uxAt' = "drop"
    /\ UNCHANGED <<master_set, max_sd, end_server, uxLen, uxScanVars, uxQueue, uxConnects,
                   uxSends>>

(* send() waits until the whole echo is in the buffer.                     *)
UxFits(c) == c.st \in {"open", "fin"} /\ c.out + uxLen <= MaxOut

UxEchoes ==
    /\ uxAt = "send"
    /\ UxFits(uxConn[uxI])
    /\ uxConn' = [uxConn EXCEPT ![uxI].out = @ + uxLen]
    /\ uxLen' = 0
    /\ uxAt' = "recv"
    /\ UNCHANGED <<master_set, max_sd, end_server, uxScanVars, uxQueue, uxConnects, uxSends>>

UxEchoFails ==
    /\ uxAt = "send"
    /\ uxConn[uxI].st = "reset"
    /\ uxConn' = [uxConn EXCEPT ![uxI] = AfterSend(@)]
    /\ uxLen' = 0
    /\ uxAt' = "drop"
    /\ UNCHANGED <<master_set, max_sd, end_server, uxScanVars, uxQueue, uxConnects, uxSends>>

(* The process ends, and the kernel closes what it had open.               *)
UxGone ==
    /\ master_set' = {}
    /\ uxConn' = [f \in UxFds |-> NoConn]
    /\ uxQueue' = 0
    /\ UNCHANGED <<max_sd, end_server, uxLen, uxScanVars, uxConnects, uxSends>>

UxEchoKills ==
    /\ uxAt = "send"
    /\ uxConn[uxI].st = "dead"
    /\ uxAt' = "killed"
    /\ UxGone

ClearedSet_Fault == master_set

ClearedSet == master_set \ {uxI}

(* The highest descriptor left, looked for only when the highest went.     *)
LoweredMax_Fault(set) == {max_sd}

LoweredMax(set) ==
    IF uxI = max_sd THEN {m \in set : m <= max_sd /\ \A g \in set : g <= m} ELSE {max_sd}

UxDrops ==
    /\ uxAt = "drop"
    /\ uxConn' = [uxConn EXCEPT ![uxI] = NoConn]
    /\ master_set' = ClearedSet
    /\ max_sd' \in LoweredMax(master_set')
    /\ UxGoesOn
    /\ UNCHANGED <<working_set, desc_ready, end_server, uxLen, uxQueue, uxConnects, uxSends>>

(* The loop over all descriptors of the set, and the return of main().     *)
UxCleanup ==
    /\ uxAt = "cleanup"
    /\ uxAt' = "exited"
    /\ UxGone

-----------------------------------------------------------------------------
(* The clients and the network.                                            *)

UxPeerConnects ==
    /\ UxUp
    /\ uxQueue < UxBacklog
    /\ uxConnects < UxMaxConnects
    /\ uxQueue' = uxQueue + 1
    /\ uxConnects' = uxConnects + 1
    /\ UNCHANGED <<uxAt, master_set, max_sd, end_server, uxLen, uxScanVars, uxConn, uxSends>>

UxPeerDoes(f, can, does) ==
    /\ can
    /\ uxConn' = [uxConn EXCEPT ![f] = does]
    /\ UNCHANGED <<uxAt, master_set, max_sd, end_server, uxLen, uxScanVars, uxQueue,
                   uxConnects>>

UxPeerSend(f) ==
    /\ uxSends < UxMaxSends
    /\ uxSends' = uxSends + 1
    /\ UxPeerDoes(f, CanPeerSend(uxConn[f]), PeerSends(uxConn[f]))

UxPeerRead(f) ==
    /\ UNCHANGED uxSends
    /\ UxPeerDoes(f, CanPeerRead(uxConn[f]), PeerReads(uxConn[f]))

UxPeerClose(f) ==
    /\ UNCHANGED uxSends
    /\ UxPeerDoes(f, CanPeerClose(uxConn[f]), PeerCloses(uxConn[f]))

UxPeerReset(f) ==
    /\ UNCHANGED uxSends
    /\ UxPeerDoes(f, CanPeerReset(uxConn[f]), PeerResets(uxConn[f]))

-----------------------------------------------------------------------------
UxClientIO == UxReceives \/ UxRecvEnds \/ UxEchoes \/ UxEchoFails \/ UxEchoKills \/ UxDrops

UxServer ==
    \/ UxStartupEnds \/ UxStartupDone
    \/ UxSelectReturns
    \/ \E fails \in BOOLEAN : UxSelectEnds(fails) \/ UxAcceptsNothing(fails)
    \/ \E f \in UxAll : UxVisit(f)
    \/ UxScanEnds
    \/ UxAccepts
    \/ UxClientIO
    \/ UxCleanup

UxPeers ==
    \/ UxPeerConnects
    \/ \E f \in UxFds : UxPeerSend(f) \/ UxPeerRead(f) \/ UxPeerClose(f) \/ UxPeerReset(f)

UxNext == UxServer \/ UxPeers

UxSpec == UxInit /\ [][UxNext]_uxVars

(* What the process does when no call but recv() and send() fails.         *)
UxWork ==
    \/ UxStartupDone \/ UxSelectReturns \/ UxSelectEnds(FALSE)
    \/ \E f \in UxAll : UxVisit(f)
    \/ UxScanEnds \/ UxAccepts \/ UxAcceptsNothing(FALSE)
    \/ UxClientIO \/ UxCleanup

UxFairSpec == UxSpec /\ WF_uxVars(UxWork)

-----------------------------------------------------------------------------
(* The inductive invariant, and what is made of it.                        *)

(* master_set is the listening socket and every open connection, before,   *)
(* during and after a scan.                                                *)
SetMatchesKernel ==
    master_set = {f \in UxFds : IsOpen(uxConn[f])} \cup (IF UxUp THEN {UxListenFd} ELSE {})

(* max_sd is the highest descriptor of the set, so that select(), the scan *)
(* and the last loop miss none; the loop that lowers it always stops.      *)
MaxIsHighest ==
    IF UxUp THEN max_sd \in master_set /\ \A f \in master_set : f <= max_sd
            ELSE master_set = {}

(* Those the scan has yet to come to.                                      *)
UxPending == {f \in working_set : f > uxI \/ (f = uxI /\ uxAt = "scan")}

(* They are in the set and still ready, whatever was accepted or closed    *)
(* before them, and desc_ready is how many they are: the first recv() on a *)
(* descriptor never waits, and the scan stops neither early nor late.      *)
ScanFindsReady ==
    uxAt \in {"scan", "accept", "recv", "send", "drop"} =>
        /\ UxPending \subseteq master_set
        /\ \A f \in UxPending : UxIsReady(f)
        /\ desc_ready = Cardinality(UxPending)

(* recv(), send() and close() are for an open connection.                  *)
ServesOpen ==
    /\ uxAt \in {"recv", "send", "drop"} => uxI \in UxFds /\ IsOpen(uxConn[uxI])
    /\ uxAt = "accept" => uxI = UxListenFd
    /\ uxAt = "send" => uxLen > 0

UnixInv ==
    /\ UxTypeOK
    /\ SetMatchesKernel
    /\ MaxIsHighest
    /\ ScanFindsReady
    /\ ServesOpen

(* "All of the sockets for the incoming connections will also be           *)
(* non-blocking": recv() comes back, with EWOULDBLOCK if nothing is there, *)
(* and the server gets on to its other clients.                            *)
RecvReturns == uxAt = "recv" ~> uxAt # "recv"

-----------------------------------------------------------------------------
(* The descriptors of the set are a connection table.                      *)

UxPhase == IF UxStopped THEN "down" ELSE IF uxAt = "start" THEN "idle" ELSE "up"

UxClients == master_set \ {UxListenFd}

UxSuspects == IF uxAt = "drop" THEN {uxI} ELSE {}

UxTable == INSTANCE ConnTable WITH
    Conns <- UxFds, phase <- UxPhase, clients <- UxClients, suspects <- UxSuspects

(* unix_server keeps the promises of ConnTable: a connection is in the set *)
(* from its accept() on, and leaves it only after a call on it has failed. *)
UxImplementsConnTable == UxTable!Spec
=============================================================================
