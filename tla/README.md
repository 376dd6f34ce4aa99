# A verification project for tcp-tests

tcp-tests is a collection of small socket programs: TCP and UDP clients and
servers, written between 2003 and 2017 to try out `select()`, non-blocking
descriptors, reconnection and the FlightGear multiplayer protocol. They share
little code but much structure: a process with one thread runs an endless loop
of keyboard, `select()` and `recv`/`send`, keeps a table of peers, counts
errors, and must not lose, leak or starve a peer whatever the other side and
the kernel do between two of its system calls.

This directory holds TLA+ models of those programs, the TLC configurations
that check them on small instances, and TLAPS proofs of what holds for every
instance. All paths below are relative to the repository.

## 1. Inventory

Built on Unix by CMake:

| component | source | state | operations | hard behaviour | what makes it correct |
|---|---|---|---|---|---|
| simp_server | `src/simp_server.cxx` | vector of clients with error counts, `highest`, the `fd_set`, pause and echo switches, the data log | start-up, keys, `select`, accept, receive, reply, erase, End_App | accept-or-process choice, descriptors reused, errors counted in one loop and erased in another, descriptor limit, SIGPIPE | table = open connections, nobody is dropped without cause, the gone are dropped, messages are read |
| simp_client | `src/simp_client.cxx` | socket, `not_connected`, `wait_4_reply`, error counts | connect with retries, send, receive, keys | stop-and-wait with no timeout, reconnect after errors, keys that break the protocol | one message in flight, it goes on after a reconnect |
| nbserver | `src/nbserver.cxx` | `connectlist[5]`, `highsock`, `socks` | accept into a slot, refuse, read a line and echo it in upper case | slot and descriptor reuse inside a pass, a full table, partial and empty lines | table = open connections, lines are echoed, a live client is not dropped |
| nbclient | `src/nbclient.cxx` | wait flag, counts of errors and of null reads | send a line, read without blocking, pauses, keys | the end of the connection is a null read, counted and waited over | a client whose server has gone comes to an end |
| unix_server | `src/unix_server.cxx` | `master_set`, `max_sd`, `timeout` | accept until EWOULDBLOCK, receive and echo until EWOULDBLOCK, drop | set and `max_sd` change inside the scan, descriptors reused in it, accepted sockets that block, a timeout `select()` modifies | set = open connections, the scan finds what was reported, no waiting in one client |
| unix_client | `src/unix_client.cxx` | none | connect, send, receive once | the echo in pieces | takes nothing but its echo |
| udpserver, udpclient | `src/udpserver.cxx`, `src/udpclient.cxx` | wait flag, turn, message counter | datagram echo, retry, keys | loss, repetition, delay, an address length that a failing call changes | reply matched to send, a wait ends if nothing is lost |
| udpserver2, udpclient2 | `src/udpserver2.cxx`, `src/udpclient2.cxx` | a 32-bit count turned to network order in place | add and answer | loss blocks, repetition counts twice, wrap-around | the count is what was asked for, answers are true |
| udp-recv, udp-send | `src/udp-recv.cxx`, `src/udp-send.cxx` | the log, opened late | receive, log, echo until a key | several runs on one log, an interrupt, a failing log | the log keeps what came, in order |
| ebsocket | `src/ebsocket.c` | one listening socket kept between calls | connect, listen once or again, give up, read and write fully | every call may fail, the kept socket | one owner for each descriptor, nothing leaks unseen |
| sockhelp | `src/sockhelp.c` | none | `sock_read`, `sock_write`, `sock_gets`, `get_connection`, `make_connection` | partial transfers, EINTR, EAGAIN, fork | every byte once, each child its client |

Built on Windows only: getlocalip, udp-wrecv, udp-wsend, recvfrom, sendto,
WSAenum, WSAError, GetTcpTable. In the tree but built nowhere: the earlier C
versions of the servers and clients (`udpserver.c`, `udpserver1.cxx`,
`udpserver-ok.c` and their clients run once each, one datagram and the end),
tcpserver.c (one connection, one timed read, one echo), httpget (one request,
ten passes of `select` and read), mpserver and mpclient (positions of
FlightGear, a table of callsigns, a raw log one writes and the other sends),
fgmp_msg (lists a raw log), fg_telnet and fgio, metar, http_server.
PROJECT.json lists each with its status.

The programs meet only over sockets: a client and a server as two processes,
with the kernel's buffers between them. Inside a process there is one thread;
what interleaves with it is the kernel (arriving connections, data, FIN, RST),
the keyboard, and the limits of the process (descriptors, buffers).

## 2. Plan

Modules, in order; each with an MC module, runs, faults, and a proof module
where it says so.

1. `TcpConn` (kernel side of a connection), `SimpServer`, `ConnTable` (what a
   server promises of its table), `SimpServerProofs` - **done**.
2. `SimpClient`, and `SimpEcho` that composes it with `SimpServer`:
   stop-and-wait, loss of the connection, the keys that break it;
   `SimpClientProofs`, `SimpEchoProofs` - **done**.
3. `NbServer` with the line reader of sockhelp: second implementation of
   `ConnTable`; slots, refusal, empty and partial lines; `NbServerProofs` -
   **done**.
4. `UnixServer`: third implementation of `ConnTable`; `UnixClient` - **done**.
5. `UdpCounter` (udpserver2 and udpclient2) refining `Accumulator`; `UdpEcho`
   (udpserver and udpclient); `UdpOnce` (the earlier editions);
   `DatagramProofs` for the three - **done**.
6. `Transfer`, `GetConnection`, `EbSocket` - **done**.
7. `MpServer`, `RawFile`, `UdpRecv` with `RecordProofs` for the three;
   `HttpGet`, `NbClient`, `TcpServer` - **done**. `MCDatagrams` and `MCStreams`
   check everything from item 4 on, and `MCStreams` the client of item 2 by
   itself; `StreamProofs` has the proofs for the stream programs of items 4, 6
   and 7.
8. To come: fgio's answers with fg_telnet; the timeout of unix_server with a
   clock; an abstract specification of stop and wait that `SimpEcho` and
   `UdpEcho` both implement.

## 3. Modules

`X_Fault` in a module is the definition `X` with a plausible mistake; nothing
uses it in the model, and putting it in the place of `X` makes TLC report the
property PROJECT.json names with it. (`X_NotAtAll` and the like are the same in
the modules that have several.)

### TcpConn

The kernel's end of one TCP connection as a record: its state (`open`, `fin`
when the peer's FIN has arrived, `reset` when an RST arrived whose error is
still to be reported, `dead` when it has been, or when the RST came after the
FIN), the messages not yet read, those sent and not yet taken by the peer, and
how many calls the process saw fail on it. `RecvResult` and `AfterRecvNothing`,
`SendResult` and `AfterSend` are what `recv()` and `send()` return and leave
behind; `Readable` is what `select()` reports. The count of failed calls is an
observer's, there to state properties. The module is external: it is modelled
from the calls the programs make, on Linux.

### SimpServer

`src/simp_server.cxx` in its default build. A step is the code between two
system calls others can observe; `pc` names the position and the comment at
the head of the module lists the positions. The statics keep their names
(`vInClients`, `highest`, `ListenSocket`, `is_paused`, `do_echo`, `msg_file`),
so do the locals of `process_clients()` (`idx` for the iterator,
`had_errors`). The correspondence:

| actions | code |
|---|---|
| `BadArgs`, `StartupFails`, `StartupDone` | `main()` to the call of `run_server()` |
| `CheckKey` | `check_key()` and the pause test |
| `SelectReturns`, `SelectFails` | `setup_fd_set()`, `select()` and the two branches after it |
| `AcceptClient`, `AcceptFails` | `accept()`, `add_client()` |
| `ReceiveData`, `ReceiveNothing`, `FinishReads` | the first loop of `process_clients()`, `handle_receive()` up to the reply, `write_msg_log()` |
| `Reply`, `ReplyKills` | the reply in `handle_receive()` and its error |
| `EraseClient`, `EraseDone` | the `while (had_errors--)` loop |
| `EndApp` | End_App, `clear_client_list()` |
| `PeerConnects`, `PeerSend`, `PeerRead`, `PeerClose`, `PeerReset` | the other side, at any point |

A message is one unit: `recv()` may return several that have arrived, and the
server answers once per `recv()`. Descriptors are numbers because the code
compares them (`highest`), and the kernel gives out the lowest free one. The
data log takes a descriptor as the code does.

### SimpClient

`src/simp_client.cxx` in its default build, against any server. `end` is the
kernel's end of the one socket; `not_connected`, `wait_4_reply`,
`recv_errors`, `is_paused` and the two options are the program's own.

| actions | code |
|---|---|
| `BadArgs`, `HostLookup` | `main()` |
| `SocketFails`, `ConnectFails`, `Connected` | `do_client_connect()` |
| `Reconnect`, `Throttle`, `Pass` | head of `run_client()`'s loop: reconnection, the throttle, keys, pause |
| `Write`, `WriteFails`, `WriteKills` | the `write()` and its two branches, SIGPIPE |
| `SelectReturns`, `SelectFails` | `select()` |
| `ReceiveData`, `ReceiveReset`, `ReceiveGlitch`, `ReceiveEnd` | `recv()`: data, an error of the connection, an error of the call alone, end of file |
| `EndApp` | End_App |
| `ServerTakes`, `ServerReplies`, `ServerCloses`, `ServerResets` | the other side |

`check_key()` is called at several places between two system calls; a key is a
parameter of the action, and the place matters once: an `r` typed between the
`write()` and `wait_4_reply = 1` has no effect (`Write`).

### SimpEcho

Both processes and the TCP connection between them. The server part is
`SimpServer` by EXTENDS, the client part an instance of `SimpClient` with its
own variables; actions of either program are theirs unchanged (`ServerStep`,
`ClientStep`), and the peers of the two modules are joined: what the client's
end gives out is what the server's end takes in (`DeliverRequest`,
`DeliverReply`). `link` follows the server's end from the backlog to a
descriptor to its close; `toServer` and `toClient` hold what an end that was
closed still has to deliver, data and then FIN, or an RST when it was closed
with something unread. A kernel answers data for a closed socket with an RST.

### NbServer

`src/nbserver.cxx` with `sock_gets()` of `src/sockhelp.c` and the outcome of
its `sock_write()`. The slots of `connectlist` are a function from slot
numbers to descriptors, 0 for an empty one, as in the code. What a client sends
is a sequence of `"text"` and `"lf"`, since the code tells no more apart; one
`recv()` of one character is one step, so everything a client may do between
two characters is there.

| actions | code |
|---|---|
| `StartupEnds`, `StartupDone` | `main()` to the call of `run_nbserver()` |
| `SelectReturns`, `SelectFails` | `build_select_list()`, `select()`, the branches after it |
| `AcceptClient`, `AcceptFails`, `Refuse` | `handle_new_connection()` |
| `ReadSlot`, `FinishScan` | the loop of `read_socks()` |
| `GetsChar`, `GetsEnds` | `sock_gets()` |
| `Reply`, `ReplyKills`, `Drop` | `deal_with_data()` |
| `CheckKeys`, `EndApp` | `check_keys()`, NB_Server_End |

### ConnTable

What a server of this repository promises of its table of connections, without
saying how the table is stored: a connection is admitted only while the server
is up, it becomes suspect when a call on it fails, only a suspect is dropped
while the server runs, and none is left when it has ended. `SimpServer`
implements it with `had_rw_error > 0` as "suspect", `NbServer` with "the client
`sock_gets()` has come back from empty-handed", `UnixServer` with the connection
it is about to drop.

### UnixServer, UnixClient

`src/unix_server.cxx`: `working_set` is what `select()` left in it, `uxI` the
loop's `i`. The call that blocks is in the model as what it is: `recv()` on an
accepted socket has no step while nothing is there, so the server stays in it.

| actions | code |
|---|---|
| `UxStartupEnds`, `UxStartupDone` | `parse_args()` and `main()` to the loop |
| `UxSelectReturns`, `UxSelectEnds` | the copy of the set, `select()`, its error and its timeout |
| `UxVisit`, `UxScanEnds` | the `for` over `i` with `desc_ready` |
| `UxAccepts`, `UxAcceptsNothing` | the `do` around `accept()` |
| `UxReceives`, `UxRecvEnds`, `UxEchoes`, `UxEchoFails`, `UxEchoKills` | the loop of `recv()` and `send()` |
| `UxDrops` | `close_conn`: the set and the walk of `max_sd` down |
| `UxCleanup` | the closing of all at the end |

`UnixClient` is `src/unix_client.cxx` against a server that may echo what it
has read in one piece or in several; lengths are counted, the zero included.

### NbClient, HttpGet, TcpServer

Each is one program with one connection of `TcpConn` and any peer. `NbClient`
answers like nbserver, whole or by halves; how much time has passed since a
null read is left open. `HttpGet` counts pieces sent, received and logged, and
records in `hgWhy` why it left its loop. `TcpServer` reads until its buffer is
full: only the first `read()` is known not to wait.

### Transfer

`sock_write()` and `sock_read()` of `src/sockhelp.c`, `tcp_write()` and
`tcp_readFully()` of `src/ebsocket.c`: a writer and a reader, call after call
with counts of their own, over a stream of bounded capacity that may be closed
or broken. Each step is one system call that moves part of what is left, is
interrupted, or fails. What the callers were told, what was moved by a call
that then failed, and what the break took with it are counted apart.

### GetConnection, EbSocket

`GetConnection` is `get_connection()` with all the processes `fork()` makes:
`gcHolds[p]` are the sockets process p has open, and a connection ends for the
client when nobody holds it any more. Its clients call `make_connection()`.
`EbSocket` is the descriptors of one program that uses `ebsocket.c`: those its
callers have, the listening one that is kept, and those that were shut down
without being closed.

### UdpCounter and Accumulator

udpserver2 with two kinds of clients: one that asks for ever (`AnswerThenAsk`)
and one that asks once (`AnswerThenEnd`, `udpclient2.c`). `Swap` stands for
`htonl()` and `ntohl()`: any permutation that is its own inverse, applied to
`count` in place, as in the code. The network is shared by the datagram
modules: a datagram stays under way until it is delivered (with or without a
copy left behind) or lost. `Accumulator` is what the server promises: its sum
changes only by the increment of somebody who has asked, and what a client is
shown is a sum that an addition of its own has reached.

### UdpEcho, UdpOnce

`UdpEcho` has the server with its output file and keys, the client with its
turns, its wait without a limit, its retries, and the length argument of
`recvfrom()`, which is given the size of a pointer and left so by EAGAIN. A
third host may write to the client. What disturbs an exchange is counted
(`Disturbances`): a datagram the network repeated, one of the third host, a
wait cut short by `r`, and one that an error of `recvfrom()` ended. `UdpOnce`
puts the three earlier servers against the three earlier clients, in any
pairing, with servers started again.

### MpServer, RawFile, UdpRecv

`MpServer` is `src/simgear/mpserver.cxx`: a datagram is its kind, its callsign,
its sender, and for a position the words of its properties, which
`VerifyProperties` and `ReadProperties` walk over as the code does, with the
table of properties of `fgmpmsg.hxx` as a parameter. Records are numbered, so
that one that is neither in the map nor freed can be told. `RawFile` is the raw
log as positions in a file: mpserver's writing, mpclient's and fgmp_msg's
reading, mpclient's turns, and the list of positions by time that
`_addMotionInfo()` keeps. A record there is the length `recvfrom()` returned,
the `MsgLen` in the header, and whether Magic and Version are known; the
server compares the lengths only after it has written. A write that fails
leaves the file cut somewhere, in what earlier calls left in the C library's
buffer or in the record itself. If it was the datagram's, the server closes the
file (`WriteFails`); if it was the padding's, it does not notice, and writes
the next record wherever the file ends now (`PaddingFails`). A reader at the
start of a record finds its header (`HeaderOf`), and anywhere else it may find
anything; fgmp_msg ends its list (`rawAt = "listed"`) at a header it does not
know, at one that is not all there, and at a message that is not all there.

`UdpRecv` is `src/udp-recv.cxx` over several runs, with the C library's buffer
between program and log.

### MCDatagrams, MCStreams

Each runs its components side by side, one to a behaviour: `program` is chosen
at the start, and the variables of the others do not move. The state space is
the sum of the components' and not their product. `MCStreams` also runs
`SimpClient` against any server, beside the programs its name suggests.

## 4. Runs

| run | cfg | bounds | shows |
|---|---|---|---|
| SimpServerSafety | SimpServerSafety.cfg | 3 descriptors besides the listening one, 3 connections, 2 messages, backlog 2, `max_rw_errors` 1 | invariants, `ClosedOnlyAfterErrors`, `ImplementsConnTable` |
| SimpServerLiveness | SimpServerLiveness.cfg | 3 descriptors, 2 connections: one to spare for the log | `GonePeersAreDropped`, `MessagesAreRead` |
| SimpServerFdLimit | SimpServerFdLimit.cfg | 2 descriptors, 2 connections and the log | a violation, see section 6 |
| SimpServerSigpipe | SimpServerSigpipe.cfg | 2 descriptors, 1 connection | a violation |
| SimpClientReconnect | SimpClientReconnect.cfg | 1 connection, no failures of calls | a violation |
| SimpEcho | SimpEcho.cfg | 1 client, buffers of 2 and 1 messages, 2 `r`, both error limits 1 | `EchoInv`, `NobodyCharged`, `ServerSurvives`, `WaitsEnd`, `EndsNoticed` |
| NbServer | NbServer.cfg | 2 slots, 3 descriptors, 3 connections, 2 characters, lines of 1 | invariants, `ImplementsConnTable`, `InputIsRead`, `SlotsAreFreed` |
| NbServerLiveClients | NbServerLiveClients.cfg | 1 slot, 1 connection, 2 characters | a violation |
| Datagrams | Datagrams.cfg | 2 clients, 1 loss, 1 repetition and 1 stranger's datagram for each program; words of 2 bits; 2 callsigns from 2 addresses and 3 datagrams for mpserver; 2 records of 2 lengths in the raw log, writes that fail after 0, 16, 40 or 60 bytes, 3 times, a wait of 1 turn; 3 runs of udp-recv | six invariants, `ImplementsAccumulator`, `AnsweredUnlessLost`, `WaitGetsReply`, `MpClientGoesOn` |
| UdpEchoReset | UdpEchoReset.cfg | udpclient and udpserver, 2 messages, 1 `r`, no failures | a violation |
| Streams | Streams.cfg | simp_client: 2 connections, `max_recv_errors` 2, 4 failures of calls, 1 `r`; 2 descriptors and 3 connections for unix_server; counts 0, 1 and 3 through a stream of 2, two calls each; 2 children, 2 clients of 2 calls; 4 descriptors and 2 ports for ebsocket; 4 passes of httpget, 3 pieces; 3 failed reads of nbclient; a buffer of 2 for tcpserver | seven invariants, `UxImplementsConnTable`, `NbClientEnds`, `LossNoticed` |
| UnixServerBlocks | UnixServerBlocks.cfg | unix_server alone: 2 descriptors, 2 connections | a violation |

Why the bounds are enough. *SimpServer*: three connections on three
descriptors with the log competing for one of them make every table operation
happen with a neighbour on both sides (erase at the front, in the middle and at
the end), two clients over the limit in one pass, a descriptor reused after it
was erased, and an `accept()` that fails. `max_rw_errors` is 1 instead of 3 so
that the counting has a value below, at and above the limit; the theorems hold
for every value. Two messages suffice for a coalesced `recv()` and for a full
send buffer. *SimpEcho*: the program
always has one connection; a send buffer of one message is the hardest case
for stop and wait, a receive buffer of two lets a second message arrive when
an `r` has let one out. *NbServer*: one descriptor more than slots is what a
refusal needs, a second slot what a scan needs that goes on after a drop, and a
line of one makes both a character too many and an empty line possible with
two characters. *Datagrams*: one loss and one repetition suffice, as each makes
one exchange short or long by one and the laws count both; two bits are the
least in which a swap of bytes differs from the identity and a sum wraps. The
bodies for mpserver begin with every kind of pad and go on with up to two words
of every kind, and a string long enough for the two walks to part. The lengths
of the raw log are one shorter than a header and one longer, neither a multiple
of 16, and a record may bear either as its `MsgLen`: it may be right, too long
or too short. A cut after 0 bytes loses the record, after 16 leaves less than
a header, after 40 the datagram without its padding (or the end of the shorter
record, all but 8 bytes of its padding), after 60 half the padding. Lengths
that are multiples of 16 are left to the proof, which has all. Three times
have one that is dropped as out of order and one with which the list starts
over. *Streams*: for simp_client, `max_recv_errors` of 2 and four failing calls
reach the limit once by failures alone and once mixed with a reset, and the
second connection is made after the first was given up; unix_server gets
back a descriptor it has closed in the same scan with three connections on two
descriptors; a count above the capacity forces a transfer in three calls; a
backlog of 0 makes the third connection wait; the limit of httpget is below
and above what can be sent. Components that end may stop, so these two runs do
not look for deadlock; nor do UnixServerBlocks and UdpEchoReset, which run one
of them.

The properties:

* `TableMatchesKernel`, `SlotsMatchKernel` (of `NbInv`), `SetMatchesKernel` (of
  `UnixInv`) - the table and the open
  connections are the same set, no entry twice; the log never shares a
  descriptor with a client, the connection being refused is never in a slot.
* `HighestCovers` - `select()` is told about every client.
* `ErrorsAccounted` - `had_errors` is the number of clients over the limit
  while the pass runs; nobody over the limit survives it.
* `ReadinessHolds`, `SelectNotStale`, `ScanFindsReady` (of `UnixInv`) - what `select()` reported is still so
  when it is used, whatever happened in the pass before. For `nbserver`, this
  is what keeps `sock_gets()` from taking a quiet client for a lost one.
* `ErrorsBelongToConnection` - the error count of an entry is that of its own
  connection, also when the descriptor is reused.
* `ClosedOnlyAfterErrors` - a running `simp_server` closes a connection only
  after more than `max_rw_errors` failed calls on it.
* `SocketMatches` (of `ClientInv`) - no path through the client's error branches leaks its
  socket or uses one it has closed.
* `OneInFlight` (of `EchoInv`) - counted over both buffers at both ends, the wire and the
  reply being prepared, at most one message is under way, and one more for
  each wait the user cut short with `r`.
* `NobodyCharged`, `ServerSurvives` - what follows from it: neither program
  counts an error however small the buffers, and a client that leaves in the
  middle of an exchange does not kill the server.
* `GonePeersAreDropped`, `SlotsAreFreed`, `LossNoticed`, `EndsNoticed` - the
  end of the other side is noticed.
* `MessagesAreRead`, `InputIsRead`, `WaitsEnd` - what was sent is read, and the
  wait for a reply ends although neither program has a timeout.
* `Conservation` (of `CounterInv`) - for each client of udpserver2: its turn,
  its requests, its answers and what the network lost make one, and one more
  for each repetition. A single loss therefore leaves both sides waiting, and a
  repetition keeps the client one answer behind for ever. `AnswersTrue`: the
  answers carry sums the client's own additions reached, in network order.
* `OneExchange`, `RepliesMatch` (of `UdpEchoInv`) - of an exchange of udpclient
  at most the message it waits for is under way, and one more for each
  disturbance; it takes nothing but its echo for the reply unless there was
  one. `NextSendIsTaken` is what the texts of udpclient promise of a wait that
  is given up; UdpEchoReset shows that it does not hold.
* `AnswersCostRuns`, `OwnEcho` (of `OnceInv`) - of several clients of a server
  that runs once only one is answered, and no byte of it is left unset.
* `IdsAreNumbers`, `MapHoldsRecords`, `FirstAddressStays`, `VerifiedIsRead`,
  `EscapeEnds` (of `MpInv`) - the table of callsigns, which records leak and
  which never do, and that nothing is read that was not verified.
* `ReadersKeepStep`, `CountsEachOnce`, `ListsAll`, `PaddingFits`,
  `NewestIsLast` (of `RawInv`) - readers of the raw log find the messages its
  writer wrote, from the first byte of each to the last, up to the first record
  that lies about its length or that the next one has overwritten; fgmp_msg
  counts each of them once and ends its list before none that is intact, known
  and all there.
* `LogInOrder`, `LogKeepsRuns`, `LogOfThisRun`, `LogOutlivesIdleRun` (of
  `RecvInv`) - what the log of udp-recv holds after several runs.
* `MaxIsHighest` (of `UnixInv`) - `max_sd` covers the set, although lowered
  while it is being scanned.
* `EachMovedOnce`, `NothingMissing` (of `TransferInv`) - transfers in pieces.
* `HoldsOnlyItsOwn`, `EachChildItsClient`, `NobodyLeftWaiting`, with `EbInv`
  (of `ListenInv`) - the connections of forked processes end when their child
  does; descriptors of ebsocket have one owner each.
* `EchoInStep`, `EchoIsComing` (of `UcInv`), `WholeEcho` (of `TsInv`),
  `EndsForAReason` (of `HttpInv`) - the short programs.
* `AnsweredUnlessLost`, `WaitGetsReply`, `MpClientGoesOn`, `NbClientEnds` -
  waits end: the first two as long as nothing is lost, the third by counting,
  the last once the server has gone. `MpClientGoesOn` says besides that mpclient
  does not stop sending: from the head of its loop and from its sleep it comes
  to the next wait, with a file to read from or without, or it has exited.

Each invariant a run checks (`ServerInv`, `ClientInv`, `EchoInv`, `NbInv`,
`UnixInv` and the rest of the names that end in `Inv`) is the inductive
invariant of its proof: the properties above, the type invariant, and what
section 5 says they rest on.

### Fairness

Each program has one thread and blocks in nothing but `select()` with a
timeout, so `FairSpec` assumes weak fairness of `Work`: the disjunction of the
program's actions without a key pressed and without a failure of `select()`.
That is all the operating system owes a process. Peers, the keyboard and the
network owe nothing, with these exceptions:

* `SimpClient`: a kernel that gets data for a socket its process has closed
  answers with an RST (weak fairness of the RST after a FIN).
* `SimpEcho`: TCP delivers what has been sent, in each direction (weak fairness
  of `ToServer` and of `ToClient`).
* `NbClient`: the kernel of a server that has closed answers what it is sent
  with an RST (`NcAnswersWithRst`).
* `UdpCounter`: `recvfrom()` blocks until a datagram arrives, and arriving is
  part of the receiver's step: weak fairness of each program's work says that a
  datagram which is not lost is delivered, too.
* `UnixServer` (in UnixServerBlocks only): weak fairness of `UxWork`, which has
  no failing call but `recv()` and `send()`.
* `UdpEcho`: `recvfrom()` comes back with EAGAIN whenever nothing has arrived,
  and keys are read in between; a datagram that is under way for ever and
  looked for again and again arrives (strong fairness of the two deliveries).
* `RawFile`: mpclient turns, whatever `recvfrom()` says.

The liveness properties are conditional on the program not being left paused:
pause is a key, and a paused server serves nobody. For a server
`[]<>~is_paused` is enough, as only a key pauses it again and each pass that is
not paused does its work. For the client it must be `<>[]~is_paused`: it reads
keys while its throttle makes it turn, too, and a user who toggles the pause on
each such turn keeps it from ever beginning a pass.
`WaitsEnd` also assumes `[]do_echo`, since a server whose echo is switched off
does not answer. Liveness is about finitely many connections and messages
(`MaxConnects`, `MaxSends`): a `simp_server` that finds a new connection in
every pass never reaches `process_clients()`, and `sock_gets()` does not return
while a client keeps sending characters without a LF.

## 5. Proofs

`TcpConnProofs` holds what the others need of `TcpConn`: which steps change the
count of failed calls, that nothing a peer does makes a readable descriptor
unreadable, and that `recv()` on a readable descriptor does not come back with
"again".

`SimpServerProofs` proves, for every set of descriptors, error limit, backlog
and buffer size (assumptions `ServerAssumption`, `BufferAssumption`):

* `ServerInvariant`: `Spec => []ServerInv`, and from it one theorem for each
  safety invariant of the run.
* `CloseNeedsErrors`: `Spec => ClosedOnlyAfterErrors`.
* `Implements`: `Spec => ImplementsConnTable`.

`ServerInv` adds two conjuncts to the invariants that are checked. `Phases`
says that the server listens wherever it serves and that there are no clients
without a listening socket. `PassInv` is what makes the counting inductive:
from position `idx` on nobody is over the limit yet, so an error is counted at
most once per client and pass; and while one client is being answered, the
clients behind it are still as `select()` reported them. `ErrorsAccounted` then
follows step by step: an error that crosses the limit adds one element to
`OverClients` and one to `had_errors`, an erase removes one of each. That the
erased entry is the closed one rests on `OffsetIsPosition`: no entry has
`sock == 0`, so the offset counted by the walk is the position of the entry.
The refinement proof reads the table off the kernel's connections
(`TableView`), so that a step only has to be followed in `conn`.

`NbServerProofs` proves, for every number of slots, line length, set of
descriptors, backlog and buffer size (`NbAssumption`, `BufferAssumption`):

* `NbInvariant`: `Spec => []NbInv`, and from it `TypeCorrect`,
  `NoConnectionLost` (`SlotsMatchKernel`) and `ReadinessKept`
  (`SelectNotStale`).
* `Implements`: `Spec => ImplementsConnTable`.

What makes `NbInv` inductive: `PassInv` keeps the slots behind `listnum` as
`select()` reported them while one client is read, answered or dropped;
`NothingLeftOver` says that a closed descriptor has no input, so that one handed
out again starts empty; and `Phases` ties `connection` to `pc = "refuse"`. A
connection accepted in a pass gets a descriptor that was closed when `select()`
ran, and `socks \subseteq {sock} \cup Tracked` at the accept shows that it is
not in the set: the scan skips it.

`SimpClientProofs` proves `ClientInvariant`, `Spec => []ClientInv`, and
`SocketKept`, `Spec => []SocketMatches`, for every error limit, buffer size and
bound (`ClientAssumption`, `BufferAssumption`). `SocketMatches` needs
`NoSocketYet` to be inductive: whenever the program is connecting, the first
time or again, it holds no socket, so the one it gets is its only one.

`SimpEchoProofs` proves, for every buffer size, both error limits and every set
of descriptors (`EchoAssumption` besides those of the two programs),
`EchoInvariant`, `EchoSpec => []EchoInv`, and from it `NeitherCharged`,
`ServerNotKilled` and `StopAndWait`: while the client runs and `r` is not used,
at most one message is under way, and none while the client does not wait.
The two programs bring their own invariants: a step of the server is a step of
`SimpServer`, and `CP == INSTANCE SimpClientProofs` makes the client's theorems
available under the substitution with which `SimpEcho` uses the client. What is
left is what lies between them. `InFlight` counts the message wherever it is,
and the conjuncts that make it inductive say where that can be:

* `LinkMatches`: the server's table has this connection or none, and the
  backlog, the descriptor and the close agree with `link`;
* `ClientPhases`: it sends only when it waits for nothing, and before its one
  connection there is nothing on the wire;
* `BothEstablished`: while both ends are open neither has been told of an end;
  once one has, nothing more comes from the other;
* `NoFailedCall`, `DeadIsAnswered`: the first failed call is the first sign of
  an end, and a connection that is dead to the server has no request left to
  answer. `NobodyCharged` and `ServerSurvives` follow.

`StreamProofs` has the stream programs and helpers, each for all its constants:

* `UnixInvariant`, `UxSpec => []UnixInv`, and `UxImplements`,
  `UxSpec => UxImplementsConnTable`. What `ScanFindsReady` says of the
  descriptors ahead is kept when the one in hand is closed because
  `working_set` is not touched and the walk of `max_sd` stops at a member of
  the set, and by `accept()` because the descriptor it hands out was closed when
  `select()` ran.
* `TransferInvariant`, `TrSpec => []TransferInv`, for all capacities, counts
  and numbers of calls; `TrCore` drops `NothingMissing`, which the conservation
  law of `EachMovedOnce` and `IdleIsClean` imply.
* `EchoInvariantOfUnixClient` (`UcInv`), `WholeEchoOfTcpServer` (`TsInv`) and
  `FileInvariantOfHttpGet` (`HttpInv`). `TsPhases` and `HgPhases` say what each
  position implies; without them an arbitrary state may have bytes counted
  before there is a connection. `HgPhases` also has that httpget says "closed"
  only of a connection that has ended, which is what "it has the whole file"
  rests on.
* `DescriptorsOfEbsocket` (`EbInv`). `AtRetry` came out of an attempt that
  failed: `OnceLeavesNone` is kept by the second pass through `tcp_listen()`
  only because that pass finds no listening socket. That the kernel's
  lowest free descriptor exists is `NaturalsHaveLeast`, from the library's
  well-foundedness of `<` on the naturals.
* `ConnectionsOfGetConnection` (`GcInv`). `NobodyLeftWaiting` needs to know who
  has a connection between `accept()` and the `close()` in the parent
  (`GcPhases`: before `fork()` the parent alone), and how many sockets a client
  can have open (`McSockets`).
* `ListenInvariant`: the last two under the specification of `MCStreams`, as
  the run checks them.

`DatagramProofs` has the datagram exchanges:

* `CounterInvariant`, `CounterSpec => []CounterInv`, and
  `ImplementsTheCounter`, `CounterSpec => ImplementsAccumulator`, for every set
  of clients, every number of words, any involution in the place of `htonl()`,
  and any number of losses and repetitions. `CounterInv` is split into types
  (`CounterTypeOK`) and the `Rest`, with one lemma for each side of the
  exchange; `AnswersNumbered` is there because answers are a set: it makes the
  one that is added a new one, so that the conservation law counts it.
* `EchoStopsAndWaits`, `UdpEchoSpec => []UdpEchoInv`. `OneExchange` covers
  the client's retries as well as its wait. `OnlyTheLast` says what
  `RepliesMatch` rests on: until the exchange is disturbed, all that is under
  way while the client waits is its last message, as request, in the server's
  hands or as echo. Neither rests on the length of the address: they hold of a
  client that goes on sending after an `r`, too.
* `OneAnswerForOneRun`, `OnceSpec => []OnceInv`, for every set of clients and
  all bounds. `AsItWasSent` says that what is on its way is as its sender wrote
  it; the law that each answer costs a run also needs that a client which waits
  has got nothing yet.

`RecordProofs` has the programs that keep what they receive:

* `RawInvariant`, `RawSpec => []RawInv`, for all lengths, any number of
  records, and writes that fail anywhere. After a failure one cannot say that a
  record begins where the padding of the one before ends. `RowOfRecords` says
  what is left: every record begins before the end of the file, and either
  reaches it or another begins no later than its own end. Appending keeps that
  whether the file ends with a whole record or not (`AddedKeepsRow`), and so
  does cutting it anywhere (`CutKeepsRow`). It is enough: if the record at `o`
  is intact, no other begins before its end, so the next one begins exactly
  there, or the file ends, which is where a reader that took `MsgLen` for the
  length of the record looks next (`ReadingKeepsStep`); and the header at `o`
  is whole, as a record with its padding is no shorter than a header
  (`PaddingBound`, `PaddedHoldsHeader`, `IntactShows`).
* `LogOfUdpRecv`, `RecvSpec => []RecvInv`, for any number of runs and
  datagrams. `BufferOfOpenLog`: what the C library still holds belongs to a log
  that is open in a run. `LogIsOfThePast`: what is appended is later than all
  that is there. `AppendingNow`: a history in which every run appended says so
  of the present run.
* `MapOfMpServer`, `MpSpec => []MpInv`, for any set of callsigns, addresses,
  lists of properties and pads. A callsign that is not in the map has no first
  address, which `FirstAddressStays` says too so as to be inductive. Most of
  the proof is `VerifiedIsRead`. The two walks over a list of properties are
  recursive functions, and the induction theorems of the library cannot be used
  (see below): `SomeWalk` shows that there are such functions
  as the definitions choose, and `HarderWalk` that the reader's walk goes on
  wherever the verifier's did, both by a least or last place at which it would
  be otherwise.

The assumptions on constants are those the code or the kernel give: sets of
descriptors are finite sets of numbers, limits and bounds are numbers, names
that stand for "none" are not names of anybody. TLC evaluates each on a run.

### Only model-checked

* Liveness: `GonePeersAreDropped`, `MessagesAreRead`, `LossNoticed`,
  `WaitsEnd`, `EndsNoticed`, `InputIsRead`, `SlotsAreFreed`,
  `AnsweredUnlessLost`, `WaitGetsReply`, `MpClientGoesOn` and `NbClientEnds`.
  They need fairness, and with it ENABLED, which this version of TLAPS does not
  handle. `NbClient` has this one property and no invariant of its own, so it
  has no theorem.
* The violations, which are behaviours and not laws.
* What a recursive definition computes for every input: the induction theorems
  of the library take an operator as a parameter, which no prover at hand can
  instantiate.

## 6. Findings

* **A full process stops serving** (SimpServerFdLimit). `run_server()` serves
  existing clients only in passes in which nobody waits to be accepted. When
  the process has no descriptor left, `accept()` fails, the connection stays
  in the backlog, and the server never reads from its clients again - nor
  notices those that have gone and would free a descriptor.
* **One client can end the server** (SimpServerSigpipe). `send()` to a
  connection that was closed and then reset raises SIGPIPE; `sockhelp.c` has
  `ignore_pipe()` for this, and nothing calls it. The same happens in
  `simp_client` (`WriteKills`: a failed `write()` is repeated on the same
  socket) and in `nbserver` (`ReplyKills`).
* **The client does not reconnect** (SimpClientReconnect). The help offers a
  wait for re-connection, and the code for it is there, but a server that
  closes or resets shows as end of file, whose branch gives up instead.
* **An empty line is a lost connection** (NbServerLiveClients). `sock_gets()`
  returns 0 for a line without characters, `deal_with_data()` takes 0 for the
  end of the connection: a client that sends a bare LF is disconnected.
* **Resetting a wait ends udpclient** (UdpEchoReset). The help offers `r` as
  "Reset wait for receive" (`src/udpclient.cxx:99`, `:106`), and after an error
  of `recvfrom()` the client "should wait a little, then continue" (`:327`) and
  is "Waiting %d seconds before next send" (`:333`). Line 275 gives
  `recvfrom()` the size of a pointer for the length of the address; a call that
  fails leaves it so, be it with EAGAIN, and the `sendto()` after the wait that
  was given up is refused: the client ends with exit code 1.
* **One quiet client stops unix_server** (UnixServerBlocks). The code receives
  "until the recv fails with EWOULDBLOCK" and expects accepted sockets to
  inherit the non-blocking mode; on Linux they do not, and the second `recv()`
  waits in the client that has just been echoed.

Seen while modelling, each modelled as the code does it:

* nbserver: on a non-blocking socket `sock_gets()` returns what has arrived so
  far and the server answers it, so half a line gets an answer of its own; a
  line cut off by the end of the connection is answered too, against the
  comment at `src/sockhelp.c:271-272`.
* udpclient2, udpclient: a lost datagram is never sent again.
* unix_server: the timeout is set once, `src/unix_server.cxx:299`, and
  `select()` on Linux leaves what remained in it: the server may end though
  clients were active all along (`UxSelectEnds` may happen whenever nothing is ready).
* nbclient: `send_errors` has no limit on Linux and `nul_read_cnt` is never
  reset; what ends a client whose server has gone is SIGPIPE.
* mpserver: an ESC read while a position is refused is swallowed by the
  `break` of the `switch` (`src/simgear/mpserver.cxx:538-539`); records of
  rejected datagrams and of known callsigns are never freed; the address kept
  for a callsign is its first; a datagram goes into the raw log before its
  length is checked, and one that lies about it puts readers out of step; so
  does a padding that was not all written (`:124`), which is not looked at.
* httpget: every read counts as a try, so an answer in more than `max_tries`
  pieces is cut, with exit code 0.
* ebsocket, sockhelp: a failing `connect()`, `accept()` or `tcp_unlisten()`
  shuts a descriptor down and never closes it (`LostByShutdown`);
  `make_connection()` leaves its socket open when it fails; `tcp_listen()`
  keeps listening on the first port whatever port it is asked for next.
* sockhelp: `sock_write()` "will make sure that all data is transmitted", but
  a failure after the first piece is reported without the part that went out.
* simp_server: after a failed host lookup End_App reads a `sockfd` that was
  never assigned; `FD_SET` on a descriptor of `FD_SETSIZE` or more is not
  guarded against. nbserver: a failing `accept()` ends the process for all.
* http_server: the child frees its slot in its own memory only, and the Unix
  branch neither runs nor compiles.

## 7. Not modelled

Timing, statistics, verbosity, what is printed, and the text of messages;
Windows. Start-up failures are one action each, without the reason. A reply of
simp_server is one unit: a `send()` that accepts part of it is not
distinguished from one that accepts it, as the code does not distinguish them
either. The clock: how long a `select()` waited or a pause lasted is left open,
so nothing is said of when a timeout comes. What FlightGear's positions say but
for their time: geometry is floating-point arithmetic, which TLC does not have.

Components left out: `http_server` (on Unix its `main()` returns at once, and
what follows does not compile), fg_telnet and fgio (request and answer with a
program that is not in this repository, and parsing), geometry, metar and the
Windows programs (straight-line calls of Winsock and printing), `nbserver.c`
(the edition `nbserver.cxx` replaced), winsockerr, the timer and the listing of
network interfaces. `udp-send` sends nothing: its `parse_args()` returns 1
whatever it is given. Of ebsocket, the name look-ups and the program that tries
it out; of mpserver, mpclient and fgmp_msg, what is computed from positions.
