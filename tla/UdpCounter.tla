----------------------------- MODULE UdpCounter -----------------------------
(***************************************************************************)
(* src/src/udpserver2.cxx, which adds what a datagram asks for to a count  *)
(* and answers with the count, and its clients src/src/udpclient2.cxx,     *)
(* which asks for ever, and src/src/udpclient2.c, which asks once.         *)
(* recvfrom() blocks in all of them and nobody has a timeout.              *)
(*                                                                         *)
(* A step is the code between two system calls.  The server is at          *)
(*   "start"    main() up to bind()                                        *)
(*   "recv"     recvfrom()                                                 *)
(*   "answer"   sendto(), with count in network order                      *)
(*   "failed"   the process has ended after a failure of sendto()          *)
(*   "exited"   the process has ended otherwise                            *)
(* and a client at "start", "ask" (sendto()), "wait" (recvfrom()) or       *)
(* "exited".                                                               *)
(*                                                                         *)
(* The network is external: a datagram under way may be lost, overtaken,   *)
(* or delivered and left under way, to be delivered again.  lost, copies   *)
(* and sums record what has happened, and nr tells two answers with the    *)
(* same count apart; no program reads them.                                *)
(*                                                                         *)
(* An int is the number its 32 bits spell, so that adding wraps at Words;  *)
(* Swap is htonl() and ntohl().                                            *)
(* X_Fault is X with a plausible mistake; nothing here uses it.            *)
(***************************************************************************)
EXTENDS Naturals, FiniteSets

CONSTANTS Clients2,       (* processes of udpclient2                       *)
          AskOnce,        (* those that run udpclient2.c                   *)
          Words,          (* how many values an int has                    *)
          Swap,           (* htonl() as a function, its own inverse        *)
          IncAmount,      (* inc_amount of each client                     *)
          MaxAsks,        (* bound: requests a client ever sends           *)
          MaxCopies,      (* bound: deliveries of a client's datagrams
                             that leave the datagram under way             *)
          MaxLost         (* bound: datagrams of a client that are lost    *)

Word == 0 .. Words - 1

ASSUME CounterAssumption ==
    /\ AskOnce \subseteq Clients2
    /\ Words \in Nat \ {0}
    /\ Swap \in [Word -> Word]
    /\ \A x \in Word : Swap[Swap[x]] = x
    /\ IncAmount \in [Clients2 -> Word]
    /\ MaxAsks \in Nat
    /\ MaxCopies \in Nat
    /\ MaxLost \in Nat

VARIABLES counterAt, count, askedBy,    (* the server                      *)
          asker, total,                 (* the clients                     *)
          requests, answers,            (* the datagrams under way         *)
          asks, lost, copies, sums, additions

counterVars == <<counterAt, count, askedBy, asker, total, requests, answers,
                 asks, lost, copies, sums, additions>>
netStats    == <<lost, copies>>
askerVars   == <<asker, total, asks>>
serverVars  == <<counterAt, count, askedBy, sums, additions>>

Answer == [nr : Nat, count : Word]

CounterTypeOK ==
    /\ counterAt \in {"start", "recv", "answer", "failed", "exited"}
    /\ count \in Word
    /\ askedBy \in Clients2 \cup {"nobody"}
    /\ counterAt = "answer" => askedBy \in Clients2
    /\ asker \in [Clients2 -> {"start", "ask", "wait", "exited"}]
    /\ total \in [Clients2 -> SUBSET Word]
    /\ requests \in [Clients2 -> Nat]
    /\ answers \in [Clients2 -> SUBSET Answer]
    /\ asks \in [Clients2 -> Nat]
    /\ lost \in [Clients2 -> Nat]
    /\ copies \in [Clients2 -> Nat]
    /\ sums \in [Clients2 -> SUBSET Word]
    /\ additions \in Nat

CounterInit ==
    /\ counterAt = "start"
    /\ count = 0
    /\ askedBy = "nobody"
    /\ asker = [c \in Clients2 |-> "start"]
    /\ total = [c \in Clients2 |-> {}]
    /\ requests = [c \in Clients2 |-> 0]
    /\ answers = [c \in Clients2 |-> {}]
    /\ asks = [c \in Clients2 |-> 0]
    /\ lost = [c \in Clients2 |-> 0]
    /\ copies = [c \in Clients2 |-> 0]
    /\ sums = [c \in Clients2 |-> {}]
    /\ additions = 0

-----------------------------------------------------------------------------
(* udpserver2                                                              *)

(* Addition of two ints.                                                   *)
Plus(x, y) == IF x + y < Words THEN x + y ELSE x + y - Words

(* Delivery of a datagram of client c that may stay under way.             *)
Delivered(c, again) ==
    /\ again => copies[c] < MaxCopies
    /\ copies' = [copies EXCEPT ![c] = IF again THEN @ + 1 ELSE @]
    /\ UNCHANGED lost

RequestsAfter(c, again) ==
    IF again THEN requests ELSE [requests EXCEPT ![c] = @ - 1]

(* Options, port, socket() and bind(); -? and any failure end it.          *)
CounterStarts ==
    /\ counterAt = "start"
    /\ counterAt' \in {"recv", "exited"}
    /\ UNCHANGED <<count, askedBy, askerVars, requests, answers, netStats,
                   sums, additions>>

(* A request has come: its increment is added, and the count put into      *)
(* network order for the answer.                                           *)
Bump(c) ==
    /\ counterAt = "recv"
    /\ requests[c] > 0
    /\ \E again \in BOOLEAN :
          /\ Delivered(c, again)
          /\ requests' = RequestsAfter(c, again)
    /\ LET thisinc == Swap[Swap[IncAmount[c]]]
           new     == Plus(count, thisinc)
       IN  /\ count' = Swap[new]
           /\ sums' = [sums EXCEPT ![c] = @ \cup {new}]
    /\ askedBy' = c
    /\ additions' = additions + 1
    /\ counterAt' = "answer"
    /\ UNCHANGED <<askerVars, answers>>

CountAfterSend_NotBack == count

(* The count back in the order of the host.                                *)
CountAfterSend == Swap[count]

AnswersAfter_Unsent(c) == answers
AnswersAfter(c) ==
    [answers EXCEPT ![c] = @ \cup {[nr |-> additions, count |-> count]}]

SendCount ==
    /\ counterAt = "answer"
    /\ answers' = AnswersAfter(askedBy)
    /\ count' = CountAfterSend
    /\ counterAt' = "recv"
    /\ UNCHANGED <<askedBy, askerVars, requests, netStats, sums, additions>>

(* recvfrom() fails, or sendto() with the count still turned over.         *)
CounterFails ==
    /\ counterAt \in {"recv", "answer"}
    /\ counterAt' = IF counterAt = "recv" THEN "exited" ELSE "failed"
    /\ UNCHANGED <<count, askedBy, askerVars, requests, answers, netStats,
                   sums, additions>>

-----------------------------------------------------------------------------
(* udpclient2                                                              *)

(* Options, increment, address, socket() and bind().                       *)
AskerStarts(c) ==
    /\ asker[c] = "start"
    /\ \E next \in {"ask", "exited"} : asker' = [asker EXCEPT ![c] = next]
    /\ UNCHANGED <<serverVars, total, requests, answers, asks, netStats>>

Ask(c) ==
    /\ asker[c] = "ask"
    /\ asks[c] < MaxAsks
    /\ asks' = [asks EXCEPT ![c] = @ + 1]
    /\ requests' = [requests EXCEPT ![c] = @ + 1]
    /\ asker' = [asker EXCEPT ![c] = "wait"]
    /\ UNCHANGED <<serverVars, total, answers, netStats>>

(* The answer is printed; total is the set of what was.                    *)
Shown(c, a) == [total EXCEPT ![c] = @ \cup {Swap[a.count]}]

TakeAnswer(c, a) ==
    /\ asker[c] = "wait"
    /\ a \in answers[c]
    /\ \E again \in BOOLEAN :
          /\ Delivered(c, again)
          /\ answers' = IF again THEN answers
                                 ELSE [answers EXCEPT ![c] = @ \ {a}]
    /\ total' = Shown(c, a)
    /\ UNCHANGED <<serverVars, requests, asks>>

(* udpclient2.cxx sleeps and asks again.                                   *)
AnswerThenAsk(c, a) ==
    /\ c \notin AskOnce
    /\ TakeAnswer(c, a)
    /\ asker' = [asker EXCEPT ![c] = "ask"]

(* udpclient2.c ends with its first answer.                                *)
AnswerThenEnd(c, a) ==
    /\ c \in AskOnce
    /\ TakeAnswer(c, a)
    /\ asker' = [asker EXCEPT ![c] = "exited"]

(* sendto() or recvfrom() fails, or what came is not an int long.          *)
AskerFails(c) ==
    /\ asker[c] \in {"ask", "wait"}
    /\ asker' = [asker EXCEPT ![c] = "exited"]
    /\ UNCHANGED <<serverVars, total, requests, answers, asks, netStats>>

-----------------------------------------------------------------------------
(* The network loses a datagram.                                           *)

Lost(c) ==
    /\ lost[c] < MaxLost
    /\ lost' = [lost EXCEPT ![c] = @ + 1]
    /\ UNCHANGED copies

LoseRequest(c) ==
    /\ requests[c] > 0
    /\ Lost(c)
    /\ requests' = [requests EXCEPT ![c] = @ - 1]
    /\ UNCHANGED <<serverVars, askerVars, answers>>

LoseAnswer(c) ==
    /\ \E a \in answers[c] : answers' = [answers EXCEPT ![c] = @ \ {a}]
    /\ Lost(c)
    /\ UNCHANGED <<serverVars, askerVars, requests>>

-----------------------------------------------------------------------------
CounterWork == CounterStarts \/ SendCount \/ \E c \in Clients2 : Bump(c)

AskerWork(c) ==
    \/ Ask(c)
    \/ \E a \in answers[c] : AnswerThenAsk(c, a) \/ AnswerThenEnd(c, a)

CounterNext ==
    \/ CounterWork
    \/ CounterFails
    \/ \E c \in Clients2 : \/ AskerStarts(c) \/ AskerWork(c) \/ AskerFails(c)
                           \/ LoseRequest(c) \/ LoseAnswer(c)

CounterSpec == CounterInit /\ [][CounterNext]_counterVars

(* The server and the clients run, and what is not lost arrives.           *)
CounterFairSpec ==
    /\ CounterSpec
    /\ WF_counterVars(CounterWork)
    /\ \A c \in Clients2 : WF_counterVars(AskerWork(c))

-----------------------------------------------------------------------------
(* Properties                                                              *)

CounterGone == counterAt \in {"failed", "exited"}

Held(c)  == IF counterAt = "answer" /\ askedBy = c THEN 1 ELSE 0
Ready(c) == IF asker[c] \in {"start", "ask"} THEN 1 ELSE 0

(* Stop and wait, as a law of conservation: for each client that still     *)
(* runs, its turn to ask, its requests and answers under way and the       *)
(* answer being prepared are one in all, but for what the network lost and *)
(* what it delivered twice.  A client whose one datagram was lost is       *)
(* therefore left with nothing that could ever end its recvfrom()          *)
(* (src/src/udpclient2.cxx:236), and a datagram delivered twice makes it   *)
(* run one answer behind for ever.                                         *)
Conservation ==
    ~CounterGone => \A c \in Clients2 : asker[c] # "exited" =>
        requests[c] + Cardinality(answers[c]) + Held(c) + Ready(c) + lost[c]
            = 1 + copies[c]

(* The count in the order of the host.                                     *)
HostCount == IF counterAt \in {"answer", "failed"} THEN Swap[count] ELSE count

(* Every answer under way carries a sum that an addition for its client    *)
(* has reached, though the count is turned over in place and back between  *)
(* two requests (src/src/udpserver2.cxx:246-254).                          *)
AnswersTrue ==
    /\ \A c \in Clients2 : \A a \in answers[c] : Swap[a.count] \in sums[c]
    /\ counterAt = "answer" => Swap[count] \in sums[askedBy]

(* No answer under way has the number of an addition to come.              *)
AnswersNumbered ==
    \A c \in Clients2 : \A a \in answers[c] :
        a.nr <= additions /\ (counterAt = "answer" => a.nr < additions)

FiniteAnswers == \A c \in Clients2 : IsFiniteSet(answers[c])

(* Nobody's request is under way who has not asked.                        *)
AskedBefore ==
    \A c \in Clients2 : requests[c] > 0 => asks[c] > 0

CounterInv ==
    /\ CounterTypeOK
    /\ FiniteAnswers
    /\ AnswersNumbered
    /\ Conservation
    /\ AnswersTrue
    /\ AskedBefore

Acc == INSTANCE Accumulator WITH
          Askers <- Clients2, Inc <- IncAmount, Zero <- 0,
          sum <- HostCount,
          asked <- {c \in Clients2 : asks[c] > 0},
          shown <- total

(* udpserver2 and its clients implement the counting server: nothing but   *)
(* the increment of a client that has asked changes the count, also when   *)
(* it wraps (src/src/udpserver2.cxx:244), and no client prints a count     *)
(* that was not reached by an addition of its own.                         *)
ImplementsAccumulator == Acc!Spec

(* As long as nothing of a client is lost, the client does not wait for    *)
(* ever (src/src/udpclient2.cxx:236), whatever the other clients send.     *)
AnsweredUnlessLost ==
    \A c \in Clients2 :
        (asker[c] = "wait" /\ lost[c] = 0)
            ~> (asker[c] # "wait" \/ lost[c] > 0 \/ CounterGone)
=============================================================================
