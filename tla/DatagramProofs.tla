--------------------------- MODULE DatagramProofs --------------------------
(***************************************************************************)
(* Proofs about the programs that exchange datagrams with a peer: the      *)
(* counter of udpserver2 for every number of clients, every width of the   *)
(* count and however much the network loses or delivers twice; udpserver   *)
(* and udpclient for every number of messages, losses, repetitions,        *)
(* strays, errors and keys; and their first editions for every number of   *)
(* clients and runs.                                                       *)
(***************************************************************************)
EXTENDS UdpCounter, UdpEcho, UdpOnce, FiniteSetTheorems, TLAPS

-----------------------------------------------------------------------------
(* udpserver2 and udpclient2.                                              *)

(* Counts are ints, and so is a sum of two.                                *)
LEMMA Arithmetic ==
    /\ 0 \in Word
    /\ \A x, y \in Word : Plus(x, y) \in Word
    /\ \A x \in Word : Swap[x] \in Word /\ Swap[Swap[x]] = x
<1>1. Words \in Nat \ {0}
  BY CounterAssumption DEF CounterAssumption
<1>2. 0 \in Word /\ \A x, y \in Word : Plus(x, y) \in Word
  BY <1>1 DEF Word, Plus
<1>3. \A x \in Word : Swap[x] \in Word /\ Swap[Swap[x]] = x
  BY CounterAssumption DEF CounterAssumption
<1> QED BY <1>2, <1>3

(* The increment the server adds is the one the client meant.              *)
LEMMA IncrementArrives ==
    ASSUME NEW c \in Clients2
    PROVE  IncAmount[c] \in Word /\ Swap[Swap[IncAmount[c]]] = IncAmount[c]
BY Arithmetic, CounterAssumption DEF CounterAssumption

(* What taking one answer out of those under way does to their number.     *)
LEMMA OneAnswerLess ==
    ASSUME NEW S, IsFiniteSet(S), NEW a \in S
    PROVE  /\ IsFiniteSet(S \ {a})
           /\ Cardinality(S \ {a}) \in Nat
           /\ Cardinality(S) \in Nat
           /\ Cardinality(S) = Cardinality(S \ {a}) + 1
BY FS_RemoveElement, FS_CardinalityType

(* What adding a new one does.                                             *)
LEMMA OneAnswerMore ==
    ASSUME NEW S, IsFiniteSet(S), NEW a, a \notin S
    PROVE  /\ IsFiniteSet(S \cup {a})
           /\ Cardinality(S) \in Nat
           /\ Cardinality(S \cup {a}) = Cardinality(S) + 1
BY FS_AddElement, FS_CardinalityType

-----------------------------------------------------------------------------
LEMMA TypeInit == CounterInit => CounterTypeOK
BY Arithmetic DEF CounterInit, CounterTypeOK

LEMMA TypeServer ==
    ASSUME CounterTypeOK, CounterStarts \/ SendCount \/ CounterFails
    PROVE  CounterTypeOK'
<1> USE DEF CounterTypeOK, askerVars, netStats
<1>1. CASE CounterStarts
  BY <1>1 DEF CounterStarts
<1>2. CASE SendCount
  <2>1. CountAfterSend \in Word
    BY Arithmetic DEF CountAfterSend
  <2>2. answers' \in [Clients2 -> SUBSET Answer]
    BY <1>2 DEF SendCount, AnswersAfter, Answer
  <2> QED BY <1>2, <2>1, <2>2 DEF SendCount
<1>3. CASE CounterFails
  BY <1>3 DEF CounterFails
<1> QED BY <1>1, <1>2, <1>3

LEMMA TypeBump ==
    ASSUME CounterTypeOK, NEW c \in Clients2, Bump(c)
    PROVE  CounterTypeOK'
<1> USE DEF CounterTypeOK, askerVars, Bump
<1>1. Plus(count, Swap[Swap[IncAmount[c]]]) \in Word
  BY Arithmetic, IncrementArrives
<1>2. count' \in Word /\ sums' \in [Clients2 -> SUBSET Word]
  BY <1>1, Arithmetic
<1>3. requests' \in [Clients2 -> Nat] /\ copies' \in [Clients2 -> Nat] /\ lost' = lost
  BY DEF Delivered, RequestsAfter
<1> QED BY <1>2, <1>3

LEMMA TypeAsker ==
    ASSUME CounterTypeOK, NEW c \in Clients2,
           \/ AskerStarts(c) \/ Ask(c) \/ AskerFails(c)
           \/ LoseRequest(c) \/ LoseAnswer(c)
    PROVE  CounterTypeOK'
<1> USE DEF CounterTypeOK, serverVars, askerVars, netStats
<1>1. CASE AskerStarts(c)
  BY <1>1 DEF AskerStarts
<1>2. CASE Ask(c)
  BY <1>2 DEF Ask
<1>3. CASE AskerFails(c)
  BY <1>3 DEF AskerFails
<1>4. CASE LoseRequest(c)
  BY <1>4 DEF LoseRequest, Lost
<1>5. CASE LoseAnswer(c)
  BY <1>5 DEF LoseAnswer, Lost
<1> QED BY <1>1, <1>2, <1>3, <1>4, <1>5

LEMMA TypeAnswer ==
    ASSUME CounterTypeOK, NEW c \in Clients2, NEW a \in answers[c],
           AnswerThenAsk(c, a) \/ AnswerThenEnd(c, a)
    PROVE  CounterTypeOK'
<1> USE DEF CounterTypeOK, serverVars, AnswerThenAsk, AnswerThenEnd, TakeAnswer
<1>1. a.count \in Word
  BY DEF Answer
<1>2. total' \in [Clients2 -> SUBSET Word]
  BY <1>1, Arithmetic DEF Shown
<1>3. answers' \in [Clients2 -> SUBSET Answer] /\ copies' \in [Clients2 -> Nat]
      /\ lost' = lost
  BY DEF Delivered
<1>4. asker' \in [Clients2 -> {"start", "ask", "wait", "exited"}]
  OBVIOUS
<1> QED BY <1>2, <1>3, <1>4

-----------------------------------------------------------------------------
(* The rest of the invariant, action by action.                            *)

Rest == FiniteAnswers /\ AnswersNumbered /\ Conservation /\ AnswersTrue
           /\ AskedBefore

LEMMA RestInit == CounterInit => Rest
<1> SUFFICES ASSUME CounterInit PROVE Rest OBVIOUS
<1> USE DEF CounterInit
<1>1. FiniteAnswers /\ AnswersNumbered /\ AnswersTrue /\ AskedBefore
  BY FS_EmptySet DEF FiniteAnswers, AnswersNumbered, AnswersTrue, AskedBefore
<1>2. Conservation
  BY FS_EmptySet DEF Conservation, Held, Ready
<1> QED BY <1>1, <1>2 DEF Rest

(* Nothing changes but where the server is, and it is not answering.       *)
LEMMA RestServer ==
    ASSUME CounterTypeOK, Rest, CounterStarts \/ CounterFails
    PROVE  Rest'
<1> USE DEF CounterTypeOK, Rest, CounterStarts, CounterFails, askerVars, netStats
<1>1. FiniteAnswers' /\ AskedBefore'
  BY DEF FiniteAnswers, AskedBefore
<1>2. counterAt' # "answer" /\ UNCHANGED <<answers, sums, additions>>
  OBVIOUS
<1>3. AnswersNumbered' /\ AnswersTrue'
  BY <1>2 DEF AnswersNumbered, AnswersTrue
<1>4. Conservation'
  BY DEF Conservation, CounterGone, Held, Ready
<1> QED BY <1>1, <1>3, <1>4

(* A request becomes the answer the server holds.                          *)
LEMMA RestBump ==
    ASSUME CounterTypeOK, Rest, NEW c \in Clients2, Bump(c)
    PROVE  Rest'
<1> USE DEF CounterTypeOK, askerVars
<1>1. FiniteAnswers'
  BY DEF Bump, FiniteAnswers, Rest
<1>2. AnswersNumbered'
  <2> SUFFICES ASSUME NEW d \in Clients2, NEW a \in answers[d]
               PROVE  a.nr <= additions + 1 /\ a.nr < additions + 1
    BY DEF Bump, AnswersNumbered
  <2> QED BY DEF Rest, AnswersNumbered, Answer
<1>3. AnswersTrue'
  <2> DEFINE new == Plus(count, Swap[Swap[IncAmount[c]]])
  <2>1. new \in Word
    BY Arithmetic, IncrementArrives
  <2>2. count' = Swap[new] /\ sums' = [sums EXCEPT ![c] = @ \cup {new}] /\ askedBy' = c
    BY DEF Bump
  <2>3. Swap[count'] \in sums'[askedBy']
    BY <2>1, <2>2, Arithmetic
  <2>4. \A d \in Clients2 : sums[d] \subseteq sums'[d]
    BY <2>2
  <2>5. \A d \in Clients2 : \A a \in answers'[d] : Swap[a.count] \in sums'[d]
    BY <2>4 DEF Rest, AnswersTrue, Bump
  <2> QED BY <2>3, <2>5 DEF AnswersTrue
<1>4. AskedBefore'
  <2>1. \A d \in Clients2 : requests'[d] > 0 => requests[d] > 0
    BY DEF Bump, RequestsAfter
  <2> QED BY <2>1 DEF Rest, AskedBefore, Bump
<1>5. Conservation'
  <2> SUFFICES ASSUME NEW d \in Clients2, asker[d] # "exited"
               PROVE  requests'[d] + Cardinality(answers[d]) + Held(d)' + Ready(d)'
                        + lost'[d] = 1 + copies'[d]
    BY DEF Conservation, Bump
  <2>1. requests[d] + Cardinality(answers[d]) + Held(d) + Ready(d) + lost[d] = 1 + copies[d]
    BY DEF Rest, Conservation, CounterGone, Bump
  <2>2. Cardinality(answers[d]) \in Nat
    BY FS_CardinalityType DEF Rest, FiniteAnswers
  <2>3. Ready(d)' = Ready(d) /\ lost' = lost /\ Ready(d) \in Nat /\ Held(d) = 0
    BY DEF Bump, Ready, Held, Delivered
  <2>4. CASE d # c
    <3>1. requests'[d] = requests[d] /\ copies'[d] = copies[d] /\ Held(d)' = 0
      BY <2>4 DEF Bump, RequestsAfter, Delivered, Held
    <3> QED BY <2>1, <2>3, <3>1
  <2>5. CASE d = c
    <3>1. Held(d)' = 1
      BY <2>5 DEF Bump, Held
    <3>2. PICK again \in BOOLEAN :
             /\ copies' = [copies EXCEPT ![c] = IF again THEN @ + 1 ELSE @]
             /\ requests' = IF again THEN requests ELSE [requests EXCEPT ![c] = @ - 1]
      BY DEF Bump, Delivered, RequestsAfter
    <3>3. CASE again
      <4>1. requests'[d] = requests[d] /\ copies'[d] = copies[d] + 1
        BY <3>2, <3>3, <2>5
      <4> QED BY <2>1, <2>2, <2>3, <3>1, <4>1
    <3>4. CASE ~again
      <4>1. requests'[d] = requests[d] - 1 /\ copies'[d] = copies[d]
        BY <3>2, <3>4, <2>5
      <4> QED BY <2>1, <2>2, <2>3, <3>1, <4>1
    <3> QED BY <3>3, <3>4
  <2> QED BY <2>4, <2>5
<1> QED BY <1>1, <1>2, <1>3, <1>4, <1>5 DEF Rest

(* The answer the server holds goes under way; its number is new.          *)
LEMMA RestSend ==
    ASSUME CounterTypeOK, Rest, SendCount
    PROVE  Rest'
<1> USE DEF CounterTypeOK, askerVars, netStats
<1> DEFINE new == [nr |-> additions, count |-> count]
           c == askedBy
<1>0. c \in Clients2 /\ counterAt = "answer" /\ counterAt' = "recv"
  BY DEF SendCount
<1>1. answers' = [answers EXCEPT ![c] = @ \cup {new}]
  BY DEF SendCount, AnswersAfter
<1>2. new \notin answers[c]
  BY <1>0 DEF Rest, AnswersNumbered, Answer
<1>3. FiniteAnswers'
  BY <1>0, <1>1, <1>2, OneAnswerMore DEF FiniteAnswers, Rest
<1>4. AnswersNumbered'
  <2> SUFFICES ASSUME NEW d \in Clients2, NEW a \in answers'[d]
               PROVE  a.nr <= additions
    BY <1>0 DEF SendCount, AnswersNumbered
  <2>1. a \in answers[d] \/ a = new
    BY <1>1
  <2> QED BY <2>1 DEF Rest, AnswersNumbered, Answer
<1>5. AnswersTrue'
  <2> SUFFICES ASSUME NEW d \in Clients2, NEW a \in answers'[d]
               PROVE  Swap[a.count] \in sums[d]
    BY <1>0 DEF SendCount, AnswersTrue
  <2>1. a \in answers[d] \/ (a = new /\ d = c)
    BY <1>1
  <2> QED BY <1>0, <2>1 DEF Rest, AnswersTrue
<1>6. AskedBefore'
  BY DEF Rest, AskedBefore, SendCount
<1>7. Conservation'
  <2> SUFFICES ASSUME NEW d \in Clients2, asker[d] # "exited"
               PROVE  requests[d] + Cardinality(answers'[d]) + Held(d)' + Ready(d)'
                        + lost[d] = 1 + copies[d]
    BY DEF Conservation, SendCount
  <2>1. requests[d] + Cardinality(answers[d]) + Held(d) + Ready(d) + lost[d] = 1 + copies[d]
    BY <1>0 DEF Rest, Conservation, CounterGone
  <2>2. Cardinality(answers[d]) \in Nat
    BY FS_CardinalityType DEF Rest, FiniteAnswers
  <2>3. Ready(d)' = Ready(d) /\ Ready(d) \in Nat /\ Held(d)' = 0
    BY <1>0 DEF Ready, Held, SendCount
  <2>4. CASE d # c
    <3>1. answers'[d] = answers[d] /\ Held(d) = 0
      BY <1>1, <2>4 DEF Held
    <3> QED BY <2>1, <2>3, <3>1
  <2>5. CASE d = c
    <3>1. Held(d) = 1 /\ answers'[d] = answers[d] \cup {new}
      BY <1>0, <1>1, <2>5 DEF Held
    <3>2. Cardinality(answers'[d]) = Cardinality(answers[d]) + 1
      BY <3>1, <1>2, <2>5, OneAnswerMore DEF Rest, FiniteAnswers
    <3> QED BY <2>1, <2>2, <2>3, <3>1, <3>2
  <2> QED BY <2>4, <2>5
<1> QED BY <1>3, <1>4, <1>5, <1>6, <1>7 DEF Rest

(* Starting, asking and failing move the client's turn.                    *)
LEMMA RestAsker ==
    ASSUME CounterTypeOK, Rest, NEW c \in Clients2,
           AskerStarts(c) \/ Ask(c) \/ AskerFails(c)
    PROVE  Rest'
<1> USE DEF CounterTypeOK, serverVars, netStats
<1>1. UNCHANGED <<answers, counterAt, count, askedBy, sums, additions, lost, copies>>
  BY DEF AskerStarts, Ask, AskerFails
<1>2. FiniteAnswers' /\ AnswersNumbered' /\ AnswersTrue'
  BY <1>1 DEF Rest, FiniteAnswers, AnswersNumbered, AnswersTrue
<1>3. AskedBefore'
  BY DEF Rest, AskedBefore, AskerStarts, Ask, AskerFails
<1>4. Conservation'
  <2> SUFFICES ASSUME NEW d \in Clients2, ~CounterGone, asker'[d] # "exited"
               PROVE  requests'[d] + Cardinality(answers[d]) + Held(d) + Ready(d)'
                        + lost[d] = 1 + copies[d]
    BY <1>1 DEF Conservation, CounterGone, Held
  <2>1. asker[d] # "exited"
    BY DEF AskerStarts, Ask, AskerFails
  <2>2. requests[d] + Cardinality(answers[d]) + Held(d) + Ready(d) + lost[d] = 1 + copies[d]
    BY <2>1 DEF Rest, Conservation
  <2>3. Cardinality(answers[d]) \in Nat /\ Held(d) \in Nat
    BY FS_CardinalityType DEF Rest, FiniteAnswers, Held
  <2>4. CASE Ask(c) /\ d = c
    <3>1. requests'[d] = requests[d] + 1 /\ Ready(d) = 1 /\ Ready(d)' = 0
      BY <2>4 DEF Ask, Ready
    <3> QED BY <2>2, <2>3, <3>1
  <2>5. CASE ~(Ask(c) /\ d = c)
    <3>1. requests'[d] = requests[d] /\ Ready(d)' = Ready(d)
      BY <2>5 DEF AskerStarts, Ask, AskerFails, Ready
    <3> QED BY <2>2, <3>1
  <2> QED BY <2>4, <2>5
<1> QED BY <1>2, <1>3, <1>4 DEF Rest

(* An answer under way becomes the client's turn.                          *)
LEMMA RestAnswer ==
    ASSUME CounterTypeOK, Rest, NEW c \in Clients2, NEW a \in answers[c],
           AnswerThenAsk(c, a) \/ AnswerThenEnd(c, a)
    PROVE  Rest'
<1> USE DEF CounterTypeOK, serverVars
<1>0. TakeAnswer(c, a)
  BY DEF AnswerThenAsk, AnswerThenEnd
<1>1. UNCHANGED <<counterAt, count, askedBy, sums, additions, requests, asks, lost>>
  BY <1>0 DEF TakeAnswer, Delivered
<1>2. PICK again \in BOOLEAN :
         /\ copies' = [copies EXCEPT ![c] = IF again THEN @ + 1 ELSE @]
         /\ answers' = IF again THEN answers
                                ELSE [answers EXCEPT ![c] = @ \ {a}]
  BY <1>0 DEF TakeAnswer, Delivered
<1>3. \A d \in Clients2 : answers'[d] \subseteq answers[d]
  BY <1>2
<1>4. FiniteAnswers'
  BY <1>3, FS_Subset DEF Rest, FiniteAnswers
<1>5. AnswersNumbered' /\ AnswersTrue'
  BY <1>1, <1>3 DEF Rest, AnswersNumbered, AnswersTrue
<1>6. AskedBefore'
  BY <1>1 DEF Rest, AskedBefore
<1>7. Conservation'
  <2> SUFFICES ASSUME NEW d \in Clients2, ~CounterGone, asker'[d] # "exited"
               PROVE  requests[d] + Cardinality(answers'[d]) + Held(d) + Ready(d)'
                        + lost[d] = 1 + copies'[d]
    BY <1>1 DEF Conservation, CounterGone, Held
  <2>1. asker[d] # "exited"
    BY <1>0 DEF TakeAnswer, AnswerThenAsk, AnswerThenEnd
  <2>2. requests[d] + Cardinality(answers[d]) + Held(d) + Ready(d) + lost[d] = 1 + copies[d]
    BY <2>1 DEF Rest, Conservation
  <2>3. IsFiniteSet(answers[d]) /\ Cardinality(answers[d]) \in Nat /\ Held(d) \in Nat
    BY FS_CardinalityType DEF Rest, FiniteAnswers, Held
  <2>4. CASE d # c
    <3>1. answers'[d] = answers[d] /\ copies'[d] = copies[d]
      BY <1>2, <2>4
    <3>2. Ready(d)' = Ready(d)
      BY <2>4 DEF AnswerThenAsk, AnswerThenEnd, Ready
    <3> QED BY <2>2, <3>1, <3>2
  <2>5. CASE d = c
    <3>1. Ready(d) = 0 /\ Ready(d)' = 1
      BY <1>0, <2>5 DEF TakeAnswer, AnswerThenAsk, AnswerThenEnd, Ready
    <3>2. CASE again
      <4>1. answers'[d] = answers[d] /\ copies'[d] = copies[d] + 1
        BY <1>2, <2>5, <3>2
      <4> QED BY <2>2, <2>3, <3>1, <4>1
    <3>3. CASE ~again
      <4>1. answers'[d] = answers[d] \ {a} /\ copies'[d] = copies[d]
        BY <1>2, <2>5, <3>3
      <4>2. Cardinality(answers[d]) = Cardinality(answers'[d]) + 1
            /\ Cardinality(answers'[d]) \in Nat
        BY <4>1, <2>3, <2>5, OneAnswerLess
      <4> QED BY <2>2, <2>3, <3>1, <4>1, <4>2
    <3> QED BY <3>2, <3>3
  <2> QED BY <2>4, <2>5
<1> QED BY <1>4, <1>5, <1>6, <1>7 DEF Rest

(* One datagram less, one loss more.                                       *)
LEMMA RestLoss ==
    ASSUME CounterTypeOK, Rest, NEW c \in Clients2,
           LoseRequest(c) \/ LoseAnswer(c)
    PROVE  Rest'
<1> USE DEF CounterTypeOK, serverVars, askerVars
<1>1. /\ UNCHANGED <<counterAt, count, askedBy, sums, additions, asker, asks, copies>>
      /\ lost' = [lost EXCEPT ![c] = @ + 1]
  BY DEF LoseRequest, LoseAnswer, Lost
<1>2. \A d \in Clients2 : answers'[d] \subseteq answers[d]
  BY DEF LoseRequest, LoseAnswer
<1>3. FiniteAnswers'
  BY <1>2, FS_Subset DEF Rest, FiniteAnswers
<1>4. AnswersNumbered' /\ AnswersTrue'
  BY <1>1, <1>2 DEF Rest, AnswersNumbered, AnswersTrue
<1>5. AskedBefore'
  <2>1. \A d \in Clients2 : requests'[d] > 0 => requests[d] > 0
    BY DEF LoseRequest, LoseAnswer
  <2> QED BY <1>1, <2>1 DEF Rest, AskedBefore
<1>6. Conservation'
  <2> SUFFICES ASSUME NEW d \in Clients2, ~CounterGone, asker[d] # "exited"
               PROVE  requests'[d] + Cardinality(answers'[d]) + Held(d) + Ready(d)
                        + lost'[d] = 1 + copies[d]
    BY <1>1 DEF Conservation, CounterGone, Held, Ready
  <2>1. requests[d] + Cardinality(answers[d]) + Held(d) + Ready(d) + lost[d] = 1 + copies[d]
    BY DEF Rest, Conservation
  <2>2. /\ IsFiniteSet(answers[d]) /\ Cardinality(answers[d]) \in Nat
        /\ Held(d) \in Nat /\ Ready(d) \in Nat
    BY FS_CardinalityType DEF Rest, FiniteAnswers, Held, Ready
  <2>3. CASE d # c
    <3>1. answers'[d] = answers[d] /\ requests'[d] = requests[d] /\ lost'[d] = lost[d]
      BY <1>1, <2>3 DEF LoseRequest, LoseAnswer
    <3> QED BY <2>1, <3>1
  <2>4. CASE d = c /\ LoseRequest(c)
    <3>1. answers'[d] = answers[d] /\ requests'[d] = requests[d] - 1 /\ lost'[d] = lost[d] + 1
      BY <1>1, <2>4 DEF LoseRequest
    <3> QED BY <2>1, <2>2, <3>1
  <2>5. CASE d = c /\ LoseAnswer(c)
    <3>1. requests'[d] = requests[d] /\ lost'[d] = lost[d] + 1
      BY <1>1, <2>5 DEF LoseAnswer
    <3>2. PICK a \in answers[c] : answers' = [answers EXCEPT ![c] = @ \ {a}]
      BY <2>5 DEF LoseAnswer
    <3>3. answers'[d] = answers[d] \ {a}
      BY <2>5, <3>2
    <3>4. Cardinality(answers[d]) = Cardinality(answers'[d]) + 1
          /\ Cardinality(answers'[d]) \in Nat
      BY <3>3, <2>2, <2>5, OneAnswerLess
    <3> QED BY <2>1, <2>2, <3>1, <3>4
  <2> QED BY <2>3, <2>4, <2>5
<1> QED BY <1>3, <1>4, <1>5, <1>6 DEF Rest

-----------------------------------------------------------------------------
(* The invariant holds in every reachable state: stop and wait conserves   *)
(* the datagrams of every client that runs, and every answer under way is  *)
(* a sum that an addition for its client reached.                          *)
THEOREM CounterInvariant == CounterSpec => []CounterInv
<1>1. CounterInv <=> CounterTypeOK /\ Rest
  BY DEF CounterInv, Rest
<1>2. CounterInit => CounterInv
  BY <1>1, TypeInit, RestInit
<1>3. CounterInv /\ [CounterNext]_counterVars => CounterInv'
  <2> SUFFICES ASSUME CounterTypeOK, Rest, [CounterNext]_counterVars
               PROVE  CounterTypeOK' /\ Rest'
    BY <1>1 DEF CounterInv, Rest
  <2>1. CASE CounterStarts \/ SendCount \/ CounterFails
    BY <2>1, TypeServer, RestServer, RestSend
  <2>2. CASE \E c \in Clients2 : Bump(c)
    BY <2>2, TypeBump, RestBump
  <2>3. CASE \E c \in Clients2 : AskerStarts(c) \/ Ask(c) \/ AskerFails(c)
    BY <2>3, TypeAsker, RestAsker
  <2>4. CASE \E c \in Clients2 : LoseRequest(c) \/ LoseAnswer(c)
    BY <2>4, TypeAsker, RestLoss
  <2>5. CASE \E c \in Clients2 : \E a \in answers[c] :
                AnswerThenAsk(c, a) \/ AnswerThenEnd(c, a)
    BY <2>5, TypeAnswer, RestAnswer
  <2>6. CASE UNCHANGED counterVars
    BY <2>6 DEF counterVars, CounterTypeOK, Rest, FiniteAnswers, AnswersNumbered,
       Conservation, AnswersTrue, AskedBefore, CounterGone, Held, Ready
  <2> QED
    BY <2>1, <2>2, <2>3, <2>4, <2>5, <2>6 DEF CounterNext, CounterWork, AskerWork
<1> QED BY <1>2, <1>3, PTL DEF CounterSpec

-----------------------------------------------------------------------------
(* The refinement.                                                         *)

AskedView == {c \in Clients2 : asks[c] > 0}

(* While the server does not add, the sum of the host stays what it was.   *)
LEMMA HostCountKept ==
    ASSUME CounterTypeOK, CounterStarts \/ SendCount \/ CounterFails
    PROVE  HostCount' = HostCount
BY DEF CounterStarts, SendCount, CounterFails, CountAfterSend, HostCount,
   CounterTypeOK, askerVars, netStats

LEMMA BumpIsAdd ==
    ASSUME CounterTypeOK, AskedBefore, NEW c \in Clients2, Bump(c)
    PROVE  Acc!Add(c)
<1> USE DEF CounterTypeOK
<1> DEFINE new == Plus(count, IncAmount[c])
<1>1. c \in AskedView
  BY DEF Bump, AskedBefore, AskedView
<1>2. HostCount = count
  BY DEF Bump, HostCount
<1>3. new \in Word /\ count' = Swap[new] /\ sums' = [sums EXCEPT ![c] = @ \cup {new}]
  BY Arithmetic, IncrementArrives DEF Bump
<1>4. HostCount' = new
  BY <1>3, Arithmetic DEF Bump, HostCount
<1>5. UNCHANGED <<AskedView, total>>
  BY DEF Bump, askerVars, AskedView
<1> QED BY <1>1, <1>2, <1>3, <1>4, <1>5 DEF Acc!Add, AskedView

LEMMA AskIsAsk ==
    ASSUME CounterTypeOK, NEW c \in Clients2, Ask(c)
    PROVE  Acc!Ask(c)
<1>1. UNCHANGED <<HostCount, sums, total>>
  BY DEF Ask, serverVars, HostCount
<1>2. AskedView' = AskedView \cup {c}
  BY DEF Ask, AskedView, CounterTypeOK
<1> QED BY <1>1, <1>2 DEF Acc!Ask, AskedView

LEMMA AnswerIsShow ==
    ASSUME CounterTypeOK, AnswersTrue, NEW c \in Clients2, NEW a \in answers[c],
           TakeAnswer(c, a)
    PROVE  Acc!Show(c)
<1>1. UNCHANGED <<HostCount, sums, AskedView>>
  BY DEF TakeAnswer, serverVars, HostCount, AskedView
<1>2. Swap[a.count] \in sums[c]
  BY DEF AnswersTrue
<1>3. total' = [total EXCEPT ![c] = @ \cup {Swap[a.count]}]
  BY DEF TakeAnswer, Shown
<1> QED BY <1>1, <1>2, <1>3 DEF Acc!Show, AskedView

LEMMA RestStutters ==
    ASSUME CounterTypeOK, NEW c \in Clients2,
           \/ AskerStarts(c) \/ AskerFails(c) \/ LoseRequest(c) \/ LoseAnswer(c)
    PROVE  UNCHANGED <<HostCount, AskedView, sums, total>>
BY DEF AskerStarts, AskerFails, LoseRequest, LoseAnswer, serverVars, askerVars,
   HostCount, AskedView

(* The server and its clients implement the counting server of             *)
(* Accumulator, at every width of the count and with every datagram lost,  *)
(* late or delivered again.                                                *)
THEOREM ImplementsTheCounter == CounterSpec => ImplementsAccumulator
<1>1. CounterInit => Acc!Init
  <2> SUFFICES ASSUME CounterInit PROVE Acc!Init OBVIOUS
  <2>1. AskedView = {} /\ HostCount = 0
    BY DEF CounterInit, AskedView, HostCount
  <2> QED BY <2>1 DEF CounterInit, Acc!Init, AskedView
<1>2. CounterInv /\ [CounterNext]_counterVars => [Acc!Next]_(Acc!accVars)
  <2> SUFFICES ASSUME CounterTypeOK, AnswersTrue, AskedBefore,
                      [CounterNext]_counterVars
               PROVE  Acc!Next \/ UNCHANGED <<HostCount, AskedView, sums, total>>
    BY DEF CounterInv, Acc!accVars, AskedView
  <2>1. CASE CounterStarts \/ SendCount \/ CounterFails
    <3>1. UNCHANGED <<AskedView, sums, total>>
      BY <2>1 DEF CounterStarts, SendCount, CounterFails, askerVars, AskedView
    <3> QED BY <2>1, <3>1, HostCountKept
  <2>2. CASE \E c \in Clients2 : Bump(c)
    BY <2>2, BumpIsAdd DEF Acc!Next
  <2>3. CASE \E c \in Clients2 : Ask(c)
    BY <2>3, AskIsAsk DEF Acc!Next
  <2>4. CASE \E c \in Clients2 : \E a \in answers[c] :
                AnswerThenAsk(c, a) \/ AnswerThenEnd(c, a)
    BY <2>4, AnswerIsShow DEF Acc!Next, AnswerThenAsk, AnswerThenEnd
  <2>5. CASE \E c \in Clients2 : \/ AskerStarts(c) \/ AskerFails(c)
                                 \/ LoseRequest(c) \/ LoseAnswer(c)
    BY <2>5, RestStutters
  <2>6. CASE UNCHANGED counterVars
    BY <2>6 DEF counterVars, HostCount, AskedView
  <2> QED
    BY <2>1, <2>2, <2>3, <2>4, <2>5, <2>6 DEF CounterNext, CounterWork, AskerWork
<1> QED
  BY <1>1, <1>2, CounterInvariant, PTL
     DEF CounterSpec, ImplementsAccumulator, Acc!Spec

-----------------------------------------------------------------------------
(* udpserver and udpclient.                                                *)

FromServer == {d \in toClient : d.from = "server"}
HeldForEcho == IF udpServerAt = "echo" THEN 1 ELSE 0

LEMMA EchoSizes ==
    ASSUME UdpEchoInv
    PROVE  /\ IsFiniteSet(toServer) /\ Cardinality(toServer) \in Nat
           /\ IsFiniteSet(FromServer) /\ Cardinality(FromServer) \in Nat
           /\ Exchange = Cardinality(toServer) + Cardinality(FromServer) + HeldForEcho
           /\ Exchange \in Nat /\ HeldForEcho \in Nat /\ Waiting \in Nat
<1>1. IsFiniteSet(toServer)
  <2>1. message_counter \in Nat /\ toServer \subseteq 1..message_counter
    BY EchoAssumption DEF UdpEchoInv, UdpEchoTypeOK
  <2>2. IsFiniteSet(1..message_counter)
    BY <2>1, FS_Interval
  <2> QED BY <2>1, <2>2, FS_Subset
<1>2. IsFiniteSet(FromServer)
  BY FS_Subset DEF UdpEchoInv, UnderWay, FromServer
<1>3. Cardinality(toServer) \in Nat /\ Cardinality(FromServer) \in Nat
  BY <1>1, <1>2, FS_CardinalityType
<1>4. Exchange = Cardinality(toServer) + Cardinality(FromServer) + HeldForEcho
  BY DEF Exchange, FromServer, HeldForEcho
<1> QED BY <1>1, <1>2, <1>3, <1>4 DEF HeldForEcho, Waiting

LEMMA EchoCounts ==
    ASSUME UdpEchoInv
    PROVE  /\ repeats \in Nat /\ strayed \in Nat /\ cuts \in Nat /\ glitches \in Nat
           /\ mismatches \in Nat /\ message_counter \in Nat
           /\ held \in Nat /\ held <= message_counter
           /\ Disturbances \in Nat
BY EchoAssumption DEF UdpEchoInv, UdpEchoTypeOK, UnderWay, Disturbances

LEMMA EchoInitInv == UdpEchoInit => UdpEchoInv
<1> SUFFICES ASSUME UdpEchoInit PROVE UdpEchoInv
  OBVIOUS
<1>1. Cardinality({}) = 0 /\ IsFiniteSet({})
  BY FS_EmptySet
<1>2. UdpEchoTypeOK
  <2>1. {do_an_echo, out_file, no_send, wait_receive} \subseteq BOOLEAN
    BY Zenon DEF UdpEchoInit
  <2> QED BY <2>1, EchoAssumption DEF UdpEchoInit, UdpEchoTypeOK, Hosts
<1>3. Exchange = 0
  <2>1. {d \in toClient : d.from = "server"} = {} /\ toServer = {} /\ udpServerAt = "start"
    BY DEF UdpEchoInit
  <2>2. Cardinality({d \in toClient : d.from = "server"}) = 0 /\ Cardinality(toServer) = 0
    BY <1>1, <2>1
  <2> QED BY <2>1, <2>2 DEF Exchange
<1>4. OneExchange
  BY <1>3 DEF UdpEchoInit, OneExchange, Waiting, Disturbances
<1> QED
  BY <1>1, <1>2, <1>4
  DEF UdpEchoInit, UdpEchoInv, RepliesMatch, UnderWay, OnlyTheLast, Disturbances

(* The server starts, looks for a key, gets nothing, fails or ends.        *)
LEMMA EchoServerQuiet ==
    ASSUME UdpEchoInv,
           \/ EchoServerStarts \/ EchoServerBadArgs \/ EchoServerReplyFails
           \/ EchoServerEnds
           \/ \E b \in BOOLEAN : EchoServerKeys(b) \/ EchoServerNothing(b)
    PROVE  UdpEchoInv'
<1>1. /\ udpServerAt' \in {"keys", "recv", "end", "exited"}
      /\ held' = held \/ held' = 0
      /\ {do_an_echo', out_file'} \subseteq BOOLEAN
      /\ UNCHANGED <<echoClient, echoNet, glitches, waitHistory>>
  BY DEF EchoServerStarts, EchoServerBadArgs, EchoServerReplyFails, EchoServerEnds,
         EchoServerKeys, EchoServerNothing, EchoServerArgs, UdpEchoInv, UdpEchoTypeOK
<1>2. UNCHANGED <<udpClientAt, no_send, wait_receive, serveraddr, serveraddrlen,
                  message_counter, retries, toServer, toClient, losses, repeats, strays,
                  glitches, cuts, diverted, strayed, mismatches>>
  BY <1>1 DEF echoClient, echoNet, waitHistory
<1>3. Exchange' <= Exchange /\ Exchange' \in Nat /\ Waiting' = Waiting
  <2>1. FromServer' = FromServer /\ HeldForEcho' = 0
    BY <1>1, <1>2 DEF FromServer, HeldForEcho
  <2>2. Exchange' = Cardinality(toServer) + Cardinality(FromServer)
    BY <1>2, <2>1, EchoSizes DEF Exchange, FromServer, HeldForEcho
  <2> QED BY <1>2, <2>2, EchoSizes DEF Waiting
<1>4. OneExchange'
  BY <1>2, <1>3, EchoSizes, EchoCounts DEF UdpEchoInv, OneExchange, Disturbances
<1>5. UdpEchoTypeOK' /\ UnderWay'
  BY <1>1, <1>2, EchoCounts, EchoAssumption DEF UdpEchoInv, UdpEchoTypeOK, UnderWay
<1>6. RepliesMatch' /\ OnlyTheLast'
  BY <1>1, <1>2 DEF UdpEchoInv, RepliesMatch, OnlyTheLast, Disturbances
<1> QED BY <1>4, <1>5, <1>6 DEF UdpEchoInv

LEMMA EchoServerGetsInv ==
    ASSUME UdpEchoInv, NEW n \in toServer, EchoServerReceives(n)
    PROVE  UdpEchoInv'
<1>1. PICK again \in BOOLEAN :
          /\ Repeating(again)
          /\ toServer' = IF again THEN toServer ELSE toServer \ {n}
  BY DEF EchoServerReceives
<1>2. UNCHANGED <<do_an_echo, out_file, udpClientAt, no_send, wait_receive, serveraddr,
                  serveraddrlen, message_counter, retries, toClient, losses, strays,
                  glitches, cuts, diverted, strayed, mismatches>>
  BY DEF EchoServerReceives, echoClient, waitHistory
<1>3. /\ udpServerAt = "recv" /\ udpServerAt' \in {"echo", "keys", "end"}
      /\ held' = n \/ held' = 0
      /\ udpServerAt' = "echo" => held' = n
  BY DEF EchoServerReceives
<1>4. n \in 1..message_counter
  BY DEF UdpEchoInv, UdpEchoTypeOK
<1>5. repeats' \in Nat /\ repeats' = repeats + (IF again THEN 1 ELSE 0)
  BY <1>1, EchoCounts DEF Repeating
<1>6. Exchange' <= Exchange + (IF again THEN 1 ELSE 0) /\ Exchange' \in Nat
  <2>1. FromServer' = FromServer /\ HeldForEcho = 0 /\ HeldForEcho' \in {0, 1}
    BY <1>2, <1>3 DEF FromServer, HeldForEcho
  <2>2. Cardinality(toServer') = Cardinality(toServer) - (IF again THEN 0 ELSE 1)
        /\ Cardinality(toServer') \in Nat
    <3>1. CASE again
      BY <1>1, <3>1, EchoSizes
    <3>2. CASE ~again
      <4>1. toServer' = toServer \ {n}
        BY <1>1, <3>2
      <4> QED BY <3>2, <4>1, EchoSizes, OneAnswerLess
    <3> QED BY <3>1, <3>2
  <2>3. Exchange' = Cardinality(toServer') + Cardinality(FromServer) + HeldForEcho'
    BY <2>1 DEF Exchange, FromServer, HeldForEcho
  <2> QED BY <2>1, <2>2, <2>3, EchoSizes
<1>7. OneExchange'
  <2>1. Waiting' = Waiting
    BY <1>2 DEF Waiting
  <2> QED BY <1>2, <1>5, <1>6, <2>1, EchoSizes, EchoCounts DEF UdpEchoInv, OneExchange, Disturbances
<1>8. UdpEchoTypeOK' /\ UnderWay'
  BY <1>1, <1>2, <1>3, <1>4, <1>5, EchoCounts, EchoAssumption
  DEF UdpEchoInv, UdpEchoTypeOK, UnderWay
<1>9. RepliesMatch'
  BY <1>2, <1>5, EchoCounts DEF UdpEchoInv, RepliesMatch, Disturbances
<1>10. OnlyTheLast'
  <2>1. Disturbances' = 0 => Disturbances = 0
    BY <1>2, <1>5, EchoCounts DEF Disturbances
  <2> QED BY <1>1, <1>2, <1>3, <2>1 DEF UdpEchoInv, OnlyTheLast
<1> QED BY <1>7, <1>8, <1>9, <1>10 DEF UdpEchoInv

LEMMA EchoServerRepliesInv ==
    ASSUME UdpEchoInv, EchoServerReplies
    PROVE  UdpEchoInv'
<1> DEFINE e == [from |-> "server", no |-> held]
<1>1. /\ udpServerAt = "echo" /\ udpServerAt' = "keys" /\ held' = 0
      /\ toClient' = toClient \cup {e}
      /\ UNCHANGED <<do_an_echo, out_file, udpClientAt, no_send, wait_receive, serveraddr,
                     serveraddrlen, message_counter, retries, toServer, losses, repeats,
                     strays, glitches, cuts, diverted, strayed, mismatches>>
  BY DEF EchoServerReplies, RepliesAfter, echoClient, waitHistory
<1>2. e.from = "server" /\ e.no = held /\ e \in [from : Hosts, no : 0..message_counter]
  BY EchoCounts DEF Hosts
<1> HIDE DEF e
<1>3. Exchange' <= Exchange /\ Exchange' \in Nat
  <2>1. FromServer' = FromServer \cup {e} /\ HeldForEcho' = 0 /\ HeldForEcho = 1
    BY <1>1, <1>2 DEF FromServer, HeldForEcho
  <2>2. Cardinality(FromServer') <= Cardinality(FromServer) + 1
        /\ Cardinality(FromServer') \in Nat
    <3>1. IsFiniteSet(FromServer) /\ Cardinality(FromServer) \in Nat
      BY EchoSizes
    <3>2. Cardinality(FromServer \cup {e}) =
              IF e \in FromServer THEN Cardinality(FromServer) ELSE Cardinality(FromServer) + 1
      BY <3>1, FS_AddElement
    <3> QED BY <2>1, <3>1, <3>2
  <2>3. Exchange' = Cardinality(toServer) + Cardinality(FromServer')
    BY <1>1, <2>1, <2>2, EchoSizes DEF Exchange, FromServer, HeldForEcho
  <2> QED BY <2>1, <2>2, <2>3, EchoSizes
<1>4. OneExchange'
  <2>1. Waiting' = Waiting
    BY <1>1 DEF Waiting
  <2> QED BY <1>1, <1>3, <2>1, EchoSizes, EchoCounts DEF UdpEchoInv, OneExchange, Disturbances
<1>5. UnderWay'
  BY <1>1, EchoCounts, FS_AddElement DEF UdpEchoInv, UnderWay
<1>6. UdpEchoTypeOK'
  BY <1>1, <1>2, EchoAssumption DEF UdpEchoInv, UdpEchoTypeOK
<1>7. RepliesMatch' /\ OnlyTheLast'
  BY <1>1, <1>2 DEF UdpEchoInv, RepliesMatch, OnlyTheLast, Disturbances
<1> QED BY <1>4, <1>5, <1>6, <1>7 DEF UdpEchoInv

-----------------------------------------------------------------------------
(* The client's steps that receive nothing.                                *)

(* Nothing under way changes, nor what the server is at.                   *)
EchoNetSame == UNCHANGED <<do_an_echo, out_file, udpServerAt, held, toServer, toClient,
                           losses, repeats, strays, diverted, strayed, mismatches>>

LEMMA NetSameExchange ==
    ASSUME UdpEchoInv, EchoNetSame
    PROVE  Exchange' = Exchange /\ Exchange \in Nat
<1>1. Exchange \in Nat
  BY EchoSizes
<1>2. Exchange' = Exchange
  BY DEF EchoNetSame, Exchange
<1> QED BY <1>1, <1>2

LEMMA EchoClientQuiet ==
    ASSUME UdpEchoInv,
           \/ EchoClientStarts \/ EchoClientEscape \/ EchoClientSendFails
           \/ EchoClientSkips \/ EchoClientRetrySend \/ EchoClientRetriesOver
           \/ EchoClientEnds \/ \E b \in BOOLEAN : EchoClientWaits(b)
    PROVE  UdpEchoInv'
<1>1. /\ EchoNetSame
      /\ UNCHANGED <<serveraddr, retries, glitches, cuts>>
      /\ wait_receive' \in BOOLEAN /\ no_send' \in BOOLEAN
  BY DEF EchoClientStarts, EchoClientEscape, EchoClientSendFails, EchoClientSkips,
         EchoClientRetrySend, EchoClientRetriesOver, EchoClientEnds, EchoClientWaits,
         EchoNetSame, echoServer, echoNet, waitHistory, UdpEchoInv, UdpEchoTypeOK
<1>2. UNCHANGED <<do_an_echo, out_file, udpServerAt, held, toServer, toClient,
                  losses, repeats, strays, diverted, strayed, mismatches>>
  BY <1>1 DEF EchoNetSame
<1>3. /\ message_counter' \in 0..MaxMessages /\ message_counter <= message_counter'
      /\ udpClientAt' # "end" => message_counter' = message_counter
  BY EchoAssumption DEF EchoClientStarts, EchoClientEscape, EchoClientSendFails, EchoClientSkips,
         EchoClientRetrySend, EchoClientRetriesOver, EchoClientEnds, EchoClientWaits,
         UdpEchoInv, UdpEchoTypeOK
<1>4. \/ udpClientAt' \in {"end", "exited"} /\ UNCHANGED serveraddrlen
      \/ udpClientAt = "start" /\ udpClientAt' = "turn" /\ UNCHANGED serveraddrlen
      \/ udpClientAt = "turn" /\ udpClientAt' = "wait" /\ no_send /\ UNCHANGED <<serveraddrlen, no_send>>
      \/ /\ udpClientAt = "wait" /\ udpClientAt' = "recv" /\ UNCHANGED no_send
         /\ serveraddrlen' = PointerSize
      \/ /\ udpClientAt = "retry" /\ retries = 0 /\ udpClientAt' = "turn"
         /\ UNCHANGED <<serveraddrlen, no_send>>
  BY DEF EchoClientStarts, EchoClientEscape, EchoClientSendFails, EchoClientSkips,
         EchoClientRetrySend, EchoClientRetriesOver, EchoClientEnds, EchoClientWaits,
         LenBeforeRecv
<1>5. OneExchange'
  <2>1. Exchange' = Exchange
    BY <1>1, NetSameExchange
  <2>2. udpClientAt' \notin {"end", "exited"} =>
            Waiting' = Waiting /\ udpClientAt \notin {"end", "exited"}
    BY <1>4 DEF Waiting
  <2> QED BY <1>1, <1>2, <2>1, <2>2 DEF UdpEchoInv, OneExchange, Disturbances
<1>6. UdpEchoTypeOK'
  <2>1. toServer \subseteq 1..message_counter' /\
        toClient \subseteq [from : Hosts, no : 0..message_counter']
    <3>1. toServer \subseteq 1..message_counter /\ message_counter \in Nat
          /\ message_counter' \in Nat
      BY <1>3, EchoCounts, EchoAssumption DEF UdpEchoInv, UdpEchoTypeOK
    <3>2. 0..message_counter \subseteq 0..message_counter'
      BY <1>3, <3>1
    <3>3. [from : Hosts, no : 0..message_counter] \subseteq [from : Hosts, no : 0..message_counter']
      BY <3>2
    <3>4. toClient \subseteq [from : Hosts, no : 0..message_counter]
      BY DEF UdpEchoInv, UdpEchoTypeOK
    <3> QED BY <1>3, <3>1, <3>3, <3>4
  <2>2. udpClientAt' \in {"start", "turn", "wait", "recv", "retry", "end", "exited"}
        /\ serveraddrlen' \in {PointerSize, WholeAddr}
    BY <1>4 DEF UdpEchoInv, UdpEchoTypeOK
  <2> QED BY <1>1, <1>2, <1>3, <2>1, <2>2 DEF UdpEchoInv, UdpEchoTypeOK
<1>7. UnderWay' /\ RepliesMatch'
  BY <1>1, <1>2, <1>3, EchoCounts, EchoAssumption
  DEF UdpEchoInv, UnderWay, RepliesMatch, Disturbances
<1>8. OnlyTheLast'
  BY <1>1, <1>2, <1>3, <1>4 DEF UdpEchoInv, OnlyTheLast, Disturbances
<1> QED BY <1>5, <1>6, <1>7, <1>8 DEF UdpEchoInv

(* The wait ends with an r, or with an error: both are counted.            *)
LEMMA EchoClientDisturbed ==
    ASSUME UdpEchoInv, EchoClientNothing \/ EchoClientGlitch
    PROVE  UdpEchoInv'
<1>1. /\ EchoNetSame /\ udpClientAt = "recv"
      /\ UNCHANGED <<no_send, wait_receive, serveraddr, serveraddrlen, message_counter>>
  BY DEF EchoClientNothing, EchoClientGlitch, EchoNetSame, echoServer, echoNet, waitHistory
<1>2. UNCHANGED <<do_an_echo, out_file, udpServerAt, held, toServer, toClient,
                  losses, repeats, strays, diverted, strayed, mismatches>>
  BY <1>1 DEF EchoNetSame
<1>3. /\ cuts' \in Nat /\ glitches' \in Nat /\ retries' \in 0..MaxRetries
      /\ \/ udpClientAt' = "wait" /\ UNCHANGED <<cuts, glitches>>
         \/ udpClientAt' = "turn" /\ cuts' = cuts + 1 /\ UNCHANGED glitches
         \/ udpClientAt' = "retry" /\ glitches' = glitches + 1 /\ UNCHANGED cuts
  <2>1. CASE EchoClientNothing
    BY <2>1, EchoCounts DEF EchoClientNothing, AfterNothing, UdpEchoInv, UdpEchoTypeOK
  <2>2. CASE EchoClientGlitch
    BY <2>2, EchoCounts, EchoAssumption DEF EchoClientGlitch, waitHistory
  <2> QED BY <2>1, <2>2
<1>4. OneExchange'
  <2>1. Exchange' = Exchange /\ Exchange \in Nat
    BY <1>1, NetSameExchange
  <2>2. Exchange <= Waiting + Disturbances
    BY <1>1 DEF UdpEchoInv, OneExchange
  <2>3. Waiting \in {0, 1} /\ Waiting' \in {0, 1} /\ (udpClientAt' = "wait" => Waiting' = Waiting)
    BY <1>1 DEF Waiting
  <2> QED BY <1>2, <1>3, <2>1, <2>2, <2>3, EchoCounts DEF OneExchange, Disturbances
<1>5. UdpEchoTypeOK'
  BY <1>1, <1>2, <1>3 DEF UdpEchoInv, UdpEchoTypeOK
<1>6. \/ udpClientAt' = "wait" /\ Disturbances' = Disturbances
      \/ udpClientAt' \in {"turn", "retry"} /\ Disturbances' > 0
  BY <1>2, <1>3, EchoCounts DEF Disturbances
<1>7. UnderWay' /\ RepliesMatch' /\ OnlyTheLast'
  BY <1>1, <1>2, <1>6, EchoCounts DEF UdpEchoInv, UnderWay, RepliesMatch, OnlyTheLast
<1> QED BY <1>4, <1>5, <1>7 DEF UdpEchoInv

(* The next message is sent.  Before, nothing was under way but what is    *)
(* counted; so if nothing is, it is alone.                                 *)
LEMMA EchoClientSendsInv ==
    ASSUME UdpEchoInv, EchoClientSends
    PROVE  UdpEchoInv'
<1>1. /\ udpClientAt = "turn" /\ udpClientAt' = "wait" /\ ~no_send /\ no_send' = no_send
      /\ serveraddrlen = WholeAddr /\ message_counter < MaxMessages
      /\ message_counter' = message_counter + 1
      /\ wait_receive' = TRUE /\ diverted' \in Nat
      /\ UNCHANGED <<do_an_echo, out_file, udpServerAt, held, serveraddr, serveraddrlen,
                     retries, toClient, losses, repeats, strays, glitches, cuts, strayed,
                     mismatches>>
  BY DEF EchoClientSends, AddressTaken, echoServer, UdpEchoInv, UdpEchoTypeOK
<1>2. /\ serveraddr = "server" => toServer' = toServer \cup {message_counter'}
      /\ serveraddr # "server" => toServer' = toServer
      /\ serveraddr \in {"server", "other"}
  BY <1>1 DEF EchoClientSends, SentTo, UdpEchoInv, UdpEchoTypeOK, Hosts
<1>3. toServer \subseteq 1..message_counter /\ toServer' \subseteq 1..message_counter'
      /\ message_counter' \in 0..MaxMessages
  <2>1. message_counter \in 0..MaxMessages /\ MaxMessages \in Nat
        /\ toServer \subseteq 1..message_counter
    BY EchoAssumption DEF UdpEchoInv, UdpEchoTypeOK
  <2>2. message_counter' \in 1..message_counter' /\ 1..message_counter \subseteq 1..message_counter'
        /\ message_counter' \in 0..MaxMessages
    BY <1>1, <2>1
  <2> QED BY <1>2, <2>1, <2>2
<1>4. Disturbances' = Disturbances
  BY <1>1 DEF Disturbances
<1>5. Exchange <= Disturbances
  <2>1. Exchange <= Waiting + Disturbances /\ Waiting = 0
    BY <1>1 DEF UdpEchoInv, OneExchange, Waiting
  <2> QED BY <2>1, EchoSizes, EchoCounts
<1>6. OneExchange'
  <2>1. FromServer' = FromServer /\ HeldForEcho' = HeldForEcho
    BY <1>1 DEF FromServer, HeldForEcho
  <2>2. Cardinality(toServer') <= Cardinality(toServer) + 1 /\ Cardinality(toServer') \in Nat
    <3>1. message_counter' \notin toServer /\ IsFiniteSet(toServer)
      BY <1>1, <1>3, EchoSizes, EchoCounts
    <3>2. Cardinality(toServer \cup {message_counter'}) = Cardinality(toServer) + 1
      BY <3>1, OneAnswerMore
    <3>3. Cardinality(toServer) \in Nat
      BY EchoSizes
    <3>4. CASE serveraddr = "server"
      BY <1>2, <3>2, <3>3, <3>4
    <3>5. CASE serveraddr # "server"
      BY <1>2, <3>3, <3>5
    <3> QED BY <3>4, <3>5
  <2>3. Exchange' = Cardinality(toServer') + Cardinality(FromServer) + HeldForEcho
    BY <2>1 DEF Exchange, FromServer, HeldForEcho
  <2>4. Exchange' <= Exchange + 1 /\ Exchange' \in Nat
    BY <2>2, <2>3, EchoSizes
  <2>5. Waiting' = 1
    BY <1>1 DEF Waiting
  <2> QED BY <1>1, <1>4, <1>5, <2>4, <2>5, EchoSizes, EchoCounts DEF OneExchange
<1>7. UdpEchoTypeOK'
  <2>1. toClient \subseteq [from : Hosts, no : 0..message_counter']
    <3>1. 0..message_counter \subseteq 0..message_counter'
      BY <1>1, EchoCounts
    <3>2. toClient \subseteq [from : Hosts, no : 0..message_counter]
      BY DEF UdpEchoInv, UdpEchoTypeOK
    <3> QED BY <3>1, <3>2
  <2> QED BY <1>1, <1>3, <2>1 DEF UdpEchoInv, UdpEchoTypeOK
<1>8. UnderWay' /\ RepliesMatch'
  BY <1>1, <1>4, EchoCounts
  DEF UdpEchoInv, UnderWay, RepliesMatch, Disturbances
<1>9. OnlyTheLast'
  <2> SUFFICES ASSUME Disturbances = 0
               PROVE  /\ toServer' \subseteq {message_counter'}
                      /\ udpServerAt # "echo"
                      /\ \A d \in toClient : d.from # "server"
    BY <1>1, <1>4 DEF UdpEchoInv, OnlyTheLast
  <2>1. Exchange = 0
    BY <1>5, EchoSizes
  <2>2. Cardinality(toServer) = 0 /\ Cardinality(FromServer) = 0 /\ HeldForEcho = 0
    BY <2>1, EchoSizes
  <2>3. toServer = {} /\ FromServer = {}
    BY <2>2, EchoSizes, FS_EmptySet
  <2>4. udpServerAt # "echo"
    BY <2>2 DEF HeldForEcho
  <2> QED BY <1>2, <2>3, <2>4 DEF FromServer
<1> QED BY <1>6, <1>7, <1>8, <1>9 DEF UdpEchoInv

-----------------------------------------------------------------------------
(* A datagram reaches the client, in either of its loops.                  *)

LEMMA EchoGets ==
    ASSUME UdpEchoInv, NEW d \in toClient, EchoClientGets(d),
           UNCHANGED <<toServer, udpServerAt>>
    PROVE  /\ repeats' \in Nat /\ repeats' >= repeats
           /\ toClient' \subseteq toClient /\ IsFiniteSet(toClient')
           /\ Exchange' \in Nat /\ Exchange' <= Exchange
           /\ d.from = "server" => Exchange' - repeats' = Exchange - repeats - 1
           /\ serveraddr' = d.from /\ serveraddrlen' = WholeAddr
<1>1. PICK again \in BOOLEAN :
          /\ Repeating(again)
          /\ toClient' = IF again THEN toClient ELSE toClient \ {d}
  BY DEF EchoClientGets
<1>2. repeats' = repeats + (IF again THEN 1 ELSE 0) /\ repeats' \in Nat
  BY <1>1, EchoCounts DEF Repeating
<1>3. toClient' \subseteq toClient /\ IsFiniteSet(toClient')
  BY <1>1, FS_Subset DEF UdpEchoInv, UnderWay
<1>4. FromServer' = IF again \/ d.from # "server" THEN FromServer ELSE FromServer \ {d}
  BY <1>1 DEF FromServer
<1>5. Exchange' = Cardinality(toServer) + Cardinality(FromServer') + HeldForEcho
  BY DEF Exchange, FromServer, HeldForEcho
<1>6. CASE again \/ d.from # "server"
  BY <1>2, <1>3, <1>4, <1>5, <1>6, EchoSizes, EchoCounts DEF EchoClientGets
<1>7. CASE ~again /\ d.from = "server"
  <2>1. d \in FromServer /\ FromServer' = FromServer \ {d}
    BY <1>4, <1>7 DEF FromServer
  <2>2. Cardinality(FromServer') = Cardinality(FromServer) - 1 /\ Cardinality(FromServer') \in Nat
    BY <2>1, EchoSizes, OneAnswerLess
  <2>3. Exchange' = Exchange - 1 /\ Exchange' \in Nat
    BY <1>5, <2>2, EchoSizes
  <2> QED BY <1>2, <1>3, <1>7, <2>3, EchoSizes, EchoCounts DEF EchoClientGets
<1> QED BY <1>6, <1>7

LEMMA EchoClientReceivesInv ==
    ASSUME UdpEchoInv, NEW d \in toClient, EchoClientReceives(d)
    PROVE  UdpEchoInv'
<1>1. /\ udpClientAt = "recv" /\ udpClientAt' = "turn" /\ EchoClientGets(d)
      /\ strayed' = strayed + (IF d.from = "other" THEN 1 ELSE 0)
      /\ mismatches' = mismatches + (IF ~no_send /\ ~Echoes(d) THEN 1 ELSE 0)
      /\ wait_receive' = FALSE
      /\ UNCHANGED <<no_send, message_counter, retries, do_an_echo, out_file, udpServerAt,
                     held, toServer, losses, strays, glitches, cuts, diverted>>
  BY DEF EchoClientReceives, echoServer
<1>2. /\ repeats' \in Nat /\ repeats' >= repeats
      /\ toClient' \subseteq toClient /\ IsFiniteSet(toClient')
      /\ Exchange' \in Nat /\ Exchange' <= Exchange
      /\ d.from = "server" => Exchange' - repeats' = Exchange - repeats - 1
      /\ serveraddr' = d.from /\ serveraddrlen' = WholeAddr
  BY <1>1, EchoGets
<1>3. d.from \in {"server", "other"}
  BY DEF UdpEchoInv, UdpEchoTypeOK, Hosts
<1>4. /\ strayed' \in Nat /\ strayed' >= strayed
      /\ d.from = "other" => strayed' = strayed + 1
      /\ d.from # "other" => strayed' = strayed
  <2>1. CASE d.from = "other"
    <3>1. strayed' = strayed + 1
      BY <1>1, <2>1
    <3> QED BY <2>1, <3>1, EchoCounts
  <2>2. CASE d.from # "other"
    <3>1. strayed' = strayed + 0
      BY <1>1, <2>2
    <3> QED BY <2>2, <3>1, EchoCounts
  <2> QED BY <2>1, <2>2
<1>4a. /\ mismatches' \in Nat
       /\ no_send \/ Echoes(d) => mismatches' = mismatches
  <2>1. CASE ~no_send /\ ~Echoes(d)
    <3>1. mismatches' = mismatches + 1
      BY <1>1, <2>1
    <3> QED BY <2>1, <3>1, EchoCounts
  <2>2. CASE no_send \/ Echoes(d)
    <3>1. mismatches' = mismatches + 0
      BY <1>1, <2>2
    <3> QED BY <2>2, <3>1, EchoCounts
  <2> QED BY <2>1, <2>2
<1>5. OneExchange'
  <2>1. Exchange <= Waiting + Disturbances
    BY <1>1 DEF UdpEchoInv, OneExchange
  <2>2. Waiting \in {0, 1} /\ Waiting' = 0
    BY <1>1 DEF Waiting
  <2>3. CASE d.from = "server"
    <3>1. strayed' = strayed
      BY <1>4, <2>3
    <3> QED BY <1>1, <1>2, <2>1, <2>2, <2>3, <3>1, EchoSizes, EchoCounts DEF OneExchange, Disturbances
  <2>4. CASE d.from = "other"
    <3>1. strayed' = strayed + 1
      BY <1>4, <2>4
    <3> QED BY <1>1, <1>2, <2>1, <2>2, <3>1, EchoSizes, EchoCounts DEF OneExchange, Disturbances
  <2> QED BY <1>3, <2>3, <2>4
<1>6. UdpEchoTypeOK' /\ UnderWay'
  BY <1>1, <1>2, <1>3, <1>4, <1>4a DEF UdpEchoInv, UdpEchoTypeOK, UnderWay, Hosts
<1>7. RepliesMatch'
  <2>1. Disturbances' \in Nat /\ Disturbances' >= Disturbances
        /\ (d.from = "other" => Disturbances' > 0)
    BY <1>1, <1>2, <1>4, EchoCounts DEF Disturbances
  <2>2. CASE Disturbances' = 0
    <3>1. mismatches = 0 /\ Disturbances = 0 /\ d.from = "server"
      BY <1>3, <2>1, <2>2, EchoCounts DEF UdpEchoInv, RepliesMatch
    <3>2. no_send \/ Echoes(d)
      BY <1>1, <3>1 DEF UdpEchoInv, OnlyTheLast, Echoes
    <3> QED BY <1>4a, <3>1, <3>2 DEF RepliesMatch
  <2>3. CASE Disturbances' > 0
    BY <2>3 DEF RepliesMatch
  <2> QED BY <2>1, <2>2, <2>3
<1>8. OnlyTheLast'
  <2>1. serveraddr' = "other" => strayed' > 0
    BY <1>1, <1>2, EchoCounts
  <2> QED BY <1>1, <2>1 DEF OnlyTheLast
<1> QED BY <1>5, <1>6, <1>7, <1>8 DEF UdpEchoInv

LEMMA EchoClientRetryInv ==
    ASSUME UdpEchoInv, EchoClientRetryRecv
    PROVE  UdpEchoInv'
<1>1. /\ udpClientAt = "retry" /\ no_send /\ no_send' = no_send
      /\ UNCHANGED <<wait_receive, message_counter, do_an_echo, out_file, udpServerAt, held,
                     glitches, cuts, diverted, mismatches>>
  BY DEF EchoClientRetryRecv, echoServer
<1>2. ASSUME NEW d \in toClient, EchoClientGets(d),
             strayed' = strayed + (IF d.from = "other" THEN 1 ELSE 0),
             udpClientAt' = "turn", UNCHANGED <<toServer, losses, strays, retries>>
      PROVE  UdpEchoInv'
  <2>1. /\ repeats' \in Nat /\ repeats' >= repeats
        /\ toClient' \subseteq toClient /\ IsFiniteSet(toClient')
        /\ Exchange' \in Nat /\ Exchange' <= Exchange
        /\ serveraddr' = d.from /\ serveraddrlen' = WholeAddr
    BY <1>1, <1>2, EchoGets
  <2>2. strayed' \in Nat /\ strayed' >= strayed /\ d.from \in Hosts
        /\ (d.from = "other" => strayed' > 0)
    BY <1>2, EchoCounts DEF UdpEchoInv, UdpEchoTypeOK
  <2>3. OneExchange'
    <3>1. Exchange <= repeats + strayed + cuts + glitches
      BY <1>1, EchoCounts DEF UdpEchoInv, OneExchange, Disturbances, Waiting
    <3> QED BY <1>1, <1>2, <2>1, <2>2, <3>1, EchoSizes, EchoCounts DEF OneExchange, Disturbances, Waiting
  <2>4. UdpEchoTypeOK' /\ UnderWay'
    BY <1>1, <1>2, <2>1, <2>2 DEF UdpEchoInv, UdpEchoTypeOK, UnderWay
  <2>5. RepliesMatch' /\ OnlyTheLast'
    BY <1>1, <1>2, <2>1, <2>2, EchoCounts
    DEF UdpEchoInv, RepliesMatch, OnlyTheLast, Disturbances
  <2> QED BY <2>3, <2>4, <2>5 DEF UdpEchoInv
<1>3. ASSUME retries' = retries - 1, retries > 0,
             UNCHANGED <<udpClientAt, serveraddr, serveraddrlen, echoNet, strayed>>
      PROVE  UdpEchoInv'
  <2>1. UNCHANGED <<udpClientAt, serveraddr, serveraddrlen, strayed, toServer, toClient,
                    losses, repeats, strays>>
    BY <1>3 DEF echoNet
  <2>2. retries' \in 0..MaxRetries
    BY <1>3, EchoAssumption DEF UdpEchoInv, UdpEchoTypeOK
  <2>3. OneExchange'
    <3>1. Exchange' = Exchange
      BY <1>1, <2>1 DEF Exchange
    <3>2. Waiting' = Waiting
      BY <1>1, <2>1 DEF Waiting
    <3> QED BY <1>1, <2>1, <3>1, <3>2 DEF UdpEchoInv, OneExchange, Disturbances
  <2>4. UdpEchoTypeOK' /\ UnderWay'
    BY <1>1, <2>1, <2>2 DEF UdpEchoInv, UdpEchoTypeOK, UnderWay
  <2>5. RepliesMatch' /\ OnlyTheLast'
    BY <1>1, <2>1 DEF UdpEchoInv, RepliesMatch, OnlyTheLast, Disturbances
  <2> QED BY <2>3, <2>4, <2>5 DEF UdpEchoInv
<1> QED BY <1>2, <1>3 DEF EchoClientRetryRecv

-----------------------------------------------------------------------------
(* The network and the third host.                                         *)

LEMMA EchoNetInv ==
    ASSUME UdpEchoInv, LoseDatagram \/ StraySends
    PROVE  UdpEchoInv'
<1>1. /\ UNCHANGED <<do_an_echo, out_file, udpServerAt, held, udpClientAt, no_send,
                     wait_receive, serveraddr, serveraddrlen, message_counter, retries,
                     repeats, glitches, cuts, diverted, strayed, mismatches>>
      /\ losses' \in Nat /\ strays' \in Nat
  BY DEF LoseDatagram, StraySends, echoServer, echoClient, waitHistory, UdpEchoInv, UdpEchoTypeOK
<1>2. /\ toServer' \subseteq toServer
      /\ toClient' \subseteq toClient \cup {[from |-> "other", no |-> 0]}
  BY DEF LoseDatagram, StraySends
<1>3. IsFiniteSet(toClient')
  <2>1. IsFiniteSet(toClient \cup {[from |-> "other", no |-> 0]})
    BY FS_AddElement DEF UdpEchoInv, UnderWay
  <2> QED BY <1>2, <2>1, FS_Subset
<1>4. Exchange' \in Nat /\ Exchange' <= Exchange
  <2>1. FromServer' \subseteq FromServer /\ HeldForEcho' = HeldForEcho
    BY <1>1, <1>2 DEF FromServer, HeldForEcho
  <2>2. /\ Cardinality(toServer') <= Cardinality(toServer) /\ Cardinality(toServer') \in Nat
        /\ Cardinality(FromServer') <= Cardinality(FromServer)
        /\ Cardinality(FromServer') \in Nat
    BY <1>2, <2>1, EchoSizes, FS_Subset, FS_CardinalityType
  <2>3. Exchange' = Cardinality(toServer') + Cardinality(FromServer') + HeldForEcho'
    BY DEF Exchange, FromServer, HeldForEcho
  <2> QED BY <2>1, <2>2, <2>3, EchoSizes
<1>5. OneExchange'
  <2>1. Waiting' = Waiting
    BY <1>1 DEF Waiting
  <2> QED BY <1>1, <1>4, <2>1, EchoSizes, EchoCounts DEF UdpEchoInv, OneExchange, Disturbances
<1>6. UdpEchoTypeOK' /\ UnderWay'
  <2>1. toClient' \subseteq [from : Hosts, no : 0..message_counter]
    BY <1>2, EchoCounts DEF UdpEchoInv, UdpEchoTypeOK, Hosts
  <2> QED BY <1>1, <1>2, <1>3, <2>1 DEF UdpEchoInv, UdpEchoTypeOK, UnderWay
<1>7. RepliesMatch' /\ OnlyTheLast'
  BY <1>1, <1>2 DEF UdpEchoInv, RepliesMatch, OnlyTheLast, Disturbances
<1> QED BY <1>5, <1>6, <1>7 DEF UdpEchoInv

LEMMA EchoStepInv == UdpEchoInv /\ [UdpEchoNext]_udpEchoVars => UdpEchoInv'
<1> SUFFICES ASSUME UdpEchoInv, [UdpEchoNext]_udpEchoVars PROVE UdpEchoInv'
  OBVIOUS
<1>1. CASE UNCHANGED udpEchoVars
  BY <1>1 DEF udpEchoVars, UdpEchoInv, UdpEchoTypeOK, OneExchange, Exchange, Waiting,
     RepliesMatch, UnderWay, OnlyTheLast, Disturbances
<1>2. CASE EchoServerWork
  BY <1>2, EchoServerQuiet, EchoServerRepliesInv, EchoServerGetsInv DEF EchoServerWork
<1>3. CASE EchoClientWork
  BY <1>3, EchoClientQuiet, EchoClientDisturbed, EchoClientSendsInv, EchoClientRetryInv,
     EchoClientReceivesInv DEF EchoClientWork
<1> QED
  BY <1>1, <1>2, <1>3, EchoServerQuiet, EchoClientQuiet, EchoClientDisturbed, EchoNetInv
  DEF UdpEchoNext

(* udpclient and udpserver stop and wait: whatever is lost, late, repeated *)
(* or sent by others, no more is under way than the message waited for and *)
(* what is accounted for, and the reply taken is the right one until       *)
(* something disturbs the exchange.                                        *)
THEOREM EchoStopsAndWaits == UdpEchoSpec => []UdpEchoInv
BY EchoInitInv, EchoStepInv, PTL DEF UdpEchoSpec

-----------------------------------------------------------------------------
(* The first editions.                                                     *)

Pending == {r \in onceReplies : r.to \in OnceClients /\ r.to \notin Answered}
InARun  == IF onceServer.at = "off" THEN 0 ELSE 1

LEMMA OnceSizes ==
    ASSUME OnceInv
    PROVE  /\ IsFiniteSet(Answered) /\ Cardinality(Answered) \in Nat
           /\ IsFiniteSet(Pending) /\ Cardinality(Pending) \in Nat
           /\ InARun \in 0..1 /\ onceRuns \in Nat
           /\ Cardinality(Answered) + Cardinality(Pending) + InARun <= onceRuns
<1>1. IsFiniteSet(OnceClients) /\ IsFiniteSet(onceReplies)
  BY OnceAssumption DEF OnceInv, AsItWasSent
<1>2. Answered \subseteq OnceClients /\ Pending \subseteq onceReplies
  BY DEF Answered, Pending
<1>3. /\ IsFiniteSet(Answered) /\ Cardinality(Answered) \in Nat
      /\ IsFiniteSet(Pending) /\ Cardinality(Pending) \in Nat
  BY <1>1, <1>2, FS_Subset, FS_CardinalityType
<1>4. InARun \in 0..1 /\ onceRuns \in Nat
  BY OnceAssumption DEF OnceInv, OnceTypeOK, InARun
<1>5. Cardinality(Answered) + Cardinality(Pending) + InARun <= onceRuns
  BY DEF OnceInv, AnswersCostRuns, Pending, InARun
<1> QED BY <1>3, <1>4, <1>5

LEMMA OnceInitInv == OnceInit => OnceInv
<1> SUFFICES ASSUME OnceInit PROVE OnceInv
  OBVIOUS
<1>1. OnceTypeOK
  BY OnceAssumption DEF OnceInit, OnceTypeOK, Request, Reply, Senders, Texts, Stray
<1>2. Answered = {}
  BY DEF OnceInit, Answered
<1>3. {r \in onceReplies : r.to \in OnceClients /\ r.to \notin Answered} = {}
  BY DEF OnceInit
<1>4. AnswersCostRuns
  BY <1>2, <1>3, FS_EmptySet DEF OnceInit, AnswersCostRuns
<1>5. OwnEcho /\ AsItWasSent
  BY <1>2, OnceAssumption, FS_EmptySet DEF OnceInit, OwnEcho, AsItWasSent, Stray
<1> QED BY <1>1, <1>4, <1>5 DEF OnceInv

(* What one step of a server, of any edition, does.                        *)
RunBegins ==
    /\ onceServer.at = "off" /\ onceRuns < MaxRuns
    /\ onceRuns' = onceRuns + 1
    /\ \E at \in {"recv", "off"}, edition \in ServerEditions :
          onceServer' = [onceServer EXCEPT !.at = at, !.edition = edition]
    /\ UNCHANGED <<onceClient, onceGot, onceRequests, onceReplies, onceAgain, onceOthers>>

RequestTaken ==
    /\ onceServer.at = "recv"
    /\ \E r \in onceRequests, again \in BOOLEAN :
          /\ Leaving(again)
          /\ onceRequests' = IF again THEN onceRequests ELSE onceRequests \ {r}
          /\ onceServer' = [onceServer EXCEPT !.at = "echo", !.request = r]
    /\ UNCHANGED <<onceClient, onceGot, onceReplies, onceRuns, onceOthers>>

ReplySent ==
    /\ onceServer.at = "echo"
    /\ \E text \in {onceServer.request.text, Upper(onceServer.request.text)} :
          onceReplies' = onceReplies \cup
             {[to |-> onceServer.request.from, text |-> text,
               filled |-> onceServer.request.filled]}
    /\ onceServer' = [onceServer EXCEPT !.at = "off"]
    /\ UNCHANGED <<onceClient, onceGot, onceRequests, onceRuns, onceAgain, onceOthers>>

RunStops ==
    /\ onceServer.at \in {"recv", "echo"}
    /\ onceServer' = [onceServer EXCEPT !.at = "off"]
    /\ UNCHANGED <<onceClient, onceGot, onceRequests, onceReplies, onceRuns, onceAgain,
                   onceOthers>>

LEMMA OnceServerDoes ==
    ASSUME udpserver_c \/ udpserver1 \/ udpserver_ok
    PROVE  RunBegins \/ RequestTaken \/ ReplySent \/ RunStops
<1>1. CASE udpserver_c
  BY <1>1 DEF udpserver_c, OnceServer, AsIs, AfterRun, ServerEditions, RunBegins,
     RequestTaken, ReplySent, RunStops
<1>2. CASE udpserver1
  BY <1>2 DEF udpserver1, OnceServer, AfterRun, ServerEditions, RunBegins,
     RequestTaken, ReplySent, RunStops
<1>3. CASE udpserver_ok
  BY <1>3 DEF udpserver_ok, OnceServer, AsIs, AfterRun, ServerEditions, RunBegins,
     RequestTaken, ReplySent, RunStops
<1> QED BY <1>1, <1>2, <1>3

LEMMA LeavingType ==
    ASSUME OnceInv, NEW again \in BOOLEAN, Leaving(again)
    PROVE  onceAgain' \in 0..MaxAgain
<1>1. onceAgain \in 0..MaxAgain /\ MaxAgain \in Nat
  BY OnceAssumption DEF OnceInv, OnceTypeOK
<1>2. CASE again
  BY <1>1, <1>2 DEF Leaving
<1>3. CASE ~again
  BY <1>1, <1>3 DEF Leaving
<1> QED BY <1>2, <1>3

(* No client is answered, and no reply to one that waits is added.         *)
LEMMA NothingAnswered ==
    ASSUME OnceInv, onceGot' = onceGot, onceReplies' \subseteq onceReplies,
           onceRuns' \in Nat, InARun' \in 0..1,
           onceRuns' - InARun' >= onceRuns - InARun
    PROVE  AnswersCostRuns' /\ IsFiniteSet(onceReplies') /\ OwnEcho'
<1>1. Answered' = Answered
  BY DEF Answered
<1>2. Pending' \subseteq Pending /\ IsFiniteSet(Pending)
  BY <1>1, OnceSizes DEF Pending
<1>3. Cardinality(Pending') \in Nat /\ Cardinality(Pending') <= Cardinality(Pending)
  BY <1>2, FS_Subset, FS_CardinalityType
<1>4. Cardinality(Answered) + Cardinality(Pending') + InARun' <= onceRuns'
  BY <1>3, OnceSizes
<1>5. AnswersCostRuns'
  BY <1>1, <1>4 DEF AnswersCostRuns, Pending, InARun
<1>6. IsFiniteSet(onceReplies)
  BY DEF OnceInv, AsItWasSent
<1> QED BY <1>1, <1>5, <1>6, FS_Subset DEF OnceInv, OwnEcho

LEMMA OnceServerInv ==
    ASSUME OnceInv, RunBegins \/ RequestTaken \/ ReplySent \/ RunStops
    PROVE  OnceInv'
<1>1. /\ onceServer \in [at : {"off", "recv", "echo"},
                         edition : ServerEditions \cup {"none"}, request : Request]
      /\ onceRequests \subseteq Request /\ onceReplies \subseteq Reply
      /\ onceRuns \in 0..MaxRuns /\ MaxRuns \in Nat
  BY OnceAssumption DEF OnceInv, OnceTypeOK
<1>2. CASE RunBegins
  <2>1. PICK at \in {"recv", "off"}, edition \in ServerEditions :
            onceServer' = [onceServer EXCEPT !.at = at, !.edition = edition]
    BY <1>2 DEF RunBegins
  <2>2. /\ onceServer.at = "off" /\ onceRuns' = onceRuns + 1 /\ onceRuns' \in 0..MaxRuns
        /\ onceServer'.at \in {"recv", "off"} /\ onceServer'.request = onceServer.request
        /\ onceServer' \in [at : {"off", "recv", "echo"},
                            edition : ServerEditions \cup {"none"}, request : Request]
        /\ UNCHANGED <<onceClient, onceGot, onceRequests, onceReplies, onceAgain, onceOthers>>
    <3>1. /\ onceServer.at = "off" /\ onceRuns < MaxRuns /\ onceRuns' = onceRuns + 1
          /\ UNCHANGED <<onceClient, onceGot, onceRequests, onceReplies, onceAgain,
                         onceOthers>>
      BY <1>2 DEF RunBegins
    <3>2. onceRuns' \in 0..MaxRuns
      BY <1>1, <3>1
    <3>3. /\ onceServer'.at \in {"recv", "off"} /\ onceServer'.request = onceServer.request
          /\ onceServer' \in [at : {"off", "recv", "echo"},
                              edition : ServerEditions \cup {"none"}, request : Request]
      BY <1>1, <2>1
    <3> QED BY <3>1, <3>2, <3>3
  <2>3. InARun = 0 /\ InARun' \in 0..1
    BY <2>2 DEF InARun
  <2>4. onceRuns' \in Nat /\ onceRuns' - InARun' >= onceRuns - InARun
    <3>1. onceRuns \in Nat /\ onceRuns' = onceRuns + 1
      BY <1>1, <2>2
    <3>2. onceRuns' \in Nat /\ onceRuns' >= onceRuns + 1
      BY <3>1
    <3>3. CASE InARun' = 0
      BY <2>3, <3>1, <3>2, <3>3
    <3>4. CASE InARun' = 1
      BY <2>3, <3>1, <3>2, <3>4
    <3>5. InARun' = 0 \/ InARun' = 1
      BY <2>3
    <3> QED BY <3>3, <3>4, <3>5
  <2>5. AnswersCostRuns' /\ OwnEcho'
    BY <2>2, <2>3, <2>4, NothingAnswered
  <2>6. OnceTypeOK' /\ AsItWasSent'
    BY <2>2 DEF OnceInv, OnceTypeOK, AsItWasSent
  <2> QED BY <2>5, <2>6 DEF OnceInv
<1>3. CASE RequestTaken
  <2>1. PICK r \in onceRequests, again \in BOOLEAN :
            /\ Leaving(again)
            /\ onceRequests' = IF again THEN onceRequests ELSE onceRequests \ {r}
            /\ onceServer' = [onceServer EXCEPT !.at = "echo", !.request = r]
    BY <1>3 DEF RequestTaken
  <2>2. /\ onceServer.at = "recv" /\ onceServer'.at = "echo" /\ onceServer'.request = r
        /\ r \in Request /\ onceRequests' \subseteq onceRequests
        /\ onceServer' \in [at : {"off", "recv", "echo"},
                            edition : ServerEditions \cup {"none"}, request : Request]
        /\ UNCHANGED <<onceClient, onceGot, onceReplies, onceRuns, onceOthers>>
    BY <1>1, <1>3, <2>1 DEF RequestTaken
  <2>3. InARun = 1 /\ InARun' = 1
    BY <2>2 DEF InARun
  <2>4. AnswersCostRuns' /\ OwnEcho'
    BY <1>1, <2>2, <2>3, NothingAnswered
  <2>5. OnceTypeOK'
    BY <2>1, <2>2, LeavingType DEF OnceInv, OnceTypeOK
  <2>6. AsItWasSent'
    BY <2>2 DEF OnceInv, AsItWasSent
  <2> QED BY <2>4, <2>5, <2>6 DEF OnceInv
<1>4. CASE ReplySent
  <2>1. PICK text \in {onceServer.request.text, Upper(onceServer.request.text)} :
            onceReplies' = onceReplies \cup
               {[to |-> onceServer.request.from, text |-> text,
                 filled |-> onceServer.request.filled]}
    BY <1>4 DEF ReplySent
  <2> DEFINE reply == [to |-> onceServer.request.from, text |-> text,
                       filled |-> onceServer.request.filled]
  <2>2. /\ onceServer.at = "echo" /\ onceServer'.at = "off"
        /\ onceServer'.request = onceServer.request
        /\ onceServer' \in [at : {"off", "recv", "echo"},
                            edition : ServerEditions \cup {"none"}, request : Request]
        /\ UNCHANGED <<onceClient, onceGot, onceRequests, onceRuns, onceAgain, onceOthers>>
    BY <1>1, <1>4 DEF ReplySent
  <2>3. text \in Texts /\ reply \in Reply
    BY <1>1 DEF Upper, Request, Reply, Texts
  <2>4. reply.to \in OnceClients => reply.text \in {"Hello", "HELLO"} /\ reply.filled
    BY DEF OnceInv, AsItWasSent, Upper
  <2>5. Answered' = Answered /\ InARun = 1 /\ InARun' = 0
    BY <2>2 DEF Answered, InARun
  <2>6. Pending' \subseteq Pending \cup {reply}
    BY <2>1, <2>5 DEF Pending
  <2>7. Cardinality(Pending') \in Nat /\ Cardinality(Pending') <= Cardinality(Pending) + 1
    <3>1. /\ IsFiniteSet(Pending \cup {reply})
          /\ Cardinality(Pending \cup {reply}) <= Cardinality(Pending) + 1
          /\ Cardinality(Pending \cup {reply}) \in Nat
      <4> HIDE DEF reply
      <4>1. IsFiniteSet(Pending) /\ Cardinality(Pending) \in Nat
        BY OnceSizes
      <4>2. CASE reply \in Pending
        <5>1. Pending \cup {reply} = Pending
          BY <4>2
        <5> QED BY <4>1, <5>1
      <4>3. CASE reply \notin Pending
        <5>1. Cardinality(Pending \cup {reply}) = Cardinality(Pending) + 1
              /\ IsFiniteSet(Pending \cup {reply})
          BY <4>1, <4>3, OneAnswerMore
        <5> QED BY <4>1, <5>1
      <4> QED BY <4>2, <4>3
    <3>2. /\ IsFiniteSet(Pending')
          /\ Cardinality(Pending') <= Cardinality(Pending \cup {reply})
      BY <2>6, <3>1, FS_Subset
    <3>3. Cardinality(Pending') \in Nat
      BY <3>2, FS_CardinalityType
    <3> QED BY <3>1, <3>2, <3>3, OnceSizes
  <2>8. AnswersCostRuns'
    <3>1. Cardinality(Answered') + Cardinality(Pending') + InARun' <= onceRuns'
      BY <2>2, <2>5, <2>7, OnceSizes
    <3> QED BY <3>1 DEF AnswersCostRuns, Pending, InARun
  <2>9. IsFiniteSet(onceReplies')
    <3>1. IsFiniteSet(onceReplies)
      BY DEF OnceInv, AsItWasSent
    <3>2. IsFiniteSet(onceReplies \cup {reply})
      BY <3>1, FS_AddElement
    <3> QED BY <2>1, <3>2
  <2>10. OwnEcho' /\ AsItWasSent'
    BY <2>1, <2>2, <2>4, <2>5, <2>9 DEF OnceInv, OwnEcho, AsItWasSent
  <2>11. OnceTypeOK'
    BY <2>1, <2>2, <2>3 DEF OnceInv, OnceTypeOK
  <2> QED BY <2>8, <2>10, <2>11 DEF OnceInv
<1>5. CASE RunStops
  <2>1. /\ onceServer.at \in {"recv", "echo"} /\ onceServer'.at = "off"
        /\ onceServer'.request = onceServer.request
        /\ onceServer' \in [at : {"off", "recv", "echo"},
                            edition : ServerEditions \cup {"none"}, request : Request]
        /\ UNCHANGED <<onceClient, onceGot, onceRequests, onceReplies, onceRuns, onceAgain,
                       onceOthers>>
    BY <1>1, <1>5 DEF RunStops
  <2>2. InARun = 1 /\ InARun' = 0
    BY <2>1 DEF InARun
  <2>3. AnswersCostRuns' /\ OwnEcho'
    BY <1>1, <2>1, <2>2, NothingAnswered
  <2>4. OnceTypeOK' /\ AsItWasSent'
    BY <2>1 DEF OnceInv, OnceTypeOK, AsItWasSent
  <2> QED BY <2>3, <2>4 DEF OnceInv
<1> QED BY <1>2, <1>3, <1>4, <1>5

-----------------------------------------------------------------------------
(* What one step of a client, of any edition, does.                        *)
OtherwiseSame(c) ==
    /\ \E now \in [at : {"send", "recv", "exited"}, edition : ClientEditions \cup {"none"}] :
          onceClient' = [onceClient EXCEPT ![c] = now]
    /\ onceClient[c].at # "exited"
    /\ UNCHANGED <<onceServer, onceGot, onceReplies, onceRuns, onceAgain, onceOthers>>

ClientGoesOn(c) == OtherwiseSame(c) /\ onceRequests' = onceRequests

ClientAsks(c) ==
    /\ OtherwiseSame(c)
    /\ onceRequests' = onceRequests \cup {[from |-> c, text |-> "Hello", filled |-> TRUE]}

ClientAnswered(c) ==
    /\ onceClient[c].at = "recv"
    /\ \E r \in onceReplies, again \in BOOLEAN :
          /\ r.to = c
          /\ Leaving(again)
          /\ onceReplies' = IF again THEN onceReplies ELSE onceReplies \ {r}
          /\ onceGot' = [onceGot EXCEPT ![c] = r.text]
    /\ onceClient' = [onceClient EXCEPT ![c] = Gone]
    /\ UNCHANGED <<onceServer, onceRequests, onceRuns, onceOthers>>

LEMMA OnceClientDoes ==
    ASSUME OnceInv, NEW c \in OnceClients, NEW edition \in ClientEditions,
           OnceClient(c, edition)
    PROVE  ClientGoesOn(c) \/ ClientAsks(c) \/ ClientAnswered(c)
<1>1. onceClient[c] \in [at : {"start", "send", "recv", "exited"},
                         edition : ClientEditions \cup {"none"}]
  BY DEF OnceInv, OnceTypeOK
<1>2. /\ Gone \in [at : {"send", "recv", "exited"}, edition : ClientEditions \cup {"none"}]
      /\ [at |-> "send", edition |-> edition]
            \in [at : {"send", "recv", "exited"}, edition : ClientEditions \cup {"none"}]
      /\ [onceClient[c] EXCEPT !.at = "recv"]
            \in [at : {"send", "recv", "exited"}, edition : ClientEditions \cup {"none"}]
  BY <1>1 DEF Gone
<1>3. CASE /\ onceClient[c].at = "start"
           /\ \E at \in {"send", "exited"} :
                 onceClient' = [onceClient EXCEPT
                     ![c] = IF at = "send" THEN [at |-> at, edition |-> edition] ELSE Gone]
           /\ UNCHANGED <<onceServer, onceGot, onceRequests, onceReplies, onceRuns,
                          onceAgain, onceOthers>>
  BY <1>2, <1>3 DEF ClientGoesOn, OtherwiseSame
<1>4. CASE /\ onceClient[c].at = "send" /\ onceClient[c].edition = edition
           /\ onceRequests' = onceRequests \cup
                 {[from |-> c, text |-> "Hello", filled |-> TRUE]}
           /\ onceClient' = [onceClient EXCEPT ![c].at = "recv"]
           /\ UNCHANGED <<onceServer, onceGot, onceReplies, onceRuns, onceAgain,
                          onceOthers>>
  <2>1. onceClient' = [onceClient EXCEPT ![c] = [onceClient[c] EXCEPT !.at = "recv"]]
    BY <1>4
  <2> QED BY <1>2, <1>4, <2>1 DEF ClientAsks, OtherwiseSame
<1>5. CASE /\ onceClient[c].at \in {"send", "recv"} /\ onceClient[c].edition = edition
           /\ onceClient' = [onceClient EXCEPT ![c] = Gone]
           /\ UNCHANGED <<onceServer, onceGot, onceRequests, onceReplies, onceRuns,
                          onceAgain, onceOthers>>
  BY <1>2, <1>5 DEF ClientGoesOn, OtherwiseSame
<1>6. CASE ClientAnswered(c)
  BY <1>6
<1> QED BY <1>3, <1>4, <1>5, <1>6 DEF OnceClient, ClientAnswered

LEMMA OnceClientQuiet ==
    ASSUME OnceInv, NEW c \in OnceClients, ClientGoesOn(c) \/ ClientAsks(c)
    PROVE  OnceInv'
<1>1. PICK now \in [at : {"send", "recv", "exited"}, edition : ClientEditions \cup {"none"}] :
          onceClient' = [onceClient EXCEPT ![c] = now]
  BY DEF ClientGoesOn, ClientAsks, OtherwiseSame
<1>2. /\ onceClient[c].at # "exited"
      /\ UNCHANGED <<onceServer, onceGot, onceReplies, onceRuns, onceAgain, onceOthers>>
      /\ onceRequests' \subseteq onceRequests \cup
             {[from |-> c, text |-> "Hello", filled |-> TRUE]}
  BY DEF ClientGoesOn, ClientAsks, OtherwiseSame
<1>3. OnceTypeOK'
  <2>1. onceClient' \in [OnceClients -> [at : {"start", "send", "recv", "exited"},
                                        edition : ClientEditions \cup {"none"}]]
    BY <1>1 DEF OnceInv, OnceTypeOK
  <2>2. onceRequests' \subseteq Request
    <3>1. [from |-> c, text |-> "Hello", filled |-> TRUE] \in Request
      BY DEF Request, Senders
    <3>2. onceRequests \subseteq Request
      BY DEF OnceInv, OnceTypeOK
    <3> QED BY <1>2, <3>1, <3>2
  <2> QED BY <1>2, <2>1, <2>2 DEF OnceInv, OnceTypeOK
<1>4. AnswersCostRuns' /\ OwnEcho'
  <2>1. InARun' = InARun /\ InARun \in 0..1 /\ onceRuns \in Nat
    BY <1>2, OnceSizes DEF InARun
  <2> QED BY <1>2, <2>1, NothingAnswered
<1>5. AsItWasSent'
  <2>1. \A x \in OnceClients : onceClient'[x].at # "exited" => onceGot'[x] = "nothing"
    BY <1>1, <1>2 DEF OnceInv, OnceTypeOK, AsItWasSent
  <2>2. \A r \in onceRequests' : r.from \in OnceClients => r.text = "Hello" /\ r.filled
    BY <1>2 DEF OnceInv, AsItWasSent
  <2> QED BY <1>2, <2>1, <2>2 DEF OnceInv, AsItWasSent
<1> QED BY <1>3, <1>4, <1>5 DEF OnceInv

LEMMA OnceClientAnswered ==
    ASSUME OnceInv, NEW c \in OnceClients, ClientAnswered(c)
    PROVE  OnceInv'
<1>1. PICK r \in onceReplies, again \in BOOLEAN :
          /\ r.to = c
          /\ Leaving(again)
          /\ onceReplies' = IF again THEN onceReplies ELSE onceReplies \ {r}
          /\ onceGot' = [onceGot EXCEPT ![c] = r.text]
  BY DEF ClientAnswered
<1>2. /\ onceClient[c].at = "recv" /\ onceClient' = [onceClient EXCEPT ![c] = Gone]
      /\ UNCHANGED <<onceServer, onceRequests, onceRuns, onceOthers>>
      /\ onceReplies' \subseteq onceReplies
  BY <1>1 DEF ClientAnswered
<1>3. /\ onceGot \in [OnceClients -> {"nothing"} \cup Texts] /\ onceGot[c] = "nothing"
      /\ r.text \in {"Hello", "HELLO"} /\ r.text \in Texts
  BY <1>1, <1>2 DEF OnceInv, OnceTypeOK, AsItWasSent, Texts
<1>4. Answered' = Answered \cup {c} /\ c \notin Answered
  BY <1>1, <1>3 DEF Answered
<1>5. r \in Pending /\ Pending' \subseteq Pending \ {r}
  BY <1>1, <1>2, <1>4 DEF Pending
<1>6. AnswersCostRuns'
  <2>1. Cardinality(Answered') = Cardinality(Answered) + 1
    BY <1>4, OnceSizes, OneAnswerMore
  <2>2. /\ IsFiniteSet(Pending \ {r}) /\ Cardinality(Pending \ {r}) \in Nat
        /\ Cardinality(Pending) = Cardinality(Pending \ {r}) + 1
    BY <1>5, OnceSizes, OneAnswerLess
  <2>3. Cardinality(Pending') <= Cardinality(Pending \ {r}) /\ Cardinality(Pending') \in Nat
    BY <1>5, <2>2, FS_Subset, FS_CardinalityType
  <2>4. InARun' = InARun
    BY <1>2 DEF InARun
  <2>5. Cardinality(Answered') + Cardinality(Pending') + InARun' <= onceRuns'
    BY <1>2, <2>1, <2>2, <2>3, <2>4, OnceSizes
  <2> QED BY <2>5 DEF AnswersCostRuns, Pending, InARun
<1>7. OnceTypeOK'
  <2>1. /\ onceClient' \in [OnceClients -> [at : {"start", "send", "recv", "exited"},
                                           edition : ClientEditions \cup {"none"}]]
        /\ onceGot' \in [OnceClients -> {"nothing"} \cup Texts]
    BY <1>1, <1>2, <1>3 DEF OnceInv, OnceTypeOK, Gone
  <2>2. onceAgain' \in 0..MaxAgain
    BY <1>1, LeavingType
  <2> QED BY <1>2, <2>1, <2>2 DEF OnceInv, OnceTypeOK
<1>8. OwnEcho'
  BY <1>1, <1>2, <1>3, <1>4 DEF OnceInv, OwnEcho, Answered
<1>9. AsItWasSent'
  <2>1. IsFiniteSet(onceReplies')
    BY <1>2, FS_Subset DEF OnceInv, AsItWasSent
  <2>2. \A x \in OnceClients : onceClient'[x].at # "exited" => onceGot'[x] = "nothing"
    BY <1>1, <1>2, <1>3 DEF OnceInv, OnceTypeOK, AsItWasSent, Gone
  <2> QED BY <1>2, <2>1, <2>2 DEF OnceInv, AsItWasSent
<1> QED BY <1>6, <1>7, <1>8, <1>9 DEF OnceInv

LEMMA OnceNetInv ==
    ASSUME OnceInv, OnceLoses \/ OtherSends
    PROVE  OnceInv'
<1>1. /\ UNCHANGED <<onceServer, onceClient, onceGot, onceRuns, onceAgain>>
      /\ onceOthers' \in 0..MaxOthers
      /\ onceReplies' \subseteq onceReplies
      /\ onceRequests' \subseteq onceRequests \cup {Stray}
  BY OnceAssumption DEF OnceLoses, OtherSends, OnceInv, OnceTypeOK
<1>2. InARun' = InARun /\ InARun \in 0..1 /\ onceRuns \in Nat
  BY <1>1, OnceSizes DEF InARun
<1>3. AnswersCostRuns' /\ OwnEcho' /\ IsFiniteSet(onceReplies')
  BY <1>1, <1>2, NothingAnswered
<1>4. Stray \in Request /\ Stray.from \notin OnceClients
  BY OnceAssumption DEF Stray, Request, Senders
<1>5. OnceTypeOK' /\ AsItWasSent'
  BY <1>1, <1>3, <1>4 DEF OnceInv, OnceTypeOK, AsItWasSent
<1> QED BY <1>3, <1>5 DEF OnceInv

LEMMA OnceStepInv == OnceInv /\ [OnceNext]_onceVars => OnceInv'
<1> SUFFICES ASSUME OnceInv, [OnceNext]_onceVars PROVE OnceInv'
  OBVIOUS
<1>1. CASE UNCHANGED onceVars
  BY <1>1 DEF onceVars, OnceInv, OnceTypeOK, AnswersCostRuns, Answered, OwnEcho, AsItWasSent
<1>2. CASE udpserver_c \/ udpserver1 \/ udpserver_ok
  BY <1>2, OnceServerDoes, OnceServerInv
<1>3. ASSUME NEW c \in OnceClients, udpclient_c(c) \/ udpclient1(c) \/ udpclient_ok(c)
      PROVE  OnceInv'
  <2>1. PICK edition \in ClientEditions : OnceClient(c, edition)
    BY <1>3 DEF udpclient_c, udpclient1, udpclient_ok, ClientEditions
  <2> QED BY <2>1, OnceClientDoes, OnceClientQuiet, OnceClientAnswered
<1>4. CASE OnceLoses \/ OtherSends
  BY <1>4, OnceNetInv
<1> QED BY <1>1, <1>2, <1>3, <1>4 DEF OnceNext

(* Whichever editions meet, and however the network behaves: each answer   *)
(* has cost a run of a server of its own, and a client is answered with    *)
(* its own message.                                                        *)
THEOREM OneAnswerForOneRun == OnceSpec => []OnceInv
BY OnceInitInv, OnceStepInv, PTL DEF OnceSpec
=============================================================================
