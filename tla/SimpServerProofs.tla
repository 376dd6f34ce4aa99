------------------------- MODULE SimpServerProofs --------------------------
(***************************************************************************)
(* Proofs about SimpServer for every descriptor limit, error limit,        *)
(* backlog and buffer size: ServerInv is inductive, so each of its parts   *)
(* is an invariant; connections are closed only after errors; and the      *)
(* server implements ConnTable.                                            *)
(***************************************************************************)
EXTENDS SimpServer, TcpConnProofs, FiniteSetTheorems

-----------------------------------------------------------------------------
(* The vector.                                                             *)

LEMMA RangeFinite ==
    ASSUME NEW S, NEW s \in Seq(S)
    PROVE  IsFiniteSet(Range(s))
  <1>1. IsFiniteSet(1..Len(s))
    BY FS_Interval
  <1>2. s \in Surjection(1..Len(s), Range(s))
    BY DEF Surjection, Range
  <1>3. QED
    BY <1>1, <1>2, FS_Surjection

(* With no empty entry in front of it, the client found over the limit at  *)
(* position k is erased at offset k - 1: the entry freed is the entry that *)
(* leaves the vector.                                                      *)
LEMMA OffsetIsPosition ==
    ASSUME NEW k \in Nat \ {0}, NEW s,
           \A j \in 1..(k - 1) : s[j].sock # 0
    PROVE  Cardinality({j \in 1..(k - 1) : s[j].sock # 0}) = k - 1
  <1>1. {j \in 1..(k - 1) : s[j].sock # 0} = 1..(k - 1)
    OBVIOUS
  <1>2. Cardinality(1..(k - 1)) = k - 1
    BY FS_Interval
  <1>3. QED
    BY <1>1, <1>2

(* Erasing position k leaves a vector of the others, in their order.       *)
LEMMA Erased ==
    ASSUME NEW S, NEW s \in Seq(S), NEW k \in DOMAIN s
    PROVE  LET t == WithoutOffset(s, k - 1)
           IN  /\ t \in Seq(S)
               /\ DOMAIN t = 1..(Len(s) - 1)
               /\ \A j \in DOMAIN t : t[j] = IF j < k THEN s[j] ELSE s[j + 1]
               /\ \A i \in DOMAIN s : i # k => \E j \in DOMAIN t : t[j] = s[i]
  <1> DEFINE t == WithoutOffset(s, k - 1)
  <1>1. /\ Len(s) \in Nat
        /\ DOMAIN s = 1..Len(s)
        /\ \A i \in 1..Len(s) : s[i] \in S
    OBVIOUS
  <1>2. DOMAIN t = 1..(Len(s) - 1)
    BY DEF WithoutOffset
  <1>3. \A j \in DOMAIN t : t[j] = IF j < k THEN s[j] ELSE s[j + 1]
    BY <1>1 DEF WithoutOffset
  <1>4. t \in Seq(S)
    <2>1. t \in [1..(Len(s) - 1) -> S]
      BY <1>1, <1>3 DEF WithoutOffset
    <2>2. Len(s) - 1 \in Nat
      BY <1>1
    <2>3. QED
      BY <2>1, <2>2
  <1>5. \A i \in DOMAIN s : i # k => \E j \in DOMAIN t : t[j] = s[i]
    <2> SUFFICES ASSUME NEW i \in DOMAIN s, i # k
                 PROVE  \E j \in DOMAIN t : t[j] = s[i]
      OBVIOUS
    <2>1. CASE i < k
      BY <2>1, <1>1, <1>2, <1>3
    <2>2. CASE i > k
      <3>1. i - 1 \in DOMAIN t /\ t[i - 1] = s[i]
        BY <2>2, <1>1, <1>2, <1>3
      <3>2. QED
        BY <3>1
    <2>3. QED
      BY <2>1, <2>2, <1>1
  <1>6. QED
    BY <1>2, <1>3, <1>4, <1>5

-----------------------------------------------------------------------------
(* One lemma per kind of step: it preserves ServerInv.                     *)

(* The entries of a vector that is well typed.                             *)
LEMMA Entries ==
    ASSUME TypeOK
    PROVE  /\ Len(vInClients) \in Nat
           /\ DOMAIN vInClients = 1..Len(vInClients)
           /\ \A k \in DOMAIN vInClients :
                 /\ vInClients[k] \in Client
                 /\ vInClients[k].sock \in FreeFds
                 /\ vInClients[k].sock \in Nat \ {0}
                 /\ vInClients[k].had_rw_error \in Nat
                 /\ conn[vInClients[k].sock] \in Conn
  <1>1. /\ vInClients \in Seq(Client)
        /\ conn \in [FreeFds -> Conn]
    BY DEF TypeOK
  <1>2. /\ Len(vInClients) \in Nat
        /\ DOMAIN vInClients = 1..Len(vInClients)
        /\ \A k \in DOMAIN vInClients : vInClients[k] \in Client
    BY <1>1
  <1>3. QED
    BY <1>1, <1>2, ServerAssumption DEF Client

(* Steps that touch neither the vector nor the connections keep what only  *)
(* speaks of these.                                                        *)
LEMMA SameTable ==
    ASSUME ServerInv,
           UNCHANGED <<vInClients, conn, msg_file, sockfd, highest>>
    PROVE  TableMatchesKernel' /\ HighestCovers' /\ ErrorsBelongToConnection'
  BY DEF ServerInv, TableMatchesKernel, HighestCovers, ErrorsBelongToConnection,
         Tracked, Range

LEMMA InitInv == Init => ServerInv
  <1> SUFFICES ASSUME Init PROVE ServerInv
    OBVIOUS
  <1> USE DEF Init
  <1>1. TypeOK
    <2>1. conn \in [FreeFds -> Conn]
      BY PlainConns
    <2>2. vInClients \in Seq(Client)
      OBVIOUS
    <2>3. /\ idx \in Nat \ {0} /\ had_errors \in Nat /\ backlog \in 0..Backlog
          /\ connects \in 0..MaxConnects /\ sends \in 0..MaxSends
          /\ ListenSocket \subseteq FreeFds \cup {ListenFd}
      BY ServerAssumption
    <2>4. QED
      BY <2>1, <2>2, <2>3 DEF TypeOK
  <1>2. TableMatchesKernel
    BY ServerAssumption, PlainConns
       DEF TableMatchesKernel, Tracked, Range, LogClosed
  <1>3. QED
    BY <1>1, <1>2
       DEF ServerInv, HighestCovers, ErrorsAccounted, ReadinessHolds, OverClients,
           ErrorsBelongToConnection, Phases, PassInv, Tracked, Range, NoSock

LEMMA StartupInv ==
    ASSUME ServerInv, Startup
    PROVE  ServerInv'
  <1>1. CASE BadArgs
    BY <1>1 DEF BadArgs, tableVars, passVars, keyVars, kernelVars, peerVars,
       ServerInv, TypeOK, TableMatchesKernel, Tracked, Range, HighestCovers,
       ErrorsAccounted, OverClients, OverLimit, ReadinessHolds,
       ErrorsBelongToConnection, Phases, PassInv
  <1>2. CASE StartupFails \/ StartupDone
    <2> USE DEF StartupFails, StartupDone, passVars, keyVars, kernelVars, peerVars
    <2>1. vInClients = <<>> /\ vInClients' = <<>> /\ conn' = conn
      BY <1>2 DEF ServerInv, Phases
    <2>2. TypeOK'
      BY <1>2 DEF ServerInv, TypeOK
    <2>3. TableMatchesKernel'
      BY <1>2 DEF ServerInv, TableMatchesKernel, Tracked, Range
    <2>4. HighestCovers'
      BY <1>2, <2>1, ServerAssumption
         DEF ServerInv, TypeOK, HighestCovers, Tracked, Range
    <2>5. /\ ErrorsAccounted' /\ ReadinessHolds' /\ ErrorsBelongToConnection'
          /\ Phases' /\ PassInv'
      BY <1>2, <2>1
         DEF ServerInv, ErrorsAccounted, ReadinessHolds, OverClients,
             ErrorsBelongToConnection, Phases, PassInv, Range
    <2>6. QED
      BY <2>2, <2>3, <2>4, <2>5 DEF ServerInv
  <1>3. QED
    BY <1>1, <1>2 DEF Startup

(* Steps that only move the program counter, read the keyboard or fail to  *)
(* accept; the fd_set may be left behind, but nobody looks at it.          *)
LEMMA QuietInv ==
    ASSUME ServerInv,
           \/ \E key \in Keys : CheckKey(key)
           \/ SelectFails
           \/ AcceptFails
    PROVE  ServerInv'
  <1> USE DEF mainVars, tableVars, passVars, keyVars, kernelVars, peerVars
  <1>1. /\ UNCHANGED <<vInClients, conn, msg_file, sockfd, highest, had_errors,
                       idx, ListenSocket, backlog, connects, sends>>
        /\ pc \in {"loop", "select", "accept"}
        /\ pc' \in {"loop", "select", "end"}
        /\ iret' \in {iret, 1}
        /\ (do_echo' = do_echo \/ do_echo' = ~do_echo)
        /\ (is_paused' = is_paused \/ is_paused' = ~is_paused)
    <2>1. CASE \E key \in Keys : CheckKey(key)
      <3> PICK key \in Keys : CheckKey(key)
        BY <2>1
      <3> QED
        BY DEF CheckKey
    <2>2. CASE SelectFails \/ AcceptFails
      BY <2>2 DEF SelectFails, AcceptFails
    <2>3. QED
      BY <2>1, <2>2
  <1>2. TypeOK'
    BY <1>1 DEF ServerInv, TypeOK
  <1>3. TableMatchesKernel' /\ HighestCovers' /\ ErrorsBelongToConnection'
    BY <1>1, SameTable
  <1>4. ErrorsAccounted' /\ ReadinessHolds' /\ Phases' /\ PassInv'
    BY <1>1 DEF ServerInv, ErrorsAccounted, ReadinessHolds, Phases, PassInv,
                OverClients, Range
  <1>5. QED
    BY <1>2, <1>3, <1>4 DEF ServerInv

LEMMA SelectReturnsInv ==
    ASSUME ServerInv, SelectReturns
    PROVE  ServerInv'
  <1> USE DEF SelectReturns, mainVars, keyVars, kernelVars, peerVars
  <1>1. TypeOK'
    <2>1. SelectResult \subseteq FreeFds \cup {ListenFd}
      BY DEF ServerInv, Phases, TableMatchesKernel, SelectResult, SelectSet
    <2>2. pc' \in {"loop", "accept", "process"}
      OBVIOUS
    <2>3. QED
      BY <2>1, <2>2 DEF ServerInv, TypeOK
  <1>2. TableMatchesKernel' /\ HighestCovers' /\ ErrorsBelongToConnection'
    BY SameTable
  <1>3. OverClients = {} /\ OverClients' = {}
    BY DEF ServerInv, ErrorsAccounted, OverClients, Range
  <1>4. ErrorsAccounted'
    BY <1>3, FS_EmptySet DEF ErrorsAccounted
  <1>5. ReadinessHolds'
    <2> SUFFICES ASSUME pc' = "process", NEW k \in DOMAIN vInClients,
                        vInClients[k].sock \in SelectResult
                 PROVE  Readable(conn[vInClients[k].sock])
      BY DEF ReadinessHolds, IsPending
    <2>1. vInClients[k].sock \in FreeFds /\ sockfd = ListenFd
      BY Entries DEF ServerInv, Phases
    <2>2. QED
      BY <2>1, ServerAssumption DEF SelectResult, IsReady
  <1>6. Phases'
    BY DEF ServerInv, Phases
  <1>7. PassInv'
    BY <1>3 DEF PassInv, OverClients, Range
  <1>8. QED
    BY <1>1, <1>2, <1>4, <1>5, <1>6, <1>7 DEF ServerInv

LEMMA AcceptInv ==
    ASSUME ServerInv, AcceptClient
    PROVE  ServerInv'
  <1>1. PICK f \in LowestUnused :
          /\ conn' = [conn EXCEPT ![f] = NewConn]
          /\ IF f \in Tracked
             THEN UNCHANGED <<vInClients, highest>>
             ELSE /\ vInClients' = Append(vInClients, NewClient(f))
                  /\ highest' = NewHighest(f)
    BY DEF AcceptClient
  <1>2. /\ f \in FreeFds /\ f # msg_file
        /\ conn \in [FreeFds -> Conn]
        /\ f \notin Tracked
    BY DEF LowestUnused, Unused, ServerInv, TypeOK, TableMatchesKernel
  <1>3. /\ vInClients' = Append(vInClients, NewClient(f))
        /\ highest' = NewHighest(f)
        /\ pc = "accept" /\ pc' = "loop"
        /\ UNCHANGED <<iret, sockfd, ListenSocket, idx, had_errors, is_paused,
                       do_echo, msg_file, connects, sends>>
        /\ backlog > 0 /\ backlog' = backlog - 1
    BY <1>1, <1>2 DEF AcceptClient, passVars, keyVars, peerVars
  <1>4. NewClient(f) \in Client
    BY <1>2 DEF NewClient, Client
  <1>5. /\ DOMAIN vInClients' = 1..(Len(vInClients) + 1)
        /\ \A k \in DOMAIN vInClients : vInClients'[k] = vInClients[k]
        /\ vInClients'[Len(vInClients) + 1] = NewClient(f)
        /\ vInClients' \in Seq(Client)
    BY <1>3, <1>4 DEF ServerInv, TypeOK
  <1>6. Range(vInClients') = Range(vInClients) \cup {NewClient(f)}
    BY <1>5, Entries DEF Range, ServerInv
  <1>7. Tracked' = Tracked \cup {f}
    <2>1. NewClient(f).sock = f
      BY DEF NewClient
    <2>2. QED
      BY <1>6, <2>1 DEF Tracked
  <1>8. TypeOK'
    <2>1. conn' \in [FreeFds -> Conn]
      BY <1>1, <1>2, PlainConns
    <2>2. highest' \in {0, ListenFd} \cup FreeFds
      BY <1>2, <1>3 DEF NewHighest, ServerInv, TypeOK
    <2>3. QED
      BY <1>3, <1>5, <2>1, <2>2, ServerAssumption DEF ServerInv, TypeOK
  <1>9. TableMatchesKernel'
    <2>1. {g \in FreeFds : IsOpen(conn'[g])}
             = {g \in FreeFds : IsOpen(conn[g])} \cup {f}
      BY <1>1, <1>2, PlainConns
    <2>2. \A j, k \in DOMAIN vInClients' :
             vInClients'[j].sock = vInClients'[k].sock => j = k
      <3>1. \A k \in DOMAIN vInClients : vInClients[k].sock # f
        BY <1>2 DEF Tracked, Range
      <3>2. NewClient(f).sock = f
        BY DEF NewClient
      <3>3. QED
        BY <1>5, <3>1, <3>2, Entries DEF ServerInv, TableMatchesKernel
    <2>3. QED
      BY <1>2, <1>3, <1>7, <2>1, <2>2 DEF ServerInv, TableMatchesKernel
  <1>10. HighestCovers'
    <2>1. highest \in Nat /\ f \in Nat /\ Tracked \subseteq Nat /\ ListenFd \in Nat
      BY <1>2, Entries, ServerAssumption DEF ServerInv, TypeOK, Tracked, Range
    <2>2. QED
      BY <1>3, <1>7, <2>1 DEF ServerInv, HighestCovers, NewHighest
  <1>11. ErrorsAccounted'
    <2>1. ~OverLimit(NewClient(f))
      BY ServerAssumption DEF OverLimit, NewClient
    <2>2. OverClients' = {}
      BY <1>3, <1>6, <2>1 DEF ServerInv, ErrorsAccounted, OverClients, OverLimit
    <2>3. QED
      BY <1>3, <2>2 DEF ErrorsAccounted
  <1>12. ErrorsBelongToConnection'
    <2>1. NewClient(f).sock = f /\ NewClient(f).had_rw_error = NewConn.fails
      BY DEF NewClient, NewConn
    <2>2. \A c \in Range(vInClients) : c.sock # f /\ c.sock \in FreeFds
      BY <1>2, Entries DEF Tracked, Range, ServerInv
    <2>3. QED
      BY <1>1, <1>2, <1>6, <2>1, <2>2 DEF ServerInv, ErrorsBelongToConnection
  <1>13. ReadinessHolds' /\ Phases' /\ PassInv'
    BY <1>3, ServerAssumption
       DEF ServerInv, ReadinessHolds, Phases, PassInv, NoSock
  <1>14. QED
    BY <1>8, <1>9, <1>10, <1>11, <1>12, <1>13 DEF ServerInv

(* A failed call counted against client k.                                 *)
LEMMA CountedError ==
    ASSUME ServerInv, pc \in {"process", "reply"},
           NEW k \in DOMAIN vInClients, ~OverLimit(vInClients[k]),
           CountRwError(k),
           NEW d \in Conn, IsOpen(d), d.fails = conn[vInClients[k].sock].fails + 1,
           conn' = [conn EXCEPT ![vInClients[k].sock] = d],
           UNCHANGED <<msg_file, sockfd, highest>>
    PROVE  /\ vInClients' \in Seq(Client)
           /\ had_errors' \in Nat
           /\ DOMAIN vInClients' = DOMAIN vInClients
           /\ \A j \in DOMAIN vInClients :
                 /\ vInClients'[j].sock = vInClients[j].sock
                 /\ j # k => vInClients'[j] = vInClients[j]
           /\ TableMatchesKernel' /\ HighestCovers' /\ ErrorsBelongToConnection'
           /\ Cardinality(OverClients') = had_errors'
  <1> DEFINE old == vInClients[k]
             new == vInClients'[k]
  <1>1. /\ old \in Client
        /\ new = [old EXCEPT !.had_rw_error = @ + 1]
        /\ vInClients' = [vInClients EXCEPT ![k] = new]
        /\ new \in Client /\ new.sock = old.sock
        /\ new.had_rw_error = old.had_rw_error + 1
    BY Entries DEF CountRwError, ServerInv, Client
  <1>2. /\ vInClients' \in Seq(Client)
        /\ DOMAIN vInClients' = DOMAIN vInClients
        /\ \A j \in DOMAIN vInClients :
              /\ vInClients'[j].sock = vInClients[j].sock
              /\ j # k => vInClients'[j] = vInClients[j]
    <2>1. vInClients \in Seq(Client)
      BY DEF ServerInv, TypeOK
    <2> HIDE DEF new
    <2>2. vInClients' \in Seq(Client) /\ DOMAIN vInClients' = DOMAIN vInClients
      BY <1>1, <2>1
    <2>3. ASSUME NEW j \in DOMAIN vInClients
          PROVE  vInClients'[j] = IF j = k THEN new ELSE vInClients[j]
      BY <1>1, <2>1
    <2>4. QED
      BY <1>1, <2>2, <2>3
  <1>3. \A i, j \in DOMAIN vInClients : vInClients[i].sock = vInClients[j].sock => i = j
    BY DEF ServerInv, TableMatchesKernel
  <1>4. Tracked' = Tracked
    BY <1>2 DEF Tracked, Range
  <1>5. TableMatchesKernel'
    <2>1. old.sock \in FreeFds /\ conn \in [FreeFds -> Conn]
      BY Entries DEF ServerInv, TypeOK
    <2>2. IsOpen(conn[old.sock])
      BY DEF ServerInv, TableMatchesKernel, Tracked, Range
    <2>3. \A g \in FreeFds : IsOpen(conn'[g]) <=> IsOpen(conn[g])
      BY <2>1, <2>2
    <2>4. QED
      BY <2>3, <1>2, <1>3, <1>4 DEF ServerInv, TableMatchesKernel
  <1>6. HighestCovers'
    BY <1>4 DEF ServerInv, HighestCovers
  <1>7. ErrorsBelongToConnection'
    <2> SUFFICES ASSUME NEW j \in DOMAIN vInClients
                 PROVE  vInClients'[j].had_rw_error = conn'[vInClients'[j].sock].fails
      BY <1>2 DEF ErrorsBelongToConnection, Range
    <2>1. /\ conn \in [FreeFds -> Conn]
          /\ vInClients[j].sock \in FreeFds
          /\ vInClients[j].had_rw_error = conn[vInClients[j].sock].fails
      BY Entries DEF ServerInv, TypeOK, ErrorsBelongToConnection, Range
    <2>2. CASE j = k
      BY <2>1, <2>2, <1>1
    <2>3. CASE j # k
      BY <2>1, <2>3, <1>2, <1>3
    <2>4. QED
      BY <2>2, <2>3
  <1>8. /\ had_errors' \in Nat
        /\ Cardinality(OverClients') = had_errors'
    <2>1. IsFiniteSet(OverClients) /\ Cardinality(OverClients) = had_errors
      <3>1. IsFiniteSet(Range(vInClients)) /\ OverClients \subseteq Range(vInClients)
        BY RangeFinite DEF ServerInv, TypeOK, OverClients
      <3>2. QED
        BY <3>1, FS_Subset DEF ServerInv, ErrorsAccounted
    <2>2. new \notin OverClients
      BY <1>1, <1>3 DEF OverClients, Range, Client
    <2>3. OverClients' = IF OverLimit(new) THEN OverClients \cup {new} ELSE OverClients
      <3>1. OverClients' \subseteq OverClients \cup {new}
        BY <1>2 DEF OverClients, Range, OverLimit
      <3>2. OverClients \subseteq OverClients'
        BY <1>2 DEF OverClients, Range, OverLimit
      <3>3. new \in OverClients' <=> OverLimit(new)
        BY <1>2 DEF OverClients, Range, OverLimit
      <3>4. QED
        BY <3>1, <3>2, <3>3, <2>2
    <2>4. had_errors' = IF OverLimit(new) THEN had_errors + 1 ELSE had_errors
      BY DEF CountRwError
    <2>5. had_errors \in Nat
      BY DEF ServerInv, TypeOK
    <2>6. Cardinality(OverClients \cup {new}) = Cardinality(OverClients) + 1
      BY <2>1, <2>2, FS_AddElement
    <2>7. QED
      BY <2>1, <2>3, <2>4, <2>5, <2>6
  <1>9. QED
    BY <1>2, <1>5, <1>6, <1>7, <1>8

LEMMA ReceiveNothingInv ==
    ASSUME ServerInv, NEW k \in DOMAIN vInClients, ReceiveNothing(k)
    PROVE  ServerInv'
  <1> DEFINE f == vInClients[k].sock
             d == AfterRecvNothing(conn[f])
  <1> USE DEF mainVars, keyVars, peerVars
  <1>1. /\ pc = "process" /\ pc' = "process" /\ IsNext(k)
        /\ RecvResult(conn[f]) # "data"
        /\ conn' = [conn EXCEPT ![f] = d]
        /\ idx' = k + 1
        /\ UNCHANGED <<iret, sockfd, highest, ListenSocket, is_paused, do_echo,
                       msg_file, backlog, connects, sends>>
    BY DEF ReceiveNothing
  <1>2. k >= idx /\ f \in ListenSocket /\ k \in Nat
    BY <1>1, Entries DEF IsNext, IsPending, ServerInv
  <1>3. f \in FreeFds /\ conn[f] \in Conn /\ IsOpen(conn[f])
    BY Entries DEF ServerInv, TableMatchesKernel, Tracked, Range
  <1>4. RecvResult(conn[f]) \in {"error", "eof"}
    BY <1>1, <1>3, ReadableGivesResult DEF ServerInv, ReadinessHolds, IsNext
  <1>5. CountRwError(k)
    BY <1>4 DEF ReceiveNothing
  <1>6. d \in Conn /\ IsOpen(d) /\ d.fails = conn[f].fails + 1
    BY <1>3, <1>4, FailedCalls
  <1>7. ~OverLimit(vInClients[k])
    BY <1>1, <1>2 DEF ServerInv, PassInv
  <1> HIDE DEF d
  <1>8. /\ vInClients' \in Seq(Client)
        /\ had_errors' \in Nat
        /\ DOMAIN vInClients' = DOMAIN vInClients
        /\ \A j \in DOMAIN vInClients :
              /\ vInClients'[j].sock = vInClients[j].sock
              /\ j # k => vInClients'[j] = vInClients[j]
        /\ TableMatchesKernel' /\ HighestCovers' /\ ErrorsBelongToConnection'
        /\ Cardinality(OverClients') = had_errors'
    BY <1>1, <1>5, <1>6, <1>7, CountedError
  <1>9. TypeOK'
    <2>1. conn' \in [FreeFds -> Conn]
      BY <1>1, <1>3, <1>6 DEF ServerInv, TypeOK
    <2>2. QED
      BY <1>1, <1>2, <1>8, <2>1 DEF ServerInv, TypeOK
  <1>10. ErrorsAccounted'
    BY <1>1, <1>8 DEF ErrorsAccounted
  <1>11. ReadinessHolds'
    <2> SUFFICES ASSUME NEW j \in DOMAIN vInClients, j >= k + 1,
                        vInClients[j].sock \in ListenSocket, vInClients[j].sock # 0
                 PROVE  Readable(conn'[vInClients[j].sock])
      BY <1>1, <1>8 DEF ReadinessHolds, IsPending
    <2>1. j # k /\ j >= idx /\ j \in Nat
      BY <1>2, Entries DEF ServerInv, TypeOK
    <2>2. vInClients[j].sock # f /\ vInClients[j].sock \in FreeFds
      BY <2>1, Entries DEF ServerInv, TableMatchesKernel
    <2>3. Readable(conn[vInClients[j].sock])
      BY <1>1, <2>1 DEF ServerInv, ReadinessHolds, IsPending
    <2>4. QED
      BY <1>1, <2>2, <2>3 DEF ServerInv, TypeOK
  <1>12. PassInv'
    <2> SUFFICES ASSUME NEW j \in DOMAIN vInClients, j >= k + 1
                 PROVE  ~OverLimit(vInClients'[j])
      BY <1>1, <1>8 DEF PassInv
    <2>1. j # k /\ j >= idx
      BY <1>2, Entries DEF ServerInv, TypeOK
    <2>2. QED
      BY <1>1, <1>8, <2>1 DEF ServerInv, PassInv, OverLimit
  <1>13. Phases'
    BY <1>1, ServerAssumption DEF ServerInv, Phases, NoSock
  <1>14. QED
    BY <1>8, <1>9, <1>10, <1>11, <1>12, <1>13 DEF ServerInv

LEMMA ReplyInv ==
    ASSUME ServerInv, Reply
    PROVE  ServerInv'
  <1> DEFINE f == vInClients[idx].sock
             d == AfterSend(conn[f])
  <1> USE DEF mainVars, keyVars, peerVars
  <1>1. /\ pc = "reply" /\ pc' = "process"
        /\ conn' = [conn EXCEPT ![f] = d]
        /\ idx' = idx + 1
        /\ UNCHANGED <<iret, sockfd, highest, ListenSocket, is_paused, do_echo,
                       msg_file, backlog, connects, sends>>
    BY DEF Reply
  <1>2. idx \in DOMAIN vInClients /\ idx \in Nat
    BY <1>1 DEF ServerInv, PassInv, TypeOK
  <1>3. f \in FreeFds /\ conn[f] \in Conn /\ IsOpen(conn[f])
    BY <1>2, Entries DEF ServerInv, TableMatchesKernel, Tracked, Range
  <1>4. /\ d \in Conn /\ IsOpen(d)
        /\ SendResult(conn[f]) = "ok" => d.fails = conn[f].fails
        /\ SendResult(conn[f]) # "ok" => d.fails = conn[f].fails + 1
    BY <1>3, FailedCalls
  <1>5. ~OverLimit(vInClients[idx])
    BY <1>1, <1>2 DEF ServerInv, PassInv
  <1>6. \/ UNCHANGED <<vInClients, had_errors>> /\ d.fails = conn[f].fails
        \/ CountRwError(idx) /\ d.fails = conn[f].fails + 1
    BY <1>4 DEF Reply
  <1> HIDE DEF d
  <1>7. /\ vInClients' \in Seq(Client)
        /\ had_errors' \in Nat
        /\ DOMAIN vInClients' = DOMAIN vInClients
        /\ \A j \in DOMAIN vInClients :
              /\ vInClients'[j].sock = vInClients[j].sock
              /\ j # idx => vInClients'[j] = vInClients[j]
        /\ TableMatchesKernel' /\ HighestCovers' /\ ErrorsBelongToConnection'
        /\ Cardinality(OverClients') = had_errors'
    <2>1. CASE CountRwError(idx) /\ d.fails = conn[f].fails + 1
      BY <1>1, <1>2, <1>4, <1>5, <2>1, CountedError
    <2>2. CASE UNCHANGED <<vInClients, had_errors>> /\ d.fails = conn[f].fails
      <3>1. /\ conn \in [FreeFds -> Conn]
            /\ \A g \in FreeFds : (IsOpen(conn'[g]) <=> IsOpen(conn[g]))
                                  /\ conn'[g].fails = conn[g].fails
        BY <1>1, <1>3, <1>4, <2>2 DEF ServerInv, TypeOK
      <3>2. vInClients' \in Seq(Client) /\ had_errors' \in Nat
        BY <2>2 DEF ServerInv, TypeOK
      <3>3. Tracked' = Tracked /\ OverClients' = OverClients
        BY <2>2 DEF Tracked, Range, OverClients, OverLimit
      <3>4. TableMatchesKernel' /\ HighestCovers'
        BY <1>1, <2>2, <3>1, <3>3 DEF ServerInv, TableMatchesKernel, HighestCovers
      <3>5. ErrorsBelongToConnection'
        <4>1. \A c \in Range(vInClients) : c.sock \in FreeFds
          BY Entries DEF Range, ServerInv
        <4>2. QED
          BY <2>2, <3>1, <4>1 DEF ServerInv, ErrorsBelongToConnection, Range
      <3>6. Cardinality(OverClients') = had_errors'
        BY <1>1, <2>2, <3>3 DEF ServerInv, ErrorsAccounted
      <3>7. QED
        BY <2>2, <3>2, <3>4, <3>5, <3>6
    <2>3. QED
      BY <1>6, <2>1, <2>2
  <1>8. TypeOK'
    <2>1. conn' \in [FreeFds -> Conn]
      BY <1>1, <1>3, <1>4 DEF ServerInv, TypeOK
    <2>2. QED
      BY <1>1, <1>2, <1>7, <2>1 DEF ServerInv, TypeOK
  <1>9. ErrorsAccounted'
    BY <1>1, <1>7 DEF ErrorsAccounted
  <1>10. ReadinessHolds'
    <2> SUFFICES ASSUME NEW j \in DOMAIN vInClients, j >= idx + 1,
                        vInClients[j].sock \in ListenSocket
                 PROVE  Readable(conn'[vInClients[j].sock])
      BY <1>1, <1>7 DEF ReadinessHolds, IsPending
    <2>1. j # idx /\ j > idx
      BY <1>2, Entries DEF ServerInv
    <2>2. vInClients[j].sock # f /\ vInClients[j].sock \in FreeFds
      BY <1>2, <2>1, Entries DEF ServerInv, TableMatchesKernel
    <2>3. Readable(conn[vInClients[j].sock])
      BY <1>1, <2>1 DEF ServerInv, PassInv
    <2>4. QED
      BY <1>1, <2>2, <2>3 DEF ServerInv, TypeOK
  <1>11. PassInv'
    <2> SUFFICES ASSUME NEW j \in DOMAIN vInClients, j >= idx + 1
                 PROVE  ~OverLimit(vInClients'[j])
      BY <1>1, <1>7 DEF PassInv
    <2>1. j # idx /\ j >= idx
      BY <1>2, Entries DEF ServerInv
    <2>2. QED
      BY <1>1, <1>7, <2>1 DEF ServerInv, PassInv, OverLimit
  <1>12. Phases'
    BY <1>1, ServerAssumption DEF ServerInv, Phases, NoSock
  <1>13. QED
    BY <1>7, <1>8, <1>9, <1>10, <1>11, <1>12 DEF ServerInv

LEMMA ReceiveDataInv ==
    ASSUME ServerInv, NEW k \in DOMAIN vInClients, NEW n \in 1..MaxIn,
           ReceiveData(k, n)
    PROVE  ServerInv'
  <1> DEFINE f == vInClients[k].sock
             d == AfterRecvData(conn[f], n)
  <1> USE DEF mainVars, keyVars, peerVars
  <1>1. /\ pc = "process" /\ IsNext(k) /\ n <= conn[f].in
        /\ conn' = [conn EXCEPT ![f] = d]
        /\ \/ pc' = "reply" /\ idx' = k
           \/ pc' = "process" /\ idx' = k + 1
        /\ WriteMsgLog
        /\ UNCHANGED <<iret, sockfd, highest, vInClients, ListenSocket, had_errors,
                       is_paused, do_echo, backlog, connects, sends>>
    BY DEF ReceiveData
  <1>2. k >= idx /\ k \in Nat \ {0} /\ idx \in Nat
    BY <1>1, Entries DEF IsNext, IsPending, ServerInv, TypeOK
  <1>3. f \in FreeFds /\ conn[f] \in Conn /\ conn \in [FreeFds -> Conn]
    BY Entries DEF ServerInv, TypeOK
  <1>4. d \in Conn /\ d.fails = conn[f].fails /\ (IsOpen(d) <=> IsOpen(conn[f]))
    BY <1>1, <1>3, ReadData
  <1> HIDE DEF d
  <1>5. /\ \A g \in FreeFds : (IsOpen(conn'[g]) <=> IsOpen(conn[g]))
                              /\ conn'[g].fails = conn[g].fails
        /\ conn' \in [FreeFds -> Conn]
    BY <1>1, <1>3, <1>4
  <1>6. /\ msg_file' \in {LogClosed, LogFailed} \cup FreeFds
        /\ msg_file' \notin Tracked
    <2>1. \/ msg_file' = msg_file
          \/ msg_file' = LogFailed
          \/ msg_file' \in LowestUnused
      BY <1>1 DEF WriteMsgLog
    <2>2. LowestUnused \subseteq FreeFds \ Tracked
      BY DEF LowestUnused, Unused, ServerInv, TableMatchesKernel
    <2>3. LogFailed \notin Tracked
      BY ServerAssumption DEF LogFailed, ServerInv, TableMatchesKernel
    <2>4. QED
      BY <2>1, <2>2, <2>3 DEF ServerInv, TypeOK, TableMatchesKernel
  <1>7. TypeOK'
    BY <1>1, <1>2, <1>5, <1>6 DEF ServerInv, TypeOK
  <1>8. Tracked' = Tracked /\ OverClients' = OverClients
    BY <1>1 DEF Tracked, Range, OverClients, OverLimit
  <1>9. TableMatchesKernel' /\ HighestCovers'
    BY <1>1, <1>5, <1>6, <1>8 DEF ServerInv, TableMatchesKernel, HighestCovers
  <1>10. ErrorsAccounted'
    BY <1>1, <1>8 DEF ServerInv, ErrorsAccounted
  <1>11. ErrorsBelongToConnection'
    <2>1. \A c \in Range(vInClients) : c.sock \in FreeFds
      BY Entries DEF Range, ServerInv
    <2>2. QED
      BY <1>1, <1>5, <2>1 DEF ServerInv, ErrorsBelongToConnection, Range
  <1>12. ASSUME NEW j \in DOMAIN vInClients, j > k,
                vInClients[j].sock \in ListenSocket
         PROVE  Readable(conn'[vInClients[j].sock])
    <2>1. j # k /\ j >= idx
      BY <1>2, <1>12, Entries DEF ServerInv
    <2>2. vInClients[j].sock # f /\ vInClients[j].sock \in FreeFds
                                 /\ vInClients[j].sock # 0
      BY <2>1, Entries DEF ServerInv, TableMatchesKernel
    <2>3. Readable(conn[vInClients[j].sock])
      BY <1>1, <1>12, <2>1, <2>2 DEF ServerInv, ReadinessHolds, IsPending
    <2>4. QED
      BY <1>1, <1>3, <2>2, <2>3
  <1>13. ReadinessHolds'
    <2> SUFFICES ASSUME pc' = "process", NEW j \in DOMAIN vInClients, j >= k + 1,
                        vInClients[j].sock \in ListenSocket
                 PROVE  Readable(conn'[vInClients[j].sock])
      BY <1>1 DEF ReadinessHolds, IsPending
    <2>1. j > k
      BY <1>2, Entries DEF ServerInv
    <2>2. QED
      BY <1>12, <2>1
  <1>14. PassInv'
    <2>1. ASSUME NEW j \in DOMAIN vInClients, j >= idx'
          PROVE  ~OverLimit(vInClients[j])
      <3>1. j >= idx
        BY <1>1, <1>2, <2>1, Entries DEF ServerInv
      <3>2. QED
        BY <1>1, <3>1 DEF ServerInv, PassInv
    <2>2. QED
      BY <1>1, <1>12, <2>1 DEF PassInv, OverLimit
  <1>15. Phases'
    BY <1>1, ServerAssumption DEF ServerInv, Phases, NoSock
  <1>16. QED
    BY <1>7, <1>9, <1>10, <1>11, <1>13, <1>14, <1>15 DEF ServerInv

LEMMA FinishReadsInv ==
    ASSUME ServerInv, FinishReads
    PROVE  ServerInv'
  <1> USE DEF FinishReads, mainVars, passVars, keyVars, kernelVars, peerVars
  <1>1. TypeOK'
    BY DEF ServerInv, TypeOK
  <1>2. TableMatchesKernel' /\ HighestCovers' /\ ErrorsBelongToConnection'
    BY SameTable
  <1>3. ErrorsAccounted' /\ ReadinessHolds' /\ Phases' /\ PassInv'
    BY DEF ServerInv, ErrorsAccounted, ReadinessHolds, Phases, PassInv,
           OverClients, OverLimit, Range
  <1>4. QED
    BY <1>1, <1>2, <1>3 DEF ServerInv

LEMMA EraseDoneInv ==
    ASSUME ServerInv, EraseDone
    PROVE  ServerInv'
  <1> USE DEF EraseDone, mainVars, passVars, keyVars, kernelVars, peerVars
  <1>1. TypeOK'
    BY DEF ServerInv, TypeOK
  <1>2. TableMatchesKernel' /\ HighestCovers' /\ ErrorsBelongToConnection'
    BY SameTable
  <1>3. ErrorsAccounted'
    <2>1. IsFiniteSet(OverClients)
      <3>1. IsFiniteSet(Range(vInClients)) /\ OverClients \subseteq Range(vInClients)
        BY RangeFinite DEF ServerInv, TypeOK, OverClients
      <3>2. QED
        BY <3>1, FS_Subset
    <2>2. OverClients = {}
      BY <2>1, FS_EmptySet DEF ServerInv, ErrorsAccounted
    <2>3. QED
      BY <2>2 DEF ErrorsAccounted, OverClients, OverLimit, Range
  <1>4. ReadinessHolds' /\ Phases' /\ PassInv'
    BY DEF ServerInv, ReadinessHolds, Phases, PassInv
  <1>5. QED
    BY <1>1, <1>2, <1>3, <1>4 DEF ServerInv

(* The process ends, by End_App or by a signal: nothing is left open.      *)
LEMMA EndInv ==
    ASSUME ServerInv, EndApp \/ ReplyKills
    PROVE  ServerInv'
  <1>1. /\ vInClients' = <<>>
        /\ sockfd' = NoSock
        /\ msg_file' = LogClosed
        /\ backlog' = 0
        /\ pc' \in {"exited", "killed"}
        /\ UNCHANGED <<iret, highest, ListenSocket, idx, had_errors, is_paused,
                       do_echo, connects, sends>>
    BY DEF EndApp, ReplyKills, passVars, keyVars, peerVars
  <1>2. /\ conn' \in [FreeFds -> Conn]
        /\ \A f \in FreeFds : ~IsOpen(conn'[f])
    <2>1. CASE ReplyKills
      BY <2>1, PlainConns DEF ReplyKills
    <2>2. CASE EndApp
      <3>1. conn' = [f \in FreeFds |->
                        IF f \in ClosedAtEnd THEN NoConn ELSE conn[f]]
        BY <2>2 DEF EndApp
      <3>2. ASSUME NEW f \in FreeFds, f \notin ClosedAtEnd
            PROVE  ~IsOpen(conn[f])
        BY <3>2, ServerAssumption
           DEF ClosedAtEnd, ServerInv, TableMatchesKernel
      <3>3. QED
        BY <3>1, <3>2, PlainConns DEF ServerInv, TypeOK
    <2>3. QED
      BY <2>1, <2>2
  <1>3. TypeOK'
    BY <1>1, <1>2, ServerAssumption DEF ServerInv, TypeOK
  <1>4. Tracked' = {} /\ OverClients' = {} /\ DOMAIN vInClients' = {}
    BY <1>1 DEF Tracked, OverClients, Range
  <1>5. TableMatchesKernel' /\ HighestCovers'
    BY <1>1, <1>2, <1>4, ServerAssumption
       DEF TableMatchesKernel, HighestCovers, NoSock
  <1>6. ErrorsAccounted' /\ ReadinessHolds' /\ ErrorsBelongToConnection'
    BY <1>1, <1>4
       DEF ErrorsAccounted, ReadinessHolds, ErrorsBelongToConnection, Range
  <1>7. Phases' /\ PassInv'
    BY <1>1 DEF Phases, PassInv
  <1>8. QED
    BY <1>3, <1>5, <1>6, <1>7 DEF ServerInv

LEMMA EraseClientInv ==
    ASSUME ServerInv, NEW k \in DOMAIN vInClients, EraseClient(k)
    PROVE  ServerInv'
  <1> DEFINE f == vInClients[k].sock
  <1>1. /\ pc = "erase" /\ pc' = "erase"
        /\ had_errors > 0 /\ had_errors' = had_errors - 1
        /\ OverLimit(vInClients[k])
        /\ conn' = [conn EXCEPT ![f] = NoConn]
        /\ UNCHANGED <<iret, sockfd, highest, ListenSocket, idx, is_paused, do_echo,
                       msg_file, backlog, connects, sends>>
    BY DEF EraseClient, IsFirstOver, mainVars, keyVars, peerVars
  <1>2. /\ Len(vInClients) \in Nat
        /\ DOMAIN vInClients = 1..Len(vInClients)
        /\ vInClients \in Seq(Client)
        /\ \A j \in DOMAIN vInClients :
              vInClients[j].sock \in FreeFds /\ vInClients[j].sock # 0
    BY Entries DEF ServerInv, TypeOK
  <1>3. \A i, j \in DOMAIN vInClients : vInClients[i].sock = vInClients[j].sock => i = j
    BY DEF ServerInv, TableMatchesKernel
  <1>4. vInClients' = WithoutOffset(vInClients, k - 1)
    <2>1. \A j \in 1..(k - 1) : vInClients[j].sock # 0
      BY <1>2
    <2>2. EraseOffset(k) = k - 1
      BY <1>2, <2>1, OffsetIsPosition DEF EraseOffset
    <2>3. QED
      BY <2>2 DEF EraseClient
  <1>5. /\ vInClients' \in Seq(Client)
        /\ DOMAIN vInClients' = 1..(Len(vInClients) - 1)
        /\ \A j \in DOMAIN vInClients' :
              vInClients'[j] = IF j < k THEN vInClients[j] ELSE vInClients[j + 1]
        /\ \A i \in DOMAIN vInClients : i # k =>
              \E j \in DOMAIN vInClients' : vInClients'[j] = vInClients[i]
    BY <1>2, <1>4, Erased
  <1>6. Range(vInClients') = Range(vInClients) \ {vInClients[k]}
    <2>1. ASSUME NEW j \in DOMAIN vInClients'
          PROVE  \E i \in DOMAIN vInClients : i # k /\ vInClients'[j] = vInClients[i]
      BY <1>2, <1>5
    <2>2. \A i \in DOMAIN vInClients : i # k => vInClients[i] # vInClients[k]
      BY <1>3
    <2>3. QED
      BY <1>5, <2>1, <2>2 DEF Range
  <1>7. Tracked' = Tracked \ {f}
    <2>1. \A c \in Range(vInClients) : c.sock = f => c = vInClients[k]
      BY <1>3 DEF Range
    <2>2. Tracked' \subseteq Tracked \ {f}
      BY <1>6, <2>1 DEF Tracked
    <2>3. Tracked \ {f} \subseteq Tracked'
      BY <1>6 DEF Tracked
    <2>4. QED
      BY <2>2, <2>3
  <1>8. TypeOK'
    <2>1. conn' \in [FreeFds -> Conn]
      BY <1>1, PlainConns DEF ServerInv, TypeOK
    <2>2. had_errors' \in Nat
      BY <1>1 DEF ServerInv, TypeOK
    <2>3. QED
      BY <1>1, <1>5, <2>1, <2>2 DEF ServerInv, TypeOK
  <1>9. TableMatchesKernel'
    <2>1. {g \in FreeFds : IsOpen(conn'[g])} = {g \in FreeFds : IsOpen(conn[g])} \ {f}
      BY <1>1, <1>2, PlainConns DEF ServerInv, TypeOK
    <2>2. ASSUME NEW i \in DOMAIN vInClients', NEW j \in DOMAIN vInClients',
                 vInClients'[i].sock = vInClients'[j].sock
          PROVE  i = j
      BY <1>2, <1>3, <1>5, <2>2
    <2>3. QED
      BY <1>1, <1>7, <2>1, <2>2 DEF ServerInv, TableMatchesKernel
  <1>10. HighestCovers'
    BY <1>1, <1>7 DEF ServerInv, HighestCovers
  <1>11. ErrorsAccounted'
    <2>1. OverClients' = OverClients \ {vInClients[k]} /\ vInClients[k] \in OverClients
      BY <1>1, <1>6 DEF OverClients, OverLimit, Range
    <2>2. IsFiniteSet(OverClients)
      <3>1. IsFiniteSet(Range(vInClients)) /\ OverClients \subseteq Range(vInClients)
        BY RangeFinite DEF ServerInv, TypeOK, OverClients
      <3>2. QED
        BY <3>1, FS_Subset
    <2>3. Cardinality(OverClients') = Cardinality(OverClients) - 1
      BY <2>1, <2>2, FS_RemoveElement
    <2>4. QED
      BY <1>1, <2>3 DEF ServerInv, ErrorsAccounted
  <1>12. ErrorsBelongToConnection'
    <2>1. \A c \in Range(vInClients') : c.sock # f /\ c.sock \in FreeFds
      BY <1>2, <1>3, <1>6 DEF Range
    <2>2. QED
      BY <1>1, <1>6, <2>1 DEF ServerInv, TypeOK, ErrorsBelongToConnection
  <1>13. Phases'
    BY <1>1, ServerAssumption DEF ServerInv, Phases, NoSock
  <1>14. ReadinessHolds' /\ PassInv'
    BY <1>1 DEF ReadinessHolds, PassInv
  <1>15. QED
    BY <1>8, <1>9, <1>10, <1>11, <1>12, <1>13, <1>14 DEF ServerInv

(* What a peer does to a connection leaves it open to the server and, if it *)
(* was readable, readable.                                                 *)
LEMMA PeerDoesInv ==
    ASSUME ServerInv, NEW f \in FreeFds,
           \/ PeerDoes(f, CanPeerSend(conn[f]), PeerSends(conn[f]))
           \/ PeerDoes(f, CanPeerRead(conn[f]), PeerReads(conn[f]))
           \/ PeerDoes(f, CanPeerClose(conn[f]), PeerCloses(conn[f]))
           \/ PeerDoes(f, CanPeerReset(conn[f]), PeerResets(conn[f])),
           sends' \in 0..MaxSends
    PROVE  ServerInv'
  <1> USE DEF mainVars, passVars, keyVars
  <1>1. conn[f] \in Conn /\ conn \in [FreeFds -> Conn]
    BY DEF ServerInv, TypeOK
  <1>2. PICK d \in Conn :
           /\ conn' = [conn EXCEPT ![f] = d]
           /\ d.fails = conn[f].fails
           /\ IsOpen(d) /\ IsOpen(conn[f])
           /\ Readable(conn[f]) => Readable(d)
    <2> USE DEF PeerDoes
    <2>1. CASE PeerDoes(f, CanPeerSend(conn[f]), PeerSends(conn[f]))
      BY <1>1, <2>1, PeerMoves DEF CanPeerSend, IsOpen
    <2>2. CASE PeerDoes(f, CanPeerRead(conn[f]), PeerReads(conn[f]))
      BY <1>1, <2>2, PeerMoves DEF CanPeerRead, IsOpen
    <2>3. CASE PeerDoes(f, CanPeerClose(conn[f]), PeerCloses(conn[f]))
      BY <1>1, <2>3, PeerMoves DEF CanPeerClose, IsOpen
    <2>4. CASE PeerDoes(f, CanPeerReset(conn[f]), PeerResets(conn[f]))
      BY <1>1, <2>4, PeerMoves DEF CanPeerReset, IsOpen
    <2>5. QED
      BY <2>1, <2>2, <2>3, <2>4
  <1>3. UNCHANGED <<pc, iret, sockfd, highest, vInClients, ListenSocket, idx,
                    had_errors, is_paused, do_echo, msg_file, backlog, connects>>
    BY DEF PeerDoes
  <1>4. \A g \in FreeFds : /\ IsOpen(conn'[g]) <=> IsOpen(conn[g])
                           /\ conn'[g].fails = conn[g].fails
                           /\ Readable(conn[g]) => Readable(conn'[g])
    BY <1>1, <1>2
  <1>5. TypeOK'
    BY <1>1, <1>2, <1>3 DEF ServerInv, TypeOK
  <1>6. /\ Tracked' = Tracked /\ OverClients' = OverClients
        /\ \A k \in DOMAIN vInClients : vInClients[k].sock \in FreeFds
    BY <1>3, Entries DEF Tracked, Range, OverClients, OverLimit, ServerInv
  <1>7. TableMatchesKernel' /\ HighestCovers'
    BY <1>3, <1>4, <1>6 DEF ServerInv, TableMatchesKernel, HighestCovers
  <1>8. ErrorsAccounted' /\ Phases'
    BY <1>3, <1>6 DEF ServerInv, ErrorsAccounted, Phases
  <1>9. ErrorsBelongToConnection'
    BY <1>3, <1>4, <1>6 DEF ServerInv, ErrorsBelongToConnection, Range
  <1>10. ReadinessHolds'
    BY <1>3, <1>4, <1>6 DEF ServerInv, ReadinessHolds, IsPending
  <1>11. PassInv'
    BY <1>3, <1>4, <1>6 DEF ServerInv, PassInv, OverLimit
  <1>12. QED
    BY <1>5, <1>7, <1>8, <1>9, <1>10, <1>11 DEF ServerInv

(* The peers act on one connection, or they add to the backlog.            *)
LEMMA PeersInv ==
    ASSUME ServerInv, Peers
    PROVE  ServerInv'
  <1>1. CASE PeerConnects
    <2> USE <1>1 DEF PeerConnects, mainVars, passVars, keyVars
    <2>1. TypeOK'
      BY ServerAssumption DEF ServerInv, TypeOK
    <2>2. TableMatchesKernel' /\ HighestCovers' /\ ErrorsBelongToConnection'
      BY SameTable
    <2>3. ErrorsAccounted' /\ ReadinessHolds' /\ Phases' /\ PassInv'
      BY DEF ServerInv, ErrorsAccounted, ReadinessHolds, Phases, PassInv,
             OverClients, OverLimit, Range, IsPending
    <2>4. QED
      BY <2>1, <2>2, <2>3 DEF ServerInv
  <1>2. ASSUME NEW f \in FreeFds,
               PeerSend(f) \/ PeerRead(f) \/ PeerClose(f) \/ PeerReset(f)
        PROVE  ServerInv'
    <2>1. sends' \in 0..MaxSends
      BY <1>2, ServerAssumption
      DEF PeerSend, PeerRead, PeerClose, PeerReset, ServerInv, TypeOK
    <2>2. QED
      BY <1>2, <2>1, PeerDoesInv DEF PeerSend, PeerRead, PeerClose, PeerReset
  <1>3. QED
    BY <1>1, <1>2 DEF Peers

-----------------------------------------------------------------------------
(* The theorems.                                                           *)

LEMMA StepInv == ServerInv /\ [Next]_vars => ServerInv'
  <1> SUFFICES ASSUME ServerInv, [Next]_vars PROVE ServerInv'
    OBVIOUS
  <1>1. CASE Startup
    BY <1>1, StartupInv
  <1>2. CASE Loop
    BY <1>2, QuietInv, SelectReturnsInv, AcceptInv DEF Loop
  <1>3. CASE Process
    BY <1>3, ReceiveDataInv, ReceiveNothingInv, EraseClientInv, ReplyInv, EndInv,
       FinishReadsInv, EraseDoneInv DEF Process
  <1>4. CASE EndApp
    BY <1>4, EndInv
  <1>5. CASE Peers
    BY <1>5, PeersInv
  <1>6. CASE Terminated \/ UNCHANGED vars
    <2>1. UNCHANGED vars
      BY <1>6 DEF Terminated
    <2>2. TypeOK'
      BY <2>1 DEF vars, ServerInv, TypeOK
    <2>3. TableMatchesKernel' /\ HighestCovers' /\ ErrorsBelongToConnection'
      BY <2>1, SameTable DEF vars
    <2>4. ErrorsAccounted' /\ ReadinessHolds' /\ Phases' /\ PassInv'
      BY <2>1 DEF vars, ServerInv, ErrorsAccounted, ReadinessHolds, Phases, PassInv,
                  OverClients, OverLimit, Range, IsPending
    <2>5. QED
      BY <2>2, <2>3, <2>4 DEF ServerInv
  <1>7. QED
    BY <1>1, <1>2, <1>3, <1>4, <1>5, <1>6 DEF Next, Server

(* ServerInv, and with it every invariant the server promises, holds in    *)
(* every reachable state, whatever the limits and buffer sizes are.        *)
THEOREM ServerInvariant == Spec => []ServerInv
  BY InitInv, StepInv, PTL DEF Spec

(* The server's variables keep their types.                                *)
THEOREM TypeCorrect == Spec => []TypeOK
  <1>1. ServerInv => TypeOK
    BY DEF ServerInv
  <1>2. QED
    BY <1>1, ServerInvariant, PTL

(* No accepted connection is ever lost from the vector, listed twice or    *)
(* left in it after its socket is closed.                                  *)
THEOREM NoConnectionLost == Spec => []TableMatchesKernel
  <1>1. ServerInv => TableMatchesKernel
    BY DEF ServerInv
  <1>2. QED
    BY <1>1, ServerInvariant, PTL

(* select() is always told about every client.                             *)
THEOREM SelectSeesAll == Spec => []HighestCovers
  <1>1. ServerInv => HighestCovers
    BY DEF ServerInv
  <1>2. QED
    BY <1>1, ServerInvariant, PTL

(* had_errors is the number of clients the erase loop has to find: each    *)
(* client over the limit is removed in the pass that put it there.         *)
THEOREM ErrorCountExact == Spec => []ErrorsAccounted
  <1>1. ServerInv => ErrorsAccounted
    BY DEF ServerInv
  <1>2. QED
    BY <1>1, ServerInvariant, PTL

(* What select() reported about a client is still so when it is read.      *)
THEOREM SelectNotStale == Spec => []ReadinessHolds
  <1>1. ServerInv => ReadinessHolds
    BY DEF ServerInv
  <1>2. QED
    BY <1>1, ServerInvariant, PTL

(* had_rw_error counts the failed calls of the entry's own connection.     *)
THEOREM ErrorCountsOwn == Spec => []ErrorsBelongToConnection
  <1>1. ServerInv => ErrorsBelongToConnection
    BY DEF ServerInv
  <1>2. QED
    BY <1>1, ServerInvariant, PTL

(* A running server closes a connection only after more than               *)
(* max_rw_errors failed calls on it.                                       *)
THEOREM CloseNeedsErrors == Spec => ClosedOnlyAfterErrors
  <1> DEFINE Justified ==
        \A f \in FreeFds :
           (IsOpen(conn[f]) /\ ~IsOpen(conn'[f])) =>
               \/ conn[f].fails > MaxRwErrors
               \/ pc = "end" \/ pc' = "killed"
  <1>1. ServerInv /\ [Next]_vars => [Justified]_vars
    <2> SUFFICES ASSUME ServerInv, Next,
                        NEW f \in FreeFds, IsOpen(conn[f]), ~IsOpen(conn'[f])
                 PROVE  \/ conn[f].fails > MaxRwErrors
                        \/ pc = "end" \/ pc' = "killed"
      OBVIOUS
    <2> USE DEF mainVars, tableVars, passVars, keyVars, kernelVars, peerVars
    <2>1. conn \in [FreeFds -> Conn] /\ conn[f] \in Conn
      BY DEF ServerInv, TypeOK
    <2>2. CASE Startup
      BY <2>2 DEF Startup, BadArgs, StartupFails, StartupDone
    <2>3. CASE AcceptClient
      BY <2>1, <2>3, PlainConns DEF AcceptClient
    <2>4. CASE \/ SelectReturns \/ SelectFails \/ AcceptFails
               \/ \E key \in Keys : CheckKey(key)
      BY <2>4 DEF SelectReturns, SelectFails, AcceptFails, CheckKey
    <2>5. CASE \E k \in DOMAIN vInClients : \E n \in 1..MaxIn : ReceiveData(k, n)
      BY <2>1, <2>5, ReadData, Entries DEF ReceiveData, ServerInv
    <2>6. CASE \E k \in DOMAIN vInClients : ReceiveNothing(k)
      BY <2>1, <2>6, FailedCalls DEF ReceiveNothing
    <2>7. CASE \E k \in DOMAIN vInClients : EraseClient(k)
      <3>1. PICK k \in DOMAIN vInClients : EraseClient(k)
        BY <2>7
      <3>2. vInClients[k].sock = f /\ OverLimit(vInClients[k])
        BY <2>1, <3>1 DEF EraseClient, IsFirstOver
      <3>3. vInClients[k].had_rw_error = conn[f].fails
        BY <3>2 DEF ServerInv, ErrorsBelongToConnection, Range
      <3>4. QED
        BY <3>2, <3>3 DEF OverLimit
    <2>8. CASE Reply
      BY <2>1, <2>8, FailedCalls DEF Reply
    <2>9. CASE ReplyKills \/ EndApp
      BY <2>9 DEF ReplyKills, EndApp
    <2>10. CASE FinishReads \/ EraseDone
      BY <2>10 DEF FinishReads, EraseDone
    <2>11. CASE PeerConnects
      BY <2>11 DEF PeerConnects
    <2>12. CASE \E g \in FreeFds :
                   PeerSend(g) \/ PeerRead(g) \/ PeerClose(g) \/ PeerReset(g)
      <3>1. PICK g \in FreeFds :
                   PeerSend(g) \/ PeerRead(g) \/ PeerClose(g) \/ PeerReset(g)
        BY <2>12
      <3>2. CASE g = f
        BY <2>1, <3>1, <3>2, PeerMoves
           DEF PeerSend, PeerRead, PeerClose, PeerReset, PeerDoes
      <3>3. CASE g # f
        BY <2>1, <3>1, <3>3
           DEF PeerSend, PeerRead, PeerClose, PeerReset, PeerDoes
      <3>4. QED
        BY <3>2, <3>3
    <2>13. CASE Terminated
      BY <2>13 DEF Terminated, vars
    <2>14. QED
      BY <2>2, <2>3, <2>4, <2>5, <2>6, <2>7, <2>8, <2>9, <2>10, <2>11, <2>12, <2>13
         DEF Next, Server, Loop, Process, Peers
  <1>2. QED
    BY <1>1, ServerInvariant, PTL DEF Spec, ClosedOnlyAfterErrors

-----------------------------------------------------------------------------
(* SimpServer implements ConnTable.                                        *)

(* Under the invariant the table is a view of the kernel's connections:    *)
(* the clients are the open ones, the suspects those with failed calls.    *)
TableIsView ==
    /\ Tracked  = {f \in FreeFds : IsOpen(conn[f])}
    /\ Suspects = {f \in FreeFds : IsOpen(conn[f]) /\ conn[f].fails > 0}

LEMMA TableView == ServerInv => TableIsView
  <1> SUFFICES ASSUME ServerInv PROVE TableIsView
    OBVIOUS
  <1>1. Tracked = {f \in FreeFds : IsOpen(conn[f])}
    BY DEF ServerInv, TableMatchesKernel
  <1>2. \A c \in Range(vInClients) : c.had_rw_error = conn[c.sock].fails
    BY DEF ServerInv, ErrorsBelongToConnection
  <1>3. Suspects = {f \in Tracked : conn[f].fails > 0}
    BY <1>2 DEF Suspects, Tracked
  <1>4. QED
    BY <1>1, <1>3 DEF TableIsView

LEMMA NextTableView == ServerInv' => TableIsView'
  BY TableView, PTL

(* A step that changes one connection without closing it, and counts at    *)
(* most one more failure on it, is Suspect or leaves the table alone.      *)
LEMMA OneConnection ==
    ASSUME ServerInv, ServerInv', UNCHANGED TablePhase,
           NEW f \in FreeFds, NEW d \in Conn, IsOpen(conn[f]), IsOpen(d),
           conn' = [conn EXCEPT ![f] = d],
           d.fails \in {conn[f].fails, conn[f].fails + 1}
    PROVE  Table!Next \/ UNCHANGED <<TablePhase, Tracked, Suspects>>
  <1>1. /\ conn \in [FreeFds -> Conn] /\ conn[f].fails \in Nat
        /\ conn'[f] = d /\ \A g \in FreeFds : g # f => conn'[g] = conn[g]
    BY DEF ServerInv, TypeOK, Conn
  <1>2. /\ Tracked  = {g \in FreeFds : IsOpen(conn[g])}
        /\ Suspects = {g \in FreeFds : IsOpen(conn[g]) /\ conn[g].fails > 0}
    BY TableView DEF TableIsView
  <1>3. /\ Tracked'  = {g \in FreeFds : IsOpen(conn'[g])}
        /\ Suspects' = {g \in FreeFds : IsOpen(conn'[g]) /\ conn'[g].fails > 0}
    BY NextTableView DEF TableIsView
  <1>4. Tracked' = Tracked /\ f \in Tracked
    BY <1>1, <1>2, <1>3
  <1>5. CASE d.fails = conn[f].fails
    <2>1. Suspects' = Suspects
      BY <1>1, <1>2, <1>3, <1>5
    <2>2. QED
      BY <1>4, <2>1
  <1>6. CASE d.fails = conn[f].fails + 1
    <2>1. Suspects' = Suspects \cup {f}
      BY <1>1, <1>2, <1>3, <1>6
    <2>2. Table!Suspect(f)
      BY <1>4, <2>1 DEF Table!Suspect
    <2>3. QED
      BY <2>2 DEF Table!Next
  <1>7. QED
    BY <1>5, <1>6

(* Every step of the server maps to a step of the table or to none.        *)
LEMMA TableStep ==
    ASSUME ServerInv, ServerInv', [Next]_vars
    PROVE  Table!Next \/ UNCHANGED <<TablePhase, Tracked, Suspects>>
  <1> USE DEF mainVars, tableVars, passVars, keyVars, kernelVars, peerVars
  <1>1. /\ Tracked  = {f \in FreeFds : IsOpen(conn[f])}
        /\ Suspects = {f \in FreeFds : IsOpen(conn[f]) /\ conn[f].fails > 0}
    BY TableView DEF TableIsView
  <1>2. /\ Tracked'  = {f \in FreeFds : IsOpen(conn'[f])}
        /\ Suspects' = {f \in FreeFds : IsOpen(conn'[f]) /\ conn'[f].fails > 0}
    BY NextTableView DEF TableIsView
  <1>3. conn' = conn => UNCHANGED <<Tracked, Suspects>>
    BY <1>1, <1>2
  <1>4. /\ conn \in [FreeFds -> Conn]
        /\ \A k \in DOMAIN vInClients :
              /\ vInClients[k].sock \in FreeFds
              /\ conn[vInClients[k].sock] \in Conn
              /\ IsOpen(conn[vInClients[k].sock])
    <2>1. conn \in [FreeFds -> Conn] /\ TypeOK
      BY DEF ServerInv, TypeOK
    <2>2. ASSUME NEW k \in DOMAIN vInClients
          PROVE  vInClients[k].sock \in Tracked
      BY DEF Tracked, Range
    <2>3. QED
      BY <1>1, <2>1, <2>2, Entries
  <1>5. CASE Startup
    <2>1. conn' = conn /\ Tracked = {} /\ pc = "start"
      BY <1>5 DEF Startup, BadArgs, StartupFails, StartupDone, ServerInv, Phases,
                  Tracked, Range
    <2>2. CASE BadArgs
      <3>1. TablePhase' = "down" /\ Tracked' = {} /\ Suspects' = {}
        BY <1>1, <1>3, <2>1, <2>2 DEF BadArgs, TablePhase, Stopped
      <3>2. QED
        BY <3>1 DEF Table!Next, Table!End
    <2>3. CASE StartupFails \/ StartupDone
      <3>1. \/ UNCHANGED TablePhase
            \/ TablePhase \in {"idle", "up"} /\ TablePhase' = "up"
        BY <2>1, <2>3 DEF StartupFails, StartupDone, TablePhase, Stopped
      <3>2. QED
        BY <1>3, <2>1, <3>1 DEF Table!Next, Table!Listen
    <2>4. QED
      BY <1>5, <2>2, <2>3 DEF Startup
  <1>6. CASE \/ \E key \in Keys : CheckKey(key)
             \/ SelectReturns \/ SelectFails \/ AcceptFails
             \/ FinishReads \/ EraseDone \/ PeerConnects
             \/ Terminated \/ UNCHANGED vars
    <2>1. conn' = conn /\ sockfd' = sockfd /\ (Stopped' <=> Stopped)
      BY <1>6 DEF CheckKey, SelectReturns, SelectFails, AcceptFails, FinishReads,
                  EraseDone, PeerConnects, Terminated, Stopped, Running, Listening,
                  vars
    <2>2. QED
      BY <1>3, <2>1 DEF TablePhase
  <1>7. CASE AcceptClient
    <2>1. PICK f \in LowestUnused : conn' = [conn EXCEPT ![f] = NewConn]
      BY <1>7 DEF AcceptClient
    <2>2. f \in FreeFds /\ ~IsOpen(conn[f])
      BY DEF LowestUnused, Unused
    <2>3. IsOpen(NewConn) /\ NewConn.fails = 0
      BY DEF NewConn, IsOpen
    <2>4. f \notin Tracked /\ Tracked' = Tracked \cup {f} /\ Suspects' = Suspects
      BY <1>1, <1>2, <1>4, <2>1, <2>2, <2>3
    <2>5. TablePhase = "up" /\ TablePhase' = "up"
      BY <1>7 DEF AcceptClient, TablePhase, Stopped, ServerInv, Phases
    <2>6. QED
      BY <2>2, <2>4, <2>5 DEF Table!Next, Table!Admit
  <1>8. CASE \E k \in DOMAIN vInClients : EraseClient(k)
    <2>1. PICK k \in DOMAIN vInClients : EraseClient(k)
      BY <1>8
    <2> DEFINE f == vInClients[k].sock
    <2>2. conn' = [conn EXCEPT ![f] = NoConn] /\ f \in FreeFds
      BY <1>4, <2>1 DEF EraseClient
    <2>3. f \in Suspects
      <3>1. vInClients[k].had_rw_error > 0
        BY <2>1, Entries, ServerAssumption
           DEF EraseClient, IsFirstOver, OverLimit, ServerInv
      <3>2. QED
        BY <3>1 DEF Suspects, Range
    <2>4. Tracked' = Tracked \ {f} /\ Suspects' = Suspects \ {f}
      BY <1>1, <1>2, <1>4, <2>2, PlainConns
    <2>5. UNCHANGED TablePhase
      BY <2>1 DEF EraseClient, TablePhase, Stopped
    <2>6. Table!Drop(f)
      BY <2>3, <2>4, <2>5 DEF Table!Drop
    <2>7. QED
      BY <2>2, <2>6 DEF Table!Next
  <1>9. CASE \E k \in DOMAIN vInClients : \E n \in 1..MaxIn : ReceiveData(k, n)
    <2>1. PICK k \in DOMAIN vInClients, n \in 1..MaxIn : ReceiveData(k, n)
      BY <1>9
    <2> DEFINE f == vInClients[k].sock
               d == AfterRecvData(conn[f], n)
    <2>2. d \in Conn /\ IsOpen(d) /\ d.fails = conn[f].fails
      BY <1>4, <2>1, ReadData DEF ReceiveData
    <2>3. conn' = [conn EXCEPT ![f] = d] /\ UNCHANGED TablePhase
      BY <2>1 DEF ReceiveData, TablePhase, Stopped
    <2> HIDE DEF d
    <2>4. QED
      BY <1>4, <2>2, <2>3, OneConnection
  <1>10. CASE \E k \in DOMAIN vInClients : ReceiveNothing(k)
    <2>1. PICK k \in DOMAIN vInClients : ReceiveNothing(k)
      BY <1>10
    <2> DEFINE f == vInClients[k].sock
               d == AfterRecvNothing(conn[f])
    <2>2. RecvResult(conn[f]) \in {"again", "error", "eof"}
      BY <1>4, <2>1 DEF ReceiveNothing, RecvResult, Conn, ConnState
    <2>3. d \in Conn /\ IsOpen(d) /\ d.fails \in {conn[f].fails, conn[f].fails + 1}
      BY <1>4, <2>2, FailedCalls
    <2>4. conn' = [conn EXCEPT ![f] = d] /\ UNCHANGED TablePhase
      BY <2>1 DEF ReceiveNothing, TablePhase, Stopped
    <2> HIDE DEF d
    <2>5. QED
      BY <1>4, <2>3, <2>4, OneConnection
  <1>11. CASE Reply
    <2> DEFINE f == vInClients[idx].sock
               d == AfterSend(conn[f])
    <2>1. idx \in DOMAIN vInClients
      BY <1>11 DEF Reply, ServerInv, PassInv
    <2>2. d \in Conn /\ IsOpen(d) /\ d.fails \in {conn[f].fails, conn[f].fails + 1}
      BY <1>4, <2>1, FailedCalls
    <2>3. conn' = [conn EXCEPT ![f] = d] /\ UNCHANGED TablePhase
      BY <1>11 DEF Reply, TablePhase, Stopped
    <2> HIDE DEF d
    <2>4. QED
      BY <1>4, <2>1, <2>2, <2>3, OneConnection
  <1>12. CASE ReplyKills \/ EndApp
    <2>1. TablePhase' = "down" /\ Tracked' = {} /\ Suspects' = {}
      BY <1>12 DEF ReplyKills, EndApp, TablePhase, Stopped, Tracked, Suspects, Range
    <2>2. QED
      BY <2>1 DEF Table!Next, Table!End
  <1>13. CASE \E f \in FreeFds :
                 PeerSend(f) \/ PeerRead(f) \/ PeerClose(f) \/ PeerReset(f)
    <2>1. PICK f \in FreeFds :
                 PeerSend(f) \/ PeerRead(f) \/ PeerClose(f) \/ PeerReset(f)
      BY <1>13
    <2>2. conn[f] \in Conn
      BY <1>4
    <2>3. PICK d \in Conn : /\ conn' = [conn EXCEPT ![f] = d]
                            /\ IsOpen(conn[f]) /\ IsOpen(d)
                            /\ d.fails = conn[f].fails
      <3> USE DEF PeerDoes
      <3>1. CASE PeerSend(f)
        BY <2>2, <3>1, PeerMoves DEF PeerSend, CanPeerSend, IsOpen
      <3>2. CASE PeerRead(f)
        BY <2>2, <3>2, PeerMoves DEF PeerRead, CanPeerRead, IsOpen
      <3>3. CASE PeerClose(f)
        BY <2>2, <3>3, PeerMoves DEF PeerClose, CanPeerClose, IsOpen
      <3>4. CASE PeerReset(f)
        BY <2>2, <3>4, PeerMoves DEF PeerReset, CanPeerReset, IsOpen
      <3>5. QED
        BY <2>1, <3>1, <3>2, <3>3, <3>4
    <2>4. UNCHANGED TablePhase
      BY <2>1 DEF PeerSend, PeerRead, PeerClose, PeerReset, PeerDoes, TablePhase,
                  Stopped
    <2>5. QED
      BY <2>3, <2>4, OneConnection
  <1>14. QED
    BY <1>5, <1>6, <1>7, <1>8, <1>9, <1>10, <1>11, <1>12, <1>13
       DEF Next, Server, Loop, Process, Peers

(* simp_server admits connections only while it listens, drops one only    *)
(* after a failed call on it, and leaves none behind.                      *)
THEOREM Implements == Spec => ImplementsConnTable
  <1>1. Init => Table!Init
    BY ServerAssumption
       DEF Init, Table!Init, TablePhase, Stopped, Tracked, Suspects, Range, NoSock
  <1>2. ServerInv /\ ServerInv' /\ [Next]_vars => [Table!Next]_(Table!tableVars)
    BY TableStep DEF Table!tableVars
  <1>3. QED
    BY <1>1, <1>2, ServerInvariant, PTL DEF Spec, Table!Spec, ImplementsConnTable

=============================================================================
