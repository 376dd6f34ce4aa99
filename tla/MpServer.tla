------------------------------ MODULE MpServer -------------------------------
(***************************************************************************)
(* src/src/simgear/mpserver.cxx, a relay for FlightGear positions that, as *)
(* it stands, only collects: it keeps one record for each callsign it has  *)
(* heard a valid position from, and answers nobody.                        *)
(*                                                                         *)
(* The server is at "start", "keys" (check_key() at the head of the loop), *)
(* "recv" (recvfrom() and all that is done with the datagram), "end" or    *)
(* "exited".                                                               *)
(*                                                                         *)
(* A datagram is what the handler looks at: its kind, its callsign, the    *)
(* address it came from and, for a position, the words from the pad of     *)
(* T_PositionMsg up to the end of the message.  A word is a number: the    *)
(* reader takes it for the id of a property, for a value or for a length,  *)
(* as its place tells.  A value that would lie past the end of the message *)
(* is whatever the buffer holds there; it is taken for a number.           *)
(* Left out: the raw file (RawFile), statistics, verbosity and delay keys, *)
(* is_paused, which is never read, and the echo of lines 576 to 595, as    *)
(* do_an_echo is 0 and nothing sets it.                                    *)
(* X_Fault is X with a plausible mistake.                                  *)
(***************************************************************************)
EXTENDS Integers, Sequences, FiniteSets

CONSTANTS Callsigns, Addrs,
          Bodies,        (* the sequences of words positions may carry     *)
          FindProperty(_), (* the type of a property, "none" for no such   *)
          IsNan(_),      (* whether a word is no number as a float         *)
          MAX_TEXT_SIZE,
          MaxHeard       (* bound: datagrams the server receives           *)

ASSUME MpAssumption ==
    /\ IsFiniteSet(Callsigns) /\ "unset" \notin Addrs
    /\ Bodies \subseteq Seq(Nat) \ {<<>>}
    /\ {MAX_TEXT_SIZE, MaxHeard} \subseteq Nat

VARIABLES mpAt,
          m_MPMap,       (* callsign -> the record it was given            *)
          mpLive,        (* the records allocated and not deleted          *)
          clientaddr,    (* record -> the address written in it            *)
          mpId,          (* record -> the id written in it                 *)
          client_id, total_clients,
          heard,         (* history: datagrams received                    *)
          unread,        (* history: bad positions, repeated callsigns and *)
                         (* messages of no known make, never deleted       *)
          firstFrom,     (* history: where a callsign was first valid from *)
          refused,       (* history: pads of the positions refused         *)
          escapes, swallowed    (* history: ESC keys, and those ignored    *)

mpVars == <<mpAt, m_MPMap, mpLive, clientaddr, mpId, client_id, total_clients,
            heard, unread, firstFrom, refused, escapes, swallowed>>
mpTable == <<m_MPMap, mpId, client_id, total_clients, firstFrom>>

Records == 1..MaxHeard
NoRecord == 0

-----------------------------------------------------------------------------
(* Property lists                                                          *)

(* The words a string of that length takes: truncated, and padded to four. *)
StringWords(length) ==
    LET n == IF length > MAX_TEXT_SIZE THEN MAX_TEXT_SIZE ELSE length
    IN  ((n + 3) \div 4) * 4

(* Where the property at word i ends, if its id is known.                  *)
AfterProperty(words, i) ==
    IF FindProperty(words[i]) = "string"
    THEN i + 2 + (IF i < Len(words) THEN StringWords(words[i + 1]) ELSE 0)
    ELSE i + 2

KnownAt(words, i) == FindProperty(words[i]) # "none"

(* A float must be one.                                                    *)
SoundAt(words, i) ==
    FindProperty(words[i]) = "float" /\ i < Len(words) => ~IsNan(words[i + 1])

(* All properties from word i on pass the test, property after property.   *)
AllFrom(words, i, Passes(_, _)) ==
    LET all[j \in 1..Len(words)] ==
            /\ Passes(words, j)
            /\ AfterProperty(words, j) <= Len(words) => all[AfterProperty(words, j)]
    IN  i <= Len(words) => all[i]

VerifyProperties(words, i) ==
    AllFrom(words, i, LAMBDA w, j : KnownAt(w, j) /\ SoundAt(w, j))

(* ProcessPosMsg() reads on although a float is none, and refuses the      *)
(* message at an id it does not know.                                      *)
ReadProperties(words, i) == AllFrom(words, i, KnownAt)

(* Where ProcessPosMsg() reads from: the pad, which some senders use for   *)
(* the first property, or the word after it; nowhere if neither verifies.  *)
ReadFrom_Fault(words) ==
    IF words[1] # 0 /\ SoundAt(words, 1) THEN 1 ELSE 2

ReadFrom(words) ==
    IF words[1] = 0 THEN 2
    ELSE IF VerifyProperties(words, 1) THEN 1
    ELSE IF VerifyProperties(words, 2) THEN 2
    ELSE Len(words) + 1

ProcessPosMsg(words) == ReadProperties(words, ReadFrom(words))

-----------------------------------------------------------------------------
MpTypeOK ==
    /\ mpAt \in {"start", "keys", "recv", "end", "exited"}
    /\ m_MPMap \in [Callsigns -> Records \cup {NoRecord}]
    /\ mpLive \subseteq 1..heard
    /\ clientaddr \in [Records -> Addrs \cup {"unset"}]
    /\ mpId \in [Records -> 0..MaxHeard]
    /\ firstFrom \in [Callsigns -> Addrs \cup {"unset"}]
    /\ {client_id, total_clients, heard, unread} \subseteq 0..MaxHeard
    /\ refused \subseteq Nat
    /\ swallowed \in {0, 1} /\ escapes \in 0..2

MpInit ==
    /\ mpAt = "start"
    /\ m_MPMap = [s \in Callsigns |-> NoRecord]
    /\ mpLive = {}
    /\ clientaddr = [r \in Records |-> "unset"]
    /\ mpId = [r \in Records |-> 0]
    /\ client_id = 0 /\ total_clients = 0
    /\ heard = 0 /\ unread = 0
    /\ firstFrom = [s \in Callsigns |-> "unset"]
    /\ refused = {} /\ escapes = 0 /\ swallowed = 0

(* Options, host, socket() and bind(); then the raw file, without which    *)
(* the server sleeps ten seconds and any key ends it.                      *)
MpStarts ==
    /\ mpAt = "start"
    /\ mpAt' \in {"keys", "end"}
    /\ UNCHANGED <<mpTable, mpLive, clientaddr, heard, unread, refused,
                   escapes, swallowed>>

MpKeys(esc) ==
    /\ mpAt = "keys"
    /\ mpAt' = IF esc THEN "end" ELSE "recv"
    /\ escapes' = IF esc THEN escapes + 1 ELSE escapes
    /\ UNCHANGED <<mpTable, mpLive, clientaddr, heard, unread, refused, swallowed>>

(* EAGAIN, or an error that ends the loop.                                 *)
MpNothing(error) ==
    /\ mpAt = "recv"
    /\ mpAt' = IF error THEN "end" ELSE "keys"
    /\ UNCHANGED <<mpTable, mpLive, clientaddr, heard, unread, refused,
                   escapes, swallowed>>

(* A datagram arrives, and a record is allocated for it.                   *)
MpHears ==
    /\ mpAt = "recv"
    /\ heard < MaxHeard
    /\ heard' = heard + 1

NewRecord == heard + 1

(* The magic, the version or the length is wrong: the record is forgotten. *)
MpForeign(esc) ==
    /\ MpHears
    /\ mpLive' = mpLive \cup {NewRecord}
    /\ unread' = unread + 1
    /\ mpAt' = IF esc THEN "end" ELSE "keys"
    /\ escapes' = IF esc THEN escapes + 1 ELSE escapes
    /\ UNCHANGED <<mpTable, clientaddr, refused, swallowed>>

(* Chat, an obsolete id or an unknown one: the record is deleted.          *)
MpNoPosition ==
    /\ MpHears
    /\ mpAt' = "keys"
    /\ UNCHANGED <<mpTable, mpLive, clientaddr, unread, refused, escapes, swallowed>>

(* A position is refused.  ESC leaves no more than the switch, after which *)
(* the record is deleted; without it the record is forgotten.              *)
MpBadPosition(words, addr, esc) ==
    /\ MpHears
    /\ ~ProcessPosMsg(words)
    /\ mpLive' = IF esc THEN mpLive ELSE mpLive \cup {NewRecord}
    /\ clientaddr' = IF esc THEN clientaddr
                            ELSE [clientaddr EXCEPT ![NewRecord] = addr]
    /\ unread' = IF esc THEN unread ELSE unread + 1
    /\ refused' = refused \cup {words[1]}
    /\ esc => swallowed = 0
    /\ swallowed' = IF esc THEN 1 ELSE swallowed
    /\ escapes' = IF esc THEN escapes + 1 ELSE escapes
    /\ mpAt' = "keys"
    /\ UNCHANGED mpTable

(* Whether the callsign is taken to be in the map.                         *)
Counted_Fault(s) == m_MPMap[s] = 1
Counted(s) == m_MPMap[s] # NoRecord

(* A position of a callsign in the map: nothing is done with it, and its   *)
(* record is forgotten.                                                    *)
MpExists(words, s, addr) ==
    /\ MpHears
    /\ ProcessPosMsg(words)
    /\ Counted(s)
    /\ mpLive' = mpLive \cup {NewRecord}
    /\ clientaddr' = [clientaddr EXCEPT ![NewRecord] = addr]
    /\ unread' = unread + 1
    /\ mpAt' = "keys"
    /\ UNCHANGED <<mpTable, refused, escapes, swallowed>>

MpAdds(words, s, addr) ==
    /\ MpHears
    /\ ProcessPosMsg(words)
    /\ ~Counted(s)
    /\ mpLive' = mpLive \cup {NewRecord}
    /\ clientaddr' = [clientaddr EXCEPT ![NewRecord] = addr]
    /\ client_id' = client_id + 1
    /\ mpId' = [mpId EXCEPT ![NewRecord] = client_id + 1]
    /\ m_MPMap' = [m_MPMap EXCEPT ![s] = NewRecord]
    /\ total_clients' = total_clients + 1
    /\ firstFrom' = IF firstFrom[s] = "unset"
                    THEN [firstFrom EXCEPT ![s] = addr] ELSE firstFrom
    /\ mpAt' = "keys"
    /\ UNCHANGED <<unread, refused, escapes, swallowed>>

MpEnds ==
    /\ mpAt = "end"
    /\ mpAt' = "exited"
    /\ UNCHANGED <<mpTable, mpLive, clientaddr, heard, unread, refused,
                   escapes, swallowed>>

MpTakes(words) ==
    \/ \E s \in Callsigns, addr \in Addrs :
          MpExists(words, s, addr) \/ MpAdds(words, s, addr)
    \/ \E addr \in Addrs, esc \in BOOLEAN : MpBadPosition(words, addr, esc)

MpNext ==
    \/ MpStarts \/ MpEnds \/ MpNoPosition
    \/ \E b \in BOOLEAN : MpKeys(b) \/ MpNothing(b) \/ MpForeign(b)
    \/ \E words \in Bodies : MpTakes(words)

MpSpec == MpInit /\ [][MpNext]_mpVars

-----------------------------------------------------------------------------
(* Properties                                                              *)

InMap == {s \in Callsigns : m_MPMap[s] # NoRecord}

(* The two counters of the clients are the size of the map, and the        *)
(* clients in it have the ids from 1 up to it, each one its own            *)
(* (src/src/simgear/mpserver.cxx:558-574).                                 *)
IdsAreNumbers ==
    /\ client_id = Cardinality(InMap) /\ total_clients = client_id
    /\ {mpId[m_MPMap[s]] : s \in InMap} = 1..client_id

(* The map holds no deleted record, and no record twice; every allocated   *)
(* record that it does not hold belongs to one of the messages the loop    *)
(* leaves by continue or finds a known callsign in: nothing else leaks,    *)
(* and those always do (mpserver.cxx:493, :504-528, :541, :560).           *)
MapHoldsRecords ==
    /\ {m_MPMap[s] : s \in InMap} \subseteq mpLive
    /\ Cardinality({m_MPMap[s] : s \in InMap}) = Cardinality(InMap)
    /\ Cardinality(mpLive) = Cardinality(InMap) + unread

(* The address kept for a callsign is the one its first valid position     *)
(* came from, whatever it sends from later (mpserver.cxx:529, :560).       *)
FirstAddressStays ==
    /\ \A s \in InMap : clientaddr[m_MPMap[s]] = firstFrom[s]
    /\ \A s \in Callsigns \ InMap : firstFrom[s] = "unset"

(* A position is refused only if its pad is 0: with another pad the list   *)
(* that is read has been verified, or is not read at all                   *)
(* (mpserver.cxx:317-324).                                                 *)
VerifiedIsRead == refused \subseteq {0}

(* ESC ends the server, but for one that comes while a position is         *)
(* refused: its break leaves the switch only (mpserver.cxx:538-539).       *)
EscapeEnds == escapes > swallowed => mpAt \in {"end", "exited"}

MpInv == /\ MpTypeOK /\ IdsAreNumbers /\ MapHoldsRecords
         /\ FirstAddressStays /\ VerifiedIsRead /\ EscapeEnds
=============================================================================
