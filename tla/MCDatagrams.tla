---------------------------- MODULE MCDatagrams ----------------------------
(***************************************************************************)
(* The programs that exchange datagrams, each for itself: program says     *)
(* which of them a behaviour is about.  Those of the others do nothing.    *)
(***************************************************************************)
EXTENDS UdpCounter, UdpEcho, UdpOnce, MpServer, RawFile, UdpRecv

VARIABLE program
Programs == {"counter", "echo", "once", "mpserver", "rawfile", "recv"}

allVars == <<program, counterVars, udpEchoVars, onceVars, mpVars, rawVars, recvVars>>

\* four values of two bits, whose bytes htonl() swaps; increments of 1 and of 3
TheSwap == [x \in 0..3 |-> (x % 2) * 2 + x \div 2]
TheInc  == [c \in Clients2 |-> IF c = "a" THEN 1 ELSE 3]

\* word 0 is no id, 5 is no number; 3 begins a string of at most two words
Find(w) == CASE w = 1 -> "int" [] w = 2 -> "float" [] w = 3 -> "string" [] OTHER -> "none"
Nan(w)  == w = 5
SomeWords == {0, 1, 2, 3, 5}
TheBodies ==
    {<<pad>> \o list : pad \in SomeWords, list \in UNION {[1..n -> SomeWords] : n \in 0..2}}
        \cup {<<pad, 3, 1, 0, 0, 0, 0, id>> : pad \in SomeWords, id \in {0, 1}}

Init ==
    /\ program \in Programs
    /\ CounterInit /\ UdpEchoInit /\ OnceInit /\ MpInit /\ RawInit /\ RecvInit

CounterOnly  == UNCHANGED <<program, udpEchoVars, onceVars, mpVars, rawVars, recvVars>>
EchoOnly     == UNCHANGED <<program, counterVars, onceVars, mpVars, rawVars, recvVars>>
OnceOnly     == UNCHANGED <<program, counterVars, udpEchoVars, mpVars, rawVars, recvVars>>
MpOnly       == UNCHANGED <<program, counterVars, udpEchoVars, onceVars, rawVars, recvVars>>
RawOnly      == UNCHANGED <<program, counterVars, udpEchoVars, onceVars, mpVars, recvVars>>
RecvOnly     == UNCHANGED <<program, counterVars, udpEchoVars, onceVars, mpVars, rawVars>>

Next ==
    \/ program = "counter"  /\ CounterNext /\ CounterOnly
    \/ program = "echo"     /\ UdpEchoNext /\ EchoOnly
    \/ program = "once"     /\ OnceNext    /\ OnceOnly
    \/ program = "mpserver" /\ MpNext      /\ MpOnly
    \/ program = "rawfile"  /\ RawNext     /\ RawOnly
    \/ program = "recv"     /\ RecvNext    /\ RecvOnly

\* the fairness of each module's specification, for the program that runs
Fairness ==
    /\ WF_counterVars(program = "counter" /\ CounterWork)
    /\ \A c \in Clients2 : WF_counterVars(program = "counter" /\ AskerWork(c))
    /\ WF_udpEchoVars(program = "echo" /\ EchoServerWork)
    /\ WF_udpEchoVars(program = "echo" /\ EchoClientWork)
    /\ SF_udpEchoVars(program = "echo" /\ \E n \in toServer : EchoServerReceives(n))
    /\ SF_udpEchoVars(program = "echo" /\ \E d \in toClient : EchoClientReceives(d))
    /\ WF_rawVars(program = "rawfile" /\ MpClientTurns)

Spec == Init /\ [][Next]_allVars /\ Fairness
=============================================================================
