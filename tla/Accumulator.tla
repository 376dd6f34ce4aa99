---------------------------- MODULE Accumulator ----------------------------
(***************************************************************************)
(* What a counting server promises: a sum that changes only by somebody's  *)
(* increment, added because it was asked for, and clients that are shown   *)
(* nothing but sums reached by an addition of their own.  It does not      *)
(* promise that an increment is added once for each time it was asked for: *)
(* the network may lose the request or deliver it again.                   *)
(***************************************************************************)
CONSTANTS Askers,          (* the clients                                  *)
          Inc,             (* the increment each of them asks for          *)
          Plus(_, _),      (* addition of the sum's type                   *)
          Zero             (* the first sum                                *)

VARIABLES sum,
          asked,           (* who has asked                                *)
          sums,            (* for each client: the sums its additions gave *)
          shown            (* for each client: the sums it was shown       *)

accVars == <<sum, asked, sums, shown>>

Init ==
    /\ sum = Zero
    /\ asked = {}
    /\ sums = [c \in Askers |-> {}]
    /\ shown = [c \in Askers |-> {}]

Ask(c) ==
    /\ asked' = asked \cup {c}
    /\ UNCHANGED <<sum, sums, shown>>

Add(c) ==
    /\ c \in asked
    /\ sum' = Plus(sum, Inc[c])
    /\ sums' = [sums EXCEPT ![c] = @ \cup {sum'}]
    /\ UNCHANGED <<asked, shown>>

Show(c) ==
    /\ \E v \in sums[c] : shown' = [shown EXCEPT ![c] = @ \cup {v}]
    /\ UNCHANGED <<sum, asked, sums>>

Next == \E c \in Askers : Ask(c) \/ Add(c) \/ Show(c)

Spec == Init /\ [][Next]_accVars
=============================================================================
