----------------------------- MODULE ConnTable -----------------------------
(***************************************************************************)
(* What every TCP server of this repository promises about the connections *)
(* it keeps, whatever container it keeps them in (a vector of pointers, a  *)
(* fixed array of descriptors, an fd_set): a connection enters the table   *)
(* when it is accepted and not before the server is up, it is dropped      *)
(* while the server runs only if a call on it has failed, and nothing is   *)
(* left when the server has ended.                                         *)
(***************************************************************************)
CONSTANT Conns            (* the names a connection may have: descriptors  *)

VARIABLES phase,          (* "idle", "up" or "down"                        *)
          clients,        (* connections in the table                      *)
          suspects        (* those on which a call has failed              *)

tableVars == <<phase, clients, suspects>>

TableTypeOK ==
    /\ phase \in {"idle", "up", "down"}
    /\ clients \subseteq Conns
    /\ suspects \subseteq clients

Init ==
    /\ phase = "idle"
    /\ clients = {}
    /\ suspects = {}

Listen ==
    /\ phase = "idle"
    /\ phase' = "up"
    /\ UNCHANGED <<clients, suspects>>

Admit(c) ==
    /\ phase = "up"
    /\ c \notin clients
    /\ clients' = clients \cup {c}
    /\ UNCHANGED <<phase, suspects>>

Suspect(c) ==
    /\ c \in clients
    /\ suspects' = suspects \cup {c}
    /\ UNCHANGED <<phase, clients>>

Drop(c) ==
    /\ c \in suspects
    /\ clients' = clients \ {c}
    /\ suspects' = suspects \ {c}
    /\ UNCHANGED phase

End ==
    /\ phase' = "down"
    /\ clients' = {}
    /\ suspects' = {}

Next ==
    \/ Listen
    \/ End
    \/ \E c \in Conns : Admit(c) \/ Suspect(c) \/ Drop(c)

Spec == Init /\ [][Next]_tableVars
=============================================================================
