----------------------------- MODULE MCStreams -----------------------------
(***************************************************************************)
(* The programs and libraries that use streams, each against any peer and  *)
(* for itself: program says which of them a behaviour is about.  Those of  *)
(* the others do nothing.                                                  *)
(***************************************************************************)
EXTENDS SimpClient, UnixServer, UnixClient, NbClient, Transfer, GetConnection,
        EbSocket, HttpGet, TcpServer

VARIABLE program
Programs == {"simp_client", "unix_server", "unix_client", "nbclient", "transfer",
             "get_connection", "ebsocket", "httpget", "tcpserver"}

streamsVars ==
    <<program, vars, uxVars, ucVars, ncVars, trVars, gcVars, ebVars, hgVars, tsVars>>

StreamsInit ==
    /\ program \in Programs
    /\ Init /\ UxInit /\ UcInit /\ NcInit /\ TrInit /\ GcInit /\ EbInit /\ HgInit /\ TsInit
    /\ program = "simp_client" \/ ~(receive_only \/ once_only)
    /\ program = "transfer" \/ trRetries
    /\ program = "get_connection" \/ gcType = "stream"

ScOnly == UNCHANGED <<program, uxVars, ucVars, ncVars, trVars, gcVars, ebVars, hgVars, tsVars>>
UxOnly == UNCHANGED <<program, vars, ucVars, ncVars, trVars, gcVars, ebVars, hgVars, tsVars>>
UcOnly == UNCHANGED <<program, vars, uxVars, ncVars, trVars, gcVars, ebVars, hgVars, tsVars>>
NcOnly == UNCHANGED <<program, vars, uxVars, ucVars, trVars, gcVars, ebVars, hgVars, tsVars>>
TrOnly == UNCHANGED <<program, vars, uxVars, ucVars, ncVars, gcVars, ebVars, hgVars, tsVars>>
GcOnly == UNCHANGED <<program, vars, uxVars, ucVars, ncVars, trVars, ebVars, hgVars, tsVars>>
EbOnly == UNCHANGED <<program, vars, uxVars, ucVars, ncVars, trVars, gcVars, hgVars, tsVars>>
HgOnly == UNCHANGED <<program, vars, uxVars, ucVars, ncVars, trVars, gcVars, ebVars, tsVars>>
TsOnly == UNCHANGED <<program, vars, uxVars, ucVars, ncVars, trVars, gcVars, ebVars, hgVars>>

StreamsNext ==
    \/ program = "simp_client"    /\ Next   /\ ScOnly
    \/ program = "unix_server"    /\ UxNext /\ UxOnly
    \/ program = "unix_client"    /\ UcNext /\ UcOnly
    \/ program = "nbclient"       /\ NcNext /\ NcOnly
    \/ program = "transfer"       /\ TrNext /\ TrOnly
    \/ program = "get_connection" /\ GcNext /\ GcOnly
    \/ program = "ebsocket"       /\ EbNext /\ EbOnly
    \/ program = "httpget"        /\ HgNext /\ HgOnly
    \/ program = "tcpserver"      /\ TsNext /\ TsOnly

\* the fairness of SimpClient's and NbClient's specifications, for the program
\* that runs
StreamsFairness ==
    /\ WF_vars(program = "simp_client" /\ Work)
    /\ WF_vars(program = "simp_client" /\ end.st = "fin" /\ ServerResets)
    /\ WF_ncVars(program = "nbclient" /\ NcWork)
    /\ WF_ncVars(program = "nbclient" /\ NcAnswersWithRst)

StreamsSpec == StreamsInit /\ [][StreamsNext]_streamsVars /\ StreamsFairness

\* the two modules about the life of connections and their descriptors
ListenInv == GcInv /\ EbInv
=============================================================================
