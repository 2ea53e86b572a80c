---------------------------- MODULE SelectServer ----------------------------
(***************************************************************************)
(* The header of a manager's tab (components/select-server.tsx), where the *)
(* user selects a server. It asks for the info and the agents of the       *)
(* server that is selected, and derives globalServerInfo, the trust domain *)
(* that pages offer as a parent, from the info there is when it asks.      *)
(***************************************************************************)
EXTENDS TornjakApi

CONSTANT Modes      \* TRUE: the tab is of a manager (IsManager)

ASSUME ModesAssumption == Modes \subseteq BOOLEAN

VARIABLE manager    \* the mode of the tab

NoError == store.globalErrorMessage \in {"OK", ""}

\* componentDidMount: the list of servers, and what is known of the server that was
\* selected before.
populateServers == Call("servers", NoServer)

HeaderAsks ==
    IF ~manager THEN {}
    ELSE {populateServers}
         \cup (IF store.globalServerSelected /= NoServer /\ NoError
               THEN {populateTornjakServerInfo(store.globalServerSelected)} ELSE {})
         \cup (IF NoError THEN {populateAgentsUpdate(store.globalServerSelected)} ELSE {})

HeaderDerives ==
    IF manager /\ NoError THEN populateServerInfo(store.globalTornjakServerInfo) ELSE <<>>

\* onServerSelect, of a server in the list, and componentDidUpdate: the info is
\* asked for, and the info that is there is taken for that of the new server.
SelectAsks(s) == {populateTornjakServerInfo(s), populateAgentsUpdate(s)}
SelectDerives(s) == <<serverSelectedFunc(s)>> \o populateServerInfo(store.globalTornjakServerInfo)

Select(s) ==
    /\ manager
    /\ s \in store.globalServersList \ {store.globalServerSelected}
    /\ SelectAsks(s) \cap calls = {}
    /\ calls' = calls \cup SelectAsks(s)
    /\ Dispatch(SelectDerives(s))

\* populateServers
ServersAnswered(ok) == IF ok THEN <<serversListUpdateFunc(Servers)>> ELSE <<>>

ServersReturn(ok) ==
    /\ populateServers \in calls
    /\ calls' = calls \ {populateServers}
    /\ Dispatch(ServersAnswered(ok))
=============================================================================
