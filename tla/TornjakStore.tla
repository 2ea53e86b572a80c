---------------------------- MODULE TornjakStore ----------------------------
(***************************************************************************)
(* The Redux store of the web UI (frontend/src/redux): one record that the *)
(* pages of a tab share and that outlives them. An action carries a slice  *)
(* and its new value; every reducer replaces the one by the other. The     *)
(* groups of reducers/index.ts are flattened: no slice is in two of them.  *)
(*                                                                         *)
(* A list or an info a backend answered is represented by the backend it   *)
(* came from, and by NoServer while it is blank: the pages below tell such *)
(* data apart by whose they are.                                           *)
(***************************************************************************)
EXTENDS Integers, Sequences

CONSTANTS
    Servers,        \* the backends of a manager; of a backend's own tab, that one
    NoServer        \* globalServerSelected = "", and whose a blank value is

ASSUME StoreAssumption == NoServer \notin Servers

VARIABLE store      \* what the reducers hold, saved in sessionStorage on each change

Messages == {"", "OK", "Error retrieving"}
Blank == Servers \cup {NoServer}

----------------------------------------------------------------------------
(* Actions                                                                  *)

Action(slice, payload) == [slice |-> slice, payload |-> payload]

spireDebugServerInfoUpdateFunc(info) == Action("globalDebugServerInfo", info)
spireHealthCheckRefreshTimeFunc(time) == Action("globalSpireHealthTime", time)
spireHealthCheckingFunc(checking) == Action("globalSpireHealthChecking", checking)
spireHealthCheckFunc(healthy) == Action("globalSpireHealthCheck", healthy)
isAuthenticatedUpdateFunc(b) == Action("globalIsAuthenticated", b)
accessTokenUpdateFunc(token) == Action("globalAccessToken", token)
UserRolesUpdateFunc(roles) == Action("globalUserRoles", roles)
clustersListUpdateFunc(list) == Action("globalClustersList", list)
clusterTypeInfoFunc(types) == Action("globalClusterTypeInfo", types)
tornjakMessageFunc(message) == Action("globalErrorMessage", message)
serverSelectedFunc(s) == Action("globalServerSelected", s)
tornjakServerInfoUpdateFunc(info) == Action("globalTornjakServerInfo", info)
serverInfoUpdateFunc(info) == Action("globalServerInfo", info)
serversListUpdateFunc(list) == Action("globalServersList", list)
entriesListUpdateFunc(list) == Action("globalEntriesList", list)
newEntriesUpdateFunc(entries) == Action("globalNewEntries", entries)
entryExpiryUpdateFunc(time) == Action("globalEntryExpiryTime", time)
agentsListUpdateFunc(list) == Action("globalAgentsList", list)
federationsListUpdateFunc(list) == Action("globalFederationsList", list)
agentworkloadSelectorInfoFunc(info) == Action("globalAgentsWorkLoadAttestorInfo", info)
clickedDashboardTableFunc(table) == Action("globalClickedDashboardTable", table)

----------------------------------------------------------------------------
(* Reducers                                                                 *)

serversInitial ==
    [globalServerSelected |-> NoServer, globalServerInfo |-> NoServer,
     globalTornjakServerInfo |-> NoServer, globalServersList |-> {},
     globalSpireHealthCheck |-> FALSE, globalSpireHealthChecking |-> FALSE,
     globalSpireHealthTime |-> 120, globalDebugServerInfo |-> NoServer]
clustersInitial == [globalClustersList |-> NoServer, globalClusterTypeInfo |-> {}]
federationsInitial == [globalFederationsList |-> NoServer]
agentsInitial == [globalAgentsList |-> NoServer, globalAgentsWorkLoadAttestorInfo |-> NoServer]
entriesInitial ==
    [globalEntriesList |-> NoServer, globalNewEntries |-> <<>>, globalEntryExpiryTime |-> 0]
tornjakInitial == [globalErrorMessage |-> "", globalClickedDashboardTable |-> ""]
authInitial == [globalIsAuthenticated |-> FALSE, globalAccessToken |-> "", globalUserRoles |-> {}]

\* The groups are one record, in which a slice is that of its group.
InitialStore ==
    LET groups == {serversInitial, clustersInitial, federationsInitial, agentsInitial,
                   entriesInitial, tornjakInitial, authInitial}
    IN  [slice \in UNION {DOMAIN group : group \in groups} |->
            (CHOOSE group \in groups : slice \in DOMAIN group)[slice]]

\* A handler dispatches some actions, one after the other. Every case of every reducer
\* replaces the slice its action names by the payload: the last action on a slice counts.
Dispatched(actions) ==
    [slice \in DOMAIN store |->
        LET onIt == {i \in DOMAIN actions : actions[i].slice = slice}
        IN  IF onIt = {} THEN store[slice]
            ELSE LET last == CHOOSE i \in onIt : \A j \in onIt : j <= i
                 IN  actions[last].payload]

Dispatch(actions) == store' = Dispatched(actions)
=============================================================================
