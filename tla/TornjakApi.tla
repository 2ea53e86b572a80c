----------------------------- MODULE TornjakApi -----------------------------
(***************************************************************************)
(* The calls of components/tornjak-api-helpers.tsx that fill the store.    *)
(* Each sends a request and leaves; its answer, or its failure, arrives at *)
(* any later time, in any order, and what it dispatches is in Answered.    *)
(* A manager's tab asks for the lists of the server it names, a backend's  *)
(* tab for those of the one backend there is (Own).                        *)
(*                                                                         *)
(* Bound: a request is not sent again while the same one is under way.     *)
(***************************************************************************)
EXTENDS TornjakStore

CONSTANT Own        \* the backend of a backend's tab

ASSUME OwnAssumption == Own \in Servers

VARIABLE calls      \* the requests of these helpers under way

Call(op, s) == [op |-> op, server |-> s]
Calls == [op : {"agents", "entries", "clusters", "federations", "serverInfo",
                "localServerInfo", "debugInfo", "selectors", "register", "servers"},
          server : Blank]

populateAgentsUpdate(s) == Call("agents", s)
populateEntriesUpdate(s) == Call("entries", s)
populateClustersUpdate(s) == Call("clusters", s)
populateTornjakServerInfo(s) == Call("serverInfo", s)
refreshSelectorsState(s) == Call("selectors", s)
registerSelectors(s) == Call("register", s)
populateLocalAgentsUpdate == Call("agents", Own)
populateLocalEntriesUpdate == Call("entries", Own)
populateLocalClustersUpdate == Call("clusters", Own)
populateLocalFederationsUpdate == Call("federations", Own)
populateLocalTornjakServerInfo == Call("localServerInfo", Own)
populateLocalTornjakDebugServerInfo == Call("debugInfo", Own)
refreshLocalSelectorsState == Call("selectors", Own)
registerLocalSelectors == Call("register", Own)

\* The node attestor and trust domain of an info, unless it names no attestor.
populateServerInfo(info) == IF info = NoServer THEN <<>> ELSE <<serverInfoUpdateFunc(info)>>

\* A list: empty when the call failed, and the message says which.
ListAnswered(answered, blank, ok) ==
    IF ok THEN <<answered, tornjakMessageFunc("OK")>>
          ELSE <<blank, tornjakMessageFunc("Error retrieving")>>

\* A manager's server info: blank when the call failed, and no message.
ServerInfoAnswered(s, ok) ==
    IF ok THEN <<tornjakServerInfoUpdateFunc(s), tornjakMessageFunc("OK")>>
          ELSE <<tornjakServerInfoUpdateFunc(NoServer)>>

\* A backend's own: kept as it was when the call failed, with a message.
LocalServerInfoAnswered(s, ok) ==
    IF ok THEN <<tornjakServerInfoUpdateFunc(s), tornjakMessageFunc("OK")>>
          ELSE <<tornjakMessageFunc("Error retrieving")>>

DebugInfoAnswered(s, ok) ==
    IF ok THEN <<spireDebugServerInfoUpdateFunc(s), tornjakMessageFunc("OK")>> ELSE <<>>

SelectorsAnswered(s, ok) == IF ok THEN <<agentworkloadSelectorInfoFunc(s)>> ELSE <<>>

Answered(c, ok) ==
    CASE c.op = "agents" -> ListAnswered(agentsListUpdateFunc(c.server), agentsListUpdateFunc(NoServer), ok)
      [] c.op = "entries" -> ListAnswered(entriesListUpdateFunc(c.server), entriesListUpdateFunc(NoServer), ok)
      [] c.op = "clusters" -> ListAnswered(clustersListUpdateFunc(c.server), clustersListUpdateFunc(NoServer), ok)
      [] c.op = "federations" -> ListAnswered(federationsListUpdateFunc(c.server),
                                                federationsListUpdateFunc(NoServer), ok)
      [] c.op = "serverInfo" -> ServerInfoAnswered(c.server, ok)
      [] c.op = "localServerInfo" -> LocalServerInfoAnswered(c.server, ok)
      [] c.op = "debugInfo" -> DebugInfoAnswered(c.server, ok)
      [] c.op = "selectors" -> SelectorsAnswered(c.server, ok)
      [] c.op = "register" -> <<>>

\* What the answer of a call sends in turn: registered selectors are fetched.
Follows(c, ok) == IF ok /\ c.op = "register" THEN {refreshSelectorsState(c.server)} ELSE {}

\* An answer, or a failure, of a call under way.
CallReturns(c, ok) ==
    /\ c \in calls
    /\ Dispatch(Answered(c, ok))
    /\ calls' = (calls \ {c}) \cup Follows(c, ok)
=============================================================================
