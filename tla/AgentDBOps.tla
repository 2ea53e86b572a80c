----------------------------- MODULE AgentDBOps -----------------------------
(***************************************************************************)
(* The requests the agent database of a Tornjak server answers: the        *)
(* methods of the AgentDB interface (pkg/agent/db/db.go) that the handlers *)
(* of api/agent call once an input has passed validation.  Shared by the   *)
(* abstract store (ClusterStore) and by the SQLite implementation          *)
(* (AgentDB).                                                              *)
(***************************************************************************)
EXTENDS Integers, Sequences

CONSTANTS
    Requests,    \* the requests that reach the database, one at most each
    Agents,      \* SPIFFE IDs of agents
    Plugins,     \* node attestor plugin names
    Names,       \* cluster names
    AgentLists,  \* the values of the AgentsList field of a ClusterInfo
    Ops,         \* the operations the requests of an instance choose from
    Null,        \* the SQL value NULL
    NoRow        \* "no such row", never a value stored in a column

AgentListsAssumption == AgentLists \subseteq Seq(Agents)

SentinelAssumption ==
    /\ Null \notin Requests \cup Ops \cup Names \cup Plugins \cup Agents \cup Int
    /\ NoRow \notin Names \cup Plugins \cup Agents \cup Int
    /\ Null # NoRow

CreateOps == [kind : {"create"}, name : Names, list : AgentLists]
EditOps   == [kind : {"edit"}, name : Names, editedName : Names, list : AgentLists]
DeleteOps == [kind : {"delete"}, name : Names]

\* A registration without a plugin stores NULL.
DefineOps == [kind : {"define"}, agent : Agents, plugin : Plugins \cup {Null}]

\* Reads that iterate over many rows, and reads of a single row.
ListOps == [kind : {"clusters", "selectors"}]
           \cup [kind : {"agents"}, agents : SUBSET Agents]
RowOps  == [kind : {"clusterAgents"}, name : Names]
           \cup [kind : {"agentCluster", "pluginInfo"}, agent : Agents]

ClusterOps == CreateOps \cup EditOps \cup DeleteOps
ReadOps    == ListOps \cup RowOps

OpsAssumption == Ops \subseteq ClusterOps \cup DefineOps \cup ReadOps

ASSUME AgentDBOpsAssumption ==
    AgentListsAssumption /\ SentinelAssumption /\ OpsAssumption

ClusterKinds == {"create", "edit", "delete"}
ListKinds    == {"clusters", "selectors", "agents"}
RowKinds     == {"clusterAgents", "agentCluster", "pluginInfo"}

\* The name the cluster has once a create or an edit is done.
Target(o) == IF o.kind = "edit" THEN o.editedName ELSE o.name

Listed(list)  == {list[i] : i \in DOMAIN list}
Repeats(list) == \E i, j \in DOMAIN list : i # j /\ list[i] = list[j]

(***************************************************************************)
(* What a request is answered: "ok"; "PostFailure", "GetError" and         *)
(* "SQLError" are the error types of sqlite_errors.go; "txError" is the    *)
(* untyped error of a BEGIN or a COMMIT.                                   *)
(***************************************************************************)
Codes == {"none", "ok", "PostFailure", "GetError", "SQLError", "txError"}
=============================================================================
