---------------------------- MODULE ClusterStore ----------------------------
(***************************************************************************)
(* What the agent database promises its callers: a store of clusters, of   *)
(* agents and of the cluster each agent belongs to, on which every request *)
(* takes effect at one instant, whole or not at all, and is refused only   *)
(* when the store at that instant refuses it.  Clusters are known by name: *)
(* row ids, transactions, locks and retries belong to AgentDB, which       *)
(* implements this specification.                                          *)
(***************************************************************************)
EXTENDS AgentDBOps

VARIABLES
    clusters,  \* the names of the registered clusters
    owner,     \* the cluster each agent is assigned to, or NoRow
    plugin,    \* each agent's plugin; NoRow: the agent is not in the store
    status,    \* how far each request has come
    op,        \* the operation each request asks for
    code,      \* what each request is answered
    body       \* the rows each read is answered

vars == <<clusters, owner, plugin, status, op, code, body>>

store == <<clusters, owner, plugin>>

-----------------------------------------------------------------------------
\* Each listed agent is listed once and is free, once n has lost its agents.
Assignable(n, list) ==
    /\ ~ Repeats(list)
    /\ \A a \in Listed(list) : owner[a] \in {NoRow, n}

\* The store takes the operation as it stands.
Accepts(o) ==
    /\ o.kind = "create" => o.name \notin clusters /\ Assignable(NoRow, o.list)
    /\ o.kind = "edit" => /\ o.name \in clusters
                          /\ o.editedName \in {o.name} \cup (Names \ clusters)
                          /\ Assignable(o.name, o.list)
    /\ o.kind = "delete" => o.name \in clusters

ClustersAfter(o) ==
    CASE o.kind = "create" -> clusters \cup {o.name}
      [] o.kind = "edit"   -> (clusters \ {o.name}) \cup {o.editedName}
      [] o.kind = "delete" -> clusters \ {o.name}
      [] o.kind = "define" -> clusters

\* An edit or a delete frees the agents of the cluster; a create or an edit
\* assigns the agents it lists.
OwnerAfter(o) ==
    LET freed  == IF o.kind \in {"edit", "delete"}
                  THEN {a \in Agents : owner[a] = o.name} ELSE {}
        joined == IF o.kind \in {"create", "edit"} THEN Listed(o.list) ELSE {}
    IN  [a \in Agents |-> IF a \in joined THEN Target(o)
                          ELSE IF a \in freed THEN NoRow ELSE owner[a]]

\* An agent first named in a cluster enters the store without a plugin.
PluginAfter(o) ==
    [a \in Agents |->
        IF o.kind = "define" /\ a = o.agent THEN o.plugin
        ELSE IF o.kind \in {"create", "edit"} /\ plugin[a] = NoRow
                /\ a \in Listed(o.list) THEN Null
        ELSE plugin[a]]

Members(n) == {a \in Agents : owner[a] = n}

View(o) ==
    CASE o.kind = "clusters" -> {[name |-> n, agents |-> Members(n)] : n \in clusters}
      [] o.kind = "selectors" ->
            {[agent |-> a, plugin |-> plugin[a]] :
                a \in {b \in Agents : plugin[b] \notin {NoRow, Null}}}
      [] o.kind = "agents" ->
            {[agent |-> a, plugin |-> plugin[a], cluster |-> owner[a]] :
                a \in {b \in Agents : /\ plugin[b] # NoRow
                                      /\ o.agents = {} \/ b \in o.agents}}
      [] o.kind = "clusterAgents" -> Members(o.name)
      [] o.kind = "agentCluster" -> {owner[o.agent]}
      [] o.kind = "pluginInfo" -> {plugin[o.agent]}

\* An agent known only as a member of a cluster is answered SQLError when its
\* plugin is asked for.
Verdict(o) ==
    CASE o.kind = "clusterAgents" -> IF o.name \in clusters THEN "ok" ELSE "GetError"
      [] o.kind = "agentCluster" -> IF owner[o.agent] = NoRow THEN "GetError" ELSE "ok"
      [] o.kind = "pluginInfo" ->
            IF plugin[o.agent] = NoRow THEN "GetError"
            ELSE IF plugin[o.agent] = Null THEN "SQLError" ELSE "ok"
      [] OTHER -> "ok"

-----------------------------------------------------------------------------
Init ==
    /\ clusters = {}
    /\ owner = [a \in Agents |-> NoRow]
    /\ plugin = [a \in Agents |-> NoRow]
    /\ status = [r \in Requests |-> "idle"]
    /\ op = [r \in Requests |-> Null]
    /\ code = [r \in Requests |-> "none"]
    /\ body = [r \in Requests |-> {}]

Submit(r) ==
    /\ status[r] = "idle"
    /\ status' = [status EXCEPT ![r] = "open"]
    /\ \E o \in Ops : op' = [op EXCEPT ![r] = o]
    /\ UNCHANGED <<store, code, body>>

Decide(r, c, rows) ==
    /\ status[r] = "open"
    /\ status' = [status EXCEPT ![r] = "decided"]
    /\ code' = [code EXCEPT ![r] = c]
    /\ body' = [body EXCEPT ![r] = rows]
    /\ UNCHANGED op

\* The whole effect of a write, at once.
Apply(r) ==
    /\ Decide(r, "ok", {})
    /\ op[r].kind \notin ListKinds \cup RowKinds
    /\ Accepts(op[r])
    /\ clusters' = ClustersAfter(op[r])
    /\ owner' = OwnerAfter(op[r])
    /\ plugin' = PluginAfter(op[r])

Refuse(r) ==
    /\ Decide(r, "PostFailure", {})
    /\ op[r].kind \in ClusterKinds
    /\ ~ Accepts(op[r])
    /\ UNCHANGED store

\* The storage engine was busy or failed: nothing happened.  A list that ended
\* early looks like a whole one.
Fail(r) ==
    /\ status[r] = "open"
    /\ \/ \E c \in {"SQLError", "txError"} : Decide(r, c, {})
       \/ /\ op[r].kind \in ListKinds
          /\ \E rows \in SUBSET View(op[r]) : Decide(r, "ok", rows)
    /\ UNCHANGED store

Read(r) ==
    /\ status[r] = "open"
    /\ op[r].kind \in ListKinds \cup RowKinds
    /\ Decide(r, Verdict(op[r]),
              IF Verdict(op[r]) = "ok" THEN View(op[r]) ELSE {})
    /\ UNCHANGED store

Reply(r) ==
    /\ status[r] = "decided"
    /\ status' = [status EXCEPT ![r] = "answered"]
    /\ UNCHANGED <<store, op, code, body>>

\* The server dies: what was applied stays, nobody is told.
Crash ==
    LET dead == {r \in Requests : status[r] \in {"open", "decided"}}
    IN  /\ status' = [r \in Requests |-> IF r \in dead THEN "lost" ELSE status[r]]
        /\ code' = [r \in Requests |-> IF r \in dead THEN "none" ELSE code[r]]
        /\ body' = [r \in Requests |-> IF r \in dead THEN {} ELSE body[r]]
        /\ UNCHANGED <<store, op>>

Next ==
    \/ Crash
    \/ \E r \in Requests : \/ Submit(r) \/ Apply(r) \/ Refuse(r) \/ Fail(r)
                           \/ Read(r) \/ Reply(r)

Spec == Init /\ [][Next]_vars
=============================================================================
