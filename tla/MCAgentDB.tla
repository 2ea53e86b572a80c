----------------------------- MODULE MCAgentDB -----------------------------
(***************************************************************************)
(* Instances of AgentDB for TLC: two cluster names, two agents, one plugin *)
(* and the lists that matter to addAgentBatchToCluster (none, one agent,   *)
(* both, the same one twice).  Each run takes one of the menus below.      *)
(***************************************************************************)
EXTENDS AgentDBInv, FiniteSets, TLC

CONSTANTS n1, n2, a1, a2, p1, r1, r2, r3

MCNames  == {n1, n2}
MCAgents == {a1, a2}
MCLists  == {<<>>, <<a1>>, <<a2>>, <<a1, a2>>, <<a1, a1>>}

Create(n, l)  == [kind |-> "create", name |-> n, list |-> l]
Edit(n, m, l) == [kind |-> "edit", name |-> n, editedName |-> m, list |-> l]
Delete(n)     == [kind |-> "delete", name |-> n]
Define(a, p)  == [kind |-> "define", agent |-> a, plugin |-> p]
List(k)       == [kind |-> k]
Meta(s)       == [kind |-> "agents", agents |-> s]

\* Writes of every kind: each list, agents wanted by two clusters, a rename onto
\* a free and onto a taken name, an edit in place, both values of a plugin.
WriteOps ==
    {Create(n1, l) : l \in {<<>>, <<a1>>, <<a1, a2>>, <<a1, a1>>}}
    \cup {Create(n2, l) : l \in {<<a1>>, <<a2>>}}
    \cup {Edit(n1, n1, <<a2>>), Edit(n1, n2, <<a1>>), Edit(n1, n2, <<>>),
          Edit(n2, n1, <<a1, a2>>)}
    \cup {Delete(n) : n \in MCNames}
    \cup {Define(a1, p1), Define(a1, Null)}

\* Every read, and a write of each kind to read the traces of.
ReadAndWriteOps ==
    {List("clusters"), List("selectors"), Meta({}), Meta({a1})}
    \cup {[kind |-> "clusterAgents", name |-> n1],
          [kind |-> "agentCluster", agent |-> a1],
          [kind |-> "pluginInfo", agent |-> a1]}
    \cup {Create(n1, <<a1>>), Edit(n1, n2, <<a2>>), Delete(n1), Define(a1, p1)}

\* One operation of each kind, for the liveness run.
FewOps == {Create(n1, <<a1>>), Delete(n1), Define(a1, p1), List("clusters"),
           [kind |-> "pluginInfo", agent |-> a1]}

Symmetry == Permutations(Requests)
=============================================================================
