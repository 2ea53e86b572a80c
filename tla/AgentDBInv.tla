----------------------------- MODULE AgentDBInv -----------------------------
(***************************************************************************)
(* The inductive invariant behind the safety properties of AgentDB: the    *)
(* lock is held by exactly the transactions that have executed a           *)
(* statement, the committed tables and the tables each of those sees are   *)
(* consistent, and each statement finds what its predecessors in the       *)
(* transaction left for it.  EffectInv and AnswerInv relate them to the    *)
(* abstract store: what a transaction has made of the tables so far is a   *)
(* part of what ClusterStore says of its operation.                        *)
(***************************************************************************)
EXTENDS AgentDB

\* A membership joins an agent row and a cluster row that exist.
NoOrphans(d) ==
    \A a \in Agents : d.member[a] # NoRow =>
        /\ d.member[a] \in ClusterIds
        /\ d.name[d.member[a]] # NoRow
        /\ d.plugin[a] # NoRow

UniqueNames(d) ==
    \A i, j \in ClusterIds : d.name[i] = d.name[j] /\ d.name[i] # NoRow => i = j

\* The ids AUTOINCREMENT has yet to give out name no row.
FreshIds(d) == \A i \in ClusterIds : i > d.seq => d.name[i] = NoRow

Consistent(d) == NoOrphans(d) /\ UniqueNames(d) /\ FreshIds(d)

\* The statements of a transaction that come after its first one.
HasExecuted(r) ==
    \/ pc[r] \in {"deleteCluster", "addAgents", "addMembers", "commit", "pending"}
    \/ pc[r] = "deleteMembers" /\ op[r].kind = "edit"

\* The write lock is held from the first statement to the commit or the
\* rollback, by nobody else.
LockInv ==
    \A r \in Requests : /\ HasExecuted(r) => writer = r
                        /\ writer = r => HasExecuted(r) \/ pc[r] = "rollback"

\* A request is only where its kind of operation goes.
KindInv ==
    \A r \in Requests :
        /\ pc[r] \in InFlight => op[r] \in Ops
        /\ pc[r] = "insertCluster" => op[r].kind = "create"
        /\ pc[r] = "updateCluster" => op[r].kind = "edit"
        /\ pc[r] = "deleteMembers" => op[r].kind \in {"edit", "delete"}
        /\ pc[r] = "deleteCluster" => op[r].kind = "delete"
        /\ pc[r] \in {"addAgents", "addMembers"} => op[r].kind \in {"create", "edit"}
        /\ pc[r] = "upsert" => op[r].kind = "define"
        /\ pc[r] \in {"read", "reading"} => op[r].kind \in ListKinds \cup RowKinds
        /\ pc[r] \in {"reset", "begin", "backoff"} => op[r].kind \in ClusterKinds
        /\ pc[r] \in {"commit", "pending"} => op[r].kind \in ClusterKinds \cup {"define"}

ConsistentInv ==
    /\ Consistent(db)
    /\ \A r \in Requests : writer = r => Consistent(work[r])

\* What the earlier statements of the transaction have prepared.
StageInv ==
    \A r \in Requests :
        /\ HasExecuted(r) /\ pc[r] \in {"deleteMembers", "addAgents", "addMembers"} =>
              Target(op[r]) \in Live(work[r])
        /\ pc[r] = "addMembers" =>
              \A a \in Listed(op[r].list) : work[r].plugin[a] # NoRow
        /\ pc[r] = "deleteCluster" =>
              \A a \in Agents, i \in ClusterIds :
                  work[r].name[i] = op[r].name => work[r].member[a] # i

\* The invariant: preserved by every step, and stronger than the safety
\* properties of AgentDB.
IndInv == TypeOK /\ LockInv /\ KindInv /\ ConsistentInv /\ StageInv

\* The names an operation asks for fit those of the store.
NamesFit(o) ==
    /\ o.kind = "create" => o.name \notin Live(db)
    /\ o.kind = "edit" => /\ o.name \in Live(db)
                          /\ o.editedName \in {o.name} \cup (Names \ Live(db))
    /\ o.kind = "delete" => o.name \in Live(db)

\* The cluster an agent is left with by what comes before its assignment: an edit or a
\* delete has freed the agents of its cluster.
FreedOwner(o, a) ==
    IF o.kind \in {"edit", "delete"} /\ OwnerIn(db, a) = o.name THEN NoRow
    ELSE OwnerIn(db, a)

\* Operation o, carried out on the committed tables as far as its next call, "label", has
\* made them e: at the end, what ClusterStore says of the operation.
Effect(o, label, e) ==
    /\ label # "deleteCluster" => NamesFit(o)
    /\ Live(e) = IF label = "deleteCluster" THEN Live(db) ELSE Store!ClustersAfter(o)
    /\ \A a \in Agents :
          /\ e.plugin[a] = IF label \in {"addMembers", "commit", "pending"}
                           THEN Store!PluginAfter(o)[a] ELSE db.plugin[a]
          /\ label = "deleteMembers" =>
                OwnerIn(e, a) = IF OwnerIn(db, a) = o.name THEN o.editedName ELSE OwnerIn(db, a)
          /\ label \in {"deleteCluster", "addAgents", "addMembers"} =>
                OwnerIn(e, a) = FreedOwner(o, a)
          /\ label \in {"commit", "pending"} => OwnerIn(e, a) = Store!OwnerAfter(o)[a]
    /\ label \in {"commit", "pending"} => Store!Accepts(o)

\* What a transaction has done so far is its part of the effect of its operation.
EffectInv ==
    \A r \in Requests :
        writer = r /\ pc[r] # "rollback" => Effect(op[r], pc[r], work[r])

\* What a read answers of the tables d.
ReadAnswer(d, o) ==
    IF o.kind \in ListKinds THEN <<"ok", ListRows(d, o)>> ELSE RowAnswer(d, o)

\* Where a request that has no answer yet, and no rows, can be.
Unanswered == {"idle", "reset", "begin", "backoff", "read", "rollback"}
              \cup Statements \cup Committing

\* A read under way holds what the committed tables say, which wait for it; all the others
\* that are under way have no rows yet.
AnswerInv ==
    \A r \in Requests :
        /\ pc[r] = "reading" => <<code[r], body[r]>> = ReadAnswer(db, op[r])
        /\ pc[r] \in Unanswered => body[r] = {}

\* What the refinement and the action properties of AgentDB follow from.
FullInv == IndInv /\ EffectInv /\ AnswerInv
=============================================================================
