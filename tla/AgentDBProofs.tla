---------------------------- MODULE AgentDBProofs ----------------------------
(***************************************************************************)
(* Proofs about AgentDB: the invariant of AgentDBInv is inductive, for any *)
(* number of requests, agents, names and crashes, and with it the safety   *)
(* and the action properties of the database hold, and it implements       *)
(* ClusterStore.                                                           *)
(***************************************************************************)
EXTENDS AgentDBInv, TLAPS

USE DEF ClusterIds

-----------------------------------------------------------------------------
(***************************************************************************)
(* Data.                                                                   *)
(***************************************************************************)

\* The fields an operation of each kind has.
LEMMA OpShape ==
    ASSUME NEW o \in Ops
    PROVE  /\ o.kind \in ClusterKinds \cup {"define"} \cup ListKinds \cup RowKinds
           /\ o.kind = "create" => o.name \in Names /\ o.list \in AgentLists
           /\ o.kind = "edit" => /\ o.name \in Names /\ o.editedName \in Names
                                 /\ o.list \in AgentLists
           /\ o.kind = "delete" => o.name \in Names
           /\ o.kind = "define" => o.agent \in Agents /\ o.plugin \in Plugins \cup {Null}
  <1>1. o \in ClusterOps \cup DefineOps \cup ReadOps
    BY AgentDBOpsAssumption DEF OpsAssumption
  <1>2. CASE o \in CreateOps
    BY <1>2 DEF CreateOps, ClusterKinds
  <1>3. CASE o \in EditOps
    BY <1>3 DEF EditOps, ClusterKinds
  <1>4. CASE o \in DeleteOps
    BY <1>4 DEF DeleteOps, ClusterKinds
  <1>5. CASE o \in DefineOps
    BY <1>5 DEF DefineOps
  <1>6. CASE o \in ReadOps
    BY <1>6 DEF ReadOps, ListOps, RowOps, ListKinds, RowKinds
  <1> QED
    BY <1>1, <1>2, <1>3, <1>4, <1>5, <1>6 DEF ClusterOps

\* A list names agents.
LEMMA ListedAgents ==
    ASSUME NEW list \in AgentLists
    PROVE  Listed(list) \subseteq Agents
  <1>1. list \in Seq(Agents)
    BY AgentDBOpsAssumption DEF AgentListsAssumption
  <1> QED
    BY <1>1 DEF Listed

\* The tables of a new file have their types and are consistent.
LEMMA EmptyDBConsistent == EmptyDB \in DBs /\ Consistent(EmptyDB)
  <1>1. EmptyDB \in DBs
    BY AgentDBAssumption DEF EmptyDB, DBs
  <1> QED
    BY <1>1 DEF EmptyDB, Consistent, NoOrphans, UniqueNames, FreshIds

\* The id found for a live name is the id of a row with that name.
LEMMA IdOfLive ==
    ASSUME NEW d \in DBs, NEW n \in Live(d)
    PROVE  IdOf(d, n) \in ClusterIds /\ d.name[IdOf(d, n)] = n
  BY DEF IdOf, Live

\* Null and NoRow are no ids, no names and no plugins.
LEMMA Sentinels ==
    /\ Null # NoRow /\ Null \notin Requests
    /\ NoRow \notin Names /\ Null \notin Names
    /\ \A i \in ClusterIds : i # Null /\ i # NoRow
    /\ NoRow \notin Plugins
  BY AgentDBOpsAssumption, AgentDBAssumption DEF SentinelAssumption

\* INSERT INTO clusters.
LEMMA InsertClusterSound ==
    ASSUME NEW d \in DBs, Consistent(d), NEW n \in Names, n \notin Live(d),
           d.seq < MaxClusterId
    PROVE  /\ InsertCluster(d, n) \in DBs
           /\ Consistent(InsertCluster(d, n))
           /\ n \in Live(InsertCluster(d, n))
  <1> DEFINE e == InsertCluster(d, n)
  <1>1. d.seq \in Nat /\ d.seq + 1 \in ClusterIds /\ d.name[d.seq + 1] = NoRow
    BY AgentDBAssumption DEF DBs, Consistent, FreshIds
  <1>2. /\ e.seq = d.seq + 1 /\ e.plugin = d.plugin /\ e.member = d.member
        /\ e.name = [d.name EXCEPT ![d.seq + 1] = n]
    BY DEF InsertCluster, DBs
  <1>3. e \in DBs
    <2> DEFINE f == [d EXCEPT !.name = [d.name EXCEPT ![d.seq + 1] = n]]
    <2>1. [d.name EXCEPT ![d.seq + 1] = n] \in [ClusterIds -> Names \cup {NoRow}]
      BY <1>1 DEF DBs
    <2>2. f \in DBs
      BY <2>1 DEF DBs
    <2>3. d.seq + 1 \in 0..MaxClusterId
      BY <1>1, AgentDBAssumption
    <2>4. [f EXCEPT !.seq = d.seq + 1] \in DBs
      BY <2>2, <2>3 DEF DBs
    <2>5. e = [f EXCEPT !.seq = d.seq + 1]
      BY DEF InsertCluster
    <2> QED
      BY <2>4, <2>5
  <1>4. \A i \in ClusterIds : e.name[i] = IF i = d.seq + 1 THEN n ELSE d.name[i]
    BY <1>2 DEF DBs
  <1>5. n # NoRow
    BY Sentinels
  <1>6. n \in Live(e)
    BY <1>1, <1>4, <1>5 DEF Live
  <1>7. NoOrphans(e)
    BY <1>2, <1>4, <1>5 DEF Consistent, NoOrphans
  <1>8. UniqueNames(e)
    BY <1>4, <1>5 DEF Consistent, UniqueNames, Live
  <1>9. FreshIds(e)
    BY <1>1, <1>2, <1>4 DEF Consistent, FreshIds
  <1> QED
    BY <1>3, <1>6, <1>7, <1>8, <1>9 DEF Consistent

\* UPDATE clusters, when the new name is free or is the old one.
LEMMA RenameClusterSound ==
    ASSUME NEW d \in DBs, Consistent(d), NEW n \in Names, NEW m \in Names,
           n \in Live(d), ~ RenameClashes(d, n, m)
    PROVE  /\ RenameCluster(d, n, m) \in DBs
           /\ Consistent(RenameCluster(d, n, m))
           /\ m \in Live(RenameCluster(d, n, m))
  <1> DEFINE e == RenameCluster(d, n, m)
  <1>1. /\ e.seq = d.seq /\ e.plugin = d.plugin /\ e.member = d.member
        /\ e.name = [i \in ClusterIds |-> IF d.name[i] = n THEN m ELSE d.name[i]]
    BY DEF RenameCluster, DBs
  <1>2. e \in DBs
    BY DEF RenameCluster, DBs
  <1>3. n # NoRow /\ m # NoRow
    BY Sentinels
  <1>4. m \in Live(e)
    BY <1>1, <1>3 DEF Live
  <1>5. NoOrphans(e)
    BY <1>1, <1>3 DEF Consistent, NoOrphans
  <1>6. UniqueNames(e)
    BY <1>1, <1>3 DEF Consistent, UniqueNames, RenameClashes, Live
  <1>7. FreshIds(e)
    BY <1>1, <1>3 DEF Consistent, FreshIds
  <1> QED
    BY <1>2, <1>4, <1>5, <1>6, <1>7 DEF Consistent

\* DELETE FROM cluster_memberships: afterwards nobody is a member of n.
LEMMA DeleteMembersSound ==
    ASSUME NEW d \in DBs, Consistent(d), NEW n \in Names
    PROVE  /\ DeleteMembers(d, n) \in DBs
           /\ Consistent(DeleteMembers(d, n))
           /\ Live(DeleteMembers(d, n)) = Live(d)
           /\ \A a \in Agents, i \in ClusterIds :
                 DeleteMembers(d, n).name[i] = n => DeleteMembers(d, n).member[a] # i
  <1> DEFINE e == DeleteMembers(d, n)
  <1>1. /\ e.seq = d.seq /\ e.plugin = d.plugin /\ e.name = d.name
        /\ e.member = [a \in Agents |->
              IF n \in Live(d) /\ d.member[a] = IdOf(d, n) THEN NoRow ELSE d.member[a]]
    BY DEF DeleteMembers, DBs
  <1>2. e \in DBs
    BY DEF DeleteMembers, DBs
  <1>3. Live(e) = Live(d)
    BY <1>1 DEF Live
  <1>4. Consistent(e)
    BY <1>1 DEF Consistent, NoOrphans, UniqueNames, FreshIds
  <1>5. ASSUME NEW a \in Agents, NEW i \in ClusterIds, e.name[i] = n
        PROVE  e.member[a] # i
    <2>1. n \in Live(d) /\ n # NoRow
      BY <1>1, <1>5, Sentinels DEF Live
    <2>2. i = IdOf(d, n)
      BY <1>1, <1>5, <2>1, IdOfLive DEF Consistent, UniqueNames
    <2> QED
      BY <1>1, <2>1, <2>2, Sentinels
  <1> QED
    BY <1>2, <1>3, <1>4, <1>5

\* DELETE FROM clusters, once nobody is a member of n.
LEMMA DeleteClusterSound ==
    ASSUME NEW d \in DBs, Consistent(d), NEW n \in Names,
           \A a \in Agents, i \in ClusterIds : d.name[i] = n => d.member[a] # i
    PROVE  DeleteCluster(d, n) \in DBs /\ Consistent(DeleteCluster(d, n))
  <1> DEFINE e == DeleteCluster(d, n)
  <1>1. /\ e.seq = d.seq /\ e.plugin = d.plugin /\ e.member = d.member
        /\ e.name = [i \in ClusterIds |-> IF d.name[i] = n THEN NoRow ELSE d.name[i]]
    BY DEF DeleteCluster, DBs
  <1>2. e \in DBs
    BY DEF DeleteCluster, DBs
  <1>3. NoOrphans(e)
    BY <1>1 DEF Consistent, NoOrphans
  <1> QED
    BY <1>1, <1>2, <1>3 DEF Consistent, UniqueNames, FreshIds

\* INSERT OR IGNORE INTO agents: afterwards every listed agent has a row.
LEMMA InsertAgentsSound ==
    ASSUME NEW d \in DBs, Consistent(d), NEW list \in AgentLists
    PROVE  /\ InsertAgents(d, list) \in DBs
           /\ Consistent(InsertAgents(d, list))
           /\ Live(InsertAgents(d, list)) = Live(d)
           /\ \A a \in Listed(list) : InsertAgents(d, list).plugin[a] # NoRow
  <1> DEFINE e == InsertAgents(d, list)
  <1>1. /\ e.seq = d.seq /\ e.name = d.name /\ e.member = d.member
        /\ e.plugin = [a \in Agents |->
              IF a \in Listed(list) /\ d.plugin[a] = NoRow THEN Null ELSE d.plugin[a]]
    BY DEF InsertAgents, DBs
  <1>2. e \in DBs
    BY DEF InsertAgents, DBs
  <1>3. Live(e) = Live(d)
    BY <1>1 DEF Live
  <1>4. Consistent(e)
    BY <1>1, Sentinels DEF Consistent, NoOrphans, UniqueNames, FreshIds
  <1>5. \A a \in Listed(list) : e.plugin[a] # NoRow
    BY <1>1, ListedAgents, Sentinels
  <1> QED
    BY <1>2, <1>3, <1>4, <1>5

\* INSERT OR ABORT INTO cluster_memberships, into a cluster that exists.
LEMMA InsertMembersSound ==
    ASSUME NEW d \in DBs, Consistent(d), NEW list \in AgentLists, NEW n \in Live(d),
           \A a \in Listed(list) : d.plugin[a] # NoRow
    PROVE  InsertMembers(d, list, n) \in DBs /\ Consistent(InsertMembers(d, list, n))
  <1> DEFINE e == InsertMembers(d, list, n)
  <1>1. /\ e.seq = d.seq /\ e.name = d.name /\ e.plugin = d.plugin
        /\ e.member = [a \in Agents |->
              IF a \in Listed(list) THEN IdOf(d, n) ELSE d.member[a]]
    BY DEF InsertMembers, DBs
  <1>2. IdOf(d, n) \in ClusterIds /\ d.name[IdOf(d, n)] # NoRow
    BY IdOfLive DEF Live
  <1>3. e \in DBs
    BY <1>2 DEF InsertMembers, DBs
  <1>4. NoOrphans(e)
    BY <1>1, <1>2 DEF Consistent, NoOrphans
  <1> QED
    BY <1>1, <1>3, <1>4 DEF Consistent, UniqueNames, FreshIds

\* INSERT INTO agents ... ON CONFLICT DO UPDATE.
LEMMA UpsertAgentSound ==
    ASSUME NEW d \in DBs, Consistent(d), NEW a \in Agents, NEW p \in Plugins \cup {Null}
    PROVE  UpsertAgent(d, a, p) \in DBs /\ Consistent(UpsertAgent(d, a, p))
  <1> DEFINE e == UpsertAgent(d, a, p)
  <1>1. /\ e.seq = d.seq /\ e.name = d.name /\ e.member = d.member
        /\ e.plugin = [d.plugin EXCEPT ![a] = p]
    BY DEF UpsertAgent, DBs
  <1>2. e \in DBs
    BY DEF UpsertAgent, DBs
  <1>3. NoOrphans(e)
    BY <1>1, Sentinels DEF Consistent, NoOrphans, DBs
  <1> QED
    BY <1>1, <1>2, <1>3 DEF Consistent, UniqueNames, FreshIds
-----------------------------------------------------------------------------
(***************************************************************************)
(* Steps.                                                                  *)
(***************************************************************************)

\* The tables a statement works on are well typed and consistent.
LEMMA PagesSound ==
    ASSUME IndInv, NEW r \in Requests
    PROVE  Pages(r) \in DBs /\ Consistent(Pages(r))
  BY DEF IndInv, TypeOK, ConsistentInv, Pages

\* A request in flight has an operation of the instance.
LEMMA InFlightOp ==
    ASSUME IndInv, NEW r \in Requests, pc[r] \in InFlight
    PROVE  op[r] \in Ops
  BY DEF IndInv, KindInv

\* Nobody but r is inside a transaction when r can write.
LEMMA OthersOutside ==
    ASSUME IndInv, NEW r \in Requests, CanWrite(r), NEW q \in Requests, q # r
    PROVE  ~ HasExecuted(q)
  BY Sentinels DEF IndInv, LockInv, CanWrite

\* A statement that succeeds preserves the invariant when what it leaves is
\* consistent and is what the next call of the transaction expects.
LEMMA ExecutePreserves ==
    ASSUME IndInv, NEW r \in Requests, pc[r] \in InFlight,
           NEW d \in DBs, Consistent(d),
           NEW next \in {"deleteMembers", "deleteCluster", "addAgents", "addMembers", "commit"},
           Execute(r, d, next),
           next = "deleteMembers" => op[r].kind = "edit",
           next = "deleteCluster" => op[r].kind = "delete",
           next \in {"addAgents", "addMembers"} => op[r].kind \in {"create", "edit"},
           next = "commit" => op[r].kind \in ClusterKinds \cup {"define"},
           next \in {"deleteMembers", "addAgents", "addMembers"} => Target(op[r]) \in Live(d),
           next = "addMembers" => \A a \in Listed(op[r].list) : d.plugin[a] # NoRow,
           next = "deleteCluster" =>
              \A a \in Agents, i \in ClusterIds : d.name[i] = op[r].name => d.member[a] # i
    PROVE  IndInv'
  <1>1. /\ CanWrite(r) /\ writer' = r
        /\ work' = [work EXCEPT ![r] = d]
        /\ pc' = [pc EXCEPT ![r] = next]
        /\ UNCHANGED <<db, op, code, body, elapsed, crashes>>
    BY DEF Execute, Goto
  <1>2. TypeOK
    BY DEF IndInv
  <1>3. /\ pc'[r] = next /\ work'[r] = d
        /\ \A q \in Requests : q # r => pc'[q] = pc[q] /\ work'[q] = work[q]
    BY <1>1, <1>2 DEF TypeOK
  <1>4. op[r] \in Ops
    BY InFlightOp
  <1>5. \A q \in Requests : q # r => ~ HasExecuted(q)
    BY <1>1, OthersOutside
  <1>6. TypeOK'
    BY <1>1, <1>2 DEF TypeOK, PCs, InFlight, RetryLoop, Statements, Committing
  <1>7. LockInv'
    BY <1>1, <1>3, <1>5 DEF LockInv, HasExecuted
  <1>8. KindInv'
    BY <1>1, <1>3, <1>4 DEF IndInv, KindInv
  <1>9. ConsistentInv'
    BY <1>1, <1>3 DEF IndInv, ConsistentInv
  <1>10. StageInv'
    BY <1>1, <1>3, <1>5 DEF StageInv, HasExecuted
  <1> QED
    BY <1>6, <1>7, <1>8, <1>9, <1>10 DEF IndInv

\* A refused statement leaves its transaction open, to be rolled back.
LEMMA PostFailsPreserves ==
    ASSUME IndInv, NEW r \in Requests, pc[r] \in InFlight, PostFails(r)
    PROVE  IndInv'
  <1>1. /\ CanWrite(r) /\ writer' = r
        /\ work' = [work EXCEPT ![r] = Pages(r)]
        /\ code' = [code EXCEPT ![r] = "PostFailure"]
        /\ pc' = [pc EXCEPT ![r] = "rollback"]
        /\ UNCHANGED <<db, op, body, elapsed, crashes>>
    BY DEF PostFails, Goto
  <1>2. TypeOK
    BY DEF IndInv
  <1>3. Pages(r) \in DBs /\ Consistent(Pages(r))
    BY PagesSound
  <1>4. /\ pc'[r] = "rollback" /\ work'[r] = Pages(r)
        /\ \A q \in Requests : q # r => pc'[q] = pc[q] /\ work'[q] = work[q]
    BY <1>1, <1>2 DEF TypeOK
  <1>5. \A q \in Requests : q # r => ~ HasExecuted(q)
    BY <1>1, OthersOutside
  <1>6. TypeOK'
    BY <1>1, <1>2, <1>3
       DEF TypeOK, PCs, InFlight, RetryLoop, Statements, Committing, Codes
  <1>7. LockInv'
    BY <1>1, <1>4, <1>5 DEF LockInv, HasExecuted
  <1>8. KindInv'
    BY <1>1, <1>4, InFlightOp DEF IndInv, KindInv
  <1>9. ConsistentInv'
    BY <1>1, <1>3, <1>4 DEF IndInv, ConsistentInv
  <1>10. StageInv'
    BY <1>1, <1>4, <1>5 DEF StageInv, HasExecuted
  <1> QED
    BY <1>6, <1>7, <1>8, <1>9, <1>10 DEF IndInv

\* A step of r that leaves the tables and the lock alone and goes to a place
\* outside of transactions.
LEMMA MovePreserves ==
    ASSUME IndInv, NEW r \in Requests, NEW label \in PCs, Goto(r, label),
           UNCHANGED <<db, work, writer, crashes>>,
           op' \in [Requests -> Ops \cup {Null}], code' \in [Requests -> Codes],
           DOMAIN body' = Requests, elapsed' \in BOOLEAN,
           \A q \in Requests : q # r => op'[q] = op[q],
           ~ HasExecuted(r), pc[r] # "rollback",
           label \notin {"deleteCluster", "addAgents", "addMembers", "commit", "pending"},
           label \in InFlight => op'[r] \in Ops,
           label = "insertCluster" => op'[r].kind = "create",
           label = "updateCluster" => op'[r].kind = "edit",
           label = "deleteMembers" => op'[r].kind = "delete",
           label = "upsert" => op'[r].kind = "define",
           label \in {"read", "reading"} => op'[r].kind \in ListKinds \cup RowKinds,
           label \in {"reset", "begin", "backoff"} => op'[r].kind \in ClusterKinds
    PROVE  IndInv'
  <1>1. pc' = [pc EXCEPT ![r] = label] /\ pc \in [Requests -> PCs]
    BY DEF Goto, IndInv, TypeOK
  <1>2. /\ pc'[r] = label
        /\ \A q \in Requests : q # r => pc'[q] = pc[q]
    BY <1>1
  <1>3. TypeOK'
    BY <1>1 DEF IndInv, TypeOK
  <1>4. LockInv'
    BY <1>2 DEF IndInv, LockInv, HasExecuted
  <1>5. KindInv'
    BY <1>2 DEF IndInv, KindInv
  <1>6. ConsistentInv'
    BY DEF IndInv, ConsistentInv
  <1>7. StageInv'
    BY <1>2 DEF IndInv, StageInv, HasExecuted
  <1> QED
    BY <1>3, <1>4, <1>5, <1>6, <1>7 DEF IndInv
\* A request outside of transactions ends: the lock and the tables stay as they
\* are for the others.
LEMMA EndPreserves ==
    ASSUME IndInv, NEW r \in Requests, pc[r] \in InFlight, EndTransaction(r),
           NEW label \in {"reply", "backoff"}, Goto(r, label),
           label = "backoff" => op[r].kind \in ClusterKinds,
           Consistent(db)', db' \in DBs, code' \in [Requests -> Codes],
           UNCHANGED <<op, body, elapsed, crashes>>
    PROVE  IndInv'
  <1>1. /\ pc' = [pc EXCEPT ![r] = label] /\ pc \in [Requests -> PCs]
        /\ work' = [work EXCEPT ![r] = EmptyDB] /\ work \in [Requests -> DBs]
        /\ writer' = IF writer = r THEN Null ELSE writer
    BY DEF Goto, EndTransaction, IndInv, TypeOK
  <1>2. /\ pc'[r] = label
        /\ \A q \in Requests : q # r => pc'[q] = pc[q] /\ work'[q] = work[q]
    BY <1>1
  <1>3. writer' # r
    BY <1>1, Sentinels
  <1>4. TypeOK'
    BY <1>1, EmptyDBConsistent DEF IndInv, TypeOK, PCs, InFlight, RetryLoop
  <1>5. LockInv'
    BY <1>1, <1>2, <1>3, Sentinels DEF IndInv, LockInv, HasExecuted
  <1>6. KindInv'
    BY <1>2, InFlightOp DEF IndInv, KindInv
  <1>7. ConsistentInv'
    BY <1>1, <1>2, <1>3, Sentinels DEF IndInv, ConsistentInv
  <1>8. StageInv'
    BY <1>2 DEF IndInv, StageInv, HasExecuted
  <1> QED
    BY <1>4, <1>5, <1>6, <1>7, <1>8 DEF IndInv

\* Each statement of an operation.
LEMMA StatementPreserves ==
    ASSUME IndInv, NEW r \in Requests,
           \/ InsertClusterMetadata(r) \/ UpdateClusterMetadata(r)
           \/ DeleteClusterAgents(r) \/ DeleteClusterMetadata(r)
           \/ AddAgents(r) \/ AddMembers(r) \/ CreateAgentEntry(r)
    PROVE  IndInv'
  <1> DEFINE d == Pages(r)
  <1>1. d \in DBs /\ Consistent(d)
    BY PagesSound
  <1>2. pc[r] \in Statements /\ pc[r] \in InFlight
    BY DEF InsertClusterMetadata, UpdateClusterMetadata, DeleteClusterAgents,
           DeleteClusterMetadata, AddAgents, AddMembers, CreateAgentEntry,
           Statements, InFlight, RetryLoop
  <1>3. op[r] \in Ops
    BY <1>2, InFlightOp
  <1>4. HasExecuted(r) => d = work[r]
    BY DEF IndInv, LockInv, Pages
  <1>5. CASE PostFails(r)
    BY <1>2, <1>5, PostFailsPreserves
  <1>6. ASSUME InsertClusterMetadata(r), ~ PostFails(r)
        PROVE  IndInv'
    <2>1. op[r].kind = "create" /\ op[r].name \in Names
      BY <1>3, <1>6, OpShape DEF InsertClusterMetadata, IndInv, KindInv
    <2>2. /\ op[r].name \notin Live(d) /\ d.seq < MaxClusterId
          /\ Execute(r, InsertCluster(d, op[r].name), "addAgents")
      BY <1>6 DEF InsertClusterMetadata
    <2>3. Target(op[r]) = op[r].name
      BY <2>1 DEF Target
    <2> HIDE DEF d
    <2> QED
      BY <1>1, <1>2, <2>1, <2>2, <2>3, InsertClusterSound, ExecutePreserves
  <1>7. ASSUME UpdateClusterMetadata(r), ~ PostFails(r)
        PROVE  IndInv'
    <2>1. op[r].kind = "edit" /\ op[r].name \in Names /\ op[r].editedName \in Names
      BY <1>3, <1>7, OpShape DEF UpdateClusterMetadata, IndInv, KindInv
    <2>2. /\ ~ RenameClashes(d, op[r].name, op[r].editedName) /\ op[r].name \in Live(d)
          /\ Execute(r, RenameCluster(d, op[r].name, op[r].editedName), "deleteMembers")
          /\ Target(op[r]) = op[r].editedName
      BY <1>7, <2>1 DEF UpdateClusterMetadata, Target
    <2> HIDE DEF d
    <2> QED
      BY <1>1, <1>2, <2>1, <2>2, RenameClusterSound, ExecutePreserves
  <1>8. ASSUME DeleteClusterAgents(r)
        PROVE  IndInv'
    <2>1. op[r].kind \in {"edit", "delete"} /\ Target(op[r]) \in Names
      BY <1>3, <1>8, OpShape DEF DeleteClusterAgents, IndInv, KindInv, Target
    <2> DEFINE n == Target(op[r])
               e == DeleteMembers(d, n)
    <2>2. /\ e \in DBs /\ Consistent(e) /\ Live(e) = Live(d)
          /\ \A a \in Agents, i \in ClusterIds : e.name[i] = n => e.member[a] # i
      BY <1>1, <2>1, DeleteMembersSound
    <2>3. CASE op[r].kind = "edit"
      <3>1. Execute(r, e, "addAgents")
        BY <1>8, <2>3 DEF DeleteClusterAgents
      <3>2. n \in Live(d)
        BY <1>4, <1>8, <2>3 DEF DeleteClusterAgents, HasExecuted, IndInv, StageInv
      <3> HIDE DEF e
      <3> QED
        BY <1>2, <2>2, <2>3, <3>1, <3>2, ExecutePreserves
    <2>4. CASE op[r].kind = "delete"
      <3>1. Execute(r, e, "deleteCluster")
        BY <1>8, <2>4 DEF DeleteClusterAgents
      <3>2. n = op[r].name
        BY <2>4 DEF Target
      <3> HIDE DEF e
      <3> QED
        BY <1>2, <2>2, <2>4, <3>1, <3>2, ExecutePreserves
    <2> QED
      BY <2>1, <2>3, <2>4
  <1>9. ASSUME DeleteClusterMetadata(r), ~ PostFails(r)
        PROVE  IndInv'
    <2>1. op[r].kind = "delete" /\ op[r].name \in Names
      BY <1>3, <1>9, OpShape DEF DeleteClusterMetadata, IndInv, KindInv
    <2>2. Execute(r, DeleteCluster(d, op[r].name), "commit")
      BY <1>9 DEF DeleteClusterMetadata
    <2>3. \A a \in Agents, i \in ClusterIds : d.name[i] = op[r].name => d.member[a] # i
      BY <1>4, <1>9 DEF DeleteClusterMetadata, HasExecuted, IndInv, StageInv
    <2> HIDE DEF d
    <2> QED
      BY <1>1, <1>2, <2>1, <2>2, <2>3, DeleteClusterSound, ExecutePreserves DEF ClusterKinds
  <1>10. ASSUME AddAgents(r)
         PROVE  IndInv'
    <2>1. /\ op[r].kind \in {"create", "edit"} /\ op[r].list \in AgentLists
          /\ Target(op[r]) \in Live(d)
      BY <1>3, <1>4, <1>10, OpShape
         DEF AddAgents, HasExecuted, IndInv, KindInv, StageInv
    <2>2. CASE op[r].list = <<>>
      <3>1. Execute(r, d, "commit")
        BY <1>10, <2>2 DEF AddAgents
      <3> HIDE DEF d
      <3> QED
        BY <1>1, <1>2, <2>1, <3>1, ExecutePreserves DEF ClusterKinds
    <2>3. CASE op[r].list # <<>>
      <3>1. Execute(r, InsertAgents(d, op[r].list), "addMembers")
        BY <1>10, <2>3 DEF AddAgents
      <3> HIDE DEF d
      <3> QED
        BY <1>1, <1>2, <2>1, <3>1, InsertAgentsSound, ExecutePreserves
    <2> QED
      BY <2>2, <2>3
  <1>11. ASSUME AddMembers(r), ~ PostFails(r)
         PROVE  IndInv'
    <2>1. /\ op[r].kind \in {"create", "edit"} /\ op[r].list \in AgentLists
          /\ Target(op[r]) \in Live(d)
          /\ \A a \in Listed(op[r].list) : d.plugin[a] # NoRow
      BY <1>3, <1>4, <1>11, OpShape
         DEF AddMembers, HasExecuted, IndInv, KindInv, StageInv
    <2>2. Execute(r, InsertMembers(d, op[r].list, Target(op[r])), "commit")
      BY <1>11 DEF AddMembers
    <2> HIDE DEF d
    <2> QED
      BY <1>1, <1>2, <2>1, <2>2, InsertMembersSound, ExecutePreserves DEF ClusterKinds
  <1>12. ASSUME CreateAgentEntry(r)
         PROVE  IndInv'
    <2>1. /\ op[r].kind = "define" /\ op[r].agent \in Agents
          /\ op[r].plugin \in Plugins \cup {Null}
      BY <1>3, <1>12, OpShape DEF CreateAgentEntry, IndInv, KindInv
    <2>2. Execute(r, UpsertAgent(d, op[r].agent, op[r].plugin), "commit")
      BY <1>12 DEF CreateAgentEntry
    <2> HIDE DEF d
    <2> QED
      BY <1>1, <1>2, <2>1, <2>2, UpsertAgentSound, ExecutePreserves
  <1> QED
    BY <1>5, <1>6, <1>7, <1>8, <1>9, <1>10, <1>11, <1>12
\* The way out of a transaction: a failed statement, the rollback, the commit.
LEMMA ClosingPreserves ==
    ASSUME IndInv, NEW r \in Requests,
           \/ StatementFails(r) \/ Rollback(r)
           \/ CommitPending(r) \/ Commit(r) \/ CommitFails(r)
    PROVE  IndInv'
  <1>1. /\ pc[r] \in InFlight /\ op[r] \in Ops
        /\ pc \in [Requests -> PCs] /\ code \in [Requests -> Codes]
        /\ db \in DBs /\ Consistent(db)
    <2>1. pc[r] \in InFlight
      BY DEF StatementFails, Rollback, CommitPending, Commit, CommitFails,
             InFlight, RetryLoop, Statements, Committing
    <2> QED
      BY <2>1, InFlightOp DEF IndInv, TypeOK, ConsistentInv
  <1>2. ASSUME StatementFails(r)
        PROVE  IndInv'
    <2> DEFINE label == IF pc[r] = "upsert" THEN "reply" ELSE "rollback"
    <2>1. /\ pc' = [pc EXCEPT ![r] = label]
          /\ code' = [code EXCEPT ![r] = "SQLError"]
          /\ UNCHANGED <<db, work, writer, op, body, elapsed, crashes>>
          /\ pc[r] \in Statements
      BY <1>2 DEF StatementFails, Goto
    <2>2. /\ pc'[r] = label
          /\ \A q \in Requests : q # r => pc'[q] = pc[q]
      BY <1>1, <2>1
    <2>3. TypeOK'
      BY <1>1, <2>1 DEF IndInv, TypeOK, PCs, InFlight, RetryLoop, Codes
    <2>4. pc[r] = "upsert" => writer # r
      BY DEF IndInv, LockInv, HasExecuted
    <2>5. LockInv'
      BY <2>1, <2>2, <2>4 DEF IndInv, LockInv, HasExecuted
    <2>6. KindInv'
      BY <1>1, <2>1, <2>2 DEF IndInv, KindInv
    <2>7. ConsistentInv'
      BY <2>1 DEF IndInv, ConsistentInv
    <2>8. StageInv'
      BY <2>1, <2>2 DEF IndInv, StageInv, HasExecuted
    <2> QED
      BY <2>3, <2>5, <2>6, <2>7, <2>8 DEF IndInv
  <1>3. ASSUME Rollback(r)
        PROVE  IndInv'
    BY <1>1, <1>3, EndPreserves DEF Rollback
  <1>4. ASSUME CommitPending(r)
        PROVE  IndInv'
    <2>1. /\ pc[r] = "commit" /\ pc' = [pc EXCEPT ![r] = "pending"]
          /\ UNCHANGED <<db, work, writer, op, code, body, elapsed, crashes>>
      BY <1>4 DEF CommitPending, Goto
    <2>2. /\ pc'[r] = "pending"
          /\ \A q \in Requests : q # r => pc'[q] = pc[q]
      BY <1>1, <2>1
    <2>3. TypeOK'
      BY <1>1, <2>1 DEF IndInv, TypeOK, PCs, InFlight, RetryLoop, Committing
    <2>4. LockInv'
      BY <2>1, <2>2 DEF IndInv, LockInv, HasExecuted
    <2>5. KindInv'
      BY <1>1, <2>1, <2>2 DEF IndInv, KindInv
    <2>6. ConsistentInv'
      BY <2>1 DEF IndInv, ConsistentInv
    <2>7. StageInv'
      BY <2>1, <2>2 DEF IndInv, StageInv, HasExecuted
    <2> QED
      BY <2>3, <2>4, <2>5, <2>6, <2>7 DEF IndInv
  <1>5. ASSUME Commit(r)
        PROVE  IndInv'
    <2>1. writer = r
      BY <1>5 DEF Commit, IndInv, LockInv, HasExecuted
    <2>2. db' \in DBs /\ Consistent(db)'
      BY <1>5, <2>1 DEF Commit, IndInv, TypeOK, ConsistentInv,
                        Consistent, NoOrphans, UniqueNames, FreshIds
    <2>3. code' \in [Requests -> Codes]
      BY <1>1, <1>5 DEF Commit, Codes
    <2> QED
      BY <1>1, <1>5, <2>2, <2>3, EndPreserves DEF Commit
  <1>6. ASSUME CommitFails(r)
        PROVE  IndInv'
    <2>1. op[r].kind \in ClusterKinds \cup {"define"}
      BY <1>6 DEF CommitFails, IndInv, KindInv
    <2>2. Consistent(db)' /\ db' \in DBs /\ code' \in [Requests -> Codes]
      BY <1>1, <1>6 DEF CommitFails, Codes, Consistent, NoOrphans, UniqueNames, FreshIds
    <2> QED
      BY <1>1, <1>6, <2>1, <2>2, EndPreserves DEF CommitFails
  <1> QED
    BY <1>2, <1>3, <1>4, <1>5, <1>6

\* The steps of a request outside of its transactions.
LEMMA OutsidePreserves ==
    ASSUME IndInv, NEW r \in Requests,
           \/ Arrive(r) \/ Reset(r) \/ Begin(r) \/ NextBackOff(r)
           \/ StartRead(r) \/ StartReadFails(r) \/ FinishRead(r) \/ Reply(r)
    PROVE  IndInv'
  <1> USE DEF PCs, InFlight, RetryLoop, Statements, Committing
  <1>1. /\ op \in [Requests -> Ops \cup {Null}] /\ code \in [Requests -> Codes]
        /\ DOMAIN body = Requests /\ elapsed \in BOOLEAN
        /\ pc[r] \in InFlight => op[r] \in Ops
    BY DEF IndInv, TypeOK, KindInv
  <1>2. ASSUME Arrive(r)
        PROVE  IndInv'
    <2>1. PICK o \in Ops :
            /\ op' = [op EXCEPT ![r] = o]
            /\ Goto(r, CASE o.kind \in ClusterKinds -> "reset"
                         [] o.kind = "define" -> "upsert"
                         [] o.kind \in ListKinds \cup RowKinds -> "read")
      BY <1>2 DEF Arrive
    <2>2. /\ pc[r] = "idle"
          /\ UNCHANGED <<db, work, writer, code, body, elapsed, crashes>>
      BY <1>2 DEF Arrive
    <2>3. /\ op'[r] = o /\ op' \in [Requests -> Ops \cup {Null}]
          /\ \A q \in Requests : q # r => op'[q] = op[q]
      BY <1>1, <2>1
    <2>4. ~ HasExecuted(r)
      BY <2>2 DEF HasExecuted
    <2>5. CASE o.kind \in ClusterKinds
      <3>1. Goto(r, "reset")
        BY <2>1, <2>5 DEF Goto, ClusterKinds, ListKinds, RowKinds
      <3> QED
        BY <1>1, <2>2, <2>3, <2>4, <2>5, <3>1, MovePreserves
    <2>6. CASE o.kind = "define"
      <3>1. Goto(r, "upsert")
        BY <2>1, <2>6 DEF Goto, ClusterKinds, ListKinds, RowKinds
      <3> QED
        BY <1>1, <2>2, <2>3, <2>4, <2>6, <3>1, MovePreserves
    <2>7. CASE o.kind \in ListKinds \cup RowKinds
      <3>1. Goto(r, "read")
        BY <2>1, <2>7 DEF Goto, ClusterKinds, ListKinds, RowKinds
      <3> QED
        BY <1>1, <2>2, <2>3, <2>4, <2>7, <3>1, MovePreserves
    <2> QED
      BY <2>5, <2>6, <2>7, OpShape
  <1>3. ASSUME Reset(r)
        PROVE  IndInv'
    <2>1. ~ HasExecuted(r) /\ op[r].kind \in ClusterKinds
      BY <1>3 DEF Reset, HasExecuted, IndInv, KindInv
    <2> QED
      BY <1>1, <1>3, <2>1, MovePreserves DEF Reset
  <1>4. ASSUME Begin(r)
        PROVE  IndInv'
    <2>1. /\ pc[r] = "begin" /\ ~ HasExecuted(r) /\ op[r].kind \in ClusterKinds
          /\ UNCHANGED <<db, work, writer, op, code, body, elapsed, crashes>>
      BY <1>4 DEF Begin, HasExecuted, IndInv, KindInv
    <2>2. CASE Goto(r, "backoff")
      BY <1>1, <2>1, <2>2, MovePreserves
    <2>3. CASE op[r].kind = "create" /\ Goto(r, "insertCluster")
      BY <1>1, <2>1, <2>3, MovePreserves
    <2>4. CASE op[r].kind = "edit" /\ Goto(r, "updateCluster")
      BY <1>1, <2>1, <2>4, MovePreserves
    <2>5. CASE op[r].kind = "delete" /\ Goto(r, "deleteMembers")
      BY <1>1, <2>1, <2>5, MovePreserves
    <2> QED
      BY <1>4, <2>1, <2>2, <2>3, <2>4, <2>5 DEF Begin, ClusterKinds
  <1>5. ASSUME NextBackOff(r)
        PROVE  IndInv'
    <2>1. /\ pc[r] = "backoff" /\ ~ HasExecuted(r) /\ op[r].kind \in ClusterKinds
          /\ UNCHANGED <<db, work, writer, op, body, elapsed, crashes>>
          /\ code' \in [Requests -> Codes]
      BY <1>1, <1>5 DEF NextBackOff, HasExecuted, IndInv, KindInv, Codes
    <2>2. Goto(r, "begin") \/ Goto(r, "reply")
      BY <1>5 DEF NextBackOff
    <2> QED
      BY <1>1, <2>1, <2>2, MovePreserves
  <1>6. ASSUME StartRead(r)
        PROVE  IndInv'
    <2>1. op[r].kind \in ListKinds \cup RowKinds /\ pc[r] = "read"
      BY <1>6 DEF StartRead, IndInv, KindInv
    <2> DEFINE answer == IF op[r].kind \in ListKinds
                         THEN <<"ok", ListRows(db, op[r])>> ELSE RowAnswer(db, op[r])
    <2>2. answer[1] \in Codes
      BY <2>1 DEF RowAnswer, GetClusterAgents, GetAgentClusterName,
                  GetAgentPluginInfo, RowKinds, Codes
    <2>3. /\ Goto(r, "reading")
          /\ code' = [code EXCEPT ![r] = answer[1]]
          /\ body' = [body EXCEPT ![r] = answer[2]]
          /\ UNCHANGED <<db, work, writer, op, elapsed, crashes>>
      BY <1>6 DEF StartRead
    <2> HIDE DEF answer
    <2>4. code' \in [Requests -> Codes] /\ DOMAIN body' = Requests
      BY <1>1, <2>2, <2>3
    <2>5. ~ HasExecuted(r)
      BY <2>1 DEF HasExecuted
    <2> QED
      BY <1>1, <2>1, <2>3, <2>4, <2>5, MovePreserves
  <1>7. ASSUME StartReadFails(r)
        PROVE  IndInv'
    <2>1. /\ pc[r] = "read" /\ Goto(r, "reply")
          /\ UNCHANGED <<db, work, writer, op, body, elapsed, crashes>>
          /\ \E c \in {"SQLError", "ok"} : code' = [code EXCEPT ![r] = c]
      BY <1>7 DEF StartReadFails
    <2>2. code' \in [Requests -> Codes] /\ ~ HasExecuted(r)
      BY <1>1, <2>1 DEF Codes, HasExecuted
    <2> QED
      BY <1>1, <2>1, <2>2, MovePreserves
  <1>8. ASSUME FinishRead(r)
        PROVE  IndInv'
    <2>1. /\ pc[r] = "reading" /\ Goto(r, "reply") /\ ~ HasExecuted(r)
          /\ UNCHANGED <<db, work, writer, op, code, elapsed, crashes>>
          /\ DOMAIN body' = Requests
      BY <1>1, <1>8 DEF FinishRead, HasExecuted
    <2> QED
      BY <1>1, <2>1, MovePreserves
  <1>9. ASSUME Reply(r)
        PROVE  IndInv'
    <2>1. pc[r] = "reply" /\ Goto(r, "answered") /\ ~ HasExecuted(r)
      BY <1>9 DEF Reply, HasExecuted
    <2> QED
      BY <1>1, <1>9, <2>1, MovePreserves DEF Reply
  <1> QED
    BY <1>2, <1>3, <1>4, <1>5, <1>6, <1>7, <1>8, <1>9
-----------------------------------------------------------------------------
(***************************************************************************)
(* The invariant.                                                          *)
(***************************************************************************)

\* A new database satisfies it.
LEMMA InitInvariant == Init => IndInv
  <1> SUFFICES ASSUME Init PROVE IndInv
    OBVIOUS
  <1>1. TypeOK
    <2>1. 0 \in 0..MaxCrashes
      BY AgentDBAssumption
    <2>2. elapsed \in BOOLEAN /\ crashes \in 0..MaxCrashes
      BY <2>1 DEF Init
    <2>3. /\ db \in DBs /\ work \in [Requests -> DBs]
          /\ writer \in Requests \cup {Null} /\ DOMAIN body = Requests
      BY EmptyDBConsistent DEF Init
    <2>4. /\ pc \in [Requests -> PCs] /\ op \in [Requests -> Ops \cup {Null}]
          /\ code \in [Requests -> Codes]
      BY DEF Init, PCs, Codes
    <2> QED
      BY <2>2, <2>3, <2>4 DEF TypeOK
  <1>2. LockInv /\ StageInv
    BY Sentinels DEF Init, LockInv, StageInv, HasExecuted
  <1>3. KindInv
    BY DEF Init, KindInv, InFlight, RetryLoop, Statements, Committing
  <1>4. ConsistentInv
    BY EmptyDBConsistent, Sentinels DEF Init, ConsistentInv
  <1> QED
    BY <1>1, <1>2, <1>3, <1>4 DEF IndInv

\* A death of the server leaves the committed tables and no transaction.
LEMMA CrashPreserves == IndInv /\ Crash => IndInv'
  <1> SUFFICES ASSUME IndInv, Crash PROVE IndInv'
    OBVIOUS
  <1>1. /\ \A r \in Requests : pc'[r] \in {"idle", "answered", "lost"}
        /\ work' = [r \in Requests |-> EmptyDB] /\ writer' = Null
        /\ UNCHANGED <<db, op, code, body>> /\ elapsed' = FALSE
    BY DEF Crash, IndInv, TypeOK, PCs
  <1>2. TypeOK'
    <2>1. pc' \in [Requests -> PCs]
      BY DEF Crash, IndInv, TypeOK, PCs
    <2>2. crashes' \in 0..MaxCrashes
      BY AgentDBAssumption DEF Crash, IndInv, TypeOK
    <2> QED
      BY <1>1, <2>1, <2>2, EmptyDBConsistent DEF IndInv, TypeOK
  <1>3. LockInv' /\ StageInv'
    BY <1>1, Sentinels DEF LockInv, StageInv, HasExecuted
  <1>4. KindInv'
    BY <1>1 DEF KindInv, InFlight, RetryLoop, Statements, Committing
  <1>5. ConsistentInv'
    BY <1>1, Sentinels DEF IndInv, ConsistentInv
  <1> QED
    BY <1>2, <1>3, <1>4, <1>5 DEF IndInv

\* Time, the end of an instance and stuttering change nothing it speaks of.
LEMMA QuietPreserves ==
    IndInv /\ (Elapse \/ Done \/ UNCHANGED vars) => IndInv'
  <1> SUFFICES ASSUME IndInv, Elapse \/ Done \/ UNCHANGED vars PROVE IndInv'
    OBVIOUS
  <1>1. /\ UNCHANGED <<db, work, writer, pc, op, code, body, crashes>>
        /\ elapsed' \in BOOLEAN
    BY DEF Elapse, Done, vars, IndInv, TypeOK
  <1>2. TypeOK'
    BY <1>1 DEF IndInv, TypeOK
  <1>3. LockInv' /\ KindInv'
    BY <1>1 DEF IndInv, LockInv, KindInv, HasExecuted
  <1>4. ConsistentInv' /\ StageInv'
    BY <1>1 DEF IndInv, ConsistentInv, StageInv, HasExecuted
  <1> QED
    BY <1>2, <1>3, <1>4 DEF IndInv

\* Every step preserves it.
LEMMA NextPreserves == IndInv /\ [Next]_vars => IndInv'
  <1> SUFFICES ASSUME IndInv, [Next]_vars PROVE IndInv'
    OBVIOUS
  <1>1. ASSUME NEW r \in Requests, Arrive(r) \/ Step(r)
        PROVE  IndInv'
    BY <1>1, StatementPreserves, ClosingPreserves, OutsidePreserves
       DEF Step, Transact
  <1> QED
    BY <1>1, CrashPreserves, QuietPreserves DEF Next

\* The invariant of the database, for all values of the constants.
THEOREM Invariant == Spec => []IndInv
  BY InitInvariant, NextPreserves, PTL DEF Spec

\* Every variable keeps its type.
THEOREM TypeCorrect == Spec => []TypeOK
  <1>1. IndInv => TypeOK
    BY DEF IndInv
  <1> QED
    BY <1>1, Invariant, PTL

\* The foreign keys of cluster_memberships hold in the committed tables at all
\* times, although SQLite is not asked to enforce them.
THEOREM ForeignKeysHold == Spec => []NoOrphanMembership
  <1>1. IndInv => NoOrphanMembership
    BY DEF IndInv, ConsistentInv, Consistent, NoOrphans, NoOrphanMembership
  <1> QED
    BY <1>1, Invariant, PTL

\* A name never stands for two committed clusters.
THEOREM NamesStayUnique == Spec => []NamesUnique
  <1>1. IndInv => NamesUnique
    BY DEF IndInv, ConsistentInv, Consistent, UniqueNames, NamesUnique
  <1> QED
    BY <1>1, Invariant, PTL

\* Every path out of an operation gives the write lock back.
THEOREM LockReturned == Spec => []NoLeakedLock
  <1>1. IndInv => NoLeakedLock
    BY DEF IndInv, TypeOK, LockInv, HasExecuted, NoLeakedLock, Statements, Committing
  <1> QED
    BY <1>1, Invariant, PTL

-----------------------------------------------------------------------------
(***************************************************************************)
(* What each statement makes of the names, the plugins and the owners.     *)
(***************************************************************************)

\* A new cluster has a fresh id: no member of another is given to it.
LEMMA InsertClusterEffect ==
    ASSUME NEW d \in DBs, Consistent(d), NEW n \in Names, d.seq < MaxClusterId
    PROVE  /\ Live(InsertCluster(d, n)) = Live(d) \cup {n}
           /\ \A a \in Agents : /\ InsertCluster(d, n).plugin[a] = d.plugin[a]
                                /\ OwnerIn(InsertCluster(d, n), a) = OwnerIn(d, a)
  <1> DEFINE e == InsertCluster(d, n)
  <1>1. /\ e.plugin = d.plugin /\ e.member = d.member
        /\ e.name = [d.name EXCEPT ![d.seq + 1] = n]
    BY DEF InsertCluster, DBs
  <1>2. d.seq \in Nat /\ d.name[d.seq + 1] = NoRow /\ d.seq + 1 \in ClusterIds
    BY AgentDBAssumption DEF Consistent, FreshIds, DBs
  <1>3. \A i \in ClusterIds : e.name[i] = IF i = d.seq + 1 THEN n ELSE d.name[i]
    BY <1>1 DEF DBs
  <1>4. Live(e) = Live(d) \cup {n}
    <2>1. Live(e) \subseteq Live(d) \cup {n}
      BY <1>3 DEF Live
    <2>2. Live(d) \cup {n} \subseteq Live(e)
      BY <1>2, <1>3, Sentinels DEF Live
    <2> QED
      BY <2>1, <2>2
  <1>5. ASSUME NEW a \in Agents
        PROVE  OwnerIn(e, a) = OwnerIn(d, a)
    <2>1. d.member[a] \in ClusterIds => d.member[a] # d.seq + 1
      BY <1>2, Sentinels DEF Consistent, NoOrphans
    <2> QED
      BY <1>1, <1>3, <2>1 DEF OwnerIn
  <1> QED
    BY <1>1, <1>4, <1>5

\* A rename moves the members of the one cluster to its new name.
LEMMA RenameClusterEffect ==
    ASSUME NEW d \in DBs, NEW n \in Live(d), NEW m \in Names, n \in Names
    PROVE  /\ Live(RenameCluster(d, n, m)) = (Live(d) \ {n}) \cup {m}
           /\ \A a \in Agents :
                 /\ RenameCluster(d, n, m).plugin[a] = d.plugin[a]
                 /\ OwnerIn(RenameCluster(d, n, m), a) =
                       IF OwnerIn(d, a) = n THEN m ELSE OwnerIn(d, a)
  <1> DEFINE e == RenameCluster(d, n, m)
  <1>1. /\ e.plugin = d.plugin /\ e.member = d.member
        /\ e.name = [i \in ClusterIds |-> IF d.name[i] = n THEN m ELSE d.name[i]]
    BY DEF RenameCluster, DBs
  <1>2. Live(e) \subseteq (Live(d) \ {n}) \cup {m}
    BY <1>1 DEF Live
  <1>3. (Live(d) \ {n}) \cup {m} \subseteq Live(e)
    BY <1>1, Sentinels DEF Live
  <1>4. \A a \in Agents : OwnerIn(e, a) = IF OwnerIn(d, a) = n THEN m ELSE OwnerIn(d, a)
    BY <1>1, Sentinels DEF OwnerIn
  <1> QED
    BY <1>1, <1>2, <1>3, <1>4

\* The members that are deleted are those of that cluster.
LEMMA DeleteMembersEffect ==
    ASSUME NEW d \in DBs, Consistent(d), NEW n \in Names
    PROVE  /\ Live(DeleteMembers(d, n)) = Live(d)
           /\ \A a \in Agents :
                 /\ DeleteMembers(d, n).plugin[a] = d.plugin[a]
                 /\ OwnerIn(DeleteMembers(d, n), a) =
                       IF OwnerIn(d, a) = n THEN NoRow ELSE OwnerIn(d, a)
  <1> DEFINE e == DeleteMembers(d, n)
  <1>1. /\ e.plugin = d.plugin /\ e.name = d.name
        /\ e.member = [b \in Agents |->
              IF n \in Live(d) /\ d.member[b] = IdOf(d, n) THEN NoRow ELSE d.member[b]]
    BY DEF DeleteMembers, DBs
  <1>2. n \in Live(d) => IdOf(d, n) \in ClusterIds /\ d.name[IdOf(d, n)] = n
    BY IdOfLive
  <1>3. Live(e) = Live(d)
    BY <1>1 DEF Live
  <1>4. ASSUME NEW a \in Agents
        PROVE  OwnerIn(e, a) = IF OwnerIn(d, a) = n THEN NoRow ELSE OwnerIn(d, a)
    <2>1. ASSUME OwnerIn(d, a) = n
          PROVE  n \in Live(d) /\ d.member[a] = IdOf(d, n)
      <3>1. d.member[a] \in ClusterIds /\ d.name[d.member[a]] = n
        BY <2>1, Sentinels DEF OwnerIn
      <3>2. n \in Live(d)
        BY <3>1, Sentinels DEF Live
      <3> QED
        BY <1>2, <3>1, <3>2, Sentinels DEF Consistent, UniqueNames
    <2>2. CASE OwnerIn(d, a) = n
      BY <1>1, <2>1, <2>2, Sentinels DEF OwnerIn
    <2>3. CASE OwnerIn(d, a) # n
      BY <1>1, <1>2, <2>3 DEF OwnerIn
    <2> QED
      BY <2>2, <2>3
  <1> QED
    BY <1>1, <1>3, <1>4

\* A cluster without members is deleted.
LEMMA DeleteClusterEffect ==
    ASSUME NEW d \in DBs, NEW n \in Names,
           \A a \in Agents, i \in ClusterIds : d.name[i] = n => d.member[a] # i
    PROVE  /\ Live(DeleteCluster(d, n)) = Live(d) \ {n}
           /\ \A a \in Agents : /\ DeleteCluster(d, n).plugin[a] = d.plugin[a]
                                /\ OwnerIn(DeleteCluster(d, n), a) = OwnerIn(d, a)
  <1> DEFINE e == DeleteCluster(d, n)
  <1>1. /\ e.plugin = d.plugin /\ e.member = d.member
        /\ e.name = [i \in ClusterIds |-> IF d.name[i] = n THEN NoRow ELSE d.name[i]]
    BY DEF DeleteCluster, DBs
  <1>2. Live(e) = Live(d) \ {n}
    BY <1>1 DEF Live
  <1>3. \A a \in Agents : OwnerIn(e, a) = OwnerIn(d, a)
    BY <1>1 DEF OwnerIn
  <1> QED
    BY <1>1, <1>2, <1>3

\* INSERT OR IGNORE leaves the rows there are.
LEMMA InsertAgentsEffect ==
    ASSUME NEW d \in DBs, NEW list \in AgentLists
    PROVE  /\ Live(InsertAgents(d, list)) = Live(d)
           /\ \A a \in Agents :
                 /\ InsertAgents(d, list).plugin[a] =
                       IF a \in Listed(list) /\ d.plugin[a] = NoRow THEN Null ELSE d.plugin[a]
                 /\ OwnerIn(InsertAgents(d, list), a) = OwnerIn(d, a)
  BY DEF InsertAgents, DBs, OwnerIn, Live

\* The listed agents join the cluster.
LEMMA InsertMembersEffect ==
    ASSUME NEW d \in DBs, NEW list \in AgentLists, NEW n \in Live(d)
    PROVE  /\ Live(InsertMembers(d, list, n)) = Live(d)
           /\ \A a \in Agents :
                 /\ InsertMembers(d, list, n).plugin[a] = d.plugin[a]
                 /\ OwnerIn(InsertMembers(d, list, n), a) =
                       IF a \in Listed(list) THEN n ELSE OwnerIn(d, a)
  <1> DEFINE e == InsertMembers(d, list, n)
  <1>1. /\ e.name = d.name /\ e.plugin = d.plugin
        /\ e.member = [b \in Agents |-> IF b \in Listed(list) THEN IdOf(d, n) ELSE d.member[b]]
    BY DEF InsertMembers, DBs
  <1> QED
    BY <1>1, IdOfLive DEF OwnerIn, Live

\* A registration is of one agent, and of its plugin only.
LEMMA UpsertAgentEffect ==
    ASSUME NEW d \in DBs, NEW b \in Agents, NEW p \in Plugins \cup {Null}
    PROVE  /\ Live(UpsertAgent(d, b, p)) = Live(d)
           /\ \A a \in Agents :
                 /\ UpsertAgent(d, b, p).plugin[a] = IF a = b THEN p ELSE d.plugin[a]
                 /\ OwnerIn(UpsertAgent(d, b, p), a) = OwnerIn(d, a)
  <1> DEFINE e == UpsertAgent(d, b, p)
  <1>1. /\ e.name = d.name /\ e.member = d.member /\ e.plugin = [d.plugin EXCEPT ![b] = p]
    BY DEF UpsertAgent, DBs
  <1>2. \A a \in Agents : e.plugin[a] = IF a = b THEN p ELSE d.plugin[a]
    BY <1>1 DEF DBs
  <1> QED
    BY <1>1, <1>2 DEF OwnerIn, Live

\* What the store makes of an operation, agent by agent.
LEMMA StoreEffect ==
    ASSUME NEW o \in Ops, NEW a \in Agents
    PROVE  /\ Store!OwnerAfter(o)[a] =
                 IF o.kind \in {"create", "edit"} /\ a \in Listed(o.list) THEN Target(o)
                 ELSE FreedOwner(o, a)
           /\ Store!PluginAfter(o)[a] =
                 IF o.kind = "define" /\ a = o.agent THEN o.plugin
                 ELSE IF o.kind \in {"create", "edit"} /\ db.plugin[a] = NoRow
                         /\ a \in Listed(o.list) THEN Null
                 ELSE db.plugin[a]
  BY DEF Store!OwnerAfter, Store!PluginAfter, Store!Target, Store!Listed, Target, Listed, FreedOwner

\* What the store makes of the names.
LEMMA StoreNames ==
    ASSUME NEW o \in Ops
    PROVE  /\ o.kind = "create" => Store!ClustersAfter(o) = Live(db) \cup {o.name}
           /\ o.kind = "edit" =>
                 Store!ClustersAfter(o) = (Live(db) \ {o.name}) \cup {o.editedName}
           /\ o.kind = "delete" => Store!ClustersAfter(o) = Live(db) \ {o.name}
           /\ o.kind = "define" => Store!ClustersAfter(o) = Live(db)
  BY DEF Store!ClustersAfter

\* What the store accepts: the names fit, and the listed agents are free.
LEMMA StoreAccepts ==
    ASSUME NEW o \in Ops
    PROVE  Store!Accepts(o) <=>
              /\ NamesFit(o)
              /\ o.kind \in {"create", "edit"} =>
                    ~ Repeats(o.list) /\ \A a \in Listed(o.list) : FreedOwner(o, a) = NoRow
  <1>1. \A a \in Agents : [b \in Agents |-> OwnerIn(db, b)][a] = OwnerIn(db, a)
    OBVIOUS
  <1>2. o.kind \in {"create", "edit"} => Listed(o.list) \subseteq Agents
    BY OpShape, ListedAgents
  <1>3. o.kind = "edit" => o.name # NoRow
    BY OpShape, Sentinels
  <1>4. o.kind = "create" => (Store!Assignable(NoRow, o.list) <=>
           ~ Repeats(o.list) /\ \A a \in Listed(o.list) : FreedOwner(o, a) = NoRow)
    BY <1>1, <1>2 DEF Store!Assignable, Store!Repeats, Store!Listed, Repeats, Listed, FreedOwner
  <1>5. o.kind = "edit" => (Store!Assignable(o.name, o.list) <=>
           ~ Repeats(o.list) /\ \A a \in Listed(o.list) : FreedOwner(o, a) = NoRow)
    BY <1>1, <1>2, <1>3
       DEF Store!Assignable, Store!Repeats, Store!Listed, Repeats, Listed, FreedOwner
  <1> QED
    BY <1>4, <1>5 DEF Store!Accepts, NamesFit
\* The effect speaks of the committed tables, and of what the transaction of q has made
\* of them.
LEMMA EffectNext ==
    ASSUME UNCHANGED db, NEW q, NEW o, NEW label, NEW e,
           op'[q] = o, pc'[q] = label, work'[q] = e, Effect(o, label, e)
    PROVE  Effect(op[q], pc[q], work[q])'
  <1>1. Live(db)' = Live(db)
    BY DEF Live
  <1>2. Store!ClustersAfter(op[q])' = Store!ClustersAfter(o)
    BY <1>1 DEF Store!ClustersAfter
  <1>3. Store!PluginAfter(op[q])' = Store!PluginAfter(o)
    BY DEF Store!PluginAfter
  <1>4. Store!OwnerAfter(op[q])' = Store!OwnerAfter(o)
    BY DEF Store!OwnerAfter
  <1>5. Store!Accepts(op[q])' = Store!Accepts(o)
    BY <1>1 DEF Store!Accepts, Store!Assignable
  <1>6. NamesFit(op[q])' = NamesFit(o)
    BY <1>1 DEF NamesFit
  <1>7. \A a : FreedOwner(op[q], a)' = FreedOwner(o, a)
    BY DEF FreedOwner
  <1>8. Live(work[q])' = Live(e) /\ \A a : OwnerIn(work[q], a)' = OwnerIn(e, a)
    BY DEF Live, OwnerIn
  <1> QED
    BY <1>1, <1>2, <1>3, <1>4, <1>5, <1>6, <1>7, <1>8 DEF Effect

-----------------------------------------------------------------------------
(***************************************************************************)
(* What each statement does is its part of the effect of the operation.    *)
(***************************************************************************)

\* The first statement of a transaction works on the committed tables.
LEMMA FirstPages ==
    ASSUME IndInv, NEW r \in Requests, ~ HasExecuted(r), pc[r] # "rollback"
    PROVE  Pages(r) = db
  BY DEF IndInv, LockInv, Pages

\* The later ones work on what the statements before them have done.
LEMMA LaterPages ==
    ASSUME IndInv, EffectInv, NEW r \in Requests, HasExecuted(r)
    PROVE  writer = r /\ Pages(r) = work[r] /\ Effect(op[r], pc[r], Pages(r))
  <1>1. writer = r /\ pc[r] # "rollback"
    BY DEF IndInv, LockInv, HasExecuted
  <1> QED
    BY <1>1 DEF EffectInv, Pages

\* A statement either does its part of the effect or finds that the store refuses it.
DoesItsPart(r) ==
    \E e, next : /\ Execute(r, e, next) /\ Effect(op[r], next, e)
                 /\ next \in {"deleteMembers", "deleteCluster", "addAgents", "addMembers", "commit"}

IsRefused(r) ==
    PostFails(r) /\ op[r].kind \in ClusterKinds /\ ~ Store!Accepts(op[r])

\* The first statement of a create.
LEMMA InsertClusterStep ==
    ASSUME IndInv, NEW r \in Requests, InsertClusterMetadata(r)
    PROVE  DoesItsPart(r) \/ IsRefused(r)
  <1> DEFINE o == op[r]
             e == InsertCluster(db, o.name)
  <1>1. pc[r] = "insertCluster" /\ o \in Ops /\ o.kind = "create" /\ o.name \in Names
    BY InFlightOp, OpShape
       DEF InsertClusterMetadata, IndInv, KindInv, InFlight, RetryLoop, Statements
  <1>2. Pages(r) = db /\ db \in DBs /\ Consistent(db)
    BY <1>1, FirstPages, PagesSound DEF HasExecuted
  <1>3. CASE o.name \in Live(db)
    BY <1>1, <1>2, <1>3, StoreAccepts DEF InsertClusterMetadata, IsRefused, ClusterKinds, NamesFit
  <1>4. CASE o.name \notin Live(db)
    <2>1. db.seq < MaxClusterId /\ Execute(r, e, "addAgents")
      BY <1>2, <1>4 DEF InsertClusterMetadata
    <2>2. Effect(o, "addAgents", e)
      <3> HIDE DEF o
      <3> QED
        BY <1>1, <1>2, <1>4, <2>1, InsertClusterEffect, StoreNames
           DEF Effect, NamesFit, FreedOwner
    <2> QED
      BY <2>1, <2>2 DEF DoesItsPart
  <1> QED
    BY <1>3, <1>4

\* The first statement of an edit.
LEMMA UpdateClusterStep ==
    ASSUME IndInv, NEW r \in Requests, UpdateClusterMetadata(r)
    PROVE  DoesItsPart(r) \/ IsRefused(r)
  <1> DEFINE o == op[r]
             e == RenameCluster(db, o.name, o.editedName)
  <1>1. /\ pc[r] = "updateCluster" /\ o \in Ops /\ o.kind = "edit"
        /\ o.name \in Names /\ o.editedName \in Names
    BY InFlightOp, OpShape
       DEF UpdateClusterMetadata, IndInv, KindInv, InFlight, RetryLoop, Statements
  <1>2. Pages(r) = db /\ db \in DBs /\ Consistent(db)
    BY <1>1, FirstPages, PagesSound DEF HasExecuted
  <1>3. NamesFit(o) <=> o.name \in Live(db) /\ ~ RenameClashes(db, o.name, o.editedName)
    BY <1>1 DEF NamesFit, RenameClashes
  <1>4. CASE ~ NamesFit(o)
    BY <1>1, <1>2, <1>3, <1>4, StoreAccepts DEF UpdateClusterMetadata, IsRefused, ClusterKinds
  <1>5. CASE NamesFit(o)
    <2>1. Execute(r, e, "deleteMembers")
      BY <1>2, <1>3, <1>5 DEF UpdateClusterMetadata
    <2>2. Effect(o, "deleteMembers", e)
      <3> HIDE DEF o
      <3> QED
        BY <1>1, <1>2, <1>3, <1>5, RenameClusterEffect, StoreNames DEF Effect
    <2> QED
      BY <2>1, <2>2 DEF DoesItsPart
  <1> QED
    BY <1>4, <1>5

\* The second statement of an edit, and the first of a delete.
LEMMA DeleteMembersStep ==
    ASSUME IndInv, EffectInv, NEW r \in Requests, DeleteClusterAgents(r)
    PROVE  DoesItsPart(r)
  <1> DEFINE o == op[r]
             d == Pages(r)
             e == DeleteMembers(d, Target(o))
  <1>1. /\ pc[r] = "deleteMembers" /\ o \in Ops /\ o.kind \in {"edit", "delete"}
        /\ o.name \in Names
        /\ o.kind = "edit" => o.editedName \in Names
    BY InFlightOp, OpShape
       DEF DeleteClusterAgents, IndInv, KindInv, InFlight, RetryLoop, Statements
  <1>2. d \in DBs /\ Consistent(d) /\ Target(o) \in Names
    BY <1>1, PagesSound DEF Target
  <1>3. /\ Live(e) = Live(d)
        /\ \A a \in Agents : /\ e.plugin[a] = d.plugin[a]
                             /\ OwnerIn(e, a) = IF OwnerIn(d, a) = Target(o) THEN NoRow
                                                ELSE OwnerIn(d, a)
    <2> HIDE DEF d, o
    <2> QED
      BY <1>2, DeleteMembersEffect
  <1>4. Execute(r, e, IF o.kind = "edit" THEN "addAgents" ELSE "deleteCluster")
    BY DEF DeleteClusterAgents
  <1>5. CASE o.kind = "edit"
    <2>1. HasExecuted(r)
      BY <1>1, <1>5 DEF HasExecuted
    <2>2. Execute(r, e, "addAgents") /\ Effect(o, "deleteMembers", d)
      BY <1>1, <1>4, <1>5, <2>1, LaterPages
    <2>3. ASSUME NEW a \in Agents
          PROVE  OwnerIn(e, a) = FreedOwner(o, a)
      <3>1. OwnerIn(db, a) = o.editedName => o.editedName \in Live(db)
        BY <1>1, <1>5, Sentinels DEF OwnerIn, Live
      <3>2. OwnerIn(db, a) = o.editedName => OwnerIn(db, a) = o.name
        BY <1>5, <2>2, <3>1 DEF Effect, NamesFit
      <3> HIDE DEF e
      <3> QED
        BY <1>3, <1>5, <2>2, <3>2 DEF Effect, FreedOwner, Target
    <2>4. Effect(o, "addAgents", e)
      <3> HIDE DEF e, d, o
      <3> QED
        BY <1>3, <2>2, <2>3 DEF Effect
    <2> QED
      BY <2>2, <2>4 DEF DoesItsPart
  <1>6. CASE o.kind = "delete"
    <2>1. ~ HasExecuted(r)
      BY <1>1, <1>6 DEF HasExecuted
    <2>2. Execute(r, e, "deleteCluster") /\ d = db
      BY <1>1, <1>4, <1>6, <2>1, FirstPages
    <2>3. Effect(o, "deleteCluster", e)
      <3> HIDE DEF e, d, o
      <3> QED
        BY <1>3, <1>6, <2>2 DEF Effect, FreedOwner, Target
    <2> QED
      BY <2>2, <2>3 DEF DoesItsPart
  <1> QED
    BY <1>1, <1>5, <1>6

\* The last statement of a delete.
LEMMA DeleteClusterStep ==
    ASSUME IndInv, EffectInv, NEW r \in Requests, DeleteClusterMetadata(r)
    PROVE  DoesItsPart(r) \/ IsRefused(r)
  <1> DEFINE o == op[r]
             d == Pages(r)
             e == DeleteCluster(d, o.name)
  <1>1. pc[r] = "deleteCluster" /\ o \in Ops /\ o.kind = "delete" /\ o.name \in Names
    BY InFlightOp, OpShape
       DEF DeleteClusterMetadata, IndInv, KindInv, InFlight, RetryLoop, Statements
  <1>2. d \in DBs /\ Consistent(d)
    BY PagesSound
  <1>3. Effect(o, "deleteCluster", d) /\ d = work[r]
    BY <1>1, LaterPages DEF HasExecuted
  <1>4. Live(d) = Live(db)
    BY <1>3 DEF Effect
  <1>5. CASE o.name \notin Live(d)
    BY <1>1, <1>4, <1>5, StoreAccepts DEF DeleteClusterMetadata, IsRefused, ClusterKinds, NamesFit
  <1>6. CASE o.name \in Live(d)
    <2>1. Execute(r, e, "commit")
      BY <1>6 DEF DeleteClusterMetadata
    <2>2. \A a \in Agents, i \in ClusterIds : d.name[i] = o.name => d.member[a] # i
      BY <1>1, <1>3 DEF IndInv, StageInv
    <2>3. /\ Live(e) = Live(d) \ {o.name}
          /\ \A a \in Agents : e.plugin[a] = d.plugin[a] /\ OwnerIn(e, a) = OwnerIn(d, a)
      <3> HIDE DEF d, o
      <3> QED
        BY <1>1, <1>2, <2>2, DeleteClusterEffect
    <2>4. NamesFit(o) /\ Store!Accepts(o)
      BY <1>1, <1>4, <1>6, StoreAccepts DEF NamesFit
    <2>5. Effect(o, "commit", e)
      <3> HIDE DEF e, d, o
      <3> QED
        BY <1>1, <1>3, <1>4, <2>3, <2>4, StoreNames, StoreEffect DEF Effect
    <2> QED
      BY <2>1, <2>5 DEF DoesItsPart
  <1> QED
    BY <1>5, <1>6

\* addAgentBatchToCluster, first statement.
LEMMA AddAgentsStep ==
    ASSUME IndInv, EffectInv, NEW r \in Requests, AddAgents(r)
    PROVE  DoesItsPart(r)
  <1> DEFINE o == op[r]
             d == Pages(r)
             e == InsertAgents(d, o.list)
  <1>1. /\ pc[r] = "addAgents" /\ o \in Ops /\ o.kind \in {"create", "edit"}
        /\ o.list \in AgentLists
    BY InFlightOp, OpShape DEF AddAgents, IndInv, KindInv, InFlight, RetryLoop, Statements
  <1>2. d \in DBs /\ Effect(o, "addAgents", d)
    BY <1>1, PagesSound, LaterPages DEF HasExecuted
  <1>3. CASE o.list = <<>>
    <2>1. Execute(r, d, "commit")
      BY <1>3 DEF AddAgents
    <2>2. Listed(o.list) = {} /\ ~ Repeats(o.list)
      BY <1>3 DEF Listed, Repeats
    <2>3. Store!Accepts(o)
      BY <1>1, <1>2, <2>2, StoreAccepts DEF Effect
    <2>4. Effect(o, "commit", d)
      <3> HIDE DEF d, o
      <3> QED
        BY <1>1, <1>2, <2>2, <2>3, StoreEffect DEF Effect
    <2> QED
      BY <2>1, <2>4 DEF DoesItsPart
  <1>4. CASE o.list # <<>>
    <2>1. Execute(r, e, "addMembers")
      BY <1>4 DEF AddAgents
    <2>2. /\ Live(e) = Live(d)
          /\ \A a \in Agents :
                /\ e.plugin[a] = IF a \in Listed(o.list) /\ d.plugin[a] = NoRow THEN Null
                                 ELSE d.plugin[a]
                /\ OwnerIn(e, a) = OwnerIn(d, a)
      <3> HIDE DEF d, o
      <3> QED
        BY <1>1, <1>2, InsertAgentsEffect
    <2>3. Effect(o, "addMembers", e)
      <3> HIDE DEF e, d, o
      <3> QED
        BY <1>1, <1>2, <2>2, StoreEffect DEF Effect
    <2> QED
      BY <2>1, <2>3 DEF DoesItsPart
  <1> QED
    BY <1>3, <1>4

\* addAgentBatchToCluster, second statement: the agents it would clash with are those
\* that are not free.
LEMMA AddMembersStep ==
    ASSUME IndInv, EffectInv, NEW r \in Requests, AddMembers(r)
    PROVE  DoesItsPart(r) \/ IsRefused(r)
  <1> DEFINE o == op[r]
             d == Pages(r)
             e == InsertMembers(d, o.list, Target(o))
  <1>1. /\ pc[r] = "addMembers" /\ o \in Ops /\ o.kind \in {"create", "edit"}
        /\ o.list \in AgentLists /\ Listed(o.list) \subseteq Agents
    BY InFlightOp, OpShape, ListedAgents
       DEF AddMembers, IndInv, KindInv, InFlight, RetryLoop, Statements
  <1>2. d \in DBs /\ Consistent(d) /\ Effect(o, "addMembers", d) /\ d = work[r]
    BY <1>1, PagesSound, LaterPages DEF HasExecuted
  <1>3. ASSUME NEW a \in Agents
        PROVE  d.member[a] = NoRow <=> FreedOwner(o, a) = NoRow
    <2>1. OwnerIn(d, a) = FreedOwner(o, a)
      BY <1>2 DEF Effect
    <2>2. d.member[a] = NoRow <=> OwnerIn(d, a) = NoRow
      <3> HIDE DEF d
      <3> QED
        BY <1>2, Sentinels DEF Consistent, NoOrphans, OwnerIn
    <2> QED
      BY <2>1, <2>2
  <1>4. Store!Accepts(o) <=> ~ MembershipClashes(d, o.list)
    <2>1. NamesFit(o)
      BY <1>2 DEF Effect
    <2> HIDE DEF d, o
    <2> QED
      BY <1>1, <1>3, <2>1, StoreAccepts DEF MembershipClashes
  <1>5. CASE MembershipClashes(d, o.list)
    BY <1>1, <1>4, <1>5 DEF AddMembers, IsRefused, ClusterKinds
  <1>6. CASE ~ MembershipClashes(d, o.list)
    <2>1. Execute(r, e, "commit")
      BY <1>6 DEF AddMembers
    <2>2. Target(o) \in Live(d)
      BY <1>1, <1>2 DEF IndInv, StageInv, HasExecuted
    <2>3. /\ Live(e) = Live(d)
          /\ \A a \in Agents :
                /\ e.plugin[a] = d.plugin[a]
                /\ OwnerIn(e, a) = IF a \in Listed(o.list) THEN Target(o) ELSE OwnerIn(d, a)
      <3> HIDE DEF d, o
      <3> QED
        BY <1>1, <1>2, <2>2, InsertMembersEffect
    <2>4. Effect(o, "commit", e)
      <3> HIDE DEF e, d, o
      <3> QED
        BY <1>1, <1>2, <1>4, <1>6, <2>3, StoreEffect DEF Effect
    <2> QED
      BY <2>1, <2>4 DEF DoesItsPart
  <1> QED
    BY <1>5, <1>6

\* The one statement of a registration.
LEMMA UpsertStep ==
    ASSUME IndInv, NEW r \in Requests, CreateAgentEntry(r)
    PROVE  DoesItsPart(r)
  <1> DEFINE o == op[r]
             e == UpsertAgent(db, o.agent, o.plugin)
  <1>1. /\ pc[r] = "upsert" /\ o \in Ops /\ o.kind = "define"
        /\ o.agent \in Agents /\ o.plugin \in Plugins \cup {Null}
    BY InFlightOp, OpShape DEF CreateAgentEntry, IndInv, KindInv, InFlight, RetryLoop, Statements
  <1>2. Pages(r) = db /\ db \in DBs
    BY <1>1, FirstPages, PagesSound DEF HasExecuted
  <1>3. Execute(r, e, "commit")
    BY <1>2 DEF CreateAgentEntry
  <1>4. Store!Accepts(o) /\ NamesFit(o)
    BY <1>1, StoreAccepts DEF NamesFit
  <1>5. Effect(o, "commit", e)
    <2>1. /\ Live(e) = Live(db)
          /\ \A a \in Agents : /\ e.plugin[a] = IF a = o.agent THEN o.plugin ELSE db.plugin[a]
                               /\ OwnerIn(e, a) = OwnerIn(db, a)
      <3> HIDE DEF o
      <3> QED
        BY <1>1, <1>2, UpsertAgentEffect
    <2> HIDE DEF e, o
    <2> QED
      BY <1>1, <1>4, <2>1, StoreNames, StoreEffect DEF Effect, FreedOwner
  <1> QED
    BY <1>3, <1>5 DEF DoesItsPart

-----------------------------------------------------------------------------
(***************************************************************************)
(* Steps of the store.                                                     *)
(***************************************************************************)

LEMMA StatusOf ==
    ASSUME NEW label \in PCs
    PROVE  /\ label \in {"idle", "answered", "lost"} => Status(label) = label
           /\ label \in {"rollback", "reply"} => Status(label) = "decided"
           /\ label \notin {"idle", "answered", "lost", "rollback", "reply"} =>
                 Status(label) = "open"
  BY DEF Status

\* A step the store does not see.
LEMMA StoreStays ==
    ASSUME UNCHANGED <<db, op>>,
           \A q \in Requests : Status(pc'[q]) = Status(pc[q]),
           \A q \in Requests : Settled(q)' <=> Settled(q),
           \A q \in Requests : Settled(q) => code'[q] = code[q] /\ body'[q] = body[q]
    PROVE  UNCHANGED Store!vars
  <1>1. Live(db)' = Live(db) /\ \A a : OwnerIn(db, a)' = OwnerIn(db, a)
    BY DEF Live, OwnerIn
  <1>2. [r \in Requests |-> Status(pc[r])]' = [r \in Requests |-> Status(pc[r])]
    OBVIOUS
  <1>3. [r \in Requests |-> IF Settled(r) THEN code[r] ELSE "none"]'
          = [r \in Requests |-> IF Settled(r) THEN code[r] ELSE "none"]
    OBVIOUS
  <1>4. [r \in Requests |-> IF Settled(r) THEN body[r] ELSE {}]'
          = [r \in Requests |-> IF Settled(r) THEN body[r] ELSE {}]
    OBVIOUS
  <1> QED
    BY <1>1, <1>2, <1>3, <1>4 DEF Store!vars

\* A step that decides a request.
LEMMA StoreDecides ==
    ASSUME TypeOK, NEW r \in Requests, NEW c, NEW rows,
           Status(pc[r]) = "open", pc'[r] \in {"rollback", "reply"}, UNCHANGED op,
           code'[r] = c, body'[r] = rows,
           \A q \in Requests : q # r =>
              pc'[q] = pc[q] /\ code'[q] = code[q] /\ body'[q] = body[q]
    PROVE  Store!Decide(r, c, rows)
  <1>1. \A q \in Requests : pc[q] \in PCs
    BY DEF TypeOK
  <1>2. Status(pc'[r]) = "decided" /\ Settled(r)'
    BY StatusOf DEF PCs, InFlight, RetryLoop, Settled
  <1>3. \A q \in Requests : q # r => (Settled(q)' <=> Settled(q))
    BY DEF Settled
  <1>4. [q \in Requests |-> Status(pc[q])]'
          = [[q \in Requests |-> Status(pc[q])] EXCEPT ![r] = "decided"]
    BY <1>2
  <1>5. [q \in Requests |-> IF Settled(q) THEN code[q] ELSE "none"]'
          = [[q \in Requests |-> IF Settled(q) THEN code[q] ELSE "none"] EXCEPT ![r] = c]
    BY <1>2, <1>3
  <1>6. [q \in Requests |-> IF Settled(q) THEN body[q] ELSE {}]'
          = [[q \in Requests |-> IF Settled(q) THEN body[q] ELSE {}] EXCEPT ![r] = rows]
    BY <1>2, <1>3
  <1> QED
    BY <1>4, <1>5, <1>6 DEF Store!Decide

\* The part of the invariant that speaks of transactions and answers.
PartInv == EffectInv /\ AnswerInv

\* A step that leaves the tables and the work of the lock's holder alone.
LEMMA EffectStays ==
    ASSUME EffectInv, UNCHANGED db,
           \A q \in Requests : writer' = q /\ pc'[q] # "rollback" =>
              /\ writer = q /\ work'[q] = work[q] /\ op'[q] = op[q] /\ pc[q] # "rollback"
              /\ pc'[q] = pc[q] \/ (pc[q] = "commit" /\ pc'[q] = "pending")
    PROVE  EffectInv'
  <1>1. ASSUME NEW q \in Requests, writer' = q, pc'[q] # "rollback"
        PROVE  Effect(op[q], pc[q], work[q])'
    <2>1. Effect(op[q], pc[q], work[q])
      BY <1>1 DEF EffectInv
    <2>2. Effect(op[q], "commit", work[q]) => Effect(op[q], "pending", work[q])
      BY DEF Effect
    <2>3. Effect(op[q], pc'[q], work[q])
      BY <1>1, <2>1, <2>2
    <2> QED
      BY <1>1, <2>3, EffectNext
  <1> QED
    BY <1>1 DEF EffectInv

\* A step of r alone, as far as answers go.
LEMMA AnswerStays ==
    ASSUME AnswerInv, NEW r \in Requests,
           UNCHANGED db \/ Readers = {},
           \A q \in Requests : q # r =>
              pc'[q] = pc[q] /\ op'[q] = op[q] /\ code'[q] = code[q] /\ body'[q] = body[q],
           pc'[r] = "reading" => <<code'[r], body'[r]>> = ReadAnswer(db', op'[r]),
           pc'[r] \in Unanswered => body'[r] = {}
    PROVE  AnswerInv'
  BY DEF AnswerInv, Readers

\* A statement that does its part, which the store does not see.
LEMMA PartDone ==
    ASSUME IndInv, PartInv, NEW r \in Requests, pc[r] \in Statements, DoesItsPart(r)
    PROVE  PartInv' /\ UNCHANGED Store!vars
  <1>1. PICK e, next : /\ Execute(r, e, next) /\ Effect(op[r], next, e)
                       /\ next \in {"deleteMembers", "deleteCluster", "addAgents",
                                    "addMembers", "commit"}
    BY DEF DoesItsPart
  <1>2. /\ writer' = r /\ work' = [work EXCEPT ![r] = e] /\ pc' = [pc EXCEPT ![r] = next]
        /\ UNCHANGED <<db, op, code, body>>
    BY <1>1 DEF Execute, Goto
  <1>3. /\ work'[r] = e /\ pc'[r] = next
        /\ \A q \in Requests : q # r => pc'[q] = pc[q]
    BY <1>2 DEF IndInv, TypeOK
  <1>4. EffectInv'
    <2>1. Effect(op[r], pc[r], work[r])'
      BY <1>1, <1>2, <1>3, EffectNext
    <2> QED
      BY <1>2, <2>1 DEF EffectInv
  <1>5. AnswerInv'
    <2>1. next # "reading" /\ body[r] = {}
      BY <1>1 DEF PartInv, AnswerInv, Unanswered
    <2> QED
      BY <1>2, <1>3, <2>1, AnswerStays DEF PartInv
  <1>6. UNCHANGED Store!vars
    <2>1. pc[r] \in PCs /\ next \in PCs
      BY <1>1 DEF PCs, InFlight, RetryLoop, Statements, Committing
    <2>2. Status(pc[r]) = "open" /\ Status(next) = "open"
      BY <1>1, <2>1, StatusOf DEF Statements
    <2>3. ~ Settled(r) /\ ~ Settled(r)'
      BY <1>1, <1>3 DEF Settled, Statements
    <2>4. \A q \in Requests : Status(pc'[q]) = Status(pc[q]) /\ (Settled(q)' <=> Settled(q))
      BY <1>3, <2>2, <2>3 DEF Settled
    <2> QED
      BY <1>2, <2>4, StoreStays
  <1> QED
    BY <1>4, <1>5, <1>6 DEF PartInv

\* A refusal, which the store decides at that moment.
LEMMA Refused ==
    ASSUME IndInv, PartInv, NEW r \in Requests, pc[r] \in Statements, IsRefused(r)
    PROVE  PartInv' /\ Store!Refuse(r)
  <1>1. /\ writer' = r /\ pc' = [pc EXCEPT ![r] = "rollback"]
        /\ code' = [code EXCEPT ![r] = "PostFailure"]
        /\ UNCHANGED <<db, op, body>>
    BY DEF IsRefused, PostFails, Goto
  <1>2. /\ pc'[r] = "rollback" /\ code'[r] = "PostFailure"
        /\ \A q \in Requests : q # r => pc'[q] = pc[q] /\ code'[q] = code[q]
    BY <1>1 DEF IndInv, TypeOK
  <1>3. body'[r] = {}
    BY <1>1 DEF PartInv, AnswerInv, Unanswered
  <1>4. EffectInv'
    BY <1>1, <1>2, EffectStays DEF PartInv
  <1>5. AnswerInv'
    BY <1>1, <1>2, <1>3, AnswerStays DEF PartInv
  <1>6. Store!Decide(r, "PostFailure", {})
    <2>1. Status(pc[r]) = "open"
      BY StatusOf DEF IndInv, TypeOK, Statements
    <2> QED
      BY <1>1, <1>2, <1>3, <2>1, StoreDecides DEF IndInv
  <1>7. UNCHANGED Store!store
    BY <1>1 DEF Store!store, Live, OwnerIn
  <1>8. op[r].kind \in Store!ClusterKinds /\ ~ Store!Accepts(op[r])
    BY DEF IsRefused, Store!ClusterKinds, ClusterKinds
  <1> QED
    BY <1>4, <1>5, <1>6, <1>7, <1>8 DEF PartInv, Store!Refuse

\* A statement of a transaction.
LEMMA StatementStep ==
    ASSUME IndInv, PartInv, NEW r \in Requests,
           \/ InsertClusterMetadata(r) \/ UpdateClusterMetadata(r)
           \/ DeleteClusterAgents(r) \/ DeleteClusterMetadata(r)
           \/ AddAgents(r) \/ AddMembers(r) \/ CreateAgentEntry(r)
    PROVE  PartInv' /\ (Store!Refuse(r) \/ UNCHANGED Store!vars)
  <1>1. DoesItsPart(r) \/ IsRefused(r)
    BY InsertClusterStep, UpdateClusterStep, DeleteMembersStep, DeleteClusterStep,
       AddAgentsStep, AddMembersStep, UpsertStep DEF PartInv
  <1>2. pc[r] \in Statements
    BY DEF InsertClusterMetadata, UpdateClusterMetadata, DeleteClusterAgents,
           DeleteClusterMetadata, AddAgents, AddMembers, CreateAgentEntry, Statements
  <1> QED
    BY <1>1, <1>2, PartDone, Refused

\* What a COMMIT makes of the store.
LEMMA CommitEffect ==
    ASSUME IndInv, EffectInv, NEW r \in Requests, Commit(r)
    PROVE  /\ pc[r] = "pending" /\ code'[r] = "ok" /\ db' = work[r] /\ writer = r
           /\ op[r] \in Ops /\ op[r].kind \in ClusterKinds \cup {"define"}
           /\ Effect(op[r], "pending", db')
  <1>1. /\ pc[r] = "pending" /\ writer = r /\ op[r] \in Ops
        /\ op[r].kind \in ClusterKinds \cup {"define"}
    BY DEF Commit, IndInv, LockInv, HasExecuted, KindInv, InFlight, RetryLoop, Committing
  <1>2. db' = work[r] /\ code'[r] = "ok"
    BY DEF Commit, IndInv, TypeOK
  <1> QED
    BY <1>1, <1>2 DEF EffectInv

\* The COMMIT of a transaction is the instant its operation takes effect.
LEMMA CommitStep ==
    ASSUME IndInv, PartInv, NEW r \in Requests, Commit(r)
    PROVE  PartInv' /\ Store!Apply(r)
  <1> DEFINE o == op[r]
  <1>1. /\ pc[r] = "pending" /\ writer = r /\ Readers = {} /\ o \in Ops
        /\ o.kind \in ClusterKinds \cup {"define"} /\ Effect(o, "pending", db')
    BY CommitEffect DEF Commit, PartInv
  <1>2. /\ db' = work[r] /\ writer' = Null /\ pc' = [pc EXCEPT ![r] = "reply"]
        /\ code' = [code EXCEPT ![r] = "ok"] /\ UNCHANGED <<op, body>>
    BY <1>1 DEF Commit, EndTransaction, Goto
  <1>3. /\ pc'[r] = "reply" /\ code'[r] = "ok"
        /\ \A q \in Requests : q # r => pc'[q] = pc[q] /\ code'[q] = code[q]
    BY <1>2 DEF IndInv, TypeOK
  <1>4. body'[r] = {}
    BY <1>1, <1>2 DEF PartInv, AnswerInv, Unanswered, Committing
  <1>5. EffectInv'
    BY <1>2, Sentinels DEF EffectInv
  <1>6. AnswerInv'
    BY <1>1, <1>2, <1>3, <1>4, AnswerStays DEF PartInv, Unanswered, Statements, Committing
  <1>7. Store!Decide(r, "ok", {})
    <2>1. Status(pc[r]) = "open"
      BY <1>1, StatusOf DEF IndInv, TypeOK
    <2> QED
      BY <1>2, <1>3, <1>4, <2>1, StoreDecides DEF IndInv
  <1>8. /\ Live(db)' = Store!ClustersAfter(o) /\ Store!Accepts(o)
        /\ \A a \in Agents : /\ db'.plugin[a] = Store!PluginAfter(o)[a]
                             /\ OwnerIn(db', a) = Store!OwnerAfter(o)[a]
    BY <1>1 DEF Effect
  <1>9. [a \in Agents |-> OwnerIn(db, a)]' = Store!OwnerAfter(o)
    BY <1>8 DEF Store!OwnerAfter
  <1>10. db'.plugin = Store!PluginAfter(o)
    <2>1. db' \in DBs
      BY <1>1, <1>2 DEF IndInv, TypeOK
    <2> QED
      BY <1>8, <2>1 DEF DBs, Store!PluginAfter
  <1>11. o.kind \notin Store!ListKinds \cup Store!RowKinds
    BY <1>1 DEF Store!ListKinds, Store!RowKinds, ClusterKinds
  <1> QED
    BY <1>5, <1>6, <1>7, <1>8, <1>9, <1>10, <1>11 DEF PartInv, Store!Apply

\* A request is given up: nothing has happened.
LEMMA GivenUp ==
    ASSUME IndInv, PartInv, NEW r \in Requests, pc[r] \in Unanswered \ {"idle", "rollback"},
           UNCHANGED <<db, op, body>>, NEW label \in {"rollback", "reply"}, Goto(r, label),
           NEW c \in {"SQLError", "txError"}, code' = [code EXCEPT ![r] = c]
    PROVE  /\ Store!Fail(r)
           /\ AnswerInv'
  <1>1. /\ pc'[r] = label /\ code'[r] = c
        /\ \A q \in Requests : q # r => pc'[q] = pc[q] /\ code'[q] = code[q]
    BY DEF IndInv, TypeOK, Goto
  <1>2. body'[r] = {}
    BY DEF PartInv, AnswerInv
  <1>3. Status(pc[r]) = "open"
    BY StatusOf DEF IndInv, TypeOK, Unanswered, Statements, Committing
  <1>4. Store!Decide(r, c, {})
    BY <1>1, <1>2, <1>3, StoreDecides DEF IndInv
  <1>5. UNCHANGED Store!store
    BY DEF Store!store, Live, OwnerIn
  <1>6. Store!Fail(r)
    BY <1>4, <1>5 DEF Store!Fail, Store!Decide
  <1>7. AnswerInv'
    BY <1>1, <1>2, AnswerStays DEF PartInv
  <1> QED
    BY <1>6, <1>7

\* A move of r that the store does not see.
LEMMA Unseen ==
    ASSUME IndInv, PartInv, NEW r \in Requests, NEW label \in PCs, Goto(r, label),
           UNCHANGED <<db, op, code, body>>,
           \/ pc[r] \in Unanswered \ {"idle", "rollback"}
                 /\ label \in Unanswered \ {"idle", "rollback"}
           \/ pc[r] = "rollback" /\ label = "reply"
    PROVE  UNCHANGED Store!vars /\ AnswerInv'
  <1>1. pc'[r] = label /\ \A q \in Requests : q # r => pc'[q] = pc[q]
    BY DEF IndInv, TypeOK, Goto
  <1>2. AnswerInv'
    BY <1>1, AnswerStays DEF PartInv, AnswerInv, Unanswered, Statements, Committing
  <1>3. Status(label) = Status(pc[r])
    BY StatusOf DEF IndInv, TypeOK, Unanswered, Statements, Committing
  <1>4. Settled(r)' <=> Settled(r)
    BY <1>1 DEF Settled, Unanswered, Statements, Committing
  <1>5. \A q \in Requests : Status(pc'[q]) = Status(pc[q]) /\ (Settled(q)' <=> Settled(q))
    BY <1>1, <1>3, <1>4 DEF Settled
  <1> QED
    BY <1>2, <1>5, StoreStays

\* What ends a transaction without its COMMIT, and what leads to the COMMIT.
LEMMA ClosingStep ==
    ASSUME IndInv, PartInv, NEW r \in Requests,
           StatementFails(r) \/ Rollback(r) \/ CommitPending(r) \/ CommitFails(r)
    PROVE  PartInv' /\ (Store!Fail(r) \/ UNCHANGED Store!vars)
  <1>1. CASE StatementFails(r)
    <2>1. PICK label \in {"rollback", "reply"} :
            Goto(r, label) /\ (label = "reply" => pc[r] = "upsert")
      BY <1>1 DEF StatementFails
    <2>2. /\ UNCHANGED <<db, work, writer, op, body>> /\ pc[r] \in Statements
          /\ code' = [code EXCEPT ![r] = "SQLError"]
      BY <1>1 DEF StatementFails
    <2>3. Store!Fail(r) /\ AnswerInv'
      BY <2>1, <2>2, GivenUp DEF Unanswered, Statements
    <2>4. label = "reply" => writer # r
      BY <2>1 DEF IndInv, LockInv, HasExecuted
    <2>5. /\ pc'[r] = label
          /\ \A q \in Requests : q # r => pc'[q] = pc[q]
      BY <2>1 DEF IndInv, TypeOK, Goto
    <2>6. \A q \in Requests : writer' = q /\ pc'[q] # "rollback" => q # r /\ pc[q] # "rollback"
      BY <2>2, <2>4, <2>5
    <2>7. EffectInv'
      BY <2>2, <2>5, <2>6, EffectStays DEF PartInv
    <2> QED
      BY <2>3, <2>7 DEF PartInv
  <1>2. ASSUME EndTransaction(r), UNCHANGED <<db, op>>, NEW label, Goto(r, label)
        PROVE  EffectInv'
    <2>1. /\ writer' # r /\ writer' \in {writer, Null}
          /\ \A q \in Requests : q # r => work'[q] = work[q] /\ pc'[q] = pc[q]
      BY <1>2, Sentinels DEF EndTransaction, IndInv, TypeOK, Goto
    <2> QED
      BY <1>2, <2>1, Sentinels, EffectStays DEF PartInv
  <1>3. CASE Rollback(r)
    <2>1. /\ EndTransaction(r) /\ UNCHANGED <<db, op, code, body>> /\ Goto(r, "reply")
          /\ pc[r] = "rollback" /\ "reply" \in PCs
      BY <1>3 DEF Rollback, PCs, InFlight
    <2> QED
      BY <1>2, <2>1, Unseen DEF PartInv
  <1>4. CASE CommitPending(r)
    <2>1. /\ UNCHANGED <<db, work, writer, op, code, body>> /\ Goto(r, "pending")
          /\ pc[r] = "commit" /\ "pending" \in PCs
      BY <1>4 DEF CommitPending, PCs, InFlight, RetryLoop, Committing
    <2>2. /\ pc'[r] = "pending"
          /\ \A q \in Requests : q # r => pc'[q] = pc[q]
      BY <2>1 DEF IndInv, TypeOK, Goto
    <2>3. EffectInv'
      BY <2>1, <2>2, EffectStays DEF PartInv
    <2> QED
      BY <2>1, <2>3, Unseen DEF PartInv, Unanswered, Committing
  <1>5. CASE CommitFails(r)
    <2>1. EndTransaction(r) /\ UNCHANGED <<db, op, body>> /\ pc[r] = "pending"
      BY <1>5 DEF CommitFails
    <2>2. CASE op[r].kind = "define"
      <3>1. code' = [code EXCEPT ![r] = "SQLError"] /\ Goto(r, "reply")
        BY <1>5, <2>2 DEF CommitFails
      <3> QED
        BY <1>2, <2>1, <3>1, GivenUp DEF PartInv, Unanswered, Committing
    <2>3. CASE op[r].kind # "define"
      <3>1. UNCHANGED code /\ Goto(r, "backoff") /\ "backoff" \in PCs
        BY <1>5, <2>3 DEF CommitFails, PCs, InFlight, RetryLoop
      <3> QED
        BY <1>2, <2>1, <3>1, Unseen DEF PartInv, Unanswered, Committing
    <2> QED
      BY <2>2, <2>3
  <1> QED
    BY <1>1, <1>3, <1>4, <1>5

\* Before a transaction, and between two attempts.
LEMMA RetryStep ==
    ASSUME IndInv, PartInv, NEW r \in Requests, Reset(r) \/ Begin(r) \/ NextBackOff(r)
    PROVE  PartInv' /\ (Store!Fail(r) \/ UNCHANGED Store!vars)
  <1>1. /\ UNCHANGED <<db, work, writer, op, body>>
        /\ pc[r] \in {"reset", "begin", "backoff"}
        /\ op[r].kind \in ClusterKinds
    BY DEF Reset, Begin, NextBackOff, IndInv, KindInv
  <1>2. EffectInv'
    <2>1. writer # r /\ \A q \in Requests : q # r => pc'[q] = pc[q]
      BY <1>1 DEF Reset, Begin, NextBackOff, Goto, IndInv, LockInv, HasExecuted, TypeOK
    <2> QED
      BY <1>1, <2>1, EffectStays DEF PartInv
  <1>3. CASE \E label \in {"begin", "insertCluster", "updateCluster", "deleteMembers", "backoff"} :
                Goto(r, label) /\ UNCHANGED code
    BY <1>1, <1>2, <1>3, Unseen
       DEF PartInv, Unanswered, Statements, PCs, InFlight, RetryLoop
  <1>4. CASE Goto(r, "reply") /\ code' = [code EXCEPT ![r] = "txError"]
    BY <1>1, <1>2, <1>4, GivenUp DEF PartInv, Unanswered
  <1>5. Reset(r) => Goto(r, "begin") /\ UNCHANGED code
    BY DEF Reset
  <1>6. Begin(r) => /\ UNCHANGED code
                    /\ \E label \in {"insertCluster", "updateCluster", "deleteMembers", "backoff"} :
                          Goto(r, label)
    BY <1>1 DEF Begin, ClusterKinds
  <1>7. NextBackOff(r) => \/ Goto(r, "begin") /\ UNCHANGED code
                          \/ Goto(r, "reply") /\ code' = [code EXCEPT ![r] = "txError"]
    BY DEF NextBackOff
  <1> QED
    BY <1>3, <1>4, <1>5, <1>6, <1>7

\* A read answers what the store shows.
LEMMA AnswerIsView ==
    ASSUME IndInv, NEW o \in Ops, o.kind \in ListKinds \cup RowKinds
    PROVE  ReadAnswer(db, o) =
              <<Store!Verdict(o), IF Store!Verdict(o) = "ok" THEN Store!View(o) ELSE {}>>
  <1>1. NoOrphans(db)
    BY DEF IndInv, ConsistentInv, Consistent
  <1>2. \A n \in Live(db) : MembersIn(db, n) = Store!Members(n)
    BY DEF MembersIn, Store!Members, Live
  <1>3. CASE o.kind = "clusters"
    BY <1>2, <1>3
       DEF ReadAnswer, ListKinds, ListRows, GetClusters, Store!Verdict, Store!View
  <1>4. CASE o.kind = "selectors"
    BY <1>4 DEF ReadAnswer, ListKinds, ListRows, GetAgentSelectors, Store!Verdict, Store!View
  <1>5. CASE o.kind = "agents"
    BY <1>5 DEF ReadAnswer, ListKinds, ListRows, GetAgentsMetadata, Store!Verdict, Store!View
  <1>6. CASE o.kind = "clusterAgents"
    BY <1>2, <1>6
       DEF ReadAnswer, ListKinds, RowAnswer, GetClusterAgents, Store!Verdict, Store!View
  <1>7. CASE o.kind = "agentCluster"
    <2>1. o.agent \in Agents
      BY <1>7, AgentDBOpsAssumption
         DEF OpsAssumption, ClusterOps, CreateOps, EditOps, DeleteOps, DefineOps, ReadOps,
             ListOps, RowOps
    <2>2. OwnerIn(db, o.agent) # NoRow => db.plugin[o.agent] # NoRow
      BY <1>1, <2>1, Sentinels DEF NoOrphans, OwnerIn
    <2>3. [a \in Agents |-> OwnerIn(db, a)][o.agent] = OwnerIn(db, o.agent)
      BY <2>1
    <2>4. ReadAnswer(db, o) = GetAgentClusterName(db, o.agent)
      BY <1>7 DEF ReadAnswer, ListKinds, RowAnswer
    <2>5. /\ Store!Verdict(o) = IF OwnerIn(db, o.agent) = NoRow THEN "GetError" ELSE "ok"
          /\ Store!View(o) = {OwnerIn(db, o.agent)}
      BY <1>7, <2>3 DEF Store!Verdict, Store!View
    <2> QED
      BY <2>2, <2>4, <2>5 DEF GetAgentClusterName
  <1>8. CASE o.kind = "pluginInfo"
    BY <1>8 DEF ReadAnswer, ListKinds, RowAnswer, GetAgentPluginInfo, Store!Verdict, Store!View
  <1> QED
    BY <1>3, <1>4, <1>5, <1>6, <1>7, <1>8 DEF ListKinds, RowKinds

\* A read: its rows are those of the store, whole or, for a list, in part.
LEMMA ReadStep ==
    ASSUME IndInv, PartInv, NEW r \in Requests,
           StartRead(r) \/ StartReadFails(r) \/ FinishRead(r)
    PROVE  PartInv' /\ (Store!Fail(r) \/ Store!Read(r) \/ UNCHANGED Store!vars)
  <1> DEFINE o == op[r]
  <1>1. /\ UNCHANGED <<db, work, writer, op>> /\ pc[r] \in {"read", "reading"}
        /\ o \in Ops /\ o.kind \in ListKinds \cup RowKinds
    BY DEF StartRead, StartReadFails, FinishRead, IndInv, KindInv, InFlight
  <1>2. EffectInv'
    <2>1. writer # r /\ \A q \in Requests : q # r => pc'[q] = pc[q]
      BY <1>1 DEF StartRead, StartReadFails, FinishRead, Goto, IndInv, LockInv, HasExecuted,
                  TypeOK
    <2> QED
      BY <1>1, <2>1, EffectStays DEF PartInv
  <1>3. Status(pc[r]) = "open"
    BY <1>1, StatusOf DEF IndInv, TypeOK
  <1>4. UNCHANGED Store!store
    BY <1>1 DEF Store!store, Live, OwnerIn
  <1>5. CASE StartRead(r)
    <2>1. /\ pc' = [pc EXCEPT ![r] = "reading"]
          /\ code' = [code EXCEPT ![r] = ReadAnswer(db, o)[1]]
          /\ body' = [body EXCEPT ![r] = ReadAnswer(db, o)[2]]
      BY <1>5 DEF StartRead, ReadAnswer, Goto
    <2>2. /\ pc'[r] = "reading" /\ code'[r] = ReadAnswer(db, o)[1]
          /\ body'[r] = ReadAnswer(db, o)[2]
          /\ \A q \in Requests : q # r =>
                pc'[q] = pc[q] /\ code'[q] = code[q] /\ body'[q] = body[q]
      BY <2>1 DEF IndInv, TypeOK
    <2>3. <<code'[r], body'[r]>> = ReadAnswer(db, o)
      BY <1>1, <2>2, AnswerIsView
    <2>4. AnswerInv'
      BY <1>1, <2>2, <2>3, AnswerStays DEF PartInv, Unanswered, Statements, Committing
    <2>5. Status("reading") = "open"
      BY StatusOf DEF PCs, InFlight
    <2>6. \A q \in Requests : /\ Status(pc'[q]) = Status(pc[q])
                              /\ ~ Settled(r) /\ ~ Settled(r)'
                              /\ q # r => (Settled(q)' <=> Settled(q))
      BY <1>1, <1>3, <2>2, <2>5 DEF Settled
    <2>7. UNCHANGED Store!vars
      BY <1>1, <2>2, <2>6, StoreStays
    <2> QED
      BY <1>2, <2>4, <2>7 DEF PartInv
  <1>6. CASE StartReadFails(r)
    <2>1. PICK c \in {"SQLError"} \cup (IF o.kind \in ListKinds THEN {"ok"} ELSE {}) :
              code' = [code EXCEPT ![r] = c]
      BY <1>6 DEF StartReadFails
    <2>2. pc[r] = "read" /\ pc' = [pc EXCEPT ![r] = "reply"] /\ UNCHANGED body
      BY <1>6 DEF StartReadFails, Goto
    <2>3. /\ pc'[r] = "reply" /\ code'[r] = c /\ body'[r] = {}
          /\ \A q \in Requests : q # r => pc'[q] = pc[q] /\ code'[q] = code[q]
      BY <2>1, <2>2 DEF IndInv, TypeOK, PartInv, AnswerInv, Unanswered
    <2>4. AnswerInv'
      BY <1>1, <2>2, <2>3, AnswerStays DEF PartInv
    <2>5. Store!Decide(r, c, {})
      BY <1>1, <1>3, <2>2, <2>3, StoreDecides DEF IndInv
    <2>6. Store!Fail(r)
      <3>1. CASE c = "SQLError"
        BY <1>4, <2>5, <3>1 DEF Store!Fail, Store!Decide
      <3>2. CASE c = "ok" /\ o.kind \in Store!ListKinds
        <4>1. {} \in SUBSET Store!View(o)
          OBVIOUS
        <4> QED
          BY <1>4, <2>5, <3>2, <4>1 DEF Store!Fail, Store!Decide
      <3> QED
        BY <2>1, <3>1, <3>2 DEF ListKinds, Store!ListKinds
    <2> QED
      BY <1>2, <2>4, <2>6 DEF PartInv
  <1>7. CASE FinishRead(r)
    <2>1. /\ pc[r] = "reading" /\ pc' = [pc EXCEPT ![r] = "reply"] /\ UNCHANGED code
          /\ \/ UNCHANGED body
             \/ /\ o.kind \in ListKinds
                /\ \E rows \in SUBSET body[r] : body' = [body EXCEPT ![r] = rows]
      BY <1>7 DEF FinishRead, Goto
    <2>2. /\ pc'[r] = "reply" /\ code'[r] = code[r]
          /\ \A q \in Requests : q # r =>
                pc'[q] = pc[q] /\ code'[q] = code[q] /\ body'[q] = body[q]
      BY <2>1 DEF IndInv, TypeOK
    <2>3. /\ code[r] = Store!Verdict(o)
          /\ body[r] = IF Store!Verdict(o) = "ok" THEN Store!View(o) ELSE {}
      <3>1. <<code[r], body[r]>> = ReadAnswer(db, o)
        BY <2>1 DEF PartInv, AnswerInv
      <3>2. <<code[r], body[r]>> =
               <<Store!Verdict(o), IF Store!Verdict(o) = "ok" THEN Store!View(o) ELSE {}>>
        BY <1>1, <3>1, AnswerIsView
      <3> QED
        BY <3>2
    <2>4. AnswerInv'
      BY <1>1, <2>2, AnswerStays DEF PartInv, Unanswered, Statements, Committing
    <2>5. PICK c, shown : c = code[r] /\ shown = body'[r] /\ Store!Decide(r, c, shown)
      <3>1. PICK c, shown : c = code[r] /\ shown = body'[r]
        OBVIOUS
      <3>2. Store!Decide(r, c, shown)
        BY <1>1, <1>3, <2>2, <3>1, StoreDecides DEF IndInv
      <3> QED
        BY <3>1, <3>2
    <2>6. CASE UNCHANGED body
      <3>1. o.kind \in Store!ListKinds \cup Store!RowKinds
        BY <1>1 DEF ListKinds, RowKinds, Store!ListKinds, Store!RowKinds
      <3>2. Store!Read(r)
        BY <1>4, <2>3, <2>5, <2>6, <3>1 DEF Store!Read, Store!Decide
      <3> QED
        BY <1>2, <2>4, <3>2 DEF PartInv
    <2>7. CASE /\ o.kind \in ListKinds
               /\ \E rows \in SUBSET body[r] : body' = [body EXCEPT ![r] = rows]
      <3>1. body'[r] \in SUBSET body[r]
        BY <2>7 DEF IndInv, TypeOK
      <3>2. Store!Verdict(o) = "ok" /\ o.kind \in Store!ListKinds
        BY <2>7 DEF Store!Verdict, ListKinds, Store!ListKinds
      <3>3. Store!Fail(r)
        BY <1>4, <2>3, <2>5, <3>1, <3>2 DEF Store!Fail, Store!Decide
      <3> QED
        BY <1>2, <2>4, <3>3 DEF PartInv
    <2> QED
      BY <2>1, <2>6, <2>7
  <1> QED
    BY <1>5, <1>6, <1>7

\* The two ends of a request.
LEMMA EndsStep ==
    ASSUME IndInv, PartInv, NEW r \in Requests, Arrive(r) \/ Reply(r)
    PROVE  PartInv' /\ (Store!Submit(r) \/ Store!Reply(r))
  <1>1. /\ UNCHANGED <<db, work, writer, code, body>> /\ pc[r] \in {"idle", "reply"}
        /\ \A q \in Requests : q # r => pc'[q] = pc[q] /\ op'[q] = op[q]
    BY DEF Arrive, Reply, Goto, IndInv, TypeOK
  <1>2. EffectInv'
    <2>1. writer # r
      BY <1>1 DEF IndInv, LockInv, HasExecuted
    <2> QED
      BY <1>1, <2>1, EffectStays DEF PartInv
  <1>3. UNCHANGED Store!store
    BY <1>1 DEF Store!store, Live, OwnerIn
  <1>4. \A q \in Requests : q # r => (Settled(q)' <=> Settled(q))
    BY <1>1 DEF Settled
  <1>5. CASE Arrive(r)
    <2>1. PICK p \in Ops : op' = [op EXCEPT ![r] = p]
      BY <1>5 DEF Arrive
    <2>2. pc'[r] \in {"reset", "upsert", "read"} /\ pc[r] = "idle"
      BY <1>5, OpShape DEF Arrive, Goto, IndInv, TypeOK
    <2>3. AnswerInv'
      BY <1>1, <2>2, AnswerStays DEF PartInv, AnswerInv, Unanswered
    <2>4. Status(pc[r]) = "idle" /\ Status(pc'[r]) = "open"
      BY <2>2, StatusOf DEF PCs, InFlight, RetryLoop, Statements
    <2>5. ~ Settled(r) /\ ~ Settled(r)'
      BY <2>2 DEF Settled
    <2>6. [q \in Requests |-> Status(pc[q])]'
            = [[q \in Requests |-> Status(pc[q])] EXCEPT ![r] = "open"]
      BY <1>1, <2>4
    <2>7. /\ [q \in Requests |-> IF Settled(q) THEN code[q] ELSE "none"]'
               = [q \in Requests |-> IF Settled(q) THEN code[q] ELSE "none"]
          /\ [q \in Requests |-> IF Settled(q) THEN body[q] ELSE {}]'
               = [q \in Requests |-> IF Settled(q) THEN body[q] ELSE {}]
      BY <1>1, <1>4, <2>5
    <2>8. Store!Submit(r)
      BY <1>3, <2>1, <2>4, <2>6, <2>7 DEF Store!Submit
    <2> QED
      BY <1>2, <2>3, <2>8 DEF PartInv
  <1>6. CASE Reply(r)
    <2>1. pc[r] = "reply" /\ pc'[r] = "answered" /\ UNCHANGED op
      BY <1>6 DEF Reply, Goto, IndInv, TypeOK
    <2>2. AnswerInv'
      BY <1>1, <2>1, AnswerStays DEF PartInv, Unanswered, Statements, Committing
    <2>3. Status(pc[r]) = "decided" /\ Status(pc'[r]) = "answered"
      BY <2>1, StatusOf DEF PCs, InFlight
    <2>4. Settled(r) /\ Settled(r)'
      BY <2>1 DEF Settled
    <2>5. [q \in Requests |-> Status(pc[q])]'
            = [[q \in Requests |-> Status(pc[q])] EXCEPT ![r] = "answered"]
      BY <1>1, <2>3
    <2>6. /\ [q \in Requests |-> IF Settled(q) THEN code[q] ELSE "none"]'
               = [q \in Requests |-> IF Settled(q) THEN code[q] ELSE "none"]
          /\ [q \in Requests |-> IF Settled(q) THEN body[q] ELSE {}]'
               = [q \in Requests |-> IF Settled(q) THEN body[q] ELSE {}]
      BY <1>1, <1>4, <2>4
    <2>7. Store!Reply(r)
      BY <1>3, <2>1, <2>3, <2>5, <2>6 DEF Store!Reply
    <2> QED
      BY <1>2, <2>2, <2>7 DEF PartInv
  <1> QED
    BY <1>5, <1>6

\* The death of the process.
LEMMA CrashStep ==
    ASSUME IndInv, PartInv, Crash
    PROVE  PartInv' /\ Store!Crash
  <1>1. /\ UNCHANGED <<db, op, code, body>> /\ writer' = Null
        /\ pc' = [r \in Requests |-> IF pc[r] \in InFlight THEN "lost" ELSE pc[r]]
    BY DEF Crash
  <1>2. EffectInv'
    BY <1>1, Sentinels DEF EffectInv
  <1>3. \A r \in Requests : pc'[r] # "reading" /\ (pc'[r] \in Unanswered => pc'[r] = pc[r])
    BY <1>1 DEF InFlight, Unanswered, RetryLoop, Statements, Committing
  <1>4. AnswerInv'
    BY <1>1, <1>3 DEF PartInv, AnswerInv
  <1>5. \A r \in Requests :
           /\ pc[r] \in InFlight <=> Status(pc[r]) \in {"open", "decided"}
           /\ Status(pc'[r]) = IF pc[r] \in InFlight THEN "lost" ELSE Status(pc[r])
    <2> TAKE r \in Requests
    <2>1. pc[r] \in PCs /\ "lost" \in PCs
      BY DEF IndInv, TypeOK, PCs
    <2>2. Status("lost") = "lost"
      BY <2>1, StatusOf
    <2>3. pc[r] \in InFlight <=> pc[r] \notin {"idle", "answered", "lost"}
      BY <2>1 DEF PCs, InFlight, RetryLoop, Statements, Committing
    <2>4. pc[r] \in InFlight <=> Status(pc[r]) \in {"open", "decided"}
      BY <2>1, <2>3, StatusOf
    <2> QED
      BY <1>1, <2>2, <2>4
  <1>6. \A r \in Requests : Settled(r)' <=> Settled(r) /\ pc[r] \notin InFlight
    BY <1>1 DEF Settled, InFlight, RetryLoop
  <1>7. UNCHANGED Store!store
    BY <1>1 DEF Store!store, Live, OwnerIn
  <1>8. Store!Crash
    <2> DEFINE dead == {r \in Requests :
                          [q \in Requests |-> Status(pc[q])][r] \in {"open", "decided"}}
    <2>1. \A r \in Requests : r \in dead <=> pc[r] \in InFlight
      BY <1>5
    <2> HIDE DEF dead
    <2>2. [r \in Requests |-> Status(pc[r])]'
            = [r \in Requests |-> IF r \in dead THEN "lost"
                                  ELSE [q \in Requests |-> Status(pc[q])][r]]
      BY <1>5, <2>1
    <2>3. [r \in Requests |-> IF Settled(r) THEN code[r] ELSE "none"]'
            = [r \in Requests |-> IF r \in dead THEN "none"
                 ELSE [q \in Requests |-> IF Settled(q) THEN code[q] ELSE "none"][r]]
      BY <1>1, <1>6, <2>1
    <2>4. [r \in Requests |-> IF Settled(r) THEN body[r] ELSE {}]'
            = [r \in Requests |-> IF r \in dead THEN {}
                 ELSE [q \in Requests |-> IF Settled(q) THEN body[q] ELSE {}][r]]
      BY <1>1, <1>6, <2>1
    <2> QED
      BY <1>1, <1>7, <2>2, <2>3, <2>4 DEF Store!Crash, dead
  <1> QED
    BY <1>2, <1>4, <1>8 DEF PartInv

\* Time, the end of an instance and stuttering.
LEMMA QuietStep ==
    ASSUME IndInv, PartInv, Elapse \/ Done \/ UNCHANGED vars
    PROVE  PartInv' /\ UNCHANGED Store!vars
  <1>1. UNCHANGED <<db, work, writer, pc, op, code, body>>
    BY DEF Elapse, Done, vars
  <1>2. EffectInv'
    BY <1>1, EffectStays DEF PartInv
  <1>3. AnswerInv'
    BY <1>1 DEF PartInv, AnswerInv
  <1>4. \A q \in Requests : Settled(q)' <=> Settled(q)
    BY <1>1 DEF Settled
  <1> QED
    BY <1>1, <1>2, <1>3, <1>4, StoreStays DEF PartInv

\* Every step of the database is a step of the store, or one that it does not see.
LEMMA StepSimulates ==
    ASSUME FullInv, [Next]_vars
    PROVE  FullInv' /\ [Store!Next]_(Store!vars)
  <1>1. IndInv /\ PartInv /\ IndInv'
    BY NextPreserves DEF FullInv, PartInv
  <1>2. ASSUME NEW r \in Requests, Arrive(r) \/ Step(r)
        PROVE  PartInv' /\ [Store!Next]_(Store!vars)
    BY <1>1, <1>2, StatementStep, CommitStep, ClosingStep, RetryStep, ReadStep, EndsStep
       DEF Step, Transact, Store!Next
  <1>3. ASSUME Crash
        PROVE  PartInv' /\ [Store!Next]_(Store!vars)
    BY <1>1, <1>3, CrashStep DEF Store!Next
  <1>4. ASSUME Elapse \/ Done \/ UNCHANGED vars
        PROVE  PartInv' /\ [Store!Next]_(Store!vars)
    BY <1>1, <1>4, QuietStep
  <1> QED
    BY <1>1, <1>2, <1>3, <1>4 DEF Next, FullInv, PartInv

\* A new file is an empty store.
LEMMA InitSimulates ==
    ASSUME Init
    PROVE  FullInv /\ Store!Init
  <1>1. IndInv
    BY InitInvariant
  <1>2. /\ db = EmptyDB /\ writer = Null /\ op = [r \in Requests |-> Null]
        /\ \A r \in Requests : pc[r] = "idle" /\ body[r] = {}
    BY DEF Init
  <1>3. EffectInv /\ AnswerInv
    BY <1>2, Sentinels DEF EffectInv, AnswerInv
  <1>4. Live(db) = {} /\ \A a \in Agents : OwnerIn(db, a) = NoRow /\ db.plugin[a] = NoRow
    BY <1>2, Sentinels DEF EmptyDB, Live, OwnerIn
  <1>5. db.plugin = [a \in Agents |-> NoRow]
    BY <1>2 DEF EmptyDB
  <1>6. \A r \in Requests : Status(pc[r]) = "idle" /\ ~ Settled(r)
    BY <1>2, StatusOf DEF PCs, Settled
  <1>7. Store!Init
    BY <1>2, <1>4, <1>5, <1>6 DEF Store!Init
  <1> QED
    BY <1>1, <1>3, <1>7 DEF FullInv

-----------------------------------------------------------------------------
\* What a transaction has done is its part of the effect of its operation.
THEOREM FullInvariant == Spec => []FullInv
  BY InitSimulates, StepSimulates, PTL DEF Spec

\* The database implements the store.
THEOREM Refinement == Spec => ImplementsStore
  <1>1. Init => Store!Init
    BY InitSimulates
  <1>2. FullInv /\ [Next]_vars => [Store!Next]_(Store!vars)
    BY StepSimulates
  <1> QED
    BY <1>1, <1>2, FullInvariant, PTL DEF Spec, ImplementsStore, Store!Spec

\* Only a COMMIT changes the committed tables, and it makes them what the store says.
LEMMA OnlyCommits ==
    ASSUME FullInv, [Next]_vars
    PROVE  \/ UNCHANGED db
           \/ \E r \in Requests : /\ pc[r] = "pending" /\ code'[r] = "ok" /\ op[r] \in Ops
                                  /\ Effect(op[r], "pending", db')
  <1>1. CASE \E r \in Requests : Commit(r)
    BY <1>1, CommitEffect DEF FullInv
  <1>2. CASE ~ \E r \in Requests : Commit(r)
    BY <1>2 DEF Next, Step, Transact, Arrive, Reset, Begin, NextBackOff, StartRead,
                StartReadFails, FinishRead, Reply, StatementFails, Rollback, CommitPending,
                CommitFails, InsertClusterMetadata, UpdateClusterMetadata, DeleteClusterAgents,
                DeleteClusterMetadata, AddAgents, AddMembers, CreateAgentEntry, Execute,
                PostFails, Elapse, Crash, Done, vars
  <1> QED
    BY <1>1, <1>2

\* An agent leaves a cluster only when an edit or a delete of that cluster commits.
THEOREM LeavesOwnOnly == Spec => LeavesOnlyItsOwnCluster
  <1>1. ASSUME FullInv, [Next]_vars, NEW a \in Agents,
               OwnerIn(db, a) # NoRow, OwnerIn(db', a) # OwnerIn(db, a)
        PROVE  \E r \in Requests : /\ pc[r] = "pending" /\ code'[r] = "ok"
                                   /\ op[r].kind \in {"edit", "delete"}
                                   /\ op[r].name = OwnerIn(db, a)
    <2>1. PICK r \in Requests : /\ pc[r] = "pending" /\ code'[r] = "ok" /\ op[r] \in Ops
                                /\ Effect(op[r], "pending", db')
      BY <1>1, OnlyCommits
    <2>2. /\ Store!Accepts(op[r])
          /\ OwnerIn(db', a) = Store!OwnerAfter(op[r])[a]
      BY <2>1 DEF Effect
    <2>3. FreedOwner(op[r], a) # OwnerIn(db, a)
      BY <1>1, <2>1, <2>2, StoreEffect, StoreAccepts
    <2> QED
      BY <2>1, <2>3 DEF FreedOwner
  <1>2. FullInv /\ [Next]_vars =>
          [\A a \in Agents :
             LET n == OwnerIn(db, a)
             IN  n # NoRow /\ OwnerIn(db', a) # n =>
                     \E r \in Requests : /\ pc[r] = "pending" /\ code'[r] = "ok"
                                         /\ op[r].kind \in {"edit", "delete"}
                                         /\ op[r].name = n]_vars
    BY <1>1
  <1> QED
    BY <1>2, FullInvariant, PTL DEF Spec, LeavesOnlyItsOwnCluster

\* The plugin of an agent changes only when a registration of that agent commits.
THEOREM PluginRegistered == Spec => PluginOnlyByRegistration
  <1>1. ASSUME FullInv, [Next]_vars, NEW a \in Agents,
               db.plugin[a] # NoRow, db'.plugin[a] # db.plugin[a]
        PROVE  \E r \in Requests : /\ pc[r] = "pending" /\ code'[r] = "ok"
                                   /\ op[r].kind = "define" /\ op[r].agent = a
    <2>1. PICK r \in Requests : /\ pc[r] = "pending" /\ code'[r] = "ok" /\ op[r] \in Ops
                                /\ Effect(op[r], "pending", db')
      BY <1>1, OnlyCommits
    <2>2. db'.plugin[a] = Store!PluginAfter(op[r])[a]
      BY <2>1 DEF Effect
    <2> QED
      BY <1>1, <2>1, <2>2, StoreEffect
  <1>2. FullInv /\ [Next]_vars =>
          [\A a \in Agents :
             db.plugin[a] # NoRow /\ db'.plugin[a] # db.plugin[a] =>
                 \E r \in Requests : /\ pc[r] = "pending" /\ code'[r] = "ok"
                                     /\ op[r].kind = "define" /\ op[r].agent = a]_vars
    BY <1>1
  <1> QED
    BY <1>2, FullInvariant, PTL DEF Spec, PluginOnlyByRegistration
=============================================================================
