------------------------------ MODULE AgentDB ------------------------------
(***************************************************************************)
(* The agent database as pkg/agent/db implements it: three SQLite tables,  *)
(* one transaction per cluster operation built statement by statement by   *)
(* the helpers of sqlite_txhelpers.go, rolled back on the first error, and *)
(* run again under one backoff that all handlers share (retryOp).          *)
(*                                                                         *)
(* Each request runs in the goroutine of its HTTP handler; pc names the    *)
(* call it makes next.  SQLite (rollback journal, one connection per open  *)
(* transaction) is external: the first statement of a transaction takes    *)
(* the RESERVED lock and works on private pages, other connections read    *)
(* the committed pages meanwhile, COMMIT first shuts new readers out and   *)
(* then waits for the ones that are reading.  Whoever waits longer than    *)
(* the busy timeout gets SQLITE_BUSY.  A death of the process leaves the   *)
(* committed pages.                                                        *)
(***************************************************************************)
EXTENDS AgentDBOps

CONSTANTS
    MaxClusterId,  \* the largest row id of table clusters
    MaxCrashes,    \* bound: how often the server dies
    IOFaults       \* TRUE: the storage may fail with nobody in the way

ASSUME AgentDBAssumption ==
    MaxClusterId \in Nat /\ MaxCrashes \in Nat /\ IOFaults \in BOOLEAN

VARIABLES
    db,       \* the committed tables
    work,     \* the tables as each request's open transaction sees them
    writer,   \* the request whose transaction holds RESERVED, or Null
    pc,       \* the call each request makes next
    op,       \* the operation each request asks for
    code,     \* what each request is answered
    body,     \* the rows each read is answered
    elapsed,  \* the shared backoff has run past MaxElapsedTime
    crashes   \* how often the server has died

vars == <<db, work, writer, pc, op, code, body, elapsed, crashes>>

-----------------------------------------------------------------------------
(***************************************************************************)
(* Tables.  Agent rows are never deleted, so an agent stands for its row   *)
(* id.  Cluster rows have AUTOINCREMENT ids: seq is the last one given     *)
(* out, and an id never names a second row.                                *)
(***************************************************************************)
ClusterIds == 1..MaxClusterId

DBs == [plugin  : [Agents -> Plugins \cup {Null, NoRow}],      \* agents
        name    : [ClusterIds -> Names \cup {NoRow}],          \* clusters
        member  : [Agents -> ClusterIds \cup {Null, NoRow}],   \* cluster_memberships
        seq     : 0..MaxClusterId]

EmptyDB == [plugin |-> [a \in Agents |-> NoRow],
            name   |-> [i \in ClusterIds |-> NoRow],
            member |-> [a \in Agents |-> NoRow],
            seq    |-> 0]

Live(d) == {d.name[i] : i \in ClusterIds} \ {NoRow}

\* (SELECT id FROM clusters WHERE name=n)
IdOf(d, n) == IF n \in Live(d) THEN CHOOSE i \in ClusterIds : d.name[i] = n
              ELSE Null

\* The cluster name a LEFT JOIN finds for an agent.
OwnerIn(d, a) == IF d.member[a] \in ClusterIds THEN d.name[d.member[a]] ELSE NoRow

MembersIn(d, n) == {a \in Agents : n # NoRow /\ OwnerIn(d, a) = n}

-----------------------------------------------------------------------------
(***************************************************************************)
(* The statements: what each leaves in the tables when it succeeds.        *)
(***************************************************************************)
InsertCluster(d, n) ==
    [d EXCEPT !.name = [d.name EXCEPT ![d.seq + 1] = n], !.seq = d.seq + 1]

RenameCluster(d, n, m) ==
    [d EXCEPT !.name = [i \in ClusterIds |-> IF d.name[i] = n THEN m ELSE d.name[i]]]

\* Mutant: table clusters without UNIQUE (name).
RenameClashesNever(d, n, m) == FALSE

RenameClashes(d, n, m) == n # m /\ {n, m} \subseteq Live(d)

\* No membership equals a NULL cluster id.
DeleteMembers(d, n) ==
    [d EXCEPT !.member = [a \in Agents |->
        IF n \in Live(d) /\ d.member[a] = IdOf(d, n) THEN NoRow ELSE d.member[a]]]

\* Mutant: the row is kept and its name blanked.
BlankCluster(d, n) ==
    [d EXCEPT !.name = [i \in ClusterIds |-> IF d.name[i] = n THEN Null ELSE d.name[i]]]

DeleteCluster(d, n) ==
    [d EXCEPT !.name = [i \in ClusterIds |-> IF d.name[i] = n THEN NoRow ELSE d.name[i]]]

\* Mutant: INSERT OR REPLACE instead of INSERT OR IGNORE.
ReplaceAgents(d, list) ==
    [d EXCEPT !.plugin = [a \in Agents |->
        IF a \in Listed(list) THEN Null ELSE d.plugin[a]]]

InsertAgents(d, list) ==
    [d EXCEPT !.plugin = [a \in Agents |->
        IF a \in Listed(list) /\ d.plugin[a] = NoRow THEN Null ELSE d.plugin[a]]]

\* Mutant: INSERT OR REPLACE instead of INSERT OR ABORT.
MembershipNeverClashes(d, list) == FALSE

MembershipClashes(d, list) ==
    Repeats(list) \/ \E a \in Listed(list) : d.member[a] # NoRow

InsertMembers(d, list, n) ==
    [d EXCEPT !.member = [a \in Agents |->
        IF a \in Listed(list) THEN IdOf(d, n) ELSE d.member[a]]]

UpsertAgent(d, a, p) == [d EXCEPT !.plugin[a] = p]

-----------------------------------------------------------------------------
(***************************************************************************)
(* What the reads return of the committed tables.                          *)
(***************************************************************************)
GetClusters(d) ==
    {[name |-> n, agents |-> MembersIn(d, n)] : n \in Live(d)}

GetAgentSelectors(d) ==
    {[agent |-> a, plugin |-> d.plugin[a]] :
        a \in {b \in Agents : d.plugin[b] \notin {NoRow, Null}}}

GetAgentsMetadata(d, agents) ==
    {[agent |-> a, plugin |-> d.plugin[a], cluster |-> OwnerIn(d, a)] :
        a \in {b \in Agents : d.plugin[b] # NoRow /\ (agents = {} \/ b \in agents)}}

ListRows(d, o) ==
    CASE o.kind = "clusters"  -> GetClusters(d)
      [] o.kind = "selectors" -> GetAgentSelectors(d)
      [] o.kind = "agents"    -> GetAgentsMetadata(d, o.agents)

GetClusterAgents(d, n) ==
    IF n \in Live(d) THEN <<"ok", MembersIn(d, n)>> ELSE <<"GetError", {}>>

\* Mutant: the NULL of an agent without a cluster is returned as a name.
GetAgentClusterNameOrNull(d, a) ==
    IF d.plugin[a] # NoRow THEN <<"ok", {OwnerIn(d, a)}>> ELSE <<"GetError", {}>>

\* An agent with no row and an agent with no membership both get a GetError.
GetAgentClusterName(d, a) ==
    IF d.plugin[a] # NoRow /\ OwnerIn(d, a) # NoRow
    THEN <<"ok", {OwnerIn(d, a)}>> ELSE <<"GetError", {}>>

\* A NULL plugin cannot be scanned into a string.
GetAgentPluginInfo(d, a) ==
    IF d.plugin[a] = NoRow THEN <<"GetError", {}>>
    ELSE IF d.plugin[a] = Null THEN <<"SQLError", {}>>
    ELSE <<"ok", {d.plugin[a]}>>

RowAnswer(d, o) ==
    CASE o.kind = "clusterAgents" -> GetClusterAgents(d, o.name)
      [] o.kind = "agentCluster"  -> GetAgentClusterName(d, o.agent)
      [] o.kind = "pluginInfo"    -> GetAgentPluginInfo(d, o.agent)

-----------------------------------------------------------------------------
(***************************************************************************)
(* Where a request can be.                                                 *)
(***************************************************************************)
Statements == {"insertCluster", "updateCluster", "deleteMembers",
               "deleteCluster", "addAgents", "addMembers", "upsert"}
Committing == {"commit", "pending"}
RetryLoop  == {"begin", "rollback", "backoff"} \cup Statements \cup Committing
InFlight   == {"reset", "read", "reading", "reply"} \cup RetryLoop
PCs        == {"idle", "answered", "lost"} \cup InFlight

Goto(r, label) == pc' = [pc EXCEPT ![r] = label]

\* SHARED is refused while some COMMIT waits for the readers.
ReadersShutOut == \E q \in Requests : pc[q] = "pending"

Readers == {q \in Requests : pc[q] = "reading"}

\* Nobody else writes: r has RESERVED, or its next statement takes it.
CanWrite(r) == writer \in {r, Null}

\* What r's next statement works on: the committed tables when it is the
\* first of its transaction.
Pages(r) == IF writer = r THEN work[r] ELSE db

\* A statement, a COMMIT or a read fails: somebody kept a lock for longer than
\* the busy timeout, or the storage is at fault.
Trouble(contended) == contended \/ IOFaults

-----------------------------------------------------------------------------
Init ==
    /\ db = EmptyDB
    /\ work = [r \in Requests |-> EmptyDB]
    /\ writer = Null
    /\ pc = [r \in Requests |-> "idle"]
    /\ op = [r \in Requests |-> Null]
    /\ code = [r \in Requests |-> "none"]
    /\ body = [r \in Requests |-> {}]
    /\ elapsed = FALSE
    /\ crashes = 0

\* A handler calls the database.
Arrive(r) ==
    /\ pc[r] = "idle"
    /\ \E o \in Ops :
        /\ op' = [op EXCEPT ![r] = o]
        /\ Goto(r, CASE o.kind \in ClusterKinds -> "reset"
                    [] o.kind = "define" -> "upsert"
                    [] o.kind \in ListKinds \cup RowKinds -> "read")
    /\ UNCHANGED <<db, work, writer, code, body, elapsed, crashes>>

\* backoff.Retry resets the backoff, which is the one of every other handler.
Reset(r) ==
    /\ pc[r] = "reset"
    /\ elapsed' = FALSE
    /\ Goto(r, "begin")
    /\ UNCHANGED <<db, work, writer, op, code, body, crashes>>

\* Mutant: deleteClusterEntryOp without its deleteClusterAgents call.
BeginAtMetadata(r) ==
    /\ pc[r] = "begin"
    /\ Goto(r, CASE op[r].kind = "create" -> "insertCluster"
                 [] op[r].kind = "edit"   -> "updateCluster"
                 [] op[r].kind = "delete" -> "deleteCluster")
    /\ UNCHANGED <<db, work, writer, op, code, body, elapsed, crashes>>

\* BEGIN is deferred and takes no lock.
Begin(r) ==
    /\ pc[r] = "begin"
    /\ \/ Goto(r, CASE op[r].kind = "create" -> "insertCluster"
                    [] op[r].kind = "edit"   -> "updateCluster"
                    [] op[r].kind = "delete" -> "deleteMembers")
       \/ Trouble(FALSE) /\ Goto(r, "backoff")
    /\ UNCHANGED <<db, work, writer, op, code, body, elapsed, crashes>>

\* A statement of r succeeds and leaves the tables d.
Execute(r, d, next) ==
    /\ CanWrite(r)
    /\ writer' = r
    /\ work' = [work EXCEPT ![r] = d]
    /\ Goto(r, next)
    /\ UNCHANGED <<db, op, code, body, elapsed, crashes>>

\* A constraint, or the number of rows, says no.  RESERVED is held until the
\* rollback.
PostFails(r) ==
    /\ CanWrite(r)
    /\ writer' = r
    /\ work' = [work EXCEPT ![r] = Pages(r)]
    /\ code' = [code EXCEPT ![r] = "PostFailure"]
    /\ Goto(r, "rollback")
    /\ UNCHANGED <<db, op, body, elapsed, crashes>>

InsertClusterMetadata(r) ==
    /\ pc[r] = "insertCluster"
    /\ IF op[r].name \in Live(Pages(r))
       THEN PostFails(r)
       ELSE /\ Pages(r).seq < MaxClusterId
            /\ Execute(r, InsertCluster(Pages(r), op[r].name), "addAgents")

UpdateClusterMetadata(r) ==
    /\ pc[r] = "updateCluster"
    /\ LET n == op[r].name
           m == op[r].editedName
       IN  IF RenameClashes(Pages(r), n, m) \/ n \notin Live(Pages(r))
           THEN PostFails(r)
           ELSE Execute(r, RenameCluster(Pages(r), n, m), "deleteMembers")

\* Mutant: the cluster is looked up under the name it had before the rename.
DeleteOldNameAgents(r) ==
    /\ pc[r] = "deleteMembers"
    /\ Execute(r, DeleteMembers(Pages(r), op[r].name),
               IF op[r].kind = "edit" THEN "addAgents" ELSE "deleteCluster")

DeleteClusterAgents(r) ==
    /\ pc[r] = "deleteMembers"
    /\ Execute(r, DeleteMembers(Pages(r), Target(op[r])),
               IF op[r].kind = "edit" THEN "addAgents" ELSE "deleteCluster")

DeleteClusterMetadata(r) ==
    /\ pc[r] = "deleteCluster"
    /\ IF op[r].name \notin Live(Pages(r))
       THEN PostFails(r)
       ELSE Execute(r, DeleteCluster(Pages(r), op[r].name), "commit")

\* addAgentBatchToCluster, first statement; an empty list executes none.
AddAgents(r) ==
    /\ pc[r] = "addAgents"
    /\ IF op[r].list = <<>>
       THEN Execute(r, Pages(r), "commit")
       ELSE Execute(r, InsertAgents(Pages(r), op[r].list), "addMembers")

\* addAgentBatchToCluster, second statement.
AddMembers(r) ==
    /\ pc[r] = "addMembers"
    /\ IF MembershipClashes(Pages(r), op[r].list)
       THEN PostFails(r)
       ELSE Execute(r, InsertMembers(Pages(r), op[r].list, Target(op[r])), "commit")

\* CreateAgentEntry: one statement in a transaction of its own.
CreateAgentEntry(r) ==
    /\ pc[r] = "upsert"
    /\ Execute(r, UpsertAgent(Pages(r), op[r].agent, op[r].plugin), "commit")

\* A statement returns SQLError: the lock was not to be had, the table is out
\* of ids, or the storage failed.  The upsert has no transaction to roll back.
StatementFails(r) ==
    /\ pc[r] \in Statements
    /\ pc[r] = "addAgents" => op[r].list # <<>>
    /\ Trouble(\/ ~ CanWrite(r)
               \/ pc[r] = "insertCluster" /\ Pages(r).seq = MaxClusterId)
    /\ code' = [code EXCEPT ![r] = "SQLError"]
    /\ Goto(r, IF pc[r] = "upsert" THEN "reply" ELSE "rollback")
    /\ UNCHANGED <<db, work, writer, op, body, elapsed, crashes>>

\* The connection of r gives up its transaction.
EndTransaction(r) ==
    /\ writer' = IF writer = r THEN Null ELSE writer
    /\ work' = [work EXCEPT ![r] = EmptyDB]

\* Mutant: the error is returned without tx.Rollback().
ReturnWithoutRollback(r) ==
    /\ pc[r] = "rollback"
    /\ Goto(r, "reply")
    /\ UNCHANGED <<db, work, writer, op, code, body, elapsed, crashes>>

\* rollbackHandler.  The error is marked permanent: retryOp returns it.
Rollback(r) ==
    /\ pc[r] = "rollback"
    /\ EndTransaction(r)
    /\ Goto(r, "reply")
    /\ UNCHANGED <<db, op, code, body, elapsed, crashes>>

\* COMMIT, first half: no reader may start any more.
CommitPending(r) ==
    /\ pc[r] = "commit"
    /\ Goto(r, "pending")
    /\ UNCHANGED <<db, work, writer, op, code, body, elapsed, crashes>>

\* COMMIT, second half: the readers are gone and the pages are written.
Commit(r) ==
    /\ pc[r] = "pending"
    /\ Readers = {}
    /\ db' = work[r]
    /\ EndTransaction(r)
    /\ code' = [code EXCEPT ![r] = "ok"]
    /\ Goto(r, "reply")
    /\ UNCHANGED <<op, body, elapsed, crashes>>

\* COMMIT fails; the driver rolls back.  retryOp may run the operation again;
\* the upsert is not retried.
CommitFails(r) ==
    /\ pc[r] = "pending"
    /\ Trouble(Readers # {})
    /\ EndTransaction(r)
    /\ IF op[r].kind = "define"
       THEN code' = [code EXCEPT ![r] = "SQLError"] /\ Goto(r, "reply")
       ELSE UNCHANGED code /\ Goto(r, "backoff")
    /\ UNCHANGED <<db, op, body, elapsed, crashes>>

(***************************************************************************)
(* NextBackOff of the shared ExponentialBackOff, which nothing guards: when *)
(* another handler is resetting it, what is read may be old, new or torn.  *)
(***************************************************************************)
ResetRaces(r) == \E q \in Requests \ {r} : pc[q] = "reset"

\* Mutant: every attempt resets the backoff.
AlwaysRetry(r) ==
    /\ pc[r] = "backoff"
    /\ Goto(r, "begin")
    /\ UNCHANGED <<db, work, writer, op, code, body, elapsed, crashes>>

NextBackOff(r) ==
    /\ pc[r] = "backoff"
    /\ \/ /\ ~ elapsed \/ ResetRaces(r)
          /\ Goto(r, "begin")
          /\ UNCHANGED code
       \/ /\ elapsed \/ ResetRaces(r)
          /\ code' = [code EXCEPT ![r] = "txError"]
          /\ Goto(r, "reply")
    /\ UNCHANGED <<db, work, writer, op, body, elapsed, crashes>>

\* A second has passed since the last reset.
Elapse ==
    /\ ~ elapsed
    /\ \E r \in Requests : pc[r] \in RetryLoop
    /\ elapsed' = TRUE
    /\ UNCHANGED <<db, work, writer, pc, op, code, body, crashes>>

-----------------------------------------------------------------------------
\* The first row of a read: SHARED is held from here on, the committed tables
\* do not change until it is given back.
StartRead(r) ==
    /\ pc[r] = "read"
    /\ ~ ReadersShutOut
    /\ LET answer == IF op[r].kind \in ListKinds
                     THEN <<"ok", ListRows(db, op[r])>> ELSE RowAnswer(db, op[r])
       IN  /\ code' = [code EXCEPT ![r] = answer[1]]
           /\ body' = [body EXCEPT ![r] = answer[2]]
    /\ Goto(r, "reading")
    /\ UNCHANGED <<db, work, writer, op, elapsed, crashes>>

\* The first row cannot be had.  On a connection that has yet to read the
\* schema, every read returns the error; otherwise rows.Next() is FALSE, and a
\* list read, which does not ask rows.Err() why, returns no rows as a success.
StartReadFails(r) ==
    /\ pc[r] = "read"
    /\ Trouble(ReadersShutOut)
    /\ \E c \in {"SQLError"} \cup (IF op[r].kind \in ListKinds THEN {"ok"} ELSE {}) :
            code' = [code EXCEPT ![r] = c]
    /\ Goto(r, "reply")
    /\ UNCHANGED <<db, work, writer, op, body, elapsed, crashes>>

\* The last row has been scanned, or, for a list, the last one the storage
\* could give.
FinishRead(r) ==
    /\ pc[r] = "reading"
    /\ \/ UNCHANGED body
       \/ /\ Trouble(FALSE) /\ op[r].kind \in ListKinds
          /\ \E rows \in SUBSET body[r] : body' = [body EXCEPT ![r] = rows]
    /\ Goto(r, "reply")
    /\ UNCHANGED <<db, work, writer, op, code, elapsed, crashes>>

\* The handler writes its HTTP response.
Reply(r) ==
    /\ pc[r] = "reply"
    /\ Goto(r, "answered")
    /\ UNCHANGED <<db, work, writer, op, code, body, elapsed, crashes>>

\* The process dies and is started again on the same file, whose tables exist.
Crash ==
    /\ crashes < MaxCrashes
    /\ \E r \in Requests : pc[r] \in InFlight
    /\ crashes' = crashes + 1
    /\ pc' = [r \in Requests |-> IF pc[r] \in InFlight THEN "lost" ELSE pc[r]]
    /\ work' = [r \in Requests |-> EmptyDB]
    /\ writer' = Null
    /\ elapsed' = FALSE
    /\ UNCHANGED <<db, op, code, body>>

\* Every request of the instance has been served.
Done ==
    /\ \A r \in Requests : pc[r] \in {"answered", "lost"}
    /\ UNCHANGED vars

-----------------------------------------------------------------------------
Transact(r) ==
    \/ Begin(r) \/ InsertClusterMetadata(r) \/ UpdateClusterMetadata(r)
    \/ DeleteClusterAgents(r) \/ DeleteClusterMetadata(r) \/ AddAgents(r)
    \/ AddMembers(r) \/ CreateAgentEntry(r) \/ StatementFails(r) \/ Rollback(r)
    \/ CommitPending(r) \/ Commit(r) \/ CommitFails(r)

\* What the goroutine of r does once it has arrived.
Step(r) ==
    \/ Reset(r) \/ Transact(r) \/ NextBackOff(r)
    \/ StartRead(r) \/ StartReadFails(r) \/ FinishRead(r) \/ Reply(r)

Next ==
    \/ \E r \in Requests : Arrive(r) \/ Step(r)
    \/ Elapse
    \/ Crash
    \/ Done

Spec == Init /\ [][Next]_vars

\* No call waits for ever (the busy timeout is finite), and time passes.
Fairness ==
    /\ \A r \in Requests : WF_vars(Step(r))
    /\ WF_vars(Elapse)

FairSpec == Spec /\ Fairness
-----------------------------------------------------------------------------
(***************************************************************************)
(* Properties.                                                             *)
(***************************************************************************)

\* Every variable keeps its type.
TypeOK ==
    /\ db \in DBs
    /\ work \in [Requests -> DBs]
    /\ writer \in Requests \cup {Null}
    /\ pc \in [Requests -> PCs]
    /\ op \in [Requests -> Ops \cup {Null}]
    /\ code \in [Requests -> Codes]
    /\ DOMAIN body = Requests
    /\ elapsed \in BOOLEAN
    /\ crashes \in 0..MaxCrashes

\* The two foreign keys of cluster_memberships, which SQLite does not enforce
\* for this program: in the committed tables a membership joins an agent row
\* and a cluster row that exist.  It rests on the order of the statements of
\* each operation (deleteClusterEntryOp: "requires metadata still entered").
NoOrphanMembership ==
    \A a \in Agents : db.member[a] # NoRow =>
        /\ db.member[a] \in ClusterIds
        /\ db.name[db.member[a]] # NoRow
        /\ db.plugin[a] # NoRow

\* No two committed cluster rows share a name, whatever is created and renamed
\* concurrently: the name is what every other operation finds a cluster by.
NamesUnique ==
    \A i, j \in ClusterIds :
        db.name[i] = db.name[j] /\ db.name[i] # NoRow => i = j

\* Only a transaction in progress holds the write lock: every path out of an
\* operation, error or not, has committed or rolled back, or else all later
\* writes of the server would fail.
NoLeakedLock ==
    writer # Null => pc[writer] \in Statements \cup Committing \cup {"rollback"}

\* An agent leaves a cluster only when an edit or a delete of that very cluster
\* commits; no other operation, and no interleaving of them, takes it away.
LeavesOnlyItsOwnCluster ==
    [][\A a \in Agents :
        LET n == OwnerIn(db, a)
        IN  n # NoRow /\ OwnerIn(db', a) # n =>
                \E r \in Requests : /\ pc[r] = "pending" /\ code'[r] = "ok"
                                    /\ op[r].kind \in {"edit", "delete"}
                                    /\ op[r].name = n]_vars

\* The plugin recorded for an agent is changed by a registration of that agent
\* and by nothing else: cluster operations that list the agent leave it alone.
PluginOnlyByRegistration ==
    [][\A a \in Agents :
        db.plugin[a] # NoRow /\ db'.plugin[a] # db.plugin[a] =>
            \E r \in Requests : /\ pc[r] = "pending" /\ code'[r] = "ok"
                                /\ op[r].kind = "define" /\ op[r].agent = a]_vars

(***************************************************************************)
(* The database implements the store: a write takes effect whole at its    *)
(* COMMIT, a read shows one committed state, PostFailure means the store   *)
(* refuses the operation and has not changed, and an operation that runs   *)
(* again after a failed COMMIT has not run before.                         *)
(***************************************************************************)
Status(label) ==
    CASE label \in {"idle", "answered", "lost"} -> label
      [] label \in {"rollback", "reply"} -> "decided"
      [] OTHER -> "open"

Settled(r) == pc[r] \in {"rollback", "reply", "answered"}

Store == INSTANCE ClusterStore WITH
            clusters <- Live(db),
            owner    <- [a \in Agents |-> OwnerIn(db, a)],
            plugin   <- db.plugin,
            status   <- [r \in Requests |-> Status(pc[r])],
            code     <- [r \in Requests |-> IF Settled(r) THEN code[r] ELSE "none"],
            body     <- [r \in Requests |-> IF Settled(r) THEN body[r] ELSE {}]

\* The refinement as a property.
ImplementsStore == Store!Spec

\* "GetClusters outputs a list of ClusterInfo structs with information on
\* currently registered clusters" (sqlite.go:254): what it returns as a success
\* is what the tables hold.  It does not hold: the error that ends the rows
\* before the first one is never looked at.
ListsShowTheTables ==
    [][\A r \in Requests :
        pc[r] \in {"read", "reading"} /\ pc'[r] = "reply" /\ code'[r] = "ok"
        /\ op[r].kind = "clusters" => body'[r] = GetClusters(db)]_vars

\* Whatever the locks, the errors and the shared backoff do, every request that
\* arrives is answered, unless the server dies meanwhile.
EveryRequestServed ==
    \A r \in Requests : pc[r] \in InFlight ~> pc[r] \in {"answered", "lost"}
=============================================================================
