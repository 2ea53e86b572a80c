# Tornjak in TLA+

Tornjak is a control plane and UI for SPIRE. This directory models the Go
programs of the repository (`tornjak-backend` and `tornjak-manager`) and the pages of
the web UI, and checks and proves what they promise. Paths below are relative to `src/`.

- Run a model: `tlc -config <Run>.cfg <MCModule>` (the table under *Runs*).
- Check the proofs: `tlapm <Module>Proofs.tla`.

Contents: [the system](#the-system), [modules](#the-modules),
[runs](#runs), [fairness](#fairness), [proofs](#proofs),
[what the models found](#what-the-models-found),
[what is left out](#not-modelled-and-why), [plan](#plan).

## The system

```
 browser UI --HTTP--> tornjak-manager --HTTP--> tornjak-backend --gRPC--> SPIRE server
 (frontend/)          (api/manager,            (api/agent,      --HTTP-> Kubernetes API
                       pkg/manager)             pkg/agent)      --SQL--> agents.db
     \_____________________HTTP______________________^
```

| Component | State it keeps | Operations | With whom it interacts |
|---|---|---|---|
| Agent database, `pkg/agent/db` | tables `agents`, `clusters`, `cluster_memberships` in a SQLite file; one backoff object in memory | register an agent's plugin; create, edit, delete a cluster with its agents; six reads | called by HTTP handlers, each in its goroutine; SQLite locks between connections |
| Startup, `api/agent/config.go`, `HandleRequests` in `api/agent/server.go` | plugin slots of the `Server`, an error channel, the count of ports | verify, configure each plugin block, open listeners, wait for errors | two listener goroutines, a channel of two places |
| Authentication and authorization, `pkg/agent/authentication`, `pkg/agent/authorization` | the policy map; the JWKS cache (a library) | authenticate, authorize a request; build and validate the policy | called by the middleware; Keycloak for keys |
| Agent HTTP API, rest of `api/agent` | nothing beyond the `Server` | route, verify, decode, call, answer: 25 API calls | SPIRE, the database, Kubernetes |
| Manager, `api/manager`, `pkg/manager` | table `servers` in a SQLite file | list, register, delete backends; 17 proxied calls | backends over HTTP(S) |
| CRD federations, `pkg/agent/spirecrd` | none (Kubernetes holds it) | list and batch-create trust domains | Kubernetes API |
| Frontend: store and calls, `frontend/src/redux`, `components/tornjak-api-helpers.tsx`, `select-server.tsx` | one Redux store per tab, saved in sessionStorage | 21 actions; the requests that fill it; selecting a server | manager or backend over HTTP |
| Frontend: tables, `tables/`, `*-list.tsx` | rows and ticks | fetch, tick, delete, reload | the store and the calls |
| Frontend: forms, `entry-create*.tsx`, `cluster-*.tsx`, `federation-create.tsx`, `trustbundle-create.tsx`, `server-management.tsx`, `agent-create-join-token.tsx`, `work-load-attestor-modal.tsx` | the fields of each form, files being read, posts under way | type, choose, read a file, edit, submit | the store, the calls, FileReader |
| Frontend: navigation and health, `App.tsx`, `navbar.tsx`, `auth/`, `RenderOnAdminRole.tsx`, `spire-health-check.tsx` | the token, the roles in the store, timers | log in and out, render a page or refuse it, ask for SPIRE's health | Keycloak, the store |
| Frontend: dashboard, `components/dashboard`, `spiffe-helper.tsx`, `tornjak-helper.tsx` | the table and the details page shown | associate, count, show details | the store |
| `serverinfo` command, flags, build, charts, docs | none | | |

What is hard in each, and what makes it right:

- **Agent database.** Operations of two to four statements, interleaved on
  several connections, any statement of which can fail (SQLITE_BUSY, a
  constraint, the storage), followed by a rollback or by a retry under a backoff
  all handlers share and nobody locks. SQLite is opened without foreign key
  enforcement, so the joins rest on statement order. *Right* means: one atomic
  store, consistent joins, unique names, no lock left behind, no loss in a crash,
  every request answered.
- **Startup.** Plugin blocks may be repeated, refused or unknown; the https block
  may be unusable; goroutines report through a bounded channel to a loop that
  counts. *Right*: what is served is what was configured, nothing is in the clear
  beside HTTPS, nobody blocks on the channel, the process ends exactly when it
  serves nothing.
- **Authentication and authorization.** The policy is built block by block into
  nested maps and enforced by a middleware that only one of three routers
  carries. *Right*: exactly the entitled are served.
- **Agent HTTP API.** Calls to SPIRE without a deadline; answers lost after the
  fact; handlers that panic. *Right*: statuses tell what happened, no call is made
  twice, slow SPIRE calls hold up only themselves.
- **Manager.** A row is read, then the request is sent, while the registry
  changes; the table of proxied calls is kept by hand beside another server's
  router. *Right*: a request goes only where it was registered to go, and as
  something its target handles; secrets stay; registrations never overwrite.
- **Frontend.** A list is kept three times (backend, Redux store, rows of a table)
  and edited from snapshots that callbacks captured; answers arrive out of order or
  not at all; rows are identified by position. *Right*: what is reported deleted
  was, and does not come back; what is deleted was ticked; the list shown is the
  selected server's. A form's fields are typed, derived from one another, filled from
  files whose readers end in any order, and reset by answers, while the header changes
  the server under it. *Right*: what is posted is what is shown, to the server that is
  shown; what is reported is so. What the pages derive from several lists (parents,
  chart, tables, details) is derived again as each of them arrives. *Right*: the numbers
  agree and follow the lists. Roles outlive the session they came from; each change of
  the health check's rate starts a chain of timers that nothing stops. *Right*: pages
  are for whom the token names; the status is asked for at the rate that was set.
- **CRD federations.** Batches with one result per item; an item may be created and
  reported as failed; others write the same objects; one object that cannot be parsed
  makes every list an error. *Right*: a result is that of its item, what is reported
  created was created by it, and a list is an error or complete.

`PROJECT.json` lists every hazard at its line with the properties that watch it.

## The modules

```
AgentDBOps <- ClusterStore                        AgentRoutes <- ManagerServer <- ManagerServerProofs
     ^             ^ (refined by)                      ^               ^- MCManagerServer
     '-- AgentDB <- AgentDBInv <- AgentDBProofs   Authorization
                         ^- MCAgentDB                  ^------- AgentServer <- AgentServerProofs
ServerStartup <- ServerStartupProofs                                ^- MCAgentServer
     ^- MCServerStartup                           CRDFederation <--------'
                                                       ^- CRDFederationProofs
                                                  FrontendLists <- FrontendListsProofs
                                                       ^- MCFrontendLists
TornjakStore <- TornjakApi <- SelectServer <- EntryOptions
     ^               ^------- AgentForms
     '- EntryForm, EntryUpload, ClusterForms, ServerForms, HealthCheck, Navigation

WebUI: an instance of each of these pages, of FederationForms and of Dashboard
     ^- MCWebUI
     '- WebUIProofs <- WebUIFormsProofs
```

**AgentDBOps** has the requests the handlers pass to the database once their input
is validated, and the kinds of answers of `sqlite_errors.go`.

**ClusterStore** is the abstract specification of the database: `clusters`, the
`owner` of each agent and its `plugin`, on which each request takes effect at one
instant or is refused because the store, as it is at that instant, refuses it.
Failures of the storage engine change nothing.

**AgentDB** is the implementation. `db` are the committed pages, `work[r]` the
pages as the open transaction of request `r` sees them, `writer` who holds SQLite's
RESERVED lock, `pc[r]` the call `r` makes next. There is one action per statement
of `sqlite_txhelpers.go` and `sqlite.go`: `InsertClusterMetadata`,
`UpdateClusterMetadata`, `DeleteClusterAgents`, `DeleteClusterMetadata`,
`AddAgents` and `AddMembers` (the two statements of `addAgentBatchToCluster`),
`CreateAgentEntry`, then `CommitPending`/`Commit`/`CommitFails`, `Rollback`, and for
`retryOp` the actions `Reset`, `NextBackOff`, `Elapse`. A constraint violation goes
to `PostFails`, any other failure of a statement to `StatementFails`. Reads hold
SHARED from their first row (`StartRead`) to the last (`FinishRead`); a COMMIT
shuts new readers out and waits for the ones that are there. Row ids of clusters
are explicit, because an edit finds members by the id of the *new* name; an agent
stands for its row id, as agent rows are never deleted. `Crash` loses everything
but `db`.

**AgentDBInv** adds the inductive invariants, in terms of the tables and of the store, **AgentDBProofs** the theorems.

**ServerStartup** models `Configure` (one `ConfigurePlugin` per turn of the loop)
and `HandleRequests`: the three ways it opens listeners (`ListenPlain`,
`ListenFallback`, `ListenSecure`), the life of each goroutine
(`Bind`, `ListenAndServeReturns`, `Report`) and the loop that reads `numPorts`
errors (`ReadError`). Whether a plugin's constructor accepts its block is a bit of
the block.

**Authorization** is data and operators: the policy file, the map config.go builds of it
(`Put`, `AddBlock`), `ValidateInitParameters`, the Keycloak authenticator up to the
verification of the signature (a bit of the token), the RBAC decision, `AddBlock`, which is
one turn of the loop that makes the policy of the file, and `Entitled`, what the plugins' documents say a caller may do, written from the file
and not from the map.

**AgentRoutes** is the table of `GetRouter`, used by the backend and, from the
other side, by the manager.

**AgentServer** is the backend from its configuration on. `ReadBlock` adds one block of the
policy file to `policy` (`read` says how many are in it), and `Configure` validates it; only
then do requests arrive. A request's way is `Arrive` (the order of the
routers), `Preflight`, `Authenticate`, `Authorize` (`verificationMiddleware`),
`Decode`, then `Compute`, `DatabaseMissing`, or a call on a backend
(`CallFails`, `Carry`, `AnswerLost`, `CallReturns`) and `Encode`. The handlers are
alike in their control; a table says what each calls (`Backend`; the UI, the health check
and the first page call nothing) and whether an empty body will do. `map` gives these steps
the lines of one handler, agentBan, that the others repeat. `carried[r]` counts how often something outside acted for `r`. The database is
one step here: ClusterStore, which AgentDB implements, is what justifies that.

**CRDFederation** is what stands behind the CRD calls that AgentServer takes for one step.
`objects` are the objects of Kubernetes; a batch is `ReceiveBatch`, then for each item
`RefuseItem`, `CreateFails`, or `Create` followed by `CreateReturns` or `CreateAnswerLost`;
a list is one read, `List` or `ListFails`. `OthersCreate`, `OthersDelete` are other
clients of Kubernetes, `Crash` the end of the backend. A relationship is a text for its
trust domain, an endpoint and the kind of bundle it has; `Accepted`, `Written`, `Readable` are
the conversions: a bundle without authorities is accepted and written, and cannot be
read back. `made` and `owed` are history.

**ManagerServer** is the manager: `List`, `Register`, `Delete` are single
statements; a proxied call is `Lookup`, then `Unreachable` or `Reach`, then `PassOn`
or `AnswerLost`. `acted[r]` remembers the row a request inserted, deleted or was
carried out at. `ProxyRoutes` is the table of `HandleRequests`.

**FrontendLists** is a browser tab on the page of clusters, entries or agents, of a
manager (`app.manager`) or of one backend. `list` is the store's copy, `rows` the
table's, `ticked` the selection by row key, `calls` the requests under way, each with
what its callbacks captured (`snapshot`, and whose list it was, `origin`). The user
mounts a page (`Load`, `Revisit`), selects a server (`Select`), ticks (`Tick`) and
deletes (`Delete`); `ServeList`, `ServeDelete`, `CallFails`, `Others` are the backends
and the network; `ListArrives` and `DeletionArrives` run the callbacks, one disjunct
per way a deletion is dealt with (`LocalClusterDeleted`, `LocalEntriesDeleted`,
`ManagerDeleted`, `AgentsDeleted`, `DeletionFailed`). `Reload` is
`window.location.reload()`: callbacks are gone, the store comes back from
sessionStorage, requests may still be carried out. `from`, `told` and `gone` are
history. Clusters are deleted by one request each, entries by one for all, agents by
requests that are awaited together. Items are numbers in the order lists have them,
which is all that positions need.

The other pages of the UI share the modules of the store and its calls:

**TornjakStore** is the store as one record, `Dispatched` what a list of actions makes of
it, with an operator per action creator. A list or an info is represented by the backend it
came from, and `NoServer` when it is blank: whose data a page shows is what can go wrong.

**TornjakApi** has the calls that fill the store: a request is a member of `calls`, and
`Answered` is what its callbacks dispatch when it succeeds or fails, whenever that is.

**SelectServer** is the header: what it asks for, and the trust domain it derives from
whatever info is in the store at that moment.

**EntryForm** is the custom form of `entry-create.tsx`: the setters with what each derives
(`OnChangeSpiffeId`, `ParentChosen`, ...), the field for the expiry
(`entry-expiry-features.tsx`), `OnSubmit`, `OnYAMLEntryCreate`, and `PostReturns` with the
counts and messages that the answer's per-entry results make. `created` is history, and so
is `expiry.touched`: an expiry that nobody has touched posts the time the store has.

**EntryOptions** is the rest of that page: the parents it offers and the selectors it
recommends, made again in `componentDidUpdate` (`PreparedOn`) whenever a list of agents or
entries, or the debug info, arrives. A list that fails is `[]`, which the guards `!== undefined` let
through: the options are then made of an empty list, and the model treats it like a blank one. The header
asks for the agents of a server that is selected, and not for its entries, so agents of one
server do stand beside entries of another.

**EntryUpload** is the editor of uploaded files (`entry-create-json.tsx`). Arrays are
modelled with their identity, since an edit is made *in* the array that the store and the
component both refer to: `arrays` is the heap, a reference an index.

**ClusterForms** are `cluster-create.tsx` and `cluster-edit.tsx` with the clusters of each
backend (external): choosing a cluster, editing, submitting, deleting, refetching. A list
that fails empties the names that can be chosen; a deletion takes along the list of the
click (`Deletion`) and puts it back, without the cluster on a backend's tab, with it on a
manager's.

**FederationForms** are the page that fetches and saves this server's trust bundle and the
page that reads, edits and posts files like it; the files saved by the one are among those
that the other can pick. `upload.applied` is history: the URLs that were applied, by place. The
page posts to its own API whatever the header shows, so no server is part of it.

**ServerForms** registers backends: three files with a reader each, the boxes they are
picked under, the post and the refetched list, beside the manager's registry (external).
`picked` is history: the file picked last for each input, or those that were being read side
by side (`Picked`).

**AgentForms** are the join token's form and the modal that registers a workload attestor,
under a header that changes the server.

**Navigation** is a tab: `RenderApp` loads the page with a token or none, `NavigationMounts`
takes the token's roles into the store, and `Rendered`, `AccessNotAllowed` and `Links` are what
`App.tsx`, the guard and the bar make of them. `refused` is whether the refusal is shown: the
guard looks at the address when it is rendered itself, on a page load and on new roles, and
not when a link is followed; `Leave` is a login or a logout, `TokenRenewed`
Keycloak's renewal. The store survives all of them.

**HealthCheck** is the status in the sidebar: `timers` holds the delay each chain's pending
timer was started with, since a change of the rate starts a chain and stops none, and so
does choosing the same rate again.

**Dashboard** has the associations of `spiffe-helper.tsx` and `tornjak-helper.tsx` as
operators on lists, the numbers of chart and tables, and the details pages' filter as a
state machine of path, table and key, over `clusters`, `agents`, `entries` and `info` that
arrive and change at any time. `DashboardAssumption` says of lists what SPIRE
guarantees: no two agents, and no two entries, have one id, and an agent's id is not empty. It
says nothing of selectors: a workload may have those of an agent, and then the page of that
agent lists what is below the workload without counting it (`spiffe-helper.tsx:178`);
`NumbersAgree` says so in its one conditional part (`ParentsAreNodes`). `list.filter` is
`Kept`, a fold like the loops, as more can be proved of folds than of `SelectSeq`.

**WebUI** puts the pages beside each other. `page` is the page a behaviour is on, chosen by
`Init` together with the store it finds; the variables of the other pages are idle. Its
properties are those of the pages, each under the condition that the page is there.

**MCWebUI** is WebUI on small data. Pages with many fields are looked at in scenes, each
of which leaves the other fields alone (see *Bounds*): `MCNext` is `Next` with a restriction,
so what is proved of `WebUI!Spec` holds for every scene.

Operators marked *Mutant* are plausible bugs of the definition below them. No
specification uses them; each, put in that definition's place, violates a
property, which shows that the property depends on the code being right there.

## Runs

| Run | Module, cfg | States | Question and answer |
|---|---|---|---|
| `db_writes` | MCAgentDB, AgentDBWrites | 694k | Three concurrent writes of any kind, lock contention, busy COMMITs: the tables stay consistent, names unique, no lock leaks, agents leave only their own cluster, plugins change only by registration, and the whole implements ClusterStore. |
| `db_reads` | MCAgentDB, AgentDBReads | 622k | Reads among writes, storage faults, a crash: all of it implements ClusterStore, so a read shows one committed state and a crash loses nothing committed. |
| `db_live` | MCAgentDB, AgentDBLive | 547k | Every request is answered, or lost in a crash, although operations fail and start again under the shared backoff. |
| `db_lists` | MCAgentDB, AgentDBLists | - | *Violation*: a list that meets a pending COMMIT is empty and a success. |
| `startup` | MCServerStartup, ServerStartup | 7.5k | Every configuration of up to two plugin blocks, listeners that fail at any time. |
| `startup_doc` | MCServerStartup, ServerStartupDoc | - | *Violation*: an unusable https block puts the API in the clear. |
| `api` | MCAgentServer, AgentServer | 303k | Requests of each kind under the combinations of plugins and policies, two at once, while SPIRE may never answer: who is served, who refused, what statuses mean, and that every request that does not itself wait for SPIRE or Kubernetes ends, the health check, the UI, preflights and refusals too; and, in a scene of its own, batches and lists of trust domains beside others who write them. |
| `api_ui` | MCAgentServer, AgentServerUI | - | *Violation*: the UI handler panics on every request. |
| `manager` | MCManagerServer, ManagerServer | 420k | Three requests of the registry or proxied, restarts. |
| `fe_lists` | MCFrontendLists, FrontendLists | 3.7M | Answers late, lost and out of order: what is reported deleted was, a cluster so reported stays away, entries are deleted as ticked. |
| `fe_pages` | MCWebUI, WebUI | 1.6M | Sixteen scenes on the pages of the UI, the user acting between answers, files, timers and logins: what a form posts is what it shows, what a page says is so. |
| `fe_order` | MCFrontendLists, FrontendListsOrder | - | *Violation*: the list of the server selected before stays under the name of the one selected now. |

Bounds, and why they are enough:

- *Database.* Two names are what a rename onto a free or a taken name needs, two
  agents what a list that is half in conflict needs (`MCLists` has the empty list,
  one agent, both, and one twice). Three requests: one holds the lock, one waits,
  one prepared the tables they fight over, or resets the backoff. `MaxClusterId`
  bounds the ids AUTOINCREMENT gives out; a request that finds none left fails in
  `StatementFails`, as on a full table. In `db_writes` it is 3, so three creates
  succeed; with 2 in the runs that read, at most one of three is short of an id.
  `MaxCrashes` is 1: a second crash starts from tables like those after the first.
  `IOFaults` lets the storage fail with nobody in the way. Symmetry is over
  requests only, which are interchangeable, and only in runs without liveness.
- *Startup.* Two blocks are enough for a block to be refused after another was
  accepted, repeated or passed over; the theorems cover any list.
- *Agent API.* Requests share nothing but the immutable `Server`, so one request is
  enough for what is said of a request, and it may be any; what is said of requests
  holding each other up needs a second, and two requests at a time are among the few of
  `FewSent`, `FewCredentials` and `FewServers` (`Bounded`). `MCSent` has an API of each kind
  of backend, one with a required body, one validated, one wrong method, OPTIONS, the health check and the UI; `MCServers` has
  policies with repeated paths, overridden blocks, the empty role, undefined roles
  and APIs; credentials differ in soundness, audience and roles. A body
  cut short on its way (`"cut"`) and one that does not parse take the same branch.
- *CRD federations.* One request creates any of `MCBatches` (two items, refused, in two
  spellings, unreadable), another a relationship that the first one wants too, a third lists
  (`Parts`): two that fight over a name, and a reader. Others act twice, which is to delete
  what was created and to put something else in its place.
- *Manager.* Two names and two addresses are what confusing two backends takes;
  three requests are a registration, its deletion or another registration, and a
  proxied call in between. All 17 proxied calls are in.

- *Frontend.* `MaxTurns` bounds how often the tab sends requests or somebody else
  changes a backend; three turns are a page load, a deletion of several rows and the
  fetch after the reload, or a selection or somebody's change in place of one of
  them; a turn may send several requests. Two rows are what a position needs to be
  wrong, two servers what confusing two takes. Symmetry is over the servers, in runs
  without liveness.
- *Pages.* `fe_pages` has the tab of a manager and the tab of a backend, two servers
  (what taking one for the other needs) and one path. The scenes are:
  *entry ids*, *entry expiry*, *entry answers* (the ids, the expiry field, the answers of
  submissions; in the latter two one id is enough), *entry options*, *upload edits* (a file
  of two entries, any edit), *upload files* (two files of every kind, valid or not, read in
  any order), *cluster create*, *cluster edit* (two clusters, one backend of which changes),
  *sidebar* (three chains of timers, three rates, four requests), *bar* (no role, another
  role, an administrator's), *trust bundle*, *federation* (a file of one, of two with one
  that has no relationship, and one without JSON), *backends* (one name, a file and an
  empty file), *agents*, *dashboard numbers* (every store with two agents and three entries
  out of nodes, their children, workloads of each, a workload with an agent's selectors and
  one below it) and *dashboard views* (every path
  through the pages over smaller lists). A scene changes nothing in the modules: it
  leaves alone, in `MCWebUI`, what the question does not depend on. What it cannot find
  is something that takes two pages at once; only the store connects them, and
  `Init` of each page has the stores that others leave. `MaxChains`, `MaxChecks`, `MaxUploads`,
  `MaxReading`, `MaxPosts` cap the counters, none below the two that a race takes.

`CHECK_DEADLOCK` stays on but for the two runs of the frontend, where the user may stop: `Done` and
`Quiet` are enabled only when every request has been dealt with, or the process has
ended.

## Fairness

- *AgentDB*: weak fairness of each request's next step, since no call on SQLite
  waits longer than its busy timeout and goroutines are scheduled; and of `Elapse`,
  since time passes. Arrivals and crashes are not fair. The retries end because
  the backoff's clock runs out; that another handler may reset it for all is in the
  model, and the finite number of requests is what bounds it.
- *ServerStartup*: the main goroutine and a goroutine with an error to send keep
  running. Nothing makes a listener bind or fail.
- *AgentServer*: local steps and calls on the database are fair. Calls on SPIRE and
  Kubernetes are not: handlers make them under `context.Background()`.
- *CRDFederation* has none: Kubernetes is called under `context.TODO()`.
- *FrontendLists* and the modules of the pages have none: a user may stop, and an answer
  may never come.
- *ManagerServer* has none: `client.Do` has no timeout and no promise to hold it to.

## Proofs

Each `*Proofs` module proves, for all values of the constants, an inductive
invariant (`IndInv`, `FullInv`) in the usual three steps and the properties that follow.
The assumptions are the named `ASSUME`s of the modules, which TLC evaluates in
every run: sentinels differ from the values they stand beside
(`AgentDBOpsAssumption`, `NoInfoAssumption`), constants are of their kinds
(`AgentDBAssumption`, `PluginListsAssumption`, `AgentServerAssumption`,
`ProxiedAssumption`, `FrontendAssumption`). What is assumed of the constants of a page is
a definition of its module (`HealthAssumption`, `UploadAssumption`, ...), and `WebUIAssumption`
assumes all of them of the instances. None bounds a number of requests, names, agents or crashes.

- **AgentDBProofs.** `Invariant`, and from it `TypeCorrect`, `ForeignKeysHold`,
  `NamesStayUnique`, `LockReturned`; `FullInvariant`, and from it `Refinement`,
  `LeavesOwnOnly` and `PluginRegistered`. The safety properties speak of the committed
  tables only; a COMMIT installs the private ones, so the invariant carries
  `Consistent` for both (`ConsistentInv`), says that only the lock's holder has
  private pages (`LockInv`, else two writers overwrite each other), where
  each kind of operation can be (`KindInv`) and what the earlier statements of a
  transaction have prepared for the next (`StageInv`: the target cluster exists
  before members are inserted, the agents have rows, a cluster has lost its members
  before its row goes). One lemma per statement says what it does to consistent
  tables; four lemmas say how a step frames the others
  (`ExecutePreserves`, `PostFailsPreserves`, `MovePreserves`, `EndPreserves`).
  `Refinement` is `Spec => ImplementsStore`. What a COMMIT installs was made by several
  statements, so `FullInv` adds `EffectInv`: the private pages are the committed ones
  with that part of `ClusterStore`'s effect (`ClustersAfter`, `OwnerAfter`, `PluginAfter`)
  the operation has reached (`Effect`, by the call it makes next); at the COMMIT it is
  the whole effect, and the store accepts the operation. The lock makes it
  inductive: the committed tables stand still while anybody writes. `AnswerInv` says that
  a read under way holds what the store shows, since a COMMIT waits for it. The seven
  `...Effect` lemmas say what a statement makes of names, plugins and owners, the
  `...Step` lemmas that it does its part of the effect or finds what the store refuses (the
  agents an INSERT clashes with are the ones that are not free), and `StepSimulates` maps
  each step: a COMMIT to `Apply`, a PostFailure to `Refuse`, the other failures and a list cut
  short to `Fail`, the end of a read to `Read`, the rest to a stutter. The action
  properties `LeavesOwnOnly` and `PluginRegistered` follow from the effect at the COMMIT,
  the only step that changes the committed tables (`OnlyCommits`).
- **ServerStartupProofs.** `Invariant`, `ConfigurationHonoured`,
  `NoClearAPIBesideHTTPS`, `ChannelNeverFull`, `ReturnsLast`, for every plugin
  list. `Counted` is the balance (errors queued, read and owed are the ports),
  `Loop` the loop invariant of `Configure`.
- **AgentServerProofs.** `Invariant`, `Guarded` (no API answers and nothing acts
  for a request the policy does not grant), `StatusHonest`, `NeverTwice`, and the two
  halves of access control, from the policy file and the token to the answer:
  `OnlyTheEntitled` and `TheEntitledPass`. `Flow`
  says what each stage of a request knows. Requests do not disturb each other: one
  frame lemma reduces every action to the request that takes it. `PolicyOK` is the
  invariant of the loop over the blocks: the policy gives an API the roles of the last
  block read that names it, and none when no block does (`PolicySays`, kept by
  `OneMoreBlock`). It needs no induction of its own, since the steps of the specification are the
  turns of the loop; once the backend is up all blocks are read.
- **CRDFederationProofs.** `FedInvariant`, `ResultsHonest` (a batch has one result per item,
  and reports created only what that item created) and `ListsComplete` (a list that is
  answered shows every relationship reported created that nobody has deleted since), for any
  batches, others and crashes. `FedIndInv` says that a result matches its item (`BatchOK`), an
  object is that of the item it names (`ObjectOK`), and what a list owes has been reported, is
  there until the list is read, and is in the list from then on (`OwedOK`).
- **ManagerServerProofs.** `Invariant`, `NeverAnothersBackend`, `SecretsStay`,
  `StatusHonest`. `RowsRegistered` is the strengthening: every row in the table was
  registered under its name, so a target read from it was too, even when the row
  has gone since. `RegistrationsBalance` counts: what was done to a name was done by
  finitely many requests, and each registration or deletion that succeeds adds one
  request to one side of the balance. `ProxyMatchesRouter` compares the manager's table
  with the backend's row by row.
- **FrontendListsProofs.** `ListsInvariant`, `ToldOnlyOfDeleted`,
  `OnlyTickedEntries`, for any servers, items and number of turns. `AnswersTrue` (an
  answer names only deletions that took place) and `TicksOwn` (a tick on an entry goes
  by the entry's id) are the strengthenings; `CallTrue` is the invariant of one
  call, and lemmas say which steps leave a call true. `FullInvariant` adds `AwayInv`, on
  which `DeletedClustersStayAway` rests: a page that shows a cluster reported deleted waits for a list, no list on its
  way names one, and no callback outlives the page. The proof is why the property is
  about clusters: of entries it holds in the small instance, and fails with a third entry and
  two more requests (see below).

- **WebUIProofs.** What the pages show, one inductive invariant for each page
  (`Invariance`); `StepOfPage` gives each page its own step and leaves it where the others
  move. Of the store, `LastDispatched` and `NotDispatched` say what a list of actions makes of a
  slice.
  `AtRate`: `ChecksAtRate` is inductive with the types of the sidebar, since every
  handler that ends a timer or changes the rate starts one at the rate it has put into the
  store.
  `GuardedAlways`: the strengthening `RolesAreLoaded` says that once the bar has mounted, the
  roles in the store are those of the token that was loaded, whatever the sessions before
  left there; until then the token cannot have been renewed.
  `OptionsOfLists`: the parents offered are made from the lists in the store, because every
  list that arrives or fails is a new array and makes the page prepare them again; and the
  selectors below an agent are its own or none, because they are prepared again with them.
  `PostsTheLoaded`, `EditsAreShown`: `OneArray` says that the store and the page refer to the
  same array, not merely to equal ones, so that an edit reaches what is posted;
  `PartsOfTexts`, that while an entry is selected an id that was parsed is that of its field.
  `FiltersFollowLists`: on a details page reached for what it shows, the filters are those that
  the lists give now, whatever has arrived since. `DetailsInv`: only such a page has a table of
  its own clicked, as the heading of a table in it leaves the filters of the page before.
  `NumbersAgreeAlways`: chart, tables and pages count the same entries, for lists of any length.
  It is proved by induction over the lists, in three layers. (1) The library's induction takes
  an operator, but that `<` is well-founded does not: `LeastNumber` has the least
  counterexample, and `RangeInduction` is induction for the members of a set of numbers. (2) A
  fold of the community modules is a function that is *chosen* to satisfy a recursive equation;
  `Iterates` shows that one exists, hence the `...Steps` lemmas: the fold of a list is the
  last of values, each made of the one before and the next member. (3) By `RangeInduction`
  along these values, `KeptFacts` says what a filter keeps, `DictFacts` what the one pass over
  the nodes' entries gives each agent (just what asking agent by agent gives it: `ChartAgrees`),
  and `ClusterAgreesOf` that a cluster's sum is the size of a union. `ListedAreCounted` needs
  what is assumed of lists (an entry of a node is found under the first agent it is associated
  with, and no other agent has that id) and its own hypothesis, that the parents that go with
  an agent are entries of nodes.
- **WebUIFormsProofs.** What the forms send (`FormsInvariance`): `PostsAreShown`,
  `EditsTheChosen`, `CreationsAreTrue`. A submission reads fields that were set at different
  times, so each form's invariant says what relates them between handlers. `EntryParts`: what has
  been parsed is of the text in the field (but for a parent still to be typed); `EntryExpiry`:
  the store has the time that the fields show, once they have been touched; `EntryServer`: the form's server is the
  header's, or none; `EntryAnswer`: an answer that says so came of a creation, also while the
  message of a malformed id stands above it. `EditOfChosen`: under a cluster's name every
  field not set since is the cluster's. `DataWherePicked` and `ReadWherePicked`: the contents
  held, or being read, for an input were picked in it, and last. `ListedUnderNames`: a list of
  federations stands under its own names and is, relationship for relationship, that of a
  file, with its URL or one that was applied in its place (`OfFile`). The form for a token takes over the header's server (`AgentInv`), for which it
  matters that the calls of its page never touch that slice (`AgentAnswered`).
  `TypesOfPages` is the type correctness of all pages (`TypesInv`; the lemmas of a page
  stand behind its other proofs, in this module or in WebUIProofs). The types need more than
  themselves: that a form made of ids posts ids rests on `EntryParts`; that a cluster is never
  sent with the option that opens the field for its type, on `TypeTold`; that what the store
  refers to exists, on the arrays of an upload never getting fewer; and the slices that a call
  or the header writes are listed one call at a time (`AnsweredTyped`, `HeaderTyped`).
  `InitialSlices` gives the store's first values: no slice is in two groups of reducers.

All properties of the passing runs are theorems but for liveness (`EveryRequestServed`,
`DownReturns`, `LocalAPIsDoNotWaitForSPIRE`), which this prover does not do under fairness and
only TLC checks.

## What the models found

Four statements of the repository that its code does not keep, each a run that
ends in a counterexample:

1. `ListsShowTheTables` (`pkg/agent/db/sqlite.go:279`): the list reads do not ask
   `rows.Err()`. While a COMMIT is pending, a list of clusters is `[]` and a success.
   `GetServers` of the manager has the same loop.
2. `HTTPSConfiguredRedirects` (`api/agent/server.go:294`): with an https block that
   cannot be used, the HTTP port serves the API in the clear.
3. `UIAnswered` (`api/agent/server.go:151`): `filepath.Abs` never returns a path
   that begins with `ui-agent`, so the handler takes the error branch with a nil
   error and panics. Requests with a wrong method end here as well.
4. `ListIsOfSelected` (`frontend/src/components/tornjak-api-helpers.tsx:371`): an answer
   is dispatched whichever server is selected by then. When the one for the server
   selected before comes last, its list stays, and a deletion from it goes to the
   server selected now.

Noted while reading, and modelled as it is, without a run of its own: the plugin of
an agent that was only ever named in a cluster is NULL, which cannot be scanned into
a string, so the answer is `SQLError` and the message written for the case is never
reached (`sqlite.go:131`); the list of APIs a policy may name lacks `/` and paths the
router has, so that the documented sample policy keeps the backend from starting
(`rbac.go:17`); in manager mode the UI reports clusters and entries that were deleted
as errors, since `clusterDelete` and `entryDelete` return `response.data` of what is
already the data (`tornjak-api-helpers.tsx:328`, `:345`); of several agents deleted at
once only the last leaves the list (`agents-list-table.tsx:133`); a cluster or agent
is deleted by the position of its tick, so after a refresh another one may be
(`clusters-list-table.tsx:78`); when the list of agents becomes empty its table keeps
its rows (`agent-list.tsx:125`).

Of the pages (`frontend/src/components`), modelled as they are; the properties are
stated so that they hold beside them, and their comments say what is left out of them:

- *Header.* The trust domain and attestor of the server just selected are derived from
  the info of the one before (`select-server.tsx:89`): they follow one selection late.
- *Upload.* "Clear file" empties the page and leaves `globalNewEntries`, so Create Entries
  still posts them (`entry-create-json.tsx:630`); confirming "All changes will be lost" keeps
  the old edit and cancelling drops it (`:210`), the other way round than its buttons say;
  DNS names that were cleared stay in the entry (`:360`).
- *Deleted entries.* An entry that was deleted and reported so can come back into the list and
  stay (`entries-list-table.tsx:112`, found while proving `DeletedStaysAway`): of two deletions
  sent one after the other, the second writes back a list that still has the first one's entry
  while the page is leaving; after the reload the user deletes a third entry before the list is
  there; the new list comes, and then the answer to the third deletion, with a failure in it:
  its list, from before, is written back, and nothing reloads the page. Three entries and five
  requests; of clusters every deletion that writes a list back reloads.
- *Expiry.* An entry whose form shows "None", untouched, is posted with the time that an
  earlier form left in the store (`entry-create.tsx:650`): the field writes the time when it
  changes, and the form does not clear it (`entry-expiry-features.tsx:57`).
- *Options.* Selecting a server fetches its agents and not its entries: parents of two
  servers are offered side by side until the page is opened again (`select-server.tsx:90`).
- *Entries.* When some entries were created and some not, the page may say ALL ENTRIES
  CREATION FAILED (`entry-create.tsx:735`).
- *Clusters.* Selecting another server does not fetch its clusters (`cluster-edit.tsx:124`);
  Delete goes by the name in the field, which may have been edited (`:273`); the list of
  types is prepared when the page is mounted and not again (`cluster-management.tsx:80`); on a
  manager's tab a deletion leaves the cluster in the list (`tornjak-api-helpers.tsx:338`).
- *Federations.* They are posted to the tab's own API whatever server the header shows
  (`federation-create.tsx:153`); a URL typed for one file is applied to the relationship in the same place
  of the next (`:118`); the page reports the first result for all (`:159`); an
  error of one fetch hides a trust bundle that another brought (`trustbundle-create.tsx:85`).
- *Agents.* The refresh is sent beside the registration and may be answered from before it
  (`work-load-attestor-modal.tsx:84`).
- *Roles.* A token without roles leaves those of the user before (`navbar.tsx:131`);
  whoever was refused a page sees the refusal above the pages visited from there
  (`RenderOnAdminRole.tsx:49`); `/trustbundle` and `/federation/create`, which the bar offers to administrators only
  (`navbar.tsx:244`), are rendered to everyone (`App.tsx:43`). The backend is what refuses.
- *Health.* Every change of the rate starts a chain of timers, and none is ever cleared
  (`spire-health-check.tsx:75`); those of a sidebar that was closed go on and ask nothing.
- *Dashboard.* An entry of two agents of a cluster is counted twice (`tornjak-helper.tsx:93`);
  the page of an agent lists entries that are not counted, below a workload with selectors
  the agent has (`spiffe-helper.tsx:178`);
  a details page opened by its address neither fetches nor sets its table, since it waits
  for a slice to be `""` that never is (`dashboard-details-render.js:34`).

Noted without a statement of the repository to hold the code to:
`redirectHTTP` (server.go:241) refuses methods other than GET and HEAD with 400
and redirects to the host without the configured port; the manager does not send
the Authorization header on, so a backend that authenticates answers 401; a
proxied call whose answer is lost is 400 though it was carried out, and one that is never
answered waits for ever (`api/manager/server.go:119`, no timeout); deleting an agent in
SPIRE leaves its row and membership in the Tornjak database (`handlers.go:162`); when the
HTTPS listener fails the HTTP port goes on redirecting to it (`server.go:316`); a token
signed with a withdrawn key is good until the keys are fetched again (`keycloak.go:42`);
a trust domain may be created and reported as failed, and one that cannot be read fails the
list of all (`pkg/agent/spirecrd/federation.go:78`, `:32`).

## Not modelled, and why

- Columns no decision depends on (platform type, domain, managed by, creation time,
  UID), JSON and HTTP framing, logging.
- The refresh of the JWKS cache: a library's. Whether the cached keys verify a token
  is a bit of the token.
- What SPIRE does with a call: external; carried out or not, answered or not. Its batches
  have one result per item, inside the answer, and one status. Of trust domains in Kubernetes,
  the class of an object, which a list does not ask for, and the contents of bundles.
- The body of a UI file and what the manager serves for the UI.
- `serverinfo` on the command line, flag parsing: read, print, exit.
- Of the frontend: the lists of servers and federations (the same code as that of
  clusters, with fewer ways to change), banning agents, the calls that bring the
  selectors of single agents (`populateTornjakAgentInfo`) and the error toasts, which only show
  what the store has; drawing, styles, and the fields that are stored and sent without a
  condition, which are one field each in their forms.
- Charts, images, examples, documents: no program logic.

## Plan

Done, in this order of importance: the agent database with its abstract store and
the proof that it implements it; startup; authorization with the agent API and the CRD calls; the manager; the list pages of
the UI; the store, the calls and the other pages of the UI; an inductive invariant and its
theorems for each program and each page.

Next:

1. *Frontend*: two tabs, which share nothing but the backends; the lists of servers and
   federations in FrontendLists.
2. Smaller: the SPIRE handlers' per-item results, once a property tells them apart.
