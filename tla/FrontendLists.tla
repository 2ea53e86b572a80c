---------------------------- MODULE FrontendLists ----------------------------
(****************************************************************************)
(* A list page of the web UI (frontend/src): clusters, entries or agents,   *)
(* in a browser tab of a Tornjak manager or of one backend. The Redux store *)
(* holds a copy of the list, the page's table its rows; answers to requests *)
(* for the list and to deletions arrive in any order and overwrite both,    *)
(* from what the closures of the callbacks captured.                        *)
(*                                                                          *)
(* Items are numbers, in the order a backend lists them, so a list is a     *)
(* set. The backends are external, and other people use them. The browser   *)
(* is external too: a reload drops the answers that have not arrived, but   *)
(* not the requests.                                                        *)
(****************************************************************************)
EXTENDS Integers, FiniteSets

CONSTANTS
    Servers,        \* the backends
    Items,          \* clusters, entries or agents, by rank in a list
    Kinds,          \* the list pages
    Modes,          \* TRUE: the tab is of a manager (IsManager)
    NoServer,       \* globalServerSelected = ""
    MaxTurns        \* bound: how often the tab or somebody else asks for something

ASSUME FrontendAssumption ==
    /\ Items \subseteq Nat /\ IsFiniteSet(Items)
    /\ Kinds \subseteq {"clusters", "entries", "agents"}
    /\ Modes \subseteq BOOLEAN
    /\ NoServer \notin Servers
    /\ MaxTurns \in Nat

VARIABLES
    app,            \* the page and the mode of the tab
    backend,        \* backend[s]: what server s holds
    selected,       \* globalServerSelected; of a backend's tab, the backend
    page,           \* "loading", "shown", or "leaving" after location.reload()
    list,           \* globalClustersList, globalEntriesList or globalAgentsList
    from,           \* history: the server whose answer the list goes back to
    rows,           \* listTableData of the table
    ticked,         \* the keys of selected rows, each with the item it was on
    calls,          \* the requests under way
    turns,          \* how often the tab or somebody else has asked for something
    told,           \* the deletions the user was told have succeeded
    gone            \* history: the deletions that have taken place

vars == <<app, backend, selected, page, list, from, rows, ticked, calls, turns, told, gone>>

Ticks == [key : Nat, item : Items]
Requests == [op : {"list", "delete"}, server : Servers, turn : 1 .. MaxTurns, copy : {1, 2},
             items : SUBSET Items, meant : SUBSET Items,
             snapshot : SUBSET Items, origin : Servers \cup {NoServer}]
Calls == [req : Requests, left : SUBSET Items, done : SUBSET Items,
          stage : {"open", "answered", "failed", "abandoned"}]

TypeOK ==
    /\ app \in [kind : Kinds, manager : Modes]
    /\ backend \in [Servers -> SUBSET Items]
    /\ selected \in Servers \cup {NoServer}
    /\ ~app.manager => selected \in Servers
    /\ page \in {"loading", "shown", "leaving"}
    /\ list \subseteq Items /\ rows \subseteq Items
    /\ from \in Servers \cup {NoServer}
    /\ ticked \subseteq Ticks
    /\ calls \subseteq Calls
    /\ turns \in 0 .. MaxTurns
    /\ told \subseteq Servers \X Items
    /\ gone \subseteq Servers \X Items

Init ==
    /\ app \in [kind : Kinds, manager : Modes]
    /\ backend \in [Servers -> SUBSET Items]
    /\ IF app.manager THEN selected = NoServer
       ELSE selected \in Servers /\ \A s \in Servers \ {selected} : backend[s] = {}
    /\ page = "loading"
    /\ list = {} /\ from = NoServer /\ rows = {} /\ ticked = {}
    /\ calls = {} /\ turns = 0
    /\ told = {} /\ gone = {}

----------------------------------------------------------------------------
(* Requests                                                                 *)

\* Mutant: entries keyed by position, like the other tables.
KeyByRank(x, shown) == Cardinality({y \in shown : y <= x})

\* The id of a row in prepareTableData: the entry's own id, and for clusters
\* and agents the position, which DataTable then takes for the row's identity.
Key(x, shown) == IF app.kind = "entries" THEN x
                 ELSE Cardinality({y \in shown : y <= x})

Keys(shown) == {Key(x, shown) : x \in shown}

Request(op, s, copy, items, meant) ==
    [req |-> [op |-> op, server |-> s, turn |-> turns + 1, copy |-> copy, items |-> items,
              meant |-> meant, snapshot |-> list, origin |-> from],
     left |-> items, done |-> {}, stage |-> "open"]

Send(new) ==
    /\ turns < MaxTurns
    /\ turns' = turns + 1
    /\ calls' = calls \cup new

\* populate...Update of the list page, and, as SelectServer populates the
\* agents too when a manager's server is selected, a second one of them.
Fetch(s, copies) == {Request("list", s, copy, {}, {}) : copy \in copies}

\* The page is mounted: its table shows what the store holds (which outlives a
\* reload in sessionStorage) and the list is asked for.
Mount ==
    /\ page' = "shown"
    /\ rows' = list
    /\ ticked' = {}
    /\ IF selected = NoServer THEN UNCHANGED <<calls, turns>>
                              ELSE Send(Fetch(selected, {1}))
    /\ UNCHANGED <<app, backend, selected, list, from, told, gone>>

Load == page = "loading" /\ Mount

\* The user goes to another page and back.
Revisit == page = "shown" /\ Mount

\* onServerSelect, and componentDidUpdate of the list page and of SelectServer.
Select(s) ==
    /\ page = "shown" /\ app.manager
    /\ s /= selected
    /\ selected' = s
    /\ Send(Fetch(s, IF app.kind = "agents" THEN {1, 2} ELSE {1}))
    /\ UNCHANGED <<app, backend, page, list, from, rows, ticked, told, gone>>

\* componentDidUpdate of EntryList, on a backend of its own: what another page has
\* asked for arrives, and the list is asked for again.
DebugInfoArrives ==
    /\ page = "shown" /\ ~app.manager /\ app.kind = "entries"
    /\ Send(Fetch(selected, {1}))
    /\ UNCHANGED <<app, backend, selected, page, list, from, rows, ticked, told, gone>>

Tick(x) ==
    /\ page = "shown"
    /\ x \in rows
    /\ LET k == Key(x, rows)
       IN  ticked' = IF \E t \in ticked : t.key = k THEN {t \in ticked : t.key /= k}
                     ELSE ticked \cup {[key |-> k, item |-> x]}
    /\ UNCHANGED <<app, backend, selected, page, list, from, rows, calls, turns, told, gone>>

\* deleteCluster sends a request for each selected row; deleteEntry sends one
\* for all of them, and deleteAgent waits for the requests it sends together.
Delete ==
    /\ page = "shown"
    /\ selected /= NoServer
    /\ LET Chosen(ts) == {x \in rows : \E t \in ts : t.key = Key(x, rows)}
           Deletion(ts) == Request("delete", selected, 1, Chosen(ts), {t.item : t \in ts})
       IN  /\ Chosen(ticked) /= {}
           /\ Send(IF app.kind = "clusters" THEN {Deletion({t}) : t \in ticked}
                                            ELSE {Deletion(ticked)})
    /\ ticked' = {}
    /\ UNCHANGED <<app, backend, selected, page, list, from, rows, told, gone>>

----------------------------------------------------------------------------
(* The backends                                                             *)

Becomes(c, left, done, stage) ==
    calls' = (calls \ {c})
             \cup {[req |-> c.req, left |-> left, done |-> done, stage |-> stage]}

\* The tab is done with c: what is left of it, if anything, goes on without it.
Leaves(c) == IF c.left = {} THEN calls' = calls \ {c}
             ELSE Becomes(c, c.left, c.done, "abandoned")

tab == <<app, selected, page, list, from, rows, ticked, turns, told>>

ServeList(c) ==
    /\ c.req.op = "list" /\ c.stage = "open"
    /\ Becomes(c, {}, backend[c.req.server], "answered")
    /\ UNCHANGED <<tab, backend, gone>>

\* One item of a deletion is deleted, or it is not there or cannot be deleted.
ServeDelete(c, x) ==
    /\ c.req.op = "delete" /\ x \in c.left
    /\ LET rest == c.left \ {x}
           Dealt(done) ==
               IF rest = {} /\ c.stage = "abandoned" THEN calls' = calls \ {c}
               ELSE Becomes(c, rest, done,
                            IF rest = {} /\ c.stage = "open" THEN "answered" ELSE c.stage)
       IN  \/ /\ x \in backend[c.req.server]
              /\ backend' = [backend EXCEPT ![c.req.server] = @ \ {x}]
              /\ gone' = gone \cup {<<c.req.server, x>>}
              /\ Dealt(c.done \cup {x})
           \/ /\ Dealt(c.done)
              /\ UNCHANGED <<backend, gone>>
    /\ UNCHANGED tab

\* The request is lost or refused, or its answer is lost and it may go on: like
\* the deletions of the other agents, when that of one has failed.
CallFails(c) ==
    /\ c.stage = "open"
    /\ \E on \in {{}, c.left} : Becomes(c, on, c.done, "failed")
    /\ UNCHANGED <<tab, backend, gone>>

\* Somebody else creates or deletes something; it costs a turn, too.
Others(s, x) ==
    /\ app.manager \/ s = selected
    /\ <<s, x>> \notin gone
    /\ turns < MaxTurns
    /\ turns' = turns + 1
    /\ backend' = [backend EXCEPT ![s] = IF x \in @ THEN @ \ {x} ELSE @ \cup {x}]
    /\ UNCHANGED <<app, selected, page, list, from, rows, ticked, told, calls, gone>>

----------------------------------------------------------------------------
(* The answers                                                              *)

\* A list is dispatched and the page and its table are rendered. AgentList hands
\* its table "" for an empty list, and prepareTableData then leaves the rows it
\* had; DataTable keeps the selection of the keys that are still there.
Show(l, s) ==
    LET shown == IF app.kind = "agents" /\ l = {} THEN rows ELSE l
    IN  /\ list' = l
        /\ from' = s
        /\ rows' = shown
        /\ ticked' = {t \in ticked : t.key \in Keys(shown)}

Keep == UNCHANGED <<list, from, rows, ticked>>

\* The answer to a request for the list; after a failure the list is empty.
ListArrives(c) ==
    /\ page \in {"shown", "leaving"}
    /\ c.req.op = "list" /\ c.stage \in {"answered", "failed"}
    /\ Show(IF c.stage = "answered" THEN c.done ELSE {}, c.req.server)
    /\ calls' = calls \ {c}
    /\ UNCHANGED <<app, backend, selected, page, turns, told, gone>>

Tell(c) == told' = told \cup ({c.req.server} \X c.req.items)

\* localClusterDelete and localEntryDelete, when the answer is not an error:
\* the store gets the list as it was at the click, without what was deleted.
LocalDeleted(c) ==
    /\ ~app.manager
    /\ Show(c.req.snapshot \ c.req.items, c.req.origin)

\* Mutant: no window.location.reload() after the alert.
ClusterDeletedInPlace(c) ==
    /\ app.kind = "clusters"
    /\ c.stage = "answered" /\ c.done = c.req.items
    /\ LocalDeleted(c)
    /\ Tell(c)
    /\ UNCHANGED page

\* A cluster: "SUCCESS", an alert and a reload.
LocalClusterDeleted(c) ==
    /\ app.kind = "clusters"
    /\ c.stage = "answered" /\ c.done = c.req.items
    /\ LocalDeleted(c)
    /\ Tell(c)
    /\ page' = "leaving"

\* Entries: whichever ids the results name have succeeded, whatever the status
\* beside them.
LocalEntriesDeleted(c) ==
    /\ app.kind = "entries"
    /\ c.stage = "answered"
    /\ LocalDeleted(c)
    /\ \E named \in SUBSET c.req.items :
        /\ c.done \subseteq named
        /\ IF named = c.req.items THEN Tell(c) /\ page' = "leaving"
                              ELSE UNCHANGED <<told, page>>

\* clusterDelete and entryDelete: the row to drop is compared with the whole
\* request, so none is, and what is returned is undefined: an error message.
ManagerDeleted(c) ==
    /\ app.manager /\ app.kind \in {"clusters", "entries"}
    /\ c.stage = "answered" /\ (app.kind = "clusters" => c.done = c.req.items)
    /\ Show(c.req.snapshot, c.req.origin)
    /\ UNCHANGED <<told, page>>

\* Mutant: Promise.all is taken for done whatever became of its promises.
AgentsAnswered(c) ==
    /\ app.kind = "agents"
    /\ c.stage = "answered"
    /\ Show(list \ {CHOOSE x \in c.req.items : \A y \in c.req.items : y <= x}, from)
    /\ Tell(c)
    /\ UNCHANGED page

\* deleteAgent, once all have succeeded: each agent is dropped from the same
\* props, which are not rendered again before the loop is over: the last one
\* only.
AgentsDeleted(c) ==
    /\ app.kind = "agents"
    /\ c.stage = "answered" /\ c.done = c.req.items
    /\ Show(list \ {CHOOSE x \in c.req.items : \A y \in c.req.items : y <= x}, from)
    /\ Tell(c)
    /\ UNCHANGED page

\* An error: an alert or a toast.
DeletionFailed(c) ==
    /\ c.stage = "failed" \/ (c.stage = "answered" /\ app.kind /= "entries" /\ c.done /= c.req.items)
    /\ Keep
    /\ UNCHANGED <<told, page>>

DeletionArrives(c) ==
    /\ page \in {"shown", "leaving"}
    /\ c.req.op = "delete"
    /\ \/ LocalClusterDeleted(c) \/ LocalEntriesDeleted(c) \/ ManagerDeleted(c)
       \/ AgentsDeleted(c) \/ DeletionFailed(c)
    /\ Leaves(c)
    /\ UNCHANGED <<app, backend, selected, turns, gone>>

\* The document goes, with every callback; deletions may still be carried out.
Reload ==
    /\ page = "leaving"
    /\ page' = "loading"
    /\ calls' = {[req |-> c.req, left |-> c.left, done |-> c.done, stage |-> "abandoned"] :
                    c \in {d \in calls : d.left /= {}}}
    /\ rows' = {} /\ ticked' = {}
    /\ UNCHANGED <<app, backend, selected, list, from, turns, told, gone>>

Next ==
    \/ Load \/ Revisit \/ DebugInfoArrives \/ Delete \/ Reload
    \/ \E s \in Servers : Select(s) \/ \E x \in Items : Others(s, x)
    \/ \E x \in Items : Tick(x)
    \/ \E c \in calls :
        \/ ServeList(c) \/ CallFails(c) \/ ListArrives(c) \/ DeletionArrives(c)
        \/ \E x \in c.left : ServeDelete(c, x)

Spec == Init /\ [][Next]_vars

----------------------------------------------------------------------------
(* Properties                                                               *)

\* The page is there and nothing is on its way to it.
Settled == page = "shown" /\ \A c \in calls : c.stage = "abandoned"

\* "DELETED SUCCESSFULLY" is said of clusters and agents that this tab has
\* deleted, on the server they were deleted from, whichever answers are lost and
\* whoever else deletes (clusters-list-table.tsx:101, agents-list-table.tsx:127).
ToldIsDeleted == app.kind /= "entries" => told \subseteq gone

\* A cluster that was reported deleted is not listed once the page has settled:
\* the reload, and the request for the list after it, are what keeps the snapshots
\* of other deletions from bringing it back (clusters-list-table.tsx:104). Entries
\* have no such guarantee: a deletion that succeeds for some of them writes its
\* snapshot back without a reload (entries-list-table.tsx:112).
DeletedStaysAway ==
    Settled /\ app.kind = "clusters" => \A x \in list : <<from, x>> \notin told

\* The entries that are deleted are the ones that were ticked, even when the
\* list was replaced in between (entries-list-table.tsx:75).
EntriesAsTicked ==
    app.kind = "entries" =>
        \A c \in calls : c.req.op = "delete" => c.req.items \subseteq c.req.meant

\* "populateClustersUpdate returns the list of clusters with their info in
\* manager mode for the selected server" (tornjak-api-helpers.tsx:365): once all
\* answers are there, what is listed is the selected server's. It is not, when the
\* answer of the one selected before arrives last.
ListIsOfSelected ==
    Settled /\ list /= {} => from = selected

----------------------------------------------------------------------------
\* What an answer says was deleted, was deleted by this tab.
AnswersTrue ==
    \A c \in calls : c.req.op = "delete" => {c.req.server} \X c.done \subseteq gone

\* A tick on an entry goes by the entry's own id.
TicksOwn == app.kind = "entries" => \A t \in ticked : t.key = t.item

\* What is deleted stays so at the backend, and of clusters: only a backend's own
\* tab is told of success; the calls of a page that is gone do not answer; and a
\* page that shows a deleted cluster waits for a list, which will not name it.
AwayInv ==
    /\ \A s \in Servers : \A x \in backend[s] : <<s, x>> \notin gone
    /\ app.kind = "clusters" /\ app.manager => told = {}
    /\ page = "loading" => \A c \in calls : c.stage = "abandoned"
    /\ app.kind = "clusters" /\ page = "shown" =>
        /\ \A c \in calls :
            c.req.op = "list" /\ c.stage = "answered" =>
                \A x \in c.done : <<c.req.server, x>> \notin told
        /\ (\E x \in list : <<from, x>> \in told) =>
                \E c \in calls : c.req.op = "list" /\ c.stage /= "abandoned"

\* The inductive invariants.
IndInv == TypeOK /\ AnswersTrue /\ ToldIsDeleted /\ TicksOwn /\ EntriesAsTicked
FullInv == IndInv /\ AwayInv
=============================================================================
