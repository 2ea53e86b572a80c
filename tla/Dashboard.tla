------------------------------ MODULE Dashboard ------------------------------
(***************************************************************************)
(* The dashboard and its details pages (components/dashboard) with the     *)
(* numbers that spiffe-helper.tsx and tornjak-helper.tsx make of the lists *)
(* in the store. The lists are what the calls of the pages have brought    *)
(* last, and may come from different moments.                              *)
(*                                                                         *)
(* A SPIFFE ID is a name, equal to another or not; one that is not valid,  *)
(* the expiry of an entry and the status of an agent are left out.         *)
(***************************************************************************)
EXTENDS Integers, FiniteSets, SequencesExt

CONSTANTS
    ServerId,       \* the parent of a node's entry, of path "/spire/server"
    AgentLists,     \* lists of agents: [id, selectors]
    EntryLists,     \* lists of entries: [id, spiffeid, parentId, selectors]
    Infos,          \* what Tornjak knows of agents: the cluster of some of them
    ClusterLists,   \* the clusters of a list: [name, agentsList]
    Ids             \* the ids that the address of a details page can have, of each entity

Members(list) == {list[i] : i \in DOMAIN list}

\* An id is that of one agent, or of one entry.
DashboardAssumption ==
    /\ DOMAIN Ids = {"clusters", "agents", "entries"}
    /\ \A list \in AgentLists \cup EntryLists :
         /\ list \in Seq(Members(list))
         /\ \A i, j \in DOMAIN list : list[i].id = list[j].id => i = j
    /\ \A list \in AgentLists : \A i \in DOMAIN list : list[i].id /= ""

VARIABLES
    clusters, agents, entries,  \* globalClustersList, globalAgentsList, globalEntriesList
    info,                       \* globalAgentsWorkLoadAttestorInfo
    table,                      \* globalClickedDashboardTable
    path,                       \* the page: <<>>, or <<entity, id>> of a details page
    key                         \* selectedDataKey of DashboardDetails

vars == <<clusters, agents, entries, info, table, path, key>>

None == "None"
Undefined == "undefined"
Tables == {"", "dashboard", "clusters", "agents", "entries",
           "clustersdetails", "agentsdetails", "entriesdetails"}

\* list.filter, by the members that pass: a fold, of which more can be proved than of SelectSeq.
Kept(list, passing) ==
    FoldLeft(LAMBDA kept, e : IF e \in passing THEN Append(kept, e) ELSE kept, <<>>, list)

\* The tables of the details pages, of each entity.
DetailsTables == [clusters |-> "clustersdetails", agents |-> "agentsdetails",
                  entries |-> "entriesdetails"]

----------------------------------------------------------------------------
(* Agents and their entries                                                 *)

isSuperset(set, subset) == subset \subseteq set
IsNodeEntry(e) == e.parentId = ServerId

NodeEntries(list) == Kept(list, {e \in Members(list) : IsNodeEntry(e)})

getAgentEntries(agent, list) ==
    LET nodes == NodeEntries(list)
    IN  Kept(nodes, {e \in Members(nodes) : isSuperset(agent.selectors, e.selectors)})

InitialDict(agentsList) == [id \in {a.id : a \in Members(agentsList)} |-> <<>>]

\* Mutant: the entries are not filtered, and asked the other way round.
EntriesOfAll(agentsList, list) ==
    LET ShownTo(dict, e) ==
            FoldLeft(LAMBDA d, a : IF isSuperset(e.selectors, a.selectors)
                                   THEN [d EXCEPT ![a.id] = Append(@, e)] ELSE d,
                     dict, agentsList)
    IN  FoldLeft(ShownTo, InitialDict(agentsList), list)

\* The entries of all agents, in one pass: each entry is shown to each agent in turn.
Taken(dict, e, a) ==
    IF isSuperset(a.selectors, e.selectors) THEN [dict EXCEPT ![a.id] = Append(@, e)] ELSE dict
Shown(dict, e, agentsList) == FoldLeft(LAMBDA d, a : Taken(d, e, a), dict, agentsList)
getAgentsEntries(agentsList, list) ==
    FoldLeft(LAMBDA dict, e : Shown(dict, e, agentsList),
             InitialDict(agentsList), NodeEntries(list))

ChildrenOf(validIds, list) == Kept(list, {e \in Members(list) : e.parentId \in validIds})

\* numberEntriesOfAgent, and what it counts
EntriesOfAgent(agent, list) ==
    ChildrenOf({agent.id} \cup {e.spiffeid : e \in Members(getAgentEntries(agent, list))}, list)
numberEntriesOfAgent(agent, list) == Len(EntriesOfAgent(agent, list))

\* getChildEntries of the pie chart of agents
PieValue(agent, dict, list) ==
    Len(ChildrenOf({agent.id} \cup {e.spiffeid : e \in Members(dict[agent.id])}, list))

\* The sum over the agents of a cluster that are in the list.
AgentsOf(cluster, agentsList) ==
    Kept(agentsList, {a \in Members(agentsList) : a.id \in cluster.agentsList})
numberEntriesOfCluster(cluster, list, agentsList) ==
    FoldLeft(LAMBDA sum, a : sum + numberEntriesOfAgent(a, list), 0, AgentsOf(cluster, agentsList))

\* The first agent that an entry is associated with.
getCanonicalAgentSpiffeid(entry, agentsList) ==
    LET associated ==
            Kept(agentsList, {a \in Members(agentsList) : isSuperset(a.selectors, entry.selectors)})
    IN  IF associated = <<>> THEN "" ELSE associated[1].id

\* workloadEntry: the agent an entry is put under.
CanonicalParentId(e, agentsList, list) ==
    LET parents == Kept(list, {p \in Members(list) : p.spiffeid = e.parentId})
    IN  IF (\E a \in Members(agentsList) : a.id = e.parentId) \/ parents = <<>> THEN e.parentId
        ELSE getCanonicalAgentSpiffeid(parents[1], agentsList)

\* getAgentMetadata
ClusterName(id, infoOf) == IF id \in DOMAIN infoOf THEN infoOf[id] ELSE None

----------------------------------------------------------------------------
(* The pages                                                                *)

Nothing == [name |-> Undefined, spiffeid |-> Undefined, parentId |-> Undefined,
            clusterName |-> Undefined]

\* detailsDataParse: what the lists have of the entity and id of the URL.
SelectedData(p, clustersList, agentsList, list, infoOf) ==
    CASE p[1] = "clusters" ->
            IF \E c \in clustersList : c.name = p[2] THEN [Nothing EXCEPT !.name = p[2]] ELSE Nothing
      [] p[1] = "agents" ->
            IF \E a \in Members(agentsList) : a.id = p[2]
            THEN [Nothing EXCEPT !.spiffeid = p[2], !.clusterName = ClusterName(p[2], infoOf)]
            ELSE Nothing
      [] p[1] = "entries" ->
            LET found == Kept(list, {e \in Members(list) : e.id = p[2]})
            IN  IF found = <<>> THEN Nothing
                ELSE [Nothing EXCEPT !.spiffeid = found[1].spiffeid,
                                     !.parentId = found[1].parentId,
                                     !.clusterName =
                                       ClusterName(CanonicalParentId(found[1], agentsList, list),
                                                   infoOf)]

\* selectedDataKey: the filters of the tables of the details page, by the table clicked.
Key(clicked, data) ==
    [agentsFilter |-> CASE clicked = "clustersdetails" -> data.name
                        [] clicked = "entriesdetails" -> data.parentId
                        [] OTHER -> Undefined,
     clustersFilter |-> IF clicked \in {"entriesdetails", "agentsdetails"}
                        THEN data.clusterName ELSE Undefined,
     entriesFilter |-> CASE clicked = "clustersdetails" -> data.name
                         [] clicked = "agentsdetails" -> data.spiffeid
                         [] OTHER -> Undefined]

NoKey == Key("", Nothing)
KeyOf(p, clicked) ==
    IF p = <<>> THEN NoKey ELSE Key(clicked, SelectedData(p, clusters, agents, entries, info))

\* The entries table of an agent's details page.
ListedOf(id) ==
    Kept(entries, {e \in Members(entries) :
                     id \in {e.parentId, CanonicalParentId(e, agents, entries)}})

Paths == {<<>>} \cup UNION {{<<entity, id>> : id \in Ids[entity]} : entity \in DOMAIN Ids}

TypeOK ==
    /\ clusters \in ClusterLists /\ agents \in AgentLists /\ entries \in EntryLists /\ info \in Infos
    /\ table \in Tables
    /\ path \in Paths
    /\ DOMAIN key = {"agentsFilter", "clustersFilter", "entriesFilter"}

\* A page is loaded, with what the store has kept: the details page asks for nothing and
\* leaves the table as it is, for globalDebugServerInfo is never "".
Loaded(p, clicked) ==
    /\ path' = p /\ table' = clicked /\ key' = KeyOf(p, clicked)
    /\ UNCHANGED <<clusters, agents, entries, info>>

Init ==
    /\ clusters \in ClusterLists /\ agents \in AgentLists /\ entries \in EntryLists /\ info \in Infos
    /\ table = "" /\ path = <<>> /\ key = NoKey

\* By an address or the history of the browser.
Visit(p) == Loaded(p, table)

\* The link of the bar, or a tab of the drawer.
AssignDashboardPath(entity) == Loaded(<<>>, entity)

\* "Selected Details", of a row of a table
SelectedDetails(entity, id) == Loaded(<<entity, id>>, DetailsTables[entity])

\* The heading of a table: the page stays, and what it is filtered by.
HeadingClicked(entity) ==
    /\ table' = entity
    /\ UNCHANGED <<clusters, agents, entries, info, path, key>>

\* Mutant: a change of the data does not reach the filters.
KeyStays == UNCHANGED key

\* componentDidUpdate: the data are parsed anew whenever the page is rendered.
KeyFollows == key' = KeyOf(path, table)'

\* The answer of a call, or a header that renders the page again.
ListsArrive ==
    /\ \/ clusters' \in ClusterLists /\ UNCHANGED <<agents, entries, info>>
       \/ agents' \in AgentLists /\ UNCHANGED <<clusters, entries, info>>
       \/ entries' \in EntryLists /\ UNCHANGED <<clusters, agents, info>>
       \/ info' \in Infos /\ UNCHANGED <<clusters, agents, entries>>
    /\ UNCHANGED <<table, path>>
    /\ KeyFollows

Next ==
    \/ \E p \in Paths : Visit(p)
    \/ \E entity \in {"dashboard", "clusters", "agents", "entries"} : AssignDashboardPath(entity)
    \/ \E entity \in DOMAIN Ids : \E id \in Ids[entity] : SelectedDetails(entity, id)
    \/ \E entity \in DOMAIN Ids : HeadingClicked(entity)
    \/ ListsArrive

Spec == Init /\ [][Next]_vars

----------------------------------------------------------------------------
\* A details page reached for what it shows is filtered by what the lists say of it now.
FiltersFollow == path /= <<>> /\ table = DetailsTables[path[1]] => key = KeyOf(path, table)

\* What getAgentEntries asks of an entry, and getCanonicalAgentSpiffeid does not: of the
\* entries with the id of some entry's parent, those that go with an agent are nodes'.
ParentsAreNodes ==
    \A e \in Members(entries), p \in Members(entries), a \in Members(agents) :
        p.spiffeid = e.parentId /\ isSuperset(a.selectors, p.selectors) => IsNodeEntry(p)

\* Whatever mixture of lists the store holds, the chart and the table give an agent the
\* same number; a cluster's number is that of the entries of its agents, as long as none
\* of them is counted for two; and the filters of a details page follow the lists. And an
\* agent's details page lists no entry that its number does not count, while the parents
\* of entries that go with an agent are entries of nodes: below a workload's entry whose
\* selectors an agent has as well, it lists one (spiffe-helper.tsx:178 and :102).
NumbersAgree ==
    /\ LET dict == getAgentsEntries(agents, entries)
       IN  \A a \in Members(agents) :
            /\ PieValue(a, dict, entries) = numberEntriesOfAgent(a, entries)
            /\ ParentsAreNodes => Members(ListedOf(a.id)) \subseteq Members(EntriesOfAgent(a, entries))
    /\ \A c \in clusters :
        LET counted(id) == UNION {Members(EntriesOfAgent(a, entries)) :
                                    a \in {a \in Members(agents) : a.id = id}}
        IN  (\A id1, id2 \in c.agentsList : id1 /= id2 => counted(id1) \cap counted(id2) = {})
            => numberEntriesOfCluster(c, entries, agents)
                 = Cardinality(UNION {counted(id) : id \in c.agentsList})
    /\ FiltersFollow
=============================================================================
