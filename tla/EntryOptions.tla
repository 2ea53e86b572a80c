---------------------------- MODULE EntryOptions ----------------------------
(***************************************************************************)
(* What the page that creates entries (components/entry-create.tsx) offers *)
(* as parents and recommends as selectors, while the lists it is made from *)
(* arrive one by one and the header (SelectServer) changes the server.     *)
(*                                                                         *)
(* A parent is the server, an agent or an entry of a backend; the options  *)
(* are those of the three sources they were made from. A list that failed  *)
(* is an empty one and no different from one that is blank. Every backend  *)
(* has agents and entries, with the same selectors as those of the others, *)
(* so that an entry finds an agent in any list, and a plugin registered    *)
(* for its agents.                                                         *)
(***************************************************************************)
EXTENDS SelectServer

VARIABLES
    options,        \* the lists and the server agentsIdList was made from, or none yet
    parent,         \* the parent chosen, or none
    selectorsList   \* whose plugins the selectors recommended are of, or nobody's

vars == <<store, calls, manager, options, parent, selectorsList>>

NoOptions == <<>>
NoParent == <<>>
Parents == ({"server"} \X Blank) \cup ({"agent", "entry"} \X Servers)

TypeOK ==
    /\ store.globalAgentsList \in Blank /\ store.globalEntriesList \in Blank
    /\ store.globalAgentsWorkLoadAttestorInfo \in Blank
    /\ calls \subseteq Calls
    /\ manager \in Modes
    /\ options \in [agents : Blank, entries : Blank, server : Blank] \cup {NoOptions}
    /\ parent \in Parents \cup {NoParent}
    /\ selectorsList \in Blank

\* componentDidMount. The server of a manager's tab counts if no error is showing.
MountAsks ==
    IF manager
    THEN LET s == store.globalServerSelected
         IN  IF s /= NoServer /\ NoError
             THEN {populateAgentsUpdate(s), populateEntriesUpdate(s), refreshSelectorsState(s)}
             ELSE {}
    ELSE {populateLocalAgentsUpdate, populateLocalEntriesUpdate, populateLocalTornjakServerInfo}

\* componentDidMount of the bar above the pages, on a backend's own tab.
BarAsks == IF manager THEN {} ELSE {populateLocalTornjakServerInfo, populateLocalTornjakDebugServerInfo}

\* The page is opened on the lists that other pages have left, under the header, or
\* loaded with it; then the header's servers are not known, and what it derives is what
\* it derived before.
Init ==
    /\ manager \in Modes
    /\ \E s \in Blank, agents \in Blank, entries \in Blank, info \in Blank, debug \in Blank,
          loaded \in BOOLEAN :
         /\ ~manager => s = NoServer /\ {agents, entries, info, debug} \subseteq {Own, NoServer}
         /\ manager => info = s /\ debug = NoServer
         /\ store = [InitialStore EXCEPT !.globalServerSelected = s, !.globalServerInfo = info,
                        !.globalTornjakServerInfo = info, !.globalDebugServerInfo = debug,
                        !.globalAgentsList = agents, !.globalEntriesList = entries,
                        !.globalServersList = IF loaded THEN {} ELSE Servers]
         /\ calls = MountAsks \cup IF loaded THEN HeaderAsks \cup BarAsks ELSE {}
         /\ loaded => Dispatched(HeaderDerives) = store
    /\ options = NoOptions /\ parent = NoParent /\ selectorsList = NoServer

----------------------------------------------------------------------------
(* componentDidUpdate, on the props that a dispatch has changed             *)

\* prepareParentIdAgentsList: the server's own id, the agents, and the entries of each.
prepareParentIdAgentsList(st) ==
    [agents |-> st.globalAgentsList, entries |-> st.globalEntriesList,
     server |-> st.globalServerInfo]

\* Whose agent a parent goes by: an agent is its own; an entry goes by the first agent
\* listed that has its selectors, if the entry is listed.
AgentOf(st, p) ==
    CASE p[1] = "agent" -> p[2]
      [] p[1] = "entry" /\ st.globalEntriesList = p[2] -> st.globalAgentsList
      [] OTHER -> NoServer

\* prepareSelectorsList: those of the attestor of the server's nodes if the server of
\* the debug info is the parent, as they were when that attestor is not known; else those
\* of the plugin of the parent's agent.
prepareSelectorsList(st, p) ==
    IF p = NoParent THEN selectorsList
    ELSE IF p = <<"server", st.globalDebugServerInfo>>
         THEN IF st.globalServerInfo = NoServer THEN selectorsList ELSE st.globalServerInfo
    ELSE IF AgentOf(st, p) = st.globalAgentsWorkLoadAttestorInfo THEN AgentOf(st, p)
    ELSE NoServer

\* Mutant: the options are made again for the agents only.
PreparedOnAgents(arrived) == arrived = "agents"

\* A list that arrives or fails is a new array, and debug info that arrives a new object.
PreparedOn(arrived) == arrived \in {"agents", "entries", "debugInfo"}

Updated(arrived) ==
    IF PreparedOn(arrived)
    THEN /\ options' = prepareParentIdAgentsList(store')
         /\ selectorsList' = prepareSelectorsList(store', parent)
    ELSE UNCHANGED <<options, selectorsList>>

Return(c, ok) ==
    /\ c.op /= "servers"
    /\ c.server /= NoServer \/ ~ok
    /\ CallReturns(c, ok)
    /\ Updated(IF c.op = "debugInfo" /\ ~ok THEN "nothing" ELSE c.op)
    /\ UNCHANGED <<manager, parent>>

\* The header: its servers come, or one of them is selected.
HeaderSteps ==
    /\ \/ \E ok \in BOOLEAN : ServersReturn(ok)
       \/ \E s \in Servers : Select(s)
    /\ UNCHANGED <<manager, options, parent, selectorsList>>

\* A parent among the options is chosen.
Offered ==
    IF options = NoOptions THEN {}
    ELSE {<<"server", options.server>>, <<"agent", options.agents>>}
         \cup (IF options.agents = NoServer THEN {} ELSE {<<"entry", options.entries>>})

ParentChosen(p) ==
    /\ p \in Offered \cap Parents
    /\ p /= parent
    /\ parent' = p
    /\ selectorsList' = prepareSelectorsList(store, p)
    /\ UNCHANGED <<store, calls, manager, options>>

Next ==
    \/ \E c \in calls, ok \in BOOLEAN : Return(c, ok)
    \/ HeaderSteps
    \/ \E p \in Parents : ParentChosen(p)

Spec == Init /\ [][Next]_vars

----------------------------------------------------------------------------
\* The parents offered are made from the lists that are in the store, in whatever
\* order these arrive, fail or are asked for again (entry-create.tsx:221): none of them
\* is of a list that has been replaced or has failed since. And the selectors recommended
\* below an agent are those of its own plugin or none, whatever was chosen before it.
\* Lists that were there when the page was opened may not have been used yet. Agents of
\* one server do stand beside entries of another: a selection in the header fetches the
\* agents only.
OptionsFollowLists ==
    /\ options /= NoOptions =>
        options.agents = store.globalAgentsList /\ options.entries = store.globalEntriesList
    /\ parent \in {"agent"} \X Servers => selectorsList \in {NoServer, parent[2]}
=============================================================================
