---------------------------- MODULE ClusterForms ----------------------------
(***************************************************************************)
(* The page that creates clusters and edits them (components/cluster-      *)
(* management.tsx, cluster-create.tsx, cluster-edit.tsx): its two forms,   *)
(* beside the clusters that the backends hold, which are external.         *)
(*                                                                         *)
(* A cluster is its name, its type and its agents; its domain and its      *)
(* manager, set without a guard like the agents, are left out.             *)
(* globalClustersList is the clusters of a list, or NoServer: none are     *)
(* there, because none have come or because the call failed.               *)
(*                                                                         *)
(* Bounds: one call of the page is under way at a time, beside the list's; *)
(* the clusters of a backend are changed by this tab alone.                *)
(***************************************************************************)
EXTENDS TornjakStore

CONSTANTS
    Modes,          \* TRUE: the tab is of a manager (IsManager)
    Own,            \* the backend of a backend's tab
    Names, Types, AgentLists

Empty == ""                     \* a field that is empty, or nothing chosen
Manual == "----Select this option----"

\* What is assumed of the constants.
ClusterAssumption ==
    /\ Modes \subseteq BOOLEAN /\ Own \in Servers
    /\ Empty \notin Names \cup Types /\ Manual \notin Types /\ {} \in AgentLists

VARIABLES
    manager,        \* the mode of the tab
    backend,        \* the clusters of each backend
    form,           \* the state of ClusterCreate
    edit,           \* the state of ClusterEdit
    posts,          \* the calls under way
    chosen          \* history: the cluster chosen to be edited, and the fields set since

vars == <<store, manager, backend, form, edit, posts, chosen>>

Cluster == [name : Names, platformType : Types \cup {Empty}, agentsList : AgentLists]
Call(op, s, name, cluster) == [op |-> op, server |-> s, name |-> name, cluster |-> cluster]

\* A deletion takes along the list there was at the click.
Deletion(s, name, list) ==
    [op |-> "delete", server |-> s, name |-> name, cluster |-> <<>>, list |-> list]

IsList(list) == list = NoServer \/ list \subseteq Cluster

FieldTypes == [name : Names \cup {Empty}, platformType : Types \cup {Empty, Manual},
               agentsList : AgentLists, manualEntry : BOOLEAN]

TypeOK ==
    /\ manager \in Modes
    /\ backend \in [Servers -> SUBSET Cluster]
    /\ IsList(store.globalClustersList)
    /\ form.fields \in FieldTypes /\ edit.fields \in FieldTypes
    /\ {form.selectedServer, edit.selectedServer} \subseteq Blank
    /\ edit.originalClusterName \in Names \cup {Empty} /\ edit.clusterNameList \subseteq Names
    /\ \A c \in posts : /\ c.op \in {"create", "edit", "delete", "list"} /\ c.server \in Servers
                        /\ c.op = "delete" => IsList(c.list)
    /\ chosen.cluster \in Cluster \cup {<<>>}

BlankFields == [name |-> Empty, platformType |-> Empty, agentsList |-> {}, manualEntry |-> FALSE]

\* The page is mounted: both forms take over the server, unless an error is showing, and
\* ClusterEdit asks for its clusters and takes the names of the list there is.
ServerAtMount(st) ==
    IF manager /\ st.globalErrorMessage \in {"OK", ""} THEN st.globalServerSelected ELSE NoServer

\* prepareClusterNameList: the names of the list. (None is undefined, and the debug info
\* has its fields before it has come.)
NamesOf(list) == IF list = NoServer THEN {} ELSE {c.name : c \in list}

MountedForm(st) ==
    [fields |-> BlankFields, selectedServer |-> ServerAtMount(st), statusOK |-> ""]

MountedEdit(st) ==
    [fields |-> BlankFields, selectedServer |-> ServerAtMount(st), statusOK |-> "",
     originalClusterName |-> Empty, clusterNameList |-> NamesOf(st.globalClustersList)]

\* populateClustersUpdate of the server selected, populateLocalClustersUpdate
ListCalls(st) ==
    {Call("list", s, Empty, <<>>) :
        s \in {IF manager THEN ServerAtMount(st) ELSE Own} \ {NoServer}}

Init ==
    /\ manager \in Modes
    /\ \E s \in Blank, message \in Messages :
         /\ manager \/ s = NoServer
         /\ store = [InitialStore EXCEPT !.globalServerSelected = s,
                                         !.globalErrorMessage = message]
    /\ backend \in [Servers -> {cs \in SUBSET Cluster : \A c, d \in cs : c.name = d.name => c = d}]
    /\ form = MountedForm(store) /\ edit = MountedEdit(store) /\ posts = ListCalls(store)
    /\ chosen = [cluster |-> <<>>, set |-> {}]

\* The header selects a server, and both forms take it over; what has been chosen, and
\* the list it was chosen from, stay.
ServerSelected(s) ==
    /\ manager /\ s /= store.globalServerSelected
    /\ Dispatch(<<serverSelectedFunc(s)>>)
    /\ form' = [form EXCEPT !.selectedServer = s]
    /\ edit' = [edit EXCEPT !.selectedServer = s]
    /\ UNCHANGED <<manager, backend, posts, chosen>>

----------------------------------------------------------------------------
(* The fields                                                               *)

\* onChangeClusterType: the option opens a field for a type that is typed.
OnChangeClusterType(f, t) == [f EXCEPT !.platformType = t, !.manualEntry = (t = Manual)]

\* What the handlers of the fields, the same in both forms, make of the fields.
Changes(f) ==
    {<<"name", [f EXCEPT !.name = n]>> : n \in Names \cup {Empty}}
    \cup {<<"platformType", OnChangeClusterType(f, t)>> : t \in Types \cup {Manual}}
    \cup {<<"platformType", [f EXCEPT !.platformType = t]>> :
            t \in IF f.manualEntry THEN Types \cup {Empty} ELSE {}}
    \cup {<<"agentsList", [f EXCEPT !.agentsList = a]>> : a \in AgentLists}

FormChanges ==
    /\ \E c \in Changes(form.fields) : form' = [form EXCEPT !.fields = c[2]]
    /\ UNCHANGED <<store, manager, backend, edit, posts, chosen>>

EditChanges ==
    /\ \E c \in Changes(edit.fields) :
        /\ edit' = [edit EXCEPT !.fields = c[2]]
        /\ chosen' = [chosen EXCEPT !.set = @ \cup {c[1]}]
    /\ UNCHANGED <<store, manager, backend, form, posts>>

\* Mutant: the agents that were chosen before stay.
LoadedKeepingAgents(cluster) ==
    [edit EXCEPT !.originalClusterName = cluster.name, !.fields.name = cluster.name,
                 !.fields.platformType = cluster.platformType,
                 !.fields.agentsList = IF @ = {} THEN cluster.agentsList ELSE @]

\* A cluster's fields, in the place of what was there.
Loaded(cluster) ==
    [edit EXCEPT !.originalClusterName = cluster.name, !.fields.name = cluster.name,
                 !.fields.platformType = cluster.platformType,
                 !.fields.agentsList = cluster.agentsList]

\* onChangeClusterNameList: a name is chosen; its cluster is looked up in the list that
\* is in the store now.
OnChangeClusterNameList(name) ==
    /\ name \in edit.clusterNameList
    /\ store.globalClustersList /= NoServer
    /\ \E cluster \in store.globalClustersList :
        /\ cluster.name = name
        /\ edit' = Loaded(cluster)
        /\ chosen' = [cluster |-> cluster, set |-> {}]
    /\ UNCHANGED <<store, manager, backend, form, posts>>

----------------------------------------------------------------------------
(* Submissions                                                              *)

Idle == \A c \in posts : c.op = "list"

\* getApiEntryCreateEndpoint of either form: where it is sent, if anywhere.
Endpoint(f) == IF manager THEN f.selectedServer ELSE Own

ClusterOf(f) ==
    [name |-> f.name, platformType |-> f.platformType, agentsList |-> f.agentsList]

TypeChosen(f) == ~(f.manualEntry /\ f.platformType = Manual)

Create ==
    /\ Idle
    /\ form.fields.name /= Empty
    /\ TypeChosen(form.fields) /\ form.fields.platformType /= Empty
    /\ Endpoint(form) /= NoServer
    /\ posts' = posts \cup {Call("create", Endpoint(form), Empty, ClusterOf(form.fields))}
    /\ UNCHANGED <<store, manager, backend, form, edit, chosen>>

\* The edit is sent, and the list asked for beside it.
Edit ==
    /\ Idle
    /\ edit.originalClusterName /= Empty /\ edit.fields.name /= Empty
    /\ TypeChosen(edit.fields)
    /\ Endpoint(edit) /= NoServer
    /\ posts' = posts \cup ListCalls(store)
                  \cup {Call("edit", Endpoint(edit), edit.originalClusterName, ClusterOf(edit.fields))}
    /\ UNCHANGED <<store, manager, backend, form, edit, chosen>>

\* deleteCluster, of the name in the field, confirmed.
DeleteCluster ==
    LET s == IF manager THEN store.globalServerSelected ELSE Own
    IN  /\ Idle
        /\ edit.fields.name /= Empty
        /\ s /= NoServer
        /\ posts' = posts \cup {Deletion(s, edit.fields.name, store.globalClustersList)}
        /\ UNCHANGED <<store, manager, backend, form, edit, chosen>>

Held(s, name) == {c \in backend[s] : c.name = name}

\* What a backend holds after it has carried out a call, if it can.
CarriedOut(c) ==
    CASE c.op = "create" /\ Held(c.server, c.cluster.name) = {} ->
            {backend[c.server] \cup {c.cluster}}
      [] c.op = "edit" /\ Held(c.server, c.name) /= {}
                       /\ Held(c.server, c.cluster.name) \subseteq Held(c.server, c.name) ->
            {(backend[c.server] \ Held(c.server, c.name)) \cup {c.cluster}}
      [] c.op = "delete" /\ Held(c.server, c.name) /= {} ->
            {backend[c.server] \ Held(c.server, c.name)}
      [] OTHER -> {}

Without(list, name) == IF list = NoServer THEN NoServer ELSE {k \in list : k.name /= name}

\* A success: of a creation or an edit, its notification. That of a deletion puts the list
\* of the click back; a manager's tab leaves the cluster in it, and takes the answer for an
\* error; a backend's tab takes it out, and is loaded again.
Succeeds(c) ==
    \/ /\ c.op = "create"
       /\ form' = [form EXCEPT !.statusOK = "OK"]
       /\ posts' = posts \ {c}
       /\ UNCHANGED <<store, edit, chosen>>
    \/ /\ c.op = "edit"
       /\ edit' = [edit EXCEPT !.statusOK = "OK"]
       /\ posts' = posts \ {c}
       /\ UNCHANGED <<store, form, chosen>>
    \/ /\ c.op = "delete" /\ manager
       /\ Dispatch(<<clustersListUpdateFunc(c.list)>>)
       /\ edit' = [edit EXCEPT !.clusterNameList = NamesOf(c.list)]
       /\ posts' = posts \ {c}
       /\ UNCHANGED <<form, chosen>>
    \/ /\ c.op = "delete" /\ ~manager
       /\ Dispatch(<<clustersListUpdateFunc(Without(c.list, c.name))>>)
       /\ chosen' = [cluster |-> <<>>, set |-> {}]
       /\ form' = MountedForm(store') /\ edit' = MountedEdit(store')
       /\ posts' = ListCalls(store')

CallSucceeds(c) ==
    /\ \E clusters \in CarriedOut(c) : backend' = [backend EXCEPT ![c.server] = clusters]
    /\ Succeeds(c)

\* It is refused, or its answer is lost: a toast or an alert.
CallFails(c) ==
    /\ \E clusters \in CarriedOut(c) \cup {backend[c.server]} :
            backend' = [backend EXCEPT ![c.server] = clusters]
    /\ posts' = posts \ {c}
    /\ UNCHANGED <<store, form, edit, chosen>>

\* The list comes in, and the names with it, or it fails, and both are empty.
ListReturns(c, list) ==
    /\ Dispatch(<<clustersListUpdateFunc(list),
                  tornjakMessageFunc(IF list = NoServer THEN "Error retrieving" ELSE "OK")>>)
    /\ edit' = [edit EXCEPT !.clusterNameList = NamesOf(list)]
    /\ posts' = posts \ {c}
    /\ UNCHANGED <<backend, form, chosen>>

Returns ==
    /\ \E c \in posts :
        \/ c.op /= "list" /\ CallSucceeds(c)
        \/ c.op /= "list" /\ CallFails(c)
        \/ c.op = "list" /\ \E list \in {backend[c.server], NoServer} : ListReturns(c, list)
    /\ UNCHANGED manager

Next ==
    \/ \E s \in Servers : ServerSelected(s)
    \/ FormChanges
    \/ EditChanges
    \/ \E name \in Names : OnChangeClusterNameList(name)
    \/ Create
    \/ Edit
    \/ DeleteCluster
    \/ Returns

Spec == Init /\ [][Next]_vars

----------------------------------------------------------------------------
\* An edit names the cluster that was chosen last, and brings for every field that the
\* user has not set since then what that cluster had: nothing of a cluster chosen
\* before, or of a list that has come in meanwhile.
EditStep ==
    \A c \in posts' \ posts : c.op = "edit" =>
        /\ c.name = chosen.cluster.name
        /\ \A field \in DOMAIN chosen.cluster \ chosen.set :
                c.cluster[field] = chosen.cluster[field]

EditIsOfChosen == [][EditStep]_vars
=============================================================================
