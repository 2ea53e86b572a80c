------------------------------ MODULE MCWebUI ------------------------------
(***************************************************************************)
(* WebUI on small data. A page with many fields is looked at in scenes,    *)
(* each of which leaves the fields of the others alone: the scenes are     *)
(* bounds on the instance, and the modules know nothing of them.           *)
(***************************************************************************)
EXTENDS WebUI

CONSTANT Scenes
VARIABLE scene

----------------------------------------------------------------------------
(* The data of the instances                                                *)

\* New entries: without a parent, with all, with names, without an id.
NewEntry(spiffeId, parentId, names) ==
    [spiffe_id |-> spiffeId, parent_id |-> parentId, dns_names |-> names]
MCMissing == <<"missing", "", "">>
MCEntryFiles ==
    LET id == <<Own, "p">>
        e1 == NewEntry(id, Missing, FALSE)
        e2 == NewEntry(id, id, TRUE)
    IN  {Missing, <<>>, <<e1, e2>>, <<e2>>, <<NewEntry(Missing, id, FALSE)>>}

\* One relationship; another; two in an array, one of them without a relationship.
MCFederationFiles ==
    {[list |-> <<>>, array |-> FALSE],
     [list |-> <<[domain |-> "a", url |-> "u1"]>>, array |-> FALSE],
     [list |-> <<[domain |-> "b", url |-> "u1"], [domain |-> "none", url |-> ""]>>, array |-> TRUE]}

\* Lists of agents that share selectors or none; of entries for nodes, for workloads of
\* agents, of nodes and of one another, which may have the selectors of an agent too.
ListOf(q) ==
    [i \in DOMAIN q |-> [id |-> i, spiffeid |-> q[i][1], parentId |-> q[i][2], selectors |-> q[i][3]]]
Listed(shapes, n) == {ListOf(q) : q \in UNION {[1 .. m -> shapes] : m \in 0 .. n}}
NodeShapes == {<<"n", "srv", {"k1"}>>, <<"n", "srv", {"k1", "k2"}>>, <<"m", "srv", {"k2"}>>}
WorkloadShapes == {<<"w", p, {"u"}>> : p \in {"a1", "a2", "n", "m", "w"}}
                  \cup {<<"v", "a1", {"k1"}>>, <<"w", "v", {"u"}>>}
MCListedAgents ==
    {<<>>} \cup {<<[id |-> "a1", selectors |-> k], [id |-> "a2", selectors |-> l]>> :
                    k, l \in SUBSET {"k1", "k2"}}

\* A cluster with only a name; one with all.
BareCluster == [name |-> "c1", platformType |-> "", agentsList |-> {}]
FullCluster == [name |-> "c2", platformType |-> "t", agentsList |-> {"a"}]

MCEntryPaths == {"p"}
MCClusterAgents == {{}, {"a"}}
MCHealthOptions == {<<10, "Secs">>, <<1, "Day">>, <<2, "Mins">>}
MCAgentIds == {<<"td", "/p">>}
MCListedEntries == Listed(NodeShapes \cup WorkloadShapes, 3)

\* For the views: none, a workload below an agent, and one below a node that goes with it.
FewEntries ==
    {<<>>, ListOf(<<<<"w", "a1", {"u"}>>>>), ListOf(<<<<"w", "n", {"u"}>>, <<"n", "srv", {"k1"}>>>>)}
FewAgents == {<<>>, <<[id |-> "a1", selectors |-> {"k1"}], [id |-> "a2", selectors |-> {}]>>}

MCInfos == {[a \in {} |-> ""], [a \in {"a1"} |-> "c1"]}
MCDetails == [clusters |-> {"c1"}, agents |-> {"a1", "a2"}, entries |-> {1}]
MCListedClusters == {{}, {[name |-> "c1", agentsList |-> {"a1", "a2"}]}}

----------------------------------------------------------------------------
(* The scenes                                                               *)

PageOf(s) ==
    CASE s \in {"entry ids", "entry expiry", "entry answers"} -> "entry"
      [] s \in {"upload edits", "upload files"} -> "upload"
      [] s \in {"cluster create", "cluster edit"} -> "clusters"
      [] s \in {"dashboard numbers", "dashboard views"} -> "dashboard"
      [] OTHER -> s

\* What a scene finds.
Found ==
    CASE scene = "entry ids" -> store.globalNewEntries = <<>>
      [] scene = "cluster create" -> backend = [s \in Servers |-> {}]
      [] scene = "cluster edit" ->
            /\ backend = [s \in Servers |-> {BareCluster, FullCluster}]
            /\ store.globalErrorMessage = ""
      [] scene = "dashboard numbers" -> info /= <<>> /\ clusters /= {}
      [] OTHER -> TRUE

MCInit ==
    /\ scene \in Scenes
    /\ page = PageOf(scene)
    /\ IF scene = "dashboard views" THEN entries \in FewEntries /\ agents \in FewAgents ELSE TRUE
    /\ Init
    /\ Found

\* One id, for both fields.
FewIds == LET id == <<Own, "p">>
          IN  form'.spiffeId \in {<<>>, id} /\ form'.parentId \in {<<>>, id}

EntryStep ==
    CASE scene = "entry ids" -> ~form'.advanced /\ UNCHANGED <<expiry, created>>
      [] scene = "entry expiry" -> FewIds /\ UNCHANGED <<answer, created>>
      [] scene = "entry answers" -> FewIds /\ ~form'.advanced /\ UNCHANGED expiry

\* A parent is chosen while no list is under way.
OptionsStep == calls /= {} => UNCHANGED parent

\* The edits of one file of two entries; files of all kinds, of which nothing is edited.
UploadStep ==
    CASE scene = "upload edits" ->
            /\ Len(arrays') <= 2 /\ \A f \in reading' : f /= Missing /\ Len(f) = 2
            /\ fields'.parentId \in {<<s, "p">> : s \in Servers} \cup {<<NoServer, "">>, <<"malformed">>}
            /\ UNCHANGED upload => fields'.selectors = fields.selectors
      [] scene = "upload files" -> UNCHANGED <<upload, arrays>> => UNCHANGED fields

\* What is created has no agents; an edit is of a name or of agents, and the fields stay
\* until it has been answered; the clusters of one backend stay; a list comes.
ClusterStep ==
    CASE scene = "cluster create" ->
            /\ form'.fields.agentsList = {} /\ edit'.fields = edit.fields /\ UNCHANGED chosen
      [] scene = "cluster edit" ->
            /\ form'.fields = form.fields /\ chosen'.set \in {{}, {"name"}, {"agentsList"}}
            /\ \A s \in Servers \ {Own} : UNCHANGED backend[s]
            /\ store'.globalErrorMessage /= "Error retrieving"
            /\ edit'.fields.name /= "" \/ edit'.fields = Clusters!BlankFields
            /\ Clusters!Idle \/ edit'.fields \in {edit.fields, Clusters!BlankFields}

\* Files are picked while no list is under way; only one input is given an empty one and a
\* second one.
BackendsStep ==
    /\ reading' /= {} => lists' = <<>>
    /\ \A r \in reading' : r[1] /= "ca" => r[2] = "f"

\* The fields stay while a plugin is being registered.
AgentsStep == calls /= {} => UNCHANGED form

\* What a scene leaves out of its page.
Scene ==
    CASE page = "entry" -> EntryStep
      [] page = "options" -> OptionsStep
      [] page = "upload" -> UploadStep
      [] page = "clusters" -> ClusterStep
      [] page = "backends" -> BackendsStep
      [] page = "agents" -> AgentsStep
      [] page = "federation" -> Len(posts') <= 1
      [] OTHER -> TRUE

MCNext ==
    /\ UNCHANGED scene
    /\ IF scene = "dashboard views" THEN entries' \in FewEntries /\ agents' \in FewAgents ELSE TRUE
    /\ scene /= "dashboard numbers"
    /\ Next
    /\ Scene

MCSpec == MCInit /\ [][MCNext]_<<vars, scene>>
=============================================================================
