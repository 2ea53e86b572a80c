------------------------------- MODULE WebUI -------------------------------
(***************************************************************************)
(* The pages of the web UI beside each other. A behaviour stays on one     *)
(* page, that of the variable "page"; the store it finds is one that the   *)
(* others can have left, and the variables of other pages are idle.        *)
(***************************************************************************)
EXTENDS SelectServer, FiniteSets

CONSTANTS
    Pages,                                                              \* those looked at
    EntryPaths, MaxSafeTime, EntryFiles, Missing, MaxUploads,           \* EntryForm, EntryUpload
    ClusterNames, ClusterTypes, ClusterAgents,                          \* ClusterForms
    HealthOptions, MaxChains, MaxChecks,                                \* HealthCheck
    Auths, Roles, AdminNames, NoRole,                                   \* Navigation
    OwnDomain, Domains, Urls, NoDomain, FederationFiles, MaxPosts,      \* FederationForms
    BackendNames, BackendFiles, EmptyFile, NoData,                      \* ServerForms
    MaxReading,                                                         \* of both
    TTLs, AgentIds,                                                     \* AgentForms
    ServerId, ListedAgents, ListedEntries, Infos, ListedClusters, Details   \* Dashboard

VARIABLES
    page, posts, form, reading, upload, path,                           \* of several pages
    expiry, answer, created,                                            \* EntryForm
    options, parent, selectorsList,                                     \* EntryOptions
    arrays, fields,                                                     \* EntryUpload
    backend, edit, chosen,                                              \* ClusterForms
    mounted, timers, checks,                                            \* HealthCheck
    auth, token, tab, sidebarOpen, refused, loaded,                     \* Navigation
    bundle, fetches, files,                                             \* FederationForms
    registry, lists, picked,                                            \* ServerForms
    plugin,                                                             \* AgentForms
    clusters, agents, entries, info, table, key                         \* Dashboard

vars == <<page, store, manager, posts, form, reading, upload, calls, path, expiry, answer,
          created, options, parent, selectorsList, arrays, fields, backend, edit, chosen,
          mounted, timers, checks, auth, token, tab, sidebarOpen, refused, loaded, bundle, fetches,
          files, registry, lists, picked, plugin, clusters, agents, entries, info, table, key>>

----------------------------------------------------------------------------
(* The pages                                                                *)

Entry == INSTANCE EntryForm WITH Paths <- EntryPaths
Parents == INSTANCE EntryOptions
Upload == INSTANCE EntryUpload WITH Paths <- EntryPaths, Files <- EntryFiles
Clusters == INSTANCE ClusterForms
                WITH Names <- ClusterNames, Types <- ClusterTypes, AgentLists <- ClusterAgents
Health == INSTANCE HealthCheck WITH Options <- HealthOptions
Bar == INSTANCE Navigation
Federations == INSTANCE FederationForms WITH Files <- FederationFiles
Backends == INSTANCE ServerForms WITH Names <- BackendNames, Files <- BackendFiles
Agents == INSTANCE AgentForms WITH Ids <- AgentIds
Numbers == INSTANCE Dashboard
                WITH AgentLists <- ListedAgents, EntryLists <- ListedEntries,
                     ClusterLists <- ListedClusters, Ids <- Details

ASSUME WebUIAssumption ==
    /\ Pages \subseteq {"entry", "options", "upload", "clusters", "sidebar", "bar",
                        "trust bundle", "federation", "backends", "agents", "dashboard"}
    /\ Entry!FormAssumption /\ Upload!UploadAssumption /\ Clusters!ClusterAssumption
    /\ Health!HealthAssumption /\ Bar!NavigationAssumption
    /\ Federations!FederationAssumption /\ Backends!ServerFormAssumption
    /\ Agents!AgentFormAssumption /\ Numbers!DashboardAssumption

FederationPages == {"trust bundle", "federation"}

\* The pages that have a variable of several pages.
StorePages == {"entry", "upload", "clusters", "options", "sidebar", "bar", "backends", "agents"}
ModePages == {"entry", "upload", "clusters", "options", "agents"}
PostPages == {"entry", "clusters", "backends", "agents"} \cup FederationPages
FormPages == {"entry", "clusters", "backends", "agents"}
FilePages == {"upload", "backends"} \cup FederationPages
UploadPages == {"upload"} \cup FederationPages
CallPages == {"options", "agents"}
PathPages == {"dashboard", "bar"}

\* What is said of the variables of other pages than these.
ElsewhereThan(pages, said) == IF page \in pages THEN TRUE ELSE said

Idle == <<>>
InitElsewhere ==
    /\ ElsewhereThan(StorePages, store = Idle)
    /\ ElsewhereThan(ModePages, manager = Idle)
    /\ ElsewhereThan(PostPages, posts = Idle)
    /\ ElsewhereThan(FormPages, form = Idle)
    /\ ElsewhereThan(FilePages, reading = Idle)
    /\ ElsewhereThan(UploadPages, upload = Idle)
    /\ ElsewhereThan(CallPages, calls = Idle)
    /\ ElsewhereThan(PathPages, path = Idle)
    /\ ElsewhereThan({"entry"}, expiry = Idle /\ answer = Idle /\ created = Idle)
    /\ ElsewhereThan({"options"}, options = Idle /\ parent = Idle /\ selectorsList = Idle)
    /\ ElsewhereThan({"upload"}, arrays = Idle /\ fields = Idle)
    /\ ElsewhereThan({"clusters"}, backend = Idle /\ edit = Idle /\ chosen = Idle)
    /\ ElsewhereThan({"sidebar"}, mounted = Idle /\ timers = Idle /\ checks = Idle)
    /\ ElsewhereThan({"bar"}, /\ auth = Idle /\ token = Idle /\ tab = Idle
                               /\ sidebarOpen = Idle /\ refused = Idle /\ loaded = Idle)
    /\ ElsewhereThan(FederationPages, bundle = Idle /\ fetches = Idle /\ files = Idle)
    /\ ElsewhereThan({"backends"}, registry = Idle /\ lists = Idle /\ picked = Idle)
    /\ ElsewhereThan({"agents"}, plugin = Idle)
    /\ ElsewhereThan({"dashboard"}, /\ clusters = Idle /\ agents = Idle /\ entries = Idle
                                     /\ info = Idle /\ table = Idle /\ key = Idle)

UnchangedElsewhere ==
    /\ UNCHANGED page
    /\ ElsewhereThan(StorePages, UNCHANGED store)
    /\ ElsewhereThan(ModePages, UNCHANGED manager)
    /\ ElsewhereThan(PostPages, UNCHANGED posts)
    /\ ElsewhereThan(FormPages, UNCHANGED form)
    /\ ElsewhereThan(FilePages, UNCHANGED reading)
    /\ ElsewhereThan(UploadPages, UNCHANGED upload)
    /\ ElsewhereThan(CallPages, UNCHANGED calls)
    /\ ElsewhereThan(PathPages, UNCHANGED path)
    /\ ElsewhereThan({"entry"}, UNCHANGED <<expiry, answer, created>>)
    /\ ElsewhereThan({"options"}, UNCHANGED <<options, parent, selectorsList>>)
    /\ ElsewhereThan({"upload"}, UNCHANGED <<arrays, fields>>)
    /\ ElsewhereThan({"clusters"}, UNCHANGED <<backend, edit, chosen>>)
    /\ ElsewhereThan({"sidebar"}, UNCHANGED <<mounted, timers, checks>>)
    /\ ElsewhereThan({"bar"}, UNCHANGED <<auth, token, tab, sidebarOpen, refused, loaded>>)
    /\ ElsewhereThan(FederationPages, UNCHANGED <<bundle, fetches, files>>)
    /\ ElsewhereThan({"backends"}, UNCHANGED <<registry, lists, picked>>)
    /\ ElsewhereThan({"agents"}, UNCHANGED plugin)
    /\ ElsewhereThan({"dashboard"}, UNCHANGED <<clusters, agents, entries, info, table, key>>)

----------------------------------------------------------------------------
(* The specification                                                        *)

Init ==
    /\ page \in Pages
    /\ InitElsewhere
    /\ \/ page = "entry" /\ Entry!Init
       \/ page = "options" /\ Parents!Init
       \/ page = "upload" /\ Upload!Init
       \/ page = "clusters" /\ Clusters!Init
       \/ page = "sidebar" /\ Health!Init
       \/ page = "bar" /\ Bar!Init
       \/ page \in FederationPages /\ Federations!Init
       \/ page = "backends" /\ Backends!Init
       \/ page = "agents" /\ Agents!Init
       \/ page = "dashboard" /\ Numbers!Init

Next ==
    /\ UnchangedElsewhere
    /\ \/ page = "entry" /\ Entry!Next
       \/ page = "options" /\ Parents!Next
       \/ page = "upload" /\ Upload!Next
       \/ page = "clusters" /\ Clusters!Next
       \/ page = "sidebar" /\ Health!Next
       \/ page = "bar" /\ Bar!Next
       \/ page = "trust bundle" /\ Federations!TrustBundlePage
       \/ page = "federation" /\ Federations!FederationPage
       \/ page = "backends" /\ Backends!Next
       \/ page = "agents" /\ Agents!Next
       \/ page = "dashboard" /\ Numbers!Next

Spec == Init /\ [][Next]_vars

----------------------------------------------------------------------------
(* The properties of the pages, each of the page it is about                *)

\* What is posted is what the form was given: by EntryForm and AgentForms to the server
\* that the header shows, the ids, the expiry once it has been touched, the time to live;
\* by FederationForms the file's federations with the URLs applied; by ServerForms, in
\* each input, the file picked there last.
PostedStep ==
    /\ page = "entry" => Entry!PostedStep
    /\ page \in FederationPages => Federations!PostedStep
    /\ page = "backends" => Backends!PostedStep
    /\ page = "agents" => Agents!PostedStep
PostedAsShown == [][PostedStep]_vars

\* EntryForm: no creation is reported while every entry sent has been refused.
CreatedIsTrue == page = "entry" => Entry!CreatedIsTrue

\* EntryOptions: the parents that are offered follow the lists.
OptionsFollowLists == page = "options" => Parents!OptionsFollowLists

\* EntryUpload: the entries that the page says are loaded are those the button posts.
LoadedIsPosted == page = "upload" => Upload!LoadedIsPosted

\* EntryUpload: an edit changes one entry, as its fields show.
AppliedStep == page = "upload" => Upload!AppliedStep
AppliedAsShown == [][AppliedStep]_vars

\* ClusterForms: an edit is of the cluster chosen, with all it had.
EditStep == page = "clusters" => Clusters!EditStep
EditIsOfChosen == [][EditStep]_vars

\* HealthCheck: SPIRE is asked at the rate that was set.
ChecksAtRate == page = "sidebar" => Health!ChecksAtRate

\* Navigation: pages for administrators are for them, and for all of them.
AdminPagesGuarded == page = "bar" => Bar!AdminPagesGuarded

\* Dashboard: chart, tables and details agree.
NumbersAgree == page = "dashboard" => Numbers!NumbersAgree
=============================================================================
