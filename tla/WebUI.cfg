SPECIFICATION MCSpec
CONSTANTS
    Servers = {s1, s2}
    NoServer = NoServer
    Own = s1
    Modes = {TRUE, FALSE}
    Pages = {"entry", "options", "upload", "clusters", "sidebar", "bar",
             "trust bundle", "federation", "backends", "agents", "dashboard"}
    Scenes = {"entry ids", "entry expiry", "entry answers", "options",
              "upload edits", "upload files", "cluster create", "cluster edit",
              "sidebar", "bar", "trust bundle", "federation", "backends", "agents",
              "dashboard numbers", "dashboard views"}
    EntryPaths <- MCEntryPaths
    MaxSafeTime = 1
    EntryFiles <- MCEntryFiles
    Missing <- MCMissing
    MaxUploads = 2
    ClusterNames = {"c1", "c2"}
    ClusterTypes = {"t"}
    ClusterAgents <- MCClusterAgents
    HealthOptions <- MCHealthOptions
    MaxChains = 3
    MaxChecks = 4
    Auths = {TRUE, FALSE}
    Roles = {"admin", "viewer"}
    AdminNames = {"admin"}
    NoRole = "none"
    OwnDomain = "own"
    Domains = {"own", "a", "b"}
    Urls = {"u1", "u2"}
    NoDomain = "none"
    FederationFiles <- MCFederationFiles
    MaxPosts = 2
    BackendNames = {"n"}
    BackendFiles = {"f", "g", "empty"}
    EmptyFile = "empty"
    NoData = "null"
    MaxReading = 2
    TTLs = {0, 500}
    AgentIds <- MCAgentIds
    ServerId = "srv"
    ListedAgents <- MCListedAgents
    ListedEntries <- MCListedEntries
    Infos <- MCInfos
    Details <- MCDetails
    ListedClusters <- MCListedClusters
INVARIANTS
    CreatedIsTrue
    OptionsFollowLists
    LoadedIsPosted
    ChecksAtRate
    AdminPagesGuarded
    NumbersAgree
PROPERTIES
    PostedAsShown
    AppliedAsShown
    EditIsOfChosen
CHECK_DEADLOCK FALSE
