SPECIFICATION MCSpec
CONSTANTS
    AnyRole = AnyRole
    NoMethod = NoMethod
    NoUser = NoUser
    Requests = {q1, q2}
    Sent <- MCSent
    Credentials <- MCCredentials
    Bodies = {"empty", "good", "incomplete", "malformed", "cut"}
    Servers <- MCServers
    FedRequests = {"f1", "f2", "f3"}
    Texts <- MCTexts
    DomainOf <- MCDomainOf
    NoDomain = "?"
    Endpoints = {"web", "spiffe"}
    Batches <- MCBatches
    OtherNames = {"other"}
    OtherObjects <- MCOtherObjects
    MaxOthers = 2
INVARIANTS
    ServedOnlyToEntitled
    EntitledNotRefused
    StatusTellsOutcome
    CarriedAtMostOnce
    ResultsAreOfItems
    ListShowsCreated
PROPERTIES
    LocalAPIsDoNotWaitForSPIRE
