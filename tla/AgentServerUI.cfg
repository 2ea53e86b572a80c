SPECIFICATION MCSpec
CONSTANTS
    AnyRole = AnyRole
    NoMethod = NoMethod
    NoUser = NoUser
    Requests = {q1}
    Sent <- MCSent
    Credentials <- FewCredentials
    Bodies = {"good"}
    Servers <- FewServers
    FedRequests = {"f1", "f2", "f3"}
    Texts <- MCTexts
    DomainOf <- MCDomainOf
    NoDomain = "?"
    Endpoints = {"web", "spiffe"}
    Batches <- MCBatches
    OtherNames = {"other"}
    OtherObjects <- MCOtherObjects
    MaxOthers = 2
INVARIANTS
    UIAnswered
