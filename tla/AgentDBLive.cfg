CONSTANTS
    n1 = n1
    n2 = n2
    a1 = a1
    a2 = a2
    p1 = p1
    r1 = r1
    r2 = r2
    r3 = r3
    Null = Null
    NoRow = NoRow
    Names <- MCNames
    Agents <- MCAgents
    Plugins = {p1}
    AgentLists <- MCLists
    Requests = {r1, r2, r3}
    Ops <- FewOps
    MaxClusterId = 3
    MaxCrashes = 1
    IOFaults = TRUE
SPECIFICATION FairSpec
PROPERTIES
    EveryRequestServed
