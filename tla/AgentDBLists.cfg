CONSTANTS
    n1 = n1
    n2 = n2
    a1 = a1
    a2 = a2
    p1 = p1
    r1 = r1
    r2 = r2
    r3 = r3
    Null = Null
    NoRow = NoRow
    Names <- MCNames
    Agents <- MCAgents
    Plugins = {p1}
    AgentLists <- MCLists
    Requests = {r1, r2, r3}
    Ops <- ReadAndWriteOps
    MaxClusterId = 2
    MaxCrashes = 1
    IOFaults = FALSE
SPECIFICATION Spec
SYMMETRY Symmetry
PROPERTIES
    ListsShowTheTables
