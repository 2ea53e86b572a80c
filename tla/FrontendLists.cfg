SPECIFICATION Spec
CONSTANTS
    Servers = {s1, s2}
    Items = {1, 2}
    Kinds = {"clusters", "entries", "agents"}
    Modes = {TRUE, FALSE}
    NoServer = NoServer
    MaxTurns = 3
INVARIANTS
    FullInv
    ToldIsDeleted
    DeletedStaysAway
    EntriesAsTicked
SYMMETRY ServerSymmetry
CHECK_DEADLOCK FALSE
