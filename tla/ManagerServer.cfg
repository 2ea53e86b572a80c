SPECIFICATION Spec
CONSTANTS
    Names = {n1, n2}
    Addresses = {a1, a2}
    Requests = {r1, r2, r3}
    NoInfo = NoInfo
    Proxied <- AllProxied
SYMMETRY Symmetry
INVARIANTS
    RegistryBalanced
    ProxiedIsRouted
    ListedAsRegistered
    AnswerTellsOutcome
    SentWhereRegistered
