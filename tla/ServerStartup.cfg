SPECIFICATION FairSpec
CONSTANTS
    PluginLists <- MCPluginLists
    Defaulted = Defaulted
INVARIANTS
    IndInv
    ServesAsConfigured
    ClearOnlyWithoutHTTPS
    ReportsNeverBlock
    ReturnsOnlyWhenDown
PROPERTIES
    DownReturns
