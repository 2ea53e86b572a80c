SPECIFICATION Spec
CONSTANTS
    PluginLists <- MCPluginLists
    Defaulted = Defaulted
INVARIANTS
    HTTPSConfiguredRedirects
