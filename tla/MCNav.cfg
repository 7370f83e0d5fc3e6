\* Every navigation forest of four items, every set of toggles, every
\* current page and search parameter, one link of every kind, one
\* injected script with and without a callback.
CONSTANTS
    N = 4
    l1 = l1
    l2 = l2
    Links <- MC_OneLink
    MaxScripts = 1
SPECIFICATION Spec
INVARIANTS
    TypeOK
    TouchedListsCollapsed
PROPERTY
    ClicksKeepNesting
CHECK_DEADLOCK FALSE
