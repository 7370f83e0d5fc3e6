\* No navigation; two links of every kind.
CONSTANTS
    N = 0
    l1 = l1
    l2 = l2
    Links <- MC_Links
    MaxScripts = 0
SPECIFICATION Spec
INVARIANT ExternalLinksNewTab
CHECK_DEADLOCK FALSE
