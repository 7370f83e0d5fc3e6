\* Navigations of three items, clicks before and after extra.js runs.
CONSTANTS
    N = 3
    l1 = l1
    l2 = l2
    Links <- MC_NoLinks
    MaxScripts = 0
SPECIFICATION Spec
INVARIANT AtMostOneExpanded
CHECK_DEADLOCK FALSE
