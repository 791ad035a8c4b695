CONSTANTS
    e1 = e1  e2 = e2  l1 = l1
    Entry = {e1}
    Link = {l1}
    Deps <- MCDeps
    Base <- MCBase
    Buf = 1
    MaxThreads = 2
    MaxStores = 1
    MaxCrashes = 1
SPECIFICATION FairSpec
INVARIANTS HeldAreValid NothingForgotten
PROPERTIES  ValidPendingEnds
CHECK_DEADLOCK FALSE
