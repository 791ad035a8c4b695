SPECIFICATION Spec
CONSTANTS
    Sorted <- MCSorted
    Orders <- MCOrders
    Edits <- MCEdits
    Zomes = {"chat"}
    MaxSteps = 5
INVARIANTS BundlesUnpack
CHECK_DEADLOCK FALSE
