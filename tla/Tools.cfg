CONSTANTS
    U64 = 1073741824
    Usize = 1073741824
    Periods <- MCPeriods
    MaxDuration = 700000000
    MaxTime = 900000000
    Pieces = {"a", "_", "\n"}
    MaxText = 3
    MaxOps = 3
    Sorted <- MCSorted
    Orders <- MCOrders
    Edits <- MCEdits
    Zomes = {"chat"}
    MaxSteps = 5
SPECIFICATION MCSpec
INVARIANTS
     SuitesPass
    NeverPanics
    UnpackRestores
\* Conversions, tests and commands come to an end.
CHECK_DEADLOCK FALSE
