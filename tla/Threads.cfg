CONSTANTS
    Thread = {t1, t2}
    Job = {"fire", "wait", "local", "get"}
    MaxJobs = 3
    Buf = 1
    Inst <- MCInst
    Plans <- MCPlans
    Pool = 3
    Uses <- MCUses
    MaxFaults = 1
SPECIFICATION MCSpec
INVARIANTS
    NoHalfRead
PROPERTIES
    ReadsOwnWrites
    AllReturn
    PromisesResolve
\* Threads and tests come to an end.
CHECK_DEADLOCK FALSE
