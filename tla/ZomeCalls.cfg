CONSTANTS
    me = me  bob = bob  z1 = z1  z2 = z2  f = f  g = g
    Me = me
    Agent <- MCAgent
    Dnas <- MCDnas
    Request <- MCRequest
    Call = {c1, c2}
    MaxFault = 1
    MaxCrash = 1
    W = 4
    MemSize = 14
    MaxLen = 3
    MaxApi = 4
SPECIFICATION MCSpec
INVARIANTS
    SavedTokenOnChain  
    ReadsIntact

    
\* Every call may have been answered.
CHECK_DEADLOCK FALSE
