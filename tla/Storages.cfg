CONSTANTS
    base = base  other = other  link = link  removed = removed  l1 = l1  l2 = l2
    Entity <- MCEntity
    Attribute <- MCAttribute
    Value <- MCValue
    Slashed = {}
    MaxTime = 3
    MaxAdds = 3
    Agent = {a1}
    Dna = {d1}
    Instance = {i1, i2}
    Interface = {f1}
    Bundle = {b1}
    Ui = {u1}
    Key = {k1, k2}
    First <- FirstConfigs
    MaxObject = 2
    MaxFault = 1
    MaxCall = 6
    None = None
    Typed = {"p", "q"}
    Default = "q"
    Extra = {"x"}
    CacheTime = 1
    MaxCalls = 3
    MaxRestarts = 2
SPECIFICATION MCSpec
INVARIANTS
    
     ListedAreServed
    AgentKeysRight
\* Writers end, and the executable does when its boot fails.
CHECK_DEADLOCK FALSE
