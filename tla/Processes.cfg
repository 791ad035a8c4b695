CONSTANTS
    Bootstrap = 1
    CoreSends = 2
    MaxFaults = 2
    Proc = {p, q}
    i1 = i1  i2 = i2  i3 = i3
    Instance <- MCInstance
    Configured <- MCConfigured
    MaxCall = 3
    MaxPanic = 1
SPECIFICATION MCSpec
INVARIANTS
    InOrderOnce
    OnlyVerified
    DamageUpstream
PROPERTIES
    CallsReturn
\* Workers, downloads and calls come to an end.
CHECK_DEADLOCK FALSE
