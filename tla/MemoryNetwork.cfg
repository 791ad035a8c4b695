CONSTANTS
    Agent = {alex, billy}
    Dna = {dna}
    Entry = {entry}
    Attribute = {link}
    Content = {content}
    None = None
    Connected = {alex}
    MaxOp = 3
    MaxLeave = 1
    Late = TRUE
SPECIFICATION Spec
INVARIANTS
    StoresReachAll
\* Nodes that have used up their operations wait.
CHECK_DEADLOCK FALSE
PROPERTY RequestsAnswered
