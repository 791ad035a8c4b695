CONSTANTS
    Agent = {"alex", "billy", "camille"}
    Dna = {"A", "B", "C"}
    Entry = {E1, E2, E3}
    E1 = E1
    E2 = E2
    E3 = E3
    Attribute = {"link", "crud"}
    Content = {"1", "2", "3", "crud"}
    None = None
SPECIFICATION Spec
INVARIANTS
    WorkflowsPass
\* A workflow ends.
CHECK_DEADLOCK FALSE
