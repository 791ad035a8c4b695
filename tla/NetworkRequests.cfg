CONSTANTS
    f1 = f1  c1 = c1  p1 = p1  p2 = p2  a1 = a1
    None = None
    Fetch = {f1}
    Custom = {c1}
    Package = {p1}
    Address = {a1}
    Entry <- OneEntry
    Lossy = TRUE
SPECIFICATION FairSpec
PROPERTIES TimedReturn AnswerStays DroppedOnlyUnpublished
CHECK_DEADLOCK FALSE
