CONSTANTS
    e1 = e1  e2 = e2  h1 = h1  l1 = l1
    None = None
    Entry <- TwoEntries
    SysEntry = {e2}
    Header <- OneHeader
    Link <- OneLink
    LinkBase <- MCLinkBase
    MaxActions = 3
    a = a  b = b
    App = {a, b}
    Private = {p}
    Unknown = {u}
    Before <- Committed
    Rejected <- Bad
    LinkDef <- Defined
    Pair <- Pairs
    Caller = {t1, t2}
    MaxCalls = 2
    MaxFail = 1
SPECIFICATION MCSpec
INVARIANTS
    LinksFollowLast ReadsForward
    UpdatesShown
PROPERTIES
    ImplementsShard
\* The actions and the zome calls come to an end.
CHECK_DEADLOCK FALSE
