CONSTANTS
    a1 = a1  a2 = a2  b1 = b1  A = A  B = B
    NoEntry = NoEntry
    Entry <- MCEntry
    EntryType <- MCEntryType
    TypeOf <- MCTypeOf
    Second = {1, 2}
    MaxHeaders = 3
    Commits <- MCCommits
    Searches <- MCSearches
    Limits = {1, 2}
    MaxLength = 5
SPECIFICATION MCSpec
INVARIANTS
    ChainComplete  AnsweredOnChain
    NothingMissed
 
