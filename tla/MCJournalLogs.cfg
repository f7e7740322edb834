SPECIFICATION Spec
CONSTANTS
    None = None
    a = a
    b = b
    Queries <- MCQueries
    Entries <- MCEntries
    MaxInitial = 3
    MaxLen = 4
    MaxFaults = 1
INVARIANTS
    TypeOK
    NoDuplicates
    NoGaps
    CompleteIsComplete
    CursorIsExact
PROPERTIES
    ImplementsWalk
    WalkEnds
