SPECIFICATION Spec
CONSTANTS
    None = None
    a = a
    b = b
    Queries <- MCScopeQueries
    Entries <- MCScopeEntries
    MaxInitial = 2
    MaxLen = 2
    MaxFaults = 0
INVARIANTS
    UserRecordsIncluded
