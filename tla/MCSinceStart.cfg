SPECIFICATION Spec
CONSTANTS
    None = None
    Mistyped = Mistyped
    Bad = Bad
    Milli = 2
    Week = 3
    MaxLimit = 3
    DefaultLimit = 1
    Fields = {}
    Requests <- MCRequests
    MaxTime = 4
    MaxEntries = 3
    MaxFaults = 1
INVARIANTS
    RowsOnce
    WholeRun
PROPERTY
    NoOldRun
