SPECIFICATION Spec
CONSTANTS
    None = None
    Matching = {1, 3}
    Others = {}
    Props <- MCProps
    Queries <- MCServiceQueries
    MaxChanges = 0
    MaxFaults = 1
INVARIANT
    PropertiesIndependent
