SPECIFICATION Spec
CONSTANTS
    None = None
    Bad = Bad
    Requests = {r1, r2}
    Rate = 1
    Burst = 1
    Second = 1
    MaxNow = 1
    Incoming <- MCIncoming
    Hangups = 1
INVARIANTS
    WorkIsPaidFor
    BatchIsAnswered
    MalformedNeverRuns
    AuditIsFaithful
PROPERTIES
    EveryRequestEnds
