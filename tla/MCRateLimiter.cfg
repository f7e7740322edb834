SPECIFICATION Spec
CONSTANTS
    Requests = {r1, r2, r3}
    Rate = 2
    Burst = 2
    Second = 3
    MaxNow = 4
SYMMETRY Symmetry
INVARIANTS
    TypeOK
    WindowBound
    BucketIsExact
    RetryAfterSuffices
PROPERTIES
    RefusesOnlyWhenExhausted
    ImplementsCurve
