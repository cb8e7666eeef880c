SPECIFICATION Spec
CONSTANTS
    Ips = {a, b}
    Cost = 4
    Rate = 1
    Cap = 8
    Second = 2
    Idle = 8
    MaxTime = 10
    NoPromise = NoPromise
SYMMETRY Symmetry
INVARIANTS
    WithinBudget
    RetryAfterIsEnough
PROPERTIES
    ImplementsTokenBucket
