SPECIFICATION Spec
CONSTANTS
    Requests = {r1, r2, r3, r4}
    Limit = 2
    WindowSeconds = 3
    Ms = 2
    Lag = 1
    Lead = 1
    MaxTime = 10
SYMMETRY Symmetry
INVARIANTS TypeOK WindowLimit RetryAfterHonoured
PROPERTIES PromiseWithinQuota ImplementsContract
