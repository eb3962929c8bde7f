SPECIFICATION Spec
CONSTANTS
    Requests = {r1, r2, r3}
    Limit = 2
    WindowSeconds = 1
    Ms = 2
    Lag = 0
    Lead = 0
    MaxTime = 3
SYMMETRY Symmetry
INVARIANTS RequestLimit
