SPECIFICATION Spec
CONSTANTS
    Calls = {c1, c2}
    MaxSamples = 4
    Ttl = 2
    Num = 1
    Den = 1
    Skew = 1
    MaxClock = 4
SYMMETRY Symmetry
INVARIANTS TypeOK JudgedRegular
PROPERTIES ImplementsNewest
