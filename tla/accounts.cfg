SPECIFICATION Spec
CONSTANTS
    Requests = {r1, r2, r3}
    Names = {n1, n2}
    Emails = {e1, e2}
    Passwords = {p1, p2}
    Ttl = 0
    Skew = 1
    LoginTime = 1
    MaxClock = 3
SYMMETRY Symmetry
INVARIANTS
    TypeOK
    RegistrationsStand
    AdminRecently
PROPERTIES ImplementsRegistry
