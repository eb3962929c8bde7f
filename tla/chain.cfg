SPECIFICATION Spec
CONSTANTS
    Requests = {r1, r2}
    Clients = {admin, user}
    Admins = {admin}
    NoToken = NoToken
    Anonymous = Anonymous
    Ips = {i1, i2}
    NoIp = NoIp
    Limit = 1
SYMMETRY Symmetry
INVARIANTS TypeOK DeniedCostsNothing NoServiceAfterBlock CountersAddUp
