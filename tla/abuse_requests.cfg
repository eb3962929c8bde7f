SPECIFICATION Spec
CONSTANTS
    Requests = {r1, r2}
    Ips = {ip1}
    Names = {ip1}
    Anonymous = anonymous
    NoLogin = noLogin
    IpThreshold = 2
    UserThreshold = 2
    FailWindow = 1
    BlockTtl = 2
    Entropies = {"none", "low", "lowest"}
    ShadowDefault = TRUE
    MaxRetries = 1
    MaxAdmin = 1
SYMMETRY Symmetry
INVARIANTS TypeOK FailureOvershoot VerdictLoggedOrEnforced
