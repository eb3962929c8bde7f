SPECIFICATION Spec
CONSTANTS
    Requests = {r1}
    Ips = {ip1}
    Names = {}
    Anonymous = anonymous
    NoLogin = noLogin
    IpThreshold = 2
    UserThreshold = 3
    FailWindow = 2
    BlockTtl = 2
    Entropies = {"none", "lowest"}
    ShadowDefault = TRUE
    MaxRetries = 0
    MaxAdmin = 1
SYMMETRY Symmetry
INVARIANT WouldBeBlocksNotEnforced
