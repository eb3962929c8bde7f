SPECIFICATION FairSpec
CONSTANTS
    Requests = {r1, r2}
    Ips = {ip1}
    Names = {}
    Anonymous = anonymous
    NoLogin = noLogin
    IpThreshold = 2
    UserThreshold = 3
    FailWindow = 2
    BlockTtl = 2
    Entropies = {"none", "lowest"}
    ShadowDefault = FALSE
    MaxRetries = 0
    MaxAdmin = 1
PROPERTIES LockoutEnds SoftBlockEnds LockoutFades BlockFades
