SPECIFICATION Spec
CONSTANTS
    Gateways = {g1, g2}
    ip1 = ip1
    ip2 = ip2
    ip3 = ip3
    agent1 = agent1
    NoAgent = none
    Ips = {ip1}
    Agents = {agent1}
    Bits = {1, 2, 3, 4}
    Hash <- MCHash
    Capacity = 1
    MaxPending = 1
SYMMETRY Symmetry
INVARIANTS TypeOK AckedBlockEnforced NoInventedBlock
PROPERTIES ImplementsBlockLists
