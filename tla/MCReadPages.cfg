CONSTANTS
    agent = agent
    t1 = t1
    t2 = t2
    x = x
    y = y
    early = early
    late = late
    k1 = k1
    k2 = k2
    k3 = k3
    k4 = k4
    Owner = owner
    Reader = {owner, agent}
    Token = {k1, k2, k3, k4}
    Text = text
    Unknown = unknown
    Any = any
    None = none
    Claim <- MCClaim
    Query <- MCQuery
    MaxCursors = 2
    MaxMembers = 3
    PageLimit = 2
    Vaults <- MCVaults
    MaxSeq = 5
SPECIFICATION Spec
INVARIANTS
    TypeOK
    PagesTile
    ReceiptsResolve
    DisputesAreComponents
CHECK_DEADLOCK FALSE
