SPECIFICATION Spec
CONSTANTS
    a0 = a0
    a1 = a1
    a2 = a2
    t1 = t1
    t2 = t2
    f0 = f0
    m = m
    n = n
    Block = {a0, a1, a2, t1, t2, f0}
    Parent <- ParentOf
    BlockIndex <- IndexOf
    Tokens <- TokensOf
    ModelOf <- HolderOf
    BlockTokens = 3
    BoundaryBytes = 2
    Maximum = 15
    Stride = 3
    Disturbances = 1
    NoBlock = NoBlock
    NoModel = NoModel
INVARIANTS
    TypeOK
    ChainsAreComplete
    QuotaIsKept
    RestartPointsAreKept
    AcknowledgedIsRestorable
