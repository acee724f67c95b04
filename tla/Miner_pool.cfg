SPECIFICATION MinerSpec
CONSTANTS
    g = g
    r = r
    a1 = a1
    a2 = a2
    b1 = b1
    b2 = b2
    c3 = c3
    cr = cr
    t = t
    u = u
    v = v
    w = w
    x = x
    or = or
    os = os
    ot = ot
    ov = ov
    NoBlock = NoBlock
    NoTx = NoTx
    Genesis = g
    Block <- MCBlock
    Tx <- MCTx
    Outpoint <- MCOutpoint
    Parent <- MCParent
    Ancestors <- MCAncestors
    Height <- MCHeight
    Trust <- MCTrust
    Creator <- MCCreator
    Ins <- MCIns
    Vtx <- MCVtx
    Generated <- MCGenerated
    Maturity = 1
    RewardBefore <- MCReward
    RewardAfter <- MCReward
    Nonstandard <- MCNone
    MaxOrphans = 2
INVARIANT PoolIsIndexed
INVARIANT OrphansAreIndexed
PROPERTY QueueReachesOrphans
INVARIANT WorkConnects
INVARIANT StaleWorkStops
