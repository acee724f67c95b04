SPECIFICATION Spec
CONSTANTS
    g = g
    r = r
    a1 = a1
    a2 = a2
    a3 = a3
    b1 = b1
    b2 = b2
    b3 = b3
    b4 = b4
    d1 = d1
    cr = cr
    ca = ca
    cd = cd
    t = t
    u = u
    v = v
    w = w
    or = or
    oa = oa
    od = od
    ot = ot
    NoBlock = NoBlock
    NoTx = NoTx
    Genesis = g
    Block <- MCBlockTiny
    Tx <- MCTx
    Outpoint <- MCOutpoint
    Parent <- MCParent
    Ancestors <- MCAncestors
    Height <- MCHeight
    Trust <- MCTrust
    Creator <- MCCreator
    Ins <- MCIns
    Vtx <- MCVtxValid
    Generated <- MCGenerated
    Maturity = 1
    RewardBefore <- MCRewardBeforeTiny
    RewardAfter <- MCRewardAll
PROPERTY TrustOnlyGrows
CHECK_DEADLOCK FALSE
