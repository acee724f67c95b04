SPECIFICATION WalletSpec
CONSTANTS
    g = g
    r = r
    a1 = a1
    a2 = a2
    a3 = a3
    b1 = b1
    b2 = b2
    b3 = b3
    c2 = c2
    cr = cr
    s = s
    t = t
    v = v
    x = x
    y = y
    or = or
    oc = oc
    os = os
    ov = ov
    ot = ot
    NoBlock = NoBlock
    NoTx = NoTx
    Genesis = g
    Block <- MCBlock
    Tx <- MCTx
    Outpoint <- MCOutpoint
    Parent <- MCParent
    Ancestors <- MCAncestors
    Height <- MCHeight
    Trust <- MCTrust
    Creator <- MCCreator
    Ins <- MCIns
    Vtx <- MCVtx
    Generated <- MCGenerated
    Maturity = 1
    RewardBefore <- MCReward
    RewardAfter <- MCReward
    Mine <- MCMine
    FirstOut <- MCFirstOut
    WalletMaturity = 2
    MaxCrashes = 1
INVARIANT SpentCoinsAreMarked
 
INVARIANT WalletKnowsChain
INVARIANT LedgerIsOfBestChain
INVARIANT RestartFindsBlocks
PROPERTY MovesToValidChains
INVARIANT OnlyStakedCoinsReturn
