SPECIFICATION FairDownloadSpec
CONSTANTS
    g = g
    a2 = a2
    a3 = a3
    b1 = b1
    b2 = b2
    b3 = b3
    cr = cr
    s1 = s1
    p1 = p1
    Peer = {p1}
    PeerBest <- MCPeerBest
    Elsewhere <- MCElsewhere
    Limit = 1
    LocatorSize = 2
    FarBehind = 2
    NoBlock = NoBlock
    NoTx = NoTx
    NoStake = NoStake
    Genesis = g
    Block <- MCBlock
    Tx <- MCTx
    Outpoint <- MCOutpoint
    Parent <- MCParent
    Ancestors <- MCAncestors
    Height <- MCHeight
    Trust <- MCTrust
    Creator <- MCCreator
    Ins <- MCIns
    Vtx <- MCVtx
    Generated <- MCGenerated
    Maturity = 1
    RewardBefore <- MCReward
    RewardAfter <- MCReward
    Stake <- MCStake
    ProofOfStake <- MCProofOfStake
    Unacceptable <- MCUnacceptable
INVARIANT OrphansAreLinked
INVARIANT OrphansAwaitParent
 
 
