SPECIFICATION Spec
CONSTANTS
    a1 = a1
    a2 = a2
    a3 = a3
    s1 = s1
    s2 = s2
    s3 = s3
    Addr = {a1, a2, a3}
    Source = {s1, s2, s3}
    NBucket = {1, 2, 3}
    KBucket = {1}
    GetNewBucket <- MCGetNewBucket
    GetTriedBucket <- MCGetTriedBucket
    NewSize = 1
    TriedSize = 1
    PerAddress = 2
    GetAddrPct = 50
    GetAddrMax = 2500
    MaxIds = 4
INVARIANT CheckPasses
INVARIANT BucketsBounded
PROPERTY TriedStayKnown
PROPERTY RestartKeepsTable
