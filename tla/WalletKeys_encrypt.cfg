SPECIFICATION Spec
CONSTANTS
    h1 = h1
    Holder = {h1}
    KeyPool = 1
    MaxKeys = 4
    MaxUnlocks = 2
    MaxChanges = 1
    MaxCrashes = 1
INVARIANT PoolIsReadable
INVARIANT KeysGivenOnce
INVARIANT EncryptedWhole
INVARIANT GivenKeysAreRecorded
INVARIANT UnlockedIsTimed
CHECK_DEADLOCK FALSE
