\* Two threads, two shapes, colliding fingerprints, one shard, overload merges.
CONSTANTS
    x = x
    y = y
    hashG = hashG
    hashH = hashH
    Thread = {t1, t2}
    NoReq = NoReq
    DeadShape = x
    Addr = {a1, a2}
    NoAddr = NoAddr
    Shape = {x, y}
    Hash = {hashG, hashH}
    Fingerprint <- MCFingerprint
    Shard = {1}
    ShardOf <- MCShardOf
    MergeShape <- MCMergeShape
    MinSweep = 1
    IdSpace = 3
    MaxMisses = 3
    MaxMerges = 2
    NoId = NoId
SYMMETRY MCSymmetry
CHECK_DEADLOCK FALSE
SPECIFICATION Spec
INVARIANTS TypeOK OneLivePayload IdsDistinct MergeFaithful
