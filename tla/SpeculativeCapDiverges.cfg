\* A cap of one: a file uses an overlay entry whose publication was cap-blocked.
CONSTANTS
    N = 3
    a1 = a1
    a2 = a2
    f1 = f1
    Miss = Miss
    Worker = {w1, w2}
    NoWorker = NoWorker
    Cap = 1
    Key <- MCKey
    Bucket <- MCBucket
    Digest <- CollidingDigest
    Loc <- MCLoc
    Kind <- MCKind
    KeyAt <- MCKeyAt
    Goto <- MCGoto
    Entries <- CapEntries
SYMMETRY WorkerSymmetry
SPECIFICATION Spec
INVARIANTS ByteIdentical
