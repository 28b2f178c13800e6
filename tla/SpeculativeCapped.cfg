\* A cap of one: the bucket of a1 and a2 fills up and publications are skipped;
\* the walk still ends.
CONSTANTS
    N = 3
    a1 = a1
    a2 = a2
    f1 = f1
    Miss = Miss
    Worker = {w1, w2}
    NoWorker = NoWorker
    Cap = 1
    Key <- MCKey
    Bucket <- MCBucket
    Digest <- CollidingDigest
    Loc <- MCLoc
    Kind <- MCKind
    KeyAt <- MCKeyAt
    Goto <- MCGoto
    Entries <- FewEntries
SPECIFICATION FairSpec
INVARIANT RecheckComplete
PROPERTY Termination
