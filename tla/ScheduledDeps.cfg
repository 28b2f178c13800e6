\* The default schedule, digests without collisions.
CONSTANTS
    N = 4
    a1 = a1
    a2 = a2
    f1 = f1
    Miss = Miss
    Worker = {w1, w2}
    NoWorker = NoWorker
    Cap = 4
    Mode = "deps"
    Key <- MCKey
    Bucket <- MCBucket
    Digest <- ExactDigest
    Loc <- MCLoc
    Kind <- MCKind
    KeyAt <- MCKeyAt
    Goto <- MCGoto
    Entries <- MCEntries
SYMMETRY WorkerSymmetry
SPECIFICATION ScheduledSpec
INVARIANTS ScheduledInTime PredictionExact ReplaySeesDependencies
