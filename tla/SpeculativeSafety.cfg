\* Three files, two workers, no bucket ever full, two keys with one digest.
CONSTANTS
    N = 3
    a1 = a1
    a2 = a2
    f1 = f1
    Miss = Miss
    Worker = {w1, w2}
    NoWorker = NoWorker
    Cap = 4
    Key <- MCKey
    Bucket <- MCBucket
    Digest <- CollidingDigest
    Loc <- MCLoc
    Kind <- MCKind
    KeyAt <- MCKeyAt
    Goto <- MCGoto
    Entries <- MCEntries
SYMMETRY WorkerSymmetry
SPECIFICATION Spec
INVARIANTS TypeOK SerialEquivalence ByteIdentical PublicationComplete ReplayHitsAreFinal
PROPERTY ImplementsSerial
