\* Both passes over three files, two workers.
CONSTANTS
    N = 3
    c1 = c1
    c2 = c2
    u1 = u1
    g1 = g1
    Miss = Miss
    Worker = {w1, w2}
    NoWorker = NoWorker
    Cap = 4
    Key <- MCKey
    Class <- MCClass
    Bucket <- MCBucket
    Digest <- MCDigest
    Loc <- MCLoc
    Kind <- MCKind
    KeyAt <- MCKeyAt
    Goto <- MCGoto
    GlobalBlock <- MCGlobalBlock
    Passes <- MCPasses
SPECIFICATION Spec
INVARIANTS SerialEquivalence EmittedOnce MemoCarried
