\* A member's expansion overwrites the published heritage re-entry.
CONSTANTS
    N = 3
    MaxRequests = 2
    None = None
    Decl <- MCDecl
    Programs <- MCGenericPrograms
SPECIFICATION Spec
CHECK_DEADLOCK FALSE
INVARIANT MemoComplete
