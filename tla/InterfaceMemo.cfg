\* Three declarations, plain and generic, with members and signatures.
CONSTANTS
    N = 3
    MaxRequests = 2
    None = None
    Decl <- MCDecl
    Programs <- MCPrograms
SPECIFICATION FairSpec
CHECK_DEADLOCK FALSE
INVARIANTS
    IncompleteIsOpen MarksReleased SharedComplete
    QuietMemoComplete
PROPERTY Answers
