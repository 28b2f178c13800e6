\* A type-only star below one star hides what another star exports.
CONSTANTS
    N = 4
    Name <- MCName
    None = None
    Programs <- MCStarPrograms
SPECIFICATION Spec
INVARIANT StarNotTypeOnly
