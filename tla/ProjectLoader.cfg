\* Five files: packages, relative imports, references and type packages; two readers.
CONSTANTS
    N = 5
    File <- MCFile
    Name <- MCName
    NumReaders = 2
    ParallelFrom = 2
    None = None
    Worlds <- MCWorlds
SPECIFICATION FairSpec
INVARIANTS LoadedOnce OwnText DiscoveryOrder FirstResolution OwnResolution
PROPERTIES ImplementsClosure Termination
