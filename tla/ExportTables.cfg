\* Every graph of export stars on four modules, re-exports of every kind on three.
CONSTANTS
    N = 4
    Name <- MCName
    None = None
    Programs <- MCPrograms
SPECIFICATION Spec
INVARIANTS TypeOnlyKept EntryComplete TablesSound
