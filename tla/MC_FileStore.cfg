\* Two processes share a directory; files run out, system calls fail, one dies.
CONSTANTS
    Processes = {p1, p2}
    Requests <- Calls
    KeysFor <- KeysOf
    Byte = {1, 2}
    Values <- Entries
    Inodes = {f1, f2, f3, f4}
    None = None
    MaxStray = 1
    Population <- Everything
SYMMETRY Interchangeable
SPECIFICATION Spec
INVARIANTS
    FileStoreTypeOK
    TempsAccounted
    KeysDistinct
PROPERTY ImplementsStore
