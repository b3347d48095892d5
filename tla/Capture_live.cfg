SPECIFICATION Spec
CONSTANTS
    Cold = {c}
    Hot = {h}
    NoFile = NoFile
    Sizes = {1}
    Disk = 3
    Reserve = 1
    MaxRereads = 2
    MaxWrites = 3
    MaxTime = 1
    MaxRuns = 2
INVARIANTS Faithful AsFlushed NothingLeftOut ReserveKept
CHECK_DEADLOCK FALSE
