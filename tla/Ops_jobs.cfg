SPECIFICATION Spec
CONSTANTS
    Listing <- SomePaths
    Above <- SomeAbove
    Dirs = {"mods"}
    Policies <- SomePolicies
    Kinds = {"backup", "restore", "housekeeping"}
    BuiltIn <- SomeBuiltIn
    FromUser <- SomeFromUser
    Root = "."
    AMPLines <- SomeLines
    Early = 1
    MaxTime = 4
    MaxEvents = 2
    Ticks <- SomeTicks
    MaxJobs = 1
INVARIANTS Recoverable NothingElse Restored DecidesRight Covered
CHECK_DEADLOCK FALSE
