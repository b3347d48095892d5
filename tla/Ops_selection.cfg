SPECIFICATION Spec
CONSTANTS
    Listing <- SomePaths
    Above <- SomeAbove
    Dirs = {"mods"}
    Policies <- SomePolicies
    Kinds = {"backup", "restore"}
    BuiltIn <- NoRules
    FromUser <- NoRules
    Root = "."
    AMPLines <- NoLines
    Early = 0
    MaxTime = 1
    MaxEvents = 0
    Ticks <- SomeTicks
    MaxJobs = 1
INVARIANT TickedIsRestored
CHECK_DEADLOCK FALSE
