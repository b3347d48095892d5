SPECIFICATION Spec
CONSTANTS
    Listing <- SomePaths
    Above <- SomeAbove
    Dirs = {"mods"}
    Policies <- SomePolicies
    Kinds = {"backup"}
    BuiltIn <- NoRules
    FromUser <- KeepOne
    Root = "."
    AMPLines <- NoLines
    Early = 1
    MaxTime = 2
    MaxEvents = 0
    Ticks <- SomeTicks
    MaxJobs = 0
INVARIANT KeptInside
CHECK_DEADLOCK FALSE
