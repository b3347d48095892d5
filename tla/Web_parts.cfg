SPECIFICATION Spec
CONSTANTS
    Requests = {q1, q2, q3}
    Snapshots = {s1, s2}
    Large = {s2}
    MaxTrees = 2
    Files <- SomeFiles
    Dirs <- SomeDirs
    Sizes <- SomeSizes
    Pages = {p1}
    Polls = {1, 2}
    pageOf <- SomePolls
    MaxVersion = 3
    Calls = {c1, c2, c3}
    Borrowed = {c3}
    Forbidden = {c2}
    MaxSessions = 2
    Updates = {u1, u2}
    Seed = seed
    Torn = torn
    Tabs = {t1, t2}
    MaxSignIns = 2
INVARIANTS FailureLeaves AddsUp Unseen Heard Authored
PROPERTIES NeverBackwards Settles CallKept Atomic
CHECK_DEADLOCK FALSE
