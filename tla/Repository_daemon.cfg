SPECIFICATION FairSpec
CONSTANTS
    o1 = o1
    o2 = o2
    Objects <- OneObject
    Snaps <- TwoSnaps
    Overlap = {"slowJobs", "handlers"}
INVARIANTS NoDangling TrashIsRecoverable
PROPERTIES DeletesOnlyGarbage LivesOn Collected
