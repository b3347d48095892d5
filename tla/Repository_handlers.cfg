SPECIFICATION Spec
CONSTANTS
    o1 = o1
    o2 = o2
    Objects <- OneObject
    Snaps <- TwoSnaps
    Overlap = {"handlers"}
INVARIANT SparesReachable
