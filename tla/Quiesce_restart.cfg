SPECIFICATION Spec
CONSTANTS
    NoRun = 0
    Runs <- TwoRuns
    Faults = {"crash"}
INVARIANT StartRestoresSaving
CHECK_DEADLOCK FALSE
