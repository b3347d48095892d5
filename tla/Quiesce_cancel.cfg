SPECIFICATION Spec
CONSTANTS
    NoRun = 0
    Runs <- OneRun
    Faults = {"cancel"}
INVARIANT UnwindRestoresSaving
CHECK_DEADLOCK FALSE
