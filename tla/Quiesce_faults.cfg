SPECIFICATION FairSpec
CONSTANTS
    NoRun = 0
    Runs <- TwoRuns
    Faults <- AllFaults
INVARIANTS HotSheltered HotFlushed NeverSilent NoStrayTimer
PROPERTIES ClaimedOnce Rescued
