SPECIFICATION PanelSpec
CONSTANTS
    MaxJobs = 2
    History = 1
    MaxSeq = 5
    EventBuffer = 3
    ChanCap = 2
    Polls = {r1}
INVARIANTS CancelHonoured Findable QuietAfterShutdown Seamless LinesKept
PROPERTIES CancelUnwinds ShutdownReturns PageCatchesUp
CHECK_DEADLOCK FALSE
