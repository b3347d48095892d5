SPECIFICATION Spec
CONSTANTS
    MaxTime = 7
    Day = 4
    HouseAt = 1
    Grace = 1
    MaxSleep = 3
    Settings <- SomeSettings
INVARIANTS Prompt Accounted
PROPERTY Spaced
CHECK_DEADLOCK FALSE
