SPECIFICATION FairSpec
CONSTANTS
    Schedules = {"poll"}
    Period = 2
    MaxDelay = 2
    Timers = {1, 2}
    Loaders = {1, 2}
    MaxChanges = 2
    MaxFailures = 1
    MaxExits = 1
INVARIANTS Spaced EnabledIsArmed
PROPERTIES EnabledFires
CHECK_DEADLOCK FALSE
