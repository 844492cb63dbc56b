SPECIFICATION Spec
CONSTANTS
    Pids = {1, 2, 3, 4, 5, 6}
    Calls = {1, 2}
    Budget = 1
    MaxEvents = 2
INVARIANTS  TrackedIsWatched FlagHasOwner
PROPERTIES StopSticks
CHECK_DEADLOCK FALSE
