SPECIFICATION FairSpec
CONSTANTS
    Shapes = {"vault", "fleet"}
    Ticks = {"tick1", "tick2"}
    Polls = {"poll1", "poll2"}
    MaxLogins = 2
    MaxGen = 3
    MaxFaults = 1
INVARIANTS LineageKept  CompletedIsSaved
PROPERTIES KeptAlive
CHECK_DEADLOCK FALSE
