SPECIFICATION FairSpec
CONSTANTS
    Pids = {1, 2, 3, 4, 5, 6}
    Calls = {1}
    Budget = 0
    MaxEvents = 2
PROPERTIES DeathIsNoticed DoublesEnd CallsEnd
CHECK_DEADLOCK FALSE
