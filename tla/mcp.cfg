SPECIFICATION FairSpec
CONSTANTS
    Children = {1, 2, 3}
    ImportantAt = 5
    MaxFaults = 8
INVARIANTS NoneLeft DeathIsHeard 
PROPERTIES ImplementsContract ComesBack
CHECK_DEADLOCK FALSE
