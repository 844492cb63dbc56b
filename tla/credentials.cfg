SPECIFICATION FairSpec
CONSTANTS
    Names = {"openai"}
    Ids = {1, 2}
    Callers = {1, 2}
    MaxExits = 2
INVARIANTS OneCardPerName FulfilledIsSealed 
PROPERTIES PendingEnds CallEnds
CHECK_DEADLOCK FALSE
