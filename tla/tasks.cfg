SPECIFICATION FairSpec
CONSTANTS
    Tasks = {1, 2}
    Destructive = {1}
    Priority <- MCPriority
    Slots = {1, 2}
    SlowPolls = FALSE
    Handlers = {"wake", "sweep", "resume"}
    MaxBlocks = 2
    MaxExits = 1
INVARIANTS  DestructiveRunsAreAsked RunningIsOwned
PROPERTIES ImplementsExecutor PendingIsPicked WaitEnds
