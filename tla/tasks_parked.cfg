SPECIFICATION FairSpec
CONSTANTS
    Tasks = {1, 2}
    Destructive = {1}
    Priority <- MCPriority
    Slots = {1, 2}
    SlowPolls = FALSE
    Handlers = {"chat", "wake", "sweep", "resume"}
    MaxBlocks = 1
    MaxExits = 1
PROPERTIES ParkedIsTicked
