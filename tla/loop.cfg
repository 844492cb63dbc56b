SPECIFICATION Spec
CONSTANTS
    MaxIterations = 4
    RepeatN = 2
    StormN = 2
    BufferSize = 2
    Nudges = 1
    MaxKicks = 2
    MaxBatch = 2
INVARIANTS QuietWhenGated StormIsCut
PROPERTIES DoneOrTold RoomIsAnswered
