SPECIFICATION Spec
CONSTANTS
    MaxLives = 3
    MaxOps = 3
    MaxSaves = 2
    SegOps = 1
    Serialized = TRUE
    ResaveInterrupt = TRUE
INVARIANTS RecoversPrefix
CHECK_DEADLOCK FALSE
