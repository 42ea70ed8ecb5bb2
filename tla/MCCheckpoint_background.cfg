SPECIFICATION Spec
CONSTANTS
    MaxLives = 2
    MaxOps = 2
    MaxSaves = 1
    SegOps = 1
    Serialized = FALSE
    ResaveInterrupt = FALSE
INVARIANTS RecoversPrefix
CHECK_DEADLOCK FALSE
