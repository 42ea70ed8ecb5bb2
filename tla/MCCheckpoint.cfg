SPECIFICATION Spec
CONSTANTS
    MaxLives = 4
    MaxOps = 2
    MaxSaves = 2
    SegOps = 1
    Serialized = TRUE
    ResaveInterrupt = FALSE
INVARIANTS TypeOK  AppliedOnce ContentServed NeverRefused SeqnosGrow
CHECK_DEADLOCK FALSE
