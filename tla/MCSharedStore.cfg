SPECIFICATION Spec
CONSTANTS
    MaxLives = 3
    MaxOps = 2
    MaxWork = 4
INVARIANTS TypeOK CoverageHonest Recoverable AppliedOnce
CHECK_DEADLOCK FALSE
