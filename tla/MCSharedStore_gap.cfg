SPECIFICATION Spec
CONSTANTS
    MaxLives = 2
    MaxOps = 2
    MaxWork = 3
INVARIANTS CoverageExact
CHECK_DEADLOCK FALSE
