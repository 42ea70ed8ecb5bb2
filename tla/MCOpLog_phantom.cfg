\* A failed append() whose record is delivered by the next replay.
SPECIFICATION Spec
CONSTANTS
    MaxOps = 2
    MaxSeg = 3
    MaxFaults = 1
    MaxDoubleFaults = 1
    MaxVanish = 0
    MaxKills = 1
    MaxPowerLosses = 0
INVARIANTS NoPhantom
CHECK_DEADLOCK FALSE
