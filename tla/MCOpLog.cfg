SPECIFICATION Spec
CONSTANTS
    MaxOps = 4
    MaxSeg = 2
    MaxFaults = 2
    MaxDoubleFaults = 0
    MaxVanish = 1
    MaxKills = 1
    MaxPowerLosses = 1
INVARIANTS TypeOK AckedSafe NoPhantom OneChain NeverBricked
PROPERTIES ImplementsJournal
CHECK_DEADLOCK FALSE
