\* Write errors whose repair fails too: what the log still promises.
SPECIFICATION FairSpec
CONSTANTS
    MaxOps = 4
    MaxSeg = 3
    MaxFaults = 1
    MaxDoubleFaults = 1
    MaxVanish = 0
    MaxKills = 1
    MaxPowerLosses = 0
INVARIANTS TamperEvident
PROPERTIES EventuallyDurable
CHECK_DEADLOCK FALSE
