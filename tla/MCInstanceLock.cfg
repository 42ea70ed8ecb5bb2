SPECIFICATION FairSpec
CONSTANTS
    o1 = o1  o2 = o2  o3 = o3  o4 = o4
    p1 = p1  p2 = p2  p3 = p3
    h1 = h1  h2 = h2
    Openers = {o1, o2, o3, o4}
    Processes = {p1, p2, p3}
    ProcessOf <- MCProcessOf
    HostOf <- MCHostOf
    NoOne = NoOne
    Orphan = Orphan
    MaxInodes = 5
    MaxPolls = 1
    MaxOrphans = 1
    Interleaved = FALSE
INVARIANTS TypeOK Exclusive
PROPERTIES StaleReplaced OpenEnds
CHECK_DEADLOCK FALSE
