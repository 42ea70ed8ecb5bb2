SPECIFICATION Spec
CONSTANT
  Chosen = {"lineage", "debts", "interventions", "constraints", "triggers", "tasks",
           "sessions", "registries", "themes", "agents", "memory", "couple", "edges", "triplets", "derived",
           "code", "tapes", "kept", "pair", "edited", "backfill", "startup", "index", "wide", "recall", "readers", "movers", "abi"}
  MaxCalls = 3
  TaskIds = {"t"}
  Writers = {1, 2}
  MaxTs = 2
  MaxTriggers = 2
  MaxNow = 2
  Objects = {"a", "b"}
  MaxFacts = 3
  MaxFailures = 2
  EvidenceIds = {"m"}
  Criteria = {"c"}
  MaxEntries = 4
  Skills = {"s"}
  Agents = {"a"}
  Entities = {"e"}
  Clusters = {"k"}
  Threshold = 80
  Lanes <- StartupLanes
  Cells = {"triplets", "symbols", "spans"}
  Holders = {"turbo", "replication"}
  MaxFaults = 1
  BackfillIds = {1, 2}
  Alike <- NearIds
  Drains = {"d1"}
  Unlocked = {}
  Limit = 1
  MaxEdits = 1
  MaxCrashes = 1
  IndexIds = {1}
  Realms = {"r"}
  FlatMax = 1
  Tier2 = 2
  RealmMin = 2
  MaxVersion = 2
  MaxChanges = 4
  MaxPlans = 1
  RecallIds = {1, 2, 3, 4}
  RealmOf <- RealmOfId
  Targets = {"a", "b"}
  Soul = {"soul"}
  Stored = {1, 2, 3}
  StoredEdges <- OneEdge
  InWindow = {1, 3}
  Bridges = {}
  PprLane = TRUE
  Sessions = {1}
  Menus <- OneMenu
  K = 2
  MinStore = 1
  Hops = 1
  Interval = 1
  Budget = 1
  Floor = 2
  MaxClock = 1
  MaxQueries = 1
  MaxBuffer = 3
  MaxAttempts = 2
  Items <- StoredItems
  NoVec = "none"
  Near <- NearPairs
  MaxMemories = 1
  MaxMemoryCalls = 2
  MaxMoments = 2
  CodeKeys <- CodePairs
  ProjectOf <- OwnProject
  MaxCodeCalls = 4
  EdgeIds = {1, 2}
  EdgeProfiles <- StoredProfiles
  EdgeSessions = {"s"}
  Neighbours <- OneNeighbour
  ChainLength = 1
  MaxPairs = 1
  MaxEdgeCalls = 2
  TripletIds = {"1", "2"}
  TripletSessions = {"s", "u"}
  Facts <- OneConfirmation
  File = "f"
  Source = "2"
  Weights = {2}
  MaxTriplets = 1
  MaxTripletCalls = 1
INVARIANTS
  OrgansKept Fenced DeliveredOnce JudgementsSound RecordsReplayed MemoriesKept
  EdgesSound TripletsExact CodeKept TapesSound BackfillSound StartupSound SearchFresh
  RecallSound AbiHonest TwinsSound
PROPERTIES
  MeasureMutatesNothing Progress
CHECK_DEADLOCK FALSE
