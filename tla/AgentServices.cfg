SPECIFICATION Spec
CONSTANTS
  Signers = {"p1"}
  MaxKeys = 3
  MaxKeyOps = 6
  MaxKeyCrashes = 2
  Procs = {"p1", "p2"}
  Owners = {"o1"}
  Skills = {"s1"}
  DeepTtl = 2
  MaxEvents = 3
  MaxTime = 2
  MaxRestarts = 1
  Workers = {"w1"}
  Tasks = {"t1"}
  GarbledFields = {"count", "sig"}
  MaxDispatches = 2
  MaxEntries = 2
  MaxReceipts = 2
  MaxStored = 1
  Shards <- PolicyShards
  Actions = {"a1", "a2"}
  Sessions = {"n1"}
  Rules <- PolicyRules
  MaxLog = 2
  MaxReports = 1
  LaneAgents <- LaneNames
  Window = 1
  Levels <- DigestLevels
  DistillMax = 1
  EntryCost = 3
  DigestCost = 2
  TierCost <- TierCosts
  MaxLane = 2
  MaxNow = 3
  MaxDigests = 4
  MaxFailed = 1
  MaxMerges = 1
INVARIANTS TypesOK     ViewsAgree 
CHECK_DEADLOCK FALSE
