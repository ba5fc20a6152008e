SPECIFICATION Spec
CONSTANTS MaxPolls = 2
          Ttl <- RegimeTtl
          MaxTime = 2
          MaxDelay = 1
          MaxSubmits = 2
          MaxCalls = 1
          Managers = {"m1"}
          RetainEntries = 1
          MaxIds = 2
          MaxLen = 4
          MaxFaults = 2
          MaxKept = 1
          MaxLcOps = 3
          Layers = {"p1", "p2"}
          Critical = {"f1"}
          MaxApi = 1
          TokenLife = 1
          MaxVersion = 2
          MaxTokens = 1
          MaxAge = 1
          MaxAsks = 2
          Storers = {"p1"}
          Contents = {"h1", "h2"}
          LogEntries = {"e1", "e2"}
          MaxStores = 5
          MaxCrashes = 2
          Agents = {"p1", "p2"}
          Files = 2
          MaxLogged = 1
          MaxBuilds = 3
          Trackers = {"p1", "p2"}
          MaxSessions = 2
          MaxBeats = 2
          MaxKills = 1
INVARIANTS TypesOK    ReplayTrusted BaselineGuarded
CHECK_DEADLOCK FALSE
