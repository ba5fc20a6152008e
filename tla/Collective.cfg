SPECIFICATION Spec
CONSTANTS
    Agents = {a1, a2}
    WindowSize = 3
    PullLimit = 1
    RateLimit = 1
    Entries = {e1, e2}
    MaxCalls = 5
    MaxFails = 1
    MaxRestarts = 1
INVARIANTS TypeOK AgentChain NothingSkipped RateBound
PROPERTIES ReadsOwnPolicy
SYMMETRY Renaming
CHECK_DEADLOCK FALSE
