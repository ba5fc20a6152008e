SPECIFICATION Spec
CONSTANTS
    Procs = {p1, p2}
    Budget = 1
    Cooldown = 0
    PollCooldown = 1
    DayLength = 3
    Window = 3
    MaxTime = 3
    MaxCalls = 5
    MaxFaults = 2
SYMMETRY ProcSymmetry
INVARIANTS TypeOK CommitmentsHonest SessionsFramed BudgetChargedByResults
CHECK_DEADLOCK FALSE
