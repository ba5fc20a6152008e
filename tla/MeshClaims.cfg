SPECIFICATION Spec
CONSTANTS
    Agents = {1, 2}
    Slots = {s1, s2}
    Types = {1}
    Capabilities <- Generalists
    MaxLog = 9
    MaxMissions = 1
    MaxTasks = 1
    MaxBoots = 1
    MaxRefusals = 0
    MaxTimeouts = 0
    MaxPacks = 0
PROPERTIES ClaimKept
CHECK_DEADLOCK FALSE
