SPECIFICATION Spec
CONSTANTS
    Agents = {1, 2}
    Slots = {s1, s2}
    Types = {1}
    Capabilities <- Generalists
    MaxLog = 6
    MaxMissions = 1
    MaxTasks = 1
    MaxBoots = 2
    MaxRefusals = 1
    MaxTimeouts = 1
    MaxPacks = 1
SYMMETRY SlotSymmetry
INVARIANTS TypeOK ReceiptsDurable AuditTrail
PROPERTIES OnlyStaleCopiesUndo
CHECK_DEADLOCK FALSE
