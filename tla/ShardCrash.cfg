SPECIFICATION Spec
CONSTANTS
    Procs = {p1, p2}
    MaxEvents = 2
    EntrySizes = {FALSE}
    QuietRecovery = TRUE
    MaxWrites = 5
    MaxFails = 3
    MaxTorn = 0
    MaxTruncations = 0
INVARIANTS TypeOK CommittedChain NoFalseAlarm SegmentBound
PROPERTIES RecoveryPinsTip ImplementsLedger
