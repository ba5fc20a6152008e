SPECIFICATION Spec
CONSTANTS
    Procs = {p1, p2}
    MaxEvents = 2
    EntrySizes = {FALSE, TRUE}
    QuietRecovery = TRUE
    MaxWrites = 4
    MaxFails = 2
    MaxTorn = 1
    MaxTruncations = 1
INVARIANTS WriteOrder LossIsVisible
PROPERTIES PinNeverRegresses
SYMMETRY ProcSymmetry
