SPECIFICATION Spec
CONSTANTS
    Procs = {p1, p2}
    MaxEvents = 2
    EntrySizes = {FALSE}
    QuietRecovery = FALSE
    MaxWrites = 3
    MaxFails = 1
    MaxTorn = 0
    MaxTruncations = 0
PROPERTIES PinNeverRegresses
