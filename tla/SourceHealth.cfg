\* Six runs, so that a portal goes down, recovers and goes down again, after as
\* many failures as before or after more; the ticks it takes to go quiet; a fault.
SPECIFICATION Spec
CONSTANTS
    None = None
    DownAfter = 2
    StaleAfter = 1
    MaxRuns = 6
    MaxTicks = 2
    MaxFaults = 1
    MaxSwitches = 1
CHECK_DEADLOCK FALSE
INVARIANTS
    TypeOK
    RecordsTellTruth
    OutagesAreAlerted
