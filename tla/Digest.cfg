\* One match (matches do not interact), three days of four ticks, one change of settings, one failure.
SPECIFICATION FairDigestSpec
CONSTANTS
    Matches = {m1}
    DayLength = 4
    DigestTimes = {1, 3}
    Offsets = {0, 1}
    MaxTime = 9
    MaxEdits = 1
    MaxFailedRuns = 1
    Never = Never
INVARIANTS
    
    OneDigestPerDate
PROPERTIES
    
    DueDigestRuns
\* The clock stops at MaxTime and the results expire.
CHECK_DEADLOCK FALSE
