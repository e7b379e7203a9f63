\* Two rows, two overlapping pumps, two admins; one crash, three retries.
SPECIFICATION FairSpec
CONSTANTS
    Emails = {e1, e2}
    Pumps = {p1, p2}
    Admins = {a1, a2}
    None = None
    BatchSize = 2
    MaxAttempts = 2
    MaxCrashes = 1
    MaxRequeues = 3
INVARIANTS
    TypeOK
    
PROPERTIES
    KeepsPromise
    SettlesUnlessOrphaned
\* Everything may be sent, with nobody left to enqueue or retry.
CHECK_DEADLOCK FALSE
