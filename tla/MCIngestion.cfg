\* Two notices, a text that changes and changes back, four runs, two failures
\* and a sweep.  A run knows one notice again and gives up at one failure, so
\* that it walks past notices it holds, and gives up with notices ahead.
SPECIFICATION Spec
CONSTANTS
    None = None
    Texts = {a, b}
    Limits = {1, 2}
    SeenLimit = 1
    GiveUpAfter = 1
    MaxNotices = 2
    MaxAmends = 2
    MaxRuns = 4
    MaxFailures = 2
    MaxErrands = 1
INVARIANTS
    TypeOK
    NoticesReachThePipeline
    
SYMMETRY McSymmetry
\* The runs are used up, and then everything is done.
CHECK_DEADLOCK FALSE
