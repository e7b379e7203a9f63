SPECIFICATION Spec
CONSTANTS
    None = None
    Matches = {ours, theirs}
    Jobs = {first, second}
    Similarities = {65, 80}
    Verdicts = {"eligible", "ineligible"}
    Budget = 5
    Estimate = 2
    Costs = {2, 3}
    MaxAttempts = 2
    Deadline = 1
    MaxTime = 1
    MaxRuns = 3
SYMMETRY Symmetry
CHECK_DEADLOCK FALSE
INVARIANTS
    TypeOK
    
    
