\* One address that can be removed and registered again, one subject of each
\* kind, two overlapping jobs of which one may fail.
SPECIFICATION Spec
CONSTANTS
    Addresses = {a1}
    Rows = {r1, r2}
    Instants = {i1}
    Reminders = {s1}
    Updates = {u1}
    Jobs = {j1, j2}
    None = None
    Subscriptions <- McSubscriptions
    MaxLinks = 2
    MaxFailures = 1
INVARIANTS
    TypeOK
    

    
SYMMETRY McSymmetry
