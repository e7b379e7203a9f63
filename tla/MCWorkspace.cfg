SPECIFICATION Spec
CONSTANTS
    Users = {ann, bob}
    Slots = {first, second}
    Definitions = {strict}
    Outcomes = {bid, skip}
    None = None
    MaxRequests = 4
CHECK_DEADLOCK FALSE
SYMMETRY Symmetry
INVARIANTS
    TypeOK
    AdminUnlessRaced
    NewestLinkWins
    AloneNeverFails
    AnswersStand
