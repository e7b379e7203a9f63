SPECIFICATION ProfilesSpec
CONSTANTS
    None = None
    Slots = {s1, s2}
    MaxRequests = 4
    Limit = 2
    Columns = {"overview"}
    RowIds = {"service", "iso"}
    SectionOf <- Sections
    Values = {v1, v2}
SYMMETRY Symmetry
CHECK_DEADLOCK FALSE
INVARIANTS
    ProfilesTypeOK
    
    EditsAreFollowed
    LimitLifts
