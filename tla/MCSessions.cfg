SPECIFICATION SessionsSpec
CONSTANTS
    Devices = {phone, laptop}
    Slots = {first, second}
    None = None
    MaxRequests = 3
CHECK_DEADLOCK FALSE
SYMMETRY Symmetry
INVARIANTS
    SessionsTypeOK
    
    ResetSignsOut
    LinksWorkOnce
