SPECIFICATION Spec
CONSTANTS
    None = None
    BaseCurrency = "USD"
    NoCurrency = "-"
    Currency = "BDT"
    RuleSets <- MCRuleSets
    Profiles <- MCProfiles
    Rates <- MCRates
    Contents <- MCContents
    Readings <- MCReadings
    MaxTime = 3
    MaxChanges = 2
INVARIANTS
    TypeOK
    NeverRejectedUnread
    
PROPERTIES
    LearningNeverFlips
CHECK_DEADLOCK FALSE
