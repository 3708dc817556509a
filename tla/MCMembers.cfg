SPECIFICATION FairSpec
CONSTANTS
    None = None
    Person = {ann}
    MaxOwners = 2
    MaxCodes = 2
    MaxEndpoints = 2
    MaxTokens = 2
    MaxSessions = 1
    MaxLegs = 1
    MaxCalls = 2
INVARIANTS
    CodePairsOnce
    RemovedKeepNothing
    RemovalReports
PROPERTIES
    RemovedLegsDrop
CHECK_DEADLOCK FALSE
