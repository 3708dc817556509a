SPECIFICATION FairSpec
CONSTANTS
    Given <- Calls
    Ask <- Asks
    MaxSays = 3
    MaxWire = 3
    LateReplay = FALSE
    None = None
CHECK_DEADLOCK FALSE
INVARIANTS
    PromptAsChosen
    ReadOnlyNeverWrites
    HistoryOnce
    ReportIsTrue
    NarratesThisTurn
    AnswerIsLastMessage
PROPERTIES
    Settles
