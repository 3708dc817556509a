SPECIFICATION Spec
CONSTANTS
    t1 = t1
    t2 = t2
    Turn = {t1, t2}
    Ceiling = 2
    Minute = 2
    MaxTime = 2
    MaxSays = 2
    None = None
VIEW Deciding
SYMMETRY Interchangeable
CHECK_DEADLOCK FALSE
INVARIANTS
    AnswerStandsAlone
    PressesCount
    LabelIsTrue
    PaidWithinBudget
