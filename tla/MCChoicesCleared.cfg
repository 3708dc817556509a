SPECIFICATION Spec
CONSTANTS
    codex = codex
    claude = claude
    symma = symma
    site = site
    large = large
    deep = deep
    Conv = {c1, c2}
    Agent = {codex, claude}
    Root = {symma, site}
    Mode = {auto}
    Model = {large, deep}
    Roster <- Own
    Strict = {claude}
    Situation <- Situations
    MaxDeeds = 2
    MaxSessions = 1
    Overlap = FALSE
    None = None
INVARIANTS
    ClearedStaysCleared
SYMMETRY Interchangeable
CHECK_DEADLOCK FALSE
