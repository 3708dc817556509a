SPECIFICATION FairSpec
CONSTANTS
    SessionId = {s1}
    MaxSessions = 1
    MaxOutbox = 2
    MaxFailures = 2
    MaxDown = 1
    Laptop = laptop
    Ann = ann
    Run = r1
    Codex = codex
    None = None
VIEW Deciding
CHECK_DEADLOCK FALSE
PROPERTIES
    ZombiesEnd
    GhostsEnd
