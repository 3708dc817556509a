SPECIFICATION Spec
CONSTANTS
    SessionId = {s1, s2}
    MaxSessions = 2
    MaxOutbox = 1
    MaxFailures = 1
    MaxDown = 1
    Laptop = laptop
    Ann = ann
    Run = r1
    Codex = codex
    None = None
VIEW Deciding
SYMMETRY Interchangeable
CHECK_DEADLOCK FALSE
INVARIANTS
    Agreement
    FilesOutliveWriters
PROPERTIES
    CancelledNeverSpawn
