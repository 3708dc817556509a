SPECIFICATION Spec
CONSTANTS
    laptop = laptop
    desk = desk
    ann = ann
    bob = bob
    Endpoint = {laptop}
    Owner = {ann, bob}
    SessionId = {s1, s2}
    RunId = {r1}
    Agent = {codex}
    Offers = {{codex}}
    OwnerOf <- MCOwnerOf
    MaxSlots = 1
    MaxAttachments = 2
    MaxOpens = 2
    MaxRestarts = 1
    Retention = TRUE
    Outages = FALSE
    Orderly = FALSE
    Reopens = FALSE
    EagerDelete = FALSE
    None = None
SYMMETRY Interchangeable
VIEW WithServed
CHECK_DEADLOCK FALSE
INVARIANTS
    LegBelongsToOwner
    LiveHasRow
    JournalReachable
    OnlyServedLeaveRows
