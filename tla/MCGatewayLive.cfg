SPECIFICATION FairSpec
CONSTANTS
    laptop = laptop
    desk = desk
    ann = ann
    bob = bob
    Endpoint = {laptop}
    Owner = {ann, bob}
    SessionId = {s1}
    RunId = {r1}
    Agent = {codex}
    Offers = {{codex}}
    OwnerOf <- MCOwnerOf
    MaxSlots = 1
    MaxAttachments = 2
    MaxOpens = 1
    MaxRestarts = 0
    Retention = TRUE
    Outages = TRUE
    Orderly = FALSE
    Reopens = FALSE
    EagerDelete = FALSE
    None = None
CHECK_DEADLOCK FALSE
PROPERTIES
    ForgottenForGood
    AbandonedSessionsEnd
