SPECIFICATION Spec
CONSTANTS
    laptop = laptop
    desk = desk
    ann = ann
    bob = bob
    Endpoint = {laptop, desk}
    Owner = {ann, bob}
    SessionId = {s1, s2}
    RunId = {r1}
    Agent = {codex, claude}
    Offers = {{codex}}
    OwnerOf <- MCOwnerOf
    MaxSlots = 2
    MaxAttachments = 2
    None = None
SYMMETRY Interchangeable
CHECK_DEADLOCK FALSE
INVARIANTS
    SlotAccounting
    ResumeTimerIffOffline
    SameTenant
    QuitIsOwn
PROPERTIES
    NeverOverbooked
    BrokerSpec
