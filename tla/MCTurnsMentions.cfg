SPECIFICATION FairSpec
CONSTANTS
    d1 = d1
    d2 = d2
    d3 = d3
    d4 = d4
    ask = ask
    more = more
    ping = ping
    again = again
    thread = thread
    r1 = r1
    r2 = r2
    None = None
    Delivery = {d1, d2, d3, d4}
    Event = {ask, ping, again}
    EventOf <- MentionsEventOf
    Mention = {ping, again}
    Source = {thread}
    Root = {r1, r2}
    BotRoot = {r1, r2}
    MaxCrashes = 0
    Failures = FALSE
    Overruns = FALSE
    SourceOf <- SourcesOf
    RootOf <- RootsOf
CHECK_DEADLOCK FALSE
INVARIANTS
    StraysCorrected
PROPERTIES
    EveryTurnEnds
