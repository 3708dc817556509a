SPECIFICATION Spec
CONSTANTS
    d1 = d1
    d2 = d2
    d3 = d3
    d4 = d4
    ask = ask
    more = more
    ping = ping
    again = again
    thread = thread
    r1 = r1
    r2 = r2
    None = None
    Delivery = {d1, d2, d3}
    Event = {ask, more}
    EventOf <- ThreadsEventOf
    Mention = {}
    Source = {}
    Root = {r1}
    BotRoot = {}
    MaxCrashes = 1
    Failures = TRUE
    Overruns = FALSE
    SourceOf <- SourcesOf
    RootOf <- RootsOf
CHECK_DEADLOCK FALSE
INVARIANTS
    OneRunPerThread
    RunOnce
PROPERTIES
    LeftTurnsGiveWay
