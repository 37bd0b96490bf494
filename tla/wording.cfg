SPECIFICATION FairSpec
CONSTANTS
    u1 = u1
    u2 = u2
    ticket = ticket
    notice = notice
    plain = plain
    fresh = fresh
    Missing = missing
    Nobody = nobody
    Keys <- Templated
    Channels = {"EMAIL", "SMS"}
    Contents <- Wordings
    Defaults <- FileDefaults
    Users <- TwoUsers
    Facts <- WordingFacts
    Orders <- WordingOrders
    Slots = {s1}
    Attempts = 2
    RetryAttempts = 1
    MaxJobs = 4
    MaxFailures = 1
INVARIANTS
    OptOutRespected
    CacheExplained
PROPERTIES
    ComesToRest
CHECK_DEADLOCK FALSE
