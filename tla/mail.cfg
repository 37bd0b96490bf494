SPECIFICATION Spec
CONSTANTS
    u1 = u1
    u2 = u2
    ticket = ticket
    notice = notice
    plain = plain
    fresh = fresh
    Missing = missing
    Nobody = nobody
    Keys <- Templated
    Channels = {"EMAIL", "SMS"}
    Contents <- Wordings
    Defaults <- FileDefaults
    Users <- TwoUsers
    Facts <- IntakeFacts
    Orders <- IntakeOrders
    Slots = {s1, s2}
    Attempts = 2
    RetryAttempts = 1
    MaxJobs = 4
    MaxFailures = 1
SYMMETRY Peers
INVARIANTS
    TypeOK
    SecondMailExplained
    NoneForgotten
PROPERTIES
    ImplementsMailbox
CHECK_DEADLOCK FALSE
