SPECIFICATION ConferenceSpec
CONSTANTS
    Users = {u1, u2}
    Workshops = {w1}
    EventLevel = event
    Nobody = nobody
    Nowhere = nowhere
    Slots = {s1}
    Requests <- TheEventToo
    Capacities = {1}
    MaxRegs = 2
    MaxCrashes = 0
    Start = 51
    LastHour = 4
    MaxMissed = 1
    MaxRequests = 3
    Facts <- FactsOfTheEvent
    MaxLost = 1
SYMMETRY People
CONSTRAINT OneFailure
INVARIANTS
    ConferenceTypeOK
    RemindedInTime
    ConfirmedIsMailed
CHECK_DEADLOCK FALSE
