SPECIFICATION Spec
CONSTANTS
    Users = {u1, u2}
    Workshops = {}
    EventLevel = event
    Nobody = nobody
    Nowhere = nowhere
    Slots = {s1, s2}
    Requests <- EventDesk
    Capacities = {1}
    MaxRegs = 2
    MaxCrashes = 1
SYMMETRY Peers
INVARIANTS
    TypeOK
    SeatAccounting
    OneLiveRegistration
    WaitlistBacked
    ToldTheTruth
PROPERTIES
    ImplementsLedger
