SPECIFICATION FairSpec
CONSTANTS
    Users = {u1, u2}
    Workshops = {w1}
    EventLevel = event
    Nobody = nobody
    Nowhere = nowhere
    Slots = {s1, s2}
    Requests <- Attendance
    Capacities = {1}
    MaxRegs = 2
    MaxCrashes = 0
INVARIANTS
    NoIdleSeat
PROPERTIES
    ConfirmedIsTold
    EveryRequestAnswered
