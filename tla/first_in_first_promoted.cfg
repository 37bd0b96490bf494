SPECIFICATION Spec
CONSTANTS
    Users = {u1, u2, u3, u4}
    Workshops = {w1}
    EventLevel = event
    Nobody = nobody
    Nowhere = nowhere
    Slots = {s1}
    Requests <- WorkshopAttendees
    Capacities = {1}
    MaxRegs = 4
    MaxCrashes = 0
SYMMETRY Peers
PROPERTIES
    FirstInFirstPromoted
