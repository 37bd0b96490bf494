SPECIFICATION Spec
CONSTANTS
    Users = {u1, u2, u3}
    Workshops = {w1}
    EventLevel = event
    Nobody = nobody
    Nowhere = nowhere
    Slots = {s1}
    Requests <- WorkshopAttendees
    Capacities = {1}
    MaxRegs = 3
    MaxCrashes = 0
SYMMETRY Peers
INVARIANTS
    CapacityEnforced
