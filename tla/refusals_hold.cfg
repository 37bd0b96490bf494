SPECIFICATION Spec
CONSTANTS
    Users = {u1, u2}
    Workshops = {w1}
    EventLevel = event
    Nobody = nobody
    Nowhere = nowhere
    Slots = {s1, s2}
    Requests <- Refusing
    Capacities = {1}
    MaxRegs = 2
    MaxCrashes = 0
SYMMETRY Peers
PROPERTIES
    RefusalsHold
