SPECIFICATION Spec
CONSTANTS
    Emails = {amina}
    Passwords = {p1, p2}
    Roles = {"ADMIN", "ATTENDEE"}
    Slots = {s1, s2}
    Operations <- SessionsOnly
    MaxSessions = 3
    MaxLinks = 0
    MaxRequests = 4
    MaxFailures = 0
SYMMETRY Peers
INVARIANTS
    AllSignedOut
CHECK_DEADLOCK FALSE
