SPECIFICATION Spec
CONSTANTS
    Emails = {amina}
    Passwords = {p1, p2}
    Roles = {"ADMIN", "ATTENDEE"}
    Slots = {s1, s2}
    Operations <- Everything
    MaxSessions = 3
    MaxLinks = 2
    MaxRequests = 4
    MaxFailures = 1
SYMMETRY Peers
INVARIANTS
    TypeOK
    SignedOut
    RotatedOnce
    LinkWorksOnce
    UsedLinkWorks
    AccountGetsLink
    RoleReachesTokens
CHECK_DEADLOCK FALSE
