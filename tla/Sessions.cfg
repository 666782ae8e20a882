SPECIFICATION Spec
CONSTANTS
    r1 = r1
    r2 = r2
    r3 = r3
    u1 = u1
    p1 = p1
    p2 = p2
    s1 = s1
    None = None
    Request <- ThreeRequests
    User <- OneUser
    Password <- TwoPasswords
    Old <- OneOld
    MaxSessions = 2
    Ttl = 2
    MaxTime = 2
    Ops <- Calling
INVARIANTS
    TypeOK
    SerialSessionLimit
    SerialSessionsMatchPassword
PROPERTIES
    EndedFamiliesStayEnded
SYMMETRY Symmetry
CHECK_DEADLOCK FALSE
