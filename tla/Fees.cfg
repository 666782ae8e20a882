SPECIFICATION Spec
CONSTANTS
    r1 = r1
    r2 = r2
    r3 = r3
    s1 = s1
    s2 = s2
    c1 = c1
    l1 = l1
    l2 = l2
    None = None
    Request <- ThreeRequests
    Student <- TwoStudents
    Section <- OneSection
    Level <- TwoLevels
    SectionOf <- AllInOneSection
    Price <- Prices23
    Payment <- Amount1
    Ops <- AllOps
SYMMETRY Symmetry
INVARIANTS
    TypeOK
    StatusNeverAhead
    SerialStatusMatches
PROPERTIES
    NeverPendingAgain
    BackfillCoversEnrolled
CHECK_DEADLOCK FALSE
