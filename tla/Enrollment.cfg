SPECIFICATION Spec
CONSTANTS
    r1 = r1
    r2 = r2
    s1 = s1
    s2 = s2
    s3 = s3
    y1 = y1
    y2 = y2
    c1 = c1
    c2 = c2
    None = None
    Request <- TwoRequests
    Student <- Students
    Known <- Pupils
    Year <- TwoYears
    Section <- TwoSections
    YearOf <- YearOfTwo
    GivenRoll <- Two
    StatusChoice <- TwoStatuses
    Lists <- ListsOfTwo
    Ops <- AllOps
INVARIANTS
    TypeOK
PROPERTIES
    PromoteCoversAll
    SerialRollsStayDense
    SerialPromotionMoves
SYMMETRY Symmetry
CHECK_DEADLOCK FALSE
