SPECIFICATION Spec
CONSTANTS
    r1 = r1
    r2 = r2
    r3 = r3
    y1 = y1
    y2 = y2
    s1 = s1
    None = None
    Request <- ThreeRequests
    Year <- OneYear
    Date <- ThreeDates
    SectionName <- NoSection
    Ops <- DatesOps
    MaxRunning = 2
SYMMETRY Symmetry
INVARIANTS
    TermsWithinYear
    SerialDatesInOrder
CHECK_DEADLOCK FALSE
