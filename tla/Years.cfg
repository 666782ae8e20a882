SPECIFICATION FairSpec
CONSTANTS
    r1 = r1
    r2 = r2
    r3 = r3
    y1 = y1
    y2 = y2
    s1 = s1
    None = None
    Request <- ThreeRequests
    Year <- TwoYears
    Date <- OneRange
    SectionName <- OneSection
    Ops <- YearOps
    MaxRunning = 3
INVARIANT
    TypeOK
PROPERTIES
    NeverWithoutCurrent
    SerialSetCurrentClearsOthers
    EveryCallAnswered
CHECK_DEADLOCK FALSE
