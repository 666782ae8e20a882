SPECIFICATION Spec
CONSTANTS
    r1 = r1
    r2 = r2
    r3 = r3
    t1 = t1
    s1 = s1
    m1 = m1
    m2 = m2
    marks = marks
    None = None
    Request <- ThreeRequests
    Teacher <- OneTeacher
    Section <- OneSection
    Subject <- TwoSubjects
    AccessType <- OneType
    SameLevel <- ScopeOfM1
    ValidScope <- ScopeOfM1
    Ops <- AllOps
    MaxRunning = 3
SYMMETRY Symmetry
INVARIANTS
    TypeOK
    OneWinnerPerStatus
    OneOpenRow
    SerialOneClassTeacher
    SubjectTeachersHaveASubject
PROPERTIES
    ImplementsLifecycle
