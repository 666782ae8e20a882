SPECIFICATION Spec
CONSTANTS
    r1 = r1
    r2 = r2
    r3 = r3
    x1 = x1
    j1 = j1
    j2 = j2
    j3 = j3
    s1 = s1
    t1 = t1
    t2 = t2
    l1 = l1
    l2 = l2
    None = None
    Earlier = Earlier
    Request <- ThreeRequests
    Exam <- OneExam
    Subject <- ThreeSubjects
    Level <- TwoLevels
    SubjectsOf <- TwoAndOne
    Student <- OneStudent
    Term <- TwoTerms
    TermOfYear <- OneTerm
    Total <- OneTwo
    Marks <- OneTwo
    Ops <- AllOps
INVARIANTS
    TypeOK
    MarksWithinTotal
    SerialExamKeepsAPaper
PROPERTIES
    SerialClosedExamsFrozen
SYMMETRY Symmetry
CHECK_DEADLOCK FALSE
