SPECIFICATION HomeworkSpec
CONSTANTS
    r1 = r1
    r2 = r2
    e1 = e1
    t1 = t1
    s1 = s1
    c1 = c1
    m1 = m1
    m2 = m2
    y1 = y1
    y2 = y2
    new = new
    Admin = Admin
    None = None
    Lost = Lost
    Caller <- TwoCallers
    Earlier <- OneEarlier
    Teacher <- OneTeacher
    Student <- OneStudent
    Section <- OneSection
    Subject <- TwoSubjects
    Year <- TwoYears
    Text <- OneText
    SameLevel <- BothOfSection
    YearOf <- FirstYear
SYMMETRY Symmetry
CONSTRAINT FewScopes
INVARIANTS
    OnlyTheEntitledAreServed
    ListedIsReadable
