SPECIFICATION Spec
CONSTANTS
    r1 = r1
    r2 = r2
    r3 = r3
    d1 = d1
    s1 = s1
    None = None
    Earlier = Earlier
    Request <- ThreeRequests
    Date <- OneDate
    Student <- OneStudent
    Weekday <- SundayMonday
    WeekdayOf <- Mondays
    DefaultOff <- Sunday
    OffChoice <- OffSundayOrBoth
    Recordable <- OneDate
    Ops <- AllOps
INVARIANTS
    TypeOK
    OneSaveWins
    SerialViewsAddUp
PROPERTIES
    SerialSavedOnSchoolDays
SYMMETRY Symmetry
CHECK_DEADLOCK FALSE
