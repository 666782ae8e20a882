-------------------------- MODULE EnrollmentProofs --------------------------
(***************************************************************************)
(* A promotion that is answered has covered its list, for any number of    *)
(* concurrent calls, students, years and sections; and, while handlers do  *)
(* not overlap, generated roll numbers continue those of the section and a *)
(* promotion moves a student.                                              *)
(*                                                                         *)
(* Rows are never deleted and keep their year, so whom a promotion is past *)
(* has a row in the target year for good (Covered).                        *)
(***************************************************************************)
EXTENDS Enrollment, FiniteSetTheorems, WellFoundedInduction, TLAPS

Locals == [year : Year \cup {None}, roll : Nat, todo : Seq(Student), previous : Year \cup {None}]

At == Done \cup {"idle", "check", "count", "insert", "find", "write", "existing", "previous",
                 "commit"}

Types ==
    /\ enrollments \in [Known -> [Year -> Row \cup {NoRow}]]
    /\ pc \in [Request -> At]
    /\ call \in [Request -> Calls \cup {NoCall}]
    /\ seen \in [Request -> Locals]
    /\ alone \in BOOLEAN

RowOf(k) == enrollments[k[1]][k[2]]

OfTheirYear == \A k \in Rows : YearOf[RowOf(k).section] = k[2]

\* the row created last has the highest stamp, and there are as many as rows
Stamped == \A k \in Rows : RowOf(k).at <= Cardinality(Rows)

\* how many students of its list a promotion is past
Behind(r) == Len(call[r].list) - Len(seen[r].todo)

\* those it is past have a row in the target year; the others are in todo
Covered(r) ==
    /\ seen[r].todo # << >> /\ Len(seen[r].todo) <= Len(call[r].list)
    /\ \A i \in 1 .. Len(seen[r].todo) : seen[r].todo[i] = call[r].list[i + Behind(r)]
    /\ \A i \in 1 .. Behind(r) :
         call[r].list[i] \in Known => <<call[r].list[i], Target(r)>> \in Rows

Promoting == {"existing", "previous", "commit"}

\* What a handler relies on at each statement.
Fits(r) ==
    /\ pc[r] \in Done \cup {"idle"} => call[r] = NoCall
    /\ pc[r] \notin Done \cup {"idle"} => call[r] \in Calls
    /\ pc[r] \in {"find", "write"} => call[r].op = "update"
    /\ pc[r] = "write" => <<call[r].student, call[r].year>> \in Rows
    /\ pc[r] \in {"check", "count"} => call[r].op \in {"enroll", "promote"}
    /\ pc[r] = "count" => call[r].roll = None /\ seen[r].todo = call[r].list
    /\ pc[r] = "insert" => call[r].op = "enroll" /\ seen[r].roll # 0
    /\ pc[r] \in {"count", "insert"} /\ call[r].op = "enroll" => call[r].student \in Known
    /\ pc[r] \in {"count", "insert"} \cup Promoting => Target(r) = YearOf[call[r].section]
    /\ pc[r] \in Promoting => call[r].op = "promote" /\ Covered(r)
    /\ pc[r] \in {"previous", "commit"} => First(r) \in Known
    /\ pc[r] = "commit" =>
         /\ seen[r].roll # 0
         /\ seen[r].previous # None => <<First(r), seen[r].previous>> \in Rows

Inv == Types /\ OfTheirYear /\ Stamped /\ \A r \in Request : Fits(r)

-----------------------------------------------------------------------------
(* Calls, rows and sequences *)

CallShape(c) ==
    /\ c.op \in {"enroll", "update", "promote"}
    /\ c.roll = None \/ c.roll \in Nat \ {0}
    /\ c.op = "enroll" => c.student \in Student /\ c.section \in Section
    /\ c.op = "update" => /\ c.student \in Student /\ c.year \in Year
                          /\ c.status \in Status \cup {None}
    /\ c.op = "promote" => /\ c.section \in Section /\ c.roll = None
                           /\ c.list \in Seq(Student) /\ c.list # << >>
    /\ c.list \in Seq(Student)
    /\ c.year \in Year \cup {None}

LEMMA CallFacts == \A c \in Calls : CallShape(c) /\ c # NoCall
<1> SUFFICES ASSUME NEW c \in Calls
             PROVE  CallShape(c) /\ c # NoCall
  OBVIOUS
<1>1. \/ c \in Body("enroll", Student, Year \cup {None}, Section, GivenRoll \cup {None}, {None}, {<< >>})
      \/ c \in Body("update", Student, Year, {None}, GivenRoll \cup {None}, StatusChoice \cup {None}, {<< >>})
      \/ c \in Body("promote", {None}, Year \cup {None}, Section, {None}, {None}, Lists)
  BY DEF Calls
<1>2. << >> \in Seq(Student) /\ Lists \subseteq Seq(Student) \ {<< >>}
      /\ GivenRoll \subseteq Nat \ {0} /\ StatusChoice \subseteq Status
  BY EnrollmentAssumption
<1>3. CASE c \in Body("enroll", Student, Year \cup {None}, Section, GivenRoll \cup {None}, {None}, {<< >>})
  <2>1. /\ c.op = "enroll" /\ c.student \in Student /\ c.section \in Section /\ c.list = << >>
        /\ c.year \in Year \cup {None} /\ c.roll \in GivenRoll \cup {None}
    BY <1>3 DEF Body
  <2>2. c.list \in Seq(Student)
    BY <1>2, <2>1
  <2>3. c.roll = None \/ c.roll \in Nat \ {0}
    BY <1>2, <2>1
  <2>4. c # NoCall
    BY <2>1 DEF NoCall
  <2> QED BY <1>2, <2>1, <2>2, <2>3, <2>4 DEF CallShape
<1>4. CASE c \in Body("update", Student, Year, {None}, GivenRoll \cup {None}, StatusChoice \cup {None}, {<< >>})
  <2>1. /\ c.op = "update" /\ c.student \in Student /\ c.year \in Year /\ c.list = << >>
        /\ c.status \in StatusChoice \cup {None} /\ c.roll \in GivenRoll \cup {None}
    BY <1>4 DEF Body
  <2>2. c.list \in Seq(Student)
    BY <1>2, <2>1
  <2>3. c.roll = None \/ c.roll \in Nat \ {0}
    BY <1>2, <2>1
  <2>4. c # NoCall
    BY <2>1 DEF NoCall
  <2> QED BY <1>2, <2>1, <2>2, <2>3, <2>4 DEF CallShape
<1>5. CASE c \in Body("promote", {None}, Year \cup {None}, Section, {None}, {None}, Lists)
  <2>1. /\ c.op = "promote" /\ c.section \in Section /\ c.roll = None /\ c.list \in Lists
        /\ c.year \in Year \cup {None}
    BY <1>5 DEF Body
  <2> QED BY <1>2, <2>1 DEF CallShape, NoCall
<1> QED BY <1>1, <1>3, <1>4, <1>5

\* Nothing that stands for "no row" is a row.
LEMMA NoRowFacts ==
    NoRow \notin Row /\ NoRow.status # "ACTIVE" /\ NoRow.status = "none"
BY DEF NoRow, Row

\* The rows are finitely many, so their number is a number.
LEMMA RowsFinite ==
    /\ IsFiniteSet(Rows) /\ Cardinality(Rows) \in Nat
    /\ \A c : IsFiniteSet(ActiveIn(c)) /\ Cardinality(ActiveIn(c)) \in Nat
    /\ \A s : IsFiniteSet(ActiveYears(s)) /\ Cardinality(ActiveYears(s)) \in Nat
<1>1. IsFiniteSet(Known \X Year) /\ Rows \subseteq Known \X Year
  BY EnrollmentAssumption, FS_Product DEF Rows
<1>2. IsFiniteSet(Rows)
  BY <1>1, FS_Subset
<1>3. \A c : IsFiniteSet(ActiveIn(c))
  BY <1>2, FS_Subset DEF ActiveIn
<1>4. \A s : IsFiniteSet(ActiveYears(s))
  BY EnrollmentAssumption, FS_Subset DEF ActiveYears
<1> QED BY <1>2, <1>3, <1>4, FS_CardinalityType

\* The row of a student and a year.
LEMMA RowFacts ==
    ASSUME Inv, NEW s \in Known, NEW y \in Year
    PROVE  /\ <<s, y>> \in Rows <=> enrollments[s][y] # NoRow
           /\ <<s, y>> \in Rows => /\ enrollments[s][y] \in Row
                                   /\ YearOf[enrollments[s][y].section] = y
                                   /\ enrollments[s][y].at <= Cardinality(Rows)
           /\ enrollments[s][y].status = "ACTIVE" => <<s, y>> \in Rows
BY NoRowFacts DEF Inv, Types, OfTheirYear, Stamped, Rows, RowOf

\* The first of a list, and what is left of it.
LEMMA ListFacts ==
    ASSUME NEW l \in Seq(Student), l # << >>
    PROVE  /\ Head(l) \in Student /\ Head(l) = l[1] /\ Len(l) \in Nat \ {0}
           /\ Tail(l) \in Seq(Student) /\ Len(Tail(l)) = Len(l) - 1
           /\ \A i \in 1 .. Len(l) - 1 : Tail(l)[i] = l[i + 1]
           /\ Len(l) # 1 => Tail(l) # << >>
<1>1. Len(l) \in Nat \ {0}
  OBVIOUS
<1>2. Head(l) \in Student /\ Head(l) = l[1]
  BY <1>1
<1>3. Tail(l) \in Seq(Student) /\ Len(Tail(l)) = Len(l) - 1
  BY <1>1
<1>4. \A i \in 1 .. Len(l) - 1 : Tail(l)[i] = l[i + 1]
  BY <1>1
<1>5. Len(l) # 1 => Len(Tail(l)) # 0
  BY <1>1, <1>3
<1>6. Len(l) # 1 => Tail(l) # << >>
  <2>1. Len(<< >>) = 0
    OBVIOUS
  <2> QED BY <1>5, <2>1
<1> QED BY <1>1, <1>2, <1>3, <1>4, <1>6

\* What a handler holds when it goes on.
Counted(l, n) == [l EXCEPT !.roll = n]

Past(l, n, t) == [l EXCEPT !.roll = n, !.todo = t, !.previous = None]

Leaving(l, y, n) == [l EXCEPT !.previous = y, !.roll = n]

LEMMA CountedFacts ==
    ASSUME NEW l \in Locals, NEW n \in Nat
    PROVE  /\ Counted(l, n) \in Locals /\ Counted(l, n).year = l.year
           /\ Counted(l, n).todo = l.todo /\ Counted(l, n).roll = n
BY DEF Locals, Counted

LEMMA PastFacts ==
    ASSUME NEW l \in Locals, NEW n \in Nat, NEW t \in Seq(Student)
    PROVE  /\ Past(l, n, t) \in Locals /\ Past(l, n, t).year = l.year
           /\ Past(l, n, t).todo = t /\ Past(l, n, t).roll = n
BY DEF Locals, Past

LEMMA LeavingFacts ==
    ASSUME NEW l \in Locals, NEW y \in Year \cup {None}, NEW n \in Nat
    PROVE  /\ Leaving(l, y, n) \in Locals /\ Leaving(l, y, n).year = l.year
           /\ Leaving(l, y, n).todo = l.todo /\ Leaving(l, y, n).roll = n
           /\ Leaving(l, y, n).previous = y
BY DEF Locals, Leaving

-----------------------------------------------------------------------------
(* What every step has in common *)

Only(r) == \A q \in Request \ {r} :
    pc'[q] = pc[q] /\ call'[q] = call[q] /\ seen'[q] = seen[q]

ControlTypes ==
    /\ pc \in [Request -> At]
    /\ call \in [Request -> Calls \cup {NoCall}]
    /\ seen \in [Request -> Locals]
    /\ alone \in BOOLEAN

\* Who has been enrolled in a year stays enrolled in it.
LEMMA StepKeeps ==
    ASSUME Inv, NEW r \in Request, ControlTypes', Only(r), Fits(r)', Rows \subseteq Rows',
           (enrollments \in [Known -> [Year -> Row \cup {NoRow}]])', OfTheirYear', Stamped'
    PROVE  Inv'
<1>1. ASSUME NEW q \in Request, q # r
      PROVE  Fits(q)'
  <2>1. pc'[q] = pc[q] /\ call'[q] = call[q] /\ seen'[q] = seen[q] /\ Fits(q)
    BY <1>1 DEF Only, Inv
  <2>2. Target(q)' = Target(q) /\ First(q)' = First(q) /\ Behind(q)' = Behind(q)
    BY <2>1 DEF Target, First, Behind
  <2>3. Covered(q) => Covered(q)'
    BY <2>1, <2>2 DEF Covered
  <2> QED BY <2>1, <2>2, <2>3 DEF Fits
<1> QED BY <1>1 DEF Inv, Types, ControlTypes

LEMMA QuietKeeps ==
    ASSUME Inv, NEW r \in Request, ControlTypes', Only(r), Fits(r)', UNCHANGED enrollments
    PROVE  Inv'
<1>1. Rows' = Rows
  BY DEF Rows
<1>2. OfTheirYear' /\ Stamped'
  BY <1>1 DEF Inv, OfTheirYear, Stamped, RowOf
<1> QED BY <1>1, <1>2, StepKeeps DEF Inv, Types

\* An answer needs nothing but its outcome.
LEMMA AnswerFits ==
    ASSUME Inv, NEW r \in Request, NEW o \in Done, Answer(r, o)
    PROVE  ControlTypes' /\ Only(r) /\ Fits(r)' /\ pc'[r] = o /\ alone' = alone
<1>1. Nothing \in Locals
  BY DEF Nothing, Locals
<1>2. /\ pc'[r] = o /\ call'[r] = NoCall /\ alone' = alone
      /\ ControlTypes' /\ Only(r)
  BY <1>1 DEF Answer, Inv, Types, ControlTypes, Only, At
<1> QED BY <1>2 DEF Fits, Done, Promoting

\* So does a handler that goes on.
LEMMA ContinueTypes ==
    ASSUME Inv, NEW r \in Request, NEW n \in At, NEW l \in Locals, Continue(r, n, l)
    PROVE  /\ ControlTypes' /\ Only(r) /\ pc'[r] = n /\ seen'[r] = l
           /\ call'[r] = call[r] /\ alone' = alone
BY DEF Continue, Inv, Types, ControlTypes, Only

\* A handler that runs, and what its call is.
LEMMA AtStatement ==
    ASSUME Inv, NEW r \in Request, pc[r] \notin Done \cup {"idle"}
    PROVE  /\ call[r] \in Calls /\ CallShape(call[r]) /\ seen[r] \in Locals /\ Fits(r)
           /\ seen[r].year \in Year \cup {None} /\ seen[r].roll \in Nat
           /\ seen[r].todo \in Seq(Student) /\ seen[r].previous \in Year \cup {None}
BY CallFacts DEF Inv, Types, Fits, Locals

LEMMA BeginKeeps ==
    ASSUME Inv, NEW r \in Request, NEW c \in Calls, Begin(r, c)
    PROVE  Inv'
<1>1. /\ pc'[r] = IF c.op = "update" THEN "find" ELSE "check"
      /\ call'[r] = c /\ CallShape(c) /\ Only(r) /\ ControlTypes'
      /\ UNCHANGED enrollments
  BY CallFacts DEF Begin, Only, ControlTypes, Inv, Types, At
<1>2. Fits(r)'
  BY <1>1 DEF Fits, Done, Promoting, CallShape
<1> QED BY <1>1, <1>2, QuietKeeps

\* A call that ends without writing.
LEMMA AnswerKeeps ==
    ASSUME Inv, NEW r \in Request, NEW o \in Done, Answer(r, o), UNCHANGED enrollments
    PROVE  Inv'
BY AnswerFits, QuietKeeps

LEMMA CheckKeeps ==
    ASSUME Inv, NEW r \in Request, Check(r)
    PROVE  Inv'
<1>1. /\ pc[r] = "check" /\ UNCHANGED enrollments /\ call[r] \in Calls /\ CallShape(call[r])
      /\ seen[r] \in Locals /\ call[r].op \in {"enroll", "promote"}
  BY AtStatement DEF Check, Done, Fits
<1>2. PICK y : IF (call[r].op = "enroll" => call[r].student \in Known) /\ y = YearOf[call[r].section]
               THEN Checked(r, y) ELSE Answer(r, "refused")
  BY DEF Check
<1>3. CASE Answer(r, "refused")
  BY <1>1, <1>3, AnswerKeeps DEF Done
<1>4. CASE /\ call[r].op = "enroll" => call[r].student \in Known
           /\ y = YearOf[call[r].section] /\ Checked(r, y)
  <2>1. y \in Year
    BY <1>1, <1>4, EnrollmentAssumption DEF CallShape
  <2>2. PICK l \in Locals :
          /\ l.year = y /\ l.todo = call[r].list
          /\ l.roll = IF call[r].roll = None THEN 0 ELSE call[r].roll
          /\ Continue(r, IF call[r].roll = None THEN "count" ELSE "insert", l)
    <3> DEFINE l == [seen[r] EXCEPT !.year = y, !.todo = call[r].list,
                                    !.roll = IF call[r].roll = None THEN 0 ELSE call[r].roll]
    <3>1. l \in Locals
      BY <1>1, <2>1 DEF Locals, CallShape
    <3>2. /\ l.year = y /\ l.todo = call[r].list
          /\ l.roll = IF call[r].roll = None THEN 0 ELSE call[r].roll
      BY <1>1 DEF Locals
    <3>3. Continue(r, IF call[r].roll = None THEN "count" ELSE "insert", l)
      BY <1>4 DEF Checked
    <3> QED BY <3>1, <3>2, <3>3, Zenon
  <2>3. PICK n \in At : n = IF call[r].roll = None THEN "count" ELSE "insert"
    BY DEF At
  <2>4. /\ ControlTypes' /\ Only(r) /\ pc'[r] = n /\ seen'[r] = l
        /\ call'[r] = call[r] /\ alone' = alone
    BY <2>2, <2>3, ContinueTypes
  <2>5. call[r].roll # None => call[r].roll # 0 /\ call[r].op = "enroll"
    BY <1>1 DEF CallShape
  <2>6. Fits(r)'
    BY <1>1, <1>4, <2>2, <2>3, <2>4, <2>5 DEF Fits, Done, Promoting, Target
  <2> QED BY <1>1, <2>4, <2>6, QuietKeeps
<1> QED BY <1>2, <1>3, <1>4

LEMMA CountActiveKeeps ==
    ASSUME Inv, NEW r \in Request, CountActive(r)
    PROVE  Inv'
<1>1. /\ pc[r] = "count" /\ UNCHANGED enrollments /\ call[r] \in Calls /\ CallShape(call[r])
      /\ seen[r] \in Locals /\ Fits(r)
  BY AtStatement DEF CountActive, Done
<1>2. PICK m \in Nat : m = Cardinality(ActiveIn(call[r].section))
  BY RowsFinite
<1> DEFINE k == IF call[r].op = "enroll" THEN m + 1 ELSE m
           l == Counted(seen[r], k)
<1>3. /\ l \in Locals /\ l.year = seen[r].year /\ l.todo = seen[r].todo
      /\ call[r].op = "enroll" => l.roll # 0
  <2>1. k \in Nat /\ (call[r].op = "enroll" => k # 0)
    OBVIOUS
  <2> HIDE DEF k
  <2> QED BY <1>1, <2>1, CountedFacts
<1>4. PICK n \in At : n = IF call[r].op = "enroll" THEN "insert" ELSE "existing"
  BY DEF At
<1>5. Continue(r, n, l)
  BY <1>2, <1>4 DEF CountActive, Counted
<1> HIDE DEF l
<1>6. /\ ControlTypes' /\ Only(r) /\ pc'[r] = n /\ seen'[r] = l
      /\ call'[r] = call[r] /\ alone' = alone
  BY <1>3, <1>5, ContinueTypes
<1>7. call[r].op = "promote" => Covered(r)'
  <2>1. call[r].op = "promote" => /\ l.todo = call[r].list /\ l.todo # << >>
                                  /\ Len(call[r].list) \in Nat
    BY <1>1, <1>3 DEF Fits, CallShape
  <2> SUFFICES ASSUME call[r].op = "promote"
               PROVE  Covered(r)'
    OBVIOUS
  <2>2. seen'[r].todo = call[r].list /\ call'[r].list = call[r].list /\ Behind(r)' = 0
    BY <1>6, <2>1 DEF Behind
  <2>3. \A i \in 1 .. Len(call[r].list) : i + 0 = i
    BY <2>1
  <2> QED BY <2>1, <2>2, <2>3 DEF Covered
<1>8. Fits(r)'
  BY <1>1, <1>3, <1>4, <1>6, <1>7 DEF Fits, Done, Promoting, Target
<1> QED BY <1>1, <1>6, <1>8, QuietKeeps

LEMMA FindEnrollmentKeeps ==
    ASSUME Inv, NEW r \in Request, FindEnrollment(r)
    PROVE  Inv'
<1>1. /\ pc[r] = "find" /\ UNCHANGED enrollments /\ seen[r] \in Locals /\ Fits(r)
  BY AtStatement DEF FindEnrollment, Done
<1>2. CASE Answer(r, "refused")
  BY <1>1, <1>2, AnswerKeeps DEF Done
<1>3. CASE <<call[r].student, call[r].year>> \in Rows /\ Continue(r, "write", seen[r])
  <2>1. /\ ControlTypes' /\ Only(r) /\ pc'[r] = "write" /\ call'[r] = call[r]
    BY <1>1, <1>3, ContinueTypes DEF At
  <2>2. Rows' = Rows
    BY <1>1 DEF Rows
  <2>3. Fits(r)'
    BY <1>1, <1>3, <2>1, <2>2 DEF Fits, Done, Promoting
  <2> QED BY <1>1, <2>1, <2>3, QuietKeeps
<1> QED BY <1>2, <1>3 DEF FindEnrollment

\* Past a student who does not exist, or has a row in the target year by now.
LEMMA AdvanceFits ==
    ASSUME Inv, NEW r \in Request, pc[r] \in {"existing", "commit"}, NEW roll \in Nat,
           Advance(r, roll), Rows \subseteq Rows',
           First(r) \in Known => <<First(r), Target(r)>> \in Rows'
    PROVE  ControlTypes' /\ Only(r) /\ Fits(r)' /\ alone' = alone
<1>1. /\ call[r] \in Calls /\ CallShape(call[r]) /\ seen[r] \in Locals /\ Fits(r)
      /\ call[r].op = "promote" /\ Covered(r) /\ Target(r) = YearOf[call[r].section]
  BY AtStatement DEF Done, Fits, Promoting
<1>2. CASE Len(seen[r].todo) = 1 /\ Answer(r, "ok")
  BY <1>2, AnswerFits DEF Done
<1>3. CASE /\ Len(seen[r].todo) # 1
           /\ Continue(r, "existing", [seen[r] EXCEPT !.roll = roll, !.todo = Tail(@), !.previous = None])
  <2>1. PICK t : t = seen[r].todo
    OBVIOUS
  <2>2. /\ t \in Seq(Student) /\ t # << >> /\ Len(t) <= Len(call[r].list) /\ Len(t) \in Nat \ {0}
        /\ Len(call[r].list) \in Nat
        /\ \A i \in 1 .. Len(t) : t[i] = call[r].list[i + Len(call[r].list) - Len(t)]
        /\ \A i \in 1 .. Len(call[r].list) - Len(t) :
             call[r].list[i] \in Known => <<call[r].list[i], Target(r)>> \in Rows
    <3>1. t \in Seq(Student) /\ call[r].list \in Seq(Student)
      BY <1>1, <2>1 DEF Locals, CallShape
    <3>2. Len(t) \in Nat \ {0} /\ Len(call[r].list) \in Nat /\ t # << >>
      BY <1>1, <2>1, <3>1, ListFacts DEF Covered
    <3>3. /\ Behind(r) = Len(call[r].list) - Len(t)
          /\ \A i \in 1 .. Len(t) : i + Behind(r) = i + Len(call[r].list) - Len(t)
      BY <2>1, <3>2 DEF Behind
    <3> QED BY <1>1, <2>1, <3>1, <3>2, <3>3 DEF Covered
  <2>3. /\ Tail(t) \in Seq(Student) /\ Len(Tail(t)) = Len(t) - 1 /\ Tail(t) # << >>
        /\ First(r) = t[1] /\ \A i \in 1 .. Len(t) - 1 : Tail(t)[i] = t[i + 1]
    BY <1>3, <2>1, <2>2, ListFacts DEF First
  <2> DEFINE l == Past(seen[r], roll, Tail(t))
  <2>4. l \in Locals /\ l.year = seen[r].year /\ l.todo = Tail(t)
    <3> DEFINE u == Tail(t)
    <3>1. u \in Seq(Student) /\ seen[r] \in Locals
      BY <1>1, <2>3
    <3> HIDE DEF u
    <3>2. /\ Past(seen[r], roll, u) \in Locals /\ Past(seen[r], roll, u).year = seen[r].year
          /\ Past(seen[r], roll, u).todo = u
      BY <3>1, PastFacts
    <3> QED BY <3>2 DEF u
  <2>a. Continue(r, "existing", l)
    BY <1>3, <2>1 DEF Past
  <2> HIDE DEF l
  <2>5. /\ ControlTypes' /\ Only(r) /\ pc'[r] = "existing" /\ seen'[r] = l
        /\ call'[r] = call[r] /\ alone' = alone
    BY <2>4, <2>a, ContinueTypes DEF At
  <2>6. Target(r)' = Target(r)
    BY <2>4, <2>5 DEF Target
  <2>7. Covered(r)'
    <3> DEFINE n == Len(call[r].list)
    <3>1. Behind(r)' = n - Len(t) + 1
      <4>1. Behind(r)' = Len(call[r].list) - Len(Tail(t))
        BY <2>4, <2>5 DEF Behind
      <4> QED BY <2>2, <2>3, <4>1
    <3>2. ASSUME NEW i \in 1 .. Len(Tail(t))
          PROVE  Tail(t)[i] = call[r].list[i + (n - Len(t) + 1)]
      <4>1. i + 1 \in 1 .. Len(t) /\ (i + 1) + n - Len(t) = i + (n - Len(t) + 1)
            /\ i \in 1 .. Len(t) - 1
        <5>1. i \in 1 .. Len(t) - 1 /\ n \in Nat /\ Len(t) \in Nat
          BY <2>2, <2>3
        <5> HIDE DEF n
        <5> QED BY <5>1
      <4> QED BY <2>2, <2>3, <4>1
    <3>3. ASSUME NEW i \in 1 .. n - Len(t) + 1, call[r].list[i] \in Known
          PROVE  <<call[r].list[i], Target(r)>> \in Rows'
      <4>1. CASE i \in 1 .. n - Len(t)
        BY <2>2, <3>3, <4>1
      <4>2. CASE i = n - Len(t) + 1
        <5>1. 1 \in 1 .. Len(t) /\ 1 + n - Len(t) = i
          BY <2>2, <4>2
        <5>2. t[1] = call[r].list[i]
          BY <2>2, <5>1
        <5> QED BY <2>3, <3>3, <5>2
      <4> QED BY <2>2, <4>1, <4>2
    <3>4. Len(Tail(t)) <= n
      BY <2>2, <2>3
    <3> HIDE DEF n
    <3>5. /\ seen'[r].todo = Tail(t) /\ Len(call'[r].list) = n
      BY <2>4, <2>5 DEF n
    <3> QED BY <2>3, <2>5, <2>6, <3>1, <3>2, <3>3, <3>4, <3>5 DEF Covered
  <2>8. Fits(r)'
    BY <1>1, <2>5, <2>6, <2>7 DEF Fits, Done, Promoting
  <2> QED BY <2>5, <2>8
<1> QED BY <1>2, <1>3 DEF Advance

LEMMA SkipOrGoOnKeeps ==
    ASSUME Inv, NEW r \in Request, SkipOrGoOn(r)
    PROVE  Inv'
<1>1. /\ pc[r] = "existing" /\ UNCHANGED enrollments /\ seen[r] \in Locals /\ Fits(r)
      /\ seen[r].roll \in Nat
  BY AtStatement DEF SkipOrGoOn, Done
<1>2. Rows' = Rows
  BY <1>1 DEF Rows
<1>3. CASE /\ First(r) \notin Known \/ <<First(r), Target(r)>> \in Rows
           /\ Advance(r, seen[r].roll)
  BY <1>1, <1>2, <1>3, AdvanceFits, QuietKeeps
<1>4. CASE /\ ~(First(r) \notin Known \/ <<First(r), Target(r)>> \in Rows)
           /\ Continue(r, "previous", seen[r])
  <2>1. /\ ControlTypes' /\ Only(r) /\ pc'[r] = "previous" /\ seen'[r] = seen[r]
        /\ call'[r] = call[r]
    BY <1>1, <1>4, ContinueTypes DEF At
  <2>2. Covered(r) => Covered(r)'
    BY <1>2, <2>1 DEF Covered, Behind, Target
  <2>3. Fits(r)'
    BY <1>1, <1>4, <2>1, <2>2 DEF Fits, Done, Promoting, First, Target
  <2> QED BY <1>1, <2>1, <2>3, QuietKeeps
<1> QED BY <1>3, <1>4 DEF SkipOrGoOn

LEMMA FindPreviousKeeps ==
    ASSUME Inv, NEW r \in Request, FindPrevious(r)
    PROVE  Inv'
<1>1. /\ pc[r] = "previous" /\ UNCHANGED enrollments /\ seen[r] \in Locals /\ Fits(r)
      /\ seen[r].roll \in Nat /\ First(r) \in Known
  BY AtStatement DEF FindPrevious, Done, Fits
<1>2. Rows' = Rows
  BY <1>1 DEF Rows
<1>3. PICK y \in IF Latest(First(r)) = {} THEN {None} ELSE Latest(First(r)) :
        Continue(r, "commit", [seen[r] EXCEPT !.previous = y, !.roll = @ + 1])
  BY Zenon DEF FindPrevious
<1>4. y = None \/ (y \in Year /\ <<First(r), y>> \in Rows)
  BY <1>1, <1>3, RowFacts DEF Latest, ActiveYears
<1> DEFINE l == Leaving(seen[r], y, seen[r].roll + 1)
<1>5. /\ l \in Locals /\ l.year = seen[r].year /\ l.todo = seen[r].todo /\ l.previous = y
      /\ l.roll # 0
  <2> DEFINE k == seen[r].roll + 1
  <2>1. k \in Nat /\ k # 0 /\ y \in Year \cup {None}
    BY <1>1, <1>4
  <2> HIDE DEF k
  <2>2. /\ Leaving(seen[r], y, k) \in Locals /\ Leaving(seen[r], y, k).year = seen[r].year
        /\ Leaving(seen[r], y, k).todo = seen[r].todo /\ Leaving(seen[r], y, k).roll = k
        /\ Leaving(seen[r], y, k).previous = y
    BY <1>1, <2>1, LeavingFacts
  <2> QED BY <2>1, <2>2 DEF k
<1>a. Continue(r, "commit", l)
  BY <1>3 DEF Leaving
<1> HIDE DEF l
<1>6. /\ ControlTypes' /\ Only(r) /\ pc'[r] = "commit" /\ seen'[r] = l /\ call'[r] = call[r]
  BY <1>5, <1>a, ContinueTypes DEF At
<1>7. Target(r)' = Target(r) /\ First(r)' = First(r) /\ Behind(r)' = Behind(r)
  BY <1>5, <1>6 DEF Target, First, Behind
<1>8. Covered(r) => Covered(r)'
  BY <1>2, <1>5, <1>6, <1>7 DEF Covered
<1>9. Fits(r)'
  BY <1>1, <1>2, <1>4, <1>5, <1>6, <1>7, <1>8 DEF Fits, Done, Promoting
<1> QED BY <1>1, <1>6, <1>9, QuietKeeps

-----------------------------------------------------------------------------
(* The writes *)

\* A write leaves the section and the stamp of the other rows alone.
Beside(s, y) ==
    \A k \in (Known \X Year) \ {<<s, y>>} :
       /\ RowOf(k)' = NoRow <=> RowOf(k) = NoRow
       /\ RowOf(k)'.section = RowOf(k).section /\ RowOf(k)'.at = RowOf(k).at

\* One row more, stamped with the number of rows it makes.
LEMMA RowAdded ==
    ASSUME Inv, NEW s \in Known, NEW y \in Year, enrollments[s][y] = NoRow,
           enrollments'[s][y] \in Row, YearOf[enrollments'[s][y].section] = y,
           enrollments'[s][y].at = 1 + Cardinality(Rows), Beside(s, y)
    PROVE  Rows' = Rows \cup {<<s, y>>} /\ OfTheirYear' /\ Stamped'
<1>1. <<s, y>> \in Known \X Year /\ <<s, y>>[1] = s /\ <<s, y>>[2] = y
  OBVIOUS
<1>2. RowOf(<<s, y>>)' # NoRow /\ <<s, y>> \notin Rows
  BY NoRowFacts DEF Rows, RowOf
<1>3. \A k \in Known \X Year : k \in Rows' <=> k \in Rows \/ k = <<s, y>>
  BY <1>1, <1>2 DEF Beside, Rows, RowOf
<1>4. Rows' = Rows \cup {<<s, y>>}
  <2>1. Rows' \subseteq Known \X Year /\ Rows \subseteq Known \X Year
    BY DEF Rows
  <2> QED BY <1>1, <1>3, <2>1, Zenon
<1>5. Cardinality(Rows') = Cardinality(Rows) + 1
  BY <1>2, <1>4, RowsFinite, FS_AddElement
<1>6. Cardinality(Rows) \in Nat
  BY RowsFinite
<1>7. OfTheirYear'
  <2> SUFFICES ASSUME NEW k \in Rows'
               PROVE  YearOf[RowOf(k)'.section] = k[2]
    BY DEF OfTheirYear
  <2>1. CASE k = <<s, y>>
    BY <2>1 DEF RowOf
  <2>2. CASE k # <<s, y>>
    <3>1. k \in Rows /\ k \in Known \X Year
      BY <1>4, <2>2 DEF Rows
    <3> QED BY <2>2, <3>1 DEF Beside, Inv, OfTheirYear
  <2> QED BY <2>1, <2>2
<1>8. Stamped'
  <2> SUFFICES ASSUME NEW k \in Rows'
               PROVE  RowOf(k)'.at <= Cardinality(Rows')
    BY DEF Stamped
  <2>1. CASE k = <<s, y>>
    BY <1>5, <1>6, <2>1 DEF RowOf
  <2>2. CASE k # <<s, y>>
    <3>1. k \in Rows /\ k \in Known \X Year /\ RowOf(k) \in Row
      BY <1>4, <2>2 DEF Rows, RowOf, Inv, Types
    <3>2. RowOf(k)'.at = RowOf(k).at /\ RowOf(k).at <= Cardinality(Rows)
      BY <2>2, <3>1 DEF Beside, Inv, Stamped
    <3>3. RowOf(k).at \in Nat
      BY <3>1 DEF Row
    <3> QED BY <1>5, <1>6, <3>2, <3>3
  <2> QED BY <2>1, <2>2
<1> QED BY <1>4, <1>5, <1>7, <1>8

\* The row that enroll and promote create.
LEMMA NewRowFacts ==
    ASSUME Inv, NEW r \in Request, call[r].section \in Section, NEW n \in Nat \ {0}
    PROVE  /\ NewRow(r, n) \in Row /\ NewRow(r, n).section = call[r].section
           /\ NewRow(r, n).at = 1 + Cardinality(Rows)
           /\ NewRow(r, n).status = "ACTIVE" /\ NewRow(r, n).roll = n
<1>1. 1 + Cardinality(Rows) \in Nat
  BY RowsFinite
<1> QED BY <1>1 DEF NewRow, Row, Status

LEMMA UpdateEnrollmentKeeps ==
    ASSUME Inv, NEW r \in Request, UpdateEnrollment(r)
    PROVE  Inv'
<1>1. /\ pc[r] = "write" /\ Fits(r) /\ CallShape(call[r]) /\ call[r].op = "update"
      /\ <<call[r].student, call[r].year>> \in Rows
  BY AtStatement DEF UpdateEnrollment, Done, Fits
<1> DEFINE s == call[r].student
           y == call[r].year
           old == enrollments[s][y]
           row == [old EXCEPT !.status = IF call[r].status = None THEN old.status ELSE call[r].status,
                              !.roll = IF call[r].roll = None THEN old.roll ELSE call[r].roll]
<1>2. s \in Known /\ y \in Year
  BY <1>1 DEF Rows
<1>3. old \in Row
  BY <1>1, <1>2, RowFacts
<1>4. row \in Row /\ row.section = old.section /\ row.at = old.at
  BY <1>1, <1>3 DEF Row, CallShape
<1>5. enrollments' = [enrollments EXCEPT ![s][y] = row]
  BY DEF UpdateEnrollment
<1> HIDE DEF row, s, y
<1>6. /\ (enrollments \in [Known -> [Year -> Row \cup {NoRow}]])'
      /\ enrollments'[s][y] = row
      /\ \A p \in Known, x \in Year :
           p # s \/ x # y => enrollments'[p][x] = enrollments[p][x]
  BY <1>2, <1>4, <1>5 DEF Inv, Types
<1>7. \A k \in Known \X Year : /\ RowOf(k)' = NoRow <=> RowOf(k) = NoRow
                               /\ RowOf(k)'.section = RowOf(k).section
                               /\ RowOf(k)'.at = RowOf(k).at
  BY <1>3, <1>4, <1>6, NoRowFacts DEF RowOf
<1>8. Rows' = Rows
  BY <1>7 DEF Rows, RowOf
<1>9. OfTheirYear' /\ Stamped'
  <2>1. Rows \subseteq Known \X Year
    BY DEF Rows
  <2> QED BY <1>7, <1>8, <2>1 DEF Inv, OfTheirYear, Stamped
<1>10. ControlTypes' /\ Only(r) /\ Fits(r)'
  BY AnswerFits DEF UpdateEnrollment, Done
<1> QED BY <1>6, <1>8, <1>9, <1>10, StepKeeps

\* The row of the enrollment a promotion leaves.
Left(row) == [row EXCEPT !.status = "PROMOTED"]

LEMMA LeftFacts ==
    ASSUME NEW row \in Row
    PROVE  /\ Left(row) \in Row /\ Left(row).section = row.section /\ Left(row).at = row.at
           /\ Left(row).status = "PROMOTED" /\ Left(row).roll = row.roll
BY DEF Left, Row, Status

\* What enroll and promote write: s has a new row, the enrollment p it leaves,
\* if any, is marked, and the others are as they were.
Entered(r, s, p) ==
    LET y == Target(r) IN
    /\ s \in Known /\ y \in Year /\ enrollments[s][y] = NoRow
    /\ seen[r].roll \in Nat \ {0} /\ call[r].section \in Section /\ YearOf[call[r].section] = y
    /\ enrollments' \in [Known -> [Year -> Row \cup {NoRow}]]
    /\ enrollments'[s][y] = NewRow(r, seen[r].roll)
    /\ p # None => p \in Year /\ p # y /\ <<s, p>> \in Rows
                   /\ enrollments'[s][p] = Left(enrollments[s][p])
    /\ \A x \in Year \ {y, p} : enrollments'[s][x] = enrollments[s][x]
    /\ \A q \in Known \ {s} : enrollments'[q] = enrollments[q]

LEMMA CommitFacts ==
    ASSUME Inv, NEW r \in Request, CommitPromotion(r)
    PROVE  /\ pc[r] = "commit" /\ Fits(r) /\ call[r].op = "promote" /\ call[r].roll = None
           /\ \/ Answer(r, "refused") /\ UNCHANGED enrollments
              \/ Entered(r, First(r), seen[r].previous) /\ Advance(r, seen[r].roll)
<1>1. /\ pc[r] = "commit" /\ Fits(r) /\ CallShape(call[r]) /\ call[r].op = "promote"
      /\ seen[r].roll \in Nat \ {0} /\ First(r) \in Known
      /\ seen[r].previous \in Year \cup {None}
      /\ seen[r].previous # None => <<First(r), seen[r].previous>> \in Rows
      /\ Target(r) = YearOf[call[r].section]
  BY AtStatement DEF CommitPromotion, Done, Fits, Promoting
<1>2. /\ Target(r) \in Year /\ call[r].section \in Section /\ call[r].roll = None
  BY <1>1, EnrollmentAssumption DEF CallShape
<1> DEFINE s == First(r)
           y == Target(r)
           p == seen[r].previous
           row == NewRow(r, seen[r].roll)
           old == enrollments[s]
           g(x) == CASE x = y -> row
                     [] x = p -> [old[x] EXCEPT !.status = "PROMOTED"]
                     [] OTHER -> old[x]
           f == [x \in Year |-> g(x)]
<1>3. CASE /\ enrollments[s][y] = NoRow
           /\ enrollments' = [enrollments EXCEPT ![s] = f]
           /\ Advance(r, seen[r].roll)
  <2>1. row \in Row
    BY <1>1, <1>2, NewRowFacts
  <2>2. old \in [Year -> Row \cup {NoRow}]
    BY <1>1 DEF Inv, Types
  <2>3. p # None => p \in Year /\ p # y /\ <<s, p>> \in Rows /\ old[p] \in Row
    <3>1. p # None => p \in Year /\ <<s, p>> \in Rows
      BY <1>1
    <3>2. p # None => old[p] \in Row /\ old[p] # NoRow
      BY <1>1, <3>1, RowFacts, NoRowFacts
    <3> QED BY <1>3, <3>1, <3>2
  <2>4. p = None => p \notin Year
    BY EnrollmentAssumption
  <2>5. y \in Year /\ p # y
    BY <1>2, <2>3, <2>4
  <2> HIDE DEF row, old, s, y, p
  <2>6. g(y) = row /\ (p # None => g(p) = Left(old[p]))
    BY <2>5 DEF Left
  <2>7. \A x \in Year \ {y, p} : g(x) = old[x]
    OBVIOUS
  <2> HIDE DEF g
  <2>8. p # None => g(p) \in Row
    BY <2>3, <2>6, LeftFacts
  <2>9. \A x \in Year : g(x) \in Row \cup {NoRow}
    BY <2>1, <2>2, <2>4, <2>6, <2>7, <2>8
  <2>10. f \in [Year -> Row \cup {NoRow}] /\ \A x \in Year : f[x] = g(x)
    BY <2>9
  <2> HIDE DEF f
  <2>12. s \in Known
    BY <1>1 DEF s
  <2>13. /\ enrollments' \in [Known -> [Year -> Row \cup {NoRow}]]
         /\ enrollments'[s] = f /\ \A q \in Known \ {s} : enrollments'[q] = enrollments[q]
    BY <1>3, <2>10, <2>12 DEF Inv, Types
  <2>14. /\ enrollments'[s][y] = row
         /\ p # None => enrollments'[s][p] = Left(enrollments[s][p])
         /\ \A x \in Year \ {y, p} : enrollments'[s][x] = enrollments[s][x]
    BY <2>3, <2>5, <2>6, <2>7, <2>10, <2>13 DEF old
  <2>15. Entered(r, First(r), seen[r].previous)
    BY <1>1, <1>2, <1>3, <2>3, <2>12, <2>13, <2>14 DEF Entered, s, y, p, row
  <2> QED BY <1>1, <1>2, <1>3, <2>15
<1>4. CASE Answer(r, "refused") /\ UNCHANGED enrollments
  BY <1>1, <1>2, <1>4
<1> QED BY <1>3, <1>4 DEF CommitPromotion

\* It is one row more.
LEMMA EnteredRows ==
    ASSUME Inv, NEW r \in Request, NEW s, NEW p, Entered(r, s, p)
    PROVE  /\ Rows' = Rows \cup {<<s, Target(r)>>}
           /\ OfTheirYear' /\ Stamped'
<1> DEFINE y == Target(r)
<1>1. PICK row \in Row : /\ row = NewRow(r, seen[r].roll) /\ row.section = call[r].section
                         /\ row.at = 1 + Cardinality(Rows)
  BY NewRowFacts DEF Entered
<1>2. /\ s \in Known /\ y \in Year /\ enrollments[s][y] = NoRow /\ enrollments'[s][y] = row
      /\ YearOf[row.section] = y
  BY <1>1 DEF Entered
<1>3. p # None => /\ enrollments[s][p] \in Row
                  /\ enrollments'[s][p] = Left(enrollments[s][p])
                  /\ p \in Year
  BY <1>2, RowFacts DEF Entered
<1>4. p = None => p \notin Year
  BY EnrollmentAssumption
<1>5. p # None => /\ enrollments[s][p] # NoRow /\ enrollments'[s][p] # NoRow
                  /\ enrollments'[s][p].section = enrollments[s][p].section
                  /\ enrollments'[s][p].at = enrollments[s][p].at
  BY <1>3, LeftFacts, NoRowFacts
<1>6. /\ \A x \in Year \ {y, p} : enrollments'[s][x] = enrollments[s][x]
      /\ \A q \in Known \ {s} : enrollments'[q] = enrollments[q]
  BY DEF Entered
<1> HIDE DEF y
<1>7. Beside(s, y)
  BY <1>2, <1>3, <1>4, <1>5, <1>6 DEF Beside, RowOf
<1>8. Rows' = Rows \cup {<<s, y>>} /\ OfTheirYear' /\ Stamped'
  BY <1>1, <1>2, <1>7, RowAdded
<1> QED BY <1>8 DEF y

LEMMA CommitPromotionKeeps ==
    ASSUME Inv, NEW r \in Request, CommitPromotion(r)
    PROVE  Inv'
<1>1. CASE Answer(r, "refused") /\ UNCHANGED enrollments
  BY <1>1, AnswerKeeps DEF Done
<1>2. CASE Entered(r, First(r), seen[r].previous) /\ Advance(r, seen[r].roll)
  <2>1. /\ Rows' = Rows \cup {<<First(r), Target(r)>>} /\ OfTheirYear' /\ Stamped'
    BY <1>2, EnteredRows
  <2>2. ControlTypes' /\ Only(r) /\ Fits(r)'
    <3>1. pc[r] \in {"existing", "commit"} /\ seen[r].roll \in Nat /\ Advance(r, seen[r].roll)
      BY <1>2, CommitFacts DEF Entered
    <3> QED BY <2>1, <3>1, AdvanceFits
  <2> QED BY <1>2, <2>1, <2>2, StepKeeps DEF Entered
<1> QED BY <1>1, <1>2, CommitFacts

LEMMA InsertFacts ==
    ASSUME Inv, NEW r \in Request, InsertEnrollment(r)
    PROVE  /\ pc[r] = "insert" /\ Fits(r) /\ call[r].op = "enroll"
           /\ \/ Answer(r, "refused") /\ UNCHANGED enrollments
              \/ Entered(r, call[r].student, None) /\ Answer(r, "ok")
<1>1. /\ pc[r] = "insert" /\ Fits(r) /\ CallShape(call[r]) /\ call[r].op = "enroll"
      /\ seen[r].roll \in Nat \ {0} /\ call[r].student \in Known
      /\ Target(r) = YearOf[call[r].section]
  BY AtStatement DEF InsertEnrollment, Done, Fits
<1> DEFINE s == call[r].student
           y == Target(r)
<1>2. y \in Year /\ call[r].section \in Section /\ s \in Known
  BY <1>1, EnrollmentAssumption DEF CallShape
<1>3. CASE Answer(r, "refused") /\ UNCHANGED enrollments
  BY <1>1, <1>3
<1>4. CASE /\ enrollments[s][y] = NoRow /\ Answer(r, "ok")
           /\ enrollments' = [enrollments EXCEPT ![s][y] = NewRow(r, seen[r].roll)]
  <2>1. PICK row \in Row : row = NewRow(r, seen[r].roll)
    BY <1>1, <1>2, NewRowFacts
  <2>2. enrollments' = [enrollments EXCEPT ![s][y] = row]
    BY <1>4, <2>1
  <2>3. /\ (enrollments \in [Known -> [Year -> Row \cup {NoRow}]])'
        /\ enrollments'[s][y] = row
        /\ \A x \in Year \ {y} : enrollments'[s][x] = enrollments[s][x]
        /\ \A q \in Known \ {s} : enrollments'[q] = enrollments[q]
    <3> HIDE DEF s, y
    <3> QED BY <1>2, <2>2 DEF Inv, Types
  <2> QED BY <1>1, <1>2, <1>4, <2>1, <2>3 DEF Entered
<1> QED BY <1>3, <1>4 DEF InsertEnrollment

LEMMA InsertEnrollmentKeeps ==
    ASSUME Inv, NEW r \in Request, InsertEnrollment(r)
    PROVE  Inv'
<1>1. CASE Answer(r, "refused") /\ UNCHANGED enrollments
  BY <1>1, AnswerKeeps DEF Done
<1>2. CASE Entered(r, call[r].student, None) /\ Answer(r, "ok")
  <2>1. /\ Rows' = Rows \cup {<<call[r].student, Target(r)>>} /\ OfTheirYear' /\ Stamped'
    BY <1>2, EnteredRows
  <2>2. ControlTypes' /\ Only(r) /\ Fits(r)'
    BY <1>2, AnswerFits DEF Done
  <2> QED BY <1>2, <2>1, <2>2, StepKeeps DEF Entered
<1> QED BY <1>1, <1>2, InsertFacts

LEMMA StatementFailsKeeps ==
    ASSUME Inv, NEW r \in Request, StatementFails(r)
    PROVE  Inv'
BY AnswerKeeps DEF StatementFails, Done

-----------------------------------------------------------------------------
(* The inductive invariant *)

LEMMA InitHolds == Init => Inv
<1> SUFFICES ASSUME Init
             PROVE  Inv
  OBVIOUS
<1> DEFINE first == [section : Section, roll : 1 .. Cardinality(Known), status : StatusChoice, at : {0}]
<1>1. Cardinality(Known) \in Nat
  BY EnrollmentAssumption, FS_CardinalityType
<1>2. first \subseteq Row /\ \A row \in first : row.at = 0
  BY <1>1, EnrollmentAssumption DEF Row
<1>3. PICK y \in Year :
        /\ enrollments \in [Known -> [Year -> {NoRow} \cup first]]
        /\ \A s \in Known, x \in Year :
             enrollments[s][x] # NoRow => x = y /\ YearOf[enrollments[s][x].section] = y
  BY DEF Init
<1> HIDE DEF first
<1>4. enrollments \in [Known -> [Year -> Row \cup {NoRow}]]
  <2>1. \A s \in Known : enrollments[s] \in [Year -> Row \cup {NoRow}]
    BY <1>2, <1>3
  <2>2. enrollments \in [Known -> [Year -> {NoRow} \cup first]]
    BY <1>3
  <2> QED BY <2>1, <2>2
<1>5. OfTheirYear
  BY <1>3 DEF OfTheirYear, Rows, RowOf
<1>6. Stamped
  <2> SUFFICES ASSUME NEW k \in Rows
               PROVE  RowOf(k).at <= Cardinality(Rows)
    BY DEF Stamped
  <2>1. RowOf(k).at = 0
    BY <1>2, <1>3 DEF Rows, RowOf
  <2> QED BY <2>1, RowsFinite
<1>7. Nothing \in Locals
  BY DEF Nothing, Locals
<1>8. Types
  BY <1>4, <1>7 DEF Init, Types, At
<1>9. \A r \in Request : Fits(r)
  BY DEF Init, Fits, Done, Promoting
<1> QED BY <1>5, <1>6, <1>8, <1>9 DEF Inv

LEMMA NextKeeps == Inv /\ [Next]_vars => Inv'
<1> SUFFICES ASSUME Inv, [Next]_vars
             PROVE  Inv'
  OBVIOUS
<1>1. ASSUME NEW r \in Request, Step(r)
      PROVE  Inv'
  BY <1>1, CheckKeeps, CountActiveKeeps, InsertEnrollmentKeeps, FindEnrollmentKeeps,
     UpdateEnrollmentKeeps, SkipOrGoOnKeeps, FindPreviousKeeps, CommitPromotionKeeps,
     StatementFailsKeeps, Zenon DEF Step
<1>2. ASSUME NEW r \in Request, NEW c \in Calls, Begin(r, c)
      PROVE  Inv'
  BY <1>2, BeginKeeps
<1>3. CASE UNCHANGED vars
  <2>1. /\ enrollments' = enrollments /\ pc' = pc /\ call' = call /\ seen' = seen
        /\ alone' = alone
    BY <1>3 DEF vars
  <2>2. Rows' = Rows
    BY <2>1 DEF Rows
  <2>3. Types' /\ OfTheirYear' /\ Stamped'
    BY <2>1, <2>2 DEF Inv, Types, OfTheirYear, Stamped, RowOf
  <2>4. ASSUME NEW r \in Request
        PROVE  Fits(r)'
    <3>1. /\ Target(r)' = Target(r) /\ First(r)' = First(r) /\ Behind(r)' = Behind(r)
          /\ Covered(r)' <=> Covered(r)
      BY <2>1, <2>2 DEF Target, First, Behind, Covered
    <3> QED BY <2>1, <2>2, <3>1 DEF Inv, Fits
  <2> QED BY <2>3, <2>4 DEF Inv
<1> QED BY <1>1, <1>2, <1>3 DEF Next

LEMMA Invariance == Spec => []Inv
BY InitHolds, NextKeeps, PTL DEF Spec

\* Every row has the types of its columns and is of the year of its section,
\* and a handler's locals are what its statements rely on, in any interleaving.
THEOREM EnrollmentTypeCorrect == Spec => []TypeOK
<1>1. Inv => TypeOK
  <2> SUFFICES ASSUME Inv
               PROVE  TypeOK
    OBVIOUS
  <2>1. ASSUME NEW r \in Running
        PROVE  /\ call[r] \in Calls
               /\ seen[r].roll \in Nat /\ seen[r].previous \in Year \cup {None}
               /\ pc[r] \in {"existing", "previous", "commit"} => seen[r].todo # << >>
    <3>1. r \in Request /\ pc[r] \notin Done \cup {"idle"}
      BY DEF Running
    <3> QED BY <3>1, AtStatement DEF Fits, Promoting, Covered
  <2>2. \A k \in Rows : YearOf[enrollments[k[1]][k[2]].section] = k[2]
    BY DEF Inv, OfTheirYear, RowOf
  <2> QED BY <2>1, <2>2 DEF TypeOK, Inv, Types
<1> QED BY <1>1, Invariance, PTL

-----------------------------------------------------------------------------
(* A promotion that is answered *)

\* A step is of one handler.
LEMMA StepIsOfOne ==
    ASSUME Inv, NEW r \in Request, Step(r) \/ \E c \in Calls : Begin(r, c)
    PROVE  \A q \in Request \ {r} : pc'[q] = pc[q] /\ call'[q] = call[q] /\ seen'[q] = seen[q]
<1> DEFINE Mine == \A q \in Request \ {r} :
                     pc'[q] = pc[q] /\ call'[q] = call[q] /\ seen'[q] = seen[q]
<1>1. ASSUME NEW o, Answer(r, o)
      PROVE  Mine
  BY <1>1 DEF Answer, Inv, Types
<1>2. ASSUME NEW n, NEW l, Continue(r, n, l)
      PROVE  Mine
  BY <1>2 DEF Continue, Inv, Types
<1>3. ASSUME NEW c \in Calls, Begin(r, c)
      PROVE  Mine
  BY <1>3 DEF Begin, Inv, Types
<1> HIDE DEF Mine
<1>4. ASSUME NEW n, Advance(r, n)
      PROVE  Mine
  BY <1>1, <1>2, <1>4 DEF Advance
<1>5. Check(r) => Mine
  BY <1>1, <1>2 DEF Check, Checked
<1>6. CountActive(r) \/ FindEnrollment(r) \/ FindPrevious(r) => Mine
  <2>1. CountActive(r) => Mine
    BY <1>2, Zenon DEF CountActive
  <2>2. FindEnrollment(r) => Mine
    BY <1>1, <1>2 DEF FindEnrollment
  <2>3. FindPrevious(r) => Mine
    BY <1>2, Zenon DEF FindPrevious
  <2> QED BY <2>1, <2>2, <2>3
<1>7. InsertEnrollment(r) \/ UpdateEnrollment(r) \/ StatementFails(r) => Mine
  BY <1>1 DEF InsertEnrollment, UpdateEnrollment, StatementFails
<1>8. SkipOrGoOn(r) \/ CommitPromotion(r) => Mine
  BY <1>1, <1>2, <1>4 DEF SkipOrGoOn, CommitPromotion
<1>9. Mine
  BY <1>3, <1>5, <1>6, <1>7, <1>8, Zenon DEF Step
<1> QED BY <1>9 DEF Mine

\* After the last student of the list, all of them are behind.
LEMMA LastCovers ==
    ASSUME Inv, NEW r \in Request, pc[r] \in {"existing", "commit"}, Len(seen[r].todo) = 1,
           Rows \subseteq Rows', First(r) \in Known => <<First(r), Target(r)>> \in Rows'
    PROVE  \A i \in DOMAIN call[r].list :
             call[r].list[i] \in Known => <<call[r].list[i], Target(r)>> \in Rows'
<1>1. Covered(r) /\ call[r].list \in Seq(Student) /\ seen[r].todo \in Seq(Student)
  BY AtStatement DEF Done, Fits, Promoting, CallShape
<1> DEFINE n == Len(call[r].list)
<1>2. n \in Nat \ {0} /\ Behind(r) = n - 1 /\ DOMAIN call[r].list = 1 .. n
  BY <1>1 DEF Covered, Behind
<1>3. First(r) = call[r].list[n]
  <2>1. 1 \in 1 .. Len(seen[r].todo) /\ 1 + Behind(r) = n
    BY <1>2
  <2>2. seen[r].todo[1] = call[r].list[n]
    BY <1>1, <2>1 DEF Covered
  <2> QED BY <1>1, <2>2 DEF First, Covered
<1>4. ASSUME NEW i \in 1 .. n, call[r].list[i] \in Known
      PROVE  <<call[r].list[i], Target(r)>> \in Rows'
  <2>1. CASE i = n
    BY <1>3, <1>4, <2>1
  <2>2. CASE i # n
    <3>1. i \in 1 .. Behind(r)
      BY <1>2, <2>2
    <3> QED BY <1>1, <1>4, <3>1 DEF Covered
  <2> QED BY <2>1, <2>2
<1> QED BY <1>2, <1>4

\* A promotion that is answered with success has left every student of its
\* list who exists with an enrollment in the target year, in any interleaving
\* with other calls and with any failure before.
THEOREM PromotionsCover == Spec => PromoteCoversAll
<1> DEFINE Cover(r) == call[r].op = "promote" /\ pc'[r] = "ok" =>
         \A i \in DOMAIN call[r].list :
           call[r].list[i] \in Known => <<call[r].list[i], Target(r)>> \in Rows'
<1>1. ASSUME Inv, Next, NEW r \in Request, call[r].op = "promote", pc'[r] = "ok"
      PROVE  Cover(r)
  <2>1. pc[r] \notin Done \cup {"idle"} /\ CallShape(call[r]) /\ Fits(r)
    BY <1>1, AtStatement DEF Inv, Fits, NoCall
  <2>2. ASSUME NEW q \in Request, q # r, Step(q) \/ \E c \in Calls : Begin(q, c)
        PROVE  FALSE
    BY <1>1, <2>1, <2>2, StepIsOfOne DEF Done
  <2>3. ~ \E c \in Calls : Begin(r, c)
    BY <2>1 DEF Begin
  <2>4. Step(r)
    BY <1>1, <2>2, <2>3 DEF Next
  <2>5. ASSUME NEW n, NEW l, Continue(r, n, l)
        PROVE  n = "ok"
    BY <1>1, <2>5 DEF Continue, Inv, Types
  <2>6. ASSUME NEW o, Answer(r, o)
        PROVE  o = "ok"
    BY <1>1, <2>6 DEF Answer, Inv, Types
  <2>7. ASSUME NEW n, Advance(r, n)
        PROVE  Len(seen[r].todo) = 1
    BY <2>5, <2>7 DEF Advance
  <2>8. ~ Check(r)
    <3>1. ASSUME NEW y, Checked(r, y)
          PROVE  FALSE
      BY <2>5, <3>1 DEF Checked
    <3> QED BY <2>6, <3>1 DEF Check
  <2>9. ~ CountActive(r) /\ ~ FindEnrollment(r) /\ ~ FindPrevious(r) /\ ~ StatementFails(r)
    <3>1. ~ CountActive(r)
      <4> SUFFICES ASSUME CountActive(r)
                   PROVE  FALSE
        OBVIOUS
      <4>1. PICK l : Continue(r, IF call[r].op = "enroll" THEN "insert" ELSE "existing", l)
        BY Zenon DEF CountActive
      <4> QED BY <2>5, <4>1
    <3>2. ~ FindEnrollment(r)
      BY <2>5, <2>6 DEF FindEnrollment
    <3>3. ~ FindPrevious(r)
      <4> SUFFICES ASSUME FindPrevious(r)
                   PROVE  FALSE
        OBVIOUS
      <4>1. PICK l : Continue(r, "commit", l)
        BY Zenon DEF FindPrevious
      <4> QED BY <2>5, <4>1
    <3>4. ~ StatementFails(r)
      BY <2>6 DEF StatementFails
    <3> QED BY <3>1, <3>2, <3>3, <3>4
  <2>10. ~ InsertEnrollment(r) /\ ~ UpdateEnrollment(r)
    BY <1>1, <2>1 DEF InsertEnrollment, UpdateEnrollment, Fits
  <2>11. CASE SkipOrGoOn(r)
    <3>1. /\ pc[r] = "existing" /\ UNCHANGED enrollments /\ Len(seen[r].todo) = 1
          /\ First(r) \in Known => <<First(r), Target(r)>> \in Rows
      BY <2>5, <2>7, <2>11 DEF SkipOrGoOn
    <3>2. Rows' = Rows
      BY <3>1 DEF Rows
    <3> QED BY <1>1, <3>1, <3>2, LastCovers
  <2>12. CASE CommitPromotion(r)
    <3>1. /\ pc[r] = "commit" /\ Entered(r, First(r), seen[r].previous)
          /\ Advance(r, seen[r].roll)
      BY <1>1, <2>6, <2>12, CommitFacts
    <3>2. Len(seen[r].todo) = 1
      BY <2>7, <3>1
    <3>3. Rows' = Rows \cup {<<First(r), Target(r)>>}
      BY <1>1, <3>1, EnteredRows
    <3> QED BY <1>1, <3>1, <3>2, <3>3, LastCovers
  <2> QED BY <2>4, <2>8, <2>9, <2>10, <2>11, <2>12 DEF Step
<1>2. Inv /\ [Next]_vars => [\A r \in Request : Cover(r)]_vars
  BY <1>1
<1> QED BY <1>2, Invariance, PTL DEF Spec, PromoteCoversAll

-----------------------------------------------------------------------------
(* While handlers do not overlap *)

\* What a handler has read is still so when it writes.
Knows(r) ==
    LET n == Cardinality(ActiveIn(call[r].section)) IN
    /\ pc[r] = "insert" /\ call[r].roll = None => seen[r].roll = n + 1
    /\ pc[r] \in {"existing", "previous"} => seen[r].roll = n
    /\ pc[r] = "commit" =>
         /\ seen[r].roll = n + 1
         /\ ActiveYears(First(r)) # {} => seen[r].previous \in ActiveYears(First(r))

Single == \A r, q \in Running : r = q

Calm == alone => Single /\ \A r \in Request : Knows(r)

\* A nonempty set of numbers has a least one.
LessThan == {p \in Nat \X Nat : p[1] < p[2]}

LEMMA LeastExists ==
    ASSUME NEW G, G \subseteq Nat, G # {}
    PROVE  \E g \in G : \A h \in G : g <= h
<1>1. IsWellFoundedOn({p \in Nat \X Nat : p[1] < p[2]}, Nat)
  BY NatLessThanWellFounded DEF OpToRel
<1>2. IsWellFoundedOn(LessThan, Nat)
  BY <1>1 DEF LessThan
<1>3. PICK g \in G : \A h \in G : ~ (<<h, g>> \in LessThan)
  BY <1>2, WFMin
<1>4. ASSUME NEW h \in G
      PROVE  g <= h
  <2>1. g \in Nat /\ h \in Nat
    OBVIOUS
  <2>2. h < g => <<h, g>> \in LessThan
    BY <2>1 DEF LessThan
  <2> QED BY <1>3, <2>1, <2>2
<1> QED BY <1>4

\* Of a nonempty set of years, one has the highest stamp: none is above the
\* number of rows.
LEMMA LatestExists ==
    ASSUME Inv, NEW s \in Known, ActiveYears(s) # {}
    PROVE  Latest(s) # {}
<1> DEFINE n == Cardinality(Rows)
           gap(y) == n - enrollments[s][y].at
           G == {gap(y) : y \in ActiveYears(s)}
<1>1. \A y \in ActiveYears(s) : gap(y) \in Nat /\ enrollments[s][y].at \in Nat
  <2> SUFFICES ASSUME NEW y \in ActiveYears(s)
               PROVE  gap(y) \in Nat /\ enrollments[s][y].at \in Nat
    OBVIOUS
  <2>1. enrollments[s][y] \in Row /\ enrollments[s][y].at <= n
    BY RowFacts DEF ActiveYears
  <2>2. enrollments[s][y].at \in Nat /\ n \in Nat
    BY <2>1, RowsFinite DEF Row
  <2> QED BY <2>1, <2>2
<1>2. G \subseteq Nat /\ G # {}
  BY <1>1
<1>3. PICK g \in G : \A h \in G : g <= h
  <2> HIDE DEF G
  <2> QED BY <1>2, LeastExists
<1>5. PICK y \in ActiveYears(s) : g = gap(y)
  OBVIOUS
<1>6. \A x \in ActiveYears(s) : enrollments[s][x].at <= enrollments[s][y].at
  <2> SUFFICES ASSUME NEW x \in ActiveYears(s)
               PROVE  enrollments[s][x].at <= enrollments[s][y].at
    OBVIOUS
  <2>1. gap(x) \in G
    OBVIOUS
  <2>2. gap(y) <= gap(x)
    BY <1>3, <1>5, <2>1
  <2>3. n \in Nat
    BY RowsFinite
  <2> QED BY <1>1, <2>2, <2>3
<1> QED BY <1>6 DEF Latest

\* Who enters a section is one more in it, and in no other.
LEMMA EnteredActive ==
    ASSUME Inv, NEW r \in Request, NEW s, NEW p, Entered(r, s, p), NEW c
    PROVE  /\ c = call[r].section =>
              /\ ActiveIn(c)' = ActiveIn(c) \cup {<<s, Target(r)>>}
              /\ <<s, Target(r)>> \notin ActiveIn(c)
              /\ Cardinality(ActiveIn(c)') = Cardinality(ActiveIn(c)) + 1
           /\ c # call[r].section => ActiveIn(c)' \subseteq ActiveIn(c)
           /\ \A k \in ActiveIn(c) : RowOf(k)'.roll = RowOf(k).roll
           /\ enrollments'[s][Target(r)].roll = seen[r].roll
<1>a. PICK y, d : y = Target(r) /\ d = call[r].section
  OBVIOUS
<1>1. /\ s \in Known /\ y \in Year /\ enrollments[s][y] = NoRow
      /\ YearOf[d] = y
      /\ p # None => p \in Year /\ p # y /\ <<s, p>> \in Rows
                     /\ enrollments'[s][p] = Left(enrollments[s][p])
      /\ \A x \in Year \ {y, p} : enrollments'[s][x] = enrollments[s][x]
      /\ \A q \in Known \ {s} : enrollments'[q] = enrollments[q]
  BY <1>a DEF Entered
<1>2. PICK new : /\ new = enrollments'[s][y] /\ new.section = d
                 /\ new.status = "ACTIVE" /\ new.roll = seen[r].roll
  BY <1>a, NewRowFacts DEF Entered
<1>3. Rows' = Rows \cup {<<s, y>>} /\ <<s, y>> \notin Rows
  BY <1>1, <1>a, EnteredRows DEF Rows
<1>4. p = None => p \notin Year
  BY EnrollmentAssumption
<1>5. p # None => /\ enrollments[s][p] \in Row
                  /\ enrollments[s][p].section # d
                  /\ enrollments'[s][p].status = "PROMOTED"
                  /\ enrollments'[s][p].roll = enrollments[s][p].roll
  <2>1. p # None => /\ enrollments[s][p] \in Row
                    /\ YearOf[enrollments[s][p].section] = p
    BY <1>1, RowFacts
  <2> QED BY <1>1, <2>1, LeftFacts
<1>6. ASSUME NEW k \in Rows
      PROVE  \/ RowOf(k)' = RowOf(k)
             \/ /\ RowOf(k).section # d
                /\ RowOf(k)'.status = "PROMOTED" /\ RowOf(k)'.roll = RowOf(k).roll
  <2>1. k \in Known \X Year /\ k # <<s, y>> /\ k = <<k[1], k[2]>>
    BY <1>3 DEF Rows
  <2>2. CASE k[1] # s
    BY <1>1, <2>1, <2>2 DEF RowOf
  <2>3. CASE k[1] = s /\ k[2] = p
    BY <1>4, <1>5, <2>1, <2>3 DEF RowOf
  <2>4. CASE k[1] = s /\ k[2] # p
    BY <1>1, <2>1, <2>4 DEF RowOf
  <2> QED BY <2>2, <2>3, <2>4
<1>7. RowOf(<<s, y>>)' = new
  BY <1>2 DEF RowOf
<1>8. \A k : k \in ActiveIn(c) <=>
               k \in Rows /\ RowOf(k).section = c /\ RowOf(k).status = "ACTIVE"
  BY DEF ActiveIn, RowOf
<1>9. \A k : k \in ActiveIn(c)' <=>
               k \in Rows' /\ RowOf(k)'.section = c /\ RowOf(k)'.status = "ACTIVE"
  BY DEF ActiveIn, RowOf
<1>10. \A k \in Rows : k \in ActiveIn(c)' => k \in ActiveIn(c)
  BY <1>6, <1>8, <1>9
<1>11. <<s, y>> \notin ActiveIn(c) /\ (<<s, y>> \in ActiveIn(c)' <=> c = d)
  BY <1>2, <1>3, <1>7, <1>8, <1>9
<1>12. ASSUME c = d
       PROVE  /\ ActiveIn(c)' = ActiveIn(c) \cup {<<s, y>>}
              /\ Cardinality(ActiveIn(c)') = Cardinality(ActiveIn(c)) + 1
  <2>1. \A k \in Rows : k \in ActiveIn(c) => k \in ActiveIn(c)'
    BY <1>3, <1>6, <1>8, <1>9, <1>12
  <2>2. ActiveIn(c) \subseteq Rows /\ ActiveIn(c)' \subseteq Rows \cup {<<s, y>>}
    BY <1>3, <1>8, <1>9
  <2>3. ActiveIn(c)' = ActiveIn(c) \cup {<<s, y>>}
    BY <1>10, <1>11, <1>12, <2>1, <2>2
  <2> QED BY <1>11, <2>3, RowsFinite, FS_AddElement
<1>13. c # d => ActiveIn(c)' \subseteq ActiveIn(c)
  BY <1>3, <1>9, <1>10, <1>11
<1>14. \A k \in ActiveIn(c) : RowOf(k)'.roll = RowOf(k).roll
  BY <1>6, <1>8
<1> QED BY <1>a, <1>2, <1>11, <1>12, <1>13, <1>14

\* Who is promoted is active in the new year, and not in the one left.
LEMMA EnteredYears ==
    ASSUME Inv, NEW r \in Request, NEW s, NEW p, Entered(r, s, p)
    PROVE  /\ ActiveYears(s)' = (ActiveYears(s) \ {p}) \cup {Target(r)}
           /\ Target(r) \notin ActiveYears(s)
           /\ \A q \in Known \ {s} : ActiveYears(q)' = ActiveYears(q)
<1> DEFINE y == Target(r)
<1>1. /\ s \in Known /\ y \in Year /\ enrollments[s][y] = NoRow
      /\ p # None => p \in Year /\ p # y /\ <<s, p>> \in Rows
                     /\ enrollments'[s][p] = Left(enrollments[s][p])
      /\ \A x \in Year \ {y, p} : enrollments'[s][x] = enrollments[s][x]
      /\ \A q \in Known \ {s} : enrollments'[q] = enrollments[q]
  BY DEF Entered
<1>2. enrollments'[s][y].status = "ACTIVE"
  BY NewRowFacts DEF Entered
<1>3. p = None => p \notin Year
  BY EnrollmentAssumption
<1>4. p # None => enrollments'[s][p].status # "ACTIVE"
  BY <1>1, RowFacts, LeftFacts
<1>5. y \notin ActiveYears(s)
  BY <1>1, NoRowFacts DEF ActiveYears
<1>6. \A q \in Known \ {s} : ActiveYears(q)' = ActiveYears(q)
  BY <1>1 DEF ActiveYears
<1> HIDE DEF y
<1>7. \A x \in Year : x \in ActiveYears(s)' <=> x = y \/ (x # p /\ x \in ActiveYears(s))
  BY <1>1, <1>2, <1>3, <1>4 DEF ActiveYears
<1>8. ActiveYears(s) \subseteq Year /\ ActiveYears(s)' \subseteq Year
  BY DEF ActiveYears
<1>9. ActiveYears(s)' = (ActiveYears(s) \ {p}) \cup {y}
  BY <1>1, <1>7, <1>8
<1> QED BY <1>5, <1>6, <1>9 DEF y

\* Only the handler that runs moves; the others have nothing to know.
LEMMA CalmStep ==
    ASSUME Inv, Calm, NEW r \in Running, Only(r), alone' = alone, alone => Knows(r)'
    PROVE  Calm'
<1> SUFFICES ASSUME alone
             PROVE  Single' /\ \A q \in Request : Knows(q)'
  BY DEF Calm
<1>1. r \in Request /\ \A q \in Request \ {r} : pc[q] \in Done \cup {"idle"} /\ pc'[q] = pc[q]
  BY DEF Calm, Single, Running, Only
<1>2. Single'
  BY <1>1 DEF Single, Running
<1>3. \A q \in Request \ {r} : Knows(q)'
  BY <1>1 DEF Knows, Done
<1> QED BY <1>1, <1>2, <1>3

LEMMA CalmAnswer ==
    ASSUME Inv, Calm, NEW r \in Running, NEW o \in Done, Answer(r, o)
    PROVE  Calm'
<1>1. /\ r \in Request /\ Only(r) /\ pc'[r] = o /\ alone' = alone
  BY AnswerFits DEF Running
<1>2. Knows(r)'
  BY <1>1 DEF Knows, Done
<1> QED BY <1>1, <1>2, CalmStep

\* A handler that goes on without writing knows what it read.
LEMMA CalmContinue ==
    ASSUME Inv, Calm, NEW r \in Running, NEW n \in At, NEW l \in Locals, Continue(r, n, l),
           UNCHANGED enrollments,
           n = "insert" /\ call[r].roll = None =>
             l.roll = Cardinality(ActiveIn(call[r].section)) + 1,
           n \in {"existing", "previous"} /\ alone => l.roll = Cardinality(ActiveIn(call[r].section)),
           n = "commit" /\ alone =>
             /\ l.roll = Cardinality(ActiveIn(call[r].section)) + 1 /\ l.todo = seen[r].todo
             /\ ActiveYears(First(r)) # {} => l.previous \in ActiveYears(First(r))
    PROVE  Calm'
<1>1. /\ r \in Request /\ Only(r) /\ pc'[r] = n /\ seen'[r] = l
      /\ call'[r] = call[r] /\ alone' = alone
  BY ContinueTypes DEF Running
<1>2. \A c : ActiveIn(c)' = ActiveIn(c)
  BY DEF ActiveIn, Rows
<1>3. \A s : ActiveYears(s)' = ActiveYears(s)
  BY DEF ActiveYears
<1>4. PICK c, s : c = call[r].section /\ s = First(r)
  OBVIOUS
<1>5. Cardinality(ActiveIn(call[r].section))' = Cardinality(ActiveIn(c))
  BY <1>1, <1>2, <1>4
<1>6. n = "commit" /\ alone => /\ First(r)' = s /\ ActiveYears(First(r))' = ActiveYears(s)
  <2>1. n = "commit" /\ alone => First(r)' = s
    BY <1>1, <1>4 DEF First
  <2> QED BY <1>3, <2>1 DEF ActiveYears
<1>7. alone => Knows(r)'
  BY <1>1, <1>4, <1>5, <1>6 DEF Knows
<1> QED BY <1>1, <1>7, CalmStep

\* On to the next student: with the number given, or with the answer.
LEMMA AdvanceFacts ==
    ASSUME Inv, NEW r \in Request, pc[r] \in {"existing", "commit"}, NEW n \in Nat, Advance(r, n)
    PROVE  \/ Answer(r, "ok")
           \/ \E l \in Locals : l.roll = n /\ Continue(r, "existing", l)
<1>1. PICK t, u : t = seen[r].todo /\ u = Tail(t)
  OBVIOUS
<1>2. /\ t \in Seq(Student) /\ t # << >> /\ seen[r] \in Locals
  BY <1>1, AtStatement DEF Done, Fits, Promoting, Covered
<1>3. u \in Seq(Student)
  BY <1>1, <1>2, ListFacts
<1>4. Past(seen[r], n, u) \in Locals /\ Past(seen[r], n, u).roll = n
  <2>1. PICK l \in Locals : l = seen[r]
    BY <1>2
  <2>2. Past(l, n, u) \in Locals /\ Past(l, n, u).roll = n
    BY <1>3, PastFacts
  <2> QED BY <2>1, <2>2
<1>5. Answer(r, "ok") \/ Continue(r, "existing", Past(seen[r], n, u))
  BY <1>1 DEF Advance, Past
<1> QED BY <1>4, <1>5

\* A promotion goes on with the count that its write has made.
LEMMA CalmCommit ==
    ASSUME Inv, Calm, NEW r \in Running, CommitPromotion(r)
    PROVE  Calm'
<1>0. r \in Request /\ pc[r] \notin Done \cup {"idle"}
  BY DEF Running
<1>1. CASE Answer(r, "refused") /\ UNCHANGED enrollments
  BY <1>1, CalmAnswer DEF Done
<1>2. CASE Entered(r, First(r), seen[r].previous) /\ Answer(r, "ok")
  BY <1>2, CalmAnswer DEF Done
<1>3. ASSUME NEW l \in Locals, l.roll = seen[r].roll, Continue(r, "existing", l),
             Entered(r, First(r), seen[r].previous)
      PROVE  Calm'
  <2>1. /\ ControlTypes' /\ Only(r) /\ pc'[r] = "existing" /\ seen'[r] = l
        /\ call'[r] = call[r] /\ alone' = alone
    BY <1>0, <1>3, ContinueTypes DEF At
  <2>2. PICK c : c = call[r].section
    OBVIOUS
  <2>3. Cardinality(ActiveIn(c)') = Cardinality(ActiveIn(c)) + 1
    BY <1>0, <1>3, <2>2, EnteredActive
  <2>4. Cardinality(ActiveIn(call[r].section))' = Cardinality(ActiveIn(c)')
    BY <2>1, <2>2
  <2>5. alone => seen[r].roll = Cardinality(ActiveIn(c)) + 1
    BY <1>0, <2>2, CommitFacts DEF Calm, Knows
  <2>6. alone => Knows(r)'
    BY <1>3, <2>1, <2>3, <2>4, <2>5 DEF Knows
  <2> QED BY <2>1, <2>6, CalmStep
<1>4. pc[r] = "commit" /\ seen[r].roll \in Nat
  BY <1>0, CommitFacts, AtStatement
<1>5. CASE Entered(r, First(r), seen[r].previous) /\ Advance(r, seen[r].roll)
  BY <1>0, <1>2, <1>3, <1>4, <1>5, AdvanceFacts
<1> QED BY <1>0, <1>1, <1>5, CommitFacts

LEMMA CalmCheck ==
    ASSUME Inv, Calm, NEW r \in Running, Check(r)
    PROVE  Calm'
<1>1. /\ r \in Request /\ pc[r] = "check" /\ UNCHANGED enrollments /\ seen[r] \in Locals
      /\ CallShape(call[r])
  BY AtStatement DEF Check, Done, Running
<1>2. PICK y : IF (call[r].op = "enroll" => call[r].student \in Known) /\ y = YearOf[call[r].section]
               THEN Checked(r, y) ELSE Answer(r, "refused")
  BY DEF Check
<1>3. CASE Answer(r, "refused")
  BY <1>3, CalmAnswer DEF Done
<1>4. CASE Checked(r, y)
  <2>1. PICK n, l : /\ n \in {"count", "insert"} /\ Continue(r, n, l)
                    /\ n = "insert" => call[r].roll # None
    <3>1. call[r].roll = None => \E l : Continue(r, "count", l)
      BY <1>4, Zenon DEF Checked
    <3>2. call[r].roll # None => \E l : Continue(r, "insert", l)
      BY <1>4, Zenon DEF Checked
    <3> QED BY <3>1, <3>2
  <2>2. /\ Only(r) /\ pc'[r] = n /\ call'[r] = call[r] /\ alone' = alone
    BY <1>1, <2>1 DEF Continue, Inv, Types, Only
  <2>3. Knows(r)'
    BY <2>1, <2>2 DEF Knows
  <2> QED BY <2>2, <2>3, CalmStep
<1> QED BY <1>2, <1>3, <1>4

LEMMA CalmCountActive ==
    ASSUME Inv, Calm, NEW r \in Running, CountActive(r)
    PROVE  Calm'
<1>1. /\ r \in Request /\ pc[r] = "count" /\ UNCHANGED enrollments /\ seen[r] \in Locals
  BY AtStatement DEF CountActive, Done, Running
<1>2. PICK m \in Nat : m = Cardinality(ActiveIn(call[r].section))
  BY RowsFinite
<1>3. CASE call[r].op = "enroll"
  <2>1. m + 1 \in Nat
    OBVIOUS
  <2>2. PICK k \in Nat : k = m + 1
    BY <2>1
  <2>3. Counted(seen[r], k) \in Locals /\ Counted(seen[r], k).roll = k
    BY <1>1, CountedFacts
  <2>4. Continue(r, "insert", Counted(seen[r], k))
    BY <1>2, <1>3, <2>2 DEF CountActive, Counted
  <2>5. "insert" \in At /\ "insert" \notin {"existing", "previous", "commit"}
    BY DEF At
  <2> QED BY <1>1, <1>2, <2>2, <2>3, <2>4, <2>5, CalmContinue
<1>4. CASE call[r].op # "enroll"
  <2>1. Counted(seen[r], m) \in Locals /\ Counted(seen[r], m).roll = m
    BY <1>1, CountedFacts
  <2>2. Continue(r, "existing", Counted(seen[r], m))
    BY <1>2, <1>4 DEF CountActive, Counted
  <2>3. "existing" \in At /\ "existing" \notin {"insert", "commit"}
    BY DEF At
  <2> QED BY <1>1, <1>2, <2>1, <2>2, <2>3, CalmContinue
<1> QED BY <1>3, <1>4

LEMMA CalmFindEnrollment ==
    ASSUME Inv, Calm, NEW r \in Running, FindEnrollment(r)
    PROVE  Calm'
<1>1. /\ r \in Request /\ UNCHANGED enrollments /\ seen[r] \in Locals
  BY AtStatement DEF FindEnrollment, Done, Running
<1>2. CASE Answer(r, "refused")
  BY <1>2, CalmAnswer DEF Done
<1>3. CASE Continue(r, "write", seen[r])
  <2>1. "write" \in At /\ "write" \notin {"insert", "existing", "previous", "commit"}
    BY DEF At
  <2> QED BY <1>1, <1>3, <2>1, CalmContinue
<1> QED BY <1>2, <1>3 DEF FindEnrollment

LEMMA CalmSkipOrGoOn ==
    ASSUME Inv, Calm, NEW r \in Running, SkipOrGoOn(r)
    PROVE  Calm'
<1>1. /\ r \in Request /\ pc[r] = "existing" /\ UNCHANGED enrollments /\ seen[r] \in Locals
      /\ seen[r].roll \in Nat
  BY AtStatement DEF SkipOrGoOn, Done, Running
<1>2. alone => seen[r].roll = Cardinality(ActiveIn(call[r].section))
  BY <1>1 DEF Calm, Knows
<1>a. /\ "existing" \in At /\ "previous" \in At
      /\ "existing" \notin {"insert", "commit"} /\ "previous" \notin {"insert", "commit"}
  BY DEF At
<1>3. CASE Answer(r, "ok")
  BY <1>3, CalmAnswer DEF Done
<1>4. ASSUME NEW l \in Locals, l.roll = seen[r].roll, Continue(r, "existing", l)
      PROVE  Calm'
  BY <1>1, <1>2, <1>4, <1>a, CalmContinue
<1>b. CASE Advance(r, seen[r].roll)
  BY <1>1, <1>3, <1>4, <1>b, AdvanceFacts
<1>5. CASE Continue(r, "previous", seen[r])
  BY <1>1, <1>2, <1>5, <1>a, CalmContinue
<1> QED BY <1>5, <1>b DEF SkipOrGoOn

LEMMA CalmFindPrevious ==
    ASSUME Inv, Calm, NEW r \in Running, FindPrevious(r)
    PROVE  Calm'
<1>1. /\ r \in Request /\ pc[r] = "previous" /\ UNCHANGED enrollments /\ seen[r] \in Locals
      /\ seen[r].roll \in Nat /\ First(r) \in Known
  BY AtStatement DEF FindPrevious, Done, Running, Fits
<1>2. PICK y \in IF Latest(First(r)) = {} THEN {None} ELSE Latest(First(r)) :
        Continue(r, "commit", [seen[r] EXCEPT !.previous = y, !.roll = @ + 1])
  BY Zenon DEF FindPrevious
<1>3. y \in Year \cup {None}
  BY <1>2 DEF Latest, ActiveYears
<1>4. ActiveYears(First(r)) # {} => y \in ActiveYears(First(r))
  BY <1>1, <1>2, LatestExists DEF Latest
<1>5. alone => seen[r].roll = Cardinality(ActiveIn(call[r].section))
  BY <1>1 DEF Calm, Knows
<1>6. PICK k \in Nat : k = seen[r].roll + 1
  BY <1>1
<1>7. /\ Leaving(seen[r], y, k) \in Locals /\ Leaving(seen[r], y, k).roll = k
      /\ Leaving(seen[r], y, k).todo = seen[r].todo /\ Leaving(seen[r], y, k).previous = y
  <2>1. PICK l \in Locals : l = seen[r]
    BY <1>1
  <2>2. /\ Leaving(l, y, k) \in Locals /\ Leaving(l, y, k).year = l.year
        /\ Leaving(l, y, k).todo = l.todo /\ Leaving(l, y, k).roll = k
        /\ Leaving(l, y, k).previous = y
    BY <1>3, LeavingFacts
  <2> QED BY <2>1, <2>2
<1>8. Continue(r, "commit", Leaving(seen[r], y, k))
  BY <1>2, <1>6 DEF Leaving
<1>9. "commit" \in At /\ "commit" \notin {"insert", "existing", "previous"}
  BY DEF At
<1> QED BY <1>1, <1>4, <1>5, <1>6, <1>7, <1>8, <1>9, CalmContinue

LEMMA CalmBegin ==
    ASSUME Inv, Calm, NEW r \in Request, NEW c \in Calls, Begin(r, c)
    PROVE  Calm'
<1> SUFFICES ASSUME alone'
             PROVE  Single' /\ \A q \in Request : Knows(q)'
  BY DEF Calm
<1>1. /\ \A q \in Request : pc[q] \in Done \cup {"idle"}
      /\ pc'[r] \in {"find", "check"} /\ \A q \in Request \ {r} : pc'[q] = pc[q]
  BY DEF Begin, Running, Inv, Types
<1>2. Single'
  BY <1>1 DEF Single, Running
<1>3. \A q \in Request : Knows(q)'
  BY <1>1 DEF Knows, Done
<1> QED BY <1>2, <1>3

LEMMA CalmInit == Init => Calm
BY DEF Init, Calm, Single, Running, Knows

LEMMA StepRuns ==
    ASSUME NEW r \in Request, Step(r)
    PROVE  r \in Running
<1>1. Check(r) \/ CountActive(r) \/ InsertEnrollment(r) => r \in Running
  BY DEF Running, Done, Check, CountActive, InsertEnrollment
<1>2. FindEnrollment(r) \/ UpdateEnrollment(r) => r \in Running
  BY DEF Running, Done, FindEnrollment, UpdateEnrollment
<1>3. SkipOrGoOn(r) \/ FindPrevious(r) \/ CommitPromotion(r) => r \in Running
  <2>1. SkipOrGoOn(r) \/ FindPrevious(r) \/ CommitPromotion(r) =>
          pc[r] \in {"existing", "previous", "commit"}
    BY Zenon DEF SkipOrGoOn, FindPrevious, CommitPromotion
  <2> QED BY <2>1 DEF Running, Done
<1> QED BY <1>1, <1>2, <1>3 DEF Step, StatementFails

LEMMA CalmNext == Inv /\ Calm /\ [Next]_vars => Calm'
<1> SUFFICES ASSUME Inv, Calm, [Next]_vars
             PROVE  Calm'
  OBVIOUS
<1>1. ASSUME NEW r \in Running, InsertEnrollment(r) \/ UpdateEnrollment(r) \/ StatementFails(r)
      PROVE  Calm'
  <2>1. PICK o \in Done : Answer(r, o)
    BY <1>1 DEF InsertEnrollment, UpdateEnrollment, StatementFails, Done
  <2> QED BY <2>1, CalmAnswer
<1>2. ASSUME NEW r \in Request, Step(r)
      PROVE  Calm'
  <2>1. r \in Running
    BY <1>2, StepRuns
  <2> QED BY <1>1, <1>2, <2>1, CalmCheck, CalmCountActive, CalmFindEnrollment, CalmSkipOrGoOn,
             CalmFindPrevious, CalmCommit, Zenon DEF Step
<1>3. ASSUME NEW r \in Request, NEW c \in Calls, Begin(r, c)
      PROVE  Calm'
  BY <1>3, CalmBegin
<1>4. CASE UNCHANGED vars
  <2>1. /\ enrollments' = enrollments /\ pc' = pc /\ call' = call /\ seen' = seen
        /\ alone' = alone
    BY <1>4 DEF vars
  <2>2. Single' <=> Single
    BY <2>1 DEF Single, Running
  <2>3. \A r \in Request : Knows(r)' <=> Knows(r)
    BY <2>1 DEF Knows, ActiveIn, Rows, ActiveYears, First
  <2> QED BY <2>1, <2>2, <2>3 DEF Calm
<1> QED BY <1>2, <1>3, <1>4 DEF Next

LEMMA CalmInvariance == Spec => [](Inv /\ Calm)
BY InitHolds, NextKeeps, CalmInit, CalmNext, PTL DEF Spec

\* Once handlers have overlapped, alone stays false.
LEMMA StaysOverlapped == [Next]_vars /\ alone' => alone
<1> SUFFICES ASSUME [Next]_vars, alone'
             PROVE  alone
  OBVIOUS
<1>1. ASSUME NEW r, NEW o, Answer(r, o)
      PROVE  alone
  BY <1>1 DEF Answer
<1>2. ASSUME NEW r, NEW n, NEW l, Continue(r, n, l)
      PROVE  alone
  BY <1>2 DEF Continue
<1>3. ASSUME NEW r, NEW n, Advance(r, n)
      PROVE  alone
  BY <1>1, <1>2, <1>3, Zenon DEF Advance
<1>4. ASSUME NEW r, Check(r)
      PROVE  alone
  <2>1. ASSUME NEW y, Checked(r, y)
        PROVE  alone
    BY <1>2, <2>1, Zenon DEF Checked
  <2> QED BY <1>1, <1>4, <2>1 DEF Check
<1>5. ASSUME NEW r, CountActive(r) \/ FindPrevious(r)
      PROVE  alone
  BY <1>2, <1>5, Zenon DEF CountActive, FindPrevious
<1>6. ASSUME NEW r, InsertEnrollment(r) \/ UpdateEnrollment(r) \/ StatementFails(r)
      PROVE  alone
  BY <1>1, <1>6 DEF InsertEnrollment, UpdateEnrollment, StatementFails
<1>7. ASSUME NEW r, FindEnrollment(r) \/ SkipOrGoOn(r)
      PROVE  alone
  BY <1>1, <1>2, <1>3, <1>7 DEF FindEnrollment, SkipOrGoOn
<1>8. ASSUME NEW r, CommitPromotion(r)
      PROVE  alone
  BY <1>1, <1>3, <1>8 DEF CommitPromotion
<1>9. ASSUME NEW r \in Request, Step(r)
      PROVE  alone
  BY <1>4, <1>5, <1>6, <1>7, <1>8, <1>9, Zenon DEF Step
<1>10. ASSUME NEW r \in Request, NEW c \in Calls, Begin(r, c)
       PROVE  alone
  BY <1>10 DEF Begin
<1>11. CASE UNCHANGED vars
  BY <1>11 DEF vars
<1>12. CASE Next
  BY <1>9, <1>10, <1>12, Zenon DEF Next
<1> QED BY <1>11, <1>12

\* What a step writes, and who takes it.
LEMMA WhoWrites ==
    ASSUME Inv, [Next]_vars
    PROVE  \/ UNCHANGED enrollments
           \/ \E r \in Running :
                \/ pc[r] = "write" /\ pc'[r] = "ok" /\ call[r].op = "update"
                \/ \E s : /\ pc[r] = "insert" /\ pc'[r] = "ok" /\ Entered(r, s, None)
                \/ /\ pc[r] = "commit" /\ pc'[r] # "commit"
                   /\ Entered(r, First(r), seen[r].previous)
<1> DEFINE Goal == \/ UNCHANGED enrollments
                   \/ \E r \in Running :
                        \/ pc[r] = "write" /\ pc'[r] = "ok" /\ call[r].op = "update"
                        \/ \E s : /\ pc[r] = "insert" /\ pc'[r] = "ok" /\ Entered(r, s, None)
                        \/ /\ pc[r] = "commit" /\ pc'[r] # "commit"
                           /\ Entered(r, First(r), seen[r].previous)
<1>1. ASSUME NEW r \in Request, UpdateEnrollment(r)
      PROVE  Goal
  <2>1. pc[r] = "write" /\ pc'[r] = "ok"
    BY <1>1, AnswerFits DEF UpdateEnrollment, Done
  <2>2. r \in Running /\ call[r].op = "update"
    BY <2>1 DEF Running, Done, Inv, Fits
  <2> QED BY <2>1, <2>2
<1>2. ASSUME NEW r \in Request, InsertEnrollment(r)
      PROVE  Goal
  <2>1. CASE UNCHANGED enrollments
    BY <2>1
  <2>2. CASE Entered(r, call[r].student, None) /\ Answer(r, "ok")
    <3>1. pc[r] = "insert" /\ pc'[r] = "ok"
      BY <1>2, <2>2, AnswerFits DEF InsertEnrollment, Done
    <3>2. r \in Running
      BY <3>1 DEF Running, Done
    <3> QED BY <2>2, <3>1, <3>2
  <2> QED BY <1>2, <2>1, <2>2, InsertFacts
<1>3. ASSUME NEW r \in Request, CommitPromotion(r)
      PROVE  Goal
  <2>1. CASE UNCHANGED enrollments
    BY <2>1
  <2>2. CASE Entered(r, First(r), seen[r].previous) /\ Advance(r, seen[r].roll)
    <3>1. pc[r] = "commit"
      BY <1>3 DEF CommitPromotion
    <3>2. r \in Running
      BY <3>1 DEF Running, Done
    <3>3. pc'[r] \in {"ok", "existing"}
      BY <2>2 DEF Advance, Answer, Continue, Inv, Types
    <3> QED BY <2>2, <3>1, <3>2, <3>3
  <2> QED BY <1>3, <2>1, <2>2, CommitFacts
<1>4. ASSUME NEW r \in Request, Step(r)
      PROVE  Goal
  <2>1. \/ UNCHANGED enrollments
        \/ InsertEnrollment(r) \/ UpdateEnrollment(r) \/ CommitPromotion(r)
    BY <1>4, Zenon DEF Step, Check, CountActive, FindEnrollment, SkipOrGoOn, FindPrevious,
                       StatementFails
  <2>2. CASE UNCHANGED enrollments
    BY <2>2
  <2> HIDE DEF Goal
  <2> QED BY <1>1, <1>2, <1>3, <2>1, <2>2
<1>5. ASSUME NEW r \in Request, NEW c \in Calls, Begin(r, c)
      PROVE  Goal
  BY <1>5 DEF Begin
<1>6. ASSUME UNCHANGED vars
      PROVE  Goal
  BY <1>6 DEF vars
<1> HIDE DEF Goal
<1>7. Next => Goal
  BY <1>4, <1>5, Zenon DEF Next
<1>8. Goal
  BY <1>6, <1>7
<1> QED BY <1>8 DEF Goal

\* One more of a section numbered 1 .. n, with the number n + 1.
LEMMA OneMoreIsDense ==
    ASSUME Inv, NEW c, NEW k, Dense(c), ActiveIn(c)' = ActiveIn(c) \cup {k},
           Cardinality(ActiveIn(c)') = Cardinality(ActiveIn(c)) + 1,
           \A j \in ActiveIn(c) : RowOf(j)'.roll = RowOf(j).roll,
           RowOf(k)'.roll = Cardinality(ActiveIn(c)) + 1
    PROVE  Dense(c)'
<1> DEFINE n == Cardinality(ActiveIn(c))
<1>1. n \in Nat
  BY RowsFinite
<1>2. {RowOf(j).roll : j \in ActiveIn(c)} = 1 .. n
  BY DEF Dense, RowOf
<1>3. {RowOf(j)'.roll : j \in ActiveIn(c)'} = {RowOf(j).roll : j \in ActiveIn(c)} \cup {n + 1}
  <2> HIDE DEF n
  <2>1. \A j \in ActiveIn(c)' : j \in ActiveIn(c) \/ j = k
    OBVIOUS
  <2>2. RowOf(k)'.roll = n + 1 /\ k \in ActiveIn(c)'
    BY DEF n
  <2> QED BY <2>1, <2>2
<1>4. (1 .. n) \cup {n + 1} = 1 .. n + 1
  <2> HIDE DEF n
  <2> QED BY <1>1
<1>5. {RowOf(j)'.roll : j \in ActiveIn(c)'} = 1 .. Cardinality(ActiveIn(c)')
  BY <1>2, <1>3, <1>4
<1> QED BY <1>5 DEF Dense, RowOf

LEMMA SameIsDense ==
    ASSUME NEW c, Dense(c), ActiveIn(c)' = ActiveIn(c),
           \A j \in ActiveIn(c) : RowOf(j)'.roll = RowOf(j).roll
    PROVE  Dense(c)'
<1>1. {RowOf(j)'.roll : j \in ActiveIn(c)'} = {RowOf(j).roll : j \in ActiveIn(c)}
  OBVIOUS
<1> QED BY <1>1 DEF Dense, RowOf

\* While handlers do not overlap, roll numbers that are generated continue
\* those of the section: a section numbered 1 .. n stays so when students
\* enter it, one by one or by a promotion.
THEOREM RollsStayDense == Spec => SerialRollsStayDense
<1> DEFINE Goal == alone' => \A c \in Section :
         /\ Dense(c) /\ ActiveIn(c) \subseteq ActiveIn(c)'
         /\ \A r \in Request : pc[r] # pc'[r] => call[r].op # "update" /\ call[r].roll = None
         => Dense(c)'
<1>1. ASSUME Inv, Calm, [Next]_vars, alone', NEW c \in Section,
             Dense(c), ActiveIn(c) \subseteq ActiveIn(c)',
             \A r \in Request : pc[r] # pc'[r] => call[r].op # "update" /\ call[r].roll = None
      PROVE  Dense(c)'
  <2>1. alone
    BY <1>1, StaysOverlapped
  <2>2. ASSUME NEW r \in Running, NEW s, NEW p, Entered(r, s, p), pc'[r] # pc[r],
               seen[r].roll = Cardinality(ActiveIn(call[r].section)) + 1
        PROVE  Dense(c)'
    <3>1. r \in Request
      BY DEF Running
    <3>2. PICK y : y = Target(r)
      OBVIOUS
    <3>3. RowOf(<<s, y>>)'.roll = seen[r].roll /\ \A j \in ActiveIn(c) : RowOf(j)'.roll = RowOf(j).roll
      BY <1>1, <2>2, <3>1, <3>2, EnteredActive DEF RowOf
    <3>4. CASE c = call[r].section
      <4>1. /\ ActiveIn(c)' = ActiveIn(c) \cup {<<s, y>>}
            /\ Cardinality(ActiveIn(c)') = Cardinality(ActiveIn(c)) + 1
        BY <1>1, <2>2, <3>1, <3>2, <3>4, EnteredActive
      <4> QED BY <1>1, <2>2, <3>3, <3>4, <4>1, OneMoreIsDense
    <3>5. CASE c # call[r].section
      <4>1. ActiveIn(c)' = ActiveIn(c)
        BY <1>1, <2>2, <3>1, <3>5, EnteredActive
      <4> QED BY <1>1, <3>3, <4>1, SameIsDense
    <3> QED BY <3>4, <3>5
  <2>3. CASE UNCHANGED enrollments
    <3>1. ActiveIn(c)' = ActiveIn(c)
      BY <2>3 DEF ActiveIn, Rows
    <3> QED BY <1>1, <2>3, <3>1, SameIsDense DEF RowOf
  <2>4. ASSUME NEW r \in Running, pc[r] = "write" /\ pc'[r] = "ok" /\ call[r].op = "update"
        PROVE  FALSE
    BY <1>1, <2>4 DEF Running
  <2>5. ASSUME NEW r \in Running, NEW s, pc[r] = "insert", pc'[r] = "ok", Entered(r, s, None)
        PROVE  Dense(c)'
    <3>1. call[r].roll = None
      BY <1>1, <2>5 DEF Running
    <3>2. seen[r].roll = Cardinality(ActiveIn(call[r].section)) + 1
      BY <1>1, <2>1, <2>5, <3>1 DEF Calm, Knows, Running
    <3> QED BY <2>2, <2>5, <3>2
  <2>6. ASSUME NEW r \in Running, pc[r] = "commit", pc'[r] # "commit",
               Entered(r, First(r), seen[r].previous)
        PROVE  Dense(c)'
    <3>1. seen[r].roll = Cardinality(ActiveIn(call[r].section)) + 1
      BY <1>1, <2>1, <2>6 DEF Calm, Knows, Running
    <3>2. PICK s, p : s = First(r) /\ p = seen[r].previous
      OBVIOUS
    <3> QED BY <2>2, <2>6, <3>1, <3>2
  <2> QED BY <1>1, <2>3, <2>4, <2>5, <2>6, WhoWrites
<1>2. Inv /\ Calm /\ [Next]_vars => Goal
  BY <1>1
<1> HIDE DEF Goal
<1>3. Inv /\ Calm /\ [Next]_vars => [Goal]_vars
  BY <1>2
<1>4. Spec => [][Goal]_vars
  BY <1>3, CalmInvariance, PTL DEF Spec
<1> QED BY <1>4 DEF SerialRollsStayDense, Goal

\* While handlers do not overlap, a promotion moves a student: nobody who was
\* active somewhere becomes active in one class more by it.
THEOREM PromotionsMove == Spec => SerialPromotionMoves
<1> DEFINE Goal == alone' => \A r \in Request : \A s \in Known :
         pc[r] = "commit" /\ ActiveYears(s) # {} =>
           Cardinality(ActiveYears(s)') = Cardinality(ActiveYears(s))
<1>1. ASSUME Inv, Calm, [Next]_vars, alone', NEW r \in Request, NEW s \in Known,
             pc[r] = "commit", ActiveYears(s) # {}
      PROVE  Cardinality(ActiveYears(s)') = Cardinality(ActiveYears(s))
  <2>1. alone
    BY <1>1, StaysOverlapped
  <2>2. r \in Running /\ \A q \in Running : q = r
    BY <1>1, <2>1 DEF Calm, Single, Running, Done
  <2>3. CASE UNCHANGED enrollments
    <3>1. ActiveYears(s)' = ActiveYears(s)
      BY <2>3 DEF ActiveYears
    <3> QED BY <3>1
  <2>4. CASE Entered(r, First(r), seen[r].previous)
    <3>1. PICK f, p, y : f = First(r) /\ p = seen[r].previous /\ y = Target(r)
      OBVIOUS
    <3>2. Entered(r, f, p)
      BY <2>4, <3>1
    <3>3. /\ ActiveYears(f)' = (ActiveYears(f) \ {p}) \cup {y} /\ y \notin ActiveYears(f)
          /\ \A q \in Known \ {f} : ActiveYears(q)' = ActiveYears(q)
      BY <1>1, <3>1, <3>2, EnteredYears
    <3>4. CASE s # f
      BY <3>3, <3>4
    <3>5. CASE s = f
      <4>1. p \in ActiveYears(s)
        BY <1>1, <2>1, <3>1, <3>5 DEF Calm, Knows
      <4>2. IsFiniteSet(ActiveYears(s)) /\ Cardinality(ActiveYears(s)) \in Nat
        BY RowsFinite
      <4>3. /\ IsFiniteSet(ActiveYears(s) \ {p})
            /\ Cardinality(ActiveYears(s) \ {p}) = Cardinality(ActiveYears(s)) - 1
        BY <4>1, <4>2, FS_RemoveElement
      <4>4. Cardinality((ActiveYears(s) \ {p}) \cup {y}) = Cardinality(ActiveYears(s) \ {p}) + 1
        BY <3>3, <3>5, <4>3, FS_AddElement
      <4> QED BY <3>3, <3>5, <4>2, <4>3, <4>4
    <3> QED BY <3>4, <3>5
  <2> QED BY <1>1, <2>2, <2>3, <2>4, WhoWrites
<1>2. Inv /\ Calm /\ [Next]_vars => Goal
  BY <1>1
<1> HIDE DEF Goal
<1>3. Inv /\ Calm /\ [Next]_vars => [Goal]_vars
  BY <1>2
<1>4. Spec => [][Goal]_vars
  BY <1>3, CalmInvariance, PTL DEF Spec
<1> QED BY <1>4 DEF SerialPromotionMoves, Goal
=============================================================================
