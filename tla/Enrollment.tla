----------------------------- MODULE Enrollment -----------------------------
(***************************************************************************)
(* students.service.ts: enrolling a student in a section, changing an      *)
(* enrollment, and promoting a list of students to a section of another    *)
(* year.  Every awaited statement on the enrollments is a step, at READ    *)
(* COMMITTED, and may fail; profiles and sections do not change here, so   *)
(* the checks on them are one step.  An enrollment is the row of a student *)
(* and a year, which the unique index makes one at most.  Roll numbers are *)
(* numbers; the code pads them to strings, which tells no two of them      *)
(* apart less.  The fee record that follows an enrollment is in Fees: its  *)
(* failure is swallowed and it touches no enrollment.                      *)
(***************************************************************************)
EXTENDS Integers, Sequences, FiniteSets

CONSTANTS Request, Student,
          Known,       \* the students with a profile; other ids name nobody
          Year, Section,
          YearOf,      \* the year of each section
          GivenRoll,   \* roll numbers an admin may choose
          StatusChoice,     \* statuses an admin may set
          Lists,       \* lists of students that are promoted together
          Ops,         \* the operations called in this instance
          None

Status == {"ACTIVE", "PROMOTED", "FAILED", "TRANSFERRED", "WITHDRAWN"}

ASSUME EnrollmentAssumption ==
    /\ Known \subseteq Student /\ YearOf \in [Section -> Year]
    /\ IsFiniteSet(Known) /\ IsFiniteSet(Year)
    /\ GivenRoll \subseteq Nat \ {0} /\ StatusChoice \subseteq Status
    /\ Lists \subseteq Seq(Student) \ {<< >>}
    /\ None \notin Year \cup Section \cup Student \cup Status \cup Nat
    /\ Ops \subseteq {"enroll", "update", "promote"}

VARIABLES
    enrollments,    \* the row of each student and year, or NoRow
    pc, call, seen,
    alone           \* history: no two handlers have been in flight at once so far

vars == <<enrollments, pc, call, seen, alone>>

NoRow == [section |-> None, roll |-> 0, status |-> "none", at |-> 0]

Row == [section : Section, roll : Nat \ {0}, status : Status, at : Nat]

Rows == {k \in Known \X Year : enrollments[k[1]][k[2]] # NoRow}

\* roll numbers of the active students of a section, and how many there are
ActiveIn(c) == {k \in Rows : /\ enrollments[k[1]][k[2]].section = c
                             /\ enrollments[k[1]][k[2]].status = "ACTIVE"}

\* the years a student is active in
ActiveYears(s) == {y \in Year : enrollments[s][y].status = "ACTIVE"}

Body(op, whom, ys, cs, rolls, sts, lists) ==
    [op : {op}, student : whom, year : ys, section : cs, roll : rolls, status : sts, list : lists]

\* the year is optional for enroll and promote; an update changes one field at least
Calls ==
    {c \in UNION {
         Body("enroll", Student, Year \cup {None}, Section, GivenRoll \cup {None}, {None}, {<< >>}),
         Body("update", Student, Year, {None}, GivenRoll \cup {None}, StatusChoice \cup {None}, {<< >>}),
         Body("promote", {None}, Year \cup {None}, Section, {None}, {None}, Lists)} :
       c.op \in Ops /\ (c.op = "update" => c.roll # None \/ c.status # None)}

NoCall == [op |-> "none", student |-> None, year |-> None, section |-> None,
           roll |-> None, status |-> None, list |-> << >>]

\* the year to write to, the last roll number given out, the students still to
\* promote, and the year of the enrollment the first of them leaves
Nothing == [year |-> None, roll |-> 0, todo |-> << >>, previous |-> None]

\* students were enrolled in one year at most so far, whatever became of it
Init ==
    /\ \E y \in Year :
         enrollments \in
           {f \in [Known -> [Year -> {NoRow} \cup
                     [section : Section, roll : 1 .. Cardinality(Known), status : StatusChoice, at : {0}]]] :
              \A s \in Known, x \in Year :
                f[s][x] # NoRow => x = y /\ YearOf[f[s][x].section] = y}
    /\ pc = [r \in Request |-> "idle"]
    /\ call = [r \in Request |-> NoCall]
    /\ seen = [r \in Request |-> Nothing]
    /\ alone = TRUE

Done == {"ok", "refused", "failed"}

Running == {r \in Request : pc[r] \notin Done \cup {"idle"}}

Begin(r, c) ==
    /\ pc[r] = "idle"
    /\ call' = [call EXCEPT ![r] = c]
    /\ pc' = [pc EXCEPT ![r] = IF c.op = "update" THEN "find" ELSE "check"]
    /\ alone' = (alone /\ Running = {})
    /\ UNCHANGED <<enrollments, seen>>

\* an answered call leaves nothing behind but its outcome
Answer(r, outcome) ==
    /\ pc' = [pc EXCEPT ![r] = outcome]
    /\ call' = [call EXCEPT ![r] = NoCall]
    /\ seen' = [seen EXCEPT ![r] = Nothing]
    /\ UNCHANGED alone

Continue(r, s, what) ==
    /\ pc' = [pc EXCEPT ![r] = s]
    /\ seen' = [seen EXCEPT ![r] = what]
    /\ UNCHANGED <<call, alone>>

Target(r) == seen[r].year

NewRow(r, roll) ==
    [section |-> call[r].section, roll |-> roll, status |-> "ACTIVE", at |-> 1 + Cardinality(Rows)]

-----------------------------------------------------------------------------

\* dto.academicYearId, or the current year: any, or none, as setCurrent left it
AskedYear(c) == IF c.year = None THEN Year \cup {None} ELSE {c.year}

Checked(r, y) ==
    Continue(r, IF call[r].roll = None THEN "count" ELSE "insert",
             [seen[r] EXCEPT !.year = y, !.todo = call[r].list,
                             !.roll = IF call[r].roll = None THEN 0 ELSE call[r].roll])

\* Mutant of Check: the section may be of another year.
CheckStudentOnly(r) ==
    /\ pc[r] = "check"
    /\ \E y \in AskedYear(call[r]) :
         IF (call[r].op = "enroll" => call[r].student \in Known) /\ y # None
         THEN Checked(r, y) ELSE Answer(r, "refused")
    /\ UNCHANGED enrollments

\* the student of an enroll exists, and the section is of the year asked for
Check(r) ==
    /\ pc[r] = "check"
    /\ \E y \in AskedYear(call[r]) :
         IF (call[r].op = "enroll" => call[r].student \in Known) /\ y = YearOf[call[r].section]
         THEN Checked(r, y) ELSE Answer(r, "refused")
    /\ UNCHANGED enrollments

\* Mutant of CountActive: every enrollment of the section counts.
CountAll(r) ==
    LET n == Cardinality({k \in Rows : enrollments[k[1]][k[2]].section = call[r].section}) IN
    /\ pc[r] = "count"
    /\ Continue(r, IF call[r].op = "enroll" THEN "insert" ELSE "existing",
                [seen[r] EXCEPT !.roll = IF call[r].op = "enroll" THEN n + 1 ELSE n])
    /\ UNCHANGED enrollments

\* generateRollNumber, and the count that a promotion goes on from
CountActive(r) ==
    LET n == Cardinality(ActiveIn(call[r].section)) IN
    /\ pc[r] = "count"
    /\ Continue(r, IF call[r].op = "enroll" THEN "insert" ELSE "existing",
                [seen[r] EXCEPT !.roll = IF call[r].op = "enroll" THEN n + 1 ELSE n])
    /\ UNCHANGED enrollments

\* a second enrollment in the year is refused by the unique index
InsertEnrollment(r) ==
    LET s == call[r].student IN
    /\ pc[r] = "insert"
    /\ IF enrollments[s][Target(r)] # NoRow
       THEN Answer(r, "refused") /\ UNCHANGED enrollments
       ELSE /\ enrollments' = [enrollments EXCEPT ![s][Target(r)] = NewRow(r, seen[r].roll)]
            /\ Answer(r, "ok")

-----------------------------------------------------------------------------
(* updateEnrollment: no enrollment is deleted, so the one found is still    *)
(* there when it is written.  Any status may follow any other.              *)

FindEnrollment(r) ==
    /\ pc[r] = "find"
    /\ IF <<call[r].student, call[r].year>> \in Rows THEN Continue(r, "write", seen[r])
       ELSE Answer(r, "refused")
    /\ UNCHANGED enrollments

UpdateEnrollment(r) ==
    LET c == call[r]
        old == enrollments[c.student][c.year] IN
    /\ pc[r] = "write"
    /\ enrollments' = [enrollments EXCEPT ![c.student][c.year] =
         [old EXCEPT !.status = IF c.status = None THEN old.status ELSE c.status,
                     !.roll = IF c.roll = None THEN old.roll ELSE c.roll]]
    /\ Answer(r, "ok")

-----------------------------------------------------------------------------
(* promote, student by student                                              *)

First(r) == Head(seen[r].todo)

\* on to the next student, or answer with the numbers of promoted and skipped
Advance(r, roll) ==
    IF Len(seen[r].todo) = 1 THEN Answer(r, "ok")
    ELSE Continue(r, "existing", [seen[r] EXCEPT !.roll = roll, !.todo = Tail(@), !.previous = None])

\* Mutant of SkipOrGoOn: an enrollment in any year counts as one in the target year.
SkipEnrolledAnywhere(r) ==
    /\ pc[r] = "existing"
    /\ IF First(r) \notin Known \/ \E y \in Year : <<First(r), y>> \in Rows
       THEN Advance(r, seen[r].roll)
       ELSE Continue(r, "previous", seen[r])
    /\ UNCHANGED enrollments

\* students without a profile and those enrolled in the target year are skipped
SkipOrGoOn(r) ==
    /\ pc[r] = "existing"
    /\ IF First(r) \notin Known \/ <<First(r), Target(r)>> \in Rows
       THEN Advance(r, seen[r].roll)
       ELSE Continue(r, "previous", seen[r])
    /\ UNCHANGED enrollments

Latest(s) == {y \in ActiveYears(s) :
                \A x \in ActiveYears(s) : enrollments[s][x].at <= enrollments[s][y].at}

\* the active enrollment created last, of whatever year
FindPrevious(r) ==
    /\ pc[r] = "previous"
    /\ \E y \in IF Latest(First(r)) = {} THEN {None} ELSE Latest(First(r)) :
         Continue(r, "commit", [seen[r] EXCEPT !.previous = y, !.roll = @ + 1])
    /\ UNCHANGED enrollments

\* Mutant of CommitPromotion: the enrollment before keeps its status.
EnrollOnly(r) ==
    LET s == First(r) IN
    /\ pc[r] = "commit"
    /\ IF enrollments[s][Target(r)] # NoRow
       THEN Answer(r, "refused") /\ UNCHANGED enrollments
       ELSE /\ enrollments' = [enrollments EXCEPT ![s][Target(r)] = NewRow(r, seen[r].roll)]
            /\ Advance(r, seen[r].roll)

\* One transaction marks the previous enrollment, whatever its status is by
\* now, and inserts the new one; if the unique index refuses that, both are
\* rolled back and the call ends there with a conflict.
CommitPromotion(r) ==
    LET s == First(r) IN
    /\ pc[r] = "commit"
    /\ IF enrollments[s][Target(r)] # NoRow
       THEN Answer(r, "refused") /\ UNCHANGED enrollments
       ELSE /\ enrollments' = [enrollments EXCEPT ![s] = [y \in Year |->
                 CASE y = Target(r) -> NewRow(r, seen[r].roll)
                   [] y = seen[r].previous -> [@[y] EXCEPT !.status = "PROMOTED"]
                   [] OTHER -> @[y]]]
            /\ Advance(r, seen[r].roll)

-----------------------------------------------------------------------------

\* a statement fails and rolls its transaction back; earlier commits stay
StatementFails(r) == r \in Running /\ Answer(r, "failed") /\ UNCHANGED enrollments

Step(r) ==
    \/ Check(r) \/ CountActive(r) \/ InsertEnrollment(r)
    \/ FindEnrollment(r) \/ UpdateEnrollment(r)
    \/ SkipOrGoOn(r) \/ FindPrevious(r) \/ CommitPromotion(r)
    \/ StatementFails(r)

Next == \E r \in Request : Step(r) \/ \E c \in Calls : Begin(r, c)

Spec == Init /\ [][Next]_vars

-----------------------------------------------------------------------------
(* Properties                                                               *)

\* Rows and locals have the types of the code's values, and the year of an
\* enrollment, a column of its own, is the year of its section.
TypeOK ==
    /\ enrollments \in [Known -> [Year -> Row \cup {NoRow}]]
    /\ \A k \in Rows : YearOf[enrollments[k[1]][k[2]].section] = k[2]
    /\ alone \in BOOLEAN
    /\ \A r \in Running :
         /\ call[r] \in Calls
         /\ seen[r].roll \in Nat /\ seen[r].previous \in Year \cup {None}
         /\ pc[r] \in {"existing", "previous", "commit"} => seen[r].todo # << >>

\* A promotion that is answered with success has left every student of its
\* list who exists with an enrollment in the target year, promoted now or
\* skipped: in any interleaving with other calls, and with any failure before.
PromoteCoversAll ==
    [][\A r \in Request : call[r].op = "promote" /\ pc'[r] = "ok" =>
         \A i \in DOMAIN call[r].list :
           call[r].list[i] \in Known => <<call[r].list[i], Target(r)>> \in Rows']_vars

\* the active students of c have the roll numbers 1 .. n
Dense(c) == {enrollments[k[1]][k[2]].roll : k \in ActiveIn(c)} = 1 .. Cardinality(ActiveIn(c))

\* While handlers do not overlap, roll numbers that are generated continue
\* those of the section: a section numbered 1 .. n stays so when students
\* enter it, one by one or by a promotion, in the middle of one too.
SerialRollsStayDense ==
    [][alone' => \A c \in Section :
         /\ Dense(c) /\ ActiveIn(c) \subseteq ActiveIn(c)'
         /\ \A r \in Request : pc[r] # pc'[r] => call[r].op # "update" /\ call[r].roll = None
         => Dense(c)']_vars

\* While handlers do not overlap, a promotion moves a student: nobody who was
\* active somewhere becomes active in one class more by it.
SerialPromotionMoves ==
    [][alone' => \A r \in Request : \A s \in Known :
         pc[r] = "commit" /\ ActiveYears(s) # {} =>
           Cardinality(ActiveYears(s)') = Cardinality(ActiveYears(s))]_vars
=============================================================================
