----------------------------- MODULE Attendance -----------------------------
(***************************************************************************)
(* attendance.service.ts for one section: the days attendance was taken    *)
(* and the absences of each day, saved and deleted by transactions whose   *)
(* statements interleave.  A transaction sees at each statement what is    *)
(* committed then; it locks the rows it has written until it ends, and     *)
(* its writes show at its commit, which is its last statement.  The        *)
(* calendar is in School, whose steps run in saveDay.                      *)
(*                                                                         *)
(* Whether the section is in the current year, the caller may manage or    *)
(* view it, and the absentees are enrolled, is a choice: AcademicYears,    *)
(* RequestAccess and Enrollment have the rules.  Any statement may fail,   *)
(* and so does one that PostgreSQL picks to end a deadlock.                *)
(***************************************************************************)
EXTENDS School

VARIABLES
    days,       \* the row of each date attendance was taken, by the save that inserted it, or None
    absences    \* the rows of each date: student, and the save that inserted it

tables == <<days, absences>>
vars == <<school, tables, control>>

AttendanceCalls ==
    {c \in UNION {
         Body("saveDay", Date, {{}}, SUBSET Student),
         Body("deleteDay", Date, {{}}, {{}}),
         Body("getDay", Date, {{}}, {{}}),
         Body("getStudentAttendance", {None}, {{}}, {{s} : s \in Student}),
         Body("getSummary", {None}, {{}}, {{}})} : c.op \in Ops}

Calls == SchoolCalls \cup AttendanceCalls

\* days taken before, by calls that did not overlap
Init ==
    /\ settings \in {{}} \cup {{Row(off, Earlier)} : off \in OffChoice}
    /\ holidays \in SUBSET Date
    /\ days \in [Date -> {None, Earlier}]
    /\ \E absent \in [Date -> SUBSET Student] :
         /\ \A d \in Date : days[d] = None => absent[d] = {}
         /\ absences = [d \in Date |-> [student : absent[d], by : {Earlier}]]
    /\ pc = [r \in Request |-> "idle"]
    /\ call = [r \in Request |-> NoCall]
    /\ seen = [r \in Request |-> Nothing]
    /\ alone = TRUE

FirstStep(op) == CASE op \in {"getSettings", "updateSettings"} -> "settings"
                   [] op = "createHoliday" -> "holiday"
                   [] op = "deleteHoliday" -> "deleteHoliday"
                   [] OTHER -> "allow"

Begin(r, c) ==
    /\ pc[r] = "idle"
    /\ call' = [call EXCEPT ![r] = c]
    /\ pc' = [pc EXCEPT ![r] = FirstStep(c.op)]
    /\ alone' = (alone /\ Running = {})
    /\ UNCHANGED <<school, tables, seen>>

-----------------------------------------------------------------------------
(* The checks                                                               *)

\* section, year and access; a save also needs a date that can be recorded
Allow(r) ==
    LET c == call[r] IN
    /\ pc[r] = "allow"
    /\ \E allowed \in BOOLEAN :
         IF allowed /\ (c.op = "saveDay" => c.date \in Recordable)
         THEN Continue(r, CASE c.op = "saveDay" -> "settings" [] c.op = "deleteDay" -> "day"
                            [] OTHER -> "read", seen[r])
         ELSE Answer(r, "refused")
    /\ UNCHANGED <<school, tables>>

\* assertAbsenteesEnrolled
CheckAbsentees(r) ==
    /\ pc[r] = "absentees"
    /\ \/ Continue(r, "upsert", seen[r])
       \/ call[r].absent # {} /\ Answer(r, "refused")
    /\ UNCHANGED <<school, tables>>

\* deleteDay looks for the row that it will delete by its id
FindDay(r) ==
    /\ pc[r] = "day"
    /\ IF days[call[r].date] = None THEN Answer(r, "refused")
       ELSE Continue(r, "find", [seen[r] EXCEPT !.day = days[call[r].date]])
    /\ UNCHANGED <<school, tables>>

-----------------------------------------------------------------------------
(* The transactions                                                         *)

\* saves that have inserted or updated the day's row, and have not ended
Saving(d) == {q \in Running : /\ call[q].op = "saveDay" /\ call[q].date = d
                              /\ pc[q] \in {"find", "lock", "insert"}}

\* Mutant of UpsertDay: the row is written without a lock.
UpsertUnlocked(r) ==
    /\ pc[r] = "upsert"
    /\ Continue(r, "find", seen[r])
    /\ UNCHANGED <<school, tables>>

\* inserts or updates the day's row, after any other save of the date
UpsertDay(r) ==
    /\ pc[r] = "upsert" /\ Saving(call[r].date) = {}
    /\ Continue(r, "find", seen[r])
    /\ UNCHANGED <<school, tables>>

\* deleteMany: the rows it finds are those of its start ...
FindAbsences(r) ==
    /\ pc[r] = "find"
    /\ Continue(r, "lock", [seen[r] EXCEPT !.todo = absences[call[r].date]])
    /\ UNCHANGED <<school, tables>>

\* Mutant of LockAbsences: a deletion of a day leaves the absences.
LockForSave(r) ==
    LET rows == seen[r].todo \cap absences[call[r].date] IN
    /\ pc[r] = "lock"
    /\ \A q \in Running \ {r} : call[q].date = call[r].date => seen[q].held \cap rows = {}
    /\ IF call[r].op = "saveDay"
       THEN Continue(r, "insert", [seen[r] EXCEPT !.todo = {}, !.held = rows])
       ELSE Continue(r, "delete", [seen[r] EXCEPT !.todo = {}])
    /\ UNCHANGED <<school, tables>>

\* Mutant of LockAbsences: the rows found are deleted without a wait.
LockWithoutWaiting(r) ==
    /\ pc[r] = "lock"
    /\ Continue(r, IF call[r].op = "saveDay" THEN "insert" ELSE "delete",
                [seen[r] EXCEPT !.todo = {}, !.held = seen[r].todo \cap absences[call[r].date]])
    /\ UNCHANGED <<school, tables>>

\* ... and it deletes those that are still there once the transactions that
\* hold them have ended; rows committed meanwhile it does not see
LockAbsences(r) ==
    LET rows == seen[r].todo \cap absences[call[r].date] IN
    /\ pc[r] = "lock"
    /\ \A q \in Running \ {r} : call[q].date = call[r].date => seen[q].held \cap rows = {}
    /\ Continue(r, IF call[r].op = "saveDay" THEN "insert" ELSE "delete",
                [seen[r] EXCEPT !.todo = {}, !.held = rows])
    /\ UNCHANGED <<school, tables>>

\* createMany and the commit; the answer is the day as it is read afterwards
InsertAbsences(r) ==
    LET d == call[r].date IN
    /\ pc[r] = "insert"
    /\ days' = [days EXCEPT ![d] = IF @ = None THEN r ELSE @]
    /\ absences' = [absences EXCEPT ![d] =
                      (@ \ seen[r].held) \cup [student : call[r].absent, by : {r}]]
    /\ Continue(r, "read", Nothing)
    /\ UNCHANGED school

\* The delete by id waits for a save that holds the row.  A row that is gone
\* makes it fail, and the absences stay.
DeleteDay(r) ==
    LET d == call[r].date IN
    /\ pc[r] = "delete"
    /\ \/ /\ days[d] # seen[r].day
          /\ Answer(r, "refused")
          /\ UNCHANGED tables
       \/ /\ days[d] = seen[r].day /\ Saving(d) = {}
          /\ days' = [days EXCEPT ![d] = None]
          /\ absences' = [absences EXCEPT ![d] = @ \ seen[r].held]
          /\ Answer(r, "ok")
    /\ UNCHANGED school

-----------------------------------------------------------------------------
(* The reading handlers: Promise.all runs their queries in any order        *)

\* the dates of a view: one day, a student's year, or the section's month
Viewed(r) == IF call[r].date = None THEN Date ELSE {call[r].date}

\* the students of a view: the one asked for, or all
Pupils(r) == IF call[r].op = "getStudentAttendance" THEN call[r].absent ELSE Student

ReadDays(r) ==
    /\ pc[r] = "read" /\ "days" \notin seen[r].read
    /\ Continue(r, "read", [seen[r] EXCEPT !.read = @ \cup {"days"},
                                           !.days = {d \in Viewed(r) : days[d] # None}])
    /\ UNCHANGED <<school, tables>>

ReadAbsences(r) ==
    /\ pc[r] = "read" /\ "absences" \notin seen[r].read
    /\ Continue(r, "read",
                [seen[r] EXCEPT !.read = @ \cup {"absences"},
                                !.absent = {d \in Viewed(r) :
                                   \E a \in absences[d] : a.student \in Pupils(r)}])
    /\ UNCHANGED <<school, tables>>

Told(r) == pc[r] = "read" /\ seen[r].read = {"days", "absences"}

Reply(r) == Told(r) /\ Answer(r, "ok") /\ UNCHANGED <<school, tables>>

-----------------------------------------------------------------------------

\* a statement fails, or is picked to end a deadlock, and rolls its
\* transaction back; what was committed before stays
StatementFails(r) == r \in Running /\ Answer(r, "failed") /\ UNCHANGED <<school, tables>>

Step(r) ==
    \/ SchoolStep(r) /\ UNCHANGED tables
    \/ Allow(r) \/ CheckAbsentees(r) \/ FindDay(r)
    \/ UpsertDay(r) \/ FindAbsences(r) \/ LockAbsences(r) \/ InsertAbsences(r) \/ DeleteDay(r)
    \/ ReadDays(r) \/ ReadAbsences(r) \/ Reply(r)
    \/ StatementFails(r)

Next == \E r \in Request : Step(r) \/ \E c \in Calls : Begin(r, c)

Spec == Init /\ [][Next]_vars

-----------------------------------------------------------------------------
(* Properties                                                               *)

\* Rows have the types of their columns, and no absence is locked by two
\* transactions at once.
TypeOK ==
    /\ settings \subseteq [off : SUBSET Weekday, by : Request \cup {Earlier}]
    /\ holidays \subseteq Date
    /\ days \in [Date -> Request \cup {Earlier, None}]
    /\ \A d \in Date : absences[d] \subseteq [student : Student, by : Request \cup {Earlier}]
    /\ \A r \in Running :
         /\ call[r] \in Calls
         /\ \A q \in Running \ {r} :
              call[q].date = call[r].date => seen[q].held \cap seen[r].held = {}

\* All absences of a date are those of one save, whatever saves and deletions of
\* the day run at the same time: the roll of two saves is never mixed, and no
\* student is absent twice on one day.
OneSaveWins == \A d \in Date : \A a, b \in absences[d] : a.by = b.by

\* While handlers do not overlap, a view adds up: the absences it reads are on
\* days it reads as taken, so that getSummary counts nobody absent more often
\* than attendance was taken, and no percentage is below 0.  (A deletion that
\* runs beside a save of the same day may delete the day and leave the absences
\* just saved.)
SerialViewsAddUp == alone => \A r \in Request : Told(r) => seen[r].absent \subseteq seen[r].days

\* While handlers do not overlap, attendance is saved on school days only: on
\* no holiday, and on no day off, of any settings row there is.
SerialSavedOnSchoolDays ==
    [][alone' => \A r \in Request : pc[r] = "insert" /\ pc'[r] = "read" =>
         /\ call[r].date \notin holidays
         /\ \A row \in settings : WeekdayOf[call[r].date] \notin row.off]_vars
=============================================================================
