-------------------------- MODULE AttendanceProofs --------------------------
(***************************************************************************)
(* The absences of a date are those of one save, whatever saves and        *)
(* deletions run at the same time, for any number of calls, dates and      *)
(* students; and, while handlers do not overlap, views add up and          *)
(* attendance is saved on school days only.                                *)
(*                                                                         *)
(* A save that has locked the day's row is the only one of its date        *)
(* (Exclusive), so between its deleteMany and its commit the absences only *)
(* shrink: what it has found, and then what it holds, is all there is.     *)
(***************************************************************************)
EXTENDS Attendance, TLAPS

By == Request \cup {Earlier}

Absence == [student : Student, by : By]

Locals == [row : By \cup {None}, day : By \cup {None}, todo : SUBSET Absence, held : SUBSET Absence,
           read : SUBSET {"days", "absences"}, days : SUBSET Date, absent : SUBSET Date]

At == Done \cup {"idle", "settings", "insertSettings", "writeSettings", "holiday", "insertHoliday",
                 "deleteHoliday", "allow", "absentees", "upsert", "day", "find", "lock", "insert",
                 "delete", "read"}

Columns ==
    /\ settings \subseteq [off : SUBSET Weekday, by : By]
    /\ holidays \subseteq Date
    /\ days \in [Date -> By \cup {None}]
    /\ absences \in [Date -> SUBSET Absence]

Types ==
    /\ Columns
    /\ pc \in [Request -> At]
    /\ call \in [Request -> Calls \cup {NoCall}]
    /\ seen \in [Request -> Locals]

Reads == {"getDay", "getStudentAttendance", "getSummary"}

\* What handler r relies on at statement p with locals l.
FitsAt(r, p, l) ==
    /\ p \notin Done \cup {"idle"} => call[r] \in Calls
    /\ p \in {"settings", "insertSettings"} => call[r].op \in {"getSettings", "updateSettings", "saveDay"}
    /\ p = "writeSettings" => call[r].op = "updateSettings"
    /\ p = "holiday" => call[r].op \in {"saveDay", "createHoliday"}
    /\ p = "insertHoliday" => call[r].op = "createHoliday"
    /\ p = "deleteHoliday" => call[r].op = "deleteHoliday"
    /\ p = "allow" => call[r].op \in {"saveDay", "deleteDay"} \cup Reads
    /\ p \in {"absentees", "upsert", "insert"} => call[r].op = "saveDay"
    /\ p \in {"day", "delete"} => call[r].op = "deleteDay"
    /\ p \in {"find", "lock"} => call[r].op \in {"saveDay", "deleteDay"}
    /\ p = "read" => call[r].op \in {"saveDay"} \cup Reads
    /\ p \notin {"insert", "delete"} => l.held = {}
    /\ p # "read" => l.read = {}
    /\ p = "lock" /\ call[r].op = "saveDay" => absences[call[r].date] \subseteq l.todo
    /\ p = "insert" => absences[call[r].date] \subseteq l.held

Fits(r) == FitsAt(r, pc[r], seen[r])

Writing == {"find", "lock", "insert"}

\* r has written the row of date d, and not committed.
Saves(r, d) == pc[r] \in Writing /\ call[r].op = "saveDay" /\ call[r].date = d

Exclusive == \A r, q \in Request : \A d : Saves(r, d) /\ Saves(q, d) => r = q

Locked ==
    \A r, q \in Running : r # q /\ call[q].date = call[r].date => seen[q].held \cap seen[r].held = {}

Inv == Types /\ Exclusive /\ Locked /\ OneSaveWins /\ \A r \in Request : Fits(r)

-----------------------------------------------------------------------------
(* What every step has in common *)

LEMMA CallFacts ==
    ASSUME NEW c \in Calls
    PROVE  /\ c.op = "updateSettings" => c.off \in SUBSET Weekday
           /\ c.op \in {"createHoliday", "deleteHoliday", "saveDay", "deleteDay", "getDay"} => c.date \in Date
           /\ c.op = "saveDay" => c.absent \in SUBSET Student
           /\ c.op \in {"getSettings", "updateSettings", "createHoliday", "deleteHoliday",
                        "saveDay", "deleteDay"} \cup Reads
<1>1. CASE c \in SchoolCalls
  BY <1>1, SchoolAssumption DEF SchoolCalls, Body
<1>2. CASE c \in AttendanceCalls
  BY <1>2 DEF AttendanceCalls, Body, Reads
<1> QED BY <1>1, <1>2 DEF Calls

LEMMA LocalsFacts ==
    ASSUME NEW l \in Locals
    PROVE  /\ Nothing \in Locals /\ Nothing.held = {} /\ Nothing.read = {}
           /\ \A x \in By \cup {None} :
                /\ [l EXCEPT !.row = x] \in Locals /\ [l EXCEPT !.row = x].held = l.held
                /\ [l EXCEPT !.row = x].read = l.read
                /\ [l EXCEPT !.day = x] \in Locals /\ [l EXCEPT !.day = x].held = l.held
                /\ [l EXCEPT !.day = x].read = l.read
           /\ \A T \in SUBSET Absence :
                /\ [l EXCEPT !.todo = T] \in Locals /\ [l EXCEPT !.todo = T].held = l.held
                /\ [l EXCEPT !.todo = T].read = l.read /\ [l EXCEPT !.todo = T].todo = T
                /\ [l EXCEPT !.todo = {}, !.held = T] \in Locals
                /\ [l EXCEPT !.todo = {}, !.held = T].held = T
                /\ [l EXCEPT !.todo = {}, !.held = T].read = l.read
           /\ \A D \in SUBSET Date :
                /\ [l EXCEPT !.read = @ \cup {"days"}, !.days = D] \in Locals
                /\ [l EXCEPT !.read = @ \cup {"days"}, !.days = D].held = l.held
                /\ [l EXCEPT !.read = @ \cup {"absences"}, !.absent = D] \in Locals
                /\ [l EXCEPT !.read = @ \cup {"absences"}, !.absent = D].held = l.held
BY DEF Locals, Nothing

\* The absences of a date grow by a commit of a save of that date only.
Grows(r) ==
    \A d \in Date : absences'[d] \subseteq absences[d] \/ (pc[r] = "insert" /\ Saves(r, d))

\* A step of r leaves the other handlers where they are.
Only(r) == \A q \in Request \ {r} : pc'[q] = pc[q] /\ call'[q] = call[q] /\ seen'[q] = seen[q]

LEMMA FitsStable ==
    ASSUME Inv, NEW r \in Request, Grows(r), NEW q \in Request, q # r,
           pc'[q] = pc[q], call'[q] = call[q], seen'[q] = seen[q]
    PROVE  Fits(q)'
<1>1. Fits(q)
  BY DEF Inv
<1>2. ASSUME pc[q] \in {"lock", "insert"}, call[q].op = "saveDay"
      PROVE  absences'[call[q].date] \subseteq absences[call[q].date]
  <2>1. call[q].date \in Date
    BY <1>1, <1>2, CallFacts DEF Fits, FitsAt, Done
  <2>2. Saves(q, call[q].date)
    BY <1>2 DEF Saves, Writing
  <2>3. ~Saves(r, call[q].date)
    BY <2>2 DEF Inv, Exclusive
  <2> QED BY <2>1, <2>3 DEF Grows
<1> QED BY <1>1, <1>2 DEF Fits, FitsAt

\* An answer leaves nothing to rely on, whatever it has written.
LEMMA AnswerKeeps ==
    ASSUME Inv, NEW r \in Request, NEW outcome \in Done, Answer(r, outcome),
           Columns', OneSaveWins', Grows(r)
    PROVE  Inv'
<1>1. /\ pc' = [pc EXCEPT ![r] = outcome]
      /\ call' = [call EXCEPT ![r] = NoCall]
      /\ seen' = [seen EXCEPT ![r] = Nothing]
  BY DEF Answer
<1>2. Nothing \in Locals /\ Nothing.held = {} /\ Nothing.read = {}
  BY LocalsFacts DEF Inv, Types
<1> HIDE DEF NoCall, Nothing
<1>3. Types'
  BY <1>1, <1>2 DEF Inv, Types, At
<1>4. Only(r) /\ pc'[r] = outcome /\ seen'[r] = Nothing
  BY <1>1 DEF Only, Inv, Types
<1>5. Fits(r)'
  BY <1>2, <1>4 DEF Fits, FitsAt, Done
<1>6. Exclusive'
  BY <1>4 DEF Exclusive, Saves, Writing, Only, Done, Inv
<1>7. Locked'
  BY <1>4 DEF Locked, Running, Only, Inv
<1> QED BY <1>3, <1>4, <1>5, <1>6, <1>7, FitsStable DEF Inv, Only

LEMMA ContinueKeeps ==
    ASSUME Inv, NEW r \in Request, NEW s \in At, NEW what \in Locals, Continue(r, s, what),
           r \in Running, Columns', OneSaveWins', Grows(r), FitsAt(r, s, what)',
           s \in Writing /\ call[r].op = "saveDay" => pc[r] \in Writing \/ Saving(call[r].date) = {},
           \A q \in Running \ {r} :
               call[q].date = call[r].date => seen[q].held \cap what.held = {}
    PROVE  Inv'
<1>1. /\ pc' = [pc EXCEPT ![r] = s] /\ seen' = [seen EXCEPT ![r] = what] /\ call' = call
  BY DEF Continue
<1>2. Types'
  BY <1>1 DEF Inv, Types
<1>3. Only(r) /\ pc'[r] = s /\ seen'[r] = what
  BY <1>1 DEF Only, Inv, Types
<1>4. Fits(r)'
  BY <1>3 DEF Fits, FitsAt
<1>5. ASSUME NEW q \in Request, q # r, NEW d, Saves(q, d)', Saves(r, d)'
      PROVE  FALSE
  <2>1. Saves(q, d) /\ s \in Writing /\ call[r].op = "saveDay" /\ call[r].date = d
    BY <1>1, <1>3, <1>5 DEF Saves, Only
  <2>2. q \in Saving(d)
    BY <2>1 DEF Saves, Saving, Writing, Running, Done
  <2>3. Saves(r, d)
    BY <2>1, <2>2 DEF Saves
  <2> QED BY <1>5, <2>1, <2>3 DEF Inv, Exclusive
<1>6. Exclusive'
  <2>1. \A q \in Request \ {r} : \A d : Saves(q, d)' => Saves(q, d)
    BY <1>3 DEF Only, Saves
  <2> QED BY <1>5, <2>1 DEF Exclusive, Inv
<1>7. Locked'
  <2>1. \A q \in Running' \ {r} : q \in Running /\ seen'[q] = seen[q]
    BY <1>3 DEF Running, Only
  <2> QED BY <1>1, <1>3, <2>1 DEF Locked, Inv
<1> QED BY <1>2, <1>3, <1>4, <1>6, <1>7, FitsStable DEF Inv, Only

\* Steps that write no table.
LEMMA QuietAnswer ==
    ASSUME Inv, NEW r \in Request, NEW outcome \in Done, Answer(r, outcome), UNCHANGED <<school, tables>>
    PROVE  Inv'
<1>1. Columns' /\ OneSaveWins' /\ Grows(r)
  BY DEF Inv, Types, Columns, OneSaveWins, Grows, school, tables
<1> QED BY <1>1, AnswerKeeps

LEMMA QuietContinue ==
    ASSUME Inv, NEW r \in Request, NEW s \in At, NEW what \in Locals, Continue(r, s, what),
           r \in Running, UNCHANGED <<school, tables>>, FitsAt(r, s, what),
           s \in Writing /\ call[r].op = "saveDay" => pc[r] \in Writing \/ Saving(call[r].date) = {},
           \A q \in Running \ {r} :
               call[q].date = call[r].date => seen[q].held \cap what.held = {}
    PROVE  Inv'
<1>1. Columns' /\ OneSaveWins' /\ Grows(r)
  BY DEF Inv, Types, Columns, OneSaveWins, Grows, school, tables
<1>2. FitsAt(r, s, what)'
  BY DEF FitsAt, Continue, tables
<1> QED BY <1>1, <1>2, ContinueKeeps

\* On to a statement outside the transactions.
LEMMA WalkKeeps ==
    ASSUME Inv, NEW r \in Request, NEW s \in At \ Writing, NEW what \in Locals, Continue(r, s, what),
           r \in Running, UNCHANGED <<school, tables>>, FitsAt(r, s, what), what.held = {}
    PROVE  Inv'
BY QuietContinue

LEMMA FitsNow ==
    ASSUME Inv, NEW r \in Request
    PROVE  FitsAt(r, pc[r], seen[r]) /\ seen[r] \in Locals /\ (pc[r] \notin Done \cup {"idle"} => r \in Running)
BY DEF Inv, Fits, Types, Running

-----------------------------------------------------------------------------
(* One lemma per action *)

LEMMA BeginKeeps ==
    ASSUME Inv, NEW r \in Request, NEW c \in Calls, Begin(r, c)
    PROVE  Inv'
<1>1. /\ pc[r] = "idle" /\ UNCHANGED <<school, tables, seen>>
      /\ call' = [call EXCEPT ![r] = c] /\ pc' = [pc EXCEPT ![r] = FirstStep(c.op)]
  BY DEF Begin
<1>2. FirstStep(c.op) \in {"settings", "holiday", "deleteHoliday", "allow"}
  BY DEF FirstStep
<1>3. Types'
  BY <1>1, <1>2 DEF Inv, Types, Columns, At, school, tables
<1>4. Only(r) /\ pc'[r] = FirstStep(c.op) /\ call'[r] = c /\ seen'[r] = seen[r]
  BY <1>1 DEF Only, Inv, Types
<1>5. seen[r].held = {} /\ seen[r].read = {}
  BY <1>1, FitsNow DEF FitsAt
<1>6. Fits(r)'
  BY <1>2, <1>4, <1>5, CallFacts DEF Fits, FitsAt, FirstStep, Reads
<1>7. Exclusive'
  BY <1>2, <1>4 DEF Exclusive, Saves, Writing, Only, Inv
<1>8. Locked'
  BY <1>4, <1>5 DEF Locked, Running, Only, Inv
<1>9. OneSaveWins' /\ Grows(r)
  BY <1>1 DEF OneSaveWins, Grows, tables, Inv
<1> QED BY <1>3, <1>4, <1>6, <1>7, <1>8, <1>9, FitsStable DEF Inv, Only

LEMMA UseSettingsKeeps ==
    ASSUME Inv, NEW r \in Request, NEW row \in [off : SUBSET Weekday, by : By],
           pc[r] \in {"settings", "insertSettings"}, UseSettings(r, row),
           settings' \in {settings, settings \cup {row}}, UNCHANGED <<holidays, tables>>
    PROVE  Inv'
<1>1. FitsAt(r, pc[r], seen[r]) /\ seen[r] \in Locals /\ r \in Running
      /\ seen[r].held = {} /\ seen[r].read = {}
  BY FitsNow DEF FitsAt, Done
<1>2. Columns' /\ OneSaveWins' /\ Grows(r)
  BY DEF Inv, Types, Columns, OneSaveWins, Grows, tables
<1>3. CASE \E o \in Done : Answer(r, o)
  BY <1>2, <1>3, AnswerKeeps
<1>4. CASE call[r].op = "saveDay" /\ Continue(r, "holiday", seen[r])
  <2>1. PICK l \in Locals : l = seen[r]
    BY <1>1
  <2>2. Continue(r, "holiday", l) /\ l.held = {} /\ l.read = {}
    BY <1>1, <1>4, <2>1
  <2>3. FitsAt(r, "holiday", l)'
    BY <1>1, <1>4, <2>2 DEF FitsAt, Continue, Done
  <2> QED BY <1>1, <1>2, <2>2, <2>3, ContinueKeeps DEF At, Writing
<1>5. CASE call[r].op = "updateSettings" /\ Continue(r, "writeSettings", [seen[r] EXCEPT !.row = row.by])
  <2>1. PICK l \in Locals : l = [seen[r] EXCEPT !.row = row.by] /\ l.held = {} /\ l.read = {}
    <3> DEFINE l == [seen[r] EXCEPT !.row = row.by]
    <3>1. row.by \in By \cup {None}
      OBVIOUS
    <3>2. l \in Locals /\ l.held = {} /\ l.read = {}
      BY <1>1, <3>1 DEF Locals
    <3> QED BY <3>2, Zenon
  <2>2. Continue(r, "writeSettings", l)
    BY <1>5, <2>1
  <2>3. FitsAt(r, "writeSettings", l)'
    BY <1>1, <1>5, <2>1 DEF FitsAt, Continue, Done
  <2> QED BY <1>1, <1>2, <2>1, <2>2, <2>3, ContinueKeeps DEF At, Writing
<1> QED BY <1>3, <1>4, <1>5 DEF UseSettings, Done

LEMMA SchoolStepKeeps ==
    ASSUME Inv, NEW r \in Request, SchoolStep(r), UNCHANGED tables
    PROVE  Inv'
<1>1. FitsAt(r, pc[r], seen[r]) /\ seen[r] \in Locals
  BY FitsNow
<1>2. OneSaveWins' /\ Grows(r)
  BY DEF Inv, OneSaveWins, Grows, tables
<1>3. CASE FindSettings(r)
  <2>1. CASE settings = {} /\ Continue(r, "insertSettings", seen[r])
    <3>1. pc[r] = "settings" /\ r \in Running /\ UNCHANGED <<school, tables>>
      BY <1>3, FitsNow DEF FindSettings, Done
    <3>2. FitsAt(r, "insertSettings", seen[r]) /\ seen[r].held = {}
      BY <1>1, <3>1 DEF FitsAt, Done
    <3> QED BY <1>1, <2>1, <3>1, <3>2, WalkKeeps DEF At, Writing
  <2>2. CASE \E row \in settings : UseSettings(r, row)
    <3>1. PICK row \in settings : UseSettings(r, row)
      BY <2>2
    <3>2. row \in [off : SUBSET Weekday, by : By] /\ pc[r] = "settings" /\ UNCHANGED <<settings, holidays>>
      BY <1>3 DEF Inv, Types, Columns, FindSettings, school
    <3> QED BY <3>1, <3>2, UseSettingsKeeps
  <2> QED BY <1>3, <2>1, <2>2 DEF FindSettings
<1>4. CASE InsertSettings(r)
  <2>1. Row(DefaultOff, r) \in [off : SUBSET Weekday, by : By]
    BY SchoolAssumption DEF Row, By
  <2> QED BY <1>4, <2>1, UseSettingsKeeps DEF InsertSettings
<1>5. CASE UpdateSettings(r)
  <2>1. call[r].off \in SUBSET Weekday
    BY <1>1, <1>5, CallFacts DEF UpdateSettings, FitsAt, Done
  <2>2. \A row \in settings : row.by \in By /\ Row(call[r].off, row.by) \in [off : SUBSET Weekday, by : By]
    BY <2>1 DEF Inv, Types, Columns, Row
  <2>3. Columns'
    <3>1. settings' \subseteq [off : SUBSET Weekday, by : By]
      BY <1>5, <2>2 DEF UpdateSettings, Inv, Types, Columns
    <3> QED BY <1>5, <3>1 DEF UpdateSettings, Inv, Types, Columns, tables
  <2> QED BY <1>2, <1>5, <2>3, AnswerKeeps DEF UpdateSettings, Done
<1>6. CASE FindHoliday(r)
  <2>1. pc[r] = "holiday" /\ r \in Running /\ UNCHANGED <<school, tables>>
    BY <1>6, FitsNow DEF FindHoliday, Done
  <2>2. CASE Answer(r, "refused")
    BY <2>1, <2>2, QuietAnswer DEF Done
  <2>3. CASE call[r].op = "saveDay" /\ Continue(r, "absentees", seen[r])
    <3>1. FitsAt(r, "absentees", seen[r]) /\ seen[r].held = {}
      BY <1>1, <2>1, <2>3 DEF FitsAt, Done
    <3> QED BY <1>1, <2>1, <2>3, <3>1, WalkKeeps DEF At, Writing
  <2>4. CASE call[r].op # "saveDay" /\ Continue(r, "insertHoliday", seen[r])
    <3>1. FitsAt(r, "insertHoliday", seen[r]) /\ seen[r].held = {}
      BY <1>1, <2>1, <2>4 DEF FitsAt, Done
    <3> QED BY <1>1, <2>1, <2>4, <3>1, WalkKeeps DEF At, Writing
  <2> QED BY <1>6, <2>2, <2>3, <2>4 DEF FindHoliday
<1>7. CASE InsertHoliday(r) \/ DeleteHoliday(r)
  <2>1. call[r].date \in Date
    BY <1>1, <1>7, CallFacts DEF InsertHoliday, DeleteHoliday, FitsAt, Done
  <2>2. Columns'
    BY <1>7, <2>1 DEF InsertHoliday, DeleteHoliday, Inv, Types, Columns, tables
  <2>3. \E o \in Done : Answer(r, o)
    BY <1>7 DEF InsertHoliday, DeleteHoliday, Done
  <2> QED BY <1>2, <2>2, <2>3, AnswerKeeps
<1> QED BY <1>3, <1>4, <1>5, <1>6, <1>7 DEF SchoolStep

LEMMA AllowKeeps ==
    ASSUME Inv, NEW r \in Request, Allow(r)
    PROVE  Inv'
<1>1. /\ pc[r] = "allow" /\ FitsAt(r, "allow", seen[r]) /\ seen[r] \in Locals /\ r \in Running
      /\ UNCHANGED <<school, tables>> /\ seen[r].held = {}
  BY FitsNow DEF Allow, Done, FitsAt
<1>2. CASE Answer(r, "refused")
  BY <1>1, <1>2, QuietAnswer DEF Done
<1>3. CASE \/ call[r].op = "saveDay" /\ Continue(r, "settings", seen[r])
           \/ call[r].op = "deleteDay" /\ Continue(r, "day", seen[r])
           \/ call[r].op \in Reads /\ Continue(r, "read", seen[r])
  <2>1. /\ call[r].op = "saveDay" => FitsAt(r, "settings", seen[r])
        /\ call[r].op = "deleteDay" => FitsAt(r, "day", seen[r])
        /\ call[r].op \in Reads => FitsAt(r, "read", seen[r])
    BY <1>1 DEF FitsAt, Done
  <2> QED BY <1>1, <1>3, <2>1, WalkKeeps DEF At, Writing
<1>4. call[r].op \in {"saveDay", "deleteDay"} \cup Reads
  BY <1>1 DEF FitsAt
<1> QED BY <1>2, <1>3, <1>4 DEF Allow

LEMMA CheckAbsenteesKeeps ==
    ASSUME Inv, NEW r \in Request, CheckAbsentees(r)
    PROVE  Inv'
<1>1. /\ pc[r] = "absentees" /\ FitsAt(r, "absentees", seen[r]) /\ seen[r] \in Locals /\ r \in Running
      /\ UNCHANGED <<school, tables>> /\ seen[r].held = {}
  BY FitsNow DEF CheckAbsentees, Done, FitsAt
<1>2. FitsAt(r, "upsert", seen[r])
  BY <1>1 DEF FitsAt, Done
<1> QED BY <1>1, <1>2, WalkKeeps, QuietAnswer DEF CheckAbsentees, At, Writing, Done

LEMMA FindDayKeeps ==
    ASSUME Inv, NEW r \in Request, FindDay(r)
    PROVE  Inv'
<1>1. /\ pc[r] = "day" /\ FitsAt(r, "day", seen[r]) /\ seen[r] \in Locals /\ r \in Running
      /\ UNCHANGED <<school, tables>> /\ seen[r].held = {}
  BY FitsNow DEF FindDay, Done, FitsAt
<1>2. CASE Answer(r, "refused")
  BY <1>1, <1>2, QuietAnswer DEF Done
<1>3. CASE Continue(r, "find", [seen[r] EXCEPT !.day = days[call[r].date]])
  <2> DEFINE what == [seen[r] EXCEPT !.day = days[call[r].date]]
  <2>1. days[call[r].date] \in By \cup {None} /\ call[r].op = "deleteDay"
    BY <1>1, CallFacts DEF FitsAt, Done, Inv, Types, Columns
  <2>2. what \in Locals /\ what.held = {} /\ what.read = {}
    BY <1>1, <2>1, LocalsFacts DEF FitsAt
  <2> HIDE DEF what
  <2>3. FitsAt(r, "find", what)
    BY <1>1, <2>1, <2>2 DEF FitsAt, Done
  <2>4. Continue(r, "find", what)
    BY <1>3 DEF what
  <2> QED BY <1>1, <2>1, <2>2, <2>3, <2>4, QuietContinue DEF At
<1> QED BY <1>2, <1>3 DEF FindDay

LEMMA UpsertDayKeeps ==
    ASSUME Inv, NEW r \in Request, UpsertDay(r)
    PROVE  Inv'
<1>1. /\ pc[r] = "upsert" /\ FitsAt(r, "upsert", seen[r]) /\ seen[r] \in Locals /\ r \in Running
      /\ UNCHANGED <<school, tables>> /\ seen[r].held = {} /\ Saving(call[r].date) = {}
      /\ Continue(r, "find", seen[r])
  BY FitsNow DEF UpsertDay, Done, FitsAt
<1>2. FitsAt(r, "find", seen[r])
  BY <1>1 DEF FitsAt, Done
<1> QED BY <1>1, <1>2, QuietContinue DEF At

LEMMA FindAbsencesKeeps ==
    ASSUME Inv, NEW r \in Request, FindAbsences(r)
    PROVE  Inv'
<1> DEFINE what == [seen[r] EXCEPT !.todo = absences[call[r].date]]
<1>1. /\ pc[r] = "find" /\ FitsAt(r, "find", seen[r]) /\ seen[r] \in Locals /\ r \in Running
      /\ UNCHANGED <<school, tables>> /\ seen[r].held = {} /\ Continue(r, "lock", what)
  BY FitsNow DEF FindAbsences, Done, FitsAt
<1>2. absences[call[r].date] \in SUBSET Absence
  BY <1>1, CallFacts DEF FitsAt, Done, Inv, Types, Columns
<1>3. what \in Locals /\ what.held = {} /\ what.read = {} /\ what.todo = absences[call[r].date]
  <2>1. seen[r].read = {}
    BY <1>1 DEF FitsAt, Done
  <2> QED BY <1>1, <1>2, <2>1, LocalsFacts
<1> HIDE DEF what
<1>4. FitsAt(r, "lock", what)
  BY <1>1, <1>3 DEF FitsAt, Done
<1> QED BY <1>1, <1>3, <1>4, QuietContinue DEF At, Writing

LEMMA LockAbsencesKeeps ==
    ASSUME Inv, NEW r \in Request, LockAbsences(r)
    PROVE  Inv'
<1> DEFINE rows == seen[r].todo \cap absences[call[r].date]
           what == [seen[r] EXCEPT !.todo = {}, !.held = rows]
<1>1. /\ pc[r] = "lock" /\ FitsAt(r, "lock", seen[r]) /\ seen[r] \in Locals /\ r \in Running
      /\ UNCHANGED <<school, tables>>
      /\ \A q \in Running \ {r} : call[q].date = call[r].date => seen[q].held \cap rows = {}
      /\ Continue(r, IF call[r].op = "saveDay" THEN "insert" ELSE "delete", what)
  BY FitsNow DEF LockAbsences, Done
<1>2. rows \in SUBSET Absence
  BY <1>1 DEF Locals
<1>3. what \in Locals /\ what.held = rows /\ what.read = {}
  BY <1>1, <1>2, LocalsFacts DEF FitsAt
<1>4. call[r].op = "saveDay" => absences[call[r].date] \subseteq rows
  BY <1>1 DEF FitsAt
<1> HIDE DEF what, rows
<1>5. CASE call[r].op = "saveDay"
  <2>1. FitsAt(r, "insert", what)
    BY <1>1, <1>3, <1>4, <1>5 DEF FitsAt, Done
  <2> QED BY <1>1, <1>3, <1>5, <2>1, QuietContinue DEF At, Writing
<1>6. CASE call[r].op # "saveDay"
  <2>1. FitsAt(r, "delete", what)
    BY <1>1, <1>3, <1>6 DEF FitsAt, Done
  <2> QED BY <1>1, <1>3, <1>6, <2>1, QuietContinue DEF At, Writing
<1> QED BY <1>5, <1>6

\* The rows found at the deleteMany are all there were, and they are held, so
\* that only the rows of this save remain.
LEMMA InsertAbsencesKeeps ==
    ASSUME Inv, NEW r \in Request, InsertAbsences(r)
    PROVE  Inv'
<1>1. /\ pc[r] = "insert" /\ FitsAt(r, "insert", seen[r]) /\ seen[r] \in Locals /\ r \in Running
      /\ Continue(r, "read", Nothing) /\ UNCHANGED school
  BY FitsNow DEF InsertAbsences, Done
<1>2. PICK d \in Date : d = call[r].date
  BY <1>1, CallFacts DEF FitsAt, Done
<1>3. call[r].op = "saveDay" /\ call[r].absent \in SUBSET Student /\ absences[d] \subseteq seen[r].held
  BY <1>1, <1>2, CallFacts DEF FitsAt, Done
<1>4. PICK new \in SUBSET Absence : new = [student : call[r].absent, by : {r}]
  BY <1>3 DEF Absence, By
<1>5. /\ days' = [days EXCEPT ![d] = IF @ = None THEN r ELSE @]
      /\ absences' = [absences EXCEPT ![d] = (@ \ seen[r].held) \cup new]
  BY <1>2, <1>4 DEF InsertAbsences
<1>6. absences'[d] = new /\ \A e \in Date \ {d} : absences'[e] = absences[e]
  BY <1>3, <1>5 DEF Inv, Types, Columns
<1>7. Columns'
  <2>1. days' \in [Date -> By \cup {None}]
    BY <1>5 DEF Inv, Types, Columns, By
  <2>2. absences' \in [Date -> SUBSET Absence]
    BY <1>3, <1>5, <1>6 DEF Inv, Types, Columns
  <2> QED BY <1>1, <2>1, <2>2 DEF Inv, Types, Columns, school
<1>8. OneSaveWins'
  <2>1. \A a, b \in new : a.by = b.by
    BY <1>4
  <2> QED BY <1>6, <2>1 DEF Inv, OneSaveWins
<1>9. Grows(r)
  BY <1>1, <1>2, <1>3, <1>6 DEF Grows, Saves, Writing
<1>10. Nothing \in Locals /\ Nothing.held = {}
  BY <1>1, LocalsFacts
<1> HIDE DEF Nothing
<1>11. FitsAt(r, "read", Nothing)'
  <2>1. call'[r] = call[r] /\ call[r] \in Calls
    BY <1>1 DEF Continue, FitsAt, Done
  <2> QED BY <1>3, <1>10, <2>1 DEF FitsAt
<1> QED BY <1>1, <1>7, <1>8, <1>9, <1>10, <1>11, ContinueKeeps DEF At, Writing

LEMMA DeleteDayKeeps ==
    ASSUME Inv, NEW r \in Request, DeleteDay(r)
    PROVE  Inv'
<1>1. FitsAt(r, "delete", seen[r]) /\ call[r].date \in Date /\ UNCHANGED school
  BY FitsNow, CallFacts DEF DeleteDay, FitsAt, Done
<1>2. CASE UNCHANGED tables
  BY <1>1, <1>2, QuietAnswer DEF DeleteDay, Done
<1>3. CASE /\ days' = [days EXCEPT ![call[r].date] = None]
           /\ absences' = [absences EXCEPT ![call[r].date] = @ \ seen[r].held]
           /\ Answer(r, "ok")
  <2>1. \A d \in Date : absences'[d] \subseteq absences[d]
    BY <1>1, <1>3 DEF Inv, Types, Columns
  <2>2. Columns'
    BY <1>1, <1>3 DEF Inv, Types, Columns, school
  <2>3. OneSaveWins' /\ Grows(r)
    BY <2>1 DEF OneSaveWins, Grows, Inv
  <2> QED BY <1>3, <2>2, <2>3, AnswerKeeps DEF Done
<1> QED BY <1>2, <1>3 DEF DeleteDay

LEMMA ReadKeeps ==
    ASSUME Inv, NEW r \in Request, ReadDays(r) \/ ReadAbsences(r)
    PROVE  Inv'
<1>1. /\ pc[r] = "read" /\ FitsAt(r, "read", seen[r]) /\ seen[r] \in Locals /\ r \in Running
      /\ UNCHANGED <<school, tables>> /\ seen[r].held = {}
  BY FitsNow DEF ReadDays, ReadAbsences, Done, FitsAt
<1>2. call[r].date # None => call[r].date \in Date
  <2>1. call[r] \in Calls /\ call[r].op \in {"saveDay"} \cup Reads
    BY <1>1 DEF FitsAt, Done
  <2>2. call[r].op \in {"getStudentAttendance", "getSummary"} => call[r].date = None
    BY <2>1 DEF Calls, SchoolCalls, AttendanceCalls, Body
  <2> QED BY <2>1, <2>2, CallFacts DEF Reads
<1>3. Viewed(r) \subseteq Date
  BY <1>2 DEF Viewed
<1>4. PICK l \in Locals : l.held = {} /\ Continue(r, "read", l)
  <2>1. CASE ReadDays(r)
    <3>1. PICK D \in SUBSET Date : D = {d \in Viewed(r) : days[d] # None}
      BY <1>3
    <3> QED BY <1>1, <2>1, <3>1, LocalsFacts DEF ReadDays
  <2>2. CASE ReadAbsences(r)
    <3>1. PICK D \in SUBSET Date : D = {d \in Viewed(r) : \E a \in absences[d] : a.student \in Pupils(r)}
      BY <1>3
    <3> QED BY <1>1, <2>2, <3>1, LocalsFacts DEF ReadAbsences
  <2> QED BY <2>1, <2>2
<1>5. FitsAt(r, "read", l)
  BY <1>1, <1>4 DEF FitsAt, Done
<1> QED BY <1>1, <1>4, <1>5, WalkKeeps DEF At, Writing

LEMMA StepKeeps ==
    ASSUME Inv, NEW r \in Request, Step(r)
    PROVE  Inv'
<1>1. CASE Reply(r)
  BY <1>1, QuietAnswer DEF Reply, Done
<1>2. CASE StatementFails(r)
  BY <1>2, QuietAnswer DEF StatementFails, Done
<1> QED BY <1>1, <1>2, SchoolStepKeeps, AllowKeeps, CheckAbsenteesKeeps, FindDayKeeps, UpsertDayKeeps,
           FindAbsencesKeeps, LockAbsencesKeeps, InsertAbsencesKeeps, DeleteDayKeeps, ReadKeeps DEF Step

LEMMA NextKeeps ==
    ASSUME Inv, [Next]_vars
    PROVE  Inv'
<1>1. CASE UNCHANGED vars
  BY <1>1 DEF vars, school, tables, control, Inv, Types, Columns, Exclusive, Saves, Locked, Running,
              OneSaveWins, Fits, FitsAt
<1> QED BY <1>1, BeginKeeps, StepKeeps DEF Next

LEMMA InitHolds == Init => Inv
<1> SUFFICES ASSUME Init PROVE Inv
  OBVIOUS
<1>1. PICK absent \in [Date -> SUBSET Student] :
        absences = [d \in Date |-> [student : absent[d], by : {Earlier}]]
  BY DEF Init
<1>2. absences \in [Date -> SUBSET Absence] /\ OneSaveWins
  BY <1>1 DEF Absence, By, OneSaveWins
<1>3. settings \subseteq [off : SUBSET Weekday, by : By]
  BY SchoolAssumption DEF Init, Row, By
<1>4. \A r \in Request : pc[r] = "idle" /\ seen[r] = Nothing
  BY DEF Init
<1>5. Nothing \in Locals /\ Nothing.held = {} /\ Nothing.read = {}
  BY DEF Locals, Nothing
<1>6. Types
  <2> HIDE DEF NoCall, Nothing
  <2>1. Columns
    BY <1>2, <1>3 DEF Init, Columns, By
  <2> QED BY <1>5, <2>1 DEF Init, Types, At
<1> HIDE DEF Nothing
<1>7. Exclusive /\ Locked
  BY <1>4 DEF Exclusive, Saves, Writing, Locked, Running
<1>8. \A r \in Request : Fits(r)
  BY <1>4, <1>5 DEF Fits, FitsAt
<1> QED BY <1>2, <1>6, <1>7, <1>8 DEF Inv

LEMMA Invariance == Spec => []Inv
BY InitHolds, NextKeeps, PTL DEF Spec

-----------------------------------------------------------------------------
(* The theorems that need no more than Inv *)

\* Every column has its type, and no two transactions lock the same absence.
THEOREM AttendanceTypeCorrect == Spec => []TypeOK
<1>1. Inv => TypeOK
  <2> SUFFICES ASSUME Inv PROVE TypeOK
    OBVIOUS
  <2>1. \A r \in Running : call[r] \in Calls
    BY DEF Inv, Fits, FitsAt, Running
  <2>2. \A r \in Running : \A q \in Running \ {r} :
          call[q].date = call[r].date => seen[q].held \cap seen[r].held = {}
    BY DEF Inv, Locked
  <2> QED BY <2>1, <2>2 DEF Inv, Types, Columns, TypeOK, By, Absence
<1> QED BY <1>1, Invariance, PTL

\* However saves and deletions of a day overlap, the roll of a day is that of
\* one save.
THEOREM OneRollWins == Spec => []OneSaveWins
<1>1. Inv => OneSaveWins
  BY DEF Inv
<1> QED BY <1>1, Invariance, PTL

-----------------------------------------------------------------------------
(* While handlers do not overlap *)

Alone == \A r, q \in Running : r = q

\* One settings row, and no absence on a day that was not taken.
Tidy ==
    /\ \A a, b \in settings : a = b
    /\ \A d \in Date : days[d] = None => absences[d] = {}

Recording == {"absentees", "upsert", "find", "lock", "insert"}

\* What the one handler in flight relies on at statement p with locals l.
KnowsAt(r, p, l) ==
    /\ p = "insertSettings" => settings = {}
    /\ p \in {"holiday"} \cup Recording /\ call[r].op = "saveDay" =>
         \A row \in settings : WeekdayOf[call[r].date] \notin row.off
    /\ p \in Recording /\ call[r].op = "saveDay" => call[r].date \notin holidays
    /\ p = "lock" => absences[call[r].date] \subseteq l.todo
    /\ p = "delete" => absences[call[r].date] \subseteq l.held
    /\ p = "read" /\ "days" \in l.read => l.days = {d \in Viewed(r) : days[d] # None}
    /\ p = "read" /\ "absences" \in l.read => l.absent \subseteq {d \in Viewed(r) : days[d] # None}

Knows(r) == KnowsAt(r, pc[r], seen[r])

Calm == alone => Alone /\ Tidy /\ \A r \in Request : Knows(r)

LEMMA Flight ==
    ASSUME Inv, Calm, alone, NEW r \in Running
    PROVE  /\ Tidy /\ KnowsAt(r, pc[r], seen[r]) /\ r \in Request
           /\ \A q \in Request \ {r} : q \notin Running
BY DEF Calm, Alone, Running, Knows

LEMMA Idle ==
    ASSUME NEW q \in Request, pc[q] \in Done \cup {"idle"}
    PROVE  Knows(q)
BY DEF Knows, KnowsAt, Recording, Done

\* The handler answers, and the rows stay tidy.
LEMMA CalmAnswer ==
    ASSUME Inv, Calm, NEW r \in Request, NEW outcome \in Done, Answer(r, outcome), alone => Tidy',
           r \in Running
    PROVE  Calm'
<1> SUFFICES ASSUME alone PROVE Alone' /\ \A q \in Request : Knows(q)'
  BY DEF Calm, Answer
<1>1. pc'[r] = outcome /\ \A q \in Request \ {r} : pc'[q] = pc[q] /\ q \notin Running
  BY Flight DEF Answer, Inv, Types
<1>2. \A q \in Request : pc'[q] \in Done \cup {"idle"}
  BY <1>1 DEF Running
<1>3. \A q \in Request : Knows(q)'
  BY <1>2 DEF Knows, KnowsAt, Recording, Done
<1>4. Alone'
  BY <1>2 DEF Alone, Running
<1> QED BY <1>3, <1>4

LEMMA CalmContinue ==
    ASSUME Inv, Calm, NEW r \in Request, NEW s \in At, NEW what \in Locals, Continue(r, s, what),
           r \in Running, alone => Tidy' /\ KnowsAt(r, s, what)'
    PROVE  Calm'
<1> SUFFICES ASSUME alone PROVE Alone' /\ \A q \in Request : Knows(q)'
  BY DEF Calm, Continue
<1>1. /\ pc'[r] = s /\ seen'[r] = what
      /\ \A q \in Request \ {r} : pc'[q] = pc[q] /\ q \notin Running
  BY Flight DEF Continue, Inv, Types
<1>2. \A q \in Request \ {r} : pc'[q] \in Done \cup {"idle"}
  BY <1>1 DEF Running
<1>3. \A q \in Request \ {r} : Knows(q)'
  BY <1>2 DEF Knows, KnowsAt, Recording, Done
<1>4. Knows(r)'
  BY <1>1 DEF Knows, KnowsAt
<1>5. Alone'
  BY <1>2 DEF Alone, Running
<1> QED BY <1>3, <1>4, <1>5

\* Steps that write no table.
LEMMA CalmQuietAnswer ==
    ASSUME Inv, Calm, NEW r \in Running, NEW outcome \in Done, Answer(r, outcome),
           UNCHANGED <<school, tables>>
    PROVE  Calm'
<1>1. alone => Tidy'
  BY DEF Calm, Tidy, school, tables
<1> QED BY <1>1, CalmAnswer DEF Running

LEMMA CalmQuietContinue ==
    ASSUME Inv, Calm, NEW r \in Running, NEW s \in At, NEW what \in Locals, Continue(r, s, what),
           UNCHANGED <<school, tables>>, alone => KnowsAt(r, s, what)
    PROVE  Calm'
<1>1. alone => Tidy'
  BY DEF Calm, Tidy, school, tables
<1>2. alone => KnowsAt(r, s, what)'
  BY DEF KnowsAt, Viewed, Continue, school, tables
<1> QED BY <1>1, <1>2, CalmContinue DEF Running

LEMMA BeginCalm ==
    ASSUME Inv, Calm, NEW r \in Request, NEW c \in Calls, Begin(r, c)
    PROVE  Calm'
<1> SUFFICES ASSUME alone, Running = {} PROVE Alone' /\ Tidy' /\ \A q \in Request : Knows(q)'
  BY DEF Calm, Begin
<1>1. /\ UNCHANGED <<school, tables, seen>> /\ call' = [call EXCEPT ![r] = c]
      /\ pc' = [pc EXCEPT ![r] = FirstStep(c.op)]
  BY DEF Begin
<1>2. FirstStep(c.op) \in {"settings", "holiday", "deleteHoliday", "allow"}
  BY DEF FirstStep
<1>3. Only(r) /\ pc'[r] = FirstStep(c.op) /\ call'[r] = c
  BY <1>1 DEF Only, Inv, Types
<1>4. \A q \in Request \ {r} : pc'[q] \in Done \cup {"idle"}
  BY <1>3 DEF Only, Running
<1>5. \A q \in Request \ {r} : Knows(q)'
  BY <1>4 DEF Knows, KnowsAt, Recording, Done
<1>6. Knows(r)'
  <2>1. c.op = "saveDay" => FirstStep(c.op) = "allow"
    BY DEF FirstStep
  <2> QED BY <1>2, <1>3, <2>1 DEF Knows, KnowsAt, Recording
<1>7. Tidy' /\ Alone'
  BY <1>1, <1>4 DEF Calm, Tidy, school, tables, Alone, Running
<1> QED BY <1>5, <1>6, <1>7

LEMMA UseSettingsCalm ==
    ASSUME Inv, Calm, NEW r \in Running, NEW row \in [off : SUBSET Weekday, by : By],
           UseSettings(r, row), UNCHANGED <<holidays, tables>>,
           alone => settings' = {row}, alone => Tidy
    PROVE  Calm'
<1>1. seen[r] \in Locals /\ r \in Request
  BY FitsNow DEF Running
<1>2. alone => Tidy'
  BY DEF Tidy, tables
<1>3. CASE \E o \in Done : Answer(r, o)
  BY <1>1, <1>2, <1>3, CalmAnswer
<1>4. CASE /\ call[r].op = "saveDay" /\ WeekdayOf[call[r].date] \notin row.off
           /\ Continue(r, "holiday", seen[r])
  <2>1. PICK l \in Locals : l = seen[r]
    BY <1>1
  <2>2. Continue(r, "holiday", l)
    BY <1>4, <2>1
  <2>3. alone => KnowsAt(r, "holiday", l)'
    BY <1>4, <2>2 DEF KnowsAt, Continue, Recording
  <2> QED BY <1>1, <1>2, <2>2, <2>3, CalmContinue DEF At
<1>5. CASE Continue(r, "writeSettings", [seen[r] EXCEPT !.row = row.by])
  <2>1. PICK l \in Locals : l = [seen[r] EXCEPT !.row = row.by]
    <3> DEFINE l == [seen[r] EXCEPT !.row = row.by]
    <3>1. row.by \in By \cup {None}
      OBVIOUS
    <3>2. l \in Locals
      BY <1>1, <3>1 DEF Locals
    <3> QED BY <3>2, Zenon
  <2>2. Continue(r, "writeSettings", l)
    BY <1>5, <2>1
  <2>3. KnowsAt(r, "writeSettings", l)'
    BY DEF KnowsAt, Recording
  <2> QED BY <1>1, <1>2, <2>2, <2>3, CalmContinue DEF At
<1> QED BY <1>3, <1>4, <1>5 DEF UseSettings, Done

LEMMA SchoolStepCalm ==
    ASSUME Inv, Calm, NEW r \in Request, SchoolStep(r), UNCHANGED tables
    PROVE  Calm'
<1>1. r \in Running /\ FitsAt(r, pc[r], seen[r]) /\ seen[r] \in Locals
  BY FitsNow DEF SchoolStep, FindSettings, InsertSettings, UpdateSettings, FindHoliday,
                 InsertHoliday, DeleteHoliday, Done
<1>2. alone => Tidy /\ KnowsAt(r, pc[r], seen[r])
  BY <1>1, Flight
<1>3. CASE FindSettings(r)
  <2>1. CASE settings = {} /\ Continue(r, "insertSettings", seen[r])
    <3>1. alone => KnowsAt(r, "insertSettings", seen[r])
      BY <2>1 DEF KnowsAt, Recording
    <3> QED BY <1>1, <1>3, <2>1, <3>1, CalmQuietContinue DEF FindSettings, At
  <2>2. CASE \E row \in settings : UseSettings(r, row)
    <3>1. PICK row \in settings : UseSettings(r, row)
      BY <2>2
    <3>2. row \in [off : SUBSET Weekday, by : By] /\ UNCHANGED <<settings, holidays>>
      BY <1>3 DEF Inv, Types, Columns, FindSettings, school
    <3>3. alone => settings' = {row}
      BY <1>2, <3>1, <3>2 DEF Tidy
    <3> QED BY <1>1, <1>2, <3>1, <3>2, <3>3, UseSettingsCalm
  <2> QED BY <1>3, <2>1, <2>2 DEF FindSettings
<1>4. CASE InsertSettings(r)
  <2>1. Row(DefaultOff, r) \in [off : SUBSET Weekday, by : By]
    BY SchoolAssumption DEF Row, By
  <2>2. alone => settings' = {Row(DefaultOff, r)}
    BY <1>2, <1>4 DEF InsertSettings, KnowsAt
  <2> QED BY <1>1, <1>2, <1>4, <2>1, <2>2, UseSettingsCalm DEF InsertSettings
<1>5. CASE UpdateSettings(r)
  <2>1. alone => Tidy'
    BY <1>2, <1>5 DEF Tidy, UpdateSettings, tables
  <2> QED BY <1>1, <1>5, <2>1, CalmAnswer DEF UpdateSettings, Done
<1>6. CASE FindHoliday(r)
  <2>1. CASE Answer(r, "refused")
    BY <1>1, <1>6, <2>1, CalmQuietAnswer DEF FindHoliday, Done
  <2>2. CASE call[r].op = "saveDay" /\ call[r].date \notin holidays /\ Continue(r, "absentees", seen[r])
    <3>1. alone => KnowsAt(r, "absentees", seen[r])
      BY <1>2, <1>6, <2>2 DEF KnowsAt, FindHoliday
    <3> QED BY <1>1, <1>6, <2>2, <3>1, CalmQuietContinue DEF FindHoliday, At
  <2>3. CASE Continue(r, "insertHoliday", seen[r])
    <3>1. KnowsAt(r, "insertHoliday", seen[r])
      BY DEF KnowsAt, Recording
    <3> QED BY <1>1, <1>6, <2>3, <3>1, CalmQuietContinue DEF FindHoliday, At
  <2> QED BY <1>6, <2>1, <2>2, <2>3 DEF FindHoliday
<1>7. CASE InsertHoliday(r) \/ DeleteHoliday(r)
  <2>1. alone => Tidy'
    BY <1>2, <1>7 DEF Tidy, InsertHoliday, DeleteHoliday, tables
  <2>2. \E o \in Done : Answer(r, o)
    BY <1>7 DEF InsertHoliday, DeleteHoliday, Done
  <2> QED BY <1>1, <2>1, <2>2, CalmAnswer
<1> QED BY <1>3, <1>4, <1>5, <1>6, <1>7 DEF SchoolStep

LEMMA ChecksCalm ==
    ASSUME Inv, Calm, NEW r \in Request, Allow(r) \/ CheckAbsentees(r) \/ FindDay(r)
    PROVE  Calm'
<1>1. /\ r \in Running /\ FitsAt(r, pc[r], seen[r]) /\ seen[r] \in Locals
      /\ UNCHANGED <<school, tables>>
  BY FitsNow DEF Allow, CheckAbsentees, FindDay, Done
<1>2. alone => Tidy /\ KnowsAt(r, pc[r], seen[r])
  BY <1>1, Flight
<1>3. CASE Answer(r, "refused")
  BY <1>1, <1>3, CalmQuietAnswer DEF Done
<1>4. CASE /\ pc[r] = "allow"
           /\ \E s \in {"settings", "day", "read"} : Continue(r, s, seen[r])
  <2>1. \A s \in {"settings", "day", "read"} : KnowsAt(r, s, seen[r])
    BY <1>1, <1>4 DEF KnowsAt, FitsAt, Recording
  <2> QED BY <1>1, <1>4, <2>1, CalmQuietContinue DEF At
<1>5. CASE pc[r] = "absentees" /\ Continue(r, "upsert", seen[r])
  <2>1. alone => KnowsAt(r, "upsert", seen[r])
    BY <1>2, <1>5 DEF KnowsAt, Recording
  <2> QED BY <1>1, <1>5, <2>1, CalmQuietContinue DEF At
<1>6. CASE /\ pc[r] = "day"
           /\ Continue(r, "find", [seen[r] EXCEPT !.day = days[call[r].date]])
  <2> DEFINE what == [seen[r] EXCEPT !.day = days[call[r].date]]
  <2>1. days[call[r].date] \in By \cup {None} /\ call[r].op = "deleteDay"
    BY <1>1, <1>6, CallFacts DEF FitsAt, Done, Inv, Types, Columns
  <2>2. what \in Locals
    BY <1>1, <2>1, LocalsFacts
  <2>3. Continue(r, "find", what)
    BY <1>6
  <2> HIDE DEF what
  <2>4. KnowsAt(r, "find", what)
    BY <2>1 DEF KnowsAt, Recording
  <2> QED BY <1>1, <2>2, <2>3, <2>4, CalmQuietContinue DEF At
<1> QED BY <1>3, <1>4, <1>5, <1>6 DEF Allow, CheckAbsentees, FindDay

LEMMA LocksCalm ==
    ASSUME Inv, Calm, NEW r \in Request, UpsertDay(r) \/ FindAbsences(r) \/ LockAbsences(r)
    PROVE  Calm'
<1>1. /\ r \in Running /\ FitsAt(r, pc[r], seen[r]) /\ seen[r] \in Locals
      /\ UNCHANGED <<school, tables>>
  BY FitsNow DEF UpsertDay, FindAbsences, LockAbsences, Done
<1>2. alone => Tidy /\ KnowsAt(r, pc[r], seen[r])
  BY <1>1, Flight
<1>3. CASE UpsertDay(r)
  <2>1. alone => KnowsAt(r, "find", seen[r])
    BY <1>2, <1>3 DEF KnowsAt, Recording, UpsertDay
  <2> QED BY <1>1, <1>3, <2>1, CalmQuietContinue DEF UpsertDay, At
<1>4. CASE FindAbsences(r)
  <2> DEFINE what == [seen[r] EXCEPT !.todo = absences[call[r].date]]
  <2>1. absences[call[r].date] \in SUBSET Absence
    BY <1>1, <1>4, CallFacts DEF FindAbsences, FitsAt, Done, Inv, Types, Columns
  <2>2. what \in Locals /\ what.todo = absences[call[r].date]
    BY <1>1, <2>1, LocalsFacts
  <2>3. Continue(r, "lock", what)
    BY <1>4 DEF FindAbsences
  <2> HIDE DEF what
  <2>4. alone => KnowsAt(r, "lock", what)
    BY <1>2, <1>4, <2>2 DEF KnowsAt, Recording, FindAbsences
  <2> QED BY <1>1, <2>2, <2>3, <2>4, CalmQuietContinue DEF At
<1>5. CASE LockAbsences(r)
  <2> DEFINE rows == seen[r].todo \cap absences[call[r].date]
             what == [seen[r] EXCEPT !.todo = {}, !.held = rows]
  <2>1. rows \in SUBSET Absence
    BY <1>1 DEF Locals
  <2>2. what \in Locals /\ what.held = rows
    BY <1>1, <2>1, LocalsFacts
  <2>3. /\ pc[r] = "lock"
        /\ Continue(r, IF call[r].op = "saveDay" THEN "insert" ELSE "delete", what)
    BY <1>5 DEF LockAbsences
  <2>4. alone => absences[call[r].date] \subseteq rows
    BY <1>2, <2>3 DEF KnowsAt
  <2> HIDE DEF what, rows
  <2>5. alone /\ call[r].op = "saveDay" => KnowsAt(r, "insert", what)
    BY <1>2, <2>3 DEF KnowsAt, Recording
  <2>6. alone /\ call[r].op # "saveDay" => KnowsAt(r, "delete", what)
    BY <2>2, <2>4 DEF KnowsAt, Recording
  <2> QED BY <1>1, <2>2, <2>3, <2>5, <2>6, CalmQuietContinue DEF At
<1> QED BY <1>3, <1>4, <1>5

LEMMA InsertCalm ==
    ASSUME Inv, Calm, NEW r \in Request, InsertAbsences(r)
    PROVE  Calm'
<1>1. /\ pc[r] = "insert" /\ FitsAt(r, "insert", seen[r]) /\ r \in Running /\ seen[r] \in Locals
      /\ Continue(r, "read", Nothing) /\ UNCHANGED school
  BY FitsNow DEF InsertAbsences, Done
<1>2. PICK d \in Date : d = call[r].date
  BY <1>1, CallFacts DEF FitsAt, Done
<1>3. days'[d] # None /\ \A e \in Date \ {d} : days'[e] = days[e] /\ absences'[e] = absences[e]
  BY <1>2, SchoolAssumption DEF InsertAbsences, Inv, Types, Columns
<1>4. alone => Tidy'
  BY <1>1, <1>3 DEF Calm, Tidy, school
<1>5. Nothing \in Locals /\ Nothing.read = {}
  BY <1>1, LocalsFacts
<1> HIDE DEF Nothing
<1>6. KnowsAt(r, "read", Nothing)'
  BY <1>5 DEF KnowsAt, Recording
<1> QED BY <1>1, <1>4, <1>5, <1>6, CalmContinue DEF At

LEMMA DeleteCalm ==
    ASSUME Inv, Calm, NEW r \in Request, DeleteDay(r)
    PROVE  Calm'
<1>1. /\ pc[r] = "delete" /\ FitsAt(r, "delete", seen[r]) /\ r \in Running /\ UNCHANGED school
  BY FitsNow DEF DeleteDay, Done
<1>2. PICK d \in Date : d = call[r].date
  BY <1>1, CallFacts DEF FitsAt, Done
<1>3. alone => Tidy /\ absences[d] \subseteq seen[r].held
  BY <1>1, <1>2, Flight DEF KnowsAt
<1>4. CASE UNCHANGED tables
  BY <1>1, <1>4, CalmQuietAnswer DEF DeleteDay, Done
<1>5. CASE /\ days' = [days EXCEPT ![d] = None]
           /\ absences' = [absences EXCEPT ![d] = @ \ seen[r].held]
           /\ Answer(r, "ok")
  <2>1. /\ absences'[d] = absences[d] \ seen[r].held
        /\ \A e \in Date \ {d} : days'[e] = days[e] /\ absences'[e] = absences[e]
    BY <1>5 DEF Inv, Types, Columns
  <2>2. alone => Tidy'
    BY <1>1, <1>3, <2>1 DEF Tidy, school
  <2> QED BY <1>1, <1>5, <2>2, CalmAnswer DEF Done
<1> QED BY <1>2, <1>4, <1>5 DEF DeleteDay

LEMMA ReadCalm ==
    ASSUME Inv, Calm, NEW r \in Request, ReadDays(r) \/ ReadAbsences(r)
    PROVE  Calm'
<1>1. /\ pc[r] = "read" /\ FitsAt(r, "read", seen[r]) /\ seen[r] \in Locals /\ r \in Running
      /\ UNCHANGED <<school, tables>>
  BY FitsNow DEF ReadDays, ReadAbsences, Done
<1>2. alone => Tidy /\ KnowsAt(r, "read", seen[r])
  BY <1>1, Flight
<1>3. Viewed(r) \subseteq Date
  <2>1. call[r] \in Calls /\ call[r].op \in {"saveDay"} \cup Reads
    BY <1>1 DEF FitsAt, Done
  <2>2. call[r].op \in {"getStudentAttendance", "getSummary"} => call[r].date = None
    BY <2>1 DEF Calls, SchoolCalls, AttendanceCalls, Body
  <2> QED BY <2>1, <2>2, CallFacts DEF Reads, Viewed
<1>4. CASE ReadDays(r)
  <2>1. PICK D \in SUBSET Date : D = {d \in Viewed(r) : days[d] # None}
    BY <1>3
  <2> DEFINE what == [seen[r] EXCEPT !.read = @ \cup {"days"}, !.days = D]
  <2>2. what \in Locals /\ what.days = D /\ what.read = seen[r].read \cup {"days"} /\ what.absent = seen[r].absent
    BY <1>1 DEF Locals
  <2>3. Continue(r, "read", what)
    BY <1>4, <2>1 DEF ReadDays
  <2> HIDE DEF what
  <2>4. alone => KnowsAt(r, "read", what)
    BY <1>2, <2>1, <2>2 DEF KnowsAt, Recording
  <2> QED BY <1>1, <2>2, <2>3, <2>4, CalmQuietContinue DEF At
<1>5. CASE ReadAbsences(r)
  <2>1. PICK D \in SUBSET Date : D = {d \in Viewed(r) : \E a \in absences[d] : a.student \in Pupils(r)}
    BY <1>3
  <2> DEFINE what == [seen[r] EXCEPT !.read = @ \cup {"absences"}, !.absent = D]
  <2>2. what \in Locals /\ what.absent = D /\ what.read = seen[r].read \cup {"absences"} /\ what.days = seen[r].days
    BY <1>1 DEF Locals
  <2>3. Continue(r, "read", what)
    BY <1>5, <2>1 DEF ReadAbsences
  <2> HIDE DEF what
  <2>4. alone => D \subseteq {d \in Viewed(r) : days[d] # None}
    BY <1>2, <1>3, <2>1 DEF Tidy
  <2>5. alone => KnowsAt(r, "read", what)
    BY <1>2, <2>2, <2>4 DEF KnowsAt, Recording
  <2> QED BY <1>1, <2>2, <2>3, <2>5, CalmQuietContinue DEF At
<1> QED BY <1>4, <1>5

LEMMA NextCalm ==
    ASSUME Inv, Calm, [Next]_vars
    PROVE  Calm'
<1>1. CASE UNCHANGED vars
  BY <1>1 DEF vars, school, tables, control, Calm, Alone, Running, Tidy, Knows, KnowsAt, Viewed
<1>2. ASSUME NEW r \in Request, Reply(r) \/ StatementFails(r)
      PROVE  Calm'
  <2>1. r \in Running /\ UNCHANGED <<school, tables>>
    BY <1>2 DEF Reply, Told, StatementFails, Running, Done
  <2> QED BY <1>2, <2>1, CalmQuietAnswer DEF Reply, StatementFails, Done
<1>3. ASSUME NEW r \in Request, Step(r)
      PROVE  Calm'
  BY <1>2, <1>3, SchoolStepCalm, ChecksCalm, LocksCalm, InsertCalm, DeleteCalm, ReadCalm DEF Step
<1> QED BY <1>1, <1>3, BeginCalm DEF Next

\* Once handlers have overlapped, they have.
LEMMA AloneNoMore ==
    ASSUME [Next]_vars, alone'
    PROVE  alone
<1>1. \A r, s, what : Continue(r, s, what) => alone
  BY DEF Continue
<1>2. \A r, o : Answer(r, o) => alone
  BY DEF Answer
<1> HIDE DEF Continue, Answer
<1>3. \A r, row : UseSettings(r, row) => alone
  BY <1>1, <1>2 DEF UseSettings
<1>4. ASSUME NEW r, SchoolStep(r) PROVE alone
  BY <1>1, <1>2, <1>3, <1>4 DEF SchoolStep, FindSettings, InsertSettings, UpdateSettings, FindHoliday,
                                InsertHoliday, DeleteHoliday
<1>5. ASSUME NEW r, Allow(r) \/ CheckAbsentees(r) \/ FindDay(r) PROVE alone
  BY <1>1, <1>2, <1>5 DEF Allow, CheckAbsentees, FindDay
<1>6. ASSUME NEW r, UpsertDay(r) \/ FindAbsences(r) \/ LockAbsences(r) \/ InsertAbsences(r) \/ DeleteDay(r)
      PROVE  alone
  BY <1>1, <1>2, <1>6 DEF UpsertDay, FindAbsences, LockAbsences, InsertAbsences, DeleteDay
<1>7. ASSUME NEW r, ReadDays(r) \/ ReadAbsences(r) \/ Reply(r) \/ StatementFails(r) PROVE alone
  BY <1>1, <1>2, <1>7 DEF ReadDays, ReadAbsences, Reply, StatementFails
<1>8. ASSUME NEW r, NEW c, Begin(r, c) PROVE alone
  BY <1>8 DEF Begin
<1>9. CASE UNCHANGED vars
  BY <1>9 DEF vars, control
<1> QED BY <1>4, <1>5, <1>6, <1>7, <1>8, <1>9 DEF Next, Step

LEMMA InitCalm == Init => Calm
<1> SUFFICES ASSUME Init PROVE Calm
  OBVIOUS
<1>1. \A r \in Request : pc[r] = "idle"
  BY DEF Init
<1>2. Alone /\ \A r \in Request : Knows(r)
  BY <1>1 DEF Alone, Running, Knows, KnowsAt, Recording
<1>3. PICK absent \in [Date -> SUBSET Student] :
        /\ \A d \in Date : days[d] = None => absent[d] = {}
        /\ absences = [d \in Date |-> [student : absent[d], by : {Earlier}]]
  BY DEF Init
<1>4. \A d \in Date : days[d] = None => absences[d] = {}
  BY <1>3
<1>5. \A a, b \in settings : a = b
  BY DEF Init
<1> QED BY <1>2, <1>4, <1>5 DEF Calm, Tidy

LEMMA CalmInvariance == Spec => [](Inv /\ Calm)
<1>1. Init => Inv /\ Calm
  BY InitHolds, InitCalm
<1>2. (Inv /\ Calm) /\ [Next]_vars => (Inv /\ Calm)'
  BY NextKeeps, NextCalm
<1> QED BY <1>1, <1>2, PTL DEF Spec

\* While handlers do not overlap, a view counts no absence on a day it does not
\* count as taken.
THEOREM ViewsAddUp == Spec => []SerialViewsAddUp
<1>1. Inv /\ Calm => SerialViewsAddUp
  <2> SUFFICES ASSUME Inv, Calm, alone, NEW r \in Request, Told(r)
               PROVE  seen[r].absent \subseteq seen[r].days
    BY DEF SerialViewsAddUp
  <2>1. KnowsAt(r, "read", seen[r])
    BY DEF Calm, Knows, Told
  <2> QED BY <2>1 DEF KnowsAt, Told
<1> QED BY <1>1, CalmInvariance, PTL

\* While handlers do not overlap, a save that commits is of a school day: the
\* checks of isSchoolDay still hold at the commit.
THEOREM SavedOnSchoolDays == Spec => SerialSavedOnSchoolDays
<1>1. ASSUME Inv, Calm, [Next]_vars, alone', NEW r \in Request, pc[r] = "insert"
      PROVE  /\ call[r].date \notin holidays
             /\ \A row \in settings : WeekdayOf[call[r].date] \notin row.off
  <2>1. alone
    BY <1>1, AloneNoMore
  <2>2. KnowsAt(r, "insert", seen[r]) /\ call[r].op = "saveDay"
    BY <1>1, <2>1, FitsNow DEF Calm, Knows, FitsAt
  <2> QED BY <2>2 DEF KnowsAt, Recording
<1>2. Inv /\ Calm /\ [Next]_vars =>
        (alone' => \A r \in Request : pc[r] = "insert" /\ pc'[r] = "read" =>
           /\ call[r].date \notin holidays
           /\ \A row \in settings : WeekdayOf[call[r].date] \notin row.off)
  BY <1>1
<1> QED BY <1>2, CalmInvariance, PTL DEF Spec, SerialSavedOnSchoolDays
=============================================================================
