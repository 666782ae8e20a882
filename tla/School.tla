------------------------------- MODULE School -------------------------------
(***************************************************************************)
(* school.service.ts: the settings row with the weekly days off and the    *)
(* holidays of one academic year, as statements that run in handlers of    *)
(* its own controller and, through isSchoolDay, in those of Attendance,    *)
(* which extends this module with the state and the steps of its tables.   *)
(* A handler is a request that is answered once; every awaited statement   *)
(* is a step at READ COMMITTED.                                            *)
(***************************************************************************)
EXTENDS Naturals, FiniteSets

CONSTANTS Request, Date, Student,
          Weekday, WeekdayOf,   \* getDay of each date
          DefaultOff,           \* WEEKLY_OFF_DAYS_DEFAULT
          OffChoice,            \* the weekly days off an admin may set
          Recordable,           \* dates of the year that are not in the future
          Earlier,              \* stands for the calls before
          Ops,                  \* the operations called in this instance
          None

ASSUME SchoolAssumption ==
    /\ WeekdayOf \in [Date -> Weekday] /\ DefaultOff \subseteq Weekday
    /\ OffChoice \subseteq SUBSET Weekday /\ Recordable \subseteq Date
    /\ Earlier \notin Request
    /\ None \notin Request \cup {Earlier} \cup Date \cup Student

VARIABLES
    settings,   \* rows: the weekly days off, and the call that stored the row
    holidays,
    pc, call, seen,
    alone       \* history: no two handlers have been in flight at once so far

school == <<settings, holidays>>
control == <<pc, call, seen, alone>>

Row(off, by) == [off |-> off, by |-> by]

Body(op, dates, offs, absents) == [op : {op}, date : dates, off : offs, absent : absents]

SchoolCalls ==
    {c \in UNION {
         Body("getSettings", {None}, {{}}, {{}}),
         Body("updateSettings", {None}, OffChoice, {{}}),
         Body("createHoliday", Date, {{}}, {{}}),
         Body("deleteHoliday", Date, {{}}, {{}})} : c.op \in Ops}

NoCall == [op |-> "none", date |-> None, off |-> {}, absent |-> {}]

\* row: by, of the settings row to update; day: by, of the attendance day to
\* delete; todo: absences a deleteMany has found; held: those it has locked;
\* read: the queries of a view that have returned, with its days and absences
Nothing == [row |-> None, day |-> None, todo |-> {}, held |-> {},
            read |-> {}, days |-> {}, absent |-> {}]

Done == {"ok", "refused", "failed"}

Running == {r \in Request : pc[r] \notin Done \cup {"idle"}}

\* an answered call leaves nothing behind but its outcome
Answer(r, outcome) ==
    /\ pc' = [pc EXCEPT ![r] = outcome]
    /\ call' = [call EXCEPT ![r] = NoCall]
    /\ seen' = [seen EXCEPT ![r] = Nothing]
    /\ UNCHANGED alone

Continue(r, s, what) ==
    /\ pc' = [pc EXCEPT ![r] = s]
    /\ seen' = [seen EXCEPT ![r] = what]
    /\ UNCHANGED <<call, alone>>

-----------------------------------------------------------------------------

\* what the caller of getOrCreateSettings does with the row
UseSettings(r, row) ==
    CASE call[r].op = "updateSettings" -> Continue(r, "writeSettings", [seen[r] EXCEPT !.row = row.by])
      [] call[r].op = "saveDay" -> IF WeekdayOf[call[r].date] \in row.off THEN Answer(r, "refused")
                                   ELSE Continue(r, "holiday", seen[r])
      [] OTHER -> Answer(r, "ok")

\* Mutant of FindSettings: a row is inserted without looking for one.
CreateAlways(r) ==
    /\ pc[r] = "settings"
    /\ Continue(r, "insertSettings", seen[r])
    /\ UNCHANGED school

\* findFirst: any row, if there are several
FindSettings(r) ==
    /\ pc[r] = "settings"
    /\ \/ settings = {} /\ Continue(r, "insertSettings", seen[r])
       \/ \E row \in settings : UseSettings(r, row)
    /\ UNCHANGED school

InsertSettings(r) ==
    /\ pc[r] = "insertSettings"
    /\ settings' = settings \cup {Row(DefaultOff, r)}
    /\ UseSettings(r, Row(DefaultOff, r))
    /\ UNCHANGED holidays

UpdateSettings(r) ==
    /\ pc[r] = "writeSettings"
    /\ settings' = {IF row.by = seen[r].row THEN Row(call[r].off, row.by) ELSE row : row \in settings}
    /\ Answer(r, "ok")
    /\ UNCHANGED holidays

\* createHoliday's check, and the second half of isSchoolDay
FindHoliday(r) ==
    /\ pc[r] = "holiday"
    /\ IF call[r].date \in holidays THEN Answer(r, "refused")
       ELSE Continue(r, IF call[r].op = "saveDay" THEN "absentees" ELSE "insertHoliday", seen[r])
    /\ UNCHANGED school

\* date and year are unique together
InsertHoliday(r) ==
    /\ pc[r] = "insertHoliday"
    /\ holidays' = holidays \cup {call[r].date}
    /\ Answer(r, IF call[r].date \in holidays THEN "refused" ELSE "ok")
    /\ UNCHANGED settings

DeleteHoliday(r) ==
    /\ pc[r] = "deleteHoliday"
    /\ holidays' = holidays \ {call[r].date}
    /\ Answer(r, IF call[r].date \in holidays THEN "ok" ELSE "refused")
    /\ UNCHANGED settings

SchoolStep(r) ==
    \/ FindSettings(r) \/ InsertSettings(r) \/ UpdateSettings(r)
    \/ FindHoliday(r) \/ InsertHoliday(r) \/ DeleteHoliday(r)
=============================================================================
