------------------------------ MODULE Homework ------------------------------
(***************************************************************************)
(* homework.service.ts, with the queries of access-policy.service.ts that  *)
(* it makes: who may give, change, delete and read homework, while         *)
(* assignments, approvals and enrollments come and go.  Every awaited      *)
(* statement is a step, at READ COMMITTED, and may fail.  Teachers,        *)
(* students and sections do not change here, so the checks on them are one *)
(* step.  A row has the name of the call that inserted it; its title,      *)
(* description and due date are one text.  A call that fails leaves        *)
(* nothing behind: its slot is free for another.  Names are other than in  *)
(* RequestAccess, because HomeworkAccess joins the two.                    *)
(***************************************************************************)
EXTENDS FiniteSets, Scopes

CONSTANTS Caller, Earlier,   \* handlers; rows from before
          Student, Admin, Year, Text,
          YearOf,      \* the year of each section
          Lost         \* in place of the subject of an assignment, once that is deleted

User == Teacher \cup Student \cup {Admin}

ASSUME HomeworkAssumption ==
    /\ SameLevel \subseteq Section \X Subject /\ YearOf \in [Section -> Year]
    /\ Teacher \cap Student = {} /\ Admin \notin Teacher \cup Student
    /\ Lost \notin Subject \cup {None}
    /\ None \notin User \cup Section \cup Subject \cup Year \cup Text \cup Caller \cup Earlier
    /\ Caller \cap Earlier = {}

VARIABLES
    homework,     \* the earlier rows and the row each call inserted, or none
    assigned,     \* assignments: teacher, section, subject; no subject for a class teacher
    approved,     \* approved HOMEWORK access: teacher, section, subject
    enrolled,     \* active enrollments: student, section
    at, asks,
    found,        \* the row the handler works with
    unread,       \* the queries of findOne that are still out
    yes,          \* one of them has found a row
    entitled      \* history: the caller has been entitled to the row during the call

tables == <<homework, assigned, approved, enrolled, subjects>>
locals == <<found, unread, yes>>
homeworkVars == <<tables, at, asks, locals, entitled>>

NoHomework == [section |-> None, subject |-> None, year |-> None, by |-> None, text |-> None]

Row == [section : Section, subject : Subject, year : Year, by : Teacher \cup {None}, text : Text]

Id == Caller \cup Earlier

Ids == {i \in Id : homework[i] # NoHomework}

\* homework is given for a subject of its section's level only
Fitting == {h \in Row : <<h.section, h.subject>> \in SameLevel}

NoAsk == [op |-> "none", user |-> None, id |-> None, section |-> None,
          subject |-> None, year |-> None, text |-> None]

\* ids and texts; the sections, subjects and years of a new row
AskBody(op, users, ids, cs, ms, ys, texts) ==
    [op : {op}, user : users, id : ids, section : cs, subject : ms, year : ys, text : texts]

Writers == Teacher \cup {Admin}

Asks == UNION {
    AskBody("create", Writers, {None}, Section, Subject, Year \cup {None}, Text),
    AskBody("update", Writers, Id, {None}, {None}, {None}, Text),
    AskBody("delete", Writers, Id, {None}, {None}, {None}, {None}),
    AskBody("findOne", User, Id, {None}, {None}, {None}, {None})}

HomeworkInit ==
    /\ homework \in {f \in [Id -> Fitting \cup {NoHomework}] : \A r \in Caller : f[r] = NoHomework}
    /\ assigned = {} /\ approved = {} /\ enrolled = {} /\ subjects = Subject
    /\ at = [r \in Caller |-> "idle"]
    /\ asks = [r \in Caller |-> NoAsk]
    /\ found = [r \in Caller |-> NoHomework]
    /\ unread = [r \in Caller |-> {}]
    /\ yes = [r \in Caller |-> FALSE]
    /\ entitled = [r \in Caller |-> FALSE]

Busy == {r \in Caller : at[r] \notin {"idle", "ok"}}

-----------------------------------------------------------------------------
(* The access policy                                                        *)

\* a class teacher covers every subject of the section
Covers(t, h) == <<t, h.section, None>> \in assigned \/ <<t, h.section, h.subject>> \in assigned

IsAssignedToSection(t, h) == \E m \in Subject \cup {None, Lost} : <<t, h.section, m>> \in assigned

HasHomeworkAccess(t, h) == <<t, h.section, h.subject>> \in approved

\* an enrollment is of the year of its section
IsEnrolled(s, h) == <<s, h.section>> \in enrolled /\ h.year = YearOf[h.section]

\* what the two queries of a check amount to, both made at one moment
MayWrite(u, h) == u = Admin \/ Covers(u, h) \/ (HasHomeworkAccess(u, h) /\ h.by = u)

MayRead(u, h) == \/ u = Admin
                 \/ IsAssignedToSection(u, h) \/ HasHomeworkAccess(u, h)
                 \/ IsEnrolled(u, h)

\* Mutant of ListedFor: a teacher is listed the homework of approved subjects alone.
ListedForSubjects(u, y) ==
    {i \in Ids : LET h == homework[i] IN
       /\ h.year = y
       /\ u \in Teacher => Covers(u, h) \/ HasHomeworkAccess(u, h)
       /\ u \in Student => <<u, h.section>> \in enrolled /\ y = YearOf[h.section]}

\* findAll: the sections a teacher is assigned to and the approved scopes, or
\* the sections a student is enrolled in for the year
ListedFor(u, y) ==
    {i \in Ids : LET h == homework[i] IN
       /\ h.year = y
       /\ u \in Teacher => \/ \E a \in assigned : a[1] = u /\ a[2] = h.section
                           \/ \E g \in approved : g = <<u, h.section, h.subject>>
       /\ u \in Student => <<u, h.section>> \in enrolled /\ y = YearOf[h.section]}

-----------------------------------------------------------------------------
(* The handlers                                                             *)

Ask(r, c) ==
    /\ at[r] = "idle"
    /\ asks' = [asks EXCEPT ![r] = c]
    /\ at' = [at EXCEPT ![r] = IF c.op = "create" THEN "match" ELSE "find"]
    /\ UNCHANGED <<tables, locals>>

Onto(r, s) == at' = [at EXCEPT ![r] = s] /\ UNCHANGED asks

Work(r, h, s) ==
    /\ found' = [found EXCEPT ![r] = h]
    /\ Onto(r, s) /\ UNCHANGED <<tables, unread, yes>>

\* an answer ends the call, and what it has read is forgotten
End(r, s) ==
    /\ at' = [at EXCEPT ![r] = s] /\ asks' = [asks EXCEPT ![r] = NoAsk]
    /\ found' = [found EXCEPT ![r] = NoHomework]
    /\ unread' = [unread EXCEPT ![r] = {}] /\ yes' = [yes EXCEPT ![r] = FALSE]

Refuse(r) == End(r, "idle") /\ UNCHANGED tables

\* an admin is asked for no assignment
FirstCheck(r) == IF asks[r].user = Admin THEN "write" ELSE "assigned"

\* dto.academicYearId, or the current year: any, or none, as setCurrent left it
MatchSubject(r) ==
    LET c == asks[r] IN
    /\ at[r] = "match"
    /\ \E y \in IF c.year = None THEN Year \cup {None} ELSE {c.year} :
         IF y # None /\ c.subject \in subjects /\ <<c.section, c.subject>> \in SameLevel
         THEN Work(r, [section |-> c.section, subject |-> c.subject, year |-> y, text |-> c.text,
                       by |-> IF c.user = Admin THEN None ELSE c.user], FirstCheck(r))
         ELSE Refuse(r)

\* assertHomeworkExists; findOne then asks a teacher's two queries side by side
FindHomework(r) ==
    LET c == asks[r]  h == homework[c.id] IN
    /\ at[r] = "find"
    /\ \/ h = NoHomework /\ Refuse(r)
       \/ h # NoHomework /\ c.op # "findOne" /\ Work(r, h, FirstCheck(r))
       \/ h # NoHomework /\ c.op = "findOne" /\ c.user = Admin /\ Work(r, h, "ok")
       \/ /\ h # NoHomework /\ c.op = "findOne" /\ c.user # Admin
          /\ found' = [found EXCEPT ![r] = h]
          /\ unread' = [unread EXCEPT ![r] = IF c.user \in Teacher THEN {"section", "scope"}
                                                                  ELSE {"enrollment"}]
          /\ Onto(r, "view") /\ UNCHANGED <<tables, yes>>

\* resolveSubjectAccess
FindCoverage(r) ==
    /\ at[r] = "assigned"
    /\ Onto(r, IF Covers(asks[r].user, found[r]) THEN "write" ELSE "granted")
    /\ UNCHANGED <<tables, locals>>

\* Mutant of FindGrant: granted access is enough for the homework of others.
FindAnyGrant(r) ==
    /\ at[r] = "granted"
    /\ IF HasHomeworkAccess(asks[r].user, found[r])
       THEN Onto(r, "write") /\ UNCHANGED <<tables, locals>> ELSE Refuse(r)

\* with granted access only for homework of their own
FindGrant(r) ==
    /\ at[r] = "granted"
    /\ IF HasHomeworkAccess(asks[r].user, found[r]) /\ found[r].by = asks[r].user
       THEN Onto(r, "write") /\ UNCHANGED <<tables, locals>> ELSE Refuse(r)

Answers(r, q) ==
    LET u == asks[r].user  h == found[r] IN
    CASE q = "section" -> IsAssignedToSection(u, h)
      [] q = "scope" -> HasHomeworkAccess(u, h)
      [] q = "enrollment" -> IsEnrolled(u, h)

\* an answer of findOne's queries; after the last the handler decides
QueryAnswered(r, q) ==
    LET sure == yes[r] \/ Answers(r, q) IN
    /\ at[r] = "view" /\ q \in unread[r]
    /\ IF unread[r] = {q} THEN End(r, IF sure THEN "ok" ELSE "idle")
       ELSE /\ unread' = [unread EXCEPT ![r] = @ \ {q}]
            /\ yes' = [yes EXCEPT ![r] = sure]
            /\ UNCHANGED <<at, asks, found>>
    /\ UNCHANGED tables

Store(r, i, h) ==
    /\ homework' = [homework EXCEPT ![i] = h]
    /\ End(r, "ok") /\ UNCHANGED <<assigned, approved, enrolled, subjects>>

\* a foreign key refuses the row of a subject that has been deleted
Insert(r) ==
    /\ at[r] = "write" /\ asks[r].op = "create"
    /\ IF found[r].subject \in subjects THEN Store(r, r, found[r]) ELSE Refuse(r)

\* the row that was checked is written, unless it is gone by now
Write(r) ==
    LET c == asks[r]  h == homework[c.id] IN
    /\ at[r] = "write" /\ c.op \in {"update", "delete"}
    /\ IF h = NoHomework THEN Refuse(r)
       ELSE Store(r, c.id, IF c.op = "delete" THEN NoHomework ELSE [h EXCEPT !.text = c.text])

StatementFails(r) == r \in Busy /\ Refuse(r)

Serve(r) ==
    \/ MatchSubject(r) \/ FindHomework(r) \/ FindCoverage(r) \/ FindGrant(r)
    \/ Insert(r) \/ Write(r) \/ StatementFails(r)
    \/ \E q \in unread[r] : QueryAnswered(r, q)

-----------------------------------------------------------------------------
(* What others change meanwhile: see RequestAccess and Enrollment           *)

AssignmentChanges(t, c, m) ==
    /\ \/ <<t, c, m>> \in assigned /\ assigned' = assigned \ {<<t, c, m>>}
       \/ /\ m # Lost /\ (m # None => m \in subjects /\ <<c, m>> \in SameLevel)
          /\ assigned' = assigned \cup {<<t, c, m>>}
    /\ UNCHANGED <<homework, approved, enrolled, subjects, at, asks, locals>>

AccessChanges(t, c, m) ==
    /\ \/ <<t, c, m>> \in approved /\ approved' = approved \ {<<t, c, m>>}
       \/ /\ m \in subjects /\ <<c, m>> \in SameLevel
          /\ approved' = approved \cup {<<t, c, m>>}
    /\ UNCHANGED <<homework, assigned, enrolled, subjects, at, asks, locals>>

\* homework keeps a subject from being deleted; assignments and access requests
\* lose theirs
SubjectDeleted(m) ==
    /\ m \in subjects /\ \A i \in Ids : homework[i].subject # m
    /\ subjects' = subjects \ {m}
    /\ assigned' = {IF a[3] = m THEN <<a[1], a[2], Lost>> ELSE a : a \in assigned}
    /\ approved' = {g \in approved : g[3] # m}
    /\ UNCHANGED <<homework, enrolled, at, asks, locals>>

EnrollmentChanges(s, c) ==
    /\ \/ enrolled' = enrolled \ {<<s, c>>}
       \/ enrolled' = enrolled \cup {<<s, c>>}
    /\ UNCHANGED <<homework, assigned, approved, subjects, at, asks, locals>>

Entitled(r) ==
    LET u == asks[r].user  h == found[r] IN
    /\ at[r] # "idle" /\ h # NoHomework
    /\ IF asks[r].op = "findOne" THEN MayRead(u, h) ELSE MayWrite(u, h)

\* history: who is entitled before or after a step of the call has been entitled
Remember ==
    entitled' = [r \in Caller |->
        at'[r] # "idle" /\ (entitled[r] \/ (at[r] # "ok" /\ (Entitled(r) \/ Entitled(r)')))]

Handlers == \E r \in Caller : Serve(r) \/ \E c \in Asks : Ask(r, c)

Enrolling == \E s \in Student, c \in Section : EnrollmentChanges(s, c)

AccessMoves ==
    \/ \E t \in Teacher, c \in Section :
         \/ \E m \in Subject \cup {None, Lost} : AssignmentChanges(t, c, m)
         \/ \E m \in Subject : AccessChanges(t, c, m)
    \/ \E m \in Subject : SubjectDeleted(m)

HomeworkNext == (Handlers \/ Enrolling \/ AccessMoves) /\ Remember

HomeworkSpec == HomeworkInit /\ [][HomeworkNext]_homeworkVars

-----------------------------------------------------------------------------
(* Properties                                                               *)

\* Access is checked on every request: whoever gives, changes, deletes or is
\* shown homework with success was entitled to just that at some moment of the
\* call, however assignments, approvals and enrollments come and go between
\* its statements.  With granted access that is for homework of their own.
OnlyTheEntitledAreServed == \A r \in Caller : at[r] = "ok" => entitled[r]

\* The list and the single row agree: a list of a year has the rows of that
\* year that the caller may be shown one by one, no more and no less.
ListedIsReadable ==
    \A u \in User, y \in Year :
        ListedFor(u, y) = {i \in Ids : homework[i].year = y /\ MayRead(u, homework[i])}
=============================================================================
