--------------------------- MODULE RequestAccess ---------------------------
(***************************************************************************)
(* request-access.service.ts and access-policy.service.ts, with the two    *)
(* modules that change what they read: the class assignments of            *)
(* teachers.service.ts and the subject deletion of subjects.service.ts.    *)
(*                                                                         *)
(* Every call is a request of its own, answered once ("ok" or "refused");  *)
(* every awaited statement of its handler is a step, at READ COMMITTED,    *)
(* and nothing serialises the handlers.  A row has the name of the call    *)
(* that inserted it.  Users, teacher profiles and sections are never       *)
(* deleted, so the statements that look them up are left out.              *)
(***************************************************************************)
EXTENDS Naturals, FiniteSets, Scopes

CONSTANTS Request, AccessType,
          ValidScope,    \* those pairs of SameLevel whose section is of the current year
          Ops,           \* the operations called in this instance
          MaxRunning     \* how many handlers may be in flight at once

Decisions == {"cancel", "approve", "reject", "revoke"}
Creates   == {"create", "grant"}
Others    == {"createAssignment", "deleteAssignment", "deleteSubject"}

ASSUME RequestAccessAssumption ==
    /\ ValidScope \subseteq SameLevel /\ SameLevel \subseteq Section \X Subject
    /\ Ops \subseteq Decisions \cup Creates \cup Others
    /\ None \notin Request \cup Teacher \cup Section \cup Subject \cup AccessType
    /\ None \notin [op : Decisions, row : Request]

VARIABLES
    access,        \* the AccessRequest row each request inserted, or NoRow
    assignments,   \* TeacherClassAssignment rows
    active,        \* the teachers whose account is active
    pc,            \* next statement; "idle" before the call, "ok"/"refused" after
    call,          \* arguments
    count,         \* rows changed by the conditional update of setStatus
    alone          \* history: no two handlers have been in flight at once so far

vars == <<access, assignments, subjects, active, pc, call, count, alone>>

NoRow == [status |-> "NONE", requester |-> None, type |-> None,
          section |-> None, subject |-> None]

NoCall == [op |-> "none", teacher |-> None, type |-> None, section |-> None,
           subject |-> None, row |-> None]

Body(op, teachers, types, sections, ms, ids) ==
    [op : {op}, teacher : teachers, type : types, section : sections,
     subject : ms, row : ids]

Calls ==
    {c \in UNION {
         Body("create", Teacher, AccessType, Section, Subject, {None}),
         Body("grant", Teacher, AccessType, Section, Subject, {None}),
         Body("cancel", Teacher, {None}, {None}, {None}, Request),
         Body("approve", {None}, {None}, {None}, {None}, Request),
         Body("reject", {None}, {None}, {None}, {None}, Request),
         Body("revoke", {None}, {None}, {None}, {None}, Request),
         Body("createAssignment", Teacher, {None}, Section, Subject \cup {None}, {None}),
         Body("deleteAssignment", Teacher, {None}, {None}, {None}, Request),
         Body("deleteSubject", {None}, {None}, {None}, Subject, {None})} : c.op \in Ops}

Done == {"ok", "refused"}

Running == {r \in Request : pc[r] \notin Done \cup {"idle"}}

Init ==
    /\ access = [i \in Request |-> NoRow]
    /\ assignments = {}
    /\ subjects = Subject
    /\ active = Teacher
    /\ pc = [r \in Request |-> "idle"]
    /\ call = [r \in Request |-> NoCall]
    /\ count = [r \in Request |-> 0]
    /\ alone = TRUE

FirstStep(c) ==
    CASE c.op \in Creates -> "requester"
      [] c.op \in Decisions -> "find"
      [] c.op = "createAssignment" -> IF c.subject = None THEN "classTeacher" ELSE "subject"
      [] c.op = "deleteAssignment" -> "assignment"
      [] c.op = "deleteSubject" -> "subject"

Begin(r, c) ==
    /\ pc[r] = "idle" /\ Cardinality(Running) < MaxRunning
    /\ call' = [call EXCEPT ![r] = c]
    /\ pc' = [pc EXCEPT ![r] = FirstStep(c)]
    /\ alone' = (alone /\ Running = {})
    /\ UNCHANGED <<access, assignments, subjects, active, count>>

Goto(r, s) ==
    pc' = [pc EXCEPT ![r] = s] /\ UNCHANGED <<assignments, subjects, active, call, alone>>

Only(r, s) == Goto(r, s) /\ UNCHANGED <<access, count>>

\* a check: on to the next statement when it holds, an error answer when not
Check(r, holds, s) == Only(r, IF holds THEN s ELSE "refused")

-----------------------------------------------------------------------------
(* AccessPolicyService                                                      *)

\* a class teacher covers every subject of the section
AssignedTo(t, s, m) ==
    \E a \in assignments :
        /\ a.teacher = t /\ a.section = s
        /\ \/ a.role = "CLASS_TEACHER"
           \/ a.role = "SUBJECT_TEACHER" /\ a.subject = m

WithStatus(st, c) ==
    \E i \in Request :
        /\ access[i].status = st
        /\ access[i].requester = c.teacher /\ access[i].type = c.type
        /\ access[i].section = c.section /\ access[i].subject = c.subject

HasApprovedAccess(c) == WithStatus("APPROVED", c)

-----------------------------------------------------------------------------
(* create and grant                                                         *)

AssertRequesterIsActiveTeacher(r) ==
    pc[r] = "requester" /\ Check(r, call[r].teacher \in active, "scope")

AssertValidScope(r) ==
    /\ pc[r] = "scope"
    /\ Check(r, /\ call[r].subject \in subjects
                /\ <<call[r].section, call[r].subject>> \in ValidScope, "assigned")

\* assertNoExistingAccess: the two queries of resolveSubjectAccess
AssertNotAssigned(r) ==
    /\ pc[r] = "assigned"
    /\ Check(r, ~AssignedTo(call[r].teacher, call[r].section, call[r].subject), "granted")

AssertNotGranted(r) ==
    pc[r] = "granted" /\ Check(r, ~HasApprovedAccess(call[r]), "pending")

\* Mutant of AssertNoPendingRequest: an admin's grant skips the pending check.
GrantBesidePending(r) ==
    /\ pc[r] = "pending"
    /\ Check(r, call[r].op = "grant" \/ ~WithStatus("PENDING", call[r]), "insert")

AssertNoPendingRequest(r) ==
    pc[r] = "pending" /\ Check(r, ~WithStatus("PENDING", call[r]), "insert")

InsertAccessRequest(r) ==
    /\ pc[r] = "insert" /\ call[r].op \in Creates
    /\ \/ /\ call[r].subject \in subjects
          /\ access' = [access EXCEPT ![r] =
                 [status |-> IF call[r].op = "grant" THEN "APPROVED" ELSE "PENDING",
                  requester |-> call[r].teacher, type |-> call[r].type,
                  section |-> call[r].section, subject |-> call[r].subject]]
          /\ Goto(r, "ok") /\ UNCHANGED count
       \/ call[r].subject \notin subjects /\ Only(r, "refused")

-----------------------------------------------------------------------------
(* cancel, approve, reject, revoke: setStatus                               *)

Expected(op) == IF op = "revoke" THEN "APPROVED" ELSE "PENDING"

Target(op) == CASE op = "cancel"  -> "CANCELLED"
                [] op = "approve" -> "APPROVED"
                [] op = "reject"  -> "REJECTED"
                [] op = "revoke"  -> "REVOKED"

\* Mutant of FindAccessRequest: any existing row goes on to the update.
FindAnyRow(r) ==
    pc[r] = "find" /\ Check(r, access[call[r].row] # NoRow, "update")

\* the row exists, the caller of cancel owns it, and assertValidStatus holds
FindAccessRequest(r) ==
    LET row == access[call[r].row]
    IN  /\ pc[r] = "find"
        /\ Check(r, /\ row # NoRow
                    /\ call[r].op = "cancel" => row.requester = call[r].teacher
                    /\ row.status = Expected(call[r].op), "update")

\* Mutant of UpdateStatus: UPDATE ... WHERE id = i, whatever the status is now.
UpdateAnyStatus(r) ==
    /\ pc[r] = "update"
    /\ access' = [access EXCEPT ![call[r].row].status = Target(call[r].op)]
    /\ count' = [count EXCEPT ![r] = 1]
    /\ Goto(r, "reread")

\* UPDATE ... WHERE id = i AND status = expected
UpdateStatus(r) ==
    LET i == call[r].row
    IN  /\ pc[r] = "update"
        /\ \/ /\ access[i].status = Expected(call[r].op)
              /\ access' = [access EXCEPT ![i].status = Target(call[r].op)]
              /\ count' = [count EXCEPT ![r] = 1]
           \/ /\ access[i].status # Expected(call[r].op)
              /\ UNCHANGED <<access, count>>
        /\ Goto(r, "reread")

\* the answer is the row as it is now; a call that changed nothing checks it
Reread(r) ==
    /\ pc[r] = "reread"
    /\ Check(r, count[r] = 1 \/ access[call[r].row].status = Expected(call[r].op), "ok")

-----------------------------------------------------------------------------
(* TeachersService.createAssignment, deleteAssignment                       *)

\* Mutant of AssertNoClassTeacher: the pre-check is gone.
AssignUnchecked(r) == pc[r] = "classTeacher" /\ Only(r, "insert")

AssertNoClassTeacher(r) ==
    /\ pc[r] = "classTeacher"
    /\ Check(r, ~\E a \in assignments :
                    a.section = call[r].section /\ a.role = "CLASS_TEACHER", "insert")

AssertSubjectExists(r) ==
    /\ pc[r] = "subject"
    /\ IF call[r].op = "deleteSubject"
       THEN Check(r, call[r].subject \in subjects, "countAssignments")
       ELSE Check(r, /\ call[r].subject \in subjects
                     /\ <<call[r].section, call[r].subject>> \in SameLevel, "insert")

\* unique (teacherId, sectionId, subjectId), where a NULL subject equals no other
InsertAssignment(r) ==
    LET c == call[r]
        accepted ==
            c.subject # None =>
                /\ c.subject \in subjects
                /\ ~\E a \in assignments : /\ a.teacher = c.teacher
                                           /\ a.section = c.section /\ a.subject = c.subject
    IN  /\ pc[r] = "insert" /\ c.op = "createAssignment"
        /\ \/ /\ accepted
              /\ assignments' = assignments \cup
                     {[id |-> r, teacher |-> c.teacher, section |-> c.section,
                       subject |-> c.subject,
                       role |-> IF c.subject = None THEN "CLASS_TEACHER"
                                                    ELSE "SUBJECT_TEACHER"]}
              /\ pc' = [pc EXCEPT ![r] = "ok"]
              /\ UNCHANGED <<access, subjects, active, call, count, alone>>
           \/ ~accepted /\ Only(r, "refused")

FindAssignment(r) ==
    /\ pc[r] = "assignment"
    /\ Check(r, \E a \in assignments : a.id = call[r].row /\ a.teacher = call[r].teacher,
             "deleteAssignment")

DeleteAssignment(r) ==
    /\ pc[r] = "deleteAssignment"
    /\ \/ /\ \E a \in assignments : a.id = call[r].row
          /\ assignments' = {a \in assignments : a.id # call[r].row}
          /\ pc' = [pc EXCEPT ![r] = "ok"]
          /\ UNCHANGED <<access, subjects, active, call, count, alone>>
       \/ (\A a \in assignments : a.id # call[r].row) /\ Only(r, "refused")

-----------------------------------------------------------------------------
(* SubjectsService.delete; UsersService.deactivate and activate             *)

\* Mutant of CountAssignments: assigned subjects can be deleted.
DeleteWhileAssigned(r) == pc[r] = "countAssignments" /\ Only(r, "countAccess")

CountAssignments(r) ==
    /\ pc[r] = "countAssignments"
    /\ Check(r, \A a \in assignments : a.subject # call[r].subject, "countAccess")

CountActiveAccess(r) ==
    /\ pc[r] = "countAccess"
    /\ Check(r, \A i \in Request : /\ access[i].subject = call[r].subject
                                   => access[i].status # "APPROVED", "deleteSubject")

\* Mutant of DeleteSubject: the references to the subject are kept.
DeleteReferencedSubject(r) ==
    /\ pc[r] = "deleteSubject"
    /\ subjects' = subjects \ {call[r].subject}
    /\ pc' = [pc EXCEPT ![r] = "ok"]
    /\ UNCHANGED <<access, assignments, active, call, count, alone>>

\* ON DELETE SET NULL on both references; exam subjects and homework of the
\* subject (tables of other modules) make the statement fail instead
DeleteSubject(r) ==
    LET m == call[r].subject
    IN  /\ pc[r] = "deleteSubject"
        /\ \/ /\ m \in subjects
              /\ subjects' = subjects \ {m}
              /\ access' = [i \in Request |-> IF access[i].subject = m
                                THEN [access[i] EXCEPT !.subject = None] ELSE access[i]]
              /\ assignments' = {IF a.subject = m THEN [a EXCEPT !.subject = None] ELSE a :
                                    a \in assignments}
              /\ pc' = [pc EXCEPT ![r] = "ok"]
              /\ UNCHANGED <<active, call, count, alone>>
           \/ Only(r, "refused")

SetActive(t) ==
    /\ active' = IF t \in active THEN active \ {t} ELSE active \cup {t}
    /\ UNCHANGED <<access, assignments, subjects, pc, call, count, alone>>

-----------------------------------------------------------------------------
Proceed(r) ==
    \/ AssertRequesterIsActiveTeacher(r) \/ AssertValidScope(r)
    \/ AssertNotAssigned(r) \/ AssertNotGranted(r) \/ AssertNoPendingRequest(r)
    \/ InsertAccessRequest(r)
    \/ FindAccessRequest(r) \/ UpdateStatus(r) \/ Reread(r)
    \/ AssertNoClassTeacher(r) \/ AssertSubjectExists(r) \/ InsertAssignment(r)
    \/ FindAssignment(r) \/ DeleteAssignment(r)
    \/ CountAssignments(r) \/ CountActiveAccess(r) \/ DeleteSubject(r)

Next ==
    \/ \E r \in Request : Proceed(r) \/ \E c \in Calls : Begin(r, c)
    \/ \E t \in Teacher : SetActive(t)

Spec == Init /\ [][Next]_vars

\* the event loop runs every started handler on to its answer
FairSpec == Spec /\ \A r \in Request : WF_vars(Proceed(r))

-----------------------------------------------------------------------------
(* Properties *)

Status == {"PENDING", "APPROVED", "REJECTED", "CANCELLED", "REVOKED"}

AccessRow == [status : Status, requester : Teacher, type : AccessType,
              section : Section, subject : subjects \cup {None}]

AssignmentRow == [id : Request, teacher : Teacher, section : Section,
                  subject : subjects \cup {None},
                  role : {"CLASS_TEACHER", "SUBJECT_TEACHER"}]

Step == Done \cup
    {"idle", "requester", "scope", "assigned", "granted", "pending", "insert",
     "find", "update", "reread", "classTeacher", "subject", "assignment",
     "deleteAssignment", "countAssignments", "countAccess", "deleteSubject"}

\* Rows are well typed and refer to subjects that exist, whatever is deleted.
TypeOK ==
    /\ subjects \subseteq Subject /\ active \subseteq Teacher
    /\ access \in [Request -> AccessRow \cup {NoRow}]
    /\ assignments \subseteq AssignmentRow
    /\ pc \in [Request -> Step]
    /\ call \in [Request -> Calls \cup {NoCall}]
    /\ count \in [Request -> {0, 1}]

Decided(r) == call[r].op \in Decisions /\ pc[r] = "ok"

\* Reviewers, the teacher and other admins may act on one row at the same
\* time: of the calls that need the row in the same status one is told ok.
OneWinnerPerStatus ==
    \A r, q \in Request :
        /\ Decided(r) /\ Decided(q) /\ call[r].row = call[q].row
        /\ Expected(call[r].op) = Expected(call[q].op)
        => r = q

SameScope(x, y) ==
    x.requester = y.requester /\ x.type = y.type /\ x.section = y.section
    /\ x.subject = y.subject

\* While handlers do not overlap a teacher has at most one pending or approved
\* row for a scope: the checks of create, grant and approve keep duplicates out.
OneOpenRow ==
    alone => \A i, j \in Request :
        /\ access[i].status \in {"PENDING", "APPROVED"}
        /\ access[j].status \in {"PENDING", "APPROVED"}
        /\ access[i].subject # None /\ SameScope(access[i], access[j])
        => i = j

\* A section has at most one class teacher.
OneClassTeacher ==
    \A a, b \in assignments :
        /\ a.role = "CLASS_TEACHER" /\ b.role = "CLASS_TEACHER" /\ a.section = b.section
        => a = b

\* While handlers do not overlap a section has at most one class teacher.
SerialOneClassTeacher == alone => OneClassTeacher

\* While handlers do not overlap a subject teacher's assignment names the
\* subject it is for, whatever subjects are deleted.
SubjectTeachersHaveASubject ==
    alone => \A a \in assignments : a.role = "SUBJECT_TEACHER" => a.subject # None

\* Approved access is access to a subject: what a subject's deletion and the
\* approvals do in any order leaves no approved row without one.
ApprovedAccessNamesASubject ==
    \A i \in Request : access[i].status = "APPROVED" => access[i].subject # None

\* The decisions as callers see them are atomic: see the module AccessLifecycle.
A == INSTANCE AccessLifecycle WITH
        status <- [i \in Request |-> access[i].status],
        asked <- [r \in Request |-> IF call[r].op \in Decisions
                                    THEN [op |-> call[r].op, row |-> call[r].row]
                                    ELSE None],
        outcome <- [r \in Request |->
                      CASE pc[r] = "ok" \/ (pc[r] = "reread" /\ count[r] = 1) -> "won"
                        [] pc[r] = "refused" -> "lost"
                        [] OTHER -> "open"]

ImplementsLifecycle == A!Spec
=============================================================================
