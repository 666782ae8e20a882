--------------------------- MODULE HomeworkAccess ---------------------------
(***************************************************************************)
(* Homework over the tables of RequestAccess: what homework.service.ts     *)
(* reads of assignments, approvals and subjects is what the handlers of    *)
(* request-access.service.ts, teachers.service.ts and subjects.service.ts  *)
(* write, statement by statement.  Homework by itself lets these change at *)
(* any moment; here they change as the code changes them.                  *)
(***************************************************************************)
EXTENDS RequestAccess, Homework

CONSTANT HomeworkType   \* AccessType.HOMEWORK

\* what the queries of the policy tell apart of an assignment: who, where, and for
\* which subject, if any
Place(a) ==
    <<a.teacher, a.section,
      IF a.role = "CLASS_TEACHER" THEN None ELSE IF a.subject = None THEN Lost ELSE a.subject>>

\* the rows that hasApprovedAccess and findApprovedScopes select for homework
Approves(i) == /\ access[i].status = "APPROVED" /\ access[i].type = HomeworkType
               /\ access[i].subject # None

Scope(i) == <<access[i].requester, access[i].section, access[i].subject>>

Places == {Place(a) : a \in assignments}

ApprovedScopes == {Scope(i) : i \in {j \in Request : Approves(j)}}

\* assigned and approved are views of the tables
Views == assigned = Places /\ approved = ApprovedScopes

\* foreign keys: a row of homework keeps its subject from being deleted
HomeworkRestricts == \A i \in Ids : homework[i].subject \in subjects'

HomeworkSteps == (Handlers \/ Enrolling) /\ UNCHANGED vars

AccessSteps ==
    /\ Next /\ HomeworkRestricts
    /\ assigned' = Places' /\ approved' = ApprovedScopes'
    /\ UNCHANGED <<homework, enrolled, at, asks, locals>>

AllInit == Init /\ HomeworkInit

AllNext == (HomeworkSteps \/ AccessSteps) /\ Remember

All == AllInit /\ [][AllNext]_<<vars, homeworkVars>>

-----------------------------------------------------------------------------
\* Homework is for a subject that exists, whatever subjects are deleted.
HomeworkHasItsSubject == \A i \in Ids : homework[i].subject \in subjects
=============================================================================
