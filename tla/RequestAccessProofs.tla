------------------------ MODULE RequestAccessProofs ------------------------
(***************************************************************************)
(* Of the callers who decide on a row at the same time one is told ok, and *)
(* what callers see is the lifecycle of AccessLifecycle, for any number of *)
(* concurrent calls, teachers, sections and subjects; and what the checks  *)
(* keep out while handlers do not overlap.                                 *)
(*                                                                         *)
(* A status only moves on (Ahead stays true), so a handler that has seen   *)
(* its row in the status it needs, and finds it elsewhere at the update,   *)
(* finds it elsewhere when it reads the row again.                         *)
(*                                                                         *)
(* The last parts are about Homework: over tables that change at will, and *)
(* over those that the handlers of RequestAccess write (HomeworkAccess).   *)
(***************************************************************************)
EXTENDS HomeworkAccess, TLAPS

\* The statuses a row can have once a call that needs Expected(op) is late.
Past(op) == IF op = "revoke" THEN {"REVOKED"} ELSE Status \ {"PENDING"}

Ahead(i, op) == access[i].status \in Past(op)

\* What handler r relies on at statement p.
FitsAt(r, p) ==
    /\ p = "idle" => call[r] = NoCall
    /\ p \notin Done \cup {"idle"} => call[r] \in Calls
    /\ p \in {"requester", "scope", "assigned", "granted", "pending"} => call[r].op \in Creates
    /\ p = "insert" => call[r].op \in Creates \cup {"createAssignment"}
    /\ p \in {"find", "update", "reread"} => call[r].op \in Decisions
    /\ p = "classTeacher" => call[r].op = "createAssignment" /\ call[r].subject = None
    /\ p = "subject" => /\ call[r].op \in {"createAssignment", "deleteSubject"}
                        /\ call[r].subject # None
    /\ p \in {"assignment", "deleteAssignment"} => call[r].op = "deleteAssignment"
    /\ p \in {"countAssignments", "countAccess", "deleteSubject"} => call[r].op = "deleteSubject"
    /\ p # "ok" => access[r] = NoRow /\ \A a \in assignments : a.id # r
    /\ access[r] # NoRow => call[r].op \in Creates
    /\ count[r] = 1 => /\ call[r].op \in Decisions /\ p \in {"reread", "ok"}
                       /\ Ahead(call[r].row, call[r].op)
    /\ p = "update" => access[call[r].row].status \in {Expected(call[r].op)} \cup Past(call[r].op)
    /\ p = "reread" /\ count[r] = 0 => Ahead(call[r].row, call[r].op)
    /\ p = "ok" /\ call[r].op \in Decisions => count[r] = 1

Fits(r) == FitsAt(r, pc[r])

\* Nobody else has moved the row out of the status that r has moved it out of.
Sole ==
    \A r, q \in Request :
        /\ count[r] = 1 /\ count[q] = 1 /\ call[r].row = call[q].row
        /\ Expected(call[r].op) = Expected(call[q].op)
        => r = q

Inv == TypeOK /\ Sole /\ \A r \in Request : Fits(r)

-----------------------------------------------------------------------------
(* What every step has in common *)

LEMMA CallFacts ==
    ASSUME NEW c \in Calls
    PROVE  /\ c.op \in Creates \cup Decisions \cup Others
           /\ c.op \in Creates => /\ c.teacher \in Teacher /\ c.type \in AccessType
                                  /\ c.section \in Section /\ c.subject \in Subject
           /\ c.op \in Decisions => c.row \in Request
           /\ c.op = "createAssignment" => /\ c.teacher \in Teacher /\ c.section \in Section
                                           /\ c.subject \in Subject \cup {None}
           /\ c.op = "deleteSubject" => c.subject \in Subject
BY DEF Calls, Body, Creates, Decisions, Others

LEMMA NoRowIsNoRow == NoRow \notin AccessRow /\ NoRow.status = "NONE"
BY DEF NoRow, AccessRow, Status

LEMMA RowFacts ==
    ASSUME TypeOK, NEW i \in Request
    PROVE  /\ access[i] # NoRow => access[i] \in AccessRow /\ access[i].status \in Status
           /\ access[i] = NoRow => access[i].status \notin Status
BY NoRowIsNoRow DEF TypeOK, AccessRow, Status

\* Statuses move on, rows are inserted by the call of their name.
Grows(r) ==
    /\ \A i \in Request : \A op \in Decisions :
         /\ Ahead(i, op) => Ahead(i, op)'
         /\ access[i].status = Expected(op) =>
              access'[i].status \in {Expected(op)} \cup Past(op)
    /\ \A i \in Request \ {r} : access[i] = NoRow <=> access'[i] = NoRow
    /\ \A a \in assignments' : a.id = r \/ \E b \in assignments : b.id = a.id

\* A step of r leaves the other handlers where they are.
Elsewhere(r) == \A q \in Request \ {r} : pc'[q] = pc[q] /\ call'[q] = call[q] /\ count'[q] = count[q]

LEMMA FitsStable ==
    ASSUME Inv, NEW r \in Request, Grows(r), Elsewhere(r), NEW q \in Request, q # r
    PROVE  Fits(q)'
<1>1. Fits(q) /\ pc'[q] = pc[q] /\ call'[q] = call[q] /\ count'[q] = count[q]
  BY DEF Inv, Elsewhere
<1>2. access[q] = NoRow <=> access'[q] = NoRow
  BY DEF Grows
<1>3. (\A a \in assignments : a.id # q) => \A a \in assignments' : a.id # q
  BY DEF Grows
<1>4. ASSUME call[q].op \in Decisions
      PROVE  /\ Ahead(call[q].row, call[q].op) => access'[call[q].row].status \in Past(call[q].op)
             /\ access[call[q].row].status = Expected(call[q].op) =>
                  access'[call[q].row].status \in {Expected(call[q].op)} \cup Past(call[q].op)
  <2>1. call[q] \in Calls
    BY <1>4 DEF Inv, TypeOK, NoCall, Decisions
  <2>2. call[q].row \in Request
    BY <1>4, <2>1, CallFacts
  <2> QED BY <1>4, <2>2 DEF Grows, Ahead
<1> QED BY <1>1, <1>2, <1>3, <1>4 DEF Fits, FitsAt, Ahead, Done

LEMMA Lifts ==
    ASSUME Inv, TypeOK', NEW r \in Request, Grows(r), Elsewhere(r), Fits(r)', Sole'
    PROVE  Inv'
BY FitsStable DEF Inv

\* Steps that leave the tables, and move r on to s.
LEMMA QuietKeeps ==
    ASSUME Inv, NEW r \in Request, NEW s \in Step, Only(r, s), FitsAt(r, s)
    PROVE  Inv'
<1>1. /\ pc' = [pc EXCEPT ![r] = s]
      /\ UNCHANGED <<access, assignments, subjects, active, call, count>>
  BY DEF Only, Goto
<1>2. TypeOK' /\ Sole'
  BY <1>1 DEF Inv, TypeOK, Sole, AccessRow, AssignmentRow
<1>3. Grows(r) /\ Elsewhere(r)
  BY <1>1 DEF Grows, Elsewhere, Ahead, Inv, TypeOK
<1>4. pc'[r] = s
  BY <1>1 DEF Inv, TypeOK
<1>5. Fits(r)'
  BY <1>1, <1>4 DEF Fits, FitsAt, Ahead
<1> QED BY <1>2, <1>3, <1>5, Lifts

LEMMA FitsNow ==
    ASSUME Inv, NEW r \in Request
    PROVE  FitsAt(r, pc[r]) /\ pc[r] \in Step /\ call[r] \in Calls \cup {NoCall} /\ count[r] \in {0, 1}
BY DEF Inv, Fits, TypeOK

\* A refused call has changed nothing.
LEMMA RefusalKeeps ==
    ASSUME Inv, NEW r \in Request, pc[r] \notin {"idle", "ok"}, pc[r] = "reread" => count[r] # 1,
           Only(r, "refused")
    PROVE  Inv'
<1>1. count[r] # 1
  BY FitsNow DEF FitsAt
<1>2. FitsAt(r, "refused")
  BY <1>1, FitsNow DEF FitsAt, Done
<1> QED BY <1>2, QuietKeeps DEF Step, Done

-----------------------------------------------------------------------------
(* One lemma per action, or for those that only check                       *)

LEMMA BeginKeeps ==
    ASSUME Inv, NEW r \in Request, NEW c \in Calls, Begin(r, c)
    PROVE  Inv'
<1>1. /\ pc[r] = "idle" /\ UNCHANGED <<access, assignments, subjects, active, count>>
      /\ call' = [call EXCEPT ![r] = c] /\ pc' = [pc EXCEPT ![r] = FirstStep(c)]
  BY DEF Begin
<1>2. FirstStep(c) \in Step /\ FirstStep(c) \notin {"idle", "ok", "refused", "update", "reread"}
  BY CallFacts DEF FirstStep, Step, Done, Creates, Decisions, Others
<1>3. TypeOK'
  BY <1>1, <1>2 DEF Inv, TypeOK, AccessRow, AssignmentRow
<1>4. count[r] = 0
  BY <1>1, FitsNow DEF FitsAt
<1>5. Sole'
  BY <1>1, <1>4 DEF Sole, Inv, TypeOK
<1>6. Grows(r) /\ Elsewhere(r)
  BY <1>1 DEF Grows, Elsewhere, Ahead, Inv, TypeOK
<1>7. pc'[r] = FirstStep(c) /\ call'[r] = c
  BY <1>1 DEF Inv, TypeOK
<1>8. FitsAt(r, "idle")
  BY <1>1, FitsNow
<1>9. /\ FirstStep(c) \in {"requester", "scope", "assigned", "granted", "pending"} => c.op \in Creates
      /\ FirstStep(c) # "insert"
      /\ FirstStep(c) = "find" => c.op \in Decisions
      /\ FirstStep(c) = "classTeacher" => c.op = "createAssignment" /\ c.subject = None
      /\ FirstStep(c) = "subject" => /\ c.op \in {"createAssignment", "deleteSubject"}
                                     /\ c.subject # None
      /\ FirstStep(c) \in {"assignment", "deleteAssignment"} => c.op = "deleteAssignment"
      /\ FirstStep(c) \notin {"countAssignments", "countAccess", "deleteSubject"}
  <2>1. c.op = "deleteSubject" => c.subject # None
    BY CallFacts, RequestAccessAssumption
  <2> QED BY <2>1, CallFacts DEF FirstStep, Creates, Decisions, Others
<1>10. Fits(r)'
  BY <1>1, <1>2, <1>4, <1>7, <1>8, <1>9 DEF Fits, FitsAt, Done
<1> QED BY <1>3, <1>5, <1>6, <1>10, Lifts

\* The checks before an insertion or a deletion.
LEMMA ChecksKeep ==
    ASSUME Inv, NEW r \in Request,
           \/ AssertRequesterIsActiveTeacher(r) \/ AssertValidScope(r)
           \/ AssertNotAssigned(r) \/ AssertNotGranted(r) \/ AssertNoPendingRequest(r)
           \/ AssertNoClassTeacher(r) \/ AssertSubjectExists(r) \/ FindAssignment(r)
           \/ CountAssignments(r) \/ CountActiveAccess(r)
    PROVE  Inv'
<1>1. /\ pc[r] \in {"requester", "scope", "assigned", "granted", "pending", "classTeacher",
                    "subject", "assignment", "countAssignments", "countAccess"}
      /\ FitsAt(r, pc[r])
  BY FitsNow DEF AssertRequesterIsActiveTeacher, AssertValidScope, AssertNotAssigned,
     AssertNotGranted, AssertNoPendingRequest, AssertNoClassTeacher, AssertSubjectExists,
     FindAssignment, CountAssignments, CountActiveAccess
<1>2. CASE Only(r, "refused")
  BY <1>1, <1>2, RefusalKeeps
<1>3. CASE \/ pc[r] = "requester" /\ Only(r, "scope")
           \/ pc[r] = "scope" /\ Only(r, "assigned")
           \/ pc[r] = "assigned" /\ Only(r, "granted")
           \/ pc[r] = "granted" /\ Only(r, "pending")
           \/ pc[r] = "pending" /\ Only(r, "insert")
  <2>1. \A s \in {"scope", "assigned", "granted", "pending", "insert"} :
          pc[r] \in {"requester", "scope", "assigned", "granted", "pending"} => FitsAt(r, s)
    BY <1>1 DEF FitsAt, Done
  <2> QED BY <1>3, <2>1, QuietKeeps DEF Step
<1>4. CASE \/ pc[r] = "classTeacher" /\ Only(r, "insert")
           \/ pc[r] = "subject" /\ call[r].op # "deleteSubject" /\ Only(r, "insert")
  <2>1. FitsAt(r, "insert")
    BY <1>1, <1>4 DEF FitsAt, Done
  <2> QED BY <1>4, <2>1, QuietKeeps DEF Step
<1>5. CASE pc[r] = "assignment" /\ Only(r, "deleteAssignment")
  <2>1. FitsAt(r, "deleteAssignment")
    BY <1>1, <1>5 DEF FitsAt, Done
  <2> QED BY <1>5, <2>1, QuietKeeps DEF Step
<1>6. CASE \/ pc[r] = "subject" /\ call[r].op = "deleteSubject" /\ Only(r, "countAssignments")
           \/ pc[r] = "countAssignments" /\ Only(r, "countAccess")
           \/ pc[r] = "countAccess" /\ Only(r, "deleteSubject")
  <2>1. \A s \in {"countAssignments", "countAccess", "deleteSubject"} : FitsAt(r, s)
    BY <1>1, <1>6 DEF FitsAt, Done
  <2> QED BY <1>6, <2>1, QuietKeeps DEF Step
<1> QED BY <1>2, <1>3, <1>4, <1>5, <1>6 DEF Check, AssertRequesterIsActiveTeacher, AssertValidScope,
     AssertNotAssigned, AssertNotGranted, AssertNoPendingRequest, AssertNoClassTeacher,
     AssertSubjectExists, FindAssignment, CountAssignments, CountActiveAccess

LEMMA InsertAccessRequestKeeps ==
    ASSUME Inv, NEW r \in Request, InsertAccessRequest(r)
    PROVE  Inv'
<1> DEFINE c == call[r]
           row == [status |-> IF c.op = "grant" THEN "APPROVED" ELSE "PENDING",
                   requester |-> c.teacher, type |-> c.type,
                   section |-> c.section, subject |-> c.subject]
<1>1. /\ pc[r] = "insert" /\ FitsAt(r, "insert") /\ c \in Calls /\ c.op \in Creates
  BY FitsNow DEF InsertAccessRequest, FitsAt, Done
<1>2. CASE Only(r, "refused")
  BY <1>1, <1>2, RefusalKeeps
<1>3. CASE c.subject \in subjects /\ access' = [access EXCEPT ![r] = row] /\ Goto(r, "ok") /\ UNCHANGED count
  <2>1. /\ pc' = [pc EXCEPT ![r] = "ok"]
        /\ UNCHANGED <<assignments, subjects, active, call, count>>
    BY <1>3 DEF Goto
  <2>2. row \in AccessRow
    BY <1>1, <1>3, CallFacts DEF AccessRow, Status
  <2> HIDE DEF row
  <2>3. TypeOK'
    <3>1. access' \in [Request -> AccessRow \cup {NoRow}] /\ AccessRow' = AccessRow
          /\ AssignmentRow' = AssignmentRow
      BY <1>3, <2>1, <2>2 DEF Inv, TypeOK, AccessRow, AssignmentRow
    <3> QED BY <2>1, <3>1 DEF Inv, TypeOK, Step, Done
  <2>4. access'[r] = row /\ row # NoRow /\ access[r] = NoRow
    BY <1>1, <1>3, <2>2, NoRowIsNoRow DEF Inv, TypeOK, FitsAt
  <2>5. Grows(r) /\ Elsewhere(r)
    <3>1. \A i \in Request : i # r => access'[i] = access[i]
      BY <1>3
    <3>2. access[r].status \notin Status
      BY <2>4, NoRowIsNoRow DEF Status
    <3>3. \A op \in Decisions : Past(op) \subseteq Status /\ Expected(op) \in Status
      BY DEF Past, Expected, Status
    <3> QED BY <2>1, <3>1, <3>2, <3>3 DEF Grows, Ahead, Elsewhere, Inv, TypeOK
  <2>6. Fits(r)'
    <3>1. pc'[r] = "ok" /\ call[r].op \notin Decisions /\ count[r] # 1
      BY <1>1, <2>1 DEF Creates, Decisions, Inv, TypeOK, FitsAt
    <3> QED BY <1>1, <2>1, <3>1 DEF Fits, FitsAt, Done
  <2>7. Sole'
    BY <2>1 DEF Sole, Inv
  <2> QED BY <2>3, <2>5, <2>6, <2>7, Lifts
<1> QED BY <1>2, <1>3 DEF InsertAccessRequest

LEMMA DecisionFacts ==
    ASSUME NEW op \in Decisions
    PROVE  /\ Expected(op) \in {"PENDING", "APPROVED"} /\ Target(op) \in Status
           /\ Target(op) \in Past(op) /\ Expected(op) \notin Past(op) /\ Past(op) \subseteq Status
           /\ Expected(op) \in Status /\ "NONE" \notin Past(op)
           /\ \A o \in Decisions : /\ Expected(op) \in Past(o) => Target(op) \in Past(o)
                                   /\ Expected(op) = Expected(o) => Target(op) \in Past(o)
BY DEF Decisions, Expected, Target, Past, Status

LEMMA FindAccessRequestKeeps ==
    ASSUME Inv, NEW r \in Request, FindAccessRequest(r)
    PROVE  Inv'
<1>1. pc[r] = "find" /\ FitsAt(r, "find")
  BY FitsNow DEF FindAccessRequest
<1>2. CASE Only(r, "refused")
  BY <1>1, <1>2, RefusalKeeps
<1>3. CASE access[call[r].row].status = Expected(call[r].op) /\ Only(r, "update")
  <2>1. FitsAt(r, "update")
    BY <1>1, <1>3 DEF FitsAt, Done
  <2> QED BY <1>3, <2>1, QuietKeeps DEF Step
<1> QED BY <1>2, <1>3 DEF FindAccessRequest, Check

LEMMA UpdateStatusKeeps ==
    ASSUME Inv, NEW r \in Request, UpdateStatus(r)
    PROVE  Inv'
<1> DEFINE i == call[r].row
           op == call[r].op
<1>1. /\ pc[r] = "update" /\ FitsAt(r, "update") /\ op \in Decisions /\ i \in Request
      /\ count[r] = 0
  BY FitsNow, CallFacts DEF UpdateStatus, FitsAt, Done
<1>2. /\ pc' = [pc EXCEPT ![r] = "reread"]
      /\ UNCHANGED <<assignments, subjects, active, call>>
  BY DEF UpdateStatus, Goto
<1>3. CASE access[i].status # Expected(op) /\ UNCHANGED <<access, count>>
  <2>1. FitsAt(r, "reread")
    BY <1>1, <1>3 DEF FitsAt, Done, Ahead
  <2>2. Only(r, "reread")
    BY <1>3 DEF UpdateStatus, Only
  <2> QED BY <2>1, <2>2, QuietKeeps DEF Step
<1>4. CASE /\ access[i].status = Expected(op)
           /\ access' = [access EXCEPT ![i].status = Target(op)]
           /\ count' = [count EXCEPT ![r] = 1]
  <2> DEFINE row == [access[i] EXCEPT !.status = Target(op)]
  <2>1. access[i] \in AccessRow
    BY <1>1, <1>4, DecisionFacts, RowFacts DEF Inv
  <2>2. row \in AccessRow /\ row.status = Target(op)
    BY <1>1, <2>1, DecisionFacts DEF AccessRow
  <2>3. access' = [access EXCEPT ![i] = row]
    BY <1>4
  <2> HIDE DEF row
  <2>4. TypeOK'
    <3>1. access' \in [Request -> AccessRow \cup {NoRow}] /\ AccessRow' = AccessRow
          /\ AssignmentRow' = AssignmentRow
      BY <1>2, <2>2, <2>3 DEF Inv, TypeOK, AccessRow, AssignmentRow
    <3>2. count' \in [Request -> {0, 1}] /\ pc' \in [Request -> Step]
      BY <1>2, <1>4 DEF Inv, TypeOK, Step
    <3> QED BY <1>2, <3>1, <3>2 DEF Inv, TypeOK
  <2>5. /\ access'[i].status = Target(op) /\ access'[i] # NoRow /\ access[i] # NoRow
        /\ \A j \in Request : j # i => access'[j] = access[j]
    BY <1>1, <2>1, <2>2, <2>3, NoRowIsNoRow DEF Inv, TypeOK
  <2>6. Grows(r)
    <3>1. ASSUME NEW j \in Request, NEW o \in Decisions
          PROVE  /\ Ahead(j, o) => Ahead(j, o)'
                 /\ access[j].status = Expected(o) =>
                      access'[j].status \in {Expected(o)} \cup Past(o)
      BY <1>1, <1>4, <2>5, DecisionFacts DEF Ahead
    <3> QED BY <1>2, <2>5, <3>1 DEF Grows
  <2>7. Elsewhere(r)
    BY <1>2, <1>4 DEF Elsewhere, Inv, TypeOK
  <2>8. pc'[r] = "reread" /\ count'[r] = 1 /\ call'[r] = call[r]
    BY <1>2, <1>4 DEF Inv, TypeOK
  <2>9. Fits(r)'
    <3>1. access[r] = NoRow => access'[r] = NoRow
      BY <2>5
    <3>2. access'[i].status \in Past(op)
      BY <1>1, <2>5, DecisionFacts
    <3> QED BY <1>1, <1>2, <2>8, <3>1, <3>2 DEF Fits, FitsAt, Done, Ahead
  <2>10. Sole'
    <3>1. ASSUME NEW q \in Request, q # r, count[q] = 1, call[q].row = i,
                 Expected(call[q].op) = Expected(op)
          PROVE  FALSE
      <4>1. call[q].op \in Decisions /\ Ahead(i, call[q].op)
        BY <3>1, FitsNow DEF FitsAt
      <4>2. Expected(op) \notin Past(call[q].op)
        BY <3>1, <4>1, DecisionFacts
      <4> QED BY <1>4, <4>1, <4>2 DEF Ahead
    <3>2. \A q \in Request : q # r => count'[q] = count[q]
      BY <1>4
    <3> QED BY <1>2, <3>1, <3>2 DEF Sole, Inv
  <2> QED BY <2>4, <2>6, <2>7, <2>9, <2>10, Lifts
<1> QED BY <1>3, <1>4 DEF UpdateStatus

LEMMA RereadKeeps ==
    ASSUME Inv, NEW r \in Request, Reread(r)
    PROVE  Inv' /\ (count[r] # 1 => Only(r, "refused"))
<1> DEFINE i == call[r].row
           op == call[r].op
<1>1. /\ pc[r] = "reread" /\ FitsAt(r, "reread") /\ op \in Decisions /\ count[r] \in {0, 1}
  BY FitsNow DEF Reread, FitsAt
<1>2. CASE count[r] = 1
  <2>1. FitsAt(r, "ok") /\ Only(r, "ok")
    BY <1>1, <1>2 DEF FitsAt, Done, Reread, Check
  <2> QED BY <1>2, <2>1, QuietKeeps DEF Step, Done
<1>3. CASE count[r] # 1
  <2>1. access[i].status # Expected(op)
    BY <1>1, <1>3, DecisionFacts DEF FitsAt, Ahead
  <2>2. Only(r, "refused")
    BY <1>3, <2>1 DEF Reread, Check
  <2> QED BY <1>1, <1>3, <2>2, RefusalKeeps
<1> QED BY <1>2, <1>3

\* The other writes: they leave access rows their status, and answer ok.
LEMMA WriteKeeps ==
    ASSUME Inv, NEW r \in Request, TypeOK',
           pc[r] \in {"insert", "deleteAssignment", "deleteSubject"}, call[r].op \in Others,
           pc' = [pc EXCEPT ![r] = "ok"], UNCHANGED <<call, count>>,
           \A i \in Request : /\ access'[i].status = access[i].status
                              /\ access[i] = NoRow <=> access'[i] = NoRow,
           \A a \in assignments' : a.id = r \/ \E b \in assignments : b.id = a.id
    PROVE  Inv'
<1>1. FitsAt(r, pc[r]) /\ access[r] = NoRow
  BY FitsNow DEF FitsAt
<1>2. Grows(r)
  BY DEF Grows, Ahead
<1>3. Elsewhere(r)
  BY DEF Elsewhere, Inv, TypeOK
<1>4. Fits(r)'
  <2>1. pc'[r] = "ok" /\ call[r].op \notin Decisions
    BY DEF Inv, TypeOK, Decisions, Others
  <2> QED BY <1>1, <2>1 DEF Fits, FitsAt, Done
<1>5. Sole'
  BY DEF Sole, Inv
<1> QED BY <1>2, <1>3, <1>4, <1>5, Lifts

LEMMA InsertAssignmentKeeps ==
    ASSUME Inv, NEW r \in Request, InsertAssignment(r)
    PROVE  Inv'
<1> DEFINE c == call[r]
           row == [id |-> r, teacher |-> c.teacher, section |-> c.section, subject |-> c.subject,
                   role |-> IF c.subject = None THEN "CLASS_TEACHER" ELSE "SUBJECT_TEACHER"]
<1>1. pc[r] = "insert" /\ c \in Calls /\ c.op = "createAssignment" /\ c.op \in Others
  BY FitsNow DEF InsertAssignment, FitsAt, Done, Others
<1>2. CASE Only(r, "refused")
  BY <1>1, <1>2, RefusalKeeps
<1>3. CASE /\ c.subject # None => c.subject \in subjects
           /\ assignments' = assignments \cup {row} /\ pc' = [pc EXCEPT ![r] = "ok"]
           /\ UNCHANGED <<access, subjects, active, call, count>>
  <2>1. row \in AssignmentRow /\ row.id = r
    BY <1>1, <1>3, CallFacts DEF AssignmentRow
  <2>2. TypeOK'
    <3>1. AccessRow' = AccessRow /\ AssignmentRow' = AssignmentRow /\ pc' \in [Request -> Step]
      BY <1>3 DEF AccessRow, AssignmentRow, Inv, TypeOK, Step, Done
    <3> HIDE DEF row
    <3> QED BY <1>3, <2>1, <3>1 DEF Inv, TypeOK
  <2> QED BY <1>1, <1>3, <2>1, <2>2, WriteKeeps
<1> QED BY <1>2, <1>3 DEF InsertAssignment

LEMMA DeleteAssignmentKeeps ==
    ASSUME Inv, NEW r \in Request, DeleteAssignment(r)
    PROVE  Inv'
<1>1. pc[r] = "deleteAssignment" /\ call[r].op \in Others
  BY FitsNow DEF DeleteAssignment, FitsAt, Others
<1>2. CASE Only(r, "refused")
  BY <1>1, <1>2, RefusalKeeps
<1>3. CASE /\ assignments' = {a \in assignments : a.id # call[r].row}
           /\ pc' = [pc EXCEPT ![r] = "ok"]
           /\ UNCHANGED <<access, subjects, active, call, count>>
  <2>1. TypeOK'
    <3>1. AccessRow' = AccessRow /\ AssignmentRow' = AssignmentRow /\ pc' \in [Request -> Step]
      BY <1>3 DEF AccessRow, AssignmentRow, Inv, TypeOK, Step, Done
    <3> QED BY <1>3, <3>1 DEF Inv, TypeOK
  <2> QED BY <1>1, <1>3, <2>1, WriteKeeps
<1> QED BY <1>2, <1>3 DEF DeleteAssignment

\* A row whose subject is gone.
Orphan(row) == [row EXCEPT !.subject = None]

LEMMA OrphanFacts ==
    ASSUME NEW m
    PROVE  /\ \A row \in AccessRow : /\ Orphan(row).status = row.status
                                     /\ Orphan(row) \in [status : Status, requester : Teacher,
                                          type : AccessType, section : Section, subject : {None}]
           /\ \A a \in AssignmentRow : /\ Orphan(a).id = a.id /\ Orphan(a).role = a.role
                                       /\ Orphan(a).section = a.section
                                       /\ Orphan(a).subject = None
                                       /\ Orphan(a) \in [id : Request, teacher : Teacher,
                                            section : Section, subject : {None},
                                            role : {"CLASS_TEACHER", "SUBJECT_TEACHER"}]
BY DEF Orphan, AccessRow, AssignmentRow

LEMMA DeleteSubjectFacts ==
    ASSUME Inv, NEW r \in Request, DeleteSubject(r), ~Only(r, "refused")
    PROVE  /\ pc[r] = "deleteSubject" /\ pc' = [pc EXCEPT ![r] = "ok"]
           /\ call[r].subject \in subjects
           /\ subjects' = subjects \ {call[r].subject}
           /\ access' = [i \in Request |-> IF access[i].subject = call[r].subject
                                           THEN Orphan(access[i]) ELSE access[i]]
           /\ assignments' = {IF a.subject = call[r].subject THEN Orphan(a) ELSE a : a \in assignments}
           /\ UNCHANGED <<active, call, count, alone>>
BY DEF DeleteSubject, Orphan

LEMMA DeleteSubjectKeeps ==
    ASSUME Inv, NEW r \in Request, DeleteSubject(r)
    PROVE  Inv'
<1>1. pc[r] = "deleteSubject" /\ call[r].op \in Others
  BY FitsNow DEF DeleteSubject, FitsAt, Others
<1>2. CASE Only(r, "refused")
  BY <1>1, <1>2, RefusalKeeps
<1>3. CASE ~Only(r, "refused")
  <2> DEFINE m == call[r].subject
  <2>1. /\ pc' = [pc EXCEPT ![r] = "ok"]
        /\ m \in subjects /\ subjects' = subjects \ {m}
        /\ access' = [i \in Request |-> IF access[i].subject = m THEN Orphan(access[i]) ELSE access[i]]
        /\ assignments' = {IF a.subject = m THEN Orphan(a) ELSE a : a \in assignments}
        /\ UNCHANGED <<active, call, count>>
    BY <1>3, DeleteSubjectFacts
  <2>2. m # None
    BY <2>1, RequestAccessAssumption DEF Inv, TypeOK
  <2>3. ASSUME NEW i \in Request
        PROVE  /\ access'[i] \in AccessRow' \cup {NoRow}
               /\ access'[i].status = access[i].status
               /\ access[i] = NoRow <=> access'[i] = NoRow
    <3>1. CASE access[i] = NoRow
      BY <2>1, <2>2, <3>1 DEF NoRow
    <3>2. CASE access[i] \in AccessRow /\ access[i].subject = m
      <4>1. access'[i] = Orphan(access[i])
        BY <2>1, <3>2
      <4>2. access'[i].status = access[i].status /\ access'[i] \in AccessRow'
        BY <3>2, <4>1, OrphanFacts DEF AccessRow
      <4>3. access'[i].status \in Status
        BY <3>2, <4>2 DEF AccessRow
      <4> QED BY <3>2, <4>2, <4>3, NoRowIsNoRow DEF Status
    <3>3. CASE access[i] \in AccessRow /\ access[i].subject # m
      BY <2>1, <3>3 DEF AccessRow
    <3> QED BY <3>1, <3>2, <3>3 DEF Inv, TypeOK
  <2>4. ASSUME NEW a \in assignments'
        PROVE  a \in AssignmentRow' /\ \E b \in assignments : b.id = a.id
    <3>1. PICK b \in assignments : a = IF b.subject = m THEN Orphan(b) ELSE b
      BY <2>1
    <3>2. b \in AssignmentRow
      BY DEF Inv, TypeOK
    <3>3. CASE b.subject = m
      BY <3>1, <3>2, <3>3, OrphanFacts DEF AssignmentRow
    <3>4. CASE b.subject # m
      BY <2>1, <3>1, <3>2, <3>4 DEF AssignmentRow
    <3> QED BY <3>3, <3>4
  <2>5. TypeOK'
    <3>1. access' \in [Request -> AccessRow' \cup {NoRow}]
      BY <2>1, <2>3
    <3>2. pc' \in [Request -> Step]
      BY <2>1 DEF Inv, TypeOK, Step, Done
    <3> QED BY <2>1, <2>4, <3>1, <3>2 DEF Inv, TypeOK
  <2> QED BY <1>1, <2>1, <2>3, <2>4, <2>5, WriteKeeps
<1> QED BY <1>2, <1>3

LEMMA SetActiveKeeps ==
    ASSUME Inv, NEW t \in Teacher, SetActive(t)
    PROVE  Inv'
<1>1. UNCHANGED <<access, assignments, subjects, pc, call, count>> /\ active' \subseteq Teacher
  BY DEF SetActive, Inv, TypeOK
<1> QED BY <1>1 DEF Inv, TypeOK, AccessRow, AssignmentRow, Sole, Fits, FitsAt, Ahead

LEMMA ProceedKeeps ==
    ASSUME Inv, NEW r \in Request, Proceed(r)
    PROVE  Inv'
BY ChecksKeep, InsertAccessRequestKeeps, FindAccessRequestKeeps, UpdateStatusKeeps, RereadKeeps,
   InsertAssignmentKeeps, DeleteAssignmentKeeps, DeleteSubjectKeeps
   DEF Proceed

LEMMA NextKeeps ==
    ASSUME Inv, [Next]_vars
    PROVE  Inv'
<1>1. CASE UNCHANGED vars
  BY <1>1 DEF vars, Inv, TypeOK, AccessRow, AssignmentRow, Sole, Fits, FitsAt, Ahead
<1> QED BY <1>1, ProceedKeeps, BeginKeeps, SetActiveKeeps DEF Next

LEMMA InitHolds == Init => Inv
<1> SUFFICES ASSUME Init PROVE Inv
  OBVIOUS
<1>1. TypeOK
  BY DEF Init, TypeOK, Step, Done
<1>2. ASSUME NEW r \in Request
      PROVE  Fits(r)
  BY DEF Init, Fits, FitsAt, Done, NoCall, Decisions
<1> QED BY <1>1, <1>2 DEF Inv, Sole, Init

LEMMA Invariance == Spec => []Inv
BY InitHolds, NextKeeps, PTL DEF Spec

\* Rows of access and assignments, and what handlers hold, are well typed and
\* name subjects that exist, for any number of calls.
THEOREM AccessTypeCorrect == Spec => []TypeOK
BY Invariance, PTL DEF Inv

\* However many reviewers, teachers and admins decide on a row at once, one of
\* those who need it in the same status is told ok.
THEOREM OneDecisionWins == Spec => []OneWinnerPerStatus
<1>1. Inv => OneWinnerPerStatus
  <2> SUFFICES ASSUME Inv, NEW r \in Request, NEW q \in Request, Decided(r), Decided(q),
                      call[r].row = call[q].row, Expected(call[r].op) = Expected(call[q].op)
               PROVE  r = q
    BY DEF OneWinnerPerStatus
  <2>1. count[r] = 1 /\ count[q] = 1
    BY FitsNow DEF Decided, FitsAt
  <2> QED BY <2>1 DEF Inv, Sole
<1> QED BY <1>1, Invariance, PTL

-----------------------------------------------------------------------------
(* The lifecycle callers see                                                *)

Statuses == [i \in Request |-> access[i].status]

AskedOf(c) == IF c.op \in Decisions THEN [op |-> c.op, row |-> c.row] ELSE None

OutcomeOf(p, n) == CASE p = "ok" \/ (p = "reread" /\ n = 1) -> "won"
                     [] p = "refused" -> "lost"
                     [] OTHER -> "open"

Asked == [r \in Request |-> AskedOf(call[r])]

Outcome == [r \in Request |-> OutcomeOf(pc[r], count[r])]

LEMMA Mapping ==
    /\ A!rows = <<Statuses, Asked, Outcome>>
    /\ A!rows' = <<Statuses', Asked', Outcome'>>
BY DEF A!rows, Statuses, Asked, Outcome, AskedOf, OutcomeOf

LEMMA MappedAsk ==
    ASSUME NEW r \in Request, NEW op \in Decisions, NEW i \in Request,
           Asked[r] = None, Outcome[r] = "open",
           Asked' = [Asked EXCEPT ![r] = [op |-> op, row |-> i]],
           Statuses' = Statuses, Outcome' = Outcome
    PROVE  A!Next
<1>1. A!Ask(r, op, i)
  BY DEF A!Ask, Statuses, Asked, Outcome, AskedOf, OutcomeOf
<1> QED BY <1>1 DEF A!Next, A!Decisions, Decisions

LEMMA MappedCreate ==
    ASSUME NEW r \in Request, NEW s \in {"NONE", "PENDING", "APPROVED"},
           Asked[r] = None, Outcome[r] = "open", Statuses[r] = "NONE",
           Statuses' = [Statuses EXCEPT ![r] = s], Asked' = Asked,
           Outcome' = [Outcome EXCEPT ![r] = "won"]
    PROVE  A!Next
<1>1. A!Create(r)
  BY DEF A!Create, Statuses, Asked, Outcome, AskedOf, OutcomeOf
<1> QED BY <1>1 DEF A!Next

LEMMA MappedDecide ==
    ASSUME NEW r \in Request, NEW c, Asked[r] = c, c # None, Outcome[r] = "open",
           Statuses[c.row] = A!Needs(c.op),
           Statuses' = [Statuses EXCEPT ![c.row] = A!Becomes(c.op)], Asked' = Asked,
           Outcome' = [Outcome EXCEPT ![r] = "won"]
    PROVE  A!Next
<1>1. A!Decide(r)
  BY DEF A!Decide, Statuses, Asked, Outcome, AskedOf, OutcomeOf
<1> QED BY <1>1 DEF A!Next

LEMMA MappedRefuse ==
    ASSUME NEW r \in Request, Outcome[r] = "open",
           Asked[r] # None /\ Asked[r].op # "cancel" =>
               Statuses[Asked[r].row] # A!Needs(Asked[r].op),
           Statuses' = Statuses, Asked' = Asked,
           Outcome' = [Outcome EXCEPT ![r] = "lost"]
    PROVE  A!Next
<1>1. A!Refuse(r)
  BY DEF A!Refuse, Statuses, Asked, Outcome, AskedOf, OutcomeOf
<1> QED BY <1>1 DEF A!Next

LEMMA OutcomeMoves ==
    ASSUME Inv, NEW r \in Request, NEW s, pc' = [pc EXCEPT ![r] = s],
           \A q \in Request \ {r} : count'[q] = count[q]
    PROVE  Outcome' = [Outcome EXCEPT ![r] = OutcomeOf(s, count'[r])]
BY DEF Outcome, OutcomeOf, Inv, TypeOK

\* r moves on without being answered, and leaves the tables.
LEMMA QuietSim ==
    ASSUME Inv, NEW r \in Request, NEW s, Only(r, s), s \notin Done, s # "reread",
           pc[r] \notin Done, pc[r] # "reread"
    PROVE  UNCHANGED A!rows
<1>1. pc' = [pc EXCEPT ![r] = s] /\ UNCHANGED <<access, call, count>>
  BY DEF Only, Goto
<1>2. Outcome' = [Outcome EXCEPT ![r] = OutcomeOf(s, count[r])]
  BY <1>1, OutcomeMoves
<1>3. Outcome[r] = "open" /\ OutcomeOf(s, count[r]) = "open"
  BY DEF Outcome, OutcomeOf, Done
<1>4. Outcome' = Outcome
  BY <1>2, <1>3 DEF Outcome
<1> QED BY <1>1, <1>4, Mapping DEF Statuses, Asked

LEMMA RefusalSim ==
    ASSUME Inv, NEW r \in Request, Only(r, "refused"), pc[r] \notin Done,
           pc[r] = "reread" => count[r] # 1,
           call[r].op \in Decisions /\ call[r].op # "cancel" =>
               access[call[r].row].status # Expected(call[r].op)
    PROVE  A!Next
<1>1. pc' = [pc EXCEPT ![r] = "refused"] /\ UNCHANGED <<access, call, count>>
  BY DEF Only, Goto
<1>2. Outcome' = [Outcome EXCEPT ![r] = "lost"]
  BY <1>1, OutcomeMoves DEF OutcomeOf
<1>3. Outcome[r] = "open"
  BY DEF Outcome, OutcomeOf, Done
<1>4. ASSUME Asked[r] # None, Asked[r].op # "cancel"
      PROVE  Statuses[Asked[r].row] # A!Needs(Asked[r].op)
  <2>1. call[r].op \in Decisions /\ Asked[r] = [op |-> call[r].op, row |-> call[r].row]
    BY <1>4 DEF Asked, AskedOf
  <2>2. call[r].row \in Request
    BY <2>1, CallFacts DEF Inv, TypeOK, NoCall, Decisions
  <2> QED BY <1>4, <2>1, <2>2 DEF Statuses, A!Needs, Expected
<1> QED BY <1>1, <1>2, <1>3, <1>4, MappedRefuse DEF Statuses, Asked

\* A call that is told ok and asks for no decision.
LEMMA AnswerSim ==
    ASSUME Inv, NEW r \in Request, pc' = [pc EXCEPT ![r] = "ok"], UNCHANGED <<call, count>>,
           pc[r] \notin Done, pc[r] # "reread", call[r].op \notin Decisions,
           NEW s \in {"NONE", "PENDING", "APPROVED"}, Statuses' = [Statuses EXCEPT ![r] = s]
    PROVE  A!Next
<1>1. Outcome' = [Outcome EXCEPT ![r] = "won"]
  BY OutcomeMoves DEF OutcomeOf
<1>2. Outcome[r] = "open" /\ Asked[r] = None /\ Asked' = Asked
  BY DEF Outcome, OutcomeOf, Done, Asked, AskedOf
<1>3. Statuses[r] = "NONE"
  BY FitsNow, NoRowIsNoRow DEF FitsAt, Done, Statuses
<1> QED BY <1>1, <1>2, <1>3, MappedCreate

LEMMA BeginSim ==
    ASSUME Inv, NEW r \in Request, NEW c \in Calls, Begin(r, c)
    PROVE  A!Next \/ UNCHANGED A!rows
<1>1. /\ pc[r] = "idle" /\ UNCHANGED <<access, count>>
      /\ call' = [call EXCEPT ![r] = c] /\ pc' = [pc EXCEPT ![r] = FirstStep(c)]
  BY DEF Begin
<1>2. FirstStep(c) \notin {"ok", "refused", "reread"}
  BY CallFacts DEF FirstStep, Creates, Decisions, Others
<1>3. Outcome' = [Outcome EXCEPT ![r] = "open"]
  BY <1>1, <1>2, OutcomeMoves DEF OutcomeOf
<1>4. Outcome[r] = "open" /\ Outcome' = Outcome
  BY <1>1, <1>3 DEF Outcome, OutcomeOf
<1>5. Asked[r] = None
  BY <1>1, FitsNow DEF FitsAt, Asked, AskedOf, NoCall, Decisions
<1>6. Asked' = [Asked EXCEPT ![r] = AskedOf(c)]
  BY <1>1 DEF Asked, AskedOf, Inv, TypeOK
<1>7. Statuses' = Statuses
  BY <1>1 DEF Statuses
<1>8. CASE c.op \in Decisions
  BY <1>4, <1>5, <1>6, <1>7, <1>8, CallFacts, MappedAsk DEF AskedOf
<1>9. CASE c.op \notin Decisions
  <2>1. Asked' = Asked
    BY <1>5, <1>6, <1>9 DEF Asked, AskedOf
  <2> QED BY <1>4, <1>7, <2>1, Mapping
<1> QED BY <1>8, <1>9

LEMMA ChecksSim ==
    ASSUME Inv, NEW r \in Request,
           \/ AssertRequesterIsActiveTeacher(r) \/ AssertValidScope(r)
           \/ AssertNotAssigned(r) \/ AssertNotGranted(r) \/ AssertNoPendingRequest(r)
           \/ AssertNoClassTeacher(r) \/ AssertSubjectExists(r) \/ FindAssignment(r)
           \/ CountAssignments(r) \/ CountActiveAccess(r)
    PROVE  A!Next \/ UNCHANGED A!rows
<1>1. /\ pc[r] \in {"requester", "scope", "assigned", "granted", "pending", "classTeacher",
                    "subject", "assignment", "countAssignments", "countAccess"}
      /\ FitsAt(r, pc[r])
  BY FitsNow DEF AssertRequesterIsActiveTeacher, AssertValidScope, AssertNotAssigned,
     AssertNotGranted, AssertNoPendingRequest, AssertNoClassTeacher, AssertSubjectExists,
     FindAssignment, CountAssignments, CountActiveAccess
<1>2. call[r].op \notin Decisions
  BY <1>1 DEF FitsAt, Creates, Decisions
<1>3. \/ Only(r, "refused")
      \/ \E s \in {"scope", "assigned", "granted", "pending", "insert", "deleteAssignment",
                   "countAssignments", "countAccess", "deleteSubject"} : Only(r, s)
  BY DEF Check, AssertRequesterIsActiveTeacher, AssertValidScope, AssertNotAssigned,
     AssertNotGranted, AssertNoPendingRequest, AssertNoClassTeacher, AssertSubjectExists,
     FindAssignment, CountAssignments, CountActiveAccess
<1> QED BY <1>1, <1>2, <1>3, RefusalSim, QuietSim DEF Done

LEMMA InsertAccessRequestSim ==
    ASSUME Inv, NEW r \in Request, InsertAccessRequest(r)
    PROVE  A!Next
<1>1. pc[r] = "insert" /\ call[r].op \notin Decisions
  BY DEF InsertAccessRequest, Creates, Decisions
<1>2. CASE Only(r, "refused")
  BY <1>1, <1>2, RefusalSim DEF Done
<1>3. CASE ~Only(r, "refused")
  <2> DEFINE s == IF call[r].op = "grant" THEN "APPROVED" ELSE "PENDING"
  <2>1. pc' = [pc EXCEPT ![r] = "ok"] /\ UNCHANGED <<call, count>>
    BY <1>3 DEF InsertAccessRequest, Goto
  <2>2. \E row : row.status = s /\ access' = [access EXCEPT ![r] = row]
    BY <1>3 DEF InsertAccessRequest
  <2>3. s \in {"NONE", "PENDING", "APPROVED"}
    OBVIOUS
  <2> HIDE DEF s
  <2>4. Statuses' = [Statuses EXCEPT ![r] = s]
    BY <2>2 DEF Statuses, Inv, TypeOK
  <2> QED BY <1>1, <2>1, <2>3, <2>4, AnswerSim DEF Done
<1> QED BY <1>2, <1>3

LEMMA FindAccessRequestSim ==
    ASSUME Inv, NEW r \in Request, FindAccessRequest(r)
    PROVE  A!Next \/ UNCHANGED A!rows
<1>1. pc[r] = "find" /\ call[r].op \in Decisions /\ call[r].row \in Request
  BY FitsNow, CallFacts DEF FindAccessRequest, FitsAt, Done
<1>2. CASE Only(r, "update")
  BY <1>1, <1>2, QuietSim DEF Done
<1>3. CASE /\ Only(r, "refused")
           /\ call[r].op = "cancel" \/ access[call[r].row].status # Expected(call[r].op)
  BY <1>1, <1>3, RefusalSim DEF Done
<1>4. NoRow.status # Expected(call[r].op)
  BY DEF NoRow, Expected
<1> QED BY <1>2, <1>3, <1>4 DEF FindAccessRequest, Check

LEMMA UpdateStatusSim ==
    ASSUME Inv, NEW r \in Request, UpdateStatus(r)
    PROVE  A!Next \/ UNCHANGED A!rows
<1> DEFINE i == call[r].row
           op == call[r].op
<1>1. /\ pc[r] = "update" /\ op \in Decisions /\ i \in Request /\ count[r] = 0
  BY FitsNow, CallFacts DEF UpdateStatus, FitsAt, Done
<1>2. pc' = [pc EXCEPT ![r] = "reread"] /\ call' = call
  BY DEF UpdateStatus, Goto
<1>3. Outcome[r] = "open"
  BY <1>1 DEF Outcome, OutcomeOf
<1>4. CASE UNCHANGED <<access, count>>
  <2>1. Outcome' = [Outcome EXCEPT ![r] = OutcomeOf("reread", count'[r])]
    BY <1>2, <1>4, OutcomeMoves
  <2>2. OutcomeOf("reread", count'[r]) = "open"
    BY <1>1, <1>4 DEF OutcomeOf
  <2>3. Outcome' = Outcome
    BY <1>3, <2>1, <2>2 DEF Outcome
  <2> QED BY <1>2, <1>4, <2>3, Mapping DEF Statuses, Asked
<1>5. CASE /\ access[i].status = Expected(op)
           /\ access' = [access EXCEPT ![i].status = Target(op)]
           /\ count' = [count EXCEPT ![r] = 1]
  <2>1. count'[r] = 1
    BY <1>5 DEF Inv, TypeOK
  <2>2. Outcome' = [Outcome EXCEPT ![r] = "won"]
    <3>0. \A q \in Request \ {r} : count'[q] = count[q]
      BY <1>5
    <3>1. Outcome' = [Outcome EXCEPT ![r] = OutcomeOf("reread", count'[r])]
      BY <1>2, <3>0, OutcomeMoves
    <3>2. OutcomeOf("reread", count'[r]) = "won"
      BY <2>1 DEF OutcomeOf
    <3> QED BY <3>1, <3>2
  <2>3. access[i] \in AccessRow
    BY <1>1, <1>5, DecisionFacts, RowFacts DEF Inv
  <2>4. Statuses' = [Statuses EXCEPT ![i] = Target(op)]
    BY <1>1, <1>5, <2>3 DEF Statuses, Inv, TypeOK, AccessRow
  <2> DEFINE c == [op |-> op, row |-> i]
  <2>5. Asked[r] = c /\ Asked' = Asked
    BY <1>1, <1>2 DEF Asked, AskedOf
  <2>6. c # None
    <3>1. c \in [op : Decisions, row : Request]
      BY <1>1
    <3> QED BY <3>1, RequestAccessAssumption
  <2>7. /\ c.row = i /\ A!Needs(c.op) = Expected(op) /\ A!Becomes(c.op) = Target(op)
        /\ Statuses[i] = access[i].status
    BY <1>1 DEF A!Needs, Expected, A!Becomes, Target, Statuses
  <2> HIDE DEF c
  <2> QED BY <1>3, <1>5, <2>2, <2>4, <2>5, <2>6, <2>7, MappedDecide
<1> QED BY <1>4, <1>5 DEF UpdateStatus

LEMMA RereadSim ==
    ASSUME Inv, NEW r \in Request, Reread(r)
    PROVE  A!Next \/ UNCHANGED A!rows
<1>1. pc[r] = "reread" /\ FitsAt(r, "reread") /\ call[r].op \in Decisions /\ count[r] \in {0, 1}
  BY FitsNow DEF Reread, FitsAt
<1>2. CASE count[r] = 1
  <2>1. pc' = [pc EXCEPT ![r] = "ok"] /\ UNCHANGED <<access, call, count>>
    BY <1>2 DEF Reread, Check, Only, Goto
  <2>2. Outcome' = [Outcome EXCEPT ![r] = "won"] /\ Outcome[r] = "won"
    BY <1>1, <1>2, <2>1, OutcomeMoves DEF Outcome, OutcomeOf
  <2>3. Outcome' = Outcome
    BY <2>2 DEF Outcome
  <2> QED BY <2>1, <2>3, Mapping DEF Statuses, Asked
<1>3. CASE count[r] # 1
  <2>1. access[call[r].row].status # Expected(call[r].op)
    BY <1>1, <1>3, DecisionFacts DEF FitsAt, Ahead
  <2> QED BY <1>1, <1>3, <2>1, RereadKeeps, RefusalSim DEF Done
<1> QED BY <1>2, <1>3

LEMMA OthersSim ==
    ASSUME Inv, NEW r \in Request, InsertAssignment(r) \/ DeleteAssignment(r) \/ DeleteSubject(r)
    PROVE  A!Next
<1>1. /\ pc[r] \in {"insert", "deleteAssignment", "deleteSubject"} /\ FitsAt(r, pc[r])
      /\ call[r].op \notin Decisions
  BY FitsNow DEF InsertAssignment, DeleteAssignment, DeleteSubject, FitsAt, Decisions
<1>2. CASE Only(r, "refused")
  BY <1>1, <1>2, RefusalSim DEF Done
<1>3. CASE ~Only(r, "refused")
  <2>1. pc' = [pc EXCEPT ![r] = "ok"] /\ UNCHANGED <<call, count>>
    BY <1>3 DEF InsertAssignment, DeleteAssignment, DeleteSubject
  <2>2. \A i \in Request : access'[i].status = access[i].status
    <3>1. CASE DeleteSubject(r)
      <4>1. ASSUME NEW i \in Request
            PROVE  Orphan(access[i]).status = access[i].status
        BY DEF Orphan, NoRow, AccessRow, Inv, TypeOK
      <4> QED BY <1>3, <3>1, <4>1, DeleteSubjectFacts
    <3>2. CASE UNCHANGED access
      BY <3>2
    <3> QED BY <1>3, <3>1, <3>2 DEF InsertAssignment, DeleteAssignment
  <2>3. Statuses[r] = "NONE"
    BY <1>1, NoRowIsNoRow DEF FitsAt, Statuses
  <2>4. Statuses' = [Statuses EXCEPT ![r] = "NONE"]
    BY <2>2, <2>3 DEF Statuses
  <2> QED BY <1>1, <2>1, <2>4, AnswerSim DEF Done
<1> QED BY <1>2, <1>3

LEMMA NextSim ==
    ASSUME Inv, [Next]_vars
    PROVE  A!Next \/ UNCHANGED A!rows
<1>1. CASE UNCHANGED vars \/ \E t \in Teacher : SetActive(t)
  BY <1>1, Mapping DEF vars, SetActive, Statuses, Asked, Outcome
<1>2. ASSUME NEW r \in Request, Proceed(r)
      PROVE  A!Next \/ UNCHANGED A!rows
  BY <1>2, ChecksSim, InsertAccessRequestSim, FindAccessRequestSim, UpdateStatusSim, RereadSim,
     OthersSim
     DEF Proceed
<1> QED BY <1>1, <1>2, BeginSim DEF Next

LEMMA InitSim == Init => A!Init
BY DEF Init, A!Init, NoRow, NoCall, Decisions

\* Approvals, rejections, cancellations and revocations are atomic for those who
\* make them: every step of a handler is a step of AccessLifecycle or none.
THEOREM LifecycleImplemented == Spec => ImplementsLifecycle
<1>1. Inv /\ [Next]_vars => [A!Next]_(A!rows)
  BY NextSim
<1> QED BY <1>1, InitSim, Invariance, PTL DEF Spec, ImplementsLifecycle, A!Spec

-----------------------------------------------------------------------------
(* What the checks keep out while handlers do not overlap                   *)

Open(i) == access[i].status \in {"PENDING", "APPROVED"}

OneOpen ==
    \A i, j \in Request :
        Open(i) /\ Open(j) /\ access[i].subject # None /\ SameScope(access[i], access[j]) => i = j

Named == \A a \in assignments : a.role = "SUBJECT_TEACHER" => a.subject # None

\* What the lone handler has found clear it still finds clear.
Clear(r) ==
    /\ pc[r] = "pending" => ~WithStatus("APPROVED", call[r])
    /\ pc[r] = "insert" /\ call[r].op \in Creates =>
         ~WithStatus("APPROVED", call[r]) /\ ~WithStatus("PENDING", call[r])
    /\ pc[r] = "insert" /\ call[r].op = "createAssignment" /\ call[r].subject = None =>
         \A a \in assignments : a.section = call[r].section => a.role # "CLASS_TEACHER"
    /\ pc[r] \in {"countAccess", "deleteSubject"} =>
         \A a \in assignments : a.subject # call[r].subject

Lone ==
    alone => /\ \A q, r \in Running : q = r
             /\ OneOpen /\ OneClassTeacher /\ Named
             /\ \A r \in Running : Clear(r)

\* r runs, and moves on to s.
Moves(r, s) ==
    /\ r \in Running /\ pc' = [pc EXCEPT ![r] = s] /\ call' = call /\ alone' = alone

LEMMA LoneLifts ==
    ASSUME Inv, Lone, NEW r \in Request, NEW s, Moves(r, s),
           alone => OneOpen' /\ OneClassTeacher' /\ Named' /\ (s \notin Done => Clear(r)')
    PROVE  Lone'
<1>1. /\ \A q \in Request \ {r} : pc'[q] = pc[q]
      /\ pc'[r] = s /\ r \in Running /\ alone' = alone
  BY DEF Moves, Inv, TypeOK
<1>2. ASSUME alone, NEW q \in Running'
      PROVE  q = r
  <2>1. q # r => q \in Running
    BY <1>1 DEF Running
  <2> QED BY <1>1, <1>2, <2>1 DEF Lone
<1>3. r \in Running' => s \notin Done
  BY <1>1 DEF Running
<1> QED BY <1>1, <1>2, <1>3 DEF Lone

LEMMA LoneQuiet ==
    ASSUME Inv, Lone, NEW r \in Running, NEW s, Only(r, s),
           alone /\ s \notin Done =>
               /\ s = "pending" => ~WithStatus("APPROVED", call[r])
               /\ s = "insert" /\ call[r].op \in Creates =>
                    ~WithStatus("APPROVED", call[r]) /\ ~WithStatus("PENDING", call[r])
               /\ s = "insert" /\ call[r].op = "createAssignment" /\ call[r].subject = None =>
                    \A a \in assignments : a.section = call[r].section => a.role # "CLASS_TEACHER"
               /\ s \in {"countAccess", "deleteSubject"} =>
                    \A a \in assignments : a.subject # call[r].subject
    PROVE  Lone'
<1>1. /\ pc' = [pc EXCEPT ![r] = s] /\ UNCHANGED <<access, assignments, call, alone>>
  BY DEF Only, Goto
<1>2. r \in Request /\ pc'[r] = s
  BY <1>1 DEF Running, Inv, TypeOK
<1>3. alone => OneOpen' /\ OneClassTeacher' /\ Named'
  BY <1>1 DEF Lone, OneOpen, Open, SameScope, OneClassTeacher, Named
<1>4. alone /\ s \notin Done => Clear(r)'
  BY <1>1, <1>2 DEF Clear, WithStatus
<1> QED BY <1>1, <1>2, <1>3, <1>4, LoneLifts DEF Moves

LEMMA ChecksLone ==
    ASSUME Inv, Lone, NEW r \in Request,
           \/ AssertRequesterIsActiveTeacher(r) \/ AssertValidScope(r)
           \/ AssertNotAssigned(r) \/ AssertNotGranted(r) \/ AssertNoPendingRequest(r)
           \/ AssertNoClassTeacher(r) \/ AssertSubjectExists(r) \/ FindAssignment(r)
           \/ CountAssignments(r) \/ CountActiveAccess(r)
    PROVE  Lone'
<1>1. /\ pc[r] \in {"requester", "scope", "assigned", "granted", "pending", "classTeacher",
                    "subject", "assignment", "countAssignments", "countAccess"}
      /\ FitsAt(r, pc[r])
  BY FitsNow DEF AssertRequesterIsActiveTeacher, AssertValidScope, AssertNotAssigned,
     AssertNotGranted, AssertNoPendingRequest, AssertNoClassTeacher, AssertSubjectExists,
     FindAssignment, CountAssignments, CountActiveAccess
<1>2. r \in Running /\ (alone => Clear(r))
  BY <1>1 DEF Running, Done, Lone
<1>3. CASE \E s \in {"refused", "scope", "assigned", "granted", "deleteAssignment", "countAssignments"} :
              Only(r, s)
  BY <1>2, <1>3, LoneQuiet DEF Done
<1>4. CASE AssertNotGranted(r) /\ Only(r, "pending")
  <2>1. ~WithStatus("APPROVED", call[r]) \/ Only(r, "refused")
    BY <1>4 DEF AssertNotGranted, Check, HasApprovedAccess
  <2> QED BY <1>2, <1>3, <1>4, <2>1, LoneQuiet
<1>5. CASE AssertNoPendingRequest(r) /\ Only(r, "insert")
  <2>1. ~WithStatus("PENDING", call[r]) \/ Only(r, "refused")
    BY <1>5 DEF AssertNoPendingRequest, Check
  <2>2. call[r].op \in Creates /\ pc[r] = "pending"
    BY <1>1, <1>5 DEF AssertNoPendingRequest, FitsAt
  <2>3. alone => ~WithStatus("APPROVED", call[r])
    BY <1>2, <2>2 DEF Clear
  <2> QED BY <1>2, <1>3, <1>5, <2>1, <2>2, <2>3, LoneQuiet DEF Creates
<1>6. CASE AssertNoClassTeacher(r) /\ Only(r, "insert")
  <2>1. call[r].op = "createAssignment"
    BY <1>1, <1>6 DEF AssertNoClassTeacher, FitsAt
  <2>2. Only(r, "refused") \/ \A a \in assignments : a.section = call[r].section => a.role # "CLASS_TEACHER"
    BY <1>6 DEF AssertNoClassTeacher, Check
  <2> QED BY <1>2, <1>3, <1>6, <2>1, <2>2, LoneQuiet DEF Creates
<1>7. CASE AssertSubjectExists(r) /\ Only(r, "insert")
  <2>1. call[r].op \in {"createAssignment", "deleteSubject"} /\ call[r].subject # None
    BY <1>1, <1>7 DEF AssertSubjectExists, FitsAt
  <2> QED BY <1>2, <1>7, <2>1, LoneQuiet DEF Creates
<1>8. CASE CountAssignments(r) /\ Only(r, "countAccess")
  <2>1. Only(r, "refused") \/ \A a \in assignments : a.subject # call[r].subject
    BY <1>8 DEF CountAssignments, Check
  <2> QED BY <1>2, <1>3, <1>8, <2>1, LoneQuiet
<1>9. CASE CountActiveAccess(r) /\ Only(r, "deleteSubject")
  <2>1. alone => \A a \in assignments : a.subject # call[r].subject
    BY <1>2, <1>9 DEF CountActiveAccess, Clear
  <2> QED BY <1>2, <1>9, <2>1, LoneQuiet
<1> QED BY <1>3, <1>4, <1>5, <1>6, <1>7, <1>8, <1>9 DEF Check,
     AssertRequesterIsActiveTeacher, AssertValidScope, AssertNotAssigned, AssertNotGranted,
     AssertNoPendingRequest, AssertNoClassTeacher, AssertSubjectExists, FindAssignment,
     CountAssignments, CountActiveAccess

LEMMA DecisionsLone ==
    ASSUME Inv, Lone, NEW r \in Request, FindAccessRequest(r) \/ UpdateStatus(r) \/ Reread(r)
    PROVE  Lone'
<1>1. r \in Running /\ call[r].op \in Decisions /\ call[r].row \in Request
  BY FitsNow, CallFacts DEF FindAccessRequest, UpdateStatus, Reread, FitsAt, Running, Done
<1>2. CASE \E s \in {"refused", "update", "ok", "reread"} : Only(r, s)
  BY <1>1, <1>2, LoneQuiet
<1>3. CASE UpdateStatus(r) /\ ~Only(r, "reread")
  <2> DEFINE i == call[r].row
             op == call[r].op
  <2>1. /\ access[i].status = Expected(op) /\ access' = [access EXCEPT ![i].status = Target(op)]
        /\ pc' = [pc EXCEPT ![r] = "reread"] /\ UNCHANGED <<assignments, call, alone>>
    BY <1>3 DEF UpdateStatus, Only, Goto
  <2>2. access[i] \in AccessRow /\ Open(i)
    BY <1>1, <2>1, DecisionFacts, RowFacts DEF Inv, Open
  <2>3. ASSUME NEW j \in Request
        PROVE  /\ Open(j)' => Open(j)
               /\ access'[j].requester = access[j].requester /\ access'[j].type = access[j].type
               /\ access'[j].section = access[j].section /\ access'[j].subject = access[j].subject
    <3>1. CASE j = i
      BY <1>1, <2>1, <2>2, <3>1 DEF AccessRow, Inv, TypeOK
    <3>2. CASE j # i
      BY <2>1, <3>2 DEF Open
    <3> QED BY <3>1, <3>2
  <2>4. alone => OneOpen' /\ OneClassTeacher' /\ Named'
    BY <2>1, <2>3 DEF Lone, OneOpen, SameScope, OneClassTeacher, Named
  <2>5. Clear(r)'
    <3>1. pc'[r] = "reread"
      BY <2>1 DEF Inv, TypeOK
    <3> QED BY <3>1 DEF Clear
  <2> QED BY <1>1, <2>1, <2>4, <2>5, LoneLifts DEF Moves
<1> QED BY <1>2, <1>3 DEF FindAccessRequest, UpdateStatus, Reread, Check

LEMMA InsertAccessRequestLone ==
    ASSUME Inv, Lone, NEW r \in Request, InsertAccessRequest(r)
    PROVE  Lone'
<1>1. r \in Running /\ pc[r] = "insert" /\ call[r].op \in Creates
  BY FitsNow DEF InsertAccessRequest, FitsAt, Running, Done
<1>2. CASE Only(r, "refused")
  BY <1>1, <1>2, LoneQuiet DEF Done
<1>3. CASE ~Only(r, "refused")
  <2> DEFINE c == call[r]
  <2>1. /\ pc' = [pc EXCEPT ![r] = "ok"] /\ UNCHANGED <<assignments, call, alone>>
        /\ \E row : /\ access' = [access EXCEPT ![r] = row]
                    /\ row.requester = c.teacher /\ row.type = c.type
                    /\ row.section = c.section /\ row.subject = c.subject
    BY <1>3 DEF InsertAccessRequest, Goto
  <2>2. /\ access'[r].requester = c.teacher /\ access'[r].type = c.type
        /\ access'[r].section = c.section /\ access'[r].subject = c.subject
        /\ \A i \in Request : i # r => access'[i] = access[i]
    BY <2>1 DEF Inv, TypeOK
  <2>3. ASSUME alone, NEW j \in Request, j # r, Open(j)
        PROVE  ~(/\ access[j].requester = c.teacher /\ access[j].type = c.type
                 /\ access[j].section = c.section /\ access[j].subject = c.subject)
    <3>1. ~WithStatus("APPROVED", call[r]) /\ ~WithStatus("PENDING", call[r])
      BY <1>1, <2>3 DEF Lone, Clear
    <3> QED BY <2>3, <3>1 DEF WithStatus, Open
  <2>4. alone => OneOpen'
    BY <2>2, <2>3 DEF Lone, OneOpen, Open, SameScope
  <2>5. alone => OneClassTeacher' /\ Named'
    BY <2>1 DEF Lone, OneClassTeacher, Named
  <2> QED BY <1>1, <2>1, <2>4, <2>5, LoneLifts DEF Moves, Done
<1> QED BY <1>2, <1>3

LEMMA InsertAssignmentLone ==
    ASSUME Inv, Lone, NEW r \in Request, InsertAssignment(r)
    PROVE  Lone'
<1>1. r \in Running /\ pc[r] = "insert" /\ call[r].op = "createAssignment"
  BY DEF InsertAssignment, Running, Done
<1>2. CASE Only(r, "refused")
  BY <1>1, <1>2, LoneQuiet DEF Done
<1>3. CASE ~Only(r, "refused")
  <2> DEFINE c == call[r]
             a == [id |-> r, teacher |-> c.teacher, section |-> c.section, subject |-> c.subject,
                   role |-> IF c.subject = None THEN "CLASS_TEACHER" ELSE "SUBJECT_TEACHER"]
  <2>1. /\ pc' = [pc EXCEPT ![r] = "ok"] /\ UNCHANGED <<access, call, alone>>
        /\ assignments' = assignments \cup {a}
    BY <1>3 DEF InsertAssignment
  <2>a. /\ a.section = c.section /\ a.subject = c.subject
        /\ a.role = IF c.subject = None THEN "CLASS_TEACHER" ELSE "SUBJECT_TEACHER"
    OBVIOUS
  <2> HIDE DEF a
  <2>2. alone /\ c.subject = None =>
          \A b \in assignments : b.section = c.section => b.role # "CLASS_TEACHER"
    BY <1>1 DEF Lone, Clear
  <2>3. alone => OneClassTeacher'
    BY <2>1, <2>a, <2>2 DEF Lone, OneClassTeacher
  <2>4. alone => Named' /\ OneOpen'
    BY <2>1, <2>a DEF Lone, Named, OneOpen, Open, SameScope
  <2> QED BY <1>1, <2>1, <2>3, <2>4, LoneLifts DEF Moves, Done
<1> QED BY <1>2, <1>3

LEMMA DeletionsLone ==
    ASSUME Inv, Lone, NEW r \in Request, DeleteAssignment(r) \/ DeleteSubject(r)
    PROVE  Lone'
<1>1. r \in Running /\ pc[r] \in {"deleteAssignment", "deleteSubject"}
  BY DEF DeleteAssignment, DeleteSubject, Running, Done
<1>2. CASE Only(r, "refused")
  BY <1>1, <1>2, LoneQuiet DEF Done
<1>3. CASE DeleteAssignment(r) /\ ~Only(r, "refused")
  <2>1. /\ pc' = [pc EXCEPT ![r] = "ok"] /\ UNCHANGED <<access, call, alone>>
        /\ assignments' \subseteq assignments
    BY <1>3 DEF DeleteAssignment
  <2>2. alone => OneOpen' /\ OneClassTeacher' /\ Named'
    BY <2>1 DEF Lone, OneOpen, Open, SameScope, OneClassTeacher, Named
  <2> QED BY <1>1, <2>1, <2>2, LoneLifts DEF Moves, Done
<1>4. CASE DeleteSubject(r) /\ ~Only(r, "refused")
  <2> DEFINE m == call[r].subject
  <2>1. /\ pc[r] = "deleteSubject" /\ pc' = [pc EXCEPT ![r] = "ok"]
        /\ m \in subjects /\ UNCHANGED <<call, alone>>
        /\ access' = [i \in Request |-> IF access[i].subject = m THEN Orphan(access[i]) ELSE access[i]]
        /\ assignments' = {IF a.subject = m THEN Orphan(a) ELSE a : a \in assignments}
    BY <1>4, DeleteSubjectFacts
  <2>2. m # None
    BY <2>1, RequestAccessAssumption DEF Inv, TypeOK
  <2>3. ASSUME NEW i \in Request, access'[i].subject # None
        PROVE  access'[i] = access[i]
    <3>1. access[i] \in AccessRow => Orphan(access[i]).subject = None
      BY DEF Orphan, AccessRow
    <3>2. access[i] = NoRow => access[i].subject # m
      BY <2>2 DEF NoRow
    <3> QED BY <2>1, <2>3, <3>1, <3>2 DEF Inv, TypeOK
  <2>4. alone => OneOpen'
    <3>1. ASSUME alone, NEW i \in Request, NEW j \in Request, Open(i)', Open(j)',
                 access'[i].subject # None, SameScope(access'[i], access'[j])
          PROVE  i = j
      <4>1. access'[i] = access[i] /\ access'[j] = access[j]
        BY <2>3, <3>1 DEF SameScope
      <4> QED BY <3>1, <4>1 DEF Lone, OneOpen, Open
    <3> QED BY <3>1 DEF OneOpen
  <2>5. alone => assignments' = assignments
    <3>1. alone => \A a \in assignments : a.subject # m
      BY <1>1, <2>1 DEF Lone, Clear
    <3> QED BY <2>1, <3>1
  <2>6. alone => OneClassTeacher' /\ Named'
    BY <2>5 DEF Lone, OneClassTeacher, Named
  <2> QED BY <1>1, <2>1, <2>4, <2>6, LoneLifts DEF Moves, Done
<1> QED BY <1>2, <1>3, <1>4

LEMMA BeginLone ==
    ASSUME Inv, Lone, NEW r \in Request, NEW c \in Calls, Begin(r, c)
    PROVE  Lone'
<1>1. /\ UNCHANGED <<access, assignments>> /\ alone' = (alone /\ Running = {})
      /\ pc'[r] = FirstStep(c) /\ \A q \in Request \ {r} : pc'[q] = pc[q]
  BY DEF Begin, Inv, TypeOK
<1>2. Clear(r)'
  <2>1. FirstStep(c) \notin {"pending", "insert", "countAccess", "deleteSubject"}
    BY CallFacts DEF FirstStep, Creates, Decisions, Others
  <2> QED BY <1>1, <2>1 DEF Clear
<1>3. ASSUME alone', NEW q \in Running'
      PROVE  q = r
  BY <1>1, <1>3 DEF Running
<1>4. alone' => OneOpen' /\ OneClassTeacher' /\ Named'
  BY <1>1 DEF Lone, OneOpen, Open, SameScope, OneClassTeacher, Named
<1> QED BY <1>2, <1>3, <1>4 DEF Lone

LEMMA NextLone ==
    ASSUME Inv, Lone, [Next]_vars
    PROVE  Lone'
<1>1. CASE UNCHANGED vars \/ \E t \in Teacher : SetActive(t)
  <2>1. UNCHANGED <<access, assignments, pc, call, alone>>
    BY <1>1 DEF vars, SetActive
  <2> QED BY <2>1 DEF Lone, OneOpen, Open, SameScope, OneClassTeacher, Named, Running, Clear, WithStatus
<1>2. ASSUME NEW r \in Request, Proceed(r)
      PROVE  Lone'
  BY <1>2, ChecksLone, DecisionsLone, InsertAccessRequestLone, InsertAssignmentLone, DeletionsLone
     DEF Proceed
<1> QED BY <1>1, <1>2, BeginLone DEF Next

LEMMA InitLone == Init => Lone
BY DEF Init, Lone, OneOpen, Open, OneClassTeacher, Named, Running, NoRow

LEMMA LoneInvariance == Spec => []Lone
BY InitLone, NextLone, Invariance, PTL DEF Spec

\* While handlers do not overlap, no teacher gets a second row for a scope beside
\* a pending or approved one.
THEOREM OneOpenRowHolds == Spec => []OneOpenRow
<1>1. Lone => OneOpenRow
  BY DEF Lone, OneOpen, Open, OneOpenRow
<1> QED BY <1>1, LoneInvariance, PTL

\* While handlers do not overlap, no section gets a second class teacher.
THEOREM OneClassTeacherHolds == Spec => []SerialOneClassTeacher
<1>1. Lone => SerialOneClassTeacher
  BY DEF Lone, SerialOneClassTeacher
<1> QED BY <1>1, LoneInvariance, PTL

\* While handlers do not overlap, no subject teacher is left without a subject.
THEOREM SubjectTeachersKeepTheirs == Spec => []SubjectTeachersHaveASubject
<1>1. Lone => SubjectTeachersHaveASubject
  BY DEF Lone, Named, SubjectTeachersHaveASubject
<1> QED BY <1>1, LoneInvariance, PTL


-----------------------------------------------------------------------------
(* Homework: whoever is served was entitled during the call.  These lemmas  *)
(* are about the module Homework alone, over tables that change at will.    *)

\* Rows that name what exists, teachers who are assigned and students enrolled.
TablesTyped ==
    /\ homework \in [Id -> Fitting \cup {NoHomework}]
    /\ assigned \subseteq Teacher \X Section \X (Subject \cup {None, Lost})
    /\ approved \subseteq Teacher \X Section \X Subject
    /\ enrolled \subseteq Student \X Section
    /\ subjects \subseteq Subject
    /\ HomeworkHasItsSubject

LocalsTyped ==
    /\ at \in [Caller -> {"idle", "ok", "match", "find", "assigned", "granted", "write", "view"}]
    /\ asks \in [Caller -> Asks \cup {NoAsk}]
    /\ found \in [Caller -> Fitting \cup {NoHomework}]
    /\ unread \in [Caller -> SUBSET {"section", "scope", "enrollment"}]
    /\ yes \in [Caller -> BOOLEAN] /\ entitled \in [Caller -> BOOLEAN]

\* What the handler of r relies on, and what it has made sure of.
Serving(r) ==
    /\ at[r] \in {"match", "find", "assigned", "granted", "write", "view"} => asks[r] \in Asks
    /\ at[r] = "match" => asks[r].op = "create"
    /\ at[r] = "find" => asks[r].op # "create"
    /\ at[r] \in {"assigned", "granted", "write"} => asks[r].op # "findOne"
    /\ at[r] = "view" => asks[r].op = "findOne"
    /\ at[r] \in {"assigned", "granted", "write", "view"} => found[r] \in Fitting
    /\ at[r] \in {"write", "ok"} \/ (at[r] = "view" /\ yes[r]) => entitled[r]
    /\ at[r] # "view" => ~yes[r]
    /\ at[r] = "idle" => ~entitled[r]

HomeworkInv == TablesTyped /\ LocalsTyped /\ \A r \in Caller : Serving(r)

LEMMA HomeworkCallFacts ==
    ASSUME NEW c \in Asks
    PROVE  /\ c.op \in {"create", "update", "delete", "findOne"}
           /\ c.op = "create" => /\ c.user \in Writers /\ c.section \in Section
                                 /\ c.subject \in Subject /\ c.year \in Year \cup {None}
                                 /\ c.text \in Text
           /\ c.op # "create" => c.user \in User /\ c.id \in Id
           /\ c.op = "update" => c.text \in Text
BY DEF Asks, AskBody, Writers, User

LEMMA RowOfHomework == NoHomework \notin Fitting
BY HomeworkAssumption DEF NoHomework, Fitting, Row

LEMMA Remembered ==
    ASSUME LocalsTyped, Remember, NEW r \in Caller, at'[r] # "idle", at[r] # "ok"
    PROVE  entitled'[r] <=> (entitled[r] \/ Entitled(r) \/ Entitled(r)')
BY DEF Remember, LocalsTyped

LEMMA RememberedOk ==
    ASSUME LocalsTyped, Remember, NEW r \in Caller
    PROVE  /\ at'[r] = "idle" => ~entitled'[r]
           /\ at'[r] # "idle" /\ entitled[r] => entitled'[r]
BY DEF Remember, LocalsTyped

LEMMA RememberTyped ==
    ASSUME LocalsTyped, Remember
    PROVE  entitled' \in [Caller -> BOOLEAN]
<1>1. \A r \in Caller : (at'[r] # "idle" /\ (entitled[r] \/ (at[r] # "ok" /\ (Entitled(r) \/ Entitled(r)')))) \in BOOLEAN
  OBVIOUS
<1> QED BY <1>1 DEF Remember

\* A step of r leaves the other calls where they are.
Beside(r) == \A q \in Caller \ {r} : /\ at'[q] = at[q] /\ asks'[q] = asks[q]
                                     /\ found'[q] = found[q] /\ yes'[q] = yes[q]

LEMMA HomeworkLifts ==
    ASSUME HomeworkInv, Remember, NEW r \in Caller, Beside(r),
           TablesTyped', LocalsTyped', Serving(r)'
    PROVE  HomeworkInv'
<1>1. ASSUME NEW q \in Caller, q # r
      PROVE  Serving(q)'
  BY <1>1, RememberedOk DEF Beside, HomeworkInv, Serving
<1> QED BY <1>1 DEF HomeworkInv

LEMMA EndServes ==
    ASSUME HomeworkInv, Remember, NEW r \in Caller, NEW s \in {"idle", "ok"}, End(r, s),
           s = "ok" => entitled'[r], TablesTyped'
    PROVE  HomeworkInv'
<1>1. LocalsTyped'
  BY RememberTyped DEF HomeworkInv, LocalsTyped, End
<1>2. Beside(r) /\ at'[r] = s /\ ~yes'[r]
  BY DEF HomeworkInv, LocalsTyped, End, Beside
<1>3. Serving(r)'
  BY <1>2, RememberedOk DEF Serving, HomeworkInv
<1> QED BY <1>1, <1>2, <1>3, HomeworkLifts

LEMMA UntouchedTables ==
    ASSUME TablesTyped, UNCHANGED tables
    PROVE  TablesTyped'
BY DEF TablesTyped, tables, HomeworkHasItsSubject, Ids, Id, NoHomework, Fitting, Row

LEMMA RefuseServes ==
    ASSUME HomeworkInv, Remember, NEW r \in Caller, Refuse(r)
    PROVE  HomeworkInv'
BY EndServes, UntouchedTables DEF Refuse, HomeworkInv


\* Steps that leave the tables and move r on to s, with h found.
LEMMA GoServes ==
    ASSUME HomeworkInv, Remember, NEW r \in Caller,
           NEW s \in {"find", "match", "assigned", "granted", "write", "view", "ok"},
           NEW c \in Asks, NEW h \in Fitting \cup {NoHomework},
           NEW out \in SUBSET {"section", "scope", "enrollment"},
           at' = [at EXCEPT ![r] = s], asks' = [asks EXCEPT ![r] = c],
           found' = [found EXCEPT ![r] = h], unread' = [unread EXCEPT ![r] = out],
           UNCHANGED <<tables, yes>>,
           s = "match" => c.op = "create",
           s = "find" => c.op # "create",
           s \in {"assigned", "granted", "write"} => c.op # "findOne",
           s = "view" => c.op = "findOne",
           s \in {"assigned", "granted", "write", "view"} => h # NoHomework,
           at[r] # "view", s \in {"write", "ok"} => entitled'[r]
    PROVE  HomeworkInv'
<1>1. LocalsTyped'
  BY RememberTyped DEF HomeworkInv, LocalsTyped
<1>2. TablesTyped'
  BY UntouchedTables DEF HomeworkInv
<1>3. Beside(r)
  BY DEF HomeworkInv, LocalsTyped, Beside
<1>4. /\ at'[r] = s /\ asks'[r] = c /\ found'[r] = h /\ ~yes'[r]
  BY DEF HomeworkInv, LocalsTyped, Serving
<1>5. s # "idle" /\ s \in {"find", "match", "assigned", "granted", "write", "view", "ok"}
  OBVIOUS
<1>6. Serving(r)'
  BY <1>4, <1>5, RowOfHomework DEF Serving
<1> QED BY <1>1, <1>2, <1>3, <1>6, HomeworkLifts

LEMMA BeginServes ==
    ASSUME HomeworkInv, Remember, NEW r \in Caller, NEW c \in Asks, Ask(r, c)
    PROVE  HomeworkInv'
<1> DEFINE s == IF c.op = "create" THEN "match" ELSE "find"
<1>1. /\ at' = [at EXCEPT ![r] = s] /\ asks' = [asks EXCEPT ![r] = c]
      /\ found' = [found EXCEPT ![r] = found[r]] /\ unread' = [unread EXCEPT ![r] = unread[r]]
      /\ UNCHANGED <<tables, yes>> /\ at[r] # "view"
  BY DEF Ask, locals, tables, HomeworkInv, LocalsTyped
<1>2. found[r] \in Fitting \cup {NoHomework} /\ unread[r] \in SUBSET {"section", "scope", "enrollment"}
  BY DEF HomeworkInv, LocalsTyped
<1> HIDE DEF s
<1>3. s \in {"match", "find"} /\ (s = "match" <=> c.op = "create")
  BY DEF s
<1> QED BY <1>1, <1>2, <1>3, GoServes

\* A found row that the caller may write, or read, now or by this step.
LEMMA Entitles ==
    ASSUME HomeworkInv, Remember, NEW r \in Caller,
           at'[r] # "idle", at[r] # "ok",
           \/ Entitled(r)
           \/ /\ found'[r] \in Fitting
              /\ asks'[r].user = Admin
           \/ entitled[r]
    PROVE  entitled'[r]
<1>1. CASE found'[r] \in Fitting /\ asks'[r].user = Admin
  <2>1. Entitled(r)'
    BY <1>1, RowOfHomework DEF Entitled, MayRead, MayWrite
  <2> QED BY <2>1, Remembered DEF HomeworkInv
<1> QED BY <1>1, Remembered DEF HomeworkInv

LEMMA MatchSubjectServes ==
    ASSUME HomeworkInv, Remember, NEW r \in Caller, MatchSubject(r)
    PROVE  HomeworkInv'
<1> DEFINE c == asks[r]
           row(y) == [section |-> c.section, subject |-> c.subject, year |-> y, text |-> c.text,
                      by |-> IF c.user = Admin THEN None ELSE c.user]
<1>1. /\ at[r] = "match" /\ c \in Asks /\ c.op = "create"
  BY DEF HomeworkInv, Serving, MatchSubject
<1>2. CASE Refuse(r)
  BY <1>2, RefuseServes
<1>3. ASSUME ~Refuse(r)
      PROVE  \E y \in Year : /\ <<c.section, c.subject>> \in SameLevel
                             /\ Work(r, row(y), FirstCheck(r))
  BY <1>1, <1>3, HomeworkCallFacts DEF MatchSubject
<1>4. ASSUME NEW y \in Year, <<c.section, c.subject>> \in SameLevel, Work(r, row(y), FirstCheck(r))
      PROVE  HomeworkInv'
  <2>1. row(y) \in Fitting
    <3>1. c.user \in Writers /\ c.section \in Section /\ c.subject \in Subject /\ c.text \in Text
      BY <1>1, HomeworkCallFacts
    <3> QED BY <1>4, <3>1 DEF Fitting, Row, Writers
  <2> DEFINE h == row(y)  s == FirstCheck(r)
  <2>2. /\ at' = [at EXCEPT ![r] = s] /\ asks' = [asks EXCEPT ![r] = c]
        /\ found' = [found EXCEPT ![r] = h] /\ unread' = [unread EXCEPT ![r] = unread[r]]
        /\ UNCHANGED <<tables, yes>>
    BY <1>4 DEF Work, Onto, tables, HomeworkInv, LocalsTyped
  <2>3. s \in {"write", "assigned"} /\ (s = "write" => c.user = Admin)
    BY DEF FirstCheck
  <2> HIDE DEF h, s, c
  <2>4. at'[r] = s /\ asks'[r] = c /\ found'[r] = h
    BY <2>2 DEF HomeworkInv, LocalsTyped
  <2>5. s = "write" => entitled'[r]
    BY <1>1, <2>1, <2>3, <2>4, Entitles DEF h
  <2>6. unread[r] \in SUBSET {"section", "scope", "enrollment"}
    BY DEF HomeworkInv, LocalsTyped
  <2>7. h \in Fitting /\ h # NoHomework
    BY <2>1, RowOfHomework DEF h
  <2> QED BY <1>1, <2>2, <2>3, <2>5, <2>6, <2>7, GoServes
<1> QED BY <1>2, <1>3, <1>4

LEMMA FindHomeworkServes ==
    ASSUME HomeworkInv, Remember, NEW r \in Caller, FindHomework(r)
    PROVE  HomeworkInv'
<1> DEFINE c == asks[r]  h == homework[c.id]
<1>1. at[r] = "find" /\ c \in Asks /\ c.op # "create" /\ c.id \in Id
  BY HomeworkCallFacts DEF HomeworkInv, Serving, FindHomework
<1>2. CASE h = NoHomework
  BY <1>1, <1>2, RefuseServes DEF FindHomework
<1>3. ASSUME h # NoHomework, NEW s \in {"write", "assigned", "ok", "view"}, NEW out,
             out \in SUBSET {"section", "scope", "enrollment"},
             at' = [at EXCEPT ![r] = s], found' = [found EXCEPT ![r] = h],
             unread' = [unread EXCEPT ![r] = out],
             UNCHANGED <<tables, asks, yes>>,
             s \in {"write", "assigned"} => c.op # "findOne",
             s = "view" => c.op = "findOne",
             s \in {"write", "ok"} => c.user = Admin
      PROVE  HomeworkInv'
  <2>1. h \in Fitting
    BY <1>1, <1>3 DEF HomeworkInv, TablesTyped
  <2>2. at'[r] = s /\ asks'[r] = c /\ found'[r] = h /\ asks' = [asks EXCEPT ![r] = c]
    BY <1>3 DEF HomeworkInv, LocalsTyped
  <2>3. s \in {"write", "ok"} => entitled'[r]
    BY <1>1, <1>3, <2>1, <2>2, Entitles
  <2> HIDE DEF c, h
  <2> QED BY <1>1, <1>3, <2>1, <2>2, <2>3, GoServes
<1>4. ASSUME h # NoHomework, c.op # "findOne", Work(r, h, FirstCheck(r))
      PROVE  HomeworkInv'
  <2> DEFINE s == FirstCheck(r)
  <2>1. /\ at' = [at EXCEPT ![r] = s] /\ found' = [found EXCEPT ![r] = h]
        /\ UNCHANGED <<tables, asks, yes>>
        /\ unread' = [unread EXCEPT ![r] = unread[r]]
    BY <1>4 DEF Work, Onto, tables, HomeworkInv, LocalsTyped
  <2>2. s \in {"write", "assigned"} /\ (s = "write" => c.user = Admin)
    BY DEF FirstCheck
  <2>3. unread[r] \in SUBSET {"section", "scope", "enrollment"}
    BY DEF HomeworkInv, LocalsTyped
  <2> HIDE DEF s, c, h
  <2> QED BY <1>3, <1>4, <2>1, <2>2, <2>3
<1>5. ASSUME h # NoHomework, c.user = Admin, Work(r, h, "ok")
      PROVE  HomeworkInv'
  <2>1. /\ at' = [at EXCEPT ![r] = "ok"] /\ found' = [found EXCEPT ![r] = h]
        /\ UNCHANGED <<tables, asks, yes>>
        /\ unread' = [unread EXCEPT ![r] = unread[r]]
    BY <1>5 DEF Work, Onto, tables, HomeworkInv, LocalsTyped
  <2>2. unread[r] \in SUBSET {"section", "scope", "enrollment"}
    BY DEF HomeworkInv, LocalsTyped
  <2> HIDE DEF c, h
  <2> QED BY <1>3, <1>5, <2>1, <2>2
<1>6. ASSUME h # NoHomework, c.op = "findOne", c.user # Admin,
             NEW out, out \in {{"section", "scope"}, {"enrollment"}},
             found' = [found EXCEPT ![r] = h], unread' = [unread EXCEPT ![r] = out],
             Onto(r, "view"), UNCHANGED <<tables, yes>>
      PROVE  HomeworkInv'
  <2>1. at' = [at EXCEPT ![r] = "view"] /\ UNCHANGED asks
    BY <1>6 DEF Onto
  <2>2. out \in SUBSET {"section", "scope", "enrollment"}
    BY <1>6
  <2> HIDE DEF c, h
  <2> QED BY <1>3, <1>6, <2>1, <2>2
<1>7. CASE /\ h # NoHomework /\ c.op = "findOne" /\ c.user # Admin
           /\ found' = [found EXCEPT ![r] = h]
           /\ unread' = [unread EXCEPT ![r] = IF c.user \in Teacher THEN {"section", "scope"}
                                                                    ELSE {"enrollment"}]
           /\ Onto(r, "view") /\ UNCHANGED <<tables, yes>>
  <2> HIDE DEF c, h
  <2>1. CASE c.user \in Teacher
    BY <1>6, <1>7, <2>1
  <2>2. CASE c.user \notin Teacher
    BY <1>6, <1>7, <2>2
  <2> QED BY <2>1, <2>2
<1> QED BY <1>2, <1>4, <1>5, <1>7 DEF FindHomework


LEMMA CheckServes ==
    ASSUME HomeworkInv, Remember, NEW r \in Caller,
           NEW s \in {"granted", "write"}, Onto(r, s), UNCHANGED <<tables, locals>>,
           at[r] \in {"assigned", "granted"}, s = "write" => Entitled(r)
    PROVE  HomeworkInv'
<1> DEFINE c == asks[r]  h == found[r]
<1>1. /\ at' = [at EXCEPT ![r] = s] /\ asks' = [asks EXCEPT ![r] = c]
      /\ found' = [found EXCEPT ![r] = h] /\ unread' = [unread EXCEPT ![r] = unread[r]]
      /\ UNCHANGED <<tables, yes>>
  BY DEF Onto, locals, tables, HomeworkInv, LocalsTyped
<1>2. /\ c \in Asks /\ c.op # "findOne" /\ h \in Fitting
      /\ unread[r] \in SUBSET {"section", "scope", "enrollment"}
  BY DEF HomeworkInv, LocalsTyped, Serving
<1>3. at'[r] = s
  BY <1>1 DEF HomeworkInv, LocalsTyped
<1>4. s = "write" => entitled'[r]
  BY <1>3, Entitles
<1>5. h # NoHomework
  BY <1>2, RowOfHomework
<1> HIDE DEF c, h
<1> QED BY <1>1, <1>2, <1>4, <1>5, GoServes

LEMMA WriterEntitled ==
    ASSUME HomeworkInv, NEW r \in Caller, at[r] \in {"assigned", "granted"},
           \/ Covers(asks[r].user, found[r])
           \/ HasHomeworkAccess(asks[r].user, found[r]) /\ found[r].by = asks[r].user
    PROVE  Entitled(r)
BY RowOfHomework DEF Entitled, MayWrite, HomeworkInv, Serving

LEMMA FindAccessServes ==
    ASSUME HomeworkInv, Remember, NEW r \in Caller,
           FindCoverage(r) \/ FindGrant(r)
    PROVE  HomeworkInv'
<1>1. CASE FindCoverage(r)
  <2>1. CASE Covers(asks[r].user, found[r])
    BY <1>1, <2>1, WriterEntitled, CheckServes DEF FindCoverage
  <2>2. CASE ~Covers(asks[r].user, found[r])
    BY <1>1, <2>2, CheckServes DEF FindCoverage
  <2> QED BY <2>1, <2>2
<1>2. CASE FindGrant(r)
  <2>1. CASE HasHomeworkAccess(asks[r].user, found[r]) /\ found[r].by = asks[r].user
    BY <1>2, <2>1, WriterEntitled, CheckServes DEF FindGrant
  <2>2. CASE ~(HasHomeworkAccess(asks[r].user, found[r]) /\ found[r].by = asks[r].user)
    BY <1>2, <2>2, RefuseServes DEF FindGrant
  <2> QED BY <2>1, <2>2
<1> QED BY <1>1, <1>2

LEMMA ReaderEntitled ==
    ASSUME HomeworkInv, NEW r \in Caller, at[r] = "view",
           NEW q \in unread[r], Answers(r, q)
    PROVE  Entitled(r)
<1>1. found[r] # NoHomework /\ asks[r].op = "findOne"
  BY RowOfHomework DEF HomeworkInv, Serving
<1>2. q \in {"section", "scope", "enrollment"}
  BY DEF HomeworkInv, LocalsTyped
<1>3. MayRead(asks[r].user, found[r])
  BY <1>2 DEF MayRead, Answers
<1> QED BY <1>1, <1>3 DEF Entitled

LEMMA QueryAnsweredServes ==
    ASSUME HomeworkInv, Remember, NEW r \in Caller,
           NEW q \in unread[r], QueryAnswered(r, q)
    PROVE  HomeworkInv'
<1> DEFINE sure == yes[r] \/ Answers(r, q)
<1>1. at[r] = "view" /\ UNCHANGED tables
  BY DEF QueryAnswered
<1>2. TablesTyped'
  BY <1>1, UntouchedTables DEF HomeworkInv
<1>3. sure /\ at'[r] # "idle" => entitled'[r]
  BY <1>1, ReaderEntitled, Entitles DEF HomeworkInv, Serving
<1>4. ASSUME End(r, IF sure THEN "ok" ELSE "idle")
      PROVE  HomeworkInv'
  <2>1. CASE sure
    <3>1. at'[r] = "ok"
      BY <1>4, <2>1 DEF End, HomeworkInv, LocalsTyped
    <3>2. End(r, "ok")
      BY <1>4, <2>1
    <3> HIDE DEF sure
    <3> QED BY <1>2, <1>3, <2>1, <3>1, <3>2, EndServes
  <2>2. CASE ~sure
    <3>1. End(r, "idle")
      BY <1>4, <2>2
    <3> QED BY <1>2, <3>1, EndServes
  <2> QED BY <2>1, <2>2
<1>5. ASSUME unread' = [unread EXCEPT ![r] = @ \ {q}], yes' = [yes EXCEPT ![r] = sure],
             UNCHANGED <<at, asks, found>>
      PROVE  HomeworkInv'
  <2>1. sure \in BOOLEAN
    BY DEF HomeworkInv, LocalsTyped, Answers, IsAssignedToSection, HasHomeworkAccess, IsEnrolled
  <2> HIDE DEF sure
  <2>2. LocalsTyped'
    BY <1>5, <2>1, RememberTyped DEF HomeworkInv, LocalsTyped
  <2>3. Beside(r) /\ yes'[r] = sure
    BY <1>5 DEF HomeworkInv, LocalsTyped, Beside
  <2>4. Serving(r)'
    BY <1>1, <1>3, <1>5, <2>3 DEF HomeworkInv, Serving
  <2> QED BY <1>2, <2>2, <2>3, <2>4, HomeworkLifts
<1>6. unread[r] = {q} \/ unread[r] # {q}
  OBVIOUS
<1> QED BY <1>4, <1>5, <1>6 DEF QueryAnswered

LEMMA StoreServes ==
    ASSUME HomeworkInv, Remember, NEW r \in Caller, at[r] = "write",
           NEW i \in Id, NEW h \in Fitting \cup {NoHomework},
           h # NoHomework => h.subject \in subjects, Store(r, i, h)
    PROVE  HomeworkInv'
<1>1. /\ homework' = [homework EXCEPT ![i] = h] /\ UNCHANGED <<assigned, approved, enrolled, subjects>>
      /\ End(r, "ok")
  BY DEF Store
<1>2. HomeworkHasItsSubject'
  BY <1>1 DEF HomeworkInv, TablesTyped, HomeworkHasItsSubject, Ids, NoHomework
<1>3. TablesTyped'
  BY <1>1, <1>2 DEF HomeworkInv, TablesTyped, Fitting, Row, Id, NoHomework
<1>4. at'[r] # "idle" /\ entitled[r]
  BY <1>1 DEF End, HomeworkInv, LocalsTyped, Serving
<1>5. entitled'[r]
  BY <1>4, RememberedOk DEF HomeworkInv
<1> QED BY <1>1, <1>3, <1>5, EndServes

LEMMA InsertServes ==
    ASSUME HomeworkInv, Remember, NEW r \in Caller, Insert(r)
    PROVE  HomeworkInv'
<1>1. at[r] = "write" /\ found[r] \in Fitting /\ r \in Id
  BY DEF Insert, HomeworkInv, Serving, Id
<1> QED BY <1>1, StoreServes, RefuseServes DEF Insert

LEMMA WriteServes ==
    ASSUME HomeworkInv, Remember, NEW r \in Caller, Write(r)
    PROVE  HomeworkInv'
<1> DEFINE c == asks[r]  h == homework[c.id]
           new == IF c.op = "delete" THEN NoHomework ELSE [h EXCEPT !.text = c.text]
<1>1. at[r] = "write" /\ c \in Asks /\ c.op \in {"update", "delete"} /\ c.id \in Id
  BY HomeworkCallFacts DEF Write, HomeworkInv, Serving
<1>2. CASE h = NoHomework
  BY <1>2, RefuseServes DEF Write
<1>3. CASE h # NoHomework
  <2>1. h \in Fitting /\ h.subject \in subjects
    BY <1>1, <1>3 DEF HomeworkInv, TablesTyped, HomeworkHasItsSubject, Ids
  <2>2. c.op = "update" => [h EXCEPT !.text = c.text] \in Fitting
    BY <1>1, <2>1, HomeworkCallFacts DEF Fitting, Row
  <2>3. [h EXCEPT !.text = c.text].subject = h.subject
    BY <2>1 DEF Fitting, Row
  <2>4. new \in Fitting \cup {NoHomework} /\ (new # NoHomework => new.subject \in subjects)
    BY <1>1, <2>1, <2>2, <2>3
  <2>5. Store(r, c.id, new)
    BY <1>3 DEF Write
  <2> HIDE DEF c, new
  <2> QED BY <1>1, <2>4, <2>5, StoreServes
<1> QED BY <1>2, <1>3

LEMMA HandlersServe ==
    ASSUME HomeworkInv, Remember, Handlers
    PROVE  HomeworkInv'
<1>1. ASSUME NEW r \in Caller, Serve(r)
      PROVE  HomeworkInv'
  BY <1>1, MatchSubjectServes, FindHomeworkServes, FindAccessServes, QueryAnsweredServes,
     InsertServes, WriteServes, RefuseServes DEF Serve, StatementFails
<1> QED BY <1>1, BeginServes DEF Handlers


\* Steps of others leave the calls; whoever was entitled stays remembered.
LEMMA OthersServe ==
    ASSUME HomeworkInv, Remember, UNCHANGED <<at, asks, locals>>, TablesTyped'
    PROVE  HomeworkInv'
<1>1. LocalsTyped'
  BY RememberTyped DEF HomeworkInv, LocalsTyped, locals
<1>2. ASSUME NEW q \in Caller
      PROVE  Serving(q)'
  BY <1>2, RememberedOk DEF HomeworkInv, Serving, locals
<1> QED BY <1>1, <1>2 DEF HomeworkInv

LEMMA AssignmentChangesTyped ==
    ASSUME TablesTyped, NEW t \in Teacher, NEW c \in Section,
           NEW m \in Subject \cup {None, Lost}, AssignmentChanges(t, c, m)
    PROVE  TablesTyped'
<1>1. UNCHANGED <<homework, approved, enrolled, subjects>>
  BY DEF AssignmentChanges
<1>2. HomeworkHasItsSubject'
  BY <1>1 DEF TablesTyped, HomeworkHasItsSubject, Ids, Id, NoHomework
<1>3. assigned' \subseteq Teacher \X Section \X (Subject \cup {None, Lost})
  BY DEF AssignmentChanges, TablesTyped
<1> QED BY <1>1, <1>2, <1>3 DEF TablesTyped, Fitting, Row, Id, NoHomework

LEMMA AccessChangesTyped ==
    ASSUME TablesTyped, NEW t \in Teacher, NEW c \in Section, NEW m \in Subject,
           AccessChanges(t, c, m)
    PROVE  TablesTyped'
<1>1. UNCHANGED <<homework, assigned, enrolled, subjects>>
  BY DEF AccessChanges
<1>2. HomeworkHasItsSubject'
  BY <1>1 DEF TablesTyped, HomeworkHasItsSubject, Ids, Id, NoHomework
<1>3. approved' \subseteq Teacher \X Section \X Subject
  BY DEF AccessChanges, TablesTyped
<1> QED BY <1>1, <1>2, <1>3 DEF TablesTyped, Fitting, Row, Id, NoHomework

LEMMA SubjectDeletedTyped ==
    ASSUME TablesTyped, NEW m \in Subject, SubjectDeleted(m)
    PROVE  TablesTyped'
<1>1. /\ UNCHANGED <<homework, enrolled>> /\ subjects' = subjects \ {m}
      /\ \A i \in Ids : homework[i].subject # m
  BY DEF SubjectDeleted
<1>2. HomeworkHasItsSubject'
  BY <1>1 DEF TablesTyped, HomeworkHasItsSubject, Ids, Id, NoHomework
<1>3. assigned' \subseteq Teacher \X Section \X (Subject \cup {None, Lost})
  BY DEF SubjectDeleted, TablesTyped
<1>4. approved' \subseteq Teacher \X Section \X Subject
  BY DEF SubjectDeleted, TablesTyped
<1> QED BY <1>1, <1>2, <1>3, <1>4 DEF TablesTyped, Fitting, Row, Id, NoHomework

LEMMA EnrollmentChangesTyped ==
    ASSUME TablesTyped, NEW s \in Student, NEW c \in Section, EnrollmentChanges(s, c)
    PROVE  TablesTyped'
<1>1. UNCHANGED <<homework, assigned, approved, subjects>>
  BY DEF EnrollmentChanges
<1>2. HomeworkHasItsSubject'
  BY <1>1 DEF TablesTyped, HomeworkHasItsSubject, Ids, Id, NoHomework
<1>3. enrolled' \subseteq Student \X Section
  BY DEF EnrollmentChanges, TablesTyped
<1> QED BY <1>1, <1>2, <1>3 DEF TablesTyped, Fitting, Row, Id, NoHomework

LEMMA HomeworkKeeps ==
    ASSUME HomeworkInv, [HomeworkNext]_homeworkVars
    PROVE  HomeworkInv'
<1>1. CASE UNCHANGED homeworkVars
  <2>1. UNCHANGED <<tables, at, asks, found, unread, yes, entitled>>
    BY <1>1 DEF homeworkVars, locals
  <2>2. TablesTyped'
    BY <2>1, UntouchedTables DEF HomeworkInv
  <2> QED BY <2>1, <2>2 DEF HomeworkInv, LocalsTyped, Serving
<1>2. CASE Enrolling /\ Remember
  <2>1. PICK s \in Student, c \in Section : EnrollmentChanges(s, c)
    BY <1>2 DEF Enrolling
  <2>2. TablesTyped' /\ UNCHANGED <<at, asks, locals>>
    BY <2>1, EnrollmentChangesTyped DEF HomeworkInv, EnrollmentChanges
  <2> QED BY <1>2, <2>2, OthersServe
<1>3. CASE AccessMoves /\ Remember
  <2>1. ASSUME NEW t \in Teacher, NEW c \in Section,
               \/ \E m \in Subject \cup {None, Lost} : AssignmentChanges(t, c, m)
               \/ \E m \in Subject : AccessChanges(t, c, m)
        PROVE  TablesTyped' /\ UNCHANGED <<at, asks, locals>>
    <3>1. CASE \E m \in Subject \cup {None, Lost} : AssignmentChanges(t, c, m)
      BY <3>1, AssignmentChangesTyped DEF HomeworkInv, AssignmentChanges
    <3>2. CASE \E m \in Subject : AccessChanges(t, c, m)
      BY <3>2, AccessChangesTyped DEF HomeworkInv, AccessChanges
    <3> QED BY <2>1, <3>1, <3>2
  <2>2. ASSUME NEW m \in Subject, SubjectDeleted(m)
        PROVE  TablesTyped' /\ UNCHANGED <<at, asks, locals>>
    BY <2>2, SubjectDeletedTyped DEF HomeworkInv, SubjectDeleted
  <2>3. TablesTyped' /\ UNCHANGED <<at, asks, locals>>
    BY <1>3, <2>1, <2>2 DEF AccessMoves
  <2> QED BY <1>3, <2>3, OthersServe
<1> QED BY <1>1, <1>2, <1>3, HandlersServe DEF HomeworkNext

LEMMA HomeworkStarts ==
    ASSUME HomeworkInit
    PROVE  HomeworkInv
<1>1. TablesTyped
  BY HomeworkAssumption DEF HomeworkInit, TablesTyped, HomeworkHasItsSubject, Ids, Id, Fitting, Row
<1>2. LocalsTyped
  BY DEF HomeworkInit, LocalsTyped
<1> QED BY <1>1, <1>2 DEF HomeworkInit, HomeworkInv, Serving

LEMMA HomeworkServes == HomeworkSpec => []HomeworkInv
<1>1. HomeworkInit => HomeworkInv
  BY HomeworkStarts
<1>2. HomeworkInv /\ [HomeworkNext]_homeworkVars => HomeworkInv'
  BY HomeworkKeeps
<1> QED BY <1>1, <1>2, PTL DEF HomeworkSpec

LEMMA ServedWereEntitled == HomeworkInv => OnlyTheEntitledAreServed
BY DEF HomeworkInv, Serving, OnlyTheEntitledAreServed

\* What the list of a teacher, a student and an admin shows of a row.
LEMMA ListedMayBeRead ==
    ASSUME HomeworkInv, NEW u \in User, NEW y \in Year, NEW i \in Ids
    PROVE  i \in ListedFor(u, y) <=> homework[i].year = y /\ MayRead(u, homework[i])
<1> DEFINE h == homework[i]
<1>1. h \in Fitting /\ h.section \in Section
  BY DEF HomeworkInv, TablesTyped, Ids, Fitting, Row
<1>2. u \notin Teacher => ~IsAssignedToSection(u, h) /\ ~HasHomeworkAccess(u, h)
  BY DEF HomeworkInv, TablesTyped, IsAssignedToSection, HasHomeworkAccess
<1>3. u \notin Student => ~IsEnrolled(u, h)
  BY DEF HomeworkInv, TablesTyped, IsEnrolled
<1>4. (\E a \in assigned : a[1] = u /\ a[2] = h.section) <=> IsAssignedToSection(u, h)
  <2>1. ASSUME NEW a \in assigned, a[1] = u, a[2] = h.section
        PROVE  IsAssignedToSection(u, h)
    <3>1. a = <<u, h.section, a[3]>> /\ a[3] \in Subject \cup {None, Lost}
      BY <2>1 DEF HomeworkInv, TablesTyped
    <3> QED BY <3>1 DEF IsAssignedToSection
  <2>2. ASSUME NEW m \in Subject \cup {None, Lost}, <<u, h.section, m>> \in assigned
        PROVE  \E a \in assigned : a[1] = u /\ a[2] = h.section
    <3>1. <<u, h.section, m>>[1] = u /\ <<u, h.section, m>>[2] = h.section
      OBVIOUS
    <3> QED BY <2>2, <3>1
  <2> QED BY <2>1, <2>2 DEF IsAssignedToSection
<1>5. (\E g \in approved : g = <<u, h.section, h.subject>>) <=> HasHomeworkAccess(u, h)
  BY DEF HasHomeworkAccess
<1>6. h.year = y => (IsEnrolled(u, h) <=> <<u, h.section>> \in enrolled /\ y = YearOf[h.section])
  BY DEF IsEnrolled
<1>7. /\ u \in Teacher => u \notin Student /\ u # Admin
      /\ u \in Student => u \notin Teacher /\ u # Admin
      /\ u \in Teacher \cup Student \cup {Admin}
  BY HomeworkAssumption DEF User
<1>8. i \in ListedFor(u, y) <=>
        /\ h.year = y
        /\ u \in Teacher => \/ \E a \in assigned : a[1] = u /\ a[2] = h.section
                            \/ \E g \in approved : g = <<u, h.section, h.subject>>
        /\ u \in Student => <<u, h.section>> \in enrolled /\ y = YearOf[h.section]
  BY DEF ListedFor
<1> HIDE DEF h
<1> QED BY <1>2, <1>3, <1>4, <1>5, <1>6, <1>7, <1>8 DEF MayRead, h

LEMMA ListsAgree ==
    ASSUME HomeworkInv
    PROVE  ListedIsReadable
<1>1. ASSUME NEW u \in User, NEW y \in Year
      PROVE  ListedFor(u, y) = {i \in Ids : homework[i].year = y /\ MayRead(u, homework[i])}
  <2>1. ListedFor(u, y) \subseteq Ids
    BY DEF ListedFor
  <2> QED BY <2>1, ListedMayBeRead
<1> QED BY <1>1 DEF ListedIsReadable


-----------------------------------------------------------------------------
(* What a subject names: rows are of a subject of their section's level     *)

\* Access and assignments are of scopes that have been checked, and an assignment
\* is known by its id.
Scoped ==
    /\ \A a, b \in assignments : a.id = b.id => a = b
    /\ \A i \in Request : access[i].subject # None =>
         <<access[i].section, access[i].subject>> \in SameLevel
    /\ \A r \in Request :
         pc[r] \in {"assigned", "granted", "pending", "insert"} /\ call[r].subject # None =>
           <<call[r].section, call[r].subject>> \in SameLevel

\* Steps of r that leave the rows, and move r on to s.
LEMMA QuietScoped ==
    ASSUME Inv, Scoped, NEW r \in Request, NEW s,
           pc' = [pc EXCEPT ![r] = s], UNCHANGED <<access, assignments>>,
           \A q \in Request \ {r} : call'[q] = call[q],
           s \in {"assigned", "granted", "pending", "insert"} /\ call'[r].subject # None =>
             <<call'[r].section, call'[r].subject>> \in SameLevel
    PROVE  Scoped'
BY DEF Scoped, Inv, TypeOK

LEMMA BeginScoped ==
    ASSUME Inv, Scoped, NEW r \in Request, NEW c \in Calls, Begin(r, c)
    PROVE  Scoped'
<1>1. FirstStep(c) \notin {"assigned", "granted", "pending", "insert"}
  BY CallFacts DEF FirstStep, Creates, Decisions, Others
<1> QED BY <1>1, QuietScoped DEF Begin, Inv, TypeOK

LEMMA OnlyScoped ==
    ASSUME Inv, Scoped, NEW r \in Request, NEW s, Only(r, s),
           \/ s \notin {"assigned", "granted", "pending", "insert"}
           \/ pc[r] \in {"assigned", "granted", "pending"}
           \/ call[r].subject = None
           \/ <<call[r].section, call[r].subject>> \in SameLevel
    PROVE  Scoped'
<1>1. pc' = [pc EXCEPT ![r] = s] /\ UNCHANGED <<access, assignments, call>>
  BY DEF Only, Goto
<1>2. s \in {"assigned", "granted", "pending", "insert"} /\ call'[r].subject # None =>
        <<call'[r].section, call'[r].subject>> \in SameLevel
  BY <1>1 DEF Scoped
<1> QED BY <1>1, <1>2, QuietScoped

LEMMA ChecksScoped ==
    ASSUME Inv, Scoped, NEW r \in Request,
           \/ AssertRequesterIsActiveTeacher(r) \/ AssertValidScope(r)
           \/ AssertNotAssigned(r) \/ AssertNotGranted(r) \/ AssertNoPendingRequest(r)
           \/ AssertNoClassTeacher(r) \/ AssertSubjectExists(r) \/ FindAssignment(r)
           \/ CountAssignments(r) \/ CountActiveAccess(r) \/ FindAccessRequest(r) \/ Reread(r)
    PROVE  Scoped' /\ UNCHANGED <<access, assignments, subjects>>
<1>1. UNCHANGED <<access, assignments, subjects>>
  BY DEF AssertRequesterIsActiveTeacher, AssertValidScope,
     AssertNotAssigned, AssertNotGranted, AssertNoPendingRequest, AssertNoClassTeacher,
     AssertSubjectExists, FindAssignment, CountAssignments, CountActiveAccess, FindAccessRequest,
     Reread, Check, Only, Goto
<1>2. CASE AssertValidScope(r) \/ AssertSubjectExists(r)
  BY <1>1, <1>2, OnlyScoped, RequestAccessAssumption DEF AssertValidScope, AssertSubjectExists, Check
<1>3. CASE AssertNoClassTeacher(r)
  <2>1. call[r].subject = None
    BY <1>3, FitsNow DEF AssertNoClassTeacher, FitsAt
  <2> QED BY <1>1, <1>3, <2>1, OnlyScoped DEF AssertNoClassTeacher, Check
<1>4. CASE AssertNotAssigned(r) \/ AssertNotGranted(r) \/ AssertNoPendingRequest(r)
  BY <1>1, <1>4, OnlyScoped DEF AssertNotAssigned, AssertNotGranted, AssertNoPendingRequest, Check
<1>5. CASE \/ AssertRequesterIsActiveTeacher(r) \/ FindAssignment(r)
           \/ CountAssignments(r) \/ CountActiveAccess(r) \/ FindAccessRequest(r) \/ Reread(r)
  BY <1>1, <1>5, OnlyScoped DEF AssertRequesterIsActiveTeacher, FindAssignment,
     CountAssignments, CountActiveAccess, FindAccessRequest, Reread, Check
<1> QED BY <1>1, <1>2, <1>3, <1>4, <1>5

\* The writes: rows keep their scopes, or lose their subject.
LEMMA AnswerScoped ==
    ASSUME Inv, Scoped, NEW r \in Request, NEW s \in {"ok", "reread"},
           pc' = [pc EXCEPT ![r] = s], UNCHANGED call,
           \A a, b \in assignments' : a.id = b.id => a = b,
           \A i \in Request : access'[i].subject # None =>
             <<access'[i].section, access'[i].subject>> \in SameLevel
    PROVE  Scoped'
BY DEF Scoped, Inv, TypeOK

LEMMA InsertsScoped ==
    ASSUME Inv, Scoped, NEW r \in Request, InsertAccessRequest(r) \/ InsertAssignment(r)
    PROVE  Scoped'
<1> DEFINE c == call[r]
<1>1. pc[r] = "insert" /\ FitsAt(r, "insert")
  BY FitsNow DEF InsertAccessRequest, InsertAssignment
<1>2. CASE Only(r, "refused")
  BY <1>2, OnlyScoped
<1>3. CASE InsertAccessRequest(r) /\ ~Only(r, "refused")
  <2>1. /\ pc' = [pc EXCEPT ![r] = "ok"] /\ UNCHANGED <<call, assignments>>
        /\ \A i \in Request \ {r} : access'[i] = access[i]
        /\ access'[r].section = c.section /\ access'[r].subject = c.subject
    BY <1>3 DEF InsertAccessRequest, Goto, Inv, TypeOK
  <2> QED BY <1>1, <2>1, AnswerScoped DEF Scoped
<1>4. CASE InsertAssignment(r) /\ ~Only(r, "refused")
  <2> DEFINE row == [id |-> r, teacher |-> c.teacher, section |-> c.section, subject |-> c.subject,
                     role |-> IF c.subject = None THEN "CLASS_TEACHER" ELSE "SUBJECT_TEACHER"]
  <2>1. /\ pc' = [pc EXCEPT ![r] = "ok"] /\ UNCHANGED <<call, access>>
        /\ assignments' = assignments \cup {row}
    BY <1>4 DEF InsertAssignment
  <2>2. row.id = r /\ \A a \in assignments : a.id # r
    BY <1>1 DEF FitsAt
  <2> HIDE DEF row
  <2>3. \A a, b \in assignments' : a.id = b.id => a = b
    BY <2>1, <2>2 DEF Scoped
  <2> QED BY <2>1, <2>3, AnswerScoped DEF Scoped
<1> QED BY <1>2, <1>3, <1>4

LEMMA RowSubjects ==
    ASSUME Inv, NEW r \in Request, DeleteSubject(r), ~Only(r, "refused"), NEW i \in Request
    PROVE  /\ access'[i].subject # None => access'[i] = access[i]
           /\ access[i].subject = call[r].subject => access'[i].subject = None
           /\ access[i].subject # call[r].subject => access'[i] = access[i]
<1>1. call[r].subject # None
  BY DeleteSubjectFacts, RequestAccessAssumption DEF Inv, TypeOK
<1>2. access[i].subject = call[r].subject => access[i] \in AccessRow
  BY <1>1 DEF Inv, TypeOK, NoRow
<1>3. access[i] \in AccessRow => Orphan(access[i]).subject = None
  BY OrphanFacts
<1> QED BY <1>2, <1>3, DeleteSubjectFacts

LEMMA WritesScoped ==
    ASSUME Inv, Scoped, NEW r \in Request, UpdateStatus(r) \/ DeleteAssignment(r) \/ DeleteSubject(r)
    PROVE  Scoped'
<1>1. CASE Only(r, "refused")
  BY <1>1, OnlyScoped
<1>2. CASE UpdateStatus(r)
  <2>1. /\ pc' = [pc EXCEPT ![r] = "reread"] /\ UNCHANGED <<call, assignments>>
        /\ \/ access' = [access EXCEPT ![call[r].row].status = Target(call[r].op)]
           \/ UNCHANGED access
    BY <1>2 DEF UpdateStatus, Goto
  <2>2. \A i \in Request : /\ access'[i].section = access[i].section
                           /\ access'[i].subject = access[i].subject
    BY <2>1 DEF Inv, TypeOK, AccessRow, NoRow
  <2> QED BY <2>1, <2>2, AnswerScoped DEF Scoped
<1>3. CASE DeleteAssignment(r) /\ ~Only(r, "refused")
  <2>1. /\ pc' = [pc EXCEPT ![r] = "ok"] /\ UNCHANGED <<call, access>>
        /\ assignments' \subseteq assignments
    BY <1>3 DEF DeleteAssignment
  <2> QED BY <2>1, AnswerScoped DEF Scoped
<1>4. CASE DeleteSubject(r) /\ ~Only(r, "refused")
  <2> DEFINE m == call[r].subject
  <2>1. /\ pc' = [pc EXCEPT ![r] = "ok"] /\ UNCHANGED call
        /\ assignments' = {IF a.subject = m THEN Orphan(a) ELSE a : a \in assignments}
    BY <1>4, DeleteSubjectFacts
  <2>2. \A i \in Request : access'[i].subject # None => access'[i] = access[i]
    BY <1>4, RowSubjects
  <2>3. ASSUME NEW a \in assignments', NEW b \in assignments', a.id = b.id
        PROVE  a = b
    <3>1. PICK x \in assignments : a = IF x.subject = m THEN Orphan(x) ELSE x
      BY <2>1
    <3>2. PICK y \in assignments : b = IF y.subject = m THEN Orphan(y) ELSE y
      BY <2>1
    <3>3. x.id = a.id /\ y.id = b.id
      BY <3>1, <3>2, OrphanFacts DEF Inv, TypeOK
    <3> QED BY <2>3, <3>1, <3>2, <3>3 DEF Scoped
  <2> QED BY <2>1, <2>2, <2>3, AnswerScoped DEF Scoped
<1> QED BY <1>1, <1>2, <1>3, <1>4

LEMMA NextScoped ==
    ASSUME Inv, Scoped, [Next]_vars
    PROVE  Scoped'
<1>1. CASE UNCHANGED vars \/ \E t \in Teacher : SetActive(t)
  <2>1. UNCHANGED <<access, assignments, pc, call>>
    BY <1>1 DEF vars, SetActive
  <2> QED BY <2>1 DEF Scoped
<1>2. ASSUME NEW r \in Request, Proceed(r)
      PROVE  Scoped'
  BY <1>2, ChecksScoped, InsertsScoped, WritesScoped DEF Proceed
<1> QED BY <1>1, <1>2, BeginScoped DEF Next

LEMMA InitScoped == Init => Scoped
BY DEF Init, Scoped, NoRow


-----------------------------------------------------------------------------
(* RequestAccess moves the tables that Homework reads as Homework allows    *)

Untouched == UNCHANGED <<homework, enrolled, at, asks, found, unread, yes>>

Unseen == UNCHANGED <<assigned, approved, subjects>>

\* Whoever is entitled is remembered, so a step that changes nothing for the calls
\* changes nothing in what is remembered.
Recorded == \A r \in Caller : at[r] \notin {"idle", "ok"} /\ Entitled(r) => entitled[r]

LEMMA SameEntitlement ==
    ASSUME Untouched, Unseen, NEW r \in Caller
    PROVE  Entitled(r)' <=> Entitled(r)
<1>1. /\ asks' = asks /\ found' = found /\ at' = at /\ enrolled' = enrolled
      /\ assigned' = assigned /\ approved' = approved
  BY DEF Untouched, Unseen
<1> QED BY <1>1 DEF Entitled, MayRead, MayWrite, Covers, IsAssignedToSection,
           HasHomeworkAccess, IsEnrolled

LEMMA UnseenStutters ==
    ASSUME HomeworkInv, Recorded, Remember, Untouched, Unseen
    PROVE  UNCHANGED homeworkVars
<1>1. ASSUME NEW r \in Caller
      PROVE  entitled'[r] = entitled[r]
  <2>1. at'[r] = at[r] /\ entitled[r] \in BOOLEAN /\ entitled'[r] \in BOOLEAN
    BY RememberTyped DEF Untouched, HomeworkInv, LocalsTyped
  <2>2. CASE at[r] \in {"idle", "ok"}
    BY <2>1, <2>2, RememberedOk DEF HomeworkInv, Serving
  <2>3. CASE at[r] \notin {"idle", "ok"}
    <3>1. entitled'[r] <=> (entitled[r] \/ Entitled(r) \/ Entitled(r)')
      BY <2>1, <2>3, Remembered DEF HomeworkInv
    <3>2. entitled'[r] <=> entitled[r]
      BY <2>3, <3>1, SameEntitlement DEF Recorded
    <3> QED BY <2>1, <3>2
  <2> QED BY <2>2, <2>3
<1>2. entitled' = entitled
  BY <1>1, RememberTyped DEF HomeworkInv, LocalsTyped
<1> QED BY <1>2 DEF Untouched, Unseen, homeworkVars, tables, locals

LEMMA AlwaysRecorded ==
    ASSUME HomeworkInv, HomeworkInv', Remember, \A r \in Caller : at[r] = "ok" => at'[r] = "ok"
    PROVE  Recorded'
BY Remembered DEF HomeworkInv, Recorded

\* Approvals, but for one row.
LEMMA OneRow ==
    ASSUME Views, Views', NEW i \in Request,
           \A j \in Request \ {i} : (Approves(j)' <=> Approves(j)) /\ Scope(j)' = Scope(j)
    PROVE  /\ ~Approves(i) /\ ~Approves(i)' => approved' = approved
           /\ ~Approves(i) /\ Approves(i)' => approved' = approved \cup {Scope(i)'}
           /\ Approves(i) /\ ~Approves(i)' =>
                \/ approved' = approved
                \/ Scope(i) \in approved /\ approved' = approved \ {Scope(i)}
<1> DEFINE Rest == {Scope(j) : j \in {k \in Request \ {i} : Approves(k)}}
<1>1. approved = Rest \cup (IF Approves(i) THEN {Scope(i)} ELSE {})
  BY DEF Views, Places, ApprovedScopes
<1>2. approved' = Rest \cup (IF Approves(i)' THEN {Scope(i)'} ELSE {})
  BY DEF Views, Places, ApprovedScopes
<1> HIDE DEF Rest
<1> QED BY <1>1, <1>2

LEMMA ApprovalFits ==
    ASSUME Inv, Scoped, NEW i \in Request, Approves(i)
    PROVE  /\ access[i].requester \in Teacher /\ access[i].section \in Section
           /\ access[i].subject \in subjects /\ access[i].subject \in Subject
           /\ <<access[i].section, access[i].subject>> \in SameLevel
BY RowFacts DEF Approves, Inv, TypeOK, Scoped, AccessRow, NoRow

LEMMA ApprovalWillFit ==
    ASSUME Inv', Scoped', NEW i \in Request, Approves(i)'
    PROVE  /\ access'[i].requester \in Teacher /\ access'[i].section \in Section
           /\ access'[i].subject \in subjects' /\ access'[i].subject \in Subject
           /\ <<access'[i].section, access'[i].subject>> \in SameLevel
<1>1. access'[i] \in AccessRow'
  BY DEF Approves, Inv, TypeOK, NoRow
<1> QED BY <1>1 DEF Approves, Inv, TypeOK, Scoped, AccessRow

LEMMA InsertAccessRequestSeen ==
    ASSUME Inv, Scoped, Inv', Scoped', Views, Views', Untouched,
           NEW r \in Request, InsertAccessRequest(r)
    PROVE  Unseen \/ AccessMoves
<1>1. FitsAt(r, "insert") /\ pc[r] = "insert"
  BY FitsNow DEF InsertAccessRequest
<1>2. UNCHANGED <<assignments, subjects>> /\ assigned' = assigned
  BY DEF InsertAccessRequest, Only, Goto, Views, Places, ApprovedScopes
<1>3. \A j \in Request \ {r} : access'[j] = access[j]
  BY DEF InsertAccessRequest, Only, Goto, Inv, TypeOK
<1>4. ~Approves(r)
  BY <1>1 DEF FitsAt, Approves, NoRow
<1>5. \A j \in Request \ {r} : (Approves(j)' <=> Approves(j)) /\ Scope(j)' = Scope(j)
  BY <1>3 DEF Approves, Scope
<1>6. CASE ~Approves(r)'
  BY <1>2, <1>4, <1>5, <1>6, OneRow DEF Unseen
<1>7. CASE Approves(r)'
  <2> DEFINE t == access'[r].requester  c == access'[r].section  m == access'[r].subject
  <2>1. t \in Teacher /\ c \in Section /\ m \in subjects /\ m \in Subject /\ <<c, m>> \in SameLevel
    BY <1>2, <1>7, ApprovalWillFit
  <2>2. approved' = approved \cup {<<t, c, m>>}
    BY <1>4, <1>5, <1>7, OneRow DEF Scope
  <2> HIDE DEF t, c, m
  <2>3. AccessChanges(t, c, m)
    BY <1>2, <2>1, <2>2 DEF AccessChanges, Untouched, locals
  <2> QED BY <2>1, <2>3 DEF AccessMoves
<1> QED BY <1>6, <1>7


LEMMA UpdateStatusSeen ==
    ASSUME Inv, Scoped, Inv', Scoped', Views, Views', Untouched,
           NEW r \in Request, UpdateStatus(r)
    PROVE  Unseen \/ AccessMoves
<1>1. UNCHANGED <<assignments, subjects>> /\ assigned' = assigned
  BY DEF UpdateStatus, Goto, Views, Places, ApprovedScopes
<1>2. CASE UNCHANGED access
  BY <1>1, <1>2 DEF Unseen, Views, Places, ApprovedScopes, Approves, Scope
<1>3. CASE /\ access[call[r].row].status = Expected(call[r].op)
           /\ access' = [access EXCEPT ![call[r].row].status = Target(call[r].op)]
  <2>1. call[r].row \in Request
    BY FitsNow, CallFacts DEF UpdateStatus, FitsAt, Done
  <2>2. PICK i \in Request : i = call[r].row
    BY <2>1
  <2> DEFINE t == access[i].requester  c == access[i].section  m == access[i].subject
  <2>3. access[i] \in AccessRow
    BY <1>3, <2>2, NoRowIsNoRow, DecisionFacts, FitsNow DEF Inv, TypeOK, Expected
  <2>4. /\ \A j \in Request \ {i} : access'[j] = access[j]
        /\ access'[i].type = access[i].type /\ access'[i].requester = t
        /\ access'[i].section = c /\ access'[i].subject = m
    BY <1>3, <2>2, <2>3 DEF Inv, TypeOK, AccessRow
  <2>5. \A j \in Request \ {i} : (Approves(j)' <=> Approves(j)) /\ Scope(j)' = Scope(j)
    BY <2>4 DEF Approves, Scope
  <2>6. ~(Approves(i) /\ Approves(i)')
    <3>1. access'[i].status = Target(call[r].op)
      BY <1>3, <2>2, <2>3 DEF Inv, TypeOK, AccessRow
    <3> QED BY <1>3, <2>2, <3>1 DEF Approves, Expected, Target
  <2>7. CASE ~Approves(i) /\ ~Approves(i)'
    BY <1>1, <2>2, <2>5, <2>7, OneRow DEF Unseen
  <2>8. CASE ~Approves(i) /\ Approves(i)'
    <3>1. t \in Teacher /\ c \in Section /\ m \in subjects /\ m \in Subject /\ <<c, m>> \in SameLevel
      BY <1>1, <2>2, <2>4, <2>8, ApprovalWillFit
    <3>2. approved' = approved \cup {<<t, c, m>>}
      BY <2>2, <2>4, <2>5, <2>8, OneRow DEF Scope
    <3> HIDE DEF t, c, m
    <3>3. AccessChanges(t, c, m)
      BY <1>1, <3>1, <3>2 DEF AccessChanges, Untouched, locals
    <3> QED BY <3>1, <3>3 DEF AccessMoves
  <2>9. CASE Approves(i) /\ ~Approves(i)'
    <3>1. t \in Teacher /\ c \in Section /\ m \in Subject
      BY <2>2, <2>9, ApprovalFits
    <3>2. \/ approved' = approved
          \/ <<t, c, m>> \in approved /\ approved' = approved \ {<<t, c, m>>}
      BY <2>2, <2>5, <2>9, OneRow DEF Scope
    <3> HIDE DEF t, c, m
    <3>3. Unseen \/ AccessChanges(t, c, m)
      BY <1>1, <3>2 DEF AccessChanges, Untouched, locals, Unseen
    <3> QED BY <3>1, <3>3 DEF AccessMoves
  <2> QED BY <2>6, <2>7, <2>8, <2>9
<1> QED BY <1>2, <1>3 DEF UpdateStatus

LEMMA PlaceFits ==
    ASSUME Inv, NEW a \in assignments
    PROVE  \E t \in Teacher, c \in Section, m \in Subject \cup {None, Lost} : Place(a) = <<t, c, m>>
<1>1. a.teacher \in Teacher /\ a.section \in Section /\ a.subject \in Subject \cup {None}
  BY DEF Inv, TypeOK, AssignmentRow
<1> QED BY <1>1 DEF Place

LEMMA InsertAssignmentSeen ==
    ASSUME Inv, Scoped, Views, Views', Untouched,
           NEW r \in Request, InsertAssignment(r)
    PROVE  Unseen \/ AccessMoves
<1> DEFINE t == call[r].teacher  c == call[r].section  m == call[r].subject
           row == [id |-> r, teacher |-> t, section |-> c, subject |-> m,
                   role |-> IF m = None THEN "CLASS_TEACHER" ELSE "SUBJECT_TEACHER"]
<1>1. UNCHANGED <<access, subjects>> /\ approved' = approved
  BY DEF InsertAssignment, Only, Goto, Views, Places, ApprovedScopes, Approves, Scope
<1>2. CASE UNCHANGED assignments
  BY <1>1, <1>2 DEF Unseen, Views, Places, ApprovedScopes
<1>3. CASE assignments' = assignments \cup {row} /\ (m # None => m \in subjects)
  <2>1. pc[r] = "insert" /\ t \in Teacher /\ c \in Section /\ m \in Subject \cup {None}
    BY FitsNow, CallFacts DEF InsertAssignment, FitsAt, Done
  <2>2. m # None => <<c, m>> \in SameLevel
    BY <2>1 DEF Scoped
  <2>3. Place(row) = <<t, c, m>>
    BY DEF Place
  <2>4. m # Lost
    BY <2>1, HomeworkAssumption
  <2> HIDE DEF row, t, c, m
  <2>5. assigned' = assigned \cup {<<t, c, m>>}
    BY <1>3, <2>3 DEF Views, Places, ApprovedScopes
  <2>6. AssignmentChanges(t, c, m)
    BY <1>1, <1>3, <2>2, <2>4, <2>5 DEF AssignmentChanges, Untouched, locals
  <2> QED BY <2>1, <2>6 DEF AccessMoves
<1> QED BY <1>2, <1>3 DEF InsertAssignment, Only, Goto

LEMMA DeleteAssignmentSeen ==
    ASSUME Inv, Scoped, Views, Views', Untouched, NEW r \in Request, DeleteAssignment(r)
    PROVE  Unseen \/ AccessMoves
<1>1. UNCHANGED <<access, subjects>> /\ approved' = approved
  BY DEF DeleteAssignment, Only, Goto, Views, Places, ApprovedScopes, Approves, Scope
<1>2. CASE UNCHANGED assignments
  BY <1>1, <1>2 DEF Unseen, Views, Places, ApprovedScopes
<1>3. CASE /\ \E a \in assignments : a.id = call[r].row
           /\ assignments' = {a \in assignments : a.id # call[r].row}
  <2>1. PICK a \in assignments : a.id = call[r].row
    BY <1>3
  <2>2. assignments' = assignments \ {a}
    BY <1>3, <2>1 DEF Scoped
  <2>3. PICK t \in Teacher, c \in Section, m \in Subject \cup {None, Lost} : Place(a) = <<t, c, m>>
    BY <2>1, PlaceFits
  <2>4. \/ assigned' = assigned
        \/ <<t, c, m>> \in assigned /\ assigned' = assigned \ {<<t, c, m>>}
    <3> DEFINE Rest == {Place(b) : b \in assignments \ {a}}
    <3>1. assigned = Rest \cup {<<t, c, m>>} /\ assigned' = Rest
      BY <2>2, <2>3 DEF Views, Places, ApprovedScopes
    <3> HIDE DEF Rest
    <3> QED BY <3>1
  <2>5. Unseen \/ AssignmentChanges(t, c, m)
    BY <1>1, <2>4 DEF AssignmentChanges, Untouched, locals, Unseen
  <2> QED BY <2>5 DEF AccessMoves
<1> QED BY <1>2, <1>3 DEF DeleteAssignment, Only, Goto


\* A deleted subject leaves its assignments their teacher and section.
LEMMA PlaceLost ==
    ASSUME NEW a \in AssignmentRow, NEW m \in Subject
    PROVE  Place(IF a.subject = m THEN Orphan(a) ELSE a) =
             IF Place(a)[3] = m THEN <<Place(a)[1], Place(a)[2], Lost>> ELSE Place(a)
<1>1. m # None /\ m # Lost
  BY HomeworkAssumption
<1>2. /\ Orphan(a).teacher = a.teacher /\ Orphan(a).section = a.section
      /\ Orphan(a).role = a.role /\ Orphan(a).subject = None
  BY DEF Orphan, AssignmentRow
<1>3. CASE a.role = "CLASS_TEACHER"
  <2>1. Place(a) = <<a.teacher, a.section, None>> /\ Place(Orphan(a)) = Place(a)
    BY <1>2, <1>3 DEF Place
  <2> QED BY <1>1, <2>1
<1>4. CASE a.role # "CLASS_TEACHER" /\ a.subject = m
  <2>1. /\ Place(a) = <<a.teacher, a.section, m>>
        /\ Place(Orphan(a)) = <<a.teacher, a.section, Lost>>
    BY <1>1, <1>2, <1>4 DEF Place
  <2> QED BY <1>4, <2>1
<1>5. CASE a.role # "CLASS_TEACHER" /\ a.subject # m
  <2>1. Place(a)[3] # m
    BY <1>1, <1>5 DEF Place
  <2> QED BY <1>5, <2>1
<1> QED BY <1>3, <1>4, <1>5

LEMMA DeleteSubjectSeen ==
    ASSUME Inv, Views, Views', Untouched, HomeworkRestricts,
           NEW r \in Request, DeleteSubject(r)
    PROVE  Unseen \/ AccessMoves
<1>1. CASE Only(r, "refused")
  BY <1>1 DEF Only, Goto, Unseen, Views, Places, ApprovedScopes, Approves, Scope
<1>2. CASE ~Only(r, "refused")
  <2>1. PICK m \in subjects : m = call[r].subject
    BY <1>2, DeleteSubjectFacts
  <2>2. /\ subjects' = subjects \ {m} /\ m \in Subject
        /\ assignments' = {IF a.subject = m THEN Orphan(a) ELSE a : a \in assignments}
    BY <1>2, <2>1, DeleteSubjectFacts DEF Inv, TypeOK
  <2>3. assigned' = {IF p[3] = m THEN <<p[1], p[2], Lost>> ELSE p : p \in assigned}
    <3>1. \A a \in assignments : Place(IF a.subject = m THEN Orphan(a) ELSE a) =
            IF Place(a)[3] = m THEN <<Place(a)[1], Place(a)[2], Lost>> ELSE Place(a)
      BY <2>2, PlaceLost DEF Inv, TypeOK
    <3>2. assigned' = {Place(IF a.subject = m THEN Orphan(a) ELSE a) : a \in assignments}
      BY <2>2 DEF Views, Places, ApprovedScopes
    <3>3. {IF p[3] = m THEN <<p[1], p[2], Lost>> ELSE p : p \in assigned} =
            {IF Place(a)[3] = m THEN <<Place(a)[1], Place(a)[2], Lost>> ELSE Place(a) : a \in assignments}
      BY DEF Views, Places, ApprovedScopes
    <3> QED BY <3>1, <3>2, <3>3
  <2>4. ASSUME NEW i \in Request
        PROVE  /\ Approves(i)' <=> Approves(i) /\ access[i].subject # m
               /\ Approves(i)' => Scope(i)' = Scope(i)
    BY <1>2, <2>1, RowSubjects DEF Approves, Scope
  <2>5. approved' = {g \in approved : g[3] # m}
    <3>1. \A i \in Request : Scope(i)[3] = access[i].subject
      BY DEF Scope
    <3>2. approved' = {Scope(i) : i \in {j \in Request : Approves(j) /\ access[j].subject # m}}
      BY <2>4 DEF Views, Places, ApprovedScopes
    <3> QED BY <3>1, <3>2 DEF Views, Places, ApprovedScopes
  <2>6. \A i \in Ids : homework[i].subject # m
    BY <2>2 DEF HomeworkRestricts
  <2>7. SubjectDeleted(m)
    BY <2>1, <2>2, <2>3, <2>5, <2>6 DEF SubjectDeleted, Untouched, locals
  <2> QED BY <2>2, <2>7 DEF AccessMoves
<1> QED BY <1>1, <1>2

LEMMA OthersSeen ==
    ASSUME Views, Views', UNCHANGED <<access, assignments, subjects>>
    PROVE  Unseen
BY DEF Unseen, Views, Places, ApprovedScopes, Approves, Scope

LEMMA NextSeen ==
    ASSUME Inv, Scoped, Views, Views',
           Untouched, HomeworkRestricts, Next
    PROVE  Unseen \/ AccessMoves
<1>1. Inv' /\ Scoped'
  BY NextKeeps, NextScoped
<1>2. ASSUME NEW r \in Request, Proceed(r)
      PROVE  Unseen \/ AccessMoves
  BY <1>1, <1>2, ChecksScoped, OthersSeen, InsertAccessRequestSeen, UpdateStatusSeen, InsertAssignmentSeen,
     DeleteAssignmentSeen, DeleteSubjectSeen DEF Proceed
<1>3. ASSUME NEW r \in Request, NEW c \in Calls, Begin(r, c)
      PROVE  Unseen
  BY <1>3, OthersSeen DEF Begin
<1>4. ASSUME NEW t \in Teacher, SetActive(t)
      PROVE  Unseen
  BY <1>4, OthersSeen DEF SetActive
<1> QED BY <1>2, <1>3, <1>4 DEF Next

\* The invariant of the composition.
Together == Inv /\ Scoped /\ Views /\ HomeworkInv /\ Recorded

\* a call that has been answered has been answered
LEMMA HomeworkDone ==
    ASSUME HomeworkInv, [HomeworkNext]_homeworkVars, NEW q \in Caller, at[q] = "ok"
    PROVE  at'[q] = "ok"
<1>1. ASSUME NEW r \in Caller, NEW s, at' = [at EXCEPT ![r] = s], at[r] # "ok"
      PROVE  at'[q] = "ok"
  BY <1>1 DEF HomeworkInv, LocalsTyped
<1>2. ASSUME NEW r \in Caller, Serve(r)
      PROVE  at'[q] = "ok"
  <2>1. at[r] # "ok"
    BY <1>2 DEF Serve, MatchSubject, FindHomework, FindCoverage, FindGrant, Insert,
       Write, StatementFails, Busy, QueryAnswered
  <2>2. at' = at \/ \E s : at' = [at EXCEPT ![r] = s]
    BY <1>2 DEF Serve, MatchSubject, FindHomework, FindCoverage, FindGrant, Insert,
       Write, StatementFails, QueryAnswered, Store, Refuse, End, Onto, Work
  <2> QED BY <1>1, <2>1, <2>2
<1>3. ASSUME NEW r \in Caller, NEW c \in Asks, Ask(r, c)
      PROVE  at'[q] = "ok"
  BY <1>1, <1>3 DEF Ask
<1>4. CASE UNCHANGED at
  BY <1>4
<1>5. Enrolling \/ AccessMoves \/ UNCHANGED homeworkVars => UNCHANGED at
  BY DEF Enrolling, AccessMoves, EnrollmentChanges, AssignmentChanges, AccessChanges,
     SubjectDeleted, homeworkVars
<1> QED BY <1>2, <1>3, <1>4, <1>5 DEF HomeworkNext, Handlers

LEMMA SameViews ==
    ASSUME Views, UNCHANGED <<access, assignments, assigned, approved>>
    PROVE  Views'
BY DEF Views, Places, ApprovedScopes, Approves, Scope

LEMMA HomeworkLeaves ==
    ASSUME Handlers \/ Enrolling
    PROVE  UNCHANGED <<assigned, approved>>
<1>1. ASSUME NEW r \in Caller, Serve(r)
      PROVE  UNCHANGED <<assigned, approved>>
  BY <1>1 DEF Serve, MatchSubject, FindHomework, FindCoverage, FindGrant, Insert, Write,
     StatementFails, QueryAnswered, Store, Refuse, Work, tables
<1>2. ASSUME NEW r \in Caller, NEW c \in Asks, Ask(r, c)
      PROVE  UNCHANGED <<assigned, approved>>
  BY <1>2 DEF Ask, tables
<1> QED BY <1>1, <1>2 DEF Handlers, Enrolling, EnrollmentChanges

LEMMA StepsTogether ==
    ASSUME Together, [AllNext]_<<vars, homeworkVars>>
    PROVE  [HomeworkNext]_homeworkVars /\ Together'
<1>1. [HomeworkNext]_homeworkVars
  <2>1. CASE UNCHANGED <<vars, homeworkVars>>
    BY <2>1 DEF homeworkVars
  <2>2. CASE HomeworkSteps /\ Remember
    BY <2>2 DEF HomeworkSteps, HomeworkNext
  <2>3. CASE AccessSteps /\ Remember
    <3>1. Untouched /\ HomeworkRestricts /\ Next
      BY <2>3 DEF AccessSteps, Untouched, locals
    <3>2. Unseen \/ AccessMoves
      BY <2>3, <3>1, NextSeen DEF Together, AccessSteps, Views
    <3> QED BY <2>3, <3>1, <3>2, UnseenStutters DEF Together, HomeworkNext
  <2> QED BY <2>1, <2>2, <2>3 DEF AllNext
<1>2. HomeworkInv'
  BY <1>1, HomeworkKeeps DEF Together
<1>3. [Next]_vars
  BY DEF AllNext, HomeworkSteps, AccessSteps
<1>4. Inv' /\ Scoped'
  BY <1>3, NextKeeps, NextScoped DEF Together
<1>5. Views'
  <2>1. CASE UNCHANGED <<vars, homeworkVars>>
    BY <2>1, SameViews DEF Together, vars, homeworkVars, tables
  <2>2. CASE HomeworkSteps
    BY <2>2, SameViews, HomeworkLeaves DEF Together, HomeworkSteps, vars
  <2> QED BY <2>1, <2>2 DEF AllNext, AccessSteps, Views
<1>6. Recorded'
  <2>1. CASE UNCHANGED <<vars, homeworkVars>>
    <3>1. Untouched /\ Unseen /\ entitled' = entitled /\ at' = at
      BY <2>1 DEF homeworkVars, tables, locals, Untouched, Unseen
    <3> QED BY <3>1, SameEntitlement DEF Together, Recorded
  <2>2. CASE Remember
    BY <1>1, <1>2, <2>2, HomeworkDone, AlwaysRecorded DEF Together
  <2> QED BY <2>1, <2>2 DEF AllNext
<1> QED BY <1>1, <1>2, <1>4, <1>5, <1>6 DEF Together

LEMMA StartsTogether ==
    ASSUME AllInit
    PROVE  HomeworkInit /\ Together
<1>1. HomeworkInit /\ HomeworkInv /\ Inv /\ Scoped
  BY InitHolds, InitScoped, HomeworkStarts DEF AllInit
<1>2. Recorded
  BY <1>1 DEF HomeworkInit, Recorded
<1>3. Views
  BY DEF AllInit, Init, HomeworkInit, Views, Places, ApprovedScopes, Approves, NoRow
<1> QED BY <1>1, <1>2, <1>3 DEF Together

LEMMA AlwaysTogether == All => []Together
<1>1. AllInit => Together
  BY StartsTogether
<1>2. Together /\ [AllNext]_<<vars, homeworkVars>> => Together'
  BY StepsTogether
<1> QED BY <1>1, <1>2, PTL DEF All

\* What Homework says of assignments, approvals and subjects is true of the handlers
\* that write them: every step of access requests, assignments and subjects is
\* one that Homework allows, or none that a call about homework can see.
THEOREM AccessMovesAsHomeworkAllows == All => HomeworkSpec
<1>1. AllInit => HomeworkInit
  BY StartsTogether
<1>2. Together /\ [AllNext]_<<vars, homeworkVars>> => [HomeworkNext]_homeworkVars
  BY StepsTogether
<1> QED BY <1>1, <1>2, AlwaysTogether, PTL DEF All, HomeworkSpec

\* Access is checked on every request: whoever gives, changes, deletes or is shown
\* homework was entitled to just that at some moment of the call, for any number of
\* calls, teachers, students and sections, and however assignments, approvals,
\* enrollments and subjects come and go between the statements.
THEOREM OnlyTheEntitledServed == HomeworkSpec => []OnlyTheEntitledAreServed
BY ServedWereEntitled, HomeworkServes, PTL

\* The list of homework and the single rows agree on who may read what.
THEOREM ListedHomeworkIsReadable == HomeworkSpec => []ListedIsReadable
<1>1. HomeworkInv => ListedIsReadable
  BY ListsAgree
<1> QED BY <1>1, HomeworkServes, PTL

\* With the handlers that write assignments, approvals and subjects in place of any
\* change at all: whoever is served was entitled, the list and the rows agree, and
\* homework keeps its subject.
THEOREM HomeworkServedOverAccess ==
    All => [](OnlyTheEntitledAreServed /\ ListedIsReadable /\ HomeworkHasItsSubject)
<1>1. Together => OnlyTheEntitledAreServed /\ ListedIsReadable /\ HomeworkHasItsSubject
  BY ServedWereEntitled, ListsAgree DEF Together, HomeworkInv, TablesTyped
<1> QED BY <1>1, AlwaysTogether, PTL
=============================================================================
