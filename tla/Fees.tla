-------------------------------- MODULE Fees --------------------------------
(***************************************************************************)
(* fees.service.ts, for one academic year: the price of each class level,  *)
(* the fee record a student gets with the enrollment or from a backfill,   *)
(* and the payments from which the status of a record is derived.          *)
(*                                                                         *)
(* Nothing here runs in a transaction: every awaited statement is a step,  *)
(* and any of them may fail with a database error.  Each call is a request *)
(* of its own, answered once; a payment has the name of the call that made *)
(* it.  Structures, records, payments and sections are never deleted; a    *)
(* section's class level may change at any time (sections.service.ts).     *)
(* promote generates records one by one with the statements of enroll.     *)
(* Amounts are taken as whole cents, though the DTO does not make them so; *)
(* the columns are double precision, so a sum that should equal the price  *)
(* may miss it.                                                            *)
(***************************************************************************)
EXTENDS Amounts

CONSTANTS Request, Student, Section, Level,
          SectionOf,       \* the section a student enrolls in
          Price, Payment,  \* the values of totalAmount and of amount
          Ops,             \* the operations called in this instance
          None

Calling == {"createStructure", "updateStructure", "enroll", "backfill", "recordPayment",
            "updateSection"}

Status == {"PENDING", "PARTIAL", "PAID"}

ASSUME FeesAssumption ==
    /\ Price \subseteq Nat \ {0}
    /\ Payment \subseteq Nat \ {0}
    /\ SectionOf \in [Student -> Section]
    /\ Ops \subseteq Calling
    /\ None \notin Int \cup Student \cup Section \cup Level \cup Request \cup Status

VARIABLES
    price,      \* totalAmount of each level's FeeStructure, None without one
    level,      \* the class level of each section
    enrolled,   \* students with an ACTIVE enrollment
    records,    \* FeeRecord of each student, or NoRecord
    payments,   \* FeePayment rows
    pc, call, seen,
    alone,      \* history: no two handlers have been in flight at once so far
    moved       \* history: sections whose level has changed since a backfill read it

sections == <<level, moved>>
vars == <<price, sections, enrolled, records, payments, pc, call, seen, alone>>
tables == <<price, sections, enrolled, records, payments>>

NoRecord == [total |-> None, status |-> None]

PaymentsOf(s) == {p \in payments : p.student = s}

Body(op, ls, students, amounts, ss) ==
    [op : {op}, level : ls, student : students, amount : amounts, section : ss]

Calls ==
    {c \in UNION {
         Body("createStructure", Level, {None}, Price, {None}),
         Body("updateStructure", Level, {None}, Price \cup {None}, {None}),
         Body("enroll", {None}, Student, {None}, {None}),
         Body("backfill", {None}, {None}, {None}, {None}),
         Body("recordPayment", {None}, Student, Payment, {None}),
         Body("updateSection", Level, {None}, {None}, Section)} : c.op \in Ops}

NoCall == [op |-> "none", level |-> None, student |-> None, amount |-> None, section |-> None]

\* what a handler has read: the student it is at, the level of the student's
\* section, the price, the status it has derived; and of a backfill the students
\* it found, each with the level the section had then, those left, and whether
\* it has counted one as skipped
Nothing == [student |-> None, level |-> None, total |-> None, status |-> None,
            found |-> [s \in {} |-> None], left |-> {}, skipped |-> FALSE]

\* what earlier calls have left: a record keeps the price of its enrollment,
\* whatever the structure says now
Init ==
    /\ price \in [Level -> Price \cup {None}]
    /\ level \in [Section -> Level] /\ moved = [r \in Request |-> {}]
    /\ enrolled \in SUBSET Student
    /\ records \in [Student -> [total : Price, status : {"PENDING"}] \cup {NoRecord}]
    /\ \A s \in Student \ enrolled : records[s] = NoRecord
    /\ payments = {}
    /\ pc = [r \in Request |-> "idle"]
    /\ call = [r \in Request |-> NoCall]
    /\ seen = [r \in Request |-> Nothing]
    /\ alone = TRUE

Done == {"ok", "refused", "failed"}

Running == {r \in Request : pc[r] \notin Done \cup {"idle"}}

FirstStep(c) == CASE c.op = "createStructure" -> "createStructure"
                  [] c.op = "updateStructure" -> "findStructure"
                  [] c.op = "enroll" -> "enroll"
                  [] c.op = "backfill" -> "findEnrollments"
                  [] c.op = "updateSection" -> "findSection"
                  [] OTHER -> "findRecord"

Begin(r, c) ==
    /\ pc[r] = "idle"
    /\ call' = [call EXCEPT ![r] = c]
    /\ pc' = [pc EXCEPT ![r] = FirstStep(c)]
    /\ seen' = [seen EXCEPT ![r].student = c.student]
    /\ alone' = (alone /\ Running = {})
    /\ UNCHANGED tables

\* an answered call leaves nothing behind but its outcome
Answer(r, outcome) ==
    /\ pc' = [pc EXCEPT ![r] = outcome]
    /\ call' = [call EXCEPT ![r] = NoCall]
    /\ seen' = [seen EXCEPT ![r] = Nothing]
    /\ UNCHANGED alone

Continue(r, s, what) ==
    /\ pc' = [pc EXCEPT ![r] = s]
    /\ seen' = [seen EXCEPT ![r] = what]
    /\ UNCHANGED <<call, alone>>

-----------------------------------------------------------------------------
(* structures                                                               *)

\* the unique index on class level and year refuses a second one
CreateFeeStructure(r) ==
    LET l == call[r].level
    IN  /\ pc[r] = "createStructure"
        /\ price' = IF price[l] = None THEN [price EXCEPT ![l] = call[r].amount] ELSE price
        /\ Answer(r, IF price[l] = None THEN "ok" ELSE "refused")
        /\ UNCHANGED <<sections, enrolled, records, payments>>

AssertFeeStructureExists(r) ==
    /\ pc[r] = "findStructure"
    /\ IF price[call[r].level] = None THEN Answer(r, "refused")
                                      ELSE Continue(r, "updateStructure", seen[r])
    /\ UNCHANGED tables

\* without an amount the update changes the due date only
UpdateFeeStructure(r) ==
    /\ pc[r] = "updateStructure"
    /\ price' = [price EXCEPT ![call[r].level] = IF call[r].amount = None THEN @
                                                                        ELSE call[r].amount]
    /\ Answer(r, "ok") /\ UNCHANGED <<sections, enrolled, records, payments>>

-----------------------------------------------------------------------------
(* sections: SectionsService.update                                         *)

\* its name may be taken, by another section of the year
FindSection(r) ==
    /\ pc[r] = "findSection"
    /\ Continue(r, "updateSection", seen[r]) \/ Answer(r, "refused")
    /\ UNCHANGED tables

\* backfills in flight that have read the enrollments
Reading == {r \in Request : call[r].op = "backfill" /\ pc[r] # "findEnrollments"}

\* an update of the name alone changes nothing here
UpdateSection(r) ==
    LET c == call[r]
    IN  /\ pc[r] = "updateSection"
        /\ level' = [level EXCEPT ![c.section] = c.level]
        /\ moved' = [q \in Request |-> IF q \in Reading /\ level[c.section] # c.level
                                      THEN moved[q] \cup {c.section} ELSE moved[q]]
        /\ Answer(r, "ok") /\ UNCHANGED <<price, enrolled, records, payments>>

-----------------------------------------------------------------------------
(* records: generateFeeRecordForStudent, called by enroll and by backfill   *)

InsertEnrollment(r) ==
    LET s == call[r].student
    IN  /\ pc[r] = "enroll"
        /\ enrolled' = enrolled \cup {s}
        /\ IF s \in enrolled THEN Answer(r, "refused") ELSE Continue(r, "section", seen[r])
        /\ UNCHANGED <<price, sections, records, payments>>

\* the generation reads the section again, whatever its caller has read
ReadLevel(r) ==
    /\ pc[r] = "section"
    /\ Continue(r, "structure", [seen[r] EXCEPT !.level = level[SectionOf[seen[r].student]]])
    /\ UNCHANGED tables

\* a backfill goes on with the next student, enroll answers
Generated(r) == IF call[r].op = "backfill"
                THEN Continue(r, "record", [seen[r] EXCEPT !.student = None, !.level = None,
                                                           !.total = None])
                ELSE Answer(r, "ok")

\* Mutant of FindStructure: a missing structure does not end the generation.
IgnoreMissingStructure(r) ==
    /\ pc[r] = "structure"
    /\ Continue(r, "insertRecord", [seen[r] EXCEPT !.level = None, !.total = price[seen[r].level]])
    /\ UNCHANGED tables

\* without a structure for the level it has read, the generation ends here, and
\* a backfill does not count that as a skip
FindStructure(r) ==
    LET found == price[seen[r].level]
    IN  /\ pc[r] = "structure"
        /\ IF found = None
           THEN Generated(r)
           ELSE Continue(r, "insertRecord", [seen[r] EXCEPT !.level = None, !.total = found])
        /\ UNCHANGED tables

\* Mutant of InsertFeeRecord: the unique index is gone, an upsert takes its place.
UpsertFeeRecord(r) ==
    /\ pc[r] = "insertRecord"
    /\ records' = [records EXCEPT ![seen[r].student] =
                                    [total |-> seen[r].total, status |-> "PENDING"]]
    /\ Generated(r) /\ UNCHANGED <<price, sections, enrolled, payments>>

\* P2002 of the unique index on student and year is swallowed
InsertFeeRecord(r) ==
    LET s == seen[r].student
    IN  /\ pc[r] = "insertRecord"
        /\ records' = IF records[s] = NoRecord
                      THEN [records EXCEPT ![s] = [total |-> seen[r].total, status |-> "PENDING"]]
                      ELSE records
        /\ Generated(r) /\ UNCHANGED <<price, sections, enrolled, payments>>

-----------------------------------------------------------------------------
(* backfill                                                                 *)

\* the enrollments, with the levels of their sections
FindEnrollments(r) ==
    /\ pc[r] = "findEnrollments"
    /\ Continue(r, "record",
                [seen[r] EXCEPT !.found = [s \in enrolled |-> level[SectionOf[s]]],
                                !.left = enrolled])
    /\ UNCHANGED tables

FindExistingRecord(r) ==
    /\ pc[r] = "record"
    /\ \/ seen[r].left = {} /\ Answer(r, "ok")
       \/ \E s \in seen[r].left :
            LET rest == [seen[r] EXCEPT !.left = @ \ {s}]
            IN  IF records[s] # NoRecord THEN Continue(r, "record", rest)
                                         ELSE Continue(r, "priced", [rest EXCEPT !.student = s])
    /\ UNCHANGED tables

\* Mutant of SkipWithoutStructure: a student without a structure is not counted.
PassOverWithoutStructure(r) ==
    /\ pc[r] = "priced"
    /\ IF price[seen[r].found[seen[r].student]] = None
       THEN Continue(r, "record", [seen[r] EXCEPT !.student = None])
       ELSE Continue(r, "section", seen[r])
    /\ UNCHANGED tables

\* the structure of the level that came with the enrollment
SkipWithoutStructure(r) ==
    /\ pc[r] = "priced"
    /\ IF price[seen[r].found[seen[r].student]] = None
       THEN Continue(r, "record", [seen[r] EXCEPT !.student = None, !.skipped = TRUE])
       ELSE Continue(r, "section", seen[r])
    /\ UNCHANGED tables

-----------------------------------------------------------------------------
(* payments                                                                 *)

AssertFeeRecordExists(r) ==
    /\ pc[r] = "findRecord"
    /\ IF records[call[r].student] = NoRecord THEN Answer(r, "refused")
                                              ELSE Continue(r, "pay", seen[r])
    /\ UNCHANGED tables

CreatePayment(r) ==
    /\ pc[r] = "pay"
    /\ payments' = payments \cup {[id |-> r, student |-> call[r].student,
                                   amount |-> call[r].amount]}
    /\ Continue(r, "sum", seen[r]) /\ UNCHANGED <<price, sections, enrolled, records>>

\* sum >= total, in floating point: the sum of several payments that should be
\* the total may be rounded down
MayBePaid(rows, total) == Total(rows) >= total

MayFallShort(rows, total) ==
    \/ Total(rows) < total
    \/ Total(rows) = total /\ Cardinality(rows) > 1

\* Mutant of Derived: a record counts as paid when the last cent is missing.
DerivedOneShort(rows, total) ==
    (IF Total(rows) + 1 >= total THEN {"PAID"} ELSE {}) \cup
    (IF MayFallShort(rows, total) /\ rows # {} THEN {"PARTIAL"} ELSE {}) \cup
    (IF MayFallShort(rows, total) /\ rows = {} THEN {"PENDING"} ELSE {})

\* the statuses that may be computed from these payments of a record
Derived(rows, total) ==
    (IF MayBePaid(rows, total) THEN {"PAID"} ELSE {}) \cup
    (IF MayFallShort(rows, total) /\ rows # {} THEN {"PARTIAL"} ELSE {}) \cup
    (IF MayFallShort(rows, total) /\ rows = {} THEN {"PENDING"} ELSE {})

ComputeStatus(r) ==
    LET s == call[r].student
    IN  /\ pc[r] = "sum"
        /\ \E st \in Derived(PaymentsOf(s), records[s].total) :
             Continue(r, "status", [seen[r] EXCEPT !.status = st])
        /\ UNCHANGED tables

\* Mutant of UpdateStatus: a status that has been set once is kept.
KeepFirstStatus(r) ==
    LET s == call[r].student
    IN  /\ pc[r] = "status"
        /\ records' = [records EXCEPT ![s].status = IF @ = "PENDING" THEN seen[r].status ELSE @]
        /\ Continue(r, "reply", seen[r]) /\ UNCHANGED <<price, sections, enrolled, payments>>

UpdateStatus(r) ==
    /\ pc[r] = "status"
    /\ records' = [records EXCEPT ![call[r].student].status = seen[r].status]
    /\ Continue(r, "reply", seen[r]) /\ UNCHANGED <<price, sections, enrolled, payments>>

\* the answer is read in statements of their own
ReadReply(r) == pc[r] = "reply" /\ Answer(r, "ok") /\ UNCHANGED tables

-----------------------------------------------------------------------------
\* A statement fails.  What was written stays; only a failure to generate the
\* fee record of a new enrollment is logged and the call answered all the same.
StatementFails(r) ==
    /\ r \in Running
    /\ Answer(r, IF call[r].op = "enroll" /\ pc[r] # "enroll" THEN "ok" ELSE "failed")
    /\ UNCHANGED tables

Proceed(r) ==
    \/ CreateFeeStructure(r) \/ AssertFeeStructureExists(r) \/ UpdateFeeStructure(r)
    \/ FindSection(r) \/ UpdateSection(r)
    \/ InsertEnrollment(r) \/ ReadLevel(r) \/ FindStructure(r) \/ InsertFeeRecord(r)
    \/ FindEnrollments(r) \/ FindExistingRecord(r) \/ SkipWithoutStructure(r)
    \/ AssertFeeRecordExists(r) \/ CreatePayment(r) \/ ComputeStatus(r) \/ UpdateStatus(r)
    \/ ReadReply(r)
    \/ StatementFails(r)

Next == \E r \in Request : Proceed(r) \/ \E c \in Calls : Begin(r, c)

Spec == Init /\ [][Next]_vars

-----------------------------------------------------------------------------
(* Properties *)

Step == Done \cup {"idle", "createStructure", "findStructure", "updateStructure", "findSection",
                   "updateSection", "enroll", "section", "structure", "insertRecord",
                   "findEnrollments", "record", "priced", "findRecord", "pay", "sum", "status", "reply"}

\* Rows and locals have their types, and a payment is on a record that exists.
TypeOK ==
    /\ price \in [Level -> Price \cup {None}]
    /\ level \in [Section -> Level] /\ moved \in [Request -> SUBSET Section]
    /\ enrolled \subseteq Student
    /\ records \in [Student -> [total : Price, status : Status] \cup {NoRecord}]
    /\ payments \subseteq [id : Request, student : Student, amount : Payment]
    /\ \A p \in payments : records[p.student] # NoRecord
    /\ pc \in [Request -> Step]
    /\ call \in [Request -> Calls \cup {NoCall}]

\* The status never claims more than has been paid, however payments interleave
\* and wherever one fails: a stale sum can only be too small.
StatusNeverAhead ==
    \A s \in Student :
        /\ records[s].status = "PAID" => Total(PaymentsOf(s)) >= records[s].total
        /\ records[s].status = "PARTIAL" => PaymentsOf(s) # {}

\* A record something has been paid on is never PENDING again: each call that
\* writes the status has counted a payment, and payments stay.
NeverPendingAgain ==
    [][\A s \in Student : records[s].status \in {"PARTIAL", "PAID"}
                          => records'[s].status \in {"PARTIAL", "PAID"}]_vars

StatusMatches ==
    \A s \in Student :
        records[s] # NoRecord => records[s].status \in Derived(PaymentsOf(s), records[s].total)

\* When no call is in flight and none has failed, the status of every record is
\* the one its payments give it.
FinalStatusMatches ==
    Running = {} /\ (\A r \in Request : pc[r] # "failed") => StatusMatches

\* While handlers do not overlap it is.
SerialStatusMatches == alone => FinalStatusMatches

\* A backfill that is answered and has skipped nobody has left a record to every
\* student it found enrolled whose section has kept its class level since, also
\* when enrollments, other backfills and changes of the structures run beside it.
\* With a level that changed in between, the generation may end without a record
\* though the backfill's own check found a structure: nobody counts that.
BackfillCoversEnrolled ==
    [][\A r \in Request :
          call[r].op = "backfill" /\ pc'[r] = "ok" /\ ~seen[r].skipped /\ pc[r] # "ok"
          => \A s \in DOMAIN seen[r].found :
                records[s] # NoRecord \/ SectionOf[s] \in moved[r]]_vars
=============================================================================
