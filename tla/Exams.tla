------------------------------- MODULE Exams -------------------------------
(***************************************************************************)
(* exams.service.ts and grades.service.ts: exams of one section and year,  *)
(* the papers they consist of (one per subject, the rows of ExamSubject),  *)
(* and the marks entered on the papers.                                    *)
(*                                                                         *)
(* Every awaited statement is a step, at READ COMMITTED, and may fail.  A  *)
(* paper is the row of an exam and a subject, a grade the row of a paper   *)
(* and a student, which unique indexes make one at most; "by" is the call  *)
(* that stored a row, so a paper removed and added again is another row.   *)
(* Whether a teacher may enter marks, and whether a student is enrolled,   *)
(* is a choice here: RequestAccess and Enrollment have the rules.          *)
(* Handlers that answer with the exam read it again, which changes nothing *)
(* and is left out.                                                        *)
(***************************************************************************)
EXTENDS Naturals, FiniteSets

CONSTANTS Request, Exam, Subject, Student, Term,
          Level,       \* class levels
          SubjectsOf,  \* the subjects of each level
          TermOfYear,  \* terms of the exams' year
          Total,       \* what totalMarks may be
          Marks,       \* what marksObtained may be
          Earlier,     \* stands for the calls before
          Ops,         \* the operations called in this instance
          None

Closing == {"finalize", "unlock", "discard"}

ASSUME ExamsAssumption ==
    /\ SubjectsOf \in [Level -> SUBSET Subject] /\ TermOfYear \subseteq Term
    /\ Total \subseteq Nat \ {0} /\ Marks \subseteq Nat
    /\ Earlier \notin Request
    /\ None \notin Request \cup {Earlier} \cup Exam \cup Term \cup Total \cup Subject \cup Level
    /\ "none" \notin Term \cup {None}      \* NoExam is no exam
    /\ Ops \subseteq Closing \cup {"create", "update", "addSubject", "updateSubject",
                                   "removeSubject", "enterGrades", "updateSection",
                                   "deleteTerm"}

VARIABLES
    exams,      \* [finalized, discarded, term] of each exam, or NoExam
    papers,     \* the row of each exam and subject, or NoPaper
    grades,     \* the row of each exam, subject and student, or NoGrade
    terms,      \* the terms that exist
    level,      \* the class level of the section
    pc, call, seen,
    alone,      \* history: no two handlers have been in flight at once so far
    lowered,    \* history: calls whose paper got a lower total after they had read it
    levels      \* history: the levels the section has had

section == <<level, levels>>
vars == <<exams, papers, grades, terms, section, pc, call, seen, alone, lowered>>
tables == <<exams, papers, grades, terms, section, lowered>>

NoExam == [finalized |-> FALSE, discarded |-> FALSE, term |-> "none"]
NoPaper == [by |-> None, total |-> 0]
NoGrade == [by |-> None, marks |-> 0]

PapersOf(x) == {j \in Subject : papers[x][j] # NoPaper}

Body(op, xs, js, totals, ts, subjects, records) ==
    [op : {op}, exam : xs, subject : js, total : totals, term : ts, papers : subjects,
     records : records, level : {None}]

\* non-empty maps from some members of S to T
Maps(S, T) == UNION {[D -> T] : D \in (SUBSET S) \ {{}}}

NoMap == [i \in {} |-> 0]

\* A list of subjects with a repetition is refused before any statement, and
\* records with one by the unique index, so both are maps here.
Calls ==
    {c \in UNION {
         Body("create", Exam, {None}, {None}, Term \cup {None}, Maps(Subject, Total), {NoMap}),
         Body("update", Exam, {None}, {None}, Term \cup {None}, {NoMap}, {NoMap}),
         Body("addSubject", Exam, Subject, Total, {None}, {NoMap}, {NoMap}),
         Body("updateSubject", Exam, Subject, Total \cup {None}, {None}, {NoMap}, {NoMap}),
         Body("removeSubject", Exam, Subject, {None}, {None}, {NoMap}, {NoMap}),
         Body("finalize", Exam, {None}, {None}, {None}, {NoMap}, {NoMap}),
         Body("unlock", Exam, {None}, {None}, {None}, {NoMap}, {NoMap}),
         Body("discard", Exam, {None}, {None}, {None}, {NoMap}, {NoMap}),
         Body("enterGrades", Exam, Subject, {None}, {None}, {NoMap}, Maps(Student, Marks)),
         Body("deleteTerm", {None}, {None}, {None}, Term, {NoMap}, {NoMap}),
         [op : {"updateSection"}, exam : {None}, subject : {None}, total : {None}, term : {None},
          papers : {NoMap}, records : {NoMap}, level : Level]} : c.op \in Ops}

NoCall == [op |-> "none", exam |-> None, subject |-> None, total |-> None, term |-> None,
           papers |-> NoMap, records |-> NoMap, level |-> None]

\* the subjects of the exam, or those of a new one that fit so far; the paper that
\* was found; and who had entered the grades that the transaction replaces
Nothing == [subjects |-> {}, paper |-> NoPaper, before |-> NoMap]

\* exams as they were created and not closed yet, and nobody graded
Init ==
    /\ terms = Term /\ level \in Level /\ levels = {level}
    /\ exams \in [Exam -> {NoExam, [finalized |-> FALSE, discarded |-> FALSE, term |-> None]}]
    /\ papers \in [Exam -> [Subject -> {NoPaper} \cup [by : {Earlier}, total : Total]]]
    /\ \A x \in Exam : /\ PapersOf(x) = {} <=> exams[x] = NoExam
                       /\ PapersOf(x) \subseteq SubjectsOf[level]
    /\ grades = [x \in Exam |-> [j \in Subject |-> [s \in Student |-> NoGrade]]]
    /\ pc = [r \in Request |-> "idle"]
    /\ call = [r \in Request |-> NoCall]
    /\ seen = [r \in Request |-> Nothing]
    /\ alone = TRUE /\ lowered = {}

Done == {"ok", "refused", "failed"}

Running == {r \in Request : pc[r] \notin Done \cup {"idle"}}

\* a client has the id of an exam that exists; a new one gets a new id
Begin(r, c) ==
    /\ pc[r] = "idle"
    /\ c.exam # None => (c.op = "create" <=> exams[c.exam] = NoExam)
    /\ c.op = "create" => \A q \in Running : call[q].exam # c.exam
    /\ call' = [call EXCEPT ![r] = c]
    /\ pc' = [pc EXCEPT ![r] = CASE c.op = "create" -> "fit" [] c.op = "updateSection" -> "section"
                                 [] c.op = "deleteTerm" -> "findTerm" [] OTHER -> "exam"]
    /\ alone' = (alone /\ Running = {})
    /\ UNCHANGED <<tables, seen>>

\* an answered call leaves nothing behind but its outcome
Answer(r, outcome) ==
    /\ pc' = [pc EXCEPT ![r] = outcome]
    /\ call' = [call EXCEPT ![r] = NoCall]
    /\ seen' = [seen EXCEPT ![r] = Nothing]
    /\ UNCHANGED alone

Continue(r, s, what) ==
    /\ pc' = [pc EXCEPT ![r] = s]
    /\ seen' = [seen EXCEPT ![r] = what]
    /\ UNCHANGED <<call, alone>>

\* on if the check holds, refused otherwise
Check(r, holds, s, what) ==
    /\ IF holds THEN Continue(r, s, what) ELSE Answer(r, "refused")
    /\ UNCHANGED tables

-----------------------------------------------------------------------------
(* The checks                                                               *)

Open(x) == ~exams[x].finalized /\ ~exams[x].discarded

\* what the state of the exam has to be for an operation
Permits(x, op) ==
    CASE op = "unlock" -> ~exams[x].discarded
      [] op = "discard" -> ~exams[x].finalized
      [] OTHER -> Open(x)

After(op) == CASE op \in {"addSubject", "removeSubject"} -> "papers"
               [] op \in {"updateSubject", "enterGrades"} -> "paper"
               [] op = "update" -> "term"
               [] OTHER -> "close"

\* Mutant of ReadExam: discarded exams can be worked on.
ReadExamFinalized(r) ==
    LET c == call[r] IN
    /\ pc[r] = "exam"
    /\ Check(r, ~exams[c.exam].finalized \/ c.op = "unlock", After(c.op), seen[r])

\* assertExamExists, assertExamNotFinalized, assertExamNotDiscarded
ReadExam(r) ==
    LET c == call[r] IN
    /\ pc[r] = "exam"
    /\ Check(r, Permits(c.exam, c.op), After(c.op), seen[r])

\* the subjects that came with the exam, and for an addition that it is not there
ReadPapers(r) ==
    LET c == call[r] IN
    /\ pc[r] = "papers"
    /\ Check(r, c.op = "addSubject" => c.subject \notin PapersOf(c.exam),
             IF c.op = "addSubject" THEN "fit" ELSE "paper",
             [seen[r] EXCEPT !.subjects = PapersOf(c.exam)])

\* assertSubjectMatchesClassGrade: a subject keeps its level, the section may
\* change its own; the subjects of a new exam are matched one after another
MatchSubjects(r) ==
    LET c == call[r] IN
    /\ pc[r] = "fit"
    /\ \/ /\ c.op = "addSubject"
          /\ Check(r, c.subject \in SubjectsOf[level], "insert", seen[r])
       \/ /\ c.op = "create"
          /\ \E j \in (DOMAIN c.papers) \ seen[r].subjects :
               LET fit == seen[r].subjects \cup {j}
               IN  Check(r, j \in SubjectsOf[level], IF fit = DOMAIN c.papers THEN "term" ELSE "fit",
                         [seen[r] EXCEPT !.subjects = IF fit = DOMAIN c.papers THEN {} ELSE fit])

\* Mutant of MatchTerm: the term may be of another year.
MatchAnyTerm(r) ==
    /\ pc[r] = "term"
    /\ Check(r, TRUE, IF call[r].op = "create" THEN "create" ELSE "write", seen[r])

\* assertTermBelongsToYear
MatchTerm(r) ==
    /\ pc[r] = "term"
    /\ Check(r, call[r].term \in (terms \cap TermOfYear) \cup {None},
             IF call[r].op = "create" THEN "create" ELSE "write", seen[r])

\* Mutant of FindPaper: the last paper can be removed.
FindAnyPaper(r) ==
    LET c == call[r] IN
    /\ pc[r] = "paper"
    /\ Check(r, /\ c.subject \in PapersOf(c.exam)
                /\ c.op = "removeSubject" => Cardinality(seen[r].subjects) >= 1,
             IF c.op = "enterGrades" THEN "access" ELSE "write",
             [seen[r] EXCEPT !.paper = papers[c.exam][c.subject], !.subjects = {}])

\* getExamSubjectOrThrow; a removal must leave a paper of those read before
FindPaper(r) ==
    LET c == call[r] IN
    /\ pc[r] = "paper"
    /\ Check(r, /\ c.subject \in PapersOf(c.exam)
                /\ c.op = "removeSubject" => Cardinality(seen[r].subjects) > 1,
             IF c.op = "enterGrades" THEN "access" ELSE "write",
             [seen[r] EXCEPT !.paper = papers[c.exam][c.subject], !.subjects = {}])

\* Mutant of CheckRecords: marks are not compared with the paper's total.
CheckAccessOnly(r) ==
    /\ pc[r] = "access"
    /\ \E granted \in BOOLEAN : Check(r, granted, "grades", seen[r])

\* the access policy, the range of the marks, and the students' enrollments
CheckRecords(r) ==
    /\ pc[r] = "access"
    /\ \E granted \in BOOLEAN :
         Check(r, /\ granted
                  /\ \A s \in DOMAIN call[r].records : call[r].records[s] <= seen[r].paper.total,
               "grades", seen[r])

-----------------------------------------------------------------------------
(* The writes.  A row that is gone makes an update or a delete fail, and a  *)
(* term that is gone the foreign key of an exam.                            *)

HasTerm(t) == t \in terms \cup {None}

CreateExam(r) ==
    LET c == call[r] IN
    /\ pc[r] = "create"
    /\ IF HasTerm(c.term)
       THEN /\ exams' = [exams EXCEPT ![c.exam] =
                           [finalized |-> FALSE, discarded |-> FALSE, term |-> c.term]]
            /\ papers' = [papers EXCEPT ![c.exam] = [j \in Subject |->
                            IF j \in DOMAIN c.papers THEN [by |-> r, total |-> c.papers[j]]
                                                     ELSE NoPaper]]
            /\ Answer(r, "ok")
       ELSE Answer(r, "refused") /\ UNCHANGED <<exams, papers>>
    /\ UNCHANGED <<grades, terms, lowered, section>>

UpdateExam(r) ==
    LET c == call[r] IN
    /\ pc[r] = "write" /\ c.op = "update"
    /\ IF HasTerm(c.term)
       THEN /\ exams' = [exams EXCEPT ![c.exam].term = IF c.term = None THEN @ ELSE c.term]
            /\ Answer(r, "ok")
       ELSE Answer(r, "refused") /\ UNCHANGED exams
    /\ UNCHANGED <<papers, grades, terms, lowered, section>>

\* finalize, unlock and discard each write one of the two columns
CloseExam(r) ==
    LET c == call[r] IN
    /\ pc[r] = "close"
    /\ exams' = [exams EXCEPT
                   ![c.exam].finalized = IF c.op = "discard" THEN @ ELSE c.op = "finalize",
                   ![c.exam].discarded = @ \/ c.op = "discard"]
    /\ Answer(r, "ok")
    /\ UNCHANGED <<papers, grades, terms, lowered, section>>

InsertPaper(r) ==
    LET c == call[r] IN
    /\ pc[r] = "insert"
    /\ IF c.subject \in PapersOf(c.exam)
       THEN Answer(r, "refused") /\ UNCHANGED papers
       ELSE /\ papers' = [papers EXCEPT ![c.exam][c.subject] = [by |-> r, total |-> c.total]]
            /\ Answer(r, "ok")
    /\ UNCHANGED <<exams, grades, terms, lowered, section>>

\* calls of enterGrades that have read the paper that is there now
Readers(x, j) ==
    {q \in Request : \/ \E s \in Student : grades[x][j][s].by = q
                    \/ /\ pc[q] \in {"access", "grades", "commit"}
                       /\ call[q].exam = x /\ call[q].subject = j
                       /\ seen[q].paper.by = papers[x][j].by}

\* written by exam and subject, whichever paper that is now
UpdatePaper(r) ==
    LET c == call[r]
        p == papers[c.exam][c.subject] IN
    /\ pc[r] = "write" /\ c.op = "updateSubject"
    /\ IF p = NoPaper
       THEN Answer(r, "refused") /\ UNCHANGED <<papers, lowered>>
       ELSE /\ papers' = [papers EXCEPT ![c.exam][c.subject].total =
                            IF c.total = None THEN @ ELSE c.total]
            /\ lowered' = IF c.total # None /\ c.total < p.total
                          THEN lowered \cup Readers(c.exam, c.subject) ELSE lowered
            /\ Answer(r, "ok")
    /\ UNCHANGED <<exams, grades, terms, section>>

\* the grades go with their paper
DeletePaper(r) ==
    LET c == call[r] IN
    /\ pc[r] = "write" /\ c.op = "removeSubject"
    /\ IF c.subject \notin PapersOf(c.exam)
       THEN Answer(r, "refused") /\ UNCHANGED <<papers, grades>>
       ELSE /\ papers' = [papers EXCEPT ![c.exam][c.subject] = NoPaper]
            /\ grades' = [grades EXCEPT ![c.exam][c.subject] = [s \in Student |-> NoGrade]]
            /\ Answer(r, "ok")
    /\ UNCHANGED <<exams, terms, lowered, section>>

Entered(r) == DOMAIN call[r].records

\* The transaction's deleteMany finds the grades of the students in the paper.
DeleteGrades(r) ==
    LET c == call[r] IN
    /\ pc[r] = "grades"
    /\ Continue(r, "commit",
                [seen[r] EXCEPT !.before =
                   [s \in Entered(r) |-> IF papers[c.exam][c.subject].by = seen[r].paper.by
                                         THEN grades[c.exam][c.subject][s].by ELSE None]])
    /\ UNCHANGED tables

\* the students' grades are those deleted, or gone since
NothingNew(r) ==
    \A s \in Entered(r) : grades[call[r].exam][call[r].subject][s].by \in {seen[r].before[s], None}

\* Its createMany inserts the new ones and commits.  A grade that another call
\* committed since the deleteMany looked makes it fail, as does a paper that
\* was deleted; both writes are rolled back then.
CreateGrades(r) ==
    LET c == call[r] IN
    /\ pc[r] = "commit"
    /\ IF papers[c.exam][c.subject].by # seen[r].paper.by \/ ~NothingNew(r)
       THEN Answer(r, "refused") /\ UNCHANGED grades
       ELSE /\ grades' = [grades EXCEPT ![c.exam][c.subject] =
                            [s \in Student |-> IF s \in Entered(r)
                                               THEN [by |-> r, marks |-> c.records[s]] ELSE @[s]]]
            /\ Answer(r, "ok")
    /\ UNCHANGED <<exams, papers, terms, lowered, section>>

\* SectionsService.update: its name may be taken, by another section of the year
UpdateSection(r) ==
    /\ \/ /\ pc[r] = "section"
          /\ Continue(r, "write", seen[r]) \/ Answer(r, "refused")
          /\ UNCHANGED section
       \/ /\ pc[r] = "write" /\ call[r].op = "updateSection"
          /\ level' = call[r].level /\ levels' = levels \cup {call[r].level}
          /\ Answer(r, "ok")
    /\ UNCHANGED <<exams, papers, grades, terms, lowered>>

\* AcademicYearsService.deleteTerm: a term of the exams' year
FindTerm(r) ==
    /\ pc[r] = "findTerm"
    /\ Check(r, call[r].term \in terms \cap TermOfYear, "deleteTerm", seen[r])

\* the foreign key sets the term of its exams to NULL, of closed ones as well
DeleteTerm(r) ==
    LET t == call[r].term IN
    /\ pc[r] = "deleteTerm"
    /\ IF t \notin terms
       THEN Answer(r, "refused") /\ UNCHANGED <<exams, terms>>
       ELSE /\ terms' = terms \ {t}
            /\ exams' = [x \in Exam |-> IF exams[x].term = t THEN [exams[x] EXCEPT !.term = None]
                                                            ELSE exams[x]]
            /\ Answer(r, "ok")
    /\ UNCHANGED <<papers, grades, lowered, section>>

-----------------------------------------------------------------------------

\* a statement fails and rolls its transaction back; earlier commits stay
StatementFails(r) == r \in Running /\ Answer(r, "failed") /\ UNCHANGED tables

Step(r) ==
    \/ ReadExam(r) \/ ReadPapers(r) \/ MatchSubjects(r) \/ MatchTerm(r)
    \/ FindPaper(r) \/ CheckRecords(r)
    \/ CreateExam(r) \/ UpdateExam(r) \/ CloseExam(r)
    \/ InsertPaper(r) \/ UpdatePaper(r) \/ DeletePaper(r)
    \/ DeleteGrades(r) \/ CreateGrades(r) \/ UpdateSection(r)
    \/ FindTerm(r) \/ DeleteTerm(r)
    \/ StatementFails(r)

Next == \E r \in Request : Step(r) \/ \E c \in Calls : Begin(r, c)

Spec == Init /\ [][Next]_vars

-----------------------------------------------------------------------------
(* Properties                                                               *)

Graded(x, j) == {s \in Student : grades[x][j][s] # NoGrade}

\* Rows have the types of their columns, papers are of exams that exist and of
\* subjects of a level the section has had, grades on papers that exist, and an
\* exam's term is one of its year that exists.
TypeOK ==
    /\ exams \in [Exam -> {NoExam} \cup
                    [finalized : BOOLEAN, discarded : BOOLEAN,
                     term : (terms \cap TermOfYear) \cup {None}]]
    /\ papers \in [Exam -> [Subject -> {NoPaper} \cup [by : Request \cup {Earlier}, total : Total]]]
    /\ grades \in [Exam -> [Subject -> [Student -> {NoGrade} \cup [by : Request, marks : Marks]]]]
    /\ \A x \in Exam :
         /\ PapersOf(x) \subseteq IF exams[x] = NoExam THEN {} ELSE UNION {SubjectsOf[l] : l \in levels}
         /\ \A j \in Subject : Graded(x, j) # {} => j \in PapersOf(x)
    /\ \A r \in Running : call[r] \in Calls

\* Nobody has more marks than the paper's total, unless the total was lowered
\* after the call that stored the marks had read the paper to check them: the
\* check is several statements before the write, and the paper may be removed and
\* added again.  Marks entered after the total was lowered are within it.
MarksWithinTotal ==
    \A x \in Exam, j \in Subject : \A s \in Graded(x, j) :
        grades[x][j][s].marks <= papers[x][j].total \/ grades[x][j][s].by \in lowered

\* While handlers do not overlap, what is closed stays as it is: a finalized or
\* discarded exam keeps its papers, totals and grades, and its term as long as
\* that exists; and a discarded one is never finalized or unlocked.
SerialClosedExamsFrozen ==
    [][alone' => \A x \in Exam :
         /\ ~Open(x) => /\ UNCHANGED <<papers[x], grades[x]>>
                        /\ \/ exams'[x].term = exams[x].term
                           \/ exams'[x].term = None /\ exams[x].term \notin terms'
         /\ exams[x].discarded => /\ exams'[x].discarded
                                  /\ exams'[x].finalized = exams[x].finalized]_vars

\* While handlers do not overlap, an exam that exists has a paper.
SerialExamKeepsAPaper == alone => \A x \in Exam : exams[x] # NoExam => PapersOf(x) # {}
=============================================================================
