----------------------------- MODULE ExamsProofs -----------------------------
(***************************************************************************)
(* Marks stay within the total of their paper, for any number of           *)
(* concurrent calls, exams, subjects, students and marks; and, while       *)
(* handlers do not overlap, closed exams are frozen and every exam keeps a *)
(* paper.                                                                  *)
(*                                                                         *)
(* A handler compares the marks with a paper it has read some statements   *)
(* before it stores them.  Meanwhile the paper may have been removed and   *)
(* added again, or got another total; Faithful says what it may still rely *)
(* on: a row with the same "by" is the same row, because a call stores its *)
(* rows as its last statement (Stored), and where its total went down      *)
(* since the reader looked, lowered has the reader.                        *)
(***************************************************************************)
EXTENDS Exams, FiniteSetTheorems, TLAPS

By == Request \cup {Earlier}

ExamRow == [finalized : BOOLEAN, discarded : BOOLEAN, term : TermOfYear \cup {None}]

Paper == [by : By, total : Total] \cup {NoPaper}

Grade == [by : Request, marks : Marks] \cup {NoGrade}

\* the subjects of a level the section has had
Taught == UNION {SubjectsOf[l] : l \in levels}

Locals == [subjects : SUBSET Subject, paper : Paper,
           before : UNION {[D -> By \cup {None}] : D \in SUBSET Student}]

At == Done \cup {"idle", "exam", "papers", "paper", "fit", "term", "access", "grades", "commit",
                 "create", "write", "insert", "close", "section", "findTerm", "deleteTerm"}

Tables ==
    /\ exams \in [Exam -> ExamRow \cup {NoExam}]
    /\ papers \in [Exam -> [Subject -> Paper]]
    /\ grades \in [Exam -> [Subject -> [Student -> Grade]]]
    /\ level \in levels /\ levels \subseteq Level
    /\ \A x \in Exam : exams[x] # NoExam => exams[x].term \in terms \cup {None}
    /\ \A x \in Exam : exams[x] = NoExam => PapersOf(x) = {}
    /\ \A x \in Exam : PapersOf(x) \subseteq Taught
    /\ \A x \in Exam, j \in Subject : Graded(x, j) # {} => j \in PapersOf(x)

Types ==
    /\ Tables
    /\ pc \in [Request -> At]
    /\ call \in [Request -> Calls \cup {NoCall}]
    /\ seen \in [Request -> Locals]

\* no call that is still to store a row has the name of one
Stored(b) == b \in {None, Earlier} \/ (b \in Request /\ pc[b] \in Done)

Rows == \A x \in Exam, j \in Subject : Stored(papers[x][j].by)

\* New exams have ids of their own.
Distinct ==
    \A r, q \in Running :
        call[r].op = "create" /\ call[q].op = "create" /\ r # q => call[r].exam # call[q].exam

\* The paper p that q has read of exam x and subject j: if its row is still
\* there, its total has not gone down, or lowered has q.
Faithful(q, x, j, p) ==
    /\ p.by # None
    /\ Stored(p.by)
    /\ papers[x][j].by = p.by => p.total <= papers[x][j].total \/ q \in lowered

\* operations that are not on an exam there is
Elsewhere == {"create", "updateSection", "deleteTerm"}

\* What handler r relies on at statement p with locals l.
FitsAt(r, p, l) ==
    LET c == call[r] IN
    /\ p \notin Done \cup {"idle"} => /\ c \in Calls
                                      /\ c.op = "create" => exams[c.exam] = NoExam
                                      /\ c.op \notin Elsewhere => exams[c.exam] # NoExam
    /\ p = "idle" => l.subjects = {}
    /\ p = "exam" => c.op \notin Elsewhere
    /\ p = "papers" => c.op \in {"addSubject", "removeSubject"}
    /\ p = "paper" => c.op \in {"removeSubject", "updateSubject", "enterGrades"}
    /\ p = "fit" => c.op \in {"create", "addSubject"} /\ (c.op = "create" => l.subjects \subseteq Taught)
    /\ p = "term" => c.op \in {"create", "update"}
    /\ p = "insert" => c.op = "addSubject" /\ c.subject \in Taught
    /\ p = "create" => c.op = "create"
    /\ p \in {"term", "create"} /\ c.op = "create" => DOMAIN c.papers \subseteq Taught
    /\ p = "close" => c.op \in Closing
    /\ p = "section" => c.op = "updateSection"
    /\ p \in {"findTerm", "deleteTerm"} => c.op = "deleteTerm"
    /\ p = "write" => c.op \in {"update", "updateSubject", "removeSubject", "updateSection"}
    /\ p \in {"create", "write"} /\ c.op \in {"create", "update"} => c.term \in TermOfYear \cup {None}
    /\ p \in {"access", "grades", "commit"} =>
         c.op = "enterGrades" /\ Faithful(r, c.exam, c.subject, l.paper)
    /\ p \in {"grades", "commit"} => \A s \in DOMAIN c.records : c.records[s] <= l.paper.total

Fits(r) == FitsAt(r, pc[r], seen[r])

Inv ==
    /\ Types
    /\ Rows
    /\ Distinct
    /\ MarksWithinTotal
    /\ \A r \in Request : Fits(r)

-----------------------------------------------------------------------------
(* What every step has in common *)

LEMMA MapsFacts ==
    ASSUME NEW S, NEW T, NEW m \in Maps(S, T)
    PROVE  /\ DOMAIN m \in SUBSET S /\ DOMAIN m # {}
           /\ \A i \in DOMAIN m : m[i] \in T
<1>1. \E D \in (SUBSET S) \ {{}} : m \in [D -> T]
  BY Zenon DEF Maps
<1>2. PICK D \in (SUBSET S) \ {{}} : m \in [D -> T]
  BY <1>1
<1>3. DOMAIN m = D /\ \A i \in D : m[i] \in T
  BY <1>2
<1>4. D \in SUBSET S /\ D # {}
  OBVIOUS
<1> QED BY <1>3, <1>4, Zenon

PaperOps == {"addSubject", "updateSubject", "removeSubject", "enterGrades"}

LEMMA CallFacts ==
    ASSUME NEW c \in Calls
    PROVE  /\ c.op \in Closing \cup PaperOps \cup {"create", "update", "updateSection", "deleteTerm"}
           /\ c.op \notin {"updateSection", "deleteTerm"} => c.exam \in Exam
           /\ c.op \in PaperOps => c.subject \in Subject
           /\ c.op = "addSubject" => c.total \in Total
           /\ c.op = "updateSubject" => c.total \in Total \cup {None}
           /\ c.op \in {"create", "update"} => c.term \in Term \cup {None}
           /\ c.op = "deleteTerm" => c.term \in Term
           /\ c.op = "create" => c.papers \in Maps(Subject, Total)
           /\ c.op = "enterGrades" => c.records \in Maps(Student, Marks)
           /\ c.op = "updateSection" => c.level \in Level
<1> HIDE DEF NoMap
<1>1. \/ c \in Body("create", Exam, {None}, {None}, Term \cup {None}, Maps(Subject, Total), {NoMap})
      \/ c \in Body("update", Exam, {None}, {None}, Term \cup {None}, {NoMap}, {NoMap})
      \/ c \in Body("addSubject", Exam, Subject, Total, {None}, {NoMap}, {NoMap})
      \/ c \in Body("updateSubject", Exam, Subject, Total \cup {None}, {None}, {NoMap}, {NoMap})
      \/ c \in Body("removeSubject", Exam, Subject, {None}, {None}, {NoMap}, {NoMap})
      \/ c \in Body("finalize", Exam, {None}, {None}, {None}, {NoMap}, {NoMap})
      \/ c \in Body("unlock", Exam, {None}, {None}, {None}, {NoMap}, {NoMap})
      \/ c \in Body("discard", Exam, {None}, {None}, {None}, {NoMap}, {NoMap})
      \/ c \in Body("enterGrades", Exam, Subject, {None}, {None}, {NoMap}, Maps(Student, Marks))
      \/ c \in Body("deleteTerm", {None}, {None}, {None}, Term, {NoMap}, {NoMap})
      \/ c \in [op : {"updateSection"}, exam : {None}, subject : {None}, total : {None}, term : {None},
                papers : {NoMap}, records : {NoMap}, level : Level]
  BY DEF Calls
<1> QED BY <1>1 DEF Body, Closing, PaperOps

LEMMA TaughtFacts ==
    ASSUME levels \subseteq Level
    PROVE  Taught \subseteq Subject
BY ExamsAssumption DEF Taught

LEMMA NothingRead == Nothing \in Locals
<1>1. NoMap \in [{} -> By \cup {None}]
  BY DEF NoMap
<1>2. NoMap \in UNION {[D -> By \cup {None}] : D \in SUBSET Student}
  BY <1>1
<1> QED BY <1>2 DEF Nothing, Locals, Paper

LEMMA LocalsSubjects ==
    ASSUME NEW l \in Locals, NEW S \in SUBSET Subject
    PROVE  [l EXCEPT !.subjects = S] \in Locals /\ [l EXCEPT !.subjects = S].subjects = S
BY DEF Locals

LEMMA LocalsBefore ==
    ASSUME NEW l \in Locals, NEW D \in SUBSET Student, NEW b \in [D -> By \cup {None}]
    PROVE  [l EXCEPT !.before = b] \in Locals /\ [l EXCEPT !.before = b].paper = l.paper
<1>1. b \in UNION {[E -> By \cup {None}] : E \in SUBSET Student}
  OBVIOUS
<1> QED BY <1>1 DEF Locals

\* A step of r leaves the other handlers where they are.
Others(r) == \A q \in Request \ {r} : pc'[q] = pc[q] /\ call'[q] = call[q] /\ seen'[q] = seen[q]

\* What a step of r may do to the tables: it stores rows in its own name, and
\* notes a total that it lowers.
Grows(r) ==
    /\ levels \subseteq levels' /\ lowered \subseteq lowered'
    /\ \A x \in Exam :
         /\ exams[x] # NoExam => exams'[x] # NoExam
         /\ exams'[x] # NoExam =>
              \/ exams[x] # NoExam
              \/ r \in Running /\ call[r].op = "create" /\ call[r].exam = x
    /\ \A x \in Exam, j \in Subject :
         \/ papers'[x][j].by \in {None, r}
         \/ /\ papers'[x][j].by = papers[x][j].by
            /\ papers[x][j].total <= papers'[x][j].total \/ Readers(x, j) \subseteq lowered'

LEMMA PaperTotal ==
    ASSUME NEW p \in Paper
    PROVE  p.total \in Nat /\ p.by \in By \cup {None} /\ (p # NoPaper <=> p.by # None)
<1>1. CASE p = NoPaper
  BY <1>1 DEF NoPaper
<1>2. CASE p \in [by : By, total : Total]
  <2>1. p.by \in By /\ p.total \in Nat /\ p.by # None
    BY <1>2, ExamsAssumption DEF By
  <2> QED BY <2>1 DEF NoPaper
<1> QED BY <1>1, <1>2 DEF Paper

LEMMA StoredStays ==
    ASSUME NEW r \in Request, r \in Running, Others(r), NEW b, Stored(b)
    PROVE  Stored(b)' /\ b # r
<1>1. r \notin {None, Earlier}
  BY ExamsAssumption
<1> QED BY <1>1 DEF Stored, Running, Others

LEMMA FaithfulStays ==
    ASSUME Inv, Tables', NEW r \in Request, r \in Running, Grows(r), Others(r),
           NEW q \in Request, NEW x \in Exam, NEW j \in Subject, NEW p \in Paper,
           pc[q] \in {"access", "grades", "commit"}, call[q].exam = x, call[q].subject = j,
           seen[q].paper = p, Faithful(q, x, j, p)
    PROVE  Faithful(q, x, j, p)'
<1>1. p.by # None /\ Stored(p.by)' /\ p.by # r
  BY StoredStays DEF Faithful
<1>2. ASSUME papers'[x][j].by = p.by
      PROVE  p.total <= papers'[x][j].total \/ q \in lowered'
  <2>1. /\ papers'[x][j].by = papers[x][j].by
        /\ papers[x][j].total <= papers'[x][j].total \/ Readers(x, j) \subseteq lowered'
    BY <1>1, <1>2 DEF Grows
  <2>2. q \in Readers(x, j)
    BY <1>2, <2>1 DEF Readers
  <2>3. p.total <= papers[x][j].total \/ q \in lowered'
    BY <1>2, <2>1 DEF Faithful, Grows
  <2>4. papers[x][j] \in Paper /\ papers'[x][j] \in Paper
    BY DEF Inv, Types, Tables
  <2>5. p.total \in Nat /\ papers[x][j].total \in Nat /\ papers'[x][j].total \in Nat
    BY <2>4, PaperTotal
  <2> QED BY <2>1, <2>2, <2>3, <2>5
<1> QED BY <1>1, <1>2 DEF Faithful

LEMMA FitsStable ==
    ASSUME Inv, Tables', NEW r \in Request, r \in Running, Grows(r), Others(r),
           NEW q \in Request, q # r
    PROVE  Fits(q)'
<1> DEFINE c == call[q]
           p == pc[q]
           l == seen[q]
<1>1. FitsAt(q, p, l) /\ pc'[q] = p /\ call'[q] = c /\ seen'[q] = l /\ l \in Locals
  BY DEF Inv, Types, Fits, Others
<1>2. p \notin Done \cup {"idle"} => /\ c.op = "create" => exams'[c.exam] = NoExam
                                     /\ c.op \notin Elsewhere => exams'[c.exam] # NoExam
  <2>1. CASE p \notin Done \cup {"idle"} /\ c.op = "create"
    <3>1. c.exam \in Exam /\ exams[c.exam] = NoExam /\ q \in Running
      BY <1>1, <2>1, CallFacts DEF FitsAt, Running
    <3>2. ~(call[r].op = "create" /\ call[r].exam = c.exam)
      BY <2>1, <3>1 DEF Inv, Distinct
    <3> QED BY <2>1, <3>1, <3>2 DEF Grows, Elsewhere
  <2>2. CASE p \notin Done \cup {"idle"} /\ c.op \notin Elsewhere
    BY <1>1, <2>2, CallFacts DEF FitsAt, Grows, Elsewhere
  <2> QED BY <2>1, <2>2
<1>3. Taught \subseteq Taught'
  BY DEF Grows, Taught
<1>4. p \in {"access", "grades", "commit"} => Faithful(q, c.exam, c.subject, l.paper)'
  <2> SUFFICES ASSUME p \in {"access", "grades", "commit"}
               PROVE  Faithful(q, c.exam, c.subject, l.paper)'
    OBVIOUS
  <2>1. PICK x \in Exam, j \in Subject, a \in Paper :
          /\ x = c.exam /\ j = c.subject /\ a = l.paper
          /\ Faithful(q, x, j, a)
    BY <1>1, CallFacts DEF FitsAt, PaperOps, Done, Locals
  <2>2. Faithful(q, x, j, a)'
    BY <2>1, FaithfulStays
  <2>3. c'.exam = x /\ c'.subject = j /\ l'.paper = a
    BY <1>1, <2>1
  <2> QED BY <2>2, <2>3
<1>5. /\ p \in {"access", "grades", "commit"} => Faithful(q, c.exam, c.subject, l.paper)'
      /\ c' = c /\ l' = l
  BY <1>1, <1>4
<1> QED BY <1>1, <1>2, <1>3, <1>5 DEF Fits, FitsAt

LEMMA RunningFacts ==
    ASSUME Inv, NEW r \in Request, pc[r] \notin Done \cup {"idle"}
    PROVE  FitsAt(r, pc[r], seen[r]) /\ seen[r] \in Locals /\ call[r] \in Calls /\ r \in Running
BY DEF Inv, Types, Fits, FitsAt, Running

LEMMA Same == UNCHANGED tables => UNCHANGED <<exams, papers, grades, terms, level, levels, lowered>>
BY DEF tables, section

\* The last statement of a call.
LEMMA AnswerKeeps ==
    ASSUME Inv, NEW r \in Request, r \in Running, NEW outcome \in Done, Answer(r, outcome),
           Tables', Grows(r), MarksWithinTotal'
    PROVE  Inv'
<1>1. /\ pc' = [pc EXCEPT ![r] = outcome]
      /\ call' = [call EXCEPT ![r] = NoCall]
      /\ seen' = [seen EXCEPT ![r] = Nothing]
  BY DEF Answer
<1>2. Nothing \in Locals
  BY NothingRead
<1> HIDE DEF Nothing, NoCall
<1>3. Others(r) /\ pc'[r] = outcome
  BY <1>1 DEF Others, Inv, Types
<1>4. Types'
  BY <1>1, <1>2 DEF Inv, Types, At
<1>5. \A q \in Request : Fits(q)'
  BY <1>3, FitsStable DEF Fits, FitsAt, Done
<1>6. Distinct'
  BY <1>3 DEF Inv, Distinct, Running, Others
<1>7. Rows'
  <2> SUFFICES ASSUME NEW x \in Exam, NEW j \in Subject PROVE Stored(papers[x][j].by)'
    BY DEF Rows
  <2>1. PICK b : b = papers'[x][j].by
    OBVIOUS
  <2>2. CASE b \in {None, r}
    BY <1>3, <2>1, <2>2 DEF Stored
  <2>3. CASE b = papers[x][j].by
    <3>1. Stored(b)
      BY <2>3 DEF Inv, Rows
    <3> QED BY <1>3, <2>1, <3>1, StoredStays
  <2> QED BY <2>1, <2>2, <2>3 DEF Grows
<1> QED BY <1>4, <1>5, <1>6, <1>7 DEF Inv

\* Steps that write no table.
LEMMA QuietTables ==
    ASSUME Inv, UNCHANGED tables
    PROVE  Tables' /\ MarksWithinTotal' /\ \A r \in Request : Grows(r)
<1>1. UNCHANGED <<exams, papers, grades, terms, level, levels, lowered>>
  BY Same
<1>2. Tables' /\ MarksWithinTotal'
  BY <1>1 DEF Inv, Types, Tables, PapersOf, Graded, Taught, MarksWithinTotal
<1>3. \A x \in Exam, j \in Subject : papers[x][j].total \in Nat
  BY PaperTotal DEF Inv, Types, Tables
<1> QED BY <1>1, <1>2, <1>3 DEF Grows

LEMMA QuietAnswer ==
    ASSUME Inv, NEW r \in Request, r \in Running, NEW outcome \in Done, Answer(r, outcome),
           UNCHANGED tables
    PROVE  Inv'
BY QuietTables, AnswerKeeps

LEMMA ContinueKeeps ==
    ASSUME Inv, NEW r \in Request, r \in Running, NEW s \in At \ (Done \cup {"idle"}),
           NEW l \in Locals, Continue(r, s, l), UNCHANGED tables, FitsAt(r, s, l)
    PROVE  Inv'
<1>1. pc' = [pc EXCEPT ![r] = s] /\ seen' = [seen EXCEPT ![r] = l] /\ call' = call
  BY DEF Continue
<1>2. Others(r) /\ pc'[r] = s /\ seen'[r] = l /\ call'[r] = call[r]
  BY <1>1 DEF Others, Inv, Types
<1>3. UNCHANGED <<exams, papers, grades, terms, level, levels, lowered>>
  BY Same
<1>4. Types'
  BY <1>1, QuietTables DEF Inv, Types
<1>5. \A b : Stored(b) => Stored(b)'
  BY <1>2, StoredStays
<1>6. Rows'
  BY <1>3, <1>5 DEF Inv, Rows
<1>7. \A q, x, j, p : Faithful(q, x, j, p) => Faithful(q, x, j, p)'
  BY <1>3, <1>5 DEF Faithful
<1>8. Fits(r)'
  <2>1. l.paper = l.paper /\ (FitsAt(r, s, l) => FitsAt(r, s, l)')
    BY <1>2, <1>3, <1>7 DEF FitsAt, Taught
  <2> QED BY <1>2, <2>1 DEF Fits, FitsAt
<1>9. \A q \in Request \ {r} : Fits(q)'
  BY <1>2, FitsStable, QuietTables
<1>10. Distinct'
  BY <1>2 DEF Inv, Distinct, Running, Others
<1> QED BY <1>4, <1>6, <1>8, <1>9, <1>10, QuietTables DEF Inv

\* ... with the same locals.
LEMMA WalkKeeps ==
    ASSUME Inv, NEW r \in Request, r \in Running, NEW s \in At \ (Done \cup {"idle"}),
           Continue(r, s, seen[r]), UNCHANGED tables, FitsAt(r, s, seen[r])
    PROVE  Inv'
BY ContinueKeeps DEF Inv, Types

-----------------------------------------------------------------------------
(* One lemma per action *)

LEMMA BeginKeeps ==
    ASSUME Inv, NEW r \in Request, NEW c \in Calls, Begin(r, c)
    PROVE  Inv'
<1>1. /\ pc[r] = "idle" /\ UNCHANGED <<exams, papers, grades, terms, level, levels, lowered, seen>>
      /\ c.op \notin {"updateSection", "deleteTerm"} => (c.op = "create" <=> exams[c.exam] = NoExam)
      /\ c.op = "create" => \A q \in Running : call[q].exam # c.exam
      /\ call' = [call EXCEPT ![r] = c]
  BY CallFacts, ExamsAssumption DEF Begin, tables, section
<1>2. PICK s \in {"fit", "section", "findTerm", "exam"} :
        /\ pc' = [pc EXCEPT ![r] = s]
        /\ s = "fit" <=> c.op = "create"
        /\ s = "section" <=> c.op = "updateSection"
        /\ s = "findTerm" <=> c.op = "deleteTerm"
  BY DEF Begin
<1>3. Others(r) /\ pc'[r] = s /\ call'[r] = c
  BY <1>1, <1>2 DEF Others, Inv, Types
<1>4. Types'
  <2> HIDE DEF NoCall
  <2>1. Tables'
    BY <1>1 DEF Inv, Types, Tables, PapersOf, Graded, Taught
  <2>2. s \in At
    BY DEF At
  <2> QED BY <1>1, <1>2, <2>1, <2>2 DEF Inv, Types
<1>5. \A b : Stored(b) => Stored(b)'
  BY <1>1, <1>3 DEF Stored, Others, Done
<1>6. Rows' /\ MarksWithinTotal'
  BY <1>1, <1>5 DEF Inv, Rows, MarksWithinTotal, Graded
<1>7. \A q, x, j, p : Faithful(q, x, j, p) => Faithful(q, x, j, p)'
  BY <1>1, <1>5 DEF Faithful
<1>8. Fits(r)'
  <2>1. seen[r].subjects = {} /\ seen'[r] = seen[r]
    BY <1>1 DEF Inv, Fits, FitsAt
  <2> QED BY <1>1, <1>2, <1>3, <2>1 DEF Fits, FitsAt, Done, Elsewhere
<1>9. ASSUME NEW q \in Request, q # r
      PROVE  Fits(q)'
  <2>1. Fits(q) /\ pc'[q] = pc[q] /\ call'[q] = call[q] /\ seen'[q] = seen[q]
    BY <1>3, <1>9 DEF Inv, Others
  <2>2. PICK a : a = seen[q].paper
    OBVIOUS
  <2>3. Faithful(q, call[q].exam, call[q].subject, a) => Faithful(q, call[q].exam, call[q].subject, a)'
    <3>1. PICK x, j : x = call[q].exam /\ j = call[q].subject
      OBVIOUS
    <3> QED BY <1>7, <2>1, <3>1
  <2> QED BY <1>1, <2>1, <2>2, <2>3 DEF Fits, FitsAt, Taught
<1>10. Distinct'
  BY <1>1, <1>3 DEF Inv, Distinct, Running, Others
<1> QED BY <1>4, <1>6, <1>8, <1>9, <1>10 DEF Inv

LEMMA ReadExamKeeps ==
    ASSUME Inv, NEW r \in Request, ReadExam(r)
    PROVE  Inv'
<1>1. /\ pc[r] = "exam" /\ r \in Running /\ FitsAt(r, "exam", seen[r]) /\ call[r] \in Calls
      /\ UNCHANGED tables
  BY RunningFacts DEF ReadExam, Check, Done
<1>2. PICK s : s = After(call[r].op)
  OBVIOUS
<1>3. /\ s \in {"papers", "paper", "term", "close"}
      /\ s = "papers" => call[r].op \in {"addSubject", "removeSubject"}
      /\ s = "paper" => call[r].op \in {"updateSubject", "enterGrades"}
      /\ s = "term" => call[r].op = "update"
      /\ s = "close" => call[r].op \in Closing
  BY <1>1, <1>2, CallFacts DEF After, FitsAt, PaperOps, Elsewhere
<1>4. FitsAt(r, s, seen[r])
  BY <1>1, <1>3 DEF FitsAt, Done
<1>5. Continue(r, s, seen[r]) \/ Answer(r, "refused")
  BY <1>2 DEF ReadExam, Check
<1> QED BY <1>1, <1>3, <1>4, <1>5, WalkKeeps, QuietAnswer DEF At, Done

LEMMA ReadPapersKeeps ==
    ASSUME Inv, NEW r \in Request, ReadPapers(r)
    PROVE  Inv'
<1>1. /\ pc[r] = "papers" /\ r \in Running /\ FitsAt(r, "papers", seen[r]) /\ seen[r] \in Locals
      /\ UNCHANGED tables
  BY RunningFacts DEF ReadPapers, Check, Done
<1>2. PICK S \in SUBSET Subject : S = PapersOf(call[r].exam)
  BY DEF PapersOf
<1>3. PICK l : l = [seen[r] EXCEPT !.subjects = S]
  OBVIOUS
<1>4. l \in Locals
  BY <1>1, <1>3, LocalsSubjects
<1>5. FitsAt(r, IF call[r].op = "addSubject" THEN "fit" ELSE "paper", l)
  BY <1>1 DEF FitsAt, Done
<1>6. \/ Continue(r, IF call[r].op = "addSubject" THEN "fit" ELSE "paper", l)
      \/ Answer(r, "refused")
  BY <1>2, <1>3 DEF ReadPapers, Check
<1> QED BY <1>1, <1>4, <1>5, <1>6, ContinueKeeps, QuietAnswer DEF At, Done

LEMMA MatchSubjectsKeeps ==
    ASSUME Inv, NEW r \in Request, MatchSubjects(r)
    PROVE  Inv'
<1> DEFINE c == call[r]
<1>1. /\ pc[r] = "fit" /\ r \in Running /\ FitsAt(r, "fit", seen[r]) /\ seen[r] \in Locals
      /\ UNCHANGED tables
  BY RunningFacts DEF MatchSubjects, Check, Done
<1>2. CASE Answer(r, "refused")
  BY <1>1, <1>2, QuietAnswer DEF Done
<1>3. SubjectsOf[level] \subseteq Taught /\ Taught \subseteq Subject
  BY TaughtFacts DEF Taught, Inv, Types, Tables
<1>4. CASE c.op = "addSubject" /\ c.subject \in SubjectsOf[level] /\ Continue(r, "insert", seen[r])
  <2>1. FitsAt(r, "insert", seen[r])
    BY <1>1, <1>3, <1>4 DEF FitsAt, Done
  <2> QED BY <1>1, <1>4, <2>1, WalkKeeps DEF At, Done
<1>5. ASSUME NEW j \in SubjectsOf[level], NEW S, S = seen[r].subjects \cup {j}, c.op = "create",
             NEW s, s = IF S = DOMAIN c.papers THEN "term" ELSE "fit",
             NEW D, D = (IF S = DOMAIN c.papers THEN {} ELSE S),
             Continue(r, s, [seen[r] EXCEPT !.subjects = D])
      PROVE  Inv'
  <2>1. S \subseteq Taught
    BY <1>1, <1>3, <1>5 DEF FitsAt
  <2>2. D \in SUBSET Subject /\ D \subseteq Taught
    BY <1>3, <1>5, <2>1
  <2>3. PICK l : l = [seen[r] EXCEPT !.subjects = D]
    OBVIOUS
  <2>4. l \in Locals /\ l.subjects = D
    BY <1>1, <2>2, <2>3, LocalsSubjects
  <2>5. FitsAt(r, s, l)
    BY <1>1, <1>5, <2>1, <2>2, <2>4 DEF FitsAt, Done
  <2>6. s \in At \ (Done \cup {"idle"})
    BY <1>5 DEF At, Done
  <2> QED BY <1>1, <1>5, <2>3, <2>4, <2>5, <2>6, ContinueKeeps
<1> QED BY <1>2, <1>4, <1>5 DEF MatchSubjects, Check

LEMMA MatchTermKeeps ==
    ASSUME Inv, NEW r \in Request, MatchTerm(r)
    PROVE  Inv'
<1>1. /\ pc[r] = "term" /\ r \in Running /\ FitsAt(r, "term", seen[r]) /\ UNCHANGED tables
  BY RunningFacts DEF MatchTerm, Check, Done
<1>2. CASE Answer(r, "refused")
  BY <1>1, <1>2, QuietAnswer DEF Done
<1>3. CASE /\ call[r].term \in (terms \cap TermOfYear) \cup {None}
           /\ Continue(r, IF call[r].op = "create" THEN "create" ELSE "write", seen[r])
  <2>1. FitsAt(r, IF call[r].op = "create" THEN "create" ELSE "write", seen[r])
    BY <1>1, <1>3 DEF FitsAt, Done
  <2> QED BY <1>1, <1>3, <2>1, WalkKeeps DEF At, Done
<1> QED BY <1>2, <1>3 DEF MatchTerm, Check

\* The paper that was found is a row that some call has stored.
LEMMA FindPaperKeeps ==
    ASSUME Inv, NEW r \in Request, FindPaper(r)
    PROVE  Inv'
<1> DEFINE c == call[r]
<1>1. /\ pc[r] = "paper" /\ r \in Running /\ FitsAt(r, "paper", seen[r]) /\ seen[r] \in Locals
      /\ UNCHANGED tables
  BY RunningFacts DEF FindPaper, Check, Done
<1>2. PICK x \in Exam, j \in Subject : x = c.exam /\ j = c.subject
  BY <1>1, CallFacts DEF FitsAt, PaperOps, Done
<1>3. PICK p \in Paper : p = papers[x][j]
  BY DEF Inv, Types, Tables
<1>4. PICK l : l = [seen[r] EXCEPT !.paper = p, !.subjects = {}]
  OBVIOUS
<1>5. l \in Locals /\ l.paper = p
  BY <1>1, <1>4 DEF Locals
<1>6. CASE Answer(r, "refused")
  BY <1>1, <1>6, QuietAnswer DEF Done
<1>7. CASE j \in PapersOf(x) /\ Continue(r, IF c.op = "enterGrades" THEN "access" ELSE "write", l)
  <2>1. Faithful(r, x, j, p)
    BY <1>3, <1>7, PaperTotal DEF Faithful, PapersOf, Inv, Rows
  <2>2. FitsAt(r, IF c.op = "enterGrades" THEN "access" ELSE "write", l)
    BY <1>1, <1>2, <1>5, <2>1 DEF FitsAt, Done
  <2> QED BY <1>1, <1>5, <1>7, <2>2, ContinueKeeps DEF At, Done
<1> QED BY <1>2, <1>3, <1>4, <1>6, <1>7 DEF FindPaper, Check

LEMMA CheckRecordsKeeps ==
    ASSUME Inv, NEW r \in Request, CheckRecords(r)
    PROVE  Inv'
<1>1. /\ pc[r] = "access" /\ r \in Running /\ FitsAt(r, "access", seen[r]) /\ UNCHANGED tables
  BY RunningFacts DEF CheckRecords, Check, Done
<1>2. CASE Answer(r, "refused")
  BY <1>1, <1>2, QuietAnswer DEF Done
<1>3. CASE /\ \A s \in DOMAIN call[r].records : call[r].records[s] <= seen[r].paper.total
           /\ Continue(r, "grades", seen[r])
  <2>1. FitsAt(r, "grades", seen[r])
    BY <1>1, <1>3 DEF FitsAt, Done
  <2> QED BY <1>1, <1>3, <2>1, WalkKeeps DEF At, Done
<1> QED BY <1>2, <1>3 DEF CheckRecords, Check

LEMMA DeleteGradesKeeps ==
    ASSUME Inv, NEW r \in Request, DeleteGrades(r)
    PROVE  Inv'
<1> DEFINE c == call[r]
           b == [s \in Entered(r) |-> IF papers[c.exam][c.subject].by = seen[r].paper.by
                                      THEN grades[c.exam][c.subject][s].by ELSE None]
<1>1. /\ pc[r] = "grades" /\ r \in Running /\ FitsAt(r, "grades", seen[r]) /\ seen[r] \in Locals
      /\ UNCHANGED tables /\ Continue(r, "commit", [seen[r] EXCEPT !.before = b])
  BY RunningFacts DEF DeleteGrades, Done
<1>2. c.exam \in Exam /\ c.subject \in Subject /\ Entered(r) \in SUBSET Student
  <2>1. c \in Calls /\ c.op = "enterGrades"
    BY <1>1 DEF FitsAt, Done
  <2>2. c.exam \in Exam /\ c.subject \in Subject /\ c.records \in Maps(Student, Marks)
    BY <2>1, CallFacts DEF PaperOps
  <2> QED BY <2>2, MapsFacts DEF Entered
<1>3. ASSUME NEW s \in Student
      PROVE  grades[c.exam][c.subject][s].by \in By \cup {None}
  <2>1. grades[c.exam][c.subject][s] \in Grade
    BY <1>2, <1>3 DEF Inv, Types, Tables
  <2> QED BY <2>1 DEF Grade, NoGrade, By
<1>4. b \in [Entered(r) -> By \cup {None}]
  BY <1>2, <1>3
<1>5. PICK l : l = [seen[r] EXCEPT !.before = b]
  OBVIOUS
<1> HIDE DEF b
<1>6. l \in Locals /\ l.paper = seen[r].paper
  BY <1>1, <1>2, <1>4, <1>5, LocalsBefore
<1>7. FitsAt(r, "commit", l)
  BY <1>1, <1>6 DEF FitsAt, Done
<1> QED BY <1>1, <1>5, <1>6, <1>7, ContinueKeeps DEF At, Done

LEMMA FindTermKeeps ==
    ASSUME Inv, NEW r \in Request, FindTerm(r)
    PROVE  Inv'
<1>1. /\ pc[r] = "findTerm" /\ r \in Running /\ FitsAt(r, "findTerm", seen[r]) /\ UNCHANGED tables
      /\ Continue(r, "deleteTerm", seen[r]) \/ Answer(r, "refused")
  BY RunningFacts DEF FindTerm, Check, Done
<1>2. FitsAt(r, "deleteTerm", seen[r])
  BY <1>1 DEF FitsAt, Done
<1> QED BY <1>1, <1>2, WalkKeeps, QuietAnswer DEF At, Done

-----------------------------------------------------------------------------
(* The writes *)

\* A row that stays keeps its "by" and its total.
LEMMA RowStays ==
    ASSUME Inv, NEW x \in Exam, NEW j \in Subject
    PROVE  papers[x][j] \in Paper /\ papers[x][j].total <= papers[x][j].total
<1>1. papers[x][j] \in Paper
  BY DEF Inv, Types, Tables
<1>2. papers[x][j].total \in Nat
  BY <1>1, PaperTotal
<1> QED BY <1>1, <1>2

\* Writes of exams, terms and section only.
LEMMA ExamWritten ==
    ASSUME Inv, NEW r \in Request, UNCHANGED <<papers, grades, lowered>>,
           exams' \in [Exam -> ExamRow \cup {NoExam}],
           \A x \in Exam : exams'[x] = NoExam <=> exams[x] = NoExam,
           \A x \in Exam : exams'[x] # NoExam => exams'[x].term \in terms' \cup {None},
           level' \in levels', levels' \subseteq Level, levels \subseteq levels'
    PROVE  Tables' /\ Grows(r) /\ MarksWithinTotal'
<1>1. Taught \subseteq Taught'
  BY DEF Taught
<1>2. Tables'
  BY <1>1 DEF Inv, Types, Tables, PapersOf, Graded
<1>3. MarksWithinTotal'
  BY DEF Inv, MarksWithinTotal, Graded
<1>4. Grows(r)
  BY RowStays DEF Grows
<1> QED BY <1>2, <1>3, <1>4

LEMMA CreateExamKeeps ==
    ASSUME Inv, NEW r \in Request, CreateExam(r)
    PROVE  Inv'
<1>1. /\ pc[r] = "create" /\ r \in Running /\ FitsAt(r, "create", seen[r]) /\ call[r] \in Calls
      /\ UNCHANGED <<grades, terms, lowered, level, levels>>
  BY RunningFacts DEF CreateExam, Done, section
<1>2. PICK x \in Exam, m \in Maps(Subject, Total), t \in TermOfYear \cup {None} :
        x = call[r].exam /\ m = call[r].papers /\ t = call[r].term
  BY <1>1, CallFacts DEF FitsAt
<1>3. exams[x] = NoExam /\ DOMAIN m \subseteq Taught
  BY <1>1, <1>2 DEF FitsAt, Done
<1>4. PICK e : e = [finalized |-> FALSE, discarded |-> FALSE, term |-> t]
  OBVIOUS
<1>5. PICK p : p = [j \in Subject |-> IF j \in DOMAIN m THEN [by |-> r, total |-> m[j]] ELSE NoPaper]
  OBVIOUS
<1>6. CASE ~HasTerm(t)
  <2>1. Answer(r, "refused") /\ UNCHANGED tables
    BY <1>1, <1>2, <1>6 DEF CreateExam, tables, section
  <2> QED BY <1>1, <2>1, QuietAnswer DEF Done
<1>7. CASE HasTerm(t)
  <2>1. exams' = [exams EXCEPT ![x] = e] /\ papers' = [papers EXCEPT ![x] = p] /\ Answer(r, "ok")
    BY <1>2, <1>4, <1>5, <1>7 DEF CreateExam
  <2>2. e \in ExamRow /\ e # NoExam
    BY <1>4, ExamsAssumption DEF ExamRow, NoExam
  <2>3. /\ p \in [Subject -> Paper]
        /\ \A j \in Subject : p[j] # NoPaper => j \in DOMAIN m
        /\ \A j \in Subject : p[j].by \in {None, r}
    BY <1>5, <1>2, MapsFacts DEF Paper, NoPaper, By
  <2>4. \A j \in Subject : Graded(x, j) = {}
    BY <1>3 DEF Inv, Types, Tables, Graded
  <2>5. /\ exams'[x] = e /\ papers'[x] = p
        /\ \A y \in Exam \ {x} : exams'[y] = exams[y] /\ papers'[y] = papers[y]
        /\ exams' \in [Exam -> ExamRow \cup {NoExam}] /\ papers' \in [Exam -> [Subject -> Paper]]
    <3> HIDE DEF NoExam
    <3> QED BY <2>1, <2>2, <2>3 DEF Inv, Types, Tables
  <2>6. /\ PapersOf(x)' = {j \in Subject : p[j] # NoPaper}
        /\ \A y \in Exam \ {x} : PapersOf(y)' = PapersOf(y)
        /\ \A y \in Exam, j \in Subject : Graded(y, j)' = Graded(y, j)
        /\ Taught' = Taught
    BY <1>1, <2>5 DEF PapersOf, Graded, Taught
  <2>7. Tables'
    <3>1. \A y \in Exam : exams'[y] = NoExam => PapersOf(y)' = {}
      BY <2>2, <2>5, <2>6 DEF Inv, Types, Tables
    <3>2. \A y \in Exam : PapersOf(y)' \subseteq Taught'
      <4>1. PapersOf(x)' \subseteq Taught
        BY <1>3, <2>3, <2>6
      <4>2. \A y \in Exam \ {x} : PapersOf(y)' \subseteq Taught
        BY <2>6 DEF Inv, Types, Tables
      <4> QED BY <2>6, <4>1, <4>2
    <3>3. \A y \in Exam, j \in Subject : Graded(y, j)' # {} => j \in PapersOf(y)'
      <4>1. \A y \in Exam, j \in Subject : Graded(y, j) # {} => j \in PapersOf(y)
        BY DEF Inv, Types, Tables
      <4> QED BY <2>4, <2>6, <4>1
    <3>4. \A y \in Exam : exams'[y] # NoExam => exams'[y].term \in terms' \cup {None}
      <4>1. exams'[x].term = t
        BY <1>4, <2>5
      <4>2. \A y \in Exam \ {x} : exams[y] # NoExam => exams'[y].term \in terms \cup {None}
        BY <2>5 DEF Inv, Types, Tables
      <4> QED BY <1>1, <1>7, <2>5, <4>1, <4>2 DEF HasTerm
    <3> QED BY <1>1, <2>5, <3>1, <3>2, <3>3, <3>4 DEF Inv, Types, Tables
  <2>8. MarksWithinTotal'
    BY <1>1, <2>4, <2>5, <2>6 DEF Inv, MarksWithinTotal
  <2>9. Grows(r)
    <3>1. call[r].op = "create"
      BY <1>1 DEF FitsAt
    <3>2. \A y \in Exam :
            /\ exams[y] # NoExam => exams'[y] # NoExam
            /\ exams'[y] # NoExam => exams[y] # NoExam \/ y = x
      BY <2>2, <2>5
    <3>3. \A j \in Subject : papers'[x][j].by \in {None, r}
      BY <2>3, <2>5
    <3>4. \A y \in Exam \ {x}, j \in Subject :
            papers'[y][j].by = papers[y][j].by /\ papers[y][j].total <= papers'[y][j].total
      BY <2>5, RowStays
    <3>5. \A y \in Exam : exams'[y] # NoExam =>
            exams[y] # NoExam \/ (r \in Running /\ call[r].op = "create" /\ call[r].exam = y)
      BY <1>1, <1>2, <3>1, <3>2
    <3>6. \A y \in Exam, j \in Subject :
            \/ papers'[y][j].by \in {None, r}
            \/ /\ papers'[y][j].by = papers[y][j].by
               /\ papers[y][j].total <= papers'[y][j].total
      BY <3>3, <3>4
    <3> QED BY <1>1, <3>2, <3>5, <3>6 DEF Grows
  <2> QED BY <1>1, <2>1, <2>7, <2>8, <2>9, AnswerKeeps DEF Done
<1> QED BY <1>6, <1>7

LEMMA UpdateExamKeeps ==
    ASSUME Inv, NEW r \in Request, UpdateExam(r)
    PROVE  Inv'
<1>1. /\ pc[r] = "write" /\ call[r].op = "update" /\ r \in Running /\ FitsAt(r, "write", seen[r])
      /\ call[r] \in Calls /\ UNCHANGED <<papers, grades, terms, lowered, level, levels>>
  BY RunningFacts DEF UpdateExam, Done, section
<1>2. PICK x \in Exam, t \in TermOfYear \cup {None} : x = call[r].exam /\ t = call[r].term
  BY <1>1, CallFacts DEF FitsAt
<1>3. exams[x] # NoExam
  BY <1>1, <1>2 DEF FitsAt, Done, Elsewhere
<1>4. exams[x] \in ExamRow /\ exams[x].term \in terms \cup {None}
  BY <1>3 DEF Inv, Types, Tables
<1>5. CASE ~HasTerm(t)
  <2>1. Answer(r, "refused") /\ UNCHANGED tables
    BY <1>1, <1>2, <1>5 DEF UpdateExam, tables, section
  <2> QED BY <1>1, <2>1, QuietAnswer DEF Done
<1>6. CASE HasTerm(t)
  <2>1. PICK e : e = [exams[x] EXCEPT !.term = IF t = None THEN @ ELSE t]
    OBVIOUS
  <2>2. e \in ExamRow /\ e # NoExam /\ e.term \in terms \cup {None}
    BY <1>2, <1>4, <1>6, <2>1, ExamsAssumption DEF ExamRow, NoExam, HasTerm
  <2>3. exams' = [exams EXCEPT ![x] = e] /\ Answer(r, "ok")
    BY <1>2, <1>6, <2>1 DEF UpdateExam
  <2>4. /\ exams' \in [Exam -> ExamRow \cup {NoExam}]
        /\ \A y \in Exam : exams'[y] = NoExam <=> exams[y] = NoExam
        /\ \A y \in Exam : exams'[y] # NoExam => exams'[y].term \in terms' \cup {None}
    <3> HIDE DEF NoExam
    <3> QED BY <1>1, <1>3, <2>2, <2>3 DEF Inv, Types, Tables
  <2>5. level' \in levels' /\ levels' \subseteq Level /\ levels \subseteq levels'
    BY <1>1 DEF Inv, Types, Tables
  <2> QED BY <1>1, <2>3, <2>4, <2>5, ExamWritten, AnswerKeeps DEF Done
<1> QED BY <1>5, <1>6

\* The exams of a term that goes lose it.
LEMMA DeleteTermKeeps ==
    ASSUME Inv, NEW r \in Request, DeleteTerm(r)
    PROVE  Inv'
<1>1. /\ pc[r] = "deleteTerm" /\ r \in Running /\ FitsAt(r, "deleteTerm", seen[r]) /\ call[r] \in Calls
      /\ UNCHANGED <<papers, grades, lowered, level, levels>>
  BY RunningFacts DEF DeleteTerm, Done, section
<1>2. PICK t \in Term : t = call[r].term
  BY <1>1, CallFacts DEF FitsAt
<1>3. CASE t \notin terms
  <2>1. Answer(r, "refused") /\ UNCHANGED tables
    BY <1>1, <1>2, <1>3 DEF DeleteTerm, tables, section
  <2> QED BY <1>1, <2>1, QuietAnswer DEF Done
<1>4. CASE t \in terms
  <2>1. /\ exams' = [x \in Exam |-> IF exams[x].term = t THEN [exams[x] EXCEPT !.term = None]
                                                        ELSE exams[x]]
        /\ terms' = terms \ {t} /\ Answer(r, "ok")
    BY <1>2, <1>4 DEF DeleteTerm
  <2>2. ASSUME NEW x \in Exam
        PROVE  /\ exams'[x] \in ExamRow \cup {NoExam}
               /\ exams'[x] = NoExam <=> exams[x] = NoExam
               /\ exams'[x] # NoExam => exams'[x].term \in terms' \cup {None}
    <3>1. CASE exams[x] = NoExam
      <4>1. exams[x].term # t
        BY <3>1, ExamsAssumption DEF NoExam
      <4> QED BY <2>1, <3>1, <4>1
    <3>2. CASE exams[x] # NoExam /\ exams[x].term # t
      <4>1. exams'[x] = exams[x] /\ exams[x].term \in terms \cup {None} /\ exams[x] \in ExamRow
        BY <2>1, <3>2 DEF Inv, Types, Tables
      <4> QED BY <2>1, <3>2, <4>1
    <3>3. CASE exams[x] # NoExam /\ exams[x].term = t
      <4>1. PICK e \in ExamRow : e = exams[x]
        BY <3>3 DEF Inv, Types, Tables
      <4>2. exams'[x] = [e EXCEPT !.term = None]
        BY <2>1, <3>3, <4>1
      <4>3. exams'[x] \in ExamRow /\ exams'[x].term = None
        BY <4>1, <4>2 DEF ExamRow
      <4>4. exams'[x] # NoExam
        BY <4>3, ExamsAssumption DEF NoExam
      <4> QED BY <3>3, <4>3, <4>4
    <3> QED BY <3>1, <3>2, <3>3
  <2>3. /\ exams' \in [Exam -> ExamRow \cup {NoExam}]
        /\ \A x \in Exam : exams'[x] = NoExam <=> exams[x] = NoExam
        /\ \A x \in Exam : exams'[x] # NoExam => exams'[x].term \in terms' \cup {None}
    <3>1. DOMAIN exams' = Exam /\ exams' = [x \in Exam |-> exams'[x]]
      BY <2>1
    <3> QED BY <2>2, <3>1
  <2>4. level' \in levels' /\ levels' \subseteq Level /\ levels \subseteq levels'
    BY <1>1 DEF Inv, Types, Tables
  <2> QED BY <1>1, <2>1, <2>3, <2>4, ExamWritten, AnswerKeeps DEF Done
<1> QED BY <1>3, <1>4

LEMMA CloseExamKeeps ==
    ASSUME Inv, NEW r \in Request, CloseExam(r)
    PROVE  Inv'
<1>1. /\ pc[r] = "close" /\ r \in Running /\ FitsAt(r, "close", seen[r])
      /\ call[r] \in Calls /\ UNCHANGED <<papers, grades, terms, lowered, level, levels>>
      /\ Answer(r, "ok")
  BY RunningFacts DEF CloseExam, Done, section
<1>2. PICK x \in Exam, op \in Closing : x = call[r].exam /\ op = call[r].op
  BY <1>1, CallFacts DEF FitsAt, Closing
<1>3. exams[x] # NoExam
  BY <1>1, <1>2 DEF FitsAt, Done, Closing, Elsewhere
<1>4. exams[x] \in ExamRow /\ exams[x].term \in terms \cup {None}
  BY <1>3 DEF Inv, Types, Tables
<1>5. PICK e : e = [exams[x] EXCEPT !.finalized = IF op = "discard" THEN @ ELSE op = "finalize",
                                    !.discarded = @ \/ op = "discard"]
  OBVIOUS
<1>6. e \in ExamRow /\ e # NoExam /\ e.term = exams[x].term
  <2>1. e \in ExamRow /\ e.term = exams[x].term
    BY <1>4, <1>5 DEF ExamRow
  <2> QED BY <2>1, ExamsAssumption DEF ExamRow, NoExam
<1>7. exams' = [exams EXCEPT ![x] = e]
  BY <1>2, <1>5 DEF CloseExam
<1>8. /\ exams' \in [Exam -> ExamRow \cup {NoExam}]
      /\ \A y \in Exam : exams'[y] = NoExam <=> exams[y] = NoExam
      /\ \A y \in Exam : exams'[y] # NoExam => exams'[y].term \in terms' \cup {None}
  <2> HIDE DEF NoExam
  <2> QED BY <1>1, <1>3, <1>4, <1>6, <1>7 DEF Inv, Types, Tables
<1>9. level' \in levels' /\ levels' \subseteq Level /\ levels \subseteq levels'
  BY <1>1 DEF Inv, Types, Tables
<1> QED BY <1>1, <1>8, <1>9, ExamWritten, AnswerKeeps DEF Done

LEMMA UpdateSectionKeeps ==
    ASSUME Inv, NEW r \in Request, UpdateSection(r)
    PROVE  Inv'
<1>1. CASE pc[r] = "section"
  <2>1. /\ r \in Running /\ FitsAt(r, "section", seen[r]) /\ UNCHANGED tables
        /\ Continue(r, "write", seen[r]) \/ Answer(r, "refused")
    BY <1>1, RunningFacts DEF UpdateSection, Done, tables
  <2>2. FitsAt(r, "write", seen[r])
    BY <2>1 DEF FitsAt, Done
  <2> QED BY <2>1, <2>2, WalkKeeps, QuietAnswer DEF At, Done
<1>2. CASE pc[r] = "write" /\ call[r].op = "updateSection"
  <2>1. /\ r \in Running /\ call[r] \in Calls /\ UNCHANGED <<exams, papers, grades, terms, lowered>>
        /\ Answer(r, "ok") /\ level' = call[r].level /\ levels' = levels \cup {level'}
    BY <1>2, RunningFacts DEF UpdateSection, Done
  <2>2. level' \in Level
    BY <1>2, <2>1, CallFacts
  <2>3. /\ level' \in levels' /\ levels' \subseteq Level /\ levels \subseteq levels'
        /\ exams' \in [Exam -> ExamRow \cup {NoExam}]
        /\ \A y \in Exam : exams'[y] = NoExam <=> exams[y] = NoExam
        /\ \A y \in Exam : exams'[y] # NoExam => exams'[y].term \in terms' \cup {None}
    BY <2>1, <2>2 DEF Inv, Types, Tables
  <2> QED BY <2>1, <2>3, ExamWritten, AnswerKeeps DEF Done
<1> QED BY <1>1, <1>2 DEF UpdateSection

\* A write of the row of exam x and subject j.
Writes(x, j, p) == papers' = [papers EXCEPT ![x][j] = p]

LEMMA PaperWritten ==
    ASSUME Inv, NEW x \in Exam, NEW j \in Subject, NEW p \in Paper, Writes(x, j, p)
    PROVE  /\ papers' \in [Exam -> [Subject -> Paper]] /\ papers'[x][j] = p
           /\ \A y \in Exam, i \in Subject : y # x \/ i # j => papers'[y][i] = papers[y][i]
           /\ PapersOf(x)' = IF p = NoPaper THEN PapersOf(x) \ {j} ELSE PapersOf(x) \cup {j}
           /\ \A y \in Exam \ {x} : PapersOf(y)' = PapersOf(y)
<1>1. papers \in [Exam -> [Subject -> Paper]]
  BY DEF Inv, Types, Tables
<1>2. papers' \in [Exam -> [Subject -> Paper]] /\ papers'[x][j] = p
  BY <1>1 DEF Writes
<1>3. \A y \in Exam, i \in Subject : y # x \/ i # j => papers'[y][i] = papers[y][i]
  BY <1>1 DEF Writes
<1> HIDE DEF NoPaper
<1>4. PapersOf(x)' = IF p = NoPaper THEN PapersOf(x) \ {j} ELSE PapersOf(x) \cup {j}
  BY <1>2, <1>3 DEF PapersOf
<1>5. \A y \in Exam \ {x} : PapersOf(y)' = PapersOf(y)
  BY <1>3 DEF PapersOf
<1> QED BY <1>2, <1>3, <1>4, <1>5

LEMMA InsertPaperKeeps ==
    ASSUME Inv, NEW r \in Request, InsertPaper(r)
    PROVE  Inv'
<1>1. /\ pc[r] = "insert" /\ r \in Running /\ FitsAt(r, "insert", seen[r]) /\ call[r] \in Calls
      /\ UNCHANGED <<exams, grades, terms, lowered, level, levels>>
  BY RunningFacts DEF InsertPaper, Done, section
<1>2. PICK x \in Exam, j \in Subject, t \in Total :
        x = call[r].exam /\ j = call[r].subject /\ t = call[r].total
  BY <1>1, CallFacts DEF FitsAt, PaperOps
<1>3. exams[x] # NoExam /\ j \in Taught
  BY <1>1, <1>2 DEF FitsAt, Done, Elsewhere
<1>4. CASE j \in PapersOf(x)
  <2>1. Answer(r, "refused") /\ UNCHANGED tables
    BY <1>1, <1>2, <1>4 DEF InsertPaper, tables, section
  <2> QED BY <1>1, <2>1, QuietAnswer DEF Done
<1>5. CASE j \notin PapersOf(x)
  <2>1. PICK p : p = [by |-> r, total |-> t]
    OBVIOUS
  <2>2. Writes(x, j, p) /\ Answer(r, "ok")
    BY <1>2, <1>5, <2>1 DEF InsertPaper, Writes
  <2>3. p \in Paper /\ p # NoPaper /\ p.by = r
    BY <2>1, ExamsAssumption DEF Paper, By, NoPaper
  <2>4. /\ papers' \in [Exam -> [Subject -> Paper]] /\ papers'[x][j] = p
        /\ \A y \in Exam, i \in Subject : y # x \/ i # j => papers'[y][i] = papers[y][i]
        /\ PapersOf(x)' = PapersOf(x) \cup {j}
        /\ \A y \in Exam \ {x} : PapersOf(y)' = PapersOf(y)
    <3>1. PapersOf(x)' = IF p = NoPaper THEN PapersOf(x) \ {j} ELSE PapersOf(x) \cup {j}
      BY <2>2, <2>3, PaperWritten
    <3> QED BY <2>2, <2>3, <3>1, PaperWritten
  <2>5. Graded(x, j) = {} /\ \A y \in Exam, i \in Subject : Graded(y, i)' = Graded(y, i)
    BY <1>1, <1>5 DEF Inv, Types, Tables, Graded
  <2>6. \A y \in Exam : PapersOf(y) \subseteq PapersOf(y)' /\ (PapersOf(y)' # PapersOf(y) => y = x)
    BY <2>4
  <2>7. Tables'
    <3>1. Taught' = Taught
      BY <1>1 DEF Taught
    <3>2. \A y \in Exam : exams'[y] = NoExam => PapersOf(y)' = {}
      BY <1>1, <1>3, <2>6 DEF Inv, Types, Tables
    <3>3. PapersOf(x)' \subseteq Taught
      BY <1>3, <2>4 DEF Inv, Types, Tables
    <3>4. \A y \in Exam : PapersOf(y)' \subseteq Taught'
      BY <2>6, <3>1, <3>3 DEF Inv, Types, Tables
    <3>5. \A y \in Exam, i \in Subject : Graded(y, i)' # {} => i \in PapersOf(y)'
      BY <2>5, <2>6 DEF Inv, Types, Tables
    <3> QED BY <1>1, <2>4, <3>2, <3>4, <3>5 DEF Inv, Types, Tables
  <2>8. MarksWithinTotal'
    BY <1>1, <2>4, <2>5 DEF Inv, MarksWithinTotal
  <2>9. Grows(r)
    BY <1>1, <2>3, <2>4, RowStays DEF Grows
  <2> QED BY <1>1, <2>2, <2>7, <2>8, <2>9, AnswerKeeps DEF Done
<1> QED BY <1>4, <1>5

\* An update that lowers a total puts those who have read it in lowered.
LEMMA UpdatePaperKeeps ==
    ASSUME Inv, NEW r \in Request, UpdatePaper(r)
    PROVE  Inv'
<1>1. /\ pc[r] = "write" /\ call[r].op = "updateSubject" /\ r \in Running /\ call[r] \in Calls
      /\ UNCHANGED <<exams, grades, terms, level, levels>>
  BY RunningFacts DEF UpdatePaper, Done, section
<1>2. PICK x \in Exam, j \in Subject, t \in Total \cup {None} :
        x = call[r].exam /\ j = call[r].subject /\ t = call[r].total
  BY <1>1, CallFacts DEF PaperOps
<1>3. PICK a \in Paper : a = papers[x][j]
  BY DEF Inv, Types, Tables
<1>4. CASE a = NoPaper
  <2>1. Answer(r, "refused") /\ UNCHANGED tables
    BY <1>1, <1>2, <1>3, <1>4 DEF UpdatePaper, tables, section
  <2> QED BY <1>1, <2>1, QuietAnswer DEF Done
<1>5. CASE a # NoPaper
  <2>1. PICK p : p = [a EXCEPT !.total = IF t = None THEN @ ELSE t]
    OBVIOUS
  <2>2. /\ papers' = [papers EXCEPT ![x][j].total = IF t = None THEN @ ELSE t]
        /\ lowered' = IF t # None /\ t < a.total THEN lowered \cup Readers(x, j) ELSE lowered
        /\ Answer(r, "ok")
    BY <1>2, <1>3, <1>5 DEF UpdatePaper
  <2>3. Writes(x, j, p)
    BY <1>3, <2>1, <2>2 DEF Inv, Types, Tables, Writes
  <2>4. p \in Paper /\ p # NoPaper /\ p.by = a.by /\ a.total \in Nat /\ p.total \in Nat
        /\ (t # None => p.total = t) /\ (t = None => p.total = a.total)
    <3>1. a \in [by : By, total : Total] /\ a.by # None
      BY <1>5, PaperTotal DEF Paper
    <3> QED BY <2>1, <3>1, PaperTotal, ExamsAssumption DEF Paper, NoPaper
  <2>5. /\ papers' \in [Exam -> [Subject -> Paper]] /\ papers'[x][j] = p
        /\ \A y \in Exam, i \in Subject : y # x \/ i # j => papers'[y][i] = papers[y][i]
        /\ PapersOf(x)' = PapersOf(x) \cup {j}
        /\ \A y \in Exam \ {x} : PapersOf(y)' = PapersOf(y)
    <3>1. p \in Paper /\ p # NoPaper
      BY <2>4
    <3>2. PapersOf(x)' = IF p = NoPaper THEN PapersOf(x) \ {j} ELSE PapersOf(x) \cup {j}
      BY <2>3, <3>1, PaperWritten
    <3> QED BY <2>3, <3>1, <3>2, PaperWritten
  <2>6. j \in PapersOf(x)
    BY <1>3, <1>5 DEF PapersOf
  <2>7. \A y \in Exam : PapersOf(y)' = PapersOf(y)
    BY <2>5, <2>6
  <2>8. lowered \subseteq lowered' /\ (a.total <= p.total \/ Readers(x, j) \subseteq lowered')
    BY <2>2, <2>4
  <2>9. Tables'
    <3>1. \A y \in Exam, i \in Subject : Graded(y, i)' = Graded(y, i)
      BY <1>1 DEF Graded
    <3>2. Taught' = Taught
      BY <1>1 DEF Taught
    <3> QED BY <1>1, <2>5, <2>7, <3>1, <3>2 DEF Inv, Types, Tables
  <2>10. MarksWithinTotal'
    <3> SUFFICES ASSUME NEW y \in Exam, NEW i \in Subject, NEW s \in Student, grades'[y][i][s] # NoGrade
                 PROVE  \/ grades'[y][i][s].marks <= papers'[y][i].total
                        \/ grades'[y][i][s].by \in lowered'
      BY Zenon DEF MarksWithinTotal, Graded
    <3>1. s \in Graded(y, i) /\ grades'[y][i][s] = grades[y][i][s]
      BY <1>1 DEF Graded
    <3>2. \/ grades[y][i][s].marks <= papers[y][i].total
          \/ grades[y][i][s].by \in lowered
      BY <3>1 DEF Inv, MarksWithinTotal
    <3>3. grades[y][i][s].marks \in Nat /\ grades[y][i][s].by \in Request
      <4>1. s \in Student /\ grades[y][i][s] \in Grade /\ grades[y][i][s] # NoGrade
        BY <3>1 DEF Graded, Inv, Types, Tables
      <4>2. grades[y][i][s] \in [by : Request, marks : Marks]
        BY <4>1 DEF Grade
      <4> QED BY <4>2, ExamsAssumption
    <3>4. CASE y = x /\ i = j
      <4>1. grades[x][j][s].by \in Readers(x, j)
        BY <3>3, <3>4 DEF Readers
      <4> QED BY <1>3, <2>4, <2>5, <2>8, <3>1, <3>2, <3>3, <3>4, <4>1
    <3>5. CASE y # x \/ i # j
      BY <2>5, <2>8, <3>1, <3>2, <3>5
    <3> QED BY <3>4, <3>5
  <2>11. Grows(r)
    <3>1. \A y \in Exam, i \in Subject :
            /\ papers'[y][i].by = papers[y][i].by
            /\ papers[y][i].total <= papers'[y][i].total \/ Readers(y, i) \subseteq lowered'
      BY <1>3, <2>4, <2>5, <2>8, RowStays
    <3> QED BY <1>1, <2>8, <3>1 DEF Grows
  <2> QED BY <1>1, <2>2, <2>9, <2>10, <2>11, AnswerKeeps DEF Done
<1> QED BY <1>4, <1>5

LEMMA DeletePaperKeeps ==
    ASSUME Inv, NEW r \in Request, DeletePaper(r)
    PROVE  Inv'
<1>1. /\ pc[r] = "write" /\ call[r].op = "removeSubject" /\ r \in Running /\ call[r] \in Calls
      /\ UNCHANGED <<exams, terms, lowered, level, levels>>
  BY RunningFacts DEF DeletePaper, Done, section
<1>2. PICK x \in Exam, j \in Subject : x = call[r].exam /\ j = call[r].subject
  BY <1>1, CallFacts DEF PaperOps
<1>3. CASE j \notin PapersOf(x)
  <2>1. Answer(r, "refused") /\ UNCHANGED tables
    BY <1>1, <1>2, <1>3 DEF DeletePaper, tables, section
  <2> QED BY <1>1, <2>1, QuietAnswer DEF Done
<1>4. CASE j \in PapersOf(x)
  <2>1. PICK none : none = [s \in Student |-> NoGrade]
    OBVIOUS
  <2>2. /\ Writes(x, j, NoPaper) /\ grades' = [grades EXCEPT ![x][j] = none]
        /\ Answer(r, "ok")
    BY <1>2, <1>4, <2>1 DEF DeletePaper, Writes
  <2>3. NoPaper \in Paper /\ NoPaper.by = None
    BY DEF Paper, NoPaper
  <2>4. /\ papers' \in [Exam -> [Subject -> Paper]] /\ papers'[x][j] = NoPaper
        /\ \A y \in Exam, i \in Subject : y # x \/ i # j => papers'[y][i] = papers[y][i]
        /\ PapersOf(x)' = PapersOf(x) \ {j}
        /\ \A y \in Exam \ {x} : PapersOf(y)' = PapersOf(y)
    BY <2>2, <2>3, PaperWritten
  <2>5. /\ grades' \in [Exam -> [Subject -> [Student -> Grade]]] /\ grades'[x][j] = none
        /\ \A y \in Exam, i \in Subject : y # x \/ i # j => grades'[y][i] = grades[y][i]
    <3>1. none \in [Student -> Grade]
      BY <2>1 DEF Grade
    <3> QED BY <2>2, <3>1 DEF Inv, Types, Tables
  <2>6. /\ Graded(x, j)' = {}
        /\ \A y \in Exam, i \in Subject : y # x \/ i # j => Graded(y, i)' = Graded(y, i)
    BY <2>1, <2>5 DEF Graded
  <2>7. \A y \in Exam : /\ PapersOf(y)' \subseteq PapersOf(y)
                       /\ \A i \in PapersOf(y) : i \in PapersOf(y)' \/ (y = x /\ i = j)
    BY <2>4
  <2>8. Tables'
    <3>1. Taught' = Taught
      BY <1>1 DEF Taught
    <3>2. \A y \in Exam, i \in Subject : Graded(y, i)' # {} => i \in PapersOf(y)'
      BY <2>6, <2>7 DEF Inv, Types, Tables
    <3>3. \A y \in Exam : exams'[y] = NoExam => PapersOf(y)' = {}
      BY <1>1, <2>7 DEF Inv, Types, Tables
    <3>4. \A y \in Exam : PapersOf(y)' \subseteq Taught'
      BY <2>7, <3>1 DEF Inv, Types, Tables
    <3> QED BY <1>1, <2>4, <2>5, <3>2, <3>3, <3>4 DEF Inv, Types, Tables
  <2>9. MarksWithinTotal'
    <3> SUFFICES ASSUME NEW y \in Exam, NEW i \in Subject, NEW s \in Student, grades'[y][i][s] # NoGrade
                 PROVE  \/ grades'[y][i][s].marks <= papers'[y][i].total
                        \/ grades'[y][i][s].by \in lowered'
      BY Zenon DEF MarksWithinTotal, Graded
    <3>1. s \in Graded(y, i) /\ (y # x \/ i # j)
      BY <2>1, <2>5 DEF Graded
    <3> QED BY <1>1, <2>4, <2>5, <3>1 DEF Inv, MarksWithinTotal
  <2>10. Grows(r)
    BY <1>1, <2>3, <2>4, RowStays DEF Grows
  <2> QED BY <1>1, <2>2, <2>8, <2>9, <2>10, AnswerKeeps DEF Done
<1> QED BY <1>3, <1>4

\* The marks that are stored were compared with the paper they are stored on,
\* unless its total has gone down since, and then the call is in lowered.
LEMMA CreateGradesKeeps ==
    ASSUME Inv, NEW r \in Request, CreateGrades(r)
    PROVE  Inv'
<1>1. /\ pc[r] = "commit" /\ r \in Running /\ FitsAt(r, "commit", seen[r]) /\ seen[r] \in Locals
      /\ call[r] \in Calls /\ UNCHANGED <<exams, papers, terms, lowered, level, levels>>
  BY RunningFacts DEF CreateGrades, Done, section
<1>2. /\ call[r].op = "enterGrades"
      /\ \A s \in DOMAIN call[r].records : call[r].records[s] <= seen[r].paper.total
  BY <1>1 DEF FitsAt
<1>3. PICK x \in Exam, j \in Subject, m \in Maps(Student, Marks), a \in Paper :
        x = call[r].exam /\ j = call[r].subject /\ m = call[r].records /\ a = seen[r].paper
  BY <1>1, <1>2, CallFacts DEF PaperOps, Locals
<1>4. Faithful(r, x, j, a)
  BY <1>1, <1>3 DEF FitsAt
<1>5. CASE Answer(r, "refused") /\ UNCHANGED grades
  BY <1>1, <1>5, QuietAnswer DEF tables, section, Done
<1>6. CASE /\ Answer(r, "ok") /\ papers[x][j].by = a.by
           /\ grades' = [grades EXCEPT ![x][j] = [s \in Student |-> IF s \in DOMAIN m
                                                   THEN [by |-> r, marks |-> m[s]] ELSE @[s]]]
  <2>1. PICK g : g = [s \in Student |-> IF s \in DOMAIN m THEN [by |-> r, marks |-> m[s]]
                                                         ELSE grades[x][j][s]]
    OBVIOUS
  <2>2. grades' = [grades EXCEPT ![x][j] = g]
    BY <1>6, <2>1 DEF Inv, Types, Tables
  <2>3. DOMAIN m \in SUBSET Student /\ \A s \in DOMAIN m : m[s] \in Marks
    BY MapsFacts
  <2>4. g \in [Student -> Grade]
    BY <2>1, <2>3 DEF Grade, Inv, Types, Tables
  <2>5. /\ grades' \in [Exam -> [Subject -> [Student -> Grade]]] /\ grades'[x][j] = g
        /\ \A y \in Exam, i \in Subject : y # x \/ i # j => grades'[y][i] = grades[y][i]
    BY <2>2, <2>4 DEF Inv, Types, Tables
  <2>6. papers[x][j] \in Paper /\ a.by # None
    BY <1>4 DEF Faithful, Inv, Types, Tables
  <2>7. j \in PapersOf(x)
    BY <1>6, <2>6, PaperTotal DEF PapersOf
  <2>8. \A y \in Exam : PapersOf(y)' = PapersOf(y)
    BY <1>1 DEF PapersOf
  <2>9. \A y \in Exam, i \in Subject : y # x \/ i # j => Graded(y, i)' = Graded(y, i)
    BY <2>5 DEF Graded
  <2>10. Tables'
    <3>1. Taught' = Taught
      BY <1>1 DEF Taught
    <3>2. \A y \in Exam, i \in Subject : Graded(y, i)' # {} => i \in PapersOf(y)'
      <4>1. \A y \in Exam, i \in Subject : (y # x \/ i # j) /\ Graded(y, i)' # {} => i \in PapersOf(y)
        BY <2>9 DEF Inv, Types, Tables
      <4> QED BY <2>7, <2>8, <4>1
    <3> QED BY <1>1, <2>5, <2>8, <3>1, <3>2 DEF Inv, Types, Tables
  <2>11. MarksWithinTotal'
    <3> SUFFICES ASSUME NEW y \in Exam, NEW i \in Subject, NEW s \in Graded(y, i)'
                 PROVE  \/ grades'[y][i][s].marks <= papers[y][i].total
                        \/ grades'[y][i][s].by \in lowered
      BY <1>1 DEF MarksWithinTotal
    <3>1. CASE y # x \/ i # j
      BY <2>5, <2>9, <3>1 DEF Inv, MarksWithinTotal
    <3>2. CASE y = x /\ i = j /\ s \in DOMAIN m
      <4>1. grades'[x][j][s].marks = m[s] /\ m[s] \in Nat /\ grades'[x][j][s].by = r
        <5>1. s \in Student /\ m[s] \in Nat
          BY <2>3, <3>2, ExamsAssumption
        <5>2. grades'[x][j][s] = [by |-> r, marks |-> m[s]]
          BY <2>1, <2>5, <3>2, <5>1
        <5> QED BY <5>1, <5>2
      <4>2. m[s] <= a.total /\ a.total \in Nat /\ papers[x][j].total \in Nat
        BY <1>2, <1>3, <2>6, <3>2, PaperTotal
      <4>3. a.total <= papers[x][j].total \/ r \in lowered
        BY <1>4, <1>6 DEF Faithful
      <4> QED BY <1>6, <3>2, <4>1, <4>2, <4>3
    <3>3. CASE y = x /\ i = j /\ s \notin DOMAIN m
      <4>1. s \in Graded(x, j) /\ grades'[x][j][s] = grades[x][j][s]
        BY <2>1, <2>5, <3>3 DEF Graded
      <4> QED BY <3>3, <4>1 DEF Inv, MarksWithinTotal
    <3> QED BY <3>1, <3>2, <3>3
  <2>12. Grows(r)
    BY <1>1, RowStays DEF Grows
  <2> QED BY <1>1, <1>6, <2>10, <2>11, <2>12, AnswerKeeps DEF Done
<1> QED BY <1>3, <1>5, <1>6 DEF CreateGrades, Entered

-----------------------------------------------------------------------------
(* The invariant and what follows *)

LEMMA StepKeeps ==
    ASSUME Inv, NEW r \in Request, Step(r)
    PROVE  Inv'
<1>1. CASE StatementFails(r)
  BY <1>1, QuietAnswer DEF StatementFails, Done
<1> QED BY <1>1, ReadExamKeeps, ReadPapersKeeps, MatchSubjectsKeeps, MatchTermKeeps, FindPaperKeeps,
           CheckRecordsKeeps, CreateExamKeeps, UpdateExamKeeps, CloseExamKeeps, InsertPaperKeeps,
           UpdatePaperKeeps, DeletePaperKeeps, DeleteGradesKeeps, CreateGradesKeeps, UpdateSectionKeeps,
           FindTermKeeps, DeleteTermKeeps
    DEF Step

LEMMA NextKeeps ==
    ASSUME Inv, [Next]_vars
    PROVE  Inv'
<1>1. CASE UNCHANGED vars
  <2> HIDE DEF NoCall
  <2>1. UNCHANGED <<exams, papers, grades, terms, level, levels, lowered, pc, call, seen, tables>>
    BY <1>1 DEF vars, section, tables
  <2>2. Tables' /\ MarksWithinTotal'
    BY <2>1, QuietTables
  <2>3. Rows' /\ Distinct'
    BY <2>1 DEF Inv, Rows, Stored, Distinct, Running
  <2>4. \A r \in Request : Fits(r)'
    BY <2>1 DEF Inv, Fits, FitsAt, Faithful, Stored, Taught
  <2> QED BY <2>1, <2>2, <2>3, <2>4 DEF Inv, Types
<1>2. ASSUME NEW r \in Request, NEW c \in Calls, Begin(r, c)
      PROVE  Inv'
  BY <1>2, BeginKeeps
<1> QED BY <1>1, <1>2, StepKeeps DEF Next

LEMMA InitHolds == Init => Inv
<1> SUFFICES ASSUME Init PROVE Inv
  OBVIOUS
<1>1. \A x \in Exam : exams[x] \in ExamRow \cup {NoExam}
  <2> SUFFICES ASSUME NEW x \in Exam PROVE exams[x] \in ExamRow \cup {NoExam}
    OBVIOUS
  <2>1. exams[x] = NoExam \/ exams[x] = [finalized |-> FALSE, discarded |-> FALSE, term |-> None]
    BY DEF Init
  <2>2. [finalized |-> FALSE, discarded |-> FALSE, term |-> None] \in ExamRow
    BY DEF ExamRow
  <2> QED BY <2>1, <2>2
<1>2. \A x \in Exam, j \in Subject : papers[x][j] \in Paper
  BY DEF Init, Paper, By
<1>3. /\ exams \in [Exam -> ExamRow \cup {NoExam}] /\ papers \in [Exam -> [Subject -> Paper]]
      /\ grades \in [Exam -> [Subject -> [Student -> Grade]]]
  BY <1>1, <1>2 DEF Init, Grade
<1>4. \A x \in Exam, j \in Subject : Graded(x, j) = {}
  BY DEF Init, Graded
<1>5. level \in levels /\ levels \subseteq Level /\ SubjectsOf[level] \subseteq Taught
  BY DEF Init, Taught
<1>6. Tables
  BY <1>3, <1>4, <1>5 DEF Init, Tables
<1>7. Types
  <2>1. Nothing \in Locals
    BY NothingRead
  <2> HIDE DEF NoCall, Nothing
  <2> QED BY <1>6, <2>1 DEF Init, Types, At
<1>8. Rows
  BY <1>2, PaperTotal DEF Init, Rows, Stored, Paper, NoPaper
<1>9. Distinct /\ MarksWithinTotal
  BY <1>4 DEF Init, Distinct, Running, MarksWithinTotal
<1>10. \A r \in Request : Fits(r)
  BY DEF Init, Fits, FitsAt, Nothing
<1> QED BY <1>7, <1>8, <1>9, <1>10 DEF Inv

LEMMA Invariance == Spec => []Inv
BY InitHolds, NextKeeps, PTL DEF Spec

\* Rows have the types of their columns; papers are of exams that exist and of
\* subjects of a level the section has had, grades on papers that exist, and an
\* exam's term is one of its year that exists, whatever the concurrent calls
\* read before and whichever terms they delete.
THEOREM ExamsTypeCorrect == Spec => []TypeOK
<1>1. Inv => TypeOK
  <2> SUFFICES ASSUME Inv PROVE TypeOK
    OBVIOUS
  <2>0. exams \in [Exam -> {NoExam} \cup [finalized : BOOLEAN, discarded : BOOLEAN,
                                           term : (terms \cap TermOfYear) \cup {None}]]
    <3> HIDE DEF NoExam
    <3>1. \A x \in Exam : exams[x] # NoExam =>
            exams[x] \in ExamRow /\ exams[x].term \in terms \cup {None}
      BY DEF Inv, Types, Tables
    <3>2. \A x \in Exam : exams[x] # NoExam =>
            exams[x] \in [finalized : BOOLEAN, discarded : BOOLEAN,
                          term : (terms \cap TermOfYear) \cup {None}]
      BY <3>1 DEF ExamRow
    <3> QED BY <3>2 DEF Inv, Types, Tables
  <2>1. /\ papers \in [Exam -> [Subject -> {NoPaper} \cup [by : Request \cup {Earlier}, total : Total]]]
        /\ grades \in [Exam -> [Subject -> [Student -> {NoGrade} \cup [by : Request, marks : Marks]]]]
    BY DEF Inv, Types, Tables, Paper, By, Grade
  <2>2. \A x \in Exam :
          /\ PapersOf(x) \subseteq IF exams[x] = NoExam THEN {} ELSE UNION {SubjectsOf[l] : l \in levels}
          /\ \A j \in Subject : Graded(x, j) # {} => j \in PapersOf(x)
    BY DEF Inv, Types, Tables, Taught
  <2>3. \A r \in Running : call[r] \in Calls
    BY DEF Inv, Fits, FitsAt, Running
  <2> QED BY <2>0, <2>1, <2>2, <2>3 DEF TypeOK
<1> QED BY <1>1, Invariance, PTL

\* Nobody has more marks than the paper's total, unless the total was lowered
\* after the call that stored the marks had read the paper; removing the paper
\* and adding it again between the check and the write gets no marks past it, and
\* marks entered after a total was lowered are within it.
THEOREM MarksStayWithin == Spec => []MarksWithinTotal
<1>1. Inv => MarksWithinTotal
  BY DEF Inv
<1> QED BY <1>1, Invariance, PTL

-----------------------------------------------------------------------------
(* While handlers do not overlap *)

Alone == \A r, q \in Running : r = q

Tidy == \A x \in Exam : exams[x] # NoExam => PapersOf(x) # {}

\* What the one handler in flight relies on at statement p with locals l.
KnowsAt(r, p, l) ==
    LET c == call[r] IN
    /\ p \notin Done \cup {"idle", "exam"} /\ c.op \notin Elsewhere =>
         Permits(c.exam, c.op)
    /\ p = "paper" /\ c.op = "removeSubject" => l.subjects = PapersOf(c.exam)
    /\ p = "write" /\ c.op = "removeSubject" => \E j \in PapersOf(c.exam) : j # c.subject

Knows(r) == KnowsAt(r, pc[r], seen[r])

Calm == alone => Alone /\ Tidy /\ \A r \in Request : Knows(r)

LEMMA Flight ==
    ASSUME Calm, alone, NEW r \in Running, NEW q \in Request, q # r
    PROVE  pc[q] \in Done \cup {"idle"}
BY DEF Calm, Alone, Running

\* The last statement of the only call in flight.
LEMMA CalmAnswer ==
    ASSUME Inv, Calm, NEW r \in Request, r \in Running, NEW outcome \in Done, Answer(r, outcome),
           alone => Tidy'
    PROVE  Calm'
<1> SUFFICES ASSUME alone' PROVE Alone' /\ Tidy' /\ \A q \in Request : Knows(q)'
  BY DEF Calm
<1>1. alone /\ pc' = [pc EXCEPT ![r] = outcome]
  BY DEF Answer
<1>2. \A q \in Request : pc'[q] \in Done \cup {"idle"}
  BY <1>1, Flight DEF Inv, Types
<1>3. Alone'
  BY <1>2 DEF Alone, Running
<1>4. \A q \in Request : Knows(q)'
  BY <1>2 DEF Knows, KnowsAt, Done
<1> QED BY <1>1, <1>3, <1>4

LEMMA TidyStays ==
    ASSUME Calm, alone, UNCHANGED <<exams, papers>>
    PROVE  Tidy'
BY DEF Calm, Tidy, PapersOf

LEMMA CalmQuietAnswer ==
    ASSUME Inv, Calm, NEW r \in Request, r \in Running, NEW outcome \in Done, Answer(r, outcome),
           UNCHANGED tables
    PROVE  Calm'
<1>1. alone => Tidy'
  BY Same, TidyStays
<1> QED BY <1>1, CalmAnswer

LEMMA CalmContinue ==
    ASSUME Inv, Calm, NEW r \in Request, r \in Running, NEW s \in At \ (Done \cup {"idle"}),
           NEW l \in Locals, Continue(r, s, l), UNCHANGED tables, alone => KnowsAt(r, s, l)
    PROVE  Calm'
<1> SUFFICES ASSUME alone' PROVE Alone' /\ Tidy' /\ \A q \in Request : Knows(q)'
  BY DEF Calm
<1>1. /\ alone /\ call' = call /\ pc' = [pc EXCEPT ![r] = s] /\ seen' = [seen EXCEPT ![r] = l]
  BY DEF Continue
<1>2. UNCHANGED <<exams, papers>>
  BY Same
<1>3. /\ pc'[r] = s /\ seen'[r] = l
      /\ \A q \in Request \ {r} : pc'[q] \in Done \cup {"idle"}
  BY <1>1, Flight DEF Inv, Types
<1>4. Alone'
  BY <1>3 DEF Alone, Running
<1>5. Knows(r)'
  <2>1. \A x, op : Permits(x, op) => Permits(x, op)'
    BY <1>2 DEF Permits, Open
  <2>2. \A x : PapersOf(x)' = PapersOf(x)
    BY <1>2 DEF PapersOf
  <2>3. PICK c : c = call[r]
    OBVIOUS
  <2>4. /\ s \notin Done \cup {"idle", "exam"} /\ c.op \notin Elsewhere =>
             Permits(c.exam, c.op)
        /\ s = "paper" /\ c.op = "removeSubject" => l.subjects = PapersOf(c.exam)
        /\ s = "write" /\ c.op = "removeSubject" => \E j \in PapersOf(c.exam) : j # c.subject
    BY <1>1, <2>3 DEF KnowsAt
  <2>5. /\ s \notin Done \cup {"idle", "exam"} /\ c.op \notin Elsewhere =>
             Permits(c.exam, c.op)'
        /\ s = "paper" /\ c.op = "removeSubject" => l.subjects = PapersOf(c.exam)'
        /\ s = "write" /\ c.op = "removeSubject" => \E j \in PapersOf(c.exam)' : j # c.subject
    BY <2>1, <2>2, <2>4
  <2> QED BY <1>1, <1>3, <2>3, <2>5 DEF Knows, KnowsAt
<1>6. \A q \in Request \ {r} : Knows(q)'
  BY <1>3 DEF Knows, KnowsAt, Done
<1> QED BY <1>1, <1>2, <1>4, <1>5, <1>6, TidyStays

LEMMA RunningKnows ==
    ASSUME Inv, Calm, NEW r \in Request, pc[r] \notin Done \cup {"idle"}
    PROVE  /\ FitsAt(r, pc[r], seen[r]) /\ seen[r] \in Locals /\ call[r] \in Calls /\ r \in Running
           /\ alone => KnowsAt(r, pc[r], seen[r])
BY RunningFacts DEF Calm, Knows

LEMMA BeginCalm ==
    ASSUME Inv, Calm, NEW r \in Request, NEW c \in Calls, Begin(r, c)
    PROVE  Calm'
<1> SUFFICES ASSUME alone' PROVE Alone' /\ Tidy' /\ \A q \in Request : Knows(q)'
  BY DEF Calm
<1>1. alone /\ Running = {} /\ UNCHANGED <<exams, papers>> /\ call' = [call EXCEPT ![r] = c]
  BY DEF Begin, tables
<1>2. PICK s \in {"fit", "section", "findTerm", "exam"} :
        /\ pc' = [pc EXCEPT ![r] = s]
        /\ s = "fit" <=> c.op = "create"
        /\ s = "section" <=> c.op = "updateSection"
        /\ s = "findTerm" <=> c.op = "deleteTerm"
  BY DEF Begin
<1>3. /\ pc'[r] = s /\ call'[r] = c
      /\ \A q \in Request \ {r} : pc'[q] \in Done \cup {"idle"}
  BY <1>1, <1>2 DEF Running, Inv, Types
<1>4. Alone'
  BY <1>3 DEF Alone, Running
<1>5. \A q \in Request : Knows(q)'
  BY <1>2, <1>3 DEF Knows, KnowsAt, Done, Elsewhere
<1> QED BY <1>1, <1>4, <1>5, TidyStays

\* The checks: what they found is what is there.
LEMMA ChecksCalm ==
    ASSUME Inv, Calm, NEW r \in Request,
           ReadExam(r) \/ MatchSubjects(r) \/ MatchTerm(r) \/ CheckRecords(r) \/ FindTerm(r)
    PROVE  Calm'
<1>1. /\ pc[r] \in {"exam", "fit", "term", "access", "findTerm"} /\ UNCHANGED tables
      /\ r \in Running /\ call[r] \in Calls /\ seen[r] \in Locals
      /\ FitsAt(r, pc[r], seen[r]) /\ (alone => KnowsAt(r, pc[r], seen[r]))
  BY RunningKnows DEF ReadExam, MatchSubjects, MatchTerm, CheckRecords, FindTerm, Check, Done
<1>2. CASE Answer(r, "refused")
  BY <1>1, <1>2, CalmQuietAnswer DEF Done
<1>3. CASE ReadExam(r) /\ Permits(call[r].exam, call[r].op) /\ Continue(r, After(call[r].op), seen[r])
  <2>1. PICK s : s = After(call[r].op)
    OBVIOUS
  <2>2. /\ s \in {"papers", "paper", "term", "close"}
        /\ s = "paper" => call[r].op # "removeSubject"
    BY <2>1 DEF After
  <2>3. s \in At \ (Done \cup {"idle"}) /\ KnowsAt(r, s, seen[r])
    BY <1>3, <2>2 DEF KnowsAt, At, Done
  <2> QED BY <1>1, <1>3, <2>1, <2>3, CalmContinue
<1>4. ASSUME NEW s \in {"fit", "term", "insert", "create", "write", "grades", "deleteTerm"},
             NEW l \in Locals, Continue(r, s, l),
             pc[r] # "exam", s = "write" => call[r].op # "removeSubject"
      PROVE  Calm'
  <2>1. alone => KnowsAt(r, s, l)
    BY <1>1, <1>4 DEF KnowsAt, Done
  <2>2. s \in At \ (Done \cup {"idle"})
    BY DEF At, Done
  <2> QED BY <1>1, <1>4, <2>1, <2>2, CalmContinue
<1>5. CASE ReadExam(r)
  BY <1>2, <1>3, <1>5 DEF ReadExam, Check
<1>6. CASE MatchSubjects(r)
  <2>1. CASE call[r].op = "addSubject" /\ Continue(r, "insert", seen[r])
    BY <1>1, <1>4, <1>6, <2>1 DEF MatchSubjects
  <2>2. ASSUME NEW j \in SubjectsOf[level], NEW S, S = seen[r].subjects \cup {j}, call[r].op = "create",
               NEW s \in {"fit", "term"},
               NEW D, D = (IF S = DOMAIN call[r].papers THEN {} ELSE S),
               Continue(r, s, [seen[r] EXCEPT !.subjects = D])
        PROVE  Calm'
    <3>1. Taught \subseteq Subject /\ SubjectsOf[level] \subseteq Taught
      BY TaughtFacts DEF Taught, Inv, Types, Tables
    <3>2. D \in SUBSET Subject
      BY <1>1, <2>2, <3>1 DEF Locals
    <3>3. PICK l : l = [seen[r] EXCEPT !.subjects = D]
      OBVIOUS
    <3>4. l \in Locals
      BY <1>1, <3>2, <3>3, LocalsSubjects
    <3> QED BY <1>4, <1>6, <2>2, <3>3, <3>4 DEF MatchSubjects
  <2> QED BY <1>2, <1>6, <2>1, <2>2 DEF MatchSubjects, Check
<1>7. CASE MatchTerm(r)
  BY <1>1, <1>2, <1>4, <1>7 DEF MatchTerm, Check, FitsAt
<1>8. CASE CheckRecords(r)
  BY <1>1, <1>2, <1>4, <1>8 DEF CheckRecords, Check
<1>9. CASE FindTerm(r)
  BY <1>1, <1>2, <1>4, <1>9 DEF FindTerm, Check
<1> QED BY <1>5, <1>6, <1>7, <1>8, <1>9

LEMMA ReadPapersCalm ==
    ASSUME Inv, Calm, NEW r \in Request, ReadPapers(r)
    PROVE  Calm'
<1>1. /\ pc[r] = "papers" /\ r \in Running /\ UNCHANGED tables /\ seen[r] \in Locals
      /\ FitsAt(r, "papers", seen[r]) /\ (alone => KnowsAt(r, "papers", seen[r]))
  BY RunningKnows DEF ReadPapers, Check, Done
<1>2. PICK S \in SUBSET Subject : S = PapersOf(call[r].exam)
  BY DEF PapersOf
<1>3. PICK l : l = [seen[r] EXCEPT !.subjects = S]
  OBVIOUS
<1>4. l \in Locals /\ l.subjects = S
  BY <1>1, <1>3, LocalsSubjects
<1>5. PICK s \in {"fit", "paper"} : s = IF call[r].op = "addSubject" THEN "fit" ELSE "paper"
  OBVIOUS
<1>6. alone => KnowsAt(r, s, l)
  BY <1>1, <1>2, <1>4, <1>5 DEF KnowsAt, Done
<1>7. Continue(r, s, l) \/ Answer(r, "refused")
  BY <1>2, <1>3, <1>5 DEF ReadPapers, Check
<1>8. s \in At \ (Done \cup {"idle"})
  BY DEF At, Done
<1> QED BY <1>1, <1>4, <1>6, <1>7, <1>8, CalmContinue, CalmQuietAnswer DEF Done

\* An exam of more than one paper has another one.
LEMMA AnotherOne ==
    ASSUME NEW S, NEW j, Cardinality(S) > 1
    PROVE  \E i \in S : i # j
<1>1. S # {} /\ S # {j}
  BY FS_EmptySet, FS_Singleton
<1> QED BY <1>1

LEMMA FindPaperCalm ==
    ASSUME Inv, Calm, NEW r \in Request, FindPaper(r)
    PROVE  Calm'
<1>1. /\ pc[r] = "paper" /\ r \in Running /\ UNCHANGED tables /\ seen[r] \in Locals
      /\ FitsAt(r, "paper", seen[r]) /\ call[r] \in Calls /\ (alone => KnowsAt(r, "paper", seen[r]))
  BY RunningKnows DEF FindPaper, Check, Done
<1>2. PICK x \in Exam, j \in Subject : x = call[r].exam /\ j = call[r].subject
  BY <1>1, CallFacts DEF FitsAt, PaperOps, Done
<1>3. PICK p \in Paper : p = papers[x][j]
  BY DEF Inv, Types, Tables
<1>4. PICK l : l = [seen[r] EXCEPT !.paper = p, !.subjects = {}]
  OBVIOUS
<1>5. l \in Locals
  BY <1>1, <1>4 DEF Locals
<1>6. PICK s \in {"access", "write"} : s = IF call[r].op = "enterGrades" THEN "access" ELSE "write"
  OBVIOUS
<1>7. CASE Answer(r, "refused")
  BY <1>1, <1>7, CalmQuietAnswer DEF Done
<1>8. CASE /\ call[r].op = "removeSubject" => Cardinality(seen[r].subjects) > 1
           /\ Continue(r, s, l)
  <2>1. ASSUME alone, call[r].op = "removeSubject"
        PROVE  \E i \in PapersOf(x) : i # j
    <3>1. PICK S : S = PapersOf(x) /\ Cardinality(S) > 1
      BY <1>1, <1>2, <1>8, <2>1 DEF KnowsAt
    <3> QED BY <3>1, AnotherOne
  <2>2. alone => KnowsAt(r, s, l)
    BY <1>1, <1>2, <1>6, <2>1 DEF KnowsAt, Done
  <2>3. s \in At \ (Done \cup {"idle"})
    BY DEF At, Done
  <2> QED BY <1>1, <1>5, <1>8, <2>2, <2>3, CalmContinue
<1> QED BY <1>2, <1>3, <1>4, <1>6, <1>7, <1>8 DEF FindPaper, Check

LEMMA DeleteGradesCalm ==
    ASSUME Inv, Calm, NEW r \in Request, DeleteGrades(r)
    PROVE  Calm'
<1> DEFINE b == [s \in Entered(r) |-> IF papers[call[r].exam][call[r].subject].by = seen[r].paper.by
                                      THEN grades[call[r].exam][call[r].subject][s].by ELSE None]
<1>0. pc[r] = "grades" /\ UNCHANGED tables /\ Continue(r, "commit", [seen[r] EXCEPT !.before = b])
  BY Zenon DEF DeleteGrades
<1>1. /\ r \in Running /\ seen[r] \in Locals /\ call[r] \in Calls
      /\ FitsAt(r, "grades", seen[r]) /\ (alone => KnowsAt(r, "grades", seen[r]))
  <2> HIDE DEF b
  <2> QED BY <1>0, RunningKnows DEF Done
<1>2. call[r].op = "enterGrades"
  BY <1>1 DEF FitsAt
<1>3. call[r].exam \in Exam /\ call[r].subject \in Subject /\ Entered(r) \in SUBSET Student
  BY <1>1, <1>2, CallFacts, MapsFacts DEF PaperOps, Entered
<1>4. ASSUME NEW s \in Student
      PROVE  grades[call[r].exam][call[r].subject][s].by \in By \cup {None}
  <2>1. grades[call[r].exam][call[r].subject][s] \in Grade
    BY <1>3, <1>4 DEF Inv, Types, Tables
  <2> QED BY <2>1 DEF Grade, NoGrade, By
<1>5. b \in [Entered(r) -> By \cup {None}]
  BY <1>3, <1>4
<1>6. PICK l : l = [seen[r] EXCEPT !.before = b]
  OBVIOUS
<1> HIDE DEF b
<1>7. l \in Locals
  BY <1>1, <1>3, <1>5, <1>6, LocalsBefore
<1>8. alone => KnowsAt(r, "commit", l)
  BY <1>1 DEF KnowsAt, Done
<1> QED BY <1>0, <1>1, <1>6, <1>7, <1>8, CalmContinue DEF At, Done

LEMMA CreateGradesCalm ==
    ASSUME Inv, Calm, NEW r \in Request, CreateGrades(r)
    PROVE  Calm'
<1>1. r \in Running /\ UNCHANGED <<exams, papers>> /\ (Answer(r, "refused") \/ Answer(r, "ok"))
  BY RunningKnows DEF CreateGrades, Done
<1> QED BY <1>1, TidyStays, CalmAnswer DEF Done

LEMMA ExamWritesCalm ==
    ASSUME Inv, Calm, NEW r \in Request,
           CreateExam(r) \/ UpdateExam(r) \/ CloseExam(r) \/ UpdateSection(r) \/ DeleteTerm(r)
    PROVE  Calm'
<1>0. ASSUME Answer(r, "refused") \/ Answer(r, "ok"), r \in Running, UNCHANGED papers,
             \A x \in Exam : exams[x] = NoExam => exams'[x] = NoExam
      PROVE  Calm'
  <2>1. \A x \in Exam : PapersOf(x)' = PapersOf(x)
    BY <1>0 DEF PapersOf
  <2>2. alone => Tidy'
    BY <1>0, <2>1 DEF Calm, Tidy
  <2> QED BY <1>0, <2>2, CalmAnswer DEF Done
<1>1. CASE CreateExam(r)
  <2>1. pc[r] = "create" /\ r \in Running /\ FitsAt(r, "create", seen[r]) /\ call[r] \in Calls
    BY <1>1, RunningKnows DEF CreateExam, Done
  <2>2. PICK x \in Exam, m \in Maps(Subject, Total) : x = call[r].exam /\ m = call[r].papers
    BY <2>1, CallFacts DEF FitsAt
  <2>3. PICK j \in Subject : j \in DOMAIN m
    BY MapsFacts
  <2>4. CASE ~HasTerm(call[r].term)
    BY <1>0, <1>1, <2>1, <2>4 DEF CreateExam
  <2>5. CASE HasTerm(call[r].term)
    <3>1. /\ \A y \in Exam \ {x} : exams'[y] = exams[y] /\ papers'[y] = papers[y]
          /\ papers'[x][j] = [by |-> r, total |-> m[j]] /\ Answer(r, "ok")
      BY <1>1, <2>2, <2>3, <2>5 DEF CreateExam, Inv, Types, Tables
    <3>2. papers'[x][j] # NoPaper
      BY <3>1, ExamsAssumption DEF NoPaper
    <3>3. j \in PapersOf(x)' /\ \A y \in Exam \ {x} : PapersOf(y)' = PapersOf(y)
      BY <3>1, <3>2 DEF PapersOf
    <3>4. alone => Tidy'
      BY <3>1, <3>3 DEF Calm, Tidy
    <3> QED BY <2>1, <3>1, <3>4, CalmAnswer DEF Done
  <2> QED BY <2>4, <2>5
<1>2. CASE UpdateExam(r) \/ CloseExam(r)
  <2>1. /\ pc[r] \in {"write", "close"} /\ r \in Running /\ call[r] \in Calls
        /\ FitsAt(r, pc[r], seen[r])
        /\ UNCHANGED papers /\ (Answer(r, "refused") \/ Answer(r, "ok"))
        /\ pc[r] = "write" => call[r].op = "update"
    BY <1>2, RunningKnows DEF UpdateExam, CloseExam, Done
  <2>2. PICK x \in Exam : x = call[r].exam
    BY <2>1, CallFacts DEF FitsAt, Closing
  <2>3. exams[x] # NoExam
    BY <2>1, <2>2 DEF FitsAt, Done, Closing, Elsewhere
  <2>4. \A y \in Exam \ {x} : exams'[y] = exams[y]
    BY <1>2, <2>2 DEF UpdateExam, CloseExam, Inv, Types, Tables
  <2> QED BY <1>0, <2>1, <2>3, <2>4
<1>3. CASE UpdateSection(r) /\ pc[r] = "section"
  <2>1. /\ r \in Running /\ UNCHANGED tables /\ seen[r] \in Locals /\ FitsAt(r, "section", seen[r])
        /\ Continue(r, "write", seen[r]) \/ Answer(r, "refused")
    BY <1>3, RunningKnows DEF UpdateSection, Done, tables
  <2>2. KnowsAt(r, "write", seen[r])
    BY <2>1 DEF KnowsAt, FitsAt, Elsewhere
  <2> QED BY <2>1, <2>2, CalmContinue, CalmQuietAnswer DEF At, Done
<1>4. CASE UpdateSection(r) /\ pc[r] = "write"
  <2>1. r \in Running /\ UNCHANGED <<exams, papers>> /\ Answer(r, "ok")
    BY <1>4, RunningKnows DEF UpdateSection, Done
  <2> QED BY <2>1, TidyStays, CalmAnswer DEF Done
<1>5. CASE DeleteTerm(r)
  <2>1. /\ pc[r] = "deleteTerm" /\ r \in Running /\ FitsAt(r, "deleteTerm", seen[r]) /\ call[r] \in Calls
        /\ UNCHANGED papers /\ (Answer(r, "refused") \/ Answer(r, "ok"))
    BY <1>5, RunningKnows DEF DeleteTerm, Done
  <2>2. PICK t \in Term : t = call[r].term
    BY <2>1, CallFacts DEF FitsAt
  <2>3. \A x \in Exam : exams[x] = NoExam => exams'[x] = NoExam
    BY <1>5, <2>2, ExamsAssumption DEF DeleteTerm, NoExam
  <2> QED BY <1>0, <2>1, <2>3
<1> QED BY <1>1, <1>2, <1>3, <1>4, <1>5 DEF UpdateSection

\* An update leaves the papers of every exam, and of other exams their rows.
LEMMA PaperUpdated ==
    ASSUME Inv, NEW r \in Request, UpdatePaper(r)
    PROVE  /\ Answer(r, "refused") \/ Answer(r, "ok")
           /\ \A y \in Exam : PapersOf(y)' = PapersOf(y)
           /\ \A y \in Exam : y # call[r].exam => papers'[y] = papers[y]
<1>1. /\ pc[r] = "write" /\ call[r].op = "updateSubject" /\ call[r] \in Calls
  BY RunningFacts DEF UpdatePaper, Done
<1>2. PICK x \in Exam, j \in Subject, t \in Total \cup {None} :
        x = call[r].exam /\ j = call[r].subject /\ t = call[r].total
  BY <1>1, CallFacts DEF PaperOps
<1>3. PICK a \in Paper : a = papers[x][j]
  BY DEF Inv, Types, Tables
<1>4. CASE a = NoPaper
  <2>1. Answer(r, "refused") /\ UNCHANGED papers
    BY <1>2, <1>3, <1>4 DEF UpdatePaper
  <2> QED BY <2>1 DEF PapersOf
<1>5. CASE a # NoPaper
  <2>1. PICK p : p = [a EXCEPT !.total = IF t = None THEN @ ELSE t]
    OBVIOUS
  <2>2. papers' = [papers EXCEPT ![x][j].total = IF t = None THEN @ ELSE t] /\ Answer(r, "ok")
    BY <1>2, <1>3, <1>5 DEF UpdatePaper
  <2>3. Writes(x, j, p)
    BY <1>3, <2>1, <2>2 DEF Inv, Types, Tables, Writes
  <2>4. p \in Paper /\ p # NoPaper
    <3>1. a \in [by : By, total : Total] /\ a.by # None
      BY <1>5, PaperTotal DEF Paper
    <3> QED BY <2>1, <3>1 DEF Paper, NoPaper
  <2>5. PapersOf(x)' = IF p = NoPaper THEN PapersOf(x) \ {j} ELSE PapersOf(x) \cup {j}
    BY <2>3, <2>4, PaperWritten
  <2>6. \A y \in Exam \ {x} : PapersOf(y)' = PapersOf(y)
    BY <2>3, <2>4, PaperWritten
  <2>7. j \in PapersOf(x)
    BY <1>3, <1>5 DEF PapersOf
  <2>8. \A y \in Exam : y # x => papers'[y] = papers[y]
    BY <2>3 DEF Writes, Inv, Types, Tables
  <2> QED BY <1>2, <2>2, <2>4, <2>5, <2>6, <2>7, <2>8
<1> QED BY <1>4, <1>5

\* A removal leaves the paper that it has seen beside its own.
LEMMA PaperWritesCalm ==
    ASSUME Inv, Calm, NEW r \in Request, InsertPaper(r) \/ UpdatePaper(r) \/ DeletePaper(r)
    PROVE  Calm'
<1>0. /\ pc[r] \in {"insert", "write"} /\ UNCHANGED exams
      /\ pc[r] = "write" => call[r].op \in {"updateSubject", "removeSubject"}
  BY DEF InsertPaper, UpdatePaper, DeletePaper
<1>1. /\ pc[r] \in {"insert", "write"} /\ r \in Running /\ call[r] \in Calls /\ UNCHANGED exams
      /\ FitsAt(r, pc[r], seen[r]) /\ (alone => KnowsAt(r, pc[r], seen[r]))
      /\ call[r].op \in PaperOps
  <2>1. pc[r] \notin Done \cup {"idle"}
    BY <1>0 DEF Done
  <2> QED BY <1>0, <2>1, RunningKnows DEF PaperOps, FitsAt
<1>2. PICK x \in Exam, j \in Subject : x = call[r].exam /\ j = call[r].subject
  BY <1>1, CallFacts DEF PaperOps
<1>3. CASE Answer(r, "refused") /\ UNCHANGED papers
  BY <1>1, <1>3, TidyStays, CalmAnswer DEF Done
<1>4. CASE InsertPaper(r) /\ j \notin PapersOf(x)
  <2>1. PICK p : p = [by |-> r, total |-> call[r].total]
    OBVIOUS
  <2>2. Writes(x, j, p) /\ Answer(r, "ok") /\ pc[r] = "insert"
    BY <1>2, <1>4, <2>1 DEF InsertPaper, Writes
  <2>3. call[r].op = "addSubject"
    BY <1>1, <2>2 DEF FitsAt
  <2>4. p \in Paper /\ p # NoPaper
    BY <1>1, <2>1, <2>3, CallFacts, ExamsAssumption DEF Paper, By, NoPaper
  <2>5. PapersOf(x)' = IF p = NoPaper THEN PapersOf(x) \ {j} ELSE PapersOf(x) \cup {j}
    BY <2>2, <2>4, PaperWritten
  <2>6. \A y \in Exam \ {x} : PapersOf(y)' = PapersOf(y)
    BY <2>2, <2>4, PaperWritten
  <2>7. alone => Tidy'
    BY <1>1, <2>4, <2>5, <2>6 DEF Calm, Tidy
  <2> QED BY <1>1, <2>2, <2>7, CalmAnswer DEF Done
<1>5. CASE UpdatePaper(r)
  <2>1. alone => Tidy'
    BY <1>1, <1>5, PaperUpdated DEF Calm, Tidy
  <2> QED BY <1>1, <1>5, <2>1, PaperUpdated, CalmAnswer DEF Done
<1>6. CASE DeletePaper(r) /\ j \in PapersOf(x)
  <2>1. Writes(x, j, NoPaper) /\ Answer(r, "ok") /\ pc[r] = "write" /\ call[r].op = "removeSubject"
    BY <1>2, <1>6 DEF DeletePaper, Writes
  <2>2. NoPaper \in Paper
    BY DEF Paper
  <2>3. PapersOf(x)' = PapersOf(x) \ {j} /\ \A y \in Exam \ {x} : PapersOf(y)' = PapersOf(y)
    BY <2>1, <2>2, PaperWritten
  <2>4. alone => \E i \in PapersOf(x) : i # j
    BY <1>1, <1>2, <2>1 DEF KnowsAt
  <2>5. alone => Tidy'
    BY <1>1, <2>3, <2>4 DEF Calm, Tidy
  <2> QED BY <1>1, <2>1, <2>5, CalmAnswer DEF Done
<1>7. CASE InsertPaper(r)
  BY <1>2, <1>3, <1>4, <1>7 DEF InsertPaper
<1>8. CASE DeletePaper(r)
  BY <1>2, <1>3, <1>6, <1>8 DEF DeletePaper
<1> QED BY <1>5, <1>7, <1>8

LEMMA NextCalm ==
    ASSUME Inv, Calm, [Next]_vars
    PROVE  Calm'
<1>1. CASE UNCHANGED vars
  <2>1. UNCHANGED <<exams, papers, pc, call, seen, alone>>
    BY <1>1 DEF vars
  <2> QED BY <2>1 DEF Calm, Alone, Running, Tidy, PapersOf, Knows, KnowsAt, Permits, Open
<1>2. ASSUME NEW r \in Request, StatementFails(r)
      PROVE  Calm'
  BY <1>2, CalmQuietAnswer DEF StatementFails, Done
<1>3. ASSUME NEW r \in Request, Step(r)
      PROVE  Calm'
  BY <1>2, <1>3, ChecksCalm, ReadPapersCalm, FindPaperCalm, ExamWritesCalm, PaperWritesCalm,
     DeleteGradesCalm, CreateGradesCalm DEF Step
<1> QED BY <1>1, <1>3, BeginCalm DEF Next

LEMMA InitCalm == Init => Calm
<1> SUFFICES ASSUME Init PROVE Calm
  OBVIOUS
<1>1. Alone /\ \A r \in Request : Knows(r)
  BY DEF Init, Alone, Running, Knows, KnowsAt
<1>2. Tidy
  BY DEF Init, Tidy
<1> QED BY <1>1, <1>2 DEF Calm

LEMMA CalmInvariance == Spec => [](Inv /\ Calm)
<1>1. Init => Inv /\ Calm
  BY InitHolds, InitCalm
<1>2. (Inv /\ Calm) /\ [Next]_vars => (Inv /\ Calm)'
  BY NextKeeps, NextCalm
<1> QED BY <1>1, <1>2, PTL DEF Spec

\* While handlers do not overlap, an exam that exists has a paper: a removal
\* leaves one of those it has counted.
THEOREM ExamsKeepAPaper == Spec => []SerialExamKeepsAPaper
<1>1. Calm => SerialExamKeepsAPaper
  BY DEF Calm, Tidy, SerialExamKeepsAPaper
<1> QED BY <1>1, CalmInvariance, PTL

LEMMA AloneNoMore ==
    ASSUME [Next]_vars, alone'
    PROVE  alone
<1>1. CASE UNCHANGED vars
  BY <1>1 DEF vars
<1>2. ASSUME NEW r \in Request, NEW c \in Calls, Begin(r, c)
      PROVE  alone
  BY <1>2 DEF Begin
<1>3. ASSUME NEW r \in Request, Step(r)
      PROVE  alone
  <2>1. /\ \A outcome : Answer(r, outcome) => alone' = alone
        /\ \A s, l : Continue(r, s, l) => alone' = alone
    BY DEF Answer, Continue
  <2>2. \A holds, s, l : Check(r, holds, s, l) => alone' = alone
    BY <2>1 DEF Check
  <2>3. CASE \/ ReadExam(r) \/ ReadPapers(r) \/ MatchSubjects(r) \/ MatchTerm(r) \/ FindPaper(r)
             \/ CheckRecords(r) \/ FindTerm(r)
    BY <2>2, <2>3 DEF ReadExam, ReadPapers, MatchSubjects, MatchTerm, FindPaper, CheckRecords, FindTerm
  <2>4. CASE \/ CreateExam(r) \/ UpdateExam(r) \/ CloseExam(r) \/ UpdateSection(r) \/ DeleteTerm(r)
             \/ StatementFails(r)
    BY <2>1, <2>4, Zenon DEF CreateExam, UpdateExam, CloseExam, UpdateSection, DeleteTerm, StatementFails
  <2>5. CASE InsertPaper(r) \/ UpdatePaper(r) \/ DeletePaper(r)
    BY <2>1, <2>5, Zenon DEF InsertPaper, UpdatePaper, DeletePaper
  <2>6. CASE DeleteGrades(r) \/ CreateGrades(r)
    BY <2>1, <2>6, Zenon DEF DeleteGrades, CreateGrades
  <2> QED BY <1>3, <2>3, <2>4, <2>5, <2>6 DEF Step
<1> QED BY <1>1, <1>2, <1>3 DEF Next

\* No exam but x gets other rows.
Only(x) == \A y \in Exam : y # x => UNCHANGED <<exams[y], papers[y], grades[y]>>

\* What may not change of an exam that is closed.
Frozen(x) ==
    /\ ~Open(x) => /\ UNCHANGED <<papers[x], grades[x]>>
                   /\ \/ exams'[x].term = exams[x].term
                      \/ exams'[x].term = None /\ exams[x].term \notin terms'
    /\ exams[x].discarded => /\ exams'[x].discarded
                             /\ exams'[x].finalized = exams[x].finalized

LEMMA QuietFrozen ==
    ASSUME UNCHANGED <<exams, papers, grades>>
    PROVE  \A x \in Exam : Frozen(x)
BY DEF Frozen

\* A write to an open exam.
LEMMA OpenFrozen ==
    ASSUME NEW x \in Exam, Open(x), Only(x)
    PROVE  \A y \in Exam : Frozen(y)
BY DEF Only, Frozen, Open

LEMMA ClosingFrozen ==
    ASSUME Inv, Calm, alone, NEW r \in Request, CloseExam(r)
    PROVE  \A y \in Exam : Frozen(y)
<1>1. /\ pc[r] = "close" /\ FitsAt(r, "close", seen[r]) /\ call[r] \in Calls
      /\ KnowsAt(r, "close", seen[r]) /\ UNCHANGED <<papers, grades>>
  BY RunningKnows DEF CloseExam, Done
<1>2. PICK x \in Exam, op \in Closing : x = call[r].exam /\ op = call[r].op
  BY <1>1, CallFacts DEF FitsAt, Closing
<1>3. exams[x] \in ExamRow /\ Permits(x, op)
  BY <1>1, <1>2 DEF FitsAt, KnowsAt, Done, Closing, Elsewhere, Inv, Types, Tables
<1>4. exams' = [exams EXCEPT ![x].finalized = IF op = "discard" THEN @ ELSE op = "finalize",
                             ![x].discarded = @ \/ op = "discard"]
  BY <1>1, <1>2 DEF CloseExam
<1>5. PICK e : e = [exams[x] EXCEPT !.finalized = IF op = "discard" THEN @ ELSE op = "finalize",
                                    !.discarded = @ \/ op = "discard"]
  OBVIOUS
<1>6. exams'[x] = e /\ \A y \in Exam : y # x => exams'[y] = exams[y]
  BY <1>4, <1>5 DEF Inv, Types, Tables
<1>7. e.term = exams[x].term
  BY <1>3, <1>5 DEF ExamRow
<1>8. ASSUME exams[x].discarded
      PROVE  e = exams[x]
  <2>1. op = "discard"
    BY <1>3, <1>8 DEF Permits, Open, Closing
  <2>2. PICK a, t : exams[x] = [finalized |-> a, discarded |-> TRUE, term |-> t]
    BY <1>3, <1>8 DEF ExamRow
  <2>3. (exams[x].discarded \/ op = "discard") = TRUE
    BY <1>8
  <2>4. e = [exams[x] EXCEPT !.finalized = exams[x].finalized, !.discarded = TRUE]
    BY <1>5, <2>1, <2>3, Zenon
  <2>5. PICK old : old = exams[x]
    OBVIOUS
  <2>6. old = [finalized |-> a, discarded |-> TRUE, term |-> t] /\ old.finalized = a
    BY <2>2, <2>5
  <2>7. e = [old EXCEPT !.finalized = a, !.discarded = TRUE]
    BY <2>4, <2>5, <2>6
  <2>8. e = [finalized |-> a, discarded |-> TRUE, term |-> t]
    BY <2>6, <2>7
  <2> QED BY <2>2, <2>8
<1> QED BY <1>1, <1>6, <1>7, <1>8 DEF Frozen

LEMMA PapersFrozen ==
    ASSUME Inv, Calm, alone, NEW r \in Request,
           UpdateExam(r) \/ InsertPaper(r) \/ UpdatePaper(r) \/ DeletePaper(r) \/ CreateGrades(r)
    PROVE  \A y \in Exam : Frozen(y)
<1>1. /\ pc[r] \in {"write", "insert", "commit"}
      /\ pc[r] = "write" => call[r].op \in {"update", "updateSubject", "removeSubject"}
  BY Zenon DEF UpdateExam, InsertPaper, UpdatePaper, DeletePaper, CreateGrades
<1>2. /\ FitsAt(r, pc[r], seen[r]) /\ call[r] \in Calls /\ KnowsAt(r, pc[r], seen[r])
  <2>1. pc[r] \notin Done \cup {"idle"}
    BY <1>1 DEF Done
  <2> QED BY <2>1, RunningKnows
<1>3. call[r].op \in {"update", "addSubject", "updateSubject", "removeSubject", "enterGrades"}
  BY <1>1, <1>2 DEF FitsAt
<1>4. PICK x \in Exam : x = call[r].exam
  BY <1>2, <1>3, CallFacts
<1>5. Permits(x, call[r].op)
  BY <1>1, <1>2, <1>3, <1>4 DEF KnowsAt, Done, Elsewhere
<1>6. Open(x)
  BY <1>3, <1>5 DEF Permits
<1>7. CASE UpdateExam(r)
  <2>1. UNCHANGED <<papers, grades>> /\ \A y \in Exam : y # x => exams'[y] = exams[y]
    BY <1>4, <1>7 DEF UpdateExam, Inv, Types, Tables
  <2> QED BY <1>6, <2>1, OpenFrozen DEF Only
<1>8. CASE InsertPaper(r)
  <2>1. UNCHANGED <<exams, grades>> /\ \A y \in Exam : y # x => papers'[y] = papers[y]
    BY <1>4, <1>8 DEF InsertPaper, Inv, Types, Tables
  <2> QED BY <1>6, <2>1, OpenFrozen DEF Only
<1>9. CASE UpdatePaper(r)
  <2>1. UNCHANGED <<exams, grades>>
    BY <1>9, Zenon DEF UpdatePaper
  <2> QED BY <1>4, <1>6, <1>9, <2>1, PaperUpdated, OpenFrozen DEF Only
<1>10. CASE DeletePaper(r)
  <2>1. UNCHANGED exams /\ \A y \in Exam : y # x => papers'[y] = papers[y] /\ grades'[y] = grades[y]
    BY <1>4, <1>10 DEF DeletePaper, Inv, Types, Tables
  <2> QED BY <1>6, <2>1, OpenFrozen DEF Only
<1>11. CASE CreateGrades(r)
  <2>1. UNCHANGED <<exams, papers>> /\ \A y \in Exam : y # x => grades'[y] = grades[y]
    BY <1>4, <1>11 DEF CreateGrades, Inv, Types, Tables
  <2> QED BY <1>6, <2>1, OpenFrozen DEF Only
<1> QED BY <1>7, <1>8, <1>9, <1>10, <1>11

LEMMA CreationFrozen ==
    ASSUME Inv, NEW r \in Request, CreateExam(r)
    PROVE  \A y \in Exam : Frozen(y)
<1>1. pc[r] = "create" /\ FitsAt(r, "create", seen[r]) /\ call[r] \in Calls /\ UNCHANGED grades
  BY RunningFacts DEF CreateExam, Done
<1>2. PICK x \in Exam : x = call[r].exam
  BY <1>1, CallFacts DEF FitsAt
<1>3. exams[x] = NoExam
  BY <1>1, <1>2 DEF FitsAt, Done
<1>4. Open(x)
  BY <1>3 DEF Open, NoExam
<1>5. \A y \in Exam : y # x => exams'[y] = exams[y] /\ papers'[y] = papers[y]
  BY <1>2 DEF CreateExam, Inv, Types, Tables
<1> QED BY <1>1, <1>4, <1>5, OpenFrozen DEF Only

\* A term that goes is the only thing that an exam loses with it.
LEMMA TermFrozen ==
    ASSUME Inv, NEW r \in Request, DeleteTerm(r)
    PROVE  \A y \in Exam : Frozen(y)
<1>1. UNCHANGED <<papers, grades>>
  BY DEF DeleteTerm
<1>2. PICK t : t = call[r].term
  OBVIOUS
<1>3. CASE t \notin terms
  BY <1>1, <1>2, <1>3, QuietFrozen DEF DeleteTerm
<1>4. CASE t \in terms
  <2> SUFFICES ASSUME NEW y \in Exam PROVE Frozen(y)
    OBVIOUS
  <2>1. PICK e \in ExamRow \cup {NoExam} : e = exams[y]
    BY DEF Inv, Types, Tables
  <2>2. exams'[y] = IF e.term = t THEN [e EXCEPT !.term = None] ELSE e
    BY <1>2, <1>4, <2>1 DEF DeleteTerm
  <2>3. terms' = terms \ {t}
    BY <1>2, <1>4 DEF DeleteTerm
  <2>4. exams'[y].discarded = e.discarded /\ exams'[y].finalized = e.finalized
    BY <2>2 DEF ExamRow, NoExam
  <2>5. exams'[y].term = e.term \/ (exams'[y].term = None /\ e.term = t)
    BY <2>2 DEF ExamRow, NoExam
  <2> QED BY <1>1, <2>1, <2>3, <2>4, <2>5 DEF Frozen
<1> QED BY <1>3, <1>4

LEMMA StepFrozen ==
    ASSUME Inv, Calm, alone, NEW r \in Request, Step(r)
    PROVE  \A y \in Exam : Frozen(y)
<1>1. CASE \/ ReadExam(r) \/ ReadPapers(r) \/ MatchSubjects(r) \/ MatchTerm(r) \/ FindPaper(r)
           \/ CheckRecords(r) \/ FindTerm(r) \/ DeleteGrades(r) \/ StatementFails(r)
  <2>1. UNCHANGED tables
    BY <1>1, Zenon DEF ReadExam, ReadPapers, MatchSubjects, MatchTerm, FindPaper, CheckRecords, FindTerm,
                       Check, DeleteGrades, StatementFails
  <2> QED BY <2>1, Same, QuietFrozen
<1>2. CASE UpdateSection(r)
  BY <1>2, QuietFrozen DEF UpdateSection
<1> QED BY <1>1, <1>2, ClosingFrozen, PapersFrozen, CreationFrozen, TermFrozen DEF Step

\* While handlers do not overlap, what is closed stays as it is: a finalized or
\* discarded exam keeps its papers, totals and grades, and its term as long as
\* that exists; and a discarded one is never finalized or unlocked.
THEOREM ClosedExamsStayFrozen == Spec => SerialClosedExamsFrozen
<1>1. ASSUME Inv, Calm, [Next]_vars, alone'
      PROVE  \A x \in Exam : Frozen(x)
  <2>1. alone
    BY <1>1, AloneNoMore
  <2>2. CASE UNCHANGED vars
    BY <2>2, QuietFrozen DEF vars
  <2>3. ASSUME NEW r \in Request, NEW c \in Calls, Begin(r, c)
        PROVE  \A x \in Exam : Frozen(x)
    BY <2>3, Same, QuietFrozen DEF Begin
  <2> QED BY <1>1, <2>1, <2>2, <2>3, StepFrozen DEF Next
<1>2. Inv /\ Calm /\ [Next]_vars =>
        (alone' => \A x \in Exam :
           /\ ~Open(x) => /\ UNCHANGED <<papers[x], grades[x]>>
                          /\ \/ exams'[x].term = exams[x].term
                             \/ exams'[x].term = None /\ exams[x].term \notin terms'
           /\ exams[x].discarded => /\ exams'[x].discarded
                                    /\ exams'[x].finalized = exams[x].finalized)
  BY <1>1 DEF Frozen
<1> QED BY <1>2, CalmInvariance, PTL DEF Spec, SerialClosedExamsFrozen
=============================================================================
