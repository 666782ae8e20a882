----------------------------- MODULE FeesProofs -----------------------------
(***************************************************************************)
(* The status of a fee record never claims more than has been paid, for    *)
(* any number of concurrent calls, students and amounts.                   *)
(*                                                                         *)
(* A handler writes a status it has derived some statements earlier, from  *)
(* payments and a record that may be older than what the tables hold now.  *)
(* Local says what it may still rely on; LocalStable, that this survives   *)
(* whatever others do, because records keep their price and payments are   *)
(* only added (Grows).  While calls do not overlap, Calm says that what a  *)
(* payment has summed is still the sum, so the status it writes matches.   *)
(* Covering says what a backfill has got through: the level the generation *)
(* reads again is the one the backfill has priced, unless it has moved.    *)
(***************************************************************************)
EXTENDS Fees, FiniteSetTheorems, TLAPS

-----------------------------------------------------------------------------
(* Totals of payments: what a new payment adds, and what a part comes to    *)

\* A table has finitely many units, so that its total is a number.
Finite(T) == IsFiniteSet(Units(T))

\* A row of amount n has n units.
LEMMA RowUnits ==
    ASSUME NEW i, NEW n \in Nat
    PROVE  IsFiniteSet({i} \X (1 .. n)) /\ Cardinality({i} \X (1 .. n)) = n
<1> DEFINE f == [k \in 1 .. n |-> <<i, k>>]
<1>1. f \in Bijection(1 .. n, {i} \X (1 .. n))
  <2>1. f \in [1 .. n -> {i} \X (1 .. n)]
    OBVIOUS
  <2>2. ASSUME NEW p \in 1 .. n, NEW q \in 1 .. n, f[p] = f[q]
        PROVE  p = q
    BY <2>2
  <2>3. ASSUME NEW t \in {i} \X (1 .. n)
        PROVE  \E k \in 1 .. n : f[k] = t
    <3>1. PICK k \in 1 .. n : t = <<i, k>>
      OBVIOUS
    <3> QED BY <3>1
  <2> QED BY <2>1, <2>2, <2>3 DEF Bijection, Injection, Surjection, IsInjective
<1>2. ExistsBijection(1 .. n, {i} \X (1 .. n))
  BY <1>1 DEF ExistsBijection
<1>3. IsFiniteSet(1 .. n) /\ Cardinality(1 .. n) = n
  BY FS_Interval
<1> QED BY <1>2, <1>3, FS_Bijection

\* The empty table has the total 0.
LEMMA EmptyTotal == Finite({}) /\ Total({}) = 0
<1>1. Units({}) = {}
  BY DEF Units
<1> QED BY <1>1, FS_EmptySet DEF Total, Finite

\* INSERT of a row with a new id adds its amount to the total.
LEMMA InsertTotal ==
    ASSUME NEW T, Finite(T), NEW x, x.amount \in Nat, x.id \notin Ids(T)
    PROVE  Finite(T \cup {x}) /\ Total(T \cup {x}) = Total(T) + x.amount
<1> DEFINE U == {x.id} \X (1 .. x.amount)
<1>1. Units(T \cup {x}) = Units(T) \cup U
  BY DEF Units
<1>2. Units(T) \cap U = {}
  BY DEF Units, Ids
<1>3. IsFiniteSet(U) /\ Cardinality(U) = x.amount
  BY RowUnits
<1>4. Cardinality(Units(T) \cap U) = 0
  BY <1>2, FS_EmptySet
<1>5. Cardinality(Units(T)) \in Nat
  BY FS_CardinalityType DEF Finite
<1> HIDE DEF U
<1>6. /\ IsFiniteSet(Units(T) \cup U)
      /\ Cardinality(Units(T) \cup U) = Cardinality(Units(T)) + Cardinality(U)
                                          - Cardinality(Units(T) \cap U)
  BY <1>3, FS_Union DEF Finite
<1>7. Cardinality(Units(T) \cup U) = Cardinality(Units(T)) + x.amount
  BY <1>3, <1>4, <1>5, <1>6
<1> QED BY <1>1, <1>6, <1>7 DEF Total, Finite

\* A part of a table has at most the total of the table.
LEMMA SubtableTotal ==
    ASSUME NEW T, Finite(T), NEW S, S \subseteq T
    PROVE  Finite(S) /\ Total(S) \in Nat /\ Total(T) \in Nat /\ Total(S) <= Total(T)
<1>1. Units(S) \in SUBSET Units(T)
  BY DEF Units
<1>2. IsFiniteSet(Units(S)) /\ Cardinality(Units(S)) <= Cardinality(Units(T))
  BY <1>1, FS_Subset DEF Finite
<1> QED BY <1>2, FS_CardinalityType DEF Finite, Total

-----------------------------------------------------------------------------
(* The inductive invariant *)

PaymentRow == [id : Request, student : Student, amount : Payment]

\* The levels a backfill has read, of the students it has found.
Snapshots == UNION {[D -> Level] : D \in SUBSET Student}

Locals == [student : Student \cup {None}, level : Level \cup {None}, total : Price \cup {None},
           status : Status \cup {None}, found : Snapshots, left : SUBSET Student,
           skipped : BOOLEAN]

\* The levels of the sections, and which of them have moved.
Places(lv, mv) == lv \in [Section -> Level] /\ mv \in [Request -> SUBSET Section]

Rows(P, s) == {p \in P : p.student = s}

\* The status st claims no more of student s than the payments P bear out.
Claim(R, P, s, st) ==
    /\ st = "PAID" => Total(Rows(P, s)) >= R[s].total
    /\ st = "PARTIAL" => Rows(P, s) # {}

\* The tables of records and payments.
Book(R, P) ==
    /\ R \in [Student -> [total : Price, status : Status] \cup {NoRecord}]
    /\ P \subseteq PaymentRow /\ Finite(P)
    /\ \A p \in P : R[p.student] # NoRecord
    /\ \A s \in Student : Claim(R, P, s, R[s].status)

Paid == {"sum", "status", "reply"}

\* What a handler at statement p, with body c and locals s, relies on.
Local(R, P, r, p, c, s) ==
    /\ p \in Step /\ c \in Calls \cup {NoCall} /\ s \in Locals
    /\ p \in {"createStructure", "findStructure", "updateStructure"} =>
         c.level \in Level /\ c.amount \in Price \cup {None}
    /\ p = "createStructure" => c.amount \in Price
    /\ p \in {"findSection", "updateSection"} => c.level \in Level /\ c.section \in Section
    /\ p = "enroll" => c.student \in Student /\ s.student = c.student
    /\ p \in {"section", "structure", "insertRecord", "priced"} => s.student \in Student
    /\ p = "structure" => s.level \in Level
    /\ p = "insertRecord" => s.total \in Price
    /\ p \in {"findRecord", "pay"} \cup Paid => c.student \in Student /\ c.amount \in Payment
    /\ p \in {"pay"} \cup Paid => R[c.student] # NoRecord
    /\ p \in {"sum", "status"} => Rows(P, c.student) # {}
    /\ p = "status" => s.status \in {"PARTIAL", "PAID"} /\ Claim(R, P, c.student, s.status)
    /\ (\E row \in P : row.id = r) => p \in Paid \cup Done

Inv ==
    /\ price \in [Level -> Price \cup {None}]
    /\ Places(level, moved)
    /\ enrolled \subseteq Student
    /\ Book(records, payments)
    /\ pc \in [Request -> Step]
    /\ call \in [Request -> Calls \cup {NoCall}]
    /\ seen \in [Request -> Locals]
    /\ \A r \in Request : Local(records, payments, r, pc[r], call[r], seen[r])

\* What steps may do to the tables.
Grows(R, P, S, Q) ==
    /\ P \subseteq Q
    /\ \A s \in Student : R[s] # NoRecord => S[s] # NoRecord /\ S[s].total = R[s].total

-----------------------------------------------------------------------------
(* Facts about totals and claims *)

LEMMA RowsFinite ==
    ASSUME NEW P, Finite(P), NEW s
    PROVE  Finite(Rows(P, s)) /\ Total(Rows(P, s)) \in Nat
BY SubtableTotal DEF Rows

\* A claim stays true when payments are added.
LEMMA ClaimStable ==
    ASSUME NEW R, NEW P, NEW S, NEW Q, Book(R, P), Finite(Q), Grows(R, P, S, Q),
           NEW s \in Student, R[s] # NoRecord, NEW st, Claim(R, P, s, st)
    PROVE  Claim(S, Q, s, st)
<1>1. Rows(P, s) \subseteq Rows(Q, s)
  BY DEF Grows, Rows
<1>2. Finite(Rows(Q, s))
  BY RowsFinite
<1>3. Total(Rows(P, s)) <= Total(Rows(Q, s)) /\ Total(Rows(P, s)) \in Nat /\ Total(Rows(Q, s)) \in Nat
  BY <1>1, <1>2, SubtableTotal
<1>4. S[s].total = R[s].total /\ R[s].total \in Nat
  <2>1. R[s] \in [total : Price, status : Status]
    BY DEF Book
  <2> QED BY <2>1, FeesAssumption DEF Grows
<1> QED BY <1>1, <1>3, <1>4 DEF Claim

LEMMA LocalStable ==
    ASSUME NEW R, NEW P, NEW S, NEW Q, Book(R, P), Book(S, Q), Grows(R, P, S, Q),
           NEW q, \A row \in Q \ P : row.id # q,
           NEW p, NEW c, NEW s, Local(R, P, q, p, c, s)
    PROVE  Local(S, Q, q, p, c, s)
<1>1. /\ p \in Step /\ c \in Calls \cup {NoCall} /\ s \in Locals
      /\ p \in {"createStructure", "findStructure", "updateStructure"} =>
           c.level \in Level /\ c.amount \in Price \cup {None}
      /\ p = "createStructure" => c.amount \in Price
      /\ p \in {"findSection", "updateSection"} => c.level \in Level /\ c.section \in Section
      /\ p = "enroll" => c.student \in Student /\ s.student = c.student
      /\ p \in {"section", "structure", "insertRecord", "priced"} => s.student \in Student
      /\ p = "structure" => s.level \in Level
      /\ p = "insertRecord" => s.total \in Price
      /\ p \in {"findRecord", "pay"} \cup Paid => c.student \in Student /\ c.amount \in Payment
  BY DEF Local
<1>2. p \in {"pay"} \cup Paid => S[c.student] # NoRecord
  BY <1>1 DEF Local, Grows
<1>3. p \in {"sum", "status"} => Rows(Q, c.student) # {}
  BY DEF Local, Grows, Rows
<1>4. p = "status" => s.status \in {"PARTIAL", "PAID"} /\ Claim(S, Q, c.student, s.status)
  <2> SUFFICES ASSUME p = "status" PROVE s.status \in {"PARTIAL", "PAID"} /\ Claim(S, Q, c.student, s.status)
    OBVIOUS
  <2>1. c.student \in Student /\ R[c.student] # NoRecord
    BY DEF Local, Paid
  <2>2. Claim(R, P, c.student, s.status) /\ s.status \in {"PARTIAL", "PAID"}
    BY DEF Local
  <2>3. Finite(Q)
    BY DEF Book
  <2> QED BY <2>1, <2>2, <2>3, ClaimStable
<1>5. (\E row \in Q : row.id = q) => p \in Paid \cup Done
  BY DEF Local
<1> QED BY <1>1, <1>2, <1>3, <1>4, <1>5 DEF Local

\* One handler moves on, the tables grow: the invariant is kept.
LEMMA OneMoves ==
    ASSUME Inv, NEW r \in Request, NEW p, NEW c, NEW s,
           price' \in [Level -> Price \cup {None}], Places(level', moved'),
           enrolled' \subseteq Student,
           Book(records', payments'), Grows(records, payments, records', payments'),
           \A row \in payments' \ payments : row.id = r,
           pc' = [pc EXCEPT ![r] = p], call' = [call EXCEPT ![r] = c],
           seen' = [seen EXCEPT ![r] = s],
           Local(records', payments', r, p, c, s)
    PROVE  Inv'
<1>1. p \in Step /\ c \in Calls \cup {NoCall} /\ s \in Locals
  BY DEF Local
<1>2. /\ pc' \in [Request -> Step]
      /\ call' \in [Request -> Calls \cup {NoCall}]
      /\ seen' \in [Request -> Locals]
  BY <1>1 DEF Inv
<1>3. ASSUME NEW q \in Request
      PROVE  Local(records', payments', q, pc'[q], call'[q], seen'[q])
  <2>1. CASE q = r
    <3>1. pc'[q] = p /\ call'[q] = c /\ seen'[q] = s
      BY <2>1 DEF Inv
    <3> QED BY <2>1, <3>1
  <2>2. CASE q # r
    <3>1. pc'[q] = pc[q] /\ call'[q] = call[q] /\ seen'[q] = seen[q]
      BY <2>2 DEF Inv
    <3>2. Local(records', payments', q, pc[q], call[q], seen[q])
      BY <2>2, LocalStable DEF Inv
    <3> QED BY <3>1, <3>2
  <2> QED BY <2>1, <2>2
<1> QED BY <1>2, <1>3 DEF Inv

\* The same when records and payments stay as they are.
LEMMA OneMovesAlone ==
    ASSUME Inv, NEW r \in Request, NEW p, NEW c, NEW s,
           price' \in [Level -> Price \cup {None}], Places(level', moved'),
           enrolled' \subseteq Student,
           records' = records, payments' = payments,
           pc' = [pc EXCEPT ![r] = p], call' = [call EXCEPT ![r] = c],
           seen' = [seen EXCEPT ![r] = s],
           Local(records, payments, r, p, c, s)
    PROVE  Inv'
<1>1. Book(records', payments') /\ Grows(records, payments, records', payments')
  BY DEF Inv, Grows
<1> QED BY <1>1, OneMoves

LEMMA CallFacts ==
    ASSUME NEW c \in Calls
    PROVE  /\ c.op \in Calling
           /\ c.op \in {"createStructure", "updateStructure"} =>
                c.level \in Level /\ c.amount \in Price \cup {None}
           /\ c.op = "createStructure" => c.amount \in Price
           /\ c.op \in {"enroll", "recordPayment"} => c.student \in Student
           /\ c.op = "recordPayment" => c.amount \in Payment
           /\ c.op = "updateSection" => c.level \in Level /\ c.section \in Section
           /\ c.student \in Student \cup {None}
BY DEF Calls, Body, Calling

LEMMA NothingTyped == Nothing \in Locals
<1> DEFINE f == [s \in {} |-> None]
<1>1. f \in [{} -> Level]
  OBVIOUS
<1>2. f \in Snapshots
  BY <1>1 DEF Snapshots
<1> HIDE DEF f
<1>3. [student |-> None, level |-> None, total |-> None, status |-> None,
       found |-> f, left |-> {}, skipped |-> FALSE] \in Locals
  BY <1>2 DEF Locals
<1> QED BY <1>3 DEF Nothing, f

LEMMA AnsweredLocal ==
    ASSUME NEW R, NEW P, NEW r, NEW outcome \in Done
    PROVE  Local(R, P, r, outcome, NoCall, Nothing)
BY NothingTyped DEF Local, Done, Step, Paid

\* A call that is answered without touching records and payments.
LEMMA AnswerAlone ==
    ASSUME Inv, NEW r \in Request, NEW outcome \in Done, Answer(r, outcome),
           price' \in [Level -> Price \cup {None}], Places(level', moved'),
           enrolled' \subseteq Student,
           records' = records, payments' = payments
    PROVE  Inv'
<1>1. /\ pc' = [pc EXCEPT ![r] = outcome]
      /\ call' = [call EXCEPT ![r] = NoCall]
      /\ seen' = [seen EXCEPT ![r] = Nothing]
  BY DEF Answer
<1>2. Local(records, payments, r, outcome, NoCall, Nothing)
  BY AnsweredLocal
<1> HIDE DEF NoCall, Nothing
<1> QED BY <1>1, <1>2, OneMovesAlone

\* A call that goes on without touching records and payments.
LEMMA ContinueAlone ==
    ASSUME Inv, NEW r \in Request, NEW p, NEW s, Continue(r, p, s),
           price' \in [Level -> Price \cup {None}], Places(level', moved'),
           enrolled' \subseteq Student,
           records' = records, payments' = payments,
           Local(records, payments, r, p, call[r], s)
    PROVE  Inv'
<1>1. /\ pc' = [pc EXCEPT ![r] = p]
      /\ call' = call
      /\ seen' = [seen EXCEPT ![r] = s]
  BY DEF Continue
<1>2. call' = [call EXCEPT ![r] = call[r]]
  BY <1>1 DEF Inv
<1> QED BY <1>1, <1>2, OneMovesAlone

-----------------------------------------------------------------------------
(* One lemma per action *)

LEMMA TablesTyped == Inv => /\ price \in [Level -> Price \cup {None}]
                            /\ Places(level, moved)
                            /\ enrolled \subseteq Student
BY DEF Inv

LEMMA BeginKeeps ==
    ASSUME Inv, NEW r \in Request, NEW c \in Calls, Begin(r, c)
    PROVE  Inv'
<1> DEFINE s == [seen[r] EXCEPT !.student = c.student]
<1>1. /\ pc[r] = "idle" /\ seen[r] \in Locals
      /\ Local(records, payments, r, pc[r], call[r], seen[r])
  BY DEF Begin, Inv
<1>2. s \in Locals /\ s.student = c.student
  BY <1>1, CallFacts DEF Locals
<1>3. ~ \E row \in payments : row.id = r
  BY <1>1 DEF Local, Paid, Done
<1>4. Local(records, payments, r, FirstStep(c), c, s)
  <2> HIDE DEF s
  <2> QED BY <1>2, <1>3, CallFacts DEF Local, FirstStep, Step, Calling, Paid, Done
<1>5. seen' = [seen EXCEPT ![r] = s]
  BY DEF Begin, Inv
<1> HIDE DEF s
<1> QED BY <1>4, <1>5, TablesTyped, OneMovesAlone DEF Begin, tables, sections

LEMMA CreateFeeStructureKeeps ==
    ASSUME Inv, NEW r \in Request, CreateFeeStructure(r)
    PROVE  Inv'
<1>1. call[r].amount \in Price
  BY DEF Inv, Local, CreateFeeStructure
<1>2. price' \in [Level -> Price \cup {None}]
  BY <1>1 DEF CreateFeeStructure, Inv
<1>3. \E outcome \in Done : Answer(r, outcome)
  BY DEF CreateFeeStructure, Done
<1> QED BY <1>2, <1>3, AnswerAlone, TablesTyped DEF CreateFeeStructure, sections

LEMMA AssertFeeStructureExistsKeeps ==
    ASSUME Inv, NEW r \in Request, AssertFeeStructureExists(r)
    PROVE  Inv'
<1>1. Local(records, payments, r, "findStructure", call[r], seen[r])
  BY DEF Inv, AssertFeeStructureExists
<1>2. Local(records, payments, r, "updateStructure", call[r], seen[r])
  BY <1>1 DEF Local, Step, Paid, Done
<1>3. Answer(r, "refused") \/ Continue(r, "updateStructure", seen[r])
  BY DEF AssertFeeStructureExists
<1>4. "refused" \in Done
  BY DEF Done
<1> QED BY <1>2, <1>3, <1>4, AnswerAlone, ContinueAlone, TablesTyped
        DEF AssertFeeStructureExists, tables, sections

LEMMA UpdateFeeStructureKeeps ==
    ASSUME Inv, NEW r \in Request, UpdateFeeStructure(r)
    PROVE  Inv'
<1>1. call[r].amount \in Price \cup {None}
  BY DEF Inv, Local, UpdateFeeStructure
<1>2. price' \in [Level -> Price \cup {None}]
  BY <1>1 DEF UpdateFeeStructure, Inv
<1>3. Answer(r, "ok") /\ "ok" \in Done
  BY DEF UpdateFeeStructure, Done
<1> QED BY <1>2, <1>3, AnswerAlone, TablesTyped DEF UpdateFeeStructure, sections

LEMMA FindSectionKeeps ==
    ASSUME Inv, NEW r \in Request, FindSection(r)
    PROVE  Inv'
<1>1. Local(records, payments, r, "findSection", call[r], seen[r])
  BY DEF Inv, FindSection
<1>2. Local(records, payments, r, "updateSection", call[r], seen[r])
  BY <1>1 DEF Local, Step, Paid, Done
<1>3. Answer(r, "refused") \/ Continue(r, "updateSection", seen[r])
  BY DEF FindSection
<1>4. "refused" \in Done
  BY DEF Done
<1> QED BY <1>2, <1>3, <1>4, AnswerAlone, ContinueAlone, TablesTyped
        DEF FindSection, tables, sections

LEMMA UpdateSectionKeeps ==
    ASSUME Inv, NEW r \in Request, UpdateSection(r)
    PROVE  Inv'
<1>1. call[r].level \in Level /\ call[r].section \in Section
  BY DEF Inv, Local, UpdateSection
<1>2. Places(level', moved')
  BY <1>1 DEF UpdateSection, Inv, Places
<1>3. Answer(r, "ok") /\ "ok" \in Done
  BY DEF UpdateSection, Done
<1> QED BY <1>2, <1>3, AnswerAlone, TablesTyped DEF UpdateSection

LEMMA InsertEnrollmentKeeps ==
    ASSUME Inv, NEW r \in Request, InsertEnrollment(r)
    PROVE  Inv'
<1>1. Local(records, payments, r, "enroll", call[r], seen[r])
  BY DEF Inv, InsertEnrollment
<1>2. Local(records, payments, r, "section", call[r], seen[r])
  BY <1>1 DEF Local, Step, Paid, Done
<1>3. enrolled' \subseteq Student
  BY <1>1 DEF InsertEnrollment, Local, Inv
<1>4. Answer(r, "refused") \/ Continue(r, "section", seen[r])
  BY DEF InsertEnrollment
<1>5. "refused" \in Done
  BY DEF Done
<1> QED BY <1>2, <1>3, <1>4, <1>5, AnswerAlone, ContinueAlone, TablesTyped
        DEF InsertEnrollment, sections

LEMMA ReadLevelKeeps ==
    ASSUME Inv, NEW r \in Request, ReadLevel(r)
    PROVE  Inv'
<1> DEFINE l == level[SectionOf[seen[r].student]]
           t == [seen[r] EXCEPT !.level = l]
<1>1. Local(records, payments, r, "section", call[r], seen[r])
  BY DEF Inv, ReadLevel
<1>2. seen[r].student \in Student /\ seen[r] \in Locals
  BY <1>1 DEF Local
<1>3. l \in Level
  BY <1>2, FeesAssumption DEF Inv, Places
<1>4. t \in Locals /\ t.level = l /\ t.student = seen[r].student
  BY <1>2, <1>3 DEF Locals
<1>5. Continue(r, "structure", t)
  BY DEF ReadLevel
<1> HIDE DEF l, t
<1>6. Local(records, payments, r, "structure", call[r], t)
  BY <1>1, <1>2, <1>3, <1>4 DEF Local, Step, Paid, Done
<1> QED BY <1>5, <1>6, ContinueAlone, TablesTyped DEF ReadLevel, tables, sections

\* What both callers of the generation go on with.
LEMMA GeneratedLocal ==
    ASSUME NEW R, NEW P, NEW r, NEW p \in {"structure", "insertRecord", "priced", "record"},
           NEW c, NEW s, Local(R, P, r, p, c, s),
           NEW t \in Locals
    PROVE  Local(R, P, r, "record", c, t)
BY DEF Local, Step, Paid, Done

LEMMA GeneratedMoves ==
    ASSUME Inv, NEW r \in Request, pc[r] \in {"structure", "insertRecord"}, Generated(r),
           Book(records', payments'), Grows(records, payments, records', payments'),
           UNCHANGED <<price, sections, enrolled, payments>>
    PROVE  Inv'
<1> DEFINE t == [seen[r] EXCEPT !.student = None, !.level = None, !.total = None]
<1>1. Local(records, payments, r, pc[r], call[r], seen[r]) /\ seen[r] \in Locals
  BY DEF Inv
<1>2. t \in Locals
  BY <1>1 DEF Locals
<1>3. Local(records', payments', r, pc[r], call[r], seen[r])
  BY <1>1, LocalStable DEF Inv
<1>4. Local(records', payments', r, "record", call[r], t)
  <2> HIDE DEF t
  <2> QED BY <1>2, <1>3, GeneratedLocal
<1>5. \E p, c, s : /\ pc' = [pc EXCEPT ![r] = p] /\ call' = [call EXCEPT ![r] = c]
                   /\ seen' = [seen EXCEPT ![r] = s]
                   /\ Local(records', payments', r, p, c, s)
  <2>1. CASE Continue(r, "record", t)
    <3>1. call' = [call EXCEPT ![r] = call[r]]
      BY <2>1 DEF Continue, Inv
    <3> HIDE DEF t
    <3> QED BY <2>1, <3>1, <1>4 DEF Continue
  <2>2. CASE Answer(r, "ok")
    <3>1. Local(records', payments', r, "ok", NoCall, Nothing)
      BY AnsweredLocal DEF Done
    <3> HIDE DEF NoCall, Nothing
    <3> QED BY <2>2, <3>1 DEF Answer
  <2> QED BY <2>1, <2>2 DEF Generated
<1> QED BY <1>5, TablesTyped, OneMoves DEF sections

LEMMA FindStructureKeeps ==
    ASSUME Inv, NEW r \in Request, FindStructure(r)
    PROVE  Inv'
<1> DEFINE found == price[seen[r].level]
           t == [seen[r] EXCEPT !.level = None, !.total = found]
<1>1. Local(records, payments, r, "structure", call[r], seen[r]) /\ pc[r] = "structure"
  BY DEF Inv, FindStructure
<1>2. CASE found = None
  <2>1. Generated(r)
    BY <1>2 DEF FindStructure
  <2>2. Book(records', payments') /\ Grows(records, payments, records', payments')
    BY DEF FindStructure, tables, sections, Inv, Grows
  <2> QED BY <1>1, <2>1, <2>2, GeneratedMoves DEF FindStructure, tables, sections
<1>3. CASE found # None
  <2>1. seen[r].student \in Student /\ seen[r].level \in Level
    BY <1>1 DEF Local
  <2>2. found \in Price
    BY <1>3, <2>1 DEF Inv
  <2>3. seen[r] \in Locals
    BY DEF Inv
  <2>4. t \in Locals /\ t.total = found /\ t.student = seen[r].student
    BY <2>2, <2>3 DEF Locals
  <2>5. Continue(r, "insertRecord", t)
    BY <1>3 DEF FindStructure
  <2> HIDE DEF found, t
  <2>6. Local(records, payments, r, "insertRecord", call[r], t)
    BY <1>1, <2>1, <2>2, <2>4 DEF Local, Step, Paid, Done
  <2> QED BY <2>5, <2>6, ContinueAlone, TablesTyped DEF FindStructure, tables, sections
<1> QED BY <1>2, <1>3

LEMMA InsertFeeRecordKeeps ==
    ASSUME Inv, NEW r \in Request, InsertFeeRecord(r)
    PROVE  Inv'
<1> DEFINE s == seen[r].student
           new == [total |-> seen[r].total, status |-> "PENDING"]
<1>1. s \in Student /\ seen[r].total \in Price /\ pc[r] = "insertRecord"
  BY DEF Inv, Local, InsertFeeRecord
<1>2. Book(records, payments)
  BY DEF Inv
<1>3. new \in [total : Price, status : Status] /\ new # NoRecord /\ new.status = "PENDING"
  <2>1. None \notin Price
    <3>1. \A n \in Price : n \in Int
      BY FeesAssumption
    <3> QED BY <3>1, FeesAssumption, Zenon
  <2> QED BY <1>1, <2>1 DEF Status, NoRecord
<1>4. CASE records[s] # NoRecord
  <2>1. records' = records
    BY <1>4 DEF InsertFeeRecord
  <2> QED BY <1>1, <1>2, <2>1, GeneratedMoves DEF InsertFeeRecord, Grows
<1>5. CASE records[s] = NoRecord
  <2>1. records' = [records EXCEPT ![s] = new] /\ payments' = payments
    BY <1>5 DEF InsertFeeRecord
  <2> HIDE DEF new
  <2>2. Grows(records, payments, records', payments')
    BY <1>1, <1>2, <1>5, <2>1 DEF Grows, Book
  <2>3. \A u \in Student : records'[u] = IF u = s THEN new ELSE records[u]
    BY <1>2, <2>1 DEF Book
  <2>4. records' \in [Student -> [total : Price, status : Status] \cup {NoRecord}]
    BY <1>2, <1>3, <2>1 DEF Book
  <2>5. ASSUME NEW u \in Student
        PROVE  Claim(records', payments', u, records'[u].status)
    <3>1. CASE u = s
      BY <3>1, <2>3, <1>3 DEF Claim
    <3>2. CASE u # s
      <4>1. records'[u] = records[u]
        BY <3>2, <2>3
      <4> QED BY <4>1, <1>2, <2>1 DEF Book, Claim
    <3> QED BY <3>1, <3>2
  <2>6. \A p \in payments' : records'[p.student] # NoRecord
    <3>1. \A p \in payments : p.student \in Student /\ records[p.student] # NoRecord
      BY <1>2 DEF Book, PaymentRow
    <3> QED BY <3>1, <2>1, <2>3, <1>3
  <2>7. Book(records', payments')
    BY <1>2, <2>1, <2>4, <2>5, <2>6 DEF Book
  <2> QED BY <1>1, <2>2, <2>7, GeneratedMoves DEF InsertFeeRecord
<1> QED BY <1>4, <1>5

LEMMA FindEnrollmentsKeeps ==
    ASSUME Inv, NEW r \in Request, FindEnrollments(r)
    PROVE  Inv'
<1> DEFINE f == [s \in enrolled |-> level[SectionOf[s]]]
           t == [seen[r] EXCEPT !.found = f, !.left = enrolled]
<1>1. Local(records, payments, r, "findEnrollments", call[r], seen[r])
  BY DEF Inv, FindEnrollments
<1>2. seen[r] \in Locals /\ enrolled \subseteq Student
  BY DEF Inv
<1>3. f \in [enrolled -> Level]
  BY <1>2, FeesAssumption DEF Inv, Places
<1>4. f \in Snapshots
  BY <1>2, <1>3 DEF Snapshots
<1>5. Continue(r, "record", t)
  BY DEF FindEnrollments
<1> HIDE DEF f
<1>6. t \in Locals
  BY <1>2, <1>4 DEF Locals
<1> HIDE DEF t
<1>7. Local(records, payments, r, "record", call[r], t)
  BY <1>1, <1>6 DEF Local, Step, Paid, Done
<1> QED BY <1>5, <1>7, ContinueAlone, TablesTyped DEF FindEnrollments, tables, sections

LEMMA FindExistingRecordKeeps ==
    ASSUME Inv, NEW r \in Request, FindExistingRecord(r)
    PROVE  Inv'
<1>1. Local(records, payments, r, "record", call[r], seen[r])
  BY DEF Inv, FindExistingRecord
<1>2. CASE Answer(r, "ok")
  <2>1. "ok" \in Done
    BY DEF Done
  <2> QED BY <1>2, <2>1, AnswerAlone, TablesTyped DEF FindExistingRecord, tables, sections
<1>3. CASE \E s \in seen[r].left :
             LET rest == [seen[r] EXCEPT !.left = @ \ {s}]
             IN  IF records[s] # NoRecord THEN Continue(r, "record", rest)
                                          ELSE Continue(r, "priced", [rest EXCEPT !.student = s])
  <2>1. PICK s \in seen[r].left :
             LET rest == [seen[r] EXCEPT !.left = @ \ {s}]
             IN  IF records[s] # NoRecord THEN Continue(r, "record", rest)
                                          ELSE Continue(r, "priced", [rest EXCEPT !.student = s])
    BY <1>3
  <2> DEFINE rest == [seen[r] EXCEPT !.left = @ \ {s}]
             next == [rest EXCEPT !.student = s]
  <2>2. seen[r] \in Locals
    BY DEF Inv
  <2>3. s \in Student /\ rest \in Locals
    BY <2>2 DEF Locals
  <2>4. next \in Locals /\ next.student = s
    BY <2>3 DEF Locals
  <2>5. Continue(r, "record", rest) \/ Continue(r, "priced", next)
    BY <2>1
  <2> HIDE DEF rest, next
  <2>6. Local(records, payments, r, "record", call[r], rest)
    BY <1>1, <2>3 DEF Local, Step, Paid, Done
  <2>7. Local(records, payments, r, "priced", call[r], next)
    BY <1>1, <2>3, <2>4 DEF Local, Step, Paid, Done
  <2> QED BY <2>5, <2>6, <2>7, ContinueAlone, TablesTyped DEF FindExistingRecord, tables, sections
<1> QED BY <1>2, <1>3 DEF FindExistingRecord

LEMMA SkipWithoutStructureKeeps ==
    ASSUME Inv, NEW r \in Request, SkipWithoutStructure(r)
    PROVE  Inv'
<1> DEFINE t == [seen[r] EXCEPT !.student = None, !.skipped = TRUE]
<1>1. Local(records, payments, r, "priced", call[r], seen[r])
  BY DEF Inv, SkipWithoutStructure
<1>2. seen[r] \in Locals
  BY DEF Inv
<1>3. t \in Locals
  BY <1>2 DEF Locals
<1>4. Continue(r, "record", t) \/ Continue(r, "section", seen[r])
  BY DEF SkipWithoutStructure
<1> HIDE DEF t
<1>5. Local(records, payments, r, "record", call[r], t)
  BY <1>1, <1>3 DEF Local, Step, Paid, Done
<1>6. Local(records, payments, r, "section", call[r], seen[r])
  BY <1>1 DEF Local, Step, Paid, Done
<1> QED BY <1>4, <1>5, <1>6, ContinueAlone, TablesTyped DEF SkipWithoutStructure, tables, sections

LEMMA AssertFeeRecordExistsKeeps ==
    ASSUME Inv, NEW r \in Request, AssertFeeRecordExists(r)
    PROVE  Inv'
<1>1. Local(records, payments, r, "findRecord", call[r], seen[r])
  BY DEF Inv, AssertFeeRecordExists
<1>2. CASE records[call[r].student] = NoRecord
  <2>1. Answer(r, "refused") /\ "refused" \in Done
    BY <1>2 DEF AssertFeeRecordExists, Done
  <2> QED BY <2>1, AnswerAlone, TablesTyped DEF AssertFeeRecordExists, tables, sections
<1>3. CASE records[call[r].student] # NoRecord
  <2>1. Continue(r, "pay", seen[r])
    BY <1>3 DEF AssertFeeRecordExists
  <2>2. Local(records, payments, r, "pay", call[r], seen[r])
    BY <1>1, <1>3 DEF Local, Step, Paid, Done
  <2> QED BY <2>1, <2>2, ContinueAlone, TablesTyped DEF AssertFeeRecordExists, tables, sections
<1> QED BY <1>2, <1>3

LEMMA CreatePaymentKeeps ==
    ASSUME Inv, NEW r \in Request, CreatePayment(r)
    PROVE  Inv'
<1> DEFINE c == call[r]
           row == [id |-> r, student |-> c.student, amount |-> c.amount]
<1>1. Local(records, payments, r, "pay", c, seen[r])
  BY DEF Inv, CreatePayment
<1>2. Book(records, payments)
  BY DEF Inv
<1>3. c.student \in Student /\ c.amount \in Payment /\ records[c.student] # NoRecord
  BY <1>1 DEF Local
<1>4. row \in PaymentRow /\ row.id = r /\ row.student = c.student /\ row.amount \in Nat
  BY <1>3, FeesAssumption DEF PaymentRow
<1>5. r \notin Ids(payments)
  BY <1>1 DEF Local, Ids, Paid, Done
<1>6. payments' = payments \cup {row} /\ records' = records /\ Continue(r, "sum", seen[r])
  BY DEF CreatePayment
<1> HIDE DEF row
<1>7. Finite(payments \cup {row})
  BY <1>2, <1>4, <1>5, InsertTotal DEF Book
<1>8. Grows(records, payments, records', payments')
  BY <1>6 DEF Grows
<1>9. \A s \in Student : Claim(records', payments', s, records'[s].status)
  <2> SUFFICES ASSUME NEW s \in Student
               PROVE  Claim(records', payments', s, records'[s].status)
    OBVIOUS
  <2>1. Claim(records, payments, s, records[s].status)
    BY <1>2 DEF Book
  <2>2. CASE records[s] # NoRecord
    BY <1>2, <1>6, <1>7, <1>8, <2>1, <2>2, ClaimStable
  <2>3. CASE records[s] = NoRecord
    <3>1. records'[s].status = None
      BY <1>6, <2>3 DEF NoRecord
    <3>2. None # "PAID" /\ None # "PARTIAL"
      BY FeesAssumption DEF Status
    <3> QED BY <3>1, <3>2 DEF Claim
  <2> QED BY <2>2, <2>3
<1>10. \A p \in payments' : records'[p.student] # NoRecord
  BY <1>2, <1>3, <1>4, <1>6 DEF Book
<1>11. Book(records', payments')
  BY <1>2, <1>4, <1>6, <1>7, <1>9, <1>10 DEF Book
<1>12. Rows(payments', c.student) # {}
  BY <1>4, <1>6 DEF Rows
<1>13. Local(records', payments', r, "sum", c, seen[r])
  BY <1>1, <1>3, <1>6, <1>12 DEF Local, Step, Paid, Done
<1>14. /\ pc' = [pc EXCEPT ![r] = "sum"] /\ seen' = [seen EXCEPT ![r] = seen[r]]
       /\ call' = [call EXCEPT ![r] = c]
  BY <1>6 DEF Continue, Inv
<1>15. \A p \in payments' \ payments : p.id = r
  BY <1>4, <1>6
<1> HIDE DEF c
<1> QED BY <1>8, <1>11, <1>13, <1>14, <1>15, TablesTyped, OneMoves DEF CreatePayment, sections

\* Whatever the rounding, the status computed from payments claims no more
\* than they bear out.
LEMMA DerivedClaims ==
    ASSUME NEW R, NEW P, NEW s, Rows(P, s) # {}, NEW st \in Derived(Rows(P, s), R[s].total)
    PROVE  st \in {"PARTIAL", "PAID"} /\ Claim(R, P, s, st)
BY DEF Derived, MayBePaid, Claim

LEMMA ComputeStatusKeeps ==
    ASSUME Inv, NEW r \in Request, ComputeStatus(r)
    PROVE  Inv'
<1> DEFINE c == call[r]
<1>1. Local(records, payments, r, "sum", c, seen[r])
  BY DEF Inv, ComputeStatus
<1>2. Rows(payments, c.student) = PaymentsOf(c.student)
  BY DEF Rows, PaymentsOf
<1>3. PICK st \in Derived(PaymentsOf(c.student), records[c.student].total) :
             Continue(r, "status", [seen[r] EXCEPT !.status = st])
  BY DEF ComputeStatus
<1> DEFINE t == [seen[r] EXCEPT !.status = st]
<1>4. Rows(payments, c.student) # {}
  BY <1>1 DEF Local
<1>5. st \in {"PARTIAL", "PAID"} /\ Claim(records, payments, c.student, st)
  BY <1>2, <1>3, <1>4, DerivedClaims
<1>6. seen[r] \in Locals
  BY DEF Inv
<1>7. t \in Locals /\ t.status = st
  BY <1>5, <1>6 DEF Locals, Status
<1>8. Continue(r, "status", t)
  BY <1>3
<1> HIDE DEF t
<1>9. Local(records, payments, r, "status", c, t)
  BY <1>1, <1>4, <1>5, <1>7 DEF Local, Step, Paid, Done
<1> QED BY <1>8, <1>9, ContinueAlone, TablesTyped DEF ComputeStatus, tables, sections

LEMMA UpdateStatusKeeps ==
    ASSUME Inv, NEW r \in Request, UpdateStatus(r)
    PROVE  Inv'
<1> DEFINE c == call[r]
           s == c.student
           st == seen[r].status
           new == [records[s] EXCEPT !.status = st]
<1>1. Local(records, payments, r, "status", c, seen[r])
  BY DEF Inv, UpdateStatus
<1>2. Book(records, payments)
  BY DEF Inv
<1>3. /\ s \in Student /\ records[s] # NoRecord /\ st \in {"PARTIAL", "PAID"}
      /\ Claim(records, payments, s, st)
  BY <1>1 DEF Local, Paid
<1>4. records[s] \in [total : Price, status : Status]
  BY <1>2, <1>3 DEF Book
<1>5. /\ new \in [total : Price, status : Status]
      /\ new.total = records[s].total /\ new.status = st
  BY <1>3, <1>4 DEF Status
<1>6. new # NoRecord
  <2>1. None \notin Status
    BY FeesAssumption
  <2> QED BY <1>5, <2>1 DEF NoRecord
<1>7. records' = [records EXCEPT ![s] = new] /\ payments' = payments
  BY DEF UpdateStatus
<1>8. Continue(r, "reply", seen[r]) /\ UNCHANGED <<price, sections, enrolled>>
  BY DEF UpdateStatus
<1> HIDE DEF new, st, s
<1>9. \A u \in Student : records'[u] = IF u = s THEN new ELSE records[u]
  BY <1>2, <1>7 DEF Book
<1>10. Grows(records, payments, records', payments')
  BY <1>5, <1>6, <1>7, <1>9 DEF Grows
<1>11. records' \in [Student -> [total : Price, status : Status] \cup {NoRecord}]
  BY <1>2, <1>5, <1>7 DEF Book
<1>12. ASSUME NEW u \in Student
       PROVE  Claim(records', payments', u, records'[u].status)
  <2>1. CASE u = s
    <3>1. records'[u].status = st /\ records'[u].total = records[s].total
      BY <2>1, <1>5, <1>9
    <3> QED BY <2>1, <3>1, <1>3, <1>7 DEF Claim
  <2>2. CASE u # s
    <3>1. records'[u] = records[u]
      BY <2>2, <1>9
    <3> QED BY <3>1, <1>2, <1>7 DEF Book, Claim
  <2> QED BY <2>1, <2>2
<1>13. \A p \in payments' : records'[p.student] # NoRecord
  <2>1. \A p \in payments : p.student \in Student /\ records[p.student] # NoRecord
    BY <1>2 DEF Book, PaymentRow
  <2> QED BY <2>1, <1>6, <1>7, <1>9
<1>14. Book(records', payments')
  BY <1>2, <1>7, <1>11, <1>12, <1>13 DEF Book
<1>15. Local(records', payments', r, "status", c, seen[r])
  BY <1>1, <1>2, <1>7, <1>10, <1>14, LocalStable
<1>16. Local(records', payments', r, "reply", c, seen[r])
  BY <1>15 DEF Local, Step, Paid, Done
<1>17. /\ pc' = [pc EXCEPT ![r] = "reply"] /\ seen' = [seen EXCEPT ![r] = seen[r]]
       /\ call' = [call EXCEPT ![r] = c]
  BY <1>8 DEF Continue, Inv
<1> HIDE DEF c
<1> QED BY <1>7, <1>8, <1>10, <1>14, <1>16, <1>17, TablesTyped, OneMoves DEF sections

LEMMA ReadReplyKeeps ==
    ASSUME Inv, NEW r \in Request, ReadReply(r)
    PROVE  Inv'
<1>1. Answer(r, "ok") /\ "ok" \in Done
  BY DEF ReadReply, Done
<1> QED BY <1>1, AnswerAlone, TablesTyped DEF ReadReply, tables, sections

LEMMA StatementFailsKeeps ==
    ASSUME Inv, NEW r \in Request, StatementFails(r)
    PROVE  Inv'
<1>1. \E outcome \in Done : Answer(r, outcome)
  BY DEF StatementFails, Done
<1> QED BY <1>1, AnswerAlone, TablesTyped DEF StatementFails, tables, sections

-----------------------------------------------------------------------------
(* The theorems *)

LEMMA InitHolds == Init => Inv
<1> SUFFICES ASSUME Init PROVE Inv
  OBVIOUS
<1>1. records \in [Student -> [total : Price, status : Status] \cup {NoRecord}]
  BY DEF Init, Status
<1>2. \A s \in Student : records[s].status \in {"PENDING", None}
  BY DEF Init, NoRecord
<1>3. None # "PAID" /\ None # "PARTIAL"
  BY FeesAssumption DEF Status
<1>4. Finite(payments) /\ payments = {}
  BY EmptyTotal DEF Init
<1>5. \A s \in Student : Claim(records, payments, s, records[s].status)
  BY <1>2, <1>3 DEF Claim
<1>6. Book(records, payments)
  BY <1>1, <1>4, <1>5 DEF Book
<1>7. \A r \in Request : pc[r] = "idle" /\ call[r] = NoCall /\ seen[r] = Nothing
  BY DEF Init
<1>8. \A r \in Request : Local(records, payments, r, "idle", NoCall, Nothing)
  BY <1>4, NothingTyped DEF Local, Step, Paid
<1>9. /\ pc \in [Request -> Step]
      /\ call \in [Request -> Calls \cup {NoCall}]
      /\ seen \in [Request -> Locals]
  BY NothingTyped DEF Init, Step
<1>10. /\ price \in [Level -> Price \cup {None}] /\ Places(level, moved)
       /\ enrolled \subseteq Student
  BY DEF Init, Places
<1>11. \A r \in Request : Local(records, payments, r, pc[r], call[r], seen[r])
  BY <1>7, <1>8
<1> QED BY <1>6, <1>9, <1>10, <1>11 DEF Inv

LEMMA StepKeeps == Inv /\ [Next]_vars => Inv'
<1> SUFFICES ASSUME Inv, [Next]_vars PROVE Inv'
  OBVIOUS
<1>1. CASE UNCHANGED vars
  BY <1>1 DEF Inv, vars, sections
<1>2. ASSUME NEW r \in Request, Proceed(r) PROVE Inv'
  BY <1>2, CreateFeeStructureKeeps, AssertFeeStructureExistsKeeps, UpdateFeeStructureKeeps,
     FindSectionKeeps, UpdateSectionKeeps, InsertEnrollmentKeeps, ReadLevelKeeps,
     FindStructureKeeps, InsertFeeRecordKeeps, FindEnrollmentsKeeps, FindExistingRecordKeeps,
     SkipWithoutStructureKeeps, AssertFeeRecordExistsKeeps, CreatePaymentKeeps,
     ComputeStatusKeeps, UpdateStatusKeeps, ReadReplyKeeps, StatementFailsKeeps DEF Proceed
<1>3. ASSUME NEW r \in Request, NEW c \in Calls, Begin(r, c) PROVE Inv'
  BY <1>3, BeginKeeps
<1> QED BY <1>1, <1>2, <1>3 DEF Next

LEMMA Invariance == Spec => []Inv
<1>1. Init => Inv
  BY InitHolds
<1>2. Inv /\ [Next]_vars => Inv'
  BY StepKeeps
<1> QED BY <1>1, <1>2, PTL DEF Spec

\* Rows, bodies and locals have their types, and payments are on records that
\* exist, for any number of calls of the fees endpoints.
THEOREM FeesTypeCorrect == Spec => []TypeOK
<1>1. Inv => TypeOK
  BY DEF Inv, TypeOK, Book, PaymentRow, Places
<1> QED BY <1>1, Invariance, PTL

\* However many payments interleave with each other, with price changes and
\* with failures, recordPayment never leaves a status that claims more than
\* has been paid.
THEOREM NeverAhead == Spec => []StatusNeverAhead
<1>1. Inv => StatusNeverAhead
  <2>1. \A s : PaymentsOf(s) = Rows(payments, s)
    BY DEF PaymentsOf, Rows
  <2> QED BY <2>1 DEF Inv, Book, Claim, StatusNeverAhead
<1> QED BY <1>1, Invariance, PTL

-----------------------------------------------------------------------------
(* Action properties: what is in the tables once stays                      *)

LEMMA TablesGrow ==
    ASSUME Inv, [Next]_vars
    PROVE  /\ \A l \in Level : price[l] # None => price'[l] # None
           /\ \A s \in Student : records[s] # NoRecord => records'[s] # NoRecord
           /\ \A s \in Student : records[s].status \in {"PARTIAL", "PAID"}
                                 => records'[s].status \in {"PARTIAL", "PAID"}
<1> DEFINE Goal == /\ \A l \in Level : price[l] # None => price'[l] # None
                   /\ \A s \in Student : records[s] # NoRecord => records'[s] # NoRecord
                   /\ \A s \in Student : records[s].status \in {"PARTIAL", "PAID"}
                                         => records'[s].status \in {"PARTIAL", "PAID"}
<1>1. CASE UNCHANGED <<price, records>>
  BY <1>1
<1>2. None \notin Price
  <2>1. \A n \in Price : n \in Int
    BY FeesAssumption
  <2> QED BY <2>1, FeesAssumption, Zenon
<1>3. ASSUME NEW r \in Request, CreateFeeStructure(r) PROVE Goal
  <2>1. call[r].amount \in Price
    BY <1>3 DEF Inv, Local, CreateFeeStructure
  <2> QED BY <1>2, <1>3, <2>1 DEF CreateFeeStructure, Inv
<1>4. ASSUME NEW r \in Request, UpdateFeeStructure(r) PROVE Goal
  BY <1>4 DEF UpdateFeeStructure, Inv
<1>5. ASSUME NEW r \in Request, InsertFeeRecord(r) PROVE Goal
  <2> DEFINE s == seen[r].student
             new == [total |-> seen[r].total, status |-> "PENDING"]
  <2>1. s \in Student /\ seen[r].total \in Price
    BY <1>5 DEF Inv, Local, InsertFeeRecord
  <2>2. CASE records[s] # NoRecord
    BY <1>5, <2>2 DEF InsertFeeRecord
  <2>3. CASE records[s] = NoRecord
    <3>1. records[s].status = None /\ None # "PAID" /\ None # "PARTIAL"
      BY <2>3, FeesAssumption DEF NoRecord, Status
    <3>2. records' = [records EXCEPT ![s] = new] /\ price' = price
      BY <1>5, <2>3 DEF InsertFeeRecord
    <3> HIDE DEF new, s
    <3>3. \A u \in Student : u # s => records'[u] = records[u]
      BY <3>2 DEF Inv, Book
    <3> QED BY <2>3, <3>1, <3>2, <3>3
  <2> QED BY <2>2, <2>3
<1>6. ASSUME NEW r \in Request, UpdateStatus(r) PROVE Goal
  <2> DEFINE s == call[r].student
             new == [records[s] EXCEPT !.status = seen[r].status]
  <2>1. /\ s \in Student /\ records[s] # NoRecord
        /\ seen[r].status \in {"PARTIAL", "PAID"}
    BY <1>6 DEF Inv, Local, Paid, UpdateStatus
  <2>2. records[s] \in [total : Price, status : Status]
    BY <2>1 DEF Inv, Book
  <2>3. new.status = seen[r].status
    BY <2>2
  <2>4. new # NoRecord
    BY <2>1, <2>3, FeesAssumption DEF NoRecord, Status
  <2>5. records' = [records EXCEPT ![s] = new] /\ price' = price
    BY <1>6 DEF UpdateStatus
  <2> HIDE DEF new, s
  <2>6. \A u \in Student : records'[u] = IF u = s THEN new ELSE records[u]
    BY <2>5 DEF Inv, Book
  <2> QED BY <2>1, <2>3, <2>4, <2>5, <2>6
<1>7. CASE UNCHANGED vars
  BY <1>7 DEF vars, sections
<1>8. ASSUME NEW r \in Request, NEW c \in Calls, Begin(r, c) PROVE Goal
  BY <1>8 DEF Begin, tables, sections
<1>9. ASSUME NEW r \in Request, Proceed(r) PROVE Goal
  <2>1. \/ CreateFeeStructure(r) \/ UpdateFeeStructure(r) \/ InsertFeeRecord(r)
        \/ UpdateStatus(r) \/ UNCHANGED <<price, records>>
    BY <1>9 DEF Proceed, AssertFeeStructureExists, FindSection, UpdateSection, InsertEnrollment,
       ReadLevel, FindStructure, FindEnrollments, FindExistingRecord, SkipWithoutStructure,
       AssertFeeRecordExists, CreatePayment, ComputeStatus, ReadReply, StatementFails, tables,
       sections
  <2> QED BY <2>1, <1>1, <1>3, <1>4, <1>5, <1>6
<1>10. UNCHANGED vars \/ \E r \in Request : Proceed(r) \/ \E c \in Calls : Begin(r, c)
  BY DEF Next
<1> QED BY <1>7, <1>8, <1>9, <1>10

\* A record something has been paid on is never PENDING again.
THEOREM NeverBackToPending == Spec => NeverPendingAgain
<1>1. Inv /\ [Next]_vars =>
        [\A s \in Student : records[s].status \in {"PARTIAL", "PAID"}
                            => records'[s].status \in {"PARTIAL", "PAID"}]_vars
  BY TablesGrow
<1> QED BY <1>1, Invariance, PTL DEF Spec, NeverPendingAgain

-----------------------------------------------------------------------------
(* The backfill *)

\* A backfill works with the levels that came with the enrollments, as far as
\* they have not moved, and goes on with a student if there was a structure for
\* the level.  Of the students it has found and gone past, it has left one
\* without a record only if it is the one it is at, if the section has moved, or
\* if it has counted a skip.
Covering(pr, R, lv, mv, p, c, s) ==
    c.op = "backfill" =>
       /\ p \in {"findEnrollments", "record", "priced", "section", "structure", "insertRecord"}
       /\ p # "findEnrollments" =>
            /\ s.left \subseteq DOMAIN s.found
            /\ \A u \in DOMAIN s.found : s.found[u] = lv[SectionOf[u]] \/ SectionOf[u] \in mv
       /\ p \in {"priced", "section", "structure", "insertRecord"} => s.student \in DOMAIN s.found
       /\ p = "section" => pr[s.found[s.student]] # None
       /\ p = "structure" => pr[s.level] # None \/ SectionOf[s.student] \in mv
       /\ p # "findEnrollments" /\ ~s.skipped =>
            \A u \in (DOMAIN s.found) \ s.left :
                \/ R[u] # NoRecord
                \/ SectionOf[u] \in mv
                \/ p \in {"priced", "section", "structure", "insertRecord"} /\ u = s.student

Covered ==
    \A r \in Request : Covering(price, records, level, moved[r], pc[r], call[r], seen[r])

\* Of a section whose level changes every backfill in flight that has read it
\* has a note.
LEMMA LevelsMove ==
    ASSUME Inv, [Next]_vars
    PROVE  \A q \in Reading : /\ moved[q] \subseteq moved'[q]
                             /\ \A c \in Section : level'[c] = level[c] \/ c \in moved'[q]
<1> DEFINE Goal == \A q \in Reading :
                      /\ moved[q] \subseteq moved'[q]
                      /\ \A c \in Section : level'[c] = level[c] \/ c \in moved'[q]
<1>1. CASE UNCHANGED sections
  BY <1>1 DEF sections
<1>2. ASSUME NEW r \in Request, UpdateSection(r) PROVE Goal
  BY <1>2 DEF UpdateSection, Inv, Places, Reading
<1>3. UNCHANGED vars => UNCHANGED sections
  BY DEF vars
<1>4. ASSUME NEW r \in Request, NEW c \in Calls, Begin(r, c) PROVE UNCHANGED sections
  BY <1>4 DEF Begin, tables
<1>5. ASSUME NEW r \in Request, Proceed(r) PROVE UpdateSection(r) \/ UNCHANGED sections
  BY <1>5 DEF Proceed, CreateFeeStructure, AssertFeeStructureExists, UpdateFeeStructure,
     FindSection, InsertEnrollment, ReadLevel, FindStructure, InsertFeeRecord, FindEnrollments,
     FindExistingRecord, SkipWithoutStructure, AssertFeeRecordExists, CreatePayment,
     ComputeStatus, UpdateStatus, ReadReply, StatementFails, tables
<1>6. UNCHANGED vars \/ \E r \in Request : Proceed(r) \/ \E c \in Calls : Begin(r, c)
  BY DEF Next
<1>7. UNCHANGED sections \/ \E r \in Request : UpdateSection(r)
  BY <1>3, <1>4, <1>5, <1>6
<1> QED BY <1>1, <1>2, <1>7

\* A step is the step of one handler.
LEMMA OthersStay ==
    ASSUME NEW r \in Request, Proceed(r) \/ \E c \in Calls : Begin(r, c),
           Inv, NEW q \in Request, q # r
    PROVE  pc'[q] = pc[q] /\ call'[q] = call[q] /\ seen'[q] = seen[q]
<1>1. CASE \E outcome : Answer(r, outcome)
  BY <1>1 DEF Answer, Inv
<1>2. CASE \E p, s : Continue(r, p, s)
  BY <1>2 DEF Continue, Inv
<1>3. CASE \E c \in Calls : Begin(r, c)
  BY <1>3 DEF Begin, Inv
<1>4. CASE Proceed(r)
  <2>1. (\E outcome : Answer(r, outcome)) \/ (\E p, s : Continue(r, p, s))
    BY <1>4 DEF Proceed, CreateFeeStructure, AssertFeeStructureExists, UpdateFeeStructure,
       FindSection, UpdateSection, InsertEnrollment, ReadLevel, FindStructure, InsertFeeRecord,
       Generated, FindEnrollments, FindExistingRecord, SkipWithoutStructure,
       AssertFeeRecordExists, CreatePayment, ComputeStatus, UpdateStatus, ReadReply,
       StatementFails
  <2> QED BY <2>1, <1>1, <1>2
<1> QED BY <1>3, <1>4

\* The step of a backfill.
LEMMA BackfillCovering ==
    ASSUME Inv, NEW r \in Request, Proceed(r), call[r].op = "backfill",
           Covering(price, records, level, moved[r], pc[r], call[r], seen[r]),
           \A l \in Level : price[l] # None => price'[l] # None,
           \A s \in Student : records[s] # NoRecord => records'[s] # NoRecord
    PROVE  Covering(price', records', level', moved'[r], pc'[r], call'[r], seen'[r])
<1> DEFINE old == seen[r]
<1>1. pc[r] \in {"findEnrollments", "record", "priced", "section", "structure", "insertRecord"}
  BY DEF Covering
<1>2. old \in Locals
  BY DEF Inv
<1>3. Local(records, payments, r, pc[r], call[r], old)
  BY DEF Inv
<1>4. ASSUME NEW outcome, Answer(r, outcome)
      PROVE  Covering(price', records', level', moved'[r], pc'[r], call'[r], seen'[r])
  <2>1. call'[r] = NoCall
    BY <1>4 DEF Answer, Inv
  <2> QED BY <2>1 DEF Covering, NoCall
<1>5. ASSUME NEW p, NEW t, Continue(r, p, t), UNCHANGED sections,
             Covering(price', records', level, moved[r], p, call[r], t)
      PROVE  Covering(price', records', level', moved'[r], pc'[r], call'[r], seen'[r])
  <2>1. pc'[r] = p /\ call'[r] = call[r] /\ seen'[r] = t /\ level' = level /\ moved' = moved
    BY <1>5 DEF Continue, Inv, sections
  <2> QED BY <1>5, <2>1
<1>6. CASE FindEnrollments(r)
  <2> DEFINE f == [s \in enrolled |-> level[SectionOf[s]]]
             t == [old EXCEPT !.found = f, !.left = enrolled]
  <2>1. t.found = f /\ t.left = enrolled
    BY <1>2 DEF Locals
  <2>2. Continue(r, "record", t) /\ UNCHANGED sections
    BY <1>6 DEF FindEnrollments, tables
  <2> HIDE DEF t
  <2>3. Covering(price', records', level, moved[r], "record", call[r], t)
    BY <2>1 DEF Covering
  <2> QED BY <2>2, <2>3, <1>5
<1>7. CASE FindExistingRecord(r)
  <2>1. CASE Answer(r, "ok")
    BY <2>1, <1>4
  <2>2. CASE \E s \in old.left :
               LET rest == [old EXCEPT !.left = @ \ {s}]
               IN  IF records[s] # NoRecord THEN Continue(r, "record", rest)
                                            ELSE Continue(r, "priced", [rest EXCEPT !.student = s])
    <3>1. PICK s \in old.left :
               LET rest == [old EXCEPT !.left = @ \ {s}]
               IN  IF records[s] # NoRecord THEN Continue(r, "record", rest)
                                            ELSE Continue(r, "priced", [rest EXCEPT !.student = s])
      BY <2>2
    <3> DEFINE rest == [old EXCEPT !.left = @ \ {s}]
               next == [rest EXCEPT !.student = s]
    <3>2. /\ rest \in Locals /\ rest.found = old.found /\ rest.left = old.left \ {s}
          /\ rest.skipped = old.skipped /\ s \in Student
      BY <1>2 DEF Locals
    <3>3. /\ next.found = old.found /\ next.left = old.left \ {s}
          /\ next.skipped = old.skipped /\ next.student = s
      BY <3>2 DEF Locals
    <3>4. /\ old.left \subseteq DOMAIN old.found /\ DOMAIN old.found \subseteq Student
          /\ \A u \in DOMAIN old.found :
                old.found[u] = level[SectionOf[u]] \/ SectionOf[u] \in moved[r]
          /\ ~old.skipped => \A u \in (DOMAIN old.found) \ old.left :
                                records'[u] # NoRecord \/ SectionOf[u] \in moved[r]
          /\ UNCHANGED sections
      BY <1>2, <1>7 DEF Covering, FindExistingRecord, Locals, Snapshots, tables
    <3>5. IF records[s] # NoRecord THEN Continue(r, "record", rest)
                                   ELSE Continue(r, "priced", next)
      BY <3>1
    <3> HIDE DEF rest, next
    <3>6. CASE records[s] # NoRecord
      <4>1. Covering(price', records', level, moved[r], "record", call[r], rest)
        BY <3>2, <3>4, <3>6 DEF Covering
      <4> QED BY <3>4, <3>5, <3>6, <4>1, <1>5
    <3>7. CASE records[s] = NoRecord
      <4>1. Covering(price', records', level, moved[r], "priced", call[r], next)
        BY <3>1, <3>3, <3>4 DEF Covering
      <4> QED BY <3>4, <3>5, <3>7, <4>1, <1>5
    <3> QED BY <3>6, <3>7
  <2> QED BY <2>1, <2>2, <1>7 DEF FindExistingRecord
<1>8. CASE SkipWithoutStructure(r)
  <2> DEFINE t == [old EXCEPT !.student = None, !.skipped = TRUE]
  <2>1. t.skipped = TRUE /\ t.found = old.found /\ t.left = old.left
    BY <1>2 DEF Locals
  <2>2. pc[r] = "priced" /\ price' = price /\ records' = records /\ UNCHANGED sections
    BY <1>8 DEF SkipWithoutStructure, tables
  <2>3. CASE price[old.found[old.student]] = None
    <3>1. Continue(r, "record", t)
      BY <1>8, <2>3 DEF SkipWithoutStructure
    <3> HIDE DEF t
    <3>2. Covering(price', records', level, moved[r], "record", call[r], t)
      BY <2>1, <2>2 DEF Covering
    <3> QED BY <2>2, <3>1, <3>2, <1>5
  <2>4. CASE price[old.found[old.student]] # None
    <3>1. Continue(r, "section", old)
      BY <1>8, <2>4 DEF SkipWithoutStructure
    <3>2. Covering(price', records', level, moved[r], "section", call[r], old)
      BY <2>2, <2>4 DEF Covering
    <3> QED BY <2>2, <3>1, <3>2, <1>5
  <2> QED BY <2>3, <2>4
<1>9. ASSUME Generated(r), UNCHANGED sections,
             records'[old.student] # NoRecord \/ SectionOf[old.student] \in moved[r],
             pc[r] # "findEnrollments"
      PROVE  Covering(price', records', level', moved'[r], pc'[r], call'[r], seen'[r])
  <2> DEFINE t == [old EXCEPT !.student = None, !.level = None, !.total = None]
  <2>1. t.found = old.found /\ t.left = old.left /\ t.skipped = old.skipped
    BY <1>2 DEF Locals
  <2>2. DOMAIN old.found \subseteq Student
    BY <1>2 DEF Locals, Snapshots
  <2>3. Continue(r, "record", t)
    BY <1>9 DEF Generated
  <2>4. ~old.skipped => \A u \in (DOMAIN old.found) \ old.left :
                           records'[u] # NoRecord \/ SectionOf[u] \in moved[r]
    BY <1>9, <2>2 DEF Covering
  <2> HIDE DEF t
  <2>5. Covering(price', records', level, moved[r], "record", call[r], t)
    BY <1>9, <2>1, <2>4 DEF Covering
  <2> QED BY <1>9, <2>3, <2>5, <1>5
<1>10. CASE ReadLevel(r)
  <2> DEFINE l == level[SectionOf[old.student]]
             t == [old EXCEPT !.level = l]
  <2>1. /\ t.found = old.found /\ t.left = old.left /\ t.skipped = old.skipped
        /\ t.student = old.student /\ t.level = l
    BY <1>2 DEF Locals
  <2>2. /\ pc[r] = "section" /\ Continue(r, "structure", t)
        /\ price' = price /\ records' = records /\ UNCHANGED sections
    BY <1>10 DEF ReadLevel, tables
  <2>3. price[l] # None \/ SectionOf[old.student] \in moved[r]
    BY <2>2 DEF Covering
  <2> HIDE DEF l, t
  <2>4. Covering(price', records', level, moved[r], "structure", call[r], t)
    BY <2>1, <2>2, <2>3 DEF Covering
  <2> QED BY <2>2, <2>4, <1>5
<1>11. CASE FindStructure(r)
  <2>1. pc[r] = "structure" /\ records' = records /\ UNCHANGED sections
    BY <1>11 DEF FindStructure, tables
  <2>2. CASE price[old.level] = None
    <3>1. Generated(r)
      BY <1>11, <2>2 DEF FindStructure
    <3>2. SectionOf[old.student] \in moved[r]
      BY <2>1, <2>2 DEF Covering
    <3> QED BY <2>1, <3>1, <3>2, <1>9
  <2>3. CASE price[old.level] # None
    <3> DEFINE t == [old EXCEPT !.level = None, !.total = price[old.level]]
    <3>1. /\ t.found = old.found /\ t.left = old.left /\ t.skipped = old.skipped
          /\ t.student = old.student
      BY <1>2 DEF Locals
    <3>2. Continue(r, "insertRecord", t)
      BY <1>11, <2>3 DEF FindStructure
    <3> HIDE DEF t
    <3>3. Covering(price', records', level, moved[r], "insertRecord", call[r], t)
      BY <2>1, <3>1 DEF Covering
    <3> QED BY <2>1, <3>2, <3>3, <1>5
  <2> QED BY <2>2, <2>3
<1>12. CASE InsertFeeRecord(r)
  <2>1. old.student \in Student /\ old.total \in Price /\ pc[r] = "insertRecord"
    BY <1>3, <1>12 DEF Local, InsertFeeRecord
  <2> DEFINE new == [total |-> old.total, status |-> "PENDING"]
  <2>2. new # NoRecord
    BY FeesAssumption DEF NoRecord, Status
  <2>3. records' = IF records[old.student] = NoRecord
                   THEN [records EXCEPT ![old.student] = new] ELSE records
    BY <1>12 DEF InsertFeeRecord
  <2> HIDE DEF new
  <2>4. records'[old.student] # NoRecord
    BY <2>1, <2>2, <2>3 DEF Inv, Book
  <2> QED BY <2>1, <2>4, <1>9, <1>12 DEF InsertFeeRecord
<1>13. CASE StatementFails(r)
  BY <1>4, <1>13 DEF StatementFails
<1> QED BY <1>1, <1>6, <1>7, <1>8, <1>10, <1>11, <1>12, <1>13 DEF Proceed, CreateFeeStructure,
        AssertFeeStructureExists, UpdateFeeStructure, FindSection, UpdateSection, InsertEnrollment,
        AssertFeeRecordExists,
        CreatePayment, ComputeStatus, UpdateStatus, ReadReply

LEMMA CoveredKeeps ==
    ASSUME Inv, Covered, [Next]_vars
    PROVE  Covered'
<1>1. /\ \A l \in Level : price[l] # None => price'[l] # None
      /\ \A s \in Student : records[s] # NoRecord => records'[s] # NoRecord
  BY TablesGrow
<1>2. CASE UNCHANGED vars
  BY <1>2 DEF Covered, vars, sections
<1>3. ASSUME NEW r \in Request, Proceed(r) \/ \E c \in Calls : Begin(r, c),
             NEW q \in Request
      PROVE  Covering(price', records', level', moved'[q], pc'[q], call'[q], seen'[q])
  <2>1. Covering(price, records, level, moved[q], pc[q], call[q], seen[q])
    BY DEF Covered
  <2>2. CASE q # r
    <3>1. pc'[q] = pc[q] /\ call'[q] = call[q] /\ seen'[q] = seen[q]
      BY <1>3, <2>2, OthersStay
    <3>2. Local(records, payments, q, pc[q], call[q], seen[q]) /\ seen[q] \in Locals
      BY DEF Inv
    <3>3. pc[q] = "structure" => seen[q].level \in Level
      BY <3>2 DEF Local
    <3>4. PICK D \in SUBSET Student : seen[q].found \in [D -> Level]
      <4>1. seen[q].found \in Snapshots
        BY <3>2 DEF Locals
      <4> QED BY <4>1 DEF Snapshots
    <3> DEFINE f == seen[q].found
    <3>5. CASE call[q].op = "backfill" /\ pc[q] # "findEnrollments"
      <4>1. /\ moved[q] \subseteq moved'[q]
            /\ \A c \in Section : level'[c] = level[c] \/ c \in moved'[q]
        BY <3>5, LevelsMove DEF Reading
      <4>2. \A u \in D : SectionOf[u] \in Section
        BY FeesAssumption
      <4>3. PICK lw, mw : lw = level' /\ mw = moved'[q]
        OBVIOUS
      <4>4. \A u \in D : f[u] = lw[SectionOf[u]] \/ SectionOf[u] \in mw
        BY <2>1, <3>4, <3>5, <4>1, <4>2, <4>3 DEF Covering
      <4>5. Covering(price', records', lw, mw, pc[q], call[q], seen[q])
        BY <1>1, <2>1, <3>3, <3>4, <3>5, <4>1, <4>3, <4>4 DEF Covering
      <4> QED BY <3>1, <4>3, <4>5
    <3>6. CASE ~(call[q].op = "backfill" /\ pc[q] # "findEnrollments")
      BY <2>1, <3>1, <3>6 DEF Covering
    <3> QED BY <3>5, <3>6
  <2>3. CASE q = r /\ \E c \in Calls : Begin(r, c)
    <3>1. PICK c \in Calls : Begin(r, c)
      BY <2>3
    <3>2. pc'[r] = FirstStep(c) /\ call'[r] = c
      BY <3>1 DEF Begin, Inv
    <3>3. c.op = "backfill" => FirstStep(c) = "findEnrollments"
      BY DEF FirstStep
    <3> QED BY <2>3, <3>2, <3>3 DEF Covering
  <2>4. CASE q = r /\ Proceed(r) /\ call[r].op = "backfill"
    BY <1>1, <2>1, <2>4, BackfillCovering
  <2>5. CASE q = r /\ Proceed(r) /\ call[r].op # "backfill"
    <3>1. call'[r] \in {call[r], NoCall}
      <4>1. (\E outcome : Answer(r, outcome)) \/ (\E p, s : Continue(r, p, s))
        BY <2>5 DEF Proceed, CreateFeeStructure, AssertFeeStructureExists, UpdateFeeStructure,
           FindSection, UpdateSection, InsertEnrollment, ReadLevel, FindStructure,
           InsertFeeRecord, Generated, FindEnrollments, FindExistingRecord, SkipWithoutStructure,
           AssertFeeRecordExists, CreatePayment, ComputeStatus, UpdateStatus, ReadReply,
           StatementFails
      <4> QED BY <4>1 DEF Answer, Continue, Inv
    <3>2. call'[r].op # "backfill"
      BY <2>5, <3>1 DEF NoCall
    <3> QED BY <2>5, <3>2 DEF Covering
  <2> QED BY <1>3, <2>2, <2>3, <2>4, <2>5
<1>4. ASSUME NEW r \in Request, Proceed(r) \/ \E c \in Calls : Begin(r, c)
      PROVE  Covered'
  BY <1>3, <1>4 DEF Covered
<1>5. UNCHANGED vars \/ \E r \in Request : Proceed(r) \/ \E c \in Calls : Begin(r, c)
  BY DEF Next
<1> QED BY <1>2, <1>4, <1>5

LEMMA AnsweredBackfill ==
    ASSUME Inv, Covered, [Next]_vars
    PROVE  \A r \in Request :
              call[r].op = "backfill" /\ pc'[r] = "ok" /\ ~seen[r].skipped /\ pc[r] # "ok"
              => \A s \in DOMAIN seen[r].found :
                    records[s] # NoRecord \/ SectionOf[s] \in moved[r]
<1> SUFFICES ASSUME NEW r \in Request, call[r].op = "backfill", pc'[r] = "ok",
                    ~seen[r].skipped, pc[r] # "ok"
             PROVE  \A s \in DOMAIN seen[r].found :
                    records[s] # NoRecord \/ SectionOf[s] \in moved[r]
  OBVIOUS
<1>1. Covering(price, records, level, moved[r], pc[r], call[r], seen[r])
  BY DEF Covered
<1>2. pc[r] \in {"findEnrollments", "record", "priced", "section", "structure", "insertRecord"}
  BY <1>1 DEF Covering
<1>3. UNCHANGED vars \/ \E q \in Request : Proceed(q) \/ \E c \in Calls : Begin(q, c)
  BY DEF Next
<1>4. Proceed(r)
  <2>1. ~ UNCHANGED vars
    BY DEF vars, sections
  <2>2. PICK q \in Request : Proceed(q) \/ \E c \in Calls : Begin(q, c)
    BY <1>3, <2>1
  <2>3. q = r
    BY <2>2, OthersStay
  <2>4. ~ \E c \in Calls : Begin(r, c)
    BY <1>2 DEF Begin
  <2> QED BY <2>2, <2>3, <2>4
<1>5. ASSUME NEW p, NEW t, Continue(r, p, t) PROVE pc'[r] = p
  BY <1>5 DEF Continue, Inv
<1>6. pc[r] = "record" /\ seen[r].left = {}
  <2>1. CASE FindExistingRecord(r)
    BY <2>1, <1>5 DEF FindExistingRecord
  <2>2. CASE \/ FindEnrollments(r) \/ SkipWithoutStructure(r) \/ ReadLevel(r)
             \/ FindStructure(r) \/ InsertFeeRecord(r)
    BY <2>2, <1>5 DEF FindEnrollments, SkipWithoutStructure, ReadLevel, FindStructure,
       InsertFeeRecord, Generated
  <2>3. CASE StatementFails(r)
    <3>1. Answer(r, "failed")
      BY <2>3 DEF StatementFails
    <3> QED BY <3>1 DEF Answer, Inv
  <2> QED BY <1>2, <1>4, <2>1, <2>2, <2>3 DEF Proceed, CreateFeeStructure,
          AssertFeeStructureExists, UpdateFeeStructure, FindSection, UpdateSection,
          InsertEnrollment, AssertFeeRecordExists,
          CreatePayment, ComputeStatus, UpdateStatus, ReadReply
<1> QED BY <1>1, <1>6 DEF Covering

\* A backfill that skips nobody leaves a record to every student it found whose
\* section keeps its class level meanwhile, whatever else runs beside it, for any
\* number of students, sections and calls.
THEOREM BackfillCovers == Spec => BackfillCoversEnrolled
<1>1. Init => Covered
  BY DEF Init, Covered, Covering, NoCall
<1>2. Inv /\ Covered /\ [Next]_vars => Covered'
  BY CoveredKeeps
<1>3. Inv /\ Covered /\ [Next]_vars =>
        [\A r \in Request :
            call[r].op = "backfill" /\ pc'[r] = "ok" /\ ~seen[r].skipped /\ pc[r] # "ok"
            => \A s \in DOMAIN seen[r].found :
                    records[s] # NoRecord \/ SectionOf[s] \in moved[r]]_vars
  BY AnsweredBackfill
<1> QED BY <1>1, <1>2, <1>3, Invariance, PTL DEF Spec, BackfillCoversEnrolled

-----------------------------------------------------------------------------
(* While handlers do not overlap *)

\* No two calls have overlapped and none has failed.
Smooth == alone /\ \A q \in Request : pc[q] # "failed"

Matches(R, P, s) == R[s].status \in Derived(Rows(P, s), R[s].total)

\* The status of s is still to be written by a call at statement p with body c.
Due(p, c, s) == p \in {"sum", "status"} /\ c.student = s

\* What a call that has computed a status is going to write.
Computed(R, P, p, c, l) == p = "status" => l.status \in Derived(Rows(P, c.student), R[c.student].total)

Calm == Smooth =>
    /\ \A r, q \in Running : r = q
    /\ \A s \in Student : records[s] # NoRecord =>
         Matches(records, payments, s) \/ \E r \in Request : Due(pc[r], call[r], s)
    /\ \A r \in Request : Computed(records, payments, pc[r], call[r], seen[r])

\* A smooth run stays smooth backwards: a failed call stays failed.
LEMMA SmoothBefore ==
    ASSUME Inv, NEW r \in Request, Proceed(r) \/ \E c \in Calls : Begin(r, c), Smooth'
    PROVE  Smooth /\ pc[r] # "failed" /\ (r \in Running => pc'[r] # "failed")
<1>1. CASE Proceed(r)
  <2>1. (\E outcome : Answer(r, outcome)) \/ (\E p, s : Continue(r, p, s))
    <3>1. CASE \/ CreateFeeStructure(r) \/ AssertFeeStructureExists(r) \/ UpdateFeeStructure(r)
               \/ FindSection(r) \/ UpdateSection(r) \/ ReadLevel(r) \/ InsertEnrollment(r)
               \/ AssertFeeRecordExists(r) \/ CreatePayment(r) \/ UpdateStatus(r)
               \/ ReadReply(r) \/ StatementFails(r) \/ SkipWithoutStructure(r) \/ FindEnrollments(r)
      BY <3>1, Zenon DEF CreateFeeStructure, AssertFeeStructureExists, UpdateFeeStructure,
         FindSection, UpdateSection, ReadLevel, InsertEnrollment,
         AssertFeeRecordExists, CreatePayment, UpdateStatus, ReadReply, StatementFails,
         SkipWithoutStructure, FindEnrollments
    <3>2. CASE FindStructure(r) \/ InsertFeeRecord(r) \/ FindExistingRecord(r) \/ ComputeStatus(r)
      BY <3>2, Zenon DEF FindStructure, InsertFeeRecord, FindExistingRecord, ComputeStatus,
         Generated
    <3> QED BY <1>1, <3>1, <3>2 DEF Proceed
  <2>2. alone' = alone
    BY <2>1 DEF Answer, Continue
  <2>3. pc[r] # "failed"
    <3>1. CASE StatementFails(r)
      BY <3>1 DEF StatementFails, Running, Done
    <3>2. CASE ~StatementFails(r)
      <4>1. pc[r] \in {"createStructure", "findStructure", "updateStructure", "findSection",
                       "updateSection", "enroll", "section", "structure", "insertRecord",
                       "findEnrollments", "record", "priced", "findRecord", "pay",
                       "sum", "status", "reply"}
        BY <1>1, <3>2, Zenon DEF Proceed, CreateFeeStructure, AssertFeeStructureExists,
           UpdateFeeStructure, FindSection, UpdateSection, InsertEnrollment, ReadLevel,
           FindStructure, InsertFeeRecord, FindEnrollments, FindExistingRecord,
           SkipWithoutStructure, AssertFeeRecordExists, CreatePayment, ComputeStatus,
           UpdateStatus, ReadReply
      <4> QED BY <4>1
    <3> QED BY <3>1, <3>2
  <2> QED BY <1>1, <2>2, <2>3, OthersStay DEF Smooth
<1>2. CASE \E c \in Calls : Begin(r, c)
  <2>1. pc[r] = "idle" /\ (alone' => alone)
    BY <1>2 DEF Begin
  <2> QED BY <1>2, <2>1, OthersStay DEF Smooth
<1> QED BY <1>1, <1>2

\* A step of the only call in flight.
LEMMA CalmMove ==
    ASSUME Inv, Calm, NEW r \in Request, r \in Running, Proceed(r),
           NEW p, NEW c, NEW l, pc'[r] = p, call'[r] = c, seen'[r] = l,
           \A s \in Student : records'[s] # NoRecord =>
             \/ Matches(records', payments', s) \/ Due(p, c, s)
             \/ records[s] # NoRecord /\ ~Due(pc[r], call[r], s)
                /\ records'[s] = records[s] /\ Rows(payments', s) = Rows(payments, s),
           Smooth => Computed(records', payments', p, c, l)
    PROVE  Calm'
<1> SUFFICES ASSUME Smooth'
             PROVE  /\ \A q, u \in Running' : q = u
                    /\ \A s \in Student : records'[s] # NoRecord =>
                         Matches(records', payments', s) \/ \E q \in Request : Due(pc'[q], call'[q], s)
                    /\ \A q \in Request : Computed(records', payments', pc'[q], call'[q], seen'[q])
  BY DEF Calm
<1>1. Smooth
  BY SmoothBefore
<1>2. \A q \in Request \ {r} : pc[q] \in Done \cup {"idle"} /\ pc'[q] = pc[q]
  BY <1>1, OthersStay DEF Calm, Running
<1>3. \A q, u \in Running' : q = u
  BY <1>2 DEF Running
<1>4. ASSUME NEW s \in Student, records'[s] # NoRecord
      PROVE  Matches(records', payments', s) \/ Due(p, c, s)
  <2>1. ASSUME records[s] # NoRecord, ~Due(pc[r], call[r], s), records'[s] = records[s],
               Rows(payments', s) = Rows(payments, s)
        PROVE  Matches(records', payments', s)
    <3>1. \A q \in Request : ~Due(pc[q], call[q], s)
      BY <1>2, <2>1 DEF Due, Done
    <3>2. Matches(records, payments, s)
      BY <1>1, <2>1, <3>1 DEF Calm
    <3> QED BY <2>1, <3>2 DEF Matches
  <2> QED BY <1>4, <2>1
<1>5. \A q \in Request : Computed(records', payments', pc'[q], call'[q], seen'[q])
  BY <1>1, <1>2 DEF Computed, Done
<1> QED BY <1>3, <1>4, <1>5

\* A step that writes neither records nor payments and computes nothing.
LEMMA CalmQuiet ==
    ASSUME Inv, Calm, NEW r \in Request, r \in Running, Proceed(r), UNCHANGED <<records, payments>>,
           pc[r] \notin {"sum", "status"} \/ pc'[r] = "failed", pc'[r] # "status"
    PROVE  Calm'
<1>1. CASE pc'[r] = "failed"
  <2>1. ~Smooth'
    BY <1>1 DEF Smooth
  <2> QED BY <2>1 DEF Calm
<1>2. CASE pc[r] \notin {"sum", "status"}
  <2>1. \A s : ~Due(pc[r], call[r], s)
    BY <1>2 DEF Due
  <2>2. \A R, P, c, l : Computed(R, P, pc'[r], c, l)
    BY DEF Computed
  <2> QED BY <2>1, <2>2, CalmMove
<1> QED BY <1>1, <1>2

LEMMA InsertRecordCalm ==
    ASSUME Inv, Calm, NEW r \in Request, InsertFeeRecord(r)
    PROVE  Calm'
<1>1. pc[r] = "insertRecord" /\ r \in Running /\ UNCHANGED payments /\ Generated(r)
  BY DEF InsertFeeRecord, Running, Done
<1>2. Local(records, payments, r, pc[r], call[r], seen[r])
  BY DEF Inv
<1>3. PICK u \in Student, t \in Price : u = seen[r].student /\ t = seen[r].total
  BY <1>1, <1>2 DEF Local
<1>4. pc'[r] \in {"record", "ok"}
  BY <1>1 DEF Generated, Continue, Answer, Inv
<1>5. PICK new : new = [total |-> t, status |-> "PENDING"]
  OBVIOUS
<1>6. records' = IF records[u] = NoRecord THEN [records EXCEPT ![u] = new] ELSE records
  BY <1>3, <1>5 DEF InsertFeeRecord
<1>7. ASSUME NEW s \in Student, records'[s] # NoRecord
      PROVE  \/ Matches(records', payments', s)
             \/ records[s] # NoRecord /\ records'[s] = records[s]
  <2>1. CASE s = u /\ records[u] = NoRecord
    <3>1. records'[s] = new
      BY <1>6, <2>1 DEF Inv, Book
    <3>2. Rows(payments', s) = {}
      BY <1>1, <2>1 DEF Inv, Book, Rows
    <3>3. Total({}) = 0 /\ t \in Nat /\ t > 0
      BY EmptyTotal, FeesAssumption
    <3>4. "PENDING" \in Derived({}, t)
      BY <3>3 DEF Derived, MayFallShort
    <3> QED BY <1>5, <3>1, <3>2, <3>4 DEF Matches
  <2>2. CASE ~(s = u /\ records[u] = NoRecord)
    <3>1. records'[s] = records[s]
      BY <1>6, <2>2 DEF Inv, Book
    <3> QED BY <1>7, <3>1
  <2> QED BY <2>1, <2>2
<1>8. \A s : ~Due(pc[r], call[r], s)
  BY <1>1 DEF Due
<1>9. \A R, P, c, l : Computed(R, P, pc'[r], c, l)
  BY <1>4 DEF Computed
<1> QED BY <1>1, <1>7, <1>8, <1>9, CalmMove DEF Proceed

LEMMA CreatePaymentCalm ==
    ASSUME Inv, Calm, NEW r \in Request, CreatePayment(r)
    PROVE  Calm'
<1>1. pc[r] = "pay" /\ r \in Running /\ UNCHANGED records
  BY DEF CreatePayment, Running, Done
<1>2. pc'[r] = "sum" /\ call'[r] = call[r]
  BY DEF CreatePayment, Continue, Inv
<1>3. PICK u : u = call[r].student
  OBVIOUS
<1>4. PICK row : row.student = u /\ payments' = payments \cup {row}
  BY <1>3 DEF CreatePayment
<1>5. \A s \in Student : s # u => Rows(payments', s) = Rows(payments, s)
  BY <1>4 DEF Rows
<1>6. Due("sum", call[r], u) /\ \A s : ~Due(pc[r], call[r], s)
  BY <1>1, <1>3 DEF Due
<1>7. \A R, P, c, l : Computed(R, P, "sum", c, l)
  BY DEF Computed
<1>8. \A s \in Student : records'[s] # NoRecord =>
        \/ Due("sum", call[r], s)
        \/ records[s] # NoRecord /\ records'[s] = records[s] /\ Rows(payments', s) = Rows(payments, s)
  BY <1>1, <1>5, <1>6
<1> QED BY <1>1, <1>2, <1>6, <1>7, <1>8, CalmMove DEF Proceed

LEMMA ComputeStatusCalm ==
    ASSUME Inv, Calm, NEW r \in Request, ComputeStatus(r)
    PROVE  Calm'
<1>1. pc[r] = "sum" /\ r \in Running /\ UNCHANGED <<records, payments>>
  BY DEF ComputeStatus, tables, sections, Running, Done
<1>2. Rows(payments, call[r].student) = PaymentsOf(call[r].student)
  BY DEF Rows, PaymentsOf
<1>3. PICK st \in Derived(Rows(payments, call[r].student), records[call[r].student].total) :
        Continue(r, "status", [seen[r] EXCEPT !.status = st])
  BY <1>2 DEF ComputeStatus
<1>4. PICK l : l = [seen[r] EXCEPT !.status = st]
  OBVIOUS
<1>5. l.status = st
  BY <1>4 DEF Inv, Locals
<1>6. pc'[r] = "status" /\ call'[r] = call[r] /\ seen'[r] = l
  BY <1>3, <1>4 DEF Continue, Inv
<1>7. Computed(records', payments', "status", call[r], l)
  BY <1>1, <1>5 DEF Computed
<1>8. \A s \in Student : Due("status", call[r], s) \/ ~Due(pc[r], call[r], s)
  BY DEF Due
<1> QED BY <1>1, <1>6, <1>7, <1>8, CalmMove DEF Proceed

LEMMA UpdateStatusCalm ==
    ASSUME Inv, Calm, NEW r \in Request, UpdateStatus(r)
    PROVE  Calm'
<1> SUFFICES ASSUME Smooth PROVE Calm'
  <2>1. Smooth' => Smooth
    BY SmoothBefore DEF Proceed
  <2> QED BY <2>1 DEF Calm
<1>1. pc[r] = "status" /\ r \in Running /\ UNCHANGED payments
  BY DEF UpdateStatus, Running, Done
<1>2. pc'[r] = "reply" /\ call'[r] = call[r] /\ seen'[r] = seen[r]
  BY DEF UpdateStatus, Continue, Inv
<1>3. Local(records, payments, r, pc[r], call[r], seen[r])
  BY DEF Inv
<1>4. PICK u \in Student : u = call[r].student /\ records[u] # NoRecord
  BY <1>1, <1>3 DEF Local, Paid
<1>5. PICK old \in [total : Price, status : Status] : old = records[u]
  BY <1>4 DEF Inv, Book
<1>6. PICK st : st = seen[r].status
  OBVIOUS
<1>7. PICK new : new = [old EXCEPT !.status = st]
  OBVIOUS
<1>8. new.status = st /\ new.total = old.total
  BY <1>7
<1>9. records' = [records EXCEPT ![u] = new]
  BY <1>4, <1>5, <1>6, <1>7 DEF UpdateStatus
<1>10. records'[u] = new /\ \A s \in Student : s # u => records'[s] = records[s]
  BY <1>9 DEF Inv, Book
<1>11. st \in Derived(Rows(payments, u), old.total)
  BY <1>1, <1>4, <1>5, <1>6 DEF Calm, Computed
<1>12. Matches(records', payments', u)
  BY <1>1, <1>8, <1>10, <1>11 DEF Matches
<1>13. \A s \in Student : s # u => ~Due(pc[r], call[r], s)
  BY <1>4 DEF Due
<1>14. \A R, P, c, l : Computed(R, P, "reply", c, l)
  BY DEF Computed
<1>15. \A s \in Student : records'[s] # NoRecord =>
         \/ Matches(records', payments', s)
         \/ records[s] # NoRecord /\ ~Due(pc[r], call[r], s)
            /\ records'[s] = records[s] /\ Rows(payments', s) = Rows(payments, s)
  BY <1>1, <1>10, <1>12, <1>13
<1> QED BY <1>1, <1>2, <1>14, <1>15, CalmMove DEF Proceed

LEMMA NextCalm ==
    ASSUME Inv, Calm, [Next]_vars
    PROVE  Calm'
<1>1. CASE UNCHANGED vars
  BY <1>1 DEF vars, sections, Calm, Smooth, Running
<1>2. ASSUME NEW r \in Request, NEW c \in Calls, Begin(r, c)
      PROVE  Calm'
  <2> SUFFICES ASSUME Smooth'
               PROVE  /\ \A q, u \in Running' : q = u
                      /\ \A s \in Student : records'[s] # NoRecord =>
                           Matches(records', payments', s) \/ \E q \in Request : Due(pc'[q], call'[q], s)
                      /\ \A q \in Request : Computed(records', payments', pc'[q], call'[q], seen'[q])
    BY DEF Calm
  <2>1. Smooth
    BY <1>2, SmoothBefore
  <2>2. Running = {} /\ UNCHANGED <<records, payments>>
    BY <1>2 DEF Begin, Smooth, tables, sections
  <2>3. pc[r] = "idle" /\ pc'[r] = FirstStep(c)
    BY <1>2 DEF Begin, Inv
  <2>4. \A q \in Request \ {r} : pc'[q] = pc[q]
    BY <1>2, OthersStay
  <2>5. \A q \in Request : pc[q] \in Done \cup {"idle"}
    BY <2>2 DEF Running
  <2>6. \A q, u \in Running' : q = u
    BY <2>4, <2>5 DEF Running
  <2>7. \A s \in Student : records[s] # NoRecord => Matches(records, payments, s)
    BY <2>1, <2>5 DEF Calm, Due, Done
  <2>8. \A q \in Request : pc'[q] # "status"
    BY <2>3, <2>4, <2>5 DEF FirstStep, Done
  <2> QED BY <2>2, <2>6, <2>7, <2>8 DEF Matches, Computed
<1>3. ASSUME NEW r \in Request, StatementFails(r)
      PROVE  Calm'
  <2>1. r \in Running /\ UNCHANGED <<records, payments>>
    BY <1>3 DEF StatementFails, tables, sections
  <2>2. pc'[r] \in {"ok", "failed"} /\ (pc'[r] = "ok" => call[r].op = "enroll")
    BY <1>3 DEF StatementFails, Answer, Inv
  <2>3. pc[r] \in {"sum", "status"} => call[r].op # "enroll"
    <3> SUFFICES ASSUME pc[r] \in {"sum", "status"}, call[r].op = "enroll" PROVE FALSE
      OBVIOUS
    <3>1. Local(records, payments, r, pc[r], call[r], seen[r])
      BY DEF Inv
    <3>2. call[r].amount \in Payment /\ call[r] \in Calls \cup {NoCall}
      BY <3>1 DEF Local, Paid
    <3>3. call[r].amount = None
      BY <3>2 DEF Calls, Body, NoCall
    <3>4. \A n \in Payment : n \in Int
      BY FeesAssumption
    <3> QED BY <3>2, <3>3, <3>4, FeesAssumption, Zenon
  <2> QED BY <1>3, <2>1, <2>2, <2>3, CalmQuiet DEF Proceed
<1>4. ASSUME NEW r \in Request, Proceed(r), UNCHANGED <<records, payments>>,
             pc[r] \notin Done \cup {"idle", "sum", "status"}, pc'[r] # "status"
      PROVE  Calm'
  BY <1>4, CalmQuiet DEF Running
<1>5. ASSUME NEW r \in Request, Answer(r, "ok") \/ Answer(r, "refused")
      PROVE  pc'[r] # "status"
  BY <1>5 DEF Answer, Inv
<1>6. ASSUME NEW r \in Request, NEW p, NEW l, Continue(r, p, l), p # "status"
      PROVE  pc'[r] # "status"
  BY <1>6 DEF Continue, Inv
<1>7. ASSUME NEW r \in Request, CreateFeeStructure(r) \/ AssertFeeStructureExists(r) \/ UpdateFeeStructure(r)
      PROVE  Calm'
  <2>1. /\ UNCHANGED <<records, payments>> /\ Proceed(r)
        /\ pc[r] \in {"createStructure", "findStructure", "updateStructure"}
    BY <1>7, Zenon DEF CreateFeeStructure, AssertFeeStructureExists, UpdateFeeStructure, tables,
       sections, Proceed
  <2>2. Answer(r, "ok") \/ Answer(r, "refused") \/ Continue(r, "updateStructure", seen[r])
    BY <1>7 DEF CreateFeeStructure, AssertFeeStructureExists, UpdateFeeStructure
  <2> QED BY <1>4, <1>5, <1>6, <2>1, <2>2 DEF Done
<1>8. ASSUME NEW r \in Request, InsertEnrollment(r) \/ ReadLevel(r) \/ FindStructure(r)
      PROVE  Calm'
  <2>1. UNCHANGED <<records, payments>> /\ Proceed(r) /\ pc[r] \in {"enroll", "section", "structure"}
    BY <1>8, Zenon DEF InsertEnrollment, ReadLevel, FindStructure, tables, Proceed
  <2>2. \/ Answer(r, "ok") \/ Answer(r, "refused") \/ Continue(r, "section", seen[r])
        \/ \E l : \/ Continue(r, "record", l) \/ Continue(r, "structure", l)
                 \/ Continue(r, "insertRecord", l)
    BY <1>8 DEF InsertEnrollment, ReadLevel, FindStructure, Generated
  <2> QED BY <1>4, <1>5, <1>6, <2>1, <2>2 DEF Done
<1>9. ASSUME NEW r \in Request, FindEnrollments(r) \/ FindExistingRecord(r) \/ SkipWithoutStructure(r)
      PROVE  Calm'
  <2>1. /\ UNCHANGED <<records, payments>> /\ Proceed(r)
        /\ pc[r] \in {"findEnrollments", "record", "priced"}
    BY <1>9, Zenon DEF FindEnrollments, FindExistingRecord, SkipWithoutStructure, tables,
       sections, Proceed
  <2>2. \/ Answer(r, "ok")
        \/ \E l : Continue(r, "record", l) \/ Continue(r, "priced", l) \/ Continue(r, "section", l)
    BY <1>9, Zenon DEF FindEnrollments, FindExistingRecord, SkipWithoutStructure
  <2> QED BY <1>4, <1>5, <1>6, <2>1, <2>2 DEF Done
<1>10. ASSUME NEW r \in Request, AssertFeeRecordExists(r) \/ ReadReply(r)
       PROVE  Calm'
  <2>1. UNCHANGED <<records, payments>> /\ Proceed(r) /\ pc[r] \in {"findRecord", "reply"}
    BY <1>10, Zenon DEF AssertFeeRecordExists, ReadReply, tables, sections, Proceed
  <2>2. Answer(r, "ok") \/ Answer(r, "refused") \/ Continue(r, "pay", seen[r])
    BY <1>10 DEF AssertFeeRecordExists, ReadReply
  <2> QED BY <1>4, <1>5, <1>6, <2>1, <2>2 DEF Done
<1>11. ASSUME NEW r \in Request, FindSection(r) \/ UpdateSection(r)
       PROVE  Calm'
  <2>1. /\ UNCHANGED <<records, payments>> /\ Proceed(r)
        /\ pc[r] \in {"findSection", "updateSection"}
    BY <1>11, Zenon DEF FindSection, UpdateSection, tables, Proceed
  <2>2. Answer(r, "ok") \/ Answer(r, "refused") \/ Continue(r, "updateSection", seen[r])
    BY <1>11 DEF FindSection, UpdateSection
  <2> QED BY <1>4, <1>5, <1>6, <2>1, <2>2 DEF Done
<1>12. ASSUME NEW r \in Request, Proceed(r)
       PROVE  Calm'
  BY <1>3, <1>7, <1>8, <1>9, <1>10, <1>11, <1>12, InsertRecordCalm, CreatePaymentCalm,
     ComputeStatusCalm, UpdateStatusCalm DEF Proceed
<1> QED BY <1>1, <1>2, <1>12 DEF Next

LEMMA InitCalm == Init => Calm
<1> SUFFICES ASSUME Init PROVE Calm
  OBVIOUS
<1>1. Running = {} /\ \A r \in Request : pc[r] = "idle"
  BY DEF Init, Running
<1>2. \A r \in Request : Computed(records, payments, pc[r], call[r], seen[r])
  BY <1>1 DEF Computed
<1>3. ASSUME NEW s \in Student, records[s] # NoRecord
      PROVE  Matches(records, payments, s)
  <2>1. PICK t \in Price : records[s].total = t /\ records[s].status = "PENDING"
    <3>1. records[s] \in [total : Price, status : {"PENDING"}]
      BY <1>3 DEF Init
    <3> QED BY <3>1
  <2>2. Rows(payments, s) = {}
    BY DEF Init, Rows
  <2>3. Total({}) = 0 /\ t \in Nat /\ t > 0
    BY EmptyTotal, FeesAssumption
  <2>4. "PENDING" \in Derived({}, t)
    BY <2>3 DEF Derived, MayFallShort
  <2> QED BY <2>1, <2>2, <2>4 DEF Matches
<1> QED BY <1>1, <1>2, <1>3 DEF Calm

\* While calls do not overlap and none has failed, the status of every record
\* is the one its payments give it, for any number of calls and amounts.
THEOREM StatusMatchesPayments == Spec => []SerialStatusMatches
<1>1. Init => Inv /\ Calm
  BY InitHolds, InitCalm
<1>2. (Inv /\ Calm) /\ [Next]_vars => (Inv /\ Calm)'
  BY StepKeeps, NextCalm
<1>3. Calm => SerialStatusMatches
  <2> SUFFICES ASSUME Calm, Smooth, Running = {}, NEW s \in Student, records[s] # NoRecord
               PROVE  records[s].status \in Derived(PaymentsOf(s), records[s].total)
    BY DEF SerialStatusMatches, FinalStatusMatches, StatusMatches, Smooth
  <2>1. \A r \in Request : ~Due(pc[r], call[r], s)
    BY DEF Due, Running, Done
  <2>2. Matches(records, payments, s)
    BY <2>1 DEF Calm
  <2>3. Rows(payments, s) = PaymentsOf(s)
    BY DEF Rows, PaymentsOf
  <2> QED BY <2>2, <2>3 DEF Matches
<1> QED BY <1>1, <1>2, <1>3, PTL DEF Spec
=============================================================================
