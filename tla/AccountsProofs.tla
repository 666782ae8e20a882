--------------------------- MODULE AccountsProofs ---------------------------
(***************************************************************************)
(* The books of the accounts module balance for any number of requests,    *)
(* rows and amounts.                                                       *)
(*                                                                         *)
(* The two ledger invariants are not inductive: whether a write keeps them *)
(* depends on what the writing request read before.  Known states what the *)
(* holder of the advisory lock may still rely on at each statement; the    *)
(* unlocked handlers only add deposits, and remove withdrawals and bills,  *)
(* which makes every fact in Known stay true (KnownStable).                *)
(*                                                                         *)
(* Ledger is implemented step by step: every write is an operation of the  *)
(* ledger, whose guard follows from what the writing request knows.        *)
(***************************************************************************)
EXTENDS Accounts, FiniteSetTheorems, TLAPS

-----------------------------------------------------------------------------
(* How the aggregates of Amounts react to INSERT, DELETE and UPDATE, for    *)
(* tables of every size.                                                    *)

\* A table has finitely many units, so that its total is a number.
Finite(T) == IsFiniteSet(Units(T))

\* A row of amount n has n units.
LEMMA RowUnits ==
    ASSUME NEW i, NEW n \in Nat
    PROVE  IsFiniteSet({i} \X (1 .. n)) /\ Cardinality({i} \X (1 .. n)) = n
<1> DEFINE f == [k \in 1 .. n |-> <<i, k>>]
<1>1. f \in Bijection(1 .. n, {i} \X (1 .. n))
  <2>1. f \in [1 .. n -> {i} \X (1 .. n)]
    OBVIOUS
  <2>2. ASSUME NEW p \in 1 .. n, NEW q \in 1 .. n, f[p] = f[q]
        PROVE  p = q
    BY <2>2
  <2>3. ASSUME NEW t \in {i} \X (1 .. n)
        PROVE  \E k \in 1 .. n : f[k] = t
    <3>1. PICK k \in 1 .. n : t = <<i, k>>
      OBVIOUS
    <3> QED BY <3>1
  <2> QED BY <2>1, <2>2, <2>3 DEF Bijection, Injection, Surjection, IsInjective
<1>2. ExistsBijection(1 .. n, {i} \X (1 .. n))
  BY <1>1 DEF ExistsBijection
<1>3. IsFiniteSet(1 .. n) /\ Cardinality(1 .. n) = n
  BY FS_Interval
<1> QED BY <1>2, <1>3, FS_Bijection

\* The empty table has the total 0.
LEMMA EmptyTotal == Finite({}) /\ Total({}) = 0
<1>1. Units({}) = {}
  BY DEF Units
<1> QED BY <1>1, FS_EmptySet DEF Total, Finite

\* INSERT of a row with a new id adds its amount to the total.
LEMMA InsertTotal ==
    ASSUME NEW T, Finite(T), NEW x, x.amount \in Nat, x.id \notin Ids(T)
    PROVE  Finite(T \cup {x}) /\ Total(T \cup {x}) = Total(T) + x.amount
<1> DEFINE U == {x.id} \X (1 .. x.amount)
<1>1. Units(T \cup {x}) = Units(T) \cup U
  BY DEF Units
<1>2. Units(T) \cap U = {}
  BY DEF Units, Ids
<1>3. IsFiniteSet(U) /\ Cardinality(U) = x.amount
  BY RowUnits
<1>4. Cardinality(Units(T) \cap U) = 0
  BY <1>2, FS_EmptySet
<1>5. Cardinality(Units(T)) \in Nat
  BY FS_CardinalityType DEF Finite
<1> HIDE DEF U
<1>6. /\ IsFiniteSet(Units(T) \cup U)
      /\ Cardinality(Units(T) \cup U) = Cardinality(Units(T)) + Cardinality(U)
                                          - Cardinality(Units(T) \cap U)
  BY <1>3, FS_Union DEF Finite
<1>7. Cardinality(Units(T) \cup U) = Cardinality(Units(T)) + x.amount
  BY <1>3, <1>4, <1>5, <1>6
<1> QED BY <1>1, <1>6, <1>7 DEF Total, Finite

\* A part of a table has at most the total of the table.
LEMMA SubtableTotal ==
    ASSUME NEW T, Finite(T), NEW S, S \subseteq T
    PROVE  Finite(S) /\ Total(S) \in Nat /\ Total(T) \in Nat /\ Total(S) <= Total(T)
<1>1. Units(S) \in SUBSET Units(T)
  BY DEF Units
<1>2. IsFiniteSet(Units(S)) /\ Cardinality(Units(S)) <= Cardinality(Units(T))
  BY <1>1, FS_Subset DEF Finite
<1> QED BY <1>2, FS_CardinalityType DEF Finite, Total

\* A table is what is left after a DELETE of one of its rows, and that row.
LEMMA DeleteSplits ==
    ASSUME NEW T, UniqueIds(T), NEW x \in T
    PROVE  T = Delete(T, x.id) \cup {x} /\ x.id \notin Ids(Delete(T, x.id))
BY DEF UniqueIds, Delete, Ids

\* DELETE of a row takes its amount from the total.
LEMMA DeleteTotal ==
    ASSUME NEW T, Finite(T), UniqueIds(T), NEW x \in T, x.amount \in Nat
    PROVE  /\ Finite(Delete(T, x.id)) /\ Total(Delete(T, x.id)) \in Nat
           /\ Total(T) = Total(Delete(T, x.id)) + x.amount
<1>1. Delete(T, x.id) \subseteq T
  BY DEF Delete
<1>2. Finite(Delete(T, x.id)) /\ Total(Delete(T, x.id)) \in Nat
  BY <1>1, SubtableTotal
<1> QED BY <1>2, DeleteSplits, InsertTotal

\* UPDATE of an amount replaces one row by a row with the same id.
LEMMA SetAmountRow ==
    ASSUME NEW T, UniqueIds(T), NEW x \in T, x = [id |-> x.id, amount |-> x.amount], NEW a
    PROVE  SetAmount(T, x.id, a) = Delete(T, x.id) \cup {[id |-> x.id, amount |-> a]}
<1> DEFINE z == [id |-> x.id, amount |-> a]
<1>1. z.id = x.id
  OBVIOUS
<1>2. \A row \in T : row.id = x.id => row = x
  BY DEF UniqueIds
<1>3. [x EXCEPT !.amount = a] = z
  <2> DEFINE i == x.id
             m == x.amount
  <2>1. x = [id |-> i, amount |-> m]
    OBVIOUS
  <2> HIDE DEF i, m
  <2>2. [[id |-> i, amount |-> m] EXCEPT !.amount = a] = [id |-> i, amount |-> a]
    OBVIOUS
  <2> QED BY <2>1, <2>2, Zenon DEF i
<1>4. SetAmount(T, x.id, a) = {IF row.id = x.id THEN z ELSE row : row \in T}
  <2>1. \A row \in T : (IF row.id = x.id THEN [row EXCEPT !.amount = a] ELSE row)
                        = (IF row.id = x.id THEN z ELSE row)
    BY <1>2, <1>3
  <2> QED BY <2>1 DEF SetAmount
<1> HIDE DEF z
<1>5. {IF row.id = x.id THEN z ELSE row : row \in T} = Delete(T, x.id) \cup {z}
  BY <1>1 DEF Delete
<1> QED BY <1>4, <1>5 DEF z

\* Replacing a row x by a row z with the same id changes the total by the difference.
LEMMA ReplaceTotal ==
    ASSUME NEW T, Finite(T), UniqueIds(T), NEW x \in T, x.amount \in Nat,
           NEW z, z.id = x.id, z.amount \in Nat
    PROVE  LET S == Delete(T, x.id) \cup {z}
           IN  /\ Finite(S) /\ Total(S) \in Nat
               /\ Total(S) = Total(Delete(T, x.id)) + z.amount
               /\ Total(S) = Total(T) - x.amount + z.amount
<1>1. z.id \notin Ids(Delete(T, x.id))
  BY DeleteSplits
<1>2. /\ Finite(Delete(T, x.id)) /\ Total(Delete(T, x.id)) \in Nat
      /\ Total(T) = Total(Delete(T, x.id)) + x.amount
  BY DeleteTotal
<1>3. /\ Finite(Delete(T, x.id) \cup {z})
      /\ Total(Delete(T, x.id) \cup {z}) = Total(Delete(T, x.id)) + z.amount
  BY <1>1, <1>2, InsertTotal
<1> QED BY <1>2, <1>3

\* It keeps the ids, and their uniqueness.
LEMMA ReplaceIds ==
    ASSUME NEW T, UniqueIds(T), NEW x \in T, NEW z, z.id = x.id
    PROVE  UniqueIds(Delete(T, x.id) \cup {z}) /\ Ids(Delete(T, x.id) \cup {z}) = Ids(T)
BY DEF UniqueIds, Ids, Delete

\* DELETE and UPDATE of an id that is not there change nothing.
LEMMA AbsentId ==
    ASSUME NEW T, NEW i, i \notin Ids(T), NEW a
    PROVE  Delete(T, i) = T /\ SetAmount(T, i, a) = T
<1>1. \A row \in T : row.id # i
  BY DEF Ids
<1>2. Delete(T, i) = T
  BY <1>1 DEF Delete
<1>3. SetAmount(T, i, a) = {row : row \in T}
  BY <1>1, Zenon DEF SetAmount
<1> QED BY <1>2, <1>3

-----------------------------------------------------------------------------
(* Requests *)

\* What the body of each kind of request holds.
CallShape(c) ==
    /\ c.op \in Locked \cup Unlocked
    /\ c.op \in {"createDeposit", "updateDeposit", "deleteDeposit"} =>
         c.id \in DepositId /\ c.withdrawalId = None
    /\ c.op \in {"createWithdrawal", "updateWithdrawal", "deleteWithdrawal"} =>
         c.id \in WithdrawalId /\ c.withdrawalId = None
    /\ c.op \in {"createBill", "updateBill", "deleteBill"} => c.id \in BillId
    /\ c.op \in Creates => c.amount \in AmountValue
    /\ c.op \in {"updateDeposit", "updateWithdrawal", "updateBill"} =>
         c.amount \in AmountValue \cup {None}
    /\ c.op = "createBill" => c.withdrawalId \in WithdrawalId
    /\ c.op = "updateBill" => c.withdrawalId \in WithdrawalId \cup {None}
    /\ c.op \in {"deleteDeposit", "deleteWithdrawal", "deleteBill"} => c.amount = None
    /\ c.op = "deleteBill" => c.withdrawalId = None

LEMMA CallFacts == \A c \in Calls : CallShape(c)
BY DEF Calls, Body, Locked, Unlocked, Creates, CallShape

-----------------------------------------------------------------------------
(* The inductive invariant *)

DepositChanges == {"updateDeposit", "deleteDeposit"}
BalanceChecked == DepositChanges \cup {"createWithdrawal", "updateWithdrawal"}
BillWrites     == {"createBill", "updateBill"}

\* A request is at a statement its handler has.
StepFits(r) ==
    /\ pc[r] # "idle" => call[r] \in Calls
    /\ pc[r] = "lock" => call[r].op \in Locked
    /\ pc[r] = "row" => call[r].op \notin Creates
    /\ pc[r] \in {"deposited", "withdrawn"} =>
         /\ call[r].op \in BalanceChecked
         /\ call[r].op # "deleteDeposit" => call[r].amount # None
    /\ pc[r] = "withdrawal" => call[r].op \in BillWrites
    /\ pc[r] = "spent" =>
         /\ call[r].op \in BillWrites \cup {"updateWithdrawal"}
         /\ call[r].op = "updateWithdrawal" => call[r].amount # None
    /\ call[r].op = "updateBill" /\ pc[r] \in {"withdrawal", "spent", "write"} =>
         seen[r].from \in WithdrawalId

\* Past its first statement, a transaction that checks a balance has the lock.
HasLock(r) ==
    call[r].op \in Locked /\ pc[r] \notin {"idle", "lock", "reply"} => lock = r

\* The row a request is about to insert is new, and its alone.
NewId(r) ==
    /\ pc[r] # "idle" =>
         /\ call[r].op = "createDeposit" => call[r].id \notin Ids(deposits)
         /\ call[r].op = "createWithdrawal" => call[r].id \notin Ids(withdrawals)
         /\ call[r].op = "createBill" => call[r].id \notin Ids(bills)
    /\ \A q \in Request :
         /\ q # r /\ pc[r] # "idle" /\ pc[q] # "idle"
         /\ call[r].op \in Creates /\ call[q].op \in Creates
         => call[r].id # call[q].id

Flow == \A r \in Request : StepFits(r) /\ HasLock(r) /\ NewId(r)

FiniteTables == Finite(deposits) /\ Finite(withdrawals) /\ Finite(bills)

\* What the holder of the lock has read of deposits, and may still rely on.
KnowsDeposits(r) ==
    /\ call[r].op \in DepositChanges /\ pc[r] \in {"deposited", "withdrawn", "write"} =>
         \E row \in deposits : row.id = call[r].id /\ row.amount = seen[r].old
    /\ pc[r] = "withdrawn" => seen[r].limit <= Total(deposits)
    /\ call[r].op = "updateDeposit" /\ call[r].amount # None /\ pc[r] = "write" =>
         Total(withdrawals) <= Total(deposits) - seen[r].old + call[r].amount
    /\ call[r].op = "deleteDeposit" /\ pc[r] = "write" =>
         Total(withdrawals) <= Total(deposits) - seen[r].old

KnowsBalance(r) ==
    /\ call[r].op = "createWithdrawal" /\ pc[r] = "write" =>
         Total(withdrawals) + call[r].amount <= Total(deposits)
    /\ call[r].op = "updateWithdrawal" /\ call[r].amount # None =>
         /\ pc[r] \in {"spent", "write"} =>
              Total(Delete(withdrawals, call[r].id)) + call[r].amount <= Total(deposits)
         /\ pc[r] = "write" => Total(BillsOf(call[r].id)) <= call[r].amount

\* What it has read of a bill and of the withdrawal the bill is paid out of.
KnowsRoom(r) ==
    /\ call[r].op = "updateBill" /\ pc[r] \in {"withdrawal", "spent", "write"} =>
         \A b \in bills : b.id = call[r].id =>
              b.amount = seen[r].old /\ b.withdrawalId = seen[r].from
    /\ call[r].op \in BillWrites /\ pc[r] = "spent" =>
         \A w \in withdrawals : w.id = TargetOf(r) => w.amount = seen[r].limit
    /\ call[r].op = "createBill" /\ pc[r] = "write" =>
         \A w \in withdrawals : w.id = TargetOf(r) =>
              Total(BillsOf(w.id)) + call[r].amount <= w.amount
    /\ /\ call[r].op = "updateBill" /\ pc[r] = "write"
       /\ call[r].amount # None \/ call[r].withdrawalId # None
       => \A w \in withdrawals : w.id = TargetOf(r) =>
              Total(Delete(BillsOf(w.id), call[r].id)) + BillAmount(r) <= w.amount

Known(r) == KnowsDeposits(r) /\ KnowsBalance(r) /\ KnowsRoom(r)

HolderKnows == \A r \in Request : lock = r => Known(r)

Books == DepositsCoverAllWithdrawals /\ BillsFitTheirWithdrawal

Inv == TypeOK /\ Flow /\ FiniteTables /\ Books /\ HolderKnows

-----------------------------------------------------------------------------
(* What every step has in common *)

Tables == deposits \subseteq DepositRow /\ withdrawals \subseteq WithdrawalRow
          /\ bills \subseteq BillRow

Keys == UniqueIds(deposits) /\ UniqueIds(withdrawals) /\ UniqueIds(bills)

ControlTypes ==
    /\ lock \in Request \cup {None}
    /\ pc \in [Request -> Step]
    /\ call \in [Request -> Calls \cup {NoCall}]
    /\ seen \in [Request -> [old : Nat, from : WithdrawalId \cup {None}, limit : Nat]]

\* A step of r leaves the other requests where they are.
Only(r) == \A q \in Request \ {r} :
    pc'[q] = pc[q] /\ call'[q] = call[q] /\ seen'[q] = seen[q]

\* The facts the holder relies on survive whatever the unlocked handlers do.
LEMMA KnownStable ==
    ASSUME Inv, TypeOK', NEW q \in Request, Known(q),
           Finite(deposits'), deposits \subseteq deposits',
           withdrawals' \subseteq withdrawals, bills' \subseteq bills,
           pc'[q] = pc[q], call'[q] = call[q], seen'[q] = seen[q]
    PROVE  Known(q)'
<1> USE DEF Inv, FiniteTables
<1>1. Total(deposits) \in Nat /\ Total(deposits') \in Nat /\ Total(deposits) <= Total(deposits')
  BY SubtableTotal
<1>2. Total(withdrawals) \in Nat /\ Total(withdrawals') \in Nat
      /\ Total(withdrawals') <= Total(withdrawals)
  BY SubtableTotal
<1>3. ASSUME NEW i
      PROVE  /\ Total(Delete(withdrawals, i)) \in Nat
             /\ Total(Delete(withdrawals', i)) \in Nat
             /\ Total(Delete(withdrawals', i)) <= Total(Delete(withdrawals, i))
  <2>1. Delete(withdrawals', i) \subseteq Delete(withdrawals, i)
        /\ Delete(withdrawals, i) \subseteq withdrawals
    BY DEF Delete
  <2>2. Finite(Delete(withdrawals, i))
    BY <2>1, SubtableTotal
  <2> QED BY <2>1, <2>2, SubtableTotal
<1>4. ASSUME NEW i, NEW w
      PROVE  /\ Total(BillsOf(w)) \in Nat /\ Total(BillsOf(w))' \in Nat
             /\ Total(BillsOf(w))' <= Total(BillsOf(w))
             /\ Total(Delete(BillsOf(w), i)) \in Nat /\ Total(Delete(BillsOf(w), i))' \in Nat
             /\ Total(Delete(BillsOf(w), i))' <= Total(Delete(BillsOf(w), i))
  <2>1. BillsOf(w)' \subseteq BillsOf(w) /\ BillsOf(w) \subseteq bills
    BY DEF BillsOf
  <2>2. Delete(BillsOf(w), i)' \subseteq Delete(BillsOf(w), i)
        /\ Delete(BillsOf(w), i) \subseteq bills
    BY <2>1 DEF Delete
  <2>3. Finite(BillsOf(w)) /\ Finite(Delete(BillsOf(w), i))
    BY <2>1, <2>2, SubtableTotal
  <2> QED BY <2>1, <2>2, <2>3, SubtableTotal
<1>5. /\ seen[q].old \in Nat /\ seen[q].limit \in Nat
      /\ \A w \in withdrawals : w.amount \in Nat
  BY AccountsAssumption DEF TypeOK, WithdrawalRow
<1>6. pc[q] # "idle" => CallShape(call[q])
  BY CallFacts DEF Flow, StepFits
<1>7. pc[q] # "idle" =>
        /\ call[q].op \in Creates => call[q].amount \in Nat
        /\ call[q].op \in {"updateDeposit", "updateWithdrawal", "updateBill"} =>
             call[q].amount = None \/ call[q].amount \in Nat
        /\ call[q].op \in BillWrites => BillAmount(q) \in Nat
  BY <1>5, <1>6, AccountsAssumption DEF CallShape, Creates, BillWrites, BillAmount
<1>8. KnowsDeposits(q)'
  BY <1>1, <1>2, <1>5, <1>7 DEF Known, KnowsDeposits, DepositChanges
<1>9. KnowsBalance(q)'
  <2>1. ASSUME call[q].op = "updateWithdrawal", call[q].amount # None, pc[q] = "write"
        PROVE  Total(BillsOf(call[q].id))' <= call[q].amount
    <3>1. Total(BillsOf(call[q].id)) <= call[q].amount
      BY <2>1 DEF Known, KnowsBalance
    <3>2. /\ Total(BillsOf(call[q].id)) \in Nat /\ Total(BillsOf(call[q].id))' \in Nat
          /\ Total(BillsOf(call[q].id))' <= Total(BillsOf(call[q].id))
      BY <1>4
    <3> QED BY <2>1, <3>1, <3>2, <1>7
  <2> QED BY <2>1, <1>1, <1>2, <1>3, <1>7 DEF Known, KnowsBalance, Creates
<1>10. KnowsRoom(q)'
  <2>1. TargetOf(q)' = TargetOf(q) /\ BillAmount(q)' = BillAmount(q)
    BY DEF TargetOf, BillAmount
  <2>2. ASSUME call[q].op = "createBill", pc[q] = "write", NEW w \in withdrawals',
               w.id = TargetOf(q)
        PROVE  Total(BillsOf(w.id))' + call[q].amount <= w.amount
    <3>1. Total(BillsOf(w.id)) + call[q].amount <= w.amount
      BY <2>2 DEF Known, KnowsRoom
    <3>2. Total(BillsOf(w.id)) \in Nat /\ Total(BillsOf(w.id))' \in Nat
          /\ Total(BillsOf(w.id))' <= Total(BillsOf(w.id))
      BY <1>4
    <3> QED BY <2>2, <3>1, <3>2, <1>5, <1>7 DEF Creates
  <2>3. ASSUME call[q].op = "updateBill", pc[q] = "write",
               call[q].amount # None \/ call[q].withdrawalId # None,
               NEW w \in withdrawals', w.id = TargetOf(q)
        PROVE  Total(Delete(BillsOf(w.id), call[q].id))' + BillAmount(q) <= w.amount
    <3> DEFINE others == Delete(BillsOf(w.id), call[q].id)
    <3>1. Total(others) + BillAmount(q) <= w.amount
      BY <2>3 DEF Known, KnowsRoom
    <3>2. Total(others) \in Nat /\ Total(others)' \in Nat /\ Total(others)' <= Total(others)
      BY <1>4
    <3>3. BillAmount(q) \in Nat /\ w.amount \in Nat
      BY <2>3, <1>5, <1>7 DEF BillWrites
    <3> QED BY <3>1, <3>2, <3>3
  <2> QED BY <2>1, <2>2, <2>3 DEF Known, KnowsRoom
<1> QED BY <1>8, <1>9, <1>10 DEF Known

\* A request that ends leaves the others, and the lock if it is not its own.
LEMMA FinishKeeps ==
    ASSUME Inv, NEW r \in Request, Finish(r)
    PROVE  /\ ControlTypes' /\ Only(r)
           /\ \A q \in Request : StepFits(q)' /\ HasLock(q)'
           /\ lock' \in Request => lock' = lock /\ lock # r
           /\ pc'[r] = "idle"
<1> USE DEF Inv, TypeOK
<1>1. ControlTypes' /\ Only(r) /\ pc'[r] = "idle"
  BY DEF Finish, ControlTypes, Only, Step, NothingSeen
<1>2. lock' \in Request => lock' = lock /\ lock # r
  BY AccountsAssumption DEF Finish
<1>3. ASSUME NEW q \in Request
      PROVE  StepFits(q)' /\ HasLock(q)'
  <2>1. CASE q = r
    BY <1>1, <2>1 DEF StepFits, HasLock, Finish, NoCall
  <2>2. CASE q # r
    <3>1. StepFits(q)'
      BY <1>1, <2>2 DEF StepFits, Flow, Only
    <3>2. HasLock(q)'
      BY <1>1, <2>2 DEF HasLock, Flow, Only, Finish
    <3> QED BY <3>1, <3>2
  <2> QED BY <2>1, <2>2
<1> QED BY <1>1, <1>2, <1>3

\* A step that moves only r and leaves the tables alone needs no more than
\* that r is still at a fitting statement, and knows what it should know.
LEMMA TablesAlone ==
    ASSUME Inv, NEW r \in Request, UNCHANGED tables, ControlTypes', Only(r),
           StepFits(r)', HasLock(r)', NewId(r)',
           \A q \in Request \ {r} : HasLock(q)' /\ NewId(q)',
           lock' \in Request \ {r} => lock' = lock,
           (lock' = r) => Known(r)'
    PROVE  Inv'
<1> USE DEF Inv, tables
<1>1. TypeOK'
  BY DEF TypeOK, ControlTypes
<1>2. FiniteTables' /\ Books'
  BY DEF FiniteTables, Books, DepositsCoverAllWithdrawals, BillsFitTheirWithdrawal, BillsOf
<1>3. Flow'
  BY DEF Flow, StepFits, HasLock, Only
<1>4. HolderKnows'
  <2>1. ASSUME NEW q \in Request, lock' = q, q # r
        PROVE  Known(q)'
    <3>1. Known(q)
      BY <2>1 DEF HolderKnows
    <3>2. Finite(deposits')
      BY DEF FiniteTables
    <3> QED BY <1>1, <2>1, <3>1, <3>2, KnownStable DEF Only
  <2> QED BY <2>1 DEF HolderKnows
<1> QED BY <1>1, <1>2, <1>3, <1>4

-----------------------------------------------------------------------------
(* The steps that leave the tables alone *)

LEMMA RejectStep ==
    ASSUME Inv, NEW r \in Request, Reject(r)
    PROVE  Inv'
<1> USE DEF Reject
<1>1. /\ ControlTypes' /\ Only(r) /\ pc'[r] = "idle"
      /\ \A q \in Request : StepFits(q)' /\ HasLock(q)'
      /\ lock' \in Request => lock' = lock /\ lock # r
  BY FinishKeeps
<1>2. ASSUME NEW q \in Request
      PROVE  NewId(q)'
  <2>1. NewId(q)
    BY DEF Inv, Flow
  <2>2. pc'[q] # "idle" => q # r /\ pc'[q] = pc[q] /\ call'[q] = call[q]
    BY <1>1 DEF Only
  <2>3. \A p \in Request : pc'[p] # "idle" => pc'[p] = pc[p] /\ call'[p] = call[p]
    BY <1>1 DEF Only
  <2> QED BY <2>1, <2>2, <2>3 DEF NewId, tables
<1> QED BY <1>1, <1>2, TablesAlone

LEMMA BeginStep ==
    ASSUME Inv, NEW r \in Request, NEW c \in Calls, Begin(r, c)
    PROVE  Inv'
<1> USE DEF Inv, TypeOK
<1>1. ControlTypes' /\ Only(r) /\ UNCHANGED <<tables, lock>>
  BY DEF Begin, ControlTypes, Only, Step
<1>2. /\ call'[r] = c /\ CallShape(c) /\ pc[r] = "idle"
      /\ pc'[r] = IF c.op \in Locked THEN "lock"
                  ELSE IF c.op = "createDeposit" THEN "write" ELSE "row"
  BY CallFacts DEF Begin
<1>3. StepFits(r)' /\ HasLock(r)'
  BY <1>2 DEF StepFits, HasLock, Locked, Creates, CallShape, Unlocked
<1>4. ASSUME NEW q \in Request \ {r}
      PROVE  HasLock(q)'
  BY <1>1 DEF HasLock, Flow, Only
<1>5. \A q \in Request : NewId(q)'
  BY <1>1, <1>2 DEF NewId, Flow, Only, Begin, Fresh, tables, Creates
<1>6. lock = r => Known(r)'
  BY <1>2 DEF Known, KnowsDeposits, KnowsBalance, KnowsRoom, Locked, DepositChanges, BillWrites
<1> QED BY <1>1, <1>3, <1>4, <1>5, <1>6, TablesAlone

LEMMA AcquireLockStep ==
    ASSUME Inv, NEW r \in Request, AcquireLock(r)
    PROVE  Inv'
<1> USE DEF Inv, TypeOK
<1>1. ControlTypes' /\ Only(r) /\ UNCHANGED <<tables, call, seen>>
      /\ lock = None /\ lock' = r /\ pc[r] = "lock"
  BY DEF AcquireLock, ControlTypes, Only, Step
<1>2. CallShape(call[r]) /\ call[r].op \in Locked /\ call[r] \in Calls
  BY <1>1, CallFacts DEF Flow, StepFits
<1>3. pc'[r] = CASE call[r].op = "createWithdrawal" -> "deposited"
                 [] call[r].op = "createBill" -> "withdrawal"
                 [] OTHER -> "row"
  BY DEF AcquireLock
<1>4. StepFits(r)' /\ HasLock(r)'
  BY <1>1, <1>2, <1>3, AccountsAssumption
     DEF StepFits, HasLock, Locked, Creates, CallShape, BalanceChecked, BillWrites
<1>5. ASSUME NEW q \in Request \ {r}
      PROVE  HasLock(q)'
  BY <1>1, AccountsAssumption DEF HasLock, Flow, Only
<1>6. \A q \in Request : NewId(q)'
  BY <1>1, <1>3 DEF NewId, Flow, Only, tables
<1>7. Known(r)'
  BY <1>1, <1>2, <1>3
     DEF Known, KnowsDeposits, KnowsBalance, KnowsRoom, Locked, DepositChanges, BillWrites
<1> QED BY <1>1, <1>4, <1>5, <1>6, <1>7, TablesAlone

\* A statement of r between its first and its last that only reads.
LEMMA ReadStep ==
    ASSUME Inv, NEW r \in Request, pc[r] \notin {"idle", "lock", "reply"},
           NEW n \in Step \ {"idle", "lock", "reply"}, Goto(r, n),
           NEW s \in [old : Nat, from : WithdrawalId \cup {None}, limit : Nat],
           seen' = [seen EXCEPT ![r] = s],
           StepFits(r)', lock = r => Known(r)'
    PROVE  Inv'
<1> USE DEF Inv, TypeOK
<1>1. ControlTypes' /\ Only(r) /\ UNCHANGED <<tables, lock, call>>
  BY DEF Goto, ControlTypes, Only
<1>2. \A q \in Request : HasLock(q)'
  BY <1>1 DEF HasLock, Flow, Only
<1>3. \A q \in Request : NewId(q)'
  BY <1>1 DEF NewId, Flow, Only, tables
<1> QED BY <1>1, <1>2, <1>3, TablesAlone

\* A transaction past its lock, and what is known of its request.
LEMMA AtStatement ==
    ASSUME Inv, NEW r \in Request, pc[r] \notin {"idle", "lock", "reply"}
    PROVE  /\ CallShape(call[r]) /\ call[r] \in Calls
           /\ call[r].op \in Locked => lock = r /\ Known(r)
           /\ seen[r] \in [old : Nat, from : WithdrawalId \cup {None}, limit : Nat]
           /\ StepFits(r) /\ HasLock(r) /\ NewId(r)
<1>1. StepFits(r) /\ HasLock(r) /\ NewId(r)
  BY DEF Inv, Flow
<1>2. call[r] \in Calls
  BY <1>1 DEF StepFits
<1> QED BY <1>1, <1>2, CallFacts DEF Inv, TypeOK, HasLock, HolderKnows

LEMMA ReadDepositStep ==
    ASSUME Inv, NEW r \in Request, ReadDeposit(r)
    PROVE  Inv'
<1>1. CASE call[r].id \notin Ids(deposits) /\ Reject(r)
  BY <1>1, RejectStep
<1>2. ASSUME NEW row \in deposits, row.id = call[r].id,
             seen' = [seen EXCEPT ![r].old = row.amount],
             Goto(r, IF call[r].op = "updateDeposit" /\ call[r].amount = None
                     THEN "write" ELSE "deposited")
      PROVE  Inv'
  <2> DEFINE n == IF call[r].op = "updateDeposit" /\ call[r].amount = None
                  THEN "write" ELSE "deposited"
             s == [seen[r] EXCEPT !.old = row.amount]
  <2>1. /\ pc[r] = "row" /\ call[r].op \in DepositChanges
        /\ CallShape(call[r]) /\ call[r] \in Calls /\ StepFits(r)
        /\ seen[r] \in [old : Nat, from : WithdrawalId \cup {None}, limit : Nat]
    BY AtStatement DEF ReadDeposit, DepositChanges
  <2>2. row.amount \in Nat
    BY AccountsAssumption DEF Inv, TypeOK, DepositRow
  <2>3. /\ s \in [old : Nat, from : WithdrawalId \cup {None}, limit : Nat]
        /\ s.old = row.amount
    BY <2>1, <2>2
  <2>4. seen' = [seen EXCEPT ![r] = s] /\ seen'[r] = s
    BY <1>2 DEF Inv, TypeOK
  <2>5. pc'[r] = n /\ call'[r] = call[r] /\ UNCHANGED tables
    BY <1>2 DEF Goto, Inv, TypeOK
  <2>6. StepFits(r)'
    BY <2>1, <2>5 DEF StepFits, DepositChanges, BalanceChecked, BillWrites, CallShape
  <2>7. Known(r)'
    BY <1>2, <2>1, <2>3, <2>4, <2>5
       DEF Known, KnowsDeposits, KnowsBalance, KnowsRoom, DepositChanges, BillWrites, tables
  <2>8. n \in Step \ {"idle", "lock", "reply"}
    BY DEF Step
  <2> HIDE DEF s, n
  <2> QED BY <1>2, <2>1, <2>3, <2>4, <2>6, <2>7, <2>8, ReadStep DEF n
<1> QED BY <1>1, <1>2 DEF ReadDeposit

LEMMA ReadOwnWithdrawalStep ==
    ASSUME Inv, NEW r \in Request, ReadOwnWithdrawal(r)
    PROVE  Inv'
<1>1. CASE call[r].id \notin Ids(withdrawals) /\ Reject(r)
  BY <1>1, RejectStep
<1>2. ASSUME Goto(r, IF call[r].op = "deleteWithdrawal" \/ call[r].amount = None
                     THEN "write" ELSE "deposited"),
             UNCHANGED seen
      PROVE  Inv'
  <2> DEFINE n == IF call[r].op = "deleteWithdrawal" \/ call[r].amount = None
                  THEN "write" ELSE "deposited"
  <2>1. /\ pc[r] = "row" /\ call[r].op \in {"updateWithdrawal", "deleteWithdrawal"}
        /\ CallShape(call[r]) /\ call[r] \in Calls /\ StepFits(r)
        /\ seen[r] \in [old : Nat, from : WithdrawalId \cup {None}, limit : Nat]
    BY AtStatement DEF ReadOwnWithdrawal
  <2>2. seen' = [seen EXCEPT ![r] = seen[r]]
    BY <1>2 DEF Inv, TypeOK
  <2>3. pc'[r] = n /\ call'[r] = call[r] /\ UNCHANGED tables
    BY <1>2 DEF Goto, Inv, TypeOK
  <2>4. StepFits(r)'
    BY <2>1, <2>3 DEF StepFits, BalanceChecked, DepositChanges, BillWrites, CallShape
  <2>5. Known(r)'
    BY <2>1, <2>3
       DEF Known, KnowsDeposits, KnowsBalance, KnowsRoom, DepositChanges, BillWrites, tables
  <2>6. n \in Step \ {"idle", "lock", "reply"}
    BY DEF Step
  <2> HIDE DEF n
  <2> QED BY <1>2, <2>1, <2>2, <2>4, <2>5, <2>6, ReadStep DEF n
<1> QED BY <1>1, <1>2 DEF ReadOwnWithdrawal

LEMMA ReadBillStep ==
    ASSUME Inv, NEW r \in Request, ReadBill(r)
    PROVE  Inv'
<1>1. CASE call[r].id \notin Ids(bills) /\ Reject(r)
  BY <1>1, RejectStep
<1>2. ASSUME NEW row \in bills, row.id = call[r].id,
             IF call[r].op = "updateBill"
             THEN seen' = [seen EXCEPT ![r].old = row.amount, ![r].from = row.withdrawalId]
             ELSE UNCHANGED seen,
             Goto(r, IF call[r].amount = None /\ call[r].withdrawalId = None
                     THEN "write" ELSE "withdrawal")
      PROVE  Inv'
  <2> DEFINE n == IF call[r].amount = None /\ call[r].withdrawalId = None
                  THEN "write" ELSE "withdrawal"
             s == IF call[r].op = "updateBill"
                  THEN [seen[r] EXCEPT !.old = row.amount, !.from = row.withdrawalId]
                  ELSE seen[r]
  <2>1. /\ pc[r] = "row" /\ call[r].op \in {"updateBill", "deleteBill"}
        /\ CallShape(call[r]) /\ call[r] \in Calls /\ StepFits(r)
        /\ seen[r] \in [old : Nat, from : WithdrawalId \cup {None}, limit : Nat]
    BY AtStatement DEF ReadBill
  <2>2. row.amount \in Nat /\ row.withdrawalId \in WithdrawalId
        /\ \A b \in bills : b.id = row.id => b = row
    BY AccountsAssumption DEF Inv, TypeOK, BillRow, UniqueIds
  <2>3. /\ s \in [old : Nat, from : WithdrawalId \cup {None}, limit : Nat]
        /\ call[r].op = "updateBill" => s.old = row.amount /\ s.from = row.withdrawalId
    BY <2>1, <2>2
  <2>4. seen' = [seen EXCEPT ![r] = s] /\ seen'[r] = s
    BY <1>2 DEF Inv, TypeOK
  <2>5. pc'[r] = n /\ call'[r] = call[r] /\ UNCHANGED tables
    BY <1>2 DEF Goto, Inv, TypeOK
  <2> HIDE DEF s
  <2>6. StepFits(r)'
    BY <2>1, <2>2, <2>3, <2>4, <2>5
       DEF StepFits, BalanceChecked, DepositChanges, BillWrites, CallShape
  <2>7. Known(r)'
    BY <1>2, <2>1, <2>2, <2>3, <2>4, <2>5
       DEF Known, KnowsDeposits, KnowsBalance, KnowsRoom, DepositChanges, BillWrites, tables
  <2>8. n \in Step \ {"idle", "lock", "reply"}
    BY DEF Step
  <2> HIDE DEF n
  <2> QED BY <1>2, <2>1, <2>3, <2>4, <2>6, <2>7, <2>8, ReadStep DEF n
<1> QED BY <1>1, <1>2 DEF ReadBill

LEMMA SumDepositsStep ==
    ASSUME Inv, NEW r \in Request, SumDeposits(r)
    PROVE  Inv'
<1> DEFINE s == [seen[r] EXCEPT !.limit = Total(deposits)]
<1>1. /\ pc[r] = "deposited" /\ call[r].op \in BalanceChecked
      /\ CallShape(call[r]) /\ call[r] \in Calls /\ StepFits(r)
      /\ call[r].op \in Locked => Known(r)
      /\ seen[r] \in [old : Nat, from : WithdrawalId \cup {None}, limit : Nat]
  BY AtStatement DEF SumDeposits, StepFits
<1>2. Total(deposits) \in Nat
  BY SubtableTotal DEF Inv, FiniteTables
<1>3. s \in [old : Nat, from : WithdrawalId \cup {None}, limit : Nat]
      /\ s.limit = Total(deposits) /\ s.old = seen[r].old
  BY <1>1, <1>2
<1>4. seen' = [seen EXCEPT ![r] = s] /\ seen'[r] = s
  BY DEF SumDeposits, Inv, TypeOK
<1>5. Goto(r, "withdrawn") /\ pc'[r] = "withdrawn" /\ call'[r] = call[r] /\ UNCHANGED tables
  BY DEF SumDeposits, Goto, Inv, TypeOK
<1> HIDE DEF s
<1>6. StepFits(r)'
  BY <1>1, <1>5 DEF StepFits
<1>7. Known(r)'
  BY <1>1, <1>2, <1>3, <1>4, <1>5
     DEF Known, KnowsDeposits, KnowsBalance, KnowsRoom, DepositChanges, BillWrites, tables, BalanceChecked, Locked
<1> QED BY <1>1, <1>3, <1>4, <1>5, <1>6, <1>7, ReadStep DEF Step

LEMMA SumWithdrawalsStep ==
    ASSUME Inv, NEW r \in Request, SumWithdrawals(r)
    PROVE  Inv'
<1> DEFINE enough == IF call[r].op \in {"updateDeposit", "deleteDeposit"}
                     THEN DepositsCoverWithdrawals(r) ELSE BalanceAvailable(r)
           n == IF call[r].op = "updateWithdrawal" THEN "spent" ELSE "write"
<1>1. CASE ~enough /\ Reject(r)
  BY <1>1, RejectStep
<1>2. CASE enough /\ Goto(r, n) /\ UNCHANGED seen
  <2>1. /\ pc[r] = "withdrawn" /\ call[r].op \in BalanceChecked
        /\ CallShape(call[r]) /\ call[r] \in Calls /\ StepFits(r)
        /\ call[r].op # "deleteDeposit" => call[r].amount # None
        /\ call[r].op \in Locked => Known(r)
        /\ seen[r] \in [old : Nat, from : WithdrawalId \cup {None}, limit : Nat]
    BY AtStatement DEF SumWithdrawals, StepFits
  <2>2. /\ Total(deposits) \in Nat /\ Total(withdrawals) \in Nat
        /\ Total(Delete(withdrawals, call[r].id)) \in Nat
    <3>1. Delete(withdrawals, call[r].id) \subseteq withdrawals
      BY DEF Delete
    <3> QED BY <3>1, SubtableTotal DEF Inv, FiniteTables
  <2>3. seen' = [seen EXCEPT ![r] = seen[r]] /\ seen'[r] = seen[r]
    BY <1>2 DEF Inv, TypeOK
  <2>4. pc'[r] = n /\ call'[r] = call[r] /\ UNCHANGED tables
    BY <1>2 DEF Goto, Inv, TypeOK
  <2>5. call[r].op # "deleteDeposit" => call[r].amount \in Nat
    BY <2>1, AccountsAssumption DEF CallShape, BalanceChecked, DepositChanges, Creates
  <2>6. StepFits(r)'
    BY <2>1, <2>4 DEF StepFits, BalanceChecked, DepositChanges, BillWrites
  <2>7. Known(r)'
    <3>1. Known(r) /\ seen[r].limit <= Total(deposits)
          /\ seen[r].limit \in Nat /\ seen[r].old \in Nat
      BY <2>1 DEF Known, KnowsDeposits, BalanceChecked, DepositChanges, Locked
    <3>2. KnowsDeposits(r)'
      BY <1>2, <2>1, <2>2, <2>3, <2>4, <2>5, <3>1
         DEF Known, KnowsDeposits, DepositChanges, DepositsCoverWithdrawals, tables
    <3>3. KnowsBalance(r)'
      BY <1>2, <2>1, <2>2, <2>4, <2>5, <3>1
         DEF KnowsBalance, BalanceChecked, DepositChanges, BalanceAvailable, tables
    <3>4. KnowsRoom(r)'
      BY <2>1, <2>4 DEF KnowsRoom, BillWrites, BalanceChecked, DepositChanges
    <3> QED BY <3>2, <3>3, <3>4 DEF Known
  <2>8. n \in Step \ {"idle", "lock", "reply"}
    BY DEF Step
  <2> HIDE DEF n, enough
  <2> QED BY <1>2, <2>1, <2>3, <2>6, <2>7, <2>8, ReadStep
<1> QED BY <1>1, <1>2 DEF SumWithdrawals

LEMMA ReadTargetWithdrawalStep ==
    ASSUME Inv, NEW r \in Request, ReadTargetWithdrawal(r)
    PROVE  Inv'
<1>1. CASE TargetOf(r) \notin Ids(withdrawals) /\ Reject(r)
  BY <1>1, RejectStep
<1>2. ASSUME NEW row \in withdrawals, row.id = TargetOf(r),
             seen' = [seen EXCEPT ![r].limit = row.amount],
             Goto(r, "spent")
      PROVE  Inv'
  <2> DEFINE s == [seen[r] EXCEPT !.limit = row.amount]
  <2>1. /\ pc[r] = "withdrawal" /\ call[r].op \in BillWrites
        /\ CallShape(call[r]) /\ call[r] \in Calls /\ StepFits(r)
        /\ call[r].op \in Locked => Known(r)
        /\ seen[r] \in [old : Nat, from : WithdrawalId \cup {None}, limit : Nat]
    BY AtStatement DEF ReadTargetWithdrawal, StepFits
  <2>2. row.amount \in Nat /\ \A w \in withdrawals : w.id = row.id => w = row
    BY AccountsAssumption DEF Inv, TypeOK, WithdrawalRow, UniqueIds
  <2>3. /\ s \in [old : Nat, from : WithdrawalId \cup {None}, limit : Nat]
        /\ s.limit = row.amount /\ s.old = seen[r].old /\ s.from = seen[r].from
    BY <2>1, <2>2
  <2>4. seen' = [seen EXCEPT ![r] = s] /\ seen'[r] = s
    BY <1>2 DEF Inv, TypeOK
  <2>5. pc'[r] = "spent" /\ call'[r] = call[r] /\ UNCHANGED tables
    BY <1>2 DEF Goto, Inv, TypeOK
  <2> HIDE DEF s
  <2>6. StepFits(r)'
    BY <2>1, <2>3, <2>4, <2>5 DEF StepFits, BillWrites
  <2>7. Known(r)'
    BY <1>2, <2>1, <2>2, <2>3, <2>4, <2>5
       DEF Known, KnowsDeposits, KnowsBalance, KnowsRoom, DepositChanges, BillWrites, tables, Locked, TargetOf
  <2> QED BY <1>2, <2>1, <2>3, <2>4, <2>6, <2>7, ReadStep DEF Step
<1> QED BY <1>1, <1>2 DEF ReadTargetWithdrawal

LEMMA BillTotals ==
    ASSUME Inv, NEW w, NEW i
    PROVE  /\ Finite(BillsOf(w)) /\ Total(BillsOf(w)) \in Nat
           /\ Finite(Delete(BillsOf(w), i)) /\ Total(Delete(BillsOf(w), i)) \in Nat
           /\ Total(Delete(BillsOf(w), i)) <= Total(BillsOf(w))
<1>1. BillsOf(w) \subseteq bills /\ Delete(BillsOf(w), i) \subseteq BillsOf(w)
  BY DEF BillsOf, Delete
<1>2. Finite(BillsOf(w))
  BY <1>1, SubtableTotal DEF Inv, FiniteTables
<1> QED BY <1>1, <1>2, SubtableTotal

LEMMA SumBillsStep ==
    ASSUME Inv, NEW r \in Request, SumBills(r)
    PROVE  Inv'
<1> DEFINE fits == IF call[r].op = "updateWithdrawal"
                   THEN WithdrawalCoversBills(r) ELSE WithdrawalHasRoom(r)
<1>1. CASE ~fits /\ Reject(r)
  BY <1>1, RejectStep
<1>2. CASE fits /\ Goto(r, "write") /\ UNCHANGED seen
  <2>1. /\ pc[r] = "spent" /\ call[r].op \in BillWrites \cup {"updateWithdrawal"}
        /\ call[r].op = "updateWithdrawal" => call[r].amount # None
        /\ CallShape(call[r]) /\ call[r] \in Calls /\ StepFits(r)
        /\ call[r].op \in Locked => Known(r)
        /\ seen[r] \in [old : Nat, from : WithdrawalId \cup {None}, limit : Nat]
    BY AtStatement DEF SumBills, StepFits
  <2>2. seen' = [seen EXCEPT ![r] = seen[r]] /\ seen'[r] = seen[r]
    BY <1>2 DEF Inv, TypeOK
  <2>3. pc'[r] = "write" /\ call'[r] = call[r] /\ UNCHANGED tables
    BY <1>2 DEF Goto, Inv, TypeOK
  <2>4. Known(r) /\ seen[r].limit \in Nat /\ seen[r].old \in Nat
    BY <2>1 DEF BillWrites, Locked
  <2>5. /\ BillAmount(r) \in Nat
        /\ call[r].op = "createBill" => BillAmount(r) = call[r].amount
    <3>1. None \notin AmountValue /\ AmountValue \subseteq Nat
      BY AccountsAssumption
    <3> QED BY <2>1, <2>4, <3>1 DEF BillAmount, CallShape, BillWrites, Creates
  <2>6. StepFits(r)'
    BY <2>1, <2>2, <2>3 DEF StepFits, BillWrites
  <2>7. Known(r)'
    <3>1. KnowsDeposits(r)'
      BY <2>1, <2>3 DEF KnowsDeposits, DepositChanges, BillWrites
    <3>2. KnowsBalance(r)'
      BY <1>2, <2>1, <2>3, <2>4
         DEF Known, KnowsBalance, BillWrites, WithdrawalCoversBills, BillsOf, tables
    <3>3. ASSUME call[r].op \in BillWrites, NEW w \in withdrawals, w.id = TargetOf(r)
          PROVE  /\ call[r].op = "createBill" =>
                      Total(BillsOf(w.id)) + call[r].amount <= w.amount
                 /\ call[r].op = "updateBill" =>
                      Total(Delete(BillsOf(w.id), call[r].id)) + BillAmount(r) <= w.amount
      <4>1. w.amount = seen[r].limit
        BY <2>1, <2>4, <3>3 DEF Known, KnowsRoom
      <4>2. Total(BillsOf(w.id)) \in Nat /\ Total(Delete(BillsOf(w.id), call[r].id)) \in Nat
        BY BillTotals
      <4>3. \A l, t, m \in Nat : l - t >= m => t + m <= l
        OBVIOUS
      <4>4. CASE call[r].op = "createBill"
        <5>1. WithdrawalHasRoom(r)
          BY <1>2, <4>4
        <5>2. seen[r].limit - Total(BillsOf(w.id)) >= BillAmount(r)
          BY <3>3, <4>4, <5>1 DEF WithdrawalHasRoom
        <5> QED BY <2>4, <2>5, <4>1, <4>2, <4>3, <4>4, <5>2
      <4>5. CASE call[r].op = "updateBill"
        <5>1. WithdrawalHasRoom(r)
          BY <1>2, <4>5
        <5>2. seen[r].limit - Total(Delete(BillsOf(w.id), call[r].id)) >= BillAmount(r)
          BY <3>3, <4>5, <5>1 DEF WithdrawalHasRoom
        <5> QED BY <2>4, <2>5, <4>1, <4>2, <4>3, <4>5, <5>2
      <4> QED BY <3>3, <4>4, <4>5 DEF BillWrites
    <3>4. KnowsRoom(r)'
      <4>1. TargetOf(r)' = TargetOf(r) /\ BillAmount(r)' = BillAmount(r)
            /\ \A w : BillsOf(w)' = BillsOf(w)
        BY <2>2, <2>3 DEF TargetOf, BillAmount, BillsOf, tables
      <4>2. call[r].op = "updateBill" =>
              \A b \in bills : b.id = call[r].id =>
                b.amount = seen[r].old /\ b.withdrawalId = seen[r].from
        BY <2>1, <2>4 DEF Known, KnowsRoom
      <4> QED BY <2>2, <2>3, <3>3, <4>1, <4>2 DEF KnowsRoom, BillWrites, tables
    <3> QED BY <3>1, <3>2, <3>4 DEF Known
  <2> HIDE DEF fits
  <2> QED BY <1>2, <2>1, <2>2, <2>6, <2>7, ReadStep DEF Step
<1> QED BY <1>1, <1>2 DEF SumBills

LEMMA ReadReplyStep ==
    ASSUME Inv, NEW r \in Request, ReadReply(r) \/ Expire(r)
    PROVE  Inv'
BY RejectStep DEF ReadReply, Expire

-----------------------------------------------------------------------------
(* The writes *)

\* A write that keeps the books, made by the holder or harmless to it.
LEMMA WriteStep ==
    ASSUME Inv, NEW r \in Request, pc[r] # "idle",
           ControlTypes', Only(r), pc'[r] \in {"idle", "reply"},
           \A q \in Request : StepFits(q)' /\ HasLock(q)',
           lock' \in Request => lock' = lock /\ lock # r,
           Tables', Keys', FiniteTables', Books',
           LET new == IF call[r].op \in Creates THEN {call[r].id} ELSE {}
           IN  /\ Ids(deposits') \subseteq Ids(deposits) \cup new
               /\ Ids(withdrawals') \subseteq Ids(withdrawals) \cup new
               /\ Ids(bills') \subseteq Ids(bills) \cup new,
           call'[r].op \notin Creates,
           \/ lock = r
           \/ /\ deposits \subseteq deposits'
              /\ withdrawals' \subseteq withdrawals
              /\ bills' \subseteq bills
    PROVE  Inv'
<1>1. TypeOK'
  BY DEF TypeOK, Tables, Keys, ControlTypes
<1>2. ASSUME NEW q \in Request
      PROVE  NewId(q)'
  <2>1. NewId(q) /\ NewId(r) /\ \A p \in Request : NewId(p)
    BY DEF Inv, Flow
  <2>2. CASE q = r
    BY <2>2 DEF NewId, Creates
  <2>3. CASE q # r
    BY <2>1, <2>3 DEF NewId, Only, Creates
  <2> QED BY <2>2, <2>3
<1>3. HolderKnows'
  <2>1. ASSUME NEW q \in Request, lock' = q
        PROVE  Known(q)'
    <3>1. lock = q /\ q # r /\ Known(q)
      BY <2>1 DEF Inv, HolderKnows
    <3> QED BY <1>1, <3>1, KnownStable DEF Only, FiniteTables
  <2> QED BY <2>1 DEF HolderKnows
<1> QED BY <1>1, <1>2, <1>3 DEF Inv, Flow

\* Nothing about a table that a step leaves alone changes.
LEMMA RowTypes ==
    ASSUME Inv
    PROVE  /\ Tables /\ Keys /\ FiniteTables /\ Books
           /\ \A row \in deposits \cup withdrawals \cup bills : row.amount \in Nat
           /\ \A row \in deposits : row \in DepositRow
           /\ \A row \in withdrawals : row \in WithdrawalRow
           /\ \A row \in bills : row \in BillRow
           /\ Total(deposits) \in Nat /\ Total(withdrawals) \in Nat
           /\ Total(withdrawals) <= Total(deposits)
BY SubtableTotal, AccountsAssumption
   DEF Inv, TypeOK, Tables, Keys, DepositRow, WithdrawalRow, BillRow, FiniteTables, Books,
       DepositsCoverAllWithdrawals

LEMMA CreateDepositStep ==
    ASSUME Inv, NEW r \in Request, CreateDeposit(r)
    PROVE  Inv'
<1>1. /\ ControlTypes' /\ Only(r) /\ pc'[r] = "idle"
      /\ \A q \in Request : StepFits(q)' /\ HasLock(q)'
      /\ lock' \in Request => lock' = lock /\ lock # r
      /\ call'[r].op \notin Creates
  BY FinishKeeps DEF CreateDeposit, Finish, Creates, NoCall, Inv, TypeOK
<1>2. /\ pc[r] = "write" /\ call[r].op = "createDeposit" /\ CallShape(call[r])
      /\ NewId(r)
  BY AtStatement DEF CreateDeposit, Writing, Locked
<1> DEFINE x == [id |-> call[r].id, amount |-> call[r].amount]
<1>3. /\ x \in DepositRow /\ x.amount \in Nat /\ x.id \notin Ids(deposits)
      /\ x.id = call[r].id /\ call[r].op \in Creates
  BY <1>2, AccountsAssumption DEF CallShape, DepositRow, Creates, NewId
<1> HIDE DEF x
<1>4. deposits' = deposits \cup {x} /\ UNCHANGED <<withdrawals, bills>>
  BY DEF CreateDeposit, x
<1>5. Finite(deposits') /\ Total(deposits') = Total(deposits) + x.amount
  BY <1>3, <1>4, InsertTotal DEF Inv, FiniteTables
<1>6. Tables' /\ Keys'
  BY <1>3, <1>4, RowTypes DEF Tables, Keys, UniqueIds, Ids
<1>7. FiniteTables' /\ Books'
  BY <1>3, <1>4, <1>5, RowTypes
     DEF FiniteTables, Books, DepositsCoverAllWithdrawals, BillsFitTheirWithdrawal, BillsOf
<1>8. Ids(deposits') \subseteq Ids(deposits) \cup {call[r].id}
  BY <1>3, <1>4 DEF Ids
<1> QED BY <1>1, <1>2, <1>3, <1>4, <1>6, <1>7, <1>8, WriteStep

LEMMA UpdateDepositStep ==
    ASSUME Inv, NEW r \in Request, UpdateDeposit(r)
    PROVE  Inv'
<1>1. /\ ControlTypes' /\ Only(r) /\ pc'[r] = "idle"
      /\ \A q \in Request : StepFits(q)' /\ HasLock(q)'
      /\ lock' \in Request => lock' = lock /\ lock # r
      /\ call'[r].op \notin Creates
  BY FinishKeeps DEF UpdateDeposit, Finish, Creates, NoCall, Inv, TypeOK
<1>2. /\ pc[r] = "write" /\ call[r].op = "updateDeposit" /\ CallShape(call[r])
      /\ lock = r /\ Known(r)
  BY AtStatement DEF UpdateDeposit, Writing, Locked
<1>3. CASE call[r].amount = None
  <2>1. UNCHANGED tables
    BY <1>2, <1>3 DEF UpdateDeposit, tables
  <2>2. Tables' /\ Keys' /\ FiniteTables' /\ Books'
    BY <2>1, RowTypes
       DEF tables, Tables, Keys, FiniteTables, Books, DepositsCoverAllWithdrawals,
           BillsFitTheirWithdrawal, BillsOf
  <2> QED BY <1>1, <1>2, <2>1, <2>2, WriteStep DEF tables
<1>4. CASE call[r].amount # None
  <2>1. PICK x \in deposits : x.id = call[r].id /\ x.amount = seen[r].old
    BY <1>2 DEF Known, KnowsDeposits, DepositChanges
  <2> DEFINE a == call[r].amount
  <2>2. a \in AmountValue /\ a \in Nat /\ x \in DepositRow /\ x.amount \in Nat
    BY <1>2, <1>4, RowTypes, AccountsAssumption DEF CallShape
  <2>3. deposits' = SetAmount(deposits, x.id, a) /\ UNCHANGED <<withdrawals, bills>>
    BY <1>4, <2>1 DEF UpdateDeposit
  <2>4. Total(withdrawals) <= Total(deposits) - x.amount + a
    BY <1>2, <1>4, <2>1 DEF Known, KnowsDeposits
  <2> HIDE DEF a
  <2>5. PICK z \in DepositRow :
          z.id = x.id /\ z.amount = a /\ deposits' = Delete(deposits, x.id) \cup {z}
    <3>1. x = [id |-> x.id, amount |-> x.amount] /\ UniqueIds(deposits)
      BY <2>2, RowTypes DEF Keys, DepositRow
    <3>2. deposits' = Delete(deposits, x.id) \cup {[id |-> x.id, amount |-> a]}
      BY <2>3, <3>1, SetAmountRow
    <3> QED BY <2>2, <3>2 DEF DepositRow
  <2>6. Finite(deposits') /\ Total(deposits') = Total(deposits) - x.amount + a
    BY <2>2, <2>5, RowTypes, ReplaceTotal DEF Keys, FiniteTables
  <2>7. Tables' /\ Keys' /\ Ids(deposits') \subseteq Ids(deposits)
    <3>1. UniqueIds(deposits') /\ Ids(deposits') = Ids(deposits)
      BY <2>5, RowTypes, ReplaceIds DEF Keys
    <3>2. deposits' \subseteq DepositRow
      BY <2>5, RowTypes DEF Tables, Delete
    <3> QED BY <2>3, <3>1, <3>2, RowTypes DEF Tables, Keys
  <2>8. FiniteTables' /\ Books'
    BY <2>3, <2>4, <2>6, RowTypes
       DEF FiniteTables, Books, DepositsCoverAllWithdrawals, BillsFitTheirWithdrawal, BillsOf
  <2> QED BY <1>1, <1>2, <2>3, <2>7, <2>8, WriteStep
<1> QED BY <1>3, <1>4

LEMMA DeleteDepositStep ==
    ASSUME Inv, NEW r \in Request, DeleteDeposit(r)
    PROVE  Inv'
<1>1. /\ ControlTypes' /\ Only(r) /\ pc'[r] = "idle"
      /\ \A q \in Request : StepFits(q)' /\ HasLock(q)'
      /\ lock' \in Request => lock' = lock /\ lock # r
      /\ call'[r].op \notin Creates
  BY FinishKeeps DEF DeleteDeposit, Finish, Creates, NoCall, Inv, TypeOK
<1>2. /\ pc[r] = "write" /\ call[r].op = "deleteDeposit" /\ CallShape(call[r])
      /\ lock = r /\ Known(r)
  BY AtStatement DEF DeleteDeposit, Writing, Locked
<1>3. PICK x \in deposits : x.id = call[r].id /\ x.amount = seen[r].old
  BY <1>2 DEF Known, KnowsDeposits, DepositChanges
<1>4. deposits' = Delete(deposits, x.id) /\ UNCHANGED <<withdrawals, bills>>
  BY <1>3 DEF DeleteDeposit
<1>5. /\ Finite(deposits') /\ Total(deposits') \in Nat /\ x.amount \in Nat
      /\ Total(deposits) = Total(deposits') + x.amount
  BY <1>4, RowTypes, DeleteTotal DEF Keys, FiniteTables
<1>6. Tables' /\ Keys' /\ Ids(deposits') \subseteq Ids(deposits)
  BY <1>4, RowTypes DEF Tables, Keys, UniqueIds, Delete, Ids
<1>7. Total(withdrawals) <= Total(deposits) - x.amount
  BY <1>2, <1>3 DEF Known, KnowsDeposits
<1>8. FiniteTables' /\ Books'
  BY <1>4, <1>5, <1>7, RowTypes
     DEF FiniteTables, Books, DepositsCoverAllWithdrawals, BillsFitTheirWithdrawal, BillsOf
<1> QED BY <1>1, <1>2, <1>4, <1>6, <1>8, WriteStep

\* Bills of a withdrawal that has just been recorded: there are none.
LEMMA NoBillsYet ==
    ASSUME Inv, NEW w, w \notin Ids(withdrawals)
    PROVE  BillsOf(w) = {} /\ Total(BillsOf(w)) = 0
<1>1. BillsOf(w) = {}
  BY RowTypes DEF BillsOf, Books, BillsFitTheirWithdrawal
<1> QED BY <1>1, EmptyTotal

LEMMA CreateWithdrawalStep ==
    ASSUME Inv, NEW r \in Request, CreateWithdrawal(r)
    PROVE  Inv'
<1>1. /\ ControlTypes' /\ Only(r) /\ pc'[r] = "idle"
      /\ \A q \in Request : StepFits(q)' /\ HasLock(q)'
      /\ lock' \in Request => lock' = lock /\ lock # r
      /\ call'[r].op \notin Creates
  BY FinishKeeps DEF CreateWithdrawal, Finish, Creates, NoCall, Inv, TypeOK
<1>2. /\ pc[r] = "write" /\ call[r].op = "createWithdrawal" /\ CallShape(call[r])
      /\ lock = r /\ Known(r)
  BY AtStatement DEF CreateWithdrawal, Writing, Locked
<1> DEFINE x == [id |-> call[r].id, amount |-> call[r].amount]
<1>3. /\ x \in WithdrawalRow /\ x.amount \in Nat /\ x.id = call[r].id
      /\ x.amount = call[r].amount /\ call[r].op \in Creates
  BY <1>2, AccountsAssumption DEF CallShape, WithdrawalRow, Creates
<1>4. x.id \notin Ids(withdrawals)
  BY <1>2, <1>3 DEF Inv, Flow, NewId
<1> HIDE DEF x
<1>5. withdrawals' = withdrawals \cup {x} /\ UNCHANGED <<deposits, bills>>
  BY DEF CreateWithdrawal, x
<1>6. Finite(withdrawals') /\ Total(withdrawals') = Total(withdrawals) + x.amount
  BY <1>3, <1>4, <1>5, InsertTotal DEF Inv, FiniteTables
<1>7. Tables' /\ Keys'
  BY <1>3, <1>4, <1>5, RowTypes DEF Tables, Keys, UniqueIds, Ids
<1>8. Total(withdrawals) + x.amount <= Total(deposits)
  BY <1>2, <1>3 DEF Known, KnowsBalance
<1>9. BillsFitTheirWithdrawal'
  <2>1. \A w : BillsOf(w)' = BillsOf(w)
    BY <1>5 DEF BillsOf
  <2>2. Total(BillsOf(x.id)) = 0
    BY <1>4, NoBillsYet
  <2> QED BY <1>3, <1>5, <2>1, <2>2, RowTypes DEF Books, BillsFitTheirWithdrawal, Ids
<1>10. FiniteTables' /\ Books'
  BY <1>5, <1>6, <1>8, <1>9, RowTypes DEF FiniteTables, Books, DepositsCoverAllWithdrawals
<1>11. Ids(withdrawals') \subseteq Ids(withdrawals) \cup {call[r].id}
  BY <1>3, <1>5 DEF Ids
<1> QED BY <1>1, <1>2, <1>3, <1>5, <1>7, <1>10, <1>11, WriteStep

LEMMA UpdateWithdrawalStep ==
    ASSUME Inv, NEW r \in Request, UpdateWithdrawal(r)
    PROVE  Inv'
<1>1. CASE call[r].id \notin Ids(withdrawals) /\ Reject(r)
  BY <1>1, RejectStep
<1>2. ASSUME call[r].id \in Ids(withdrawals),
             withdrawals' = IF call[r].amount = None THEN withdrawals
                            ELSE SetAmount(withdrawals, call[r].id, call[r].amount),
             pc' = [pc EXCEPT ![r] = "reply"], lock' = None,
             seen' = [seen EXCEPT ![r] = NothingSeen],
             UNCHANGED <<deposits, bills, call>>
      PROVE  Inv'
  <2>1. /\ pc[r] = "write" /\ call[r].op = "updateWithdrawal" /\ CallShape(call[r])
        /\ lock = r /\ Known(r) /\ call[r] \in Calls
    BY AtStatement DEF UpdateWithdrawal, Writing, Locked
  <2>2. /\ ControlTypes' /\ Only(r) /\ pc'[r] = "reply" /\ call' = call
        /\ lock' \notin Request
    BY <1>2, AccountsAssumption DEF ControlTypes, Only, Inv, TypeOK, Step, NothingSeen
  <2>3. ASSUME NEW q \in Request
        PROVE  StepFits(q)' /\ HasLock(q)'
    <3>1. CASE q = r
      BY <2>1, <2>2, <3>1 DEF StepFits, HasLock
    <3>2. CASE q # r
      <4>1. StepFits(q) /\ HasLock(q)
        BY DEF Inv, Flow
      <4>2. lock # q
        BY <2>1, <3>2
      <4> QED BY <2>2, <3>2, <4>1, <4>2 DEF StepFits, HasLock, Only
    <3> QED BY <3>1, <3>2
  <2>4. call'[r].op \notin Creates
    BY <2>1, <2>2 DEF Creates
  <2>5. CASE call[r].amount = None
    <3>1. UNCHANGED tables
      BY <1>2, <2>5 DEF tables
    <3>2. Tables' /\ Keys' /\ FiniteTables' /\ Books'
      BY <3>1, RowTypes
         DEF tables, Tables, Keys, FiniteTables, Books, DepositsCoverAllWithdrawals,
             BillsFitTheirWithdrawal, BillsOf
    <3> QED BY <2>1, <2>2, <2>3, <2>4, <3>1, <3>2, WriteStep DEF tables
  <2>6. CASE call[r].amount # None
    <3> DEFINE a == call[r].amount
    <3>1. PICK x \in withdrawals : x.id = call[r].id
      BY <1>2 DEF Ids
    <3>2. a \in AmountValue /\ a \in Nat /\ x \in WithdrawalRow /\ x.amount \in Nat
      BY <2>1, <2>6, RowTypes, AccountsAssumption DEF CallShape
    <3>3. withdrawals' = SetAmount(withdrawals, x.id, a) /\ UNCHANGED <<deposits, bills>>
      BY <1>2, <2>6, <3>1
    <3>4. /\ Total(Delete(withdrawals, x.id)) + a <= Total(deposits)
          /\ Total(BillsOf(x.id)) <= a
      BY <2>1, <2>6, <3>1 DEF Known, KnowsBalance
    <3> HIDE DEF a
    <3>5. PICK z \in WithdrawalRow :
            z.id = x.id /\ z.amount = a /\ withdrawals' = Delete(withdrawals, x.id) \cup {z}
      <4>1. x = [id |-> x.id, amount |-> x.amount] /\ UniqueIds(withdrawals)
        BY <3>2, RowTypes DEF Keys, WithdrawalRow
      <4>2. withdrawals' = Delete(withdrawals, x.id) \cup {[id |-> x.id, amount |-> a]}
        BY <3>3, <4>1, SetAmountRow
      <4> QED BY <3>2, <4>2 DEF WithdrawalRow
    <3>6. Finite(withdrawals') /\ Total(withdrawals') = Total(Delete(withdrawals, x.id)) + a
      BY <3>2, <3>5, RowTypes, ReplaceTotal DEF Keys, FiniteTables
    <3>7. UniqueIds(withdrawals') /\ Ids(withdrawals') = Ids(withdrawals)
      BY <3>5, RowTypes, ReplaceIds DEF Keys
    <3>8. withdrawals' \subseteq WithdrawalRow
      BY <3>5, RowTypes DEF Tables, Delete
    <3>9. BillsFitTheirWithdrawal'
      <4>1. \A w : BillsOf(w)' = BillsOf(w)
        BY <3>3 DEF BillsOf
      <4> QED BY <3>3, <3>4, <3>5, <3>7, <4>1, RowTypes
              DEF Books, BillsFitTheirWithdrawal, Delete
    <3>10. Tables' /\ Keys' /\ FiniteTables' /\ Books'
      BY <3>3, <3>4, <3>6, <3>7, <3>8, <3>9, RowTypes
         DEF Tables, Keys, FiniteTables, Books, DepositsCoverAllWithdrawals
    <3> QED BY <2>1, <2>2, <2>3, <2>4, <3>3, <3>7, <3>10, WriteStep
  <2> QED BY <2>5, <2>6
<1> QED BY <1>1, <1>2 DEF UpdateWithdrawal

LEMMA DeleteWithdrawalStep ==
    ASSUME Inv, NEW r \in Request, DeleteWithdrawal(r)
    PROVE  Inv'
<1>1. /\ ControlTypes' /\ Only(r) /\ pc'[r] = "idle"
      /\ \A q \in Request : StepFits(q)' /\ HasLock(q)'
      /\ lock' \in Request => lock' = lock /\ lock # r
      /\ call'[r].op \notin Creates
  BY FinishKeeps DEF DeleteWithdrawal, Finish, Creates, NoCall, Inv, TypeOK
<1>2. /\ pc[r] = "write" /\ call[r].op = "deleteWithdrawal" /\ CallShape(call[r])
      /\ NewId(r)
  BY AtStatement DEF DeleteWithdrawal, Writing, Locked
<1> DEFINE w == call[r].id
<1>3. /\ withdrawals' = Delete(withdrawals, w) /\ bills' = bills \ BillsOf(w)
      /\ UNCHANGED deposits
  BY DEF DeleteWithdrawal
<1> HIDE DEF w
<1>4. withdrawals' \subseteq withdrawals /\ bills' \subseteq bills
  BY <1>3 DEF Delete
<1>5. /\ Finite(withdrawals') /\ Finite(bills') /\ Total(withdrawals') \in Nat
      /\ Total(withdrawals') <= Total(withdrawals)
  BY <1>4, RowTypes, SubtableTotal DEF FiniteTables
<1>6. Tables' /\ Keys'
  BY <1>3, <1>4, RowTypes DEF Tables, Keys, UniqueIds
<1>7. BillsFitTheirWithdrawal'
  <2>1. ASSUME NEW v \in withdrawals'
        PROVE  Total(BillsOf(v.id))' <= v.amount
    <3>1. BillsOf(v.id)' \subseteq BillsOf(v.id)
      BY <1>4 DEF BillsOf
    <3>2. Finite(BillsOf(v.id)) /\ Total(BillsOf(v.id)) <= v.amount /\ v.amount \in Nat
      BY <1>4, <2>1, RowTypes, BillTotals DEF Books, BillsFitTheirWithdrawal
    <3>3. /\ Total(BillsOf(v.id)) \in Nat /\ Total(BillsOf(v.id))' \in Nat
          /\ Total(BillsOf(v.id))' <= Total(BillsOf(v.id))
      BY <3>1, <3>2, SubtableTotal
    <3> QED BY <3>2, <3>3
  <2>2. \A b \in bills' : b.withdrawalId \in Ids(withdrawals')
    BY <1>3, RowTypes DEF Books, BillsFitTheirWithdrawal, BillsOf, Ids, Delete
  <2> QED BY <2>1, <2>2 DEF BillsFitTheirWithdrawal
<1>8. FiniteTables' /\ Books'
  BY <1>3, <1>5, <1>7, RowTypes DEF FiniteTables, Books, DepositsCoverAllWithdrawals
<1>9. Ids(withdrawals') \subseteq Ids(withdrawals) /\ Ids(bills') \subseteq Ids(bills)
  BY <1>4 DEF Ids
<1> QED BY <1>1, <1>2, <1>3, <1>4, <1>6, <1>8, <1>9, WriteStep

LEMMA CreateBillStep ==
    ASSUME Inv, NEW r \in Request, CreateBill(r)
    PROVE  Inv'
<1>1. CASE TargetOf(r) \notin Ids(withdrawals) /\ Reject(r)
  BY <1>1, RejectStep
<1>2. ASSUME TargetOf(r) \in Ids(withdrawals),
             bills' = bills \cup {[id |-> call[r].id, withdrawalId |-> TargetOf(r),
                                  amount |-> call[r].amount]},
             Finish(r), UNCHANGED <<deposits, withdrawals>>
      PROVE  Inv'
  <2>1. /\ ControlTypes' /\ Only(r) /\ pc'[r] = "idle"
        /\ \A q \in Request : StepFits(q)' /\ HasLock(q)'
        /\ lock' \in Request => lock' = lock /\ lock # r
        /\ call'[r].op \notin Creates
    BY <1>2, FinishKeeps DEF Finish, Creates, NoCall, Inv, TypeOK
  <2>2. /\ pc[r] = "write" /\ call[r].op = "createBill" /\ CallShape(call[r])
        /\ lock = r /\ Known(r) /\ NewId(r)
    BY AtStatement DEF CreateBill, Writing, Locked
  <2> DEFINE x == [id |-> call[r].id, withdrawalId |-> TargetOf(r),
                   amount |-> call[r].amount]
  <2>3. TargetOf(r) \in WithdrawalId
    BY <1>2, RowTypes DEF Ids, WithdrawalRow
  <2>4. /\ x \in BillRow /\ x.amount \in Nat /\ x.id = call[r].id
        /\ x.amount = call[r].amount /\ x.withdrawalId = TargetOf(r)
        /\ call[r].op \in Creates /\ x.id \notin Ids(bills)
    BY <2>2, <2>3, AccountsAssumption DEF CallShape, BillRow, Creates, NewId
  <2> HIDE DEF x
  <2>5. bills' = bills \cup {x}
    BY <1>2 DEF x
  <2>6. Finite(bills')
    BY <2>4, <2>5, RowTypes, InsertTotal DEF FiniteTables
  <2>7. Tables' /\ Keys'
    BY <1>2, <2>4, <2>5, RowTypes DEF Tables, Keys, UniqueIds, Ids
  <2>8. BillsFitTheirWithdrawal'
    <3>1. ASSUME NEW w \in withdrawals
          PROVE  Total(BillsOf(w.id))' <= w.amount
      <4>1. CASE w.id # TargetOf(r)
        <5>1. BillsOf(w.id)' = BillsOf(w.id)
          BY <2>4, <2>5, <4>1 DEF BillsOf
        <5> QED BY <5>1, RowTypes DEF Books, BillsFitTheirWithdrawal
      <4>2. CASE w.id = TargetOf(r)
        <5>1. BillsOf(w.id)' = BillsOf(w.id) \cup {x}
          BY <2>4, <2>5, <4>2 DEF BillsOf
        <5>2. x.id \notin Ids(BillsOf(w.id))
          BY <2>4 DEF BillsOf, Ids
        <5>3. Total(BillsOf(w.id) \cup {x}) = Total(BillsOf(w.id)) + x.amount
          BY <2>4, <5>2, BillTotals, InsertTotal
        <5>4. Total(BillsOf(w.id)) + x.amount <= w.amount
          BY <2>2, <2>4, <4>2 DEF Known, KnowsRoom
        <5> QED BY <5>1, <5>3, <5>4
      <4> QED BY <4>1, <4>2
    <3>2. \A b \in bills' : b.withdrawalId \in Ids(withdrawals)
      BY <1>2, <2>4, <2>5, RowTypes DEF Books, BillsFitTheirWithdrawal
    <3> QED BY <1>2, <3>1, <3>2 DEF BillsFitTheirWithdrawal
  <2>9. FiniteTables' /\ Books'
    BY <1>2, <2>6, <2>8, RowTypes DEF FiniteTables, Books, DepositsCoverAllWithdrawals
  <2>10. Ids(bills') \subseteq Ids(bills) \cup {call[r].id}
    BY <2>4, <2>5 DEF Ids
  <2> QED BY <1>2, <2>1, <2>2, <2>4, <2>7, <2>9, <2>10, WriteStep
<1> QED BY <1>1, <1>2 DEF CreateBill

LEMMA UpdateBillStep ==
    ASSUME Inv, NEW r \in Request, UpdateBill(r)
    PROVE  Inv'
<1> DEFINE moved(b) ==
            [id |-> b.id,
             withdrawalId |-> IF call[r].withdrawalId = None THEN b.withdrawalId
                                                             ELSE call[r].withdrawalId,
             amount |-> IF call[r].amount = None THEN b.amount ELSE call[r].amount]
           possible == /\ call[r].id \in Ids(bills)
                       /\ call[r].withdrawalId # None =>
                            call[r].withdrawalId \in Ids(withdrawals)
<1>1. CASE ~possible /\ Reject(r)
  BY <1>1, RejectStep
<1>2. ASSUME possible, Finish(r), UNCHANGED <<deposits, withdrawals>>,
             bills' = {IF b.id = call[r].id THEN moved(b) ELSE b : b \in bills}
      PROVE  Inv'
  <2>1. /\ ControlTypes' /\ Only(r) /\ pc'[r] = "idle"
        /\ \A q \in Request : StepFits(q)' /\ HasLock(q)'
        /\ lock' \in Request => lock' = lock /\ lock # r
        /\ call'[r].op \notin Creates
    BY <1>2, FinishKeeps DEF Finish, Creates, NoCall, Inv, TypeOK
  <2>2. /\ pc[r] = "write" /\ call[r].op = "updateBill" /\ CallShape(call[r])
        /\ lock = r /\ Known(r)
    BY AtStatement DEF UpdateBill, Writing, Locked
  <2>3. PICK x \in bills : x.id = call[r].id
    BY <1>2 DEF Ids
  <2>4. /\ x \in BillRow /\ x.amount \in Nat /\ x.withdrawalId \in Ids(withdrawals)
        /\ x.amount = seen[r].old /\ x.withdrawalId = seen[r].from
        /\ x = [id |-> x.id, withdrawalId |-> x.withdrawalId, amount |-> x.amount]
    BY <2>2, <2>3, RowTypes DEF Known, KnowsRoom, BillRow, Books, BillsFitTheirWithdrawal
  <2> DEFINE z == [id |-> x.id, withdrawalId |-> TargetOf(r), amount |-> BillAmount(r)]
  <2>5. moved(x) = z
    BY <2>4 DEF TargetOf, BillAmount
  <2>6. /\ z.id = x.id /\ z.withdrawalId = TargetOf(r) /\ z.amount = BillAmount(r)
        /\ z \in BillRow /\ z.amount \in Nat /\ z.withdrawalId \in Ids(withdrawals)
    BY <1>2, <2>2, <2>4, AccountsAssumption
       DEF TargetOf, BillAmount, CallShape, BillRow
  <2>7. z = x \/ call[r].amount # None \/ call[r].withdrawalId # None
    BY <2>4 DEF TargetOf, BillAmount
  <2> HIDE DEF z
  <2>8. bills' = Delete(bills, x.id) \cup {z}
    <3>1. \A b \in bills : b.id = x.id => b = x
      BY RowTypes DEF Keys, UniqueIds
    <3>2. \A b \in bills : (IF b.id = call[r].id THEN moved(b) ELSE b)
                            = (IF b.id = x.id THEN z ELSE b)
      BY <2>3, <2>5, <3>1
    <3> HIDE DEF moved
    <3>3. bills' = {IF b.id = x.id THEN z ELSE b : b \in bills}
      BY <1>2, <3>2
    <3> QED BY <2>3, <3>3 DEF Delete
  <2> HIDE DEF moved, possible
  <2>9. Finite(bills')
    BY <2>4, <2>6, <2>8, RowTypes, ReplaceTotal DEF Keys, FiniteTables
  <2>10. UniqueIds(bills') /\ Ids(bills') = Ids(bills)
    BY <2>6, <2>8, RowTypes, ReplaceIds DEF Keys
  <2>11. bills' \subseteq BillRow
    BY <2>6, <2>8, RowTypes DEF Tables, Delete
  <2>12. ASSUME NEW w \in withdrawals
         PROVE  Total(BillsOf(w.id))' <= w.amount
    <3> DEFINE rest == Delete(BillsOf(w.id), x.id)
    <3>1. /\ Finite(rest) /\ Total(rest) \in Nat /\ Total(BillsOf(w.id)) \in Nat
          /\ Total(rest) <= Total(BillsOf(w.id)) /\ w.amount \in Nat
          /\ Total(BillsOf(w.id)) <= w.amount
      BY BillTotals, RowTypes DEF Books, BillsFitTheirWithdrawal
    <3>2. CASE TargetOf(r) # w.id
      <4>1. BillsOf(w.id)' = rest
        BY <2>6, <2>8, <3>2 DEF BillsOf, Delete
      <4> QED BY <3>1, <4>1
    <3>3. CASE TargetOf(r) = w.id
      <4>1. BillsOf(w.id)' = rest \cup {z}
        BY <2>6, <2>8, <3>3 DEF BillsOf, Delete
      <4>2. CASE z = x
        <5>1. rest \cup {z} = BillsOf(w.id)
          <6>1. x \in BillsOf(w.id)
            BY <2>6, <3>3, <4>2 DEF BillsOf
          <6>2. \A b \in bills : b.id = x.id => b = x
            BY RowTypes DEF Keys, UniqueIds
          <6> QED BY <4>2, <6>1, <6>2 DEF BillsOf, Delete
        <5> QED BY <3>1, <4>1, <5>1
      <4>3. CASE call[r].amount # None \/ call[r].withdrawalId # None
        <5>1. Total(rest) + z.amount <= w.amount
          BY <2>2, <2>3, <2>6, <3>3, <4>3 DEF Known, KnowsRoom
        <5>2. z.id \notin Ids(rest)
          BY <2>6 DEF Ids, Delete
        <5>3. Total(rest \cup {z}) = Total(rest) + z.amount
          BY <2>6, <3>1, <5>2, InsertTotal
        <5> QED BY <4>1, <5>1, <5>3
      <4> QED BY <2>7, <4>2, <4>3
    <3> QED BY <3>2, <3>3
  <2>13. \A b \in bills' : b.withdrawalId \in Ids(withdrawals)
    BY <2>6, <2>8, RowTypes DEF Books, BillsFitTheirWithdrawal, Delete
  <2>14. Tables' /\ Keys' /\ FiniteTables' /\ Books'
    BY <1>2, <2>9, <2>10, <2>11, <2>12, <2>13, RowTypes
       DEF Tables, Keys, FiniteTables, Books, DepositsCoverAllWithdrawals,
           BillsFitTheirWithdrawal
  <2> QED BY <1>2, <2>1, <2>2, <2>10, <2>14, WriteStep
<1> QED BY <1>1, <1>2 DEF UpdateBill

LEMMA DeleteBillStep ==
    ASSUME Inv, NEW r \in Request, DeleteBill(r)
    PROVE  Inv'
<1>1. /\ ControlTypes' /\ Only(r) /\ pc'[r] = "idle"
      /\ \A q \in Request : StepFits(q)' /\ HasLock(q)'
      /\ lock' \in Request => lock' = lock /\ lock # r
      /\ call'[r].op \notin Creates
  BY FinishKeeps DEF DeleteBill, Finish, Creates, NoCall, Inv, TypeOK
<1>2. pc[r] = "write"
  BY DEF DeleteBill, Writing
<1>3. bills' \subseteq bills /\ UNCHANGED <<deposits, withdrawals>>
  BY DEF DeleteBill, Delete
<1>4. Finite(bills')
  BY <1>3, RowTypes, SubtableTotal DEF FiniteTables
<1>5. Tables' /\ Keys' /\ Ids(bills') \subseteq Ids(bills)
  BY <1>3, RowTypes DEF Tables, Keys, UniqueIds, Ids
<1>6. ASSUME NEW w \in withdrawals
      PROVE  Total(BillsOf(w.id))' <= w.amount
  <2>1. BillsOf(w.id)' \subseteq BillsOf(w.id)
    BY <1>3 DEF BillsOf
  <2>2. Finite(BillsOf(w.id)) /\ Total(BillsOf(w.id)) <= w.amount /\ w.amount \in Nat
    BY RowTypes, BillTotals DEF Books, BillsFitTheirWithdrawal
  <2>3. /\ Total(BillsOf(w.id)) \in Nat /\ Total(BillsOf(w.id))' \in Nat
        /\ Total(BillsOf(w.id))' <= Total(BillsOf(w.id))
    BY <2>1, <2>2, SubtableTotal
  <2> QED BY <2>2, <2>3
<1>7. FiniteTables' /\ Books'
  BY <1>3, <1>4, <1>6, RowTypes
     DEF FiniteTables, Books, DepositsCoverAllWithdrawals, BillsFitTheirWithdrawal
<1> QED BY <1>1, <1>2, <1>3, <1>5, <1>7, WriteStep

-----------------------------------------------------------------------------
(* The theorems *)

LEMMA InitInv ==
    ASSUME Init
    PROVE  Inv
<1>1. TypeOK
  BY DEF Init, TypeOK, UniqueIds, Step, NothingSeen
<1>2. Flow
  BY DEF Init, Flow, StepFits, HasLock, NewId, NoCall
<1>3. FiniteTables
  BY EmptyTotal DEF Init, FiniteTables
<1>4. Books
  BY EmptyTotal DEF Init, Books, DepositsCoverAllWithdrawals, BillsFitTheirWithdrawal
<1>5. HolderKnows
  BY AccountsAssumption DEF Init, HolderKnows
<1> QED BY <1>1, <1>2, <1>3, <1>4, <1>5 DEF Inv

LEMMA NextInv ==
    ASSUME Inv, [Next]_vars
    PROVE  Inv'
<1>1. ASSUME NEW r \in Request, Proceed(r)
      PROVE  Inv'
  <2>1. CASE Write(r)
    BY <2>1, CreateDepositStep, UpdateDepositStep, DeleteDepositStep, CreateWithdrawalStep,
       UpdateWithdrawalStep, DeleteWithdrawalStep, CreateBillStep, UpdateBillStep,
       DeleteBillStep DEF Write
  <2> QED BY <1>1, <2>1, AcquireLockStep, ReadDepositStep, ReadOwnWithdrawalStep, ReadBillStep,
          ReadTargetWithdrawalStep, SumDepositsStep, SumWithdrawalsStep, SumBillsStep,
          ReadReplyStep DEF Proceed
<1>2. CASE UNCHANGED vars
  <2>1. /\ UNCHANGED deposits /\ UNCHANGED withdrawals /\ UNCHANGED bills
        /\ UNCHANGED lock /\ UNCHANGED pc /\ UNCHANGED call /\ UNCHANGED seen
    BY <1>2 DEF vars
  <2>2. TypeOK'
    BY <2>1 DEF Inv, TypeOK
  <2>3. Flow'
    BY <2>1 DEF Inv, Flow, StepFits, HasLock, NewId
  <2>4. FiniteTables' /\ Books'
    BY <2>1 DEF Inv, FiniteTables, Books, DepositsCoverAllWithdrawals,
                BillsFitTheirWithdrawal, BillsOf
  <2>5. HolderKnows'
    BY <2>1 DEF Inv, HolderKnows, Known, KnowsDeposits, KnowsBalance, KnowsRoom,
                TargetOf, BillAmount, BillsOf
  <2> QED BY <2>2, <2>3, <2>4, <2>5 DEF Inv
<1> QED BY <1>1, <1>2, BeginStep DEF Next

\* Inv is inductive, so every reachable state of every instance satisfies it.
THEOREM Invariance == Spec => []Inv
BY InitInv, NextInv, PTL DEF Spec

\* Rows, ids, locks and locals keep their types, and ids stay primary keys.
THEOREM TypeCorrect == Spec => []TypeOK
<1>1. Inv => TypeOK
  BY DEF Inv
<1> QED BY <1>1, Invariance, PTL

\* However many requests run, the school never takes out more than it put in.
THEOREM NeverOverdrawn == Spec => []DepositsCoverAllWithdrawals
<1>1. Inv => DepositsCoverAllWithdrawals
  BY DEF Inv, Books
<1> QED BY <1>1, Invariance, PTL

\* The bills on a withdrawal never exceed it, whatever moves, shrinks or goes.
THEOREM BillsAlwaysFit == Spec => []BillsFitTheirWithdrawal
<1>1. Inv => BillsFitTheirWithdrawal
  BY DEF Inv, Books
<1> QED BY <1>1, Invariance, PTL


-----------------------------------------------------------------------------
(* The handlers implement Ledger.  What the guard of an operation asks of   *)
(* the tables is what the writing request still knows of them, or what Inv  *)
(* says of the tables after the step.                                       *)

\* The instance L of the module Ledger has the operators of Amounts once more.
LEMMA SameTables ==
    ASSUME NEW T
    PROVE  /\ L!Ids(T) = Ids(T) /\ L!Total(T) = Total(T)
           /\ \A i : L!Delete(T, i) = Delete(T, i)
           /\ \A i, a : L!SetAmount(T, i, a) = SetAmount(T, i, a)
<1>1. L!Units(T) = Units(T)
  BY DEF L!Units, Units
<1>2. L!Total(T) = Total(T)
  BY <1>1 DEF L!Total, Total, L!Cardinality, Cardinality
<1>3. L!Ids(T) = Ids(T)
  BY DEF L!Ids, Ids
<1>4. \A i : L!Delete(T, i) = Delete(T, i)
  BY DEF L!Delete, Delete
<1>5. \A i, a : L!SetAmount(T, i, a) = SetAmount(T, i, a)
  BY DEF L!SetAmount, SetAmount
<1> QED BY <1>2, <1>3, <1>4, <1>5

LEMMA SameBillsOf == \A w : L!BillsOf(w) = BillsOf(w)
BY DEF L!BillsOf, BillsOf

LEMMA AddsDeposit ==
    ASSUME Inv, NEW r \in Request, CreateDeposit(r)
    PROVE  L!Next
<1>1. /\ call[r].op = "createDeposit" /\ CallShape(call[r])
      /\ pc[r] = "write" /\ NewId(r)
  BY AtStatement DEF CreateDeposit, Writing
<1>2. /\ call[r].id \in DepositId /\ call[r].amount \in AmountValue
      /\ call[r].id \notin Ids(deposits)
  BY <1>1 DEF CallShape, Creates, NewId
<1>3. L!AddDeposit(call[r].id, call[r].amount)
  BY <1>2, SameTables DEF CreateDeposit, L!AddDeposit
<1> QED BY <1>2, <1>3 DEF L!Next

LEMMA ChangesDeposit ==
    ASSUME Inv, Inv', NEW r \in Request, UpdateDeposit(r)
    PROVE  L!Next \/ UNCHANGED tables
<1>1. pc[r] = "write" /\ call[r].op = "updateDeposit" /\ CallShape(call[r])
  BY AtStatement DEF UpdateDeposit, Writing
<1>2. CASE call[r].amount = None
  BY <1>2 DEF UpdateDeposit, tables
<1>3. CASE call[r].amount # None
  <2>1. call[r].id \in DepositId /\ call[r].amount \in AmountValue
    BY <1>1, <1>3 DEF CallShape
  <2>2. /\ deposits' = SetAmount(deposits, call[r].id, call[r].amount)
        /\ UNCHANGED <<withdrawals, bills>>
    BY <1>3 DEF UpdateDeposit
  <2>3. Total(deposits') >= Total(withdrawals)
    <3>1. /\ Total(deposits)' \in Nat /\ Total(withdrawals)' \in Nat
          /\ Total(withdrawals)' <= Total(deposits)'
      BY SubtableTotal DEF Inv, FiniteTables, Books, DepositsCoverAllWithdrawals
    <3> QED BY <2>2, <3>1
  <2>4. L!ChangeDeposit(call[r].id, call[r].amount)
    BY <2>2, <2>3, SameTables DEF L!ChangeDeposit
  <2> QED BY <2>1, <2>4 DEF L!Next
<1> QED BY <1>2, <1>3

LEMMA RemovesDeposit ==
    ASSUME Inv, Inv', NEW r \in Request, DeleteDeposit(r)
    PROVE  L!Next
<1>1. call[r].id \in DepositId
  BY AtStatement DEF DeleteDeposit, Writing, CallShape
<1>2. deposits' = Delete(deposits, call[r].id) /\ UNCHANGED <<withdrawals, bills>>
  BY DEF DeleteDeposit
<1>3. Total(deposits') >= Total(withdrawals)
  <2>1. /\ Total(deposits)' \in Nat /\ Total(withdrawals)' \in Nat
        /\ Total(withdrawals)' <= Total(deposits)'
    BY SubtableTotal DEF Inv, FiniteTables, Books, DepositsCoverAllWithdrawals
  <2> QED BY <1>2, <2>1
<1>4. L!RemoveDeposit(call[r].id)
  BY <1>2, <1>3, SameTables DEF L!RemoveDeposit
<1> QED BY <1>1, <1>4 DEF L!Next

LEMMA AddsWithdrawal ==
    ASSUME Inv, NEW r \in Request, CreateWithdrawal(r)
    PROVE  L!Next
<1>1. /\ pc[r] = "write" /\ call[r].op = "createWithdrawal" /\ CallShape(call[r])
      /\ Known(r) /\ NewId(r)
  BY AtStatement DEF CreateWithdrawal, Writing, Locked
<1>2. /\ call[r].id \in WithdrawalId /\ call[r].amount \in AmountValue
      /\ call[r].amount \in Nat /\ call[r].id \notin Ids(withdrawals)
  BY <1>1, AccountsAssumption DEF CallShape, Creates, NewId
<1>3. Total(withdrawals) + call[r].amount <= Total(deposits)
  BY <1>1 DEF Known, KnowsBalance
<1>4. call[r].amount <= L!Balance
  BY <1>2, <1>3, RowTypes, SameTables DEF L!Balance
<1>5. L!AddWithdrawal(call[r].id, call[r].amount)
  BY <1>2, <1>4, SameTables DEF CreateWithdrawal, L!AddWithdrawal
<1> QED BY <1>2, <1>5 DEF L!Next

LEMMA ChangesWithdrawal ==
    ASSUME Inv, Inv', NEW r \in Request, UpdateWithdrawal(r)
    PROVE  L!Next \/ UNCHANGED tables
<1>1. /\ pc[r] = "write" /\ call[r].op = "updateWithdrawal" /\ CallShape(call[r])
      /\ Known(r)
  BY AtStatement DEF UpdateWithdrawal, Writing, Locked
<1>2. CASE call[r].amount = None \/ call[r].id \notin Ids(withdrawals)
  BY <1>2 DEF UpdateWithdrawal, Reject, tables
<1>3. CASE call[r].amount # None /\ call[r].id \in Ids(withdrawals)
  <2>1. call[r].id \in WithdrawalId /\ call[r].amount \in AmountValue
    BY <1>1, <1>3 DEF CallShape
  <2>2. /\ withdrawals' = SetAmount(withdrawals, call[r].id, call[r].amount)
        /\ UNCHANGED <<deposits, bills>>
    BY <1>3 DEF UpdateWithdrawal
  <2>3. Total(withdrawals') <= Total(deposits)
    BY <2>2 DEF Inv, Books, DepositsCoverAllWithdrawals
  <2>4. L!Total(L!BillsOf(call[r].id)) <= call[r].amount
    BY <1>1, <1>3, SameBillsOf, SameTables DEF Known, KnowsBalance
  <2>5. L!ChangeWithdrawal(call[r].id, call[r].amount)
    BY <1>3, <2>2, <2>3, <2>4, SameTables DEF L!ChangeWithdrawal
  <2> QED BY <2>1, <2>5 DEF L!Next
<1> QED BY <1>2, <1>3

LEMMA RemovesWithdrawal ==
    ASSUME Inv, NEW r \in Request, DeleteWithdrawal(r)
    PROVE  L!Next
<1>1. call[r].id \in WithdrawalId
  BY AtStatement DEF DeleteWithdrawal, Writing, CallShape
<1>2. L!RemoveWithdrawal(call[r].id)
  BY SameBillsOf, SameTables DEF DeleteWithdrawal, L!RemoveWithdrawal
<1> QED BY <1>1, <1>2 DEF L!Next

LEMMA AddsBill ==
    ASSUME Inv, NEW r \in Request, CreateBill(r)
    PROVE  L!Next \/ UNCHANGED tables
<1>1. /\ pc[r] = "write" /\ call[r].op = "createBill" /\ CallShape(call[r])
      /\ Known(r) /\ NewId(r)
  BY AtStatement DEF CreateBill, Writing, Locked
<1>2. CASE TargetOf(r) \notin Ids(withdrawals)
  BY <1>2 DEF CreateBill, Reject, tables
<1>3. CASE TargetOf(r) \in Ids(withdrawals)
  <2>1. /\ call[r].id \in BillId /\ call[r].amount \in AmountValue
        /\ call[r].id \notin Ids(bills)
    BY <1>1 DEF CallShape, Creates, NewId
  <2>2. PICK row \in withdrawals : row.id = TargetOf(r)
    BY <1>3 DEF Ids
  <2>3. TargetOf(r) \in WithdrawalId
    BY <2>2, RowTypes DEF WithdrawalRow
  <2>4. L!Total(L!BillsOf(TargetOf(r))) + call[r].amount <= row.amount
    BY <1>1, <2>2, SameBillsOf, SameTables DEF Known, KnowsRoom
  <2>5. L!AddBill(call[r].id, TargetOf(r), call[r].amount)
    BY <1>3, <2>1, <2>2, <2>4, SameTables DEF CreateBill, L!AddBill
  <2> QED BY <2>1, <2>3, <2>5 DEF L!Next
<1> QED BY <1>2, <1>3

\* An update that sets neither amount nor withdrawal leaves the row as it is.
LEMMA ChangesBill ==
    ASSUME Inv, NEW r \in Request, UpdateBill(r)
    PROVE  L!Next \/ UNCHANGED tables
<1> DEFINE moved(b) ==
            [id |-> b.id,
             withdrawalId |-> IF call[r].withdrawalId = None THEN b.withdrawalId
                                                             ELSE call[r].withdrawalId,
             amount |-> IF call[r].amount = None THEN b.amount ELSE call[r].amount]
           possible == /\ call[r].id \in Ids(bills)
                       /\ call[r].withdrawalId # None =>
                            call[r].withdrawalId \in Ids(withdrawals)
<1>1. CASE ~possible /\ Reject(r)
  BY <1>1 DEF Reject
<1>2. ASSUME possible, UNCHANGED <<deposits, withdrawals>>,
             bills' = {IF b.id = call[r].id THEN moved(b) ELSE b : b \in bills}
      PROVE  L!Next \/ UNCHANGED tables
  <2>1. /\ pc[r] = "write" /\ call[r].op = "updateBill" /\ CallShape(call[r])
        /\ Known(r)
    BY AtStatement DEF UpdateBill, Writing, Locked
  <2>2. PICK x \in bills : x.id = call[r].id
    BY <1>2 DEF Ids
  <2>3. /\ x \in BillRow /\ x.withdrawalId \in Ids(withdrawals)
        /\ x.amount = seen[r].old /\ x.withdrawalId = seen[r].from
        /\ x = [id |-> x.id, withdrawalId |-> x.withdrawalId, amount |-> x.amount]
    BY <2>1, <2>2, RowTypes DEF Known, KnowsRoom, BillRow, Books, BillsFitTheirWithdrawal
  <2> DEFINE z == [id |-> x.id, withdrawalId |-> TargetOf(r), amount |-> BillAmount(r)]
  <2>4. moved(x) = z
    BY <2>3 DEF TargetOf, BillAmount
  <2>5. /\ TargetOf(r) \in Ids(withdrawals) /\ BillAmount(r) \in AmountValue
        /\ x.id \in BillId
    BY <1>2, <2>1, <2>3 DEF TargetOf, BillAmount, CallShape, BillRow
  <2>6. z = x \/ call[r].amount # None \/ call[r].withdrawalId # None
    BY <2>3 DEF TargetOf, BillAmount
  <2> HIDE DEF z
  <2>7. bills' = Delete(bills, x.id) \cup {z}
    <3>1. \A b \in bills : b.id = x.id => b = x
      BY RowTypes DEF Keys, UniqueIds
    <3>2. \A b \in bills : (IF b.id = call[r].id THEN moved(b) ELSE b)
                            = (IF b.id = x.id THEN z ELSE b)
      BY <2>2, <2>4, <3>1
    <3> HIDE DEF moved
    <3>3. bills' = {IF b.id = x.id THEN z ELSE b : b \in bills}
      BY <1>2, <3>2
    <3> QED BY <2>2, <3>3 DEF Delete
  <2> HIDE DEF moved, possible
  <2>8. CASE z = x
    <3>1. bills' = bills
      BY <2>7, <2>8, RowTypes, DeleteSplits DEF Keys
    <3> QED BY <1>2, <3>1 DEF tables
  <2>9. CASE call[r].amount # None \/ call[r].withdrawalId # None
    <3>1. PICK row \in withdrawals : row.id = TargetOf(r)
      BY <2>5 DEF Ids
    <3>2. TargetOf(r) \in WithdrawalId
      BY <3>1, RowTypes DEF WithdrawalRow
    <3>3. L!Total(L!Delete(L!BillsOf(TargetOf(r)), x.id)) + BillAmount(r) <= row.amount
      BY <2>1, <2>2, <2>9, <3>1, SameBillsOf, SameTables DEF Known, KnowsRoom
    <3>4. x.id \in L!Ids(bills)
      BY SameTables DEF Ids
    <3>5. bills' = L!Delete(bills, x.id) \cup {[id |-> x.id, withdrawalId |-> TargetOf(r),
                                               amount |-> BillAmount(r)]}
      BY <2>7, SameTables DEF z
    <3>6. L!ChangeBill(x.id, TargetOf(r), BillAmount(r))
      BY <1>2, <3>1, <3>3, <3>4, <3>5 DEF L!ChangeBill
    <3> QED BY <2>5, <3>2, <3>6 DEF L!Next
  <2> QED BY <2>6, <2>8, <2>9
<1> QED BY <1>1, <1>2 DEF UpdateBill, tables, Reject

LEMMA RemovesBill ==
    ASSUME Inv, NEW r \in Request, DeleteBill(r)
    PROVE  L!Next
<1>1. call[r].id \in BillId
  BY AtStatement DEF DeleteBill, Writing, CallShape
<1>2. L!RemoveBill(call[r].id)
  BY SameTables DEF DeleteBill, L!RemoveBill
<1> QED BY <1>1, <1>2 DEF L!Next

LEMMA LedgerStep ==
    ASSUME Inv, Inv', [Next]_vars
    PROVE  [L!Next]_(L!tables)
<1>1. CASE UNCHANGED vars
  BY <1>1 DEF vars, L!tables
<1>2. ASSUME NEW r \in Request, Proceed(r)
      PROVE  L!Next \/ UNCHANGED tables
  <2>1. CASE Write(r)
    BY <2>1, AddsDeposit, ChangesDeposit, RemovesDeposit, AddsWithdrawal, ChangesWithdrawal,
       RemovesWithdrawal, AddsBill, ChangesBill, RemovesBill DEF Write
  <2>2. CASE AcquireLock(r) \/ SumDeposits(r) \/ ReadReply(r) \/ Expire(r)
    BY <2>2 DEF AcquireLock, SumDeposits, ReadReply, Expire, Reject, Goto, tables
  <2>3. CASE ReadDeposit(r) \/ ReadOwnWithdrawal(r)
    BY <2>3 DEF ReadDeposit, ReadOwnWithdrawal, Reject, Goto, tables
  <2>4. CASE ReadBill(r) \/ ReadTargetWithdrawal(r)
    BY <2>4 DEF ReadBill, ReadTargetWithdrawal, Reject, Goto, tables
  <2>5. CASE SumWithdrawals(r) \/ SumBills(r)
    BY <2>5 DEF SumWithdrawals, SumBills, Reject, Goto, tables
  <2> QED BY <1>2, <2>1, <2>2, <2>3, <2>4, <2>5 DEF Proceed
<1>3. ASSUME NEW r \in Request, NEW c \in Calls, Begin(r, c)
      PROVE  UNCHANGED tables
  BY <1>3 DEF Begin, tables
<1> QED BY <1>1, <1>2, <1>3 DEF Next, tables, L!tables

\* Whatever the handlers do to the tables, each change is one operation of the
\* ledger whose guard holds when it happens.
THEOREM LedgerImplemented == Spec => ImplementsLedger
<1>1. Init => L!Init
  BY DEF Init, L!Init
<1>2. Inv /\ Inv' /\ [Next]_vars => [L!Next]_(L!tables)
  BY LedgerStep
<1> QED BY <1>1, <1>2, Invariance, PTL DEF Spec, ImplementsLedger, L!Spec
=============================================================================
