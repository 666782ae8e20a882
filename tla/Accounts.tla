------------------------------ MODULE Accounts ------------------------------
(***************************************************************************)
(* accounts.service.ts: deposits, withdrawals and the bills paid out of a  *)
(* withdrawal.  Several HTTP requests run at once; every awaited statement *)
(* of a handler is a step of its own, executed at READ COMMITTED (it sees  *)
(* whatever is committed when it starts).  Handlers that check a balance   *)
(* run in an interactive transaction that first takes an advisory lock;    *)
(* createDeposit, deleteWithdrawal and deleteBill take no lock.            *)
(*                                                                         *)
(* The one write of a transaction is its last statement, so the write and  *)
(* the COMMIT are one step here; the row and foreign-key locks the write   *)
(* takes order the concurrent writers, which the atomic step does too.     *)
(***************************************************************************)
EXTENDS Amounts

CONSTANTS Request,       \* slots for concurrently running requests
          DepositId, WithdrawalId, BillId,
          AmountValue,   \* amounts the DTOs accept: @Min(0.01) makes them positive
          Ops,           \* the operations clients call in this instance
          None           \* an absent DTO field, and the free lock

Locked   == {"updateDeposit", "deleteDeposit", "createWithdrawal",
             "updateWithdrawal", "createBill", "updateBill"}
Unlocked == {"createDeposit", "deleteWithdrawal", "deleteBill"}

Creates == {"createDeposit", "createWithdrawal", "createBill"}

Ids3 == DepositId \cup WithdrawalId \cup BillId

ASSUME AccountsAssumption ==
    /\ AmountValue \subseteq Nat \ {0}
    /\ None \notin Nat /\ None \notin Ids3 /\ None \notin Request
    /\ Ops \subseteq Locked \cup Unlocked

VARIABLES
    deposits, withdrawals, bills,   \* the three tables
    lock,    \* the request whose transaction holds the advisory lock, or None
    pc,      \* the statement each request runs next, "idle" when it has none
    call,    \* the operation, path id and body of each request
    seen     \* the values each running request has read and still uses

tables == <<deposits, withdrawals, bills>>
vars == <<deposits, withdrawals, bills, lock, pc, call, seen>>

\* one atomic operation on the books per request: see the module Ledger
L == INSTANCE Ledger

BillsOf(w) == {b \in bills : b.withdrawalId = w}

-----------------------------------------------------------------------------
(* Requests. A body field that is undefined is None.  An update whose body  *)
(* is empty is refused before any statement (isEmptyUpdate), so an update   *)
(* with amount = None stands for one that changes other columns only.       *)

Body(op, ids, amounts, ws) ==
    [op : {op}, id : ids, amount : amounts, withdrawalId : ws]

Calls ==
    {c \in UNION {
         Body("createDeposit", DepositId, AmountValue, {None}),
         Body("updateDeposit", DepositId, AmountValue \cup {None}, {None}),
         Body("deleteDeposit", DepositId, {None}, {None}),
         Body("createWithdrawal", WithdrawalId, AmountValue, {None}),
         Body("updateWithdrawal", WithdrawalId, AmountValue \cup {None}, {None}),
         Body("deleteWithdrawal", WithdrawalId, {None}, {None}),
         Body("createBill", BillId, AmountValue, WithdrawalId),
         Body("updateBill", BillId, AmountValue \cup {None}, WithdrawalId \cup {None}),
         Body("deleteBill", BillId, {None}, {None})} : c.op \in Ops}

NoCall == [op |-> "none", id |-> None, amount |-> None, withdrawalId |-> None]

\* old: amount of the row the request updates or deletes; from: the withdrawal
\* the bill is on; limit: the sum of deposits, or the amount of the withdrawal
NothingSeen == [old |-> 0, from |-> None, limit |-> 0]

\* A new row's uuid names no row, and no other request can have heard of it.
Fresh(i) ==
    /\ i \notin Ids(deposits) \cup Ids(withdrawals) \cup Ids(bills)
    /\ \A r \in Request : i # call[r].id /\ i # call[r].withdrawalId

Init ==
    /\ deposits = {} /\ withdrawals = {} /\ bills = {}
    /\ lock = None
    /\ pc = [r \in Request |-> "idle"]
    /\ call = [r \in Request |-> NoCall]
    /\ seen = [r \in Request |-> NothingSeen]

Begin(r, c) ==
    /\ pc[r] = "idle"
    /\ c.op \in Creates => Fresh(c.id)
    /\ call' = [call EXCEPT ![r] = c]
    /\ pc' = [pc EXCEPT ![r] = IF c.op \in Locked THEN "lock"
                               ELSE IF c.op = "createDeposit" THEN "write"
                               ELSE "row"]
    /\ UNCHANGED <<tables, lock, seen>>

\* A request that answers, with a result or with an error, ends its
\* transaction; the advisory lock goes with the transaction.
Finish(r) ==
    /\ pc' = [pc EXCEPT ![r] = "idle"]
    /\ call' = [call EXCEPT ![r] = NoCall]
    /\ seen' = [seen EXCEPT ![r] = NothingSeen]
    /\ lock' = IF lock = r THEN None ELSE lock

Reject(r) == Finish(r) /\ UNCHANGED tables

Goto(r, next) == pc' = [pc EXCEPT ![r] = next] /\ UNCHANGED <<tables, lock, call>>

-----------------------------------------------------------------------------
(* The statements of the handlers, in the order the handlers run them       *)

\* Mutant of AcquireLock: the transaction starts without waiting for the lock.
SkipLock(r) ==
    /\ pc[r] = "lock"
    /\ lock' = r
    /\ pc' = [pc EXCEPT ![r] = CASE call[r].op = "createWithdrawal" -> "deposited"
                                 [] call[r].op = "createBill" -> "withdrawal"
                                 [] OTHER -> "row"]
    /\ UNCHANGED <<tables, call, seen>>

\* pg_advisory_xact_lock waits until the holder's transaction ends
AcquireLock(r) ==
    /\ pc[r] = "lock" /\ lock = None
    /\ lock' = r
    /\ pc' = [pc EXCEPT ![r] = CASE call[r].op = "createWithdrawal" -> "deposited"
                                 [] call[r].op = "createBill" -> "withdrawal"
                                 [] OTHER -> "row"]
    /\ UNCHANGED <<tables, call, seen>>

ReadDeposit(r) ==
    /\ pc[r] = "row" /\ call[r].op \in {"updateDeposit", "deleteDeposit"}
    /\ \/ \E row \in deposits :
            /\ row.id = call[r].id
            /\ seen' = [seen EXCEPT ![r].old = row.amount]
            /\ Goto(r, IF call[r].op = "updateDeposit" /\ call[r].amount = None
                       THEN "write" ELSE "deposited")
       \/ call[r].id \notin Ids(deposits) /\ Reject(r)

ReadOwnWithdrawal(r) ==
    /\ pc[r] = "row" /\ call[r].op \in {"updateWithdrawal", "deleteWithdrawal"}
    /\ \/ /\ call[r].id \in Ids(withdrawals)
          /\ Goto(r, IF call[r].op = "deleteWithdrawal" \/ call[r].amount = None
                     THEN "write" ELSE "deposited")
          /\ UNCHANGED seen
       \/ call[r].id \notin Ids(withdrawals) /\ Reject(r)

ReadBill(r) ==
    /\ pc[r] = "row" /\ call[r].op \in {"updateBill", "deleteBill"}
    /\ \/ \E row \in bills :
            /\ row.id = call[r].id
            /\ IF call[r].op = "updateBill"
               THEN seen' = [seen EXCEPT ![r].old = row.amount,
                                         ![r].from = row.withdrawalId]
               ELSE UNCHANGED seen
            /\ Goto(r, IF call[r].amount = None /\ call[r].withdrawalId = None
                       THEN "write" ELSE "withdrawal")
       \/ call[r].id \notin Ids(bills) /\ Reject(r)

SumDeposits(r) ==
    /\ pc[r] = "deposited"
    /\ seen' = [seen EXCEPT ![r].limit = Total(deposits)]
    /\ Goto(r, "withdrawn")

\* Mutant of DepositsCoverWithdrawals: the delta of the change is left out.
CoverWithoutDelta(r) == seen[r].limit >= Total(withdrawals)

\* sumWithdrawals and the comparison that follows it
DepositsCoverWithdrawals(r) ==
    LET delta == IF call[r].op = "updateDeposit" THEN call[r].amount - seen[r].old
                                                 ELSE - seen[r].old
    IN  seen[r].limit + delta >= Total(withdrawals)

BalanceAvailable(r) ==
    LET others == IF call[r].op = "updateWithdrawal"
                  THEN Delete(withdrawals, call[r].id) ELSE withdrawals
    IN  seen[r].limit - Total(others) >= call[r].amount

SumWithdrawals(r) ==
    /\ pc[r] = "withdrawn"
    /\ LET enough == IF call[r].op \in {"updateDeposit", "deleteDeposit"}
                     THEN DepositsCoverWithdrawals(r) ELSE BalanceAvailable(r)
       IN  \/ /\ enough
              /\ Goto(r, IF call[r].op = "updateWithdrawal" THEN "spent" ELSE "write")
              /\ UNCHANGED seen
           \/ ~enough /\ Reject(r)

\* the withdrawal a bill is, or will be, paid out of
TargetOf(r) == IF call[r].withdrawalId = None THEN seen[r].from
                                              ELSE call[r].withdrawalId

BillAmount(r) == IF call[r].amount = None THEN seen[r].old ELSE call[r].amount

ReadTargetWithdrawal(r) ==
    /\ pc[r] = "withdrawal"
    /\ \/ \E row \in withdrawals :
            /\ row.id = TargetOf(r)
            /\ seen' = [seen EXCEPT ![r].limit = row.amount]
            /\ Goto(r, "spent")
       \/ TargetOf(r) \notin Ids(withdrawals) /\ Reject(r)

\* Mutant of WithdrawalCoversBills: a withdrawal may shrink below its bills.
CoversNothing(r) == Total(BillsOf(call[r].id)) >= 0

\* sumBills and the comparison that follows it
WithdrawalCoversBills(r) == Total(BillsOf(call[r].id)) <= call[r].amount

WithdrawalHasRoom(r) ==
    LET others == IF call[r].op = "updateBill"
                  THEN Delete(BillsOf(TargetOf(r)), call[r].id)
                  ELSE BillsOf(TargetOf(r))
    IN  seen[r].limit - Total(others) >= BillAmount(r)

SumBills(r) ==
    /\ pc[r] = "spent"
    /\ LET fits == IF call[r].op = "updateWithdrawal"
                   THEN WithdrawalCoversBills(r) ELSE WithdrawalHasRoom(r)
       IN  \/ fits /\ Goto(r, "write") /\ UNCHANGED seen
           \/ ~fits /\ Reject(r)

-----------------------------------------------------------------------------
(* The writes.  A row or a parent row that has gone in the meantime makes   *)
(* the statement fail (P2025, or a foreign key violation): the transaction  *)
(* rolls back and the request is rejected.                                  *)

Writing(r, op) == pc[r] = "write" /\ call[r].op = op

CreateDeposit(r) ==
    /\ Writing(r, "createDeposit")
    /\ deposits' = deposits \cup {[id |-> call[r].id, amount |-> call[r].amount]}
    /\ Finish(r) /\ UNCHANGED <<withdrawals, bills>>

\* Mutant of UpdateDeposit: an amount the body leaves out is written anyway.
WriteUndefinedAmount(r) ==
    /\ Writing(r, "updateDeposit")
    /\ deposits' = SetAmount(deposits, call[r].id, call[r].amount)
    /\ Finish(r) /\ UNCHANGED <<withdrawals, bills>>

UpdateDeposit(r) ==
    /\ Writing(r, "updateDeposit")
    /\ deposits' = IF call[r].amount = None THEN deposits
                   ELSE SetAmount(deposits, call[r].id, call[r].amount)
    /\ Finish(r) /\ UNCHANGED <<withdrawals, bills>>

DeleteDeposit(r) ==
    /\ Writing(r, "deleteDeposit")
    /\ deposits' = Delete(deposits, call[r].id)
    /\ Finish(r) /\ UNCHANGED <<withdrawals, bills>>

CreateWithdrawal(r) ==
    /\ Writing(r, "createWithdrawal")
    /\ withdrawals' = withdrawals \cup {[id |-> call[r].id, amount |-> call[r].amount]}
    /\ Finish(r) /\ UNCHANGED <<deposits, bills>>

\* the answer is read again after the commit, outside the transaction
UpdateWithdrawal(r) ==
    /\ Writing(r, "updateWithdrawal")
    /\ \/ /\ call[r].id \in Ids(withdrawals)
          /\ withdrawals' = IF call[r].amount = None THEN withdrawals
                            ELSE SetAmount(withdrawals, call[r].id, call[r].amount)
          /\ pc' = [pc EXCEPT ![r] = "reply"]
          /\ lock' = None
          /\ seen' = [seen EXCEPT ![r] = NothingSeen]
          /\ UNCHANGED <<deposits, bills, call>>
       \/ call[r].id \notin Ids(withdrawals) /\ Reject(r)

ReadReply(r) == pc[r] = "reply" /\ Reject(r)

\* DELETE cascades to the bills of the withdrawal (schema: onDelete Cascade)
DeleteWithdrawal(r) ==
    /\ Writing(r, "deleteWithdrawal")
    /\ withdrawals' = Delete(withdrawals, call[r].id)
    /\ bills' = bills \ BillsOf(call[r].id)
    /\ Finish(r) /\ UNCHANGED deposits

CreateBill(r) ==
    /\ Writing(r, "createBill")
    /\ \/ /\ TargetOf(r) \in Ids(withdrawals)
          /\ bills' = bills \cup {[id |-> call[r].id, withdrawalId |-> TargetOf(r),
                                   amount |-> call[r].amount]}
          /\ Finish(r) /\ UNCHANGED <<deposits, withdrawals>>
       \/ TargetOf(r) \notin Ids(withdrawals) /\ Reject(r)

UpdateBill(r) ==
    LET moved(b) ==
            [id |-> b.id,
             withdrawalId |-> IF call[r].withdrawalId = None THEN b.withdrawalId
                                                             ELSE call[r].withdrawalId,
             amount |-> IF call[r].amount = None THEN b.amount ELSE call[r].amount]
        possible == /\ call[r].id \in Ids(bills)
                    /\ call[r].withdrawalId # None => call[r].withdrawalId \in Ids(withdrawals)
    IN  /\ Writing(r, "updateBill")
        /\ \/ /\ possible
              /\ bills' = {IF b.id = call[r].id THEN moved(b) ELSE b : b \in bills}
              /\ Finish(r) /\ UNCHANGED <<deposits, withdrawals>>
           \/ ~possible /\ Reject(r)

DeleteBill(r) ==
    /\ Writing(r, "deleteBill")
    /\ bills' = Delete(bills, call[r].id)
    /\ Finish(r) /\ UNCHANGED <<deposits, withdrawals>>

\* Mutant of Expire: only the transaction that holds the lock can time out.
ExpireHolderOnly(r) == lock = r /\ Reject(r)

\* An interactive transaction that outlives Prisma's timeout, or loses its
\* connection, is rolled back at any statement, also while it waits for the lock.
Expire(r) ==
    /\ pc[r] \notin {"idle", "reply"} /\ call[r].op \in Locked
    /\ Reject(r)

-----------------------------------------------------------------------------
Write(r) ==
    \/ CreateDeposit(r) \/ UpdateDeposit(r) \/ DeleteDeposit(r)
    \/ CreateWithdrawal(r) \/ UpdateWithdrawal(r) \/ DeleteWithdrawal(r)
    \/ CreateBill(r) \/ UpdateBill(r) \/ DeleteBill(r)

Proceed(r) ==
    \/ AcquireLock(r)
    \/ ReadDeposit(r) \/ ReadOwnWithdrawal(r) \/ ReadBill(r) \/ ReadTargetWithdrawal(r)
    \/ SumDeposits(r) \/ SumWithdrawals(r) \/ SumBills(r)
    \/ Write(r) \/ ReadReply(r)
    \/ Expire(r)

Next == \E r \in Request : Proceed(r) \/ \E c \in Calls : Begin(r, c)

Spec == Init /\ [][Next]_vars

\* The event loop and the database run every started request on, and a
\* transaction that cannot proceed is ended by its timeout.
Fairness == \A r \in Request : WF_vars(Proceed(r))

FairSpec == Spec /\ Fairness

-----------------------------------------------------------------------------
(* Properties *)

DepositRow    == [id : DepositId, amount : AmountValue]
WithdrawalRow == [id : WithdrawalId, amount : AmountValue]
BillRow       == [id : BillId, withdrawalId : WithdrawalId, amount : AmountValue]

Step == {"idle", "lock", "row", "deposited", "withdrawn", "withdrawal", "spent",
         "write", "reply"}

\* Every column, argument and local has its type, and ids are primary keys.
TypeOK ==
    /\ deposits \subseteq DepositRow /\ UniqueIds(deposits)
    /\ withdrawals \subseteq WithdrawalRow /\ UniqueIds(withdrawals)
    /\ bills \subseteq BillRow /\ UniqueIds(bills)
    /\ lock \in Request \cup {None}
    /\ pc \in [Request -> Step]
    /\ call \in [Request -> Calls \cup {NoCall}]
    /\ seen \in [Request -> [old : Nat, from : WithdrawalId \cup {None}, limit : Nat]]

\* Invariant 1 of the ledger: whatever checks and writes interleave, the
\* school has never taken out more than it has put in.
DepositsCoverAllWithdrawals == Total(withdrawals) <= Total(deposits)

\* Invariant 2: the bills on a withdrawal never add up to more than it, also
\* when bills move, the withdrawal shrinks, or it is deleted meanwhile.
BillsFitTheirWithdrawal ==
    /\ \A w \in withdrawals : Total(BillsOf(w.id)) <= w.amount
    /\ \A b \in bills : b.withdrawalId \in Ids(withdrawals)

\* Every change the handlers make to the tables is one atomic, balanced
\* operation: what was checked before other requests' steps still holds when
\* it is used.
ImplementsLedger == L!Spec

\* Every request is answered, whoever holds the lock and however it ends, and
\* no path through a handler leaves the lock taken for good.
NothingHangs ==
    /\ \A r \in Request : pc[r] # "idle" ~> pc[r] = "idle"
    /\ []<>(lock = None)
=============================================================================
