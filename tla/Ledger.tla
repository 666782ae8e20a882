------------------------------- MODULE Ledger -------------------------------
(***************************************************************************)
(* What the accounts module promises: every request that changes the       *)
(* ledger acts as ONE atomic operation on the three tables, and each       *)
(* operation is only possible when the books still balance after it.       *)
(* There is no lock, no transaction and no request here; Accounts shows    *)
(* that the handlers implement this.                                       *)
(***************************************************************************)
EXTENDS Amounts

CONSTANTS DepositId, WithdrawalId, BillId,
          AmountValue    \* the amounts a DTO may carry

VARIABLES deposits,      \* rows [id, amount]
          withdrawals,   \* rows [id, amount]
          bills          \* rows [id, withdrawalId, amount]

tables == <<deposits, withdrawals, bills>>

BillsOf(w) == {b \in bills : b.withdrawalId = w}

Balance == Total(deposits) - Total(withdrawals)

Init == deposits = {} /\ withdrawals = {} /\ bills = {}

AddDeposit(d, a) ==
    /\ d \notin Ids(deposits)
    /\ deposits' = deposits \cup {[id |-> d, amount |-> a]}
    /\ UNCHANGED <<withdrawals, bills>>

ChangeDeposit(d, a) ==
    /\ Total(SetAmount(deposits, d, a)) >= Total(withdrawals)
    /\ deposits' = SetAmount(deposits, d, a)
    /\ UNCHANGED <<withdrawals, bills>>

RemoveDeposit(d) ==
    /\ Total(Delete(deposits, d)) >= Total(withdrawals)
    /\ deposits' = Delete(deposits, d)
    /\ UNCHANGED <<withdrawals, bills>>

AddWithdrawal(w, a) ==
    /\ w \notin Ids(withdrawals)
    /\ a <= Balance
    /\ withdrawals' = withdrawals \cup {[id |-> w, amount |-> a]}
    /\ UNCHANGED <<deposits, bills>>

ChangeWithdrawal(w, a) ==
    /\ w \in Ids(withdrawals)
    /\ Total(SetAmount(withdrawals, w, a)) <= Total(deposits)
    /\ Total(BillsOf(w)) <= a
    /\ withdrawals' = SetAmount(withdrawals, w, a)
    /\ UNCHANGED <<deposits, bills>>

\* a withdrawal takes its bills with it
RemoveWithdrawal(w) ==
    /\ withdrawals' = Delete(withdrawals, w)
    /\ bills' = bills \ BillsOf(w)
    /\ UNCHANGED deposits

AddBill(b, w, a) ==
    /\ b \notin Ids(bills)
    /\ \E row \in withdrawals : row.id = w /\ Total(BillsOf(w)) + a <= row.amount
    /\ bills' = bills \cup {[id |-> b, withdrawalId |-> w, amount |-> a]}
    /\ UNCHANGED <<deposits, withdrawals>>

\* a bill gets a new amount, or moves to another withdrawal, or both
ChangeBill(b, w, a) ==
    /\ b \in Ids(bills)
    /\ \E row \in withdrawals :
         row.id = w /\ Total(Delete(BillsOf(w), b)) + a <= row.amount
    /\ bills' = Delete(bills, b) \cup {[id |-> b, withdrawalId |-> w, amount |-> a]}
    /\ UNCHANGED <<deposits, withdrawals>>

RemoveBill(b) ==
    /\ bills' = Delete(bills, b)
    /\ UNCHANGED <<deposits, withdrawals>>

Next ==
    \/ \E d \in DepositId :
         \/ RemoveDeposit(d)
         \/ \E a \in AmountValue : AddDeposit(d, a) \/ ChangeDeposit(d, a)
    \/ \E w \in WithdrawalId :
         \/ RemoveWithdrawal(w)
         \/ \E a \in AmountValue : AddWithdrawal(w, a) \/ ChangeWithdrawal(w, a)
    \/ \E b \in BillId :
         \/ RemoveBill(b)
         \/ \E w \in WithdrawalId, a \in AmountValue :
              AddBill(b, w, a) \/ ChangeBill(b, w, a)

Spec == Init /\ [][Next]_tables
=============================================================================
