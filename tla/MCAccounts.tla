----------------------------- MODULE MCAccounts -----------------------------
(* Instances of Accounts for TLC: which requests the clients of each send. *)
EXTENDS Accounts

CONSTANTS r1, r2, d1, w1, w2, b1

TwoRequests == {r1, r2}
OneDeposit == {d1}
TwoWithdrawals == {w1, w2}
OneBill == {b1}
Amounts12 == {1, 2}

AllOps == Locked \cup Unlocked
=============================================================================
