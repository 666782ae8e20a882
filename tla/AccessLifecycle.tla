-------------------------- MODULE AccessLifecycle --------------------------
(***************************************************************************)
(* What callers of the access-request endpoints are promised: a request    *)
(* row moves along PENDING -> CANCELLED | APPROVED | REJECTED and          *)
(* APPROVED -> REVOKED, every move is made by exactly one call, that call  *)
(* is the one told "ok", and a call is refused for the row's status only   *)
(* while the row does not have the status the call needs.                  *)
(***************************************************************************)
CONSTANTS Request, None

Decisions == {"cancel", "approve", "reject", "revoke"}

Needs(op) == IF op = "revoke" THEN "APPROVED" ELSE "PENDING"

Becomes(op) == CASE op = "cancel"  -> "CANCELLED"
                 [] op = "approve" -> "APPROVED"
                 [] op = "reject"  -> "REJECTED"
                 [] op = "revoke"  -> "REVOKED"

VARIABLES status,    \* of the row each call creates; "NONE" when there is none
          asked,     \* the decision each call asks for: [op, row], or None
          outcome    \* "open", "won" (the call took effect) or "lost"

rows == <<status, asked, outcome>>

Init ==
    /\ status = [i \in Request |-> "NONE"]
    /\ asked = [r \in Request |-> None]
    /\ outcome = [r \in Request |-> "open"]

Ask(r, op, i) ==
    /\ asked[r] = None /\ outcome[r] = "open"
    /\ asked' = [asked EXCEPT ![r] = [op |-> op, row |-> i]]
    /\ UNCHANGED <<status, outcome>>

\* a call that asks for no decision creates a row, or changes other tables
Create(r) ==
    /\ asked[r] = None /\ outcome[r] = "open" /\ status[r] = "NONE"
    /\ \E s \in {"NONE", "PENDING", "APPROVED"} : status' = [status EXCEPT ![r] = s]
    /\ outcome' = [outcome EXCEPT ![r] = "won"]
    /\ UNCHANGED asked

Decide(r) ==
    /\ asked[r] # None /\ outcome[r] = "open"
    /\ status[asked[r].row] = Needs(asked[r].op)
    /\ status' = [status EXCEPT ![asked[r].row] = Becomes(asked[r].op)]
    /\ outcome' = [outcome EXCEPT ![r] = "won"]
    /\ UNCHANGED asked

\* only cancel has another reason to be refused: the caller does not own the row
Refuse(r) ==
    /\ outcome[r] = "open"
    /\ asked[r] # None /\ asked[r].op # "cancel" =>
         status[asked[r].row] # Needs(asked[r].op)
    /\ outcome' = [outcome EXCEPT ![r] = "lost"]
    /\ UNCHANGED <<status, asked>>

Next == \E r \in Request :
            \/ Create(r) \/ Decide(r) \/ Refuse(r)
            \/ \E op \in Decisions, i \in Request : Ask(r, op, i)

Spec == Init /\ [][Next]_rows
=============================================================================
