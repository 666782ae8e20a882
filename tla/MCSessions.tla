----------------------------- MODULE MCSessions -----------------------------
(* Instance of Sessions for TLC: one user's sessions. *)
EXTENDS Sessions, TLC

CONSTANTS r1, r2, r3, u1, p1, p2, s1

ThreeRequests == {r1, r2, r3}
OneUser == {u1}
TwoPasswords == {p1, p2}
OneOld == {s1}

Symmetry == Permutations(Request) \cup Permutations(Password) \cup Permutations(Old)
=============================================================================
