------------------------------- MODULE MCFees -------------------------------
(* Instances of Fees for TLC: the students of one section, whose level may   *)
(* be either of two.                                                         *)
EXTENDS Fees, TLC

CONSTANTS r1, r2, r3, s1, s2, c1, l1, l2

TwoRequests == {r1, r2}
ThreeRequests == {r1, r2, r3}
OneStudent == {s1}
TwoStudents == {s1, s2}
OneSection == {c1}
TwoLevels == {l1, l2}
AllInOneSection == [s \in Student |-> c1]
Amounts12 == {1, 2}
Prices23 == {2, 3}
Amount1 == {1}

AllOps == Calling
PaymentOps == {"recordPayment"}

Symmetry == Permutations(Request) \cup Permutations(Student) \cup Permutations(Level)
=============================================================================
