---------------------------- MODULE MCEnrollment ----------------------------
(* Instance of Enrollment for TLC: two students, one id that names nobody,  *)
(* a class of one year and a class of another.                              *)
EXTENDS Enrollment, TLC

CONSTANTS r1, r2, s1, s2, s3, y1, y2, c1, c2

TwoRequests == {r1, r2}
Students == {s1, s2, s3}
Pupils == {s1, s2}
TwoYears == {y1, y2}
TwoSections == {c1, c2}
YearOfTwo == c1 :> y1 @@ c2 :> y2
TwoStatuses == {"ACTIVE", "WITHDRAWN"}
Two == {2}
ListsOfTwo == {<<s, u>> : s \in Students, u \in Pupils}

AllOps == {"enroll", "update", "promote"}

Symmetry == Permutations(Request) \cup Permutations(Pupils)
=============================================================================
