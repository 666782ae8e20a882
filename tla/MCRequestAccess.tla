-------------------------- MODULE MCRequestAccess --------------------------
(* Instances of RequestAccess for TLC. *)
EXTENDS RequestAccess, TLC

CONSTANTS r1, r2, r3, t1, s1, m1, m2, marks

ThreeRequests == {r1, r2, r3}
OneTeacher == {t1}
OneSection == {s1}
OneType == {marks}

\* m2 is a subject of another class level
TwoSubjects == {m1, m2}
ScopeOfM1 == {<<s1, m1>>}

AllOps == Creates \cup Decisions \cup Others
DeletionOps == {"create", "approve", "deleteSubject"}

Symmetry == Permutations(Request) \cup Permutations(Teacher)
=============================================================================
