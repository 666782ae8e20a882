------------------------------ MODULE MCExams ------------------------------
(* Instance of Exams for TLC: one exam, a level with two subjects and one   *)
(* with a third, one student.                                               *)
EXTENDS Exams, TLC

CONSTANTS r1, r2, r3, x1, j1, j2, j3, s1, t1, t2, l1, l2

ThreeRequests == {r1, r2, r3}
OneExam == {x1}
ThreeSubjects == {j1, j2, j3}
TwoLevels == {l1, l2}
TwoAndOne == l1 :> {j1, j2} @@ l2 :> {j3}
OneStudent == {s1}
TwoTerms == {t1, t2}
OneTerm == {t1}
OneTwo == {1, 2}

AllOps == Closing \cup {"create", "update", "addSubject", "updateSubject",
                        "removeSubject", "enterGrades", "updateSection", "deleteTerm"}

Symmetry == Permutations(Request) \cup Permutations({j1, j2})
=============================================================================
