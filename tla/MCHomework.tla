---------------------------- MODULE MCHomework ----------------------------
(* Instance of Homework for TLC: two calls about an earlier row and rows of *)
(* their own, of a teacher, an admin and a student; one section with two    *)
(* subjects, and a year that is not the section's.                          *)
EXTENDS Homework, Naturals, TLC

CONSTANTS r1, r2, e1, t1, s1, c1, m1, m2, y1, y2, new

TwoCallers == {r1, r2}
OneEarlier == {e1}
OneTeacher == {t1}
OneStudent == {s1}
OneSection == {c1}
TwoSubjects == {m1, m2}
TwoYears == {y1, y2}
OneText == {new}
BothOfSection == {<<c1, m1>>, <<c1, m2>>}
FirstYear == [c \in Section |-> y1]

\* bound: assignments and approvals at a time
FewScopes == Cardinality(assigned) + Cardinality(approved) <= 2

Symmetry == Permutations(Caller) \cup Permutations(Subject)
=============================================================================
