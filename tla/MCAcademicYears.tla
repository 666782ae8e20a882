-------------------------- MODULE MCAcademicYears --------------------------
(* Instances of AcademicYears for TLC. *)
EXTENDS AcademicYears, TLC

CONSTANTS r1, r2, r3, y1, y2, s1

ThreeRequests == {r1, r2, r3}
OneYear == {y1}
TwoYears == {y1, y2}
OneSection == {s1}
NoSection == {}
ThreeDates == 0 .. 2
OneRange == 0 .. 1

DatesOps == TermWrites \cup {"update"}
YearOps == {"setCurrent", "create"}

Symmetry == Permutations(Request) \cup Permutations(Year)
=============================================================================
