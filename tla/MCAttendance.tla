---------------------------- MODULE MCAttendance ----------------------------
(* Instance of Attendance for TLC: one day, a Monday, and one student. *)
EXTENDS Attendance, TLC

CONSTANTS r1, r2, r3, d1, s1

ThreeRequests == {r1, r2, r3}
OneDate == {d1}
OneStudent == {s1}
SundayMonday == {0, 1}
Mondays == [d \in Date |-> 1]
Sunday == {0}
OffSundayOrBoth == {{0}, {0, 1}}

AllOps == {"getSettings", "updateSettings", "createHoliday", "deleteHoliday", "saveDay",
           "deleteDay", "getDay", "getStudentAttendance", "getSummary"}

Symmetry == Permutations(Request)
=============================================================================
