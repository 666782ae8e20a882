------------------------------- MODULE Scopes -------------------------------
(***************************************************************************)
(* What RequestAccess and Homework have in common: teachers, the sections  *)
(* and subjects they teach, their class levels, and which subjects there   *)
(* are.                                                                    *)
(***************************************************************************)
CONSTANTS Teacher, Section, Subject, None,
          SameLevel   \* section-subject pairs of one class level

VARIABLE subjects   \* the subjects that exist
=============================================================================
