---------------------------- MODULE MCCourseIndex ---------------------------
(* Instances of CourseIndex for TLC.                                       *)
EXTENDS CourseIndex, TLC

CONSTANTS w1, w2

BulksOf == (w1 :> 1) @@ (w2 :> 2)
=============================================================================
