----------------------------- MODULE MCCohorts -----------------------------
(* Instances of Cohorts for TLC.                                           *)
EXTENDS Cohorts

CONSTANTS c1, c2, r1, r2, r3
=============================================================================
