---------------------------- MODULE MCRetirement ----------------------------
(* Instances of Retirement for TLC.                                        *)
EXTENDS Retirement

CONSTANTS d1, r1
=============================================================================
