---------------------------- MODULE MCDelegation ----------------------------
(* Instances of Delegation for TLC.                                        *)
EXTENDS Delegation, TLC

CONSTANTS e1, e2, r1, r2, r3, r4

NoFaults == [k \in FaultKinds |-> 0]
FaultsOf(f) == f @@ NoFaults

\* The parent is delivered twice and everything may fail once.
Redelivery == FaultsOf([redeliver |-> 1, crash |-> 1, error |-> 1, publish |-> 1])
\* The recipients change between the two queries, beside what a parent can
\* recover from.
Changing == FaultsOf([enroll |-> 1, leave |-> 1, error |-> 1, publish |-> 1])

Symmetry3 == Permutations({r1, r2, r3})
=============================================================================
