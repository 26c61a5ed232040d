--------------------------- MODULE MCTaskLifecycle ---------------------------
(* Instances of TaskLifecycle for TLC.                                     *)
EXTENDS TaskLifecycle, TLC

CONSTANTS t1, t2, w1, w2, d1, d2

NoFaults == [k \in FaultKinds |-> 0]
FaultsOf(f) == f @@ NoFaults

\* Everything goes wrong once.
Everything == [k \in FaultKinds |-> 1]
\* Trouble after which every task ends nevertheless.
Recoverable ==
    FaultsOf([publish |-> 1, redeliver |-> 1, store |-> 1, revoke |-> 1])

Symmetry == Permutations({w1, w2})
=============================================================================
