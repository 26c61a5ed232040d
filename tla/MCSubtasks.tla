----------------------------- MODULE MCSubtasks -----------------------------
(* Instances of Subtasks for TLC.                                          *)
EXTENDS SubtasksFanOut, TLC

CONSTANTS s1, s2, r1, r2, r3, p1, p2, w1, w2

\* Two chunks, one of two recipients and one of a single recipient.
TwoChunks == (s1 :> <<r1, r2>>) @@ (s2 :> <<r3>>)
\* One chunk of two recipients.
PairChunk == s1 :> <<r1, r2>>

\* One of two persons has a row in each chunk, or has both rows of the chunk.
TwoPersons == (r1 :> p1) @@ (r2 :> p2) @@ (r3 :> p1)
OnePerson == (r1 :> p1) @@ (r2 :> p1)

NoFaults == [k \in FaultKinds |-> 0]
FaultsOf(f) == f @@ NoFaults

\* Each of the accidents at Taints can happen.
Accidents == FaultsOf([redeliver |-> 1, dberror |-> 1, crash |-> 1, expire |-> 1])
\* Trouble that must not keep the task from its end.
Recoverable == FaultsOf([redeliver |-> 1, dberror |-> 1, unexpected |-> 1])
Transient == FaultsOf([dberror |-> 1, publish |-> 1])

Symmetry == Permutations(Workers)
=============================================================================
