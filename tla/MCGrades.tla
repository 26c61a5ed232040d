----------------------------- MODULE MCGrades -----------------------------
(* Instances of Grades for TLC.                                            *)
EXTENDS Grades, TLC

CONSTANTS p1, p2, s1, s2, r1, r2, r3

\* A subsection for each problem.
Apart == (p1 :> s1) @@ (p2 :> s2)

Ask1(kind, p, v) == [kind |-> kind, problem |-> p, value |-> v]
\* An answer, another change of scores, and a regrade.  The rescores find a lower
\* score, a higher one, none, or one that is being changed.
Mixed ==
    (r1 :> {Ask1("answer", p1, 1)}) @@
    (r2 :> {Ask1("answer", p2, 1), Ask1("reset", p1, 0),
            Ask1("rescore", p1, 2), Ask1("rescore", p1, 0)}) @@
    (r3 :> {Ask1("course", p1, 0), Ask1("user", p1, 0)})
===========================================================================
