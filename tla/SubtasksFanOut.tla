--------------------------- MODULE SubtasksFanOut ---------------------------
(***************************************************************************)
(* Subtasks implements FanOut: as long as messages are delivered once, no  *)
(* worker dies and the row can be updated within MaxDbRetries attempts.    *)
(***************************************************************************)
EXTENDS Subtasks

Abstract == INSTANCE FanOut WITH
    mailed <- delivered,
    settled <- {s \in Subtasks : Ready(s)},
    report <- [n \in {"succeeded", "failed", "skipped"} |-> entry.progress[n]],
    success <- entry.task_state = "SUCCESS"

\* All the retrying, locking and counting amounts to FanOut: each step of a
\* worker is a step of FanOut or changes nothing there, and the email ends.
ImplementsFanOut == Abstract!Spec
=============================================================================
