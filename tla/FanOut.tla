------------------------------- MODULE FanOut -------------------------------
(***************************************************************************)
(* What a bulk email promises its sender, without workers, messages, locks *)
(* or retries: recipients are mailed one at a time, each at most once; the *)
(* recipients of a chunk are settled together, when its work is over; and  *)
(* the task counts what was settled and succeeds with the last chunk.  A   *)
(* recipient is a row of a query, which may list a person twice.           *)
(***************************************************************************)
EXTENDS Naturals, FiniteSetsExt, SequencesExt

CONSTANTS Subtasks, Recipients, Person, Chunk

VARIABLES
    mailed,     \* how often each recipient was mailed
    settled,    \* the chunks whose work is over
    report,     \* how many recipients were mailed, were not, or were left out
    success     \* whether the task is reported as done

vars == <<mailed, settled, report, success>>

Reports == [succeeded : Nat, failed : Nat, skipped : Nat]

Init ==
    /\ mailed = [r \in Recipients |-> 0]
    /\ settled = {}
    /\ report = [succeeded |-> 0, failed |-> 0, skipped |-> 0]
    /\ success = FALSE

Mail(r) ==
    /\ \E s \in Subtasks \ settled : r \in ToSet(Chunk[s])
    /\ mailed[r] = 0
    /\ mailed' = [mailed EXCEPT ![r] = 1]
    /\ UNCHANGED <<settled, report, success>>

\* No person is listed twice in the chunk.
ListedOnce(s) == IsInjective([i \in DOMAIN Chunk[s] |-> Person[Chunk[s][i]]])

\* The recipients of s that were not mailed have failed or were left out; a
\* person who is listed twice and left out may be counted once.
Settle(s) ==
    LET good == Quantify(ToSet(Chunk[s]), LAMBDA r : mailed[r] = 1)
        bad == Len(Chunk[s]) - good
    IN  /\ s \notin settled
        /\ settled' = settled \cup {s}
        /\ success' = (settled' = Subtasks)
        /\ \E skipped, failed \in 0 .. bad :
              /\ skipped + failed <= bad
              /\ ListedOnce(s) => skipped + failed = bad
              /\ report' = [succeeded |-> report.succeeded + good,
                            skipped |-> report.skipped + skipped,
                            failed |-> report.failed + failed]
        /\ UNCHANGED mailed

Next == (\E r \in Recipients : Mail(r)) \/ (\E s \in Subtasks : Settle(s))

Spec == Init /\ [][Next]_vars /\ WF_vars(\E s \in Subtasks : Settle(s))
=============================================================================
