---------------------------- MODULE SubtaskEntry ----------------------------
(***************************************************************************)
(* The part of an InstructorTask row that the subtask protocol reads and   *)
(* writes, and the pure functions of instructor_task/subtasks.py over it.  *)
(*                                                                         *)
(* An entry is a record:                                                   *)
(*   task_state  the state of the whole task;                              *)
(*   status      the "status" dictionary of the JSON column "subtasks": a  *)
(*               function from the known subtask ids to their status; the  *)
(*               empty function stands for the empty column;               *)
(*   total, succeeded, failed   the counters of that same column;          *)
(*   progress    the counters of the JSON column "task_output".            *)
(* Times, messages and the column encodings are left out.                  *)
(***************************************************************************)
EXTENDS Naturals, FiniteSets, Sequences, SequencesExt

\* Celery's terminal states, and the others the code stores.
READY_STATES == {"SUCCESS", "FAILURE", "REVOKED"}
UNREADY_STATES == {"QUEUING", "PROGRESS", "RETRY", "SCHEDULED"}
States == READY_STATES \cup UNREADY_STATES

\* The counters a finished subtask adds to the task's own.
StatNames == {"attempted", "succeeded", "failed", "skipped"}

Statuses == [attempted : Nat, succeeded : Nat, failed : Nat, skipped : Nat,
             retried_nomax : Nat, retried_withmax : Nat, state : States]

\* SubtaskStatus.create: no progress yet, waiting to run.
NewStatus == [attempted |-> 0, succeeded |-> 0, failed |-> 0, skipped |-> 0,
              retried_nomax |-> 0, retried_withmax |-> 0, state |-> "QUEUING"]

\* SubtaskStatus.increment, one operator per combination of keywords in use.
AddSucceeded(st, n) ==
    [st EXCEPT !.succeeded = @ + n, !.attempted = @ + n]
AddFailed(st, n) ==
    [st EXCEPT !.failed = @ + n, !.attempted = @ + n]
AddSkipped(st, n) == [st EXCEPT !.skipped = @ + n]
InState(st, state) == [st EXCEPT !.state = state]
RetryNoMax(st) ==
    [st EXCEPT !.retried_nomax = @ + 1, !.state = "RETRY"]
RetryWithMax(st) ==
    [st EXCEPT !.retried_withmax = @ + 1, !.state = "RETRY"]

RetryCount(st) == st.retried_nomax + st.retried_withmax

\* A row whose task has not delegated anything: both JSON columns are empty.
BlankEntry(state) ==
    [task_state |-> state, status |-> <<>>, total |-> 0, succeeded |-> 0,
     failed |-> 0, items |-> 0, progress |-> [n \in StatNames |-> 0]]

\* initialize_subtask_info: the columns are written over, whatever they held.
InitializeSubtaskInfo(ids, items) ==
    [task_state |-> "PROGRESS", status |-> [s \in ids |-> NewStatus],
     total |-> Cardinality(ids), succeeded |-> 0, failed |-> 0,
     items |-> items, progress |-> [n \in StatNames |-> 0]]

\* Mutants of Admits: a finished subtask, or an earlier version of a message
\* that is being retried, is not turned away.
AdmitsFinished(entry, s, st) ==
    /\ s \in DOMAIN entry.status
    /\ entry.status[s].state = "RETRY" =>
           RetryCount(st) >= RetryCount(entry.status[s])
AdmitsEarlier(entry, s, st) ==
    /\ s \in DOMAIN entry.status
    /\ entry.status[s].state \notin READY_STATES

\* The checks that check_subtask_is_valid makes on the row it has read, before
\* it tries the cache lock: the subtask is known, is not finished, and is not
\* being retried by a later version of the message.
Admits(entry, s, st) ==
    /\ s \in DOMAIN entry.status
    /\ entry.status[s].state \notin READY_STATES
    /\ entry.status[s].state = "RETRY" =>
           RetryCount(st) >= RetryCount(entry.status[s])

\* _update_subtask_status, inside its transaction: the old status is written
\* over, a finished one is added to the counters, and the task succeeds when
\* the counters say that no subtask remains.
UpdateSubtaskStatus(entry, s, st) ==
    LET ready == st.state \in READY_STATES
        succeeded == entry.succeeded + (IF st.state = "SUCCESS" THEN 1 ELSE 0)
        failed == entry.failed
                    + (IF ready /\ st.state # "SUCCESS" THEN 1 ELSE 0)
    IN  [entry EXCEPT
            !.status[s] = st,
            !.progress = IF ready THEN [n \in StatNames |-> @[n] + st[n]]
                                  ELSE @,
            !.succeeded = succeeded,
            !.failed = failed,
            !.task_state = IF succeeded + failed >= entry.total
                           THEN "SUCCESS" ELSE @]

\* The rows that know exactly the subtasks ids.
Entries(ids) ==
    [task_state : States,
     status : [ids -> Statuses],
     total : Nat, succeeded : Nat, failed : Nat, items : Nat,
     progress : [StatNames -> Nat]]
=============================================================================
