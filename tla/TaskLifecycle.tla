---------------------------- MODULE TaskLifecycle ----------------------------
(***************************************************************************)
(* The life of InstructorTask rows: requests submit tasks or schedule      *)
(* them, a periodic command submits the scheduled ones that are due,       *)
(* course staff cancel or postpone them, Celery workers run them, status   *)
(* polls and operators touch them up.                                      *)
(*                                                                         *)
(* All the tasks of the model have the same course, type and key, so that  *)
(* submit_task keeps them apart.  Every save() writes the whole row as it  *)
(* was read, with some columns changed; a row is its state and what it     *)
(* says of its subtasks.  Celery may hand out a message again.  Module     *)
(* Delegation looks inside the work of a task with subtasks, which is one  *)
(* step here.                                                              *)
(***************************************************************************)
EXTENDS Naturals, FiniteSets

CONSTANTS
    Tasks,           \* the tasks that may be asked for
    Later,           \* those that are asked for with a schedule
    Workers,         \* the Celery worker processes
    Editors,         \* requests to cancel or to postpone a scheduled task
    Delegates,       \* whether the tasks create subtasks: bulk email does
    MaxPublished,    \* bound: messages published for one task
    Faults,          \* bound: how often each fault of FaultKinds may happen
    MaxKinds         \* bound: how many kinds of fault may happen

\* What may go wrong, each bounded by Faults:
\*   publish   the broker refuses a message;
\*   redeliver the broker hands out a message and keeps a copy of it;
\*   raise     the work of a task raises;
\*   store     a task's schedule cannot be stored;
\*   crash     a worker process dies;
\*   fail_old  an operator runs fail_old_tasks;
\*   revoke    an operator revokes a task at Celery.
FaultKinds ==
    {"publish", "redeliver", "raise", "store", "crash", "fail_old", "revoke"}

ASSUME TaskLifecycleAssumption ==
    /\ Later \subseteq Tasks
    /\ Delegates \in BOOLEAN
    /\ MaxPublished \in Nat
    /\ Faults \in [FaultKinds -> Nat]
    /\ MaxKinds \in Nat

READY_STATES == {"SUCCESS", "FAILURE", "REVOKED"}
States == READY_STATES \cup {"QUEUING", "PROGRESS", "SCHEDULED"}

VARIABLES
    row,         \* the InstructorTask rows
    schedule,    \* the InstructorTaskSchedule rows: whether each is due
    request,     \* the request that asks for each task
    messages,    \* the broker: how many messages there are for each task
    worker,      \* what each worker is doing
    atWork,      \* the tasks with subtasks that have still to report
    cron,        \* what process_scheduled_instructor_tasks is doing
    editor,      \* what each request to edit a schedule is doing
    revoked,     \* the tasks that Celery has been told to revoke
    discarded,   \* those of them whose result says so
    poll,        \* what a request for the status of a task is doing
    faults,      \* how many faults of each kind may still happen
    published,   \* history: how many messages were published for each task
    cancelled,   \* history: the tasks whose cancellation was confirmed
    tainted      \* history: the accidents at Taint, with their tasks

vars == <<row, schedule, request, messages, worker, atWork, cron, editor,
          revoked, discarded, poll, faults, published, cancelled, tainted>>

\* The parts of the state that most actions leave alone.
edits == <<schedule, cron, editor, cancelled>>
operators == <<revoked, discarded, poll>>

-----------------------------------------------------------------------------
(* Rows                                                                    *)

None == "none"
NoRow == [state |-> None, subtasks |-> "none"]
NewRow == [state |-> "QUEUING", subtasks |-> "none"]

\* A row with subtasks waits for them until the last has reported, or until its
\* task_output, with the counters that a report adds to, has been written over.
Rows == [state : States \cup {None},
         subtasks : {"none", "open", "over", "lost"}]

\* _task_is_running
TaskIsRunning(r) == r.state \notin READY_STATES \cup {None}

\* One read of a row, with a later save() of it in mind.
Idle == [pc |-> "idle"]
Doing(pc, t) == [pc |-> pc, task |-> t, seen |-> row[t]]

\* With the states FAILURE and REVOKED, a message is saved in task_output.
SubtasksOf(seen, state) ==
    IF seen.subtasks = "open" /\ state \in {"FAILURE", "REVOKED"} THEN "lost"
    ELSE seen.subtasks

\* instance.save() with another state.
SaveAs(t, seen, state) ==
    row' = [row EXCEPT ![t] = [state |-> state,
                               subtasks |-> SubtasksOf(seen, state)]]

Spend(kind) ==
    LET met == {k \in FaultKinds : faults[k] < Faults[k]}
    IN  /\ faults[kind] > 0
        /\ Cardinality(met \cup {kind}) <= MaxKinds
        /\ faults' = [faults EXCEPT ![kind] = @ - 1]

\* The accidents:
\*   raced        the request created its task after another one that its check
\*                for running tasks came too early to see             (Create)
\*   doubled      the command finds a task still SCHEDULED that it has submitted
\*                before, because no worker has saved it yet        (CronScan)
\*   late         a task is cancelled or postponed that was scheduled when the
\*                editor looked, but has been found due since
\*                                                         (Cancel, Postpone)
\*   redelivered  Celery hands out a message of the task again       (Receive)
\*   revived      a run saves PROGRESS over the state of a task that has ended
\*                                                              (Mark, Work)
\*   erased       a save writes over what the row says of its subtasks with
\*                what it said before
\*                               (Mark, Finish, CronFails, Cancel, PollSave)
\*   hand         an operator interfered                      (FailOld, Revoke)
Accidents ==
    {"raced", "doubled", "late", "redelivered", "revived", "erased", "hand"}
Taint(kind, ts) == tainted' = tainted \cup ({kind} \X ts)
Met(kind, t) == <<kind, t>> \in tainted
Clean(t) == \A kind \in Accidents : ~Met(kind, t)

Revived(t) == IF row[t].state \in READY_STATES THEN {<<"revived", t>>} ELSE {}
Erased(t, seen) ==
    IF seen.subtasks # row[t].subtasks THEN {<<"erased", t>>} ELSE {}

Init ==
    /\ row = [t \in Tasks |-> NoRow]
    /\ schedule = [t \in Tasks |-> None]
    /\ request = [t \in Tasks |-> [pc |-> "start"]]
    /\ messages = [t \in Tasks |-> 0]
    /\ worker = [w \in Workers |-> Idle]
    /\ atWork = {}
    /\ cron = [todo |-> {}, doing |-> Idle]
    /\ editor = [d \in Editors |-> Idle]
    /\ revoked = {}
    /\ discarded = {}
    /\ poll = Idle
    /\ faults = Faults
    /\ published = [t \in Tasks |-> 0]
    /\ cancelled = {}
    /\ tainted = {}

-----------------------------------------------------------------------------
(* submit_task                                                             *)

\* Mutant of CheckRunning: tasks that have not been started do not count.
CheckInProgress(t) ==
    /\ t \notin Later
    /\ request[t].pc = "start"
    /\ request' = [request EXCEPT ![t] =
          IF \E u \in Tasks : row[u].state = "PROGRESS"
          THEN [pc |-> "refused"]
          ELSE [pc |-> "create", known |-> {u \in Tasks : row[u] # NoRow}]]
    /\ UNCHANGED <<row, messages, worker, atWork, faults, published, tainted>>
    /\ UNCHANGED edits /\ UNCHANGED operators

\* _reserve_task up to the check: AlreadyRunningError, or go on.
CheckRunning(t) ==
    /\ t \notin Later
    /\ request[t].pc = "start"
    /\ request' = [request EXCEPT ![t] =
          IF \E u \in Tasks : TaskIsRunning(row[u])
          THEN [pc |-> "refused"]
          ELSE [pc |-> "create", known |-> {u \in Tasks : row[u] # NoRow}]]
    /\ UNCHANGED <<row, messages, worker, atWork, faults, published, tainted>>
    /\ UNCHANGED edits /\ UNCHANGED operators

\* InstructorTask.create, and the transaction commits.
Create(t) ==
    /\ request[t].pc = "create"
    /\ row' = [row EXCEPT ![t] = NewRow]
    /\ request' = [request EXCEPT ![t] = [pc |-> "publish"]]
    /\ LET unknown == Tasks \ request[t].known
       IN  Taint("raced", IF \E u \in unknown : TaskIsRunning(row[u])
                          THEN {t} ELSE {})
    /\ UNCHANGED <<messages, worker, atWork, faults, published>>
    /\ UNCHANGED edits /\ UNCHANGED operators

Publish(t) ==
    /\ messages' = [messages EXCEPT ![t] = @ + 1]
    /\ published' = [published EXCEPT ![t] = @ + 1]

\* task_class.apply_async
Submit(t) ==
    /\ request[t].pc = "publish"
    /\ Publish(t)
    /\ request' = [request EXCEPT ![t] = [pc |-> "done"]]
    /\ UNCHANGED <<row, worker, atWork, faults, tainted>>
    /\ UNCHANGED edits /\ UNCHANGED operators

\* apply_async raises: _handle_instructor_task_failure saves the new row.
SubmitFails(t) ==
    /\ request[t].pc = "publish"
    /\ Spend("publish")
    /\ SaveAs(t, NewRow, "FAILURE")
    /\ request' = [request EXCEPT ![t] = [pc |-> "failed"]]
    /\ UNCHANGED <<messages, worker, atWork, published, tainted>>
    /\ UNCHANGED edits /\ UNCHANGED operators

-----------------------------------------------------------------------------
(* schedule_task                                                           *)

\* The row is created without a check, its schedule is stored, and the row is
\* saved once more.
Reserve(t) ==
    /\ t \in Later
    /\ request[t].pc = "start"
    /\ row' = [row EXCEPT ![t] = NewRow]
    /\ request' = [request EXCEPT ![t] = [pc |-> "store"]]
    /\ UNCHANGED <<messages, worker, atWork, faults, published, tainted>>
    /\ UNCHANGED edits /\ UNCHANGED operators

StoreSchedule(t) ==
    /\ request[t].pc = "store"
    /\ schedule' = [schedule EXCEPT ![t] = "future"]
    /\ request' = [request EXCEPT ![t] = [pc |-> "save"]]
    /\ UNCHANGED <<row, messages, worker, atWork, cron, editor, faults,
                   published, cancelled, tainted>>
    /\ UNCHANGED operators

SaveScheduled(t) ==
    /\ request[t].pc = "save"
    /\ SaveAs(t, NewRow, "SCHEDULED")
    /\ request' = [request EXCEPT ![t] = [pc |-> "done"]]
    /\ UNCHANGED <<messages, worker, atWork, faults, published, tainted>>
    /\ UNCHANGED edits /\ UNCHANGED operators

\* Either of the last two steps raises.
ScheduleFails(t) ==
    /\ request[t].pc \in {"store", "save"}
    /\ Spend("store")
    /\ SaveAs(t, NewRow, "FAILURE")
    /\ request' = [request EXCEPT ![t] = [pc |-> "failed"]]
    /\ UNCHANGED <<messages, worker, atWork, published, tainted>>
    /\ UNCHANGED edits /\ UNCHANGED operators

Elapse(t) ==
    /\ schedule[t] = "future"
    /\ schedule' = [schedule EXCEPT ![t] = "due"]
    /\ UNCHANGED <<row, request, messages, worker, atWork, cron, editor,
                   faults, published, cancelled, tainted>>
    /\ UNCHANGED operators

-----------------------------------------------------------------------------
(* process_scheduled_instructor_tasks                                      *)

At(who, t) == who.pc # "idle" /\ who.task = t
InHand(t) == messages[t] > 0 \/ \E w \in Workers : At(worker[w], t)

\* Mutant of Due: whatever is due, in any state.
DueInAnyState == {t \in Tasks : schedule[t] = "due"}

Due == {t \in Tasks : row[t].state = "SCHEDULED" /\ schedule[t] = "due"}

\* The query that finds the schedules that are due.
CronScan ==
    /\ cron = [todo |-> {}, doing |-> Idle]
    /\ Due # {}
    /\ \A t \in Due : published[t] < MaxPublished
    /\ cron' = [cron EXCEPT !.todo = Due]
    /\ Taint("doubled", {t \in Due : InHand(t)})
    /\ UNCHANGED <<row, schedule, request, messages, worker, atWork, editor,
                   faults, published, cancelled>>
    /\ UNCHANGED operators

\* submit_scheduled_task reads the row; its state is not looked at again.
CronTake(t) ==
    /\ cron.doing = Idle
    /\ t \in cron.todo
    /\ cron' = [todo |-> cron.todo \ {t}, doing |-> Doing("submit", t)]
    /\ UNCHANGED <<row, schedule, request, messages, worker, atWork, editor,
                   faults, published, cancelled, tainted>>
    /\ UNCHANGED operators

CronSubmit ==
    /\ cron.doing # Idle
    /\ Publish(cron.doing.task)
    /\ cron' = [cron EXCEPT !.doing = Idle]
    /\ UNCHANGED <<row, schedule, request, worker, atWork, editor, faults,
                   cancelled, tainted>>
    /\ UNCHANGED operators

CronFails ==
    /\ cron.doing # Idle
    /\ Spend("publish")
    /\ SaveAs(cron.doing.task, cron.doing.seen, "FAILURE")
    /\ cron' = [cron EXCEPT !.doing = Idle]
    /\ tainted' = tainted \cup Erased(cron.doing.task, cron.doing.seen)
    /\ UNCHANGED <<schedule, request, messages, worker, atWork, editor,
                   published, cancelled>>
    /\ UNCHANGED operators

-----------------------------------------------------------------------------
(* ModifyScheduledBulkEmailInstructorTask                                  *)

\* The view reads the schedule and the row, and _verify_task_state.
Look(d, t) ==
    /\ editor[d] = Idle
    /\ schedule[t] # None
    /\ row[t].state = "SCHEDULED"
    /\ \E pc \in {"cancel", "postpone"} :
          editor' = [editor EXCEPT ![d] = Doing(pc, t)]
    /\ UNCHANGED <<row, schedule, request, messages, worker, atWork, cron,
                   faults, published, cancelled, tainted>>
    /\ UNCHANGED operators

Late(t, seen) ==
    IF t \in cron.todo \/ At(cron.doing, t) \/ published[t] > 0 \/ row[t] # seen
    THEN {<<"late", t>>} ELSE {}

\* destroy: the row is saved as REVOKED, then the schedule is deleted.
Cancel(d) ==
    LET t == editor[d].task
    IN  /\ editor[d].pc = "cancel"
        /\ SaveAs(t, editor[d].seen, "REVOKED")
        /\ editor' = [editor EXCEPT ![d].pc = "delete"]
        /\ tainted' = tainted \cup Late(t, editor[d].seen)
                              \cup Erased(t, editor[d].seen)
        /\ UNCHANGED <<schedule, request, messages, worker, atWork, cron,
                       faults, published, cancelled>>
        /\ UNCHANGED operators

Delete(d) ==
    LET t == editor[d].task
    IN  /\ editor[d].pc = "delete"
        /\ schedule' = [schedule EXCEPT ![t] = None]
        /\ cancelled' = cancelled \cup {t}
        /\ editor' = [editor EXCEPT ![d] = Idle]
        /\ UNCHANGED <<row, request, messages, worker, atWork, cron, faults,
                       published, tainted>>
        /\ UNCHANGED operators

\* patch: the schedule is saved with another date, which creates it anew if it
\* has been deleted.
Postpone(d) ==
    LET t == editor[d].task
    IN  /\ editor[d].pc = "postpone"
        /\ schedule' = [schedule EXCEPT ![t] = "future"]
        /\ editor' = [editor EXCEPT ![d] = Idle]
        /\ tainted' = tainted \cup Late(t, editor[d].seen)
        /\ UNCHANGED <<row, request, messages, worker, atWork, cron, faults,
                       published, cancelled>>
        /\ UNCHANGED operators

-----------------------------------------------------------------------------
(* run_main_task and BaseInstructorTask                                    *)

SetWorker(w, r) == worker' = [worker EXCEPT ![w] = r]

\* A message is taken, or handed out and kept, and the row is read.
Receive(w, t) ==
    /\ worker[w] = Idle
    /\ messages[t] > 0
    /\ t \notin revoked
    /\ \/ /\ messages' = [messages EXCEPT ![t] = @ - 1]
          /\ UNCHANGED <<faults, tainted>>
       \/ /\ Spend("redeliver")
          /\ Taint("redelivered", {t})
          /\ UNCHANGED messages
    /\ SetWorker(w, Doing("mark", t))
    /\ UNCHANGED <<row, request, published, atWork>>
    /\ UNCHANGED edits /\ UNCHANGED operators

\* The row is saved in state PROGRESS, whatever state it had.
Mark(w) ==
    LET t == worker[w].task
    IN  /\ worker[w].pc = "mark"
        /\ SaveAs(t, worker[w].seen, "PROGRESS")
        /\ tainted' = tainted \cup Revived(t) \cup Erased(t, worker[w].seen)
        /\ SetWorker(w, [worker[w] EXCEPT !.pc = "work"])
        /\ UNCHANGED <<request, messages, faults, published, atWork>>
        /\ UNCHANGED edits /\ UNCHANGED operators

\* initialize_subtask_info saves the row as it was read again, and the subtasks
\* are published.
Delegate(t) ==
    /\ row' = [row EXCEPT ![t] = [state |-> "PROGRESS", subtasks |-> "open"]]
    /\ atWork' = atWork \cup {t}
    /\ tainted' = tainted \cup Revived(t)

\* task_fcn returns.
Work(w) ==
    LET t == worker[w].task
    IN  /\ worker[w].pc = "work"
        /\ IF Delegates /\ row[t].subtasks = "none" THEN Delegate(t)
           ELSE UNCHANGED <<row, atWork, tainted>>
        /\ SetWorker(w, [worker[w] EXCEPT !.pc = "on_success"])
        /\ discarded' = discarded \ {t}
        /\ UNCHANGED <<request, messages, revoked, poll, faults, published>>
        /\ UNCHANGED edits

WorkRaises(w) ==
    /\ worker[w].pc = "work"
    /\ Spend("raise")
    /\ SetWorker(w, [worker[w] EXCEPT !.pc = "on_failure"])
    /\ discarded' = discarded \ {worker[w].task}
    /\ UNCHANGED <<row, request, messages, revoked, poll, published, tainted,
                   atWork>>
    /\ UNCHANGED edits

\* Mutant of Handle: on_success does not look for subtasks.
HandleWithoutLooking(w) ==
    /\ worker[w].pc \in {"on_success", "on_failure"}
    /\ SetWorker(w, IF worker[w].pc = "on_success"
                    THEN Doing("succeed", worker[w].task)
                    ELSE Doing("fail", worker[w].task))
    /\ UNCHANGED <<row, request, messages, faults, published, tainted, atWork>>
    /\ UNCHANGED edits /\ UNCHANGED operators

\* on_success and on_failure read the row; on_success leaves a task that has
\* subtasks to them.
Handle(w) ==
    LET t == worker[w].task
    IN  /\ worker[w].pc \in {"on_success", "on_failure"}
        /\ SetWorker(w, IF worker[w].pc = "on_failure" THEN Doing("fail", t)
                        ELSE IF row[t].subtasks = "none" THEN Doing("succeed", t)
                        ELSE Idle)
        /\ UNCHANGED <<row, request, messages, faults, published, tainted,
                       atWork>>
        /\ UNCHANGED edits /\ UNCHANGED operators

Finish(w) ==
    /\ worker[w].pc \in {"succeed", "fail"}
    /\ SaveAs(worker[w].task, worker[w].seen,
              IF worker[w].pc = "succeed" THEN "SUCCESS" ELSE "FAILURE")
    /\ tainted' = tainted \cup Erased(worker[w].task, worker[w].seen)
    /\ SetWorker(w, Idle)
    /\ UNCHANGED <<request, messages, faults, published, atWork>>
    /\ UNCHANGED edits /\ UNCHANGED operators

\* The last of the published subtasks reports.  update_subtask_status raises if
\* the row does not know the subtask or has lost the counters.
SubtasksFinish(t) ==
    /\ t \in atWork
    /\ atWork' = atWork \ {t}
    /\ row' = IF row[t].subtasks = "open"
              THEN [row EXCEPT ![t] = [state |-> "SUCCESS", subtasks |-> "over"]]
              ELSE row
    /\ UNCHANGED <<request, messages, worker, faults, published, tainted>>
    /\ UNCHANGED edits /\ UNCHANGED operators

\* A worker throws away the message of a revoked task.
Discard(t) ==
    /\ messages[t] > 0
    /\ t \in revoked
    /\ messages' = [messages EXCEPT ![t] = @ - 1]
    /\ discarded' = discarded \cup {t}
    /\ UNCHANGED <<row, request, worker, atWork, revoked, poll, faults,
                   published, tainted>>
    /\ UNCHANGED edits

-----------------------------------------------------------------------------
(* get_updated_instructor_task                                             *)

\* The row is read; a task that is not known to be over is looked up.
PollRead(t) ==
    /\ poll = Idle
    /\ TaskIsRunning(row[t])
    /\ poll' = Doing("look", t)
    /\ UNCHANGED <<row, request, messages, worker, atWork, revoked, discarded,
                   faults, published, tainted>>
    /\ UNCHANGED edits

\* Mutant of PollSave: the row is updated in memory only.
PollOnly ==
    /\ poll # Idle
    /\ poll' = Idle
    /\ UNCHANGED <<row, request, messages, worker, atWork, revoked, discarded,
                   faults, published, tainted>>
    /\ UNCHANGED edits

\* Mutant of PollSave: the row is saved whatever the result is.
PollAlwaysSaves ==
    LET t == poll.task
    IN  /\ poll # Idle
        /\ SaveAs(t, poll.seen,
                  IF t \in discarded THEN "REVOKED" ELSE poll.seen.state)
        /\ tainted' = tainted \cup Erased(t, poll.seen)
        /\ poll' = Idle
        /\ UNCHANGED <<request, messages, worker, atWork, revoked, discarded,
                       faults, published>>
        /\ UNCHANGED edits

\* _update_instructor_task saves the row only if the result is REVOKED, and
\* does not believe the result of a task whose subtasks are at work.
PollSave ==
    LET t == poll.task
    IN  /\ poll # Idle
        /\ IF t \in discarded /\ ~(/\ poll.seen.state = "PROGRESS"
                                   /\ poll.seen.subtasks # "none")
           THEN /\ SaveAs(t, poll.seen, "REVOKED")
                /\ tainted' = tainted \cup Erased(t, poll.seen)
           ELSE UNCHANGED <<row, tainted>>
        /\ poll' = Idle
        /\ UNCHANGED <<request, messages, worker, atWork, revoked, discarded,
                       faults, published>>
        /\ UNCHANGED edits

-----------------------------------------------------------------------------
(* Operators and crashes                                                   *)

\* fail_old_tasks: one UPDATE of the rows in the given state and time span.
FailOld(ts, state) ==
    /\ ts # {}
    /\ \A t \in ts : row[t].state = state
    /\ Spend("fail_old")
    /\ row' = [t \in Tasks |->
                  IF t \in ts THEN [row[t] EXCEPT !.state = "FAILURE"] ELSE row[t]]
    /\ Taint("hand", ts)
    /\ UNCHANGED <<request, messages, worker, atWork, published>>
    /\ UNCHANGED edits /\ UNCHANGED operators

Revoke(t) ==
    /\ row[t] # NoRow
    /\ t \notin revoked
    /\ Spend("revoke")
    /\ revoked' = revoked \cup {t}
    /\ Taint("hand", {t})
    /\ UNCHANGED <<row, request, messages, worker, atWork, discarded, poll,
                   published>>
    /\ UNCHANGED edits

Crash(w) ==
    /\ worker[w] # Idle
    /\ Spend("crash")
    /\ SetWorker(w, Idle)
    /\ UNCHANGED <<row, request, messages, published, tainted, atWork>>
    /\ UNCHANGED edits /\ UNCHANGED operators

-----------------------------------------------------------------------------
(* The specification                                                       *)

Request(t) ==
    \/ CheckRunning(t) \/ Create(t) \/ Submit(t) \/ SubmitFails(t)
    \/ Reserve(t) \/ StoreSchedule(t) \/ SaveScheduled(t) \/ ScheduleFails(t)

Cron == CronScan \/ (\E t \in Tasks : CronTake(t)) \/ CronSubmit \/ CronFails

Edit(d) ==
    (\E t \in Later : Look(d, t)) \/ Cancel(d) \/ Delete(d) \/ Postpone(d)

Run(w) ==
    \/ Mark(w) \/ Work(w) \/ WorkRaises(w) \/ Handle(w) \/ Finish(w)

Poll == (\E t \in Tasks : PollRead(t)) \/ PollSave

Operate ==
    \/ \E ts \in SUBSET Tasks, state \in {"QUEUING", "PROGRESS"} :
          FailOld(ts, state)
    \/ \E t \in Tasks : Revoke(t)
    \/ \E w \in Workers : Crash(w)

Next ==
    \/ \E t \in Tasks : Request(t) \/ Elapse(t) \/ SubtasksFinish(t) \/ Discard(t)
    \/ \E w \in Workers : Run(w) \/ (\E t \in Tasks : Receive(w, t))
    \/ \E d \in Editors : Edit(d)
    \/ Cron \/ Poll \/ Operate

Spec == Init /\ [][Next]_vars

\* Requests and workers run on, every message is received, time passes, the
\* command is run again and again, and so is the status of each task asked for.
FairSpec ==
    /\ Spec
    /\ \A t \in Tasks :
          /\ WF_vars(Create(t) \/ Submit(t) \/ SubmitFails(t))
          /\ WF_vars(StoreSchedule(t) \/ SaveScheduled(t) \/ ScheduleFails(t))
          /\ WF_vars(Elapse(t))
          /\ WF_vars(SubtasksFinish(t))
          /\ WF_vars(Discard(t) \/ \E w \in Workers : Receive(w, t))
          /\ WF_vars(CronTake(t))
          /\ SF_vars(PollRead(t))
    /\ \A w \in Workers : WF_vars(Run(w))
    /\ WF_vars(CronScan)
    /\ WF_vars(CronSubmit \/ CronFails)
    /\ WF_vars(PollSave)
-----------------------------------------------------------------------------
(* Properties                                                              *)

Ready(t) == row[t].state \in READY_STATES

\* Every variable stays in its range.
TypeOK ==
    LET Reads(pcs) == [pc : pcs, task : Tasks, seen : Rows] \cup {Idle}
    IN  /\ row \in [Tasks -> Rows]
        /\ schedule \in [Tasks -> {None, "future", "due"}]
        /\ \A t \in Tasks :
              request[t].pc \in {"start", "create", "publish", "store", "save",
                                 "done", "refused", "failed"}
        /\ messages \in [Tasks -> Nat]
        /\ worker \in [Workers -> Reads({"mark", "work", "on_success",
                                         "on_failure", "succeed", "fail"})]
        /\ atWork \subseteq Tasks
        /\ cron.todo \subseteq Tasks
        /\ cron.doing \in Reads({"submit"})
        /\ editor \in [Editors -> Reads({"cancel", "delete", "postpone"})]
        /\ discarded \subseteq Tasks
        /\ revoked \subseteq Tasks
        /\ poll \in Reads({"look"})
        /\ faults \in [FaultKinds -> Nat]
        /\ published \in [Tasks -> 0 .. MaxPublished + 1]
        /\ cancelled \subseteq Tasks
        /\ tainted \subseteq Accidents \X Tasks

\* _reserve_task lets one task of a key be at work at a time, among those that
\* are submitted at once; unless two requests race, as its docstring admits, or a
\* run has set a task to PROGRESS that had ended: one that Celery has handed out
\* again, or that an operator had written off while it was at work.
OneAtATime ==
    LET Steady(t) == ~Met("raced", t) /\ ~Met("revived", t)
    IN  \A t, u \in Tasks \ Later :
            /\ Steady(t) /\ Steady(u)
            /\ TaskIsRunning(row[t]) /\ TaskIsRunning(row[u])
            => t = u

\* A schedule that was cancelled or postponed in time is neither submitted nor
\* run: not after the answer to the request to cancel it, and not before the
\* new date.
EditsAreObeyed ==
    \A t \in Tasks :
        ~Met("late", t) /\ (t \in cancelled \/ schedule[t] = "future") =>
            /\ ~InHand(t)
            /\ ~At(cron.doing, t) /\ t \notin cron.todo

\* A task that has ended stays in the state it ended in, whoever has read its row
\* before and saves it later: no request, poll or subtask changes it.  What may
\* change it is a run of a message that Celery has handed out again, because
\* run_main_task saves PROGRESS over any state, and a second submission by the
\* command.
FinalIsFinal ==
    [][\A t \in Tasks :
          /\ Ready(t) /\ row'[t].state # row[t].state
          /\ ~Met("late", t)' /\ ~Met("hand", t)'
          => \/ /\ Met("redelivered", t) \/ Met("doubled", t)
                /\ \E w \in Workers : At(worker[w], t) /\ Run(w)
             \/ Met("doubled", t) /\ CronFails]_vars

\* A task is not successful while its subtasks are at work, however often it is
\* run; unless the save of a run, the command, an editor or a poll has written
\* over what the row said of the subtasks.
SuccessIsOver ==
    \A t \in Tasks :
        row[t].state = "SUCCESS" /\ ~Met("erased", t) => t \notin atWork

WorkerDied == faults["crash"] < Faults["crash"]

\* Without an accident of those at Taint, a submitted task waits in one message
\* or is run by one worker, and only if its request was answered without an
\* error.  It is submitted once; only a scheduled task is submitted again, after
\* a worker has died, which leaves it SCHEDULED if the worker had its message and
\* had not saved its row.
SubmittedOnce ==
    \A t \in Tasks : Clean(t) =>
        /\ messages[t] + Cardinality({w \in Workers : At(worker[w], t)}) <= 1
        /\ published[t] > 0 => request[t].pc = "done"
        /\ published[t] > 1 => t \in Later /\ WorkerDied

\* Every task that is asked for ends, or is refused: refused and redelivered
\* messages and revoked tasks included; unless a run saves PROGRESS over its
\* end, a save writes over what its row says of its subtasks, or it is postponed
\* again and again.
AllSettle ==
    \A t \in Tasks :
        \/ <>[](\/ Ready(t) \/ row[t] = NoRow
                \/ Met("revived", t) \/ Met("erased", t))
        \/ []<>(schedule[t] = "future")
=============================================================================
