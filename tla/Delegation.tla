----------------------------- MODULE Delegation -----------------------------
(***************************************************************************)
(* The parent task of one bulk email: send_bulk_course_email, run by       *)
(* run_main_task, which counts the recipients, stores one subtask id per   *)
(* batch in the InstructorTask row and publishes a send_course_email       *)
(* message per batch.  Celery may deliver the parent's message again.      *)
(*                                                                         *)
(* The row is read with get() and written whole with save(), so that a     *)
(* save writes over what others have saved since the get; only the         *)
(* subtasks lock the row while they update it.                             *)
(*                                                                         *)
(* A subtask is a single message here, which is admitted, mails some of    *)
(* its batch and reports; module Subtasks looks inside.                    *)
(***************************************************************************)
EXTENDS SubtaskEntry

CONSTANTS
    Executions,      \* the deliveries of the parent's message
    First,           \* the delivery that submit_task asked for
    Overlap,         \* whether it may be redelivered while it is running
    Recipients,      \* the rows that the query for the recipients may return
    Listed,          \* those it returns at first
    PerTask,         \* settings.BULK_EMAIL_EMAILS_PER_TASK
    Faults           \* bound: how often each fault of FaultKinds may happen

\* What the environment may do, each bounded by Faults:
\*   redeliver    the broker hands out the parent's message again;
\*   crash        the worker that runs the parent task dies;
\*   error        a query or a save of the parent task raises;
\*   publish      the broker refuses a subtask's message;
\*   enroll/leave a row of the query comes or goes: a learner enrolls or leaves,
\*                a user is given or loses a role of the course.
\* The query of a lone staff target returns a row for each role, two of them for
\* a user with both: they are two recipients to all that follows.
FaultKinds == {"redeliver", "crash", "error", "publish", "enroll", "leave"}

ASSUME DelegationAssumption ==
    /\ First \in Executions
    /\ Overlap \in BOOLEAN
    /\ IsFiniteSet(Recipients)
    /\ Listed \subseteq Recipients
    /\ PerTask \in Nat \ {0}
    /\ Faults \in [FaultKinds -> Nat]

VARIABLES
    row,        \* the InstructorTask row, as a record of SubtaskEntry
    run,        \* what each execution of the parent task is doing
    batches,    \* the messages published: by id, the recipients and the state
    listed,     \* the rows that the query returns now
    faults,     \* how many faults of each kind may still happen
    mailed,     \* history: how often each recipient was mailed
    stale       \* history: a save wrote over a row it had not read

vars == <<row, run, batches, listed, faults, mailed, stale>>

-----------------------------------------------------------------------------
(* Executions and rows                                                     *)

\* Where an execution stands: before its first step; about to save PROGRESS;
\* in the parts of perform_delegate_email_batches and of
\* queue_subtasks_for_query; about to read the row in on_success or in
\* on_failure, or to save what these write; at an end.
Busy == {"mark", "load", "count", "define", "query", "publish",
         "on_success", "on_failure", "save_success", "save_failure"}
Ended == {"done", "failed", "dead"}
PCs == {"waiting"} \cup Busy \cup Ended

\* task_output of a task that raised: it has no counters to add to.
NoCounters == <<>>

\* seen is the row as this execution last read it.  total counts the ids it has
\* stored, num the messages it has published, rest the recipients it has still
\* to hand out.
Waiting == [pc |-> "waiting", seen |-> BlankEntry("QUEUING"), counted |-> 0,
            queried |-> {}, total |-> 0, num |-> 0, rest |-> {}]

\* str(uuid4()): an id is never generated twice.
Id(e, i) == <<e, i>>
Ids(e, n) == {Id(e, i) : i \in 1 .. n}

\* len(entry.subtasks) > 0
HasSubtasks(r) == r.status # <<>>

Spend(kind) == faults[kind] > 0 /\ faults' = [faults EXCEPT ![kind] = @ - 1]

Step(e, r) == run' = [run EXCEPT ![e] = r]
Goto(e, pc) == Step(e, [run[e] EXCEPT !.pc = pc])

\* entry.save_now() of a row read earlier, with some columns changed.
Save(e, r) == row' = r /\ stale' = (stale \/ row # run[e].seen)

Init ==
    /\ row = BlankEntry("QUEUING")
    /\ run = [e \in Executions |-> Waiting]
    /\ batches = <<>>
    /\ listed = Listed
    /\ faults = Faults
    /\ mailed = [l \in Recipients |-> 0]
    /\ stale = FALSE

-----------------------------------------------------------------------------
(* run_main_task                                                           *)

\* A worker receives the message and gets the row.
Begin(e) ==
    /\ run[e].pc = "waiting"
    /\ IF e = First THEN UNCHANGED faults
       ELSE Spend("redeliver") /\ run[First].pc # "waiting"
    /\ Overlap \/ \A d \in Executions : run[d].pc \notin Busy
    /\ Step(e, [run[e] EXCEPT !.pc = "mark", !.seen = row])
    /\ UNCHANGED <<row, batches, listed, mailed, stale>>

\* entry.task_state = PROGRESS, whatever it was, and entry.save_now().
Mark(e) ==
    /\ run[e].pc = "mark"
    /\ Save(e, [run[e].seen EXCEPT !.task_state = "PROGRESS"])
    /\ Goto(e, "load")
    /\ UNCHANGED <<batches, listed, faults, mailed>>

-----------------------------------------------------------------------------
(* perform_delegate_email_batches                                          *)

\* Mutant of Load: batches that have been defined are defined once more.
LoadAgain(e) ==
    /\ run[e].pc = "load"
    /\ Step(e, [run[e] EXCEPT !.pc = "count", !.seen = row])
    /\ UNCHANGED <<row, batches, listed, faults, mailed, stale>>

\* The row is read again; subtasks that have been defined stay as they are.
Load(e) ==
    /\ run[e].pc = "load"
    /\ Step(e, [run[e] EXCEPT
                  !.pc = IF HasSubtasks(row) THEN "on_success" ELSE "count",
                  !.seen = row])
    /\ UNCHANGED <<row, batches, listed, faults, mailed, stale>>

\* combined_set.count(); no recipients at all are an error.
Count(e) ==
    /\ run[e].pc = "count"
    /\ IF listed = {} THEN Goto(e, "on_failure")
       ELSE Step(e, [run[e] EXCEPT !.pc = "define",
                                   !.counted = Cardinality(listed)])
    /\ UNCHANGED <<row, batches, listed, faults, mailed, stale>>

\* Any query or save of the task raises: the exception reaches Celery.
Raises(e) ==
    /\ run[e].pc \in {"mark", "load", "count", "define", "query"}
    /\ Spend("error")
    /\ Goto(e, "on_failure")
    /\ UNCHANGED <<row, batches, listed, mailed, stale>>

-----------------------------------------------------------------------------
(* queue_subtasks_for_query                                                *)

\* Mutant of NumberOfSubtasks: one more than the quotient, remainder or not.
OneMoreSubtask(items) == items \div PerTask + 1

\* _get_number_of_subtasks
NumberOfSubtasks(items) ==
    items \div PerTask + (IF items % PerTask > 0 THEN 1 ELSE 0)

\* Mutant of Initialize: the row is not saved before messages are published.
InitializeUnsaved(e) ==
    /\ run[e].pc = "define"
    /\ Step(e, [run[e] EXCEPT !.pc = "query",
                              !.total = NumberOfSubtasks(run[e].counted)])
    /\ UNCHANGED <<row, batches, listed, faults, mailed, stale>>

\* The ids are generated and initialize_subtask_info saves them in the row.
Initialize(e) ==
    LET total == NumberOfSubtasks(run[e].counted)
    IN  /\ run[e].pc = "define"
        /\ Save(e, InitializeSubtaskInfo(Ids(e, total), run[e].counted))
        /\ Step(e, [run[e] EXCEPT !.pc = "query", !.total = total])
        /\ UNCHANGED <<batches, listed, faults, mailed>>

\* The generator's query is executed: other rows than were counted, maybe.
Query(e) ==
    /\ run[e].pc = "query"
    /\ Step(e, [run[e] EXCEPT !.pc = "publish", !.rest = listed,
                              !.queried = listed])
    /\ UNCHANGED <<row, batches, listed, faults, mailed, stale>>

\* Mutant of NextBatches: as many batches as it takes.
NextBatchesUnlimited(r) ==
    IF Cardinality(r.rest) > PerTask THEN kSubset(PerTask, r.rest) ELSE {r.rest}

\* _generate_items_for_subtask yields a full batch when there are further items
\* and this is not the last subtask, and all the items that are left otherwise.
NextBatches(r) ==
    IF Cardinality(r.rest) > PerTask /\ r.num < r.total - 1
    THEN kSubset(PerTask, r.rest) ELSE {r.rest}

\* One turn of the publishing loop; apply_async may raise.
Publish(e) ==
    /\ run[e].pc = "publish"
    /\ run[e].rest # {}
    /\ \E to \in NextBatches(run[e]) :
          /\ Step(e, [run[e] EXCEPT !.rest = @ \ to, !.num = @ + 1])
          /\ batches' = [id \in DOMAIN batches \cup {Id(e, run[e].num + 1)} |->
                            IF id \in DOMAIN batches THEN batches[id]
                            ELSE [to |-> to, state |-> "queued"]]
    /\ UNCHANGED <<row, listed, faults, mailed, stale>>

PublishFails(e) ==
    /\ run[e].pc = "publish"
    /\ run[e].rest # {}
    /\ Spend("publish")
    /\ Goto(e, "on_failure")
    /\ UNCHANGED <<row, batches, listed, mailed, stale>>

\* The loop is over; the progress is returned to Celery.
Return(e) ==
    /\ run[e].pc = "publish"
    /\ run[e].rest = {}
    /\ Goto(e, "on_success")
    /\ UNCHANGED <<row, batches, listed, faults, mailed, stale>>

-----------------------------------------------------------------------------
(* BaseInstructorTask.on_success and .on_failure                           *)

\* Mutant of Handle: on_success does not ask for subtasks.
HandleBlindly(e) ==
    /\ run[e].pc \in {"on_success", "on_failure"}
    /\ Step(e, [run[e] EXCEPT
                  !.pc = IF @ = "on_failure" THEN "save_failure"
                         ELSE "save_success",
                  !.seen = row])
    /\ UNCHANGED <<row, batches, listed, faults, mailed, stale>>

\* The row is read; on_success leaves it to the subtasks when it has any.
Handle(e) ==
    /\ run[e].pc \in {"on_success", "on_failure"}
    /\ Step(e, [run[e] EXCEPT
                  !.pc = IF @ = "on_failure" THEN "save_failure"
                         ELSE IF HasSubtasks(row) THEN "done"
                         ELSE "save_success",
                  !.seen = row])
    /\ UNCHANGED <<row, batches, listed, faults, mailed, stale>>

SaveSuccess(e) ==
    /\ run[e].pc = "save_success"
    /\ Save(e, [run[e].seen EXCEPT !.task_state = "SUCCESS"])
    /\ Goto(e, "done")
    /\ UNCHANGED <<batches, listed, faults, mailed>>

\* task_output is written over with the exception.
SaveFailure(e) ==
    /\ run[e].pc = "save_failure"
    /\ Save(e, [run[e].seen EXCEPT !.task_state = "FAILURE",
                                   !.progress = NoCounters])
    /\ Goto(e, "failed")
    /\ UNCHANGED <<batches, listed, faults, mailed>>

-----------------------------------------------------------------------------
(* The subtasks: send_course_email with update_subtask_status              *)

SetBatch(id, state) == batches' = [batches EXCEPT ![id].state = state]

\* check_subtask_is_valid: the message is turned away unless the row knows the
\* id and has not seen it finish.
Start(id) ==
    /\ batches[id].state = "queued"
    /\ SetBatch(id, IF Admits(row, id, NewStatus) THEN "running" ELSE "refused")
    /\ UNCHANGED <<row, run, listed, faults, mailed, stale>>

\* The report of a run that mailed the recipients in good.
Report(to, good, state) ==
    InState(AddSucceeded(AddFailed(NewStatus, Cardinality(to \ good)),
                         Cardinality(good)), state)

\* _update_subtask_status can record a report: the row still knows the id, and
\* its task_output still has counters.
Records(id) == id \in DOMAIN row.status /\ row.progress # NoCounters

\* The subtask mails its batch and reports; if it cannot, it raises.
Finish(id) ==
    /\ batches[id].state = "running"
    /\ \E good \in SUBSET batches[id].to, state \in {"SUCCESS", "FAILURE"} :
          /\ mailed' = [l \in Recipients |->
                           mailed[l] + (IF l \in good THEN 1 ELSE 0)]
          /\ row' = IF Records(id)
                    THEN UpdateSubtaskStatus(row, id,
                            Report(batches[id].to, good, state))
                    ELSE row
    /\ SetBatch(id, "over")
    /\ UNCHANGED <<run, listed, faults, stale>>

-----------------------------------------------------------------------------
(* The environment                                                         *)

Crash(e) ==
    /\ run[e].pc \in Busy
    /\ Spend("crash")
    /\ Goto(e, "dead")
    /\ UNCHANGED <<row, batches, listed, mailed, stale>>

Enroll(l) ==
    /\ l \notin listed
    /\ Spend("enroll")
    /\ listed' = listed \cup {l}
    /\ UNCHANGED <<row, run, batches, mailed, stale>>

Leave(l) ==
    /\ l \in listed
    /\ Spend("leave")
    /\ listed' = listed \ {l}
    /\ UNCHANGED <<row, run, batches, mailed, stale>>

-----------------------------------------------------------------------------
(* The specification                                                       *)

Execute(e) ==
    \/ Mark(e) \/ Load(e) \/ Count(e) \/ Raises(e)
    \/ Initialize(e) \/ Query(e) \/ Publish(e) \/ PublishFails(e) \/ Return(e)
    \/ Handle(e) \/ SaveSuccess(e) \/ SaveFailure(e)

Environment ==
    \/ \E e \in Executions : Crash(e)
    \/ \E l \in Recipients : Enroll(l) \/ Leave(l)

Next ==
    \/ \E e \in Executions : Begin(e) \/ Execute(e)
    \/ \E id \in DOMAIN batches : Start(id) \/ Finish(id)
    \/ Environment

Spec == Init /\ [][Next]_vars

\* The first delivery is handed out, a started worker runs on, and the
\* subtasks' messages are handed out and worked on.
FairSpec ==
    /\ Spec
    /\ WF_vars(Begin(First))
    /\ \A e \in Executions : WF_vars(Execute(e))
    /\ WF_vars(\E id \in DOMAIN batches : Start(id) \/ Finish(id))
-----------------------------------------------------------------------------
(* Properties                                                              *)

Batches == [to : SUBSET Recipients, state : {"queued", "running", "refused", "over"}]

\* A row that knows some ids of some executions.
RowOK(r) ==
    /\ DOMAIN r.status \subseteq Executions \X Nat
    /\ r \in [task_state : States, status : [DOMAIN r.status -> Statuses],
              total : Nat, succeeded : Nat, failed : Nat, items : Nat,
              progress : [StatNames -> Nat] \cup {NoCounters}]

\* Every variable stays in its range.
TypeOK ==
    /\ RowOK(row)
    /\ \A e \in Executions :
          /\ DOMAIN run[e] = DOMAIN Waiting
          /\ run[e].pc \in PCs
          /\ RowOK(run[e].seen)
          /\ {run[e].counted, run[e].total, run[e].num} \subseteq Nat
          /\ run[e].queried \subseteq Recipients
          /\ run[e].rest \subseteq Recipients
    /\ DOMAIN batches \subseteq Executions \X Nat
    /\ batches \in [DOMAIN batches -> Batches]
    /\ listed \subseteq Recipients
    /\ faults \in [FaultKinds -> Nat]
    /\ mailed \in [Recipients -> Nat]
    /\ stale \in BOOLEAN

Open(id) == batches[id].state \in {"queued", "running"}

\* However many recipients the second query returns, the loop that publishes the
\* batches never reads past the end of the list of ids that the first query
\* was good for.
IdsSuffice ==
    \A e \in Executions :
        run[e].pc = "publish" /\ run[e].rest # {} => run[e].num < run[e].total

\* _get_number_of_subtasks and _generate_items_for_subtask agree when both
\* queries return the same number of recipients: every id gets a batch, no batch
\* is larger than BULK_EMAIL_EMAILS_PER_TASK and no recipient is left out.
ChunksAsCounted ==
    \A e \in Executions :
        LET r == run[e]
            sent == {id \in DOMAIN batches : id[1] = e}
        IN  r.pc = "on_success" /\ r.total > 0 /\ Cardinality(r.queried) = r.counted =>
               /\ sent = Ids(e, r.total)
               /\ \A id \in sent : Cardinality(batches[id].to) <= PerTask
               /\ UNION {batches[id].to : id \in sent} = r.queried

\* No subtask is started before the row knows it, nor forgotten by the row
\* while it runs: the ids are saved before the first message is published, and
\* a redelivered parent leaves them alone, as long as it is not given the
\* chance to save over a row it has not read.
OpenAreKnown ==
    ~stale => \A id \in DOMAIN batches : Open(id) => id \in DOMAIN row.status

\* A redelivery of the parent's message mails no recipient again: each row of the
\* query is mailed once at most.
MailedOnce == ~stale => \A l \in Recipients : mailed[l] <= 1

\* A parent that is redelivered, or fails, saves the row between the reports of
\* its subtasks without losing one that the row has recorded.
ReportsAreKept ==
    [][~stale' =>
         \A id \in DOMAIN row.status :
            row.status[id].state \in READY_STATES =>
               /\ id \in DOMAIN row'.status
               /\ row'.status[id] = row.status[id]]_vars

\* A task that becomes successful has nothing more to send: every recipient that
\* the query found has had his turn, and each batch has been reported on.
SuccessIsComplete ==
    ~stale /\ row.task_state = "SUCCESS" =>
        /\ \A id \in DOMAIN batches : ~Open(id)
        /\ \A id \in DOMAIN row.status : row.status[id].state \in READY_STATES
        /\ \A e \in Executions : run[e].pc # "publish" \/ run[e].rest = {}

SomeoneLeft == faults["leave"] < Faults["leave"]

\* A task whose parent is delivered once comes to an end, with or without
\* failures of the database or of the broker, and with late enrollments; unless
\* a recipient has left between the queries: then an id may have no batch, and the
\* task waits for its report forever.
Settles == <>[](row.task_state \in READY_STATES \/ SomeoneLeft)
=============================================================================
