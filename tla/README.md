# Open edX platform: a verification of its shared state

These TLA+ modules model the parts of this repository in which several
processes change the same state, or in which state must survive failures: the
background tasks of the instructor dashboard and bulk email, the split
modulestore and the cache of published courses, user retirement, cohorts and
grades. TLC checks the models on small instances; TLAPS proves
their safety invariants and action properties for every instance. The reference for every definition
is the code under `src/`; `PROJECT.json` maps each definition to its lines.

Contents: 1. the system and its components; 2. the modules and the code they
model; 3. faults and accidents; 4. the runs; 5. fairness; 6. the proofs;
7. where the code promises less than one might read into it; 8. abstractions;
9. not modelled.

## 1. The system

The platform is a Django monolith: the LMS, Studio (the CMS), and shared
packages (`openedx/`, `common/`, `xmodule/`). Most of its lines serve one
request from one database transaction and keep no protocol of their own: views,
serializers, settings, forms, templates, problem types. A model of them would
repeat them. The parts with a protocol are these.

| Component | Where | State | What is hard | Modelled |
|---|---|---|---|---|
| **Bulk email subtasks** | `lms/djangoapps/instructor_task/subtasks.py`, `bulk_email/tasks.py` | status and counters of each subtask in one JSON column, a cache lock per subtask, messages that carry the remaining recipients | redelivery, two workers on one message, retries of two kinds, lost updates, dying workers | yes |
| **Delegation of a bulk email** | `bulk_email/tasks.py`, `subtasks.py`, `tasks_helper/runner.py`, `tasks_base.py` | the `InstructorTask` row, read and saved whole; the recipients, queried twice | a redelivered parent, failures between save and publish, recipients that come and go, saves between the reports of subtasks | yes |
| **Instructor task lifecycle** | `instructor_task/api.py`, `api_helper.py`, `tasks_base.py`, `runner.py`, `models.py`, `rest_api/v1/views.py`, two commands | the state of each task, its schedule, its message, its result | the check for running tasks, cancelling against submitting, status polls, operators | yes |
| **Split modulestore** | `xmodule/modulestore/split_mongo`, `common/djangoapps/split_modulestore_django` | structures in MongoDB; the course index in MySQL and in MongoDB; bulk operations in memory | check-then-save of the index, structures before index, two databases, signals inside transactions | in part |
| **Block structure cache** | `openedx/core/djangoapps/content/block_structure` | the model of the collected course, the cached structure, the version key | signals, tasks, workers that cross, a cache that forgets | in part |
| **User retirement** | `openedx/core/djangoapps/user_api`, `scripts/user_retirement` | `UserRetirementStatus`, `UserRetirementRequest`, the partner report | external scripts that retry, lost answers, cancellation, operators | in part |
| **Cohorts** | `openedx/core/djangoapps/course_groups` | `CohortMembership`, the users of a `CourseUserGroup`, preassigned cohorts | random assignment against staff, two records of one fact, row locks | in part |
| **Grades** | `lms/djangoapps/grades`, scores of `lms/djangoapps/courseware` | scores, subsection and course grades | tasks that run before the commit they are about, retries, "only if higher", two tasks at once | in part |
| Certificates | `lms/djangoapps/certificates` | one certificate per learner and course, allowlist, invalidations | signals that arrive in any order | no |
| Course reruns, import, export | `common/djangoapps/course_action_state`, `cms/djangoapps/contentstore` | `CourseRerunState` | a task that fails half-way | no |
| Credit | `openedx/core/djangoapps/credit` | requirement status, credit requests | a status that must not fall back | no |
| Enrollment, entitlements | `common/djangoapps/student`, `entitlements` | mode and activity of an enrollment | seats and refunds | no |
| Identity verification | `lms/djangoapps/verify_student` | attempts | an external service | no |
| Notifications, discussions | `openedx/core/djangoapps/notifications`, `lms/djangoapps/discussion` | digests | fan-out | no |
| Content libraries, migrator | `openedx/core/djangoapps/content_libraries`, `cms/djangoapps/modulestore_migrator` | mostly in a package outside of this repository | long copies | no |
| Teams, CCX, programs | `lms/djangoapps/{teams,ccx,program_enrollments}` | rows changed in one request | little | no |
| Capa, XBlock runtime, safe sessions, reports, views, theming | `xmodule`, `lms`, `cms`, `common` | per request | none across processes | no |

### How they interact

**Tasks and email.** A request calls `submit_task` (or `schedule_task`; later a
cron job runs `process_scheduled_instructor_tasks`, which submits what is due).
It creates an `InstructorTask` row and publishes a Celery message. A worker runs
`run_main_task`, which reads the row, saves `PROGRESS` and calls the task's own
function. For a bulk email that is `perform_delegate_email_batches`: it counts
the recipients, stores one subtask id per batch in the row
(`initialize_subtask_info`), queries the recipients, and publishes one
`send_course_email` message per batch. When it returns, `on_success` leaves the
row to the subtasks; when it raises, `on_failure` saves `FAILURE`. Each
`send_course_email` asks `check_subtask_is_valid` whether the row knows its id
and does not have it as finished, takes a cache lock, mails, and writes its
status to the row under `select_for_update` (`update_subtask_status`), which
releases the lock. If recipients remain it publishes itself again with
`retry()`. The last subtask to report turns the task to `SUCCESS`. Meanwhile
the dashboard polls the task (`get_updated_instructor_task`), staff cancel or
postpone scheduled emails, and operators run `fail_old_tasks` or revoke tasks.

**Courses.** Studio changes a course inside of a bulk operation of the split
modulestore, which copies structures in memory, inserts them into MongoDB when
it ends, moves the pointers of the course index (first in MySQL, then in
MongoDB) and sends `course_published`. The handler in `block_structure` queues
a task that collects the published course and stores it for the LMS.

**Learners.** The LMS stores the score of a problem in the transaction of the
request; signals queue a recalculation of the subsection grade, which
recalculates the course grade. Courseware asks `get_cohort`, which assigns a
cohort to a learner who has none; instructors assign, remove and preassign
cohorts. A learner who asks for the deletion of the account gets a
`UserRetirementStatus`, which scripts outside of the LMS carry through a
pipeline of states over its REST API.

### What makes them correct

* Subtasks: no row of the recipients' query is mailed twice; the counters of the row are those of the
  subtasks that ended; success is reported when, and only when, all have ended;
  every subtask ends; it is worked on by one worker; a finished one is not opened
  again.
* Delegation: the ids suffice for the batches; each id has one batch and each
  recipient is in one; a redelivered parent neither mails again nor loses a
  report; a subtask is known to the row before it starts; the task ends.
* Lifecycle: one task of a key is at work; a task that has ended stays so; a task
  is submitted once; an edit of a schedule that comes in time is obeyed; a task is
  not successful before its subtasks; each task ends.
* Modulestore: an index never points to a structure that is not stored; a
  committed change is not lost; learners see nothing that was not in the draft;
  the two databases agree; a publication is announced once it can be read.
* Block structures: learners get the published version, in the end and whenever
  all is quiet, unless a task gives it up.
* Retirement: COMPLETE means that every step was done; a cancelled account is
  left alone; partners are told; no retirement stays between two steps.
* Cohorts: the two records agree; an answer of `get_cohort` holds; the
  preassigned cohort is the first one that a learner gets; nobody waits for a lock for ever.
* Grades: they agree with the scores in the end; a rescore that counts only if
  higher lowers nothing; passing is announced once for each attempt to save it.

## 2. The modules and the code they model

| Module | Role |
|---|---|
| `SubtaskEntry` | the columns of an `InstructorTask` row that subtasks use, and the functions over them |
| `Subtasks` | the workers that run the `send_course_email` messages of one email |
| `FanOut` | the abstract promise of a bulk email, without workers, messages or locks |
| `SubtasksFanOut` | the refinement mapping from `Subtasks` to `FanOut` |
| `Delegation` | the parent task of one email, its redeliveries, its subtasks as single messages |
| `TaskLifecycle` | the rows, schedules, messages, polls and operators of several tasks |
| `CourseIndex` | the index of one course, the bulk operations that change it, the two databases |
| `BlockStructures` | `CourseIndex` with the handlers, tasks, workers and readers of the block structure cache |
| `Retirement` | one learner's retirement: LMS, scripts, learner, operators, partner report |
| `Cohorts` | one learner's cohort in one course, under row locks and transactions |
| `Grades` | one learner's scores and grades, the tasks that recompute them |
| `MC...` | instances for TLC |
| `SubtasksProofs`, `DelegationProofs`, `LifecycleProofs`, `CourseIndexProofs`, `BlockStructuresProofs`, `RetirementProofs`, `CohortsProofs`, `GradesProofs` | theorems |

One action is one step that another process can observe: a statement or a
transaction of the database, an operation of the cache, a call to an external
server or to the broker. What a process has read and will use later is kept in
its own record (`run.seen`, `rec`, `worker.want`, `calls.seen`, `req.seen`,
`task.earned`), and other processes may act in between.

`Subtasks` and `Delegation` share `SubtaskEntry`, so that the row one defines is
the row the other updates. `Delegation` abstracts a subtask to one message that
is admitted and reports; `TaskLifecycle` abstracts a whole delegation to one step
and one later report. Each detailed module is thus the inside of one action of
the next. `BlockStructures` extends `CourseIndex`: each of its `StoreStep`s is a
step of the modulestore with what the handlers of its signals do.

### Subtasks

| Code | Actions and state |
|---|---|
| `check_subtask_is_valid` | `Receive` reads the row (`Admits`); `Lock` is `cache.add`; `run.seen` remembers the row for the accident *stale* |
| `_send_course_email` | `Filter` (opt-outs, disabled accounts, only on the first attempt), `Connect`, and one of `SendAccepted`, `SendRejected` (a single address failed), `SendThrottled` (retry without the counted limit), `SendInterrupted` (retry with it), `SendFatal` (all that remain failed), `SendDone` |
| the handler of `send_course_email` | `SendUnexpected`: every recipient the message came with is counted as failed (`AllFailed`) |
| `update_subtask_status` | `UpdateCommits`, `UpdateFails`; the function calls itself after a `DatabaseError`, so that `run.frames` counts the `finally` blocks still to be left, each of which is a `Release` |
| `_submit_for_retry` | after its update, `RetryPublished` or `RetryFails`; `RetryLimit` is Celery's limit as the code computes it from the two counters |

The status a message carries (`run.st`) and the status in the row
(`entry.status`) are separate, as in the code: the message is the worker's copy.
The recipients are taken from the end of the list, which is what makes a retry
message shorter than the message it replaces. A recipient is a row of the query,
and `Person` says whose row it is: `get_users` joins staff and instructors without
`distinct`, and a single target is not put through a `UNION`, so that a user with
both roles has two rows and is mailed twice. `Filter` counts the rows that it
drops as the code does (`Skipped`), by users.

### Delegation

`Begin`, `Mark` and `Load` are `run_main_task` and the first read of
`perform_delegate_email_batches`; `Count`, `Initialize`, `Query`, `Publish`,
`PublishFails` and `Return` are `queue_subtasks_for_query`, whose two queries are
two steps; `Handle`, `SaveSuccess` and `SaveFailure` are the callbacks of
`BaseInstructorTask`. Each execution keeps the row as it last read it
(`run.seen`), and `Save` writes that copy whole. `Start` and `Finish` are a
subtask. The recipients are the rows of the query, of which `Enroll` and `Leave`
change how many there are: who has two rows stands for two of them. Their
order decides nothing the properties tell apart, so that a batch is any subset of
the right size.

### TaskLifecycle

All tasks of an instance have the same course, type and key; tasks that differ
in these never meet in the code. `CheckRunning`, `Create`, `Submit` and
`SubmitFails` are `submit_task`; `Reserve`, `StoreSchedule`, `SaveScheduled` and
`ScheduleFails` are `schedule_task`, which does not check; `CronScan`, `CronTake`,
`CronSubmit` and `CronFails` are the management command; `Look`, `Cancel`,
`Delete` and `Postpone` the REST view; `Receive`, `Mark`, `Work`, `WorkRaises`,
`Handle` and `Finish` a worker; `PollRead` and `PollSave` a status request;
`FailOld`, `Revoke` and `Crash` operators and accidents. `Receive` may leave a copy
of the message with the broker, so that a task is run again, beside its first run
or after it has ended. A row is its state and what the row says of its subtasks
(*none*, *open*, *over*, or *lost* when a save of FAILURE or REVOKED has written a
message over the counters that a report adds to); `atWork` has the tasks whose
published subtasks have still to report, whatever the row says.

### CourseIndex

A course index is a pair of pointers, to the structure of the draft and to the
published one. Structures are immutable once stored; `blocks` says of each which
changes it holds. A writer is a thread of Studio or of a worker, with its own
request cache (`cached`) and its own `SplitBulkWriteRecord` (`rec`). Writers in
`Atomic` serve requests in a MySQL transaction (`ATOMIC_REQUESTS`): what they
write is `pending` and locks the row until `EndRequest`.

| Code | Actions |
|---|---|
| a request or task begins with an empty request cache | `StartRequest` |
| `_begin_bulk_operation`, `_start_outermost_bulk_operation` | `BeginBulk` |
| `version_structure`, `update_structure`, `_update_head` on the draft | `Edit` |
| `publish` (copy to the published branch, `_flag_publish_event`) | `Publish` |
| `create_course` with `_auto_publish_no_children` | `CreateCourse` |
| `bulk_operations` leaves its `try` | `EndBody` |
| `_end_outermost_bulk_operation` | `StoreStructures`, then the index or only the signals |
| `DjangoFlexPersistenceBackend.update_course_index` | `ReadRow` compares `last_update` with that of the first read; `SaveRow` saves, waiting for the row's lock; `WriteMongo` replaces the document. Between the three others may act |
| `insert_course_index` | `InsertRow`, `WriteMongo` |
| `delete_course_index` | `DeleteCourse`, `DeleteMongo` |
| `send_bulk_published_signal` and the clearing of the record | `SendSignals` |
| the transaction commits or is rolled back; faults | `EndRequest`, `Abort`, `MongoFails`, `Crash` |

A collision that `ReadRow` detects is logged and the operation goes on as if the
index had been written, signals included: so does the code.

### BlockStructures

`StoreStep` queues an update task for each `course_published` and deletes what is
stored when a course is deleted. A worker's task is `TakeTask` (read the index),
`Compare` (`is_up_to_date`), `SaveModel` and `AddToCache` (`BlockStructureStore.add`),
`ReadModel` and `SetVersionKey` (`_update_block_structure_version`); a failing one
is tried again (`Retry`) or given up for good (`GiveUp`: an error of `NO_RETRY_TASKS`,
or the last of `max_retries`; the version it wanted is then in `abandoned`). Readers find the model (`ReadStored`) or collect
(`ReadMissing`); the cache may forget (`Evict`).

### Retirement

The states of the pipeline are their positions: PENDING, a working state and a
done state for each step, ERRORED, ABORTED, COMPLETE.

| Code | Actions |
|---|---|
| `retire_one_learner.py` | `Start` reads the learner's state and skips what is done (`FirstStep`); `Ask` and `Follow` say what it calls at each point and what it does with the answer |
| an API call | `Read` reads the row and validates (`update_state`, `get_retirement_for_retirement_action`), `Perform` saves the row or does the step; `StepFails` |
| `edx_api.py`: timeouts and retries; the process | `GiveUp`: the caller goes on, the LMS may still serve the call; `Crash` |
| `create_retirement_request_and_deactivate_account` | `Request` |
| `cancel_retirement`, `handle_retirement_cancellation` | `Look`, `Cancel` |
| `retirement_bulk_status_update`, the admin | `ForceState`, to any state |
| `archive_and_cleanup` and the cleanup view | `CheckComplete`, `Cleanup` |
| `retirement_partner_report.py` | `List`, `Mark` (the query is evaluated a second time), `Push`, `Clear`, `ReportFails` |

### Cohorts

Each row of the learner is a cell with a value as the holder of its lock sees it
(`now`) and as all others do (`old`). `Get`, `Find`, `Choose`, `Take`, `Lock` and
`Assign` are `get_cohort`; `Add` is `add_user_to_cohort`, which goes to `Lock`
or, for an address without an account, to `Note`; `Remove`, `Find`, `Unlist`
(the `pre_delete` receiver) and `Delete` are `remove_user_from_cohort`. `Lock` is
`select_for_update().get_or_create`, `Assign` the rest of
`CohortMembership.assign`. `End` commits, `Raises` rolls back, `Register` is
the learner. Requests in `Atomic` are one transaction; the others commit each
statement, and `assign` as a whole.

### Grades

A request stores (`Set`, `Commit`) a score, a rescore that counts only if it is
higher (compared in `Ask`, in another step than the store), or deletes one; the
task is queued inside of the transaction, by `Set`. `Regrade` queues what a
change of track, cohort or policy queues. A task is `Take`
(`_has_db_updated_with_new_score`, retry, and the read of the scores),
`Compare` and `Save` of a subsection (`SubsectionGradeFactory.update`,
`update_or_create_grade`), `First` (`first_attempted`, a second save of the
whole row), `AddUp` (`CourseGradeFactory.update`), `CourseWrite`, `Announce` and
`Passed` (`PersistentCourseGrade.update_or_create`, which sends
`COURSE_GRADE_PASSED_FIRST_TIME` before it saves the row). `Fail`, `Crash`, `Rollback` and
`Refuse` (frozen grades) are what may go wrong. Times are a counter, which only
grows.

## 3. Faults and accidents

What the environment does is bounded by constants: `Faults` (which kinds of
faults may happen, or how often each), `MaxTrouble` (how many faults of any kind).
A fault may strike at every step where the code could meet it.

The code does not survive every fault, and does not claim to. So that a property
need not be weakened for all behaviours, each module records in a history
variable the *accidents* in which the protocol is known to lose control, at the
step where it does, and the properties hold for whatever has had none of those
that they name. No guard reads a history variable, but for the bound on `published`: the accidents happen in the
runs, and a property that were stated too strongly would fail in them.

* `Subtasks`: *stale* (the lock is taken on the strength of a row that has
  changed), *foreign* (a release deletes the key of another run), *lost* (no
  transaction succeeded in `MAX_DATABASE_LOCK_RETRIES` attempts), *expired* (the
  key timed out, or its worker died).
* `Delegation`: *stale* (a whole-row save writes over a row that has changed
  since it was read).
* `TaskLifecycle`: *raced* (two requests passed the check for running tasks, the
  race the docstring of `_reserve_task` admits), *doubled* (the command found a
  task SCHEDULED that it had submitted before), *late* (an edit came after the
  task was found due), *redelivered* (Celery hands out a message again), *revived*
  (a run saves PROGRESS over the state of a task that has ended), *erased* (a save
  writes over what the row says of its subtasks with what it said before), *hand*
  (an operator interfered). Each property names the few of them that it leaves out,
  and `FinalIsFinal` says what a redelivered or doubled message can do and what not.
* `CourseIndex`: *overlap* (an index is saved over another than the one it was
  compared with), *overtaken* (an index is saved between the two writes of
  another), *undone* (a transaction is rolled back after its write to MongoDB),
  *early* (`course_published` is sent before the transaction commits), *crash*,
  *mongo* (a write to MongoDB raises).
* `BlockStructures`: *crossed* (the model has changed between a worker's reading
  of the version and its storing it, or of the model and setting the key), and the
  versions that a task has given up (`abandoned`).
* `Retirement`: *reopened* (an operator sets a retirement back to PENDING),
  *crossed* (a cancellation deletes a row that has left PENDING or was reopened, or
  a step is done for a row that is gone), *revived* (a row is saved that was deleted
  since it was read), *redacted* (a cleanup redacts a row that it then does not delete),
  *missed* (a learner is marked as reported by a report that lacks it), *crash*.
  A row saved over a newer one is no accident, nor is any state that an operator
  forces: `waived` has the steps that the operator has claimed as done, and `left`
  says whether nobody goes on from the state of the row.
* `Cohorts`: *raced* (`get_cohort` assigns a learner who has meanwhile got a
  cohort), *staffed* (staff add or remove the learner), *lost* (a task without
  a transaction has deleted the preassignment and fails before it assigns the
  learner, or another request chooses a cohort before that), *crossed* (a membership is
  deleted that has changed since it was read).
* `Grades`: *crossed* (a task stores a sum although another has finished with
  the row since it read), *raced* (a rescore is stored over a score it was not
  compared with), *late* (a task gave up before the score was committed), *lost*
  (a task died, failed for good or was refused). `broken` counts the attempts
  that ended between the signal that a course is passed and its save.

The accidents are narrow: a redelivered subtask or parent, a crash without a lock, a
failed transaction that is repeated, a refused message, a poll with an old row, a
lost answer, a rolled back request, a deadlock are not accidents, and the
properties hold through them. What each accident leads to is described in section
7. A hazard of `PROJECT.json` whose own case is an accident that its properties leave
out says so in its note: there the property shows that nothing else goes wrong, and
does not catch the case itself.

## 4. The runs

State counts are distinct states. `SYMMETRY` is used in runs without liveness
properties only, over workers, or over recipients where the query returns all of them:
no property, constant or choice tells them apart. `CHECK_DEADLOCK FALSE` is set
because these systems stop: once all messages are handled, all requests served
and the faults spent there is nothing left to do.

| Run | Instance | Question and answer |
|---|---|---|
| `subtasks_fair` (615k) | 2 subtasks of 2 and 1 recipients, one user with a row in each, 2 workers, 1 retry of each kind, 2 attempts per transaction; one failed transaction and one refused message, fair | Does it implement `FanOut`, does the report add up, and do the two limits of retries stay apart? `ImplementsFanOut`, `CleanReport`, `RetriesCountedApart` |
| `subtasks_accidents` (669k) | 1 subtask of 2 recipients who are one user, 2 workers; one redelivery, failed transaction, crash and lock timeout | What survives everything at once? `CleanMutualExclusion`, `CleanDeliveredOnce`, `CleanCounters`, `CleanReadyIsFinal` |
| `subtasks_liveness` (460k) | the same; one redelivery, failed transaction and unexpected exception, fair | Does the email end, without a lock left behind? `AllFinish` |
| `delegation_redelivery` (984k) | 2 overlapping deliveries, 3 rows in batches of 2; one redelivery, crash, error and refused message | What does a redelivered parent spoil? Nothing, while no save writes over an unread row: `OpenAreKnown`, `MailedOnce`, `SuccessIsComplete`, `ReportsAreKept` |
| `delegation_changing` (53k) | 1 delivery, 4 rows of which the query returns 3 at first, batches of 2; one comes, one goes, one error, one refused message, fair | Do ids and batches fit, and does the task end? `IdsSuffice`, `ChunksAsCounted`, `Settles` |
| `lifecycle_reports` (787k) | 2 requests for the same report, 2 workers, a poll, every fault once, redelivery included | Is one at work at a time, and what can change an end? `OneAtATime`, `FinalIsFinal` |
| `lifecycle_email` (745k) | one scheduled email, 2 workers, a request to edit that comes again and again, up to 2 messages; one refused message, redelivery, failure to store and revocation, at most two of them in one behaviour, fair | Are edits obeyed, tasks submitted once, successes not premature, and does each task end? `EditsAreObeyed`, `SubmittedOnce`, `SuccessIsOver`, `AllSettle` |
| `course_index` (430k) | a request in a transaction with one bulk operation, a task with two; 2 changes each; crashes, failing writes to MongoDB; with and without a course at first | Is the index sound whatever dies or fails, and what is lost to whom? `PointersAreStored`, `NothingLost`, `PublishedWasDraft`, `MirrorAgrees`, `PublishIsAnnounced` |
| `course_published` (455k) | 2 writers with one bulk operation each, 2 collecting workers, two of: a retry, a task given up, a read of what is missing or that fails; fair | Do learners get what is published, unless it is given up? `ServedIsCurrent`, `PublishedIsServed` |
| `retirement` (1.8M) | 2 steps, one of which queues for partners, 2 requests, a driver that is run again and again, a reporter; one failed step, lost answer, dead script or forced state (any state), fair | Is the retirement complete, final, reported, and does it land? `RetiredInFull`, `CancelledIsLeftAlone`, `RetiredIsRecorded`, `PartnersAreTold`, `LandsInTheEnd` |
| `cohorts` (124k) | 2 cohorts, both random; 2 views in transactions and a task without, fair | Do the records agree, do answers hold, does every request end? `TablesAgree`, `AnswerHolds`, `PreassignedFirst`, `RequestsEnd` |
| `grades` (794k) | 2 problems in 2 subsections, 2 points to pass; an answer, then another answer, a reset or a rescore (to a higher and to a lower score), and a regrade of the learner or the course; 2 tasks at a time, 1 retry, one failure, fair | Do the grades agree with the scores in the end, does a rescore lower nothing, and how often is passing announced? `GradesSettle`, `HigherHolds`, `PassedOnce` |

Why these bounds are enough to be of use:

* A subtask interferes only with another run of itself and, through the
  counters, with other subtasks. Two workers on one subtask and two subtasks
  with unequal chunks give each kind of interference. The step from two workers
  to any number is what the proofs add, here and in every component: they leave
  the number of processes, and the sizes of everything they share, open.
* Two recipients in a chunk are needed for a retry after progress, and are
  enough: a third repeats the loop. One retry of each kind reaches "the last
  retry", "one too many" and the case where both counters are positive. Two
  attempts per transaction make the nested frames of `update_subtask_status`,
  with their two releases, and one failure more than that is the lost update.
* Three rows in batches of two give a full and a partial batch; a fourth, which
  comes late, overfills the last one; one that goes makes the count exact. Two
  executions of the parent overlap in every way two can.
* One scheduled task is enough for the edits, which are about one task each, and
  one request after another is enough for those that come in time: two at once, of
  which one deletes the schedule and the other saves it again, are an edit that is
  *late*, and `EditsInTime` is proved for any number of them. Two tasks of one key are
  enough for the check of running tasks. `MaxPublished = 2` lets the command submit a
  task twice, the *doubled* accident; a redelivery, which costs no `published`, gives
  each task a second run in both runs. Failing work and crashes are in
  `lifecycle_reports` alone: a worker that dies may leave a task as it is, so that
  `AllSettle` would be false, and work that raises would double the size of the run.
  In `lifecycle_email` no worker dies, so that `SubmittedOnce` there says that a task
  without an accident is published once; the case after a death is left to its theorem.
* Two writers overlap in every way two bulk operations can, one of them in a
  transaction and one without, which is the mixture Studio has; the second bulk
  operation of the task begins with what the first has left in the request cache;
  two changes give a creation, or an edit that is then published. A third
  writer can matter once two of them have overlapped; section 6 says where that was
  found.
* Two publications and two workers are enough for a version to arrive out of
  order, which is *crossed*; a third would only bring another.
* Two steps of the pipeline give a first, a last, and one that is skipped after a
  failure; with the partner queue in the first, a learner can be reported before
  or after the retirement is complete. Two requests give a row that is taken for
  another row of the same learner. The driver is started without bound.
* Three requests are needed for a deadlock and a third party; two cohorts for a
  move; the initial states contain a learner with and without a cohort.
* Two subsections are needed for a course grade that is written from one of them
  while the other changes; three requests for a score, a change of it and a
  regrade in between. `PassMark = 2` with two answers lets the course be passed
  only after a first grade, and a rescore find a lower score, a higher one, none, or
  one that is being changed.

Each property of a run has a mutant in `PROJECT.json`: an operator that stands
before the one it would replace, marked "Mutant of" in its comment, with a
plausible mistake (`cache.set` for `cache.add`, a dropped check, an index that is
stored before its structures, marking before listing, a poll that saves what it
has read whatever the result is). With
it in place, TLC finds the property violated.

## 5. Fairness

* `Subtasks`: weak fairness of each worker's own steps, since a process that has
  started a message runs on, and of the hand-out of queued messages, since the
  broker delivers. None for redelivery, crashes, lock timeouts, failed
  transactions: they may happen and need not. The choice among the answers of
  the mail server is left open; limits of retries, not kindness of the
  server, end a subtask.
* `Delegation`: weak fairness of the first delivery, of each execution's steps and
  of the subtasks. A redelivery is not owed.
* `TaskLifecycle`: weak fairness of requests once they have begun, of time, of
  message delivery, of workers, of the command (it submits what is due
  when it runs, and so is of use only if cron runs it again and again) and of the
  steps of a poll. Polling a given task has strong fairness: the dashboard asks
  for every task that it shows as running, but the model has a single request in
  flight, so that one task's poll is disabled now and then by another's. Nobody
  is obliged to ask for a task, to edit a schedule, or to interfere.
* `BlockStructures`: weak fairness of each writer's steps from the end of the body
  of a bulk operation to the end of its request (`Work`), and of each worker's
  steps (`Collect`). Nobody is obliged to edit, publish or read.
* `Retirement`: weak fairness of `Start`, since the scripts are run by a scheduler
  again and again, and of the LMS serving a call that somebody waits for. Calls
  that were given up may stay unserved; the learner, operators, reporters and
  cleanup owe nothing.
* `Cohorts`: weak fairness of the service of each request, and of the database's
  detection of a deadlock among two requests, which rolls one of them back.
  Without it `RequestsEnd` is false, as it should be: `assign` locks the
  membership before the cohorts, a deletion the cohort before the membership.
* `Grades`: weak fairness of each request that has begun and of each task.

`AllSettle` leaves out a task that staff postpone again and again, one whose end a
run has saved PROGRESS over, and one whose row has lost what it said of its subtasks. `Settles` leaves out an email whose recipients left between the two
queries, because such a task does not end (section 7).

## 6. The proofs

The theorems hold for every value of the constants that satisfies the named
assumptions of the modules (`SubtasksAssumption`, `DelegationAssumption`,
`TaskLifecycleAssumption`, `CourseIndexAssumption`, `NoIndexAssumption`,
`BlockStructuresAssumption`, `RetirementAssumption`, `CohortsAssumption`,
`NoRowAssumption` of `Retirement` and of `Cohorts`, `GradesAssumption`): finite
sets of subtasks, recipients and learners, natural bounds, names for "nothing"
that are different from what they stand beside, and chunks that are lists of rows without
repetition and share none, as the batches of one execution of the parent do
(`Apart` in `DelegationProofs`); who a row belongs to is left open. Workers, drivers, executions, writers, requests
and faults may be any number. Every safety invariant and every action property of section 4 is a
theorem, and so are the types of every module with state. Few of them are
inductive as they stand; the strengthening is what makes each of them true.

**Bulk email subtasks** (`SubtasksProofs`)

* **`TypeCorrect`**: `Spec => []TypeOK` of `Subtasks`. A release takes a frame of
  `update_subtask_status` away, and `frames` stays a natural number only because
  a run inside that function has at least one: `TypeInv` adds this as `FramesOK`.
* **`MutualExclusion`**: `Spec => []CleanMutualExclusion`. `LockInv` adds
  `HoldersLock`: while a worker holds a clean subtask, its cache key is set.
  Without it `Lock` could find the key unset while another worker holds the
  subtask. `HoldersLock` is kept by `Release` since a release by a run that
  no longer holds the lock taints the subtask if the key is there; and since, by
  mutual exclusion itself, a holder's release leaves no other holder behind. So
  the two parts need each other. Every action that neither takes nor deletes a
  key is covered by one lemma, `QuietStep`.
* **`DeliveredOnce`**, **`ReadyIsFinal`**, **`RetriesApart`** and
  **`ReportIsTrue`** come from one invariant, `DeliveryInv`, which extends
  `LockInv`. A list of recipients is always part of the chunk (`ListsOK`). While a
  subtask is clean, one run at most has it in hand, nobody in its list has been
  mailed or refused, and its counters together with the length of that list
  account for the whole chunk, but for the second row of a user who is listed twice
  and has opted out (`SubOK`, `Accounts`); when nobody has it in hand the same holds of
  every message that is as fresh as the row, where freshness is the number of retries.
  `RunOK` says how the status of a run compares to the row at each point, and `RowOK`
  what states a row can have. A retry with partial progress keeps this, since it hands
  on what is left of the list together with the counters; a redelivered message does,
  since the row has by then more retries than it, and the check refuses it.
* **`CountersAgree`**: `Spec => []CleanCounters`, by `CountsInv`: the totals of the
  row are sums over the subtasks that are ready, a status only replaces one that is
  not ready, and the task succeeds only when all are. The sums are folds over
  finite sets, with the lemmas for adding an element to one.
* **`StepsOfFanOut`**: the initial states of `Subtasks` are initial states of
  `FanOut`, and each step is one of its steps or a stutter, as long as nothing is
  tainted and no unexpected exception ends a run. What is left of
  `ImplementsFanOut` for TLC is that the abstract email ends.

**Delegation** (`DelegationProofs`)

* **`IdsAlwaysSuffice`**: `Spec => []IdsSuffice`: the loop of
  `queue_subtasks_for_query` never asks for more ids than it generated, however
  many recipients the second query returns. `CountInv` follows the counters from
  the count to the loop: a count is positive when ids are generated, hence there
  is at least one (`OneSubtaskAtLeast`, the rounding of
  `_get_number_of_subtasks`); the last id takes all that remain.
* **`SubtasksAreKnown`**, **`NobodyTwice`**, **`SuccessIsLast`** and
  **`ReportsSurvive`**, from `ParentInv`. The batches of an execution are
  those it has counted as published (`BatchesOK`), no two of them share a row, nor
  do they with what it has still to publish (`Apart`). Until a save has
  written over a row that it had not read, the ids in the row are those of the one
  execution that has generated any (`Known`), the row has counted exactly the
  subtasks that have ended, and has nothing on one that is open (`Reported`), and who
  was mailed was mailed once, by a batch that is over (`Mails`).
* **`ChunksAgree`**: `Spec => []ChunksAsCounted`, by `ChunkInv`: where both queries find
  as many recipients, each id gets a batch that is full, but for the last, and all are
  sent to; the arithmetic of the last batch is a lemma.
* **`DelegationTypes`**.

**Instructor task lifecycle** (`LifecycleProofs`)

* **`EditsInTime`**, **`OneSubmission`**, **`SuccessComesLast`** and
  **`EndsForGood`**, from `TaskInv`. Some of its parts hold of every task, redelivered
  or not: a task is edited and submitted only after its request is through with it, and
  what was edited in time has not been submitted (`EditOK`); a row knows of its
  subtasks from their creation until they are over or its counters are lost, a row
  that is successful had none or is done with them, and whoever is about to save
  SUCCESS has read none (`RowOK`, `Seen`); a result says "revoked" only of what an
  operator revoked (`RevokedByHand`), which is what keeps polls from saving over an
  end. Where neither the command has submitted a task twice, nor an editor
  come late, nor an operator interfered (`Calm`), the command has only tasks that are
  SCHEDULED and that no worker has (`CronLine`). And where besides no message was handed out
  again (`Single`) a task follows one line (`LineOK`): with the request, then with the
  command, then in one message, then with one worker, who has read the row as it is but
  for its state. Where a submitted task is still SCHEDULED and in neither a message nor a
  run, a worker has died (`WorkerDied`), the one case in which the command submits
  it again. `FinalIsFinal` needs all of them: the line, because all that keeps an old
  row from being saved over an ended one is that nobody else holds a row of that task;
  the rest, to show that of a task that was handed out twice only its runs do so.
* **`OneTaskAtATime`**: `Spec => []OneAtATime`, by `LifeInv`, which adds to `TaskInv`
  that every task that a request has found before it creates its own is over, unless a
  run has revived it (`KnownAreOver`). A task that it has not found has raced with it,
  and only its creation, or a run that saves PROGRESS over its end, makes a task of
  that key run (`RunsAnew`).
* **`TypesOfLifecycle`** adds `Ranges`: what the command has selected has been published
  less often than its bound, once in its list.

**Split modulestore** (`CourseIndexProofs`)

* **`TypesOfCourseIndex`** and **`StructuresBeforeIndex`**:
  `Spec => []PointersAreStored`: no index in either database or in an open
  transaction ever points to a structure that is not stored, whoever dies and
  whatever is rolled back. `StoredInv` adds `HoldsStored`: before `StoreStructures`
  the pointers of a writer's index are stored or among what it will store, after
  it they are stored, and so are those in its request cache. A pointer that it
  has not moved is as good as it was when read, since structures are not
  deleted here.
* **`DraftBeforePublished`**: `Spec => []PublishedWasDraft`. Every index that
  is, or can come to be, in a database (`Live`: the rows, the pending one, those
  in request caches and records) is `Behind` (its published structure holds
  nothing that its draft lacks) and `Numbered` (it points to ids that have been
  given out); and the structures that a bulk operation is still changing in
  place are `Private` to it. The last part is why `version_structure` may change
  a structure that it has made: nobody else has its id.
* **`DatabasesAgree`**: `Spec => []MirrorAgrees`, by `MirrorInv`: an index is
  inserted where there was none, and compared where there was one (`Directed`).
  Without accidents one writer at most is between its two writes (`OneMirrors`), the
  second of them finds in MongoDB the document it replaces and writes the index
  that the first has left in MySQL (`WillAgree`), and when nobody is between them
  the two agree, committed or not.
* **`CommittedStays`**: `Spec => []NothingLost`. `VersionInv` says that the time
  of an update tells which version it is (`Twins`), since a writer's next one is always
  new (`FreshStamp`). `KeepInv` concludes that a comparison which succeeds has
  compared with what the operation began with, so that what it saves holds all
  that is replaced (`Grows`, `Keeps`).
* **`PublicationsAnnounced`**: `Spec => []PublishIsAnnounced`, by `AnnounceInv`: a
  published version that can be read has been announced after it could be, or its
  writer has the signal still to send (`Due`). An earlier form of this
  property tolerated saves that overlap. Its proof failed for a good reason: with three
  writers it is false, which a run with two writers cannot
  show. The property now excludes *overlap* like the other accidents.

**Block structure cache** (`BlockStructuresProofs`, over the invariants of `CourseIndex`)

* **`LearnersGetCurrent`**: `FairAll => []ServedIsCurrent`, by `ServeInv`. Nobody
  has seen the version that a writer has still to save, in the model, a key, a signal
  or a worker (`Numbers`, `Novel`). A worker that is about to store another than the
  published version had not found the published one in the model, so that it crosses if
  that is stored before it (`Aged`). And until two have crossed or a task has given the
  published version up (`Kept`), as long as the model or the key is not that version,
  something is on its way that will make it so (`Coming`, `Setting`): a task, a writer
  about to announce, or a worker heading for it.
* **`TypesOfBlockStructures`**.

**User retirement** (`RetirementProofs`)

* **`TypesOfRetirement`**, **`CompleteIsRetired`**, **`CancelledUntouched`** and
  **`RecordOutlives`**: `Spec => []RetiredInFull`, `Spec => []CancelledIsLeftAlone`
  and `Spec => []RetiredIsRecorded`, from one invariant, `RetireInv`. Its first half,
  `CallsInv`, is about calls: a driver waits for one call at most, the one that
  belongs to the point it is at, and those that nobody waits for are kept apart
  from it (`LateIsLate`, by counting them). Its second half, `Truth`, says that
  nothing claims more than was done, or than an operator has claimed as done by the
  state that was forced (`Claimed`): not the row, nor a driver at its point, nor a call that is still to be served, a late one of an
  earlier request included. This is what a new `Request` needs: it begins
  again with nothing done, which is sound only if all that is left of the
  earlier retirement claims nothing, and `AccountIsTrue` gives this, since an
  account that is open has had nothing done to it. `StepsAreLater` adds that a step
  is only served for a row that has left PENDING, which is why a cancelled
  account has not been touched. A save over a newer row needs no exception here: it
  sets the row back to what was true before, and what was done stays done.
* **`RetiredAreReported`**: `Spec => []PartnersAreTold`, by `TellInv`: nobody has been
  reported before the step that queues for the report (`NoneReported`), who has
  sent a report has told the partners of the learner (`PushedIsTold`), and who is
  marked is in the list of a report that will clear the mark (`MarkedIsReported`).

**Cohorts** (`CohortsProofs`)

* **`TypesOfCohorts`** and **`RecordsAgree`**: `Spec => []TablesAgree`: the two
  records of a learner's cohort agree for whoever reads what is committed, until
  a membership is deleted that has changed. `AgreeInv` adds that a free row is as
  everybody sees it (`FreeIsOld`); that a request in `assign` has the membership's
  lock and has changed nothing yet (`AssignLocks`), and that nobody else but those
  who have done their work holds it (`MembershipHeld`); that who holds a cohort
  has written the membership, or is about to delete it and has unlisted the learner
  (`CohortHeld`, `UnlistedFirst`); and that who has written the membership sees the
  two records agree (`WritersAgree`). Commits and rollbacks then keep agreement,
  since the rows of one move are always held by one request.
* **`AnswersStand`** and **`PromisesAreKept`**, from `AnswerInv`. In a calm history,
  without staff or races, a learner who has a cohort keeps it, committed or not (`Settled`),
  each request is what it was asked to be (`AsAsked`), and the answer is what the request
  sees as long as it lasts, and everybody afterwards (`Told`). `PromiseInv`
  adds that a preassignment is there for whoever looks (`StillPromised`), until it goes
  together with the membership that it is taken for (`TakenWithMembership`) or by a task
  that is about to assign it, and that a request which works on another cohort comes
  after the learner's first (`ChoiceKeeps`). It is a theorem about the learner's first
  cohort: a second request may move the learner to a random one.

**Grades** (`GradesProofs`)

* **`AnnouncedOnce`**: `Spec => []PassedOnce`: passing is announced once for the
  timestamp that is saved, once for each task that has still to save it, and once for
  each that broke before it could (`EachCounts`), for any number of tasks, unless two
  have crossed. `PassInv` adds `AnnouncersAreFirst`: a task that is about to announce,
  or to save, has found no `passed_timestamp`, and there is none as long as nobody has
  finished with the row since.
* **`HigherCounts`**: `Spec => HigherHolds`, by `RescoreInv`: a rescore that has compared
  is not lower than the score it was compared with, nor than the one that is there
  unless it has raced (`Asking`, `Unraced`), and the row lock keeps two requests for
  one score apart (`OneOpen`); a task of a rescore works on the subsection of its
  problem alone, and the sum it has compared is not lower than the row as long as
  no other task has been there (`TasksOK`).
* **`GradesTypes`**: the sums of scores and grades, which are folds over finite sets,
  are natural numbers.

Model-checked only: the liveness properties (`AllFinish`, `Settles`, `AllSettle`,
`PublishedIsServed`, `LandsInTheEnd`, `RequestsEnd`, `GradesSettle`) and the liveness part
of `ImplementsFanOut`. They rest on fairness, that is on `ENABLED`, which is out of
the prover's reach.

## 7. Where the code promises less than one might read into it

The models contain these behaviours; the properties state what holds beside
them.

* **A subtask may run again.** `check_subtask_is_valid` (`subtasks.py:451`) reads
  the row, then takes the lock, and does not read the row again: a second delivery
  that reads the row before the first completes takes the lock after it, and
  mails the same recipients. The docstring (`subtasks.py:397-399`) wants to
  "prevent it from running again".
* **Two rows for one person.** `get_users` (`bulk_email/models.py:112-136`) joins staff
  and instructors without `distinct`, and a lone target is not put through a `UNION`
  (`bulk_email/tasks.py:185-186`): an email to staff is sent twice to who has both
  roles. The test that no such user gets two (`test_email.py:500`) sends to three
  targets, whose queries are united. If that user has opted out, both rows are
  dropped and one is counted.
* **Counts after an unexpected exception.** `tasks.py:311` adds all recipients to
  `failed` on top of those that had succeeded; the comment above says that the
  counts stay consistent.
* **A redelivered parent** (`runner.py:97`) saves `PROGRESS` before
  `perform_delegate_email_batches` finds its subtasks defined; the comment at
  `bulk_email/tasks.py:159-160` wants the task marked "with whatever it had been
  marked with before". When all subtasks have reported, the email is in progress
  forever and `_task_is_running` refuses every later one of its key (*revived* in
  `TaskLifecycle`). The save is of the whole row: one that was read before the first
  run had published its subtasks erases them, after which `on_success` may report
  success while they are at work (*erased*).
* **Scheduled tasks** are not refused while another of their key is at work
  (`api.py:338`, docstring `314-315`): `schedule_task` asks nobody.
* **Locks of subtasks.** Each frame of `update_subtask_status` deletes the cache
  key, and the second deletion may remove the key of the next run (*foreign*). A
  subtask that runs twice is counted twice, so that `SUCCESS` may come while
  another is still queued (after *stale*).
* **Unqueued subtasks.** A parent that dies between the save of its ids and the
  last message leaves ids that are never queued; when it is delivered again it
  takes them for queued. When recipients leave between the count and the query,
  the last ids get no batch and the task waits for them.
* **Whole-row saves.** `run_main_task` and `on_failure` save a row without a lock
  and may write over the report of a subtask; two overlapping deliveries may each
  define subtasks (*stale* in `Delegation`).
* **Late cancellations.** A scheduled task stays `SCHEDULED` from the submission
  until a worker saves it; in that time it can be cancelled, with a 204, and is
  run all the same (*late*).
* **Overlapping bulk operations.** `update_course_index` compares and saves in two
  statements, and a collision that it does see is logged only: the changes of
  the operation that loses are dropped, its signals are sent (*overlap*).
* **The two databases** stay apart after a rollback, a failure or an overtaking
  writer until the next save of the course (*undone*, *mongo*, *overtaken*).
* **Old versions that stay.** Two collecting workers that cross leave an older
  version with learners until the next publication, and so does an update task that
  meets an error of `NO_RETRY_TASKS` or fails more often than `max_retries`
  (`block_structure/tasks.py:30-34,99-119`).
* **Dead ends.** The check for dead ends of `_validate_state_update`
  (`models.py:310`) compares a `RetirementState` with names, which no object
  equals; that states only move forward is all that protects ERRORED and
  COMPLETE. An operator may force any state, COMPLETE included, and the LMS does not
  look at what was done (`waived`).
* **Cancelling while a driver begins** opens an account whose retirement has
  started (*crossed* in `Retirement`); a learner queued between the two
  evaluations of a query is marked but reported to nobody (*missed*).
* **Random cohorts.** Of two requests that assign a new learner at once, the
  second moves the learner out of the cohort the first has answered with, also out
  of a preassigned one. A task without a transaction that fails after it has
  deleted a preassignment has lost it (*lost*).
* **Passing** is announced before the row is saved (`grades/models.py:671-678`): a task
  that fails or dies between the two is tried again and announces again.
* **Grades.** A task that gives up before the commit, or crosses another, leaves
  a grade that disagrees with the scores until something else changes; a rescore
  that raced lowers a score that it was to leave.

## 8. Abstractions

* External: Celery and its broker (messages are a bag or a count), the cache (a
  set of keys, or values), the database (an update under `select_for_update` is
  one step, `get()` and `save()` are two; what a transaction has written is seen
  by others when it commits), MongoDB (one document at a time), the mail server,
  the scheduler of the retirement scripts. They are modelled from how the code
  uses them.
* Time is a step that may happen: the lock's timeout, a schedule that falls due,
  the delay of a retry. Times that are compared are counters or ids. Texts,
  addresses, throttling, logging and metrics are left out; so are columns no
  property reads.
* A call to the mail server that raises has delivered nothing. In truth the answer
  may be lost after the mail was taken; a sender cannot tell. An exception of
  `connection.close()` in the `finally` clause of `_send_course_email` is not
  modelled.
* In `Delegation` a batch reports once; its retries and lock are in `Subtasks`.
  In `TaskLifecycle` the subtasks of a task report together, successfully, or in vain
  if the row does not know them or has lost its counters; what a
  report or rescoring task computes is one step that may raise. The encoders of
  `api.py` and `api_helper.py` (keys, inputs) are constants: all tasks of an
  instance share one key.
* `CourseIndex` is one course; a structure is the set of changes that it holds.
  Nested bulk operations change nothing and are left out, as are definitions,
  assets, libraries, direct-only categories, updates outside of a bulk operation,
  `revert_to_published` and the pruning script.
* `BlockStructures` leaves out transformers and their versions, the files of
  serialized structures and the waffle switches.
* `Retirement` is one learner: a script treats each on its own. What a step
  deletes in the services it calls is one step; the archive and the queries by
  date are left out.
* `Cohorts` leaves out settings, creation and renaming of cohorts, partition
  groups, filters and events. Where MySQL would raise `IntegrityError` for the
  second of two inserts, the model lets it wait and find the row.
* `Grades` leaves out overrides, scores of the submissions service, visible
  blocks, weights and letter grades, zero grades of learners who never tried,
  bulk reads and events. The check of the database and the read of the scores of
  a task are one step.

## 9. Not modelled

The share of the repository's lines that these modules stand for is small,
because most of its lines are views, serializers, settings, tests and rendering,
which run in one request, and for which a model would be a second copy of the
code. What has state across processes and is still missing, in the order in
which it would be added:

1. **Certificates**, composed with `Grades`: the signals that passing sends, the
   generation task, allowlist and invalidation.
2. **Credit**: requirement status that must not fall from satisfied, requests to
   providers and their answers.
3. **Course reruns**: `CourseRerunState` around a task that writes through
   `CourseIndex`.
4. **Enrollment and entitlements**: seats and refunds under concurrent requests.
5. **Grades**: overrides, and the submissions service.
6. **Identity verification**, whose protocol is mostly that of an external
   service; notifications and discussions; content libraries, whose state is
   kept in a package outside of this repository; teams, CCX and programs.

Problem types, the XBlock runtime, safe sessions and the request handlers keep
no state of their own across processes and are left to unit tests.
