-------------------------- MODULE BlockStructures --------------------------
(***************************************************************************)
(* The published course as learners get it.  The modulestore of module     *)
(* CourseIndex sends course_published; the handler queues an update task;  *)
(* the task compares the version in the BlockStructureModel with the one   *)
(* in the modulestore, collects the blocks, stores them with their         *)
(* version, and sets the version key which clients compare.  A reader      *)
(* takes what is stored and never looks whether it is the newest.          *)
(*                                                                         *)
(* What is collected from a structure is named by the structure's id.      *)
(***************************************************************************)
EXTENDS CourseIndex

CONSTANTS
    Workers,     \* the processes that collect: celery workers, or requests
                 \* that find nothing stored
    NoVersion,   \* no BlockStructureModel, no value of the version key
    MaxReads     \* bound: collections that readers begin, and those that fail

ASSUME BlockStructuresAssumption == MaxReads \in Nat /\ NoVersion \notin Ids

VARIABLES
    tasks,       \* how many update tasks are queued
    model,       \* the version of the BlockStructureModel
    stored,      \* the versions in the cache, by the model's fields
    versionKey,  \* the cache's block_structure_version
    worker,      \* what each worker is doing
    reads,       \* how many collections readers have begun, or have failed
    crossed,     \* history: the model changed between a worker's reading of the
                 \* version and its storing it, or of the model and setting the key
    abandoned    \* history: the versions that an update task has given up

bsVars == <<model, stored, versionKey, worker, reads, crossed, abandoned>>
allVars == <<vars, tasks, bsVars>>

\* A worker is idle; has read the published version (want) in its bulk
\* operation; is collecting it; has saved the model; is done with the structure
\* and about to set the version key; has read the model for that (want).
\* seen is the model's version when want was read.  task: it runs the update
\* task, which goes on to the key, and not a reader's request.
Phases == {"idle", "compare", "collect", "cache", "read", "set"}
Idle == [at |-> "idle", want |-> NoVersion, seen |-> NoVersion, task |-> FALSE]

InitAll ==
    /\ Init
    /\ row # NoIndex
    /\ tasks = 0
    /\ model = row.published
    /\ stored = {row.published}
    /\ versionKey = row.published
    /\ worker = [k \in Workers |-> Idle]
    /\ reads = 0
    /\ crossed = FALSE
    /\ abandoned = {}

-----------------------------------------------------------------------------
(* The signals of the modulestore                                          *)

Announces(w) == pc[w] = "signals" /\ pc'[w] = "request" /\ rec[w].flag
Deletes(w) == pc[w] = "unmirror" /\ pc'[w] = "request"

\* A step of the modulestore with the handlers of its signals:
\* update_block_structure_on_course_publish queues a task,
\* _delete_block_structure_on_course_delete deletes what is stored.
StoreStep ==
    /\ Next
    /\ tasks' = tasks + Cardinality({w \in Writers : Announces(w)})
    /\ IF \E w \in Writers : Deletes(w)
       THEN /\ model' = NoVersion
            /\ stored' = stored \ {model}
       ELSE UNCHANGED <<model, stored>>
    /\ UNCHANGED <<versionKey, worker, reads, crossed, abandoned>>

-----------------------------------------------------------------------------
(* update_course_in_cache and get_collected                                *)

Goes(k, phase) == worker' = [worker EXCEPT ![k].at = phase]

\* A worker takes an update task and reads the index at the start of its bulk
\* operation.  Without the course the task is retried, in the end for nothing.
TakeTask(k) ==
    /\ worker[k].at = "idle"
    /\ tasks > 0
    /\ tasks' = tasks - 1
    /\ worker' = IF row = NoIndex THEN worker
                 ELSE [worker EXCEPT ![k] = [at |-> "compare", want |-> row.published,
                                             seen |-> model, task |-> TRUE]]
    /\ UNCHANGED <<vars, model, stored, versionKey, reads, crossed, abandoned>>

\* get_collected finds no model and collects.
ReadMissing(k) ==
    /\ worker[k].at = "idle"
    /\ reads < MaxReads
    /\ model = NoVersion
    /\ row # NoIndex
    /\ reads' = reads + 1
    /\ worker' = [worker EXCEPT ![k] = [at |-> "collect", want |-> row.published,
                                        seen |-> model, task |-> FALSE]]
    /\ UNCHANGED <<vars, tasks, model, stored, versionKey, crossed, abandoned>>

\* get_collected finds a model whose data is no longer cached, and caches it.
ReadStored ==
    /\ model # NoVersion
    /\ stored' = stored \cup {model}
    /\ UNCHANGED <<vars, tasks, model, versionKey, worker, reads, crossed, abandoned>>

\* Mutant of Compare: any stored version is taken for the newest.
CompareStored(k) ==
    /\ worker[k].at = "compare"
    /\ Goes(k, IF model # NoVersion THEN "read" ELSE "collect")
    /\ UNCHANGED <<vars, tasks, model, stored, versionKey, reads, crossed, abandoned>>

\* is_up_to_date.
Compare(k) ==
    /\ worker[k].at = "compare"
    /\ Goes(k, IF model = worker[k].want THEN "read" ELSE "collect")
    /\ UNCHANGED <<vars, tasks, model, stored, versionKey, reads, crossed, abandoned>>

\* _update_collected has collected the blocks; store.add saves the model and
\* its data in one transaction.
SaveModel(k) ==
    /\ worker[k].at = "collect"
    /\ model' = worker[k].want
    /\ crossed' = (crossed \/ model # worker[k].seen)
    /\ Goes(k, "cache")
    /\ UNCHANGED <<vars, tasks, stored, versionKey, reads, abandoned>>

\* _add_to_cache, under the version that was saved.
AddToCache(k) ==
    /\ worker[k].at = "cache"
    /\ stored' = stored \cup {worker[k].want}
    /\ worker' = IF worker[k].task THEN [worker EXCEPT ![k].at = "read"]
                                   ELSE [worker EXCEPT ![k] = Idle]
    /\ UNCHANGED <<vars, tasks, model, versionKey, reads, crossed, abandoned>>

\* _update_block_structure_version: read the model ...
ReadModel(k) ==
    /\ worker[k].at = "read"
    /\ worker' = [worker EXCEPT ![k].want = model, ![k].at = "set"]
    /\ UNCHANGED <<vars, tasks, model, stored, versionKey, reads, crossed, abandoned>>

\* ... and set the key, with no expiry.
SetVersionKey(k) ==
    /\ worker[k].at = "set"
    /\ versionKey' = worker[k].want
    /\ crossed' = (crossed \/ model # worker[k].want)
    /\ worker' = [worker EXCEPT ![k] = Idle]
    /\ UNCHANGED <<vars, tasks, model, stored, reads, abandoned>>

\* The cache may forget a structure.
Evict ==
    /\ \E v \in stored : stored' = stored \ {v}
    /\ UNCHANGED <<vars, tasks, model, versionKey, worker, reads, crossed, abandoned>>

\* A step of a worker raises.
Raises(k) ==
    /\ worker[k].at # "idle"
    /\ reads < MaxReads
    /\ reads' = reads + 1
    /\ worker' = [worker EXCEPT ![k] = Idle]
    /\ UNCHANGED <<vars, model, stored, versionKey, crossed>>

\* Mutant of Retry: the task is not tried again.
RetryNever(k) == worker[k].task /\ Raises(k) /\ UNCHANGED <<tasks, abandoned>>

\* The task is tried again later ...
Retry(k) == worker[k].task /\ Raises(k) /\ tasks' = tasks + 1 /\ UNCHANGED abandoned

\* ... unless the error is one of NO_RETRY_TASKS or this was the last of its
\* max_retries.
GiveUp(k) ==
    /\ worker[k].task
    /\ Raises(k)
    /\ abandoned' = abandoned \cup {worker[k].want}
    /\ UNCHANGED tasks

\* A reader gets an error instead of the course.
ReadFails(k) == ~worker[k].task /\ Raises(k) /\ UNCHANGED <<tasks, abandoned>>

Trouble(k) == Retry(k) \/ GiveUp(k) \/ ReadFails(k)

Collect(k) ==
    \/ TakeTask(k) \/ Compare(k) \/ SaveModel(k) \/ AddToCache(k)
    \/ ReadModel(k) \/ SetVersionKey(k)

NextAll ==
    \/ StoreStep \/ ReadStored \/ Evict
    \/ \E k \in Workers : Collect(k) \/ ReadMissing(k) \/ Trouble(k)

\* Writers get through their requests, and the workers through the queue.
FairAll ==
    /\ InitAll /\ [][NextAll]_allVars
    /\ \A w \in Writers : WF_allVars(Work(w) /\ StoreStep)
    /\ \A k \in Workers : WF_allVars(Collect(k))

-----------------------------------------------------------------------------
(* Properties                                                              *)

Versions == Ids \cup {NoVersion}

\* The variables have their types.
TypeOKAll ==
    /\ TypeOK
    /\ tasks \in Nat
    /\ {model, versionKey} \cup stored \subseteq Versions
    /\ worker \in [Workers -> [at : Phases, want : Versions, seen : Versions, task : BOOLEAN]]
    /\ reads \in 0..MaxReads
    /\ crossed \in BOOLEAN
    /\ abandoned \subseteq Versions

\* Nothing is on its way from the modulestore to what learners get.
Settled ==
    /\ tasks = 0
    /\ \A k \in Workers : worker[k].at = "idle"
    /\ \A w \in Writers : pc[w] \notin {"mirror", "signals", "unmirror"}

\* The published version was left by what may leave one behind, until the next
\* publication: a task that gave it up, two workers that crossed, or an accident
\* in the modulestore.
LeftBehind == row.published \in abandoned \/ crossed \/ accidents # {}

Served == model = row.published /\ versionKey = row.published

\* When everything has settled, learners get the version that is published, and
\* the version key, which has no expiry, names it, so that a client that compares
\* it fetches the course again; whatever tasks have failed and been tried again.
\* Except a version left behind (max_retries and NO_RETRY_TASKS of
\* _call_and_retry_if_needed end a task for good).
ServedIsCurrent == Settled /\ row # NoIndex => LeftBehind \/ Served

\* A published version reaches the learners in the end, unless it is left behind.
PublishedIsServed == <>[](row # NoIndex => LeftBehind \/ Served)
=============================================================================
