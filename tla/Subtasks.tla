------------------------------ MODULE Subtasks ------------------------------
(***************************************************************************)
(* The workers that run the send_course_email messages of one bulk email.  *)
(*                                                                         *)
(* The parent task has stored its subtasks in the InstructorTask row and   *)
(* published one message per subtask.  The broker delivers each message to *)
(* some worker, and now and then delivers it again.  A run of a message    *)
(* reads the row to see that the message is current, takes the subtask's   *)
(* cache lock, mails the recipients one after the other, writes its status *)
(* to the row (which releases the lock), and may publish a retry message   *)
(* for the recipients that remain.                                         *)
(*                                                                         *)
(* One action is one step that another process can observe: a read or a    *)
(* transaction on the row, a cache operation, a call to the mail server or *)
(* to the broker.                                                          *)
(***************************************************************************)
EXTENDS SubtaskEntry

CONSTANTS
    Subtasks,        \* the ids of the subtasks of the task
    Workers,         \* the Celery worker processes
    Recipients,      \* the rows of the query for the recipients
    Person,          \* the user of each row; a user may have two
    Chunk,           \* the recipient list of each subtask
    MaxRetries,      \* settings.BULK_EMAIL_MAX_RETRIES
    RetryCap,        \* settings.BULK_EMAIL_INFINITE_RETRY_CAP
    MaxDbRetries,    \* MAX_DATABASE_LOCK_RETRIES
    Faults           \* bound: how often each fault of FaultKinds may happen

\* What the environment may do to a run, each bounded by Faults:
\*   redeliver   the broker hands out a message and keeps a copy of it;
\*   dberror     a transaction on the row ends in a DatabaseError;
\*   crash       a worker process dies;
\*   expire      the cache lock outlives SUBTASK_LOCK_EXPIRE;
\*   publish     the broker refuses a retry message;
\*   unexpected  send_course_email meets an exception it does not retry.
FaultKinds ==
    {"redeliver", "dberror", "crash", "expire", "publish", "unexpected"}

ASSUME SubtasksAssumption ==
    /\ IsFiniteSet(Subtasks)
    /\ IsFiniteSet(Recipients)
    /\ Chunk \in [Subtasks -> Seq(Recipients)]
    \* The chunks are cut from one pass over the query, so that each row is in
    \* one of them and once (_generate_items_for_subtask).  The query of a lone
    \* staff target has two rows for a user with both roles (Target.get_users).
    /\ \A s \in Subtasks : IsInjective(Chunk[s])
    /\ \A s, t \in Subtasks :
          s # t => ToSet(Chunk[s]) \cap ToSet(Chunk[t]) = {}
    /\ MaxRetries \in Nat
    /\ RetryCap \in Nat
    /\ MaxDbRetries \in Nat \ {0}
    /\ Faults \in [FaultKinds -> Nat]

VARIABLES
    entry,      \* the InstructorTask row
    queue,      \* the broker: a bag of messages
    locked,     \* the subtasks whose cache key is set
    run,        \* what each worker is doing
    faults,     \* how many faults of each kind may still happen
    delivered,  \* history: how often the mail server took each recipient
    refused,    \* history: the recipients filtered out as opted out or disabled
    tainted     \* history: subtasks whose protocol had one of the accidents
                \* listed at Taints

vars == <<entry, queue, locked, run, faults, delivered, refused, tainted>>

-----------------------------------------------------------------------------
(* Messages and runs.                                                      *)

Messages == [sub : Subtasks, list : Seq(Recipients), st : Statuses]

\* The arguments queue_subtasks_for_query gives to create_subtask_fcn.
FirstMessage(s) == [sub |-> s, list |-> Chunk[s], st |-> NewStatus]

\* Where a run of send_course_email stands.
PCs == {"idle", "lock", "filter", "connect", "send", "update", "release",
        "retry"}

\* What the run does after update_subtask_status returns: go on to retry()
\* from one of the two kinds of exception, or end.
Nexts == {"retry_nomax", "retry_withmax", "end"}

Runs == [pc : PCs, sub : Subtasks, list : Seq(Recipients), num : Nat,
         st : Statuses, seen : Statuses, next : Nexts, frames : Nat,
         ok : BOOLEAN, holds : BOOLEAN]

\* A worker without a message.
Idle == [pc |-> "idle"]

Working(w) == run[w].pc # "idle"

\* The worker has taken the cache lock and has not yet deleted it.
Holds(w) == Working(w) /\ run[w].holds

\* The accidents, and where they strike:
\*   stale    a run takes the lock on the strength of a row that another run
\*            has updated since it read it                        (Lock)
\*   foreign  a run deletes the cache key that another run set    (Release)
\*   lost     a status never reached the row                      (Update)
\*   expired  a key timed out, or a worker died while holding one
\*                                                     (LockExpire, Crash)
Taints(s, accident) == tainted' = IF accident THEN tainted \cup {s} ELSE tainted

Spend(kind) == faults[kind] > 0 /\ faults' = [faults EXCEPT ![kind] = @ - 1]

Step(w, r) == run' = [run EXCEPT ![w] = r]

-----------------------------------------------------------------------------
(* The initial state: queue_subtasks_for_query has returned.               *)

Init ==
    /\ entry = InitializeSubtaskInfo(Subtasks, Cardinality(Recipients))
    /\ queue = SetToBag({FirstMessage(s) : s \in Subtasks})
    /\ locked = {}
    /\ run = [w \in Workers |-> Idle]
    /\ faults = Faults
    /\ delivered = [r \in Recipients |-> 0]
    /\ refused = {}
    /\ tainted = {}

-----------------------------------------------------------------------------
(* check_subtask_is_valid                                                  *)

\* A worker receives a message and reads the row.  A message that the row
\* does not admit ends in DuplicateTaskException, which changes nothing.
Receive(w, m) ==
    /\ run[w] = Idle
    /\ m \in DOMAIN queue
    /\ \/ queue' = queue (-) SetToBag({m}) /\ UNCHANGED faults
       \/ Spend("redeliver") /\ UNCHANGED queue
    /\ IF Admits(entry, m.sub, m.st)
       THEN Step(w, [pc |-> "lock", sub |-> m.sub, list |-> m.list,
                     num |-> Len(m.list), st |-> m.st,
                     seen |-> entry.status[m.sub], next |-> "end",
                     frames |-> 0, ok |-> TRUE, holds |-> FALSE])
       ELSE UNCHANGED run
    /\ UNCHANGED <<entry, locked, delivered, refused, tainted>>

\* Mutant of Lock: cache.set for cache.add, which succeeds on a set key too.
LockAlways(w) ==
    /\ run[w].pc = "lock"
    /\ Step(w, [run[w] EXCEPT !.pc = "filter", !.holds = TRUE])
    /\ locked' = locked \cup {run[w].sub}
    /\ Taints(run[w].sub, run[w].seen # entry.status[run[w].sub])
    /\ UNCHANGED <<entry, queue, faults, delivered, refused>>

\* _acquire_subtask_lock: cache.add.
Lock(w) ==
    LET s == run[w].sub
    IN  /\ run[w].pc = "lock"
        /\ IF s \in locked
           THEN Step(w, Idle) /\ UNCHANGED <<locked, tainted>>
           ELSE /\ Step(w, [run[w] EXCEPT !.pc = "filter", !.holds = TRUE])
                /\ locked' = locked \cup {s}
                /\ Taints(s, run[w].seen # entry.status[s])
        /\ UNCHANGED <<entry, queue, faults, delivered, refused>>

-----------------------------------------------------------------------------
(* _send_course_email                                                      *)

\* The run hands status st to update_subtask_status.
ToUpdate(w, st, next) ==
    Step(w, [run[w] EXCEPT !.pc = "update", !.st = st, !.next = next,
                           !.frames = 1, !.ok = TRUE])

\* Those of a list who are left, in the order of the list.
InOrder(left, list) ==
    \A i, j \in DOMAIN left : i < j =>
        \E k, l \in DOMAIN list :
            k < l /\ left[i] = list[k] /\ left[j] = list[l]

\* The users of some rows.
Users(rows) == {Person[r] : r \in rows}

\* _filter_optouts_from_recipients counts the users who have opted out, and
\* _filter_disabled_users_from_recipients the rows of those who are disabled.
Skipped(out, optouts) ==
    Cardinality(optouts) + Cardinality({r \in out : Person[r] \notin optouts})

\* The first attempt drops all rows of the opted-out and the disabled users.
Filter(w) ==
    /\ run[w].pc = "filter"
    /\ IF RetryCount(run[w].st) = 0
       THEN \E left \in SeqOf(ToSet(run[w].list), Len(run[w].list)) :
               LET out == ToSet(run[w].list) \ ToSet(left)
               IN  /\ InOrder(left, run[w].list)
                   /\ Users(out) \cap Users(ToSet(left)) = {}
                   /\ \E optouts \in SUBSET Users(out) :
                         Step(w, [run[w] EXCEPT
                            !.pc = "connect", !.list = left,
                            !.st = AddSkipped(@, Skipped(out, optouts))])
                   /\ refused' = refused \cup out
       ELSE Step(w, [run[w] EXCEPT !.pc = "connect"]) /\ UNCHANGED refused
    /\ UNCHANGED <<entry, queue, locked, faults, delivered, tainted>>

Connect(w) ==
    /\ run[w].pc = "connect"
    /\ Step(w, [run[w] EXCEPT !.pc = "send"])
    /\ UNCHANGED <<entry, queue, locked, faults, delivered, refused, tainted>>

\* message.send() returned.
SendAccepted(w) ==
    /\ run[w].pc = "send"
    /\ run[w].list # <<>>
    /\ Step(w, [run[w] EXCEPT !.st = AddSucceeded(@, 1), !.list = Front(@)])
    /\ delivered' = [delivered EXCEPT ![Last(run[w].list)] = @ + 1]
    /\ UNCHANGED <<entry, queue, locked, faults, refused, tainted>>

\* A non-ASCII address, a 5xx answer or a rejected message: no retry for it.
SendRejected(w) ==
    /\ run[w].pc = "send"
    /\ run[w].list # <<>>
    /\ Step(w, [run[w] EXCEPT !.st = AddFailed(@, 1), !.list = Front(@)])
    /\ UNCHANGED <<entry, queue, locked, faults, delivered, refused, tainted>>

\* A 4xx answer, or LimitExceededException.
SendThrottled(w) ==
    /\ run[w].pc = "send"
    /\ run[w].list # <<>>
    /\ ToUpdate(w, RetryNoMax(run[w].st), "retry_nomax")
    /\ UNCHANGED <<entry, queue, locked, faults, delivered, refused, tainted>>

\* The mail server can be neither reached nor kept connected, or some other
\* exception inside the try block.
SendInterrupted(w) ==
    /\ \/ run[w].pc = "connect"
       \/ run[w].pc = "send" /\ run[w].list # <<>>
    /\ ToUpdate(w, RetryWithMax(run[w].st), "retry_withmax")
    /\ UNCHANGED <<entry, queue, locked, faults, delivered, refused, tainted>>

\* Any other SMTPException: the recipients that remain have failed.
SendFatal(w) ==
    /\ \/ run[w].pc = "connect"
       \/ run[w].pc = "send" /\ run[w].list # <<>>
    /\ ToUpdate(w, InState(AddFailed(run[w].st, Len(run[w].list)), "FAILURE"),
                "end")
    /\ UNCHANGED <<entry, queue, locked, faults, delivered, refused, tainted>>

\* The list is empty: all went well.
SendDone(w) ==
    /\ run[w].pc = "send"
    /\ run[w].list = <<>>
    /\ ToUpdate(w, InState(run[w].st, "SUCCESS"), "end")
    /\ UNCHANGED <<entry, queue, locked, faults, delivered, refused, tainted>>

\* An exception that reaches the handler of send_course_email itself: every
\* recipient the message came with is counted as failed.
AllFailed(r) == InState(AddFailed(r.st, r.num), "FAILURE")

\* CourseEmail.DoesNotExist before the try block, or a ClientError with an
\* unlisted code, which the first handler for ClientError raises again.
SendUnexpected(w) ==
    /\ \/ run[w].pc = "filter"
       \/ run[w].pc = "send" /\ run[w].list # <<>>
    /\ Spend("unexpected")
    /\ ToUpdate(w, AllFailed(run[w]), "end")
    /\ UNCHANGED <<entry, queue, locked, delivered, refused, tainted>>

-----------------------------------------------------------------------------
(* update_subtask_status                                                   *)

\* The transaction commits.
UpdateCommits(w) ==
    /\ run[w].pc = "update"
    /\ entry' = UpdateSubtaskStatus(entry, run[w].sub, run[w].st)
    /\ Step(w, [run[w] EXCEPT !.pc = "release"])
    /\ UNCHANGED <<queue, locked, faults, delivered, refused, tainted>>

\* The transaction is rolled back: the function calls itself, one frame
\* deeper, or gives up and raises through the frames it has.
UpdateFails(w) ==
    /\ run[w].pc = "update"
    /\ Spend("dberror")
    /\ IF run[w].frames < MaxDbRetries
       THEN /\ Step(w, [run[w] EXCEPT !.frames = @ + 1])
            /\ UNCHANGED tainted
       ELSE /\ Step(w, [run[w] EXCEPT !.pc = "release", !.ok = FALSE])
            /\ Taints(run[w].sub, TRUE)
    /\ UNCHANGED <<entry, queue, locked, delivered, refused>>

\* What a run becomes when it leaves one frame of update_subtask_status.
\* After the outermost frame it goes on; a DatabaseError raised while
\* _send_course_email was still active ends in the handler of AllFailed.
Released(r) ==
    LET last == [r EXCEPT !.frames = @ - 1, !.holds = FALSE]
    IN  IF r.frames > 1 THEN last
        ELSE IF r.next = "end" THEN Idle
        ELSE IF r.ok THEN [last EXCEPT !.pc = "retry"]
        ELSE [last EXCEPT !.pc = "update", !.st = AllFailed(r),
                          !.next = "end", !.frames = 1, !.ok = TRUE]

\* Mutant of Release: the key is kept when the run goes on to retry.
ReleaseOnlyAtEnd(w) ==
    /\ run[w].pc = "release"
    /\ locked' = IF run[w].next = "end" THEN locked \ {run[w].sub} ELSE locked
    /\ Taints(run[w].sub, ~run[w].holds /\ run[w].sub \in locked)
    /\ Step(w, Released(run[w]))
    /\ UNCHANGED <<entry, queue, faults, delivered, refused>>

\* The finally block of one frame deletes the cache key, whoever set it.
Release(w) ==
    /\ run[w].pc = "release"
    /\ locked' = locked \ {run[w].sub}
    /\ Taints(run[w].sub, ~run[w].holds /\ run[w].sub \in locked)
    /\ Step(w, Released(run[w]))
    /\ UNCHANGED <<entry, queue, faults, delivered, refused>>

-----------------------------------------------------------------------------
(* _submit_for_retry, after its update                                     *)

\* Mutant of RetryLimit: the throttlings use up the retries of the other kind.
RetryLimitShared(r) ==
    IF r.next = "retry_nomax" /\ RetryCap + r.st.retried_withmax < MaxRetries
    THEN RetryCap + r.st.retried_withmax ELSE MaxRetries

\* max_retries as computed for celery's retry().
RetryLimit(r) ==
    LET limit == MaxRetries + r.st.retried_nomax
        cap == RetryCap + r.st.retried_withmax
    IN  IF r.next = "retry_nomax" /\ cap < limit THEN cap ELSE limit

\* Mutant of RetryPublished: the retry starts over with the whole list.
RetryPublishedWhole(w) ==
    LET r == run[w]
    IN  /\ r.pc = "retry"
        /\ RetryCount(r.st) <= RetryLimit(r)
        /\ queue' = queue (+) SetToBag({[sub |-> r.sub, list |-> Chunk[r.sub],
                                         st |-> r.st]})
        /\ Step(w, Idle)
        /\ UNCHANGED <<entry, locked, faults, delivered, refused, tainted>>

\* celery publishes the message again while its count of retries allows.
RetryPublished(w) ==
    LET r == run[w]
    IN  /\ r.pc = "retry"
        /\ RetryCount(r.st) <= RetryLimit(r)
        /\ queue' = queue (+) SetToBag({[sub |-> r.sub, list |-> r.list,
                                         st |-> r.st]})
        /\ Step(w, Idle)
        /\ UNCHANGED <<entry, locked, faults, delivered, refused, tainted>>

\* retry() raises: no retries are left, or the broker refused the message.
\* The remaining recipients have failed; the run no longer holds its lock.
RetryFails(w) ==
    LET r == run[w]
    IN  /\ r.pc = "retry"
        /\ \/ RetryCount(r.st) > RetryLimit(r) /\ UNCHANGED faults
           \/ RetryCount(r.st) <= RetryLimit(r) /\ Spend("publish")
        /\ ToUpdate(w, InState(AddFailed(r.st, Len(r.list)), "FAILURE"), "end")
        /\ UNCHANGED <<entry, queue, locked, delivered, refused, tainted>>

-----------------------------------------------------------------------------
(* The environment                                                         *)

\* A worker process dies; its message is gone, its cache key stays.
Crash(w) ==
    /\ Working(w)
    /\ Spend("crash")
    /\ Step(w, Idle)
    /\ Taints(run[w].sub, run[w].holds)
    /\ UNCHANGED <<entry, queue, locked, delivered, refused>>

\* SUBTASK_LOCK_EXPIRE seconds have passed since cache.add.
LockExpire(s) ==
    /\ s \in locked
    /\ Spend("expire")
    /\ locked' = locked \ {s}
    /\ Taints(s, TRUE)
    /\ UNCHANGED <<entry, queue, run, delivered, refused>>

-----------------------------------------------------------------------------
(* The specification                                                       *)

Process(w) ==
    \/ Lock(w) \/ Filter(w) \/ Connect(w)
    \/ SendAccepted(w) \/ SendRejected(w) \/ SendThrottled(w)
    \/ SendInterrupted(w) \/ SendFatal(w) \/ SendDone(w) \/ SendUnexpected(w)
    \/ UpdateCommits(w) \/ UpdateFails(w) \/ Release(w)
    \/ RetryPublished(w) \/ RetryFails(w)

Work(w) == (\E m \in DOMAIN queue : Receive(w, m)) \/ Process(w)

Environment ==
    \/ \E w \in Workers : Crash(w)
    \/ \E s \in Subtasks : LockExpire(s)

Next == (\E w \in Workers : Work(w)) \/ Environment

Spec == Init /\ [][Next]_vars

\* A started worker process runs on, and a queued message is handed out to
\* some worker in the end.
FairSpec ==
    /\ Spec
    /\ \A w \in Workers : WF_vars(Process(w))
    /\ WF_vars(\E w \in Workers, m \in DOMAIN queue : Receive(w, m))
-----------------------------------------------------------------------------
(* Properties                                                              *)

\* Every variable stays in its range.
TypeOK ==
    /\ entry \in Entries(Subtasks)
    /\ DOMAIN queue \subseteq Messages
    /\ \A m \in DOMAIN queue : queue[m] \in Nat \ {0}
    /\ locked \subseteq Subtasks
    /\ run \in [Workers -> Runs \cup {Idle}]
    /\ faults \in [FaultKinds -> Nat]
    /\ delivered \in [Recipients -> Nat]
    /\ refused \subseteq Recipients
    /\ tainted \subseteq Subtasks

Ready(s) == entry.status[s].state \in READY_STATES
Clean(s) == s \notin tainted

\* The lock of check_subtask_is_valid keeps a subtask to one worker at a time,
\* except after one of the accidents at Taints.
CleanMutualExclusion ==
    \A s \in Subtasks : Clean(s) =>
        \A v, w \in Workers :
            Holds(v) /\ Holds(w) /\ run[v].sub = s /\ run[w].sub = s => v = w

\* Across all retries and redeliveries of a subtask, each row of the query is
\* mailed at most once, so that a user is mailed no more often than the query
\* lists the user, and never after having been filtered out as opted out: the
\* row check, the lock and the shrinking recipient list together see to it,
\* except after one of the accidents at Taints.
CleanDeliveredOnce ==
    \A s \in Subtasks : Clean(s) =>
        \A r \in ToSet(Chunk[s]) :
            delivered[r] <= IF r \in refused THEN 0 ELSE 1

\* What the statuses of the subtasks ss count under n, one pair for each.
Counted(status, n, ss) == UNION {{s} \X (1 .. status[s][n]) : s \in ss}

\* The counters of the row are those of the subtasks that are ready, although
\* _update_subtask_status adds a status without looking at the one it replaces.
CleanCounters ==
    tainted = {} =>
        LET ready == {s \in Subtasks : Ready(s)}
            good == {s \in ready : entry.status[s].state = "SUCCESS"}
        IN  /\ entry.succeeded = Cardinality(good)
            /\ entry.failed = Cardinality(ready \ good)
            /\ \A n \in StatNames :
                  entry.progress[n] = Cardinality(Counted(entry.status, n, ready))

\* No user has two rows in the chunk.
ListedOnce(s) == IsInjective([i \in DOMAIN Chunk[s] |-> Person[Chunk[s][i]]])

\* The report of a finished subtask accounts for each of its recipients, and
\* its successes are the recipients the mail server took; unless a run was
\* ended by an exception it does not retry, which counts recipients twice, or a
\* user with two rows has opted out, who is counted once.
CleanReport ==
    \A s \in Subtasks : Clean(s) /\ Ready(s) =>
        LET st == entry.status[s]
        IN  /\ st.succeeded = Cardinality({r \in ToSet(Chunk[s]) : delivered[r] > 0})
            /\ st.attempted = st.succeeded + st.failed
            /\ faults.unexpected = Faults.unexpected =>
                  /\ st.attempted + st.skipped <= Len(Chunk[s])
                  /\ ListedOnce(s) => st.attempted + st.skipped = Len(Chunk[s])

\* A ready subtask is never worked on again: its status is final.
CleanReadyIsFinal ==
    [][\A s \in Subtasks :
          Ready(s) /\ s \notin tainted' =>
              entry'.status[s] = entry.status[s]]_vars

\* The two kinds of retry have separate limits: retry() gives up on a message
\* when the transient errors exceed MaxRetries or the throttlings exceed
\* RetryCap, however often the other kind has occurred, and not before.
RetriesCountedApart ==
    [][\A w \in Workers :
          LET spent == \/ run[w].st.retried_withmax > MaxRetries
                       \/ /\ run[w].next = "retry_nomax"
                          /\ run[w].st.retried_nomax > RetryCap
          IN  /\ RetryPublished(w) => ~spent
              /\ RetryFails(w) /\ faults' = faults => spent]_vars

\* Every subtask is finished in the end, the task succeeds and no cache key is
\* left behind: redelivered messages, refused retries and short database
\* trouble do not keep the task from its end.
AllFinish ==
    <>[](/\ entry.task_state = "SUCCESS"
         /\ \A s \in Subtasks : Ready(s)
         /\ locked = {})
=============================================================================
