--------------------------- MODULE LifecycleProofs ---------------------------
(***************************************************************************)
(* Proofs of the safety properties of TaskLifecycle.                       *)
(*                                                                         *)
(* TaskInv: what was cancelled or postponed in time is not submitted; a    *)
(* task goes from its request or the command into one message and to one   *)
(* worker, unless its message is handed out again; it is not successful    *)
(* before its subtasks are over, and stays in the state that it ends in.   *)
(*                                                                         *)
(* LifeInv: one task of a key is at work at a time, among those that are   *)
(* submitted at once; submit_task looks for running tasks first, and only  *)
(* a run that saves PROGRESS over its end makes a task run again.          *)
(***************************************************************************)
EXTENDS TaskLifecycle, FiniteSetTheorems, TLAPS

Reads(pcs) == [pc : pcs, task : Tasks, seen : Rows] \cup {Idle}

\* The types that the proof needs.
Shaped ==
    /\ row \in [Tasks -> Rows]
    /\ DOMAIN request = Tasks
    /\ messages \in [Tasks -> Nat]
    /\ worker \in [Workers -> Reads({"mark", "work", "on_success", "on_failure",
                                     "succeed", "fail"})]
    /\ DOMAIN schedule = Tasks
    /\ cron \in [todo : SUBSET Tasks, doing : Reads({"submit"})]
    /\ editor \in [Editors -> Reads({"cancel", "delete", "postpone"})]
    /\ poll \in Reads({"look"})

\* Only what was asked for with a schedule is scheduled, submitted by the command,
\* cancelled or postponed.
SchedulesAreLater ==
    /\ \A t \in Tasks : schedule[t] # None \/ request[t].pc \in {"store", "save"} => t \in Later
    /\ cron.todo \subseteq Later
    /\ cron.doing.pc # "idle" => cron.doing.task \in Later
    /\ \A d \in Editors : editor[d].pc # "idle" => editor[d].task \in Later

\* A result says that a task is revoked only if an operator has revoked it.
RevokedByHand == discarded \subseteq revoked /\ \A t \in revoked : Met("hand", t)

-----------------------------------------------------------------------------
(* Types                                                                   *)

\* A read with a later save in mind.
LEMMA DoingTyped ==
    ASSUME Shaped, NEW t \in Tasks, NEW pcs, NEW pc \in pcs
    PROVE  Doing(pc, t) \in Reads(pcs)
BY DEF Shaped, Doing, Reads

LEMMA ReadsParts ==
    ASSUME NEW pcs, NEW x \in Reads(pcs), "idle" \notin pcs, x # Idle
    PROVE  x.pc \in pcs /\ x.task \in Tasks /\ x.seen \in Rows
BY DEF Reads

LEMMA IdleParts ==
    ASSUME NEW pcs, NEW x \in Reads(pcs), x.pc # "idle"
    PROVE  x.pc \in pcs /\ x.task \in Tasks /\ x.seen \in Rows
BY DEF Reads, Idle

LEMMA SaveShaped ==
    ASSUME Shaped, NEW t \in Tasks, NEW seen \in Rows, NEW state \in States,
           SaveAs(t, seen, state)
    PROVE  /\ row' \in [Tasks -> Rows]
           /\ row'[t].state = state /\ row'[t].subtasks = SubtasksOf(seen, state)
           /\ \A u \in Tasks : u # t => row'[u] = row[u]
<1> DEFINE new == [state |-> state, subtasks |-> SubtasksOf(seen, state)]
<1>1. new \in Rows /\ new.state = state /\ new.subtasks = SubtasksOf(seen, state)
  BY DEF Rows, SubtasksOf
<1>2. row' = [row EXCEPT ![t] = new]
  BY DEF SaveAs
<1> HIDE DEF new
<1>3. row' \in [Tasks -> Rows] /\ row'[t] = new /\ \A u \in Tasks : u # t => row'[u] = row[u]
  BY <1>1, <1>2 DEF Shaped
<1> QED
  BY <1>1, <1>3

LEMMA FixedRows ==
    /\ NewRow \in Rows /\ NoRow \in Rows /\ NoRow.state = None
    /\ NewRow.state = "QUEUING" /\ NewRow.subtasks = "none"
    /\ {"QUEUING", "PROGRESS", "SCHEDULED", "SUCCESS", "FAILURE", "REVOKED"} \subseteq States
    /\ None \notin States
BY DEF NewRow, NoRow, Rows, None, States, READY_STATES

\* What the actions of a worker start from.
Pcs == {"mark", "work", "on_success", "on_failure", "succeed", "fail"}

LEMMA WorkerParts ==
    ASSUME Shaped, NEW w \in Workers, worker[w].pc # "idle"
    PROVE  worker[w].pc \in Pcs /\ worker[w].task \in Tasks /\ worker[w].seen \in Rows
BY IdleParts DEF Shaped, Pcs

LEMMA SetWorkerShaped ==
    ASSUME Shaped, NEW w \in Workers, NEW x, SetWorker(w, x), x \in Reads(Pcs)
    PROVE  /\ worker' \in [Workers -> Reads(Pcs)]
           /\ worker'[w] = x /\ \A v \in Workers : v # w => worker'[v] = worker[v]
BY DEF Shaped, SetWorker, Pcs

LEMMA NextPc ==
    ASSUME Shaped, NEW w \in Workers, worker[w].pc # "idle", NEW pc \in Pcs
    PROVE  /\ [worker[w] EXCEPT !.pc = pc] \in Reads(Pcs)
           /\ [worker[w] EXCEPT !.pc = pc].pc = pc
           /\ [worker[w] EXCEPT !.pc = pc].task = worker[w].task
<1>1. worker[w] \in [pc : Pcs, task : Tasks, seen : Rows]
  BY DEF Shaped, Reads, Idle, Pcs
<1> QED
  BY <1>1 DEF Reads

-----------------------------------------------------------------------------
(* What each step does                                                     *)

\* The steps of requests, editors, the command and operators, that leave the work of
\* all tasks alone.
Aside ==
    \/ \E t \in Tasks : StoreSchedule(t) \/ Elapse(t) \/ CronTake(t) \/ Revoke(t) \/ PollRead(t)
    \/ CronScan
    \/ \E d \in Editors : (\E t \in Later : Look(d, t)) \/ Delete(d) \/ Postpone(d)

\* The steps of a request, of the subtasks and the broker for the task t.
ForTask(t) ==
    \/ CheckRunning(t) \/ Create(t) \/ Submit(t) \/ SubmitFails(t)
    \/ Reserve(t) \/ SaveScheduled(t) \/ ScheduleFails(t)
    \/ SubtasksFinish(t) \/ Discard(t)

\* The steps that save a row which they have read.
Saves == CronSubmit \/ CronFails \/ PollSave \/ \E d \in Editors : Cancel(d)

ByWorker(w) == Run(w) \/ Crash(w) \/ \E t \in Tasks : Receive(w, t)

FailsOld == \E ts \in SUBSET Tasks, state \in {"QUEUING", "PROGRESS"} : FailOld(ts, state)

LEMMA NextGroups ==
    Next => \/ Aside \/ Saves \/ FailsOld
            \/ \E t \in Tasks : ForTask(t)
            \/ \E w \in Workers : ByWorker(w)
BY DEF Next, Request, Run, Edit, Cron, Poll, Operate, Aside, Saves, FailsOld, ForTask, ByWorker

\* What all steps keep that the proof needs of the rest.
Kept == Shaped /\ SchedulesAreLater

LEMMA AsideKept ==
    ASSUME Kept, Aside
    PROVE  Kept'
<1> USE DEF Kept
<1>1. CASE \E t \in Tasks : StoreSchedule(t)
  <2>1. PICK t \in Tasks : StoreSchedule(t)
    BY <1>1
  <2>2. t \in Later
    BY <2>1 DEF SchedulesAreLater, StoreSchedule
  <2>3. /\ schedule' = [schedule EXCEPT ![t] = "future"]
        /\ request' = [request EXCEPT ![t] = [pc |-> "save"]]
        /\ UNCHANGED <<row, messages, worker, cron, editor, poll>>
    BY <2>1 DEF StoreSchedule, operators
  <2>4. Shaped'
    BY <2>3 DEF Shaped, Idle, Reads
  <2>5. SchedulesAreLater'
    BY <2>2, <2>3 DEF Shaped, SchedulesAreLater
  <2> QED
    BY <2>4, <2>5
<1>2. CASE \E t \in Tasks : Elapse(t)
  <2>1. PICK t \in Tasks : Elapse(t)
    BY <1>2
  <2>2. /\ schedule' = [schedule EXCEPT ![t] = "due"] /\ schedule[t] # None
        /\ UNCHANGED <<request, row, messages, worker, cron, editor, poll>>
    BY <2>1 DEF Elapse, operators, None
  <2>3. Shaped'
    BY <2>2 DEF Shaped, Idle, Reads
  <2>4. SchedulesAreLater'
    BY <2>2 DEF Shaped, SchedulesAreLater
  <2> QED
    BY <2>3, <2>4
<1>3. CASE \E t \in Tasks : CronTake(t)
  <2>1. PICK t \in Tasks : CronTake(t)
    BY <1>3
  <2>2. t \in Later
    BY <2>1 DEF CronTake, SchedulesAreLater
  <2>3. /\ cron' = [todo |-> cron.todo \ {t}, doing |-> Doing("submit", t)]
        /\ UNCHANGED <<row, schedule, request, messages, worker, editor, poll>>
    BY <2>1 DEF CronTake, operators
  <2>4. Doing("submit", t) \in Reads({"submit"}) /\ Doing("submit", t).task = t
    BY DoingTyped DEF Doing
  <2>5. cron.todo \subseteq Tasks
    BY DEF Shaped
  <2> HIDE DEF Kept
  <2>6. cron' \in [todo : SUBSET Tasks, doing : Reads({"submit"})]
    BY <2>3, <2>4, <2>5
  <2>7. Shaped'
    BY <2>3, <2>6 DEF Kept, Shaped, Idle, Reads
  <2>8. SchedulesAreLater'
    BY <2>2, <2>3, <2>4 DEF Kept, SchedulesAreLater
  <2> QED
    BY <2>7, <2>8 DEF Kept
<1>4. CASE \E t \in Tasks : Revoke(t)
  <2>1. UNCHANGED <<row, schedule, request, messages, worker, cron, editor, poll>>
    BY <1>4 DEF Revoke, edits
  <2> QED
    BY <2>1 DEF Shaped, SchedulesAreLater, Idle, Reads
<1>5. CASE \E t \in Tasks : PollRead(t)
  <2>1. PICK t \in Tasks : PollRead(t)
    BY <1>5
  <2>2. UNCHANGED <<row, schedule, request, messages, worker, cron, editor>>
    BY <2>1 DEF PollRead, edits
  <2>3. poll' \in Reads({"look"})
    BY <2>1, DoingTyped DEF PollRead
  <2> QED
    BY <2>2, <2>3 DEF Shaped, SchedulesAreLater, Idle, Reads
<1>6. CASE CronScan
  <2>1. /\ cron' = [cron EXCEPT !.todo = Due] /\ cron.doing = Idle
        /\ UNCHANGED <<row, schedule, request, messages, worker, editor, poll>>
    BY <1>6 DEF CronScan, operators
  <2>2. Due \subseteq Tasks /\ Due \subseteq Later
    BY DEF Due, SchedulesAreLater, None
  <2>3. Shaped'
    BY <2>1, <2>2 DEF Shaped, Idle, Reads
  <2>4. SchedulesAreLater'
    BY <2>1, <2>2 DEF Shaped, SchedulesAreLater
  <2> QED
    BY <2>3, <2>4
<1>7. CASE \E d \in Editors, t \in Later : Look(d, t)
  <2>1. PICK d \in Editors, t \in Later : Look(d, t)
    BY <1>7
  <2>2. t \in Tasks
    BY TaskLifecycleAssumption
  <2>3. PICK pc \in {"cancel", "postpone"} : editor' = [editor EXCEPT ![d] = Doing(pc, t)]
    BY <2>1 DEF Look
  <2>4. UNCHANGED <<row, schedule, request, messages, worker, cron, poll>>
    BY <2>1 DEF Look, operators
  <2>5. Doing(pc, t) \in Reads({"cancel", "delete", "postpone"}) /\ Doing(pc, t).task = t
    BY <2>2, DoingTyped DEF Doing
  <2>6. Shaped'
    BY <2>3, <2>4, <2>5 DEF Shaped, Idle, Reads
  <2>7. SchedulesAreLater'
    BY <2>1, <2>3, <2>4, <2>5 DEF Shaped, SchedulesAreLater
  <2> QED
    BY <2>6, <2>7
<1>8. CASE \E d \in Editors : Delete(d) \/ Postpone(d)
  <2>1. PICK d \in Editors : Delete(d) \/ Postpone(d)
    BY <1>8
  <2>2. editor[d].pc # "idle"
    BY <2>1 DEF Delete, Postpone
  <2> DEFINE t == editor[d].task
  <2>3. t \in Later
    BY <2>2 DEF SchedulesAreLater
  <2>4. /\ schedule' = [schedule EXCEPT ![t] = None] \/ schedule' = [schedule EXCEPT ![t] = "future"]
        /\ editor' = [editor EXCEPT ![d] = Idle]
        /\ UNCHANGED <<row, request, messages, worker, cron, poll>>
    BY <2>1 DEF Delete, Postpone, operators
  <2> HIDE DEF t
  <2>5. Shaped'
    BY <2>4 DEF Shaped, Idle, Reads
  <2>6. SchedulesAreLater'
    BY <2>3, <2>4 DEF Shaped, SchedulesAreLater, Idle
  <2> QED
    BY <2>5, <2>6
<1> QED
  BY <1>1, <1>2, <1>3, <1>4, <1>5, <1>6, <1>7, <1>8 DEF Aside

LEMMA SavesKept ==
    ASSUME Kept, Saves
    PROVE  Kept'
<1> USE DEF Kept
<1>1. CASE CronSubmit \/ CronFails
  <2> DEFINE t == cron.doing.task
  <2>1. cron.doing # Idle /\ cron.doing \in Reads({"submit"})
    BY <1>1 DEF CronSubmit, CronFails, Shaped
  <2>2. t \in Tasks /\ cron.doing.seen \in Rows /\ t \in Later
    BY <2>1, ReadsParts, TaskLifecycleAssumption DEF SchedulesAreLater
  <2>3. cron' = [cron EXCEPT !.doing = Idle] /\ UNCHANGED <<request, schedule, worker, editor, poll>>
    BY <1>1 DEF CronSubmit, CronFails, operators
  <2>4. /\ messages' = messages \/ messages' = [messages EXCEPT ![t] = @ + 1]
        /\ row' = row \/ SaveAs(t, cron.doing.seen, "FAILURE")
    BY <1>1 DEF CronSubmit, CronFails, Publish
  <2> HIDE DEF t, Kept
  <2>5. row' \in [Tasks -> Rows]
    <3>1. CASE row' = row
      BY <3>1 DEF Shaped, Kept
    <3>2. CASE SaveAs(t, cron.doing.seen, "FAILURE")
      BY <2>2, <3>2, SaveShaped, FixedRows DEF Kept
    <3> QED
      BY <2>4, <3>1, <3>2
  <2>6. messages' \in [Tasks -> Nat]
    BY <2>4 DEF Shaped, Kept
  <2>7. Shaped'
    BY <2>3, <2>5, <2>6 DEF Shaped, Idle, Reads, Kept
  <2>8. SchedulesAreLater'
    BY <2>3 DEF Shaped, SchedulesAreLater, Idle, Kept
  <2> QED
    BY <2>7, <2>8 DEF Kept
<1>2. CASE PollSave
  <2> DEFINE t == poll.task
  <2>1. t \in Tasks /\ poll.seen \in Rows
    <3>1. poll # Idle /\ poll \in Reads({"look"})
      BY <1>2 DEF PollSave, Shaped
    <3> QED
      BY <3>1, ReadsParts
  <2>2. /\ poll' = Idle /\ UNCHANGED <<request, messages, worker, schedule, cron, editor>>
        /\ row' = row \/ SaveAs(t, poll.seen, "REVOKED")
    BY <1>2 DEF PollSave, edits, SaveAs
  <2> HIDE DEF t, Kept
  <2>3. row' \in [Tasks -> Rows]
    <3>1. CASE row' = row
      BY <3>1 DEF Shaped, Kept
    <3>2. CASE SaveAs(t, poll.seen, "REVOKED")
      BY <2>1, <3>2, SaveShaped, FixedRows DEF Kept
    <3> QED
      BY <2>2, <3>1, <3>2
  <2>4. Shaped'
    BY <2>2, <2>3 DEF Shaped, Idle, Reads, Kept
  <2>5. SchedulesAreLater'
    BY <2>2 DEF SchedulesAreLater, Kept
  <2> QED
    BY <2>4, <2>5 DEF Kept
<1>3. CASE \E d \in Editors : Cancel(d)
  <2>1. PICK d \in Editors : Cancel(d)
    BY <1>3
  <2> DEFINE t == editor[d].task
  <2>2. editor[d].pc = "cancel"
    BY <2>1 DEF Cancel
  <2>3. t \in Tasks /\ editor[d].seen \in Rows /\ t \in Later
    <3>1. editor[d] \in Reads({"cancel", "delete", "postpone"}) /\ editor[d].pc # "idle"
      BY <2>2 DEF Shaped
    <3> QED
      BY <3>1, IdleParts DEF SchedulesAreLater
  <2>4. /\ SaveAs(t, editor[d].seen, "REVOKED")
        /\ editor' = [editor EXCEPT ![d].pc = "delete"]
        /\ UNCHANGED <<request, messages, worker, schedule, cron, poll>>
    BY <2>1 DEF Cancel, operators
  <2>5. row' \in [Tasks -> Rows]
    BY <2>3, <2>4, SaveShaped, FixedRows
  <2>6. editor' \in [Editors -> Reads({"cancel", "delete", "postpone"})]
          /\ editor'[d].task = t /\ \A e \in Editors : e # d => editor'[e] = editor[e]
    <3>1. editor[d] \in [pc : {"cancel", "delete", "postpone"}, task : Tasks, seen : Rows]
      BY <2>2 DEF Shaped, Reads, Idle
    <3>2. [editor[d] EXCEPT !.pc = "delete"] \in Reads({"cancel", "delete", "postpone"})
            /\ [editor[d] EXCEPT !.pc = "delete"].task = t
      BY <3>1 DEF Reads
    <3> QED
      BY <2>4, <3>2 DEF Shaped
  <2> HIDE DEF t
  <2>7. Shaped'
    BY <2>4, <2>5, <2>6 DEF Shaped, Idle, Reads
  <2>8. SchedulesAreLater'
    BY <2>3, <2>4, <2>6 DEF SchedulesAreLater
  <2> QED
    BY <2>7, <2>8
<1> QED
  BY <1>1, <1>2, <1>3 DEF Saves

LEMMA FailsOldKept ==
    ASSUME Kept, FailsOld
    PROVE  Kept'
<1>1. PICK ts \in SUBSET Tasks, state \in {"QUEUING", "PROGRESS"} : FailOld(ts, state)
  BY DEF FailsOld
<1>2. /\ row' = [t \in Tasks |->
                    IF t \in ts THEN [row[t] EXCEPT !.state = "FAILURE"] ELSE row[t]]
      /\ UNCHANGED <<request, messages, worker, schedule, cron, editor, poll>>
  BY <1>1 DEF FailOld, edits, operators
<1>3. Shaped'
  BY <1>2, FixedRows DEF Kept, Shaped, Rows, Idle, Reads
<1>4. SchedulesAreLater'
  BY <1>2 DEF Kept, SchedulesAreLater
<1> QED
  BY <1>3, <1>4 DEF Kept

LEMMA ForTaskKept ==
    ASSUME Kept, NEW t \in Tasks, ForTask(t)
    PROVE  Kept'
<1>1. UNCHANGED <<schedule, cron, editor, poll, worker>>
  BY DEF ForTask, CheckRunning, Create, Submit, SubmitFails, Reserve, SaveScheduled,
         ScheduleFails, SubtasksFinish, Discard, edits, operators
<1>2. /\ DOMAIN request' = Tasks /\ \A u \in Tasks : u # t => request'[u] = request[u]
      /\ request'[t].pc \in {"store", "save"} => t \in Later
      /\ row' \in [Tasks -> Rows] /\ messages' \in [Tasks -> Nat]
  <2> USE DEF Kept, Shaped, SchedulesAreLater
  <2>1. CASE CheckRunning(t)
    BY <2>1 DEF CheckRunning
  <2>2. CASE Create(t)
    BY <2>2, FixedRows DEF Create
  <2>3. CASE Submit(t)
    BY <2>3 DEF Submit, Publish
  <2>4. CASE SubmitFails(t)
    <3>1. SaveAs(t, NewRow, "FAILURE") /\ messages' = messages
            /\ request' = [request EXCEPT ![t] = [pc |-> "failed"]]
      BY <2>4 DEF SubmitFails
    <3>2. row' \in [Tasks -> Rows]
      BY <3>1, SaveShaped, FixedRows
    <3> QED
      BY <3>1, <3>2
  <2>5. CASE Reserve(t)
    BY <2>5, FixedRows DEF Reserve
  <2>6. CASE SaveScheduled(t) \/ ScheduleFails(t)
    <3>1. PICK state \in {"SCHEDULED", "FAILURE"} : SaveAs(t, NewRow, state)
      BY <2>6 DEF SaveScheduled, ScheduleFails
    <3>2. row' \in [Tasks -> Rows]
      BY <3>1, SaveShaped, FixedRows
    <3>3. messages' = messages /\ (request' = [request EXCEPT ![t] = [pc |-> "done"]]
                                    \/ request' = [request EXCEPT ![t] = [pc |-> "failed"]])
      BY <2>6 DEF SaveScheduled, ScheduleFails
    <3> QED
      BY <3>2, <3>3
  <2>7. CASE SubtasksFinish(t)
    BY <2>7, FixedRows DEF SubtasksFinish, Rows
  <2>8. CASE Discard(t)
    BY <2>8 DEF Discard
  <2> QED
    BY <2>1, <2>2, <2>3, <2>4, <2>5, <2>6, <2>7, <2>8 DEF ForTask
<1>3. Shaped'
  BY <1>1, <1>2 DEF Kept, Shaped, Idle, Reads
<1>4. SchedulesAreLater'
  BY <1>1, <1>2 DEF Kept, Shaped, SchedulesAreLater
<1> QED
  BY <1>3, <1>4 DEF Kept

\* A row that was read is saved in another state.
Saved(t, seen, state) ==
    /\ row'[t].state = state /\ row'[t].subtasks = SubtasksOf(seen, state)
    /\ seen.subtasks # row[t].subtasks => <<"erased", t>> \in tainted'
    /\ state = "PROGRESS" /\ Ready(t) => <<"revived", t>> \in tainted'

\* The subtasks are created and published.
Delegated(t) ==
    /\ row[t].subtasks = "none"
    /\ row'[t].state = "PROGRESS" /\ row'[t].subtasks = "open"
    /\ atWork' = atWork \cup {t}
    /\ Ready(t) => <<"revived", t>> \in tainted'

\* What the steps of a worker do to its task t.
WorkerDoes(w, t) ==
    /\ UNCHANGED <<request, schedule, cron, editor, poll, published>>
    /\ worker' \in [Workers -> Reads(Pcs)]
    /\ \A v \in Workers : v # w => worker'[v] = worker[v]
    /\ At(worker[w], t) \/ worker[w] = Idle
    /\ At(worker'[w], t) \/ worker'[w] = Idle
    /\ row' \in [Tasks -> Rows] /\ messages' \in [Tasks -> Nat]
    /\ \A u \in Tasks : u # t => row'[u] = row[u] /\ messages'[u] = messages[u]

\* A message is received.
Receives(w, t) ==
    /\ WorkerDoes(w, t)
    /\ worker[w] = Idle /\ worker'[w].pc = "mark" /\ worker'[w].seen = row[t]
    /\ messages[t] > 0 /\ row'[t] = row[t] /\ atWork' = atWork
    /\ \/ messages'[t] = messages[t] - 1
       \/ messages'[t] = messages[t] /\ <<"redelivered", t>> \in tainted'

\* The row is saved before the work is done.
Marks(w, t) ==
    /\ WorkerDoes(w, t)
    /\ At(worker[w], t) /\ worker[w].pc = "mark" /\ At(worker'[w], t) /\ worker'[w].pc = "work"
    /\ messages'[t] = messages[t] /\ atWork' = atWork
    /\ Saved(t, worker[w].seen, "PROGRESS")

\* The work has been done, and perhaps subtasks have been created.
Works(w, t) ==
    /\ WorkerDoes(w, t)
    /\ At(worker[w], t) /\ worker[w].pc = "work"
    /\ At(worker'[w], t) /\ worker'[w].pc \in {"on_success", "on_failure"}
    /\ messages'[t] = messages[t]
    /\ \/ row'[t] = row[t] /\ atWork' = atWork
       \/ worker'[w].pc = "on_success" /\ Delegated(t)

\* The row is read after the work, unless there is nothing left to do.
Handles(w, t) ==
    /\ WorkerDoes(w, t)
    /\ At(worker[w], t) /\ worker[w].pc \in {"on_success", "on_failure"}
    /\ row'[t] = row[t] /\ messages'[t] = messages[t] /\ atWork' = atWork
    /\ \/ worker'[w] = Idle
       \/ /\ At(worker'[w], t) /\ worker'[w].seen = row[t]
          /\ \/ worker[w].pc = "on_failure" /\ worker'[w].pc = "fail"
             \/ /\ worker[w].pc = "on_success" /\ worker'[w].pc = "succeed"
                /\ row[t].subtasks = "none"

\* The row is saved after the work.
Finishes(w, t) ==
    /\ WorkerDoes(w, t)
    /\ At(worker[w], t) /\ worker[w].pc \in {"succeed", "fail"} /\ worker'[w] = Idle
    /\ messages'[t] = messages[t] /\ atWork' = atWork
    /\ Saved(t, worker[w].seen, IF worker[w].pc = "succeed" THEN "SUCCESS" ELSE "FAILURE")

\* The worker dies.
Crashes(w, t) ==
    /\ WorkerDoes(w, t)
    /\ At(worker[w], t) /\ worker'[w] = Idle
    /\ row'[t] = row[t] /\ messages'[t] = messages[t] /\ atWork' = atWork
    /\ Spend("crash")

Ends(w, t) == Handles(w, t) \/ Finishes(w, t) \/ Crashes(w, t)

WorkerActs(w, t) == Receives(w, t) \/ Marks(w, t) \/ Works(w, t) \/ Ends(w, t)

LEMMA ReceiveDoes ==
    ASSUME Shaped, NEW w \in Workers, NEW t \in Tasks, Receive(w, t)
    PROVE  Receives(w, t)
<1>1. /\ worker[w] = Idle /\ SetWorker(w, Doing("mark", t))
      /\ UNCHANGED <<request, row, schedule, cron, editor, poll, published, atWork>>
      /\ messages[t] > 0
      /\ \/ messages' = [messages EXCEPT ![t] = @ - 1]
         \/ messages' = messages /\ <<"redelivered", t>> \in tainted'
  BY DEF Receive, Taint, Met, edits, operators
<1>2. /\ Doing("mark", t) \in Reads(Pcs)
      /\ Doing("mark", t).pc = "mark" /\ Doing("mark", t).task = t /\ Doing("mark", t).seen = row[t]
  <2>1. "mark" \in Pcs
    BY DEF Pcs
  <2> QED
    BY <2>1, DoingTyped DEF Doing
<1>3. /\ worker' \in [Workers -> Reads(Pcs)] /\ worker'[w] = Doing("mark", t)
      /\ \A v \in Workers : v # w => worker'[v] = worker[v]
  BY <1>1, <1>2, SetWorkerShaped
<1>4. /\ messages' \in [Tasks -> Nat]
      /\ \/ messages'[t] = messages[t] - 1
         \/ messages'[t] = messages[t] /\ <<"redelivered", t>> \in tainted'
      /\ \A u \in Tasks : u # t => messages'[u] = messages[u]
  BY <1>1 DEF Shaped
<1>5. row' \in [Tasks -> Rows]
  BY <1>1 DEF Shaped
<1> QED
  BY <1>1, <1>2, <1>3, <1>4, <1>5 DEF Receives, WorkerDoes, At

LEMMA RunDoes ==
    ASSUME Shaped, NEW w \in Workers, Run(w) \/ Crash(w)
    PROVE  worker[w].task \in Tasks /\ WorkerActs(w, worker[w].task)
<1> DEFINE t == worker[w].task
<1>1. worker[w].pc # "idle"
  <2>1. CASE Crash(w)
    BY <2>1 DEF Crash, Shaped, Reads, Idle
  <2>2. CASE Run(w)
    BY <2>2 DEF Run, Mark, Work, WorkRaises, Handle, Finish
  <2> QED
    BY <2>1, <2>2
<1>2. worker[w].pc \in Pcs /\ t \in Tasks /\ worker[w].seen \in Rows /\ At(worker[w], t)
  BY <1>1, WorkerParts DEF At
<1>3. UNCHANGED <<request, messages, schedule, cron, editor, poll, published>>
  BY DEF Run, Mark, Work, WorkRaises, Handle, Finish, Crash, edits, operators
<1>4. row \in [Tasks -> Rows] /\ messages' \in [Tasks -> Nat]
  BY <1>3 DEF Shaped
<1>5. Idle \in Reads(Pcs) /\ Idle.pc = "idle"
  BY DEF Reads, Idle
<1>6. CASE Mark(w)
  <2> DEFINE x == [worker[w] EXCEPT !.pc = "work"]
  <2>1. SetWorker(w, x) /\ SaveAs(t, worker[w].seen, "PROGRESS") /\ worker[w].pc = "mark"
          /\ atWork' = atWork /\ tainted' = tainted \cup Revived(t) \cup Erased(t, worker[w].seen)
    BY <1>6 DEF Mark
  <2>2. x \in Reads(Pcs) /\ x.pc = "work" /\ x.task = t
    BY <1>1, NextPc DEF Pcs
  <2> HIDE DEF x, t
  <2>3. worker' \in [Workers -> Reads(Pcs)] /\ worker'[w] = x
          /\ \A v \in Workers : v # w => worker'[v] = worker[v]
    BY <2>1, <2>2, SetWorkerShaped
  <2>4. /\ row' \in [Tasks -> Rows] /\ \A u \in Tasks : u # t => row'[u] = row[u]
        /\ row'[t].state = "PROGRESS" /\ row'[t].subtasks = SubtasksOf(worker[w].seen, "PROGRESS")
    BY <1>2, <2>1, SaveShaped, FixedRows
  <2>5. Saved(t, worker[w].seen, "PROGRESS")
    BY <2>1, <2>4 DEF Saved, Revived, Erased, Met, Ready
  <2>6. Marks(w, t)
    BY <1>2, <1>3, <1>4, <2>1, <2>2, <2>3, <2>4, <2>5 DEF Marks, WorkerDoes, At
  <2> QED
    BY <1>2, <2>6 DEF t, WorkerActs
<1>7. CASE Work(w) \/ WorkRaises(w)
  <2>1. PICK pc \in {"on_success", "on_failure"} :
           /\ SetWorker(w, [worker[w] EXCEPT !.pc = pc])
           /\ (row' = row /\ atWork' = atWork) \/ pc = "on_success"
    BY <1>7 DEF Work, WorkRaises
  <2>4. \/ row' = row /\ atWork' = atWork
        \/ pc = "on_success" /\ row[t].subtasks = "none" /\ Delegate(t)
    BY <1>7, <2>1 DEF Work, WorkRaises
  <2> DEFINE x == [worker[w] EXCEPT !.pc = pc]
  <2>2. SetWorker(w, x) /\ worker[w].pc = "work"
    BY <1>7, <2>1 DEF Work, WorkRaises
  <2>3. x \in Reads(Pcs) /\ x.pc = pc /\ x.task = t
    BY <1>1, NextPc DEF Pcs
  <2> HIDE DEF x, t
  <2>5. worker' \in [Workers -> Reads(Pcs)] /\ worker'[w] = x
          /\ \A v \in Workers : v # w => worker'[v] = worker[v]
    BY <2>2, <2>3, SetWorkerShaped
  <2>6. [state |-> "PROGRESS", subtasks |-> "open"] \in Rows
    BY FixedRows DEF Rows
  <2>7. /\ row' \in [Tasks -> Rows] /\ \A u \in Tasks : u # t => row'[u] = row[u]
        /\ (row'[t] = row[t] /\ atWork' = atWork) \/ (pc = "on_success" /\ Delegated(t))
    BY <1>2, <1>4, <2>4, <2>6 DEF Delegate, Delegated, Revived, Met, Ready
  <2>8. Works(w, t)
    BY <1>2, <1>3, <1>4, <2>2, <2>3, <2>5, <2>7 DEF Works, WorkerDoes, At
  <2> QED
    BY <1>2, <2>8 DEF t, WorkerActs
<1>8. CASE Handle(w)
  <2> DEFINE Found(x) ==
        \/ x = Idle
        \/ x = Doing("fail", t) /\ worker[w].pc = "on_failure"
        \/ x = Doing("succeed", t) /\ worker[w].pc = "on_success" /\ row[t].subtasks = "none"
  <2>1. PICK x \in {Doing("fail", t), Doing("succeed", t), Idle} : SetWorker(w, x) /\ Found(x)
    BY <1>8 DEF Handle
  <2>2. x \in Reads(Pcs)
          /\ (x = Idle \/ (At(x, t) /\ x.seen = row[t] /\ x.pc \in {"fail", "succeed"}
                           /\ (x.pc = "fail" => worker[w].pc = "on_failure")
                           /\ (x.pc = "succeed" =>
                                  worker[w].pc = "on_success" /\ row[t].subtasks = "none")))
    <3>1. {"fail", "succeed"} \subseteq Pcs
      BY DEF Pcs
    <3>2. CASE x = Idle
      BY <1>5, <3>2
    <3>3. CASE x \in {Doing("fail", t), Doing("succeed", t)}
      <4>1. Doing("fail", t) \in Reads(Pcs) /\ Doing("succeed", t) \in Reads(Pcs)
        BY <1>2, <3>1, DoingTyped
      <4> QED
        BY <1>5, <2>1, <3>3, <4>1 DEF Doing, At
    <3> QED
      BY <3>2, <3>3
  <2>3. row' = row /\ atWork' = atWork /\ worker[w].pc \in {"on_success", "on_failure"}
    BY <1>8 DEF Handle
  <2> HIDE DEF t, Found
  <2>4. worker' \in [Workers -> Reads(Pcs)] /\ worker'[w] = x
          /\ \A v \in Workers : v # w => worker'[v] = worker[v]
    BY <2>1, <2>2, SetWorkerShaped
  <2>5. Handles(w, t)
    BY <1>2, <1>3, <1>4, <2>2, <2>3, <2>4 DEF Handles, WorkerDoes
  <2> QED
    BY <1>2, <2>5 DEF t, Ends, WorkerActs
<1>9. CASE Finish(w)
  <2>1. SetWorker(w, Idle) /\ worker[w].pc \in {"succeed", "fail"}
          /\ atWork' = atWork /\ tainted' = tainted \cup Erased(t, worker[w].seen)
    BY <1>9 DEF Finish
  <2>2. PICK state \in States :
           /\ SaveAs(t, worker[w].seen, state)
           /\ state = IF worker[w].pc = "succeed" THEN "SUCCESS" ELSE "FAILURE"
    BY <1>9, FixedRows DEF Finish
  <2> DEFINE seen == worker[w].seen
  <2> HIDE DEF t
  <2>3. worker' \in [Workers -> Reads(Pcs)] /\ worker'[w] = Idle
          /\ \A v \in Workers : v # w => worker'[v] = worker[v]
    BY <1>5, <2>1, SetWorkerShaped
  <2>4. seen \in Rows /\ SaveAs(t, seen, state) /\ t \in Tasks
    BY <1>2, <2>2
  <2> HIDE DEF seen
  <2>5. /\ row' \in [Tasks -> Rows] /\ \A u \in Tasks : u # t => row'[u] = row[u]
        /\ row'[t].state = state /\ row'[t].subtasks = SubtasksOf(seen, state)
    BY <2>4, SaveShaped
  <2>6. Saved(t, worker[w].seen, state)
    BY <2>1, <2>2, <2>5 DEF Saved, Erased, Met, seen
  <2>7. Finishes(w, t)
    BY <1>2, <1>3, <1>4, <1>5, <2>1, <2>2, <2>3, <2>5, <2>6 DEF Finishes, WorkerDoes
  <2> QED
    BY <1>2, <2>7 DEF t, Ends, WorkerActs
<1>10. CASE Crash(w)
  <2>1. SetWorker(w, Idle) /\ row' = row /\ atWork' = atWork /\ Spend("crash")
    BY <1>10 DEF Crash
  <2> HIDE DEF t
  <2>2. worker' \in [Workers -> Reads(Pcs)] /\ worker'[w] = Idle
          /\ \A v \in Workers : v # w => worker'[v] = worker[v]
    BY <1>5, <2>1, SetWorkerShaped
  <2>3. Crashes(w, t)
    BY <1>2, <1>3, <1>4, <1>5, <2>1, <2>2 DEF Crashes, WorkerDoes
  <2> QED
    BY <1>2, <2>3 DEF t, Ends, WorkerActs
<1> QED
  BY <1>6, <1>7, <1>8, <1>9, <1>10 DEF Run

LEMMA ByWorkerKept ==
    ASSUME Kept, NEW w \in Workers, ByWorker(w)
    PROVE  Kept' /\ \E t \in Tasks : WorkerActs(w, t)
<1>1. PICK t \in Tasks : WorkerActs(w, t)
  BY ReceiveDoes, RunDoes DEF ByWorker, Kept, WorkerActs
<1>2. WorkerDoes(w, t)
  BY <1>1 DEF WorkerActs, Receives, Marks, Works, Ends, Handles, Finishes, Crashes
<1>3. Shaped'
  BY <1>2 DEF Kept, Shaped, WorkerDoes, Idle, Reads, Pcs
<1>4. SchedulesAreLater'
  BY <1>2 DEF Kept, SchedulesAreLater, WorkerDoes
<1> QED
  BY <1>1, <1>3, <1>4 DEF Kept

\* What is tainted stays so.
LEMMA TaintStays ==
    ASSUME Next
    PROVE  tainted \subseteq tainted'
<1>1. CASE Aside
  BY <1>1 DEF Aside, StoreSchedule, Elapse, CronTake, Revoke, PollRead, CronScan, Look, Delete,
              Postpone, Taint
<1>2. CASE Saves
  BY <1>2 DEF Saves, CronSubmit, CronFails, PollSave, Cancel
<1>3. CASE FailsOld
  BY <1>3 DEF FailsOld, FailOld, Taint
<1>4. CASE \E t \in Tasks : ForTask(t)
  BY <1>4 DEF ForTask, CheckRunning, Create, Submit, SubmitFails, Reserve, SaveScheduled,
              ScheduleFails, SubtasksFinish, Discard, Taint
<1>5. CASE \E w \in Workers : ByWorker(w)
  BY <1>5 DEF ByWorker, Run, Receive, Mark, Work, Delegate, WorkRaises, Handle, Finish, Crash, Taint
<1> QED
  BY <1>1, <1>2, <1>3, <1>4, <1>5, NextGroups

LEMMA RevokedKept == ASSUME RevokedByHand, Next PROVE RevokedByHand'
<1>1. tainted \subseteq tainted'
  BY TaintStays
<1>2. CASE \E t \in Tasks : Revoke(t)
  <2>1. PICK t \in Tasks : Revoke(t)
    BY <1>2
  <2>2. revoked' = revoked \cup {t} /\ discarded' = discarded /\ <<"hand", t>> \in tainted'
    BY <2>1 DEF Revoke, Taint
  <2> QED
    BY <1>1, <2>2 DEF RevokedByHand, Met
<1>3. CASE revoked' = revoked /\ discarded' \subseteq revoked
  BY <1>1, <1>3 DEF RevokedByHand, Met
<1>4. Aside /\ ~(\E t \in Tasks : Revoke(t)) => UNCHANGED <<revoked, discarded>>
  BY DEF Aside, StoreSchedule, Elapse, CronTake, PollRead, CronScan, Look, Delete, Postpone, operators
<1>5. Saves \/ FailsOld => UNCHANGED <<revoked, discarded>>
  BY DEF Saves, FailsOld, CronSubmit, CronFails, PollSave, Cancel, FailOld, operators
<1>6. (\E t \in Tasks : ForTask(t)) => revoked' = revoked /\ discarded' \subseteq revoked
  <2>1. ASSUME NEW t \in Tasks, ForTask(t) PROVE revoked' = revoked /\ discarded' \subseteq revoked
    <3>1. CASE Discard(t)
      BY <3>1 DEF Discard, RevokedByHand
    <3>2. CASE ~Discard(t)
      BY <2>1, <3>2 DEF ForTask, CheckRunning, Create, Submit, SubmitFails, Reserve, SaveScheduled,
                        ScheduleFails, SubtasksFinish, operators, RevokedByHand
    <3> QED
      BY <3>1, <3>2
  <2> QED
    BY <2>1
<1>7. (\E w \in Workers : ByWorker(w)) => revoked' = revoked /\ discarded' \subseteq discarded
  BY DEF ByWorker, Run, Receive, Mark, Work, WorkRaises, Handle, Finish, Crash, operators
<1> QED
  BY <1>2, <1>3, <1>4, <1>5, <1>6, <1>7, NextGroups DEF RevokedByHand

LEMMA KeptKept == ASSUME Kept, Next PROVE Kept'
BY NextGroups, AsideKept, SavesKept, FailsOldKept, ForTaskKept, ByWorkerKept

-----------------------------------------------------------------------------
(* Edits of schedules, and what a submitted task goes through              *)

Cronned(t) == t \in cron.todo \/ At(cron.doing, t)

Unsent(t) == published[t] = 0 /\ ~Cronned(t)

\* A worker, the command or an editor may save the row of t.
Held(t) == InHand(t) \/ Cronned(t) \/ \E d \in Editors : At(editor[d], t)

\* The cancellation of t has been saved.
Dropped(t) ==
    t \in cancelled \/ \E d \in Editors : At(editor[d], t) /\ editor[d].pc = "delete"

\* A task is scheduled, edited and submitted after its request is through with it, and
\* what was edited in time has not been submitted.
EditOK(t) ==
    /\ request[t].pc # "done" =>
          /\ Unsent(t) /\ row[t].state # "SCHEDULED" /\ t \notin cancelled
          /\ \A d \in Editors : ~At(editor[d], t)
    /\ InHand(t) => published[t] > 0
    /\ ~Met("late", t) =>
          /\ schedule[t] = "future" => Unsent(t)
          /\ Dropped(t) => Unsent(t) /\ row[t].state # "SCHEDULED"

\* A task has a row from its creation on, which waits for its request; the row knows
\* of its subtasks when they are created, and until they are over, or for good if its
\* task_output was lost.
RowOK(t) ==
    /\ row[t].state = None <=> request[t].pc \in {"start", "refused", "create"}
    /\ row[t].state = None => row[t] = NoRow
    /\ At(poll, t) => row[t].state # None
    /\ request[t].pc \in {"publish", "store", "save"} =>
          row[t].state = "QUEUING" \/ Met("hand", t)
    /\ row[t].state \in {"QUEUING", "SCHEDULED"} => row[t].subtasks = "none"
    /\ row[t].subtasks = "open" => row[t].state = "PROGRESS" \/ Met("hand", t)
    /\ row[t].state = "SUCCESS" => row[t].subtasks \in {"none", "over"}
    /\ t \in atWork =>
          /\ published[t] > 0
          /\ row[t].subtasks \in {"open", "lost"} \/ Met("erased", t)

\* Accidents that meet a task at the command, at an editor or at an operator.
Calm(t) == ~Met("doubled", t) /\ ~Met("late", t) /\ ~Met("hand", t)

\* The command has tasks that are SCHEDULED and that no worker has.
CronLine(t) ==
    /\ Cronned(t) => ~InHand(t) /\ row[t].state = "SCHEDULED"
    /\ At(cron.doing, t) => t \notin cron.todo /\ cron.doing.seen.subtasks = "none"

\* The task has not got into more hands than one.
Single(t) == Calm(t) /\ ~Met("redelivered", t)

\* The worker has read what it will save: the row as it is, but for the state.
WorkerOK(w, t) ==
    /\ worker[w].pc = "mark" =>
          row[t].state \in {"QUEUING", "SCHEDULED"} /\ worker[w].seen.subtasks = "none"
    /\ worker[w].pc \in {"work", "on_failure", "succeed", "fail"} =>
          row[t].state = "PROGRESS" /\ row[t].subtasks = "none"
    /\ worker[w].pc \in {"succeed", "fail"} => worker[w].seen.subtasks = "none"
    /\ worker[w].pc = "on_success" =>
          \/ row[t].state = "PROGRESS"
          \/ row[t].state = "SUCCESS" /\ row[t].subtasks = "over"

\* A task is in one message, then with one worker, or that worker has died.
LineOK(t) ==
    /\ messages[t] <= 1
    /\ messages[t] = 1 => \A w \in Workers : ~At(worker[w], t)
    /\ \A v, w \in Workers : At(worker[v], t) /\ At(worker[w], t) => v = w
    /\ messages[t] = 1 => row[t].state \in {"QUEUING", "SCHEDULED"}
    /\ \A w \in Workers : At(worker[w], t) => WorkerOK(w, t)
    /\ \/ published[t] > 1
       \/ published[t] > 0 /\ row[t].state = "SCHEDULED" /\ ~InHand(t)
       => t \in Later /\ WorkerDied

\* What has been read, and which tasks have a schedule.
Seen ==
    /\ \A w \in Workers : worker[w].pc = "succeed" => worker[w].seen.subtasks = "none"
    /\ \A d \in Editors : editor[d].pc # "idle" => editor[d].seen.state = "SCHEDULED"
    /\ \A t \in Tasks : row[t].state = "SCHEDULED" => t \in Later
    /\ \A t \in Tasks : request[t].pc \in {"create", "publish"} => t \notin Later

Tallies ==
    /\ published \in [Tasks -> Nat]
    /\ faults \in [FaultKinds -> Nat]
    /\ faults["crash"] <= Faults["crash"]

\* The inductive invariant of a task.
TaskInv ==
    /\ Kept
    /\ RevokedByHand
    /\ Seen
    /\ Tallies
    /\ \A t \in Tasks : EditOK(t) /\ RowOK(t)
    /\ \A t \in Tasks : Calm(t) => CronLine(t)
    /\ \A t \in Tasks : Single(t) => LineOK(t)

\* A row that somebody has read is saved; as a success only if it had no subtasks.
SavedOver(t) ==
    \E seen \in Rows, state \in {"FAILURE", "REVOKED", "PROGRESS", "SUCCESS"} :
        Saved(t, seen, state) /\ (state = "SUCCESS" => seen.subtasks = "none")

\* What a step may make of a row.
Changed(t) ==
    \/ (Create(t) \/ Reserve(t)) /\ row'[t] = NewRow
    \/ SaveScheduled(t) /\ row'[t].state = "SCHEDULED" /\ row'[t].subtasks = "none"
    \/ /\ SubmitFails(t) \/ ScheduleFails(t)
       /\ row'[t].state = "FAILURE" /\ row'[t].subtasks = "none"
    \/ SavedOver(t) /\ (Held(t) \/ (At(poll, t) /\ Met("hand", t)))
    \/ Delegated(t) /\ InHand(t)
    \/ /\ SubtasksFinish(t) /\ row[t].subtasks = "open"
       /\ row'[t].state = "SUCCESS" /\ row'[t].subtasks = "over"
    \/ /\ row[t].state \in {"QUEUING", "PROGRESS"} /\ <<"hand", t>> \in tainted'
       /\ row'[t].state = "FAILURE" /\ row'[t].subtasks = row[t].subtasks

LEMMA SavedRow ==
    ASSUME Shaped, NEW t \in Tasks, NEW seen \in Rows, NEW state \in {"FAILURE", "REVOKED"},
           SaveAs(t, seen, state), Erased(t, seen) \subseteq tainted',
           NEW u \in Tasks
    PROVE  row'[u] = row[u] \/ (u = t /\ SavedOver(u))
<1>1. state \in States
  BY FixedRows
<1>2. row'[t].state = state /\ row'[t].subtasks = SubtasksOf(seen, state)
        /\ (u # t => row'[u] = row[u])
  BY <1>1, SaveShaped
<1>3. Saved(t, seen, state)
  BY <1>2 DEF Saved, Erased
<1> QED
  BY <1>2, <1>3 DEF SavedOver

LEMMA NewRowSaved ==
    ASSUME Shaped, NEW t \in Tasks, NEW state \in {"FAILURE", "SCHEDULED"},
           SaveAs(t, NewRow, state)
    PROVE  /\ row'[t].state = state /\ row'[t].subtasks = "none"
           /\ \A u \in Tasks : u # t => row'[u] = row[u]
<1>1. state \in States /\ NewRow \in Rows /\ NewRow.subtasks = "none"
  BY FixedRows
<1>2. row'[t].state = state /\ row'[t].subtasks = SubtasksOf(NewRow, state)
        /\ \A u \in Tasks : u # t => row'[u] = row[u]
  BY <1>1, SaveShaped
<1> QED
  BY <1>1, <1>2 DEF SubtasksOf

LEMMA RowSteps ==
    ASSUME Kept, RevokedByHand, Seen, Next, NEW u \in Tasks
    PROVE  row'[u] = row[u] \/ Changed(u)
<1>0. Shaped /\ row \in [Tasks -> Rows]
  BY DEF Kept, Shaped
<1>1. CASE Aside
  BY <1>1 DEF Aside, StoreSchedule, Elapse, CronTake, Revoke, PollRead, CronScan, Look, Delete,
              Postpone
<1>2. CASE Saves
  <2>1. CASE CronSubmit
    BY <2>1 DEF CronSubmit
  <2>2. CASE CronFails
    <3>1. cron.doing # Idle /\ cron.doing \in Reads({"submit"})
      BY <2>2, <1>0 DEF CronFails, Shaped
    <3>2. cron.doing.task \in Tasks /\ cron.doing.seen \in Rows /\ At(cron.doing, cron.doing.task)
      BY <3>1, ReadsParts DEF At
    <3>3. PICK t \in Tasks : t = cron.doing.task
      BY <3>2
    <3>4. SaveAs(t, cron.doing.seen, "FAILURE") /\ Erased(t, cron.doing.seen) \subseteq tainted'
      BY <2>2, <3>3 DEF CronFails
    <3>5. row'[u] = row[u] \/ (u = t /\ SavedOver(u))
      BY <1>0, <3>2, <3>4, SavedRow
    <3> QED
      BY <3>2, <3>3, <3>5 DEF Changed, Held, Cronned
  <2>3. CASE PollSave
    <3>1. poll # Idle /\ poll \in Reads({"look"})
      BY <2>3, <1>0 DEF PollSave, Shaped
    <3>2. poll.task \in Tasks /\ poll.seen \in Rows /\ At(poll, poll.task)
      BY <3>1, ReadsParts DEF At
    <3>3. PICK t \in Tasks : t = poll.task
      BY <3>2
    <3>4. \/ row' = row
          \/ /\ SaveAs(t, poll.seen, "REVOKED") /\ Erased(t, poll.seen) \subseteq tainted'
             /\ t \in discarded
      BY <2>3, <3>3 DEF PollSave, SaveAs
    <3>5. row'[u] = row[u] \/ (u = t /\ SavedOver(u) /\ u \in discarded)
      BY <1>0, <3>2, <3>4, SavedRow
    <3> QED
      BY <3>2, <3>3, <3>5 DEF Changed, RevokedByHand
  <2>4. CASE \E d \in Editors : Cancel(d)
    <3>1. PICK d \in Editors : Cancel(d)
      BY <2>4
    <3>2. editor[d].pc # "idle" /\ editor[d] \in Reads({"cancel", "delete", "postpone"})
      BY <1>0, <3>1 DEF Cancel, Shaped
    <3>3. editor[d].task \in Tasks /\ editor[d].seen \in Rows /\ At(editor[d], editor[d].task)
      BY <3>2, IdleParts DEF At
    <3>4. PICK t \in Tasks : t = editor[d].task
      BY <3>3
    <3>5. SaveAs(t, editor[d].seen, "REVOKED") /\ Erased(t, editor[d].seen) \subseteq tainted'
      BY <3>1, <3>4 DEF Cancel
    <3>6. row'[u] = row[u] \/ (u = t /\ SavedOver(u))
      BY <1>0, <3>3, <3>5, SavedRow
    <3> QED
      BY <3>3, <3>4, <3>6 DEF Changed, Held
  <2> QED
    BY <1>2, <2>1, <2>2, <2>3, <2>4 DEF Saves
<1>3. CASE FailsOld
  <2>1. PICK ts \in SUBSET Tasks, state \in {"QUEUING", "PROGRESS"} : FailOld(ts, state)
    BY <1>3 DEF FailsOld
  <2>2. row'[u] = IF u \in ts THEN [row[u] EXCEPT !.state = "FAILURE"] ELSE row[u]
    BY <2>1 DEF FailOld
  <2>3. u \in ts => row[u].state \in {"QUEUING", "PROGRESS"} /\ <<"hand", u>> \in tainted'
    BY <2>1 DEF FailOld, Taint
  <2> QED
    BY <1>0, <2>2, <2>3 DEF Changed, Rows
<1>4. CASE \E t \in Tasks : ForTask(t)
  <2>1. PICK t \in Tasks : ForTask(t)
    BY <1>4
  <2>2. CASE CheckRunning(t) \/ Submit(t) \/ Discard(t)
    BY <2>2 DEF CheckRunning, Submit, Discard
  <2>3. CASE Create(t) \/ Reserve(t)
    BY <1>0, <2>3, FixedRows DEF Create, Reserve, Changed
  <2>4. CASE SubmitFails(t) \/ ScheduleFails(t)
    <3>1. PICK state \in {"FAILURE", "SCHEDULED"} : state = "FAILURE" /\ SaveAs(t, NewRow, state)
      BY <2>4 DEF SubmitFails, ScheduleFails
    <3>2. row'[t].state = "FAILURE" /\ row'[t].subtasks = "none" /\ (u # t => row'[u] = row[u])
      BY <1>0, <3>1, NewRowSaved
    <3> QED
      BY <2>4, <3>2 DEF Changed
  <2>5. CASE SaveScheduled(t)
    <3>1. PICK state \in {"FAILURE", "SCHEDULED"} : state = "SCHEDULED" /\ SaveAs(t, NewRow, state)
      BY <2>5 DEF SaveScheduled
    <3>2. row'[t].state = "SCHEDULED" /\ row'[t].subtasks = "none" /\ (u # t => row'[u] = row[u])
      BY <1>0, <3>1, NewRowSaved
    <3> QED
      BY <2>5, <3>2 DEF Changed
  <2>6. CASE SubtasksFinish(t)
    BY <1>0, <2>6 DEF SubtasksFinish, Changed
  <2> QED
    BY <2>1, <2>2, <2>3, <2>4, <2>5, <2>6 DEF ForTask
<1>5. CASE \E w \in Workers : ByWorker(w)
  <2>1. PICK w \in Workers, t \in Tasks : WorkerActs(w, t)
    BY <1>5, ByWorkerKept
  <2>2. u # t => row'[u] = row[u]
    BY <2>1 DEF WorkerActs, Receives, Marks, Works, Ends, Handles, Finishes, Crashes, WorkerDoes
  <2>3. row'[t] = row[t] \/ Changed(t)
    <3>1. CASE Marks(w, t) \/ Finishes(w, t)
      <4>1. worker[w].pc # "idle" /\ At(worker[w], t)
        BY <3>1 DEF Marks, Finishes, At
      <4>2. PICK seen \in Rows : seen = worker[w].seen
        BY <1>0, <4>1, WorkerParts
      <4>3. PICK state \in {"FAILURE", "REVOKED", "PROGRESS", "SUCCESS"} :
               Saved(t, seen, state) /\ (state = "SUCCESS" => worker[w].pc = "succeed")
        BY <3>1, <4>2 DEF Marks, Finishes
      <4>4. SavedOver(t)
        BY <4>2, <4>3 DEF SavedOver, Seen
      <4> QED
        BY <4>1, <4>4 DEF Changed, Held, InHand
    <3>2. CASE Works(w, t)
      BY <3>2 DEF Works, Changed, InHand
    <3>3. CASE Receives(w, t) \/ Handles(w, t) \/ Crashes(w, t)
      BY <3>3 DEF Receives, Handles, Crashes
    <3> QED
      BY <2>1, <3>1, <3>2, <3>3 DEF WorkerActs, Ends
  <2> QED
    BY <2>2, <2>3
<1> QED
  BY <1>1, <1>2, <1>3, <1>4, <1>5, NextGroups

\* What the steps do to the rest of the state.
LEMMA RequestSteps ==
    ASSUME Kept, Next, NEW u \in Tasks
    PROVE  /\ request'[u].pc # "done" => request[u].pc # "done"
           /\ request'[u].pc \in {"create", "publish"} =>
                 request[u].pc \in {"create", "publish"} \/ u \notin Later
           /\ ~Create(u) /\ ~Reserve(u) =>
                 /\ request'[u].pc \in {"start", "refused", "create"} <=>
                       request[u].pc \in {"start", "refused", "create"}
                 /\ request'[u].pc \in {"publish", "store", "save"} =>
                       request[u].pc \in {"publish", "store", "save"}
           /\ Create(u) \/ Reserve(u) =>
                 request[u].pc \in {"start", "create"} /\ request'[u].pc \in {"publish", "store"}
           /\ request'[u].pc = "create" => request'[u] = request[u] \/ CheckRunning(u)
<1>0. DOMAIN request = Tasks
  BY DEF Kept, Shaped
<1>1. Create(u) \/ Reserve(u) =>
         request[u].pc \in {"start", "create"} /\ request'[u].pc \in {"publish", "store"}
  BY <1>0 DEF Create, Reserve
<1>2. CASE request'[u] = request[u]
  BY <1>1, <1>2
<1>3. CASE StoreSchedule(u)
  BY <1>0, <1>1, <1>3 DEF StoreSchedule
<1>4. CASE ForTask(u)
  <2>1. CASE Create(u) \/ Reserve(u)
    BY <1>0, <1>1, <2>1 DEF Create, Reserve
  <2>2. CASE CheckRunning(u)
    BY <1>0, <1>1, <2>2 DEF CheckRunning
  <2>3. CASE ForTask(u) /\ ~Create(u) /\ ~Reserve(u) /\ ~CheckRunning(u)
    BY <1>0, <2>3 DEF ForTask, Submit, SubmitFails, SaveScheduled, ScheduleFails, SubtasksFinish, Discard
  <2> QED
    BY <1>4, <2>1, <2>2, <2>3
<1>5. request'[u] = request[u] \/ StoreSchedule(u) \/ ForTask(u)
  <2>1. CASE Aside
    <3>1. CASE \E t \in Tasks : StoreSchedule(t)
      BY <1>0, <3>1 DEF StoreSchedule
    <3>2. CASE ~(\E t \in Tasks : StoreSchedule(t))
      BY <2>1, <3>2 DEF Aside, Elapse, CronTake, Revoke, PollRead, CronScan, Look, Delete, Postpone
    <3> QED
      BY <3>1, <3>2
  <2>2. CASE Saves \/ FailsOld
    BY <2>2 DEF Saves, FailsOld, CronSubmit, CronFails, PollSave, Cancel, FailOld
  <2>3. CASE \E t \in Tasks : ForTask(t)
    <3>1. PICK t \in Tasks : ForTask(t)
      BY <2>3
    <3>2. t # u => request'[u] = request[u]
      BY <1>0, <3>1 DEF ForTask, CheckRunning, Create, Submit, SubmitFails, Reserve, SaveScheduled,
                        ScheduleFails, SubtasksFinish, Discard
    <3> QED
      BY <3>1, <3>2
  <2>4. CASE \E w \in Workers : ByWorker(w)
    BY <2>4 DEF ByWorker, Run, Receive, Mark, Work, WorkRaises, Handle, Finish, Crash
  <2> QED
    BY <2>1, <2>2, <2>3, <2>4, NextGroups
<1> QED
  BY <1>2, <1>3, <1>4, <1>5

LEMMA CronActs ==
    Next => cron' = cron \/ CronScan \/ (\E t \in Tasks : CronTake(t)) \/ CronSubmit \/ CronFails
<1>1. CASE Aside \/ Saves
  BY <1>1 DEF Aside, Saves, StoreSchedule, Elapse, Revoke, PollRead, Look, Delete, Postpone, edits,
              PollSave, Cancel
<1>2. CASE FailsOld
  BY <1>2 DEF FailsOld, FailOld, edits
<1>3. CASE \E t \in Tasks : ForTask(t)
  BY <1>3 DEF ForTask, CheckRunning, Create, Submit, SubmitFails, Reserve, SaveScheduled, ScheduleFails,
              SubtasksFinish, Discard, edits
<1>4. CASE \E w \in Workers : ByWorker(w)
  BY <1>4 DEF ByWorker, Run, Receive, Mark, Work, WorkRaises, Handle, Finish, Crash, edits
<1> QED
  BY <1>1, <1>2, <1>3, <1>4, NextGroups

LEMMA CronSteps ==
    ASSUME Kept, Next, NEW u \in Tasks, Cronned(u)'
    PROVE  Cronned(u) \/ (CronScan /\ u \in Due)
<1>1. CASE cron' = cron
  BY <1>1 DEF Cronned, At
<1>2. CASE CronScan
  BY <1>2 DEF CronScan, Cronned, At, Idle
<1>3. CASE \E t \in Tasks : CronTake(t)
  <2>1. PICK t \in Tasks : CronTake(t)
    BY <1>3
  <2>2. cron'.todo = cron.todo \ {t} /\ cron'.doing.task = t /\ t \in cron.todo
    BY <2>1 DEF CronTake, Doing
  <2> QED
    BY <2>2 DEF Cronned, At
<1>4. CASE CronSubmit \/ CronFails
  BY <1>4 DEF CronSubmit, CronFails, Cronned, At, Idle, Kept, Shaped
<1> QED
  BY <1>1, <1>2, <1>3, <1>4, CronActs

\* Most steps leave schedules and editors alone.
LEMMA EditSteps ==
    ASSUME Next
    PROVE  \/ UNCHANGED <<schedule, editor, cancelled>>
           \/ \E t \in Tasks : StoreSchedule(t) \/ Elapse(t)
           \/ \E d \in Editors :
                 (\E t \in Later : Look(d, t)) \/ Cancel(d) \/ Delete(d) \/ Postpone(d)
<1>1. CASE Aside \/ Saves
  BY <1>1 DEF Aside, Saves, CronTake, CronScan, Revoke, PollRead, edits, CronSubmit, CronFails, PollSave
<1>2. CASE FailsOld
  BY <1>2 DEF FailsOld, FailOld, edits
<1>3. CASE \E t \in Tasks : ForTask(t)
  BY <1>3 DEF ForTask, CheckRunning, Create, Submit, SubmitFails, Reserve, SaveScheduled, ScheduleFails,
              SubtasksFinish, Discard, edits
<1>4. CASE \E w \in Workers : ByWorker(w)
  BY <1>4 DEF ByWorker, Run, Receive, Mark, Work, WorkRaises, Handle, Finish, Crash, edits
<1> QED
  BY <1>1, <1>2, <1>3, <1>4, NextGroups

\* An editor starts to look at a scheduled task, and goes on with it.
LEMMA EditorSteps ==
    ASSUME Kept, Next, NEW d \in Editors, editor'[d].pc # "idle"
    PROVE  \/ editor'[d] = editor[d]
           \/ /\ \E t \in Later : At(editor'[d], t) /\ row[t].state = "SCHEDULED"
              /\ editor'[d].pc # "delete" /\ editor'[d].seen.state = "SCHEDULED"
           \/ /\ Cancel(d) /\ editor[d].pc # "idle"
              /\ editor'[d].seen = editor[d].seen /\ editor'[d].task = editor[d].task
<1>0. DOMAIN editor = Editors
  BY DEF Kept, Shaped
<1>1. CASE UNCHANGED <<schedule, editor, cancelled>> \/ \E t \in Tasks : StoreSchedule(t) \/ Elapse(t)
  BY <1>1 DEF StoreSchedule, Elapse
<1>2. CASE \E e \in Editors, t \in Later : Look(e, t)
  <2>1. PICK e \in Editors, t \in Later : Look(e, t)
    BY <1>2
  <2>2. PICK pc \in {"cancel", "postpone"} : editor' = [editor EXCEPT ![e] = Doing(pc, t)]
    BY <2>1 DEF Look
  <2>3. CASE e = d
    BY <1>0, <2>1, <2>2, <2>3 DEF Look, Doing, At
  <2>4. CASE e # d
    BY <1>0, <2>2, <2>4
  <2> QED
    BY <2>3, <2>4
<1>3. CASE \E e \in Editors : Delete(e) \/ Postpone(e)
  BY <1>0, <1>3 DEF Delete, Postpone, Idle
<1>4. CASE \E e \in Editors : Cancel(e)
  <2>1. PICK e \in Editors : Cancel(e)
    BY <1>4
  <2>2. editor' = [editor EXCEPT ![e].pc = "delete"] /\ editor[e].pc = "cancel"
    BY <2>1 DEF Cancel
  <2>3. editor[e] \in [pc : {"cancel", "delete", "postpone"}, task : Tasks, seen : Rows]
    BY <2>2 DEF Kept, Shaped, Reads, Idle
  <2> QED
    BY <1>0, <2>1, <2>2, <2>3
<1> QED
  BY <1>1, <1>2, <1>3, <1>4, EditSteps

\* What is published is published by a request, or by the command for the task that
\* it has taken.
Sends(u) == Submit(u) \/ (CronSubmit /\ At(cron.doing, u))

LEMMA PublishSteps ==
    ASSUME Kept, Tallies, Next
    PROVE  /\ Tallies' /\ faults'["crash"] <= faults["crash"]
           /\ \A u \in Tasks : /\ Sends(u) => published'[u] = published[u] + 1
                               /\ ~Sends(u) => published'[u] = published[u]
<1>0. "crash" \in FaultKinds /\ Faults \in [FaultKinds -> Nat]
  BY TaskLifecycleAssumption DEF FaultKinds
<1>1. faults' \in [FaultKinds -> Nat] /\ faults'["crash"] <= faults["crash"]
  <2>1. faults' = faults \/ \E kind \in FaultKinds : Spend(kind)
    <3>1. CASE Aside
      BY <3>1 DEF Aside, StoreSchedule, Elapse, CronTake, Revoke, PollRead, CronScan, Look, Delete,
                  Postpone, FaultKinds
    <3>2. CASE Saves
      BY <3>2 DEF Saves, CronSubmit, CronFails, PollSave, Cancel, FaultKinds
    <3>3. CASE FailsOld
      BY <3>3 DEF FailsOld, FailOld, FaultKinds
    <3>4. CASE \E t \in Tasks : ForTask(t)
      BY <3>4 DEF ForTask, CheckRunning, Create, Submit, SubmitFails, Reserve, SaveScheduled,
                  ScheduleFails, SubtasksFinish, Discard, FaultKinds
    <3>5. CASE \E w \in Workers : ByWorker(w)
      BY <3>5 DEF ByWorker, Run, Receive, Mark, Work, WorkRaises, Handle, Finish, Crash, FaultKinds
    <3> QED
      BY <3>1, <3>2, <3>3, <3>4, <3>5, NextGroups
  <2>2. ASSUME NEW kind \in FaultKinds, Spend(kind)
        PROVE  faults' \in [FaultKinds -> Nat] /\ faults'["crash"] <= faults["crash"]
    <3> DEFINE n == faults[kind]
    <3>1. n \in Nat /\ n > 0 /\ faults' = [faults EXCEPT ![kind] = n - 1] /\ n - 1 \in Nat
      BY <2>2 DEF Spend, Tallies
    <3>2. faults["crash"] \in Nat /\ (kind = "crash" => n = faults["crash"])
      BY <1>0 DEF Tallies
    <3> HIDE DEF n
    <3> QED
      BY <1>0, <3>1, <3>2 DEF Tallies
  <2> QED
    BY <1>0, <2>1, <2>2 DEF Tallies
<1>2. /\ published' \in [Tasks -> Nat]
      /\ \A u \in Tasks : /\ Sends(u) => published'[u] = published[u] + 1
                          /\ ~Sends(u) => published'[u] = published[u]
  <2>1. CASE \E t \in Tasks : Submit(t)
    <3>1. PICK t \in Tasks : Submit(t)
      BY <2>1
    <3>2. /\ published' = [published EXCEPT ![t] = @ + 1] /\ cron' = cron
          /\ request[t].pc = "publish" /\ request' = [request EXCEPT ![t] = [pc |-> "done"]]
      BY <3>1 DEF Submit, Publish, edits
    <3>3. \A u \in Tasks : Submit(u) => u = t
      BY <3>2 DEF Submit, Kept, Shaped
    <3>4. ~CronSubmit
      BY <3>2 DEF CronSubmit, Kept, Shaped, Idle
    <3> QED
      BY <3>1, <3>2, <3>3, <3>4 DEF Sends, Tallies
  <2>2. CASE CronSubmit
    <3>1. cron.doing # Idle /\ cron.doing \in Reads({"submit"})
      BY <2>2 DEF CronSubmit, Kept, Shaped
    <3>2. cron.doing.task \in Tasks /\ At(cron.doing, cron.doing.task)
      BY <3>1, ReadsParts DEF At
    <3>3. published' = [published EXCEPT ![cron.doing.task] = @ + 1]
      BY <2>2 DEF CronSubmit, Publish
    <3>4. \A u \in Tasks : ~Submit(u)
      BY <2>2 DEF CronSubmit, Submit, Kept, Shaped
    <3> QED
      BY <2>2, <3>2, <3>3, <3>4 DEF Sends, Tallies, At
  <2>3. CASE published' = published /\ ~CronSubmit /\ ~(\E t \in Tasks : Submit(t))
    BY <2>3 DEF Tallies, Sends
  <2>4. published' = published \/ CronSubmit \/ \E t \in Tasks : Submit(t)
    <3>1. CASE Aside
      BY <3>1 DEF Aside, StoreSchedule, Elapse, CronTake, Revoke, PollRead, CronScan, Look, Delete,
                  Postpone
    <3>2. CASE Saves
      BY <3>2 DEF Saves, CronFails, PollSave, Cancel
    <3>3. CASE FailsOld
      BY <3>3 DEF FailsOld, FailOld
    <3>4. CASE \E t \in Tasks : ForTask(t)
      BY <3>4 DEF ForTask, CheckRunning, Create, SubmitFails, Reserve, SaveScheduled,
                  ScheduleFails, SubtasksFinish, Discard
    <3>5. CASE \E w \in Workers : ByWorker(w)
      BY <3>5 DEF ByWorker, Run, Receive, Mark, Work, WorkRaises, Handle, Finish, Crash
    <3> QED
      BY <3>1, <3>2, <3>3, <3>4, <3>5, NextGroups
  <2> QED
    BY <2>1, <2>2, <2>3, <2>4
<1> QED
  BY <1>0, <1>1, <1>2 DEF Tallies

\* A task comes into the hands of the workers by being published.
LEMMA HandSteps ==
    ASSUME Kept, Next, NEW u \in Tasks, InHand(u)'
    PROVE  InHand(u) \/ Sends(u)
<1> USE DEF Kept, Shaped, Sends
<1>1. CASE Aside
  BY <1>1 DEF Aside, StoreSchedule, Elapse, CronTake, Revoke, PollRead, CronScan, Look, Delete,
              Postpone, InHand, At
<1>2. CASE FailsOld
  BY <1>2 DEF FailsOld, FailOld, InHand, At
<1>3. CASE Saves
  <2>1. CASE CronSubmit
    <3>1. worker' = worker /\ messages' = [messages EXCEPT ![cron.doing.task] = @ + 1] /\ cron.doing # Idle
      BY <2>1 DEF CronSubmit, Publish
    <3>2. cron.doing.pc # "idle"
      BY <3>1 DEF Reads
    <3>3. cron.doing.task # u => messages'[u] = messages[u]
      BY <3>1
    <3> QED
      BY <2>1, <3>1, <3>2, <3>3 DEF InHand, At
  <2>2. CASE ~CronSubmit
    BY <1>3, <2>2 DEF Saves, CronFails, PollSave, Cancel, InHand, At
  <2> QED
    BY <2>1, <2>2
<1>4. CASE \E t \in Tasks : ForTask(t)
  <2>1. PICK t \in Tasks : ForTask(t)
    BY <1>4
  <2>2. worker' = worker
    BY <2>1 DEF ForTask, CheckRunning, Create, Submit, SubmitFails, Reserve, SaveScheduled,
                ScheduleFails, SubtasksFinish, Discard
  <2>3. CASE Submit(t)
    <3>1. t # u => messages'[u] = messages[u]
      BY <2>3 DEF Submit, Publish
    <3> QED
      BY <2>2, <2>3, <3>1 DEF InHand, At
  <2>4. CASE Discard(t)
    <3>1. messages'[u] > 0 => messages[u] > 0
      BY <2>4 DEF Discard
    <3> QED
      BY <2>2, <3>1 DEF InHand, At
  <2>5. CASE ~Submit(t) /\ ~Discard(t)
    <3>1. messages' = messages
      BY <2>1, <2>5 DEF ForTask, CheckRunning, Create, SubmitFails, Reserve, SaveScheduled,
                        ScheduleFails, SubtasksFinish
    <3> QED
      BY <2>2, <3>1 DEF InHand, At
  <2> QED
    BY <2>3, <2>4, <2>5
<1>5. CASE \E w \in Workers : ByWorker(w)
  <2>1. PICK w \in Workers, t \in Tasks : WorkerActs(w, t)
    BY <1>5, ByWorkerKept
  <2>2. WorkerDoes(w, t)
    BY <2>1 DEF WorkerActs, Receives, Marks, Works, Ends, Handles, Finishes, Crashes
  <2>3. CASE u # t
    BY <2>2, <2>3 DEF WorkerDoes, InHand, At, Idle
  <2>4. InHand(t)
    BY <2>1 DEF WorkerActs, Receives, Marks, Works, Ends, Handles, Finishes, Crashes, InHand
  <2> QED
    BY <2>3, <2>4
<1> QED
  BY <1>1, <1>2, <1>3, <1>4, <1>5, NextGroups

\* A poll looks at a task that is at work.
LEMMA PollSteps ==
    ASSUME Next, NEW u \in Tasks, At(poll, u)'
    PROVE  At(poll, u) \/ (TaskIsRunning(row[u]) /\ row' = row)
<1>1. CASE Aside
  <2>1. CASE \E t \in Tasks : PollRead(t)
    BY <2>1 DEF PollRead, Doing, At
  <2>2. CASE ~(\E t \in Tasks : PollRead(t))
    <3>1. poll' = poll
      BY <1>1, <2>2 DEF Aside, StoreSchedule, Elapse, CronTake, Revoke, CronScan, Look, Delete,
                        Postpone, operators
    <3> QED
      BY <3>1 DEF At
  <2> QED
    BY <2>1, <2>2
<1>2. CASE Saves
  BY <1>2 DEF Saves, CronSubmit, CronFails, PollSave, Cancel, operators, At, Idle
<1>3. CASE FailsOld
  BY <1>3 DEF FailsOld, FailOld, operators, At
<1>4. CASE \E t \in Tasks : ForTask(t)
  <2>1. poll' = poll
    BY <1>4 DEF ForTask, CheckRunning, Create, Submit, SubmitFails, Reserve, SaveScheduled,
                ScheduleFails, SubtasksFinish, Discard, operators
  <2> QED
    BY <2>1 DEF At
<1>5. CASE \E w \in Workers : ByWorker(w)
  <2>1. poll' = poll
    BY <1>5 DEF ByWorker, Run, Receive, Mark, Work, WorkRaises, Handle, Finish, Crash, operators
  <2> QED
    BY <2>1 DEF At
<1> QED
  BY <1>1, <1>2, <1>3, <1>4, <1>5, NextGroups

\* Subtasks are published by a worker, and report.
LEMMA AtWorkSteps ==
    ASSUME Kept, Next, NEW u \in Tasks, u \in atWork'
    PROVE  (u \in atWork /\ ~SubtasksFinish(u)) \/ (InHand(u) /\ Delegated(u))
<1>0. ~SubtasksFinish(u)
  BY DEF SubtasksFinish
<1>1. CASE \E w \in Workers : ByWorker(w)
  <2>1. PICK w \in Workers, t \in Tasks : WorkerActs(w, t)
    BY <1>1, ByWorkerKept
  <2>2. atWork' = atWork \/ (InHand(t) /\ Delegated(t) /\ atWork' = atWork \cup {t})
    BY <2>1 DEF WorkerActs, Receives, Marks, Works, Ends, Handles, Finishes, Crashes, InHand,
                Delegated
  <2> QED
    BY <1>0, <2>2
<1>2. CASE \E t \in Tasks : SubtasksFinish(t)
  <2>1. PICK t \in Tasks : SubtasksFinish(t)
    BY <1>2
  <2>2. atWork' = atWork \ {t}
    BY <2>1 DEF SubtasksFinish
  <2> QED
    BY <1>0, <2>2
<1>3. CASE Aside \/ Saves \/ FailsOld
  BY <1>0, <1>3 DEF Aside, StoreSchedule, Elapse, CronTake, Revoke, PollRead, CronScan, Look, Delete,
              Postpone, Saves, CronSubmit, CronFails, PollSave, Cancel, FailsOld, FailOld
<1>4. CASE \E t \in Tasks : ForTask(t) /\ ~SubtasksFinish(t)
  BY <1>0, <1>4 DEF ForTask, CheckRunning, Create, Submit, SubmitFails, Reserve, SaveScheduled,
                    ScheduleFails, Discard
<1> QED
  BY <1>1, <1>2, <1>3, <1>4, NextGroups

-----------------------------------------------------------------------------
(* Rows, and edits that come in time                                       *)

\* Only schedule_task schedules a task.
LEMMA ScheduledSteps ==
    ASSUME Kept, RevokedByHand, Seen, Next, NEW u \in Tasks, row'[u].state = "SCHEDULED"
    PROVE  row[u].state = "SCHEDULED" \/ SaveScheduled(u)
<1>1. CASE row'[u] = row[u]
  BY <1>1
<1>2. CASE Changed(u)
  <2>1. ~SavedOver(u) /\ ~Delegated(u) /\ row'[u] # NewRow
    BY FixedRows DEF SavedOver, Saved, Delegated
  <2> QED
    BY <1>2, <2>1 DEF Changed
<1> QED
  BY <1>1, <1>2, RowSteps

\* A row is there for good, in the state that its request, a run or a save gave it.
LEMMA RowKept ==
    ASSUME Kept, RevokedByHand, Seen, Tallies, Next, NEW u \in Tasks, EditOK(u), RowOK(u)
    PROVE  RowOK(u)'
<1>0. /\ row[u] \in Rows /\ published[u] \in Nat /\ published'[u] \in Nat
      /\ published'[u] >= published[u]
  BY PublishSteps DEF Kept, Shaped, Tallies
<1>1. tainted \subseteq tainted'
  BY TaintStays
<1>2. InHand(u) => published[u] > 0
  BY DEF EditOK
<1>3. Held(u) => request[u].pc = "done"
  BY <1>0, <1>2 DEF Held, EditOK, Unsent
<1>4. Held(u) \/ At(poll, u) => row[u].state # None
  BY <1>3 DEF RowOK
<1>5. At(poll, u)' => row'[u].state # None \/ row'[u] # row[u]
  <2>1. TaskIsRunning(row[u]) => row[u].state # None
    BY DEF TaskIsRunning
  <2> QED
    BY <1>4, <2>1, PollSteps
<1>6. u \in atWork' => published'[u] > 0
  BY <1>0, <1>2, AtWorkSteps DEF RowOK
<1>7. CASE row'[u] = row[u]
  <2>1. ~Create(u) /\ ~Reserve(u)
    <3>1. Create(u) \/ Reserve(u) => request[u].pc \in {"start", "create"} /\ row'[u] = NewRow
      BY DEF Create, Reserve, Kept, Shaped
    <3> QED
      BY <1>7, <3>1, FixedRows DEF RowOK, None
  <2>2. /\ request'[u].pc \in {"start", "refused", "create"} <=>
              request[u].pc \in {"start", "refused", "create"}
        /\ request'[u].pc \in {"publish", "store", "save"} =>
              request[u].pc \in {"publish", "store", "save"}
    BY <2>1, RequestSteps
  <2>3. u \in atWork' => u \in atWork
    BY <1>7, AtWorkSteps DEF Delegated
  <2> QED
    BY <1>1, <1>5, <1>6, <1>7, <2>2, <2>3 DEF RowOK, Met
\* The row is there, and its request has created it.
<1>8. ASSUME Changed(u), ~Create(u), ~Reserve(u)
      PROVE  /\ row[u].state # None /\ row'[u].state # None
             /\ request'[u].pc \notin {"start", "refused", "create"}
             /\ request'[u].pc \in {"publish", "store", "save"} =>
                   request[u].pc \in {"publish", "store", "save"}
  <2>1. row'[u].state # None
    BY <1>8, FixedRows DEF Changed, SavedOver, Saved, Delegated, None
  <2>2. request[u].pc \notin {"start", "refused", "create"}
    <3>1. CASE SaveScheduled(u) \/ SubmitFails(u) \/ ScheduleFails(u)
      BY <3>1 DEF SaveScheduled, SubmitFails, ScheduleFails
    <3>2. CASE Held(u) \/ At(poll, u)
      BY <1>4, <3>2 DEF RowOK
    <3>3. CASE InHand(u)
      BY <1>4, <3>3 DEF RowOK, Held
    <3>4. CASE row[u].subtasks = "open" \/ row[u].state \in {"QUEUING", "PROGRESS"}
      BY <3>4 DEF RowOK, NoRow, None
    <3> QED
      BY <1>8, <3>1, <3>2, <3>3, <3>4 DEF Changed
  <2> QED
    BY <1>8, <2>1, <2>2, RequestSteps DEF RowOK
<1>9. CASE (Create(u) \/ Reserve(u)) /\ row'[u] = NewRow
  <2>1. request[u].pc \in {"start", "create"} /\ request'[u].pc \in {"publish", "store"}
    BY <1>9, RequestSteps
  <2>2. row[u].state = None /\ row[u] = NoRow /\ ~InHand(u)
    BY <1>3, <2>1 DEF RowOK, Held
  <2>3. u \in atWork' => u \in atWork /\ published[u] > 0
    BY <2>2, AtWorkSteps DEF RowOK
  <2>4. u \notin atWork'
    BY <1>0, <2>1, <2>3 DEF EditOK, Unsent
  <2> QED
    BY <1>9, <2>1, <2>4, FixedRows DEF RowOK, None
<1>10. CASE /\ SaveScheduled(u) \/ SubmitFails(u) \/ ScheduleFails(u)
            /\ row'[u].state \in {"SCHEDULED", "FAILURE"} /\ row'[u].subtasks = "none"
            /\ Changed(u) /\ ~Create(u) /\ ~Reserve(u)
  <2>1. request[u].pc # "done" /\ request'[u].pc \in {"done", "failed"}
    BY <1>10 DEF SaveScheduled, SubmitFails, ScheduleFails, Kept, Shaped
  <2>2. ~InHand(u)
    BY <1>3, <2>1 DEF Held
  <2>3. u \notin atWork'
    BY <1>0, <2>1, <2>2, AtWorkSteps DEF EditOK, Unsent, RowOK
  <2> QED
    BY <1>8, <1>10, <2>1, <2>3 DEF RowOK
<1>11. CASE SavedOver(u) /\ (Held(u) \/ (At(poll, u) /\ Met("hand", u)))
            /\ Changed(u) /\ ~Create(u) /\ ~Reserve(u)
  <2>1. PICK seen \in Rows, state \in {"FAILURE", "REVOKED", "PROGRESS", "SUCCESS"} :
           Saved(u, seen, state) /\ (state = "SUCCESS" => seen.subtasks = "none")
    BY <1>11 DEF SavedOver
  <2>2. row'[u].subtasks = "open" => state = "PROGRESS"
    BY <2>1 DEF Saved, SubtasksOf
  <2>3. state = "SUCCESS" => row'[u].subtasks = "none"
    BY <2>1 DEF Saved, SubtasksOf
  <2>4. u \in atWork' => row'[u].subtasks \in {"open", "lost"} \/ Met("erased", u)'
    <3>1. ASSUME u \in atWork', ~Met("erased", u)' PROVE row'[u].subtasks \in {"open", "lost"}
      <4>1. seen.subtasks = row[u].subtasks /\ ~Met("erased", u)
        BY <1>1, <2>1, <3>1 DEF Saved, Met
      <4>2. CASE u \in atWork
        BY <2>1, <4>1, <4>2 DEF RowOK, Saved, SubtasksOf
      <4>3. CASE Delegated(u)
        BY <4>3 DEF Delegated
      <4> QED
        BY <3>1, <4>2, <4>3, AtWorkSteps
    <3> QED
      BY <3>1
  <2>5. request'[u].pc \in {"publish", "store", "save"} => Met("hand", u)'
    BY <1>1, <1>3, <1>8, <1>11 DEF Met
  <2>6. row'[u].state = state
    BY <2>1 DEF Saved
  <2> QED
    BY <1>6, <1>8, <1>11, <2>2, <2>3, <2>4, <2>5, <2>6 DEF RowOK
<1>12. CASE Delegated(u) /\ InHand(u) /\ Changed(u) /\ ~Create(u) /\ ~Reserve(u)
  <2>1. request'[u].pc \notin {"publish", "store", "save"}
    BY <1>3, <1>8, <1>12 DEF Held
  <2> QED
    BY <1>6, <1>8, <1>12, <2>1 DEF RowOK, Delegated
<1>13. CASE SubtasksFinish(u) /\ row[u].subtasks = "open" /\ Changed(u)
            /\ row'[u].state = "SUCCESS" /\ row'[u].subtasks = "over"
            /\ ~Create(u) /\ ~Reserve(u)
  <2>1. u \notin atWork'
    BY <1>13 DEF SubtasksFinish
  <2>2. request'[u].pc \in {"publish", "store", "save"} => Met("hand", u)'
    BY <1>1, <1>8, <1>13 DEF RowOK, Met
  <2> QED
    BY <1>8, <1>13, <2>1, <2>2 DEF RowOK
<1>14. CASE /\ row[u].state \in {"QUEUING", "PROGRESS"} /\ <<"hand", u>> \in tainted'
            /\ row'[u].state = "FAILURE" /\ row'[u].subtasks = row[u].subtasks
            /\ Changed(u) /\ ~Create(u) /\ ~Reserve(u)
  <2>1. Met("hand", u)'
    BY <1>14 DEF Met
  <2>2. u \in atWork' => u \in atWork
    BY <1>14, AtWorkSteps DEF Delegated
  <2> QED
    BY <1>1, <1>6, <1>8, <1>14, <2>1, <2>2 DEF RowOK, Met
<1>15. Create(u) \/ Reserve(u) => row'[u] = NewRow
  BY DEF Create, Reserve, Kept, Shaped
<1> QED
  BY <1>7, <1>9, <1>10, <1>11, <1>12, <1>13, <1>14, <1>15, RowSteps DEF Changed

LEMMA SeenKept ==
    ASSUME Kept, RevokedByHand, Seen, Next
    PROVE  Seen'
<1>1. \A w \in Workers : worker'[w].pc = "succeed" => worker'[w].seen.subtasks = "none"
  <2>1. CASE worker' = worker
    BY <2>1 DEF Seen
  <2>2. CASE \E w \in Workers : ByWorker(w)
    <3>1. PICK w \in Workers, t \in Tasks : WorkerActs(w, t)
      BY <2>2, ByWorkerKept
    <3>2. \A v \in Workers : v # w => worker'[v] = worker[v]
      BY <3>1 DEF WorkerActs, Receives, Marks, Works, Ends, Handles, Finishes, Crashes, WorkerDoes
    <3>3. worker'[w].pc = "succeed" => worker'[w].seen.subtasks = "none"
      BY <3>1 DEF WorkerActs, Receives, Marks, Works, Ends, Handles, Finishes, Crashes, Idle
    <3> QED
      BY <3>2, <3>3 DEF Seen
  <2>3. CASE Aside \/ Saves \/ FailsOld \/ \E t \in Tasks : ForTask(t)
    <3>1. worker' = worker
      BY <2>3 DEF Aside, StoreSchedule, Elapse, CronTake, Revoke, PollRead, CronScan, Look, Delete,
              Postpone, Saves, CronSubmit, CronFails, PollSave, Cancel, FailsOld, FailOld,
              ForTask, CheckRunning, Create, Submit, SubmitFails, Reserve, SaveScheduled,
              ScheduleFails, SubtasksFinish, Discard
    <3> QED
      BY <2>1, <3>1
  <2> QED
    BY <2>2, <2>3, NextGroups
<1>2. \A d \in Editors : editor'[d].pc # "idle" => editor'[d].seen.state = "SCHEDULED"
  BY EditorSteps DEF Seen
<1>3. \A t \in Tasks : row'[t].state = "SCHEDULED" => t \in Later
  <2>1. ASSUME NEW t \in Tasks, row'[t].state = "SCHEDULED" PROVE t \in Later
    <3>1. row[t].state = "SCHEDULED" \/ SaveScheduled(t)
      BY <2>1, ScheduledSteps
    <3> QED
      BY <2>1, <3>1 DEF SaveScheduled, Seen, Kept, SchedulesAreLater
  <2> QED
    BY <2>1
<1>4. \A t \in Tasks : request'[t].pc \in {"create", "publish"} => t \notin Later
  BY RequestSteps DEF Seen
<1> QED
  BY <1>1, <1>2, <1>3, <1>4 DEF Seen

\* What has been cancelled, and what is about to be.
LEMMA DroppedSteps ==
    ASSUME Kept, Next, NEW u \in Tasks, Dropped(u)'
    PROVE  Dropped(u) \/ \E d \in Editors : Cancel(d) /\ At(editor[d], u)
<1>1. CASE u \in cancelled'
  <2>1. u \in cancelled \/ \E d \in Editors : Delete(d) /\ editor[d].task = u
    <3>1. CASE UNCHANGED <<schedule, editor, cancelled>>
      BY <1>1, <3>1
    <3>2. CASE ~UNCHANGED <<schedule, editor, cancelled>>
      BY <1>1, <3>2, EditSteps DEF StoreSchedule, Elapse, Look, Cancel, Delete, Postpone
    <3> QED
      BY <3>1, <3>2
  <2> QED
    BY <2>1 DEF Delete, Dropped, At
<1>2. CASE \E d \in Editors : At(editor'[d], u) /\ editor'[d].pc = "delete"
  <2>1. PICK d \in Editors : At(editor'[d], u) /\ editor'[d].pc = "delete"
    BY <1>2
  <2>2. editor'[d].pc # "idle"
    BY <2>1
  <2>3. editor'[d] = editor[d] \/ (/\ Cancel(d) /\ editor[d].pc # "idle"
                                   /\ editor'[d].task = editor[d].task)
    BY <2>1, <2>2, EditorSteps
  <2> QED
    BY <2>1, <2>3 DEF Dropped, At
<1> QED
  BY <1>1, <1>2 DEF Dropped

\* The date of a schedule comes to be in the future when it is set.
LEMMA FutureSteps ==
    ASSUME Kept, Next, NEW u \in Tasks, schedule'[u] = "future"
    PROVE  \/ schedule[u] = "future"
           \/ StoreSchedule(u)
           \/ \E d \in Editors : Postpone(d) /\ At(editor[d], u)
<1>0. DOMAIN schedule = Tasks
  BY DEF Kept, Shaped
<1>1. CASE UNCHANGED <<schedule, editor, cancelled>>
  BY <1>1
<1>2. CASE \E t \in Tasks : StoreSchedule(t) \/ Elapse(t)
  BY <1>0, <1>2 DEF StoreSchedule, Elapse
<1>3. CASE \E d \in Editors :
              (\E t \in Later : Look(d, t)) \/ Cancel(d) \/ Delete(d) \/ Postpone(d)
  BY <1>0, <1>3 DEF Look, Cancel, Delete, Postpone, At, None
<1> QED
  BY <1>1, <1>2, <1>3, EditSteps

\* Cancelling and postponing in time finds the task unsent.
LEMMA InTime ==
    ASSUME Kept, Tallies, NEW d \in Editors, NEW u \in Tasks, Cancel(d) \/ Postpone(d),
           At(editor[d], u), ~Met("late", u)'
    PROVE  /\ Unsent(u) /\ row[u] = editor[d].seen
           /\ UNCHANGED <<published, cron, request, messages, worker, faults>>
<1>1. /\ Late(u, editor[d].seen) \subseteq tainted'
      /\ UNCHANGED <<published, cron, request, messages, worker, faults>>
  BY DEF Cancel, Postpone, At
<1>2. ~(u \in cron.todo \/ At(cron.doing, u) \/ published[u] > 0 \/ row[u] # editor[d].seen)
  BY <1>1 DEF Late, Met
<1> QED
  BY <1>1, <1>2 DEF Tallies, Unsent, Cronned

LEMMA CancelDoes ==
    ASSUME Kept, NEW d \in Editors, NEW u \in Tasks, Cancel(d), At(editor[d], u)
    PROVE  /\ row'[u].state = "REVOKED"
           /\ row'[u].subtasks = SubtasksOf(editor[d].seen, "REVOKED")
           /\ \A t \in Tasks : t # u => row'[t] = row[t]
<1> DEFINE seen == editor[d].seen
<1>1. Shaped /\ editor[d].pc # "idle" /\ editor[d] \in Reads({"cancel", "delete", "postpone"})
        /\ editor[d].task = u
  BY DEF Kept, Shaped, At
<1>2. seen \in Rows
  BY <1>1, IdleParts
<1>3. PICK state \in {"REVOKED"} : SaveAs(u, seen, state)
  BY <1>1 DEF Cancel
<1>4. state \in States
  BY FixedRows
<1> HIDE DEF seen
<1>5. /\ row'[u].state = state /\ row'[u].subtasks = SubtasksOf(seen, state)
      /\ \A t \in Tasks : t # u => row'[t] = row[t]
  <2>1. Shaped /\ SaveAs(u, seen, state) /\ seen \in Rows /\ state \in States
    BY <1>1, <1>2, <1>3, <1>4
  <2> QED
    BY <2>1, SaveShaped
<1> QED
  BY <1>3, <1>5 DEF seen

LEMMA EditKept ==
    ASSUME Kept, RevokedByHand, Seen, Tallies, Next, NEW u \in Tasks, EditOK(u), Tallies', Seen'
    PROVE  EditOK(u)'
<1>0. published[u] \in Nat /\ published'[u] \in Nat
  BY DEF Tallies
<1>1. /\ Sends(u) => published'[u] = published[u] + 1
      /\ ~Sends(u) => published'[u] = published[u]
  BY PublishSteps
<1>2. Met("late", u) => Met("late", u)'
  BY TaintStays DEF Met
\* A request publishes a task that has no schedule; the command publishes what it has.
<1>3. Submit(u) => request[u].pc = "publish" /\ request'[u].pc = "done" /\ cron' = cron
                     /\ row' = row /\ UNCHANGED <<schedule, editor, cancelled>>
  BY DEF Submit, Kept, Shaped, edits
<1>4. Unsent(u) /\ ~Submit(u) /\ ~(CronScan /\ u \in Due) => Unsent(u)'
  <2>1. ASSUME Unsent(u), ~Submit(u), ~(CronScan /\ u \in Due) PROVE Unsent(u)'
    <3>1. ~Sends(u)
      BY <2>1 DEF Sends, Unsent, Cronned
    <3>2. ~Cronned(u)'
      BY <2>1, CronSteps DEF Unsent
    <3> QED
      BY <1>1, <2>1, <3>1, <3>2 DEF Unsent
  <2> QED
    BY <2>1
<1>5. row'[u].state = "SCHEDULED" => row[u].state = "SCHEDULED" \/ SaveScheduled(u)
  BY ScheduledSteps
<1>6. SaveScheduled(u) => request'[u].pc = "done" /\ request[u].pc = "save"
  BY DEF SaveScheduled, Kept, Shaped
<1>7. ASSUME request'[u].pc # "done"
      PROVE  /\ Unsent(u)' /\ row'[u].state # "SCHEDULED" /\ u \notin cancelled'
             /\ \A d \in Editors : ~At(editor'[d], u)
  <2>1. request[u].pc # "done"
    BY <1>7, RequestSteps
  <2>2. Unsent(u) /\ row[u].state # "SCHEDULED" /\ u \notin cancelled
          /\ \A d \in Editors : ~At(editor[d], u)
    BY <2>1 DEF EditOK
  <2>3. Unsent(u)'
    BY <1>3, <1>4, <1>7, <2>2 DEF Due
  <2>4. row'[u].state # "SCHEDULED"
    BY <1>5, <1>6, <1>7, <2>2
  <2>5. u \notin cancelled'
    <3>1. CASE UNCHANGED <<schedule, editor, cancelled>>
      BY <2>2, <3>1
    <3>2. CASE ~UNCHANGED <<schedule, editor, cancelled>>
      BY <2>2, <3>2, EditSteps DEF StoreSchedule, Elapse, Look, Cancel, Delete, Postpone, At
    <3> QED
      BY <3>1, <3>2
  <2>6. ASSUME NEW d \in Editors, At(editor'[d], u) PROVE FALSE
    <3>1. editor'[d].pc # "idle" /\ editor'[d].task = u
      BY <2>6 DEF At
    <3> QED
      BY <2>2, <3>1, EditorSteps DEF At
  <2> QED
    BY <2>3, <2>4, <2>5, <2>6
<1>8. InHand(u)' => published'[u] > 0
  BY <1>0, <1>1, HandSteps DEF EditOK
<1>9. ASSUME ~Met("late", u)', schedule'[u] = "future" PROVE Unsent(u)'
  <2>1. ~Met("late", u)
    BY <1>2, <1>9
  <2>2. CASE schedule[u] = "future"
    <3>1. Unsent(u)
      BY <2>1, <2>2 DEF EditOK
    <3>2. ~Submit(u)
      BY <1>3, <2>2 DEF Seen, Kept, SchedulesAreLater, None
    <3> QED
      BY <1>4, <2>2, <3>1, <3>2 DEF Due
  <2>3. CASE StoreSchedule(u)
    <3>1. request[u].pc = "store" /\ cron' = cron /\ published' = published
      BY <2>3 DEF StoreSchedule
    <3>2. Unsent(u)
      BY <3>1 DEF EditOK
    <3> QED
      BY <3>1, <3>2 DEF Unsent, Cronned, At
  <2>4. CASE \E d \in Editors : Postpone(d) /\ At(editor[d], u)
    <3>1. PICK d \in Editors : Postpone(d) /\ At(editor[d], u)
      BY <2>4
    <3>2. Unsent(u) /\ cron' = cron /\ published' = published
      BY <1>9, <3>1, InTime
    <3> QED
      BY <3>2 DEF Unsent, Cronned, At
  <2> QED
    BY <1>9, <2>2, <2>3, <2>4, FutureSteps
<1>10. ASSUME ~Met("late", u)', Dropped(u)' PROVE Unsent(u)' /\ row'[u].state # "SCHEDULED"
  <2>1. ~Met("late", u)
    BY <1>2, <1>10
  <2>2. CASE Dropped(u)
    <3>1. Unsent(u) /\ row[u].state # "SCHEDULED"
      BY <2>1, <2>2 DEF EditOK
    <3>2. request[u].pc = "done"
      BY <2>2 DEF EditOK, Dropped
    <3> QED
      BY <1>3, <1>4, <1>5, <1>6, <3>1, <3>2 DEF Due
  <2>3. CASE \E d \in Editors : Cancel(d) /\ At(editor[d], u)
    <3>1. PICK d \in Editors : Cancel(d) /\ At(editor[d], u)
      BY <2>3
    <3>2. Unsent(u) /\ cron' = cron /\ published' = published
      BY <1>10, <3>1, InTime
    <3>3. row'[u].state = "REVOKED"
      BY <3>1, CancelDoes
    <3> QED
      BY <3>2, <3>3 DEF Unsent, Cronned, At
  <2> QED
    BY <1>10, <2>2, <2>3, DroppedSteps
<1> QED
  BY <1>7, <1>8, <1>9, <1>10 DEF EditOK

-----------------------------------------------------------------------------
(* From the command to a worker                                            *)

\* The step leaves the task u, its request and its workers alone.
Untouched(u) ==
    /\ request'[u] = request[u] /\ row'[u] = row[u] /\ messages'[u] = messages[u]
    /\ \A w \in Workers : At(worker[w], u) \/ At(worker'[w], u) => worker'[w] = worker[w]

\* The step does not concern the task u.
Still(u) ==
    /\ Untouched(u)
    /\ published'[u] = published[u]
    /\ u \in cron'.todo <=> u \in cron.todo
    /\ At(cron.doing, u) \/ At(cron'.doing, u) => cron'.doing = cron.doing

ByRequest(u) ==
    \/ CheckRunning(u) \/ Create(u) \/ Submit(u) \/ SubmitFails(u)
    \/ Reserve(u) \/ StoreSchedule(u) \/ SaveScheduled(u) \/ ScheduleFails(u)
    \/ SubtasksFinish(u)

ByCron(u) ==
    \/ CronScan /\ u \in Due
    \/ CronTake(u)
    \/ (CronSubmit \/ CronFails) /\ At(cron.doing, u)

ByEditor(u) == \E d \in Editors : Cancel(d) /\ At(editor[d], u)

Concerns(u) ==
    \/ ByRequest(u) \/ ByCron(u) \/ ByEditor(u)
    \/ \E w \in Workers : ByWorker(w) /\ WorkerActs(w, u)

LEMMA AsideOf ==
    ASSUME Kept, Aside, NEW u \in Tasks
    PROVE  Still(u) \/ Concerns(u)
<1> USE DEF Kept, Shaped
<1>1. UNCHANGED <<row, messages, worker, published>>
  BY DEF Aside, StoreSchedule, Elapse, CronTake, Revoke, PollRead, CronScan, Look, Delete, Postpone
<1>2. CASE \E t \in Tasks : StoreSchedule(t)
  <2>1. PICK t \in Tasks : StoreSchedule(t)
    BY <1>2
  <2>2. cron' = cron /\ (t # u => request'[u] = request[u])
    BY <2>1 DEF StoreSchedule
  <2> QED
    BY <1>1, <2>1, <2>2 DEF Still, Untouched, Concerns, ByRequest
<1>3. CASE CronScan
  <2>1. request' = request /\ cron.todo = {} /\ cron'.todo = Due /\ cron'.doing = cron.doing
    BY <1>3 DEF CronScan
  <2> QED
    BY <1>1, <1>3, <2>1 DEF Still, Untouched, Concerns, ByCron
<1>4. CASE \E t \in Tasks : CronTake(t)
  <2>1. PICK t \in Tasks : CronTake(t)
    BY <1>4
  <2>2. request' = request /\ cron.doing = Idle /\ cron'.todo = cron.todo \ {t} /\ cron'.doing.task = t
    BY <2>1 DEF CronTake, Doing
  <2>3. t # u => ~At(cron.doing, u) /\ ~At(cron'.doing, u)
    BY <2>2 DEF At, Idle
  <2> QED
    BY <1>1, <2>1, <2>2, <2>3 DEF Still, Untouched, Concerns, ByCron
<1>5. CASE UNCHANGED <<request, cron>>
  BY <1>1, <1>5 DEF Still, Untouched, At
<1>6. \/ UNCHANGED <<request, cron>> \/ CronScan
      \/ \E t \in Tasks : StoreSchedule(t) \/ CronTake(t)
  BY DEF Aside, Elapse, Revoke, PollRead, Look, Delete, Postpone, edits
<1> QED
  BY <1>2, <1>3, <1>4, <1>5, <1>6

LEMMA SavesOf ==
    ASSUME Kept, RevokedByHand, Tallies, Saves, NEW u \in Tasks, ~Met("hand", u)
    PROVE  Still(u) \/ Concerns(u)
<1>0. DOMAIN row = Tasks /\ DOMAIN messages = Tasks /\ DOMAIN published = Tasks
  BY DEF Kept, Shaped, Tallies
<1>1. request' = request /\ worker' = worker
  BY DEF Saves, CronSubmit, CronFails, PollSave, Cancel
<1>2. CASE CronSubmit \/ CronFails
  <2> DEFINE t == cron.doing.task
  <2>1. cron.doing # Idle /\ cron.doing \in Reads({"submit"})
    BY <1>2 DEF CronSubmit, CronFails, Kept, Shaped
  <2>2. t \in Tasks /\ cron.doing.seen \in Rows /\ At(cron.doing, t)
    BY <2>1, ReadsParts DEF At
  <2>3. cron' = [cron EXCEPT !.doing = Idle]
    BY <1>2 DEF CronSubmit, CronFails
  <2>4. /\ \/ published' = published /\ messages' = messages
           \/ /\ messages' = [messages EXCEPT ![t] = @ + 1]
              /\ published' = [published EXCEPT ![t] = @ + 1]
        /\ row' = row \/ SaveAs(t, cron.doing.seen, "FAILURE")
    BY <1>2 DEF CronSubmit, CronFails, Publish
  <2>5. cron'.todo = cron.todo /\ cron'.doing = Idle
    BY <2>3 DEF Kept, Shaped
  <2>6. CASE u = t
    BY <1>2, <2>2, <2>6 DEF Concerns, ByCron
  <2>7. CASE u # t
    <3>1. row'[u] = row[u]
      BY <1>0, <2>4, <2>7 DEF SaveAs
    <3>2. messages'[u] = messages[u] /\ published'[u] = published[u]
      BY <1>0, <2>4, <2>7
    <3>3. ~At(cron.doing, u) /\ ~At(cron'.doing, u)
      BY <2>5, <2>7 DEF At, Idle
    <3> QED
      BY <1>1, <2>5, <3>1, <3>2, <3>3 DEF Still, Untouched
  <2> QED
    BY <2>6, <2>7
<1>3. CASE PollSave
  <2>1. UNCHANGED <<messages, published, cron>>
          /\ (row' = row \/ (poll.task \in discarded /\ SaveAs(poll.task, poll.seen, "REVOKED")))
    BY <1>3 DEF PollSave, SaveAs, edits
  <2>2. poll.task \in discarded => poll.task # u
    BY DEF RevokedByHand
  <2>3. row'[u] = row[u]
    BY <1>0, <2>1, <2>2 DEF SaveAs
  <2> QED
    BY <1>1, <2>1, <2>3 DEF Still, Untouched, At
<1>4. CASE \E d \in Editors : Cancel(d)
  <2>1. PICK d \in Editors : Cancel(d)
    BY <1>4
  <2>2. UNCHANGED <<messages, published, cron>> /\ editor[d].pc # "idle"
          /\ SaveAs(editor[d].task, editor[d].seen, "REVOKED")
    BY <2>1 DEF Cancel
  <2>3. CASE editor[d].task = u
    BY <2>1, <2>2, <2>3 DEF Concerns, ByEditor, At
  <2>4. CASE editor[d].task # u
    <3>1. row'[u] = row[u]
      BY <1>0, <2>2, <2>4 DEF SaveAs
    <3> QED
      BY <1>1, <2>2, <3>1 DEF Still, Untouched, At
  <2> QED
    BY <2>3, <2>4
<1> QED
  BY <1>2, <1>3, <1>4 DEF Saves

LEMMA StepsOf ==
    ASSUME Kept, RevokedByHand, Tallies, Next, NEW u \in Tasks, ~Met("hand", u)'
    PROVE  Still(u) \/ Concerns(u)
<1>0. ~Met("hand", u) /\ DOMAIN row = Tasks /\ DOMAIN messages = Tasks
        /\ DOMAIN published = Tasks /\ DOMAIN request = Tasks
  BY TaintStays DEF Met, Kept, Shaped, Tallies
<1>1. CASE Aside \/ Saves
  BY <1>0, <1>1, AsideOf, SavesOf
<1>2. CASE FailsOld
  <2>1. PICK ts \in SUBSET Tasks, state \in {"QUEUING", "PROGRESS"} : FailOld(ts, state)
    BY <1>2 DEF FailsOld
  <2>2. u \notin ts
    BY <2>1 DEF FailOld, Taint, Met
  <2>3. UNCHANGED <<request, messages, worker, published, cron>> /\ row'[u] = row[u]
    BY <2>1, <2>2 DEF FailOld, edits
  <2> QED
    BY <2>3 DEF Still, Untouched, At
<1>3. CASE \E t \in Tasks : ForTask(t)
  <2>1. PICK t \in Tasks : ForTask(t)
    BY <1>3
  <2>2. CASE t = u
    <3>1. ~Discard(u)
      BY <1>0 DEF Discard, RevokedByHand
    <3> QED
      BY <2>1, <2>2, <3>1 DEF ForTask, Concerns, ByRequest
  <2>3. CASE t # u
    <3>1. /\ UNCHANGED <<worker, cron>>
          /\ request'[u] = request[u] /\ row'[u] = row[u]
          /\ messages'[u] = messages[u] /\ published'[u] = published[u]
      BY <1>0, <2>1, <2>3 DEF ForTask, CheckRunning, Create, Submit, SubmitFails, Reserve, SaveScheduled,
           ScheduleFails, SubtasksFinish, Discard, SaveAs, Publish, edits
    <3> QED
      BY <3>1 DEF Still, Untouched, At
  <2> QED
    BY <2>2, <2>3
<1>4. CASE \E w \in Workers : ByWorker(w)
  <2>1. PICK w \in Workers, t \in Tasks : ByWorker(w) /\ WorkerActs(w, t)
    BY <1>4, ByWorkerKept
  <2>2. CASE t = u
    BY <2>1, <2>2 DEF Concerns
  <2>3. CASE t # u
    <3>1. WorkerDoes(w, t)
      BY <2>1 DEF WorkerActs, Receives, Marks, Works, Ends, Handles, Finishes, Crashes
    <3>2. ~At(worker[w], u) /\ ~At(worker'[w], u)
      BY <2>3, <3>1 DEF WorkerDoes, At, Idle
    <3> QED
      BY <2>3, <3>1, <3>2 DEF WorkerDoes, Still, Untouched, At
  <2> QED
    BY <2>2, <2>3
<1> QED
  BY <1>1, <1>2, <1>3, <1>4, NextGroups

\* How a step that leaves a task alone, or that its request makes, leaves the command
\* and the workers.
LEMMA StillOf ==
    ASSUME NEW u \in Tasks, Still(u)
    PROVE  /\ InHand(u)' <=> InHand(u)
           /\ Cronned(u)' <=> Cronned(u)
           /\ At(cron.doing, u)' => cron'.doing = cron.doing /\ At(cron.doing, u)
           /\ u \in cron'.todo <=> u \in cron.todo
           /\ row'[u] = row[u] /\ published'[u] = published[u] /\ messages'[u] = messages[u]
           /\ \A w \in Workers : At(worker'[w], u) <=> At(worker[w], u)
           /\ \A w \in Workers : At(worker'[w], u) => worker'[w] = worker[w]
<1>1. \A w \in Workers : At(worker'[w], u) <=> At(worker[w], u)
  BY DEF Still, Untouched, At
<1>2. InHand(u)' <=> InHand(u)
  BY <1>1 DEF InHand, Still, Untouched
<1>3. (Cronned(u)' <=> Cronned(u)) /\ (At(cron'.doing, u) => cron'.doing = cron.doing /\ At(cron.doing, u))
  BY DEF Cronned, Still, At
<1> QED
  BY <1>1, <1>2, <1>3 DEF Still, Untouched

LEMMA RequestOf ==
    ASSUME NEW u \in Tasks, ByRequest(u)
    PROVE  /\ UNCHANGED <<worker, cron>> /\ (Cronned(u)' <=> Cronned(u))
           /\ \A w \in Workers : At(worker'[w], u) <=> At(worker[w], u)
           /\ At(cron.doing, u)' <=> At(cron.doing, u)
BY DEF ByRequest, CheckRunning, Create, Submit, SubmitFails, Reserve, StoreSchedule, SaveScheduled,
       ScheduleFails, SubtasksFinish, edits, Cronned, At

LEMMA WorkerOf ==
    ASSUME NEW u \in Tasks, NEW w \in Workers, WorkerActs(w, u)
    PROVE  WorkerDoes(w, u) /\ InHand(u) /\ (Cronned(u)' <=> Cronned(u))
<1>1. WorkerDoes(w, u) /\ InHand(u)
  BY DEF WorkerActs, Receives, Marks, Works, Ends, Handles, Finishes, Crashes, InHand
<1> QED
  BY <1>1 DEF WorkerDoes, Cronned, At

\* The command has a task that is SCHEDULED, which nobody else touches meanwhile.
LEMMA CronLineKept ==
    ASSUME TaskInv, Next, NEW u \in Tasks, Calm(u)'
    PROVE  CronLine(u)'
<1>0. Kept /\ RevokedByHand /\ Seen /\ Tallies /\ EditOK(u) /\ RowOK(u)
  BY DEF TaskInv
<1>1. Calm(u) /\ ~Met("doubled", u)' /\ ~Met("late", u)' /\ ~Met("hand", u)'
  BY TaintStays DEF Calm, Met
<1>2. CronLine(u)
  BY <1>1 DEF TaskInv
<1>3. CASE Still(u)
  BY <1>2, <1>3, StillOf DEF CronLine
<1>4. CASE ByRequest(u)
  <2>1. /\ UNCHANGED <<worker, cron>> /\ (Cronned(u)' <=> Cronned(u))
        /\ \A w \in Workers : At(worker'[w], u) <=> At(worker[w], u)
    BY <1>4, RequestOf
  <2>2. CASE Cronned(u)
    <3>1. request[u].pc = "done" /\ row[u].state = "SCHEDULED" /\ row[u].subtasks = "none" /\ ~InHand(u)
      BY <1>0, <1>2, <2>2 DEF EditOK, Unsent, CronLine, RowOK
    <3>2. SubtasksFinish(u)
      BY <1>4, <3>1 DEF ByRequest, CheckRunning, Create, Submit, SubmitFails, Reserve, StoreSchedule,
                        SaveScheduled, ScheduleFails
    <3>3. row'[u] = row[u] /\ messages' = messages
      BY <3>1, <3>2 DEF SubtasksFinish
    <3>4. ~InHand(u)'
      BY <2>1, <3>1, <3>3 DEF InHand
    <3> QED
      BY <1>2, <2>1, <3>1, <3>3, <3>4 DEF CronLine, At
  <2>3. CASE ~Cronned(u)
    BY <2>1, <2>3 DEF CronLine, Cronned
  <2> QED
    BY <2>2, <2>3
<1>5. CASE ByCron(u)
  <2>1. UNCHANGED worker
    BY <1>5 DEF ByCron, CronScan, CronTake, CronSubmit, CronFails
  <2>2. CASE CronScan /\ u \in Due
    <3>1. row[u].state = "SCHEDULED" /\ ~InHand(u) /\ UNCHANGED <<row, messages>> /\ ~At(cron'.doing, u)
      BY <1>1, <2>2 DEF Due, CronScan, Taint, Met, At, Idle
    <3>2. ~InHand(u)'
      BY <2>1, <3>1 DEF InHand, At
    <3> QED
      BY <3>1, <3>2 DEF CronLine
  <2>3. CASE CronTake(u)
    <3>1. row[u].state = "SCHEDULED" /\ ~InHand(u) /\ UNCHANGED <<row, messages>>
            /\ u \notin cron'.todo /\ cron'.doing.seen = row[u] /\ row[u].subtasks = "none"
      BY <1>0, <1>2, <2>3 DEF CronTake, Doing, CronLine, Cronned, RowOK
    <3>2. ~InHand(u)'
      BY <2>1, <3>1 DEF InHand, At
    <3> QED
      BY <3>1, <3>2 DEF CronLine
  <2>4. CASE (CronSubmit \/ CronFails) /\ At(cron.doing, u)
    <3>1. u \notin cron'.todo /\ ~At(cron'.doing, u)
      BY <1>0, <1>2, <2>4 DEF CronSubmit, CronFails, CronLine, At, Idle, Kept, Shaped
    <3> QED
      BY <3>1 DEF CronLine, Cronned
  <2> QED
    BY <1>5, <2>2, <2>3, <2>4 DEF ByCron
<1>6. CASE ByEditor(u)
  <2>1. PICK d \in Editors : Cancel(d) /\ At(editor[d], u)
    BY <1>6 DEF ByEditor
  <2>2. Unsent(u) /\ cron' = cron
    BY <1>0, <1>1, <2>1, InTime
  <2> QED
    BY <2>2 DEF CronLine, Unsent, Cronned, At
<1>7. CASE \E w \in Workers : WorkerActs(w, u)
  <2>1. InHand(u) /\ (Cronned(u)' <=> Cronned(u))
    BY <1>7, WorkerOf
  <2> QED
    BY <1>2, <2>1 DEF CronLine, Cronned
<1> QED
  BY <1>0, <1>1, <1>3, <1>4, <1>5, <1>6, <1>7, StepsOf DEF Concerns

LEMMA DiedStays ==
    ASSUME Kept, Tallies, Next, WorkerDied
    PROVE  WorkerDied'
<1>1. faults["crash"] \in Nat /\ faults'["crash"] \in Nat /\ Faults["crash"] \in Nat
        /\ faults'["crash"] <= faults["crash"]
  BY TaskLifecycleAssumption, PublishSteps DEF Tallies, FaultKinds
<1> QED
  BY <1>1 DEF WorkerDied

\* What a step does to a task that is in one hand: it goes along the line, and does not
\* leave the state that it has ended in.
InLine(u) == LineOK(u)' /\ (Ready(u) => row'[u].state = row[u].state)

LEMMA StillInLine ==
    ASSUME Kept, Tallies, Next, NEW u \in Tasks, Still(u), LineOK(u)
    PROVE  InLine(u)
BY StillOf, DiedStays DEF InLine, LineOK, WorkerOK

LEMMA RequestInLine ==
    ASSUME Kept, Seen, Tallies, Next, NEW u \in Tasks, EditOK(u), RowOK(u), LineOK(u), Calm(u),
           ByRequest(u)
    PROVE  InLine(u)
<1>0. /\ DOMAIN request = Tasks /\ row[u] \in Rows /\ messages[u] \in Nat /\ published[u] \in Nat
      /\ row \in [Tasks -> Rows] /\ Shaped
  BY DEF Kept, Shaped, Tallies
<1>1. /\ UNCHANGED <<worker, cron>>
      /\ \A w \in Workers : At(worker'[w], u) <=> At(worker[w], u)
  BY RequestOf
\* The request has not published the task.
<1>2. ASSUME request[u].pc # "done", UNCHANGED <<messages, published>>,
             Ready(u) => row'[u].state = row[u].state
      PROVE  InLine(u)
  <2>1. /\ published[u] = 0 /\ ~InHand(u) /\ messages[u] = 0
        /\ \A w \in Workers : ~At(worker[w], u)
    BY <1>0, <1>2 DEF EditOK, Unsent, LineOK, InHand
  <2> QED
    BY <1>1, <1>2, <2>1 DEF InLine, LineOK
<1>3. CASE CheckRunning(u) \/ StoreSchedule(u)
  BY <1>2, <1>3 DEF CheckRunning, StoreSchedule
<1>4. CASE Create(u) \/ Reserve(u)
  <2>1. ~Ready(u)
    BY <1>4 DEF Create, Reserve, RowOK, Ready, READY_STATES, None
  <2> QED
    BY <1>2, <1>4, <2>1 DEF Create, Reserve
<1>5. CASE SubmitFails(u) \/ ScheduleFails(u) \/ SaveScheduled(u)
  <2>1. request[u].pc \in {"publish", "store", "save"} /\ UNCHANGED <<messages, published>>
    BY <1>5 DEF SubmitFails, ScheduleFails, SaveScheduled
  <2>2. ~Ready(u)
    BY <2>1 DEF RowOK, Calm, Ready, READY_STATES
  <2> QED
    BY <1>2, <2>1, <2>2
<1>6. CASE Submit(u)
  <2>1. request[u].pc = "publish" /\ row' = row
          /\ messages'[u] = messages[u] + 1 /\ published'[u] = published[u] + 1
    BY <1>0, <1>6 DEF Submit, Publish, Kept, Shaped, Tallies
  <2>2. published[u] = 0 /\ messages[u] = 0 /\ \A w \in Workers : ~At(worker[w], u)
    BY <1>0, <2>1 DEF EditOK, Unsent, LineOK, InHand
  <2>3. messages'[u] = 1 /\ published'[u] = 1 /\ InHand(u)'
          /\ \A w \in Workers : ~At(worker'[w], u)
    BY <1>1, <2>1, <2>2 DEF InHand
  <2>4. row'[u].state = "QUEUING"
    BY <2>1 DEF RowOK, Calm
  <2> QED
    BY <2>1, <2>3, <2>4 DEF InLine, LineOK
<1>7. CASE SubtasksFinish(u)
  <2>1. UNCHANGED <<request, messages, published>>
    BY <1>7 DEF SubtasksFinish
  <2>2. (InHand(u)' <=> InHand(u)) /\ (WorkerDied => WorkerDied')
    BY <1>1, <2>1, DiedStays DEF InHand
  <2>3. CASE row'[u] = row[u]
    BY <1>1, <2>1, <2>2, <2>3 DEF InLine, LineOK, WorkerOK
  <2>4. CASE row[u].subtasks = "open" /\ row'[u].state = "SUCCESS" /\ row'[u].subtasks = "over"
    <3>1. row[u].state = "PROGRESS" /\ ~Ready(u)
      BY <2>4 DEF RowOK, Calm, Ready, READY_STATES
    <3>2. messages[u] # 1
      BY <3>1 DEF LineOK
    <3>3. \A w \in Workers : At(worker[w], u) =>
             worker[w].pc \notin {"mark", "work", "on_failure", "succeed", "fail"}
      BY <2>4, <3>1 DEF LineOK, WorkerOK
    <3>4. \A w \in Workers : At(worker'[w], u) => WorkerOK(w, u)'
      BY <1>1, <2>4, <3>3 DEF WorkerOK
    <3> QED
      BY <1>1, <2>1, <2>2, <2>4, <3>1, <3>2, <3>4 DEF InLine, LineOK
  <2> QED
    BY <1>0, <1>7, <2>3, <2>4 DEF SubtasksFinish
<1> QED
  BY <1>3, <1>4, <1>5, <1>6, <1>7 DEF ByRequest

LEMMA CronInLine ==
    ASSUME Kept, Seen, Tallies, Next, NEW u \in Tasks, EditOK(u), RowOK(u), CronLine(u), LineOK(u),
           ByCron(u), ~Met("doubled", u)'
    PROVE  InLine(u)
<1>0. /\ row[u] \in Rows /\ messages[u] \in Nat /\ published[u] \in Nat
      /\ row \in [Tasks -> Rows]
  BY DEF Kept, Shaped, Tallies
<1>1. UNCHANGED worker /\ \A w \in Workers : At(worker'[w], u) <=> At(worker[w], u)
  BY DEF ByCron, CronScan, CronTake, CronSubmit, CronFails, At
<1>2. WorkerDied => WorkerDied'
  BY DiedStays
\* The command has a task that is SCHEDULED and that no worker has.
<1>3. /\ row[u].state = "SCHEDULED" /\ ~Ready(u) /\ ~InHand(u)
      /\ messages[u] = 0 /\ \A w \in Workers : ~At(worker[w], u)
  <2>1. row[u].state = "SCHEDULED" /\ ~InHand(u)
    <3>1. CASE CronScan /\ u \in Due
      BY <3>1 DEF Due, CronScan, Taint, Met
    <3>2. CASE CronTake(u) \/ At(cron.doing, u)
      BY <3>2 DEF CronTake, CronLine, Cronned
    <3> QED
      BY <3>1, <3>2 DEF ByCron
  <2> QED
    BY <1>0, <2>1 DEF InHand, Ready, READY_STATES
<1>4. CASE (CronScan /\ u \in Due) \/ CronTake(u)
  <2>1. UNCHANGED <<row, messages, published>>
    BY <1>4 DEF CronScan, CronTake
  <2>2. ~InHand(u)'
    BY <1>1, <1>3, <2>1 DEF InHand
  <2> QED
    BY <1>1, <1>2, <1>3, <2>1, <2>2 DEF InLine, LineOK
<1>5. CASE CronSubmit /\ At(cron.doing, u)
  <2>1. row' = row /\ messages'[u] = messages[u] + 1 /\ published'[u] = published[u] + 1
    BY <1>0, <1>5 DEF CronSubmit, Publish, At, Kept, Shaped, Tallies
  <2>2. messages'[u] = 1 /\ InHand(u)'
    BY <1>3, <2>1 DEF InHand
  <2>3. published'[u] > 1 => u \in Later /\ WorkerDied
    BY <1>0, <1>3, <2>1 DEF LineOK
  <2> QED
    BY <1>1, <1>2, <1>3, <2>1, <2>2, <2>3 DEF InLine, LineOK
<1>6. CASE CronFails /\ At(cron.doing, u)
  <2>1. row'[u].state = "FAILURE"
    <3>1. row' = [row EXCEPT ![u] =
                     [state |-> "FAILURE", subtasks |-> SubtasksOf(cron.doing.seen, "FAILURE")]]
      BY <1>6 DEF CronFails, At, SaveAs
    <3> QED
      BY <1>0, <3>1
  <2>2. UNCHANGED <<messages, published>>
    BY <1>6 DEF CronFails
  <2>3. ~InHand(u)'
    BY <1>1, <1>3, <2>2 DEF InHand
  <2>4. published'[u] > 1 => u \in Later /\ WorkerDied
    BY <1>0, <2>2 DEF LineOK
  <2> QED
    BY <1>1, <1>2, <1>3, <2>1, <2>2, <2>3, <2>4 DEF InLine, LineOK
<1> QED
  BY <1>4, <1>5, <1>6 DEF ByCron

LEMMA EditorInLine ==
    ASSUME Kept, Seen, Tallies, Next, NEW u \in Tasks, EditOK(u), LineOK(u), ByEditor(u),
           ~Met("late", u)'
    PROVE  InLine(u)
<1>1. PICK d \in Editors : Cancel(d) /\ At(editor[d], u)
  BY DEF ByEditor
<1>2. Unsent(u) /\ row[u] = editor[d].seen /\ UNCHANGED <<published, messages, worker>>
  BY <1>1, InTime
<1>3. row[u].state = "SCHEDULED" /\ ~Ready(u)
  BY <1>1, <1>2 DEF Seen, At, Ready, READY_STATES
<1>4. messages[u] = 0 /\ published[u] = 0 /\ \A w \in Workers : ~At(worker[w], u)
  BY <1>2 DEF EditOK, Unsent, InHand, Kept, Shaped
<1>5. messages'[u] = 0 /\ published'[u] = 0 /\ \A w \in Workers : ~At(worker'[w], u)
  BY <1>2, <1>4 DEF At
<1> QED
  BY <1>3, <1>5 DEF InLine, LineOK

LEMMA WorkerInLine ==
    ASSUME Kept, Seen, Tallies, Next, NEW u \in Tasks, EditOK(u), RowOK(u), LineOK(u), Calm(u),
           ~Met("redelivered", u)', NEW w \in Workers, WorkerActs(w, u)
    PROVE  InLine(u)
<1>0. row[u] \in Rows /\ messages[u] \in Nat /\ published[u] \in Nat
  BY DEF Kept, Shaped, Tallies
<1>1. WorkerDoes(w, u) /\ InHand(u)
  BY WorkerOf
<1>2. published' = published /\ published[u] > 0 /\ \A v \in Workers : v # w => worker'[v] = worker[v]
  BY <1>1 DEF WorkerDoes, EditOK
<1>3. WorkerDied => WorkerDied'
  BY DiedStays
<1>4. CASE Receives(w, u)
  <2>1. /\ worker'[w].pc = "mark" /\ worker'[w].seen = row[u] /\ At(worker'[w], u)
        /\ messages[u] = 1 /\ messages'[u] = 0 /\ row'[u] = row[u]
    BY <1>0, <1>1, <1>4 DEF Receives, LineOK, WorkerDoes, Met, Idle
  <2>2. row[u].state \in {"QUEUING", "SCHEDULED"} /\ row[u].subtasks = "none"
          /\ (\A v \in Workers : ~At(worker[v], u))
    BY <2>1 DEF LineOK, RowOK
  <2>3. \A v \in Workers : At(worker'[v], u) => v = w
    BY <1>2, <2>2
  <2>4. InHand(u)' /\ WorkerOK(w, u)'
    BY <2>1, <2>2 DEF InHand, WorkerOK
  <2> QED
    BY <1>2, <1>3, <2>1, <2>3, <2>4 DEF InLine, LineOK
<1>5. CASE Marks(w, u) \/ Works(w, u) \/ Ends(w, u)
  <2>1. At(worker[w], u) /\ messages'[u] = messages[u]
    BY <1>5 DEF Marks, Works, Ends, Handles, Finishes, Crashes
  <2>2. messages[u] = 0 /\ WorkerOK(w, u) /\ \A v \in Workers : At(worker[v], u) => v = w
    BY <1>0, <2>1 DEF LineOK
  <2>3. \A v \in Workers : At(worker'[v], u) => v = w
    BY <1>2, <2>2
  <2>4. InHand(u)' <=> At(worker'[w], u)
    BY <2>1, <2>2, <2>3 DEF InHand
  \* What is left to show of the line.
  <2>5. ASSUME At(worker'[w], u) => WorkerOK(w, u)',
               row'[u].state = "SCHEDULED" => u \in Later /\ (At(worker'[w], u) \/ WorkerDied'),
               Ready(u) => row'[u].state = row[u].state
        PROVE  InLine(u)
    BY <1>2, <1>3, <2>1, <2>2, <2>3, <2>4, <2>5 DEF InLine, LineOK
  <2>6. CASE Marks(w, u)
    <3>1. row[u].state \in {"QUEUING", "SCHEDULED"} /\ row'[u].state = "PROGRESS"
            /\ row'[u].subtasks = "none" /\ worker'[w].pc = "work"
      BY <2>2, <2>6 DEF Marks, WorkerOK, Saved, SubtasksOf
    <3> QED
      BY <2>5, <3>1 DEF WorkerOK, Ready, READY_STATES
  <2>7. CASE Works(w, u)
    <3>1. row[u].state = "PROGRESS" /\ row[u].subtasks = "none"
      BY <2>2, <2>7 DEF Works, WorkerOK
    <3>2. /\ row'[u].state = "PROGRESS" /\ worker'[w].pc \in {"on_success", "on_failure"}
          /\ worker'[w].pc = "on_failure" => row'[u] = row[u]
      BY <2>7, <3>1 DEF Works, Delegated
    <3> QED
      BY <2>5, <3>1, <3>2 DEF WorkerOK, Ready, READY_STATES
  <2>8. CASE Handles(w, u)
    <3>1. row'[u] = row[u] /\ row[u].state \in {"PROGRESS", "SUCCESS"}
      BY <2>2, <2>8 DEF Handles, WorkerOK
    <3>2. At(worker'[w], u) => WorkerOK(w, u)'
      BY <2>2, <2>8 DEF Handles, WorkerOK, At, Idle
    <3> QED
      BY <2>5, <3>1, <3>2
  <2>9. CASE Finishes(w, u)
    <3>1. row[u].state = "PROGRESS" /\ row'[u].state \in {"SUCCESS", "FAILURE"} /\ worker'[w] = Idle
      BY <2>2, <2>9 DEF Finishes, WorkerOK, Saved
    <3> QED
      BY <2>5, <3>1 DEF At, Idle, Ready, READY_STATES
  <2>10. CASE Crashes(w, u)
    <3>1. faults["crash"] \in Nat /\ Faults["crash"] \in Nat /\ faults["crash"] <= Faults["crash"]
            /\ faults["crash"] > 0 /\ faults'["crash"] = faults["crash"] - 1
      BY <2>10, TaskLifecycleAssumption DEF Crashes, Spend, Tallies, FaultKinds
    <3>2. WorkerDied'
      BY <3>1 DEF WorkerDied
    <3>3. row'[u] = row[u] /\ worker'[w] = Idle
      BY <2>10 DEF Crashes
    <3> QED
      BY <2>5, <3>2, <3>3 DEF At, Idle, Seen
  <2> QED
    BY <1>5, <2>6, <2>7, <2>8, <2>9, <2>10 DEF Ends
<1> QED
  BY <1>4, <1>5 DEF WorkerActs

LEMMA LineKept ==
    ASSUME TaskInv, Next, NEW u \in Tasks, Single(u)'
    PROVE  Single(u) /\ InLine(u)
<1>0. Kept /\ RevokedByHand /\ Seen /\ Tallies /\ EditOK(u) /\ RowOK(u)
  BY DEF TaskInv
<1>1. /\ Single(u) /\ Calm(u) /\ ~Met("doubled", u)' /\ ~Met("late", u)' /\ ~Met("hand", u)'
      /\ ~Met("redelivered", u)'
  BY TaintStays DEF Single, Calm, Met
<1>2. CronLine(u) /\ LineOK(u)
  BY <1>1 DEF TaskInv
<1>3. CASE Still(u)
  BY <1>0, <1>1, <1>2, <1>3, StillInLine
<1>4. CASE ByRequest(u)
  BY <1>0, <1>1, <1>2, <1>4, RequestInLine
<1>5. CASE ByCron(u)
  BY <1>0, <1>1, <1>2, <1>5, CronInLine
<1>6. CASE ByEditor(u)
  BY <1>0, <1>1, <1>2, <1>6, EditorInLine
<1>7. CASE \E w \in Workers : WorkerActs(w, u)
  BY <1>0, <1>1, <1>2, <1>7, WorkerInLine
<1>8. InLine(u)
  BY <1>0, <1>1, <1>3, <1>4, <1>5, <1>6, <1>7, StepsOf DEF Concerns
<1> QED
  BY <1>1, <1>8

LEMMA TaskAtFirst == Init => TaskInv
<1> SUFFICES ASSUME Init PROVE TaskInv
  OBVIOUS
<1>1. Kept /\ RevokedByHand
  <2>1. Shaped
    BY FixedRows DEF Init, Shaped, Reads
  <2>2. SchedulesAreLater
    BY DEF Init, SchedulesAreLater, Idle
  <2>3. RevokedByHand
    BY DEF Init, RevokedByHand
  <2> QED
    BY <2>1, <2>2, <2>3 DEF Kept
<1>2. Seen
  BY FixedRows DEF Init, Seen, Idle, None
<1>3. Tallies
  BY TaskLifecycleAssumption DEF Init, Tallies, FaultKinds
<1>4. ASSUME NEW t \in Tasks PROVE EditOK(t) /\ RowOK(t) /\ CronLine(t) /\ LineOK(t)
  <2>1. /\ row[t] = NoRow /\ request[t].pc = "start" /\ messages[t] = 0 /\ published[t] = 0
        /\ schedule[t] = None /\ cancelled = {} /\ atWork = {}
        /\ \A w \in Workers : ~At(worker[w], t)
        /\ \A d \in Editors : ~At(editor[d], t)
        /\ ~At(cron.doing, t) /\ t \notin cron.todo /\ ~At(poll, t)
    BY <1>4 DEF Init, At, Idle
  <2>2. ~InHand(t) /\ ~Cronned(t) /\ Unsent(t) /\ ~Dropped(t)
    BY <2>1 DEF InHand, Cronned, Unsent, Dropped
  <2>3. row[t].state = None /\ row[t].subtasks = "none"
    BY <2>1 DEF NoRow
  <2> QED
    BY <2>1, <2>2, <2>3 DEF EditOK, RowOK, CronLine, LineOK, None
<1> QED
  BY <1>1, <1>2, <1>3, <1>4 DEF TaskInv

LEMMA TaskKept == TaskInv /\ [Next]_vars => TaskInv'
<1> SUFFICES ASSUME TaskInv, [Next]_vars PROVE TaskInv'
  OBVIOUS
<1>1. CASE UNCHANGED vars
  <2>1. Kept' /\ RevokedByHand' /\ Seen' /\ Tallies'
    BY <1>1 DEF vars, TaskInv, Kept, Shaped, Reads, Idle, SchedulesAreLater, RevokedByHand, Seen,
                Tallies, Met
  <2>2. ASSUME NEW t \in Tasks
        PROVE  /\ EditOK(t) => EditOK(t)'
               /\ RowOK(t) => RowOK(t)'
               /\ CronLine(t) => CronLine(t)'
               /\ LineOK(t) => LineOK(t)'
               /\ (Calm(t)' => Calm(t)) /\ (Single(t)' => Single(t))
    <3>1. /\ (EditOK(t) => EditOK(t)') /\ (RowOK(t) => RowOK(t)')
          /\ (CronLine(t) => CronLine(t)')
      BY <1>1 DEF vars, EditOK, Unsent, Dropped, Cronned, InHand, Met, RowOK, CronLine, At
    <3>2. LineOK(t) => LineOK(t)'
      BY <1>1 DEF vars, LineOK, InHand, WorkerOK, WorkerDied, At
    <3>3. (Calm(t)' => Calm(t)) /\ (Single(t)' => Single(t))
      BY <1>1 DEF vars, Calm, Single, Met
    <3> QED
      BY <3>1, <3>2, <3>3
  <2> QED
    BY <2>1, <2>2 DEF TaskInv
<1>2. CASE Next
  <2>1. Kept' /\ RevokedByHand' /\ Seen' /\ Tallies'
    BY <1>2, KeptKept, RevokedKept, SeenKept, PublishSteps DEF TaskInv
  <2>2. \A t \in Tasks : EditOK(t)'
    BY <1>2, <2>1, EditKept DEF TaskInv
  <2>3. \A t \in Tasks : RowOK(t)'
    BY <1>2, RowKept DEF TaskInv
  <2>4. \A t \in Tasks : Calm(t)' => CronLine(t)'
    BY <1>2, CronLineKept
  <2>5. \A t \in Tasks : Single(t)' => LineOK(t)'
    BY <1>2, LineKept DEF InLine
  <2> QED
    BY <2>1, <2>2, <2>3, <2>4, <2>5 DEF TaskInv
<1> QED
  BY <1>1, <1>2

\* At most one worker has a message that was taken for t.
LEMMA OneCourse ==
    ASSUME TaskInv, NEW t \in Tasks, Clean(t)
    PROVE  messages[t] + Cardinality({w \in Workers : At(worker[w], t)}) <= 1
<1> DEFINE W == {w \in Workers : At(worker[w], t)}
<1>1. LineOK(t) /\ messages[t] \in Nat
  BY DEF TaskInv, Kept, Shaped, Clean, Accidents, Calm, Single
<1> HIDE DEF W
<1>2. CASE W = {}
  <2>1. Cardinality(W) = 0
    BY <1>2, FS_EmptySet, Zenon
  <2> QED
    BY <1>1, <2>1 DEF LineOK, W
<1>3. CASE W # {}
  <2>1. PICK w \in Workers : At(worker[w], t)
    BY <1>3 DEF W
  <2>2. W = {w}
    BY <1>1, <2>1 DEF LineOK, W
  <2>3. Cardinality(W) = 1
    BY <2>2, FS_Singleton, Zenon
  <2>4. messages[t] = 0
    BY <1>1, <2>1 DEF LineOK
  <2> QED
    BY <2>3, <2>4 DEF W
<1> QED
  BY <1>2, <1>3

\* A schedule that was cancelled or postponed in time is neither submitted nor run,
\* whatever fails, crashes or interferes (ModifyScheduledBulkEmailInstructorTask).
THEOREM EditsInTime == Spec => []EditsAreObeyed
<1>1. TaskInv => EditsAreObeyed
  BY DEF TaskInv, EditsAreObeyed, EditOK, Dropped, Unsent, Cronned, Kept, Shaped
<1> QED
  BY <1>1, TaskAtFirst, TaskKept, PTL DEF Spec

\* A submitted task waits in one message or is run by one worker, after its request
\* was answered; it is submitted again only by the command, after a worker has died
\* (process_scheduled_instructor_tasks, submit_scheduled_task).  Not so for a task that
\* met an accident: above all, one whose message Celery has handed out again.
THEOREM OneSubmission == Spec => []SubmittedOnce
<1>1. TaskInv => SubmittedOnce
  <2> SUFFICES ASSUME TaskInv, NEW t \in Tasks, Clean(t)
               PROVE  /\ messages[t] + Cardinality({w \in Workers : At(worker[w], t)}) <= 1
                      /\ published[t] > 0 => request[t].pc = "done"
                      /\ published[t] > 1 => t \in Later /\ WorkerDied
    BY DEF SubmittedOnce
  <2>1. LineOK(t) /\ EditOK(t) /\ published[t] \in Nat
    BY DEF TaskInv, Tallies, Clean, Accidents, Calm, Single
  <2>2. published[t] > 0 => request[t].pc = "done"
    BY <2>1 DEF EditOK, Unsent
  <2>3. published[t] > 1 => t \in Later /\ WorkerDied
    BY <2>1 DEF LineOK
  <2> QED
    BY <2>2, <2>3, OneCourse
<1> QED
  BY <1>1, TaskAtFirst, TaskKept, PTL DEF Spec

\* A task is not successful while its subtasks are at work, redelivered and doubled runs
\* included: on_success leaves it to them, and every row that is saved as SUCCESS had no
\* subtasks when it was read.  Not so once a save of such a run, of the command, of an
\* editor or of a poll has written over what the row said of its subtasks.
THEOREM SuccessComesLast == Spec => []SuccessIsOver
<1>1. TaskInv => SuccessIsOver
  BY DEF TaskInv, RowOK, SuccessIsOver
<1> QED
  BY <1>1, TaskAtFirst, TaskKept, PTL DEF Spec

\* What a step does to a task that has ended.
LEMMA EndedSteps ==
    ASSUME TaskInv, Next, NEW t \in Tasks, Ready(t), row'[t].state # row[t].state,
           ~Met("late", t)', ~Met("hand", t)'
    PROVE  \/ /\ Met("redelivered", t) \/ Met("doubled", t)
              /\ \E w \in Workers : At(worker[w], t) /\ Run(w)
           \/ Met("doubled", t) /\ CronFails
<1>0. Kept /\ RevokedByHand /\ Seen /\ Tallies /\ EditOK(t) /\ RowOK(t) /\ DOMAIN row = Tasks
  BY DEF TaskInv, Kept, Shaped
<1>1. ~Met("late", t) /\ ~Met("hand", t)
  BY TaintStays DEF Met
<1>2. row[t].state \notin {None, "QUEUING", "SCHEDULED", "PROGRESS"}
  BY DEF Ready, READY_STATES, None
<1>3. ~Still(t)
  BY DEF Still, Untouched
<1>4. ~ByRequest(t)
  <2>1. ~Create(t) /\ ~Reserve(t)
    BY <1>0, <1>2 DEF RowOK, Create, Reserve
  <2>2. ~SubmitFails(t) /\ ~ScheduleFails(t) /\ ~SaveScheduled(t)
    BY <1>0, <1>1, <1>2 DEF RowOK, SubmitFails, ScheduleFails, SaveScheduled
  <2>3. ~SubtasksFinish(t)
    BY <1>0, <1>1, <1>2 DEF RowOK, SubtasksFinish
  <2>4. ~CheckRunning(t) /\ ~Submit(t) /\ ~StoreSchedule(t)
    BY DEF CheckRunning, Submit, StoreSchedule
  <2> QED
    BY <2>1, <2>2, <2>3, <2>4 DEF ByRequest
<1>5. CASE ByCron(t)
  <2>1. CronFails /\ At(cron.doing, t)
    BY <1>5 DEF ByCron, CronScan, CronTake, CronSubmit
  <2>2. Met("doubled", t)
    BY <1>1, <1>2, <2>1 DEF TaskInv, Calm, CronLine, Cronned
  <2> QED
    BY <2>1, <2>2
<1>6. ~ByEditor(t)
  <2>1. SUFFICES ASSUME NEW d \in Editors, Cancel(d), At(editor[d], t) PROVE FALSE
    BY DEF ByEditor
  <2>2. row[t] = editor[d].seen /\ editor[d].seen.state = "SCHEDULED"
    BY <1>0, <2>1, InTime DEF Seen, At
  <2> QED
    BY <1>2, <2>2
<1>7. ASSUME NEW w \in Workers, ByWorker(w), WorkerActs(w, t)
      PROVE  /\ Met("redelivered", t) \/ Met("doubled", t)
             /\ At(worker[w], t) /\ Run(w)
  <2>1. At(worker[w], t)
    BY <1>7 DEF WorkerActs, Receives, Marks, Works, Ends, Handles, Finishes, Crashes
  <2>2. Run(w)
    BY <1>7 DEF ByWorker, Crash, Receive
  <2>3. Met("redelivered", t)' => Met("redelivered", t)
    BY <2>2 DEF Run, Mark, Work, Delegate, WorkRaises, Handle, Finish, Revived, Erased, Met
  <2>4. ASSUME ~Met("redelivered", t), ~Met("doubled", t) PROVE FALSE
    <3>1. Calm(t) /\ LineOK(t) /\ ~Met("redelivered", t)'
      BY <1>1, <2>3, <2>4 DEF TaskInv, Calm, Single
    <3>2. InLine(t)
      BY <1>0, <1>7, <3>1, WorkerInLine
    <3> QED
      BY <3>2 DEF InLine
  <2> QED
    BY <2>1, <2>2, <2>4
<1> QED
  BY <1>0, <1>3, <1>4, <1>5, <1>6, <1>7, StepsOf DEF Concerns

\* A task that has ended stays in the state it ended in, although rows are saved whole
\* by those that have read them before: without a late edit and an operator, only a run
\* of a message that came twice, redelivered or doubled, or the command that failed to
\* submit a task twice, changes it.
THEOREM EndsForGood == Spec => FinalIsFinal
<1> DEFINE Final == \A t \in Tasks :
          /\ Ready(t) /\ row'[t].state # row[t].state
          /\ ~Met("late", t)' /\ ~Met("hand", t)'
          => \/ /\ Met("redelivered", t) \/ Met("doubled", t)
                /\ \E w \in Workers : At(worker[w], t) /\ Run(w)
             \/ Met("doubled", t) /\ CronFails
<1>1. ASSUME TaskInv, [Next]_vars PROVE [Final]_vars
  BY <1>1, EndedSteps
<1> QED
  BY <1>1, TaskAtFirst, TaskKept, PTL DEF Spec, FinalIsFinal

-----------------------------------------------------------------------------
(* One task at a time                                                      *)

AtOnce == Tasks \ Later

\* The tasks that a request has found before it creates its own have ended.
KnownAreOver ==
    \A t \in AtOnce : request[t].pc = "create" =>
        \A u \in request[t].known \cap AtOnce : ~Met("revived", u) => Ready(u)

\* The invariant of the tasks that are submitted at once.
LifeInv == TaskInv /\ KnownAreOver /\ OneAtATime

LEMMA ReadyOrNot ==
    ASSUME NEW r \in Rows
    PROVE  r.state \in READY_STATES <=> r.state # None /\ ~TaskIsRunning(r)
BY DEF TaskIsRunning, READY_STATES, None

\* A row that is there stays there.
LEMMA RowStays ==
    ASSUME TaskInv, Next, NEW u \in Tasks, row[u].state # None
    PROVE  row'[u].state # None
<1>1. CASE row'[u] = row[u]
  BY <1>1
<1>2. CASE Changed(u)
  BY <1>2, FixedRows DEF Changed, SavedOver, Saved, Delegated, None
<1> QED
  BY <1>1, <1>2, RowSteps DEF TaskInv

\* A task that is submitted at once comes to run when it is created, or a run revives it.
LEMMA RunsAnew ==
    ASSUME TaskInv, Next, NEW u \in AtOnce, TaskIsRunning(row'[u]), ~TaskIsRunning(row[u])
    PROVE  Create(u) \/ Met("revived", u)'
<1>0. u \in Tasks /\ u \notin Later /\ Kept /\ EditOK(u) /\ RowOK(u) /\ row[u] \in Rows
        /\ published[u] \in Nat
  BY DEF AtOnce, TaskInv, Kept, Shaped, Tallies
<1>1. Changed(u)
  BY <1>0, RowSteps DEF TaskInv
<1>2. ~Reserve(u) /\ ~SaveScheduled(u)
  BY <1>0 DEF Reserve, SaveScheduled, Kept, SchedulesAreLater
<1>3. Held(u) \/ At(poll, u) => Ready(u)
  <2>1. Held(u) => request[u].pc = "done"
    BY <1>0 DEF Held, EditOK, Unsent
  <2>2. Held(u) \/ At(poll, u) => row[u].state # None
    BY <1>0, <2>1 DEF RowOK
  <2> QED
    BY <1>0, <2>2, ReadyOrNot DEF Ready
<1>4. row'[u].state \notin READY_STATES
  BY DEF TaskIsRunning
<1>5. CASE SavedOver(u) /\ (Held(u) \/ At(poll, u))
  BY <1>3, <1>4, <1>5 DEF SavedOver, Saved, Met, READY_STATES
<1>6. CASE Delegated(u) /\ InHand(u)
  BY <1>3, <1>6 DEF Delegated, Held, Met
<1>7. CASE Create(u)
  BY <1>7
<1> QED
  BY <1>1, <1>2, <1>4, <1>5, <1>6, <1>7 DEF Changed, READY_STATES

LEMMA KnownKept ==
    ASSUME TaskInv, KnownAreOver, Next
    PROVE  KnownAreOver'
<1> SUFFICES ASSUME NEW t \in AtOnce, request'[t].pc = "create",
                    NEW u \in AtOnce, u \in request'[t].known, ~Met("revived", u)'
             PROVE  Ready(u)'
  BY DEF KnownAreOver, AtOnce
<1>0. /\ t \in Tasks /\ u \in Tasks /\ Kept /\ RowOK(u) /\ row[u] \in Rows /\ row'[u] \in Rows
      /\ ~Met("revived", u) /\ DOMAIN request = Tasks
  BY TaintStays, KeptKept DEF AtOnce, TaskInv, Kept, Shaped, Met
<1>1. Ready(u)
  <2>1. CASE request'[t] = request[t]
    BY <1>0, <2>1 DEF KnownAreOver
  <2>2. CASE CheckRunning(t)
    <3>1. request'[t].known = {x \in Tasks : row[x] # NoRow}
            /\ ~(\E x \in Tasks : TaskIsRunning(row[x]))
      BY <1>0, <2>2 DEF CheckRunning
    <3>2. row[u].state # None
      BY <1>0, <3>1 DEF RowOK
    <3> QED
      BY <1>0, <3>1, <3>2, ReadyOrNot DEF Ready
  <2> QED
    BY <1>0, <2>1, <2>2, RequestSteps
<1>2. row[u].state # None /\ ~TaskIsRunning(row[u])
  BY <1>0, <1>1, ReadyOrNot DEF Ready
<1>3. ~Create(u)
  BY <1>0, <1>2 DEF Create, RowOK
<1>4. row'[u].state # None /\ ~TaskIsRunning(row'[u])
  BY <1>0, <1>2, <1>3, RunsAnew, RowStays
<1> QED
  BY <1>0, <1>4, ReadyOrNot DEF Ready

LEMMA LifeKept == LifeInv /\ [Next]_vars => LifeInv'
<1> SUFFICES ASSUME LifeInv, [Next]_vars PROVE LifeInv'
  OBVIOUS
<1>1. CASE UNCHANGED vars
  <2>1. KnownAreOver' /\ OneAtATime'
    BY <1>1 DEF vars, LifeInv, KnownAreOver, OneAtATime, Met, Ready
  <2> QED
    BY <1>1, <2>1, TaskKept DEF LifeInv
<1>2. CASE Next
  <2>1. TaskInv /\ TaskInv' /\ KnownAreOver' /\ DOMAIN request = Tasks
    BY <1>2, TaskKept, KnownKept DEF LifeInv, TaskInv, Kept, Shaped
  <2> DEFINE Alone(x) == x \in AtOnce /\ ~Met("raced", x)' /\ ~Met("revived", x)' /\ TaskIsRunning(row'[x])
  <2>2. ASSUME NEW x, Alone(x)
        PROVE  /\ x \in Tasks /\ x \in AtOnce /\ ~Met("raced", x) /\ ~Met("revived", x)
               /\ Create(x) \/ TaskIsRunning(row[x])
    BY <1>2, <2>1, <2>2, RunsAnew, TaintStays DEF AtOnce, Met
  <2>3. ASSUME NEW t, NEW u, t # u, Alone(t), Alone(u), Create(t)
        PROVE  FALSE
    <3>1. request[t].pc = "create" /\ request'[t].pc = "publish" /\ t \in AtOnce /\ u \in AtOnce
      BY <2>1, <2>2, <2>3 DEF Create
    <3>2. ~Create(u)
      BY <2>1, <2>2, <2>3, <3>1 DEF Create
    <3>3. TaskIsRunning(row[u]) /\ ~Met("revived", u) /\ u \in Tasks
      BY <2>2, <2>3, <3>2
    <3>4. u \notin request[t].known
      BY <3>1, <3>3 DEF LifeInv, KnownAreOver, Ready, TaskIsRunning
    <3>5. <<"raced", t>> \in tainted'
      BY <2>3, <3>3, <3>4 DEF Create, Taint
    <3> QED
      BY <2>3, <3>5 DEF Met
  <2>4. ASSUME NEW t, NEW u, Alone(t), Alone(u) PROVE t = u
    <3>1. CASE Create(t) \/ Create(u)
      BY <2>3, <2>4, <3>1
    <3>2. CASE ~Create(t) /\ ~Create(u)
      BY <2>2, <2>4, <3>2 DEF LifeInv, OneAtATime, AtOnce
    <3> QED
      BY <3>1, <3>2
  <2>5. OneAtATime'
    BY <2>4 DEF OneAtATime, AtOnce
  <2> QED
    BY <2>1, <2>5 DEF LifeInv
<1> QED
  BY <1>1, <1>2

\* submit_task lets one task of a course, type and key be at work at a time, whatever
\* fails or crashes, among the tasks submitted at once; unless two requests race, as
\* the docstring of _reserve_task admits, or a run has saved PROGRESS over the state
\* that its task had ended in (api_helper.py, runner.py).
THEOREM OneTaskAtATime == Spec => []OneAtATime
<1>1. Init => LifeInv
  <2>1. Init => KnownAreOver /\ OneAtATime
    BY FixedRows DEF Init, KnownAreOver, AtOnce, OneAtATime, TaskIsRunning
  <2> QED
    BY <2>1, TaskAtFirst DEF LifeInv
<1>2. LifeInv => OneAtATime
  BY DEF LifeInv
<1> QED
  BY <1>1, <1>2, LifeKept, PTL DEF Spec

-----------------------------------------------------------------------------
(* The types of the rest of the state                                      *)

Stages == {"start", "create", "publish", "store", "save", "done", "refused", "failed"}

\* The command has each task in one place, and takes no task that has been
\* published as often as may be.
CronOK(t) ==
    /\ Cronned(t) => published[t] < MaxPublished
    /\ At(cron.doing, t) => t \notin cron.todo

Ranges ==
    /\ schedule \in [Tasks -> {None, "future", "due"}]
    /\ \A t \in Tasks : request[t].pc \in Stages
    /\ \A t \in Tasks : published[t] <= MaxPublished + 1
    /\ discarded \cup revoked \cup cancelled \cup atWork \subseteq Tasks
    /\ tainted \subseteq Accidents \X Tasks
    /\ \A t \in Tasks : CronOK(t)

LEMMA RangesAreTypes ==
    ASSUME Kept, Tallies, Ranges
    PROVE  TypeOK
<1>1. published \in [Tasks -> 0 .. MaxPublished + 1]
  <2>1. MaxPublished \in Nat /\ published \in [Tasks -> Nat]
    BY TaskLifecycleAssumption DEF Tallies
  <2>2. \A t \in Tasks : published[t] \in 0 .. MaxPublished + 1
    BY <2>1 DEF Ranges
  <2>. QED  BY <2>1, <2>2
<1>. QED  BY <1>1 DEF TypeOK, Kept, Shaped, Tallies, Ranges, Stages, Reads

LEMMA EditorTask ==
    ASSUME Kept, NEW d \in Editors, editor[d].pc # "idle"
    PROVE  editor[d].task \in Tasks
BY IdleParts DEF Kept, Shaped

LEMMA ScheduleRange ==
    ASSUME Kept, Ranges, Next
    PROVE  schedule' \in [Tasks -> {None, "future", "due"}] /\ cancelled' \subseteq Tasks
<1>1. CASE UNCHANGED <<schedule, editor, cancelled>>
  BY <1>1 DEF Ranges
<1>2. CASE \E t \in Tasks : StoreSchedule(t) \/ Elapse(t)
  BY <1>2 DEF StoreSchedule, Elapse, Ranges
<1>3. CASE \E d \in Editors :
              (\E t \in Later : Look(d, t)) \/ Cancel(d) \/ Delete(d) \/ Postpone(d)
  <2>. PICK d \in Editors :
              (\E t \in Later : Look(d, t)) \/ Cancel(d) \/ Delete(d) \/ Postpone(d)
    BY <1>3
  <2>1. CASE (\E t \in Later : Look(d, t)) \/ Cancel(d)
    BY <2>1 DEF Look, Cancel, Ranges
  <2>2. CASE Delete(d) \/ Postpone(d)
    <3>1. editor[d].pc \in {"delete", "postpone"} /\ editor[d].task \in Tasks
      BY <2>2, EditorTask DEF Delete, Postpone
    <3>. QED  BY <2>2, <3>1 DEF Delete, Postpone, Ranges
  <2>. QED  BY <2>1, <2>2
<1>. QED  BY <1>1, <1>2, <1>3, EditSteps

LEMMA RequestRange ==
    ASSUME Kept, Ranges, Next, NEW t \in Tasks
    PROVE  request'[t].pc \in Stages
<1>. USE DEF Kept, Shaped, Ranges, Stages
<1>1. CASE Aside
  <2>1. CASE \E u \in Tasks : StoreSchedule(u)
    BY <2>1 DEF StoreSchedule
  <2>2. CASE ~\E u \in Tasks : StoreSchedule(u)
    BY <1>1, <2>2 DEF Aside, Elapse, CronTake, Revoke, PollRead, CronScan, Look, Delete, Postpone
  <2>. QED  BY <2>1, <2>2
<1>2. CASE Saves \/ FailsOld
  BY <1>2 DEF Saves, FailsOld, CronSubmit, CronFails, PollSave, Cancel, FailOld
<1>3. CASE \E u \in Tasks : ForTask(u)
  BY <1>3 DEF ForTask, CheckRunning, Create, Submit, SubmitFails, Reserve, SaveScheduled,
     ScheduleFails, SubtasksFinish, Discard
<1>4. CASE \E w \in Workers : ByWorker(w)
  BY <1>4 DEF ByWorker, Run, Receive, Mark, Work, WorkRaises, Handle, Finish, Crash
<1>. QED  BY <1>1, <1>2, <1>3, <1>4, NextGroups

LEMMA HistoryRange ==
    ASSUME Kept, Ranges, Next
    PROVE  discarded' \cup revoked' \cup atWork' \subseteq Tasks /\ tainted' \subseteq Accidents \X Tasks
<1>. USE DEF Kept, Shaped, Ranges, Accidents, Taint
<1>0. \A x : \A t \in Tasks : /\ Late(t, x) \subseteq Accidents \X Tasks
                             /\ Erased(t, x) \subseteq Accidents \X Tasks
                             /\ Revived(t) \subseteq Accidents \X Tasks
  BY DEF Late, Erased, Revived
<1>1. CASE Aside
  <2>0. atWork' = atWork
    BY <1>1 DEF Aside, StoreSchedule, Elapse, CronTake, PollRead, Look, Delete, Postpone, Revoke,
                CronScan
  <2>1. CASE \E d \in Editors : Postpone(d)
    <3>. PICK d \in Editors : Postpone(d)
      BY <2>1
    <3>1. editor[d].task \in Tasks
      BY EditorTask DEF Postpone
    <3>. QED  BY <1>0, <2>0, <3>1 DEF Postpone, operators
  <2>2. CASE CronScan
    BY <2>0, <2>2 DEF CronScan, Due, operators
  <2>3. CASE \E t \in Tasks : Revoke(t)
    BY <2>0, <2>3 DEF Revoke
  <2>4. CASE ~\E d \in Editors : Postpone(d)
    <3>1. CASE \/ \E t \in Tasks : StoreSchedule(t) \/ Elapse(t) \/ CronTake(t) \/ PollRead(t)
               \/ \E d \in Editors : (\E t \in Later : Look(d, t)) \/ Delete(d)
      BY <2>0, <3>1 DEF StoreSchedule, Elapse, CronTake, PollRead, Look, Delete, operators
    <3>. QED  BY <1>1, <2>2, <2>3, <2>4, <3>1 DEF Aside
  <2>. QED  BY <2>1, <2>4
<1>2. CASE Saves
  <2>1. UNCHANGED <<atWork, revoked, discarded>>
    BY <1>2 DEF Saves, CronSubmit, CronFails, PollSave, Cancel, operators
  <2>2. tainted' \subseteq Accidents \X Tasks
    <3>1. CASE CronSubmit
      BY <3>1 DEF CronSubmit
    <3>2. CASE CronFails
      <4>1. cron.doing.task \in Tasks
        BY <3>2, ReadsParts DEF CronFails
      <4>. QED  BY <1>0, <3>2, <4>1 DEF CronFails
    <3>3. CASE PollSave
      <4>1. poll.task \in Tasks
        BY <3>3, ReadsParts DEF PollSave
      <4>. QED  BY <1>0, <3>3, <4>1 DEF PollSave
    <3>4. CASE \E d \in Editors : Cancel(d)
      <4>. PICK d \in Editors : Cancel(d)
        BY <3>4
      <4>1. editor[d].task \in Tasks
        BY EditorTask DEF Cancel
      <4>. QED  BY <1>0, <4>1 DEF Cancel
    <3>. QED  BY <1>2, <3>1, <3>2, <3>3, <3>4 DEF Saves
  <2>. QED  BY <2>1, <2>2
<1>3. CASE FailsOld
  BY <1>3 DEF FailsOld, FailOld, operators
<1>4. CASE \E u \in Tasks : ForTask(u)
  BY <1>4 DEF ForTask, CheckRunning, Create, Submit, SubmitFails, Reserve, SaveScheduled,
     ScheduleFails, SubtasksFinish, Discard, operators
<1>5. CASE \E w \in Workers : ByWorker(w)
  <2>. PICK w \in Workers : ByWorker(w)
    BY <1>5
  <2>1. revoked' = revoked /\ discarded' \subseteq discarded
    BY DEF ByWorker, Run, Receive, Mark, Work, WorkRaises, Handle, Finish, Crash, operators
  <2>2. CASE Mark(w) \/ Work(w) \/ Finish(w)
    <3>1. PICK t \in Tasks : t = worker[w].task
      BY <2>2, WorkerParts DEF Mark, Work, Finish
    <3>. QED  BY <1>0, <2>1, <2>2, <3>1 DEF Mark, Work, Delegate, Finish
  <2>3. CASE ~Mark(w) /\ ~Work(w) /\ ~Finish(w)
    BY <2>1, <2>3 DEF ByWorker, Run, Receive, WorkRaises, Handle, Crash
  <2>. QED  BY <2>2, <2>3
<1>. QED  BY <1>1, <1>2, <1>3, <1>4, <1>5, NextGroups

LEMMA CronRange ==
    ASSUME TaskInv, Ranges, Next, NEW t \in Tasks
    PROVE  CronOK(t)' /\ published'[t] <= MaxPublished + 1
<1>0. /\ Kept /\ Tallies /\ CronOK(t) /\ EditOK(t)
      /\ published[t] \in Nat /\ published[t] <= MaxPublished + 1 /\ MaxPublished \in Nat
  BY TaskLifecycleAssumption DEF TaskInv, Tallies, Ranges, TaskLifecycleAssumption
<1>1. /\ Sends(t) => published'[t] = published[t] + 1
      /\ ~Sends(t) => published'[t] = published[t]
  BY <1>0, PublishSteps
<1>2. CASE Submit(t)
  <2>1. request[t].pc # "done" /\ cron' = cron
    BY <1>2 DEF Submit, edits
  <2>2. published[t] = 0 /\ ~Cronned(t) /\ ~Cronned(t)'
    BY <1>0, <2>1 DEF EditOK, Unsent, Cronned, At
  <2>. QED  BY <1>0, <1>1, <2>2 DEF Sends, CronOK, Cronned
<1>3. CASE CronSubmit /\ At(cron.doing, t)
  <2>1. t \notin cron.todo /\ published[t] < MaxPublished
    BY <1>0, <1>3 DEF CronOK, Cronned
  <2>2. cron'.todo = cron.todo /\ cron'.doing = Idle
    BY <1>0, <1>3 DEF CronSubmit, Kept, Shaped
  <2>3. ~Cronned(t)'
    BY <2>1, <2>2 DEF Cronned, At, Idle
  <2>. QED  BY <1>0, <1>1, <1>3, <2>1, <2>3 DEF Sends, CronOK, Cronned
<1>4. CASE ~Sends(t)
  <2>1. published'[t] = published[t]
    BY <1>1, <1>4
  <2>2. CronScan /\ t \in Due => published[t] < MaxPublished
    BY DEF CronScan
  <2>3. Cronned(t)' => published[t] < MaxPublished
    BY <1>0, <2>2, CronSteps DEF CronOK
  <2>4. At(cron.doing, t)' => ~(t \in cron'.todo)
    <3>1. CASE cron' = cron
      BY <1>0, <3>1 DEF CronOK
    <3>2. CASE CronScan
      BY <3>2 DEF CronScan, At, Idle
    <3>3. CASE \E u \in Tasks : CronTake(u)
      BY <3>3 DEF CronTake, Doing, At
    <3>4. CASE CronSubmit \/ CronFails
      BY <1>0, <3>4 DEF CronSubmit, CronFails, At, Idle, Kept, Shaped
    <3>. QED  BY <3>1, <3>2, <3>3, <3>4, CronActs
  <2>. QED  BY <1>0, <2>1, <2>3, <2>4 DEF CronOK
<1>. QED  BY <1>2, <1>3, <1>4 DEF Sends

LEMMA RangesAtFirst == Init => Ranges
<1>. SUFFICES ASSUME Init PROVE Ranges
  OBVIOUS
<1>1. \A t \in Tasks : ~Cronned(t) /\ ~At(cron.doing, t) /\ published[t] = 0
  BY DEF Init, Cronned, At, Idle
<1>2. \A t \in Tasks : CronOK(t) /\ published[t] <= MaxPublished + 1
  BY <1>1, TaskLifecycleAssumption DEF CronOK, TaskLifecycleAssumption
<1>. QED  BY <1>2 DEF Init, Ranges, Stages

LEMMA RangesKept == TaskInv /\ Ranges /\ [Next]_vars => Ranges'
<1>. SUFFICES ASSUME TaskInv, Ranges, [Next]_vars PROVE Ranges'
  OBVIOUS
<1>1. CASE UNCHANGED vars
  BY <1>1 DEF vars, Ranges, CronOK, Cronned, At
<1>2. CASE Next
  BY <1>2, ScheduleRange, RequestRange, HistoryRange, CronRange DEF Ranges, TaskInv
<1>. QED  BY <1>1, <1>2

\* The variables have their types; a task is published as often as the bound of the
\* command allows.
THEOREM TypesOfLifecycle == Spec => []TypeOK
<1>1. TaskInv /\ Ranges => TypeOK
  BY RangesAreTypes DEF TaskInv
<1>2. Init => TaskInv /\ Ranges
  BY TaskAtFirst, RangesAtFirst
<1>3. (TaskInv /\ Ranges) /\ [Next]_vars => (TaskInv /\ Ranges)'
  BY TaskKept, RangesKept
<1>. QED  BY <1>1, <1>2, <1>3, PTL DEF Spec
=============================================================================
