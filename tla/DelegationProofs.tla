-------------------------- MODULE DelegationProofs --------------------------
(***************************************************************************)
(* Proofs about Delegation, for any number of deliveries of the parent, of *)
(* recipients, and of faults: that the loop of queue_subtasks_for_query    *)
(* never runs out of ids, what the row says of the subtasks as long as no  *)
(* save writes over a row it has not read, and how large the batches are.  *)
(***************************************************************************)
EXTENDS Delegation, FiniteSetTheorems, TLAPS

\* What an execution has to keep count of, as far as it has come.
Counts(r) ==
    /\ r.pc \in {"waiting", "mark", "load", "count", "define", "query"} =>
          r.num = 0
    /\ r.pc = "define" => r.counted \in Nat \ {0}
    /\ r.pc \in {"query", "publish"} => r.total \in Nat \ {0}
    /\ r.pc = "publish" => r.num \in Nat /\ (r.rest # {} => r.num < r.total)

\* r has the fields of an execution; what it has seen does not matter here.
Runs(seen) ==
    [pc : PCs, seen : seen, counted : Nat, queried : SUBSET Recipients,
     total : Nat, num : Nat, rest : SUBSET Recipients]
IsRun(r) == r \in Runs({r.seen})

\* The inductive invariant: IdsSuffice speaks of the loop alone, and needs to
\* know that there is an id at all when the loop is entered.
CountInv ==
    /\ listed \subseteq Recipients
    /\ run = [e \in Executions |-> run[e]]
    /\ \A e \in Executions : IsRun(run[e]) /\ Counts(run[e])

\* There is at least one subtask for at least one recipient: the quotient is
\* rounded up.
LEMMA OneSubtaskAtLeast ==
    ASSUME NEW n \in Nat \ {0}
    PROVE  NumberOfSubtasks(n) \in Nat \ {0}
<1>1. PerTask \in Nat \ {0}
  BY DelegationAssumption DEF DelegationAssumption
<1>2. /\ n \div PerTask \in Nat
      /\ n % PerTask \in Nat
      /\ n = PerTask * (n \div PerTask) + (n % PerTask)
  BY <1>1
<1>3. CASE n % PerTask > 0
  BY <1>2, <1>3 DEF NumberOfSubtasks
<1>4. CASE n % PerTask = 0
  <2>1. n \div PerTask # 0
    BY <1>1, <1>2, <1>4
  <2>. QED  BY <1>2, <1>4, <2>1 DEF NumberOfSubtasks
<1>. QED  BY <1>2, <1>3, <1>4

\* An execution that becomes another record with the right counts.
LEMMA StepCounts ==
    ASSUME CountInv, NEW e \in Executions, NEW r, IsRun(r), Counts(r),
           Step(e, r), UNCHANGED listed
    PROVE  CountInv'
<1>1. run' = [d \in Executions |-> IF d = e THEN r ELSE run[d]]
  BY DEF CountInv, Step
<1>2. \A d \in Executions : run'[d] = IF d = e THEN r ELSE run[d]
  BY <1>1
<1>3. run' = [d \in Executions |-> run'[d]]
  BY <1>1
<1>4. \A d \in Executions : IsRun(run'[d]) /\ Counts(run'[d])
  BY <1>2 DEF CountInv
<1>. QED  BY <1>3, <1>4 DEF CountInv

\* An execution that goes somewhere its counts do not matter.
LEMMA GotoCounts ==
    ASSUME CountInv, NEW e \in Executions, NEW pc \in PCs,
           pc \notin {"waiting", "mark", "count", "define", "query", "publish"},
           pc = "load" => run[e].pc = "mark",
           Goto(e, pc), UNCHANGED listed
    PROVE  CountInv'
<1>. DEFINE r == [run[e] EXCEPT !.pc = pc]
<1>1. IsRun(run[e]) /\ Counts(run[e])
  BY DEF CountInv
<1>2. IsRun(r) /\ r.pc = pc /\ r.num = run[e].num
  BY <1>1 DEF IsRun, Runs
<1>. HIDE DEF r
<1>3. Counts(r)
  BY <1>1, <1>2 DEF Counts
<1>4. Step(e, r)
  BY DEF Goto, r
<1>. QED  BY <1>2, <1>3, <1>4, StepCounts

LEMMA CountInit == Init => CountInv
<1>. SUFFICES ASSUME Init PROVE CountInv
  OBVIOUS
<1>1. \A e \in Executions : run[e] = Waiting
  BY DEF Init
<1>2. run = [e \in Executions |-> run[e]]
  BY DEF Init
<1>3. listed \subseteq Recipients
  BY DelegationAssumption DEF Init, DelegationAssumption
<1>4. IsRun(Waiting) /\ Counts(Waiting)
  BY DEF Waiting, IsRun, Runs, Counts, PCs
<1>. QED  BY <1>1, <1>2, <1>3, <1>4 DEF CountInv

\* The steps of the parent task.
LEMMA ExecuteCounts ==
    ASSUME CountInv, NEW e \in Executions, Begin(e) \/ Execute(e)
    PROVE  CountInv'
<1>1. IsRun(run[e]) /\ Counts(run[e]) /\ listed \subseteq Recipients
  BY DEF CountInv
<1>. USE DEF PCs, Busy, Ended
<1>2. CASE Begin(e)
  <2>. DEFINE r == [run[e] EXCEPT !.pc = "mark", !.seen = row]
  <2>1. IsRun(r) /\ r.pc = "mark" /\ r.num = run[e].num
    BY <1>1 DEF IsRun, Runs
  <2>. HIDE DEF r
  <2>2. Counts(r)
    BY <1>1, <1>2, <2>1 DEF Counts, Begin
  <2>3. Step(e, r) /\ UNCHANGED listed
    BY <1>2 DEF Begin, r
  <2>. QED  BY <2>1, <2>2, <2>3, StepCounts
<1>3. CASE Mark(e)
  BY <1>3, GotoCounts DEF Mark
<1>4. CASE Load(e)
  <2>. DEFINE pc == IF HasSubtasks(row) THEN "on_success" ELSE "count"
              r == [run[e] EXCEPT !.pc = pc, !.seen = row]
  <2>1. pc \in {"on_success", "count"}
    OBVIOUS
  <2>2. Step(e, r) /\ UNCHANGED listed
    BY <1>4 DEF Load
  <2>. HIDE DEF pc
  <2>3. IsRun(r) /\ r.pc = pc /\ r.num = run[e].num
    BY <1>1, <2>1 DEF IsRun, Runs
  <2>. HIDE DEF r
  <2>4. Counts(r)
    BY <1>1, <1>4, <2>1, <2>3 DEF Counts, Load
  <2>. QED  BY <2>2, <2>3, <2>4, StepCounts
<1>5. CASE Count(e)
  <2>1. CASE listed = {}
    BY <1>5, <2>1, GotoCounts DEF Count
  <2>2. CASE listed # {}
    <3>. DEFINE n == Cardinality(listed)
                r == [run[e] EXCEPT !.pc = "define", !.counted = n]
    <3>1. IsFiniteSet(listed)
      BY <1>1, DelegationAssumption, FS_Subset DEF DelegationAssumption
    <3>2. n \in Nat \ {0}
      BY <2>2, <3>1, FS_CardinalityType, FS_EmptySet
    <3>3. Step(e, r) /\ UNCHANGED listed
      BY <1>5, <2>2 DEF Count
    <3>. HIDE DEF n
    <3>4. IsRun(r) /\ r.pc = "define" /\ r.num = run[e].num /\ r.counted = n
      BY <1>1, <3>2 DEF IsRun, Runs
    <3>. HIDE DEF r
    <3>5. Counts(r)
      BY <1>1, <1>5, <3>2, <3>4 DEF Counts, Count
    <3>. QED  BY <3>3, <3>4, <3>5, StepCounts
  <2>. QED  BY <2>1, <2>2
<1>6. CASE Raises(e)
  BY <1>6, GotoCounts DEF Raises
<1>7. CASE Initialize(e)
  <2>. DEFINE total == NumberOfSubtasks(run[e].counted)
              r == [run[e] EXCEPT !.pc = "query", !.total = total]
  <2>1. total \in Nat \ {0} /\ run[e].num = 0
    BY <1>1, <1>7, OneSubtaskAtLeast DEF Counts, Initialize
  <2>2. Step(e, r) /\ UNCHANGED listed
    BY <1>7 DEF Initialize
  <2>. HIDE DEF total
  <2>3. IsRun(r) /\ r.pc = "query" /\ r.num = run[e].num /\ r.total = total
    BY <1>1, <2>1 DEF IsRun, Runs
  <2>. HIDE DEF r
  <2>4. Counts(r)
    BY <2>1, <2>3 DEF Counts
  <2>. QED  BY <2>2, <2>3, <2>4, StepCounts
<1>8. CASE Query(e)
  <2>. DEFINE r == [run[e] EXCEPT !.pc = "publish", !.rest = listed,
                                  !.queried = listed]
  <2>1. Step(e, r) /\ UNCHANGED listed
    BY <1>8 DEF Query
  <2>2. /\ IsRun(r) /\ r.pc = "publish" /\ r.num = run[e].num
        /\ r.total = run[e].total
    BY <1>1 DEF IsRun, Runs
  <2>. HIDE DEF r
  <2>3. run[e].num = 0 /\ run[e].total \in Nat \ {0}
    BY <1>1, <1>8 DEF Counts, Query
  <2>4. Counts(r)
    BY <2>2, <2>3 DEF Counts
  <2>. QED  BY <2>1, <2>2, <2>4, StepCounts
<1>9. CASE Publish(e)
  <2>1. PICK to \in NextBatches(run[e]) :
           Step(e, [run[e] EXCEPT !.rest = @ \ to, !.num = @ + 1])
    BY <1>9 DEF Publish
  <2>2. /\ run[e].pc = "publish"
        /\ run[e].num \in Nat
        /\ run[e].total \in Nat
        /\ run[e].num < run[e].total
        /\ run[e].rest \in SUBSET Recipients
    BY <1>1, <1>9 DEF Counts, Publish, IsRun, Runs
  \* The last id is kept for all the items that are left.
  <2>3. run[e].rest \ to = {} \/ run[e].num < run[e].total - 1
    BY <2>1 DEF NextBatches
  <2>. DEFINE rest == run[e].rest \ to
              num == run[e].num + 1
              r == [run[e] EXCEPT !.rest = rest, !.num = num]
  <2>4. Step(e, r) /\ UNCHANGED listed
    BY <1>9, <2>1 DEF Publish
  <2>5. rest \in SUBSET Recipients /\ num \in Nat
    BY <2>2
  <2>6. rest # {} => num < run[e].total
    BY <2>2, <2>3
  <2>. HIDE DEF rest, num
  <2>7. /\ IsRun(r) /\ r.pc = "publish" /\ r.num = num
        /\ r.total = run[e].total /\ r.rest = rest
    BY <1>1, <2>2, <2>5 DEF IsRun, Runs
  <2>. HIDE DEF r
  <2>8. Counts(r)
    BY <2>2, <2>5, <2>6, <2>7 DEF Counts
  <2>. QED  BY <2>4, <2>7, <2>8, StepCounts
<1>10. CASE PublishFails(e)
  BY <1>10, GotoCounts DEF PublishFails
<1>11. CASE Return(e)
  BY <1>11, GotoCounts DEF Return
<1>12. CASE Handle(e)
  <2>. DEFINE pc == IF run[e].pc = "on_failure" THEN "save_failure"
                    ELSE IF HasSubtasks(row) THEN "done"
                    ELSE "save_success"
              r == [run[e] EXCEPT !.pc = pc, !.seen = row]
  <2>1. pc \in {"save_failure", "done", "save_success"}
    OBVIOUS
  <2>2. Step(e, r) /\ UNCHANGED listed
    BY <1>12 DEF Handle
  <2>. HIDE DEF pc
  <2>3. IsRun(r) /\ r.pc = pc
    BY <1>1, <2>1 DEF IsRun, Runs
  <2>. HIDE DEF r
  <2>4. Counts(r)
    BY <2>1, <2>3 DEF Counts
  <2>. QED  BY <2>2, <2>3, <2>4, StepCounts
<1>13. CASE SaveSuccess(e)
  BY <1>13, GotoCounts DEF SaveSuccess
<1>14. CASE SaveFailure(e)
  BY <1>14, GotoCounts DEF SaveFailure
<1>. QED
  BY <1>2, <1>3, <1>4, <1>5, <1>6, <1>7, <1>8, <1>9, <1>10, <1>11, <1>12,
     <1>13, <1>14 DEF Execute

LEMMA NextCounts == CountInv /\ [Next]_vars => CountInv'
<1>. SUFFICES ASSUME CountInv, [Next]_vars PROVE CountInv'
  OBVIOUS
<1>1. ASSUME NEW e \in Executions, Begin(e) \/ Execute(e) PROVE CountInv'
  BY <1>1, ExecuteCounts
<1>2. ASSUME NEW id \in DOMAIN batches, Start(id) \/ Finish(id) PROVE CountInv'
  BY <1>2 DEF Start, Finish, CountInv
<1>3. ASSUME NEW e \in Executions, Crash(e) PROVE CountInv'
  BY <1>3, GotoCounts DEF Crash, PCs, Ended
<1>4. ASSUME NEW l \in Recipients, Enroll(l) \/ Leave(l) PROVE CountInv'
  BY <1>4 DEF Enroll, Leave, CountInv
<1>5. CASE UNCHANGED vars
  BY <1>5 DEF vars, CountInv
<1>. QED  BY <1>1, <1>2, <1>3, <1>4, <1>5 DEF Next, Environment

\* The publishing loop of queue_subtasks_for_query never indexes its list of
\* ids past the end, for every number of recipients and batch size, and
\* whoever enrolls or leaves between the two queries.
THEOREM IdsAlwaysSuffice == Spec => []IdsSuffice
<1>1. CountInv => IdsSuffice
  BY DEF CountInv, Counts, IdsSuffice
<1>. QED  BY CountInit, NextCounts, <1>1, PTL DEF Spec

-----------------------------------------------------------------------------
(* The row                                                                 *)

\* What RowOK says of a row, column by column.
LEMMA RowColumns ==
    ASSUME NEW r, RowOK(r)
    PROVE  /\ DOMAIN r.status \subseteq Executions \X Nat
           /\ r.status \in [DOMAIN r.status -> Statuses]
           /\ r.task_state \in States
           /\ r.total \in Nat
           /\ r.succeeded \in Nat
           /\ r.failed \in Nat
           /\ r.items \in Nat
           /\ r.progress \in [StatNames -> Nat] \cup {NoCounters}
BY DEF RowOK

\* The ids of an execution are as many as there are batches.
LEMMA IdsType ==
    ASSUME NEW e \in Executions, NEW n \in Nat
    PROVE  /\ IsFiniteSet(Ids(e, n))
           /\ Ids(e, n) \subseteq Executions \X Nat
           /\ \A x : x \in Ids(e, n) <=> x \in {e} \X (1 .. n)
<1>1. PICK f : f = [i \in 1 .. n |-> Id(e, i)]
  OBVIOUS
<1>2. f \in Surjection(1 .. n, Ids(e, n))
  BY <1>1 DEF Surjection, Ids
<1>3. IsFiniteSet(Ids(e, n))
  BY <1>2, FS_Interval, FS_Surjection
<1>. QED  BY <1>3 DEF Ids, Id

\* A row without subtasks knows no id.
LEMMA NoSubtasks ==
    ASSUME NEW r
    PROVE  /\ ~HasSubtasks(r) => DOMAIN r.status = {}
           /\ DOMAIN r.status # {} => HasSubtasks(r)
<1>1. DOMAIN <<>> = {}
  OBVIOUS
<1>. QED  BY <1>1 DEF HasSubtasks

\* A save changes the state of the task, and perhaps its output.
Resaved(r, state, s) ==
    \/ s = [r EXCEPT !.task_state = state]
    \/ s = [r EXCEPT !.task_state = state, !.progress = NoCounters]

\* What such a save leaves alone.
LEMMA SavedRow ==
    ASSUME NEW r, RowOK(r), NEW state \in States, NEW s, Resaved(r, state, s)
    PROVE  /\ RowOK(s)
           /\ s.task_state = state
           /\ s.status = r.status
           /\ s.total = r.total
           /\ s.succeeded = r.succeeded
           /\ s.failed = r.failed
BY DEF RowOK, Resaved

\* The row of an email whose batches have been defined.
LEMMA InitializedRow ==
    ASSUME NEW e \in Executions, NEW n \in Nat, NEW items \in Nat, NEW s,
           s = InitializeSubtaskInfo(Ids(e, n), items)
    PROVE  /\ RowOK(s)
           /\ s.task_state = "PROGRESS"
           /\ DOMAIN s.status = Ids(e, n)
           /\ \A id \in Ids(e, n) : s.status[id] = NewStatus
           /\ s.total = Cardinality(Ids(e, n))
           /\ s.succeeded = 0
           /\ s.failed = 0
<1>1. NewStatus \in Statuses
  BY DEF NewStatus, Statuses, States, UNREADY_STATES
<1>2. Ids(e, n) \subseteq Executions \X Nat /\ IsFiniteSet(Ids(e, n))
  BY IdsType
<1>3. Cardinality(Ids(e, n)) \in Nat
  BY <1>2, FS_CardinalityType
<1>. DEFINE ids == Ids(e, n)
            status == [i \in ids |-> NewStatus]
            total == Cardinality(ids)
            progress == [k \in StatNames |-> 0]
<1>4. /\ status \in [ids -> Statuses]
      /\ DOMAIN status = ids
      /\ \A id \in ids : status[id] = NewStatus
  BY <1>1
<1>5. progress \in [StatNames -> Nat]
  OBVIOUS
<1>6. s = [task_state |-> "PROGRESS", status |-> status, total |-> total,
           succeeded |-> 0, failed |-> 0, items |-> items,
           progress |-> progress]
  BY Zenon DEF InitializeSubtaskInfo
<1>. HIDE DEF ids, status, total, progress
<1>7. /\ s.task_state = "PROGRESS"
      /\ s.status = status
      /\ s.total = total
      /\ s.succeeded = 0
      /\ s.failed = 0
  BY <1>6
<1>8. "PROGRESS" \in States
  BY DEF States, UNREADY_STATES
<1>9. RowOK(s)
  BY <1>2, <1>3, <1>4, <1>5, <1>6, <1>8 DEF RowOK, ids, total
<1>. QED  BY <1>4, <1>7, <1>9 DEF ids, total

\* The row of an email about which nothing is known.
LEMMA BlankRow ==
    /\ RowOK(BlankEntry("QUEUING"))
    /\ BlankEntry("QUEUING").status = <<>>
    /\ DOMAIN BlankEntry("QUEUING").status = {}
    /\ BlankEntry("QUEUING").task_state = "QUEUING"
    /\ BlankEntry("QUEUING").total = 0
    /\ BlankEntry("QUEUING").succeeded = 0
    /\ BlankEntry("QUEUING").failed = 0
<1>1. DOMAIN <<>> = {} /\ <<>> \in [{} -> Statuses]
  OBVIOUS
<1>2. "QUEUING" \in States
  BY DEF States, UNREADY_STATES
<1>3. [n \in StatNames |-> 0] \in [StatNames -> Nat]
  OBVIOUS
<1>4. PICK r : r = BlankEntry("QUEUING")
  OBVIOUS
<1>5. PICK progress : progress = [n \in StatNames |-> 0]
  OBVIOUS
<1>6. PICK status : status = <<>>
  OBVIOUS
<1>7. r = [task_state |-> "QUEUING", status |-> status, total |-> 0,
           succeeded |-> 0, failed |-> 0, items |-> 0, progress |-> progress]
  BY <1>4, <1>5, <1>6, Zenon DEF BlankEntry
<1>8. RowOK(r)
  BY <1>1, <1>2, <1>3, <1>5, <1>6, <1>7 DEF RowOK
<1>. QED  BY <1>1, <1>4, <1>6, <1>7, <1>8

\* A subtask that ends is counted once, and the last one ends the task.
LEMMA ReportedRow ==
    ASSUME NEW r, RowOK(r), r.progress # NoCounters,
           NEW id \in DOMAIN r.status, NEW st \in Statuses,
           st.state \in READY_STATES,
           NEW s, s = UpdateSubtaskStatus(r, id, st)
    PROVE  /\ RowOK(s)
           /\ s.status = [r.status EXCEPT ![id] = st]
           /\ DOMAIN s.status = DOMAIN r.status
           /\ s.total = r.total
           /\ s.succeeded + s.failed = r.succeeded + r.failed + 1
           /\ s.task_state = IF r.succeeded + r.failed + 1 >= r.total
                             THEN "SUCCESS" ELSE r.task_state
<1>. DEFINE ready == st.state \in READY_STATES
            succeeded == r.succeeded + (IF st.state = "SUCCESS" THEN 1 ELSE 0)
            failed == r.failed
                        + (IF ready /\ st.state # "SUCCESS" THEN 1 ELSE 0)
            progress == [n \in StatNames |-> r.progress[n] + st[n]]
            state == IF succeeded + failed >= r.total
                     THEN "SUCCESS" ELSE r.task_state
            status == [r.status EXCEPT ![id] = st]
<1>1. /\ succeeded \in Nat
      /\ failed \in Nat
      /\ succeeded + failed = r.succeeded + r.failed + 1
  BY RowColumns
<1>2. progress \in [StatNames -> Nat]
  <2>1. \A n \in StatNames : r.progress[n] \in Nat /\ st[n] \in Nat
    BY RowColumns DEF Statuses, StatNames
  <2>. QED  BY <2>1
<1>3. state \in States
  BY RowColumns DEF States, READY_STATES
<1>4. status \in [DOMAIN r.status -> Statuses] /\ DOMAIN status = DOMAIN r.status
  BY RowColumns
<1>5. s = [r EXCEPT !.status = status, !.progress = progress,
                    !.succeeded = succeeded, !.failed = failed,
                    !.task_state = state]
  <2>1. \A x : x = r.status => [x EXCEPT ![id] = st] = status
    OBVIOUS
  <2>. QED  BY DEF UpdateSubtaskStatus, RowOK
<1>. HIDE DEF succeeded, failed, progress, status, state
<1>6. /\ s.status = status
      /\ s.total = r.total
      /\ s.succeeded = succeeded
      /\ s.failed = failed
      /\ s.task_state = state
      /\ s \in [task_state : States, status : [DOMAIN r.status -> Statuses],
                total : Nat, succeeded : Nat, failed : Nat, items : Nat,
                progress : [StatNames -> Nat] \cup {NoCounters}]
  BY <1>1, <1>2, <1>3, <1>4, <1>5 DEF RowOK
<1>7. RowOK(s)
  BY <1>4, <1>6 DEF RowOK
<1>8. state = IF r.succeeded + r.failed + 1 >= r.total
              THEN "SUCCESS" ELSE r.task_state
  BY <1>1 DEF state
<1>. QED  BY <1>1, <1>4, <1>6, <1>7, <1>8 DEF status

\* The report of a subtask is a status, and says that it has ended.
LEMMA ReportType ==
    ASSUME NEW to \in SUBSET Recipients, NEW good \in SUBSET to,
           NEW state \in {"SUCCESS", "FAILURE"}
    PROVE  /\ Report(to, good, state) \in Statuses
           /\ Report(to, good, state).state \in READY_STATES
<1>1. Cardinality(good) \in Nat /\ Cardinality(to \ good) \in Nat
  <2>1. IsFiniteSet(good) /\ IsFiniteSet(to \ good)
    <3>1. IsFiniteSet(to)
      BY DelegationAssumption, FS_Subset DEF DelegationAssumption
    <3>. QED  BY <3>1, FS_Subset
  <2>. QED  BY <2>1, FS_CardinalityType
<1>2. NewStatus \in Statuses
  BY DEF NewStatus, Statuses, States, UNREADY_STATES
<1>3. \A st \in Statuses, n \in Nat :
         AddSucceeded(st, n) \in Statuses /\ AddFailed(st, n) \in Statuses
  <2>. TAKE st \in Statuses, n \in Nat
  <2>1. st.succeeded + n \in Nat /\ st.failed + n \in Nat /\ st.attempted + n \in Nat
    BY DEF Statuses
  <2>2. \A x, y \in Nat :
           /\ [st EXCEPT !.succeeded = x, !.attempted = y] \in Statuses
           /\ [st EXCEPT !.failed = x, !.attempted = y] \in Statuses
    BY DEF Statuses
  <2>. QED  BY <2>1, <2>2 DEF AddSucceeded, AddFailed
<1>4. \A st \in Statuses :
         InState(st, state) \in Statuses /\ InState(st, state).state = state
  BY DEF InState, Statuses, States, READY_STATES
<1>. QED  BY <1>1, <1>2, <1>3, <1>4 DEF Report, READY_STATES

-----------------------------------------------------------------------------
(* What the row, the batches and the mails have to do with each other, as  *)
(* long as no save writes over a row it has not read                       *)

Early == {"waiting", "mark", "load", "count", "define"}

\* What an execution has stored, published and seen, as far as it has come: one
\* that goes on to count has seen a row without subtasks.
ParentOK(r) ==
    /\ r.pc \in Early => r.total = 0
    /\ r.num <= r.total
    /\ r.pc \in {"count", "define"} => ~HasSubtasks(r.seen)

\* The messages of an execution are numbered as they are published.
BatchesOK ==
    /\ \A id \in DOMAIN batches :
          /\ id[1] \in Executions
          /\ id[2] \in 1 .. run[id[1]].num
          /\ id = Id(id[1], id[2])
    /\ \A e \in Executions : \A i \in 1 .. run[e].num :
          Id(e, i) \in DOMAIN batches

\* No recipient is handed out twice by the same execution.
Apart ==
    \A id \in DOMAIN batches :
        /\ batches[id].to \cap run[id[1]].rest = {}
        /\ \A other \in DOMAIN batches \ {id} :
              other[1] = id[1] => batches[id].to \cap batches[other].to = {}

\* The ids a row has seen the end of.
Ends(r) == {id \in DOMAIN r.status : r.status[id].state \in READY_STATES}

\* A row that knows the subtasks of one execution knows no others, and nobody
\* declares a task with subtasks successful but the last of them.
Known ==
    \A e \in Executions :
        /\ run[e].total > 0 => DOMAIN row.status = Ids(e, run[e].total)
        /\ run[e].pc = "on_success" => HasSubtasks(row)
        /\ run[e].pc # "save_success"

\* The row counts right, and has not heard of the end of a subtask before it.
Reported ==
    /\ IsFiniteSet(DOMAIN row.status)
    /\ row.total = Cardinality(DOMAIN row.status)
    /\ row.succeeded + row.failed = Cardinality(Ends(row))
    /\ row.task_state = "SUCCESS" => Ends(row) = DOMAIN row.status
    /\ \A id \in DOMAIN row.status :
          id \notin DOMAIN batches \/ Open(id) => row.status[id] = NewStatus

\* Whoever has been mailed was mailed once, by a batch that is over.
Mails ==
    \A l \in Recipients :
        /\ mailed[l] <= 1
        /\ mailed[l] > 0 =>
              \E id \in DOMAIN batches :
                  batches[id].state = "over" /\ l \in batches[id].to

\* The part of TypeOK that CountInv does not speak of.
RestTypeOK ==
    /\ RowOK(row)
    /\ \A e \in Executions : RowOK(run[e].seen)
    /\ DOMAIN batches \subseteq Executions \X Nat
    /\ batches \in [DOMAIN batches -> Batches]
    /\ faults \in [FaultKinds -> Nat]
    /\ mailed \in [Recipients -> Nat]
    /\ stale \in BOOLEAN

ParentInv ==
    /\ CountInv
    /\ RestTypeOK
    /\ \A e \in Executions : ParentOK(run[e])
    /\ BatchesOK
    /\ Apart
    /\ ~stale => Known /\ Reported /\ Mails

\* A step of one execution leaves the others where they are.
LEMMA StepFrame ==
    ASSUME CountInv, NEW e \in Executions, NEW r, Step(e, r)
    PROVE  /\ run'[e] = r
           /\ \A d \in Executions \ {e} : run'[d] = run[d]
<1>1. run = [d \in Executions |-> run[d]]
  BY DEF CountInv
<1>. QED  BY <1>1 DEF Step

LEMMA GotoFrame ==
    ASSUME CountInv, NEW e \in Executions, NEW pc \in PCs, Goto(e, pc)
    PROVE  /\ run'[e].pc = pc
           /\ run'[e].total = run[e].total
           /\ run'[e].num = run[e].num
           /\ run'[e].rest = run[e].rest
           /\ run'[e].seen = run[e].seen
           /\ run'[e].counted = run[e].counted
           /\ run'[e].queried = run[e].queried
           /\ \A d \in Executions \ {e} : run'[d] = run[d]
<1>. DEFINE r == [run[e] EXCEPT !.pc = pc]
<1>1. IsRun(run[e])
  BY DEF CountInv
<1>2. /\ r.pc = pc
      /\ r.total = run[e].total
      /\ r.num = run[e].num
      /\ r.rest = run[e].rest
      /\ r.seen = run[e].seen
      /\ r.counted = run[e].counted
      /\ r.queried = run[e].queried
  BY <1>1 DEF IsRun, Runs
<1>3. Step(e, r)
  BY DEF Goto
<1>. HIDE DEF r
<1>. QED  BY <1>2, <1>3, StepFrame

LEMMA SpendType ==
    ASSUME RestTypeOK, NEW kind \in FaultKinds, Spend(kind)
    PROVE  faults' \in [FaultKinds -> Nat]
<1>1. faults[kind] - 1 \in Nat
  BY DEF RestTypeOK, Spend
<1>. QED  BY <1>1 DEF RestTypeOK, Spend

\* What the invariant says of one execution.
LEMMA ParentTypes ==
    ASSUME ParentInv, NEW e \in Executions
    PROVE  /\ IsRun(run[e])
           /\ run[e].pc \in PCs
           /\ run[e].total \in Nat
           /\ run[e].num \in Nat
           /\ run[e].counted \in Nat
           /\ run[e].rest \subseteq Recipients
           /\ run[e].queried \subseteq Recipients
           /\ RowOK(run[e].seen)
           /\ Counts(run[e])
           /\ ParentOK(run[e])
<1>1. IsRun(run[e]) /\ Counts(run[e]) /\ RowOK(run[e].seen) /\ ParentOK(run[e])
  BY DEF ParentInv, CountInv, RestTypeOK
<1>. QED  BY <1>1 DEF IsRun, Runs

\* An execution that goes on without storing ids or publishing a message, and
\* saves at most what the row already says of the subtasks.
LEMMA MovesOn ==
    ASSUME ParentInv, CountInv', NEW e \in Executions,
           \A d \in Executions \ {e} : run'[d] = run[d],
           run'[e].total = run[e].total,
           run'[e].num = run[e].num,
           run'[e].rest = run[e].rest \/ run[e].num = 0,
           ParentOK(run'[e]),
           RowOK(run'[e].seen),
           RowOK(row'),
           faults' \in [FaultKinds -> Nat],
           batches' = batches,
           mailed' = mailed,
           stale' \in BOOLEAN,
           ~stale' =>
              /\ ~stale
              /\ row'.status = row.status
              /\ row'.total = row.total
              /\ row'.succeeded = row.succeeded
              /\ row'.failed = row.failed
              /\ row'.task_state = "SUCCESS" => row.task_state = "SUCCESS"
              /\ run'[e].pc = "on_success" => HasSubtasks(row)
              /\ run'[e].pc # "save_success"
    PROVE  ParentInv'
<1>1. \A d \in Executions :
         /\ run'[d].total = run[d].total
         /\ run'[d].num = run[d].num
         /\ run'[d].rest = run[d].rest \/ run[d].num = 0
  OBVIOUS
<1>2. RestTypeOK'
  BY DEF ParentInv, RestTypeOK
<1>3. \A d \in Executions : ParentOK(run'[d])
  BY DEF ParentInv
<1>4. BatchesOK'
  BY <1>1 DEF ParentInv, BatchesOK
<1>5. Apart'
  <2>1. \A id \in DOMAIN batches :
           /\ batches[id].to \cap run[id[1]].rest = {}
           /\ id[1] \in Executions
           /\ run[id[1]].num # 0
    <3>. TAKE id \in DOMAIN batches
    <3>1. id[1] \in Executions /\ id[2] \in 1 .. run[id[1]].num
      BY DEF ParentInv, BatchesOK
    <3>2. run[id[1]].num # 0
      BY <3>1
    <3>. QED  BY <3>1, <3>2 DEF ParentInv, Apart
  <2>2. \A id \in DOMAIN batches : batches[id].to \cap run'[id[1]].rest = {}
    BY <1>1, <2>1
  <2>3. \A id \in DOMAIN batches : \A other \in DOMAIN batches \ {id} :
           other[1] = id[1] => batches[id].to \cap batches[other].to = {}
    BY DEF ParentInv, Apart
  <2>. QED  BY <2>2, <2>3 DEF Apart
<1>6. ASSUME ~stale' PROVE Known' /\ Reported' /\ Mails'
  <2>1. Known /\ Reported /\ Mails
    BY <1>6 DEF ParentInv
  <2>2. HasSubtasks(row') <=> HasSubtasks(row)
    BY <1>6 DEF HasSubtasks
  <2>3. Known'
    BY <1>1, <1>6, <2>1, <2>2 DEF Known
  <2>4. Ends(row') = Ends(row)
    BY <1>6 DEF Ends
  <2>5. Reported'
    BY <1>6, <2>1, <2>4 DEF Reported, Open
  <2>6. Mails'
    BY <2>1 DEF Mails
  <2>. QED  BY <2>3, <2>5, <2>6
<1>. QED  BY <1>2, <1>3, <1>4, <1>5, <1>6 DEF ParentInv

\* A save that writes over nothing unread starts from the row as it is.
LEMMA SavedAsSeen ==
    ASSUME ParentInv, NEW e \in Executions, NEW s, Save(e, s)
    PROVE  /\ row' = s
           /\ stale' \in BOOLEAN
           /\ ~stale' => ~stale /\ row = run[e].seen
BY DEF Save, ParentInv, RestTypeOK

\* Steps that change only where an execution stands.
LEMMA GoesTo ==
    ASSUME ParentInv, CountInv', NEW e \in Executions, NEW pc \in PCs,
           Goto(e, pc), UNCHANGED <<row, batches, mailed, stale>>,
           faults' \in [FaultKinds -> Nat],
           pc \notin Early \cup {"save_success"},
           ~stale /\ pc = "on_success" => HasSubtasks(row)
    PROVE  ParentInv'
<1>1. CountInv /\ RestTypeOK
  BY DEF ParentInv
<1>2. /\ run'[e].pc = pc
      /\ run'[e].total = run[e].total
      /\ run'[e].num = run[e].num
      /\ run'[e].rest = run[e].rest
      /\ run'[e].seen = run[e].seen
      /\ \A d \in Executions \ {e} : run'[d] = run[d]
  BY <1>1, GotoFrame
<1>3. ParentOK(run'[e])
  BY <1>2, ParentTypes DEF ParentOK, Early
<1>4. RowOK(run'[e].seen) /\ RowOK(row')
  BY <1>1, <1>2 DEF RestTypeOK
<1>5. stale' \in BOOLEAN
  BY <1>1 DEF RestTypeOK
<1>. QED  BY <1>2, <1>3, <1>4, <1>5, MovesOn

\* Begin and the actions of an execution that neither store ids nor publish.
LEMMA ReadsOn ==
    ASSUME ParentInv, CountInv', NEW e \in Executions,
           Begin(e) \/ Load(e) \/ Count(e) \/ Query(e) \/ Handle(e)
    PROVE  ParentInv'
<1>0. CountInv /\ RestTypeOK
  BY DEF ParentInv
<1>1. /\ IsRun(run[e])
      /\ RowOK(run[e].seen)
      /\ RowOK(row)
      /\ Counts(run[e])
      /\ ParentOK(run[e])
      /\ stale \in BOOLEAN
      /\ faults \in [FaultKinds -> Nat]
  BY <1>0, ParentTypes DEF RestTypeOK
<1>. USE DEF PCs, Busy, Ended
<1>2. CASE Begin(e)
  <2>. DEFINE r == [run[e] EXCEPT !.pc = "mark", !.seen = row]
  <2>1. /\ r.pc = "mark"
        /\ r.seen = row
        /\ r.total = run[e].total
        /\ r.num = run[e].num
        /\ r.rest = run[e].rest
    BY <1>1 DEF IsRun, Runs
  <2>2. Step(e, r)
    BY <1>2 DEF Begin
  <2>. HIDE DEF r
  <2>3. run'[e] = r /\ \A d \in Executions \ {e} : run'[d] = run[d]
    BY <1>0, <2>2, StepFrame
  <2>4. faults' \in [FaultKinds -> Nat]
    BY <1>0, <1>1, <1>2, SpendType DEF Begin, FaultKinds
  <2>5. UNCHANGED <<row, batches, mailed, stale>> /\ run[e].pc = "waiting"
    BY <1>2 DEF Begin
  <2>6. ParentOK(run'[e])
    BY <1>1, <2>1, <2>3, <2>5 DEF ParentOK, Early
  <2>. QED  BY <1>1, <2>1, <2>3, <2>4, <2>5, <2>6, MovesOn
<1>3. CASE Load(e)
  <2>. DEFINE pc == IF HasSubtasks(row) THEN "on_success" ELSE "count"
              r == [run[e] EXCEPT !.pc = pc, !.seen = row]
  <2>1. pc \in {"on_success", "count"} /\ (pc = "on_success" <=> HasSubtasks(row))
    OBVIOUS
  <2>2. Step(e, r)
    BY <1>3 DEF Load
  <2>. HIDE DEF pc
  <2>3. /\ r.pc = pc
        /\ r.seen = row
        /\ r.total = run[e].total
        /\ r.num = run[e].num
        /\ r.rest = run[e].rest
    BY <1>1 DEF IsRun, Runs
  <2>. HIDE DEF r
  <2>4. run'[e] = r /\ \A d \in Executions \ {e} : run'[d] = run[d]
    BY <1>0, <2>2, StepFrame
  <2>5. UNCHANGED <<row, batches, mailed, stale, faults>> /\ run[e].pc = "load"
    BY <1>3 DEF Load
  <2>6. ParentOK(run'[e])
    BY <1>1, <2>1, <2>3, <2>4, <2>5 DEF ParentOK, Early
  <2>. QED  BY <1>1, <2>1, <2>3, <2>4, <2>5, <2>6, MovesOn
<1>4. CASE Count(e)
  <2>1. CASE listed = {}
    BY <1>1, <1>4, <2>1, GoesTo DEF Count, Early
  <2>2. CASE listed # {}
    <3>. DEFINE n == Cardinality(listed)
                r == [run[e] EXCEPT !.pc = "define", !.counted = n]
    <3>1. Step(e, r)
      BY <1>4, <2>2 DEF Count
    <3>. HIDE DEF n
    <3>2. /\ r.pc = "define"
          /\ r.seen = run[e].seen
          /\ r.total = run[e].total
          /\ r.num = run[e].num
          /\ r.rest = run[e].rest
      BY <1>1 DEF IsRun, Runs
    <3>. HIDE DEF r
    <3>3. run'[e] = r /\ \A d \in Executions \ {e} : run'[d] = run[d]
      BY <1>0, <3>1, StepFrame
    <3>4. UNCHANGED <<row, batches, mailed, stale, faults>> /\ run[e].pc = "count"
      BY <1>4 DEF Count
    <3>5. ParentOK(run'[e])
      BY <1>1, <3>2, <3>3, <3>4 DEF ParentOK, Early
    <3>. QED  BY <1>1, <3>2, <3>3, <3>4, <3>5, MovesOn
  <2>. QED  BY <2>1, <2>2
<1>5. CASE Query(e)
  <2>. DEFINE r == [run[e] EXCEPT !.pc = "publish", !.rest = listed,
                                  !.queried = listed]
  <2>1. Step(e, r)
    BY <1>5 DEF Query
  <2>2. /\ r.pc = "publish"
        /\ r.seen = run[e].seen
        /\ r.total = run[e].total
        /\ r.num = run[e].num
    BY <1>1 DEF IsRun, Runs
  <2>. HIDE DEF r
  <2>3. run'[e] = r /\ \A d \in Executions \ {e} : run'[d] = run[d]
    BY <1>0, <2>1, StepFrame
  <2>4. UNCHANGED <<row, batches, mailed, stale, faults>> /\ run[e].pc = "query"
    BY <1>5 DEF Query
  <2>5. ParentOK(run'[e])
    BY <1>1, <2>2, <2>3, <2>4 DEF ParentOK, Early
  <2>6. run[e].num = 0
    BY <1>1, <2>4 DEF Counts
  <2>. QED  BY <1>1, <2>2, <2>3, <2>4, <2>5, <2>6, MovesOn
<1>6. CASE Handle(e)
  <2>. DEFINE pc == IF run[e].pc = "on_failure" THEN "save_failure"
                    ELSE IF HasSubtasks(row) THEN "done"
                    ELSE "save_success"
              r == [run[e] EXCEPT !.pc = pc, !.seen = row]
  <2>1. pc \in {"save_failure", "done", "save_success"}
    OBVIOUS
  <2>2. Step(e, r) /\ UNCHANGED <<row, batches, mailed, stale, faults>>
    BY <1>6 DEF Handle
  \* on_success finds subtasks, unless they have been written over.
  <2>3. ~stale => pc # "save_success"
    BY <1>6 DEF Handle, ParentInv, Known
  <2>. HIDE DEF pc
  <2>4. /\ r.pc = pc
        /\ r.seen = row
        /\ r.total = run[e].total
        /\ r.num = run[e].num
        /\ r.rest = run[e].rest
    BY <1>1 DEF IsRun, Runs
  <2>. HIDE DEF r
  <2>5. run'[e] = r /\ \A d \in Executions \ {e} : run'[d] = run[d]
    BY <1>0, <2>2, StepFrame
  <2>6. ParentOK(run'[e])
    BY <1>1, <2>1, <2>4, <2>5 DEF ParentOK, Early
  <2>. QED  BY <1>1, <2>1, <2>2, <2>3, <2>4, <2>5, <2>6, MovesOn
<1>. QED  BY <1>2, <1>3, <1>4, <1>5, <1>6

\* The saves of an execution other than the first one of its subtasks.
LEMMA SavesOn ==
    ASSUME ParentInv, CountInv', NEW e \in Executions,
           Mark(e) \/ SaveSuccess(e) \/ SaveFailure(e)
    PROVE  ParentInv'
<1>0. CountInv /\ RestTypeOK
  BY DEF ParentInv
<1>1. /\ RowOK(run[e].seen)
      /\ ParentOK(run[e])
      /\ faults \in [FaultKinds -> Nat]
  BY <1>0, ParentTypes DEF RestTypeOK
<1>2. {"PROGRESS", "SUCCESS", "FAILURE"} \subseteq States
  BY DEF States, READY_STATES, UNREADY_STATES
<1>2a. PICK state \in {"PROGRESS", "SUCCESS", "FAILURE"},
           pc \in {"load", "done", "failed"} :
         \E s : /\ Resaved(run[e].seen, state, s)
                /\ Save(e, s)
                /\ Goto(e, pc)
                /\ UNCHANGED <<batches, faults, mailed>>
                /\ pc = "load" => run[e].pc = "mark"
                /\ state = "SUCCESS" => run[e].pc = "save_success"
  BY Zenon DEF Mark, SaveSuccess, SaveFailure, Resaved
<1>3. PICK s :
         /\ Resaved(run[e].seen, state, s)
         /\ Save(e, s)
         /\ Goto(e, pc)
         /\ UNCHANGED <<batches, faults, mailed>>
         /\ pc = "load" => run[e].pc = "mark"
         /\ state = "SUCCESS" => run[e].pc = "save_success"
  BY <1>2a
<1>4. /\ RowOK(s)
      /\ s.task_state = state
      /\ s.status = run[e].seen.status
      /\ s.total = run[e].seen.total
      /\ s.succeeded = run[e].seen.succeeded
      /\ s.failed = run[e].seen.failed
  BY <1>1, <1>2, <1>3, SavedRow
<1>5. row' = s /\ stale' \in BOOLEAN /\ (~stale' => ~stale /\ row = run[e].seen)
  BY <1>3, SavedAsSeen
\* on_success has nothing to save for a task with subtasks.
<1>6. ~stale => state # "SUCCESS"
  BY <1>3 DEF ParentInv, Known
<1>7. pc \in PCs
  BY DEF PCs, Busy, Ended
<1>8. /\ run'[e].pc = pc
      /\ run'[e].total = run[e].total
      /\ run'[e].num = run[e].num
      /\ run'[e].rest = run[e].rest
      /\ run'[e].seen = run[e].seen
      /\ \A d \in Executions \ {e} : run'[d] = run[d]
  BY <1>0, <1>3, <1>7, GotoFrame
<1>9. ParentOK(run'[e])
  BY <1>1, <1>3, <1>8 DEF ParentOK, Early
<1>10. RowOK(row') /\ RowOK(run'[e].seen)
  BY <1>1, <1>4, <1>5, <1>8
<1>11. ~stale' =>
         /\ ~stale
         /\ row'.status = row.status
         /\ row'.total = row.total
         /\ row'.succeeded = row.succeeded
         /\ row'.failed = row.failed
         /\ row'.task_state = "SUCCESS" => row.task_state = "SUCCESS"
         /\ run'[e].pc = "on_success" => HasSubtasks(row)
         /\ run'[e].pc # "save_success"
  BY <1>4, <1>5, <1>6, <1>8
<1>12. batches' = batches /\ mailed' = mailed /\ faults' \in [FaultKinds -> Nat]
  BY <1>1, <1>3
<1>. QED  BY <1>5, <1>8, <1>9, <1>10, <1>11, <1>12, MovesOn

\* An execution that fails, dies or has published the last message.
LEMMA EndsOn ==
    ASSUME ParentInv, CountInv', NEW e \in Executions,
           Raises(e) \/ PublishFails(e) \/ Return(e) \/ Crash(e)
    PROVE  ParentInv'
<1>0. CountInv /\ RestTypeOK /\ faults \in [FaultKinds -> Nat]
  BY DEF ParentInv, RestTypeOK
<1>. USE DEF PCs, Busy, Ended, Early
<1>1. CASE Raises(e)
  BY <1>0, <1>1, SpendType, GoesTo DEF Raises, FaultKinds
<1>2. CASE PublishFails(e)
  BY <1>0, <1>2, SpendType, GoesTo DEF PublishFails, FaultKinds
<1>3. CASE Crash(e)
  BY <1>0, <1>3, SpendType, GoesTo DEF Crash, FaultKinds
<1>4. CASE Return(e)
  \* There are subtasks: the ids were saved before the first message.
  <2>1. ASSUME ~stale PROVE HasSubtasks(row)
    <3>1. run[e].total \in Nat /\ run[e].total > 0
      BY <1>4, ParentTypes DEF Return, Counts
    <3>2. DOMAIN row.status = Ids(e, run[e].total)
      BY <2>1, <3>1 DEF ParentInv, Known
    <3>3. Id(e, 1) \in Ids(e, run[e].total)
      BY <3>1 DEF Ids
    <3>. QED  BY <3>2, <3>3, NoSubtasks
  <2>. QED  BY <1>0, <1>4, <2>1, GoesTo DEF Return
<1>. QED  BY <1>1, <1>2, <1>3, <1>4

\* The ids are stored in a row that knows none.
LEMMA InitializesOn ==
    ASSUME ParentInv, CountInv', NEW e \in Executions, Initialize(e)
    PROVE  ParentInv'
<1>0. CountInv /\ RestTypeOK
  BY DEF ParentInv
<1>1. /\ IsRun(run[e])
      /\ Counts(run[e])
      /\ ParentOK(run[e])
      /\ RowOK(run[e].seen)
      /\ run[e].counted \in Nat
      /\ run[e].pc = "define"
  BY ParentTypes DEF Initialize
<1>. DEFINE n == NumberOfSubtasks(run[e].counted)
            s == InitializeSubtaskInfo(Ids(e, n), run[e].counted)
            r == [run[e] EXCEPT !.pc = "query", !.total = n]
<1>2. n \in Nat \ {0} /\ run[e].num = 0 /\ run[e].total = 0
  BY <1>1, OneSubtaskAtLeast DEF Counts, ParentOK, Early
<1>3. /\ Save(e, s)
      /\ Step(e, r)
      /\ UNCHANGED <<batches, listed, faults, mailed>>
  BY DEF Initialize
<1>. HIDE DEF n
<1>4. /\ r.pc = "query"
      /\ r.total = n
      /\ r.num = 0
      /\ r.rest = run[e].rest
      /\ r.seen = run[e].seen
  BY <1>1, <1>2 DEF IsRun, Runs
<1>. HIDE DEF r
<1>5. run'[e] = r /\ \A d \in Executions \ {e} : run'[d] = run[d]
  BY <1>0, <1>3, StepFrame
<1>6. /\ RowOK(s)
      /\ s.task_state = "PROGRESS"
      /\ DOMAIN s.status = Ids(e, n)
      /\ \A id \in Ids(e, n) : s.status[id] = NewStatus
      /\ s.total = Cardinality(Ids(e, n))
      /\ s.succeeded = 0
      /\ s.failed = 0
  BY <1>1, <1>2, InitializedRow
<1>. HIDE DEF s
<1>7. row' = s /\ stale' \in BOOLEAN /\ (~stale' => ~stale /\ row = run[e].seen)
  BY <1>3, SavedAsSeen
<1>8. RestTypeOK'
  BY <1>0, <1>1, <1>3, <1>4, <1>5, <1>6, <1>7 DEF RestTypeOK
<1>9. \A d \in Executions : ParentOK(run'[d])
  <2>1. ParentOK(r)
    BY <1>2, <1>4 DEF ParentOK, Early
  <2>. QED  BY <1>5, <2>1 DEF ParentInv
<1>10. \A d \in Executions :
          run'[d].num = run[d].num /\ run'[d].rest = run[d].rest
  BY <1>2, <1>4, <1>5
<1>11. BatchesOK'
  BY <1>3, <1>10 DEF ParentInv, BatchesOK
<1>12. Apart'
  <2>1. \A id \in DOMAIN batches : run'[id[1]].rest = run[id[1]].rest
    BY <1>10 DEF ParentInv, BatchesOK
  <2>. QED  BY <1>3, <2>1 DEF ParentInv, Apart
<1>13. ASSUME ~stale' PROVE Known' /\ Reported' /\ Mails'
  <2>1. Known /\ Reported /\ Mails /\ row = run[e].seen
    BY <1>7, <1>13 DEF ParentInv
  <2>2. ~HasSubtasks(row) /\ DOMAIN row.status = {}
    BY <1>1, <2>1, NoSubtasks DEF ParentOK
  \* So no other execution has stored any ids, nor published a message.
  <2>3. \A d \in Executions : run[d].total = 0 /\ run[d].num = 0
    <3>. TAKE d \in Executions
    <3>1. run[d].total \in Nat /\ run[d].num \in Nat /\ run[d].num <= run[d].total
      BY ParentTypes DEF ParentOK
    <3>2. ASSUME run[d].total > 0 PROVE FALSE
      <4>1. Id(d, 1) \in Ids(d, run[d].total)
        BY <3>1, <3>2 DEF Ids
      <4>. QED  BY <2>1, <2>2, <3>2, <4>1 DEF Known
    <3>. QED  BY <3>1, <3>2
  <2>4. DOMAIN batches = {}
    <3>1. \A id \in DOMAIN batches :
             id[1] \in Executions /\ id[2] \in 1 .. run[id[1]].num
      BY DEF ParentInv, BatchesOK
    <3>2. \A id \in DOMAIN batches : FALSE
      BY <2>3, <3>1
    <3>. QED  BY <3>2
  <2>5. Known'
    <3>1. \A d \in Executions \ {e} : run'[d].total = 0
      BY <1>5, <2>3
    <3>2. \A d \in Executions \ {e} : run'[d].pc # "on_success"
      BY <1>5, <2>1, <2>2 DEF Known
    <3>3. \A d \in Executions \ {e} : run'[d].pc # "save_success"
      BY <1>5, <2>1 DEF Known
    <3>4. /\ run'[e].total = n
          /\ run'[e].pc = "query"
          /\ DOMAIN row'.status = Ids(e, n)
      BY <1>4, <1>5, <1>6, <1>7
    <3>. QED  BY <3>1, <3>2, <3>3, <3>4 DEF Known
  <2>6. Reported'
    <3>1. Ends(s) = {}
      BY <1>6 DEF Ends, NewStatus, READY_STATES
    <3>2. Cardinality(Ends(s)) = 0
      BY <3>1, FS_EmptySet
    <3>3. IsFiniteSet(DOMAIN s.status)
      BY <1>2, <1>6, IdsType
    <3>4. s.total = Cardinality(DOMAIN s.status)
      BY <1>6, Zenon
    <3>5. \A id \in DOMAIN s.status : s.status[id] = NewStatus
      BY <1>6
    <3>. QED  BY <1>6, <1>7, <3>2, <3>3, <3>4, <3>5 DEF Reported
  <2>7. Mails'
    BY <1>3, <2>1 DEF Mails
  <2>. QED  BY <2>5, <2>6, <2>7
<1>. QED  BY <1>8, <1>9, <1>11, <1>12, <1>13 DEF ParentInv

\* The recipients of the next message are among those who are left.
LEMMA NextBatchType ==
    ASSUME NEW r, NEW to \in NextBatches(r)
    PROVE  to \subseteq r.rest
BY DEF NextBatches, kSubset

\* The next message of an execution is a new one.
LEMMA PublishFacts ==
    ASSUME ParentInv, NEW e \in Executions, Publish(e)
    PROVE  \E to \in SUBSET run[e].rest :
              /\ to \in NextBatches(run[e])
              /\ run'[e].pc = "publish"
              /\ run'[e].seen = run[e].seen
              /\ run'[e].total = run[e].total
              /\ run'[e].counted = run[e].counted
              /\ run'[e].queried = run[e].queried
              /\ run'[e].num = run[e].num + 1
              /\ run'[e].rest = run[e].rest \ to
              /\ \A d \in Executions \ {e} : run'[d] = run[d]
              /\ Id(e, run[e].num + 1) \notin DOMAIN batches
              /\ DOMAIN batches' = DOMAIN batches \cup {Id(e, run[e].num + 1)}
              /\ batches'[Id(e, run[e].num + 1)] = [to |-> to, state |-> "queued"]
              /\ \A id \in DOMAIN batches : batches'[id] = batches[id]
              /\ batches' = [id \in DOMAIN batches' |-> batches'[id]]
<1>0. CountInv /\ IsRun(run[e]) /\ run[e].pc = "publish" /\ run[e].num \in Nat
  BY ParentTypes DEF ParentInv, Publish
<1>. DEFINE x == Id(e, run[e].num + 1)
<1>1. PICK to \in NextBatches(run[e]) :
         /\ Step(e, [run[e] EXCEPT !.rest = @ \ to, !.num = @ + 1])
         /\ batches' = [id \in DOMAIN batches \cup {x} |->
                           IF id \in DOMAIN batches THEN batches[id]
                           ELSE [to |-> to, state |-> "queued"]]
  BY Zenon DEF Publish
<1>. DEFINE rest == run[e].rest \ to
            num == run[e].num + 1
            r == [run[e] EXCEPT !.rest = rest, !.num = num]
<1>2. Step(e, r)
  BY <1>1
<1>. HIDE DEF rest, num
<1>3. /\ r.pc = "publish"
      /\ r.seen = run[e].seen
      /\ r.total = run[e].total
      /\ r.counted = run[e].counted
      /\ r.queried = run[e].queried
      /\ r.num = num
      /\ r.rest = rest
  BY <1>0 DEF IsRun, Runs
<1>. HIDE DEF r
<1>4. run'[e] = r /\ \A d \in Executions \ {e} : run'[d] = run[d]
  BY <1>0, <1>2, StepFrame
<1>5. x \notin DOMAIN batches
  <2>1. ASSUME x \in DOMAIN batches PROVE FALSE
    <3>1. x[1] = e /\ x[2] = run[e].num + 1
      BY DEF Id
    <3>2. x[2] \in 1 .. run[x[1]].num
      BY <2>1 DEF ParentInv, BatchesOK
    <3>. QED  BY <1>0, <3>1, <3>2
  <2>. QED  BY <2>1
<1>. HIDE DEF x
<1>6. /\ DOMAIN batches' = DOMAIN batches \cup {x}
      /\ batches'[x] = [to |-> to, state |-> "queued"]
      /\ \A id \in DOMAIN batches : batches'[id] = batches[id]
      /\ batches' = [id \in DOMAIN batches' |-> batches'[id]]
  BY <1>1, <1>5
<1>7. to \in SUBSET run[e].rest
  BY <1>1, NextBatchType
<1>. QED  BY <1>1, <1>3, <1>4, <1>5, <1>6, <1>7 DEF x, num, rest

LEMMA PublishesOn ==
    ASSUME ParentInv, CountInv', NEW e \in Executions, Publish(e)
    PROVE  ParentInv'
<1>0. CountInv /\ RestTypeOK
  BY DEF ParentInv
<1>1. PICK to \in SUBSET run[e].rest :
              /\ run'[e].pc = "publish"
              /\ run'[e].seen = run[e].seen
              /\ run'[e].total = run[e].total
              /\ run'[e].num = run[e].num + 1
              /\ run'[e].rest = run[e].rest \ to
              /\ \A d \in Executions \ {e} : run'[d] = run[d]
              /\ Id(e, run[e].num + 1) \notin DOMAIN batches
              /\ DOMAIN batches' = DOMAIN batches \cup {Id(e, run[e].num + 1)}
              /\ batches'[Id(e, run[e].num + 1)] = [to |-> to, state |-> "queued"]
              /\ \A id \in DOMAIN batches : batches'[id] = batches[id]
              /\ batches' = [id \in DOMAIN batches' |-> batches'[id]]
  BY PublishFacts
<1>2. UNCHANGED <<row, faults, mailed, stale>>
  BY DEF Publish
<1>3. /\ run[e].num \in Nat
      /\ run[e].total \in Nat
      /\ run[e].num < run[e].total
      /\ run[e].rest \subseteq Recipients
      /\ run[e].pc = "publish"
  BY ParentTypes DEF Publish, Counts
<1>4. PICK x : x = Id(e, run[e].num + 1)
  OBVIOUS
<1>5. x[1] = e /\ x[2] = run[e].num + 1 /\ x = Id(x[1], x[2])
  BY <1>4 DEF Id
<1>6. RestTypeOK'
  <2>1. x \in Executions \X Nat
    BY <1>3, <1>4 DEF Id
  <2>2. [to |-> to, state |-> "queued"] \in Batches
    BY <1>3 DEF Batches
  <2>3. DOMAIN batches' \subseteq Executions \X Nat
    BY <1>0, <1>1, <1>4, <2>1 DEF RestTypeOK
  <2>4. \A id \in DOMAIN batches' : batches'[id] \in Batches
    BY <1>0, <1>1, <1>4, <2>2 DEF RestTypeOK
  <2>5. batches' \in [DOMAIN batches' -> Batches]
    BY <1>1, <2>4
  <2>6. \A d \in Executions : RowOK(run'[d].seen)
    BY <1>0, <1>1 DEF RestTypeOK
  <2>. QED  BY <1>0, <1>2, <2>3, <2>5, <2>6 DEF RestTypeOK
<1>7. \A d \in Executions : ParentOK(run'[d])
  <2>1. ParentOK(run'[e])
    BY <1>1, <1>3 DEF ParentOK, Early
  <2>. QED  BY <1>1, <2>1 DEF ParentInv
<1>8. BatchesOK'
  <2>1. \A d \in Executions : run'[d].num = IF d = e THEN run[e].num + 1
                                            ELSE run[d].num
    BY <1>1
  <2>2. \A id \in DOMAIN batches' :
           id[1] \in Executions /\ id[2] \in 1 .. run'[id[1]].num
           /\ id = Id(id[1], id[2])
    <3>. TAKE id \in DOMAIN batches'
    <3>1. CASE id = x
      BY <1>3, <1>5, <2>1, <3>1
    <3>2. CASE id # x
      <4>1. /\ id[1] \in Executions
            /\ id[2] \in 1 .. run[id[1]].num
            /\ id = Id(id[1], id[2])
        BY <1>1, <1>4, <3>2 DEF ParentInv, BatchesOK
      <4>2. id[2] \in 1 .. run'[id[1]].num
        BY <1>3, <2>1, <4>1
      <4>. QED  BY <4>1, <4>2
    <3>. QED  BY <3>1, <3>2
  <2>3. ASSUME NEW d \in Executions, NEW i \in 1 .. run'[d].num
        PROVE  Id(d, i) \in DOMAIN batches'
    <3>1. CASE d = e /\ i = run[e].num + 1
      BY <1>1, <3>1
    <3>2. CASE ~(d = e /\ i = run[e].num + 1)
      <4>1. i \in 1 .. run[d].num
        BY <1>3, <2>1, <3>2
      <4>2. Id(d, i) \in DOMAIN batches
        BY <4>1 DEF ParentInv, BatchesOK
      <4>. QED  BY <1>1, <4>2
    <3>. QED  BY <3>1, <3>2
  <2>. QED  BY <2>2, <2>3 DEF BatchesOK
<1>9. Apart'
  <2>1. \A id \in DOMAIN batches :
           /\ id[1] \in Executions
           /\ id # x
           /\ batches'[id].to = batches[id].to
           /\ batches[id].to \cap run[id[1]].rest = {}
           /\ batches[id].to \cap run'[id[1]].rest = {}
    BY <1>1, <1>4 DEF ParentInv, BatchesOK, Apart
  <2>2. batches'[x].to = to /\ to \cap run'[e].rest = {}
    BY <1>1, <1>4
  <2>3. \A id \in DOMAIN batches : id[1] = e => batches[id].to \cap to = {}
    BY <1>1, <2>1
  <2>4. \A id, other \in DOMAIN batches : id # other /\ other[1] = id[1] =>
           batches[id].to \cap batches[other].to = {}
    BY DEF ParentInv, Apart
  <2>5. \A id \in DOMAIN batches' : batches'[id].to \cap run'[id[1]].rest = {}
    BY <1>1, <1>4, <1>5, <2>1, <2>2
  <2>6. ASSUME NEW id \in DOMAIN batches', NEW other \in DOMAIN batches' \ {id},
               other[1] = id[1]
        PROVE  batches'[id].to \cap batches'[other].to = {}
    <3>1. CASE id = x
      <4>1. other \in DOMAIN batches
        BY <1>1, <1>4, <3>1
      <4>. QED  BY <1>5, <2>1, <2>2, <2>3, <2>6, <3>1, <4>1
    <3>2. CASE other = x
      <4>1. id \in DOMAIN batches
        BY <1>1, <1>4, <3>2
      <4>. QED  BY <1>5, <2>1, <2>2, <2>3, <2>6, <3>2, <4>1
    <3>3. CASE id # x /\ other # x
      <4>1. id \in DOMAIN batches /\ other \in DOMAIN batches
        BY <1>1, <1>4, <3>3
      <4>. QED  BY <2>1, <2>4, <2>6, <4>1
    <3>. QED  BY <3>1, <3>2, <3>3
  <2>. QED  BY <2>5, <2>6 DEF Apart
<1>10. ASSUME ~stale' PROVE Known' /\ Reported' /\ Mails'
  <2>1. Known /\ Reported /\ Mails
    BY <1>2, <1>10 DEF ParentInv
  <2>2. Known'
    BY <1>1, <1>2, <2>1 DEF Known
  <2>3. \A id \in DOMAIN row.status :
           id \notin DOMAIN batches' \/ Open(id)' => row.status[id] = NewStatus
    <3>. TAKE id \in DOMAIN row.status
    <3>1. CASE id \in DOMAIN batches
      BY <1>1, <2>1, <3>1 DEF Reported, Open
    <3>2. CASE id \notin DOMAIN batches
      BY <2>1, <3>2 DEF Reported
    <3>. QED  BY <3>1, <3>2
  <2>4. Reported'
    BY <1>2, <2>1, <2>3 DEF Reported
  <2>5. Mails'
    <3>1. \A l \in Recipients : mailed[l] > 0 =>
             \E id \in DOMAIN batches' :
                 batches'[id].state = "over" /\ l \in batches'[id].to
      BY <1>1, <2>1 DEF Mails
    <3>. QED  BY <1>2, <2>1, <3>1 DEF Mails
  <2>. QED  BY <2>2, <2>4, <2>5
<1>. QED  BY <1>6, <1>7, <1>8, <1>9, <1>10 DEF ParentInv

\* As long as nothing is written over, the row knows what has been published,
\* and all of it comes from one execution.
LEMMA PublishedAreKnown ==
    ASSUME ParentInv, ~stale, NEW id \in DOMAIN batches
    PROVE  /\ id \in DOMAIN row.status
           /\ \A other \in DOMAIN batches : other[1] = id[1]
<1>1. Known
  BY DEF ParentInv
<1>2. \A x \in DOMAIN batches :
         /\ x[1] \in Executions
         /\ x = Id(x[1], x[2])
         /\ run[x[1]].total > 0
         /\ x \in Ids(x[1], run[x[1]].total)
  <2>. TAKE x \in DOMAIN batches
  <2>1. /\ x[1] \in Executions
        /\ x[2] \in 1 .. run[x[1]].num
        /\ x = Id(x[1], x[2])
    BY DEF ParentInv, BatchesOK
  <2>2. /\ run[x[1]].num \in Nat
        /\ run[x[1]].total \in Nat
        /\ run[x[1]].num <= run[x[1]].total
    BY <2>1, ParentTypes DEF ParentOK
  <2>3. x[2] \in 1 .. run[x[1]].total /\ run[x[1]].total > 0
    BY <2>1, <2>2
  <2>. QED  BY <2>1, <2>3 DEF Ids
<1>3. \A x \in DOMAIN batches :
         DOMAIN row.status = Ids(x[1], run[x[1]].total)
  BY <1>1, <1>2 DEF Known
<1>4. \A other \in DOMAIN batches : other \in Ids(id[1], run[id[1]].total)
  BY <1>2, <1>3
<1>. QED  BY <1>2, <1>3, <1>4 DEF Ids, Id

\* A message changes its state.
LEMMA BatchFrame ==
    ASSUME RestTypeOK, NEW id \in DOMAIN batches,
           NEW state \in {"queued", "running", "refused", "over"},
           SetBatch(id, state)
    PROVE  /\ DOMAIN batches' = DOMAIN batches
           /\ batches' \in [DOMAIN batches' -> Batches]
           /\ batches'[id].state = state
           /\ \A x \in DOMAIN batches : batches'[x].to = batches[x].to
           /\ \A x \in DOMAIN batches \ {id} : batches'[x] = batches[x]
<1>1. batches \in [DOMAIN batches -> Batches]
  BY DEF RestTypeOK
<1>2. batches' = [batches EXCEPT ![id] = [batches[id] EXCEPT !.state = state]]
  BY DEF SetBatch
<1>. DEFINE b == [batches[id] EXCEPT !.state = state]
<1>3. b \in Batches /\ b.state = state /\ b.to = batches[id].to
  BY <1>1 DEF Batches
<1>. HIDE DEF b
<1>. QED  BY <1>1, <1>2, <1>3 DEF b

\* What does not depend on the states of the messages.
LEMMA SameBatches ==
    ASSUME ParentInv, run' = run, DOMAIN batches' = DOMAIN batches,
           \A x \in DOMAIN batches : batches'[x].to = batches[x].to
    PROVE  BatchesOK' /\ Apart' /\ \A e \in Executions : ParentOK(run'[e])
BY DEF ParentInv, BatchesOK, Apart

\* A message is received.
LEMMA StartsOn ==
    ASSUME ParentInv, CountInv', NEW id \in DOMAIN batches, Start(id)
    PROVE  ParentInv'
<1>0. RestTypeOK
  BY DEF ParentInv
<1>1. PICK state \in {"running", "refused"} : SetBatch(id, state)
  BY DEF Start
<1>2. /\ batches[id].state = "queued"
      /\ UNCHANGED <<row, run, listed, faults, mailed, stale>>
  BY DEF Start
<1>3. /\ DOMAIN batches' = DOMAIN batches
      /\ batches' \in [DOMAIN batches' -> Batches]
      /\ \A x \in DOMAIN batches : batches'[x].to = batches[x].to
      /\ \A x \in DOMAIN batches \ {id} : batches'[x] = batches[x]
  BY <1>0, <1>1, BatchFrame
<1>4. RestTypeOK'
  BY <1>0, <1>2, <1>3 DEF RestTypeOK
<1>5. BatchesOK' /\ Apart' /\ \A e \in Executions : ParentOK(run'[e])
  BY <1>2, <1>3, SameBatches
<1>6. ASSUME ~stale' PROVE Known' /\ Reported' /\ Mails'
  <2>1. Known /\ Reported /\ Mails
    BY <1>2, <1>6 DEF ParentInv
  <2>2. \A x \in DOMAIN row.status :
           x \notin DOMAIN batches' \/ Open(x)' => row.status[x] = NewStatus
    BY <1>2, <1>3, <2>1 DEF Reported, Open
  <2>3. Known' /\ Reported'
    BY <1>2, <2>1, <2>2 DEF Known, Reported
  <2>4. \A l \in Recipients : mailed[l] > 0 =>
           \E x \in DOMAIN batches' :
               batches'[x].state = "over" /\ l \in batches'[x].to
    BY <1>2, <1>3, <2>1 DEF Mails
  <2>. QED  BY <1>2, <2>1, <2>3, <2>4 DEF Mails
<1>. QED  BY <1>4, <1>5, <1>6 DEF ParentInv

\* How a subtask ends: who was mailed, and what becomes of the row.
LEMMA FinishFacts ==
    ASSUME ParentInv, NEW id \in DOMAIN batches, Finish(id)
    PROVE  /\ batches[id].state = "running"
           /\ SetBatch(id, "over")
           /\ UNCHANGED <<run, listed, faults, stale>>
           /\ \E good \in SUBSET batches[id].to, st \in Statuses :
                /\ \A l \in Recipients :
                      mailed'[l] = mailed[l] + (IF l \in good THEN 1 ELSE 0)
                /\ mailed' \in [Recipients -> Nat]
                /\ st.state \in READY_STATES
                /\ \/ row' = row
                   \/ /\ id \in DOMAIN row.status
                      /\ row.progress # NoCounters
                      /\ row' = UpdateSubtaskStatus(row, id, st)
<1>0. /\ batches \in [DOMAIN batches -> Batches]
      /\ mailed \in [Recipients -> Nat]
  BY DEF ParentInv, RestTypeOK
<1>1. batches[id].to \in SUBSET Recipients
  BY <1>0 DEF Batches
<1>2. PICK good \in SUBSET batches[id].to, state \in {"SUCCESS", "FAILURE"} :
          /\ mailed' = [l \in Recipients |->
                           mailed[l] + (IF l \in good THEN 1 ELSE 0)]
          /\ row' = IF Records(id)
                    THEN UpdateSubtaskStatus(row, id,
                            Report(batches[id].to, good, state))
                    ELSE row
  BY DEF Finish
<1>3. PICK st : st = Report(batches[id].to, good, state)
  OBVIOUS
<1>4. st \in Statuses /\ st.state \in READY_STATES
  BY <1>1, <1>3, ReportType
<1>5. \/ row' = row
      \/ Records(id) /\ row' = UpdateSubtaskStatus(row, id, st)
  BY <1>2, <1>3, Zenon
<1>6. \A l \in Recipients :
         mailed'[l] = mailed[l] + (IF l \in good THEN 1 ELSE 0)
  BY <1>2
<1>7. mailed' \in [Recipients -> Nat]
  BY <1>0, <1>2
<1>8. /\ batches[id].state = "running"
      /\ SetBatch(id, "over")
      /\ UNCHANGED <<run, listed, faults, stale>>
  BY DEF Finish
<1>. QED  BY <1>4, <1>5, <1>6, <1>7, <1>8 DEF Records

\* A subtask ends.
LEMMA FinishesOn ==
    ASSUME ParentInv, CountInv', NEW id \in DOMAIN batches, Finish(id)
    PROVE  ParentInv'
<1>0. RestTypeOK /\ RowOK(row) /\ mailed \in [Recipients -> Nat]
  BY DEF ParentInv, RestTypeOK
<1>1. PICK good \in SUBSET batches[id].to, st \in Statuses :
         /\ \A l \in Recipients :
               mailed'[l] = mailed[l] + (IF l \in good THEN 1 ELSE 0)
         /\ mailed' \in [Recipients -> Nat]
         /\ st.state \in READY_STATES
         /\ \/ row' = row
            \/ /\ id \in DOMAIN row.status
               /\ row.progress # NoCounters
               /\ row' = UpdateSubtaskStatus(row, id, st)
  BY FinishFacts
<1>2. /\ batches[id].state = "running"
      /\ SetBatch(id, "over")
      /\ UNCHANGED <<run, listed, faults, stale>>
  BY FinishFacts
<1>3. /\ DOMAIN batches' = DOMAIN batches
      /\ batches' \in [DOMAIN batches' -> Batches]
      /\ batches'[id].state = "over"
      /\ \A x \in DOMAIN batches : batches'[x].to = batches[x].to
      /\ \A x \in DOMAIN batches \ {id} : batches'[x] = batches[x]
  BY <1>0, <1>2, BatchFrame
<1>4. \/ row' = row
      \/ /\ id \in DOMAIN row.status
         /\ RowOK(row')
         /\ row'.status = [row.status EXCEPT ![id] = st]
         /\ DOMAIN row'.status = DOMAIN row.status
         /\ row'.total = row.total
         /\ row'.succeeded + row'.failed = row.succeeded + row.failed + 1
         /\ row'.task_state = IF row.succeeded + row.failed + 1 >= row.total
                              THEN "SUCCESS" ELSE row.task_state
  BY <1>0, <1>1, ReportedRow
<1>5. RestTypeOK'
  BY <1>0, <1>1, <1>2, <1>3, <1>4 DEF RestTypeOK
<1>6. BatchesOK' /\ Apart' /\ \A e \in Executions : ParentOK(run'[e])
  BY <1>2, <1>3, SameBatches
<1>7. ASSUME ~stale' PROVE Known' /\ Reported' /\ Mails'
  <2>1. Known /\ Reported /\ Mails /\ ~stale
    BY <1>2, <1>7 DEF ParentInv
  <2>2. id \in DOMAIN row.status /\ \A other \in DOMAIN batches : other[1] = id[1]
    BY <2>1, PublishedAreKnown
  <2>3. row.status[id] = NewStatus
    BY <1>2, <2>1, <2>2 DEF Reported, Open
  <2>4. NewStatus.state \notin READY_STATES
    BY DEF NewStatus, READY_STATES
  <2>5. \A x \in DOMAIN row.status : x \notin DOMAIN batches' \/ Open(x)' =>
           x # id /\ row.status[x] = NewStatus
    BY <1>3, <2>1 DEF Reported, Open
  <2>6. Known' /\ Reported'
    <3>1. CASE row' = row
      BY <1>2, <2>1, <2>5, <3>1 DEF Known, Reported
    <3>2. CASE row' # row
      <4>1. /\ row'.status = [row.status EXCEPT ![id] = st]
            /\ DOMAIN row'.status = DOMAIN row.status
            /\ row'.total = row.total
            /\ row'.succeeded + row'.failed = row.succeeded + row.failed + 1
            /\ row'.task_state = IF row.succeeded + row.failed + 1 >= row.total
                                 THEN "SUCCESS" ELSE row.task_state
        BY <1>4, <3>2
      <4>2. HasSubtasks(row')
        BY <2>2, <4>1, NoSubtasks
      <4>3. Known'
        BY <1>2, <2>1, <4>1, <4>2 DEF Known
      <4>4. /\ row'.status[id] = st
            /\ \A x \in DOMAIN row.status \ {id} : row'.status[x] = row.status[x]
        BY <2>2, <4>1
      <4>5. Ends(row') = Ends(row) \cup {id}
        BY <1>1, <2>2, <4>1, <4>4 DEF Ends
      <4>6. id \notin Ends(row) /\ Ends(row) \subseteq DOMAIN row.status
        BY <2>3, <2>4 DEF Ends
      <4>7. IsFiniteSet(DOMAIN row.status)
        BY <2>1 DEF Reported
      <4>8. IsFiniteSet(Ends(row)) /\ Cardinality(Ends(row)) \in Nat
        BY <4>6, <4>7, FS_Subset, FS_CardinalityType
      <4>9. Cardinality(Ends(row) \cup {id}) = Cardinality(Ends(row)) + 1
        BY <4>6, <4>8, FS_AddElement
      <4>10. Cardinality(Ends(row')) = Cardinality(Ends(row)) + 1
        BY <4>5, <4>9, Zenon
      <4>11. row.succeeded + row.failed = Cardinality(Ends(row))
        BY <2>1 DEF Reported
      <4>12. row'.succeeded + row'.failed = Cardinality(Ends(row'))
        BY <4>1, <4>10, <4>11
      <4>13. ASSUME row'.task_state = "SUCCESS"
             PROVE  Ends(row') = DOMAIN row'.status
        <5>1. CASE row.succeeded + row.failed + 1 >= row.total
          <6>1. Cardinality(Ends(row')) >= Cardinality(DOMAIN row.status)
            BY <2>1, <4>1, <4>12, <5>1 DEF Reported
          <6>2. Ends(row') \in SUBSET (DOMAIN row.status)
            BY <2>2, <4>5, <4>6
          <6>3. /\ Cardinality(Ends(row')) \in Nat
                /\ Cardinality(DOMAIN row.status) \in Nat
            BY <4>7, <4>8, <4>10, FS_CardinalityType
          <6>4. /\ Cardinality(Ends(row')) <= Cardinality(DOMAIN row.status)
                /\ Cardinality(DOMAIN row.status) = Cardinality(Ends(row')) =>
                      DOMAIN row.status = Ends(row')
            BY <4>7, <6>2, FS_Subset
          <6>. QED  BY <4>1, <6>1, <6>3, <6>4
        <5>2. CASE ~(row.succeeded + row.failed + 1 >= row.total)
          <6>1. row.task_state = "SUCCESS"
            BY <4>1, <4>13, <5>2
          <6>. QED  BY <2>1, <2>2, <4>6, <6>1 DEF Reported
        <5>. QED  BY <5>1, <5>2
      <4>14. \A x \in DOMAIN row'.status : x \notin DOMAIN batches' \/ Open(x)' =>
                row'.status[x] = NewStatus
        BY <2>5, <4>1, <4>4
      <4>15. row'.total = Cardinality(DOMAIN row'.status)
        BY <2>1, <4>1, Zenon DEF Reported
      <4>16. IsFiniteSet(DOMAIN row'.status)
        BY <4>1, <4>7
      <4>. QED  BY <4>3, <4>12, <4>13, <4>14, <4>15, <4>16 DEF Reported
    <3>. QED  BY <3>1, <3>2
  <2>7. Mails'
    <3>. SUFFICES ASSUME NEW l \in Recipients
                  PROVE  /\ mailed'[l] <= 1
                         /\ mailed'[l] > 0 => \E x \in DOMAIN batches' :
                               batches'[x].state = "over" /\ l \in batches'[x].to
      BY DEF Mails
    <3>1. mailed[l] \in Nat
      BY <1>0
    <3>2. mailed[l] > 0 => \E x \in DOMAIN batches :
             batches[x].state = "over" /\ l \in batches[x].to
      BY <2>1 DEF Mails
    <3>3. mailed[l] <= 1
      BY <2>1 DEF Mails
    <3>4. CASE l \in good
      \* Nobody else has mailed him: no other batch holds him.
      <4>1. ASSUME NEW x \in DOMAIN batches, batches[x].state = "over",
                   l \in batches[x].to
            PROVE  FALSE
        <5>1. x # id
          BY <1>2, <4>1
        <5>2. batches[x].to \cap batches[id].to = {}
          BY <2>2, <5>1 DEF ParentInv, Apart
        <5>. QED  BY <3>4, <4>1, <5>2
      <4>2. mailed[l] = 0
        BY <3>1, <3>2, <4>1
      <4>3. mailed'[l] = 1
        BY <1>1, <3>4, <4>2
      <4>. QED  BY <1>3, <3>4, <4>3
    <3>5. CASE l \notin good
      <4>1. mailed'[l] = mailed[l]
        BY <1>1, <3>1, <3>5
      <4>. QED  BY <1>2, <1>3, <3>2, <3>3, <4>1
    <3>. QED  BY <3>4, <3>5
  <2>. QED  BY <2>6, <2>7
<1>. QED  BY <1>5, <1>6, <1>7 DEF ParentInv

LEMMA ParentInit == Init => ParentInv
<1>. SUFFICES ASSUME Init PROVE ParentInv
  OBVIOUS
<1>1. /\ row = BlankEntry("QUEUING")
      /\ \A e \in Executions : run[e] = Waiting
      /\ batches = <<>>
      /\ faults = Faults
      /\ mailed = [l \in Recipients |-> 0]
      /\ stale = FALSE
  BY DEF Init
<1>2. /\ Waiting.pc = "waiting"
      /\ Waiting.seen = BlankEntry("QUEUING")
      /\ Waiting.total = 0
      /\ Waiting.num = 0
      /\ Waiting.rest = {}
  BY DEF Waiting
<1>3. DOMAIN batches = {} /\ batches \in [DOMAIN batches -> Batches]
  BY <1>1
<1>4. DOMAIN row.status = {} /\ row.total = 0 /\ row.succeeded + row.failed = 0
      /\ row.task_state # "SUCCESS"
  BY <1>1, BlankRow
<1>5. RestTypeOK
  BY <1>1, <1>2, <1>3, BlankRow, DelegationAssumption
  DEF RestTypeOK, DelegationAssumption
<1>6. \A e \in Executions : ParentOK(run[e])
  BY <1>1, <1>2 DEF ParentOK
<1>7. BatchesOK
  BY <1>1, <1>2, <1>3 DEF BatchesOK
<1>8. Apart
  BY <1>3 DEF Apart
<1>9. Known
  BY <1>1, <1>2 DEF Known
<1>10. Reported
  <2>1. Ends(row) = {}
    BY <1>4 DEF Ends
  <2>2. Cardinality(Ends(row)) = 0 /\ Cardinality(DOMAIN row.status) = 0
    BY <1>4, <2>1, FS_EmptySet
  <2>3. IsFiniteSet(DOMAIN row.status)
    BY <1>4, FS_EmptySet
  <2>. QED  BY <1>4, <2>2, <2>3 DEF Reported
<1>11. Mails
  BY <1>1 DEF Mails
<1>. QED  BY CountInit, <1>5, <1>6, <1>7, <1>8, <1>9, <1>10, <1>11 DEF ParentInv

LEMMA ParentNext == ParentInv /\ [Next]_vars => ParentInv'
<1>. SUFFICES ASSUME ParentInv, [Next]_vars PROVE ParentInv'
  OBVIOUS
<1>1. CountInv'
  BY NextCounts DEF ParentInv
<1>2. ASSUME NEW e \in Executions, Begin(e) \/ Execute(e) PROVE ParentInv'
  BY <1>1, <1>2, ReadsOn, SavesOn, EndsOn, InitializesOn, PublishesOn
  DEF Execute
<1>3. ASSUME NEW id \in DOMAIN batches, Start(id) \/ Finish(id) PROVE ParentInv'
  BY <1>1, <1>3, StartsOn, FinishesOn
<1>4. ASSUME NEW e \in Executions, Crash(e) PROVE ParentInv'
  BY <1>1, <1>4, EndsOn
<1>5. ASSUME UNCHANGED <<row, run, batches, mailed, stale>>,
             faults' \in [FaultKinds -> Nat]
      PROVE  ParentInv'
  <2>1. RestTypeOK'
    BY <1>5 DEF ParentInv, RestTypeOK
  <2>2. BatchesOK' /\ Apart' /\ \A e \in Executions : ParentOK(run'[e])
    BY <1>5 DEF ParentInv, BatchesOK, Apart
  <2>3. ASSUME ~stale' PROVE Known' /\ Reported' /\ Mails'
    <3>1. Known /\ Reported /\ Mails
      BY <1>5, <2>3 DEF ParentInv
    <3>. QED  BY <1>5, <3>1 DEF Known, Reported, Mails, Open
  <2>. QED  BY <1>1, <2>1, <2>2, <2>3 DEF ParentInv
<1>6. ASSUME NEW l \in Recipients, Enroll(l) \/ Leave(l) PROVE ParentInv'
  <2>1. faults' \in [FaultKinds -> Nat]
    BY <1>6, SpendType DEF Enroll, Leave, ParentInv, FaultKinds
  <2>. QED  BY <1>5, <1>6, <2>1 DEF Enroll, Leave
<1>7. CASE UNCHANGED vars
  BY <1>5, <1>7 DEF vars, ParentInv, RestTypeOK
<1>. QED  BY <1>2, <1>3, <1>4, <1>6, <1>7 DEF Next, Environment

LEMMA ParentAlways == Spec => []ParentInv
BY ParentInit, ParentNext, PTL DEF Spec

-----------------------------------------------------------------------------
(* What follows                                                            *)

\* The row, the executions, the messages and the counts of mails stay in their
\* ranges, whatever is redelivered, lost or written over.
THEOREM DelegationTypes == Spec => []TypeOK
<1>1. ParentInv => TypeOK
  <2>. SUFFICES ASSUME ParentInv PROVE TypeOK
    OBVIOUS
  <2>1. ASSUME NEW e \in Executions
        PROVE  /\ DOMAIN run[e] = DOMAIN Waiting
               /\ run[e].pc \in PCs
               /\ RowOK(run[e].seen)
               /\ {run[e].counted, run[e].total, run[e].num} \subseteq Nat
               /\ run[e].queried \subseteq Recipients
               /\ run[e].rest \subseteq Recipients
    <3>1. DOMAIN run[e] = {"pc", "seen", "counted", "queried", "total", "num", "rest"}
      BY ParentTypes DEF IsRun, Runs
    <3>2. DOMAIN Waiting = {"pc", "seen", "counted", "queried", "total", "num", "rest"}
      BY DEF Waiting
    <3>. QED  BY <3>1, <3>2, ParentTypes
  <2>2. listed \subseteq Recipients
    BY DEF ParentInv, CountInv
  <2>. QED  BY <2>1, <2>2 DEF ParentInv, RestTypeOK, TypeOK
<1>. QED  BY ParentAlways, <1>1, PTL

\* No send_course_email runs before the row knows of it, nor is forgotten by the
\* row while it runs, for any number of redeliveries of the parent, as long as
\* no save writes over a row it has not read.
THEOREM SubtasksAreKnown == Spec => []OpenAreKnown
<1>1. ParentInv => OpenAreKnown
  BY PublishedAreKnown DEF OpenAreKnown
<1>. QED  BY ParentAlways, <1>1, PTL

\* A redelivery of send_bulk_course_email mails nobody a second time, under the
\* same condition: the batches of one execution share no recipient, and only one
\* execution ever publishes.
THEOREM NobodyTwice == Spec => []MailedOnce
<1>1. ParentInv => MailedOnce
  BY DEF MailedOnce, ParentInv, Mails
<1>. QED  BY ParentAlways, <1>1, PTL

\* The task succeeds with its last subtask: nothing is open, nor left to send.
THEOREM SuccessIsLast == Spec => []SuccessIsComplete
<1>1. ParentInv => SuccessIsComplete
  <2>. SUFFICES ASSUME ParentInv, ~stale, row.task_state = "SUCCESS"
                PROVE  /\ \A id \in DOMAIN batches : ~Open(id)
                       /\ \A id \in DOMAIN row.status :
                             row.status[id].state \in READY_STATES
                       /\ \A e \in Executions :
                             run[e].pc # "publish" \/ run[e].rest = {}
    BY DEF SuccessIsComplete
  <2>1. Known /\ Reported
    BY DEF ParentInv
  <2>2. \A id \in DOMAIN row.status : row.status[id].state \in READY_STATES
    BY <2>1 DEF Reported, Ends
  <2>3. \A id \in DOMAIN row.status : id \in DOMAIN batches /\ ~Open(id)
    BY <2>1, <2>2 DEF Reported, NewStatus, READY_STATES
  <2>4. \A id \in DOMAIN batches : ~Open(id)
    BY <2>3, PublishedAreKnown
  <2>5. ASSUME NEW e \in Executions, run[e].pc = "publish", run[e].rest # {}
        PROVE  FALSE
    <3>1. /\ run[e].num \in Nat
          /\ run[e].total \in Nat
          /\ run[e].num < run[e].total
      BY <2>5, ParentTypes DEF Counts
    \* The id of the next message is known, and has no message yet.
    <3>2. Id(e, run[e].num + 1) \in DOMAIN row.status
      <4>1. DOMAIN row.status = Ids(e, run[e].total)
        BY <2>1, <3>1 DEF Known
      <4>2. run[e].num + 1 \in 1 .. run[e].total
        BY <3>1
      <4>. QED  BY <4>1, <4>2 DEF Ids
    <3>3. Id(e, run[e].num + 1) \notin DOMAIN batches
      <4>1. ASSUME Id(e, run[e].num + 1) \in DOMAIN batches PROVE FALSE
        <5>1. PICK x : x = Id(e, run[e].num + 1)
          OBVIOUS
        <5>2. x[1] = e /\ x[2] = run[e].num + 1
          BY <5>1 DEF Id
        <5>3. x[2] \in 1 .. run[x[1]].num
          BY <4>1, <5>1 DEF ParentInv, BatchesOK
        <5>. QED  BY <3>1, <5>2, <5>3
      <4>. QED  BY <4>1
    <3>. QED  BY <2>3, <3>2, <3>3
  <2>. QED  BY <2>2, <2>4, <2>5
<1>. QED  BY ParentAlways, <1>1, PTL

\* A redelivered, failing or finishing parent saves the row without losing a
\* report that a subtask has made, as long as its saves write over nothing
\* unread; and no subtask reports over a report.
THEOREM ReportsSurvive == Spec => ReportsAreKept
<1>. DEFINE Kept == \A id \in DOMAIN row.status :
                row.status[id].state \in READY_STATES =>
                   /\ id \in DOMAIN row'.status
                   /\ row'.status[id] = row.status[id]
<1>1. ASSUME ParentInv, [Next]_vars, ~stale' PROVE Kept
  <2>1. CASE row' = row
    BY <2>1
  <2>2. ASSUME NEW e \in Executions, Mark(e) \/ SaveSuccess(e) \/ SaveFailure(e)
        PROVE  Kept
    <3>0. PICK state \in {"PROGRESS", "SUCCESS", "FAILURE"} :
             \E s : Resaved(run[e].seen, state, s) /\ Save(e, s)
      BY <2>2, Zenon DEF Mark, SaveSuccess, SaveFailure, Resaved
    <3>1. PICK s : Resaved(run[e].seen, state, s) /\ Save(e, s)
      BY <3>0
    <3>2. state \in States
      BY DEF States, READY_STATES, UNREADY_STATES
    <3>3. s.status = run[e].seen.status
      BY <1>1, <3>1, <3>2, ParentTypes, SavedRow
    <3>4. row' = s /\ row = run[e].seen
      BY <1>1, <3>1, SavedAsSeen
    <3>. QED  BY <3>3, <3>4
  <2>3. ASSUME NEW e \in Executions, Initialize(e) PROVE Kept
    <3>1. \E s : Save(e, s)
      BY <2>3 DEF Initialize
    <3>2. row = run[e].seen
      BY <1>1, <3>1, SavedAsSeen
    <3>3. ~HasSubtasks(run[e].seen)
      BY <1>1, <2>3, ParentTypes DEF Initialize, ParentOK
    <3>. QED  BY <3>2, <3>3, NoSubtasks
  <2>4. ASSUME NEW id \in DOMAIN batches, Finish(id) PROVE Kept
    <3>1. PICK st \in Statuses :
             /\ st.state \in READY_STATES
             /\ \/ row' = row
                \/ /\ id \in DOMAIN row.status
                   /\ row.progress # NoCounters
                   /\ row' = UpdateSubtaskStatus(row, id, st)
      BY <1>1, <2>4, FinishFacts
    <3>2. RowOK(row) /\ ~stale /\ Reported /\ Open(id)
      BY <1>1, <2>4, FinishFacts DEF ParentInv, RestTypeOK, Open
    <3>3. CASE row' # row
      <4>1. id \in DOMAIN row.status /\ row'.status = [row.status EXCEPT ![id] = st]
        BY <3>1, <3>2, <3>3, ReportedRow
      <4>2. row.status[id] = NewStatus
        BY <3>2, <4>1 DEF Reported
      <4>. QED  BY <4>1, <4>2 DEF NewStatus, READY_STATES
    <3>. QED  BY <2>1, <3>3
  <2>. QED
    BY <1>1, <2>1, <2>2, <2>3, <2>4
    DEF Next, Environment, vars, Execute, Begin, Load, Count, Raises, Query,
        Publish, PublishFails, Return, Handle, Start, Crash, Enroll, Leave
<1>2. ParentInv /\ [Next]_vars => [~stale' => Kept]_vars
  BY <1>1
<1>. QED  BY ParentAlways, <1>2, PTL DEF Spec, ReportsAreKept

-----------------------------------------------------------------------------
(* The sizes of the batches                                                *)

\* A product grows with its factor.
LEMMA Grows ==
    ASSUME NEW k \in Nat, NEW a \in Int, NEW b \in Int, a <= b
    PROVE  k * a <= k * b
<1>1. PICK d \in Nat : b = a + d
  <2>1. b - a \in Nat /\ b = a + (b - a)
    OBVIOUS
  <2>. QED  BY <2>1
<1>2. k * b = k * a + k * d
  BY <1>1
<1>3. k * d \in Nat /\ k * a \in Int
  BY <1>1
<1>. QED  BY <1>2, <1>3

\* The number of subtasks is the quotient, rounded up.
LEMMA RoundedUp ==
    ASSUME NEW c \in Nat \ {0}
    PROVE  /\ NumberOfSubtasks(c) \in Nat
           /\ c <= PerTask * NumberOfSubtasks(c)
           /\ PerTask * (NumberOfSubtasks(c) - 1) < c
<1>1. PerTask \in Nat \ {0}
  BY DelegationAssumption DEF DelegationAssumption
<1>2. PICK q \in Nat, m \in Nat :
         /\ q = c \div PerTask
         /\ m = c % PerTask
         /\ c = PerTask * q + m
         /\ m < PerTask
  BY <1>1
<1>3. NumberOfSubtasks(c) = q + (IF m > 0 THEN 1 ELSE 0)
  BY <1>2 DEF NumberOfSubtasks
<1>4. PerTask * (q + 1) = PerTask * q + PerTask
      /\ PerTask * (q - 1) = PerTask * q - PerTask
  BY <1>1
<1>5. PerTask * q \in Nat
  BY <1>1
<1>6. CASE m > 0
  <2>1. NumberOfSubtasks(c) = q + 1 /\ (q + 1) - 1 = q
    BY <1>3, <1>6
  <2>. QED  BY <1>1, <1>2, <1>4, <1>5, <1>6, <2>1
<1>7. CASE m = 0
  <2>1. NumberOfSubtasks(c) = q
    BY <1>3, <1>7
  <2>. QED  BY <1>1, <1>2, <1>4, <1>5, <1>7, <2>1
<1>. QED  BY <1>2, <1>6, <1>7

\* The items that are left fit into the last subtask, and into none before it.
LEMMA LastChunk ==
    ASSUME NEW c \in Nat \ {0}, NEW num \in Nat, NEW left \in Nat \ {0},
           left + PerTask * num = c
    PROVE  /\ left <= PerTask => NumberOfSubtasks(c) = num + 1
           /\ num >= NumberOfSubtasks(c) - 1 => left <= PerTask
<1>. DEFINE total == NumberOfSubtasks(c)
<1>1. PerTask \in Nat \ {0}
  BY DelegationAssumption DEF DelegationAssumption
<1>2. /\ total \in Nat
      /\ c <= PerTask * total
      /\ PerTask * (total - 1) < c
  BY RoundedUp
<1>. HIDE DEF total
<1>3. /\ PerTask * (num + 1) = PerTask * num + PerTask
      /\ PerTask * (total - 1) = PerTask * total - PerTask
      /\ PerTask * num \in Nat
      /\ PerTask * total \in Nat
  BY <1>1, <1>2
<1>4. ASSUME left <= PerTask PROVE total = num + 1
  <2>1. CASE total <= num
    <3>1. PerTask * total <= PerTask * num
      BY <1>1, <1>2, <2>1, Grows
    <3>. QED  BY <1>2, <1>3, <3>1
  <2>2. CASE total > num + 1
    <3>1. PerTask * (num + 1) <= PerTask * (total - 1)
      <4>1. num + 1 <= total - 1 /\ num + 1 \in Int /\ total - 1 \in Int
        BY <1>2, <2>2
      <4>. QED  BY <1>1, <4>1, Grows
    <3>. QED  BY <1>1, <1>2, <1>3, <1>4, <3>1
  <2>. QED  BY <1>2, <2>1, <2>2
<1>5. ASSUME num >= total - 1 PROVE left <= PerTask
  <2>1. PerTask * (total - 1) <= PerTask * num
    <3>1. total - 1 \in Int
      BY <1>2
    <3>. QED  BY <1>1, <1>5, <3>1, Grows
  <2>. QED  BY <1>1, <1>2, <1>3, <2>1
<1>. QED  BY <1>4, <1>5 DEF total

\* The batches of an execution and what is left make up what its query found.
Shared(e) ==
    /\ \A id \in DOMAIN batches :
          id[1] = e => Cardinality(batches[id].to) <= PerTask
    /\ \A l \in Recipients : l \in run[e].queried <=>
          \/ l \in run[e].rest
          \/ \E id \in DOMAIN batches : id[1] = e /\ l \in batches[id].to

\* As long as both queries agree, every message but the last is full.
Chunked(e) ==
    LET r == run[e]
    IN  /\ r.pc \in {"query", "publish"} =>
              r.counted # 0 /\ r.total = NumberOfSubtasks(r.counted)
        /\ r.pc = "publish" /\ Cardinality(r.queried) = r.counted =>
              /\ Shared(e)
              /\ r.rest = {} => r.num = r.total
              /\ r.rest # {} =>
                    Cardinality(r.rest) + PerTask * r.num = r.counted
        /\ r.pc = "on_success" /\ r.total > 0
              /\ Cardinality(r.queried) = r.counted =>
              Shared(e) /\ r.rest = {} /\ r.num = r.total

ChunkInv == ParentInv /\ \A e \in Executions : Chunked(e)

\* A step that is none of the execution's, and keeps its messages.
LEMMA SameChunks ==
    ASSUME NEW e \in Executions, Chunked(e), run'[e] = run[e],
           \A id : id[1] = e => (id \in DOMAIN batches' <=> id \in DOMAIN batches),
           \A id \in DOMAIN batches :
              id[1] = e => batches'[id].to = batches[id].to
    PROVE  Chunked(e)'
<1>1. Shared(e) => Shared(e)'
  BY DEF Shared
<1>. QED  BY <1>1 DEF Chunked

\* A step that takes an execution away from its messages.
LEMMA NoChunks ==
    ASSUME NEW e \in Executions,
           run'[e].pc \notin {"query", "publish", "on_success"}
              \/ (run'[e].pc = "on_success" /\ run'[e].total = 0)
    PROVE  Chunked(e)'
BY DEF Chunked

\* An execution publishes one more message.
LEMMA PublishChunks ==
    ASSUME ChunkInv, NEW e \in Executions, Publish(e)
    PROVE  Chunked(e)'
<1>1. PICK to \in SUBSET run[e].rest :
              /\ to \in NextBatches(run[e])
              /\ run'[e].pc = "publish"
              /\ run'[e].total = run[e].total
              /\ run'[e].counted = run[e].counted
              /\ run'[e].queried = run[e].queried
              /\ run'[e].num = run[e].num + 1
              /\ run'[e].rest = run[e].rest \ to
              /\ Id(e, run[e].num + 1) \notin DOMAIN batches
              /\ DOMAIN batches' = DOMAIN batches \cup {Id(e, run[e].num + 1)}
              /\ batches'[Id(e, run[e].num + 1)] = [to |-> to, state |-> "queued"]
              /\ \A id \in DOMAIN batches : batches'[id] = batches[id]
  BY PublishFacts DEF ChunkInv
<1>2. PICK x : x = Id(e, run[e].num + 1) /\ x[1] = e
  <2>1. PICK x : x = Id(e, run[e].num + 1)
    OBVIOUS
  <2>2. x[1] = e
    BY <2>1 DEF Id
  <2>. QED  BY <2>1, <2>2
<1>3. /\ run[e].pc = "publish"
      /\ run[e].rest # {}
      /\ run[e].rest \subseteq Recipients
      /\ run[e].num \in Nat
      /\ run[e].total \in Nat
      /\ run[e].counted \in Nat
      /\ run[e].num < run[e].total
      /\ Chunked(e)
  BY ParentTypes DEF ChunkInv, Publish, Counts
<1>4. run[e].counted # 0 /\ run[e].total = NumberOfSubtasks(run[e].counted)
  BY <1>3 DEF Chunked
<1>5. ASSUME Cardinality(run[e].queried) = run[e].counted
      PROVE  /\ Shared(e)'
             /\ run'[e].rest = {} => run'[e].num = run'[e].total
             /\ run'[e].rest # {} =>
                   Cardinality(run'[e].rest) + PerTask * run'[e].num
                       = run[e].counted
  <2>1. Shared(e) /\ Cardinality(run[e].rest) + PerTask * run[e].num = run[e].counted
    BY <1>3, <1>5 DEF Chunked
  <2>2. PerTask \in Nat \ {0}
    BY DelegationAssumption DEF DelegationAssumption
  <2>3. IsFiniteSet(run[e].rest) /\ IsFiniteSet(to)
    BY <1>1, <1>3, DelegationAssumption, FS_Subset DEF DelegationAssumption
  <2>4. PICK k \in Nat \ {0} : k = Cardinality(run[e].rest)
    BY <1>3, <2>3, FS_CardinalityType, FS_EmptySet
  <2>5. /\ k <= PerTask => run[e].total = run[e].num + 1
        /\ run[e].num >= run[e].total - 1 => k <= PerTask
    BY <1>3, <1>4, <2>1, <2>4, LastChunk
  <2>6. CASE k > PerTask /\ run[e].num < run[e].total - 1
    <3>1. Cardinality(to) = PerTask
      BY <1>1, <2>4, <2>6 DEF NextBatches, kSubset
    <3>2. Cardinality(run[e].rest \ to) = k - PerTask
      <4>1. run[e].rest = (run[e].rest \ to) \cup to
        BY <1>1
      <4>2. (run[e].rest \ to) \cap to = {}
        OBVIOUS
      <4>3. IsFiniteSet(run[e].rest \ to)
        BY <2>3, FS_Subset
      <4>4. Cardinality((run[e].rest \ to) \cup to)
               = Cardinality(run[e].rest \ to) + Cardinality(to)
                   - Cardinality((run[e].rest \ to) \cap to)
        BY <2>3, <4>3, FS_Union
      <4>5. Cardinality((run[e].rest \ to) \cap to) = 0
        BY <4>2, FS_EmptySet, Zenon
      <4>6. Cardinality((run[e].rest \ to) \cup to) = k
        BY <2>4, <4>1, Zenon
      <4>7. Cardinality(run[e].rest \ to) \in Nat
        BY <4>3, FS_CardinalityType
      <4>. QED  BY <2>2, <3>1, <4>4, <4>5, <4>6, <4>7
    <3>3. run[e].rest \ to # {}
      <4>1. k - PerTask # 0
        BY <2>2, <2>6
      <4>2. Cardinality(run[e].rest \ to) # 0
        BY <3>2, <4>1, Zenon
      <4>. QED  BY <4>2, FS_EmptySet, Zenon
    <3>4. PerTask * (run[e].num + 1) = PerTask * run[e].num + PerTask
      BY <1>3, <2>2
    <3>5. PerTask * run[e].num \in Nat
      BY <1>3, <2>2
    <3>6. (k - PerTask) + PerTask * (run[e].num + 1) = run[e].counted
      BY <1>3, <2>1, <2>2, <2>4, <3>4, <3>5
    <3>7. Cardinality(to) <= PerTask
      BY <2>2, <3>1
    <3>8. Cardinality(run'[e].rest) = k - PerTask
      BY <1>1, <3>2, Zenon
    <3>9. Shared(e)'
      BY <1>1, <1>2, <2>1, <3>7 DEF Shared
    <3>. QED  BY <1>1, <3>3, <3>6, <3>8, <3>9
  <2>7. CASE ~(k > PerTask /\ run[e].num < run[e].total - 1)
    <3>1. to = run[e].rest
      BY <1>1, <2>4, <2>7 DEF NextBatches
    <3>2. k <= PerTask
      BY <1>3, <2>2, <2>5, <2>7
    <3>3. Cardinality(to) <= PerTask
      BY <2>4, <3>1, <3>2, Zenon
    <3>4. run'[e].rest = {} /\ run'[e].num = run'[e].total
      BY <1>1, <2>5, <3>1, <3>2
    <3>5. Shared(e)'
      BY <1>1, <1>2, <2>1, <3>3 DEF Shared
    <3>. QED  BY <3>4, <3>5
  <2>. QED  BY <2>6, <2>7
<1>. QED  BY <1>1, <1>4, <1>5 DEF Chunked

\* The other steps of an execution.
LEMMA ExecuteChunks ==
    ASSUME ChunkInv, NEW e \in Executions, Begin(e) \/ Execute(e) \/ Crash(e)
    PROVE  Chunked(e)'
<1>1. /\ ParentInv /\ CountInv
      /\ IsRun(run[e])
      /\ Counts(run[e])
      /\ ParentOK(run[e])
      /\ run[e].total \in Nat
      /\ run[e].counted \in Nat
      /\ run[e].rest \subseteq Recipients
      /\ Chunked(e)
  BY ParentTypes DEF ChunkInv, ParentInv
<1>. USE DEF PCs, Busy, Ended
<1>2. ASSUME NEW pc \in PCs \ {"query", "publish", "on_success"}, Goto(e, pc)
      PROVE  Chunked(e)'
  BY <1>1, <1>2, GotoFrame, NoChunks
<1>3. ASSUME NEW r, Step(e, r),
             \/ r.pc \notin {"query", "publish", "on_success"}
             \/ r.pc = "on_success" /\ r.total = 0
      PROVE  Chunked(e)'
  BY <1>1, <1>3, StepFrame, NoChunks
<1>4. CASE Begin(e)
  <2>. DEFINE r == [run[e] EXCEPT !.pc = "mark", !.seen = row]
  <2>1. r.pc = "mark"
    BY <1>1 DEF IsRun, Runs
  <2>2. Step(e, r)
    BY <1>4 DEF Begin
  <2>. HIDE DEF r
  <2>. QED  BY <1>3, <2>1, <2>2
<1>5. CASE Mark(e) \/ SaveSuccess(e) \/ SaveFailure(e)
  BY <1>2, <1>5 DEF Mark, SaveSuccess, SaveFailure
<1>6. CASE Raises(e) \/ PublishFails(e) \/ Crash(e)
  BY <1>2, <1>6 DEF Raises, PublishFails, Crash
<1>7. CASE Load(e)
  <2>. DEFINE pc == IF HasSubtasks(row) THEN "on_success" ELSE "count"
              r == [run[e] EXCEPT !.pc = pc, !.seen = row]
  <2>1. pc \in {"on_success", "count"} /\ Step(e, r) /\ run[e].pc = "load"
    BY <1>7 DEF Load
  <2>. HIDE DEF pc
  <2>2. r.pc = pc /\ r.total = run[e].total
    BY <1>1 DEF IsRun, Runs
  <2>. HIDE DEF r
  <2>. QED  BY <1>1, <1>3, <2>1, <2>2 DEF ParentOK, Early
<1>8. CASE Count(e)
  <2>1. CASE listed = {}
    BY <1>2, <1>8, <2>1 DEF Count
  <2>2. CASE listed # {}
    <3>. DEFINE n == Cardinality(listed)
                r == [run[e] EXCEPT !.pc = "define", !.counted = n]
    <3>1. Step(e, r)
      BY <1>8, <2>2 DEF Count
    <3>. HIDE DEF n
    <3>2. r.pc = "define"
      BY <1>1 DEF IsRun, Runs
    <3>. HIDE DEF r
    <3>. QED  BY <1>3, <3>1, <3>2
  <2>. QED  BY <2>1, <2>2
<1>9. CASE Initialize(e)
  <2>. DEFINE n == NumberOfSubtasks(run[e].counted)
              r == [run[e] EXCEPT !.pc = "query", !.total = n]
  <2>1. Step(e, r) /\ run[e].pc = "define"
    BY <1>9 DEF Initialize
  <2>. HIDE DEF n
  <2>2. r.pc = "query" /\ r.total = n /\ r.counted = run[e].counted
    BY <1>1 DEF IsRun, Runs
  <2>. HIDE DEF r
  <2>3. run[e].counted # 0
    BY <1>1, <2>1 DEF Counts
  <2>4. run'[e] = r
    BY <1>1, <2>1, StepFrame
  <2>. QED  BY <2>2, <2>3, <2>4 DEF Chunked, n
<1>10. CASE Query(e)
  <2>. DEFINE r == [run[e] EXCEPT !.pc = "publish", !.rest = listed,
                                  !.queried = listed]
  <2>1. Step(e, r) /\ run[e].pc = "query" /\ UNCHANGED batches
    BY <1>10 DEF Query
  <2>2. /\ r.pc = "publish"
        /\ r.total = run[e].total
        /\ r.num = run[e].num
        /\ r.counted = run[e].counted
        /\ r.rest = listed
        /\ r.queried = listed
    BY <1>1 DEF IsRun, Runs
  <2>. HIDE DEF r
  <2>3. run'[e] = r
    BY <1>1, <2>1, StepFrame
  <2>4. run[e].num = 0 /\ run[e].counted # 0
        /\ run[e].total = NumberOfSubtasks(run[e].counted)
    BY <1>1, <2>1 DEF Counts, Chunked
  <2>5. \A id \in DOMAIN batches : id[1] # e
    <3>1. \A id \in DOMAIN batches :
             id[1] \in Executions /\ id[2] \in 1 .. run[id[1]].num
      BY <1>1 DEF ParentInv, BatchesOK
    <3>. QED  BY <2>4, <3>1
  <2>6. Shared(e)'
    BY <2>1, <2>2, <2>3, <2>5 DEF Shared
  <2>7. ASSUME Cardinality(r.queried) = r.counted
        PROVE  /\ r.rest # {}
               /\ Cardinality(r.rest) + PerTask * r.num = r.counted
    <3>1. Cardinality(r.rest) = r.counted
      BY <2>2, <2>7
    <3>2. PerTask * 0 = 0
      BY DelegationAssumption DEF DelegationAssumption
    <3>3. r.rest # {}
      BY <2>2, <2>4, <3>1, FS_EmptySet, Zenon
    <3>4. r.counted + 0 = r.counted
      BY <1>1, <2>2
    <3>5. Cardinality(r.rest) + PerTask * r.num = r.counted
      BY <2>2, <2>4, <3>1, <3>2, <3>4
    <3>. QED  BY <3>3, <3>5
  <2>. QED  BY <2>2, <2>3, <2>4, <2>6, <2>7 DEF Chunked
<1>11. CASE Publish(e)
  BY <1>11, PublishChunks
<1>12. CASE Return(e)
  <2>1. Goto(e, "on_success") /\ UNCHANGED batches
        /\ run[e].pc = "publish" /\ run[e].rest = {}
    BY <1>12 DEF Return
  <2>2. /\ run'[e].pc = "on_success"
        /\ run'[e].total = run[e].total
        /\ run'[e].num = run[e].num
        /\ run'[e].counted = run[e].counted
        /\ run'[e].queried = run[e].queried
        /\ run'[e].rest = run[e].rest
    BY <1>1, <2>1, GotoFrame
  <2>3. Shared(e) => Shared(e)'
    BY <2>1, <2>2 DEF Shared
  <2>. QED  BY <1>1, <2>1, <2>2, <2>3 DEF Chunked
<1>13. CASE Handle(e)
  <2>. DEFINE pc == IF run[e].pc = "on_failure" THEN "save_failure"
                    ELSE IF HasSubtasks(row) THEN "done"
                    ELSE "save_success"
              r == [run[e] EXCEPT !.pc = pc, !.seen = row]
  <2>1. pc \in {"save_failure", "done", "save_success"}
    OBVIOUS
  <2>2. Step(e, r)
    BY <1>13 DEF Handle
  <2>. HIDE DEF pc
  <2>3. r.pc = pc
    BY <1>1 DEF IsRun, Runs
  <2>. HIDE DEF r
  <2>. QED  BY <1>3, <2>1, <2>2, <2>3
<1>. QED
  BY <1>4, <1>5, <1>6, <1>7, <1>8, <1>9, <1>10, <1>11, <1>12, <1>13 DEF Execute

\* What an execution does is not another one's.
LEMMA OthersChunks ==
    ASSUME ChunkInv, NEW e \in Executions, Begin(e) \/ Execute(e) \/ Crash(e),
           NEW d \in Executions \ {e}
    PROVE  Chunked(d)'
<1>1. CountInv /\ Chunked(d)
  BY DEF ChunkInv, ParentInv
<1>2. run'[d] = run[d]
  <2>1. \E r : Step(e, r)
    BY DEF Begin, Execute, Crash, Mark, Load, Count, Raises, Initialize, Query,
           Publish, PublishFails, Return, Handle, SaveSuccess, SaveFailure, Goto
  <2>. QED  BY <1>1, <2>1, StepFrame
<1>3. CASE Publish(e)
  <2>1. /\ DOMAIN batches' = DOMAIN batches \cup {Id(e, run[e].num + 1)}
        /\ \A id \in DOMAIN batches : batches'[id] = batches[id]
    BY <1>3, PublishFacts DEF ChunkInv
  <2>2. Id(e, run[e].num + 1)[1] = e
    BY DEF Id
  <2>. QED  BY <1>1, <1>2, <2>1, <2>2, SameChunks
<1>4. CASE ~Publish(e)
  <2>1. UNCHANGED batches
    BY <1>4 DEF Begin, Execute, Crash, Mark, Load, Count, Raises, Initialize,
                Query, PublishFails, Return, Handle, SaveSuccess, SaveFailure
  <2>. QED  BY <1>1, <1>2, <2>1, SameChunks
<1>. QED  BY <1>3, <1>4

LEMMA ChunkNext == ChunkInv /\ [Next]_vars => ChunkInv'
<1>. SUFFICES ASSUME ChunkInv, [Next]_vars PROVE ChunkInv'
  OBVIOUS
<1>1. ParentInv /\ ParentInv' /\ RestTypeOK /\ \A e \in Executions : Chunked(e)
  BY ParentNext DEF ChunkInv, ParentInv
<1>2. ASSUME NEW e \in Executions, Begin(e) \/ Execute(e) \/ Crash(e)
      PROVE  ChunkInv'
  <2>1. \A d \in Executions : Chunked(d)'
    BY <1>2, ExecuteChunks, OthersChunks
  <2>. QED  BY <1>1, <2>1 DEF ChunkInv
<1>3. ASSUME run' = run, DOMAIN batches' = DOMAIN batches,
             \A x \in DOMAIN batches : batches'[x].to = batches[x].to
      PROVE  ChunkInv'
  <2>1. \A d \in Executions : Chunked(d)'
    BY <1>1, <1>3, SameChunks
  <2>. QED  BY <1>1, <2>1 DEF ChunkInv
<1>4. ASSUME NEW id \in DOMAIN batches, Start(id) \/ Finish(id) PROVE ChunkInv'
  <2>1. PICK state \in {"running", "refused", "over"} : SetBatch(id, state)
    BY <1>4 DEF Start, Finish
  <2>2. run' = run
    BY <1>4 DEF Start, Finish
  <2>. QED  BY <1>1, <1>3, <2>1, <2>2, BatchFrame
<1>5. ASSUME NEW l \in Recipients, Enroll(l) \/ Leave(l) PROVE ChunkInv'
  BY <1>3, <1>5 DEF Enroll, Leave
<1>6. CASE UNCHANGED vars
  BY <1>3, <1>6 DEF vars
<1>. QED  BY <1>2, <1>4, <1>5, <1>6 DEF Next, Environment

LEMMA ChunkInit == Init => ChunkInv
<1>. SUFFICES ASSUME Init PROVE ChunkInv
  OBVIOUS
<1>1. \A e \in Executions : run[e].pc = "waiting"
  BY DEF Init, Waiting
<1>. QED  BY <1>1, ParentInit DEF ChunkInv, Chunked

\* When both queries have found as many recipients, _get_number_of_subtasks and
\* _generate_items_for_subtask agree: each id that was stored has its message,
\* no message is too large, and together they are sent to whom the query found.
THEOREM ChunksAgree == Spec => []ChunksAsCounted
<1>1. ChunkInv => ChunksAsCounted
  <2>. SUFFICES ASSUME ChunkInv, NEW e \in Executions, NEW sent,
                       sent = {id \in DOMAIN batches : id[1] = e},
                       run[e].pc = "on_success", run[e].total > 0,
                       Cardinality(run[e].queried) = run[e].counted
                PROVE  /\ sent = Ids(e, run[e].total)
                       /\ \A id \in sent : Cardinality(batches[id].to) <= PerTask
                       /\ UNION {batches[id].to : id \in sent} = run[e].queried
    BY Zenon DEF ChunksAsCounted
  <2>1. Shared(e) /\ run[e].rest = {} /\ run[e].num = run[e].total
    BY DEF ChunkInv, Chunked
  <2>2. run[e].queried \subseteq Recipients /\ run[e].total \in Nat
    BY ParentTypes DEF ChunkInv
  <2>3. batches \in [DOMAIN batches -> Batches]
    BY DEF ChunkInv, ParentInv, RestTypeOK
  <2>4. \A id \in DOMAIN batches : batches[id].to \subseteq Recipients
    BY <2>3 DEF Batches
  <2>5. sent = Ids(e, run[e].total)
    <3>1. \A id \in sent : id[2] \in 1 .. run[e].total /\ id = Id(e, id[2])
      BY <2>1 DEF ChunkInv, ParentInv, BatchesOK
    <3>2. \A i \in 1 .. run[e].total : Id(e, i) \in DOMAIN batches
      BY <2>1 DEF ChunkInv, ParentInv, BatchesOK
    <3>3. \A i : Id(e, i)[1] = e
      BY DEF Id
    <3>. QED  BY <3>1, <3>2, <3>3 DEF Ids
  <2>6. \A id \in sent : Cardinality(batches[id].to) <= PerTask
    BY <2>1 DEF Shared
  <2>7. UNION {batches[id].to : id \in sent} = run[e].queried
    BY <2>1, <2>2, <2>4 DEF Shared
  <2>. QED  BY <2>5, <2>6, <2>7
<1>. QED  BY ChunkInit, ChunkNext, <1>1, PTL DEF Spec
=============================================================================
