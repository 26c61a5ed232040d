--------------------------- MODULE SubtasksProofs ---------------------------
(***************************************************************************)
(* Proofs about Subtasks, for any number of subtasks, workers, recipients  *)
(* and faults.                                                             *)
(***************************************************************************)
EXTENDS SubtasksFanOut, FiniteSetTheorems, SequenceTheorems, TLAPS

\* A status keeps its type through every way in which a run changes it.
LEMMA StatusTypes ==
    ASSUME NEW st \in Statuses, NEW n \in Nat, NEW state \in States
    PROVE  /\ AddSucceeded(st, n) \in Statuses
           /\ AddFailed(st, n) \in Statuses
           /\ AddSkipped(st, n) \in Statuses
           /\ InState(st, state) \in Statuses
           /\ RetryNoMax(st) \in Statuses
           /\ RetryWithMax(st) \in Statuses
           /\ RetryCount(st) \in Nat
<1>0. /\ "RETRY" \in States
      /\ st.succeeded + n \in Nat
      /\ st.failed + n \in Nat
      /\ st.attempted + n \in Nat
      /\ st.skipped + n \in Nat
      /\ st.retried_nomax + 1 \in Nat
      /\ st.retried_withmax + 1 \in Nat
      /\ RetryCount(st) \in Nat
  BY DEF Statuses, States, UNREADY_STATES, RetryCount
<1>1. \A x, y \in Nat :
         /\ [st EXCEPT !.succeeded = x, !.attempted = y] \in Statuses
         /\ [st EXCEPT !.failed = x, !.attempted = y] \in Statuses
         /\ [st EXCEPT !.skipped = x] \in Statuses
  BY DEF Statuses
<1>2. \A x \in Nat : \A z \in States :
         /\ [st EXCEPT !.retried_nomax = x, !.state = z] \in Statuses
         /\ [st EXCEPT !.retried_withmax = x, !.state = z] \in Statuses
         /\ [st EXCEPT !.state = z] \in Statuses
  BY DEF Statuses
<1>3. AddSucceeded(st, n) \in Statuses
  BY <1>0, <1>1 DEF AddSucceeded
<1>4. AddFailed(st, n) \in Statuses
  BY <1>0, <1>1 DEF AddFailed
<1>5. AddSkipped(st, n) \in Statuses
  BY <1>0, <1>1 DEF AddSkipped
<1>6. RetryNoMax(st) \in Statuses
  BY <1>0, <1>2 DEF RetryNoMax
<1>7. RetryWithMax(st) \in Statuses
  BY <1>0, <1>2 DEF RetryWithMax
<1>8. InState(st, state) \in Statuses
  BY <1>2 DEF InState
<1> QED
  BY <1>0, <1>3, <1>4, <1>5, <1>6, <1>7, <1>8

\* A new status has the type of a status.
LEMMA NewStatusType == NewStatus \in Statuses
BY DEF NewStatus, Statuses, States, UNREADY_STATES

\* _update_subtask_status keeps the row a row that knows the same subtasks.
LEMMA UpdateType ==
    ASSUME NEW e \in Entries(Subtasks), NEW s \in Subtasks, NEW st \in Statuses
    PROVE  UpdateSubtaskStatus(e, s, st) \in Entries(Subtasks)
<1> DEFINE ready == st.state \in READY_STATES
           succeeded == e.succeeded + (IF st.state = "SUCCESS" THEN 1 ELSE 0)
           failed == e.failed
                       + (IF ready /\ st.state # "SUCCESS" THEN 1 ELSE 0)
           progress == IF ready
                       THEN [n \in StatNames |-> e.progress[n] + st[n]]
                       ELSE e.progress
           state == IF succeeded + failed >= e.total
                    THEN "SUCCESS" ELSE e.task_state
<1>1. succeeded \in Nat /\ failed \in Nat
  BY DEF Entries
<1>2. progress \in [StatNames -> Nat]
  BY DEF Entries, Statuses, StatNames
<1>3. state \in States
  BY DEF Entries, States, READY_STATES
<1>4. [e.status EXCEPT ![s] = st] \in [Subtasks -> Statuses]
  BY DEF Entries
<1> QED
  BY <1>1, <1>2, <1>3, <1>4 DEF UpdateSubtaskStatus, Entries

\* A run keeps its type through the changes that the actions make to it.
LEMMA RunTypes ==
    ASSUME NEW r \in Runs
    PROVE  /\ \A pc \in PCs : [r EXCEPT !.pc = pc] \in Runs
           /\ \A pc \in PCs : [r EXCEPT !.pc = pc, !.holds = TRUE] \in Runs
           /\ \A pc \in PCs : [r EXCEPT !.pc = pc, !.ok = FALSE] \in Runs
           /\ \A st \in Statuses, list \in Seq(Recipients) :
                 /\ [r EXCEPT !.st = st, !.list = list] \in Runs
                 /\ \A pc \in PCs :
                       [r EXCEPT !.pc = pc, !.list = list, !.st = st] \in Runs
           /\ \A pc \in PCs, st \in Statuses, next \in Nexts :
                 [r EXCEPT !.pc = pc, !.st = st, !.next = next,
                           !.frames = 1, !.ok = TRUE] \in Runs
           /\ \A n \in Nat : /\ [r EXCEPT !.frames = n] \in Runs
                             /\ [r EXCEPT !.frames = n, !.holds = FALSE] \in Runs
BY DEF Runs

\* What TypeOK says of a worker that has a message.
LEMMA WorkingType ==
    ASSUME TypeOK, NEW w \in Workers, run[w].pc # "idle"
    PROVE  /\ run[w] \in Runs
           /\ run[w].sub \in Subtasks
           /\ run[w].list \in Seq(Recipients)
           /\ Len(run[w].list) \in Nat
           /\ run[w].num \in Nat
           /\ run[w].st \in Statuses
           /\ run[w].frames \in Nat
           /\ run[w].holds \in BOOLEAN
<1>1. run[w] \in Runs
  BY DEF TypeOK, Idle
<1> QED
  BY <1>1, LenProperties DEF Runs

\* A step of one worker keeps the type of run.
LEMMA StepType ==
    ASSUME TypeOK, NEW w \in Workers, NEW r \in Runs \cup {Idle}, Step(w, r)
    PROVE  run' \in [Workers -> Runs \cup {Idle}]
BY DEF TypeOK, Step

\* A fault takes one from what remains of its kind.
LEMMA SpendType ==
    ASSUME TypeOK, NEW kind \in FaultKinds, Spend(kind)
    PROVE  faults' \in [FaultKinds -> Nat]
<1>1. faults[kind] - 1 \in Nat
  BY DEF TypeOK, Spend
<1> QED
  BY <1>1 DEF TypeOK, Spend

\* The lists that a run mails are shortened at their end.
LEMMA FrontType ==
    ASSUME NEW S, NEW list \in Seq(S), list # <<>>
    PROVE  Front(list) \in Seq(S) /\ Last(list) \in S
<1>1. Len(list) \in Nat /\ Len(list) > 0
  BY EmptySeq, LenProperties
<1>2. Len(list) - 1 \in 0 .. Len(list)
  BY <1>1
<1>3. SubSeq(list, 1, Len(list) - 1) \in Seq(S)
  BY <1>1, <1>2, SubSeqProperties
<1>4. list[Len(list)] \in S
  BY <1>1, ElementOfSeq
<1> QED
  BY <1>3, <1>4 DEF Front, Last

-----------------------------------------------------------------------------
(* Type correctness                                                        *)

\* A run in update_subtask_status has at least one frame of it.
FramesOK ==
    \A w \in Workers : run[w].pc \in {"update", "release"} => run[w].frames > 0

\* TypeOK needs FramesOK: Release takes a frame away.
TypeInv == TypeOK /\ FramesOK

\* The initial state has the types, by the assumption on the constants.
LEMMA InitType == Init => TypeInv
<1> SUFFICES ASSUME Init PROVE TypeInv
  OBVIOUS
<1>1. entry \in Entries(Subtasks)
  <2>1. Cardinality(Subtasks) \in Nat /\ Cardinality(Recipients) \in Nat
    BY SubtasksAssumption, FS_CardinalityType
  <2>2. [s \in Subtasks |-> NewStatus] \in [Subtasks -> Statuses]
    BY NewStatusType
  <2>3. "PROGRESS" \in States
    BY DEF States, UNREADY_STATES
  <2> QED
    BY <2>1, <2>2, <2>3 DEF Init, InitializeSubtaskInfo, Entries
<1>2. /\ DOMAIN queue \subseteq Messages
      /\ \A m \in DOMAIN queue : queue[m] \in Nat \ {0}
  <2>1. \A s \in Subtasks : FirstMessage(s) \in Messages
    BY SubtasksAssumption, NewStatusType DEF FirstMessage, Messages
  <2> QED
    BY <2>1 DEF Init, SetToBag
<1>3. run \in [Workers -> Runs \cup {Idle}] /\ FramesOK
  BY DEF Init, Idle, FramesOK
<1>4. /\ locked \subseteq Subtasks
      /\ faults \in [FaultKinds -> Nat]
      /\ delivered \in [Recipients -> Nat]
      /\ refused \subseteq Recipients
      /\ tainted \subseteq Subtasks
  BY SubtasksAssumption DEF Init
<1> QED
  BY <1>1, <1>2, <1>3, <1>4 DEF TypeInv, TypeOK

\* A step of one worker keeps FramesOK when what becomes of it has a frame.
LEMMA StepFrames ==
    ASSUME TypeInv, NEW w \in Workers, NEW r \in Runs \cup {Idle}, Step(w, r),
           r.pc \in {"update", "release"} => r.frames > 0
    PROVE  FramesOK'
BY DEF TypeInv, TypeOK, FramesOK, Step

\* ToUpdate keeps the types.
LEMMA ToUpdateType ==
    ASSUME TypeInv, NEW w \in Workers, run[w].pc # "idle",
           NEW st \in Statuses, NEW next \in Nexts, ToUpdate(w, st, next)
    PROVE  run' \in [Workers -> Runs \cup {Idle}] /\ FramesOK'
<1> DEFINE r == [run[w] EXCEPT !.pc = "update", !.st = st, !.next = next,
                               !.frames = 1, !.ok = TRUE]
<1>1. run[w] \in Runs
  BY WorkingType DEF TypeInv
<1>2. r \in Runs
  BY <1>1, RunTypes, "update" \in PCs DEF PCs
<1>3. r.frames = 1
  BY <1>1 DEF Runs
<1>4. Step(w, r)
  BY DEF ToUpdate
<1> HIDE DEF r
<1> QED
  BY <1>2, <1>3, <1>4, StepType, StepFrames DEF TypeInv

\* Receiving a message keeps the types.
LEMMA ReceiveType ==
    ASSUME TypeInv, NEW w \in Workers, NEW m \in DOMAIN queue, Receive(w, m)
    PROVE  TypeInv'
<1>1. m \in Messages
  BY DEF TypeInv, TypeOK
<1>2. /\ DOMAIN queue' \subseteq Messages
      /\ \A n \in DOMAIN queue' : queue'[n] \in Nat \ {0}
  <2>1. CASE queue' = queue (-) SetToBag({m})
    BY <2>1 DEF TypeInv, TypeOK, (-), SetToBag
  <2>2. CASE UNCHANGED queue
    BY <2>2 DEF TypeInv, TypeOK
  <2> QED
    BY <2>1, <2>2 DEF Receive
<1>3. faults' \in [FaultKinds -> Nat]
  BY SpendType DEF Receive, FaultKinds, TypeInv, TypeOK
<1>4. run' \in [Workers -> Runs \cup {Idle}] /\ FramesOK'
  <2>1. CASE UNCHANGED run
    BY <2>1 DEF TypeInv, TypeOK, FramesOK
  <2>2. CASE Admits(entry, m.sub, m.st) /\ ~ UNCHANGED run
    <3> DEFINE r == [pc |-> "lock", sub |-> m.sub, list |-> m.list,
                     num |-> Len(m.list), st |-> m.st,
                     seen |-> entry.status[m.sub], next |-> "end",
                     frames |-> 0, ok |-> TRUE, holds |-> FALSE]
    <3>1. /\ m.sub \in Subtasks
          /\ m.list \in Seq(Recipients)
          /\ Len(m.list) \in Nat
          /\ m.st \in Statuses
      BY <1>1, LenProperties DEF Messages
    <3>2. entry.status[m.sub] \in Statuses
      BY <3>1 DEF TypeInv, TypeOK, Entries
    <3>3. r \in Runs /\ r.pc = "lock"
      BY <3>1, <3>2 DEF Runs, PCs, Nexts
    <3>4. Step(w, r)
      BY <2>2 DEF Receive
    <3> HIDE DEF r
    <3> QED
      BY <3>3, <3>4, StepType, StepFrames DEF TypeInv
  <2> QED
    BY <2>1, <2>2 DEF Receive
<1> QED
  BY <1>2, <1>3, <1>4 DEF Receive, TypeInv, TypeOK

\* Taking the lock, or failing to, keeps the types.
LEMMA LockType ==
    ASSUME TypeInv, NEW w \in Workers, Lock(w)
    PROVE  TypeInv'
<1>1. run[w] \in Runs /\ run[w].sub \in Subtasks
  BY WorkingType DEF Lock, TypeInv
<1>2. CASE Step(w, Idle) /\ UNCHANGED <<locked, tainted>>
  BY <1>2, StepType, StepFrames DEF Idle, Lock, TypeInv, TypeOK
<1>3. CASE /\ Step(w, [run[w] EXCEPT !.pc = "filter", !.holds = TRUE])
           /\ locked' = locked \cup {run[w].sub}
           /\ Taints(run[w].sub, run[w].seen # entry.status[run[w].sub])
  <2> DEFINE r == [run[w] EXCEPT !.pc = "filter", !.holds = TRUE]
  <2>1. r \in Runs /\ r.pc = "filter"
    <3>1. "filter" \in PCs
      BY DEF PCs
    <3>2. r \in Runs
      BY <1>1, <3>1, RunTypes
    <3> QED
      BY <1>1, <3>2 DEF Runs
  <2>2. Step(w, r)
    BY <1>3
  <2> HIDE DEF r
  <2>3. run' \in [Workers -> Runs \cup {Idle}] /\ FramesOK'
    BY <2>1, <2>2, StepType, StepFrames DEF TypeInv
  <2>4. locked' \subseteq Subtasks /\ tainted' \subseteq Subtasks
    BY <1>1, <1>3 DEF Taints, TypeInv, TypeOK
  <2> QED
    BY <2>3, <2>4 DEF Lock, TypeInv, TypeOK
<1> QED
  BY <1>2, <1>3 DEF Lock

\* Those who are counted as left out are no more than the rows left out, and as
\* many if no two of the rows are of one user.
LEMMA SkippedRows ==
    ASSUME NEW out, IsFiniteSet(out), NEW optouts \in SUBSET Users(out)
    PROVE  /\ Cardinality(out) \in Nat /\ Skipped(out, optouts) \in Nat
           /\ Skipped(out, optouts) <= Cardinality(out)
           /\ (\A q, r \in out : Person[q] = Person[r] => q = r) =>
                 Skipped(out, optouts) = Cardinality(out)
<1> DEFINE A == {r \in out : Person[r] \in optouts}
           B == {r \in out : Person[r] \notin optouts}
           f == [r \in A |-> Person[r]]
<1>1. /\ IsFiniteSet(A) /\ IsFiniteSet(B)
      /\ Cardinality(out) \in Nat /\ Cardinality(A) \in Nat
      /\ Cardinality(B) = Cardinality(out) - Cardinality(A)
      /\ Cardinality(B) \in Nat
  <2>1. B = out \ A /\ A = out \cap A
    OBVIOUS
  <2>2. IsFiniteSet(A)
    BY FS_Subset
  <2>3. /\ IsFiniteSet(out \ A)
        /\ Cardinality(out \ A) = Cardinality(out) - Cardinality(out \cap A)
    BY FS_Difference
  <2>4. IsFiniteSet(B) /\ Cardinality(B) = Cardinality(out) - Cardinality(A)
    <3> HIDE DEF A, B
    <3>. QED  BY <2>1, <2>3
  <2>. QED  BY <2>2, <2>4, FS_CardinalityType
<1>2. f \in Surjection(A, optouts)
  <2>1. f \in [A -> optouts]
    OBVIOUS
  <2>2. \A u \in optouts : \E r \in A : f[r] = u
    BY DEF Users
  <2>. QED  BY <2>1, <2>2 DEF Surjection
<1>3. /\ IsFiniteSet(optouts) /\ Cardinality(optouts) <= Cardinality(A)
      /\ f \in Injection(A, optouts) => Cardinality(optouts) = Cardinality(A)
  <2> HIDE DEF f, A
  <2>. QED  BY <1>1, <1>2, FS_Surjection
<1>4. Cardinality(optouts) \in Nat
  BY <1>3, FS_CardinalityType
<1>5. (\A q, r \in out : Person[q] = Person[r] => q = r) => f \in Injection(A, optouts)
  BY <1>2 DEF Injection, Surjection, IsInjective
<1>6. Skipped(out, optouts) = Cardinality(optouts) + Cardinality(B)
  BY DEF Skipped
<1> HIDE DEF A, B, f
<1>. QED  BY <1>1, <1>3, <1>4, <1>5, <1>6

\* Filtering the recipients keeps the types.
LEMMA FilterType ==
    ASSUME TypeInv, NEW w \in Workers, Filter(w)
    PROVE  TypeInv'
<1>1. /\ run[w] \in Runs
      /\ run[w].list \in Seq(Recipients)
      /\ run[w].st \in Statuses
  BY WorkingType DEF Filter, TypeInv
<1>2. CASE RetryCount(run[w].st) = 0
  <2>1. PICK left \in SeqOf(ToSet(run[w].list), Len(run[w].list)) :
            LET out == ToSet(run[w].list) \ ToSet(left)
            IN  /\ \E optouts \in SUBSET Users(out) :
                      Step(w, [run[w] EXCEPT
                         !.pc = "connect", !.list = left,
                         !.st = AddSkipped(@, Skipped(out, optouts))])
                /\ refused' = refused \cup out
    BY <1>2 DEF Filter
  <2> DEFINE out == ToSet(run[w].list) \ ToSet(left)
  <2>0. PICK optouts \in SUBSET Users(out) :
            /\ Step(w, [run[w] EXCEPT
                  !.pc = "connect", !.list = left,
                  !.st = AddSkipped(@, Skipped(out, optouts))])
            /\ refused' = refused \cup out
    BY <2>1
  <2> DEFINE st == AddSkipped(run[w].st, Skipped(out, optouts))
             r == [run[w] EXCEPT !.pc = "connect", !.list = left, !.st = st]
  <2>2. ToSet(run[w].list) \subseteq Recipients
    BY <1>1, ElementOfSeq, LenProperties DEF ToSet
  <2>3. left \in Seq(Recipients)
    BY <2>2, LenProperties, <1>1 DEF SeqOf
  <2>4. out \subseteq Recipients /\ Skipped(out, optouts) \in Nat
    <3>1. out \subseteq Recipients /\ IsFiniteSet(out)
      BY <2>2, SubtasksAssumption, FS_Subset
    <3> HIDE DEF out
    <3>. QED  BY <3>1, SkippedRows
  <2>5. st \in Statuses
    <3> HIDE DEF out
    <3> QED
      BY <1>1, <2>4, StatusTypes DEF States, READY_STATES
  <2>6. r \in Runs /\ r.pc = "connect"
    <3> HIDE DEF st
    <3>1. "connect" \in PCs
      BY DEF PCs
    <3>2. r \in Runs
      BY <1>1, <2>3, <2>5, <3>1, RunTypes
    <3> QED
      BY <1>1, <3>2 DEF Runs
  <2>7. Step(w, r) /\ refused' = refused \cup out
    BY <2>0
  <2> HIDE DEF r, out
  <2>8. run' \in [Workers -> Runs \cup {Idle}] /\ FramesOK'
    BY <2>6, <2>7, StepType, StepFrames DEF TypeInv
  <2> QED
    BY <2>4, <2>7, <2>8 DEF Filter, TypeInv, TypeOK
<1>3. CASE RetryCount(run[w].st) # 0
  <2> DEFINE r == [run[w] EXCEPT !.pc = "connect"]
  <2>1. r \in Runs /\ r.pc = "connect"
    <3>1. "connect" \in PCs
      BY DEF PCs
    <3>2. r \in Runs
      BY <1>1, <3>1, RunTypes
    <3> QED
      BY <1>1, <3>2 DEF Runs
  <2>2. Step(w, r) /\ UNCHANGED refused
    BY <1>3 DEF Filter
  <2> HIDE DEF r
  <2>3. run' \in [Workers -> Runs \cup {Idle}] /\ FramesOK'
    BY <2>1, <2>2, StepType, StepFrames DEF TypeInv
  <2> QED
    BY <2>2, <2>3 DEF Filter, TypeInv, TypeOK
<1> QED
  BY <1>2, <1>3

\* Connecting, and dealing with one recipient, keep the types.
LEMMA SendType ==
    ASSUME TypeInv, NEW w \in Workers,
           Connect(w) \/ SendAccepted(w) \/ SendRejected(w)
    PROVE  TypeInv'
<1>1. /\ run[w] \in Runs
      /\ run[w].list \in Seq(Recipients)
      /\ run[w].st \in Statuses
  BY WorkingType DEF Connect, SendAccepted, SendRejected, TypeInv
<1>2. ASSUME NEW r \in Runs, r.pc \notin {"update", "release"}, Step(w, r)
      PROVE  run' \in [Workers -> Runs \cup {Idle}] /\ FramesOK'
  BY <1>2, StepType, StepFrames DEF TypeInv
<1>3. CASE Connect(w)
  <2>1. /\ [run[w] EXCEPT !.pc = "send"] \in Runs
        /\ [run[w] EXCEPT !.pc = "send"].pc = "send"
    <3>1. "send" \in PCs
      BY DEF PCs
    <3>2. [run[w] EXCEPT !.pc = "send"] \in Runs
      BY <1>1, <3>1, RunTypes
    <3> QED
      BY <1>1, <3>2 DEF Runs
  <2> QED
    BY <1>2, <1>3, <2>1 DEF Connect, TypeInv, TypeOK
<1>4. CASE SendAccepted(w)
  <2> DEFINE st == AddSucceeded(run[w].st, 1)
             list == Front(run[w].list)
             r == [run[w] EXCEPT !.st = st, !.list = list]
  <2>1. list \in Seq(Recipients) /\ Last(run[w].list) \in Recipients
    BY <1>1, <1>4, FrontType DEF SendAccepted
  <2>2. st \in Statuses
    BY <1>1, StatusTypes DEF States, READY_STATES
  <2>3. r \in Runs /\ r.pc = "send"
    <3> HIDE DEF st, list
    <3>1. r \in Runs
      BY <1>1, <2>1, <2>2, RunTypes
    <3> QED
      BY <1>1, <1>4, <3>1 DEF Runs, SendAccepted
  <2>4. Step(w, r)
    BY <1>4 DEF SendAccepted
  <2> HIDE DEF r
  <2>5. run' \in [Workers -> Runs \cup {Idle}] /\ FramesOK'
    BY <1>2, <2>3, <2>4
  <2>6. delivered' \in [Recipients -> Nat]
    BY <1>4, <2>1 DEF SendAccepted, TypeInv, TypeOK
  <2> QED
    BY <1>4, <2>5, <2>6 DEF SendAccepted, TypeInv, TypeOK
<1>5. CASE SendRejected(w)
  <2> DEFINE st == AddFailed(run[w].st, 1)
             list == Front(run[w].list)
             r == [run[w] EXCEPT !.st = st, !.list = list]
  <2>1. list \in Seq(Recipients)
    BY <1>1, <1>5, FrontType DEF SendRejected
  <2>2. st \in Statuses
    BY <1>1, StatusTypes DEF States, READY_STATES
  <2>3. r \in Runs /\ r.pc = "send"
    <3> HIDE DEF st, list
    <3>1. r \in Runs
      BY <1>1, <2>1, <2>2, RunTypes
    <3> QED
      BY <1>1, <1>5, <3>1 DEF Runs, SendRejected
  <2>4. Step(w, r)
    BY <1>5 DEF SendRejected
  <2> HIDE DEF r
  <2>5. run' \in [Workers -> Runs \cup {Idle}] /\ FramesOK'
    BY <1>2, <2>3, <2>4
  <2> QED
    BY <1>5, <2>5 DEF SendRejected, TypeInv, TypeOK
<1> QED
  BY <1>3, <1>4, <1>5

\* Every way of ending the mailing keeps the types.
LEMMA EndSendType ==
    ASSUME TypeInv, NEW w \in Workers,
           \/ SendThrottled(w) \/ SendInterrupted(w) \/ SendFatal(w)
           \/ SendDone(w) \/ SendUnexpected(w) \/ RetryFails(w)
    PROVE  TypeInv'
<1> USE DEF SendThrottled, SendInterrupted, SendFatal, SendDone,
            SendUnexpected, RetryFails
<1>1. /\ run[w].pc # "idle"
      /\ run[w].st \in Statuses
      /\ Len(run[w].list) \in Nat
      /\ run[w].num \in Nat
  BY WorkingType DEF TypeInv
<1>2. /\ RetryNoMax(run[w].st) \in Statuses
      /\ RetryWithMax(run[w].st) \in Statuses
      /\ InState(run[w].st, "SUCCESS") \in Statuses
      /\ InState(AddFailed(run[w].st, Len(run[w].list)), "FAILURE") \in Statuses
      /\ AllFailed(run[w]) \in Statuses
  BY <1>1, StatusTypes DEF AllFailed, States, READY_STATES
<1>3. PICK st \in Statuses, next \in Nexts : ToUpdate(w, st, next)
  BY <1>2 DEF Nexts
<1>4. run' \in [Workers -> Runs \cup {Idle}] /\ FramesOK'
  BY <1>1, <1>3, ToUpdateType
<1>5. faults' \in [FaultKinds -> Nat]
  BY SpendType DEF FaultKinds, TypeInv, TypeOK
<1> QED
  BY <1>4, <1>5 DEF TypeInv, TypeOK

\* The update of the row keeps the types, whether it commits or not.
LEMMA UpdatingType ==
    ASSUME TypeInv, NEW w \in Workers, UpdateCommits(w) \/ UpdateFails(w)
    PROVE  TypeInv'
<1>1. /\ run[w] \in Runs
      /\ run[w].sub \in Subtasks
      /\ run[w].st \in Statuses
      /\ run[w].frames \in Nat
      /\ run[w].frames > 0
  BY WorkingType DEF UpdateCommits, UpdateFails, TypeInv, FramesOK
<1>2. "release" \in PCs
  BY DEF PCs
<1>3. ASSUME NEW r \in Runs, r.frames > 0, Step(w, r)
      PROVE  run' \in [Workers -> Runs \cup {Idle}] /\ FramesOK'
  BY <1>3, StepType, StepFrames DEF TypeInv
<1>4. CASE UpdateCommits(w)
  <2> DEFINE r == [run[w] EXCEPT !.pc = "release"]
  <2>1. r \in Runs
    BY <1>1, <1>2, RunTypes
  <2>2. r.frames > 0
    BY <1>1 DEF Runs
  <2>3. Step(w, r)
    BY <1>4 DEF UpdateCommits
  <2> HIDE DEF r
  <2>4. entry' \in Entries(Subtasks)
    BY <1>1, <1>4, UpdateType DEF UpdateCommits, TypeInv, TypeOK
  <2> QED
    BY <1>3, <1>4, <2>1, <2>2, <2>3, <2>4 DEF UpdateCommits, TypeInv, TypeOK
<1>5. CASE UpdateFails(w)
  <2>1. faults' \in [FaultKinds -> Nat]
    BY <1>5, SpendType DEF UpdateFails, FaultKinds, TypeInv
  <2>2. tainted' \subseteq Subtasks
    BY <1>1, <1>5 DEF UpdateFails, Taints, TypeInv, TypeOK
  <2>3. run' \in [Workers -> Runs \cup {Idle}] /\ FramesOK'
    <3>1. CASE run[w].frames < MaxDbRetries
      <4> DEFINE r == [run[w] EXCEPT !.frames = @ + 1]
      <4>1. run[w].frames + 1 \in Nat /\ run[w].frames + 1 > 0
        BY <1>1
      <4>2. r \in Runs /\ r.frames = run[w].frames + 1
        <5>1. r \in Runs
          BY <1>1, <4>1, RunTypes
        <5> QED
          BY <1>1, <5>1 DEF Runs
      <4>3. Step(w, r)
        BY <1>5, <3>1 DEF UpdateFails
      <4> HIDE DEF r
      <4> QED
        BY <1>3, <4>1, <4>2, <4>3
    <3>2. CASE ~(run[w].frames < MaxDbRetries)
      <4> DEFINE r == [run[w] EXCEPT !.pc = "release", !.ok = FALSE]
      <4>1. r \in Runs
        BY <1>1, <1>2, RunTypes
      <4>2. r.frames > 0
        BY <1>1 DEF Runs
      <4>3. Step(w, r)
        BY <1>5, <3>2 DEF UpdateFails
      <4> HIDE DEF r
      <4> QED
        BY <1>3, <4>1, <4>2, <4>3
    <3> QED
      BY <3>1, <3>2
  <2> QED
    BY <1>5, <2>1, <2>2, <2>3 DEF UpdateFails, TypeInv, TypeOK
<1> QED
  BY <1>4, <1>5

\* Leaving a frame of update_subtask_status, a run is a run or is over, and no longer holds the lock.
LEMMA ReleasedType ==
    ASSUME NEW r \in Runs, r.frames > 0
    PROVE  /\ Released(r) \in Runs \cup {Idle}
           /\ Released(r).pc \in {"update", "release"} =>
                 Released(r).frames > 0
           /\ Released(r) = Idle \/ Released(r).holds = FALSE
<1> DEFINE last == [r EXCEPT !.frames = @ - 1, !.holds = FALSE]
           retry == [last EXCEPT !.pc = "retry"]
           failed == [last EXCEPT !.pc = "update", !.st = AllFailed(r),
                                  !.next = "end", !.frames = 1, !.ok = TRUE]
<1>1. r.frames \in Nat /\ r.frames - 1 \in Nat
  BY DEF Runs
<1>2. last \in Runs /\ last.frames = r.frames - 1 /\ last.holds = FALSE
  <2>1. last \in Runs
    BY <1>1, RunTypes
  <2> QED
    BY <2>1 DEF Runs
<1> HIDE DEF last
<1>3. "retry" \in PCs /\ "update" \in PCs /\ "end" \in Nexts
  BY DEF PCs, Nexts
<1>4. retry \in Runs /\ retry.pc = "retry" /\ retry.holds = FALSE
  <2>1. retry \in Runs
    BY <1>2, <1>3, RunTypes
  <2> QED
    BY <1>2, <2>1 DEF Runs
<1>5. AllFailed(r) \in Statuses
  BY StatusTypes DEF Runs, AllFailed, States, READY_STATES
<1>6. failed \in Runs /\ failed.frames = 1 /\ failed.holds = FALSE
  <2>1. failed \in Runs
    BY <1>2, <1>3, <1>5, RunTypes
  <2> QED
    BY <1>2, <2>1 DEF Runs
<1>7. /\ r.frames > 1 => Released(r) = last
      /\ ~(r.frames > 1) => Released(r) \in {Idle, retry, failed}
  BY DEF Released, last
<1> HIDE DEF retry, failed
<1>8. CASE r.frames > 1
  BY <1>1, <1>2, <1>7, <1>8
<1>9. CASE ~(r.frames > 1)
  BY <1>4, <1>6, <1>7, <1>9 DEF Idle
<1> QED
  BY <1>8, <1>9

\* Releasing the lock keeps the types.
LEMMA ReleaseType ==
    ASSUME TypeInv, NEW w \in Workers, Release(w)
    PROVE  TypeInv'
<1>1. /\ run[w] \in Runs
      /\ run[w].sub \in Subtasks
      /\ run[w].frames > 0
  BY WorkingType DEF Release, TypeInv, FramesOK
<1>2. /\ Released(run[w]) \in Runs \cup {Idle}
      /\ Released(run[w]).pc \in {"update", "release"} =>
            Released(run[w]).frames > 0
  BY <1>1, ReleasedType
<1>3. run' \in [Workers -> Runs \cup {Idle}] /\ FramesOK'
  BY <1>2, StepType, StepFrames DEF Release, TypeInv
<1>4. locked' \subseteq Subtasks /\ tainted' \subseteq Subtasks
  BY <1>1 DEF Release, Taints, TypeInv, TypeOK
<1> QED
  BY <1>3, <1>4 DEF Release, TypeInv, TypeOK

\* Publishing a retry keeps the types.
LEMMA RetryPublishedType ==
    ASSUME TypeInv, NEW w \in Workers, RetryPublished(w)
    PROVE  TypeInv'
<1> DEFINE m == [sub |-> run[w].sub, list |-> run[w].list, st |-> run[w].st]
<1>1. m \in Messages
  BY WorkingType DEF RetryPublished, TypeInv, Messages
<1>2. queue' = queue (+) SetToBag({m})
  BY DEF RetryPublished
<1> HIDE DEF m
<1>3. /\ DOMAIN queue' \subseteq Messages
      /\ \A n \in DOMAIN queue' : queue'[n] \in Nat \ {0}
  BY <1>1, <1>2 DEF TypeInv, TypeOK, (+), SetToBag
<1>4. run' \in [Workers -> Runs \cup {Idle}] /\ FramesOK'
  BY StepType, StepFrames DEF RetryPublished, TypeInv, Idle
<1> QED
  BY <1>3, <1>4 DEF RetryPublished, TypeInv, TypeOK

\* The accidents of the environment keep the types.
LEMMA EnvironmentType ==
    ASSUME TypeInv, Environment
    PROVE  TypeInv'
<1>1. ASSUME NEW w \in Workers, Crash(w)
      PROVE  TypeInv'
  <2>1. run' \in [Workers -> Runs \cup {Idle}] /\ FramesOK'
    BY <1>1, StepType, StepFrames DEF Crash, TypeInv, Idle
  <2>2. run[w].sub \in Subtasks
    BY <1>1, WorkingType DEF Crash, Working, TypeInv
  <2>3. tainted' \subseteq Subtasks
    BY <1>1, <2>2 DEF Crash, Taints, TypeInv, TypeOK
  <2>4. faults' \in [FaultKinds -> Nat]
    BY <1>1, SpendType DEF Crash, FaultKinds, TypeInv
  <2> QED
    BY <1>1, <2>1, <2>3, <2>4 DEF Crash, TypeInv, TypeOK
<1>2. ASSUME NEW s \in Subtasks, LockExpire(s)
      PROVE  TypeInv'
  <2>1. faults' \in [FaultKinds -> Nat]
    BY <1>2, SpendType DEF LockExpire, FaultKinds, TypeInv
  <2> QED
    BY <1>2, <2>1 DEF LockExpire, Taints, TypeInv, TypeOK, FramesOK
<1> QED
  BY <1>1, <1>2 DEF Environment

\* No step changes the types.
LEMMA NextType == TypeInv /\ [Next]_vars => TypeInv'
<1> SUFFICES ASSUME TypeInv, [Next]_vars PROVE TypeInv'
  OBVIOUS
<1>1. CASE UNCHANGED vars
  BY <1>1 DEF vars, TypeInv, TypeOK, FramesOK
<1>2. ASSUME NEW w \in Workers, Work(w)
      PROVE  TypeInv'
  BY <1>2, ReceiveType, LockType, FilterType, SendType, EndSendType,
     UpdatingType, ReleaseType, RetryPublishedType DEF Work, Process
<1>3. CASE Environment
  BY <1>3, EnvironmentType
<1> QED
  BY <1>1, <1>2, <1>3 DEF Next

\* The types hold throughout every execution, whatever the numbers of
\* subtasks, workers, recipients, retries and faults.
THEOREM TypeCorrect == Spec => []TypeOK
<1>1. TypeInv => TypeOK
  BY DEF TypeInv
<1> QED
  BY <1>1, InitType, NextType, PTL DEF Spec

-----------------------------------------------------------------------------
(* Mutual exclusion                                                        *)

\* The cache key of a clean subtask stays set while a worker holds it.
HoldersLock ==
    \A s \in Subtasks : Clean(s) =>
        \A w \in Workers : Holds(w) /\ run[w].sub = s => s \in locked

\* CleanMutualExclusion is not inductive: that Lock finds the key unset tells
\* that nobody holds the subtask only because of HoldersLock.
LockInv == TypeInv /\ HoldersLock /\ CleanMutualExclusion

\* A step in which no worker comes to hold a lock and no key is deleted.
LEMMA QuietStep ==
    ASSUME LockInv, NEW w \in Workers, NEW r \in Runs \cup {Idle}, Step(w, r),
           locked \subseteq locked', tainted \subseteq tainted',
           r = Idle \/ r.holds = FALSE
             \/ (r.holds = run[w].holds /\ r.sub = run[w].sub /\ Working(w))
    PROVE  HoldersLock' /\ CleanMutualExclusion'
<1>1. /\ run'[w] = r
      /\ \A v \in Workers \ {w} : run'[v] = run[v]
  BY DEF LockInv, TypeInv, TypeOK, Step
<1>2. \A v \in Workers : Holds(v)' => Holds(v) /\ run'[v].sub = run[v].sub
  BY <1>1 DEF Holds, Working, Idle
<1> QED
  BY <1>2 DEF LockInv, HoldersLock, CleanMutualExclusion, Clean

\* Lock makes the worker the only holder of its subtask.
LEMMA LockStep ==
    ASSUME LockInv, NEW w \in Workers, Lock(w)
    PROVE  HoldersLock' /\ CleanMutualExclusion'
<1>1. run[w] \in Runs /\ run[w].sub \in Subtasks /\ Working(w)
  BY WorkingType DEF Lock, LockInv, TypeInv, Working
<1>2. CASE run[w].sub \in locked
  BY <1>2, QuietStep DEF Lock
<1>3. CASE run[w].sub \notin locked
  <2> DEFINE r == [run[w] EXCEPT !.pc = "filter", !.holds = TRUE]
  <2>1. Step(w, r) /\ locked' = locked \cup {run[w].sub}
    BY <1>3 DEF Lock
  <2>2. tainted \subseteq tainted'
    BY <1>3 DEF Lock, Taints
  <2>3. r.sub = run[w].sub
    BY <1>1 DEF Runs
  <2> HIDE DEF r
  <2>4. /\ run'[w].sub = run[w].sub
        /\ \A v \in Workers \ {w} : run'[v] = run[v]
    BY <2>1, <2>3 DEF LockInv, TypeInv, TypeOK, Step
  <2>5. \A v \in Workers \ {w} : Holds(v)' <=> Holds(v)
    BY <2>4 DEF Holds, Working
  <2>6. \A v \in Workers : Clean(run[w].sub) /\ Holds(v) =>
            run[v].sub # run[w].sub
    BY <1>1, <1>3 DEF LockInv, HoldersLock
  <2>7. HoldersLock'
    BY <2>1, <2>2, <2>4, <2>5 DEF LockInv, HoldersLock, Clean
  <2>8. CleanMutualExclusion'
    <3> SUFFICES ASSUME NEW s \in Subtasks, s \notin tainted',
                        NEW u \in Workers, NEW v \in Workers,
                        Holds(u)', Holds(v)',
                        run'[u].sub = s, run'[v].sub = s
                 PROVE  u = v
      BY DEF CleanMutualExclusion, Clean
    <3>1. CASE u # w /\ v # w
      BY <2>2, <2>4, <2>5, <3>1 DEF LockInv, CleanMutualExclusion, Clean
    <3>2. CASE u = w /\ v # w
      BY <2>2, <2>4, <2>5, <2>6, <3>2 DEF Clean
    <3>3. CASE u # w /\ v = w
      BY <2>2, <2>4, <2>5, <2>6, <3>3 DEF Clean
    <3> QED
      BY <3>1, <3>2, <3>3
  <2> QED
    BY <2>7, <2>8
<1> QED
  BY <1>2, <1>3

\* Release deletes the worker's own key, or taints the subtask.
LEMMA ReleaseStep ==
    ASSUME LockInv, NEW w \in Workers, Release(w)
    PROVE  HoldersLock' /\ CleanMutualExclusion'
<1> DEFINE s == run[w].sub
<1>1. run[w] \in Runs /\ s \in Subtasks /\ run[w].frames > 0 /\ Working(w)
  BY WorkingType DEF Release, LockInv, TypeInv, FramesOK, Working
<1>2. Released(run[w]) = Idle \/ Released(run[w]).holds = FALSE
  BY <1>1, ReleasedType
<1>3. Step(w, Released(run[w])) /\ locked' = locked \ {s}
  BY DEF Release
<1>4. /\ run'[w] = Released(run[w])
      /\ \A v \in Workers \ {w} : run'[v] = run[v]
  BY <1>3 DEF LockInv, TypeInv, TypeOK, Step
<1>5. /\ ~Holds(w)'
      /\ \A v \in Workers \ {w} : Holds(v)' <=> Holds(v)
  BY <1>2, <1>4 DEF Holds, Working, Idle
<1>6. tainted \subseteq tainted'
  BY DEF Release, Taints
<1>7. CleanMutualExclusion'
  BY <1>4, <1>5, <1>6 DEF LockInv, CleanMutualExclusion, Clean
<1>8. ASSUME s \notin tainted', NEW v \in Workers \ {w}, Holds(v), run[v].sub = s
      PROVE  FALSE
  <2>1. s \notin tainted
    BY <1>6, <1>8
  <2>2. s \in locked
    BY <1>1, <1>8, <2>1 DEF LockInv, HoldersLock, Clean
  <2>3. Holds(w)
    BY <1>1, <1>8, <2>2 DEF Release, Taints, Holds
  <2> QED
    BY <1>1, <1>8, <2>1, <2>3 DEF LockInv, CleanMutualExclusion, Clean
<1> HIDE DEF s
<1>9. HoldersLock'
  BY <1>3, <1>4, <1>5, <1>6, <1>8 DEF LockInv, HoldersLock, Clean
<1> QED
  BY <1>7, <1>9

\* All other steps of a worker leave holders and keys alone.
LEMMA OtherStep ==
    ASSUME LockInv, NEW w \in Workers,
           \/ \E m \in DOMAIN queue : Receive(w, m)
           \/ Process(w) /\ ~Lock(w) /\ ~Release(w)
    PROVE  HoldersLock' /\ CleanMutualExclusion'
<1>1. CASE \E m \in DOMAIN queue : Receive(w, m)
  <2> PICK m \in DOMAIN queue : Receive(w, m)
    BY <1>1
  <2>1. CASE UNCHANGED run
    BY <2>1 DEF Receive, LockInv, HoldersLock, CleanMutualExclusion, Clean,
                Holds, Working
  <2>2. CASE ~UNCHANGED run
    <3>1. /\ ~Holds(w)'
          /\ \A v \in Workers \ {w} : run'[v] = run[v]
      BY <2>2 DEF Receive, Step, LockInv, TypeInv, TypeOK, Holds
    <3> QED
      BY <3>1 DEF Receive, LockInv, HoldersLock, CleanMutualExclusion, Clean,
                  Holds, Working
  <2> QED
    BY <2>1, <2>2
<1>2. CASE Process(w) /\ ~Lock(w) /\ ~Release(w)
  <2>1. run[w] \in Runs /\ Working(w)
    BY <1>2, WorkingType
    DEF Process, Filter, Connect, SendAccepted, SendRejected, SendThrottled,
        SendInterrupted, SendFatal, SendDone, SendUnexpected, UpdateCommits,
        UpdateFails, RetryPublished, RetryFails, LockInv, TypeInv, Working
  <2>2. UNCHANGED locked /\ tainted \subseteq tainted'
    BY <1>2
    DEF Process, Filter, Connect, SendAccepted, SendRejected, SendThrottled,
        SendInterrupted, SendFatal, SendDone, SendUnexpected, UpdateCommits,
        UpdateFails, RetryPublished, RetryFails, Taints
  <2>3. \/ run'[w] = Idle
        \/ run'[w].holds = run[w].holds /\ run'[w].sub = run[w].sub
    <3> DEFINE Same == run'[w].holds = run[w].holds /\ run'[w].sub = run[w].sub
    <3>1. ASSUME NEW r, Step(w, r),
                 r.holds = run[w].holds /\ r.sub = run[w].sub
          PROVE  Same
      BY <3>1 DEF Step, LockInv, TypeInv, TypeOK
    <3>2. ASSUME NEW st, NEW next, ToUpdate(w, st, next)
          PROVE  Same
      BY <2>1, <3>1, <3>2 DEF ToUpdate, Runs
    <3>3. CASE Filter(w)
      <4>1. CASE RetryCount(run[w].st) = 0
        <5>1. PICK left, st :
                 Step(w, [run[w] EXCEPT !.pc = "connect", !.list = left,
                                        !.st = st])
          BY <3>3, <4>1 DEF Filter
        <5> QED
          BY <2>1, <3>1, <5>1 DEF Runs
      <4>2. CASE RetryCount(run[w].st) # 0
        BY <2>1, <3>1, <3>3, <4>2 DEF Filter, Runs
      <4> QED
        BY <4>1, <4>2
    <3>4. CASE \/ SendThrottled(w) \/ SendInterrupted(w) \/ SendFatal(w)
               \/ SendDone(w) \/ SendUnexpected(w) \/ RetryFails(w)
      BY <3>2, <3>4 DEF SendThrottled, SendInterrupted, SendFatal, SendDone,
                        SendUnexpected, RetryFails
    <3>5. CASE \/ Connect(w) \/ SendAccepted(w) \/ SendRejected(w)
               \/ UpdateCommits(w) \/ UpdateFails(w)
      BY <2>1, <3>1, <3>5 DEF Connect, SendAccepted, SendRejected,
                              UpdateCommits, UpdateFails, Runs
    <3>6. CASE RetryPublished(w)
      BY <3>6 DEF RetryPublished, Step, LockInv, TypeInv, TypeOK
    <3> QED
      BY <1>2, <3>3, <3>4, <3>5, <3>6 DEF Process
  <2>4. \A v \in Workers \ {w} : run'[v] = run[v]
    BY <1>2
    DEF Process, Filter, Connect, SendAccepted, SendRejected, SendThrottled,
        SendInterrupted, SendFatal, SendDone, SendUnexpected, UpdateCommits,
        UpdateFails, RetryPublished, RetryFails, ToUpdate, Step,
        LockInv, TypeInv, TypeOK
  <2>5. \A v \in Workers : Holds(v)' => Holds(v) /\ run'[v].sub = run[v].sub
    BY <2>1, <2>3, <2>4 DEF Holds, Working, Idle
  <2> QED
    BY <2>2, <2>5 DEF LockInv, HoldersLock, CleanMutualExclusion, Clean
<1> QED
  BY <1>1, <1>2

\* A worker that dies holds nothing; a key that expires taints its subtask.
LEMMA EnvironmentStep ==
    ASSUME LockInv, Environment
    PROVE  HoldersLock' /\ CleanMutualExclusion'
<1>1. ASSUME NEW w \in Workers, Crash(w)
      PROVE  HoldersLock' /\ CleanMutualExclusion'
  <2>1. Step(w, Idle) /\ UNCHANGED locked /\ tainted \subseteq tainted'
    BY <1>1 DEF Crash, Taints
  <2> QED
    BY <2>1, QuietStep
<1>2. ASSUME NEW s \in Subtasks, LockExpire(s)
      PROVE  HoldersLock' /\ CleanMutualExclusion'
  BY <1>2 DEF LockExpire, Taints, LockInv, HoldersLock, CleanMutualExclusion,
              Clean, Holds, Working
<1> QED
  BY <1>1, <1>2 DEF Environment

LEMMA LockInit == Init => LockInv
BY InitType DEF Init, LockInv, HoldersLock, CleanMutualExclusion, Holds,
                Working, Idle

LEMMA LockNext == LockInv /\ [Next]_vars => LockInv'
<1> SUFFICES ASSUME LockInv, [Next]_vars PROVE LockInv'
  OBVIOUS
<1>1. TypeInv'
  BY NextType DEF LockInv
<1>2. CASE UNCHANGED vars
  BY <1>1, <1>2 DEF vars, LockInv, HoldersLock, CleanMutualExclusion, Clean,
                    Holds, Working
<1>3. ASSUME NEW w \in Workers, Work(w)
      PROVE  HoldersLock' /\ CleanMutualExclusion'
  BY <1>3, LockStep, ReleaseStep, OtherStep DEF Work
<1>4. CASE Environment
  BY <1>1, <1>4, EnvironmentStep DEF LockInv
<1> QED
  BY <1>1, <1>2, <1>3, <1>4 DEF Next, LockInv

\* The lock keeps a subtask to one worker at a time, whatever the numbers of
\* workers, redeliveries and failures, as long as none of the four accidents
\* at Taints strikes that subtask.
THEOREM MutualExclusion == Spec => []CleanMutualExclusion
<1>1. LockInv => CleanMutualExclusion
  BY DEF LockInv
<1> QED
  BY LockInit, LockNext, <1>1, PTL DEF Spec

-----------------------------------------------------------------------------
(* Delivery                                                                *)

\* Whoever carries a status of s that may still be admitted: the messages of s,
\* and the workers that have received one and are before the lock.
Carriers(s) ==
    {m \in DOMAIN queue : m.sub = s}
        \cup {run[w] : w \in {v \in Workers : run[v].pc = "lock" /\ run[v].sub = s}}

Sending == {"filter", "connect", "send"}

\* The worker is past the lock, and has not reported s as finished.
InHand(w) ==
    \/ run[w].pc \in Sending \cup {"update", "retry"}
    \/ run[w].pc = "release" /\ run[w].next # "end"

Hands(s) == {w \in Workers : InHand(w) /\ run[w].sub = s}

\* It has counted a retry in the row, for which there is no message yet.
BeforeRetry(w) ==
    \/ run[w].pc \in {"release", "retry"}
    \/ run[w].pc = "update" /\ ~run[w].holds

\* The recipients of s that the mail server took.
Taken(s) == {r \in ToSet(Chunk[s]) : delivered[r] > 0}

\* Nobody on the list has been mailed or filtered out.
Fresh(list) == \A r \in ToSet(list) : delivered[r] = 0 /\ r \notin refused

NoneUnexpected == faults["unexpected"] = Faults["unexpected"]

\* The status accounts for all recipients but n, up to users listed twice.
Accounts(s, st, n) ==
    /\ st.succeeded = Cardinality(Taken(s))
    /\ st.attempted = st.succeeded + st.failed
    /\ NoneUnexpected =>
          /\ st.attempted + st.skipped + n <= Len(Chunk[s])
          /\ ListedOnce(s) => st.attempted + st.skipped + n = Len(Chunk[s])

\* Recipient lists are parts of chunks.
PartOf(s, list) == ToSet(list) \subseteq ToSet(Chunk[s]) /\ IsInjective(list)

ListsOK ==
    /\ \A m \in DOMAIN queue : PartOf(m.sub, m.list)
    /\ \A w \in Workers : Working(w) => PartOf(run[w].sub, run[w].list)

\* What a run always knows of itself, or has read in the row.
RunOK(r) ==
    /\ r.pc = "lock" => /\ r.seen.state \notin READY_STATES
                        /\ r.seen.state = "RETRY" => RetryCount(r.st) >= RetryCount(r.seen)
    /\ r.pc \in Sending => r.holds
    /\ r.pc = "retry" => ~r.holds /\ r.next # "end"
    /\ r.pc = "update" => r.ok /\ IF r.next = "end" THEN r.st.state \in READY_STATES
                                  ELSE r.holds
    /\ r.pc \in {"update", "release", "retry"} /\ r.next # "end" => r.st.state = "RETRY"

\* What the row says of a subtask.
RowOK(st) ==
    /\ st.state \in READY_STATES \cup {"QUEUING", "RETRY"}
    /\ st.state = "QUEUING" => RetryCount(st) = 0

\* A run that has s in hand: how its status compares to the row, and what it
\* still has to mail.
InHandOK(s, r) ==
    /\ ~Ready(s)
    /\ r.pc \in Sending => RetryCount(r.st) = RetryCount(entry.status[s])
    /\ r.pc = "update" /\ r.next # "end" =>
          RetryCount(r.st) = RetryCount(entry.status[s]) + 1
    /\ r.pc \in {"release", "retry"} => r.ok /\ r.st = entry.status[s]
    /\ IF r.pc \in Sending \/ r.next # "end"
       THEN Fresh(r.list) /\ Accounts(s, r.st, Len(r.list))
       ELSE Accounts(s, r.st, 0)

HandOK(s, w) ==
    /\ InHandOK(s, run[w])
    /\ BeforeRetry(w) =>
          \A c \in Carriers(s) : RetryCount(c.st) < RetryCount(entry.status[s])

\* The recipients of s are mailed at most once, and never when filtered out.
OnceOnly(s) ==
    \A r \in ToSet(Chunk[s]) : delivered[r] <= IF r \in refused THEN 0 ELSE 1

\* What is true of a clean subtask.
SubOK(s) ==
    /\ OnceOnly(s)
    /\ \A v, w \in Hands(s) : v = w
    /\ \A w \in Hands(s) : HandOK(s, w)
    /\ ~Ready(s) =>
          \A c \in Carriers(s) :
             /\ RetryCount(c.st) <= RetryCount(entry.status[s])
             /\ Hands(s) = {} /\ RetryCount(c.st) = RetryCount(entry.status[s]) =>
                   Fresh(c.list) /\ Accounts(s, c.st, Len(c.list))
    /\ Ready(s) => Accounts(s, entry.status[s], 0)

DeliveryInv ==
    /\ LockInv
    /\ ListsOK
    /\ \A w \in Workers : RunOK(run[w])
    /\ \A s \in Subtasks : RowOK(entry.status[s])
    /\ \A s \in Subtasks : Clean(s) => SubOK(s)
    /\ faults["unexpected"] <= Faults["unexpected"]

\* Nothing that SubOK speaks of has changed for s, and no carrier has come that
\* is not the copy of an earlier one.
LEMMA SubFrame ==
    ASSUME NEW s \in Subtasks, SubOK(s),
           entry'.status[s] = entry.status[s],
           Hands(s)' = Hands(s),
           \A w \in Hands(s) : run'[w] = run[w],
           \A c \in Carriers(s)' : \E d \in Carriers(s) : c.st = d.st /\ c.list = d.list,
           \A r \in ToSet(Chunk[s]) :
              delivered'[r] = delivered[r] /\ (r \in refused' <=> r \in refused),
           \A c \in Carriers(s) : PartOf(s, c.list),
           \A w \in Hands(s) : PartOf(s, run[w].list),
           NoneUnexpected' => NoneUnexpected
    PROVE  SubOK(s)'
<1>1. Taken(s)' = Taken(s)
  BY DEF Taken
<1>2. OnceOnly(s)'
  BY DEF SubOK, OnceOnly
<1>3. Ready(s)' <=> Ready(s)
  BY DEF Ready
<1>4. ASSUME NEW w \in Hands(s)
      PROVE  HandOK(s, w)'
  <2>1. HandOK(s, w) /\ run'[w] = run[w] /\ PartOf(s, run[w].list)
    BY <1>4 DEF SubOK
  <2>2. Fresh(run[w].list) => Fresh(run[w].list)'
    BY <2>1 DEF Fresh, PartOf
  <2>3. \A n : Accounts(s, run[w].st, n) => Accounts(s, run[w].st, n)'
    BY <1>1, <2>1 DEF Accounts
  <2>4. BeforeRetry(w)' <=> BeforeRetry(w)
    BY <2>1 DEF BeforeRetry
  <2>5. IF run'[w].pc \in Sending \/ run'[w].next # "end"
        THEN Fresh(run[w].list)' /\ Accounts(s, run[w].st, Len(run[w].list))'
        ELSE Accounts(s, run[w].st, 0)'
    <3>1. Accounts(s, run[w].st, Len(run[w].list)) => Accounts(s, run[w].st, Len(run[w].list))'
      BY <1>1, <2>1 DEF Accounts
    <3>. QED  BY <2>1, <2>2, <2>3, <3>1 DEF HandOK, InHandOK
  <2>. QED  BY <1>3, <2>1, <2>4, <2>5 DEF HandOK, InHandOK
<1>5. ASSUME ~Ready(s)', NEW c \in Carriers(s)'
      PROVE  /\ RetryCount(c.st) <= RetryCount(entry'.status[s])
             /\ Hands(s)' = {} /\ RetryCount(c.st) = RetryCount(entry'.status[s]) =>
                   Fresh(c.list)' /\ Accounts(s, c.st, Len(c.list))'
  <2>1. PICK d \in Carriers(s) : c.st = d.st /\ c.list = d.list /\ PartOf(s, d.list)
    BY <1>5
  <2>2. Fresh(c.list) => Fresh(c.list)'
    BY <2>1 DEF Fresh, PartOf
  <2>3. Accounts(s, c.st, Len(c.list)) => Accounts(s, c.st, Len(c.list))'
    BY <1>1 DEF Accounts
  <2>4. /\ RetryCount(d.st) <= RetryCount(entry.status[s])
        /\ Hands(s) = {} /\ RetryCount(d.st) = RetryCount(entry.status[s]) =>
              Fresh(d.list) /\ Accounts(s, d.st, Len(d.list))
    BY <1>3, <1>5 DEF SubOK
  <2>5. RetryCount(c.st) = RetryCount(d.st)
    BY <2>1
  <2>. QED  BY <1>3, <2>1, <2>2, <2>3, <2>4, <2>5
<1>6. Ready(s)' => Accounts(s, entry.status[s], 0)'
  BY <1>1, <1>3 DEF Accounts, SubOK
<1>. QED  BY <1>2, <1>4, <1>5, <1>6 DEF SubOK

\* The elements of a sequence.
LEMMA ToSetType ==
    ASSUME NEW S, NEW seq \in Seq(S)
    PROVE  ToSet(seq) \subseteq S
BY ElementOfSeq, LenProperties DEF ToSet

\* The chunks have no recipient in common.
LEMMA Chunks ==
    /\ \A s \in Subtasks : /\ Chunk[s] \in Seq(Recipients)
                           /\ ToSet(Chunk[s]) \subseteq Recipients
                           /\ PartOf(s, Chunk[s])
    /\ \A s, t \in Subtasks : s # t => ToSet(Chunk[s]) \cap ToSet(Chunk[t]) = {}
<1>1. \A s \in Subtasks : Chunk[s] \in Seq(Recipients)
  BY SubtasksAssumption
<1>2. \A s \in Subtasks : ToSet(Chunk[s]) \subseteq Recipients
  BY <1>1, ToSetType
<1>. QED  BY <1>1, <1>2, SubtasksAssumption DEF PartOf

\* What DeliveryInv says of a worker that has a message.
LEMMA Worker ==
    ASSUME DeliveryInv, NEW w \in Workers, Working(w)
    PROVE  /\ run[w] \in Runs
           /\ run[w].sub \in Subtasks
           /\ run[w].list \in Seq(Recipients)
           /\ run[w].st \in Statuses
           /\ RetryCount(run[w].st) \in Nat
           /\ Len(run[w].list) \in Nat
           /\ PartOf(run[w].sub, run[w].list)
           /\ RunOK(run[w])
           /\ run[w].pc \in {"update", "release"} => run[w].frames > 0
<1>1. TypeInv /\ TypeOK /\ FramesOK
  BY DEF DeliveryInv, LockInv, TypeInv
<1>2. run[w].st \in Statuses => RetryCount(run[w].st) \in Nat
  BY StatusTypes DEF States, READY_STATES
<1>. QED  BY <1>1, <1>2, WorkingType DEF DeliveryInv, ListsOK, FramesOK, Working

\* Every carrier of s has a list and a status.
LEMMA CarrierType ==
    ASSUME DeliveryInv, NEW s \in Subtasks, NEW c \in Carriers(s)
    PROVE  /\ c.sub = s
           /\ c.st \in Statuses
           /\ RetryCount(c.st) \in Nat
           /\ c.list \in Seq(Recipients)
           /\ PartOf(s, c.list)
<1>1. c.sub = s /\ c.st \in Statuses /\ c.list \in Seq(Recipients) /\ PartOf(s, c.list)
  <2>1. CASE c \in DOMAIN queue /\ c.sub = s
    BY <2>1 DEF DeliveryInv, LockInv, TypeInv, TypeOK, Messages, ListsOK
  <2>2. ASSUME NEW w \in Workers, c = run[w], run[w].pc = "lock", run[w].sub = s
        PROVE  c.sub = s /\ c.st \in Statuses /\ c.list \in Seq(Recipients) /\ PartOf(s, c.list)
    BY <2>2, Worker DEF Working
  <2>. QED  BY <2>1, <2>2 DEF Carriers
<1>. QED  BY <1>1, StatusTypes DEF States, READY_STATES

LEMMA RowType ==
    ASSUME DeliveryInv, NEW s \in Subtasks
    PROVE  entry.status[s] \in Statuses /\ RetryCount(entry.status[s]) \in Nat
<1>1. entry.status[s] \in Statuses
  BY DEF DeliveryInv, LockInv, TypeInv, TypeOK, Entries
<1>. QED  BY <1>1, StatusTypes DEF States, READY_STATES

\* The worker w takes a step: all others stay as they are, w is over or stays
\* with its subtask, and no message of another subtask is published.
ItsOwnStep(w) ==
    /\ Working(w)
    /\ \A v \in Workers \ {w} : run'[v] = run[v]
    /\ run'[w] = Idle \/ run'[w].sub = run[w].sub
    /\ \A m \in DOMAIN queue' : m \in DOMAIN queue \/ m.sub = run[w].sub
    /\ \A s \in Subtasks : s # run[w].sub => entry'.status[s] = entry.status[s]
    /\ \A r \in Recipients : r \notin ToSet(run[w].list) =>
          delivered'[r] = delivered[r] /\ (r \in refused' <=> r \in refused)
    /\ tainted \subseteq tainted'
    /\ faults'["unexpected"] <= faults["unexpected"]

\* What has been unexpected remains so.
LEMMA Unexpected ==
    ASSUME DeliveryInv, faults' \in [FaultKinds -> Nat],
           faults'["unexpected"] <= faults["unexpected"]
    PROVE  /\ NoneUnexpected' => NoneUnexpected
           /\ faults'["unexpected"] <= Faults["unexpected"]
<1>1. faults \in [FaultKinds -> Nat] /\ Faults \in [FaultKinds -> Nat]
  BY SubtasksAssumption DEF DeliveryInv, LockInv, TypeInv, TypeOK
<1>2. "unexpected" \in FaultKinds
  BY DEF FaultKinds
<1>. QED  BY <1>1, <1>2 DEF NoneUnexpected, DeliveryInv

\* It changes nothing for the other subtasks.
LEMMA OtherSubtasks ==
    ASSUME DeliveryInv, NEW w \in Workers, ItsOwnStep(w), TypeInv',
           NEW s \in Subtasks, s # run[w].sub, Clean(s)'
    PROVE  SubOK(s)'
<1>1. SubOK(s)
  BY DEF DeliveryInv, ItsOwnStep, Clean
<1>2. run[w].sub \in Subtasks /\ PartOf(run[w].sub, run[w].list)
  BY Worker DEF ItsOwnStep
<1>3. /\ Hands(s)' = Hands(s)
      /\ \A v \in Hands(s) : run'[v] = run[v]
  BY DEF Hands, InHand, Sending, ItsOwnStep, Idle
<1>4. Carriers(s)' \subseteq Carriers(s)
  BY DEF Carriers, ItsOwnStep, Idle
<1>5. ToSet(Chunk[s]) \subseteq Recipients /\ ToSet(Chunk[s]) \cap ToSet(Chunk[run[w].sub]) = {}
  BY <1>2, Chunks
<1>6. \A r \in ToSet(Chunk[s]) :
         delivered'[r] = delivered[r] /\ (r \in refused' <=> r \in refused)
  BY <1>2, <1>5 DEF ItsOwnStep, PartOf
<1>7. \A c \in Carriers(s) : PartOf(s, c.list)
  BY CarrierType
<1>8. \A v \in Hands(s) : PartOf(s, run[v].list)
  BY Worker DEF Hands, InHand, Sending, Working
<1>9. NoneUnexpected' => NoneUnexpected
  BY Unexpected DEF ItsOwnStep, TypeInv, TypeOK
<1>. QED  BY <1>1, <1>3, <1>4, <1>6, <1>7, <1>8, <1>9, SubFrame DEF ItsOwnStep

\* A step that w takes with s in its hand, and keeps it.
LEMMA StaysInHand ==
    ASSUME DeliveryInv, NEW w \in Workers, ItsOwnStep(w),
           NEW s \in Subtasks, s = run[w].sub, Clean(s)',
           InHand(w), InHand(w)', run'[w].sub = s,
           DOMAIN queue' \subseteq DOMAIN queue,
           RetryCount(entry.status[s]) <= RetryCount(entry'.status[s]),
           RetryCount(entry'.status[s]) \in Nat,
           OnceOnly(s)',
           HandOK(s, w)'
    PROVE  SubOK(s)'
<1>1. SubOK(s)
  BY DEF DeliveryInv, ItsOwnStep, Clean
<1>2. Hands(s) = {w}
  BY <1>1 DEF SubOK, Hands
<1>3. Hands(s)' = {w}
  BY <1>2 DEF Hands, ItsOwnStep, InHand
<1>4. Carriers(s)' \subseteq Carriers(s)
  BY DEF Carriers, ItsOwnStep, InHand, Sending
<1>5. ~Ready(s) /\ ~Ready(s)'
  BY <1>1, <1>2 DEF SubOK, HandOK, InHandOK
<1>6. \A c \in Carriers(s) : /\ RetryCount(c.st) \in Nat
                             /\ RetryCount(c.st) <= RetryCount(entry.status[s])
  BY <1>1, <1>5, CarrierType DEF SubOK
<1>7. RetryCount(entry.status[s]) \in Nat
  BY RowType
<1>8. \A c \in Carriers(s)' : RetryCount(c.st) <= RetryCount(entry'.status[s])
  BY <1>4, <1>6, <1>7
<1>. QED  BY <1>3, <1>5, <1>8 DEF SubOK

\* A step that w takes without having s in its hand, before or after.
LEMMA OutOfHand ==
    ASSUME DeliveryInv, NEW w \in Workers, ItsOwnStep(w), TypeInv',
           NEW s \in Subtasks, s = run[w].sub, Clean(s)',
           ~InHand(w), ~InHand(w)', run'[w].pc # "lock",
           DOMAIN queue' \subseteq DOMAIN queue,
           UNCHANGED <<entry, delivered, refused>>
    PROVE  SubOK(s)'
<1>1. SubOK(s)
  BY DEF DeliveryInv, ItsOwnStep, Clean
<1>2. /\ Hands(s)' = Hands(s)
      /\ \A v \in Hands(s) : run'[v] = run[v]
  BY DEF Hands, ItsOwnStep, InHand
<1>3. Carriers(s)' \subseteq Carriers(s)
  BY DEF Carriers, ItsOwnStep
<1>4. \A c \in Carriers(s) : PartOf(s, c.list)
  BY CarrierType
<1>5. \A v \in Hands(s) : PartOf(s, run[v].list)
  BY Worker DEF Hands, InHand, Sending, Working
<1>6. NoneUnexpected' => NoneUnexpected
  BY Unexpected DEF ItsOwnStep, TypeInv, TypeOK
<1>. QED  BY <1>1, <1>2, <1>3, <1>4, <1>5, <1>6, SubFrame DEF ItsOwnStep

\* All that has to be seen of a step of the worker w.
DeliveryStep(w) ==
    /\ ItsOwnStep(w)
    /\ \A m \in DOMAIN queue' \ DOMAIN queue : PartOf(m.sub, m.list)
    /\ \/ run'[w] = Idle
       \/ PartOf(run'[w].sub, run'[w].list) /\ RunOK(run'[w])
    /\ RowOK(entry'.status[run[w].sub])
    /\ \A s \in Subtasks : s = run[w].sub /\ Clean(s)' => SubOK(s)'

DeliveryParts ==
    /\ ListsOK
    /\ \A w \in Workers : RunOK(run[w])
    /\ \A s \in Subtasks : RowOK(entry.status[s])
    /\ \A s \in Subtasks : Clean(s) => SubOK(s)
    /\ faults["unexpected"] <= Faults["unexpected"]

LEMMA StepDelivers ==
    ASSUME DeliveryInv, TypeInv', NEW w \in Workers, DeliveryStep(w)
    PROVE  DeliveryParts'
<1>1. ListsOK'
  <2>1. \A m \in DOMAIN queue' : PartOf(m.sub, m.list)
    BY DEF DeliveryInv, ListsOK, DeliveryStep
  <2>2. \A v \in Workers : Working(v)' => PartOf(run'[v].sub, run'[v].list)
    BY DEF DeliveryInv, ListsOK, DeliveryStep, ItsOwnStep, Working, Idle
  <2>. QED  BY <2>1, <2>2 DEF ListsOK, PartOf
<1>2. \A v \in Workers : RunOK(run'[v])
  <2>1. RunOK(Idle)
    BY DEF RunOK, Idle, Sending
  <2>. QED  BY <2>1 DEF DeliveryInv, DeliveryStep, ItsOwnStep
<1>3. \A s \in Subtasks : RowOK(entry'.status[s])
  BY DEF DeliveryInv, DeliveryStep, ItsOwnStep
<1>4. ASSUME NEW s \in Subtasks, Clean(s)' PROVE SubOK(s)'
  BY <1>4, OtherSubtasks DEF DeliveryStep
<1>5. faults'["unexpected"] <= Faults["unexpected"]
  BY Unexpected DEF DeliveryStep, ItsOwnStep, TypeInv, TypeOK
<1>. QED  BY <1>1, <1>2, <1>3, <1>4, <1>5 DEF DeliveryParts, RunOK, RowOK

\* A step makes w what it says, and leaves the others alone.
LEMMA TakesStep ==
    ASSUME DeliveryInv, NEW w \in Workers, NEW r, Step(w, r)
    PROVE  run'[w] = r /\ \A v \in Workers \ {w} : run'[v] = run[v]
BY DEF DeliveryInv, LockInv, TypeInv, TypeOK, Step

\* What a step may cost of the faults that count here.
LEMMA SpendLess ==
    ASSUME DeliveryInv, NEW kind \in FaultKinds, Spend(kind)
    PROVE  /\ faults'["unexpected"] <= faults["unexpected"]
           /\ kind = "unexpected" => ~NoneUnexpected'
<1>1. faults \in [FaultKinds -> Nat] /\ Faults \in [FaultKinds -> Nat]
  BY SubtasksAssumption DEF DeliveryInv, LockInv, TypeInv, TypeOK
<1>2. "unexpected" \in FaultKinds
  BY DEF FaultKinds
<1>3. faults["unexpected"] <= Faults["unexpected"]
  BY DEF DeliveryInv
<1>4. faults'["unexpected"] = IF kind = "unexpected" THEN faults["unexpected"] - 1
                              ELSE faults["unexpected"]
  BY <1>1, <1>2 DEF Spend
<1>. QED  BY <1>1, <1>2, <1>3, <1>4 DEF NoneUnexpected

\* What is known of s when w has it in hand, and will be clean after its step.
LEMMA InHandFacts ==
    ASSUME DeliveryInv, NEW w \in Workers, InHand(w),
           NEW s \in Subtasks, s = run[w].sub, Clean(s)', tainted \subseteq tainted'
    PROVE  /\ SubOK(s)
           /\ OnceOnly(s)
           /\ InHandOK(s, run[w])
           /\ BeforeRetry(w) =>
                 \A c \in Carriers(s) : RetryCount(c.st) < RetryCount(entry.status[s])
<1>1. SubOK(s)
  BY DEF DeliveryInv, Clean
<1>2. w \in Hands(s)
  BY DEF Hands
<1>. QED  BY <1>1, <1>2 DEF SubOK, HandOK

\* A step in which w goes on with its subtask in hand, and the row stays as it is.
LEMMA GoesOn ==
    ASSUME DeliveryInv, TypeInv', NEW w \in Workers, NEW r \in Runs, Step(w, r),
           InHand(w),
           r.pc \in Sending \cup {"update", "retry"} \/ (r.pc = "release" /\ r.next # "end"),
           r.pc \in {"release", "retry"} \/ (r.pc = "update" /\ ~r.holds) => BeforeRetry(w),
           r.sub = run[w].sub,
           PartOf(r.sub, r.list), RunOK(r),
           \A x \in Recipients : x \notin ToSet(run[w].list) =>
              delivered'[x] = delivered[x] /\ (x \in refused' <=> x \in refused),
           UNCHANGED <<entry, queue>>,
           tainted \subseteq tainted',
           faults'["unexpected"] <= faults["unexpected"],
           \A s \in Subtasks :
              s = r.sub /\ Clean(s)' /\ OnceOnly(s) /\ InHandOK(s, run[w]) =>
                 OnceOnly(s)' /\ InHandOK(s, r)'
    PROVE  DeliveryStep(w)
<1>1. run'[w] = r /\ \A v \in Workers \ {w} : run'[v] = run[v]
  BY TakesStep
<1>2. ItsOwnStep(w)
  BY <1>1 DEF ItsOwnStep, Working, InHand, Sending
<1>3. run[w].sub \in Subtasks /\ InHand(w)'
  BY <1>1, <1>2, Worker DEF ItsOwnStep, InHand
<1>4. ASSUME NEW s \in Subtasks, s = run[w].sub, Clean(s)' PROVE SubOK(s)'
  <2>1. /\ OnceOnly(s)
        /\ InHandOK(s, run[w])
        /\ BeforeRetry(w) =>
              \A c \in Carriers(s) : RetryCount(c.st) < RetryCount(entry.status[s])
    BY <1>4, InHandFacts
  <2>2. OnceOnly(s)' /\ InHandOK(s, r)'
    BY <1>4, <2>1
  <2>3. Carriers(s)' \subseteq Carriers(s)
    BY <1>1, <1>3 DEF Carriers, InHand, Sending
  <2>4. BeforeRetry(w)' => BeforeRetry(w)
    BY <1>1 DEF BeforeRetry
  <2>5. HandOK(s, w)'
    BY <1>1, <2>1, <2>2, <2>3, <2>4 DEF HandOK, InHandOK
  <2>6. RetryCount(entry'.status[s]) \in Nat /\ RetryCount(entry.status[s]) \in Nat
    BY RowType
  <2>. QED  BY <1>1, <1>2, <1>3, <1>4, <2>2, <2>5, <2>6, StaysInHand
<1>5. RowOK(entry'.status[run[w].sub])
  BY <1>3 DEF DeliveryInv
<1>. QED  BY <1>1, <1>2, <1>4, <1>5 DEF DeliveryStep

\* A step that leaves the faults and the accidents alone.
LEMMA NoFault ==
    ASSUME DeliveryInv, UNCHANGED <<faults, tainted>>
    PROVE  tainted \subseteq tainted' /\ faults'["unexpected"] <= faults["unexpected"]
<1>1. faults \in [FaultKinds -> Nat] /\ "unexpected" \in FaultKinds
  BY DEF DeliveryInv, LockInv, TypeInv, TypeOK, FaultKinds
<1>. QED  BY <1>1

\* The connection to the mail server changes nothing of this.
LEMMA ConnectDelivers ==
    ASSUME DeliveryInv, TypeInv', NEW w \in Workers, Connect(w)
    PROVE  DeliveryStep(w)
<1>1. InHand(w) /\ Working(w)
  BY DEF Connect, InHand, Sending, Working
<1>2. PICK r : r = [run[w] EXCEPT !.pc = "send"]
  OBVIOUS
<1>3. /\ r \in Runs /\ r.pc = "send" /\ r.sub = run[w].sub /\ r.list = run[w].list
      /\ r.st = run[w].st /\ r.holds = run[w].holds /\ r.next = run[w].next
  BY <1>1, <1>2, Worker DEF Runs, PCs
<1>4. RunOK(r) /\ PartOf(r.sub, r.list)
  BY <1>1, <1>3, Worker DEF RunOK, Connect, Sending
<1>5. ASSUME NEW s \in Subtasks, OnceOnly(s), InHandOK(s, run[w])
      PROVE  OnceOnly(s)' /\ InHandOK(s, r)'
  BY <1>3, <1>5 DEF Connect, OnceOnly, InHandOK, Sending, Ready, Fresh, Accounts, Taken, NoneUnexpected
<1>6. /\ Step(w, r) /\ UNCHANGED <<entry, queue, faults, delivered, refused, tainted>>
      /\ r.pc \in Sending
  BY <1>2, <1>3 DEF Connect, Sending
<1>. QED  BY <1>1, <1>3, <1>4, <1>5, <1>6, NoFault, GoesOn

\* The status t counts more successes, failures and skipped than st, by so many.
Grows(st, t, successes, failures, skipped) ==
    /\ t.attempted = st.attempted + successes + failures
    /\ t.succeeded = st.succeeded + successes
    /\ t.failed = st.failed + failures
    /\ t.skipped = st.skipped + skipped

\* What the ways to change a status do to its counters.
LEMMA Added ==
    ASSUME NEW st \in Statuses, NEW n \in Nat
    PROVE  /\ Grows(st, AddSucceeded(st, n), n, 0, 0)
           /\ Grows(st, AddFailed(st, n), 0, n, 0)
           /\ Grows(st, AddSkipped(st, n), 0, 0, n)
           /\ \A t \in {AddSucceeded(st, n), AddFailed(st, n), AddSkipped(st, n)} :
                 RetryCount(t) = RetryCount(st)
BY DEF Statuses, Grows, AddSucceeded, AddFailed, AddSkipped, RetryCount

\* What the ways to change its state do to a status.
LEMMA Relabelled ==
    ASSUME NEW st \in Statuses, NEW state
    PROVE  /\ \A u : \A n, m, k : Grows(u, st, n, m, k) => Grows(u, InState(st, state), n, m, k)
           /\ RetryCount(InState(st, state)) = RetryCount(st)
           /\ InState(st, state).state = state
BY DEF Statuses, Grows, InState, RetryCount

LEMMA Retried ==
    ASSUME NEW st \in Statuses, NEW t, t = RetryNoMax(st) \/ t = RetryWithMax(st)
    PROVE  /\ Grows(st, t, 0, 0, 0)
           /\ RetryCount(t) = RetryCount(st) + 1
           /\ t.state = "RETRY"
<1>1. CASE t = RetryNoMax(st)
  BY <1>1 DEF Statuses, Grows, RetryNoMax, RetryCount
<1>2. CASE t = RetryWithMax(st)
  BY <1>2 DEF Statuses, Grows, RetryWithMax, RetryCount
<1>. QED  BY <1>1, <1>2

\* A status that grows by what is taken off the list goes on accounting for all.
LEMMA AccountsOn ==
    ASSUME NEW s \in Subtasks, NEW st \in Statuses, NEW t, NEW n \in Nat, NEW m \in Nat,
           NEW successes \in Nat, NEW failures \in Nat, NEW skipped \in Nat,
           Accounts(s, st, n),
           Grows(st, t, successes, failures, skipped),
           Cardinality(Taken(s)') = Cardinality(Taken(s)) + successes,
           NoneUnexpected' =>
              /\ NoneUnexpected
              /\ m + successes + failures + skipped <= n
              /\ ListedOnce(s) => n = m + successes + failures + skipped
    PROVE  Accounts(s, t, m)'
<1>1. /\ st.attempted \in Nat /\ st.succeeded \in Nat
      /\ st.failed \in Nat /\ st.skipped \in Nat
  BY DEF Statuses
<1>2. st.succeeded = Cardinality(Taken(s)) /\ st.attempted = st.succeeded + st.failed
  BY DEF Accounts
<1>3. t.succeeded = Cardinality(Taken(s)') /\ t.attempted = t.succeeded + t.failed
  BY <1>1, <1>2 DEF Grows
<1>4. ASSUME NoneUnexpected'
      PROVE  /\ t.attempted + t.skipped + m <= Len(Chunk[s])
             /\ ListedOnce(s) => t.attempted + t.skipped + m = Len(Chunk[s])
  <2>1. /\ st.attempted + st.skipped + n <= Len(Chunk[s])
        /\ ListedOnce(s) => st.attempted + st.skipped + n = Len(Chunk[s])
    BY <1>4 DEF Accounts
  <2>2. /\ m + successes + failures + skipped <= n
        /\ ListedOnce(s) => n = m + successes + failures + skipped
    BY <1>4
  <2>3. /\ t.attempted + t.skipped
             = st.attempted + st.skipped + successes + failures + skipped
        /\ t.attempted \in Nat /\ t.skipped \in Nat
    BY <1>1 DEF Grows
  <2>4. Len(Chunk[s]) \in Nat
    BY Chunks, LenProperties
  <2>5. t.attempted + t.skipped + m <= Len(Chunk[s])
    <3>1. \A a, b, c, d \in Nat : a + n <= c /\ b = a + d /\ m + d <= n => b + m <= c
      OBVIOUS
    <3>2. PICK a \in Nat : a = st.attempted + st.skipped
      BY <1>1
    <3>3. PICK b \in Nat : b = t.attempted + t.skipped
      BY <2>3
    <3>4. PICK d \in Nat : d = successes + failures + skipped
      OBVIOUS
    <3>5. a + n <= Len(Chunk[s]) /\ m + d <= n /\ b = a + d
      BY <1>1, <2>1, <2>2, <2>3, <3>2, <3>3, <3>4
    <3>6. b + m <= Len(Chunk[s])
      BY <2>4, <3>1, <3>5
    <3>. QED  BY <3>3, <3>6
  <2>6. ASSUME ListedOnce(s)
        PROVE  t.attempted + t.skipped + m = Len(Chunk[s])
    <3>1. st.attempted + st.skipped + n = Len(Chunk[s])
      BY <2>1, <2>6
    <3>2. n = m + successes + failures + skipped
      BY <2>2, <2>6
    <3>. QED  BY <1>1, <2>3, <2>4, <3>1, <3>2
  <2>. QED  BY <2>5, <2>6
<1>5. ListedOnce(s)' <=> ListedOnce(s)
  BY DEF ListedOnce
<1>. QED  BY <1>3, <1>4, <1>5 DEF Accounts

\* A list without repetitions loses its last element.
LEMMA InjectiveFront ==
    ASSUME NEW S, NEW list \in Seq(S), list # <<>>, IsInjective(list)
    PROVE  /\ Front(list) \in Seq(S) /\ Last(list) \in S
           /\ IsInjective(Front(list))
           /\ Len(list) \in Nat /\ Len(Front(list)) = Len(list) - 1
           /\ Last(list) \in ToSet(list)
           /\ ToSet(Front(list)) = ToSet(list) \ {Last(list)}
<1>1. Len(list) \in Nat /\ Len(list) > 0 /\ DOMAIN list = 1 .. Len(list)
  BY EmptySeq, LenProperties
<1>2. Front(list) \in Seq(S) /\ Last(list) \in S
  BY FrontType
<1>3. /\ Len(Front(list)) = Len(list) - 1
      /\ \A i \in 1 .. Len(list) - 1 : Front(list)[i] = list[i]
  BY <1>1, SubSeqProperties DEF Front
<1>4. DOMAIN Front(list) = 1 .. Len(list) - 1
  BY <1>2, <1>3, LenProperties
<1>5. IsInjective(Front(list))
  BY <1>1, <1>3, <1>4 DEF IsInjective
<1>6. Last(list) = list[Len(list)] /\ Len(list) \in DOMAIN list
  BY <1>1 DEF Last
<1>7. \A i, j \in DOMAIN list : list[i] = list[j] => i = j
  BY DEF IsInjective
<1>8. ToSet(Front(list)) = ToSet(list) \ {Last(list)}
  BY <1>1, <1>3, <1>4, <1>6, <1>7 DEF ToSet
<1>. QED  BY <1>1, <1>2, <1>3, <1>5, <1>6, <1>8 DEF ToSet

\* The status of a run that mails accounts for all recipients but its list.
LEMMA SendingFacts ==
    ASSUME NEW s \in Subtasks, NEW w \in Workers, InHandOK(s, run[w]),
           run[w].pc \in Sending
    PROVE  /\ ~Ready(s)
           /\ RetryCount(run[w].st) = RetryCount(entry.status[s])
           /\ Fresh(run[w].list)
           /\ Accounts(s, run[w].st, Len(run[w].list))
BY DEF InHandOK

LEMMA SendingWorker ==
    ASSUME DeliveryInv, NEW w \in Workers, run[w].pc \in Sending
    PROVE  Working(w) /\ InHand(w) /\ run[w].holds
<1>1. Working(w) /\ InHand(w)
  BY DEF Sending, Working, InHand
<1>. QED  BY <1>1, Worker DEF RunOK

\* The mail server takes the last recipient of the list.
LEMMA SendAcceptedDelivers ==
    ASSUME DeliveryInv, TypeInv', NEW w \in Workers, SendAccepted(w)
    PROVE  DeliveryStep(w)
<1> DEFINE list == run[w].list
           x == Last(list)
<1>1. run[w].pc = "send" /\ run[w].pc \in Sending /\ list # <<>>
  BY DEF SendAccepted, Sending
<1>2. /\ run[w] \in Runs /\ run[w].sub \in Subtasks /\ list \in Seq(Recipients)
      /\ run[w].st \in Statuses /\ PartOf(run[w].sub, list)
      /\ InHand(w) /\ run[w].holds
  BY <1>1, SendingWorker, Worker
<1>3. PICK st : st = AddSucceeded(run[w].st, 1)
  OBVIOUS
<1>4. PICK r : r = [run[w] EXCEPT !.st = st, !.list = Front(@)]
  OBVIOUS
<1>5. /\ Front(list) \in Seq(Recipients) /\ x \in Recipients
      /\ IsInjective(Front(list))
      /\ Len(list) \in Nat /\ Len(Front(list)) = Len(list) - 1
      /\ x \in ToSet(list)
      /\ ToSet(Front(list)) = ToSet(list) \ {x}
  BY <1>1, <1>2, InjectiveFront DEF PartOf
<1>6. st \in Statuses
  BY <1>2, <1>3, StatusTypes DEF States, READY_STATES
<1>7. r \in Runs
  BY <1>2, <1>4, <1>5, <1>6 DEF Runs
<1>8. /\ r.pc = "send" /\ r.sub = run[w].sub /\ r.list = Front(list)
      /\ r.st = st /\ r.holds
  BY <1>1, <1>2, <1>4 DEF Runs
<1>9. PartOf(r.sub, r.list) /\ RunOK(r) /\ r.pc \in Sending
  BY <1>2, <1>5, <1>8 DEF PartOf, RunOK, Sending
<1>10. /\ Step(w, r)
       /\ delivered' = [delivered EXCEPT ![x] = @ + 1]
       /\ UNCHANGED <<entry, queue, faults, refused, tainted>>
  BY <1>3, <1>4 DEF SendAccepted
<1>11. delivered \in [Recipients -> Nat]
  BY DEF DeliveryInv, LockInv, TypeInv, TypeOK
<1>12. \A y \in Recipients : delivered'[y] = IF y = x THEN delivered[y] + 1 ELSE delivered[y]
  BY <1>10, <1>11
<1>13. ASSUME NEW s \in Subtasks, s = run[w].sub, OnceOnly(s), InHandOK(s, run[w])
       PROVE  OnceOnly(s)' /\ InHandOK(s, r)'
  <2>1. /\ ~Ready(s) /\ RetryCount(run[w].st) = RetryCount(entry.status[s])
        /\ Fresh(list) /\ Accounts(s, run[w].st, Len(list))
    BY <1>1, <1>13, SendingFacts
  <2>2. /\ ToSet(list) \subseteq ToSet(Chunk[s]) /\ ToSet(Chunk[s]) \subseteq Recipients
        /\ delivered[x] = 0 /\ x \notin refused
    BY <1>2, <1>5, <1>13, <2>1, Chunks DEF PartOf, Fresh
  <2>3. OnceOnly(s)'
    BY <1>10, <1>12, <1>13, <2>2 DEF OnceOnly
  <2>4. Fresh(r.list)'
    BY <1>5, <1>8, <1>10, <1>12, <2>1, <2>2 DEF Fresh
  <2>5. Taken(s)' = Taken(s) \cup {x} /\ x \notin Taken(s)
    BY <1>5, <1>11, <1>12, <2>2 DEF Taken
  <2>6. Cardinality(Taken(s)') = Cardinality(Taken(s)) + 1
    <3>1. IsFiniteSet(Taken(s))
      BY <2>2, SubtasksAssumption, FS_Subset DEF Taken
    <3>. QED  BY <2>5, <3>1, FS_AddElement
  <2>7. Grows(run[w].st, st, 1, 0, 0) /\ RetryCount(st) = RetryCount(run[w].st)
    BY <1>2, <1>3, Added
  <2>8. Accounts(s, r.st, Len(r.list))'
    <3>1. Len(list) - 1 \in Nat /\ Len(list) = (Len(list) - 1) + 1 + 0 + 0
      BY <1>5
    <3>2. NoneUnexpected' => NoneUnexpected
      BY <1>10 DEF NoneUnexpected
    <3>3. \A m \in Nat : Len(list) = m + 1 + 0 + 0 => Accounts(s, st, m)'
      BY <1>2, <1>5, <2>1, <2>6, <2>7, <3>2, AccountsOn
    <3>. QED  BY <1>5, <1>8, <3>1, <3>3
  <2>9. ~Ready(s)' /\ RetryCount(r.st) = RetryCount(entry'.status[s])
    BY <1>8, <1>10, <2>1, <2>7 DEF Ready
  <2>. QED  BY <1>8, <1>9, <2>3, <2>4, <2>8, <2>9 DEF InHandOK
<1>14. \A y \in Recipients : y \notin ToSet(list) =>
          delivered'[y] = delivered[y] /\ (y \in refused' <=> y \in refused)
  BY <1>5, <1>10, <1>12
<1>. QED  BY <1>2, <1>7, <1>8, <1>9, <1>10, <1>13, <1>14, NoFault, GoesOn

\* As AccountsOn, while nobody is mailed.
LEMMA AccountsMore ==
    ASSUME NEW s \in Subtasks, NEW st \in Statuses, NEW t, NEW n \in Nat, NEW m \in Nat,
           NEW failures \in Nat, NEW skipped \in Nat,
           Accounts(s, st, n),
           Grows(st, t, 0, failures, skipped),
           UNCHANGED delivered,
           NoneUnexpected' =>
              /\ NoneUnexpected
              /\ m + failures + skipped <= n
              /\ ListedOnce(s) => n = m + failures + skipped
    PROVE  Accounts(s, t, m)'
<1>1. Taken(s)' = Taken(s) /\ st.succeeded = Cardinality(Taken(s))
  BY DEF Taken, Accounts
<1>2. st.succeeded \in Nat
  BY DEF Statuses
<1>3. Cardinality(Taken(s)') = Cardinality(Taken(s)) + 0
  BY <1>1, <1>2
<1>4. NoneUnexpected' =>
         /\ NoneUnexpected
         /\ m + 0 + failures + skipped <= n
         /\ ListedOnce(s) => n = m + 0 + failures + skipped
  OBVIOUS
<1>. QED  BY <1>3, <1>4, AccountsOn

\* OnceOnly and Fresh speak of delivered and refused alone.
LEMMA NobodyMailed ==
    ASSUME UNCHANGED <<delivered, refused>>
    PROVE  /\ \A s \in Subtasks : OnceOnly(s) => OnceOnly(s)'
           /\ \A list : Fresh(list) => Fresh(list)'
BY DEF OnceOnly, Fresh

\* The last recipient of the list is given up.
LEMMA SendRejectedDelivers ==
    ASSUME DeliveryInv, TypeInv', NEW w \in Workers, SendRejected(w)
    PROVE  DeliveryStep(w)
<1> DEFINE list == run[w].list
           x == Last(list)
<1>1. run[w].pc = "send" /\ run[w].pc \in Sending /\ list # <<>>
  BY DEF SendRejected, Sending
<1>2. /\ run[w] \in Runs /\ run[w].sub \in Subtasks /\ list \in Seq(Recipients)
      /\ run[w].st \in Statuses /\ PartOf(run[w].sub, list)
      /\ InHand(w) /\ run[w].holds
  BY <1>1, SendingWorker, Worker
<1>3. PICK st : st = AddFailed(run[w].st, 1)
  OBVIOUS
<1>4. PICK r : r = [run[w] EXCEPT !.st = st, !.list = Front(@)]
  OBVIOUS
<1>5. /\ Front(list) \in Seq(Recipients)
      /\ IsInjective(Front(list))
      /\ Len(list) \in Nat /\ Len(Front(list)) = Len(list) - 1
      /\ x \in ToSet(list)
      /\ ToSet(Front(list)) = ToSet(list) \ {x}
  BY <1>1, <1>2, InjectiveFront DEF PartOf
<1>6. st \in Statuses
  BY <1>2, <1>3, StatusTypes DEF States, READY_STATES
<1>7. r \in Runs
  BY <1>2, <1>4, <1>5, <1>6 DEF Runs
<1>8. /\ r.pc = "send" /\ r.sub = run[w].sub /\ r.list = Front(list)
      /\ r.st = st /\ r.holds
  BY <1>1, <1>2, <1>4 DEF Runs
<1>9. PartOf(r.sub, r.list) /\ RunOK(r) /\ r.pc \in Sending
  BY <1>2, <1>5, <1>8 DEF PartOf, RunOK, Sending
<1>10. Step(w, r) /\ UNCHANGED <<entry, queue, faults, delivered, refused, tainted>>
  BY <1>3, <1>4 DEF SendRejected
<1>11. ASSUME NEW s \in Subtasks, s = run[w].sub, OnceOnly(s), InHandOK(s, run[w])
       PROVE  OnceOnly(s)' /\ InHandOK(s, r)'
  <2>1. /\ ~Ready(s) /\ RetryCount(run[w].st) = RetryCount(entry.status[s])
        /\ Fresh(list) /\ Accounts(s, run[w].st, Len(list))
    BY <1>1, <1>11, SendingFacts
  <2>2. Fresh(r.list)
    BY <1>5, <1>8, <2>1 DEF Fresh
  <2>3. OnceOnly(s)' /\ Fresh(r.list)'
    BY <1>10, <1>11, <2>2, NobodyMailed
  <2>4. Grows(run[w].st, st, 0, 1, 0) /\ RetryCount(st) = RetryCount(run[w].st)
    BY <1>2, <1>3, Added
  <2>5. Accounts(s, r.st, Len(r.list))'
    <3>1. Len(list) - 1 \in Nat /\ Len(list) = (Len(list) - 1) + 1 + 0
      BY <1>5
    <3>2. NoneUnexpected' => NoneUnexpected
      BY <1>10 DEF NoneUnexpected
    <3>3. \A m \in Nat : Len(list) = m + 1 + 0 => Accounts(s, st, m)'
      BY <1>2, <1>5, <1>10, <2>1, <2>4, <3>2, AccountsMore
    <3>. QED  BY <1>5, <1>8, <3>1, <3>3
  <2>6. ~Ready(s)' /\ RetryCount(r.st) = RetryCount(entry'.status[s])
    BY <1>8, <1>10, <2>1, <2>4 DEF Ready
  <2>. QED  BY <1>8, <1>9, <2>3, <2>5, <2>6 DEF InHandOK
<1>. QED  BY <1>2, <1>7, <1>8, <1>9, <1>10, <1>11, NoFault, GoesOn

\* What is known of a run that mails, or is about to retry.
LEMMA UnreportedFacts ==
    ASSUME DeliveryInv, NEW w \in Workers, run[w].pc \in Sending \cup {"retry"}
    PROVE  /\ Working(w) /\ InHand(w)
           /\ ~run[w].holds => BeforeRetry(w)
           /\ \A s \in Subtasks : InHandOK(s, run[w]) =>
                 /\ ~Ready(s)
                 /\ RetryCount(run[w].st) = RetryCount(entry.status[s])
                 /\ Fresh(run[w].list)
                 /\ Accounts(s, run[w].st, Len(run[w].list))
<1>1. Working(w) /\ InHand(w)
  BY DEF Sending, Working, InHand
<1>2. RunOK(run[w])
  BY <1>1, Worker
<1>. QED  BY <1>1, <1>2 DEF RunOK, InHandOK, BeforeRetry, Sending

\* A run hands update_subtask_status a status that is one retry further, or one
\* in which the rest of the list has failed.
LEMMA ToUpdateDelivers ==
    ASSUME DeliveryInv, TypeInv', NEW w \in Workers,
           NEW st \in Statuses, NEW next \in Nexts, ToUpdate(w, st, next),
           run[w].pc \in Sending \cup {"retry"},
           IF next = "end"
           THEN /\ st.state \in READY_STATES
                /\ \E n \in Nat : /\ Grows(run[w].st, st, 0, n, 0)
                                  /\ NoneUnexpected' => n = Len(run[w].list)
           ELSE /\ run[w].pc \in Sending
                /\ st.state = "RETRY"
                /\ RetryCount(st) = RetryCount(run[w].st) + 1
                /\ Grows(run[w].st, st, 0, 0, 0),
           UNCHANGED <<entry, queue, delivered, refused, tainted>>,
           faults'["unexpected"] <= faults["unexpected"]
    PROVE  DeliveryStep(w)
<1> DEFINE list == run[w].list
<1>1. /\ Working(w) /\ InHand(w)
      /\ ~run[w].holds => BeforeRetry(w)
  BY UnreportedFacts
<1>2. /\ run[w] \in Runs /\ run[w].sub \in Subtasks /\ list \in Seq(Recipients)
      /\ run[w].st \in Statuses /\ PartOf(run[w].sub, list)
      /\ Len(list) \in Nat /\ RunOK(run[w])
  BY <1>1, Worker
<1>3. PICK r : r = [run[w] EXCEPT !.pc = "update", !.st = st, !.next = next,
                                  !.frames = 1, !.ok = TRUE]
  OBVIOUS
<1>4. r \in Runs
  BY <1>2, <1>3 DEF Runs, PCs
<1>5. /\ r.pc = "update" /\ r.sub = run[w].sub /\ r.list = list
      /\ r.st = st /\ r.next = next /\ r.holds = run[w].holds /\ r.ok
  BY <1>2, <1>3 DEF Runs
<1>6. PartOf(r.sub, r.list) /\ RunOK(r)
  BY <1>2, <1>5 DEF RunOK, Sending
<1>7. Step(w, r)
  BY <1>3 DEF ToUpdate
<1>8. NoneUnexpected' => NoneUnexpected
  BY Unexpected DEF TypeInv, TypeOK
<1>9. ASSUME NEW s \in Subtasks, s = run[w].sub, OnceOnly(s), InHandOK(s, run[w])
      PROVE  OnceOnly(s)' /\ InHandOK(s, r)'
  <2>1. /\ ~Ready(s) /\ RetryCount(run[w].st) = RetryCount(entry.status[s])
        /\ Fresh(list) /\ Accounts(s, run[w].st, Len(list))
    BY <1>9, UnreportedFacts
  <2>2. OnceOnly(s)' /\ Fresh(r.list)'
    BY <1>5, <1>9, <2>1, NobodyMailed
  <2>3. ~Ready(s)'
    BY <2>1 DEF Ready
  <2>4. CASE next = "end"
    <3>1. PICK n \in Nat : /\ Grows(run[w].st, st, 0, n, 0)
                           /\ NoneUnexpected' => n = Len(list)
      BY <2>4
    <3>2. NoneUnexpected' => NoneUnexpected /\ Len(list) = 0 + n + 0
      BY <1>8, <3>1
    <3>3. Accounts(s, st, 0)'
      BY <1>2, <2>1, <3>1, <3>2, AccountsMore
    <3>. QED  BY <1>5, <2>2, <2>3, <2>4, <3>3 DEF InHandOK, Sending
  <2>5. CASE next # "end"
    <3>1. NoneUnexpected' => NoneUnexpected /\ Len(list) = Len(list) + 0 + 0
      BY <1>2, <1>8
    <3>2. \A m \in Nat : Len(list) = m + 0 + 0 => Accounts(s, st, m)'
      BY <1>2, <1>8, <2>1, <2>5, AccountsMore
    <3>3. Accounts(s, r.st, Len(r.list))'
      BY <1>2, <1>5, <3>2
    <3>4. RetryCount(r.st) = RetryCount(entry'.status[s]) + 1
      BY <1>5, <2>1, <2>5
    <3>. QED  BY <1>5, <2>2, <2>3, <2>5, <3>3, <3>4 DEF InHandOK, Sending
  <2>. QED  BY <2>4, <2>5
<1>. QED  BY <1>1, <1>2, <1>4, <1>5, <1>6, <1>7, <1>9, GoesOn

LEMMA SendThrottledDelivers ==
    ASSUME DeliveryInv, TypeInv', NEW w \in Workers, SendThrottled(w)
    PROVE  DeliveryStep(w)
<1>1. run[w].pc \in Sending
  BY DEF SendThrottled, Sending
<1>2. run[w].st \in Statuses
  BY <1>1, SendingWorker, Worker
<1>3. PICK st : st = RetryNoMax(run[w].st)
  OBVIOUS
<1>4. /\ st \in Statuses /\ st.state = "RETRY" /\ Grows(run[w].st, st, 0, 0, 0)
      /\ RetryCount(st) = RetryCount(run[w].st) + 1
  <2>1. RetryNoMax(run[w].st) \in Statuses
    BY <1>2, StatusTypes DEF States, READY_STATES
  <2>. QED  BY <1>2, <1>3, <2>1, Retried
<1>5. /\ ToUpdate(w, st, "retry_nomax")
      /\ UNCHANGED <<entry, queue, faults, delivered, refused, tainted>>
  BY <1>3 DEF SendThrottled
<1>6. "retry_nomax" \in Nexts /\ "retry_nomax" # "end"
  BY DEF Nexts
<1>. QED  BY <1>1, <1>4, <1>5, <1>6, NoFault, ToUpdateDelivers

LEMMA SendInterruptedDelivers ==
    ASSUME DeliveryInv, TypeInv', NEW w \in Workers, SendInterrupted(w)
    PROVE  DeliveryStep(w)
<1>1. run[w].pc \in Sending
  BY DEF SendInterrupted, Sending
<1>2. run[w].st \in Statuses
  BY <1>1, SendingWorker, Worker
<1>3. PICK st : st = RetryWithMax(run[w].st)
  OBVIOUS
<1>4. /\ st \in Statuses /\ st.state = "RETRY" /\ Grows(run[w].st, st, 0, 0, 0)
      /\ RetryCount(st) = RetryCount(run[w].st) + 1
  <2>1. RetryWithMax(run[w].st) \in Statuses
    BY <1>2, StatusTypes DEF States, READY_STATES
  <2>. QED  BY <1>2, <1>3, <2>1, Retried
<1>5. /\ ToUpdate(w, st, "retry_withmax")
      /\ UNCHANGED <<entry, queue, faults, delivered, refused, tainted>>
  BY <1>3 DEF SendInterrupted
<1>6. "retry_withmax" \in Nexts /\ "retry_withmax" # "end"
  BY DEF Nexts
<1>. QED  BY <1>1, <1>4, <1>5, <1>6, NoFault, ToUpdateDelivers

\* The status in which so many more recipients have failed.
LEMMA FailedStatus ==
    ASSUME NEW st \in Statuses, NEW n \in Nat
    PROVE  LET t == InState(AddFailed(st, n), "FAILURE")
           IN  t \in Statuses /\ t.state \in READY_STATES /\ Grows(st, t, 0, n, 0)
<1>1. "FAILURE" \in States /\ "FAILURE" \in READY_STATES
  BY DEF States, READY_STATES
<1>2. AddFailed(st, n) \in Statuses
  BY <1>1, StatusTypes
<1>3. InState(AddFailed(st, n), "FAILURE") \in Statuses
  BY <1>1, <1>2, StatusTypes, 0 \in Nat
<1>4. Grows(st, AddFailed(st, n), 0, n, 0)
  BY Added
<1>5. /\ Grows(st, InState(AddFailed(st, n), "FAILURE"), 0, n, 0)
      /\ InState(AddFailed(st, n), "FAILURE").state = "FAILURE"
  BY <1>2, <1>4, Relabelled
<1>. QED  BY <1>1, <1>3, <1>5

\* The rest of the list has failed, in one of four ways.
LEMMA SendFatalDelivers ==
    ASSUME DeliveryInv, TypeInv', NEW w \in Workers, SendFatal(w)
    PROVE  DeliveryStep(w)
<1>1. run[w].pc \in Sending
  BY DEF SendFatal, Sending
<1>2. run[w].st \in Statuses /\ Len(run[w].list) \in Nat
  BY <1>1, SendingWorker, Worker
<1>3. PICK st : st = InState(AddFailed(run[w].st, Len(run[w].list)), "FAILURE")
  OBVIOUS
<1>4. /\ st \in Statuses /\ st.state \in READY_STATES
      /\ Grows(run[w].st, st, 0, Len(run[w].list), 0)
  BY <1>2, <1>3, FailedStatus
<1>5. /\ ToUpdate(w, st, "end")
      /\ UNCHANGED <<entry, queue, faults, delivered, refused, tainted>>
  BY <1>3 DEF SendFatal
<1>6. "end" \in Nexts
  BY DEF Nexts
<1>. QED  BY <1>1, <1>2, <1>4, <1>5, <1>6, NoFault, ToUpdateDelivers

LEMMA SendUnexpectedDelivers ==
    ASSUME DeliveryInv, TypeInv', NEW w \in Workers, SendUnexpected(w)
    PROVE  DeliveryStep(w)
<1>1. run[w].pc \in Sending
  BY DEF SendUnexpected, Sending
<1>2. run[w].st \in Statuses /\ run[w].num \in Nat
  BY <1>1, SendingWorker, Worker DEF Runs
<1>3. PICK st : st = InState(AddFailed(run[w].st, run[w].num), "FAILURE")
  OBVIOUS
<1>4. /\ st \in Statuses /\ st.state \in READY_STATES
      /\ Grows(run[w].st, st, 0, run[w].num, 0)
  BY <1>2, <1>3, FailedStatus
<1>5. /\ ToUpdate(w, st, "end") /\ Spend("unexpected")
      /\ UNCHANGED <<entry, queue, delivered, refused, tainted>>
  BY <1>3 DEF SendUnexpected, AllFailed
<1>6. "end" \in Nexts /\ "unexpected" \in FaultKinds
  BY DEF Nexts, FaultKinds
<1>7. ~NoneUnexpected' /\ faults'["unexpected"] <= faults["unexpected"]
  BY <1>5, <1>6, SpendLess
<1>. QED  BY <1>1, <1>2, <1>4, <1>5, <1>6, <1>7, ToUpdateDelivers

LEMMA RetryFailsDelivers ==
    ASSUME DeliveryInv, TypeInv', NEW w \in Workers, RetryFails(w)
    PROVE  DeliveryStep(w)
<1>1. run[w].pc = "retry"
  BY DEF RetryFails
<1>2. run[w].st \in Statuses /\ Len(run[w].list) \in Nat
  BY <1>1, Worker DEF Working
<1>3. PICK st : st = InState(AddFailed(run[w].st, Len(run[w].list)), "FAILURE")
  OBVIOUS
<1>4. /\ st \in Statuses /\ st.state \in READY_STATES
      /\ Grows(run[w].st, st, 0, Len(run[w].list), 0)
  BY <1>2, <1>3, FailedStatus
<1>5. ToUpdate(w, st, "end") /\ UNCHANGED <<entry, queue, delivered, refused, tainted>>
  BY <1>3 DEF RetryFails
<1>6. "end" \in Nexts /\ "publish" \in FaultKinds
  BY DEF Nexts, FaultKinds
<1>7. faults'["unexpected"] <= faults["unexpected"]
  <2>1. UNCHANGED faults \/ Spend("publish")
    BY DEF RetryFails
  <2>. QED  BY <1>5, <1>6, <2>1, NoFault, SpendLess
<1>. QED  BY <1>1, <1>2, <1>4, <1>5, <1>6, <1>7, ToUpdateDelivers

\* The list is empty, and all is accounted for.
LEMMA SendDoneDelivers ==
    ASSUME DeliveryInv, TypeInv', NEW w \in Workers, SendDone(w)
    PROVE  DeliveryStep(w)
<1>1. run[w].pc \in Sending /\ Len(run[w].list) = 0
  BY DEF SendDone, Sending
<1>2. run[w].st \in Statuses
  BY <1>1, SendingWorker, Worker
<1>3. PICK st : st = InState(run[w].st, "SUCCESS")
  OBVIOUS
<1>4. st \in Statuses /\ st.state \in READY_STATES /\ Grows(run[w].st, st, 0, 0, 0)
  <2>1. "SUCCESS" \in States /\ "SUCCESS" \in READY_STATES
    BY DEF States, READY_STATES
  <2>2. InState(run[w].st, "SUCCESS") \in Statuses
    BY <1>2, <2>1, StatusTypes, 0 \in Nat
  <2>3. Grows(run[w].st, run[w].st, 0, 0, 0)
    BY <1>2 DEF Grows, Statuses
  <2>. QED  BY <1>2, <1>3, <2>1, <2>2, <2>3, Relabelled
<1>5. /\ ToUpdate(w, st, "end")
      /\ UNCHANGED <<entry, queue, faults, delivered, refused, tainted>>
  BY <1>3 DEF SendDone
<1>6. "end" \in Nexts
  BY DEF Nexts
<1>7. \E n \in Nat : /\ Grows(run[w].st, st, 0, n, 0)
                     /\ NoneUnexpected' => n = Len(run[w].list)
  BY <1>1, <1>4
<1>. QED  BY <1>1, <1>4, <1>5, <1>6, <1>7, NoFault, ToUpdateDelivers

\* An accident: nothing is said of the subtask from then on.
LEMMA UpdateFailsDelivers ==
    ASSUME DeliveryInv, TypeInv', NEW w \in Workers, UpdateFails(w)
    PROVE  DeliveryStep(w)
<1>1. run[w].pc = "update" /\ Working(w) /\ InHand(w)
  BY DEF UpdateFails, Working, InHand
<1>2. /\ run[w] \in Runs /\ run[w].sub \in Subtasks
      /\ PartOf(run[w].sub, run[w].list) /\ RunOK(run[w])
  BY <1>1, Worker
<1>3. /\ UNCHANGED <<entry, queue, locked, delivered, refused>>
      /\ faults'["unexpected"] <= faults["unexpected"]
  BY SpendLess DEF UpdateFails, FaultKinds
<1>4. CASE Step(w, [run[w] EXCEPT !.frames = @ + 1]) /\ UNCHANGED tainted
  <2>1. PICK r : r = [run[w] EXCEPT !.frames = @ + 1]
    OBVIOUS
  <2>2. /\ r \in Runs /\ r.pc = "update" /\ r.sub = run[w].sub
        /\ r.list = run[w].list /\ r.st = run[w].st /\ r.next = run[w].next
        /\ r.holds = run[w].holds /\ r.ok = run[w].ok
    BY <1>1, <1>2, <2>1 DEF Runs
  <2>3. PartOf(r.sub, r.list) /\ RunOK(r)
    BY <1>1, <1>2, <2>2 DEF RunOK, Sending
  <2>4. r.pc = "update" /\ ~r.holds => BeforeRetry(w)
    BY <1>1, <2>2 DEF BeforeRetry
  <2>5. NoneUnexpected' => NoneUnexpected
    BY <1>3, Unexpected DEF TypeInv, TypeOK
  <2>6. ASSUME NEW s \in Subtasks, OnceOnly(s), InHandOK(s, run[w])
        PROVE  OnceOnly(s)' /\ InHandOK(s, r)'
    <3>1. OnceOnly(s)' /\ (Fresh(r.list) => Fresh(r.list)')
      BY <1>3, <2>6, NobodyMailed
    <3>2. Ready(s)' <=> Ready(s)
      BY <1>3 DEF Ready
    <3>3. \A n : Accounts(s, r.st, n) => Accounts(s, r.st, n)'
      BY <1>3, <2>5 DEF Accounts, Taken
    <3>4. Accounts(s, r.st, Len(r.list)) => Accounts(s, r.st, Len(r.list))'
      BY <1>3, <2>5 DEF Accounts, Taken
    <3>. QED  BY <1>1, <1>3, <2>2, <2>6, <3>1, <3>2, <3>3, <3>4 DEF InHandOK, Sending
  <2>7. Step(w, r) /\ tainted \subseteq tainted'
    BY <1>4, <2>1
  <2>. QED  BY <1>1, <1>3, <2>2, <2>3, <2>4, <2>6, <2>7, GoesOn
<1>5. CASE /\ Step(w, [run[w] EXCEPT !.pc = "release", !.ok = FALSE])
           /\ Taints(run[w].sub, TRUE)
  <2>1. PICK r : r = [run[w] EXCEPT !.pc = "release", !.ok = FALSE]
    OBVIOUS
  <2>2. /\ r.pc = "release" /\ r.sub = run[w].sub
        /\ r.list = run[w].list /\ r.st = run[w].st /\ r.next = run[w].next
    BY <1>1, <1>2, <2>1 DEF Runs
  <2>3. run'[w] = r /\ \A v \in Workers \ {w} : run'[v] = run[v]
    BY <1>5, <2>1, TakesStep
  <2>4. run[w].sub \in tainted' /\ tainted \subseteq tainted'
    BY <1>5 DEF Taints
  <2>5. ItsOwnStep(w)
    BY <1>1, <1>3, <2>2, <2>3, <2>4 DEF ItsOwnStep
  <2>6. PartOf(r.sub, r.list) /\ RunOK(r)
    BY <1>1, <1>2, <2>2 DEF RunOK, Sending
  <2>7. RowOK(entry'.status[run[w].sub])
    BY <1>2, <1>3 DEF DeliveryInv
  <2>8. \A s \in Subtasks : s = run[w].sub /\ Clean(s)' => SubOK(s)'
    BY <2>4 DEF Clean
  <2>. QED  BY <1>3, <2>3, <2>5, <2>6, <2>7, <2>8 DEF DeliveryStep
<1>. QED  BY <1>4, <1>5 DEF UpdateFails

\* _update_subtask_status writes over the status of one subtask.
LEMMA UpdatesRow ==
    ASSUME NEW e \in Entries(Subtasks), NEW s \in Subtasks, NEW st
    PROVE  /\ UpdateSubtaskStatus(e, s, st).status[s] = st
           /\ \A t \in Subtasks : t # s =>
                 UpdateSubtaskStatus(e, s, st).status[t] = e.status[t]
<1>1. DOMAIN e.status = Subtasks
  BY DEF Entries
<1>2. UpdateSubtaskStatus(e, s, st).status = [e.status EXCEPT ![s] = st]
  BY DEF UpdateSubtaskStatus, Entries
<1>. QED  BY <1>1, <1>2

\* The row takes over the status, which is one retry further, or final.
LEMMA UpdateCommitsDelivers ==
    ASSUME DeliveryInv, TypeInv', NEW w \in Workers, UpdateCommits(w)
    PROVE  DeliveryStep(w)
<1>1. run[w].pc = "update" /\ Working(w) /\ InHand(w)
  BY DEF UpdateCommits, Working, InHand
<1>2. /\ run[w] \in Runs /\ run[w].sub \in Subtasks /\ run[w].st \in Statuses
      /\ PartOf(run[w].sub, run[w].list) /\ RunOK(run[w])
  BY <1>1, Worker
<1>3. UNCHANGED <<queue, locked, faults, delivered, refused, tainted>>
  BY DEF UpdateCommits
<1>4. /\ entry'.status[run[w].sub] = run[w].st
      /\ \A s \in Subtasks : s # run[w].sub => entry'.status[s] = entry.status[s]
  <2>1. entry \in Entries(Subtasks)
    BY DEF DeliveryInv, LockInv, TypeInv, TypeOK
  <2>. QED  BY <1>2, <2>1, UpdatesRow DEF UpdateCommits
<1>5. PICK r : r = [run[w] EXCEPT !.pc = "release"]
  OBVIOUS
<1>6. /\ r.pc = "release" /\ r.sub = run[w].sub /\ r.ok
      /\ r.list = run[w].list /\ r.st = run[w].st /\ r.next = run[w].next
  BY <1>1, <1>2, <1>5 DEF Runs, RunOK
<1>7. run'[w] = r /\ \A v \in Workers \ {w} : run'[v] = run[v]
  BY <1>5, TakesStep DEF UpdateCommits
<1>8. ItsOwnStep(w)
  BY <1>1, <1>3, <1>4, <1>6, <1>7, NoFault DEF ItsOwnStep
<1>9. PartOf(r.sub, r.list) /\ RunOK(r)
  BY <1>1, <1>2, <1>6 DEF RunOK, Sending
<1>10. RowOK(entry'.status[run[w].sub])
  <2>1. /\ run[w].next = "end" => run[w].st.state \in READY_STATES
        /\ run[w].next # "end" => run[w].st.state = "RETRY"
    BY <1>1, <1>2 DEF RunOK
  <2>. QED  BY <1>4, <2>1 DEF RowOK, READY_STATES
<1>11. ASSUME NEW s \in Subtasks, s = run[w].sub, Clean(s)'
       PROVE  SubOK(s)'
  <2>1. SubOK(s) /\ OnceOnly(s) /\ InHandOK(s, run[w])
    BY <1>1, <1>3, <1>11, InHandFacts
  <2>2. OnceOnly(s)' /\ (Fresh(r.list) => Fresh(r.list)')
    BY <1>3, <2>1, NobodyMailed
  <2>3. NoneUnexpected' <=> NoneUnexpected
    BY <1>3 DEF NoneUnexpected
  <2>4. Hands(s)' \subseteq {w}
    BY <1>1, <1>7, <1>11, <2>1 DEF Hands, InHand, SubOK
  <2>5. CASE run[w].next = "end"
    <3>1. Hands(s)' = {}
      BY <1>6, <1>7, <2>4, <2>5 DEF Hands, InHand, Sending
    <3>2. Ready(s)'
      BY <1>1, <1>2, <1>4, <1>11, <2>5 DEF RunOK, Ready
    <3>3. Accounts(s, entry.status[s], 0)'
      <4>1. Accounts(s, run[w].st, 0)
        BY <1>1, <2>1, <2>5 DEF InHandOK, Sending
      <4>2. entry'.status[s] = run[w].st
        BY <1>4, <1>11
      <4>. QED  BY <1>3, <2>3, <4>1, <4>2 DEF Accounts, Taken
    <3>. QED  BY <2>2, <3>1, <3>2, <3>3 DEF SubOK
  <2>6. CASE run[w].next # "end"
    <3>1. /\ ~Ready(s) /\ RetryCount(run[w].st) = RetryCount(entry.status[s]) + 1
          /\ Fresh(run[w].list) /\ Accounts(s, run[w].st, Len(run[w].list))
      BY <1>1, <2>1, <2>6 DEF InHandOK
    <3>2. ~Ready(s)'
      BY <1>1, <1>2, <1>4, <1>11, <2>6 DEF RunOK, Ready, READY_STATES
    <3>3. InHandOK(s, r)'
      <4>1. Accounts(s, r.st, Len(r.list))'
        BY <1>3, <1>6, <2>3, <3>1 DEF Accounts, Taken
      <4>2. r.st = entry'.status[s]
        BY <1>4, <1>6, <1>11
      <4>. QED  BY <1>6, <2>2, <2>6, <3>1, <3>2, <4>1, <4>2 DEF InHandOK, Sending
    <3>4. /\ RetryCount(entry'.status[s]) = RetryCount(entry.status[s]) + 1
          /\ RetryCount(entry.status[s]) \in Nat
      BY <1>4, <1>11, <3>1, RowType
    <3>5. Carriers(s)' \subseteq Carriers(s)
      BY <1>3, <1>6, <1>7 DEF Carriers
    <3>6. \A c \in Carriers(s)' : RetryCount(c.st) < RetryCount(entry'.status[s])
      <4>1. \A c \in Carriers(s) : /\ RetryCount(c.st) \in Nat
                                   /\ RetryCount(c.st) <= RetryCount(entry.status[s])
        BY <2>1, <3>1, CarrierType DEF SubOK
      <4>. QED  BY <3>4, <3>5, <4>1
    <3>7. HandOK(s, w)'
      BY <1>7, <3>3, <3>6 DEF HandOK, InHandOK
    <3>8. InHand(w)' /\ run'[w].sub = s
      BY <1>6, <1>7, <1>11, <2>6 DEF InHand
    <3>9. /\ RetryCount(entry'.status[s]) \in Nat
          /\ RetryCount(entry.status[s]) <= RetryCount(entry'.status[s])
      BY <3>4
    <3>. QED  BY <1>1, <1>3, <1>8, <1>11, <2>2, <3>7, <3>8, <3>9, StaysInHand
  <2>. QED  BY <2>5, <2>6
<1>. QED  BY <1>3, <1>7, <1>8, <1>9, <1>10, <1>11 DEF DeliveryStep

\* What becomes of a run that leaves a frame of update_subtask_status.
LEMMA ReleasedFields ==
    ASSUME NEW r \in Runs, r.pc = "release", r.frames > 0, NEW t, t = Released(r)
    PROVE  \/ t = Idle /\ r.next = "end"
           \/ /\ t \in Runs /\ t.sub = r.sub /\ t.list = r.list
              /\ \/ t.pc = "release" /\ t.st = r.st /\ t.next = r.next /\ t.ok = r.ok
                 \/ /\ r.next # "end" /\ r.ok /\ ~t.holds
                    /\ t.pc = "retry" /\ t.st = r.st /\ t.next = r.next /\ t.ok
                 \/ /\ r.next # "end" /\ ~r.ok
                    /\ t.pc = "update" /\ t.next = "end" /\ t.ok
                    /\ t.st.state \in READY_STATES
<1> DEFINE last == [r EXCEPT !.frames = @ - 1, !.holds = FALSE]
<1>1. t \in Runs \cup {Idle}
  BY ReleasedType
<1>2. \A x \in Runs : x.holds \in BOOLEAN /\ x.ok \in BOOLEAN
  BY DEF Runs
<1>3. CASE r.frames > 1
  <2>1. t = last
    BY <1>3 DEF Released
  <2>2. t.pc = "release" /\ t.st = r.st /\ t.next = r.next /\ t.ok = r.ok
        /\ t.sub = r.sub /\ t.list = r.list
    BY <2>1 DEF Runs
  <2>3. t # Idle
    BY <2>2 DEF Idle
  <2>. QED  BY <1>1, <2>2, <2>3
<1>4. CASE ~(r.frames > 1) /\ r.next = "end"
  BY <1>4 DEF Released
<1>5. CASE ~(r.frames > 1) /\ r.next # "end" /\ r.ok
  <2>1. t = [last EXCEPT !.pc = "retry"]
    BY <1>5 DEF Released
  <2>2. t.pc = "retry" /\ t.st = r.st /\ t.next = r.next /\ t.ok = r.ok /\ t.holds = FALSE
        /\ t.sub = r.sub /\ t.list = r.list
    BY <2>1 DEF Runs
  <2>3. t # Idle
    BY <2>2 DEF Idle
  <2>. QED  BY <1>1, <1>2, <1>5, <2>2, <2>3
<1>6. CASE ~(r.frames > 1) /\ r.next # "end" /\ ~r.ok
  <2>1. PICK st : st = AllFailed(r)
    OBVIOUS
  <2>2. t = [last EXCEPT !.pc = "update", !.st = st, !.next = "end", !.frames = 1,
                         !.ok = TRUE]
    BY <1>6, <2>1 DEF Released
  <2>3. st.state \in READY_STATES
    <3>1. AddFailed(r.st, r.num) \in Statuses
      BY StatusTypes DEF Runs, States, READY_STATES
    <3>. QED  BY <2>1, <3>1, Relabelled DEF AllFailed, READY_STATES
  <2>4. t.pc = "update" /\ t.st = st /\ t.next = "end" /\ t.ok = TRUE
        /\ t.sub = r.sub /\ t.list = r.list
    BY <2>2 DEF Runs
  <2>5. t # Idle
    BY <2>4 DEF Idle
  <2>. QED  BY <1>1, <1>6, <2>3, <2>4, <2>5
<1>. QED  BY <1>3, <1>4, <1>5, <1>6

\* A run leaves a frame of update_subtask_status.
LEMMA ReleaseDelivers ==
    ASSUME DeliveryInv, TypeInv', NEW w \in Workers, Release(w)
    PROVE  DeliveryStep(w)
<1>1. run[w].pc = "release" /\ Working(w) /\ BeforeRetry(w)
  BY DEF Release, Working, BeforeRetry
<1>2. /\ run[w] \in Runs /\ run[w].sub \in Subtasks /\ run[w].frames > 0
      /\ PartOf(run[w].sub, run[w].list) /\ RunOK(run[w])
  BY <1>1, Worker
<1>3. PICK r : r = Released(run[w])
  OBVIOUS
<1>4. /\ Step(w, r) /\ UNCHANGED <<entry, queue, faults, delivered, refused>>
      /\ tainted \subseteq tainted'
  BY <1>3 DEF Release, Taints
<1>5. faults'["unexpected"] <= faults["unexpected"]
  <2>1. faults \in [FaultKinds -> Nat] /\ "unexpected" \in FaultKinds
    BY DEF DeliveryInv, LockInv, TypeInv, TypeOK, FaultKinds
  <2>. QED  BY <1>4, <2>1
<1>6. run'[w] = r /\ \A v \in Workers \ {w} : run'[v] = run[v]
  BY <1>4, TakesStep
<1>7. \/ r = Idle /\ run[w].next = "end"
      \/ /\ r \in Runs /\ r.sub = run[w].sub /\ r.list = run[w].list
         /\ \/ /\ r.pc = "release" /\ r.st = run[w].st /\ r.next = run[w].next
               /\ r.ok = run[w].ok
            \/ /\ run[w].next # "end" /\ run[w].ok /\ ~r.holds
               /\ r.pc = "retry" /\ r.st = run[w].st /\ r.next = run[w].next /\ r.ok
            \/ /\ run[w].next # "end" /\ ~run[w].ok
               /\ r.pc = "update" /\ r.next = "end" /\ r.ok
               /\ r.st.state \in READY_STATES
  BY <1>1, <1>2, <1>3, ReleasedFields
<1>8. CASE run[w].next # "end"
  <2>1. InHand(w) /\ RunOK(r) /\ PartOf(r.sub, r.list)
    BY <1>1, <1>2, <1>7, <1>8 DEF InHand, RunOK, Sending
  <2>2. r.pc \in {"update", "retry"} \/ (r.pc = "release" /\ r.next # "end")
    BY <1>7, <1>8
  <2>3. ASSUME NEW s \in Subtasks, OnceOnly(s), InHandOK(s, run[w])
        PROVE  OnceOnly(s)' /\ InHandOK(s, r)'
    <3>1. /\ OnceOnly(s)' /\ (Fresh(r.list) => Fresh(r.list)')
          /\ (NoneUnexpected' <=> NoneUnexpected) /\ (Ready(s)' <=> Ready(s))
      BY <1>4, <2>3, NobodyMailed DEF NoneUnexpected, Ready
    <3>2. Accounts(s, r.st, Len(r.list)) => Accounts(s, r.st, Len(r.list))'
      BY <1>4, <3>1 DEF Accounts, Taken
    <3>3. /\ ~Ready(s) /\ run[w].ok /\ run[w].st = entry.status[s]
          /\ Fresh(run[w].list) /\ Accounts(s, run[w].st, Len(run[w].list))
      BY <1>1, <1>8, <2>3 DEF InHandOK
    <3>4. /\ r.pc \in {"release", "retry"} /\ r.ok /\ r.st = entry'.status[s]
          /\ r.next # "end"
      BY <1>4, <1>7, <1>8, <3>3
    <3>. QED  BY <1>7, <1>8, <3>1, <3>2, <3>3, <3>4 DEF InHandOK, Sending
  <2>. QED  BY <1>1, <1>4, <1>5, <1>7, <1>8, <2>1, <2>2, <2>3, GoesOn
<1>9. CASE run[w].next = "end"
  <2>1. \/ r = Idle
        \/ r.pc = "release" /\ r.sub = run[w].sub /\ r.next = "end" /\ r.list = run[w].list
    BY <1>7, <1>9
  <2>2. ItsOwnStep(w)
    BY <1>1, <1>4, <1>5, <1>6, <2>1 DEF ItsOwnStep
  <2>3. ~InHand(w) /\ ~InHand(w)' /\ run'[w].pc # "lock"
    BY <1>1, <1>6, <1>9, <2>1 DEF InHand, Sending, Idle
  <2>4. \A s \in Subtasks : s = run[w].sub /\ Clean(s)' => SubOK(s)'
    BY <1>4, <2>2, <2>3, OutOfHand
  <2>5. r = Idle \/ (PartOf(r.sub, r.list) /\ RunOK(r))
    BY <1>2, <2>1 DEF RunOK, Sending
  <2>6. RowOK(entry'.status[run[w].sub])
    BY <1>2, <1>4 DEF DeliveryInv
  <2>. QED  BY <1>4, <1>6, <2>2, <2>4, <2>5, <2>6 DEF DeliveryStep
<1>. QED  BY <1>8, <1>9

\* The retry message carries what the row says, and what is left to mail.
LEMMA RetryPublishedDelivers ==
    ASSUME DeliveryInv, TypeInv', NEW w \in Workers, RetryPublished(w)
    PROVE  DeliveryStep(w)
<1>1. run[w].pc = "retry" /\ Working(w) /\ InHand(w) /\ BeforeRetry(w)
  BY DEF RetryPublished, Working, InHand, BeforeRetry
<1>2. /\ run[w].sub \in Subtasks /\ PartOf(run[w].sub, run[w].list) /\ RunOK(run[w])
      /\ run[w].next # "end"
  BY <1>1, Worker DEF RunOK
<1>3. PICK m : m = [sub |-> run[w].sub, list |-> run[w].list, st |-> run[w].st]
  OBVIOUS
<1>4. m.sub = run[w].sub /\ m.list = run[w].list /\ m.st = run[w].st
  BY <1>3
<1>5. /\ queue' = queue (+) SetToBag({m}) /\ Step(w, Idle)
      /\ UNCHANGED <<entry, locked, faults, delivered, refused, tainted>>
  BY <1>3 DEF RetryPublished
<1>6. DOMAIN queue' \subseteq DOMAIN queue \cup {m}
  BY <1>5 DEF (+), SetToBag
<1>7. run'[w] = Idle /\ \A v \in Workers \ {w} : run'[v] = run[v]
  BY <1>5, TakesStep
<1>8. ItsOwnStep(w)
  BY <1>1, <1>4, <1>5, <1>6, <1>7, NoFault DEF ItsOwnStep
<1>9. ASSUME NEW s \in Subtasks, s = run[w].sub, Clean(s)'
      PROVE  SubOK(s)'
  <2>1. /\ SubOK(s) /\ OnceOnly(s) /\ InHandOK(s, run[w])
        /\ \A c \in Carriers(s) : RetryCount(c.st) < RetryCount(entry.status[s])
    BY <1>1, <1>5, <1>9, InHandFacts
  <2>2. /\ ~Ready(s) /\ m.st = entry.status[s]
        /\ Fresh(m.list) /\ Accounts(s, m.st, Len(m.list))
    BY <1>1, <1>2, <1>4, <2>1 DEF InHandOK
  <2>3. OnceOnly(s)' /\ Fresh(m.list)' /\ ~Ready(s)'
    BY <1>5, <2>1, <2>2, NobodyMailed DEF Ready
  <2>4. Accounts(s, m.st, Len(m.list))'
    BY <1>5, <2>2 DEF Accounts, Taken, NoneUnexpected
  <2>5. Hands(s)' = {}
    BY <1>1, <1>7, <1>9, <2>1 DEF Hands, InHand, Sending, SubOK, Idle
  <2>6. Carriers(s)' \subseteq Carriers(s) \cup {m}
    BY <1>6, <1>7 DEF Carriers, Idle
  <2>7. RetryCount(entry.status[s]) \in Nat /\ \A c \in Carriers(s) : RetryCount(c.st) \in Nat
    BY RowType, CarrierType
  <2>8. ASSUME NEW c \in Carriers(s)'
        PROVE  /\ RetryCount(c.st) <= RetryCount(entry'.status[s])
               /\ RetryCount(c.st) = RetryCount(entry'.status[s]) =>
                     Fresh(c.list)' /\ Accounts(s, c.st, Len(c.list))'
    <3>1. UNCHANGED entry
      BY <1>5
    <3>2. CASE c = m
      BY <2>2, <2>3, <2>4, <2>7, <3>1, <3>2
    <3>3. CASE c \in Carriers(s)
      BY <2>1, <2>7, <3>1, <3>3
    <3>. QED  BY <2>6, <2>8, <3>2, <3>3
  <2>. QED  BY <2>3, <2>5, <2>8 DEF SubOK
<1>10. RowOK(entry'.status[run[w].sub])
  BY <1>2, <1>5 DEF DeliveryInv
<1>11. \A n \in DOMAIN queue' \ DOMAIN queue : PartOf(n.sub, n.list)
  BY <1>2, <1>4, <1>6
<1>. QED  BY <1>7, <1>8, <1>9, <1>10, <1>11 DEF DeliveryStep

\* A worker that has s in hand without the lock has counted a retry in the row,
\* which the messages there are do not have.
LEMMA WithoutLock ==
    ASSUME DeliveryInv, NEW s \in Subtasks, Clean(s), NEW w \in Hands(s), ~run[w].holds
    PROVE  \A c \in Carriers(s) : RetryCount(c.st) < RetryCount(entry.status[s])
<1>1. w \in Workers /\ Working(w) /\ InHand(w)
  BY DEF Hands, Working, InHand, Sending
<1>2. BeforeRetry(w)
  BY <1>1, Worker DEF BeforeRetry, InHand, RunOK
<1>. QED  BY <1>2 DEF DeliveryInv, SubOK, HandOK

\* A run takes the lock: nobody else has the subtask in hand, and its message
\* is the latest.
LEMMA LockDelivers ==
    ASSUME DeliveryInv, TypeInv', NEW w \in Workers, Lock(w)
    PROVE  DeliveryStep(w)
<1>1. run[w].pc = "lock" /\ Working(w) /\ ~InHand(w)
  BY DEF Lock, Working, InHand, Sending
<1>2. /\ run[w] \in Runs /\ run[w].sub \in Subtasks /\ run[w].st \in Statuses
      /\ PartOf(run[w].sub, run[w].list) /\ RunOK(run[w]) /\ RetryCount(run[w].st) \in Nat
  BY <1>1, Worker
<1>3. /\ UNCHANGED <<entry, queue, faults, delivered, refused>>
      /\ tainted \subseteq tainted'
  BY DEF Lock, Taints
<1>4. faults'["unexpected"] <= faults["unexpected"]
  <2>1. faults \in [FaultKinds -> Nat] /\ "unexpected" \in FaultKinds
    BY DEF DeliveryInv, LockInv, TypeInv, TypeOK, FaultKinds
  <2>. QED  BY <1>3, <2>1
<1>5. RowOK(entry'.status[run[w].sub])
  BY <1>2, <1>3 DEF DeliveryInv
<1>6. CASE Step(w, Idle)
  <2>1. run'[w] = Idle /\ \A v \in Workers \ {w} : run'[v] = run[v]
    BY <1>6, TakesStep
  <2>2. ItsOwnStep(w)
    BY <1>1, <1>3, <1>4, <2>1 DEF ItsOwnStep
  <2>3. ~InHand(w)' /\ run'[w].pc # "lock"
    BY <2>1 DEF InHand, Sending, Idle
  <2>4. \A s \in Subtasks : s = run[w].sub /\ Clean(s)' => SubOK(s)'
    BY <1>1, <1>3, <2>2, <2>3, OutOfHand
  <2>. QED  BY <1>3, <1>5, <2>1, <2>2, <2>4 DEF DeliveryStep
<1>7. CASE /\ run[w].sub \notin locked
           /\ Step(w, [run[w] EXCEPT !.pc = "filter", !.holds = TRUE])
           /\ Taints(run[w].sub, run[w].seen # entry.status[run[w].sub])
  <2>1. PICK r : r = [run[w] EXCEPT !.pc = "filter", !.holds = TRUE]
    OBVIOUS
  <2>2. /\ r.pc = "filter" /\ r.sub = run[w].sub /\ r.list = run[w].list
        /\ r.st = run[w].st /\ r.holds
    BY <1>2, <2>1 DEF Runs
  <2>3. run'[w] = r /\ \A v \in Workers \ {w} : run'[v] = run[v]
    BY <1>7, <2>1, TakesStep
  <2>4. ItsOwnStep(w)
    BY <1>1, <1>3, <1>4, <2>2, <2>3 DEF ItsOwnStep
  <2>5. PartOf(r.sub, r.list) /\ RunOK(r)
    BY <1>2, <2>2 DEF RunOK, Sending
  <2>6. ASSUME NEW s \in Subtasks, s = run[w].sub, Clean(s)'
        PROVE  SubOK(s)'
    <3>1. Clean(s) /\ SubOK(s) /\ RowOK(entry.status[s])
      BY <1>3, <2>6 DEF Clean, DeliveryInv
    <3>2. run[w].seen = entry.status[s]
      BY <1>7, <2>6 DEF Taints, Clean
    <3>3. run[w] \in Carriers(s)
      BY <1>1, <2>6 DEF Carriers
    <3>4. /\ ~Ready(s)
          /\ RetryCount(run[w].st) = RetryCount(entry.status[s])
      <4>1. ~Ready(s) /\ (entry.status[s].state = "RETRY" =>
                             RetryCount(run[w].st) >= RetryCount(entry.status[s]))
        BY <1>1, <1>2, <3>2 DEF RunOK, Ready
      <4>2. /\ RetryCount(entry.status[s]) \in Nat
            /\ RetryCount(run[w].st) <= RetryCount(entry.status[s])
        BY <3>1, <3>3, <4>1, RowType DEF SubOK
      <4>. QED  BY <1>2, <3>1, <4>1, <4>2 DEF RowOK, Ready
    <3>5. Hands(s) = {}
      <4>1. ASSUME NEW v \in Hands(s) PROVE FALSE
        <5>1. v \in Workers /\ Working(v) /\ run[v].sub = s
          BY DEF Hands, Working, InHand, Sending
        <5>2. CASE run[v].holds
          BY <1>7, <2>6, <3>1, <5>1, <5>2 DEF DeliveryInv, LockInv, HoldersLock, Holds
        <5>3. CASE ~run[v].holds
          <6>1. RetryCount(run[w].st) < RetryCount(entry.status[s])
            BY <3>1, <3>3, <5>3, WithoutLock
          <6>. QED  BY <1>2, <3>4, <6>1
        <5>. QED  BY <5>2, <5>3
      <4>. QED  BY <4>1
    <3>6. Fresh(run[w].list) /\ Accounts(s, run[w].st, Len(run[w].list))
      BY <3>1, <3>3, <3>4, <3>5 DEF SubOK
    <3>7. OnceOnly(s)' /\ Fresh(r.list)' /\ ~Ready(s)'
      BY <1>3, <2>2, <3>1, <3>4, <3>6, NobodyMailed DEF Ready, SubOK
    <3>8. Accounts(s, r.st, Len(r.list))'
      BY <1>3, <2>2, <3>6 DEF Accounts, Taken, NoneUnexpected
    <3>9. InHandOK(s, r)'
      BY <1>3, <2>2, <3>4, <3>7, <3>8 DEF InHandOK, Sending
    <3>10. HandOK(s, w)'
      BY <2>2, <2>3, <3>9 DEF HandOK, InHandOK, BeforeRetry
    <3>11. Hands(s)' = {w}
      BY <2>2, <2>3, <2>6, <3>5 DEF Hands, InHand, Sending
    <3>12. Carriers(s)' \subseteq Carriers(s)
      BY <1>3, <2>2, <2>3 DEF Carriers
    <3>13. \A c \in Carriers(s)' : RetryCount(c.st) <= RetryCount(entry'.status[s])
      BY <1>3, <3>1, <3>4, <3>12 DEF SubOK
    <3>. QED  BY <3>7, <3>10, <3>11, <3>13 DEF SubOK
  <2>. QED  BY <1>3, <1>5, <2>3, <2>4, <2>5, <2>6 DEF DeliveryStep
<1>. QED  BY <1>6, <1>7 DEF Lock

\* A list without repetitions is as long as the set of its elements.
LEMMA InjectiveLen ==
    ASSUME NEW S, NEW list \in Seq(S), IsInjective(list)
    PROVE  /\ Len(list) \in Nat
           /\ IsFiniteSet(ToSet(list))
           /\ Cardinality(ToSet(list)) = Len(list)
<1>1. Len(list) \in Nat /\ DOMAIN list = 1 .. Len(list) /\ list \in [1 .. Len(list) -> S]
  BY LenProperties
<1>2. list \in [1 .. Len(list) -> ToSet(list)]
  BY <1>1 DEF ToSet
<1>3. list \in Injection(1 .. Len(list), ToSet(list))
  BY <1>2 DEF Injection
<1>4. list \in Surjection(1 .. Len(list), ToSet(list))
  BY <1>1, <1>2 DEF Surjection, ToSet
<1>5. ExistsBijection(1 .. Len(list), ToSet(list))
  BY <1>3, <1>4 DEF ExistsBijection, Bijection
<1>. QED  BY <1>1, <1>5, FS_CountingElements, FS_NatBijection

\* Those who are left of a list, in its order, are as many as the others leave.
LEMMA Left ==
    ASSUME NEW S, NEW list \in Seq(S), IsInjective(list),
           NEW left \in SeqOf(ToSet(list), Len(list)), InOrder(left, list)
    PROVE  /\ left \in Seq(S)
           /\ IsInjective(left)
           /\ ToSet(left) \subseteq ToSet(list)
           /\ Len(left) \in Nat
           /\ Cardinality(ToSet(list) \ ToSet(left)) \in Nat
           /\ Len(list) = Len(left) + Cardinality(ToSet(list) \ ToSet(left))
<1>1. /\ Len(list) \in Nat /\ IsFiniteSet(ToSet(list))
      /\ Cardinality(ToSet(list)) = Len(list)
      /\ DOMAIN list = 1 .. Len(list) /\ ToSet(list) \subseteq S
  BY InjectiveLen, LenProperties, ToSetType
<1>2. PICK m \in 0 .. Len(list) : left \in [1 .. m -> ToSet(list)]
  BY DEF SeqOf
<1>3. m \in Nat /\ left \in Seq(ToSet(list)) /\ left \in Seq(S)
  BY <1>1, <1>2, SeqDef
<1>4. ToSet(left) \subseteq ToSet(list)
  BY <1>3, ToSetType
<1>5. IsInjective(left)
  <2>1. \A k, l \in DOMAIN list : k < l => list[k] # list[l]
    BY <1>1 DEF IsInjective
  <2>2. \A i, j \in DOMAIN left : i < j => left[i] # left[j]
    BY <2>1 DEF InOrder
  <2>3. \A i, j \in DOMAIN left : i # j => i < j \/ j < i
    BY <1>2, <1>3
  <2>. QED  BY <2>2, <2>3 DEF IsInjective
<1>6. /\ Len(left) \in Nat /\ IsFiniteSet(ToSet(left))
      /\ Cardinality(ToSet(left)) = Len(left)
  BY <1>3, <1>5, InjectiveLen
<1>7. ToSet(list) \cap ToSet(left) = ToSet(left)
  BY <1>4
<1>8. /\ IsFiniteSet(ToSet(list) \ ToSet(left))
      /\ Cardinality(ToSet(list) \ ToSet(left)) = Len(list) - Len(left)
  <2>1. /\ IsFiniteSet(ToSet(list) \ ToSet(left))
        /\ Cardinality(ToSet(list) \ ToSet(left))
             = Cardinality(ToSet(list)) - Cardinality(ToSet(list) \cap ToSet(left))
    BY <1>1, FS_Difference
  <2>. QED  BY <1>1, <1>6, <1>7, <2>1
<1>9. Cardinality(ToSet(list) \ ToSet(left)) \in Nat
  BY <1>8, FS_CardinalityType
<1>. QED  BY <1>1, <1>3, <1>4, <1>5, <1>6, <1>8, <1>9

\* No two rows of a chunk without duplicates are of one user.
LEMMA OneRowEach ==
    ASSUME NEW s \in Subtasks, ListedOnce(s)
    PROVE  \A q, r \in ToSet(Chunk[s]) : Person[q] = Person[r] => q = r
<1>1. ToSet(Chunk[s]) = {Chunk[s][i] : i \in DOMAIN Chunk[s]}
  BY DEF ToSet
<1>2. \A i, j \in DOMAIN Chunk[s] : Person[Chunk[s][i]] = Person[Chunk[s][j]] => i = j
  BY DEF ListedOnce, IsInjective
<1>. QED  BY <1>1, <1>2

\* Whoever is filtered out has not been mailed, nor will be.
LEMMA FilterDelivers ==
    ASSUME DeliveryInv, TypeInv', NEW w \in Workers, Filter(w)
    PROVE  DeliveryStep(w)
<1> DEFINE list == run[w].list
<1>1. run[w].pc = "filter" /\ run[w].pc \in Sending
  BY DEF Filter, Sending
<1>2. /\ run[w] \in Runs /\ run[w].sub \in Subtasks /\ list \in Seq(Recipients)
      /\ run[w].st \in Statuses /\ PartOf(run[w].sub, list) /\ RunOK(run[w])
      /\ InHand(w) /\ run[w].holds /\ Len(list) \in Nat
  BY <1>1, SendingWorker, Worker
<1>3. /\ UNCHANGED <<entry, queue, locked, faults, delivered, tainted>>
  BY DEF Filter
<1>4. CASE Step(w, [run[w] EXCEPT !.pc = "connect"]) /\ UNCHANGED refused
  <2>1. PICK r : r = [run[w] EXCEPT !.pc = "connect"]
    OBVIOUS
  <2>2. /\ r \in Runs /\ r.pc = "connect" /\ r.sub = run[w].sub /\ r.list = list
        /\ r.st = run[w].st /\ r.holds
    BY <1>2, <2>1 DEF Runs, PCs
  <2>3. RunOK(r) /\ PartOf(r.sub, r.list) /\ r.pc \in Sending /\ Step(w, r)
    BY <1>2, <1>4, <2>1, <2>2 DEF RunOK, Sending
  <2>4. ASSUME NEW s \in Subtasks, OnceOnly(s), InHandOK(s, run[w])
        PROVE  OnceOnly(s)' /\ InHandOK(s, r)'
    BY <1>1, <1>3, <1>4, <2>2, <2>4 DEF OnceOnly, InHandOK, Sending, Ready, Fresh,
                                   Accounts, Taken, NoneUnexpected
  <2>. QED  BY <1>2, <1>3, <1>4, <2>2, <2>3, <2>4, NoFault, GoesOn
<1>5. ASSUME NEW left \in SeqOf(ToSet(list), Len(list)), InOrder(left, list),
             NEW out, out = ToSet(list) \ ToSet(left),
             NEW optouts \in SUBSET Users(out),
             Step(w, [run[w] EXCEPT !.pc = "connect", !.list = left,
                                    !.st = AddSkipped(@, Skipped(out, optouts))]),
             refused' = refused \cup out
      PROVE  DeliveryStep(w)
  <2> DEFINE skipped == Skipped(out, optouts)
  <2>1. /\ left \in Seq(Recipients) /\ IsInjective(left)
        /\ ToSet(left) \subseteq ToSet(list) /\ Len(left) \in Nat
        /\ Cardinality(out) \in Nat /\ Len(list) = Len(left) + Cardinality(out)
    BY <1>2, <1>5, Left DEF PartOf
  <2>1a. /\ skipped \in Nat /\ skipped <= Cardinality(out)
         /\ ListedOnce(run[w].sub) => skipped = Cardinality(out)
    <3>1. IsFiniteSet(out)
      BY <1>2, <1>5, InjectiveLen, FS_Subset DEF PartOf
    <3>2. out \subseteq ToSet(Chunk[run[w].sub])
      BY <1>2, <1>5 DEF PartOf
    <3>3. ListedOnce(run[w].sub) => \A q, r \in out : Person[q] = Person[r] => q = r
      BY <1>2, <3>2, OneRowEach
    <3>. QED  BY <1>5, <3>1, <3>3, SkippedRows
  <2> HIDE DEF skipped
  <2>2. PICK st : st = AddSkipped(run[w].st, skipped)
    OBVIOUS
  <2>3. /\ st \in Statuses /\ Grows(run[w].st, st, 0, 0, skipped)
        /\ RetryCount(st) = RetryCount(run[w].st)
    <3>1. AddSkipped(run[w].st, skipped) \in Statuses
      BY <1>2, <2>1a, StatusTypes DEF States, READY_STATES
    <3>. QED  BY <1>2, <2>1a, <2>2, <3>1, Added
  <2>4. PICK r : r = [run[w] EXCEPT !.pc = "connect", !.list = left, !.st = st]
    OBVIOUS
  <2>5. /\ r \in Runs /\ r.pc = "connect" /\ r.sub = run[w].sub /\ r.list = left
        /\ r.st = st /\ r.holds
    BY <1>2, <2>1, <2>3, <2>4 DEF Runs, PCs
  <2>6. RunOK(r) /\ PartOf(r.sub, r.list) /\ r.pc \in Sending
    BY <1>2, <2>1, <2>5 DEF RunOK, Sending, PartOf
  <2>7. Step(w, r)
    BY <1>5, <2>2, <2>4 DEF skipped
  <2>8. \A x \in Recipients : x \notin ToSet(list) =>
           delivered'[x] = delivered[x] /\ (x \in refused' <=> x \in refused)
    BY <1>3, <1>5
  <2>9. ASSUME NEW s \in Subtasks, s = run[w].sub, OnceOnly(s), InHandOK(s, run[w])
        PROVE  OnceOnly(s)' /\ InHandOK(s, r)'
    <3>1. /\ ~Ready(s) /\ RetryCount(run[w].st) = RetryCount(entry.status[s])
          /\ Fresh(list) /\ Accounts(s, run[w].st, Len(list))
      BY <1>1, <2>9, SendingFacts
    <3>2. OnceOnly(s)'
      BY <1>3, <1>5, <2>9, <3>1 DEF OnceOnly, Fresh
    <3>3. Fresh(r.list)'
      BY <1>3, <1>5, <2>1, <2>5, <3>1 DEF Fresh
    <3>4. Accounts(s, r.st, Len(r.list))'
      <4>1. NoneUnexpected' =>
               /\ NoneUnexpected
               /\ Len(left) + 0 + skipped <= Len(list)
               /\ ListedOnce(s) => Len(list) = Len(left) + 0 + skipped
        BY <1>3, <2>1, <2>1a, <2>9 DEF NoneUnexpected
      <4>2. Accounts(s, st, Len(left))'
        BY <1>2, <1>3, <2>1, <2>1a, <2>3, <3>1, <4>1, AccountsMore
      <4>. QED  BY <2>5, <4>2
    <3>5. ~Ready(s)' /\ RetryCount(r.st) = RetryCount(entry'.status[s])
      BY <1>3, <2>3, <2>5, <3>1 DEF Ready
    <3>. QED  BY <2>5, <2>6, <3>2, <3>3, <3>4, <3>5 DEF InHandOK
  <2>. QED  BY <1>2, <1>3, <2>5, <2>6, <2>7, <2>8, <2>9, NoFault, GoesOn
<1>6. ASSUME NEW left \in SeqOf(ToSet(list), Len(list)),
             LET out == ToSet(list) \ ToSet(left)
             IN  /\ InOrder(left, list)
                 /\ \E optouts \in SUBSET Users(out) :
                       Step(w, [run[w] EXCEPT
                          !.pc = "connect", !.list = left,
                          !.st = AddSkipped(@, Skipped(out, optouts))])
                 /\ refused' = refused \cup out
      PROVE  DeliveryStep(w)
  <2>1. PICK out : out = ToSet(list) \ ToSet(left)
    OBVIOUS
  <2>. QED  BY <1>5, <1>6, <2>1
<1>. QED  BY <1>4, <1>6 DEF Filter

\* A step in which only copies of messages are made, or messages go, or locks.
LEMMA Rearranged ==
    ASSUME DeliveryInv, TypeInv', UNCHANGED <<entry, delivered, refused>>,
           faults'["unexpected"] <= faults["unexpected"],
           \A v \in Workers : run'[v] = run[v] \/ (~InHand(v) /\ ~InHand(v)'),
           NEW s \in Subtasks, Clean(s),
           \A c \in Carriers(s)' : \E d \in Carriers(s) : c.st = d.st /\ c.list = d.list
    PROVE  SubOK(s)'
<1>1. SubOK(s)
  BY DEF DeliveryInv
<1>2. Hands(s)' = Hands(s) /\ \A v \in Hands(s) : run'[v] = run[v]
  BY DEF Hands, InHand
<1>3. \A c \in Carriers(s) : PartOf(s, c.list)
  BY CarrierType
<1>4. \A v \in Hands(s) : PartOf(s, run[v].list)
  BY Worker DEF Hands, InHand, Sending, Working
<1>5. NoneUnexpected' => NoneUnexpected
  BY Unexpected DEF TypeInv, TypeOK
<1>. QED  BY <1>1, <1>2, <1>3, <1>4, <1>5, SubFrame

\* A message, or a copy of it, is with a worker who finds that it is the latest.
LEMMA ReceiveDelivers ==
    ASSUME DeliveryInv, TypeInv', NEW w \in Workers, NEW m \in DOMAIN queue, Receive(w, m)
    PROVE  DeliveryParts'
<1>1. /\ run[w] = Idle /\ UNCHANGED <<entry, locked, delivered, refused, tainted>>
      /\ ~InHand(w)
  BY DEF Receive, InHand, Idle, Sending
<1>2. DOMAIN queue' \subseteq DOMAIN queue
  <2>1. CASE queue' = queue (-) SetToBag({m})
    BY <2>1 DEF (-)
  <2>2. CASE UNCHANGED queue
    BY <2>2
  <2>. QED  BY <2>1, <2>2 DEF Receive
<1>3. faults'["unexpected"] <= faults["unexpected"]
  <2>1. CASE UNCHANGED faults
    BY <1>1, <2>1, NoFault
  <2>2. CASE Spend("redeliver")
    BY <2>2, SpendLess DEF FaultKinds
  <2>. QED  BY <2>1, <2>2 DEF Receive
<1>4. /\ m.sub \in Subtasks /\ m.list \in Seq(Recipients) /\ m.st \in Statuses
      /\ PartOf(m.sub, m.list)
  BY DEF DeliveryInv, LockInv, TypeInv, TypeOK, Messages, ListsOK
<1>5. /\ \A v \in Workers \ {w} : run'[v] = run[v]
      /\ \/ run'[w] = Idle
         \/ /\ Admits(entry, m.sub, m.st)
            /\ run'[w].pc = "lock" /\ run'[w].sub = m.sub /\ run'[w].list = m.list
            /\ run'[w].st = m.st /\ run'[w].seen = entry.status[m.sub]
  <2>1. CASE UNCHANGED run
    BY <1>1, <2>1
  <2>2. CASE /\ Admits(entry, m.sub, m.st)
             /\ Step(w, [pc |-> "lock", sub |-> m.sub, list |-> m.list,
                         num |-> Len(m.list), st |-> m.st,
                         seen |-> entry.status[m.sub], next |-> "end",
                         frames |-> 0, ok |-> TRUE, holds |-> FALSE])
    <3>1. run'[w] = [pc |-> "lock", sub |-> m.sub, list |-> m.list,
                     num |-> Len(m.list), st |-> m.st,
                     seen |-> entry.status[m.sub], next |-> "end",
                     frames |-> 0, ok |-> TRUE, holds |-> FALSE]
          /\ \A v \in Workers \ {w} : run'[v] = run[v]
      BY <2>2, TakesStep
    <3>. QED  BY <2>2, <3>1
  <2>. QED  BY <2>1, <2>2 DEF Receive
<1>6. RunOK(run'[w])
  <2>1. RunOK(Idle)
    BY DEF RunOK, Idle, Sending
  <2>2. CASE run'[w] # Idle
    <3>1. run'[w].pc = "lock" /\ run'[w].st = m.st /\ run'[w].seen = entry.status[m.sub]
          /\ Admits(entry, m.sub, m.st)
      BY <1>5, <2>2
    <3>. QED  BY <3>1 DEF RunOK, Admits, Sending
  <2>. QED  BY <2>1, <2>2
<1>7. ListsOK'
  <2>1. \A n \in DOMAIN queue' : PartOf(n.sub, n.list)
    BY <1>2 DEF DeliveryInv, ListsOK
  <2>2. \A v \in Workers : Working(v)' => PartOf(run'[v].sub, run'[v].list)
    BY <1>4, <1>5 DEF DeliveryInv, ListsOK, Working, Idle
  <2>. QED  BY <2>1, <2>2 DEF ListsOK, PartOf
<1>8. ASSUME NEW s \in Subtasks, Clean(s)'
      PROVE  SubOK(s)'
  <2>1. \A v \in Workers : run'[v] = run[v] \/ (~InHand(v) /\ ~InHand(v)')
    BY <1>1, <1>5 DEF InHand, Idle, Sending
  <2>2. ASSUME NEW c \in Carriers(s)'
        PROVE  \E d \in Carriers(s) : c.st = d.st /\ c.list = d.list
    <3>1. CASE c \in DOMAIN queue' /\ c.sub = s
      BY <1>2, <3>1 DEF Carriers
    <3>2. ASSUME NEW v \in Workers, c = run'[v], run'[v].pc = "lock", run'[v].sub = s
          PROVE  \E d \in Carriers(s) : c.st = d.st /\ c.list = d.list
      <4>1. CASE v = w
        BY <1>5, <3>2, <4>1 DEF Carriers, Idle
      <4>2. CASE v # w
        BY <1>5, <3>2, <4>2 DEF Carriers
      <4>. QED  BY <4>1, <4>2
    <3>. QED  BY <2>2, <3>1, <3>2 DEF Carriers
  <2>3. Clean(s)
    BY <1>1, <1>8 DEF Clean
  <2>. QED  BY <1>1, <1>3, <2>1, <2>2, <2>3, Rearranged
<1>9. \A v \in Workers : RunOK(run'[v])
  BY <1>5, <1>6 DEF DeliveryInv
<1>10. \A s \in Subtasks : RowOK(entry'.status[s])
  BY <1>1 DEF DeliveryInv
<1>11. faults'["unexpected"] <= Faults["unexpected"]
  BY <1>3, Unexpected DEF TypeInv, TypeOK
<1>. QED  BY <1>7, <1>8, <1>9, <1>10, <1>11 DEF DeliveryParts, RunOK, RowOK

\* A worker that dies without the lock leaves an earlier version of its message,
\* or none.
LEMMA CrashDelivers ==
    ASSUME DeliveryInv, TypeInv', NEW w \in Workers, Crash(w)
    PROVE  DeliveryStep(w)
<1>1. /\ Working(w) /\ Step(w, Idle)
      /\ UNCHANGED <<entry, queue, locked, delivered, refused>>
      /\ tainted \subseteq tainted'
  BY DEF Crash, Taints
<1>2. run[w].sub \in Subtasks
  BY <1>1, Worker
<1>3. run'[w] = Idle /\ \A v \in Workers \ {w} : run'[v] = run[v]
  BY <1>1, TakesStep
<1>4. faults'["unexpected"] <= faults["unexpected"]
  BY SpendLess DEF Crash, FaultKinds
<1>5. ItsOwnStep(w)
  BY <1>1, <1>3, <1>4 DEF ItsOwnStep
<1>6. RowOK(entry'.status[run[w].sub])
  BY <1>1, <1>2 DEF DeliveryInv
<1>7. ASSUME NEW s \in Subtasks, s = run[w].sub, Clean(s)'
      PROVE  SubOK(s)'
  <2>1. Clean(s) /\ ~run[w].holds
    BY <1>1, <1>7 DEF Crash, Taints, Clean
  <2>2. ~InHand(w)' /\ run'[w].pc # "lock"
    BY <1>3 DEF InHand, Sending, Idle
  <2>3. CASE ~InHand(w)
    BY <1>1, <1>5, <1>7, <2>2, <2>3, OutOfHand
  <2>4. CASE InHand(w)
    <3>1. SubOK(s) /\ OnceOnly(s) /\ InHandOK(s, run[w])
      BY <1>1, <1>7, <2>4, InHandFacts
    <3>2. w \in Hands(s)
      BY <1>7, <2>4 DEF Hands
    <3>3. \A c \in Carriers(s) : RetryCount(c.st) < RetryCount(entry.status[s])
      BY <2>1, <3>2, WithoutLock
    <3>4. OnceOnly(s)' /\ ~Ready(s)'
      BY <1>1, <3>1, NobodyMailed DEF Ready, InHandOK
    <3>5. Hands(s)' = {}
      BY <1>3, <2>2, <3>1, <3>2 DEF Hands, InHand, SubOK
    <3>6. Carriers(s)' \subseteq Carriers(s)
      BY <1>1, <1>3 DEF Carriers, Idle
    <3>7. RetryCount(entry.status[s]) \in Nat /\ \A c \in Carriers(s) : RetryCount(c.st) \in Nat
      BY RowType, CarrierType
    <3>8. \A c \in Carriers(s)' : RetryCount(c.st) < RetryCount(entry'.status[s])
                                  /\ RetryCount(c.st) # RetryCount(entry'.status[s])
                                  /\ RetryCount(c.st) <= RetryCount(entry'.status[s])
      BY <1>1, <3>3, <3>6, <3>7
    <3>. QED  BY <3>4, <3>5, <3>8 DEF SubOK
  <2>. QED  BY <2>3, <2>4
<1>. QED  BY <1>1, <1>3, <1>5, <1>6, <1>7 DEF DeliveryStep

LEMMA LockExpireDelivers ==
    ASSUME DeliveryInv, TypeInv', NEW t \in Subtasks, LockExpire(t)
    PROVE  DeliveryParts'
<1>1. /\ UNCHANGED <<entry, queue, run, delivered, refused>>
      /\ tainted \subseteq tainted'
  BY DEF LockExpire, Taints
<1>2. faults'["unexpected"] <= faults["unexpected"]
  BY SpendLess DEF LockExpire, FaultKinds
<1>3. ASSUME NEW s \in Subtasks, Clean(s)'
      PROVE  SubOK(s)'
  <2>1. Carriers(s)' = Carriers(s) /\ Clean(s)
    BY <1>1, <1>3 DEF Carriers, Clean
  <2>2. \A c \in Carriers(s)' : \E d \in Carriers(s) : c.st = d.st /\ c.list = d.list
    BY <2>1
  <2>. QED  BY <1>1, <1>2, <2>1, <2>2, Rearranged
<1>4. faults'["unexpected"] <= Faults["unexpected"]
  BY <1>2, Unexpected DEF TypeInv, TypeOK
<1>5. ListsOK'
  BY <1>1 DEF DeliveryInv, ListsOK, Working
<1>6. /\ \A w \in Workers : RunOK(run'[w])
      /\ \A s \in Subtasks : RowOK(entry'.status[s])
  BY <1>1 DEF DeliveryInv
<1>. QED  BY <1>3, <1>4, <1>5, <1>6 DEF DeliveryParts, RunOK, RowOK

\* What queue_subtasks_for_query leaves.
LEMMA DeliveryInit == Init => DeliveryInv
<1> SUFFICES ASSUME Init PROVE DeliveryInv
  OBVIOUS
<1>1. LockInv
  BY LockInit
<1>2. /\ \A w \in Workers : run[w] = Idle
      /\ DOMAIN queue = {FirstMessage(s) : s \in Subtasks}
      /\ \A s \in Subtasks : entry.status[s] = NewStatus
      /\ \A r \in Recipients : delivered[r] = 0
      /\ refused = {} /\ faults = Faults
  BY DEF Init, InitializeSubtaskInfo, SetToBag
<1>3. ListsOK
  BY <1>2, Chunks DEF ListsOK, Working, Idle, FirstMessage
<1>4. \A w \in Workers : RunOK(run[w])
  BY <1>2 DEF RunOK, Idle, Sending
<1>5. RetryCount(NewStatus) = 0 /\ NewStatus.state = "QUEUING"
  BY DEF RetryCount, NewStatus
<1>6. \A s \in Subtasks : RowOK(entry.status[s]) /\ ~Ready(s)
  BY <1>2, <1>5 DEF RowOK, Ready, READY_STATES
<1>7. faults["unexpected"] <= Faults["unexpected"]
  <2>1. Faults["unexpected"] \in Nat
    BY SubtasksAssumption DEF FaultKinds
  <2>. QED  BY <1>2, <2>1
<1>8. ASSUME NEW s \in Subtasks PROVE SubOK(s)
  <2>1. ToSet(Chunk[s]) \subseteq Recipients /\ Chunk[s] \in Seq(Recipients)
    BY Chunks
  <2>2. OnceOnly(s) /\ Fresh(Chunk[s])
    BY <1>2, <2>1 DEF OnceOnly, Fresh
  <2>3. Hands(s) = {}
    BY <1>2 DEF Hands, InHand, Sending, Idle
  <2>4. \A c \in Carriers(s) : c.st = NewStatus /\ c.list = Chunk[s]
    BY <1>2 DEF Carriers, FirstMessage, Idle
  <2>5. Accounts(s, NewStatus, Len(Chunk[s]))
    <3>1. Taken(s) = {}
      BY <1>2, <2>1 DEF Taken
    <3>2. Cardinality(Taken(s)) = 0
      BY <3>1, FS_EmptySet
    <3>3. Len(Chunk[s]) \in Nat
      BY <2>1, LenProperties
    <3>4. 0 + 0 + Len(Chunk[s]) = Len(Chunk[s]) /\ Len(Chunk[s]) <= Len(Chunk[s])
      BY <3>3
    <3>. QED  BY <3>2, <3>4 DEF Accounts, NewStatus
  <2>6. ASSUME NEW c \in Carriers(s)
        PROVE  /\ RetryCount(c.st) <= RetryCount(entry.status[s])
               /\ Fresh(c.list) /\ Accounts(s, c.st, Len(c.list))
    <3>1. c.st = NewStatus /\ c.list = Chunk[s] /\ entry.status[s] = NewStatus
      BY <1>2, <2>4
    <3>2. RetryCount(c.st) = 0 /\ RetryCount(entry.status[s]) = 0
      BY <1>5, <3>1
    <3>. QED  BY <2>2, <2>5, <3>1, <3>2
  <2>. QED  BY <1>6, <2>2, <2>3, <2>6 DEF SubOK
<1>. QED  BY <1>1, <1>3, <1>4, <1>6, <1>7, <1>8 DEF DeliveryInv

LEMMA DeliveryNext == DeliveryInv /\ [Next]_vars => DeliveryInv'
<1> SUFFICES ASSUME DeliveryInv, [Next]_vars PROVE DeliveryInv'
  OBVIOUS
<1>1. LockInv' /\ TypeInv'
  BY LockNext DEF DeliveryInv, LockInv
<1>. SUFFICES DeliveryParts'
  BY <1>1 DEF DeliveryInv, DeliveryParts
<1>2. ASSUME NEW w \in Workers, Process(w) PROVE DeliveryStep(w)
  BY <1>1, <1>2, LockDelivers, FilterDelivers, ConnectDelivers, SendAcceptedDelivers,
     SendRejectedDelivers, SendThrottledDelivers, SendInterruptedDelivers,
     SendFatalDelivers, SendDoneDelivers, SendUnexpectedDelivers,
     UpdateCommitsDelivers, UpdateFailsDelivers, ReleaseDelivers,
     RetryPublishedDelivers, RetryFailsDelivers DEF Process
<1>3. ASSUME NEW w \in Workers, DeliveryStep(w) PROVE DeliveryParts'
  BY <1>1, <1>3, StepDelivers
<1>4. CASE \E w \in Workers : Work(w)
  BY <1>1, <1>2, <1>3, <1>4, ReceiveDelivers DEF Work
<1>5. CASE Environment
  BY <1>1, <1>3, <1>5, CrashDelivers, LockExpireDelivers DEF Environment
<1>6. CASE UNCHANGED vars
  <2>1. UNCHANGED <<entry, queue, locked, run, faults, delivered, refused, tainted>>
    BY <1>6 DEF vars
  <2>2. ASSUME NEW s \in Subtasks, Clean(s)' PROVE SubOK(s)'
    <3>1. Carriers(s)' = Carriers(s) /\ Clean(s)
      BY <2>1, <2>2 DEF Carriers, Clean
    <3>2. faults'["unexpected"] <= faults["unexpected"]
      BY <2>1, NoFault
    <3>3. \A c \in Carriers(s)' : \E d \in Carriers(s) : c.st = d.st /\ c.list = d.list
      BY <3>1
    <3>. QED  BY <1>1, <2>1, <3>1, <3>2, <3>3, Rearranged
  <2>3. ListsOK'
    BY <2>1 DEF DeliveryInv, ListsOK, Working
  <2>4. /\ \A w \in Workers : RunOK(run'[w])
        /\ \A s \in Subtasks : RowOK(entry'.status[s])
        /\ faults'["unexpected"] <= Faults["unexpected"]
    BY <2>1 DEF DeliveryInv
  <2>. QED  BY <2>2, <2>3, <2>4 DEF DeliveryParts, RunOK, RowOK
<1>. QED  BY <1>4, <1>5, <1>6 DEF Next

\* Across all retries, redeliveries and failures of a subtask, however many, a
\* row of the query is mailed at most once, and never after having been filtered
\* out, as long as none of the accidents at Taints strikes the subtask.  A user
\* whom the query lists twice may be mailed twice.
THEOREM DeliveredOnce == Spec => []CleanDeliveredOnce
<1>1. DeliveryInv => CleanDeliveredOnce
  BY DEF DeliveryInv, SubOK, OnceOnly, CleanDeliveredOnce
<1>. QED  BY DeliveryInit, DeliveryNext, <1>1, PTL DEF Spec

\* The report in the row of a finished subtask accounts for its recipients: its
\* successes are those whom the mail server took, and nobody is left out, unless
\* the query lists a user twice who has opted out.
THEOREM ReportIsTrue == Spec => []CleanReport
<1>1. DeliveryInv => CleanReport
  <2> SUFFICES ASSUME DeliveryInv, NEW s \in Subtasks, Clean(s), Ready(s)
               PROVE  LET st == entry.status[s]
                      IN  /\ st.succeeded = Cardinality({r \in ToSet(Chunk[s]) : delivered[r] > 0})
                          /\ st.attempted = st.succeeded + st.failed
                          /\ faults.unexpected = Faults.unexpected =>
                                /\ st.attempted + st.skipped <= Len(Chunk[s])
                                /\ ListedOnce(s) => st.attempted + st.skipped = Len(Chunk[s])
    BY DEF CleanReport
  <2>1. Accounts(s, entry.status[s], 0)
    BY DEF DeliveryInv, SubOK
  <2>2. /\ entry.status[s].attempted \in Nat
        /\ entry.status[s].skipped \in Nat
    BY RowType DEF Statuses
  <2>. QED  BY <2>1, <2>2 DEF Accounts, Taken, NoneUnexpected
<1>. QED  BY DeliveryInit, DeliveryNext, <1>1, PTL DEF Spec

\* The status of a finished subtask is final: no message of it, however late or
\* often it is handed out, leads to another update of its row.
THEOREM ReadyIsFinal == Spec => CleanReadyIsFinal
<1>1. DeliveryInv /\ [Next]_vars =>
         \A s \in Subtasks : Ready(s) /\ s \notin tainted' => entry'.status[s] = entry.status[s]
  <2> SUFFICES ASSUME DeliveryInv, [Next]_vars,
                      NEW s \in Subtasks, Ready(s), s \notin tainted'
               PROVE  entry'.status[s] = entry.status[s]
    OBVIOUS
  <2>1. CASE UNCHANGED entry
    BY <2>1
  <2>2. ASSUME NEW w \in Workers, UpdateCommits(w)
        PROVE  entry'.status[s] = entry.status[s]
    <3>1. run[w].pc = "update" /\ InHand(w) /\ UNCHANGED tainted
      BY <2>2 DEF UpdateCommits, InHand
    <3>2. run[w].sub # s
      <4>1. SUFFICES ASSUME run[w].sub = s PROVE FALSE
        OBVIOUS
      <4>2. Clean(s)
        BY <3>1 DEF Clean
      <4>3. InHandOK(s, run[w])
        BY <3>1, <4>1, <4>2 DEF DeliveryInv, SubOK, HandOK, Hands
      <4>. QED  BY <4>3 DEF InHandOK
    <3>3. entry \in Entries(Subtasks) /\ run[w].sub \in Subtasks
      BY <3>1, Worker DEF Working, DeliveryInv, LockInv, TypeInv, TypeOK
    <3>. QED  BY <2>2, <3>2, <3>3, UpdatesRow DEF UpdateCommits
  <2>. QED
    BY <2>1, <2>2 DEF Next, Work, Process, Environment, Receive, Lock, Filter, Connect,
       SendAccepted, SendRejected, SendThrottled, SendInterrupted, SendFatal, SendDone,
       SendUnexpected, UpdateFails, Release, RetryPublished, RetryFails, Crash,
       LockExpire, vars
<1>2. DeliveryInv /\ [Next]_vars =>
         [\A s \in Subtasks : Ready(s) /\ s \notin tainted' =>
             entry'.status[s] = entry.status[s]]_vars
  BY <1>1
<1>. QED  BY DeliveryInit, DeliveryNext, <1>2, PTL DEF Spec, CleanReadyIsFinal

-----------------------------------------------------------------------------
(* Retries                                                                 *)

\* retry() gives up exactly when one of the two kinds of retry has exceeded its
\* own limit: the limit that the code computes for the sum of both amounts to that.
THEOREM RetriesApart == Spec => RetriesCountedApart
<1> DEFINE A == \A w \in Workers :
                   LET spent == \/ run[w].st.retried_withmax > MaxRetries
                                \/ /\ run[w].next = "retry_nomax"
                                   /\ run[w].st.retried_nomax > RetryCap
                   IN  /\ RetryPublished(w) => ~spent
                       /\ RetryFails(w) /\ faults' = faults => spent
<1>1. TypeInv => A
  <2> SUFFICES ASSUME TypeInv, NEW w \in Workers
               PROVE  LET spent == \/ run[w].st.retried_withmax > MaxRetries
                                   \/ /\ run[w].next = "retry_nomax"
                                      /\ run[w].st.retried_nomax > RetryCap
                      IN  /\ RetryPublished(w) => ~spent
                          /\ RetryFails(w) /\ faults' = faults => spent
    OBVIOUS
  <2> DEFINE st == run[w].st
  <2>1. run[w].pc = "retry" =>
           /\ st.retried_withmax \in Nat /\ st.retried_nomax \in Nat
    BY WorkingType DEF TypeInv, Statuses
  <2>2. MaxRetries \in Nat /\ RetryCap \in Nat
    BY SubtasksAssumption
  <2>3. run[w].pc = "retry" =>
           (RetryCount(st) > RetryLimit(run[w]) <=>
              \/ st.retried_withmax > MaxRetries
              \/ run[w].next = "retry_nomax" /\ st.retried_nomax > RetryCap)
    BY <2>1, <2>2 DEF RetryCount, RetryLimit
  <2>4. run[w].pc = "retry" =>
           (RetryCount(st) <= RetryLimit(run[w]) <=> ~(RetryCount(st) > RetryLimit(run[w])))
    BY <2>1, <2>2 DEF RetryCount, RetryLimit
  <2>5. faults' = faults => ~Spend("publish")
    BY DEF TypeInv, TypeOK, Spend, FaultKinds
  <2>6. RetryPublished(w) => run[w].pc = "retry" /\ RetryCount(st) <= RetryLimit(run[w])
    BY DEF RetryPublished
  <2>7. RetryFails(w) /\ faults' = faults =>
           run[w].pc = "retry" /\ RetryCount(st) > RetryLimit(run[w])
    BY <2>5 DEF RetryFails
  <2>. QED  BY <2>3, <2>4, <2>6, <2>7
<1>2. TypeInv => [A]_vars
  BY <1>1
<1>. QED  BY InitType, NextType, <1>2, PTL DEF Spec, RetriesCountedApart

-----------------------------------------------------------------------------
(* Counters                                                                *)

\* One more subtask adds what its status counts.
LEMMA CountedMore ==
    ASSUME NEW a \in [Subtasks -> Statuses], NEW b \in [Subtasks -> Statuses],
           NEW n \in StatNames, NEW ss \in SUBSET Subtasks, NEW s \in Subtasks \ ss,
           \A t \in ss : b[t] = a[t]
    PROVE  Cardinality(Counted(b, n, ss \cup {s})) = Cardinality(Counted(a, n, ss)) + b[s][n]
<1> DEFINE old == Counted(a, n, ss)
           new == {s} \X (1 .. b[s][n])
<1>1. \A st \in Statuses : st[n] \in Nat
  BY DEF Statuses, StatNames
<1>2. Counted(b, n, ss \cup {s}) = old \cup new
  <2>1. \A t \in ss : {t} \X (1 .. b[t][n]) = {t} \X (1 .. a[t][n])
    OBVIOUS
  <2>. QED  BY <2>1 DEF Counted
<1>3. old \cap new = {}
  BY DEF Counted
<1>4. IsFiniteSet(old)
  <2>1. IsFiniteSet(ss)
    BY SubtasksAssumption, FS_Subset
  <2>2. PICK family : family = {{t} \X (1 .. a[t][n]) : t \in ss}
    OBVIOUS
  <2>3. IsFiniteSet(family)
    <3>1. [t \in ss |-> {t} \X (1 .. a[t][n])] \in Surjection(ss, family)
      BY <2>2 DEF Surjection
    <3>. QED  BY <2>1, <3>1, FS_Surjection
  <2>4. ASSUME NEW S \in family PROVE IsFiniteSet(S)
    <3>1. PICK t \in ss : S = {t} \X (1 .. a[t][n])
      BY <2>2
    <3>2. a[t][n] \in Int /\ 1 \in Int
      BY <1>1
    <3>3. IsFiniteSet(1 .. a[t][n])
      BY <3>2, FS_Interval
    <3>4. IsFiniteSet({t})
      BY FS_Singleton
    <3>. QED  BY <3>1, <3>3, <3>4, FS_Product
  <2>5. IsFiniteSet(UNION family)
    BY <2>3, <2>4, FS_UNION
  <2>. QED  BY <2>2, <2>5 DEF Counted
<1>5. IsFiniteSet(new) /\ Cardinality(new) = b[s][n]
  <2>1. b[s][n] \in Nat /\ b[s][n] \in Int /\ 1 \in Int
    BY <1>1
  <2>2. PICK k \in Nat : k = b[s][n]
    BY <2>1
  <2>3. IsFiniteSet(1 .. k) /\ Cardinality(1 .. k) = IF 1 > k THEN 0 ELSE k - 1 + 1
    BY FS_Interval
  <2>4. Cardinality(1 .. k) = k
    BY <2>3
  <2>5. IsFiniteSet({s}) /\ Cardinality({s}) = 1
    BY FS_Singleton
  <2>6. IsFiniteSet(new) /\ Cardinality(new) = Cardinality({s}) * Cardinality(1 .. k)
    BY <2>2, <2>3, <2>5, FS_Product
  <2>. QED  BY <2>2, <2>4, <2>5, <2>6
<1>6. Cardinality(old \cup new)
        = Cardinality(old) + Cardinality(new) - Cardinality(old \cap new)
  BY <1>4, <1>5, FS_Union
<1>7. Cardinality(old \cap new) = 0 /\ Cardinality(old) \in Nat
  BY <1>3, <1>4, FS_EmptySet, FS_CardinalityType
<1>8. b[s][n] \in Nat
  BY <1>1
<1>. QED
  <2> HIDE DEF old, new
  <2>1. Cardinality(old \cup new) = Cardinality(old) + b[s][n]
    BY <1>5, <1>6, <1>7, <1>8
  <2>. QED  BY <1>2, <2>1 DEF old

\* _update_subtask_status, field by field.
LEMMA UpdatesCounters ==
    ASSUME NEW e \in Entries(Subtasks), NEW s \in Subtasks, NEW st \in Statuses,
           NEW f, f = UpdateSubtaskStatus(e, s, st)
    PROVE  /\ f.succeeded = e.succeeded + (IF st.state = "SUCCESS" THEN 1 ELSE 0)
           /\ f.failed = e.failed + (IF st.state \in READY_STATES /\ st.state # "SUCCESS"
                                     THEN 1 ELSE 0)
           /\ \A n \in StatNames :
                 f.progress[n] = IF st.state \in READY_STATES
                                 THEN e.progress[n] + st[n] ELSE e.progress[n]
           /\ f.total = e.total
           /\ f.task_state = IF f.succeeded + f.failed >= e.total THEN "SUCCESS"
                             ELSE e.task_state
<1> DEFINE ready == st.state \in READY_STATES
           succeeded == e.succeeded + (IF st.state = "SUCCESS" THEN 1 ELSE 0)
           failed == e.failed + (IF ready /\ st.state # "SUCCESS" THEN 1 ELSE 0)
           progress == IF ready THEN [n \in StatNames |-> e.progress[n] + st[n]]
                       ELSE e.progress
           state == IF succeeded + failed >= e.total THEN "SUCCESS" ELSE e.task_state
<1>1. f = [e EXCEPT !.status[s] = st, !.progress = progress, !.succeeded = succeeded,
                    !.failed = failed, !.task_state = state]
  BY DEF UpdateSubtaskStatus
<1> HIDE DEF progress, succeeded, failed, state
<1>2. /\ f.succeeded = succeeded /\ f.failed = failed /\ f.progress = progress
      /\ f.total = e.total /\ f.task_state = state
  BY <1>1 DEF Entries
<1>. QED  BY <1>2 DEF progress, succeeded, failed, state

ReadySet == {s \in Subtasks : Ready(s)}
Good == {s \in ReadySet : entry.status[s].state = "SUCCESS"}

CountsOK ==
    /\ entry.succeeded = Cardinality(Good)
    /\ entry.failed = Cardinality(ReadySet \ Good)
    /\ \A n \in StatNames :
          entry.progress[n] = Cardinality(Counted(entry.status, n, ReadySet))
    /\ entry.task_state = "SUCCESS" => ReadySet = Subtasks

\* That a status is counted once needs DeliveryInv: it replaces one that is not
\* ready.
CountsInv ==
    /\ DeliveryInv
    /\ entry.total = Cardinality(Subtasks)
    /\ tainted = {} => CountsOK

\* The subsets of Subtasks are finite.
LEMMA SetsOfSubtasks ==
    ASSUME NEW ss \in SUBSET Subtasks
    PROVE  IsFiniteSet(ss) /\ Cardinality(ss) \in Nat
BY SubtasksAssumption, FS_Subset, FS_CardinalityType

\* The ready ones are the successes and the failures.
LEMMA ReadySum ==
    ASSUME NEW ready \in SUBSET Subtasks, NEW good \in SUBSET ready
    PROVE  /\ Cardinality(good) \in Nat
           /\ Cardinality(ready \ good) \in Nat
           /\ Cardinality(ready) = Cardinality(good) + Cardinality(ready \ good)
           /\ Cardinality(Subtasks) \in Nat
           /\ Cardinality(ready) <= Cardinality(Subtasks)
           /\ Cardinality(ready) = Cardinality(Subtasks) => ready = Subtasks
<1>1. /\ IsFiniteSet(ready) /\ Cardinality(ready) \in Nat
      /\ IsFiniteSet(good) /\ Cardinality(good) \in Nat
      /\ Cardinality(ready \ good) \in Nat
      /\ IsFiniteSet(Subtasks) /\ Cardinality(Subtasks) \in Nat
  BY SetsOfSubtasks
<1>2. Cardinality(ready \ good) = Cardinality(ready) - Cardinality(ready \cap good)
  BY <1>1, FS_Difference
<1>3. Cardinality(ready \cap good) = Cardinality(good)
  <2>1. ready \cap good = good
    OBVIOUS
  <2>. QED  BY <2>1, Zenon
<1>4. Cardinality(ready) = Cardinality(good) + Cardinality(ready \ good)
  BY <1>1, <1>2, <1>3
<1>5. /\ Cardinality(ready) <= Cardinality(Subtasks)
      /\ Cardinality(ready) = Cardinality(Subtasks) => ready = Subtasks
  BY <1>1, FS_Subset
<1>. QED  BY <1>1, <1>4, <1>5

\* What an update does to the row of a task that has met no accident.
LEMMA UpdateSettles ==
    ASSUME DeliveryInv, tainted = {}, NEW w \in Workers, UpdateCommits(w),
           NEW s, s = run[w].sub, NEW st, st = run[w].st
    PROVE  /\ s \in Subtasks /\ s \notin ReadySet
           /\ st \in Statuses
           /\ run[w].next = "end" <=> st.state \in READY_STATES
           /\ entry.status \in [Subtasks -> Statuses]
           /\ entry'.status \in [Subtasks -> Statuses]
           /\ entry'.status[s] = st
           /\ \A t \in Subtasks \ {s} : entry'.status[t] = entry.status[t]
           /\ ReadySet' = IF st.state \in READY_STATES THEN ReadySet \cup {s} ELSE ReadySet
           /\ Good' = IF st.state = "SUCCESS" THEN Good \cup {s} ELSE Good
           /\ (st.state = "SUCCESS" => st.state \in READY_STATES)
<1>1. run[w].pc = "update" /\ Working(w) /\ InHand(w)
  BY DEF UpdateCommits, Working, InHand
<1>2. s \in Subtasks /\ st \in Statuses /\ RunOK(run[w])
  BY <1>1, Worker
<1>3. entry \in Entries(Subtasks)
  BY DEF DeliveryInv, LockInv, TypeInv, TypeOK
<1>4. /\ entry'.status[s] = st
      /\ \A t \in Subtasks \ {s} : entry'.status[t] = entry.status[t]
      /\ entry' \in Entries(Subtasks)
  BY <1>2, <1>3, UpdatesRow, UpdateType DEF UpdateCommits
<1>5. s \notin ReadySet
  <2>1. InHandOK(s, run[w])
    BY <1>1, <1>2 DEF DeliveryInv, SubOK, HandOK, Hands, Clean
  <2>. QED  BY <2>1 DEF InHandOK, ReadySet
<1>6. ReadySet' = IF st.state \in READY_STATES THEN ReadySet \cup {s} ELSE ReadySet
  BY <1>2, <1>4, <1>5 DEF ReadySet, Ready
<1>7. "SUCCESS" \in READY_STATES /\ "RETRY" \notin READY_STATES
  BY DEF READY_STATES
<1>8. Good' = IF st.state = "SUCCESS" THEN Good \cup {s} ELSE Good
  BY <1>2, <1>4, <1>5, <1>6, <1>7 DEF Good, ReadySet
<1>9. run[w].next = "end" <=> st.state \in READY_STATES
  BY <1>1, <1>2, <1>7 DEF RunOK
<1>. QED  BY <1>2, <1>3, <1>4, <1>5, <1>6, <1>7, <1>8, <1>9 DEF Entries

LEMMA UpdateCounts ==
    ASSUME CountsInv, tainted = {}, NEW w \in Workers, UpdateCommits(w)
    PROVE  CountsOK'
<1>1. PICK s, st : s = run[w].sub /\ st = run[w].st
  OBVIOUS
<1>2. DeliveryInv /\ CountsOK /\ entry.total = Cardinality(Subtasks)
  BY DEF CountsInv
<1>3. /\ s \in Subtasks /\ s \notin ReadySet /\ st \in Statuses
      /\ entry.status \in [Subtasks -> Statuses]
      /\ entry'.status \in [Subtasks -> Statuses]
      /\ entry'.status[s] = st
      /\ \A t \in Subtasks \ {s} : entry'.status[t] = entry.status[t]
      /\ ReadySet' = IF st.state \in READY_STATES THEN ReadySet \cup {s} ELSE ReadySet
      /\ Good' = IF st.state = "SUCCESS" THEN Good \cup {s} ELSE Good
      /\ (st.state = "SUCCESS" => st.state \in READY_STATES)
  BY <1>1, <1>2, UpdateSettles
<1>4. entry \in Entries(Subtasks)
  BY <1>2 DEF DeliveryInv, LockInv, TypeInv, TypeOK
<1>5. entry' = UpdateSubtaskStatus(entry, s, st)
  BY <1>1 DEF UpdateCommits
<1>6. /\ entry'.succeeded = entry.succeeded + (IF st.state = "SUCCESS" THEN 1 ELSE 0)
      /\ entry'.failed = entry.failed + (IF st.state \in READY_STATES /\ st.state # "SUCCESS"
                                         THEN 1 ELSE 0)
      /\ \A n \in StatNames :
            entry'.progress[n] = IF st.state \in READY_STATES
                                 THEN entry.progress[n] + st[n] ELSE entry.progress[n]
      /\ entry'.task_state = IF entry'.succeeded + entry'.failed >= entry.total
                             THEN "SUCCESS" ELSE entry.task_state
  BY <1>3, <1>4, <1>5, UpdatesCounters
<1>7. /\ ReadySet \subseteq Subtasks /\ Good \subseteq ReadySet
      /\ IsFiniteSet(Good) /\ IsFiniteSet(ReadySet \ Good)
      /\ Cardinality(Good) \in Nat /\ Cardinality(ReadySet \ Good) \in Nat
  <2>1. ReadySet \subseteq Subtasks /\ Good \subseteq ReadySet
    BY DEF ReadySet, Good
  <2>. QED  BY <2>1, SetsOfSubtasks
<1>8. entry'.succeeded = Cardinality(Good')
  <2>1. CASE st.state = "SUCCESS"
    <3>1. Cardinality(Good \cup {s}) = Cardinality(Good) + 1
      BY <1>3, <1>7, FS_AddElement
    <3>. QED  BY <1>2, <1>3, <1>6, <2>1, <3>1 DEF CountsOK
  <2>2. CASE st.state # "SUCCESS"
    BY <1>2, <1>3, <1>6, <1>7, <2>2 DEF CountsOK
  <2>. QED  BY <2>1, <2>2
<1>9. entry'.failed = Cardinality(ReadySet' \ Good')
  <2>1. CASE st.state \in READY_STATES /\ st.state # "SUCCESS"
    <3>1. Cardinality((ReadySet \ Good) \cup {s}) = Cardinality(ReadySet \ Good) + 1
      BY <1>3, <1>7, FS_AddElement
    <3>2. ReadySet' \ Good' = (ReadySet \ Good) \cup {s}
      BY <1>3, <1>7, <2>1
    <3>3. Cardinality(ReadySet' \ Good') = Cardinality(ReadySet \ Good) + 1
      BY <3>1, <3>2, Zenon
    <3>. QED  BY <1>2, <1>6, <2>1, <3>3 DEF CountsOK
  <2>2. CASE ~(st.state \in READY_STATES /\ st.state # "SUCCESS")
    <3>1. ReadySet' \ Good' = ReadySet \ Good
      BY <1>3, <1>7, <2>2
    <3>2. Cardinality(ReadySet' \ Good') = Cardinality(ReadySet \ Good)
      BY <3>1, Zenon
    <3>. QED  BY <1>2, <1>6, <1>7, <2>2, <3>2 DEF CountsOK
  <2>. QED  BY <2>1, <2>2
<1>10. ASSUME NEW n \in StatNames
       PROVE  entry'.progress[n] = Cardinality(Counted(entry'.status, n, ReadySet'))
  <2>1. CASE st.state \in READY_STATES
    <3>1. Cardinality(Counted(entry'.status, n, ReadySet \cup {s}))
            = Cardinality(Counted(entry.status, n, ReadySet)) + entry'.status[s][n]
      BY <1>3, <1>7, CountedMore
    <3>. QED  BY <1>2, <1>3, <1>6, <2>1, <3>1 DEF CountsOK
  <2>2. CASE st.state \notin READY_STATES
    <3>1. Counted(entry'.status, n, ReadySet) = Counted(entry.status, n, ReadySet)
      <4>1. \A t \in ReadySet : entry'.status[t] = entry.status[t]
        BY <1>3, <1>7
      <4>. QED  BY <4>1 DEF Counted
    <3>. QED  BY <1>2, <1>3, <1>6, <2>2, <3>1 DEF CountsOK
  <2>. QED  BY <2>1, <2>2
<1>11. entry'.task_state = "SUCCESS" => ReadySet' = Subtasks
  <2>1. /\ ReadySet' \subseteq Subtasks
        /\ Cardinality(Good') \in Nat /\ Cardinality(ReadySet' \ Good') \in Nat
        /\ Cardinality(ReadySet') = Cardinality(Good') + Cardinality(ReadySet' \ Good')
        /\ Cardinality(Subtasks) \in Nat
        /\ Cardinality(ReadySet') <= Cardinality(Subtasks)
        /\ Cardinality(ReadySet') = Cardinality(Subtasks) => ReadySet' = Subtasks
    <3>1. ReadySet' \subseteq Subtasks /\ Good' \subseteq ReadySet'
      BY DEF ReadySet, Good
    <3>. QED  BY <3>1, ReadySum
  <2>2. entry.task_state # "SUCCESS"
    BY <1>2, <1>3 DEF CountsOK
  <2>. QED  BY <1>2, <1>6, <1>8, <1>9, <2>1, <2>2
<1>. QED  BY <1>8, <1>9, <1>10, <1>11 DEF CountsOK

LEMMA CountsInit == Init => CountsInv
<1> SUFFICES ASSUME Init PROVE CountsInv
  OBVIOUS
<1>1. DeliveryInv
  BY DeliveryInit
<1>2. /\ entry.status = [s \in Subtasks |-> NewStatus]
      /\ entry.total = Cardinality(Subtasks)
      /\ entry.succeeded = 0 /\ entry.failed = 0
      /\ entry.task_state = "PROGRESS"
      /\ entry.progress = [n \in StatNames |-> 0]
  BY DEF Init, InitializeSubtaskInfo
<1>3. ReadySet = {}
  BY <1>2 DEF ReadySet, Ready, NewStatus, READY_STATES
<1>4. Good = {} /\ ReadySet \ Good = {}
  BY <1>3 DEF Good
<1>5. Cardinality(Good) = 0 /\ Cardinality(ReadySet \ Good) = 0
  BY <1>4, FS_EmptySet, Zenon
<1>6. ASSUME NEW n \in StatNames
      PROVE  entry.progress[n] = Cardinality(Counted(entry.status, n, ReadySet))
  <2>1. Counted(entry.status, n, ReadySet) = {}
    BY <1>3 DEF Counted
  <2>2. Cardinality(Counted(entry.status, n, ReadySet)) = 0
    BY <2>1, FS_EmptySet, Zenon
  <2>. QED  BY <1>2, <2>2
<1>. QED  BY <1>1, <1>2, <1>5, <1>6 DEF CountsInv, CountsOK

LEMMA CountsNext == CountsInv /\ [Next]_vars => CountsInv'
<1> SUFFICES ASSUME CountsInv, [Next]_vars PROVE CountsInv'
  OBVIOUS
<1>1. DeliveryInv'
  BY DeliveryNext DEF CountsInv
<1>2. tainted' = {} => tainted = {}
  BY DEF Next, Work, Process, Environment, Receive, Lock, Filter, Connect,
     SendAccepted, SendRejected, SendThrottled, SendInterrupted, SendFatal, SendDone,
     SendUnexpected, UpdateCommits, UpdateFails, Release, RetryPublished, RetryFails,
     Crash, LockExpire, Taints, vars
<1>3. CASE UNCHANGED entry
  <2>1. CountsOK => CountsOK'
    BY <1>3 DEF CountsOK, Good, ReadySet, Ready
  <2>. QED  BY <1>1, <1>2, <1>3, <2>1 DEF CountsInv
<1>4. ASSUME NEW w \in Workers, UpdateCommits(w) PROVE CountsInv'
  <2>1. entry'.total = entry.total
    <3>1. run[w].sub \in Subtasks /\ run[w].st \in Statuses
      BY <1>4, Worker DEF UpdateCommits, Working, CountsInv
    <3>2. entry \in Entries(Subtasks)
      BY DEF CountsInv, DeliveryInv, LockInv, TypeInv, TypeOK
    <3>. QED  BY <1>4, <3>1, <3>2, UpdatesCounters DEF UpdateCommits
  <2>2. tainted = {} => CountsOK'
    BY <1>4, UpdateCounts
  <2>. QED  BY <1>1, <1>2, <2>1, <2>2 DEF CountsInv
<1>. QED
  BY <1>3, <1>4 DEF Next, Work, Process, Environment, Receive, Lock, Filter, Connect,
     SendAccepted, SendRejected, SendThrottled, SendInterrupted, SendFatal, SendDone,
     SendUnexpected, UpdateFails, Release, RetryPublished, RetryFails, Crash,
     LockExpire, vars

\* The counters of the row are those of the finished subtasks, whatever the
\* number of retries, duplicates and repeated transactions on the way: no status
\* is added twice, although _update_subtask_status does not look for it.
THEOREM CountersAgree == Spec => []CleanCounters
<1>1. CountsInv => CleanCounters
  BY DEF CountsInv, CountsOK, CleanCounters, ReadySet, Good
<1>. QED  BY CountsInit, CountsNext, <1>1, PTL DEF Spec

-----------------------------------------------------------------------------
(* The refinement of FanOut                                                *)

Untroubled == tainted = {} /\ NoneUnexpected

LEMMA AbstractInit == Init => Abstract!Init
<1> SUFFICES ASSUME Init PROVE Abstract!Init
  OBVIOUS
<1>1. /\ entry.status = [s \in Subtasks |-> NewStatus]
      /\ entry.task_state = "PROGRESS"
      /\ entry.progress = [n \in StatNames |-> 0]
  BY DEF Init, InitializeSubtaskInfo
<1>2. {s \in Subtasks : Ready(s)} = {}
  BY <1>1 DEF Ready, NewStatus, READY_STATES
<1>3. [n \in {"succeeded", "failed", "skipped"} |-> entry.progress[n]]
        = [succeeded |-> 0, failed |-> 0, skipped |-> 0]
  BY <1>1 DEF StatNames
<1>. QED  BY <1>1, <1>2, <1>3 DEF Init, Abstract!Init

\* A recipient whom the mail server takes is one of an unfinished subtask, and has
\* not been mailed before.
LEMMA SendAcceptedMails ==
    ASSUME DeliveryInv, tainted = {}, NEW w \in Workers, SendAccepted(w)
    PROVE  \E r \in Recipients : Abstract!Mail(r)
<1> DEFINE list == run[w].list
           s == run[w].sub
<1>1. run[w].pc \in Sending /\ list # <<>>
  BY DEF SendAccepted, Sending
<1>2. Working(w) /\ InHand(w)
  BY <1>1, SendingWorker
<1>3. s \in Subtasks /\ list \in Seq(Recipients) /\ PartOf(s, list)
  BY <1>2, Worker
<1>4. Last(list) \in Recipients /\ Last(list) \in ToSet(list)
  BY <1>1, <1>3, InjectiveFront DEF PartOf
<1>5. InHandOK(s, run[w])
  BY <1>2, <1>3 DEF DeliveryInv, SubOK, HandOK, Hands, Clean
<1>6. ~Ready(s) /\ Fresh(list)
  BY <1>1, <1>3, <1>5, SendingFacts
<1>7. PICK r \in Recipients : r = Last(list)
  BY <1>4
<1>8. delivered[r] = 0 /\ r \in ToSet(Chunk[s])
  BY <1>3, <1>4, <1>6, <1>7 DEF Fresh, PartOf
<1>9. delivered' = [delivered EXCEPT ![r] = 1]
  BY <1>7, <1>8 DEF SendAccepted
<1>10. UNCHANGED entry
  BY DEF SendAccepted
<1>11. \E t \in Subtasks \ {u \in Subtasks : Ready(u)} : r \in Abstract!ToSet(Chunk[t])
  BY <1>3, <1>6, <1>8 DEF ToSet, Abstract!ToSet
<1>12. Abstract!Mail(r)
  <2>1. {u \in Subtasks : Ready(u)}' = {u \in Subtasks : Ready(u)}
    BY <1>10 DEF Ready
  <2>. QED  BY <1>8, <1>9, <1>10, <1>11, <2>1 DEF Abstract!Mail
<1>. QED  BY <1>12

\* The three counters of the report that FanOut has.
LEMMA ReportFields ==
    ASSUME NEW f, NEW a, NEW b, NEW c,
           f["succeeded"] = a, f["failed"] = b, f["skipped"] = c
    PROVE  [n \in {"succeeded", "failed", "skipped"} |-> f[n]]
             = [succeeded |-> a, skipped |-> c, failed |-> b]
OBVIOUS

\* The transaction of a final status settles its subtask, that of a retry
\* changes nothing that FanOut knows of.
LEMMA UpdateCommitsSettles ==
    ASSUME CountsInv, CountsInv', Untroubled, NEW w \in Workers, UpdateCommits(w)
    PROVE  (\E s \in Subtasks : Abstract!Settle(s)) \/ UNCHANGED Abstract!vars
<1>1. PICK s, st : s = run[w].sub /\ st = run[w].st
  OBVIOUS
<1>2. DeliveryInv /\ CountsOK /\ entry.total = Cardinality(Subtasks) /\ tainted = {}
  BY DEF CountsInv, Untroubled
<1>3. /\ s \in Subtasks /\ s \notin ReadySet /\ st \in Statuses
      /\ (run[w].next = "end" <=> st.state \in READY_STATES)
      /\ ReadySet' = IF st.state \in READY_STATES THEN ReadySet \cup {s} ELSE ReadySet
      /\ Good' = IF st.state = "SUCCESS" THEN Good \cup {s} ELSE Good
  BY <1>1, <1>2, UpdateSettles
<1>4. entry \in Entries(Subtasks)
  BY <1>2 DEF DeliveryInv, LockInv, TypeInv, TypeOK
<1>5. entry' = UpdateSubtaskStatus(entry, s, st)
  BY <1>1 DEF UpdateCommits
<1>6. /\ \A n \in StatNames :
            entry'.progress[n] = IF st.state \in READY_STATES
                                 THEN entry.progress[n] + st[n] ELSE entry.progress[n]
      /\ entry'.task_state = IF entry'.succeeded + entry'.failed >= entry.total
                             THEN "SUCCESS" ELSE entry.task_state
  BY <1>3, <1>4, <1>5, UpdatesCounters
<1>7. UNCHANGED <<delivered, faults, tainted>>
  BY DEF UpdateCommits
<1>8. CountsOK'
  BY <1>2, <1>7 DEF CountsInv
<1>9. entry.task_state # "SUCCESS"
  BY <1>2, <1>3 DEF CountsOK
<1>10. (entry'.task_state = "SUCCESS") <=> ReadySet' = Subtasks
  <2>1. ReadySet' \subseteq Subtasks /\ Good' \subseteq ReadySet'
    BY DEF ReadySet, Good
  <2>2. /\ Cardinality(Good') \in Nat /\ Cardinality(ReadySet' \ Good') \in Nat
        /\ Cardinality(ReadySet') = Cardinality(Good') + Cardinality(ReadySet' \ Good')
    BY <2>1, ReadySum
  <2>3. entry'.succeeded = Cardinality(Good') /\ entry'.failed = Cardinality(ReadySet' \ Good')
    BY <1>8 DEF CountsOK
  <2>4. ASSUME ReadySet' = Subtasks PROVE entry'.task_state = "SUCCESS"
    <3>1. Cardinality(ReadySet') = entry.total
      BY <1>2, <2>4, Zenon
    <3>2. entry'.succeeded + entry'.failed = entry.total
      BY <2>2, <2>3, <3>1
    <3>3. entry'.succeeded + entry'.failed >= entry.total
      BY <2>2, <2>3, <3>2
    <3>. QED  BY <1>6, <3>3
  <2>. QED  BY <1>8, <2>4 DEF CountsOK
<1>11. {t \in Subtasks : Ready(t)} = ReadySet
  BY DEF ReadySet
<1>12. CASE st.state \notin READY_STATES
  <2>1. ReadySet' = ReadySet
    BY <1>3, <1>12
  <2>2. entry'.task_state # "SUCCESS"
    BY <1>3, <1>10, <2>1
  <2>3. \A n \in {"succeeded", "failed", "skipped"} : entry'.progress[n] = entry.progress[n]
    BY <1>6, <1>12 DEF StatNames
  <2>4. [n \in {"succeeded", "failed", "skipped"} |-> entry'.progress[n]]
          = [n \in {"succeeded", "failed", "skipped"} |-> entry.progress[n]]
    BY <2>3
  <2>. QED  BY <1>7, <1>9, <1>11, <2>1, <2>2, <2>4 DEF Abstract!vars, ReadySet
<1>13. CASE st.state \in READY_STATES
  <2>1. /\ st.succeeded = Cardinality(Taken(s))
        /\ st.attempted = st.succeeded + st.failed
        /\ st.attempted + st.skipped <= Len(Chunk[s])
        /\ ListedOnce(s) => st.attempted + st.skipped = Len(Chunk[s])
    <3>1. run[w].pc = "update" /\ Working(w) /\ InHand(w)
      BY DEF UpdateCommits, Working, InHand
    <3>2. InHandOK(s, run[w])
      BY <1>1, <1>2, <1>3, <3>1 DEF DeliveryInv, SubOK, HandOK, Hands, Clean
    <3>3. Accounts(s, st, 0)
      BY <1>1, <1>3, <1>13, <3>1, <3>2 DEF InHandOK, Sending
    <3>4. st.attempted \in Nat /\ st.skipped \in Nat
      BY <1>3 DEF Statuses
    <3>. QED  BY <3>3, <3>4 DEF Accounts, Untroubled
  <2>2. /\ st.succeeded \in Nat /\ st.failed \in Nat /\ st.skipped \in Nat
        /\ Len(Chunk[s]) \in Nat
    BY <1>3, Chunks, LenProperties DEF Statuses
  <2>3. PICK good : good = Abstract!Quantify(Abstract!ToSet(Chunk[s]), LAMBDA r : delivered[r] = 1)
    OBVIOUS
  <2>4. good = st.succeeded
    <3>1. OnceOnly(s)
      BY <1>2, <1>3 DEF DeliveryInv, SubOK, Clean
    <3>2. delivered \in [Recipients -> Nat] /\ ToSet(Chunk[s]) \subseteq Recipients
      BY <1>2, <1>3, Chunks DEF DeliveryInv, LockInv, TypeInv, TypeOK
    <3>3. Taken(s) = {r \in Abstract!ToSet(Chunk[s]) : delivered[r] = 1}
      BY <3>1, <3>2 DEF Taken, OnceOnly, ToSet, Abstract!ToSet
    <3>4. Cardinality(Taken(s)) = Cardinality({r \in Abstract!ToSet(Chunk[s]) : delivered[r] = 1})
      BY <3>3, Zenon
    <3>5. good = Abstract!Cardinality({r \in Abstract!ToSet(Chunk[s]) : delivered[r] = 1})
      BY <2>3 DEF Abstract!Quantify
    <3>6. \A S : Abstract!Cardinality(S) = Cardinality(S)
      BY Zenon DEF Abstract!Cardinality, Cardinality
    <3>. QED  BY <2>1, <3>4, <3>5, <3>6
  <2>5. PICK bad : bad = Len(Chunk[s]) - good
    OBVIOUS
  <2>6. /\ st.skipped \in 0 .. bad /\ st.failed \in 0 .. bad
        /\ st.skipped + st.failed <= bad
        /\ ListedOnce(s) => st.skipped + st.failed = bad
    BY <2>1, <2>2, <2>4, <2>5
  <2>7. /\ entry'.progress["succeeded"] = entry.progress["succeeded"] + good
        /\ entry'.progress["failed"] = entry.progress["failed"] + st.failed
        /\ entry'.progress["skipped"] = entry.progress["skipped"] + st.skipped
    BY <1>6, <1>13, <2>4 DEF StatNames
  <2>8. [n \in {"succeeded", "failed", "skipped"} |-> entry'.progress[n]]
          = [succeeded |-> entry.progress["succeeded"] + good,
             skipped |-> entry.progress["skipped"] + st.skipped,
             failed |-> entry.progress["failed"] + st.failed]
    BY <2>7, ReportFields
  <2>8a. Abstract!ListedOnce(s) => ListedOnce(s)
    BY DEF ListedOnce, Abstract!ListedOnce, IsInjective, Abstract!IsInjective
  <2>9. Abstract!Settle(s)
    BY <1>3, <1>7, <1>10, <1>13, <2>3, <2>5, <2>6, <2>8, <2>8a DEF Abstract!Settle, ReadySet
  <2>. QED  BY <1>3, <2>9
<1>. QED  BY <1>12, <1>13

\* Every step of the workers, the broker, the row and the lock is a step of
\* FanOut or leaves its state alone.
LEMMA AbstractNext ==
    ASSUME CountsInv, CountsInv', Untroubled, [Next]_vars
    PROVE  [Abstract!Next]_(Abstract!vars)
<1>1. CASE UNCHANGED <<entry, delivered>>
  <2>1. {s \in Subtasks : Ready(s)}' = {s \in Subtasks : Ready(s)}
    BY <1>1 DEF Ready
  <2>. QED  BY <1>1, <2>1 DEF Abstract!vars
<1>2. ASSUME NEW w \in Workers, SendAccepted(w) PROVE [Abstract!Next]_(Abstract!vars)
  BY <1>2, SendAcceptedMails DEF CountsInv, Untroubled, Abstract!Next
<1>3. ASSUME NEW w \in Workers, UpdateCommits(w) PROVE [Abstract!Next]_(Abstract!vars)
  BY <1>3, UpdateCommitsSettles DEF Abstract!Next
<1>. QED
  BY <1>1, <1>2, <1>3 DEF Next, Work, Process, Environment, Receive, Lock, Filter, Connect,
     SendRejected, SendThrottled, SendInterrupted, SendFatal, SendDone, SendUnexpected,
     UpdateFails, Release, RetryPublished, RetryFails, Crash, LockExpire, vars

\* As long as no accident strikes and no unexpected exception ends a run, the
\* workers do to the recipients and the row what FanOut allows: a recipient is
\* mailed once, a chunk is settled once with all its recipients accounted for,
\* and the task succeeds with the last one.  The liveness of FanOut is left to
\* the model checker.
THEOREM StepsOfFanOut ==
    Spec /\ [](tainted = {} /\ faults["unexpected"] = Faults["unexpected"])
        => Abstract!Init /\ [][Abstract!Next]_(Abstract!vars)
<1>1. Untroubled <=> tainted = {} /\ faults["unexpected"] = Faults["unexpected"]
  BY DEF Untroubled, NoneUnexpected
<1>. QED  BY CountsInit, CountsNext, AbstractInit, AbstractNext, <1>1, PTL DEF Spec
=============================================================================
