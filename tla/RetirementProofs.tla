-------------------------- MODULE RetirementProofs --------------------------
(***************************************************************************)
(* Proofs of the safety properties of Retirement, for any number of steps, *)
(* drivers, reporters, requests and lost answers.                          *)
(*                                                                         *)
(* RetireInv: a retirement that is COMPLETE has been through every step,   *)
(* nothing of a cancelled account is retired, and a retirement is recorded.*)
(*                                                                         *)
(* TellInv: partners are told of every learner who is retired.             *)
(***************************************************************************)
EXTENDS Retirement, FiniteSetTheorems, TLAPS

\* The steps that are done when a driver is at a point.
DoneAt(at, k) ==
    {j \in 1..Steps : \/ at \in {"start", "step"} /\ j < k
                      \/ at = "end" /\ j <= k
                      \/ at = "finish"}

\* The steps that are done when c is asked for.
DoneFor(c) == IF c.what = "step" THEN {j \in 1..Steps : j < c.to} ELSE Behind(c.to)

-----------------------------------------------------------------------------
(* Calls                                                                   *)

Points == [at : {"idle", "start", "step", "end", "finish", "error"}, k : 1..Steps]

\* A call asks for a step of the pipeline, and has read a row that was there.
WellAsked(c) ==
    /\ c.what = "step" => c.to \in 1..Steps
    /\ c.seen # Unread => c.seen.id <= requests

\* Who waits for a call waits for what belongs to the point it is at.
Attended(c) ==
    Waits(c) => /\ drv[c.by].at # "idle"
                /\ LET a == Ask(c.by, drv[c.by].at, drv[c.by].k)
                   IN  c.what = a.what /\ c.to = a.to

\* A driver waits for one call at a time.
OneCall ==
    \A c, e \in calls : Waits(c) /\ Waits(e) /\ c.by = e.by => c = e

\* The calls, and the drivers that wait for them.
CallsOK ==
    /\ calls \subseteq Calls
    /\ IsFiniteSet(calls)
    /\ drv \in [Drivers -> Points]
    /\ \A c \in calls : WellAsked(c) /\ Attended(c)
    /\ OneCall

CallsInv ==
    /\ TypeOK
    /\ CallsOK
    /\ row # NoRow => row.id <= requests
    /\ desk # NoRow => desk.current = PENDING

-----------------------------------------------------------------------------
(* What was done                                                           *)

\* The steps that were done, or that an operator has claimed as done.
Claimed == done \cup waived

\* Nothing was done or claimed, unless an operator has reopened a retirement.
Fresh == Claimed = {} \/ "reopened" \in accidents

\* The row does not say more than was done, and says PENDING only before the
\* first step; its learner has asked for retirement.
RowIsTrue ==
    row # NoRow =>
        /\ request
        /\ account # "open"
        /\ Behind(row.current) \subseteq Claimed
        /\ row.current = PENDING => Fresh

\* Nor do the drivers and their calls, the late ones included.
DriversAreTrue ==
    /\ \A d \in Drivers : DoneAt(drv[d].at, drv[d].k) \subseteq Claimed
    /\ \A c \in calls : ~c.force => DoneFor(c) \subseteq Claimed

\* A step is only done for a row that has left PENDING.
StepsAreLater ==
    \A c \in calls :
        c.what = "step" /\ c.seen # Unread /\ row # NoRow /\ row.id = c.seen.id =>
            row.current # PENDING \/ "reopened" \in accidents

AccountIsTrue ==
    /\ account = "open" => Claimed = {} /\ ~request
    /\ done # {} => request
    /\ Steps \in done => account = "retired"

Truth == RowIsTrue /\ DriversAreTrue /\ StepsAreLater /\ AccountIsTrue

\* The inductive invariant.
RetireInv ==
    /\ CallsInv
    /\ Undisturbed => Truth

-----------------------------------------------------------------------------
(* Positions                                                               *)

LEMMA Positions ==
    /\ Steps \in Nat \ {0}
    /\ {PENDING, ERRORED, ABORTED, COMPLETE} \subseteq States
    /\ \A k \in 1..Steps : /\ Starting(k) \in 1..(2 * Steps)
                           /\ Complete(k) \in 1..(2 * Steps)
    /\ 0..(2 * Steps) \subseteq States
BY RetirementAssumption DEF RetirementAssumption, PENDING, ERRORED, ABORTED, COMPLETE,
   States, Starting, Complete

LEMMA UnreadCall ==
    ASSUME NEW by \in Drivers \cup {Operator}, NEW what \in {"state", "step"},
           NEW to \in States, NEW force \in BOOLEAN, NEW late \in Nat
    PROVE  [by |-> by, what |-> what, to |-> to, force |-> force, seen |-> Unread,
            late |-> late] \in Calls
BY DEF Calls

LEMMA AskIsCall ==
    ASSUME NEW d \in Drivers, NEW at \in {"start", "step", "end", "finish", "error"},
           NEW k \in 1..Steps
    PROVE  /\ Ask(d, at, k) \in Calls
           /\ Waits(Ask(d, at, k))
           /\ Ask(d, at, k).by = d
           /\ Ask(d, at, k).seen = Unread
           /\ WellAsked(Ask(d, at, k))
           /\ DoneFor(Ask(d, at, k)) \subseteq DoneAt(at, k)
<1> DEFINE a == Ask(d, at, k)
<1>0. 1..Steps \subseteq States
  BY Positions
<1>1. a.to \in States /\ a.what \in {"state", "step"}
  BY Positions, <1>0 DEF Ask
<1>2. /\ a = [by |-> d, force |-> FALSE, seen |-> Unread, late |-> 0, what |-> a.what, to |-> a.to]
  BY DEF Ask
<1>3. a \in Calls
  <2> HIDE DEF a
  <2>. QED  BY <1>1, <1>2, UnreadCall
<1>4. Waits(a) /\ a.by = d /\ a.seen = Unread
  BY <1>2 DEF Waits
<1>5. WellAsked(a)
  BY <1>2 DEF WellAsked, Ask
<1>6. DoneFor(a) \subseteq DoneAt(at, k)
  <2>1. CASE at = "start"
    BY <2>1, Positions DEF DoneFor, DoneAt, Ask, Behind, Starting, Complete
  <2>2. CASE at = "step"
    BY <2>2 DEF DoneFor, DoneAt, Ask
  <2>3. CASE at = "end"
    BY <2>3, Positions DEF DoneFor, DoneAt, Ask, Behind, Complete
  <2>4. CASE at = "finish"
    BY <2>4 DEF DoneFor, DoneAt, Ask, Behind
  <2>5. CASE at = "error"
    BY <2>5 DEF DoneFor, DoneAt, Ask, Behind
  <2>. QED  BY <2>1, <2>2, <2>3, <2>4, <2>5
<1>. QED  BY <1>3, <1>4, <1>5, <1>6

\* A number is left for another call that nobody waits for.
LEMMA LateIsLate ==
    ASSUME calls \subseteq Calls, IsFiniteSet(calls)
    PROVE  LateNumber \in Nat \ {0}
<1> DEFINE N == Cardinality(calls)
           taken == {c.late : c \in calls}
<1>1. N \in Nat
  BY FS_CardinalityType
<1>2. IsFiniteSet(taken) /\ Cardinality(taken) <= N
  <2> DEFINE number == [c \in calls |-> c.late]
  <2>1. number \in Surjection(calls, taken)
    BY DEF Surjection
  <2>. QED  BY <2>1, FS_Surjection
<1>3. Cardinality(1..(N + 1)) = N + 1
  BY <1>1, FS_Interval
<1>4. Cardinality(taken) \in Nat
  BY <1>2, FS_CardinalityType
<1>. HIDE DEF N
<1>5. ~ (1..(N + 1) \subseteq taken)
  <2>1. 1..(N + 1) \in SUBSET taken => Cardinality(1..(N + 1)) <= Cardinality(taken)
    BY <1>2, FS_Subset
  <2>. QED  BY <1>1, <1>2, <1>3, <1>4, <2>1
<1>6. PICK n \in 1..(N + 1) : n \notin taken
  BY <1>5
<1>7. \A c \in calls : c.late # n
  BY <1>6
<1>8. LateNumber \in 1..(N + 1)
  BY <1>7 DEF LateNumber, N
<1>. QED  BY <1>8, <1>1

LEMMA FollowIsPoint ==
    ASSUME NEW at \in {"start", "step", "end", "finish", "error"}, NEW k \in 1..Steps,
           NEW ok \in BOOLEAN
    PROVE  Follow(at, k, ok) \in Points
<1>1. Idle \in Points
  BY Positions DEF Idle, Points
<1>2. CASE ~ok
  BY <1>1, <1>2 DEF Follow, Points
<1>3. CASE ok
  BY <1>1, <1>3, Positions DEF Follow, Points
<1>. QED  BY <1>2, <1>3

-----------------------------------------------------------------------------
(* Calls and their drivers                                                 *)

LEMMA GoKeepsCalls ==
    ASSUME CallsOK, NEW d \in Drivers, NEW point \in Points, NEW rest \in SUBSET Calls,
           IsFiniteSet(rest), \A c \in rest : WellAsked(c),
           \A c \in rest : Waits(c) => c \in calls /\ c.by # d,
           Go(d, point, rest), requests' = requests
    PROVE  CallsOK'
<1> DEFINE new == IF point.at = "idle" THEN {} ELSE {Ask(d, point.at, point.k)}
<1>1. /\ drv' = [drv EXCEPT ![d] = point]
      /\ calls' = rest \cup new
  BY DEF Go
<1>2. point.at \in {"idle", "start", "step", "end", "finish", "error"} /\ point.k \in 1..Steps
  BY DEF Points
<1>3. \A c \in new : /\ c \in Calls /\ Waits(c) /\ c.by = d /\ WellAsked(c)
                     /\ point.at # "idle" /\ c = Ask(d, point.at, point.k)
  BY <1>2, AskIsCall
<1>. HIDE DEF new
<1>4. IsFiniteSet(new)
  BY FS_EmptySet, FS_Singleton DEF new
<1>5. calls' \subseteq Calls /\ IsFiniteSet(calls')
  BY <1>1, <1>3, <1>4, FS_Union
<1>6. drv' \in [Drivers -> Points]
  BY <1>1 DEF CallsOK
<1>7. \A c \in calls' : WellAsked(c)'
  BY <1>1, <1>3 DEF WellAsked
<1>8. ASSUME NEW c \in calls', Waits(c)
      PROVE  /\ drv'[c.by].at # "idle"
             /\ LET a == Ask(c.by, drv'[c.by].at, drv'[c.by].k)
                IN  c.what = a.what /\ c.to = a.to
  <2>1. CASE c \in new
    BY <2>1, <1>1, <1>3 DEF CallsOK
  <2>2. CASE c \in rest
    <3>1. c \in calls /\ c.by # d
      BY <2>2, <1>8
    <3>2. drv'[c.by] = drv[c.by]
      BY <3>1, <1>1, <1>8 DEF CallsOK, Waits
    <3>. QED  BY <3>1, <3>2, <1>8 DEF CallsOK, Attended
  <2>. QED  BY <2>1, <2>2, <1>1
<1>9. \A c \in calls' : Attended(c)'
  BY <1>8 DEF Attended, Waits
<1>10. OneCall'
  <2>1. \A c, e \in calls' : Waits(c) /\ Waits(e) /\ c.by = e.by => c = e
    BY <1>1, <1>3 DEF CallsOK, OneCall
  <2>. QED  BY <2>1 DEF OneCall, Waits
<1>. QED  BY <1>5, <1>6, <1>7, <1>9, <1>10 DEF CallsOK

LEMMA AnswerKeepsCalls ==
    ASSUME CallsOK, NEW c \in calls, NEW ok \in BOOLEAN, Answer(c, ok), requests' = requests
    PROVE  CallsOK'
<1>1. IsFiniteSet(calls \ {c})
  BY FS_RemoveElement DEF CallsOK
<1>2. CASE Waits(c)
  <2>1. /\ c.by \in Drivers
        /\ drv[c.by].at \in {"start", "step", "end", "finish", "error"}
        /\ drv[c.by].k \in 1..Steps
    BY <1>2 DEF Waits, CallsOK, Attended, Points
  <2>2. Follow(drv[c.by].at, drv[c.by].k, ok) \in Points
    BY <2>1, FollowIsPoint
  <2>3. Go(c.by, Follow(drv[c.by].at, drv[c.by].k, ok), calls \ {c})
    BY <1>2 DEF Answer
  <2>4. \A e \in calls \ {c} : Waits(e) => e.by # c.by
    BY <1>2 DEF CallsOK, OneCall
  <2>5. calls \ {c} \in SUBSET Calls /\ \A e \in calls \ {c} : WellAsked(e)
    BY DEF CallsOK
  <2>. QED  BY <1>1, <2>1, <2>2, <2>3, <2>4, <2>5, GoKeepsCalls
<1>3. CASE ~Waits(c)
  <2>1. calls' = calls \ {c} /\ UNCHANGED drv
    BY <1>3 DEF Answer
  <2>. QED  BY <1>1, <2>1 DEF CallsOK, WellAsked, Attended, OneCall, Waits
<1>. QED  BY <1>2, <1>3

LEMMA AgainKeepsCalls ==
    ASSUME CallsOK, NEW c \in calls, Again(c), requests' = requests
    PROVE  CallsOK'
<1>1. IsFiniteSet(calls \ {c})
  BY FS_RemoveElement DEF CallsOK
<1>2. CASE Waits(c)
  <2>1. c.by \in Drivers /\ drv[c.by] \in Points
    BY <1>2 DEF Waits, CallsOK
  <2>2. Go(c.by, drv[c.by], calls \ {c})
    BY <1>2 DEF Again
  <2>3. \A e \in calls \ {c} : Waits(e) => e.by # c.by
    BY <1>2 DEF CallsOK, OneCall
  <2>4. calls \ {c} \in SUBSET Calls /\ \A e \in calls \ {c} : WellAsked(e)
    BY DEF CallsOK
  <2>. QED  BY <1>1, <2>1, <2>2, <2>3, <2>4, GoKeepsCalls
<1>3. CASE ~Waits(c)
  <2>1. calls' = calls \ {c} /\ UNCHANGED drv
    BY <1>3 DEF Again
  <2>. QED  BY <1>1, <2>1 DEF CallsOK, WellAsked, Attended, OneCall, Waits
<1>. QED  BY <1>2, <1>3

-----------------------------------------------------------------------------
(* Types of all variables                                                  *)

LEMMA CallFields ==
    ASSUME CallsInv, NEW c \in calls
    PROVE  /\ c \in Calls /\ c.by \in Drivers \cup {Operator} /\ c.what \in {"state", "step"}
           /\ c.to \in States /\ c.seen \in Rows \cup {Unread} /\ c.late \in Nat
           /\ WellAsked(c) /\ Attended(c)
BY DEF CallsInv, CallsOK, Calls

LEMMA SeenIsCall ==
    ASSUME NEW c \in Calls, NEW r \in Rows
    PROVE  [c EXCEPT !.seen = r] \in Calls
BY DEF Calls

LEMMA LateIsCall ==
    ASSUME NEW c \in Calls, NEW n \in Nat
    PROVE  [c EXCEPT !.late = n] \in Calls
BY DEF Calls

LEMMA FirstStepIsStep ==
    ASSUME NEW i \in States, FirstStep(i) <= Steps
    PROVE  FirstStep(i) \in 1..Steps
BY Positions DEF FirstStep, States, PENDING, COMPLETE

LEMMA StartCalls ==
    ASSUME CallsInv, NEW d \in Drivers, Start(d)
    PROVE  CallsInv'
<1>1. PICK point \in Points : Go(d, point, calls)
  <2>1. row \in Rows /\ row.current \in States
    BY DEF Start, Found, CallsInv, TypeOK, Rows
  <2>2. /\ [at |-> "finish", k |-> Steps] \in Points
        /\ \A k \in 1..Steps : [at |-> "start", k |-> k] \in Points
    BY Positions DEF Points
  <2>3. FirstStep(row.current) > Steps \/ FirstStep(row.current) \in 1..Steps
    BY <2>1, FirstStepIsStep, Positions DEF FirstStep, States, PENDING, COMPLETE
  <2>. QED  BY <2>2, <2>3 DEF Start
<1>2. \A c \in calls : Waits(c) => c.by # d
  BY DEF Start, CallsInv, CallsOK, Attended
<1>3. CallsOK'
  BY <1>1, <1>2, GoKeepsCalls DEF Start, CallsInv, CallsOK
<1>. QED  BY <1>3 DEF Start, CallsInv, CallsOK, TypeOK, lms, staff, history, Points

LEMMA ReadCalls ==
    ASSUME CallsInv, NEW c \in calls, Read(c)
    PROVE  CallsInv'
<1> USE DEF CallsInv
<1>1. CASE Refused(c, row)
  <2>1. CallsOK'
    BY <1>1, AnswerKeepsCalls DEF Read
  <2>. QED  BY <2>1 DEF Read, CallsOK, TypeOK, lms, staff, history, Points
<1>2. CASE ~Refused(c, row)
  <2> DEFINE new == [c EXCEPT !.seen = row]
  <2>1. calls' = (calls \ {c}) \cup {new} /\ UNCHANGED drv /\ requests' = requests
    BY <1>2 DEF Read
  <2>2. row \in Rows /\ row # Unread
    BY <1>2, NoRowAssumption DEF Refused, Found, TypeOK, NoRowAssumption
  <2>3. new \in Calls /\ new.seen = row /\ new.by = c.by /\ new.what = c.what
        /\ new.to = c.to /\ new.late = c.late
    BY <2>2, CallFields, SeenIsCall DEF Calls
  <2>4. IsFiniteSet(calls')
    BY <2>1, FS_RemoveElement, FS_AddElement DEF CallsOK
  <2>5. WellAsked(new) /\ Attended(new) /\ (Waits(new) <=> Waits(c))
    <3>. HIDE DEF new
    <3>1. WellAsked(new)
      BY <2>2, <2>3, CallFields, NoRowAssumption DEF WellAsked, NoRowAssumption
    <3>2. Waits(new) <=> Waits(c)
      BY <2>3 DEF Waits
    <3>3. Attended(new)
      BY <2>3, <3>2, CallFields DEF Attended
    <3>. QED  BY <3>1, <3>2, <3>3
  <2>. HIDE DEF new
  <2>6. CallsOK'
    <3>1. calls' \subseteq Calls
      BY <2>1, <2>3 DEF CallsOK
    <3>2. \A e \in calls' : WellAsked(e) /\ Attended(e)
      BY <2>1, <2>5 DEF CallsOK
    <3>3. \A e \in calls' : WellAsked(e)' /\ Attended(e)'
      BY <3>2, <2>1 DEF WellAsked, Attended, Waits
    <3>4. \A e, f \in calls' : Waits(e) /\ Waits(f) /\ e.by = f.by => e = f
      BY <2>1, <2>3, <2>5 DEF CallsOK, OneCall
    <3>5. OneCall'
      BY <3>4 DEF OneCall, Waits
    <3>. QED  BY <3>1, <3>3, <3>5, <2>1, <2>4 DEF CallsOK
  <2>. QED  BY <2>6 DEF Read, CallsOK, TypeOK, lms, staff, history, Points
<1>. QED  BY <1>1, <1>2

LEMMA BehindIsSteps == \A state : Behind(state) \subseteq 1..Steps
BY DEF Behind

LEMMA PerformCalls ==
    ASSUME CallsInv, NEW c \in calls, Perform(c)
    PROVE  CallsInv'
<1> USE DEF CallsInv
<1>1. CallsOK'
  BY AnswerKeepsCalls, AgainKeepsCalls DEF Perform
<1>2. c.seen \in Rows /\ c.to \in States /\ c.seen.id <= requests
  BY CallFields DEF Perform, WellAsked
<1>3. CASE SaveState(c)
  <2>1. /\ [c.seen EXCEPT !.current = c.to] \in Rows
        /\ [c.seen EXCEPT !.current = c.to].id = c.seen.id
    BY <1>2 DEF Rows
  <2>2. accidents' \subseteq AccidentKinds
    BY <1>3 DEF SaveState, TypeOK, AccidentKinds
  <2>3. waived' \subseteq 1..Steps
    BY <1>3, BehindIsSteps DEF SaveState, TypeOK
  <2>4. left' \in BOOLEAN
    BY <1>3 DEF SaveState, Waits
  <2>5. row' \in Rows /\ row'.id <= requests
    BY <1>2, <1>3, <2>1 DEF SaveState
  <2>6. /\ UNCHANGED <<request, account, done, report, told>>
        /\ UNCHANGED <<rep, desk, cleaner, requests, trouble, orgs>>
    BY <1>3 DEF SaveState, Perform, staff
  <2>. QED  BY <1>1, <2>2, <2>3, <2>4, <2>5, <2>6 DEF CallsOK, TypeOK, Points
<1>4. CASE UNCHANGED <<lms, history, accidents>>
  BY <1>1, <1>4 DEF Perform, CallsOK, TypeOK, lms, staff, history, Points
<1>5. CASE c.what = "step" /\ DoStep(c)
  <2>1. c.to \in 1..Steps
    BY <1>5, CallFields DEF WellAsked
  <2>. QED  BY <1>1, <1>5, <2>1
            DEF DoStep, Queued, HitIf, AccidentKinds, Perform, CallsOK, TypeOK, staff, history, Points
<1>. QED  BY <1>3, <1>4, <1>5 DEF Perform

LEMMA StepFailsCalls ==
    ASSUME CallsInv, NEW c \in calls, StepFails(c)
    PROVE  CallsInv'
<1>1. CallsOK'
  BY AnswerKeepsCalls DEF StepFails, CallsInv
<1>. QED  BY <1>1, RetirementAssumption DEF StepFails, Trouble, CallsInv, CallsOK, TypeOK, lms, staff, history, Points,
             RetirementAssumption

LEMMA GiveUpCalls ==
    ASSUME CallsInv, NEW c \in calls, GiveUp(c)
    PROVE  CallsInv'
<1> DEFINE late == [c EXCEPT !.late = LateNumber]
           rest == (calls \ {c}) \cup {late}
<1>0. LateNumber \in Nat \ {0}
  BY LateIsLate DEF CallsInv, CallsOK
<1>1. /\ late \in Calls /\ late.late # 0
      /\ late.what = c.what /\ late.to = c.to /\ late.seen = c.seen
  BY <1>0, CallFields, LateIsCall DEF Calls
<1>2. ~Waits(late) /\ WellAsked(late)
  BY <1>1, CallFields DEF Waits, WellAsked
<1>3. Waits(c) /\ c.by \in Drivers /\ requests' = requests
  BY DEF GiveUp, Waits
<1>4. drv[c.by] \in Points
  BY <1>3 DEF CallsInv, CallsOK
<1>5. Follow(drv[c.by].at, drv[c.by].k, FALSE) \in Points
  <2>1. drv[c.by].at \in {"start", "step", "end", "finish", "error"} /\ drv[c.by].k \in 1..Steps
    BY <1>3, <1>4, CallFields DEF Attended, Points
  <2>. QED  BY <2>1, FollowIsPoint
<1>6. PICK point \in Points : Go(c.by, point, rest)
  BY <1>4, <1>5 DEF GiveUp
<1>. HIDE DEF late
<1>7. IsFiniteSet(rest)
  BY FS_RemoveElement, FS_AddElement DEF CallsInv, CallsOK
<1>8. rest \in SUBSET Calls /\ \A e \in rest : WellAsked(e)
  BY <1>1, <1>2 DEF CallsInv, CallsOK
<1>9. \A e \in rest : Waits(e) => e \in calls /\ e.by # c.by
  BY <1>2, <1>3 DEF CallsInv, CallsOK, OneCall
<1>. HIDE DEF rest
<1>10. CallsOK'
  BY <1>3, <1>6, <1>7, <1>8, <1>9, GoKeepsCalls DEF CallsInv
<1>. QED  BY <1>10, RetirementAssumption DEF GiveUp, Trouble, CallsInv, CallsOK, TypeOK, lms, staff, history, Points,
             RetirementAssumption

LEMMA CrashCalls ==
    ASSUME CallsInv, NEW d \in Drivers, Crash(d)
    PROVE  CallsInv'
<1> DEFINE drop(c) == IF Waits(c) /\ c.by = d THEN [c EXCEPT !.late = LateNumber] ELSE c
           rest == {drop(c) : c \in calls}
<1>0. LateNumber \in Nat \ {0}
  BY LateIsLate DEF CallsInv, CallsOK
<1>1. ASSUME NEW c \in calls
      PROVE  /\ drop(c) \in Calls /\ WellAsked(drop(c))
             /\ Waits(drop(c)) => drop(c) = c /\ c.by # d
  <2>1. CASE Waits(c) /\ c.by = d
    <3> DEFINE late == [c EXCEPT !.late = LateNumber]
    <3>1. /\ late \in Calls /\ late.late # 0
          /\ late.what = c.what /\ late.to = c.to /\ late.seen = c.seen
      BY <1>0, CallFields, LateIsCall DEF Calls
    <3>. HIDE DEF late
    <3>2. ~Waits(late) /\ WellAsked(late)
      BY <3>1, CallFields DEF Waits, WellAsked
    <3>3. drop(c) = late
      BY <2>1 DEF late
    <3>. QED  BY <3>1, <3>2, <3>3
  <2>2. CASE ~(Waits(c) /\ c.by = d)
    BY <2>2, CallFields
  <2>. QED  BY <2>1, <2>2
<1>2. Go(d, Idle, rest) /\ Idle \in Points /\ requests' = requests
  BY Positions DEF Crash, Idle, Points
<1>3. IsFiniteSet(rest)
  <2> DEFINE f == [c \in calls |-> drop(c)]
  <2>. HIDE DEF drop
  <2>1. f \in Surjection(calls, rest)
    BY DEF Surjection
  <2>. QED  BY <2>1, FS_Surjection DEF CallsInv, CallsOK
<1>. HIDE DEF drop
<1>4. rest \in SUBSET Calls /\ \A e \in rest : WellAsked(e)
  BY <1>1
<1>5. \A e \in rest : Waits(e) => e \in calls /\ e.by # d
  BY <1>1
<1>. HIDE DEF rest
<1>6. CallsOK'
  BY <1>2, <1>3, <1>4, <1>5, GoKeepsCalls DEF CallsInv
<1>. QED  BY <1>6, RetirementAssumption DEF Crash, HitIf, AccidentKinds, Trouble, CallsInv, CallsOK, TypeOK, lms, staff, history, Points,
             RetirementAssumption

LEMMA ForceCalls ==
    ASSUME CallsInv, ForceState
    PROVE  CallsInv'
<1>1. row \in Rows
  BY DEF ForceState, Found, CallsInv, TypeOK
<1>2. LateNumber \in Nat \ {0}
  BY LateIsLate DEF CallsInv, CallsOK
<1>3. PICK to \in States :
        calls' = calls \cup {[by |-> Operator, what |-> "state", to |-> to, force |-> TRUE,
                              seen |-> Unread, late |-> LateNumber]}
  BY DEF ForceState
<1> DEFINE new == [by |-> Operator, what |-> "state", to |-> to, force |-> TRUE,
                   seen |-> Unread, late |-> LateNumber]
<1>4. new \in Calls
  BY <1>1, <1>2, UnreadCall
<1>5. ~Waits(new) /\ WellAsked(new)
  BY <1>2, RetirementAssumption DEF Waits, WellAsked, RetirementAssumption
<1>. HIDE DEF new
<1>6. calls' = calls \cup {new} /\ UNCHANGED drv /\ requests' = requests
  BY <1>3 DEF ForceState, new
<1>7. CallsOK'
  <2>1. IsFiniteSet(calls') /\ calls' \subseteq Calls
    BY <1>4, <1>6, FS_AddElement DEF CallsInv, CallsOK
  <2>2. \A e \in calls' : WellAsked(e)' /\ Attended(e)'
    BY <1>5, <1>6 DEF CallsInv, CallsOK, WellAsked, Attended, Waits
  <2>3. \A e, f \in calls' : Waits(e) /\ Waits(f) /\ e.by = f.by => e = f
    BY <1>5, <1>6 DEF CallsInv, CallsOK, OneCall
  <2>4. OneCall'
    BY <2>3 DEF OneCall, Waits
  <2>. QED  BY <2>1, <2>2, <2>4, <1>6 DEF CallsInv, CallsOK
<1>. QED  BY <1>7, RetirementAssumption DEF ForceState, Trouble, CallsInv, CallsOK, TypeOK, lms, staff, history, Points,
             RetirementAssumption

\* Steps that leave the calls, the drivers and the number of requests alone.
LEMMA QuietCalls ==
    ASSUME CallsInv, UNCHANGED <<calls, drv, requests>>
    PROVE  CallsOK'
BY DEF CallsInv, CallsOK, WellAsked, Attended, OneCall, Waits

LEMMA RequestCalls ==
    ASSUME CallsInv, Request
    PROVE  CallsInv'
<1>1. requests \in Nat /\ requests' = requests + 1 /\ requests' \in 1..MaxRequests
  BY RetirementAssumption DEF Request, CallsInv, TypeOK, RetirementAssumption
<1>2. UNCHANGED <<calls, drv>>
  BY DEF Request, scripts
<1>3. \A c \in calls : c.seen # Unread => c.seen.id \in Nat
  BY CallFields DEF Rows
<1>4. \A c \in calls : WellAsked(c)'
  BY <1>1, <1>3, CallFields DEF WellAsked
<1>5. CallsOK'
  BY <1>2, <1>4 DEF CallsInv, CallsOK, Attended, OneCall, Waits
<1>6. row' \in Rows /\ row'.id <= requests'
  BY <1>1, Positions DEF Request, Rows
<1>7. requests' \in 0..MaxRequests
  BY <1>1
<1>. QED  BY <1>5, <1>6, <1>7 DEF Request, CallsInv, CallsOK, TypeOK, staff, history, Points

LEMMA CleanupCalls ==
    ASSUME CallsInv, Cleanup
    PROVE  CallsInv'
<1>1. CallsOK'
  BY QuietCalls DEF Cleanup, scripts
<1>2. row' \in Rows \cup {NoRow} /\ (row' # NoRow => row # NoRow /\ row'.id = row.id)
  BY DEF Cleanup, CallsInv, TypeOK, Rows
<1>. QED  BY <1>1, <1>2 DEF Cleanup, HitIf, AccidentKinds, CallsInv, CallsOK, TypeOK, history, Points

LEMMA StaffCalls ==
    ASSUME CallsInv, Look \/ Cancel \/ CheckComplete
    PROVE  CallsInv'
<1>. USE DEF CallsInv
<1>1. CASE Look
  <2>1. CallsOK'
    BY <1>1, QuietCalls DEF Look, scripts
  <2>. QED  BY <2>1, <1>1 DEF Look, CanCancel, CallsOK, TypeOK, lms, history, Points
<1>2. CASE Cancel
  <2>1. CallsOK'
    BY <1>2, QuietCalls DEF Cancel, scripts
  <2>. QED  BY <2>1, <1>2 DEF Cancel, HitIf, AccidentKinds, CallsOK, TypeOK, history, Points
<1>3. CASE CheckComplete
  <2>1. CallsOK'
    BY <1>3, QuietCalls DEF CheckComplete, scripts
  <2>. QED  BY <2>1, <1>3 DEF CheckComplete, Found, CallsOK, TypeOK, lms, history, Points
<1>. QED  BY <1>1, <1>2, <1>3

LEMMA ReportCalls ==
    ASSUME CallsInv, NEW r \in Reporters, Tell(r) \/ ReportFails(r)
    PROVE  CallsInv'
<1>. USE DEF CallsInv, Turn, CallsOK, TypeOK, Points, HitIf, AccidentKinds
<1>1. /\ UNCHANGED <<calls, drv, requests, row, request, account, done, desk, cleaner>>
      /\ UNCHANGED <<orgs, waived, left>> /\ {told, told'} \subseteq BOOLEAN
  BY DEF Tell, List, Mark, Push, Clear, ReportFails, lms, scripts, staff, history
<1>2. CallsOK'
  BY <1>1, QuietCalls
<1>3. CASE List(r)
  BY <1>1, <1>2, <1>3 DEF List, lms
<1>4. CASE Mark(r)
  BY <1>1, <1>2, <1>4 DEF Mark, Marked
<1>5. CASE Push(r)
  BY <1>1, <1>2, <1>5 DEF Push, lms
<1>6. CASE Clear(r)
  BY <1>1, <1>2, <1>6 DEF Clear
<1>7. CASE ReportFails(r)
  BY <1>1, <1>2, <1>7, RetirementAssumption DEF ReportFails, Trouble, lms, RetirementAssumption
<1>. QED  BY <1>3, <1>4, <1>5, <1>6, <1>7 DEF Tell

LEMMA CallsAtFirst == Init => CallsInv
<1>. SUFFICES ASSUME Init PROVE CallsInv
  OBVIOUS
<1>1. CallsOK
  BY Positions, FS_EmptySet DEF Init, CallsOK, Idle, Points, OneCall
<1>2. MaxRequests \in Nat /\ MaxTrouble \in Nat
  BY RetirementAssumption DEF RetirementAssumption
<1>3. requests \in 0..MaxRequests /\ trouble \in 0..MaxTrouble
  BY <1>2 DEF Init
<1>4. rep \in [Reporters -> {"idle", "listed", "empty", "marked", "pushed"}]
  BY DEF Init
<1>5. /\ row \in Rows \cup {NoRow}
      /\ {desk, cleaner} \subseteq Rows \cup {NoRow}
      /\ done \subseteq 1..Steps
      /\ accidents \subseteq AccidentKinds
      /\ waived \subseteq 1..Steps
  BY DEF Init
<1>6. /\ request \in BOOLEAN
      /\ account \in {"open", "locked", "retired"}
      /\ report \in {"none", "queued", "processing"}
      /\ {orgs, told, left} \subseteq BOOLEAN
  BY DEF Init
<1>7. TypeOK
  BY <1>1, <1>3, <1>4, <1>5, <1>6 DEF CallsOK, TypeOK, Points
<1>. QED  BY <1>1, <1>7 DEF Init, CallsInv

LEMMA CallsKept == CallsInv /\ [Next]_vars => CallsInv'
<1>. SUFFICES ASSUME CallsInv, [Next]_vars PROVE CallsInv'
  OBVIOUS
<1>1. CASE UNCHANGED vars
  <2>1. CallsOK'
    BY <1>1, QuietCalls DEF vars, scripts
  <2>. QED  BY <2>1, <1>1 DEF vars, lms, scripts, staff, history, CallsInv, TypeOK
<1>2. ASSUME NEW c \in calls, Read(c) \/ Perform(c) \/ StepFails(c) \/ GiveUp(c)
      PROVE  CallsInv'
  BY <1>2, ReadCalls, PerformCalls, StepFailsCalls, GiveUpCalls
<1>3. ASSUME NEW d \in Drivers, Start(d) \/ Crash(d)
      PROVE  CallsInv'
  BY <1>3, StartCalls, CrashCalls
<1>4. ASSUME NEW r \in Reporters, Tell(r) \/ ReportFails(r)
      PROVE  CallsInv'
  BY <1>4, ReportCalls
<1>5. CASE Request \/ Look \/ Cancel \/ ForceState \/ CheckComplete \/ Cleanup
  BY <1>5, RequestCalls, StaffCalls, ForceCalls, CleanupCalls
<1>. QED  BY <1>1, <1>2, <1>3, <1>4, <1>5 DEF Next

\* The variables of a retirement keep their types, for any number of steps, drivers,
\* requests and faults (user_api/models.py, views.py and the driver scripts).
THEOREM TypesOfRetirement == Spec => []TypeOK
<1>1. CallsInv => TypeOK
  BY DEF CallsInv
<1>. QED  BY CallsAtFirst, CallsKept, <1>1, PTL DEF Spec

-----------------------------------------------------------------------------
(* What drivers and their calls take for done                              *)

\* The row stays the same row, or goes; it goes back to PENDING only when an
\* operator reopens it.
Onward ==
    /\ accidents \subseteq accidents'
    /\ row' # NoRow =>
            /\ row # NoRow
            /\ row'.id = row.id
            /\ row'.current = PENDING => row.current = PENDING \/ "reopened" \in accidents'

\* Who asks, and who waits for the answer, may differ.
SameWish(c, e) == c.what = e.what /\ c.to = e.to /\ c.seen = e.seen /\ c.force = e.force

LEMMA GoIsTrue ==
    ASSUME DriversAreTrue, StepsAreLater, CallsInv, Onward, Claimed \subseteq Claimed',
           NEW d \in Drivers, NEW point \in Points, NEW rest, Go(d, point, rest),
           DoneAt(point.at, point.k) \subseteq Claimed',
           \A c \in rest : \E e \in calls : SameWish(c, e)
    PROVE  DriversAreTrue' /\ StepsAreLater'
<1> DEFINE new == IF point.at = "idle" THEN {} ELSE {Ask(d, point.at, point.k)}
<1>1. /\ drv' = [drv EXCEPT ![d] = point]
      /\ calls' = rest \cup new
  BY DEF Go
<1>2. point.at \in {"idle", "start", "step", "end", "finish", "error"} /\ point.k \in 1..Steps
  BY DEF Points
<1>3. \A c \in new : DoneFor(c) \subseteq Claimed' /\ c.seen = Unread
  BY <1>2, AskIsCall
<1>. HIDE DEF new
<1>4. ASSUME NEW c \in rest, ~c.force
      PROVE  DoneFor(c) \subseteq Claimed'
  <2>1. PICK e \in calls : SameWish(c, e)
    OBVIOUS
  <2>2. DoneFor(c) = DoneFor(e) /\ ~e.force
    BY <1>4, <2>1 DEF DoneFor, SameWish
  <2>. QED  BY <2>2 DEF DriversAreTrue
<1>5. ASSUME NEW e \in Drivers
      PROVE  DoneAt(drv'[e].at, drv'[e].k) \subseteq Claimed'
  <2>1. CASE e = d
    BY <1>1, <2>1 DEF CallsInv, CallsOK
  <2>2. CASE e # d
    <3>1. drv'[e] = drv[e]
      BY <1>1, <2>2 DEF CallsInv, CallsOK
    <3>. QED  BY <3>1 DEF DriversAreTrue
  <2>. QED  BY <2>1, <2>2
<1>6. DriversAreTrue'
  <2>1. \A c \in calls' : ~c.force => DoneFor(c) \subseteq Claimed'
    BY <1>1, <1>3, <1>4
  <2>. QED  BY <1>5, <2>1 DEF DriversAreTrue, DoneAt, DoneFor, Behind, Claimed
<1>7. ASSUME NEW c \in calls', c.what = "step", c.seen # Unread, row' # NoRow, row'.id = c.seen.id
      PROVE  row'.current # PENDING \/ "reopened" \in accidents'
  <2>1. c \in rest
    BY <1>1, <1>3, <1>7
  <2>2. PICK e \in calls : c.what = e.what /\ c.seen = e.seen
    BY <2>1 DEF SameWish
  <2>. QED  BY <1>7, <2>2 DEF StepsAreLater, Onward
<1>8. StepsAreLater'
  BY <1>7 DEF StepsAreLater
<1>. QED  BY <1>6, <1>8

LEMMA FewerAreTrue ==
    ASSUME DriversAreTrue, Claimed \subseteq Claimed', calls' \subseteq calls, UNCHANGED drv
    PROVE  DriversAreTrue'
BY DEF DriversAreTrue, DoneAt, DoneFor, Behind, Claimed

\* A driver goes on to the next point when what it asked for is done.
LEMMA AnswerIsTrue ==
    ASSUME DriversAreTrue, StepsAreLater, CallsInv, Onward, Claimed \subseteq Claimed',
           NEW c \in calls, NEW ok \in BOOLEAN, Answer(c, ok),
           ok /\ c.what = "step" => c.to \in Claimed'
    PROVE  DriversAreTrue' /\ StepsAreLater'
<1>1. CASE Waits(c)
  <2> DEFINE at == drv[c.by].at
             k == drv[c.by].k
  <2>1. /\ c.by \in Drivers
        /\ at \in {"start", "step", "end", "finish", "error"}
        /\ k \in 1..Steps
    BY <1>1, CallFields DEF Waits, CallsInv, CallsOK, Attended, Points
  <2>2. c.what = Ask(c.by, at, k).what /\ c.to = Ask(c.by, at, k).to
    BY <1>1, CallFields DEF Attended
  <2>3. DoneAt(at, k) \subseteq Claimed'
    BY <2>1 DEF DriversAreTrue
  <2>4. Go(c.by, Follow(at, k, ok), calls \ {c})
    BY <1>1 DEF Answer
  <2>. HIDE DEF at, k
  <2> DEFINE next == Follow(at, k, ok)
  <2>5. next \in Points
    BY <2>1, FollowIsPoint
  <2>6. DoneAt(next.at, next.k) \subseteq Claimed'
    <3>1. CASE ~ok
      BY <3>1 DEF Follow, DoneAt, Idle
    <3>2. CASE ok /\ at = "start"
      BY <2>3, <3>2 DEF Follow, DoneAt
    <3>3. CASE ok /\ at = "step"
      <4>1. k \in Claimed'
        BY <2>2, <3>3 DEF Ask
      <4>2. next = [at |-> "end", k |-> k]
        BY <3>3 DEF Follow
      <4>3. \A j \in 1..Steps : j < k => j \in Claimed'
        BY <2>3, <3>3 DEF DoneAt
      <4>4. \A j \in DoneAt("end", k) : j \in 1..Steps /\ (j < k \/ j = k)
        BY <2>1, Positions DEF DoneAt
      <4>. QED  BY <4>1, <4>2, <4>3, <4>4
    <3>4. CASE ok /\ at = "end"
      <4>1. \A j \in 1..Steps : j <= k => j \in Claimed'
        BY <2>3, <3>4 DEF DoneAt
      <4>2. CASE k < Steps
        <5>1. next = [at |-> "start", k |-> k + 1]
          BY <3>4, <4>2 DEF Follow
        <5>. QED  BY <2>1, <4>1, <5>1, Positions DEF DoneAt
      <4>3. CASE ~(k < Steps)
        <5>1. next = [at |-> "finish", k |-> k]
          BY <3>4, <4>3 DEF Follow
        <5>. QED  BY <2>1, <4>1, <4>3, <5>1, Positions DEF DoneAt
      <4>. QED  BY <4>2, <4>3
    <3>5. CASE ok /\ at \in {"finish", "error"}
      BY <3>5 DEF Follow, DoneAt, Idle
    <3>. QED  BY <2>1, <3>1, <3>2, <3>3, <3>4, <3>5
  <2>. HIDE DEF next
  <2>7. \A e \in calls \ {c} : \E f \in calls : SameWish(e, f)
    BY DEF SameWish
  <2>. QED  BY <2>1, <2>4, <2>5, <2>6, <2>7, GoIsTrue DEF next
<1>2. CASE ~Waits(c)
  <2>1. calls' = calls \ {c} /\ UNCHANGED drv
    BY <1>2 DEF Answer
  <2>2. DriversAreTrue'
    BY <2>1, FewerAreTrue
  <2>3. StepsAreLater'
    BY <2>1 DEF StepsAreLater, Onward
  <2>. QED  BY <2>2, <2>3
<1>. QED  BY <1>1, <1>2

LEMMA QuietTruth ==
    ASSUME Truth, UNCHANGED <<row, request, account, done, waived, calls, drv>>,
           accidents \subseteq accidents'
    PROVE  Truth'
BY DEF Truth, RowIsTrue, DriversAreTrue, StepsAreLater, AccountIsTrue, Behind, DoneAt, DoneFor,
   Claimed, Fresh

\* Steps of the scripts that leave the LMS as it is.
LEMMA ScriptTruth ==
    ASSUME Truth, UNCHANGED <<row, request, account, done, waived>>, accidents \subseteq accidents',
           DriversAreTrue', StepsAreLater'
    PROVE  Truth'
BY DEF Truth, RowIsTrue, AccountIsTrue, Behind, Claimed, Fresh

-----------------------------------------------------------------------------
(* One lemma for each step                                                 *)

LEMMA StartTruth ==
    ASSUME CallsInv, Truth, NEW d \in Drivers, Start(d)
    PROVE  Truth'
<1>1. /\ UNCHANGED <<row, request, account, done, waived>> /\ Onward
      /\ Claimed' = Claimed /\ accidents \subseteq accidents'
  BY DEF Start, lms, Onward, history, HitIf, Claimed
<1>2. /\ row # NoRow /\ row.current \in States /\ Listed(row.current)
      /\ Behind(row.current) \subseteq Claimed
  BY DEF Start, Found, CallsInv, TypeOK, Rows, Truth, RowIsTrue
<1> DEFINE i == row.current
           first == FirstStep(i)
<1>3. /\ i \in Nat /\ i \notin {ERRORED, ABORTED}
      /\ first \in Nat /\ 2 * first <= i + 2 /\ i < 2 * first
  BY <1>2, Positions DEF FirstStep, Listed, DeadEnds, States, PENDING, COMPLETE
<1>4. \A j \in 1..Steps : j < first => j \in Claimed
  <2>. HIDE DEF i, first
  <2>1. \A j \in 1..Steps : j < first => Complete(j) <= i
    BY <1>3, Positions DEF Complete
  <2>. QED  BY <1>2, <1>3, <2>1 DEF Behind, i
<1>5. PICK point \in Points :
        Go(d, point, calls) /\ DoneAt(point.at, point.k) \subseteq Claimed'
  <2>1. CASE first > Steps
    <3>1. [at |-> "finish", k |-> Steps] \in Points
      BY Positions DEF Points
    <3>2. 1..Steps \subseteq Claimed
      BY <1>3, <1>4, <2>1, Positions
    <3>. QED  BY <1>1, <2>1, <3>1, <3>2 DEF Start, DoneAt
  <2>2. CASE ~(first > Steps)
    <3>1. first \in 1..Steps
      BY <1>2, <1>3, <2>2, FirstStepIsStep, Positions
    <3>2. [at |-> "start", k |-> first] \in Points
      BY <3>1 DEF Points
    <3>. QED  BY <1>1, <1>4, <2>2, <3>2 DEF Start, DoneAt
  <2>. QED  BY <2>1, <2>2
<1>6. \A c \in calls : \E e \in calls : SameWish(c, e)
  BY DEF SameWish
<1>7. DriversAreTrue' /\ StepsAreLater'
  BY <1>1, <1>5, <1>6, GoIsTrue DEF Truth
<1>. QED  BY <1>1, <1>7, ScriptTruth

LEMMA ReadTruth ==
    ASSUME CallsInv, Truth, NEW c \in calls, Read(c)
    PROVE  Truth'
<1>1. /\ UNCHANGED <<row, request, account, done, waived>> /\ Onward
      /\ Claimed' = Claimed /\ accidents \subseteq accidents'
  BY DEF Read, lms, Onward, history, HitIf, Claimed
<1>2. CASE Refused(c, row)
  <2>1. DriversAreTrue' /\ StepsAreLater'
    BY <1>1, <1>2, AnswerIsTrue DEF Read, Truth
  <2>. QED  BY <1>1, <2>1, ScriptTruth
<1>3. CASE ~Refused(c, row)
  <2> DEFINE new == [c EXCEPT !.seen = row]
  <2>1. calls' = (calls \ {c}) \cup {new} /\ UNCHANGED drv
    BY <1>3 DEF Read
  <2>2. new.what = c.what /\ new.to = c.to /\ new.force = c.force
    BY CallFields DEF Calls
  <2>3. c.what = "step" => row.current \in WorkingStates
    BY <1>3 DEF Refused
  <2>4. \A state \in WorkingStates : state # PENDING
    BY Positions DEF WorkingStates, PENDING
  <2>. HIDE DEF new
  <2>5. DriversAreTrue'
    <3>1. DoneFor(new) = DoneFor(c)
      BY <2>2 DEF DoneFor
    <3>. QED  BY <1>1, <2>1, <2>2, <3>1 DEF Truth, DriversAreTrue, DoneAt, DoneFor, Behind, Claimed
  <2>6. StepsAreLater'
    BY <1>1, <2>1, <2>2, <2>3, <2>4 DEF Truth, StepsAreLater
  <2>. QED  BY <1>1, <2>5, <2>6, ScriptTruth
<1>. QED  BY <1>2, <1>3

LEMMA SaveTruth ==
    ASSUME CallsInv, Truth, NEW c \in calls, c.what = "state", c.seen # Unread,
           SaveState(c), Answer(c, TRUE), Undisturbed'
    PROVE  Truth'
<1>1. /\ row # NoRow /\ row.id = c.seen.id
      /\ accidents \subseteq accidents'
      /\ c.to = PENDING => "reopened" \in accidents'
  BY DEF SaveState, Conflict, Undisturbed
<1>2. c.seen \in Rows
  BY CallFields
<1>3. row' = [c.seen EXCEPT !.current = c.to]
  BY DEF SaveState
<1>4. row'.id = row.id /\ row'.current = c.to
  BY <1>1, <1>2, <1>3 DEF Rows
<1>5. /\ UNCHANGED <<request, account, done>>
      /\ waived' = IF c.force THEN waived \cup (Behind(c.to) \ done) ELSE waived
  BY DEF SaveState
<1>6. Claimed \subseteq Claimed' /\ Onward
  BY <1>1, <1>4, <1>5 DEF Onward, Claimed
<1>7. DriversAreTrue' /\ StepsAreLater'
  BY <1>6, AnswerIsTrue DEF Truth
<1>8. Behind(c.to) \subseteq Claimed'
  <2>1. CASE c.force
    BY <1>5, <2>1 DEF Claimed
  <2>2. CASE ~c.force
    BY <1>6, <2>2 DEF Truth, DriversAreTrue, DoneFor
  <2>. QED  BY <2>1, <2>2
<1>9. RowIsTrue'
  <2>1. Behind(row'.current) \subseteq Claimed'
    BY <1>4, <1>8
  <2>2. request' /\ account' # "open"
    BY <1>1, <1>5 DEF Truth, RowIsTrue
  <2>3. row'.current = PENDING => "reopened" \in accidents'
    BY <1>1, <1>4
  <2>. QED  BY <2>1, <2>2, <2>3 DEF RowIsTrue, Behind, Claimed, Fresh
<1>10. account # "open"
  BY <1>1 DEF Truth, RowIsTrue
<1>. QED  BY <1>5, <1>7, <1>9, <1>10 DEF Truth, AccountIsTrue

\* The learner has another row: the call is answered by an error, and tried again.
LEMMA ConflictTruth ==
    ASSUME CallsInv, Truth, NEW c \in calls, Again(c), UNCHANGED <<lms, history, accidents>>
    PROVE  Truth'
<1>1. /\ UNCHANGED <<row, request, account, done, waived, accidents>> /\ Onward
      /\ Claimed' = Claimed /\ accidents \subseteq accidents'
  BY DEF lms, history, Onward, Claimed
<1>2. CASE Waits(c)
  <2>1. /\ c.by \in Drivers /\ drv[c.by] \in Points
        /\ Go(c.by, drv[c.by], calls \ {c})
    BY <1>2 DEF Again, Waits, CallsInv, CallsOK
  <2>2. \A e \in calls \ {c} : \E f \in calls : SameWish(e, f)
    BY DEF SameWish
  <2>3. DoneAt(drv[c.by].at, drv[c.by].k) \subseteq Claimed'
    BY <1>1, <2>1 DEF Truth, DriversAreTrue
  <2>4. DriversAreTrue' /\ StepsAreLater'
    BY <1>1, <2>1, <2>2, <2>3, GoIsTrue DEF Truth
  <2>. QED  BY <1>1, <2>4, ScriptTruth
<1>3. CASE ~Waits(c)
  <2>1. calls' = calls \ {c} /\ UNCHANGED drv
    BY <1>3 DEF Again
  <2>2. DriversAreTrue' /\ StepsAreLater'
    BY <1>1, <2>1, FewerAreTrue DEF Truth, StepsAreLater
  <2>. QED  BY <1>1, <2>2, ScriptTruth
<1>. QED  BY <1>2, <1>3

LEMMA StepTruth ==
    ASSUME CallsInv, Truth, NEW c \in calls, c.what = "step", c.seen # Unread,
           DoStep(c), Answer(c, TRUE), Undisturbed'
    PROVE  Truth'
<1>1. row # NoRow /\ row.id = c.seen.id
  BY DEF DoStep, HitIf, Undisturbed
<1>2. (row.current # PENDING \/ "reopened" \in accidents) /\ request /\ account # "open"
  BY <1>1 DEF Truth, StepsAreLater, RowIsTrue
<1>3. /\ UNCHANGED <<row, request, waived>> /\ accidents \subseteq accidents'
      /\ done' = done \cup {c.to}
      /\ account' = IF c.to = Steps THEN "retired" ELSE account
  BY DEF DoStep, HitIf, history
<1>4. DriversAreTrue' /\ StepsAreLater'
  <2>1. Onward /\ Claimed \subseteq Claimed' /\ c.to \in Claimed'
    BY <1>3 DEF Onward, Claimed
  <2>. QED  BY <2>1, AnswerIsTrue DEF Truth
<1>5. RowIsTrue'
  BY <1>1, <1>2, <1>3 DEF Truth, RowIsTrue, Behind, Claimed, Fresh
<1>6. AccountIsTrue'
  BY <1>2, <1>3 DEF Truth, AccountIsTrue
<1>. QED  BY <1>4, <1>5, <1>6 DEF Truth

LEMMA FailTruth ==
    ASSUME CallsInv, Truth, NEW c \in calls, StepFails(c)
    PROVE  Truth'
<1>1. /\ UNCHANGED <<row, request, account, done, waived>> /\ Onward /\ Answer(c, FALSE)
      /\ Claimed' = Claimed /\ accidents \subseteq accidents'
  BY DEF StepFails, lms, Onward, history, Claimed
<1>2. DriversAreTrue' /\ StepsAreLater'
  BY <1>1, AnswerIsTrue DEF Truth
<1>. QED  BY <1>1, <1>2, ScriptTruth

LEMMA GiveUpTruth ==
    ASSUME CallsInv, Truth, NEW c \in calls, GiveUp(c)
    PROVE  Truth'
<1>1. /\ UNCHANGED <<row, request, account, done, waived>> /\ Onward
      /\ Claimed' = Claimed /\ accidents \subseteq accidents'
  BY DEF GiveUp, lms, Onward, history, HitIf, Claimed
<1> DEFINE late == [c EXCEPT !.late = LateNumber]
           rest == (calls \ {c}) \cup {late}
<1>2. SameWish(late, c)
  BY CallFields DEF Calls, SameWish
<1>3. /\ c.by \in Drivers
      /\ drv[c.by] \in Points
      /\ drv[c.by].at \in {"start", "step", "end", "finish", "error"}
      /\ drv[c.by].k \in 1..Steps
  BY CallFields DEF GiveUp, Waits, CallsInv, CallsOK, Attended, Points
<1> DEFINE failed == Follow(drv[c.by].at, drv[c.by].k, FALSE)
<1>4. failed \in Points
  BY <1>3, FollowIsPoint
<1>5. DoneAt(failed.at, failed.k) = {}
  BY DEF Follow, DoneAt, Idle
<1>. HIDE DEF late, failed
<1>6. PICK point \in {drv[c.by], failed} : Go(c.by, point, rest)
  BY DEF GiveUp, late, failed
<1>7. point \in Points /\ DoneAt(point.at, point.k) \subseteq Claimed'
  BY <1>1, <1>3, <1>4, <1>5 DEF Truth, DriversAreTrue
<1>8. \A e \in rest : \E f \in calls : SameWish(e, f)
  BY <1>2 DEF SameWish
<1>. HIDE DEF rest
<1>9. DriversAreTrue' /\ StepsAreLater'
  BY <1>1, <1>3, <1>6, <1>7, <1>8, GoIsTrue DEF Truth
<1>. QED  BY <1>1, <1>9, ScriptTruth

LEMMA CrashTruth ==
    ASSUME CallsInv, Truth, NEW d \in Drivers, Crash(d)
    PROVE  Truth'
<1>1. /\ UNCHANGED <<row, request, account, done, waived>> /\ Onward
      /\ Claimed' = Claimed /\ accidents \subseteq accidents'
  BY DEF Crash, lms, Onward, history, HitIf, Claimed
<1> DEFINE drop(c) == IF Waits(c) /\ c.by = d THEN [c EXCEPT !.late = LateNumber] ELSE c
           rest == {drop(c) : c \in calls}
<1>2. \A c \in calls : SameWish(drop(c), c)
  BY CallFields DEF Calls, SameWish
<1>3. Go(d, Idle, rest) /\ Idle \in Points
  BY Positions DEF Crash, Idle, Points
<1>4. DoneAt(Idle.at, Idle.k) = {}
  BY DEF Idle, DoneAt
<1>. HIDE DEF drop
<1>5. \A e \in rest : \E f \in calls : SameWish(e, f)
  BY <1>2
<1>. HIDE DEF rest
<1>6. DriversAreTrue' /\ StepsAreLater'
  BY <1>1, <1>3, <1>4, <1>5, GoIsTrue DEF Truth
<1>. QED  BY <1>1, <1>6, ScriptTruth

LEMMA ForceTruth ==
    ASSUME CallsInv, Truth, ForceState
    PROVE  Truth'
<1>1. UNCHANGED <<row, request, account, done, waived, drv, accidents>>
  BY DEF ForceState, lms, history
<1>2. PICK to \in States :
        calls' = calls \cup {[by |-> Operator, what |-> "state", to |-> to, force |-> TRUE,
                              seen |-> Unread, late |-> LateNumber]}
  BY DEF ForceState
<1> DEFINE new == [by |-> Operator, what |-> "state", to |-> to, force |-> TRUE,
                   seen |-> Unread, late |-> LateNumber]
<1>3. new.what = "state" /\ new.force
  OBVIOUS
<1>. HIDE DEF new
<1>4. calls' = calls \cup {new}
  BY <1>2 DEF new
<1>5. DriversAreTrue'
  BY <1>1, <1>3, <1>4 DEF Truth, DriversAreTrue, DoneAt, DoneFor, Behind, Claimed
<1>6. StepsAreLater'
  BY <1>1, <1>3, <1>4 DEF Truth, StepsAreLater
<1>. QED  BY <1>1, <1>5, <1>6, ScriptTruth

\* The learner asks again: nothing was done, and no call takes it for done.
LEMMA RequestTruth ==
    ASSUME CallsInv, Truth, Request
    PROVE  Truth'
<1>1. /\ Claimed = {} /\ done' = {} /\ waived' = {} /\ Claimed' = {} /\ request' = TRUE /\ account' = "locked"
      /\ row' = [id |-> requests + 1, current |-> PENDING, redacted |-> FALSE]
      /\ UNCHANGED <<calls, drv>>
  BY DEF Request, Truth, AccountIsTrue, scripts, Claimed
<1>2. DriversAreTrue'
  BY <1>1, FewerAreTrue DEF Truth
<1>3. StepsAreLater'
  <2>1. requests \in Nat
    BY RetirementAssumption DEF CallsInv, TypeOK, RetirementAssumption
  <2>2. \A c \in calls : c.seen # Unread => c.seen.id \in Nat /\ c.seen.id <= requests
    BY CallFields DEF WellAsked, Rows
  <2>. QED  BY <1>1, <2>1, <2>2 DEF StepsAreLater
<1>4. Behind(PENDING) = {}
  BY Positions DEF Behind, Complete, PENDING
<1>5. RowIsTrue'
  BY <1>1, <1>4 DEF RowIsTrue, Behind, Fresh, Claimed
<1>6. AccountIsTrue'
  BY <1>1 DEF AccountIsTrue, Claimed
<1>. QED  BY <1>2, <1>3, <1>5, <1>6 DEF Truth

LEMMA CancelTruth ==
    ASSUME CallsInv, Truth, Cancel, Undisturbed'
    PROVE  Truth'
<1>1. row = desk /\ desk # NoRow /\ "reopened" \notin accidents
  BY DEF Cancel, HitIf, Undisturbed
<1>2. row.current = PENDING /\ Claimed = {}
  BY <1>1 DEF CallsInv, Truth, RowIsTrue, Fresh
<1>3. /\ row' = NoRow /\ request' = FALSE /\ account' = "open"
      /\ UNCHANGED <<done, waived, calls, drv>> /\ Claimed' = Claimed
  BY <1>1, <1>2 DEF Cancel, DropsRequest, scripts, history, Claimed
<1>4. RowIsTrue' /\ AccountIsTrue'
  BY <1>2, <1>3 DEF RowIsTrue, AccountIsTrue, Claimed
<1>5. DriversAreTrue' /\ StepsAreLater'
  BY <1>3, FewerAreTrue DEF Truth, StepsAreLater
<1>. QED  BY <1>4, <1>5 DEF Truth

LEMMA CleanupTruth ==
    ASSUME CallsInv, Truth, Cleanup
    PROVE  Truth'
<1>1. COMPLETE # PENDING
  BY Positions DEF COMPLETE, PENDING
<1>2. /\ request' = request /\ UNCHANGED <<account, done, waived, calls, drv>>
      /\ Claimed' = Claimed /\ accidents \subseteq accidents'
  BY <1>1 DEF Cleanup, DropsRequest, CallsInv, TypeOK, scripts, history, Claimed, HitIf
<1>3. row' # NoRow => /\ row # NoRow /\ row'.id = row.id
                      /\ row'.current = row.current
  BY DEF Cleanup, CallsInv, TypeOK, Rows
<1>4. RowIsTrue'
  <2>1. row' # NoRow => Behind(row'.current) \subseteq Claimed'
    BY <1>2, <1>3 DEF Truth, RowIsTrue
  <2>. QED  BY <1>2, <1>3, <2>1 DEF Truth, RowIsTrue, Behind, Claimed, Fresh
<1>5. AccountIsTrue'
  BY <1>2 DEF Truth, AccountIsTrue, Claimed
<1>6. DriversAreTrue' /\ StepsAreLater'
  BY <1>2, <1>3, FewerAreTrue DEF Truth, StepsAreLater
<1>. QED  BY <1>4, <1>5, <1>6 DEF Truth

-----------------------------------------------------------------------------
(* The theorems                                                            *)

LEMMA RetireAtFirst == Init => RetireInv
<1>. SUFFICES ASSUME Init PROVE RetireInv
  OBVIOUS
<1>1. CallsInv
  BY CallsAtFirst
<1>2. Steps \notin {} /\ \A k : DoneAt("idle", k) = {}
  BY DEF DoneAt
<1>3. Truth
  BY <1>2 DEF Init, Idle, Truth, RowIsTrue, DriversAreTrue, StepsAreLater, AccountIsTrue, Claimed
<1>. QED  BY <1>1, <1>3 DEF RetireInv

\* What has happened stays so.
LEMMA HistoryLasts ==
    ASSUME [Next]_vars
    PROVE  accidents \subseteq accidents'
<1>1. CASE UNCHANGED vars
  BY <1>1 DEF vars
<1>2. ASSUME NEW c \in calls, Read(c) \/ Perform(c) \/ StepFails(c) \/ GiveUp(c)
      PROVE  accidents \subseteq accidents'
  BY <1>2 DEF Read, Perform, SaveState, DoStep, HitIf, StepFails, GiveUp
<1>3. ASSUME NEW d \in Drivers, Start(d) \/ Crash(d)
      PROVE  accidents \subseteq accidents'
  BY <1>3 DEF Start, Crash, HitIf
<1>4. ASSUME NEW r \in Reporters, Tell(r) \/ ReportFails(r)
      PROVE  accidents \subseteq accidents'
  BY <1>4 DEF Tell, List, Mark, Push, Clear, ReportFails, HitIf
<1>5. CASE Request \/ Look \/ Cancel \/ ForceState \/ CheckComplete \/ Cleanup
  BY <1>5 DEF Request, Look, Cancel, ForceState, CheckComplete, Cleanup, HitIf
<1>. QED  BY <1>1, <1>2, <1>3, <1>4, <1>5 DEF Next

LEMMA StillUndisturbed ==
    ASSUME [Next]_vars, Undisturbed'
    PROVE  Undisturbed
BY HistoryLasts DEF Undisturbed

LEMMA RetireKept == RetireInv /\ [Next]_vars => RetireInv'
<1>. SUFFICES ASSUME RetireInv, [Next]_vars PROVE RetireInv'
  OBVIOUS
<1>1. CallsInv /\ CallsInv'
  BY CallsKept DEF RetireInv
<1>2. SUFFICES ASSUME Undisturbed' PROVE Truth'
  BY <1>1 DEF RetireInv
<1>3. Truth /\ accidents \subseteq accidents'
  BY <1>2, StillUndisturbed, HistoryLasts DEF RetireInv
<1>4. CASE UNCHANGED vars
  BY <1>3, <1>4, QuietTruth DEF vars, lms, scripts, history
<1>5. ASSUME NEW c \in calls, Read(c) \/ StepFails(c) \/ GiveUp(c)
      PROVE  Truth'
  BY <1>1, <1>3, <1>5, ReadTruth, FailTruth, GiveUpTruth
<1>6. ASSUME NEW c \in calls, Perform(c)
      PROVE  Truth'
  BY <1>1, <1>2, <1>3, <1>6, SaveTruth, ConflictTruth, StepTruth DEF Perform
<1>7. ASSUME NEW d \in Drivers, Start(d) \/ Crash(d)
      PROVE  Truth'
  BY <1>1, <1>3, <1>7, StartTruth, CrashTruth
<1>8. ASSUME NEW r \in Reporters, Tell(r) \/ ReportFails(r)
      PROVE  Truth'
  <2>1. UNCHANGED <<row, request, account, done, waived, calls, drv>>
    BY <1>8 DEF Tell, List, Mark, Push, Clear, ReportFails, lms, scripts, history
  <2>. QED  BY <1>3, <2>1, QuietTruth
<1>9. CASE Look \/ CheckComplete
  <2>1. UNCHANGED <<row, request, account, done, waived, calls, drv>>
    BY <1>9 DEF Look, CheckComplete, lms, scripts, history
  <2>. QED  BY <1>3, <2>1, QuietTruth
<1>10. CASE Request \/ Cancel \/ ForceState \/ Cleanup
  BY <1>1, <1>2, <1>3, <1>10, RequestTruth, CancelTruth, ForceTruth, CleanupTruth
<1>. QED  BY <1>4, <1>5, <1>6, <1>7, <1>8, <1>9, <1>10 DEF Next

\* A learner whose retirement is COMPLETE has been through every step since it was
\* requested, but for those that an operator claimed as done by forcing a state
\* (retire_learner skips what the row says is done; update_state).
THEOREM CompleteIsRetired == Spec => []RetiredInFull
<1>1. RetireInv => RetiredInFull
  <2>1. SUFFICES ASSUME RetireInv, Undisturbed, row # NoRow, row.current = COMPLETE
                 PROVE  /\ done \cup waived = 1..Steps
                        /\ account = "retired" \/ Steps \in waived
    BY DEF RetiredInFull
  <2>2. Behind(COMPLETE) = 1..Steps
    BY Positions DEF Behind, Complete, COMPLETE, ERRORED, ABORTED
  <2>3. done \cup waived = 1..Steps
    BY <2>1, <2>2 DEF RetireInv, Truth, RowIsTrue, CallsInv, TypeOK, Claimed
  <2>4. Steps \in done \cup waived
    BY <2>3, Positions
  <2>. QED  BY <2>1, <2>3, <2>4 DEF RetireInv, Truth, AccountIsTrue
<1>. QED  BY RetireAtFirst, RetireKept, <1>1, PTL DEF Spec

\* A learner who has cancelled is in no queue, and nothing of the account has been
\* retired, although calls may still be served that nobody waits for
\* (handle_retirement_cancellation).
THEOREM CancelledUntouched == Spec => []CancelledIsLeftAlone
<1>1. RetireInv => CancelledIsLeftAlone
  BY DEF RetireInv, Truth, RowIsTrue, AccountIsTrue, CancelledIsLeftAlone, Claimed
<1>. QED  BY RetireAtFirst, RetireKept, <1>1, PTL DEF Spec

\* The UserRetirementRequest outlives the row of a retirement that has begun
\* (remove_pending_retirement_request).
THEOREM RecordOutlives == Spec => []RetiredIsRecorded
<1>1. RetireInv => RetiredIsRecorded
  BY DEF RetireInv, Truth, AccountIsTrue, RetiredIsRecorded
<1>. QED  BY RetireAtFirst, RetireKept, <1>1, PTL DEF Spec

-----------------------------------------------------------------------------
(* The partner report                                                      *)

Unhindered == accidents \cap {"crossed", "revived", "missed", "crash"} = {}

\* Nobody has been reported before the step that queues for the report.
NoneReported ==
    PartnerStep \notin done =>
        /\ report = "none" /\ ~told
        /\ \A r \in Reporters : rep[r] \in {"idle", "empty"}

\* Who has pushed a report has told the partners of the learner.
PushedIsTold == \A r \in Reporters : rep[r] = "pushed" => told

\* Who is marked is in the list of a report that will clear the mark.
MarkedIsReported ==
    report = "processing" => \E r \in Reporters : rep[r] \in {"marked", "pushed"}

\* The inductive invariant.
TellInv ==
    /\ RetireInv
    /\ Unhindered => NoneReported /\ PushedIsTold /\ MarkedIsReported /\ PartnersAreTold

\* The accidents that do not hinder a report have not happened before either.
LEMMA StillUnhindered ==
    ASSUME [Next]_vars, Unhindered'
    PROVE  Unhindered /\ Undisturbed /\ Undisturbed'
BY HistoryLasts DEF Unhindered, Undisturbed

\* What is known when a step is about to be taken.
Telling ==
    /\ TypeOK
    /\ Unhindered'
    /\ NoneReported /\ PushedIsTold /\ MarkedIsReported /\ PartnersAreTold /\ Unhindered

\* The steps of one reporter; the others stay where they are.
LEMMA ReporterTells ==
    ASSUME Telling, NEW r \in Reporters, Tell(r)
    PROVE  NoneReported' /\ PushedIsTold' /\ MarkedIsReported' /\ PartnersAreTold'
<1>0. /\ rep \in [Reporters -> {"idle", "listed", "empty", "marked", "pushed"}]
      /\ Undisturbed /\ accidents \cap {"missed", "crash"} = {}
  BY DEF Telling, TypeOK, Unhindered, Undisturbed
<1>1. orgs /\ PartnerStep \in done =>
          told \/ report = "queued" \/ \E q \in Reporters : rep[q] \in {"listed", "marked", "pushed"}
  BY <1>0 DEF Telling, PartnersAreTold
<1>2. CASE List(r)
  <2>1. /\ rep' = [rep EXCEPT ![r] = IF report = "queued" THEN "listed" ELSE "empty"]
        /\ rep[r] = "idle" /\ UNCHANGED <<report, told, done, orgs>>
    BY <1>2 DEF List, Turn, lms, history
  <2>2. rep'[r] \in {"listed", "empty"} /\ \A q \in Reporters : q # r => rep'[q] = rep[q]
    BY <1>0, <2>1
  <2>3. report # "queued" => rep'[r] = "empty"
    BY <1>0, <2>1
  <2>4. NoneReported' /\ PushedIsTold' /\ MarkedIsReported'
    BY <2>1, <2>2, <2>3 DEF Telling, NoneReported, PushedIsTold, MarkedIsReported
  <2>5. PartnersAreTold'
    BY <1>1, <2>1, <2>2 DEF PartnersAreTold
  <2>. QED  BY <2>4, <2>5
<1>3. CASE Mark(r)
  <2>1. /\ rep' = [rep EXCEPT ![r] = IF rep[r] = "listed" THEN "marked" ELSE "idle"]
        /\ rep[r] \in {"listed", "empty"} /\ UNCHANGED <<told, done, orgs>>
        /\ report' = IF report = "queued" THEN "processing" ELSE report
    BY <1>3 DEF Mark, Turn, Marked, history
  <2>2. ~(rep[r] = "empty" /\ report = "queued")
    BY <1>3 DEF Mark, HitIf, Telling, Unhindered
  <2>3. /\ rep'[r] = IF rep[r] = "listed" THEN "marked" ELSE "idle"
        /\ \A q \in Reporters : q # r => rep'[q] = rep[q]
    BY <1>0, <2>1
  <2>4. NoneReported' /\ PushedIsTold' /\ MarkedIsReported'
    BY <2>1, <2>2, <2>3 DEF Telling, NoneReported, PushedIsTold, MarkedIsReported
  <2>5. PartnersAreTold'
    BY <1>1, <2>1, <2>2, <2>3 DEF PartnersAreTold
  <2>. QED  BY <2>4, <2>5
<1>4. CASE Push(r)
  <2>1. /\ rep' = [rep EXCEPT ![r] = "pushed"] /\ rep[r] = "marked"
        /\ told' = TRUE /\ UNCHANGED <<report, done, orgs>>
    BY <1>4 DEF Push, Turn, lms
  <2>2. rep'[r] = "pushed" /\ \A q \in Reporters : q # r => rep'[q] = rep[q]
    BY <1>0, <2>1
  <2>3. PartnerStep \in done
    BY <2>1 DEF Telling, NoneReported
  <2>. QED  BY <2>1, <2>2, <2>3
            DEF Telling, NoneReported, PushedIsTold, MarkedIsReported, PartnersAreTold
<1>5. CASE Clear(r)
  <2>1. /\ rep' = [rep EXCEPT ![r] = "idle"] /\ rep[r] = "pushed"
        /\ report' = IF report = "processing" THEN "none" ELSE report
        /\ UNCHANGED <<told, done, orgs>>
    BY <1>5 DEF Clear, Turn, history
  <2>2. rep'[r] = "idle" /\ \A q \in Reporters : q # r => rep'[q] = rep[q]
    BY <1>0, <2>1
  <2>3. told' /\ PartnerStep \in done /\ report' # "processing"
    BY <2>1 DEF Telling, PushedIsTold, NoneReported
  <2>. QED  BY <2>1, <2>2, <2>3
            DEF Telling, NoneReported, PushedIsTold, MarkedIsReported, PartnersAreTold
<1>. QED  BY <1>2, <1>3, <1>4, <1>5 DEF Tell

LEMMA QuietTells ==
    ASSUME Telling, UNCHANGED <<done, report, rep, told, orgs>>
    PROVE  NoneReported' /\ PushedIsTold' /\ MarkedIsReported' /\ PartnersAreTold'
<1>1. Undisturbed /\ accidents \cap {"missed", "crash"} = {}
  BY DEF Telling, Unhindered, Undisturbed
<1>2. NoneReported' /\ PushedIsTold' /\ MarkedIsReported'
  BY DEF Telling, NoneReported, PushedIsTold, MarkedIsReported
<1>. QED  BY <1>1, <1>2 DEF Telling, PartnersAreTold

\* The learner is queued when the step is done, unless a report is under way.
LEMMA QueueingTells ==
    ASSUME Telling, NEW c \in calls, c.what = "step", Perform(c)
    PROVE  NoneReported' /\ PushedIsTold' /\ MarkedIsReported' /\ PartnersAreTold'
<1>1. CASE UNCHANGED <<lms, history, accidents>>
  BY <1>1, QuietTells DEF Perform, lms, history
<1>2. CASE DoStep(c)
  <2>1. /\ done' = done \cup {c.to} /\ UNCHANGED <<rep, told, orgs>>
        /\ report' = IF c.to = PartnerStep /\ orgs /\ report = "none" THEN "queued" ELSE report
    BY <1>2 DEF Perform, DoStep, Queued, history
  <2>2. orgs /\ PartnerStep \in done' => PartnerStep \in done \/ report' \in {"queued", "processing"}
    BY <2>1 DEF Telling, TypeOK
  <2>3. NoneReported' /\ PushedIsTold' /\ MarkedIsReported'
    BY <2>1 DEF Telling, NoneReported, PushedIsTold, MarkedIsReported
  <2>4. Undisturbed /\ accidents \cap {"missed", "crash"} = {}
    BY DEF Telling, Unhindered, Undisturbed
  <2>5. PartnersAreTold'
    BY <2>1, <2>2, <2>3, <2>4 DEF Telling, PartnersAreTold, MarkedIsReported
  <2>. QED  BY <2>3, <2>5
<1>. QED  BY <1>1, <1>2 DEF Perform

\* A learner asks for retirement when nothing has been done to the account, so that
\* no report speaks of it.
LEMMA RequestTells ==
    ASSUME Telling, Truth, Request
    PROVE  NoneReported' /\ PushedIsTold' /\ MarkedIsReported' /\ PartnersAreTold'
<1>1. done = {} /\ done' = {} /\ told' = FALSE /\ UNCHANGED <<report, rep>>
  BY DEF Request, Truth, AccountIsTrue, Claimed
<1>2. report = "none" /\ \A r \in Reporters : rep[r] \in {"idle", "empty"}
  BY <1>1 DEF Telling, NoneReported
<1>. QED  BY <1>1, <1>2 DEF NoneReported, PushedIsTold, MarkedIsReported, PartnersAreTold

LEMMA TellAtFirst == Init => TellInv
<1>1. Init => RetireInv
  BY RetireAtFirst
<1>2. Init => NoneReported /\ PushedIsTold /\ MarkedIsReported /\ PartnersAreTold
  BY DEF Init, NoneReported, PushedIsTold, MarkedIsReported, PartnersAreTold
<1>. QED  BY <1>1, <1>2 DEF TellInv

LEMMA TellKept == TellInv /\ [Next]_vars => TellInv'
<1>. SUFFICES ASSUME TellInv, [Next]_vars PROVE TellInv'
  OBVIOUS
<1>1. RetireInv /\ RetireInv'
  BY RetireKept DEF TellInv
<1>2. SUFFICES ASSUME Unhindered'
               PROVE  NoneReported' /\ PushedIsTold' /\ MarkedIsReported' /\ PartnersAreTold'
  BY <1>1 DEF TellInv
<1>3. Telling /\ Truth
  BY <1>1, <1>2, StillUnhindered DEF Telling, TellInv, RetireInv, CallsInv
<1>4. CASE UNCHANGED vars
  BY <1>3, <1>4, QuietTells DEF vars, lms, history
<1>5. ASSUME NEW c \in calls, Read(c) \/ StepFails(c) \/ GiveUp(c)
      PROVE  NoneReported' /\ PushedIsTold' /\ MarkedIsReported' /\ PartnersAreTold'
  BY <1>3, <1>5, QuietTells DEF Read, StepFails, GiveUp, lms, history
<1>6. ASSUME NEW c \in calls, Perform(c)
      PROVE  NoneReported' /\ PushedIsTold' /\ MarkedIsReported' /\ PartnersAreTold'
  <2>1. CASE c.what = "step"
    BY <1>3, <1>6, <2>1, QueueingTells
  <2>2. CASE c.what # "step"
    BY <1>3, <1>6, <2>2, QuietTells DEF Perform, SaveState, lms, history
  <2>. QED  BY <2>1, <2>2
<1>7. ASSUME NEW d \in Drivers, Start(d) \/ Crash(d)
      PROVE  NoneReported' /\ PushedIsTold' /\ MarkedIsReported' /\ PartnersAreTold'
  BY <1>3, <1>7, QuietTells DEF Start, Crash, lms, history
<1>8. ASSUME NEW r \in Reporters, Tell(r) \/ ReportFails(r)
      PROVE  NoneReported' /\ PushedIsTold' /\ MarkedIsReported' /\ PartnersAreTold'
  <2>1. ~ReportFails(r)
    BY <1>2 DEF ReportFails, HitIf, Unhindered
  <2>. QED  BY <1>3, <1>8, <2>1, ReporterTells
<1>9. CASE Request
  BY <1>3, <1>9, RequestTells
<1>10. CASE Look \/ Cancel \/ ForceState \/ CheckComplete \/ Cleanup
  BY <1>3, <1>10, QuietTells DEF Look, Cancel, ForceState, CheckComplete, Cleanup, lms, history
<1>. QED  BY <1>4, <1>5, <1>6, <1>7, <1>8, <1>9, <1>10 DEF Next

\* A learner who is retired is told of to the partners, or queued for it, or in a
\* report that is under way, for any number of reports at a time, unless one of
\* them died or marked a learner that its list lacked (retirement_partner_report).
THEOREM RetiredAreReported == Spec => []PartnersAreTold
<1>1. TellInv => PartnersAreTold
  BY DEF TellInv, PartnersAreTold, Unhindered, Undisturbed
<1>. QED  BY TellAtFirst, TellKept, <1>1, PTL DEF Spec
=============================================================================
