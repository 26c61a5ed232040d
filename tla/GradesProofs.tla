---------------------------- MODULE GradesProofs ----------------------------
(***************************************************************************)
(* Proofs about Grades, for any number of requests, tasks and problems.    *)
(*                                                                         *)
(* RescoreInv: the types, with the sums that tasks add up, and what a      *)
(* rescore that counts only if it is higher compares and writes.           *)
(*                                                                         *)
(* PassInv: how often passing the course is announced, beside the task     *)
(* that saves the row: by those that have yet to save it and by those that *)
(* broke before they could, unless two of them have crossed.               *)
(***************************************************************************)
EXTENDS Grades, FiniteSetTheorems, TLAPS

-----------------------------------------------------------------------------
(* Sums.  A fold over a finite set of natural numbers is a natural number: *)
(* by an induction that is stated for sets, so that it can be instantiated.*)

\* Induction over the natural numbers, for a set.
LEMMA SetInduction ==
    ASSUME NEW A \in SUBSET Nat, 0 \in A, \A n \in A : n + 1 \in A
    PROVE  A = Nat
<1> DEFINE R == OpToRel(<, Nat)
<1>1. SUFFICES ASSUME Nat \ A # {} PROVE FALSE
  OBVIOUS
<1>2. IsWellFoundedOn(R, Nat)
  BY NatLessThanWellFounded
<1>3. PICK m \in Nat \ A : \A y \in Nat \ A : ~ (<<y, m>> \in R)
  <2> HIDE DEF R
  <2>. QED  BY <1>1, <1>2, WFMin
<1>4. \A y \in Nat \ A : ~(y < m)
  BY <1>3 DEF OpToRel
<1>5. m # 0
  BY <1>3
<1>7. m - 1 \in Nat /\ m - 1 < m /\ (m - 1) + 1 = m
  BY <1>5
<1>6. m - 1 \in A
  BY <1>4, <1>7
<1>. QED  BY <1>6, <1>7

\* The element that the fold takes next.
Chosen(T) == CHOOSE x \in T : TRUE

\* What the fold MapThenSumSet computes over the subsets of S.
SumsUp(g, D, v) ==
    g = [T \in D |-> IF T = {} THEN 0 ELSE v[Chosen(T)] + g[T \ {Chosen(T)}]]

\* The fold ends, since the set becomes smaller.
LEMMA Smaller ==
    ASSUME NEW S, IsFiniteSet(S), NEW T \in SUBSET S, T # {}
    PROVE  /\ Chosen(T) \in T /\ T \ {Chosen(T)} \in SUBSET S
           /\ Cardinality(T) \in Nat /\ Cardinality(T \ {Chosen(T)}) \in Nat
           /\ Cardinality(T) = Cardinality(T \ {Chosen(T)}) + 1
<1>1. Chosen(T) \in T
  BY DEF Chosen
<1>2. IsFiniteSet(T) /\ IsFiniteSet(T \ {Chosen(T)})
  BY FS_Subset
<1>3. Cardinality(T \ {Chosen(T)}) = Cardinality(T) - 1
  BY <1>1, <1>2, FS_RemoveElement
<1>4. Cardinality(T) \in Nat /\ Cardinality(T \ {Chosen(T)}) \in Nat
  BY <1>2, FS_CardinalityType
<1>. QED  BY <1>1, <1>3, <1>4

UpTo(S, n) == {T \in SUBSET S : Cardinality(T) <= n}

\* There is a function as the fold defines it: level by level.
LEMMA SumsExist ==
    ASSUME NEW S, IsFiniteSet(S), NEW v
    PROVE  \E g : SumsUp(g, SUBSET S, v)
<1> DEFINE A == {n \in Nat : \E g : SumsUp(g, UpTo(S, n), v)}
<1>1. 0 \in A
  <2> DEFINE g == [T \in UpTo(S, 0) |-> 0]
  <2>1. \A T \in UpTo(S, 0) : T = {}
    <3> SUFFICES ASSUME NEW T \in UpTo(S, 0), T # {} PROVE FALSE
      OBVIOUS
    <3>1. T \in SUBSET S /\ Cardinality(T) <= 0
      BY DEF UpTo
    <3>2. /\ Cardinality(T \ {Chosen(T)}) \in Nat
          /\ Cardinality(T) = Cardinality(T \ {Chosen(T)}) + 1
      BY <3>1, Smaller
    <3>. QED  BY <3>1, <3>2
  <2>2. SumsUp(g, UpTo(S, 0), v)
    BY <2>1 DEF SumsUp
  <2>. QED  BY <2>2
<1>2. ASSUME NEW n \in A PROVE n + 1 \in A
  <2>1. n \in Nat /\ n + 1 \in Nat
    OBVIOUS
  <2>2. PICK g : SumsUp(g, UpTo(S, n), v)
    OBVIOUS
  <2> DEFINE h == [T \in UpTo(S, n + 1) |->
                     IF T = {} THEN 0 ELSE v[Chosen(T)] + g[T \ {Chosen(T)}]]
  <2>3. ASSUME NEW T \in UpTo(S, n) PROVE h[T] = g[T]
    <3>1. T \in UpTo(S, n + 1)
      <4>1. T \in SUBSET S /\ Cardinality(T) <= n /\ Cardinality(T) \in Nat
        BY FS_Subset, FS_CardinalityType DEF UpTo
      <4>. QED  BY <2>1, <4>1 DEF UpTo
    <3>. QED  BY <2>2, <3>1 DEF SumsUp
  <2>4. ASSUME NEW T \in UpTo(S, n + 1), T # {}
        PROVE  T \ {Chosen(T)} \in UpTo(S, n)
    <3>1. T \in SUBSET S /\ Cardinality(T) <= n + 1
      BY DEF UpTo
    <3>2. /\ T \ {Chosen(T)} \in SUBSET S
          /\ Cardinality(T \ {Chosen(T)}) \in Nat
          /\ Cardinality(T) = Cardinality(T \ {Chosen(T)}) + 1
      BY <2>4, <3>1, Smaller
    <3>. QED  BY <2>1, <3>1, <3>2 DEF UpTo
  <2>5. SumsUp(h, UpTo(S, n + 1), v)
    <3>1. \A T \in UpTo(S, n + 1) :
             h[T] = IF T = {} THEN 0 ELSE v[Chosen(T)] + h[T \ {Chosen(T)}]
      BY <2>3, <2>4
    <3> HIDE DEF h
    <3>2. h = [T \in UpTo(S, n + 1) |-> h[T]]
      BY DEF h
    <3>. QED  BY <3>1, <3>2 DEF SumsUp
  <2>. QED  BY <2>1, <2>5
<1>3. A = Nat
  <2>1. A \in SUBSET Nat
    OBVIOUS
  <2> HIDE DEF A
  <2>. QED  BY <1>1, <1>2, <2>1, SetInduction
<1>4. Cardinality(S) \in Nat /\ UpTo(S, Cardinality(S)) = SUBSET S
  BY FS_CardinalityType, FS_Subset DEF UpTo
<1>5. PICK g : SumsUp(g, UpTo(S, Cardinality(S)), v)
  BY <1>3, <1>4
<1>. QED  BY <1>4, <1>5

\* Its values are sums of natural numbers.
LEMMA SumsAreNat ==
    ASSUME NEW S, IsFiniteSet(S), NEW v, \A x \in S : v[x] \in Nat,
           NEW g, SumsUp(g, SUBSET S, v)
    PROVE  g[S] \in Nat
<1> DEFINE A == {n \in Nat : \A T \in UpTo(S, n) : g[T] \in Nat}
<1>0. \A T \in SUBSET S : g[T] = IF T = {} THEN 0 ELSE v[Chosen(T)] + g[T \ {Chosen(T)}]
  BY DEF SumsUp
<1>1. 0 \in A
  <2>1. \A T \in UpTo(S, 0) : T = {}
    <3> SUFFICES ASSUME NEW T \in UpTo(S, 0), T # {} PROVE FALSE
      OBVIOUS
    <3>1. T \in SUBSET S /\ Cardinality(T) <= 0
      BY DEF UpTo
    <3>2. /\ Cardinality(T \ {Chosen(T)}) \in Nat
          /\ Cardinality(T) = Cardinality(T \ {Chosen(T)}) + 1
      BY <3>1, Smaller
    <3>. QED  BY <3>1, <3>2
  <2>2. \A T \in UpTo(S, 0) : g[T] \in Nat
    <3>1. \A T \in SUBSET S : T = {} => g[T] = 0
      BY <1>0
    <3>. QED  BY <2>1, <3>1 DEF UpTo
  <2>. QED  BY <2>2
<1>2. ASSUME NEW n \in A PROVE n + 1 \in A
  <2>1. n \in Nat /\ n + 1 \in Nat /\ \A T \in UpTo(S, n) : g[T] \in Nat
    OBVIOUS
  <2>2. ASSUME NEW T \in UpTo(S, n + 1) PROVE g[T] \in Nat
    <3>1. T \in SUBSET S /\ Cardinality(T) <= n + 1
      BY DEF UpTo
    <3>2. CASE T = {}
      BY <1>0, <3>1, <3>2
    <3>3. CASE T # {}
      <4>1. /\ Chosen(T) \in T /\ T \ {Chosen(T)} \in SUBSET S
            /\ Cardinality(T \ {Chosen(T)}) \in Nat
            /\ Cardinality(T) = Cardinality(T \ {Chosen(T)}) + 1
        BY <3>1, <3>3, Smaller
      <4>2. T \ {Chosen(T)} \in UpTo(S, n)
        BY <2>1, <3>1, <4>1 DEF UpTo
      <4>3. g[T \ {Chosen(T)}] \in Nat /\ v[Chosen(T)] \in Nat
        BY <2>1, <3>1, <4>1, <4>2
      <4>4. g[T] = v[Chosen(T)] + g[T \ {Chosen(T)}]
        BY <1>0, <3>1, <3>3
      <4>. QED  BY <4>3, <4>4
    <3>. QED  BY <3>2, <3>3
  <2>. QED  BY <2>1, <2>2
<1>3. A = Nat
  <2>1. A \in SUBSET Nat
    OBVIOUS
  <2> HIDE DEF A
  <2>. QED  BY <1>1, <1>2, <2>1, SetInduction
<1>4. Cardinality(S) \in Nat /\ S \in UpTo(S, Cardinality(S))
  BY FS_CardinalityType DEF UpTo
<1>. QED  BY <1>3, <1>4

\* What CreateSubsectionGrade and CourseGradeFactory add up.
LEMMA SumsOfGrades ==
    ASSUME score \in [Problems -> Scores]
    PROVE  /\ \A s \in Sections : Sum(s) \in Nat
           /\ \A earned \in [Sections -> Nat] : Total(earned) \in Nat
<1>1. ASSUME NEW s \in Sections PROVE Sum(s) \in Nat
  <2> DEFINE S == ProblemsOf(s)
  <2>1. S \subseteq Problems /\ IsFiniteSet(S)
    BY GradesAssumption, FS_Subset DEF ProblemsOf
  <2>2. PICK v : v = [p \in S |-> score[p].value]
    OBVIOUS
  <2>3. \A p \in S : v[p] = score[p].value /\ v[p] \in Nat
    BY <2>1, <2>2 DEF Scores
  <2>4. PICK g : SumsUp(g, SUBSET S, v)
    BY <2>1, SumsExist
  <2>5. g = [T \in SUBSET S |-> IF T = {} THEN 0
                               ELSE score[Chosen(T)].value + g[T \ {Chosen(T)}]]
    <3>1. \A T \in SUBSET S : T # {} => Chosen(T) \in S
      BY DEF Chosen
    <3> HIDE DEF S
    <3>. QED  BY <2>3, <2>4, <3>1 DEF SumsUp
  <2>6. PICK h : h = CHOOSE f : f = [T \in SUBSET S |->
                           IF T = {} THEN 0 ELSE score[Chosen(T)].value + f[T \ {Chosen(T)}]]
    OBVIOUS
  <2>7. h = [T \in SUBSET S |-> IF T = {} THEN 0
                               ELSE score[Chosen(T)].value + h[T \ {Chosen(T)}]]
    <3> HIDE DEF S
    <3>. QED  BY <2>5, <2>6, Zenon
  <2>8. SumsUp(h, SUBSET S, v)
    <3>1. \A T \in SUBSET S : T # {} => Chosen(T) \in S
      BY DEF Chosen
    <3> HIDE DEF S
    <3>. QED  BY <2>3, <2>7, <3>1 DEF SumsUp
  <2>9. h[S] \in Nat
    BY <2>1, <2>3, <2>8, SumsAreNat
  <2>10. Sum(s) = h[S]
    BY <2>6, Zenon DEF Sum, MapThenSumSet, MapThenFoldSet, Chosen
  <2>. QED  BY <2>9, <2>10
<1>2. ASSUME NEW earned \in [Sections -> Nat] PROVE Total(earned) \in Nat
  <2>1. IsFiniteSet(Sections) /\ \A s \in Sections : earned[s] \in Nat
    BY GradesAssumption
  <2>2. PICK g : g = CHOOSE h : SumsUp(h, SUBSET Sections, earned)
    OBVIOUS
  <2>3. SumsUp(g, SUBSET Sections, earned)
    BY <2>1, <2>2, SumsExist, Zenon
  <2>4. g[Sections] \in Nat
    BY <2>1, <2>3, SumsAreNat
  <2>5. Total(earned) = g[Sections]
    BY <2>2, Zenon DEF Total, MapThenSumSet, MapThenFoldSet, SumsUp, Chosen
  <2>. QED  BY <2>4, <2>5
<1>. QED  BY <1>1, <1>2

-----------------------------------------------------------------------------
(* Types                                                                   *)

\* A task is of a request that has sent it.
Begun == \A r \in Requests : task[r].pc # "none" => req[r].pc \in {"open", "done"}

TypeInv == TypeOK /\ Begun

LEMMA NoTaskType ==
    /\ NoTask \in Tasks
    /\ [NoTask EXCEPT !.pc = "done"] \in Tasks
    /\ \A n \in 0..MaxRetries : [NoTask EXCEPT !.pc = "queued", !.tries = n] \in Tasks
<1>1. PICK zeros : zeros = [s \in Sections |-> 0]
  OBVIOUS
<1>2. zeros \in [Sections -> Nat]
  BY <1>1
<1>3. 0 \in 0..MaxRetries
  BY GradesAssumption
<1>4. NoTask = [pc |-> "none", tries |-> 0, earned |-> zeros, attempted |-> {}, todo |-> {},
                at |-> Course, total |-> 0, behind |-> {}]
  BY <1>1 DEF NoTask
<1>5. NoTask \in Tasks
  BY <1>2, <1>3, <1>4 DEF Tasks, TaskStages
<1>6. \A t \in Tasks, n \in 0..MaxRetries :
         /\ [t EXCEPT !.pc = "done"] \in Tasks
         /\ [t EXCEPT !.pc = "queued", !.tries = n] \in Tasks
  BY DEF Tasks, TaskStages
<1>7. \A n \in 0..MaxRetries : [NoTask EXCEPT !.pc = "queued", !.tries = n] \in Tasks
  BY <1>5, <1>6, Zenon
<1>8. [NoTask EXCEPT !.pc = "done"] \in Tasks
  BY <1>5, <1>3, <1>6, Zenon
<1>. QED  BY <1>5, <1>7, <1>8

LEMMA Types ==
    ASSUME TypeInv
    PROVE  /\ grade \in [Sections -> GradeRows] /\ course \in CourseRows
           /\ task \in [Requests -> Tasks]
           /\ trouble \in 0..MaxTrouble /\ announced \in Nat /\ broken \in Nat
           /\ Trouble => trouble' \in 0..MaxTrouble
<1>1. trouble \in 0..MaxTrouble /\ MaxTrouble \in Nat
  BY GradesAssumption DEF TypeInv, TypeOK
<1>2. Trouble => trouble' \in 0..MaxTrouble
  BY <1>1 DEF Trouble
<1>. QED  BY <1>2 DEF TypeInv, TypeOK

LEMMA NextTry ==
    ASSUME TypeInv, NEW r \in Requests
    PROVE  Again(r) = Ended(r) \/ \E n \in 0..MaxRetries : Again(r) = Queued(r, n)
<1>1. task[r].tries \in 0..MaxRetries /\ MaxRetries \in Nat \ {0}
  BY GradesAssumption DEF TypeInv, TypeOK, Tasks
<1>2. Retries(Kind(r)) \in 0..MaxRetries
  BY <1>1 DEF Retries
<1>3. task[r].tries < Retries(Kind(r)) => task[r].tries + 1 \in 0..MaxRetries
  BY <1>1, <1>2
<1>. QED  BY <1>3 DEF Again

\* What a task becomes when it goes to the queue or ends.
LEMMA Put ==
    ASSUME task \in [Requests -> Tasks], NEW r \in Requests
    PROVE  /\ Ended(r) \in [Requests -> Tasks]
           /\ \A n \in 0..MaxRetries : Queued(r, n) \in [Requests -> Tasks]
           /\ \A n : \A q \in Requests \ {r} :
                 Ended(r)[q] = task[q] /\ Queued(r, n)[q] = task[q]
BY NoTaskType DEF Ended, Queued

LEMMA FinishedType ==
    ASSUME TypeInv, NEW r \in Requests, NEW t \in Tasks,
           NEW row \in Sections \cup {Course}, task' = Finished(r, row, t)
    PROVE  /\ task' \in [Requests -> Tasks]
           /\ task'[r] = t
           /\ \A q \in Requests \ {r} : task'[q].pc = task[q].pc
           /\ \A q \in Requests \ {r} :
                 /\ task'[q].todo = task[q].todo
                 /\ task'[q].at = task[q].at /\ task'[q].earned = task[q].earned
                 /\ task[q].behind \subseteq task'[q].behind
                 /\ Running(q) /\ row \in ToWrite(q) => row \in task'[q].behind
<1>1. task \in [Requests -> Tasks]
  BY Types
<1>2. ASSUME NEW q \in Requests
      PROVE  [task[q] EXCEPT !.behind = @ \cup {row}] \in Tasks
  <2>1. task[q] \in Tasks
    BY <1>1
  <2>2. task[q].behind \cup {row} \in SUBSET (Sections \cup {Course})
    BY <2>1 DEF Tasks
  <2>. QED  BY <2>1, <2>2 DEF Tasks
<1>3. task' \in [Requests -> Tasks] /\ task'[r] = t
  BY <1>1, <1>2 DEF Finished
<1>4. ASSUME NEW q \in Requests \ {r}
      PROVE  \/ task'[q] = task[q] /\ ~(Running(q) /\ row \in ToWrite(q))
             \/ task'[q] = [task[q] EXCEPT !.behind = @ \cup {row}]
  BY DEF Finished
<1>5. ASSUME NEW q \in Requests \ {r}
      PROVE  /\ task'[q].pc = task[q].pc /\ task'[q].todo = task[q].todo
             /\ task'[q].at = task[q].at /\ task'[q].earned = task[q].earned
             /\ task[q].behind \subseteq task'[q].behind
             /\ Running(q) /\ row \in ToWrite(q) => row \in task'[q].behind
  <2>1. task[q] \in Tasks
    BY <1>1
  <2>2. CASE task'[q] = task[q] /\ ~(Running(q) /\ row \in ToWrite(q))
    BY <2>2
  <2>3. CASE task'[q] = [task[q] EXCEPT !.behind = @ \cup {row}]
    <3> HIDE DEF Running, ToWrite
    <3>. QED  BY <2>1, <2>3 DEF Tasks
  <2>. QED  BY <1>4, <2>2, <2>3
<1>. QED  BY <1>3, <1>5

LEMMA ThroughType ==
    ASSUME NEW t \in Tasks, NEW s \in Sections
    PROVE  /\ Through(t, s) \in Tasks
           /\ Through(t, s).pc = IF t.todo = {s} THEN "total" ELSE "save"
BY DEF Through, Tasks, TaskStages

LEMMA TypeInit == Init => TypeInv
<1> SUFFICES ASSUME Init PROVE TypeInv
  OBVIOUS
<1>1. NoScore \in Scores /\ NoGrade \in GradeRows /\ NoCourse \in CourseRows
  BY DEF NoScore, Scores, NoGrade, GradeRows, NoCourse, CourseRows
<1>2. MaxTrouble \in 0..MaxTrouble
  BY GradesAssumption
<1>3. TypeOK
  BY <1>1, <1>2, NoTaskType DEF Init, TypeOK
<1>. QED  BY <1>3 DEF Init, TypeInv, Begun, NoTask

\* The steps of a request change its record and queue its task.
LEMMA AskTypes ==
    ASSUME TypeInv, NEW r \in Requests, NEW w \in Wishes[r], Ask(r, w)
    PROVE  TypeInv'
<1>1. w \in Asked
  BY GradesAssumption
<1>2. [pc |-> "set", what |-> w, seen |-> score[w.problem], at |-> 0] \in Reqs
  BY <1>1 DEF TypeInv, TypeOK, Reqs, Asked
<1>3. req' = [req EXCEPT ![r] = [pc |-> "set", what |-> w, seen |-> score[w.problem], at |-> 0]]
  BY DEF Ask
<1>4. req[r].pc = "new" /\ UNCHANGED <<score, grade, course, task, clock, trouble, announced, broken, accidents>>
  BY DEF Ask, Unsent, sent
<1>. QED  BY <1>2, <1>3, <1>4 DEF TypeInv, TypeOK, Begun

LEMMA RegradeTypes ==
    ASSUME TypeInv, NEW r \in Requests, NEW w \in Wishes[r], Regrade(r, w)
    PROVE  TypeInv'
<1>1. w \in Asked
  BY GradesAssumption
<1>2. PICK q : q = [pc |-> "done", what |-> w, seen |-> NoScore, at |-> 0]
  OBVIOUS
<1>3. q \in Reqs /\ q.pc = "done"
  BY <1>1, <1>2 DEF Reqs, NoScore, Scores
<1>4. /\ req' = [req EXCEPT ![r] = q] /\ task' = Queued(r, 0)
      /\ UNCHANGED <<score, grade, course, clock, trouble, announced, broken, accidents>>
  BY <1>2 DEF Regrade, sent
<1>5. 0 \in 0..MaxRetries
  BY GradesAssumption
<1>. QED  BY <1>3, <1>4, <1>5, Put DEF TypeInv, TypeOK, Begun

LEMMA ReqType ==
    ASSUME TypeInv, NEW r \in Requests, req[r].pc # "new"
    PROVE  /\ req[r] \in Reqs /\ req[r].what \in Asked
           /\ Problem(r) \in Problems
           /\ req[r].what.value \in Nat
           /\ req[r].seen \in Scores /\ req[r].at \in Nat
<1>1. req[r] \in Reqs
  BY DEF TypeInv, TypeOK, Unsent
<1>. QED  BY <1>1 DEF Reqs, Asked, Problem

LEMMA SetTypes ==
    ASSUME TypeInv, NEW r \in Requests, Set(r)
    PROVE  TypeInv'
<1>1. req[r] \in Reqs
  BY ReqType DEF Set
<1>2. PICK q : q = [req[r] EXCEPT !.pc = "open", !.seen = NoScore, !.at = clock + 1]
  OBVIOUS
<1>3. clock + 1 \in Nat
  BY DEF TypeInv, TypeOK
<1>4. q \in Reqs /\ q.pc = "open"
  BY <1>1, <1>2, <1>3 DEF Reqs, NoScore, Scores
<1>5. req' = [req EXCEPT ![r] = q]
  BY <1>2 DEF Set, TypeInv, TypeOK
<1>6. /\ task' = Queued(r, 0) /\ clock' = clock + 1
      /\ UNCHANGED <<score, grade, course, trouble, announced, broken>>
      /\ accidents' \subseteq accidents \cup {"raced"}
  BY DEF Set, Accident, sent
<1>7. 0 \in 0..MaxRetries
  BY GradesAssumption
<1>. QED  BY <1>3, <1>4, <1>5, <1>6, <1>7, Put DEF TypeInv, TypeOK, Begun, AccidentKinds

LEMMA CommitTypes ==
    ASSUME TypeInv, NEW r \in Requests, Commit(r) \/ Rollback(r)
    PROVE  TypeInv'
<1>1. req[r].pc = "open" /\ req[r] \in Reqs /\ req[r].what.value \in Nat /\ req[r].at \in Nat
  BY ReqType DEF Commit, Rollback
<1>2. [req[r] EXCEPT !.pc = "done"] \in Reqs /\ [req[r] EXCEPT !.pc = "done"].pc = "done"
  BY <1>1 DEF Reqs
<1>3. req' = [req EXCEPT ![r].pc = "done"] /\ task' = task
  BY DEF Commit, Rollback
<1>4. req' \in [Requests -> Reqs \cup {Unsent}] /\ Begun'
  BY <1>2, <1>3 DEF TypeInv, TypeOK, Begun
<1>5. score' \in [Problems -> Scores]
  BY <1>1 DEF Commit, Rollback, TypeInv, TypeOK, Scores, NoScore
<1>6. trouble' \in 0..MaxTrouble
  BY GradesAssumption DEF Commit, Rollback, Trouble, TypeInv, TypeOK
<1>7. UNCHANGED <<grade, course, clock, announced, broken, accidents>>
  BY DEF Commit, Rollback, sent
<1>. QED  BY <1>3, <1>4, <1>5, <1>6, <1>7 DEF TypeInv, TypeOK

\* The steps of a task change it, perhaps to one that is put back or has ended,
\* and leave the requests alone.
LEMMA TaskTypes ==
    ASSUME TypeInv, NEW r \in Requests, task[r].pc # "none",
           task' \in [Requests -> Tasks],
           \A q \in Requests \ {r} : task'[q].pc = task[q].pc,
           UNCHANGED <<score, req, clock>>,
           grade' \in [Sections -> GradeRows], course' \in CourseRows,
           trouble' \in 0..MaxTrouble, announced' \in Nat, broken' \in Nat,
           accidents' \subseteq accidents \cup AccidentKinds
    PROVE  TypeInv'
BY DEF TypeInv, TypeOK, Begun

LEMMA BackOrDone ==
    ASSUME TypeInv, NEW r \in Requests,
           \/ task' = Ended(r)
           \/ task' = Again(r)
    PROVE  /\ task' \in [Requests -> Tasks]
           /\ \A q \in Requests \ {r} : task'[q] = task[q]
BY NextTry, Put DEF TypeInv, TypeOK

LEMMA TroubleTypes ==
    ASSUME TypeInv, NEW r \in Requests, Fail(r) \/ Crash(r) \/ Refuse(r)
    PROVE  TypeInv'
<1>1. /\ task[r].pc # "none" /\ (task' = Ended(r) \/ task' = Again(r))
      /\ UNCHANGED <<score, req, clock, grade, course, announced>>
      /\ accidents' \subseteq accidents \cup AccidentKinds
  BY DEF Fail, Crash, Refuse, Accident, AccidentKinds, sent
<1>2. trouble' \in 0..MaxTrouble
  BY Types DEF Fail, Crash, Refuse
<1>3. broken' \in Nat
  <2>1. broken' \in {broken, broken + 1}
    BY DEF Fail, Crash, Refuse, Breaks, sent
  <2>. QED  BY <2>1, Types
<1>. QED  BY <1>1, <1>2, <1>3, BackOrDone, Types, TaskTypes

\* What a task is that has read the scores.
TakenUp(r) ==
    [task[r] EXCEPT
        !.pc = IF Kind(r) = "rescore" THEN "compare" ELSE "save",
        !.earned = [s \in Sections |-> Sum(s)],
        !.attempted = {s \in Sections : Attempted(s)},
        !.todo = IF Kind(r) \in Regrades THEN Sections ELSE {SectionOf[Problem(r)]}]

LEMMA TakenUpType ==
    ASSUME TypeInv, NEW r \in Requests, task[r].pc # "none"
    PROVE  TakenUp(r) \in Tasks
<1>1. task[r] \in Tasks
  BY DEF TypeInv, TypeOK
<1>2. PICK sums, seen, todo :
         /\ sums = [s \in Sections |-> Sum(s)]
         /\ seen = {s \in Sections : Attempted(s)}
         /\ todo = IF Kind(r) \in Regrades THEN Sections ELSE {SectionOf[Problem(r)]}
  OBVIOUS
<1>3. sums \in [Sections -> Nat]
  BY <1>2, SumsOfGrades DEF TypeInv, TypeOK
<1>4. seen \subseteq Sections
  BY <1>2
<1>5. todo \subseteq Sections
  <2>1. req[r].pc # "new"
    BY DEF TypeInv, Begun
  <2>. QED  BY <1>2, <2>1, ReqType, GradesAssumption
<1>6. PICK stage : stage = IF Kind(r) = "rescore" THEN "compare" ELSE "save"
  OBVIOUS
<1>7. stage \in TaskStages
  BY <1>6 DEF TaskStages
<1>8. TakenUp(r) = [task[r] EXCEPT !.pc = stage, !.earned = sums,
                                   !.attempted = seen, !.todo = todo]
  BY <1>2, <1>6 DEF TakenUp
<1>. QED  BY <1>1, <1>3, <1>4, <1>5, <1>7, <1>8 DEF Tasks

LEMMA TakeTypes ==
    ASSUME TypeInv, NEW r \in Requests, Take(r)
    PROVE  TypeInv'
<1>1. /\ task[r].pc = "queued"
      /\ UNCHANGED <<score, grade, course, req, clock, trouble, announced, broken>>
      /\ accidents' \subseteq accidents \cup AccidentKinds
  BY DEF Take, Accident, AccidentKinds, sent
<1>2. \/ task' = [task EXCEPT ![r] = TakenUp(r)]
      \/ task' = Ended(r)
      \/ task' = Again(r)
  BY DEF Take, TakenUp
<1>3. /\ task' \in [Requests -> Tasks]
      /\ \A q \in Requests \ {r} : task'[q] = task[q]
  <2>1. CASE task' = [task EXCEPT ![r] = TakenUp(r)]
    BY <1>1, <2>1, TakenUpType DEF TypeInv, TypeOK
  <2>. QED  BY <1>2, <2>1, BackOrDone
<1>. QED  BY <1>1, <1>3, Types, TaskTypes

\* What becomes of a task that goes on with a subsection.
LEMMA SectionStages ==
    ASSUME NEW t \in Tasks, NEW s \in Sections
    PROVE  /\ [t EXCEPT !.pc = "save"] \in Tasks
           /\ [t EXCEPT !.pc = "first", !.at = s] \in Tasks
           /\ [t EXCEPT !.pc = "announce"] \in Tasks
           /\ [t EXCEPT !.pc = "passed"] \in Tasks
BY DEF Tasks, TaskStages

LEMMA SectionTypes ==
    ASSUME TypeInv, NEW r \in Requests, NEW s \in Sections, Compare(r, s) \/ Save(r, s)
    PROVE  TypeInv'
<1>1. /\ task[r].pc # "none"
      /\ UNCHANGED <<score, req, clock, course, trouble, announced, broken>>
      /\ accidents' \subseteq accidents \cup AccidentKinds
  BY DEF Compare, Save, Accident, AccidentKinds, sent
<1>2. \/ task' = Finished(r, s, Through(task[r], s))
      \/ task' = [task EXCEPT ![r].pc = "save"]
      \/ task' = Finished(r, s, [task[r] EXCEPT !.pc = "first", !.at = s])
  BY DEF Compare, Save
<1>3. task[r] \in Tasks /\ task \in [Requests -> Tasks]
  BY DEF TypeInv, TypeOK
<1>4. /\ task' \in [Requests -> Tasks]
      /\ \A q \in Requests \ {r} : task'[q].pc = task[q].pc
  <2>1. CASE task' = Finished(r, s, Through(task[r], s))
    <3>1. PICK t \in Tasks : t = Through(task[r], s)
      BY <1>3, ThroughType
    <3>. QED  BY <2>1, <3>1, FinishedType
  <2>2. CASE task' = [task EXCEPT ![r].pc = "save"]
    <3>1. PICK t \in Tasks : t = [task[r] EXCEPT !.pc = "save"]
      BY <1>3, SectionStages
    <3>2. task' = [task EXCEPT ![r] = t]
      BY <2>2, <3>1
    <3>. QED  BY <1>3, <3>2
  <2>3. CASE task' = Finished(r, s, [task[r] EXCEPT !.pc = "first", !.at = s])
    <3>1. PICK t \in Tasks : t = [task[r] EXCEPT !.pc = "first", !.at = s]
      BY <1>3, SectionStages
    <3>. QED  BY <2>3, <3>1, FinishedType
  <2>. QED  BY <1>2, <2>1, <2>2, <2>3
<1>5. grade' \in [Sections -> GradeRows]
  <2>1. \/ grade' = grade
        \/ grade' = [grade EXCEPT ![s].exists = TRUE, ![s].earned = task[r].earned[s]]
    BY DEF Compare, Save
  <2>2. task[r].earned[s] \in Nat
    BY <1>3 DEF Tasks
  <2>3. grade \in [Sections -> GradeRows]
    BY DEF TypeInv, TypeOK
  <2>. QED  BY <2>1, <2>2, <2>3 DEF GradeRows
<1>. QED  BY <1>1, <1>4, <1>5, Types, TaskTypes

LEMMA FirstTypes ==
    ASSUME TypeInv, NEW r \in Requests, First(r), task[r].at \in Sections
    PROVE  TypeInv'
<1>1. PICK s \in Sections : s = task[r].at
  OBVIOUS
<1>2. /\ task[r].pc # "none"
      /\ UNCHANGED <<score, req, clock, course, trouble, announced, broken>>
      /\ accidents' \subseteq accidents \cup AccidentKinds
      /\ task' = Finished(r, s, Through(task[r], s))
      /\ grade' = [grade EXCEPT ![s] = [exists |-> TRUE, earned |-> task[r].earned[s],
                                        first |-> TRUE]]
  BY <1>1 DEF First, Accident, AccidentKinds, sent
<1>3. task[r] \in Tasks /\ task \in [Requests -> Tasks]
  BY DEF TypeInv, TypeOK
<1>4. /\ task' \in [Requests -> Tasks]
      /\ \A q \in Requests \ {r} : task'[q].pc = task[q].pc
  <2>1. PICK t \in Tasks : t = Through(task[r], s)
    BY <1>3, ThroughType
  <2>. QED  BY <1>2, <2>1, FinishedType
<1>5. grade' \in [Sections -> GradeRows]
  <2>1. task[r].earned[s] \in Nat
    BY <1>3 DEF Tasks
  <2>2. [exists |-> TRUE, earned |-> task[r].earned[s], first |-> TRUE] \in GradeRows
    BY <2>1 DEF GradeRows
  <2>. QED  BY <1>2, <2>2 DEF TypeInv, TypeOK
<1>. QED  BY <1>2, <1>4, <1>5, Types, TaskTypes

LEMMA AddUpTypes ==
    ASSUME TypeInv, NEW r \in Requests, AddUp(r)
    PROVE  TypeInv'
<1>1. PICK earned : /\ earned = IF Kind(r) \in Regrades THEN task[r].earned
                                ELSE [s \in Sections |-> grade[s].earned]
  OBVIOUS
<1>2. /\ task[r].pc = "total"
      /\ task' = [task EXCEPT ![r].pc = "course", ![r].total = Total(earned),
                              ![r].earned = NoTask.earned]
      /\ UNCHANGED <<score, grade, course, req, clock, trouble, announced, broken, accidents>>
  BY <1>1 DEF AddUp, sent
<1>3. task[r] \in Tasks /\ task \in [Requests -> Tasks]
  BY DEF TypeInv, TypeOK
<1>4. earned \in [Sections -> Nat]
  BY <1>1, <1>3 DEF Tasks, TypeInv, TypeOK, GradeRows
<1>5. Total(earned) \in Nat
  BY <1>4, SumsOfGrades DEF TypeInv, TypeOK
<1>6. NoTask.earned \in [Sections -> Nat]
  BY NoTaskType DEF Tasks
<1>7. PICK n \in Nat, zeros \in [Sections -> Nat] : n = Total(earned) /\ zeros = NoTask.earned
  BY <1>5, <1>6
<1>8. [task[r] EXCEPT !.pc = "course", !.total = n, !.earned = zeros] \in Tasks
  BY <1>3 DEF Tasks, TaskStages
<1>9. PICK t \in Tasks : t = [task[r] EXCEPT !.pc = "course", !.total = n, !.earned = zeros]
  BY <1>8
<1>10. task' = [task EXCEPT ![r] = t]
  BY <1>2, <1>3, <1>7, <1>9
<1>11. /\ task' \in [Requests -> Tasks]
       /\ \A q \in Requests \ {r} : task'[q].pc = task[q].pc
  BY <1>3, <1>10
<1>. QED  BY <1>2, <1>11, Types, TaskTypes

LEMMA CourseTypes ==
    ASSUME TypeInv, NEW r \in Requests, CourseWrite(r) \/ Passed(r)
    PROVE  TypeInv'
<1>1. /\ task[r].pc # "none"
      /\ UNCHANGED <<score, grade, req, clock, trouble, announced, broken>>
      /\ accidents' \subseteq accidents \cup AccidentKinds
  BY DEF CourseWrite, Passed, Accident, AccidentKinds, sent
<1>2. task[r] \in Tasks /\ task \in [Requests -> Tasks] /\ task[r].total \in Nat
  BY DEF TypeInv, TypeOK, Tasks
<1>3. \/ task' = Finished(r, Course, [task[r] EXCEPT !.pc = "announce"])
      \/ task' = Finished(r, Course, [NoTask EXCEPT !.pc = "done"])
  BY DEF CourseWrite, Passed
<1>4. /\ task' \in [Requests -> Tasks]
      /\ \A q \in Requests \ {r} : task'[q].pc = task[q].pc
  <2>1. [task[r] EXCEPT !.pc = "announce"] \in Tasks
    BY <1>2, SectionStages, GradesAssumption DEF Tasks, TaskStages
  <2>2. PICK t \in Tasks : task' = Finished(r, Course, t)
    BY <1>3, <2>1, NoTaskType
  <2>. QED  BY <2>2, FinishedType
<1>5. course' \in CourseRows
  <2>1. \/ course' = [course EXCEPT !.exists = TRUE, !.percent = task[r].total]
        \/ course' = [exists |-> TRUE, percent |-> task[r].total, passed |-> TRUE]
    BY DEF CourseWrite, Passed
  <2>2. course \in CourseRows
    BY DEF TypeInv, TypeOK
  <2>3. PICK n \in Nat : n = task[r].total
    BY <1>2
  <2>4. CASE course' = [course EXCEPT !.exists = TRUE, !.percent = task[r].total]
    BY <2>2, <2>3, <2>4 DEF CourseRows
  <2>5. CASE course' = [exists |-> TRUE, percent |-> task[r].total, passed |-> TRUE]
    BY <2>3, <2>5 DEF CourseRows
  <2>. QED  BY <2>1, <2>4, <2>5
<1>. QED  BY <1>1, <1>4, <1>5, Types, TaskTypes

LEMMA AnnounceTypes ==
    ASSUME TypeInv, NEW r \in Requests, Announce(r)
    PROVE  /\ TypeInv'
           /\ task[r].pc = "announce" /\ task'[r].pc = "passed"
           /\ task'[r].behind = task[r].behind
           /\ \A q \in Requests \ {r} : task'[q] = task[q]
<1>1. task[r] \in Tasks /\ task \in [Requests -> Tasks]
  BY DEF TypeInv, TypeOK
<1>2. PICK t : t = [task[r] EXCEPT !.pc = "passed"]
  OBVIOUS
<1>3. t \in Tasks /\ t.pc = "passed" /\ t.behind = task[r].behind
  BY <1>1, <1>2 DEF Tasks, TaskStages
<1>4. /\ task' = [task EXCEPT ![r] = t] /\ task[r].pc = "announce"
      /\ announced' = announced + 1
      /\ UNCHANGED <<score, grade, course, req, clock, trouble, broken, accidents>>
  BY <1>2 DEF Announce
<1>5. task' \in [Requests -> Tasks] /\ task'[r] = t /\ \A q \in Requests \ {r} : task'[q] = task[q]
  BY <1>1, <1>3, <1>4
<1>6. announced' \in Nat
  BY <1>4, Types
<1>. QED  BY <1>3, <1>4, <1>5, <1>6, Types, TaskTypes

-----------------------------------------------------------------------------
(* Rescores                                                                *)

\* A row that is not there counts nothing.
EmptyRows == \A s \in Sections : ~grade[s].exists => grade[s].earned = 0

\* A rescore works on the subsection of its problem alone; once it has compared,
\* its sum is not lower than the row, unless another task has been there since.
TaskOK(r) ==
    /\ task[r].pc = "compare" => Kind(r) = "rescore"
    /\ task[r].pc = "first" => task[r].at \in task[r].todo
    /\ task[r].pc \in {"compare", "save", "first"} /\ Kind(r) = "rescore" =>
          task[r].todo = {SectionOf[Problem(r)]}
    /\ task[r].pc \in {"save", "first"} /\ Kind(r) = "rescore" =>
          \A s \in task[r].todo \ task[r].behind : task[r].earned[s] >= grade[s].earned

\* The lock of a score keeps the requests that write it apart.
OneOpen ==
    \A q, r \in Requests :
        req[q].pc = "open" /\ req[r].pc = "open" /\ Problem(q) = Problem(r) => q = r

\* A rescore was not lower than the score it was compared with, and is not lower
\* than the one it replaces unless that one is another.
NotLower(r, found) == Stored(found) => req[r].what.value >= found.value
Asking ==
    \A r \in Requests : req[r].pc = "set" /\ Kind(r) = "rescore" => NotLower(r, req[r].seen)
Unraced ==
    "raced" \notin accidents =>
        \A r \in Requests :
            req[r].pc = "open" /\ Kind(r) = "rescore" => NotLower(r, score[Problem(r)])

TasksOK == EmptyRows /\ \A r \in Requests : TaskOK(r)
RequestsOK == OneOpen /\ Asking /\ Unraced

RescoreInv == TypeInv /\ TasksOK /\ RequestsOK

LEMMA RescoreInit == Init => RescoreInv
<1> SUFFICES ASSUME Init PROVE RescoreInv
  OBVIOUS
<1>1. TypeInv
  BY TypeInit
<1>2. TasksOK
  BY DEF Init, TasksOK, EmptyRows, TaskOK, NoGrade, NoTask
<1>3. RequestsOK
  BY DEF Init, RequestsOK, OneOpen, Asking, Unraced, Unsent
<1>. QED  BY <1>1, <1>2, <1>3 DEF RescoreInv

\* The requests and the scores stay as they are.
LEMMA RequestsStay ==
    ASSUME RequestsOK, UNCHANGED <<req, score>>, accidents \subseteq accidents'
    PROVE  RequestsOK'
BY DEF RequestsOK, OneOpen, Asking, Unraced, NotLower, Kind, Problem

\* A step of the task of r.
LEMMA TaskSteps ==
    ASSUME RescoreInv, TypeInv', NEW r \in Requests,
           \A q \in Requests \ {r} : task'[q].pc = task[q].pc,
           \A q \in Requests \ {r} :
               /\ task'[q].todo = task[q].todo
               /\ task'[q].at = task[q].at /\ task'[q].earned = task[q].earned
               /\ task[q].behind \subseteq task'[q].behind,
           \A q \in Requests \ {r} : task[q].pc \in {"save", "first"} =>
               \A s \in task[q].todo \ task'[q].behind : grade'[s].earned = grade[s].earned,
           UNCHANGED <<req, score>>, accidents \subseteq accidents',
           TaskOK(r)', EmptyRows'
    PROVE  RescoreInv'
<1>1. RequestsOK'
  BY RequestsStay DEF RescoreInv
<1>2. ASSUME NEW q \in Requests \ {r} PROVE TaskOK(q)'
  <2>1. TaskOK(q)
    BY DEF RescoreInv, TasksOK
  <2>. QED  BY <2>1 DEF TaskOK, Kind, Problem
<1>. QED  BY <1>1, <1>2 DEF RescoreInv, TasksOK

\* The task of r is put back, ends, or goes on to the row of the course.
LEMMA IdleSteps ==
    ASSUME RescoreInv, TypeInv', NEW r \in Requests,
           \A q \in Requests \ {r} : task'[q].pc = task[q].pc,
           \A q \in Requests \ {r} :
               /\ task'[q].todo = task[q].todo
               /\ task'[q].at = task[q].at /\ task'[q].earned = task[q].earned
               /\ task[q].behind \subseteq task'[q].behind,
           UNCHANGED <<req, score, grade>>, accidents \subseteq accidents',
           task'[r].pc \notin {"compare", "save", "first"}
    PROVE  RescoreInv'
<1>1. TaskOK(r)'
  BY DEF TaskOK
<1>2. EmptyRows'
  BY DEF RescoreInv, TasksOK, EmptyRows
<1>. QED  BY <1>1, <1>2, TaskSteps

LEMMA TroubleRescores ==
    ASSUME RescoreInv, NEW r \in Requests, Fail(r) \/ Crash(r) \/ Refuse(r)
    PROVE  RescoreInv'
<1>1. TypeInv /\ TypeInv'
  BY TroubleTypes DEF RescoreInv
<1>2. /\ task' = Ended(r) \/ task' = Again(r)
      /\ UNCHANGED <<req, score, grade>> /\ accidents \subseteq accidents'
  BY DEF Fail, Crash, Refuse, Accident
<1>3. \A q \in Requests \ {r} : task'[q] = task[q]
  BY <1>1, <1>2, BackOrDone
<1>4. task'[r].pc \in {"queued", "done"}
  <2>1. task \in [Requests -> Tasks]
    BY <1>1, Types
  <2>. QED  BY <1>2, <2>1 DEF Again, Ended, Queued, NoTask
<1>. QED  BY <1>1, <1>2, <1>3, <1>4, IdleSteps

LEMMA TakeRescores ==
    ASSUME RescoreInv, NEW r \in Requests, Take(r)
    PROVE  RescoreInv'
<1>1. TypeInv /\ TypeInv'
  BY TakeTypes DEF RescoreInv
<1>2. /\ task[r].pc = "queued"
      /\ UNCHANGED <<req, score, grade>> /\ accidents \subseteq accidents'
  BY DEF Take, Accident
<1>3. \/ task' = [task EXCEPT ![r] = TakenUp(r)]
      \/ task' = Ended(r) \/ task' = Again(r)
  BY DEF Take, TakenUp
<1>4. CASE task' = [task EXCEPT ![r] = TakenUp(r)]
  <2>1. task \in [Requests -> Tasks]
    BY <1>1, Types
  <2>2. task'[r] = TakenUp(r) /\ \A q \in Requests \ {r} : task'[q] = task[q]
    BY <1>4, <2>1
  <2>3. /\ TakenUp(r).pc = IF Kind(r) = "rescore" THEN "compare" ELSE "save"
        /\ Kind(r) = "rescore" => TakenUp(r).todo = {SectionOf[Problem(r)]}
    <3>1. task[r] \in Tasks
      BY <2>1
    <3>. QED  BY <3>1 DEF TakenUp, Tasks, Regrades
  <2>4. TaskOK(r)'
    BY <1>2, <2>2, <2>3 DEF TaskOK, Kind, Problem
  <2>5. EmptyRows'
    BY <1>2 DEF RescoreInv, TasksOK, EmptyRows
  <2>. QED  BY <1>1, <1>2, <2>2, <2>4, <2>5, TaskSteps
<1>5. CASE task' = Ended(r) \/ task' = Again(r)
  <2>1. \A q \in Requests \ {r} : task'[q] = task[q]
    BY <1>1, <1>5, BackOrDone
  <2>2. task'[r].pc \in {"queued", "done"}
    <3>1. task \in [Requests -> Tasks]
      BY <1>1, Types
    <3>. QED  BY <1>5, <3>1 DEF Again, Ended, Queued, NoTask
  <2>. QED  BY <1>1, <1>2, <2>1, <2>2, IdleSteps
<1>. QED  BY <1>3, <1>4, <1>5

LEMMA AddUpRescores ==
    ASSUME RescoreInv, NEW r \in Requests, AddUp(r)
    PROVE  RescoreInv'
<1>1. TypeInv /\ TypeInv'
  BY AddUpTypes DEF RescoreInv
<1>2. task \in [Requests -> Tasks]
  BY <1>1, Types
<1>3. /\ UNCHANGED <<req, score, grade, accidents>>
      /\ \E n, z : task' = [task EXCEPT ![r].pc = "course", ![r].total = n, ![r].earned = z]
  BY DEF AddUp
<1>4. PICK n, z : task' = [task EXCEPT ![r].pc = "course", ![r].total = n, ![r].earned = z]
  BY <1>3
<1>5. task'[r].pc = "course" /\ \A q \in Requests \ {r} : task'[q] = task[q]
  BY <1>2, <1>4 DEF Tasks
<1>. QED  BY <1>1, <1>3, <1>5, IdleSteps

LEMMA CourseRescores ==
    ASSUME RescoreInv, NEW r \in Requests, CourseWrite(r) \/ Passed(r)
    PROVE  RescoreInv'
<1>1. TypeInv /\ TypeInv'
  BY CourseTypes DEF RescoreInv
<1>2. UNCHANGED <<req, score, grade>> /\ accidents \subseteq accidents'
  BY DEF CourseWrite, Passed, Accident
<1>3. task[r] \in Tasks
  BY <1>1, Types
<1>4. \/ task' = Finished(r, Course, [task[r] EXCEPT !.pc = "announce"])
      \/ task' = Finished(r, Course, [NoTask EXCEPT !.pc = "done"])
  BY DEF CourseWrite, Passed
<1>5. /\ [task[r] EXCEPT !.pc = "announce"] \in Tasks
      /\ [task[r] EXCEPT !.pc = "announce"].pc = "announce"
  BY <1>3 DEF Tasks, TaskStages
<1>6. /\ [NoTask EXCEPT !.pc = "done"] \in Tasks
      /\ [NoTask EXCEPT !.pc = "done"].pc = "done"
  BY NoTaskType DEF Tasks
<1>7. PICK t \in Tasks : task' = Finished(r, Course, t) /\ t.pc \in {"announce", "done"}
  BY <1>4, <1>5, <1>6
<1>. QED  BY <1>1, <1>2, <1>7, FinishedType, IdleSteps

LEMMA AnnounceRescores ==
    ASSUME RescoreInv, NEW r \in Requests, Announce(r)
    PROVE  RescoreInv'
<1>1. TypeInv /\ TypeInv'
  BY AnnounceTypes DEF RescoreInv
<1>2. UNCHANGED <<req, score, grade, accidents>>
  BY DEF Announce
<1>3. task'[r].pc = "passed" /\ \A q \in Requests \ {r} : task'[q] = task[q]
  BY <1>1, AnnounceTypes
<1>. QED  BY <1>1, <1>2, <1>3, IdleSteps

LEMMA CompareRescores ==
    ASSUME RescoreInv, NEW r \in Requests, NEW s \in Sections, Compare(r, s)
    PROVE  RescoreInv'
<1>1. TypeInv /\ TypeInv' /\ TaskOK(r) /\ EmptyRows
  BY SectionTypes DEF RescoreInv, TasksOK
<1>2. /\ task[r].pc = "compare" /\ s \in task[r].todo
      /\ UNCHANGED <<req, score, grade, accidents>>
  BY DEF Compare
<1>3. task \in [Requests -> Tasks] /\ grade \in [Sections -> GradeRows]
  BY <1>1, Types
<1>4. Kind(r) = "rescore" /\ task[r].todo = {s}
  BY <1>1, <1>2 DEF TaskOK
<1>5. CASE grade[s].exists /\ ~HigherOrEqual(grade[s].earned, task[r].earned[s])
  <2>1. PICK t \in Tasks : t = Through(task[r], s) /\ t.pc = "total"
    BY <1>3, <1>4, ThroughType
  <2>2. task' = Finished(r, s, t)
    BY <1>5, <2>1 DEF Compare
  <2>3. /\ task'[r] = t
        /\ \A q \in Requests \ {r} : task'[q].pc = task[q].pc
        /\ \A q \in Requests \ {r} :
              /\ task'[q].todo = task[q].todo
              /\ task'[q].at = task[q].at /\ task'[q].earned = task[q].earned
              /\ task[q].behind \subseteq task'[q].behind
    BY <1>1, <2>2, FinishedType
  <2>4. task'[r].pc \notin {"compare", "save", "first"}
    BY <2>1, <2>3
  <2>. QED  BY <1>1, <1>2, <2>3, <2>4, IdleSteps
<1>6. CASE grade[s].exists => HigherOrEqual(grade[s].earned, task[r].earned[s])
  <2>1. task' = [task EXCEPT ![r].pc = "save"]
    BY <1>6 DEF Compare
  <2>2. /\ task'[r].pc = "save" /\ task'[r].todo = {s} /\ task'[r].behind = task[r].behind
        /\ task'[r].earned = task[r].earned
        /\ \A q \in Requests \ {r} : task'[q] = task[q]
    <3>1. task[r] \in Tasks
      BY <1>3
    <3>. QED  BY <1>3, <1>4, <2>1, <3>1 DEF Tasks
  <2>3. task[r].earned[s] >= grade[s].earned
    <3>1. task[r].earned[s] \in Nat /\ grade[s].earned \in Nat
      BY <1>3 DEF Tasks, GradeRows
    <3>. QED  BY <1>1, <1>6, <3>1 DEF EmptyRows, HigherOrEqual
  <2>4. TaskOK(r)'
    BY <1>1, <1>2, <1>4, <2>2, <2>3 DEF TaskOK, Kind, Problem
  <2>5. EmptyRows'
    BY <1>1, <1>2 DEF EmptyRows
  <2>. QED  BY <1>1, <1>2, <2>2, <2>4, <2>5, TaskSteps
<1>. QED  BY <1>5, <1>6

\* A task that writes the row of s leaves the others behind that are to.
LEMMA OthersFallBehind ==
    ASSUME TypeInv, NEW r \in Requests, NEW s \in Sections, NEW t \in Tasks,
           task' = Finished(r, s, t),
           \A x \in Sections \ {s} : grade'[x].earned = grade[x].earned
    PROVE  \A q \in Requests \ {r} : task[q].pc \in {"save", "first"} =>
               \A x \in task[q].todo \ task'[q].behind : grade'[x].earned = grade[x].earned
<1> SUFFICES ASSUME NEW q \in Requests \ {r}, task[q].pc \in {"save", "first"},
                    NEW x \in task[q].todo \ task'[q].behind
             PROVE  grade'[x].earned = grade[x].earned
  OBVIOUS
<1>1. Running(q) /\ x \in ToWrite(q)
  BY DEF Running, ToWrite
<1>2. x # s
  BY <1>1, FinishedType
<1>3. task[q] \in Tasks
  BY Types
<1>4. x \in Sections
  BY <1>3 DEF Tasks
<1>. QED  BY <1>2, <1>4

LEMMA SaveRescores ==
    ASSUME RescoreInv, NEW r \in Requests, NEW s \in Sections, Save(r, s)
    PROVE  RescoreInv'
<1>1. TypeInv /\ TypeInv' /\ TaskOK(r) /\ EmptyRows
  BY SectionTypes DEF RescoreInv, TasksOK
<1>2. /\ task[r].pc = "save" /\ s \in task[r].todo
      /\ UNCHANGED <<req, score>> /\ accidents \subseteq accidents'
  BY DEF Save, Accident
<1>3. task \in [Requests -> Tasks] /\ task[r] \in Tasks /\ grade \in [Sections -> GradeRows]
  BY <1>1, Types
<1>4. Kind(r) = "rescore" => task[r].todo = {s}
  BY <1>1, <1>2 DEF TaskOK
<1>5. /\ \A x \in Sections \ {s} : grade'[x] = grade[x]
      /\ grade'[s].exists => grade[s].exists \/ Persists(r, s)
      /\ Persists(r, s) => grade'[s].exists /\ grade'[s].earned = task[r].earned[s]
      /\ ~Persists(r, s) => grade' = grade
  <2>1. CASE Persists(r, s)
    <3>1. grade' = [grade EXCEPT ![s].exists = TRUE, ![s].earned = task[r].earned[s]]
      BY <2>1 DEF Save
    <3>. QED  BY <1>3, <2>1, <3>1 DEF GradeRows
  <2>2. CASE ~Persists(r, s)
    BY <2>2 DEF Save
  <2>. QED  BY <2>1, <2>2
<1>6. EmptyRows'
  BY <1>1, <1>5 DEF EmptyRows
<1>7. CASE s \in task[r].attempted /\ ~grade[s].first
  <2>1. PICK t \in Tasks : t = [task[r] EXCEPT !.pc = "first", !.at = s]
    BY <1>3, SectionStages
  <2>2. /\ t.pc = "first" /\ t.at = s /\ t.todo = task[r].todo
        /\ t.earned = task[r].earned /\ t.behind = task[r].behind
    BY <1>3, <2>1 DEF Tasks
  <2>3. task' = Finished(r, s, t)
    BY <1>7, <2>1 DEF Save
  <2>4. task'[r] = t
    BY <1>1, <2>3, FinishedType
  <2>5. grade'[s].earned = task[r].earned[s] /\ task[r].earned[s] \in Nat
    BY <1>3, <1>5, <1>7 DEF Persists, Tasks
  <2>6. TaskOK(r)'
    BY <1>1, <1>2, <1>4, <2>2, <2>4, <2>5 DEF TaskOK, Kind, Problem
  <2>. QED  BY <1>1, <1>2, <1>5, <1>6, <2>3, <2>6, FinishedType, OthersFallBehind, TaskSteps
<1>8. CASE ~(s \in task[r].attempted /\ ~grade[s].first)
  <2>1. PICK t \in Tasks : /\ t = Through(task[r], s)
                           /\ t.pc = IF task[r].todo = {s} THEN "total" ELSE "save"
    BY <1>3, ThroughType
  <2>2. task' = Finished(r, s, t)
    BY <1>8, <2>1 DEF Save
  <2>3. task'[r] = t
    BY <1>1, <2>2, FinishedType
  <2>4. TaskOK(r)'
    BY <1>2, <1>4, <2>1, <2>3 DEF TaskOK, Kind, Problem
  <2>. QED  BY <1>1, <1>2, <1>5, <1>6, <2>2, <2>4, FinishedType, OthersFallBehind, TaskSteps
<1>. QED  BY <1>7, <1>8

LEMMA FirstRescores ==
    ASSUME RescoreInv, NEW r \in Requests, First(r)
    PROVE  RescoreInv'
<1>1. TypeInv /\ TaskOK(r) /\ EmptyRows
  BY DEF RescoreInv, TasksOK
<1>2. task \in [Requests -> Tasks] /\ task[r] \in Tasks /\ grade \in [Sections -> GradeRows]
  BY <1>1, Types
<1>3. /\ task[r].pc = "first" /\ UNCHANGED <<req, score>> /\ accidents \subseteq accidents'
  BY DEF First, Accident
<1>4. PICK s \in Sections : s = task[r].at /\ s \in task[r].todo
  BY <1>1, <1>2, <1>3 DEF TaskOK, Tasks
<1>5. TypeInv'
  BY <1>1, <1>4, FirstTypes
<1>6. Kind(r) = "rescore" => task[r].todo = {s}
  BY <1>1, <1>3, <1>4 DEF TaskOK
<1>7. grade' = [grade EXCEPT ![s] = [exists |-> TRUE, earned |-> task[r].earned[s],
                                     first |-> TRUE]]
  BY <1>4 DEF First
<1>8. EmptyRows' /\ \A x \in Sections \ {s} : grade'[x].earned = grade[x].earned
  BY <1>1, <1>2, <1>7 DEF EmptyRows
<1>9. PICK t \in Tasks : /\ t = Through(task[r], s)
                         /\ t.pc = IF task[r].todo = {s} THEN "total" ELSE "save"
  BY <1>2, ThroughType
<1>10. task' = Finished(r, s, t)
  BY <1>4, <1>9 DEF First
<1>11. task'[r] = t
  BY <1>1, <1>10, FinishedType
<1>12. TaskOK(r)'
  BY <1>3, <1>6, <1>9, <1>11 DEF TaskOK, Kind, Problem
<1>. QED  BY <1>1, <1>3, <1>5, <1>8, <1>10, <1>12, FinishedType, OthersFallBehind, TaskSteps

\* A step of the request of r, whose task has not begun or stays as it is.
LEMMA RequestSteps ==
    ASSUME RescoreInv, TypeInv', NEW r \in Requests,
           \A q \in Requests \ {r} : req'[q] = req[q],
           \A q \in Requests \ {r} : task'[q] = task[q],
           \/ task'[r].pc \in {"none", "queued"}
           \/ task'[r] = task[r] /\ req'[r].what = req[r].what,
           UNCHANGED grade, RequestsOK'
    PROVE  RescoreInv'
<1>1. EmptyRows'
  BY DEF RescoreInv, TasksOK, EmptyRows
<1>2. ASSUME NEW q \in Requests PROVE TaskOK(q)'
  <2>1. TaskOK(q)
    BY DEF RescoreInv, TasksOK
  <2>2. CASE task'[q].pc \in {"none", "queued"}
    BY <2>2 DEF TaskOK
  <2>3. CASE task'[q] = task[q] /\ req'[q].what = req[q].what
    BY <2>1, <2>3 DEF TaskOK, Kind, Problem
  <2>. QED  BY <2>2, <2>3
<1>. QED  BY <1>1, <1>2 DEF RescoreInv, TasksOK

LEMMA AskRescores ==
    ASSUME RescoreInv, NEW r \in Requests, NEW w \in Wishes[r], Ask(r, w)
    PROVE  RescoreInv'
<1>1. TypeInv /\ TypeInv' /\ RequestsOK /\ w \in Asked
  BY AskTypes, GradesAssumption DEF RescoreInv
<1>2. PICK q : q = [pc |-> "set", what |-> w, seen |-> score[w.problem], at |-> 0]
  OBVIOUS
<1>3. /\ req' = [req EXCEPT ![r] = q] /\ req[r].pc = "new"
      /\ w.kind = "rescore" /\ Stored(score[w.problem]) => w.value >= score[w.problem].value
      /\ UNCHANGED <<score, grade, task, accidents>>
  BY <1>2 DEF Ask, Unsent, HigherOrEqual
<1>4. req'[r] = q /\ \A p \in Requests \ {r} : req'[p] = req[p]
  BY <1>3 DEF RescoreInv, TypeInv, TypeOK
<1>5. task[r].pc = "none"
  BY <1>1, <1>3 DEF TypeInv, Begun
<1>6. q.pc = "set" /\ q.what = w /\ q.seen = score[w.problem]
  BY <1>2
<1>7. RequestsOK'
  <2>1. OneOpen'
    BY <1>1, <1>4, <1>6 DEF RequestsOK, OneOpen, Problem
  <2>2. Asking'
    BY <1>1, <1>3, <1>4, <1>6 DEF RequestsOK, Asking, NotLower, Kind
  <2>3. Unraced'
    BY <1>1, <1>3, <1>4, <1>6 DEF RequestsOK, Unraced, NotLower, Kind, Problem
  <2>. QED  BY <2>1, <2>2, <2>3 DEF RequestsOK
<1>. QED  BY <1>1, <1>3, <1>4, <1>5, <1>7, RequestSteps

LEMMA RegradeRescores ==
    ASSUME RescoreInv, NEW r \in Requests, NEW w \in Wishes[r], Regrade(r, w)
    PROVE  RescoreInv'
<1>1. TypeInv /\ TypeInv' /\ RequestsOK
  BY RegradeTypes DEF RescoreInv
<1>2. PICK q : q = [pc |-> "done", what |-> w, seen |-> NoScore, at |-> 0]
  OBVIOUS
<1>3. /\ req' = [req EXCEPT ![r] = q] /\ task' = Queued(r, 0)
      /\ UNCHANGED <<score, grade, accidents>>
  BY <1>2 DEF Regrade
<1>4. req'[r] = q /\ \A p \in Requests \ {r} : req'[p] = req[p]
  BY <1>3 DEF RescoreInv, TypeInv, TypeOK
<1>5. task'[r].pc = "queued" /\ \A p \in Requests \ {r} : task'[p] = task[p]
  BY <1>1, <1>3, Types DEF Queued, NoTask
<1>6. RequestsOK'
  BY <1>1, <1>2, <1>3, <1>4 DEF RequestsOK, OneOpen, Asking, Unraced, NotLower, Kind, Problem
<1>. QED  BY <1>1, <1>3, <1>4, <1>5, <1>6, RequestSteps

LEMMA SetRescores ==
    ASSUME RescoreInv, NEW r \in Requests, Set(r)
    PROVE  RescoreInv'
<1>1. TypeInv /\ TypeInv' /\ RequestsOK
  BY SetTypes DEF RescoreInv
<1>2. req[r].pc = "set" /\ req[r] \in Reqs
  BY <1>1, ReqType DEF Set
<1>3. PICK u : u = [req[r] EXCEPT !.pc = "open", !.seen = NoScore, !.at = clock + 1]
  OBVIOUS
<1>4. u.pc = "open" /\ u.what = req[r].what
  BY <1>2, <1>3 DEF Reqs
<1>5. /\ req' = [req EXCEPT ![r] = u] /\ task' = Queued(r, 0)
      /\ ~ \E q \in Requests : req[q].pc = "open" /\ Problem(q) = Problem(r)
      /\ UNCHANGED <<score, grade>>
  BY <1>3 DEF Set, RescoreInv, TypeInv, TypeOK
<1>6. req'[r] = u /\ \A p \in Requests \ {r} : req'[p] = req[p]
  BY <1>5 DEF RescoreInv, TypeInv, TypeOK
<1>7. task'[r].pc = "queued" /\ \A p \in Requests \ {r} : task'[p] = task[p]
  BY <1>1, <1>5, Types DEF Queued, NoTask
<1>8. /\ accidents \subseteq accidents'
      /\ Kind(r) = "rescore" /\ "raced" \notin accidents' => score[Problem(r)] = req[r].seen
  BY DEF Set, Accident
<1>9. RequestsOK'
  <2>1. OneOpen'
    BY <1>1, <1>4, <1>5, <1>6 DEF RequestsOK, OneOpen, Problem
  <2>2. Asking'
    BY <1>1, <1>4, <1>6 DEF RequestsOK, Asking, NotLower, Kind
  <2>3. Unraced'
    <3>1. SUFFICES ASSUME "raced" \notin accidents', NEW q \in Requests,
                          req'[q].pc = "open", Kind(q)' = "rescore"
                   PROVE  NotLower(q, score[Problem(q)])'
      BY DEF Unraced
    <3>2. CASE q = r
      <4>1. NotLower(r, req[r].seen)
        BY <1>1, <1>2, <1>4, <1>6, <3>1, <3>2 DEF RequestsOK, Asking, Kind
      <4>2. score[Problem(r)] = req[r].seen
        BY <1>4, <1>6, <1>8, <3>1, <3>2 DEF Kind
      <4>. QED  BY <1>4, <1>5, <1>6, <3>2, <4>1, <4>2 DEF NotLower, Problem
    <3>3. CASE q # r
      <4>1. NotLower(q, score[Problem(q)])
        BY <1>1, <1>6, <1>8, <3>1, <3>3 DEF RequestsOK, Unraced, Kind
      <4>. QED  BY <1>5, <1>6, <3>3, <4>1 DEF NotLower, Problem
    <3>. QED  BY <3>2, <3>3
  <2>. QED  BY <2>1, <2>2, <2>3 DEF RequestsOK
<1>. QED  BY <1>1, <1>5, <1>6, <1>7, <1>9, RequestSteps

LEMMA CommitRescores ==
    ASSUME RescoreInv, NEW r \in Requests, Commit(r) \/ Rollback(r)
    PROVE  RescoreInv'
<1>1. TypeInv /\ TypeInv' /\ RequestsOK
  BY CommitTypes DEF RescoreInv
<1>2. req[r].pc = "open" /\ req[r] \in Reqs
  BY <1>1, ReqType DEF Commit, Rollback
<1>3. PICK u : u = [req[r] EXCEPT !.pc = "done"]
  OBVIOUS
<1>4. u.pc = "done" /\ u.what = req[r].what
  BY <1>2, <1>3 DEF Reqs
<1>5. req' = [req EXCEPT ![r] = u] /\ UNCHANGED <<task, grade, accidents>>
  BY <1>3 DEF Commit, Rollback
<1>6. req'[r] = u /\ \A p \in Requests \ {r} : req'[p] = req[p]
  BY <1>5 DEF RescoreInv, TypeInv, TypeOK
<1>7. \A p \in Problems \ {Problem(r)} : score'[p] = score[p]
  BY DEF Commit, Rollback, RescoreInv, TypeInv, TypeOK
<1>8. RequestsOK'
  <2>1. OneOpen'
    BY <1>1, <1>4, <1>6 DEF RequestsOK, OneOpen, Problem
  <2>2. Asking'
    BY <1>1, <1>4, <1>6 DEF RequestsOK, Asking, NotLower, Kind
  <2>3. Unraced'
    <3>1. SUFFICES ASSUME "raced" \notin accidents', NEW q \in Requests,
                          req'[q].pc = "open", Kind(q)' = "rescore"
                   PROVE  NotLower(q, score[Problem(q)])'
      BY DEF Unraced
    <3>2. q # r /\ req[q].pc = "open" /\ Kind(q) = "rescore"
      BY <1>4, <1>6, <3>1 DEF Kind
    <3>3. NotLower(q, score[Problem(q)])
      BY <1>1, <1>5, <3>1, <3>2 DEF RequestsOK, Unraced
    <3>4. Problem(q) \in Problems \ {Problem(r)}
      BY <1>1, <1>2, <3>2, ReqType DEF RequestsOK, OneOpen
    <3>. QED  BY <1>6, <1>7, <3>2, <3>3, <3>4 DEF NotLower, Problem
  <2>. QED  BY <2>1, <2>2, <2>3 DEF RequestsOK
<1>. QED  BY <1>1, <1>4, <1>5, <1>6, <1>8, RequestSteps

LEMMA RescoreNext == RescoreInv /\ [Next]_vars => RescoreInv'
<1> SUFFICES ASSUME RescoreInv, [Next]_vars PROVE RescoreInv'
  OBVIOUS
<1>1. CASE UNCHANGED vars
  BY <1>1 DEF vars, sent, RescoreInv, TypeInv, TypeOK, Begun, TasksOK, EmptyRows, TaskOK, RequestsOK,
     OneOpen, Asking, Unraced, NotLower, Kind, Problem
<1>2. ASSUME NEW r \in Requests,
             \/ \E w \in Wishes[r] : Ask(r, w) \/ Regrade(r, w)
             \/ Request(r) \/ Task(r) \/ Rollback(r) \/ Fail(r) \/ Crash(r) \/ Refuse(r)
      PROVE  RescoreInv'
  <2>1. CASE \E w \in Wishes[r] : Ask(r, w) \/ Regrade(r, w)
    BY <2>1, AskRescores, RegradeRescores
  <2>2. CASE Set(r) \/ Commit(r) \/ Rollback(r)
    BY <2>2, SetRescores, CommitRescores
  <2>3. CASE Task(r)
    BY <2>3, TakeRescores, FirstRescores, AddUpRescores, CourseRescores, AnnounceRescores,
       CompareRescores, SaveRescores DEF Task
  <2>4. CASE Fail(r) \/ Crash(r) \/ Refuse(r)
    BY <2>4, TroubleRescores
  <2>. QED  BY <1>2, <2>1, <2>2, <2>3, <2>4 DEF Request
<1>. QED  BY <1>1, <1>2 DEF Next

\* The rows, the requests and the tasks stay in their types: so are the sums
\* that CreateSubsectionGrade and CourseGradeFactory add up natural numbers,
\* for any finite number of problems and subsections.
THEOREM GradesTypes == Spec => []TypeOK
<1>1. RescoreInv => TypeOK
  BY DEF RescoreInv, TypeInv
<1>. QED  BY RescoreInit, RescoreNext, <1>1, PTL DEF Spec

\* A rescore that counts only if it is higher lowers neither the score nor the
\* grade of its subsection, however many requests and tasks run beside it, as
\* long as none of them comes between its comparison and its write
\* (score_published_handler, SubsectionGradeFactory.update).
THEOREM HigherCounts == Spec => HigherHolds
<1> DEFINE A == \A r \in Requests : req[r].pc # "new" /\ Kind(r) = "rescore" =>
                  /\ Commit(r) /\ "raced" \notin accidents =>
                        LET p == Problem(r)
                        IN  Stored(score[p]) => score'[p].value >= score[p].value
                  /\ \A s \in Sections :
                        (First(r) \/ Save(r, s)) /\ "crossed" \notin accidents' =>
                            grade'[s].earned >= grade[s].earned
<1>1. RescoreInv => A
  <2> SUFFICES ASSUME RescoreInv, NEW r \in Requests, req[r].pc # "new", Kind(r) = "rescore"
               PROVE  /\ Commit(r) /\ "raced" \notin accidents =>
                           LET p == Problem(r)
                           IN  Stored(score[p]) => score'[p].value >= score[p].value
                      /\ \A s \in Sections :
                           (First(r) \/ Save(r, s)) /\ "crossed" \notin accidents' =>
                               grade'[s].earned >= grade[s].earned
    OBVIOUS
  <2>1. /\ TypeInv /\ TaskOK(r) /\ EmptyRows /\ Unraced
        /\ task[r] \in Tasks /\ grade \in [Sections -> GradeRows]
        /\ score \in [Problems -> Scores]
    BY Types DEF RescoreInv, TasksOK, RequestsOK, TypeInv, TypeOK
  <2>2. ASSUME Commit(r), "raced" \notin accidents, NEW p, p = Problem(r), Stored(score[p])
        PROVE  score'[p].value >= score[p].value
    <3>1. p \in Problems /\ req[r].pc = "open"
      BY <2>1, <2>2, ReqType DEF Commit
    <3>2. score'[p].value = req[r].what.value
      BY <2>1, <2>2, <3>1 DEF Commit
    <3>3. req[r].what.value >= score[p].value
      BY <2>1, <2>2, <3>1 DEF Unraced, NotLower
    <3>. QED  BY <3>2, <3>3
  <2>3. ASSUME NEW s \in Sections, Save(r, s), "crossed" \notin accidents'
        PROVE  grade'[s].earned >= grade[s].earned
    <3>1. task[r].earned[s] \in Nat /\ grade[s].earned \in Nat
      BY <2>1 DEF Tasks, GradeRows
    <3>2. CASE Persists(r, s)
      <4>1. grade'[s].earned = task[r].earned[s]
        BY <2>1, <2>3, <3>2 DEF Save, GradeRows
      <4>2. s \notin task[r].behind /\ s \in task[r].todo /\ task[r].pc = "save"
        BY <2>3, <3>2 DEF Save, Accident
      <4>. QED  BY <2>1, <4>1, <4>2 DEF TaskOK
    <3>3. CASE ~Persists(r, s)
      BY <2>3, <3>1, <3>3 DEF Save
    <3>. QED  BY <3>2, <3>3
  <2>4. ASSUME NEW s \in Sections, First(r), "crossed" \notin accidents'
        PROVE  grade'[s].earned >= grade[s].earned
    <3>1. task[r].earned[s] \in Nat /\ grade[s].earned \in Nat
      BY <2>1 DEF Tasks, GradeRows
    <3>2. CASE s = task[r].at
      <4>1. grade'[s].earned = task[r].earned[s]
        BY <2>1, <2>4, <3>2 DEF First
      <4>2. s \notin task[r].behind /\ s \in task[r].todo /\ task[r].pc = "first"
        BY <2>1, <2>4, <3>2 DEF First, Accident, TaskOK
      <4>. QED  BY <2>1, <4>1, <4>2 DEF TaskOK
    <3>3. CASE s # task[r].at
      <4>1. grade'[s] = grade[s]
        BY <2>1, <2>4, <3>3 DEF First
      <4>. QED  BY <3>1, <4>1
    <3>. QED  BY <3>2, <3>3
  <2>. QED  BY <2>2, <2>3, <2>4
<1>2. RescoreInv => [A]_vars
  BY <1>1
<1>. QED  BY RescoreInit, RescoreNext, <1>2, PTL DEF Spec, HigherHolds

-----------------------------------------------------------------------------
(* Passing                                                                 *)

\* A task that is to announce, or to save the row, has found it without a
\* timestamp, and it still has none unless another has finished with it since.
AnnouncersAreFirst ==
    \A q \in Requests :
        task[q].pc \in {"announce", "passed"} /\ Course \notin task[q].behind => ~course.passed

\* The tasks that have announced and are still to save the row.
Announcers == {r \in Requests : task[r].pc = "passed"}

EachCounts ==
    announced = (IF course.passed THEN 1 ELSE 0) + Cardinality(Announcers) + broken

PassInv == "crossed" \notin accidents => AnnouncersAreFirst /\ EachCounts

LEMMA AnnouncersChange ==
    ASSUME NEW r \in Requests, \A q \in Requests \ {r} : task'[q].pc = task[q].pc
    PROVE  /\ Cardinality(Announcers) \in Nat
           /\ (task[r].pc = "passed" <=> task'[r].pc = "passed") => Announcers' = Announcers
           /\ task[r].pc = "passed" /\ task'[r].pc # "passed" =>
                 Cardinality(Announcers') = Cardinality(Announcers) - 1
           /\ task[r].pc # "passed" /\ task'[r].pc = "passed" =>
                 Cardinality(Announcers') = Cardinality(Announcers) + 1
<1>1. IsFiniteSet(Announcers)
  <2>1. Announcers \subseteq Requests
    BY DEF Announcers
  <2>. QED  BY <2>1, GradesAssumption, FS_Subset
<1>2. Cardinality(Announcers) \in Nat
  BY <1>1, FS_CardinalityType
<1>3. (task[r].pc = "passed" <=> task'[r].pc = "passed") => Announcers' = Announcers
  BY DEF Announcers
<1>4. ASSUME task[r].pc = "passed", task'[r].pc # "passed"
      PROVE  Cardinality(Announcers') = Cardinality(Announcers) - 1
  <2>1. r \in Announcers /\ Announcers' = Announcers \ {r}
    BY <1>4 DEF Announcers
  <2>. QED  BY <1>1, <2>1, FS_RemoveElement
<1>5. ASSUME task[r].pc # "passed", task'[r].pc = "passed"
      PROVE  Cardinality(Announcers') = Cardinality(Announcers) + 1
  <2>1. r \notin Announcers /\ Announcers' = Announcers \cup {r}
    BY <1>5 DEF Announcers
  <2>. QED  BY <1>1, <2>1, FS_AddElement
<1>. QED  BY <1>2, <1>3, <1>4, <1>5

LEMMA PassInit == Init => PassInv
<1>. SUFFICES ASSUME Init PROVE PassInv
  OBVIOUS
<1>1. Announcers = {}
  BY DEF Init, NoTask, Announcers
<1>2. Cardinality(Announcers) = 0
  BY <1>1, FS_EmptySet
<1>3. EachCounts
  BY <1>2 DEF Init, NoCourse, EachCounts
<1>. QED  BY <1>3 DEF Init, PassInv, AnnouncersAreFirst, NoTask

\* A step that leaves the row of the course alone.  A task that has announced
\* ends in it, or is put back, only if it breaks.
LEMMA RowAlone ==
    ASSUME TypeInv, PassInv, NEW r \in Requests,
           \A q \in Requests \ {r} :
              task'[q].pc = task[q].pc /\ task[q].behind \subseteq task'[q].behind,
           task'[r].pc \notin {"announce", "passed"},
           UNCHANGED <<course, announced>>, accidents \subseteq accidents',
           broken' = IF task[r].pc = "passed" THEN broken + 1 ELSE broken
    PROVE  PassInv'
<1>1. "crossed" \notin accidents' => AnnouncersAreFirst'
  BY DEF PassInv, AnnouncersAreFirst
<1>2. announced \in Nat /\ broken \in Nat
  BY Types
<1>3. PICK n \in Nat : n = Cardinality(Announcers)
  BY AnnouncersChange
<1>4. Cardinality(Announcers') = IF task[r].pc = "passed" THEN n - 1 ELSE n
  BY <1>3, AnnouncersChange
<1>5. "crossed" \notin accidents' => EachCounts'
  BY <1>2, <1>3, <1>4 DEF PassInv, EachCounts
<1>. QED  BY <1>1, <1>5 DEF PassInv

LEMMA TroublePasses ==
    ASSUME TypeInv, PassInv, NEW r \in Requests, Fail(r) \/ Crash(r) \/ Refuse(r)
    PROVE  PassInv'
<1>1. /\ task' = Ended(r) \/ task' = Again(r)
      /\ UNCHANGED <<course, announced>> /\ accidents \subseteq accidents'
      /\ broken' = IF task[r].pc = "passed" THEN broken + 1 ELSE broken
  BY DEF Fail, Crash, Refuse, Accident, Breaks, sent
<1>2. \A q \in Requests \ {r} : task'[q] = task[q]
  BY <1>1, BackOrDone
<1>3. task'[r].pc \in {"queued", "done"}
  BY <1>1, Types DEF Again, Ended, Queued, NoTask
<1>. QED  BY <1>1, <1>2, <1>3, RowAlone

\* A request queues a task that it had not.
LEMMA RequestPasses ==
    ASSUME TypeInv, PassInv, NEW r \in Requests,
           \/ Set(r) \/ Commit(r) \/ Rollback(r)
           \/ \E w \in Wishes[r] : Ask(r, w) \/ Regrade(r, w)
    PROVE  PassInv'
<1>1. CASE Set(r) \/ \E w \in Wishes[r] : Regrade(r, w)
  <2>1. /\ task' = Queued(r, 0) /\ req[r].pc \in {"new", "set"}
        /\ UNCHANGED <<course, announced, broken>> /\ accidents \subseteq accidents'
    BY <1>1 DEF Set, Regrade, Unsent, Accident, sent
  <2>2. task[r].pc = "none"
    BY <2>1 DEF TypeInv, Begun
  <2>3. task'[r].pc = "queued" /\ \A q \in Requests \ {r} : task'[q] = task[q]
    BY <2>1, Types DEF Queued, NoTask
  <2>. QED  BY <2>1, <2>2, <2>3, RowAlone
<1>2. CASE Commit(r) \/ Rollback(r) \/ \E w \in Wishes[r] : Ask(r, w)
  <2>1. UNCHANGED <<course, announced, broken, task, accidents>>
    BY <1>2 DEF Commit, Rollback, Ask, sent
  <2>. QED  BY <2>1 DEF PassInv, EachCounts, Announcers, AnnouncersAreFirst
<1>. QED  BY <1>1, <1>2

LEMMA TakePasses ==
    ASSUME TypeInv, PassInv, NEW r \in Requests, Take(r)
    PROVE  PassInv'
<1>1. /\ task[r].pc = "queued"
      /\ UNCHANGED <<course, announced, broken>> /\ accidents \subseteq accidents'
  BY DEF Take, Accident, sent
<1>2. task \in [Requests -> Tasks] /\ task[r] \in Tasks
  BY Types
<1>3. CASE task' = [task EXCEPT ![r] = TakenUp(r)]
  <2>1. TakenUp(r).pc \in {"compare", "save"}
    BY <1>2 DEF TakenUp, Tasks
  <2>2. task'[r].pc \in {"compare", "save"} /\ \A q \in Requests \ {r} : task'[q] = task[q]
    BY <1>2, <1>3, <2>1
  <2>. QED  BY <1>1, <2>2, RowAlone
<1>4. CASE task' = Ended(r) \/ task' = Again(r)
  <2>1. \A q \in Requests \ {r} : task'[q] = task[q]
    BY <1>4, BackOrDone
  <2>2. task'[r].pc \in {"queued", "done"}
    BY <1>2, <1>4 DEF Again, Ended, Queued, NoTask
  <2>. QED  BY <1>1, <2>1, <2>2, RowAlone
<1>. QED  BY <1>3, <1>4 DEF Take, TakenUp

LEMMA SectionPasses ==
    ASSUME TypeInv, PassInv, NEW r \in Requests, NEW s \in Sections, Compare(r, s) \/ Save(r, s)
    PROVE  PassInv'
<1>1. /\ task[r].pc \in {"compare", "save"}
      /\ UNCHANGED <<course, announced, broken>> /\ accidents \subseteq accidents'
  BY DEF Compare, Save, Accident, sent
<1>2. task \in [Requests -> Tasks] /\ task[r] \in Tasks
  BY Types
<1>3. CASE task' = [task EXCEPT ![r].pc = "save"]
  <2>1. task'[r].pc = "save" /\ \A q \in Requests \ {r} : task'[q] = task[q]
    BY <1>2, <1>3 DEF Tasks
  <2>. QED  BY <1>1, <2>1, RowAlone
<1>4. ASSUME NEW t \in Tasks, t.pc \in {"save", "first", "total"}, task' = Finished(r, s, t)
      PROVE  PassInv'
  BY <1>1, <1>4, FinishedType, RowAlone
<1>5. CASE task' = Finished(r, s, Through(task[r], s))
  BY <1>2, <1>4, <1>5, ThroughType
<1>6. CASE task' = Finished(r, s, [task[r] EXCEPT !.pc = "first", !.at = s])
  <2>1. PICK t \in Tasks : t = [task[r] EXCEPT !.pc = "first", !.at = s]
    BY <1>2, SectionStages
  <2>2. t.pc = "first"
    BY <1>2, <2>1 DEF Tasks
  <2>. QED  BY <1>4, <1>6, <2>1, <2>2
<1>. QED  BY <1>3, <1>5, <1>6 DEF Compare, Save

LEMMA FirstPasses ==
    ASSUME TypeInv, PassInv, NEW r \in Requests, First(r), task[r].at \in Sections
    PROVE  PassInv'
<1>1. /\ task[r].pc = "first"
      /\ UNCHANGED <<course, announced, broken>> /\ accidents \subseteq accidents'
  BY DEF First, Accident, sent
<1>2. PICK t \in Tasks : t = Through(task[r], task[r].at) /\ t.pc \in {"save", "total"}
  BY ThroughType, Types
<1>3. task' = Finished(r, task[r].at, t)
  BY <1>2 DEF First
<1>. QED  BY <1>1, <1>2, <1>3, FinishedType, RowAlone

LEMMA AddUpPasses ==
    ASSUME TypeInv, PassInv, NEW r \in Requests, AddUp(r)
    PROVE  PassInv'
<1>1. /\ UNCHANGED <<course, announced, broken, accidents>> /\ task[r].pc = "total"
      /\ \E n, z : task' = [task EXCEPT ![r].pc = "course", ![r].total = n, ![r].earned = z]
  BY DEF AddUp, sent
<1>2. PICK n, z : task' = [task EXCEPT ![r].pc = "course", ![r].total = n, ![r].earned = z]
  BY <1>1
<1>3. task'[r].pc = "course" /\ \A q \in Requests \ {r} : task'[q] = task[q]
  BY <1>2, Types DEF Tasks
<1>. QED  BY <1>1, <1>3, RowAlone

-----------------------------------------------------------------------------
(* Steps that write the row of the course, or announce it                  *)

\* The others that are to write the row fall behind.
LEMMA OthersAreBehind ==
    ASSUME TypeInv, NEW r \in Requests, NEW t \in Tasks, task' = Finished(r, Course, t)
    PROVE  /\ task'[r] = t
           /\ \A q \in Requests \ {r} : task'[q].pc = task[q].pc
           /\ \A q \in Requests \ {r} :
                 task'[q].pc \in {"announce", "passed"} => Course \in task'[q].behind
<1>1. \A q \in Requests \ {r} :
         task[q].pc \in {"announce", "passed"} => Running(q) /\ Course \in ToWrite(q)
  BY DEF Running, ToWrite
<1>. QED  BY <1>1, FinishedType

LEMMA CourseWritePasses ==
    ASSUME TypeInv, PassInv, NEW r \in Requests, CourseWrite(r)
    PROVE  PassInv'
<1>1. /\ task[r].pc = "course" /\ accidents \subseteq accidents'
      /\ UNCHANGED <<announced, broken>>
      /\ course' = [course EXCEPT !.exists = TRUE, !.percent = task[r].total]
  BY DEF CourseWrite, Accident, sent
<1>2. course'.passed = course.passed
  BY <1>1, Types DEF CourseRows
<1>3. task[r] \in Tasks
  BY Types
<1>4. PICK t \in Tasks : /\ task' = Finished(r, Course, t)
                         /\ t.pc = "announce" \/ t.pc = "done"
                         /\ t.pc = "announce" => ~course.passed
  <2>1. CASE Passes(task[r].total) /\ ~course.passed
    <3>1. /\ [task[r] EXCEPT !.pc = "announce"] \in Tasks
          /\ [task[r] EXCEPT !.pc = "announce"].pc = "announce"
      BY <1>3 DEF Tasks, TaskStages
    <3>. QED  BY <2>1, <3>1 DEF CourseWrite
  <2>2. CASE ~(Passes(task[r].total) /\ ~course.passed)
    <3>1. [NoTask EXCEPT !.pc = "done"] \in Tasks /\ [NoTask EXCEPT !.pc = "done"].pc = "done"
      BY NoTaskType DEF Tasks
    <3>2. task' = Finished(r, Course, [NoTask EXCEPT !.pc = "done"])
      BY <2>2 DEF CourseWrite
    <3>. QED  BY <3>1, <3>2
  <2>. QED  BY <2>1, <2>2
<1>5. /\ task'[r] = t
      /\ \A q \in Requests \ {r} : task'[q].pc = task[q].pc
      /\ \A q \in Requests \ {r} :
            task'[q].pc \in {"announce", "passed"} => Course \in task'[q].behind
  BY <1>4, OthersAreBehind
<1>6. AnnouncersAreFirst'
  BY <1>2, <1>4, <1>5 DEF AnnouncersAreFirst
<1>7. Announcers' = Announcers
  BY <1>1, <1>4, <1>5, AnnouncersChange
<1>. QED  BY <1>1, <1>2, <1>6, <1>7 DEF PassInv, EachCounts

LEMMA AnnouncePasses ==
    ASSUME TypeInv, PassInv, NEW r \in Requests, Announce(r)
    PROVE  PassInv'
<1>1. /\ announced' = announced + 1 /\ UNCHANGED <<course, broken, accidents>>
  BY DEF Announce
<1>2. /\ task[r].pc = "announce" /\ task'[r].pc = "passed"
      /\ task'[r].behind = task[r].behind
      /\ \A q \in Requests \ {r} : task'[q] = task[q]
  BY AnnounceTypes
<1>3. PICK n \in Nat : n = Cardinality(Announcers) /\ Cardinality(Announcers') = n + 1
  BY <1>2, AnnouncersChange
<1>4. announced \in Nat /\ broken \in Nat
  BY Types
<1>5. "crossed" \notin accidents' => EachCounts'
  BY <1>1, <1>3, <1>4 DEF PassInv, EachCounts
<1>. QED  BY <1>1, <1>2, <1>5 DEF PassInv, AnnouncersAreFirst

LEMMA PassedPasses ==
    ASSUME TypeInv, PassInv, NEW r \in Requests, Passed(r)
    PROVE  PassInv'
<1>1. PICK t \in Tasks : t = [NoTask EXCEPT !.pc = "done"] /\ t.pc = "done"
  BY NoTaskType DEF Tasks
<1>2. /\ task' = Finished(r, Course, t) /\ task[r].pc = "passed"
      /\ course'.passed = TRUE /\ UNCHANGED <<announced, broken>>
      /\ accidents \subseteq accidents'
      /\ Course \in task[r].behind => "crossed" \in accidents'
  BY <1>1 DEF Passed, Accident, sent
<1>3. /\ task'[r] = t
      /\ \A q \in Requests \ {r} : task'[q].pc = task[q].pc
      /\ \A q \in Requests \ {r} :
            task'[q].pc \in {"announce", "passed"} => Course \in task'[q].behind
  BY <1>2, OthersAreBehind
<1>4. AnnouncersAreFirst'
  BY <1>1, <1>3 DEF AnnouncersAreFirst
<1>5. "crossed" \notin accidents' => ~course.passed
  BY <1>2 DEF PassInv, AnnouncersAreFirst
<1>6. PICK n \in Nat : n = Cardinality(Announcers) /\ Cardinality(Announcers') = n - 1
  BY <1>1, <1>2, <1>3, AnnouncersChange
<1>7. announced \in Nat /\ broken \in Nat
  BY Types
<1>8. "crossed" \notin accidents' => EachCounts'
  BY <1>2, <1>5, <1>6, <1>7 DEF PassInv, EachCounts
<1>. QED  BY <1>4, <1>8 DEF PassInv

LEMMA PassNext == RescoreInv /\ PassInv /\ [Next]_vars => PassInv'
<1>. SUFFICES ASSUME RescoreInv, PassInv, [Next]_vars PROVE PassInv'
  OBVIOUS
<1>1. CASE UNCHANGED vars
  BY <1>1 DEF vars, PassInv, EachCounts, Announcers, AnnouncersAreFirst
<1>2. TypeInv /\ \A r \in Requests : First(r) => task[r].at \in Sections
  <2>1. TypeInv
    BY DEF RescoreInv
  <2>2. ASSUME NEW r \in Requests, First(r) PROVE task[r].at \in Sections
    <3>1. task[r] \in Tasks /\ task[r].at \in task[r].todo
      BY <2>1, <2>2, Types DEF First, RescoreInv, TasksOK, TaskOK
    <3>. QED  BY <3>1 DEF Tasks
  <2>. QED  BY <2>1, <2>2
<1>3. ASSUME NEW r \in Requests,
             \/ \E w \in Wishes[r] : Ask(r, w) \/ Regrade(r, w)
             \/ Request(r) \/ Task(r) \/ Rollback(r) \/ Fail(r) \/ Crash(r) \/ Refuse(r)
      PROVE  PassInv'
  <2>1. CASE Request(r) \/ Rollback(r) \/ \E w \in Wishes[r] : Ask(r, w) \/ Regrade(r, w)
    BY <1>2, <2>1, RequestPasses DEF Request
  <2>2. CASE Fail(r) \/ Crash(r) \/ Refuse(r)
    BY <1>2, <2>2, TroublePasses
  <2>3. CASE Task(r)
    BY <1>2, <2>3, TakePasses, FirstPasses, AddUpPasses, CourseWritePasses, AnnouncePasses,
       PassedPasses, SectionPasses DEF Task
  <2>. QED  BY <1>3, <2>1, <2>2, <2>3
<1>. QED  BY <1>1, <1>3 DEF Next

\* COURSE_GRADE_PASSED_FIRST_TIME is sent once for the passed_timestamp that is
\* saved, and besides only by tasks that have yet to save the row or broke before
\* they could, unless tasks have crossed: whatever the number of problems,
\* requests, tasks at a time, retries and failures
\* (PersistentCourseGrade.update_or_create).
THEOREM AnnouncedOnce == Spec => []PassedOnce
<1>1. PassInv => PassedOnce
  BY DEF PassInv, PassedOnce, EachCounts, Announcers
<1>. QED  BY <1>1, RescoreInit, RescoreNext, PassInit, PassNext, PTL DEF Spec
=============================================================================
