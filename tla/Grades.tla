------------------------------- MODULE Grades -------------------------------
(***************************************************************************)
(* The grades of one learner in one course.  A request stores the score of *)
(* a problem in its transaction and queues a task before it commits.  The  *)
(* task waits for the score, adds up the scores of the subsection and      *)
(* stores the sum, then adds up the subsections and stores the grade of    *)
(* the course.  A task reads, compares and writes in statements of its own *)
(* and locks nothing between them; tasks of one learner run side by side.  *)
(***************************************************************************)
EXTENDS Naturals, FiniteSets, FiniteSetsExt

CONSTANTS
    Problems,     \* the problems of the course
    Sections,     \* its subsections
    SectionOf,    \* the subsection of each problem
    Requests,     \* score changes and regrades, each of which queues one task
    Wishes,       \* what each request may be about
    MaxRetries,   \* max_retries of recalculate_subsection_grade_v3
    Workers,      \* how many tasks can run side by side
    PassMark,     \* the points that pass the course
    MaxTrouble,   \* bound: requests and tasks that fail
    Course        \* names the row of the course among the subsections

\* An answer sets a score, a rescore sets it if it is not lower, a reset deletes
\* it.  A "user" regrade follows a change of track or cohort, a "course" regrade
\* a change of the grading policy; problem and value say nothing of these.
Regrades == {"user", "course"}
Kinds == {"answer", "rescore", "reset"} \cup Regrades
Asked == [kind : Kinds, problem : Problems, value : Nat]

ASSUME GradesAssumption ==
    /\ IsFiniteSet(Problems)
    /\ IsFiniteSet(Sections)
    /\ IsFiniteSet(Requests)
    /\ SectionOf \in [Problems -> Sections]
    /\ Wishes \in [Requests -> SUBSET Asked]
    /\ MaxRetries \in Nat \ {0}
    /\ Workers \in Nat \ {0}
    /\ PassMark \in Nat
    /\ MaxTrouble \in Nat
    /\ Course \notin Sections

VARIABLES
    score,      \* the committed StudentModule of each problem
    grade,      \* the PersistentSubsectionGrade of each subsection
    course,     \* the PersistentCourseGrade
    req,        \* the requests
    task,       \* their tasks
    clock,      \* the time of the last score change
    trouble,    \* how much trouble there may still be
    announced,  \* history: how often COURSE_GRADE_PASSED_FIRST_TIME was sent
    broken,     \* history: how often a task has failed or died after sending it,
                \* before it saved the row
    accidents   \* history: what has happened of AccidentKinds

sent == <<announced, broken>>
vars == <<score, grade, course, req, task, clock, trouble, announced, broken, accidents>>

\* The accidents, and where they strike:
\*   crossed  a task stores a sum although another has finished with the row
\*            since it read                        (Save, First, CourseWrite, Passed)
\*   raced    a rescore is stored over a score it was not compared with     (Set)
\*   late     a task gave up before the score was committed                (Take)
\*   lost     a task died, failed for good or was refused (Fail, Crash, Refuse)
AccidentKinds == {"crossed", "raced", "late", "lost"}
Accident(kind, happens) ==
    accidents' = IF happens THEN accidents \cup {kind} ELSE accidents

-----------------------------------------------------------------------------
(* Rows.  A score modified at 0 is not there.                              *)

Scores == [value : Nat, modified : Nat]
NoScore == [value |-> 0, modified |-> 0]
Stored(s) == s.modified > 0

ProblemsOf(s) == {p \in Problems : SectionOf[p] = s}

\* CreateSubsectionGrade: the sum of the scores of a subsection.
Sum(s) == MapThenSumSet(LAMBDA p : score[p].value, ProblemsOf(s))
Attempted(s) == \E p \in ProblemsOf(s) : Stored(score[p])

\* exists, earned_graded, and whether first_attempted is set.
NoGrade == [exists |-> FALSE, earned |-> 0, first |-> FALSE]
GradeRows == [exists : BOOLEAN, earned : Nat, first : BOOLEAN]

\* exists, percent_grade, and the time of passed_timestamp, if any.
NoCourse == [exists |-> FALSE, percent |-> 0, passed |-> FALSE]
CourseRows == [exists : BOOLEAN, percent : Nat, passed : BOOLEAN]

Total(earned) == MapThenSumSet(LAMBDA s : earned[s], Sections)

\* Mutant of HigherOrEqual: the two are taken for each other.
LowerOrEqual(previous, new) == previous >= new

\* is_score_higher_or_equal.
HigherOrEqual(previous, new) == new >= previous

-----------------------------------------------------------------------------
(* Requests and tasks                                                      *)

Unsent == [pc |-> "new"]
Reqs == [pc : {"set", "open", "done"}, what : Asked, seen : Scores, at : Nat]
Kind(r) == req[r].what.kind
Problem(r) == req[r].what.problem

TaskStages == {"none", "queued", "compare", "save", "first", "total",
               "course", "announce", "passed", "done"}
Tasks == [pc : TaskStages, tries : 0..MaxRetries, earned : [Sections -> Nat],
          attempted : SUBSET Sections, todo : SUBSET Sections,
          at : Sections \cup {Course}, total : Nat, behind : SUBSET (Sections \cup {Course})]
NoTask == [pc |-> "none", tries |-> 0, earned |-> [s \in Sections |-> 0],
           attempted |-> {}, todo |-> {}, at |-> Course, total |-> 0, behind |-> {}]

Running(r) == task[r].pc \notin {"none", "queued", "done"}
Ended(r) == [task EXCEPT ![r] = [NoTask EXCEPT !.pc = "done"]]
Queued(r, tries) == [task EXCEPT ![r] = [NoTask EXCEPT !.pc = "queued", !.tries = tries]]

\* max_retries of the task; a "user" regrade never calls retry.
Retries(kind) == CASE kind = "user" -> 0 [] kind = "course" -> 1 [] OTHER -> MaxRetries

\* raise self.retry().
Again(r) ==
    IF task[r].tries < Retries(Kind(r)) THEN Queued(r, task[r].tries + 1) ELSE Ended(r)
GivesUp(r) == task[r].tries >= Retries(Kind(r))

\* What a running task has read of and is still to write.
ToWrite(r) ==
    task[r].todo \cup
    (IF task[r].pc \in {"course", "announce", "passed"} \/ Kind(r) \in Regrades THEN {Course} ELSE {})

\* r becomes t, having finished with a row: the others that run are behind.
Finished(r, row, t) ==
    [q \in Requests |->
        IF q = r THEN t
        ELSE IF Running(q) /\ row \in ToWrite(q) THEN [task[q] EXCEPT !.behind = @ \cup {row}]
        ELSE task[q]]

Init ==
    /\ score = [p \in Problems |-> NoScore]
    /\ grade = [s \in Sections |-> NoGrade]
    /\ course = NoCourse
    /\ req = [r \in Requests |-> Unsent]
    /\ task = [r \in Requests |-> NoTask]
    /\ clock = 0
    /\ trouble = MaxTrouble
    /\ announced = 0
    /\ broken = 0
    /\ accidents = {}

-----------------------------------------------------------------------------
(* A request that changes a score                                          *)

\* score_published_handler compares the score of a rescore, which ends here if
\* it is lower; reset_student_attempts needs a score.
Ask(r, w) ==
    LET found == score[w.problem]
    IN  /\ req[r] = Unsent
        /\ w.kind \notin Regrades
        /\ w.kind = "rescore" /\ Stored(found) => HigherOrEqual(found.value, w.value)
        /\ w.kind = "reset" => Stored(found)
        /\ req' = [req EXCEPT ![r] = [pc |-> "set", what |-> w, seen |-> found, at |-> 0]]
        /\ UNCHANGED <<score, grade, course, task, clock, trouble, sent, accidents>>

\* set_score, or delete, takes the lock of the row; the signals that follow
\* queue the task, and the transaction goes on.
Set(r) ==
    LET p == Problem(r)
    IN  /\ req[r].pc = "set"
        /\ ~ \E q \in Requests : req[q].pc = "open" /\ Problem(q) = p
        /\ clock' = clock + 1
        /\ req' = [req EXCEPT ![r].pc = "open", ![r].seen = NoScore, ![r].at = clock + 1]
        /\ task' = Queued(r, 0)
        /\ Accident("raced", Kind(r) = "rescore" /\ score[p] # req[r].seen)
        /\ UNCHANGED <<score, grade, course, trouble, sent>>

Commit(r) ==
    /\ req[r].pc = "open"
    /\ score' = [score EXCEPT ![Problem(r)] =
                    IF Kind(r) = "reset" THEN NoScore
                    ELSE [value |-> req[r].what.value, modified |-> req[r].at]]
    /\ req' = [req EXCEPT ![r].pc = "done"]
    /\ UNCHANGED <<grade, course, task, clock, trouble, sent, accidents>>

\* A change of track, cohort or grading policy queues a regrade.
Regrade(r, w) ==
    /\ req[r] = Unsent
    /\ w.kind \in Regrades
    /\ req' = [req EXCEPT ![r] = [pc |-> "done", what |-> w, seen |-> NoScore, at |-> 0]]
    /\ task' = Queued(r, 0)
    /\ UNCHANGED <<score, grade, course, clock, trouble, sent, accidents>>

-----------------------------------------------------------------------------
(* A task                                                                  *)

\* Mutant of DbUpdated: any score will do.
DbUpdatedAtAll(r) == Stored(score[Problem(r)]) \/ Kind(r) = "reset"

\* _has_db_updated_with_new_score.
DbUpdated(r) ==
    LET found == score[Problem(r)]
    IN  IF Stored(found) THEN found.modified >= req[r].at ELSE Kind(r) = "reset"

\* Whether the task has anything to do yet: a "user" regrade needs a grade.
Due(r) ==
    CASE Kind(r) = "user" -> course.exists
      [] Kind(r) = "course" -> TRUE
      [] OTHER -> DbUpdated(r)

\* A worker takes a task.  It is retried while the score is not there; when there
\* is nothing to regrade it ends.  Otherwise the factory reads the learner's
\* scores, once for all subsections; the check and this reading are one step.
Take(r) ==
    LET kind == Kind(r)
    IN  /\ task[r].pc = "queued"
        /\ Cardinality({q \in Requests : Running(q)}) < Workers
        /\ task' =
              IF Due(r)
              THEN [task EXCEPT ![r] = [@ EXCEPT
                      !.pc = IF kind = "rescore" THEN "compare" ELSE "save",
                      !.earned = [s \in Sections |-> Sum(s)],
                      !.attempted = {s \in Sections : Attempted(s)},
                      !.todo = IF kind \in Regrades THEN Sections
                               ELSE {SectionOf[Problem(r)]}]]
              ELSE IF kind = "user" THEN Ended(r)
              ELSE Again(r)
        /\ Accident("late", ~Due(r) /\ kind # "user" /\ GivesUp(r) /\ req[r].pc = "open")
        /\ UNCHANGED <<score, grade, course, req, clock, trouble, sent>>

\* t is through with subsection s; what only its writes needed is forgotten.
Through(t, s) ==
    IF t.todo = {s}
    THEN [t EXCEPT !.pc = "total", !.todo = {}, !.at = Course, !.attempted = {}, !.behind = @ \ {s}]
    ELSE [t EXCEPT !.pc = "save", !.todo = @ \ {s}, !.at = Course, !.behind = @ \ {s}]

\* only_if_higher: a grade that is higher than the sum is left as it is.
Compare(r, s) ==
    /\ task[r].pc = "compare"
    /\ s \in task[r].todo
    /\ task' = IF grade[s].exists /\ ~HigherOrEqual(grade[s].earned, task[r].earned[s])
               THEN Finished(r, s, Through(task[r], s))
               ELSE [task EXCEPT ![r].pc = "save"]
    /\ UNCHANGED <<score, grade, course, req, clock, trouble, sent, accidents>>

\* _should_persist_per_attempted.
Persists(r, s) == s \in task[r].attempted \/ Kind(r) \in {"reset"} \cup Regrades

\* update_or_create_grade: the sum is stored; a row that has no first_attempted
\* yet, when there is one, is saved again by First.  An answer or a rescore that
\* has come this far has been attempted, so that it always persists.
Save(r, s) ==
    LET t == task[r]
        again == s \in t.attempted /\ ~grade[s].first
    IN  /\ t.pc = "save"
        /\ s \in t.todo
        /\ IF Persists(r, s)
           THEN /\ grade' = [grade EXCEPT ![s].exists = TRUE, ![s].earned = t.earned[s]]
                /\ Accident("crossed", s \in t.behind)
           ELSE UNCHANGED <<grade, accidents>>
        /\ task' = Finished(r, s, IF again THEN [t EXCEPT !.pc = "first", !.at = s]
                                  ELSE Through(t, s))
        /\ UNCHANGED <<score, course, req, clock, trouble, sent>>

\* The row is saved as a whole, with the sum this task has stored in it.
First(r) ==
    LET t == task[r]
        s == t.at
    IN  /\ t.pc = "first"
        /\ grade' = [grade EXCEPT ![s] = [exists |-> TRUE, earned |-> t.earned[s],
                                          first |-> TRUE]]
        /\ Accident("crossed", s \in t.behind)
        /\ task' = Finished(r, s, Through(t, s))
        /\ UNCHANGED <<score, course, req, clock, trouble, sent>>

\* CourseGradeFactory.update adds up the stored subsection grades, or those it
\* has just updated itself.
AddUp(r) ==
    LET earned == IF Kind(r) \in Regrades THEN task[r].earned
                  ELSE [s \in Sections |-> grade[s].earned]
    IN  /\ task[r].pc = "total"
        /\ task' = [task EXCEPT ![r].pc = "course", ![r].total = Total(earned),
                                ![r].earned = NoTask.earned]
        /\ UNCHANGED <<score, grade, course, req, clock, trouble, sent, accidents>>

Passes(total) == total >= PassMark

\* Mutant of CourseWrite: passed_timestamp is not looked at.
CourseWriteAgain(r) ==
    LET t == task[r]
    IN  /\ t.pc = "course"
        /\ course' = [course EXCEPT !.exists = TRUE, !.percent = t.total]
        /\ Accident("crossed", Course \in t.behind)
        /\ task' = Finished(r, Course, IF Passes(t.total) THEN [t EXCEPT !.pc = "announce"]
                                       ELSE [NoTask EXCEPT !.pc = "done"])
        /\ UNCHANGED <<score, grade, req, clock, trouble, sent>>

\* PersistentCourseGrade.update_or_create.
CourseWrite(r) ==
    LET t == task[r]
        again == Passes(t.total) /\ ~course.passed
    IN  /\ t.pc = "course"
        /\ course' = [course EXCEPT !.exists = TRUE, !.percent = t.total]
        /\ Accident("crossed", Course \in t.behind)
        /\ task' = Finished(r, Course, IF again THEN [t EXCEPT !.pc = "announce"]
                                       ELSE [NoTask EXCEPT !.pc = "done"])
        /\ UNCHANGED <<score, grade, req, clock, trouble, sent>>

\* COURSE_GRADE_PASSED_FIRST_TIME is sent for a row that had no passed_timestamp ...
Announce(r) ==
    /\ task[r].pc = "announce"
    /\ announced' = announced + 1
    /\ task' = [task EXCEPT ![r].pc = "passed"]
    /\ UNCHANGED <<score, grade, course, req, clock, trouble, broken, accidents>>

\* ... which then gets one, and is saved as a whole.
Passed(r) ==
    LET t == task[r]
    IN  /\ t.pc = "passed"
        /\ course' = [exists |-> TRUE, percent |-> t.total, passed |-> TRUE]
        /\ Accident("crossed", Course \in t.behind)
        /\ task' = Finished(r, Course, [NoTask EXCEPT !.pc = "done"])
        /\ UNCHANGED <<score, grade, req, clock, trouble, sent>>

-----------------------------------------------------------------------------
(* Trouble                                                                 *)

Trouble == trouble > 0 /\ trouble' = trouble - 1

\* What becomes of the attempt of r to announce.
Breaks(r) == broken' = IF task[r].pc = "passed" THEN broken + 1 ELSE broken

\* A step of the task raises, and the task is retried if it may be.
Fail(r) ==
    /\ Trouble
    /\ task[r].pc \notin {"none", "queued", "done"}
    /\ task' = Again(r)
    /\ Breaks(r)
    /\ Accident("lost", GivesUp(r))
    /\ UNCHANGED <<score, grade, course, req, clock, announced>>

\* The worker dies, or the task is killed at its time limit.
Crash(r) ==
    /\ Trouble
    /\ task[r].pc \notin {"none", "queued", "done"}
    /\ task' = Ended(r)
    /\ Breaks(r)
    /\ Accident("lost", TRUE)
    /\ UNCHANGED <<score, grade, course, req, clock, announced>>

\* The transaction of the request is rolled back; its task stays in the queue.
Rollback(r) ==
    /\ Trouble
    /\ req[r].pc = "open"
    /\ req' = [req EXCEPT ![r].pc = "done"]
    /\ UNCHANGED <<score, grade, course, task, clock, sent, accidents>>

\* The worker finds the grades frozen: GRADEBOOK_FREEZE_DAYS have passed since
\* the course ended.
Refuse(r) ==
    /\ Trouble
    /\ task[r].pc = "queued"
    /\ task' = Ended(r)
    /\ Accident("lost", TRUE)
    /\ UNCHANGED <<score, grade, course, req, clock, sent>>

-----------------------------------------------------------------------------
(* The specification                                                       *)

Request(r) == Set(r) \/ Commit(r)

Task(r) ==
    \/ Take(r) \/ First(r) \/ AddUp(r) \/ CourseWrite(r) \/ Announce(r) \/ Passed(r)
    \/ \E s \in Sections : Compare(r, s) \/ Save(r, s)

Next ==
    \E r \in Requests :
       \/ \E w \in Wishes[r] : Ask(r, w) \/ Regrade(r, w)
       \/ Request(r) \/ Task(r) \/ Rollback(r) \/ Fail(r) \/ Crash(r) \/ Refuse(r)

Spec == Init /\ [][Next]_vars

\* A request that has started ends, and a worker goes on with each task.
FairSpec ==
    /\ Spec
    /\ \A r \in Requests : WF_vars(Request(r)) /\ WF_vars(Task(r))

-----------------------------------------------------------------------------
(* Properties                                                              *)

\* Every variable stays in its range.
TypeOK ==
    /\ score \in [Problems -> Scores]
    /\ grade \in [Sections -> GradeRows]
    /\ course \in CourseRows
    /\ req \in [Requests -> Reqs \cup {Unsent}]
    /\ task \in [Requests -> Tasks]
    /\ clock \in Nat
    /\ trouble \in 0..MaxTrouble
    /\ announced \in Nat
    /\ broken \in Nat
    /\ accidents \subseteq AccidentKinds

\* A rescore that is to count only if it is higher (only_if_higher of
\* score_published_handler and of SubsectionGradeFactory.update) lowers neither
\* the score nor the subsection grade, although nothing is locked between the
\* comparison and the write; except where another request or task came between.
HigherHolds ==
    [][\A r \in Requests : req[r].pc # "new" /\ Kind(r) = "rescore" =>
          /\ Commit(r) /\ "raced" \notin accidents =>
                LET p == Problem(r)
                IN  Stored(score[p]) => score'[p].value >= score[p].value
          /\ \A s \in Sections :
                (First(r) \/ Save(r, s)) /\ "crossed" \notin accidents' =>
                    grade'[s].earned >= grade[s].earned]_vars

\* COURSE_GRADE_PASSED_FIRST_TIME is sent once for the passed_timestamp that is
\* saved, though tasks are retried and run side by side; it is sent besides only
\* by a task that has yet to save the row, or that failed or died before it could
\* (the signal comes before grade.save in PersistentCourseGrade.update_or_create).
\* Except where two tasks crossed: both may send it.
PassedOnce ==
    "crossed" \notin accidents =>
        announced = (IF course.passed THEN 1 ELSE 0)
                    + Cardinality({r \in Requests : task[r].pc = "passed"}) + broken

\* Whatever the order of the commits, the tasks and their retries, the grades
\* agree with the scores in the end: each subsection that was attempted has the
\* sum of its scores and the course the sum of its subsections.  Except after
\* one of the accidents, each of which leaves a grade behind for good.
GradesSettle ==
    [](accidents = {}) =>
        <>[](/\ \A s \in Sections :
                   /\ Attempted(s) => grade[s].exists
                   /\ grade[s].exists => grade[s].earned = Sum(s)
             /\ course.exists <=> \E s \in Sections : grade[s].exists
             /\ course.percent = Total([s \in Sections |-> grade[s].earned]))
=============================================================================
