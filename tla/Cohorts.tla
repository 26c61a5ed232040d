------------------------------ MODULE Cohorts ------------------------------
(***************************************************************************)
(* The cohort of one learner in one course.  It is kept twice: as the      *)
(* CohortMembership of the learner, and in the users of the cohort's       *)
(* CourseUserGroup.  A cohort preassigned to an email address waits for    *)
(* the learner to register.                                                *)
(*                                                                         *)
(* Requests read what is committed, lock the rows they write until their   *)
(* transaction ends, and wait for the rows that others have locked; the    *)
(* database ends a deadlock by rolling one of them back.  Some requests    *)
(* (celery tasks) commit on their own what assign does.                    *)
(***************************************************************************)
EXTENDS Naturals

CONSTANTS
    Cohorts,   \* the cohorts of the course
    Random,    \* those that learners are assigned to at random
    Requests,  \* requests and tasks, each served once
    Atomic,    \* those that are one transaction
    Nobody,    \* who holds the lock of a row that nobody has locked
    NoRow      \* a row that is not there

ASSUME CohortsAssumption ==
    /\ Random \subseteq Cohorts
    /\ Random # {}
    /\ Atomic \subseteq Requests
    /\ Nobody \notin Requests
    /\ {"membership", "preassigned"} \cap Cohorts = {}

VARIABLES
    db,          \* the rows of the learner
    ids,         \* how many rows have got an id
    registered,  \* whether the learner has an account
    req,         \* what each request is doing
    promised,    \* history: the cohort preassigned when the learner registered
    accidents    \* history: what has happened of AccidentKinds

vars == <<db, ids, registered, req, promised, accidents>>

-----------------------------------------------------------------------------
(* Rows and their locks                                                    *)

\* The CohortMembership, the UnregisteredLearnerCohortAssignments, and for each
\* cohort whether the learner is in its users.
Keys == {"membership", "preassigned"} \cup Cohorts

Rows == [id : Nat, cohort : Cohorts]

\* No row is neither a row nor, where a cohort may be missing, a cohort.
ASSUME NoRowAssumption == NoRow \notin Rows /\ NoRow \notin Cohorts

\* A row as the holder of its lock sees it (now), and as all others do (old).
Cell(value) == [by |-> Nobody, now |-> value, old |-> value]

Visible(r, key) == IF db[key].by = r THEN db[key].now ELSE db[key].old
Free(r, key) == db[key].by \in {Nobody, r}

\* Rows f, as r has written or locked them.
Put(r, f) == [key \in Keys |->
    IF key \in DOMAIN f THEN [by |-> r, now |-> f[key], old |-> db[key].old] ELSE db[key]]
Only(key, value) == [k \in {key} |-> value]

Commit(r, cells) == [key \in Keys |-> IF cells[key].by = r THEN Cell(cells[key].now) ELSE cells[key]]
Rollback(r) == [key \in Keys |-> IF db[key].by = r THEN Cell(db[key].old) ELSE db[key]]

\* What a statement has written is committed at once outside of a transaction.
Written(r, f) == IF r \in Atomic THEN Put(r, f) ELSE Commit(r, Put(r, f))

-----------------------------------------------------------------------------
(* Requests                                                                *)

\* A request asks for the learner's cohort, adds the learner to one, removes the
\* learner from one, or preassigns one.  at: see the actions; cohort is the one it
\* works on, seen the row it has read, got the cohort that get_cohort returned.
Kinds == {"none", "get", "add", "remove", "preassign"}
Stages == {"new", "find", "choose", "take", "lock", "assign", "unlist", "delete",
           "note", "served", "done", "failed"}
New == [at |-> "new", kind |-> "none", cohort |-> NoRow, seen |-> NoRow, got |-> NoRow]

\*   raced    get_cohort assigns a learner who has meanwhile got another cohort
\*   staffed  staff add or remove the learner
\*   lost     a task that has deleted the preassignment for good fails before it
\*            assigns the learner, or another request chooses a cohort before that
\*   crossed  a membership is deleted that has changed since it was read
AccidentKinds == {"raced", "staffed", "lost", "crossed"}

Members(row) == IF row = NoRow THEN {} ELSE {row.cohort}

Init ==
    /\ \E c \in Cohorts \cup {NoRow} :
          db = [key \in Keys |->
                  IF key = "membership" /\ c # NoRow THEN Cell([id |-> 1, cohort |-> c])
                  ELSE IF key \in Cohorts THEN Cell(key = c) ELSE Cell(NoRow)]
    /\ ids = 1
    /\ registered = (db["membership"].now # NoRow)
    /\ req = [r \in Requests |-> New]
    /\ promised = NoRow
    /\ accidents = {}

Go(r, stage) == req' = [req EXCEPT ![r].at = stage]
HitIf(cond, kind) == accidents' = IF cond THEN accidents \cup {kind} ELSE accidents

\* A task without a transaction has deleted the preassignment that it has found,
\* and has not assigned the learner yet.
Between(r) ==
    /\ r \notin Atomic
    /\ req[r].kind = "get" /\ req[r].seen # NoRow
    /\ req[r].at \in {"lock", "assign"}

\* The learner registers with the address to which a cohort may be preassigned.
Register ==
    /\ ~registered
    /\ registered' = TRUE
    /\ promised' = LET p == db["preassigned"].old IN IF p = NoRow THEN NoRow ELSE p.cohort
    /\ UNCHANGED <<db, ids, req, accidents>>

\* get_cohort begins; the course is cohorted.
Get(r) ==
    /\ req[r].at = "new"
    /\ registered
    /\ req' = [req EXCEPT ![r].kind = "get", ![r].at = "find"]
    /\ UNCHANGED <<db, ids, registered, promised, accidents>>

\* add_user_to_cohort looks for the user: assign it, or preassign the cohort.
Add(r) ==
    /\ req[r].at = "new"
    /\ \E c \in Cohorts :
          req' = [req EXCEPT ![r].cohort = c,
                             ![r].kind = IF registered THEN "add" ELSE "preassign",
                             ![r].at = IF registered THEN "lock" ELSE "note"]
    /\ HitIf(registered, "staffed")
    /\ UNCHANGED <<db, ids, registered, promised>>

\* remove_user_from_cohort, which only views call.
Remove(r) ==
    /\ req[r].at = "new"
    /\ r \in Atomic
    /\ registered
    /\ \E c \in Cohorts :
          req' = [req EXCEPT ![r].cohort = c, ![r].kind = "remove", ![r].at = "find"]
    /\ HitIf(TRUE, "staffed")
    /\ UNCHANGED <<db, ids, registered, promised>>

\* CohortMembership.objects.get.
Find(r) ==
    /\ req[r].at = "find"
    /\ LET row == Visible(r, "membership") IN
       IF req[r].kind = "get"
       THEN req' = [req EXCEPT ![r].at = IF row = NoRow THEN "choose" ELSE "served",
                               ![r].got = IF row = NoRow THEN NoRow ELSE row.cohort]
       ELSE req' = [req EXCEPT ![r].at = IF Members(row) = {req[r].cohort} THEN "unlist" ELSE "failed",
                               ![r].seen = row]
    /\ UNCHANGED <<db, ids, registered, promised, accidents>>

\* The cohort is the preassigned one if there is one, else a random one.
Choose(r) ==
    /\ req[r].at = "choose"
    /\ LET p == Visible(r, "preassigned") IN
       \E c \in IF p = NoRow THEN Random ELSE {p.cohort} :
          /\ req' = [req EXCEPT ![r].at = IF p = NoRow THEN "lock" ELSE "take",
                                ![r].cohort = c, ![r].seen = p]
          /\ HitIf(p = NoRow /\ \E s \in Requests : Between(s), "lost")
    /\ UNCHANGED <<db, ids, registered, promised>>

\* Mutant of Take: the deletion is not undone if the request is rolled back.
TakeForGood(r) ==
    /\ req[r].at = "take"
    /\ Free(r, "preassigned")
    /\ LET p == db["preassigned"].now IN
       db' = IF p # NoRow /\ p.id = req[r].seen.id
             THEN [db EXCEPT !["preassigned"] = Cell(NoRow)] ELSE db
    /\ Go(r, "lock")
    /\ UNCHANGED <<ids, registered, promised, accidents>>

\* assignment.delete(), by its id.
Take(r) ==
    /\ req[r].at = "take"
    /\ Free(r, "preassigned")
    /\ LET p == db["preassigned"].now IN
       db' = IF p # NoRow /\ p.id = req[r].seen.id
             THEN Written(r, Only("preassigned", NoRow)) ELSE db
    /\ Go(r, "lock")
    /\ UNCHANGED <<ids, registered, promised, accidents>>

-----------------------------------------------------------------------------
(* CohortMembership.assign                                                 *)

\* select_for_update().get_or_create waits for the membership and locks it.
Lock(r) ==
    /\ req[r].at = "lock"
    /\ Free(r, "membership")
    /\ db' = Put(r, Only("membership", db["membership"].now))
    /\ Go(r, "assign")
    /\ UNCHANGED <<ids, registered, promised, accidents>>

\* The rows that assign writes besides.
Listed(r) == {req[r].cohort} \cup Members(db["membership"].now)

\* Mutant of Moved: the learner stays in the users of the cohort of before.
MovedOneWay(r) ==
    [key \in {"membership"} \cup Listed(r) |->
        IF key # "membership" THEN TRUE
        ELSE IF db[key].now = NoRow THEN [id |-> ids + 1, cohort |-> req[r].cohort]
        ELSE [db[key].now EXCEPT !.cohort = req[r].cohort]]

\* The learner goes into the cohort, out of the one of before if there is one.
Moved(r) ==
    [key \in {"membership"} \cup Listed(r) |->
        IF key # "membership" THEN key = req[r].cohort
        ELSE IF db[key].now = NoRow THEN [id |-> ids + 1, cohort |-> req[r].cohort]
        ELSE [db[key].now EXCEPT !.cohort = req[r].cohort]]

\* A learner who is in the cohort already makes assign raise ValueError, which
\* get_cohort takes for an answer; the savepoint is rolled back.
Assign(r) ==
    /\ req[r].at = "assign"
    /\ LET row == db["membership"].now
           c == req[r].cohort
       IN  \/ /\ Members(row) = {c}
              /\ db' = IF r \in Atomic THEN db ELSE Commit(r, db)
              /\ req' = [req EXCEPT ![r].at = IF req[r].kind = "get" THEN "served" ELSE "failed",
                                    ![r].got = IF req[r].kind = "get" THEN c ELSE NoRow]
              /\ UNCHANGED <<ids, accidents>>
           \/ /\ Members(row) # {c}
              /\ \A key \in Listed(r) : Free(r, key)
              /\ db' = Written(r, Moved(r))
              /\ ids' = IF row = NoRow THEN ids + 1 ELSE ids
              /\ req' = [req EXCEPT ![r].at = "served",
                                    ![r].got = IF req[r].kind = "get" THEN c ELSE NoRow]
              /\ HitIf(req[r].kind = "get" /\ row # NoRow, "raced")
    /\ UNCHANGED <<registered, promised>>

-----------------------------------------------------------------------------
(* membership.delete() and preassignment                                   *)

\* The pre_delete receiver takes the learner out of the users of the cohort that
\* the membership had when it was read ...
Unlist(r) ==
    /\ req[r].at = "unlist"
    /\ LET c == req[r].seen.cohort IN
       /\ Free(r, c)
       /\ db' = IF db[c].now THEN Put(r, Only(c, FALSE)) ELSE db
       /\ HitIf(~db[c].now, "crossed")
    /\ Go(r, "delete")
    /\ UNCHANGED <<ids, registered, promised>>

\* ... and the membership is deleted by its id.
Delete(r) ==
    /\ req[r].at = "delete"
    /\ Free(r, "membership")
    /\ LET row == db["membership"].now
           there == row # NoRow /\ row.id = req[r].seen.id
       IN  /\ db' = IF there THEN Put(r, Only("membership", NoRow)) ELSE db
           /\ HitIf(row # req[r].seen, "crossed")
    /\ Go(r, "served")
    /\ UNCHANGED <<ids, registered, promised>>

\* The address had no account: its preassignment is changed or created.
Note(r) ==
    /\ req[r].at = "note"
    /\ Free(r, "preassigned")
    /\ LET p == db["preassigned"].now IN
       /\ db' = Written(r, Only("preassigned",
                    [id |-> IF p = NoRow THEN ids + 1 ELSE p.id, cohort |-> req[r].cohort]))
       /\ ids' = IF p = NoRow THEN ids + 1 ELSE ids
    /\ Go(r, "served")
    /\ UNCHANGED <<registered, promised, accidents>>

-----------------------------------------------------------------------------
(* The end of a request                                                    *)

\* Mutant of End: the transaction is rolled back.
EndUncommitted(r) ==
    /\ req[r].at \in {"served", "failed"}
    /\ db' = Rollback(r)
    /\ Go(r, "done")
    /\ UNCHANGED <<ids, registered, promised, accidents>>

\* Mutant of End: after a ValueError the locks stay.
EndLocked(r) ==
    /\ req[r].at \in {"served", "failed"}
    /\ db' = IF req[r].at = "served" THEN Commit(r, db) ELSE db
    /\ Go(r, "done")
    /\ UNCHANGED <<ids, registered, promised, accidents>>

\* The transaction commits, with what was done before a ValueError that the view
\* has turned into an answer.
End(r) ==
    /\ req[r].at \in {"served", "failed"}
    /\ db' = Commit(r, db)
    /\ Go(r, "done")
    /\ UNCHANGED <<ids, registered, promised, accidents>>

\* A request raises, later or in between: its transaction is rolled back.
Raises(r) ==
    /\ req[r].at \notin {"new", "done"}
    /\ db' = Rollback(r)
    /\ req' = [req EXCEPT ![r].at = "done", ![r].got = NoRow]
    /\ HitIf(Between(r), "lost")
    /\ UNCHANGED <<ids, registered, promised>>

\* The rows that the next step of r waits for.
Needs(r) ==
    CASE req[r].at \in {"take", "note"}   -> {"preassigned"}
      [] req[r].at \in {"lock", "delete"} -> {"membership"}
      [] req[r].at = "assign"             -> Listed(r)
      [] req[r].at = "unlist"             -> {req[r].seen.cohort}
      [] OTHER                            -> {}

WaitsFor(r) == {db[key].by : key \in Needs(r)} \ {Nobody, r}

\* The database ends a deadlock at the cost of one of its requests.
Deadlocked(r) ==
    /\ \E s \in WaitsFor(r) : r \in WaitsFor(s)
    /\ Raises(r)

Serve(r) ==
    \/ Find(r) \/ Choose(r) \/ Take(r) \/ Lock(r) \/ Assign(r)
    \/ Unlist(r) \/ Delete(r) \/ Note(r) \/ End(r)

Next ==
    \/ Register
    \/ \E r \in Requests : Get(r) \/ Add(r) \/ Remove(r) \/ Serve(r) \/ Raises(r)

Spec == Init /\ [][Next]_vars

\* Requests are served, and the database looks for deadlocks.
FairSpec ==
    /\ Spec
    /\ \A r \in Requests : WF_vars(Serve(r)) /\ WF_vars(Deadlocked(r))

-----------------------------------------------------------------------------
(* Properties                                                              *)

CellsOf(key) ==
    LET values == IF key \in Cohorts THEN BOOLEAN ELSE Rows \cup {NoRow}
    IN  [by : Requests \cup {Nobody}, now : values, old : values]

\* The variables have their types.
TypeOK ==
    /\ DOMAIN db = Keys
    /\ \A key \in Keys : db[key] \in CellsOf(key)
    /\ ids \in Nat
    /\ registered \in BOOLEAN
    /\ req \in [Requests -> [at : Stages, kind : Kinds, cohort : Cohorts \cup {NoRow},
                             seen : Rows \cup {NoRow}, got : Cohorts \cup {NoRow}]]
    /\ promised \in Cohorts \cup {NoRow}
    /\ accidents \subseteq AccidentKinds

\* The two records of a learner's cohort agree whenever anybody reads them, and
\* so a learner is in at most one cohort ("a user can be in at most one cohort
\* per course", models.py), unless a membership that has changed was deleted.
TablesAgree ==
    "crossed" \notin accidents =>
        {c \in Cohorts : db[c].old} = Members(db["membership"].old)

\* The cohort that get_cohort returned to a request is still the learner's when
\* the request is over, unless staff have moved the learner, or another request
\* that had found no membership either.
AnswerHolds ==
    accidents \subseteq {"lost"} =>
        \A r \in Requests : req[r].at = "done" /\ req[r].got # NoRow =>
            Members(db["membership"].old) = {req[r].got}

\* The first cohort of a learner to whom one was preassigned is a preassigned one
\* and not a random one, though requests ask at once and are rolled back in the
\* middle of get_cohort, and though a second one may move the learner afterwards.
\* Not so once staff have moved the learner, or a preassignment was lost.
PreassignedFirst ==
    [][LET m == db["membership"]
       IN  /\ m.old = NoRow /\ m.old' # NoRow
           /\ promised # NoRow /\ accidents' \subseteq {"raced"}
           => m.old'.cohort \in {promised} \cup
                  {req[r].cohort : r \in {q \in Requests : req[q].kind = "preassign"}}]_vars

\* No request waits forever.
RequestsEnd == \A r \in Requests : req[r].at # "new" ~> req[r].at = "done"
=============================================================================
