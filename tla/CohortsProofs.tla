---------------------------- MODULE CohortsProofs ----------------------------
(***************************************************************************)
(* Proofs about Cohorts, for any number of cohorts and requests.           *)
(*                                                                         *)
(* AgreeInv: the two records of a learner's cohort agree whenever anybody  *)
(* reads them, as long as no membership that has changed is deleted.       *)
(*                                                                         *)
(* AnswerInv: the cohort that get_cohort has answered with, and the one    *)
(* that was preassigned, are the learner's.                                *)
(***************************************************************************)
EXTENDS Cohorts, TLAPS

\* What a request works on is there.
HasCohort(r) ==
    /\ req[r].at \in {"take", "lock", "assign", "note"} => req[r].cohort \in Cohorts
    /\ req[r].at \in {"unlist", "delete"} => req[r].seen \in Rows

\* The rows of d have their types.
DbTyped(d) ==
    /\ DOMAIN d = Keys
    /\ \A key \in Keys : d[key] \in CellsOf(key)

Values(key) == IF key \in Cohorts THEN BOOLEAN ELSE Rows \cup {NoRow}

\* The requests have their types.
ReqTyped ==
    req \in [Requests -> [at : Stages, kind : Kinds, cohort : Cohorts \cup {NoRow},
                          seen : Rows \cup {NoRow}, got : Cohorts \cup {NoRow}]]

\* The inductive invariant for the types.
TypeInv ==
    /\ DbTyped(db)
    /\ ids \in Nat /\ registered \in BOOLEAN
    /\ ReqTyped
    /\ promised \in Cohorts \cup {NoRow} /\ accidents \subseteq AccidentKinds
    /\ \A r \in Requests : HasCohort(r)

-----------------------------------------------------------------------------
(* Types                                                                   *)

LEMMA TypesInvariant == TypeInv => TypeOK
BY DEF TypeInv, TypeOK, DbTyped, ReqTyped

\* What a request sees has its type.
LEMMA SeenTyped ==
    ASSUME DbTyped(db), NEW r, NEW key \in Keys
    PROVE  /\ db[key].now \in Values(key)
           /\ db[key].old \in Values(key)
           /\ Visible(r, key) \in Values(key)
BY DEF DbTyped, CellsOf, Values, Visible

\* Which values the rows hold.
LEMMA KeyValues ==
    /\ "membership" \in Keys /\ Values("membership") = Rows \cup {NoRow}
    /\ "preassigned" \in Keys /\ Values("preassigned") = Rows \cup {NoRow}
    /\ \A c \in Cohorts : c \in Keys /\ Values(c) = BOOLEAN
BY CohortsAssumption DEF Keys, Values

\* Writing rows with values of their types keeps the types.
LEMMA PutTyped ==
    ASSUME DbTyped(db), NEW r \in Requests, NEW f,
           \A key \in DOMAIN f \cap Keys : f[key] \in Values(key)
    PROVE  DbTyped(Put(r, f))
<1> DEFINE p == Put(r, f)
<1>1. /\ DOMAIN p = Keys
      /\ \A key \in Keys : p[key] = IF key \in DOMAIN f
                                    THEN [by |-> r, now |-> f[key], old |-> db[key].old]
                                    ELSE db[key]
  BY DEF Put
<1> HIDE DEF p
<1>2. ASSUME NEW key \in Keys PROVE p[key] \in CellsOf(key)
  <2>1. db[key] \in CellsOf(key) /\ db[key].old \in Values(key)
    BY SeenTyped DEF DbTyped
  <2>2. CASE key \in DOMAIN f
    <3>1. f[key] \in Values(key)
      BY <2>2
    <3> QED
      BY <1>1, <2>1, <2>2, <3>1 DEF CellsOf, Values
  <2>3. CASE key \notin DOMAIN f
    BY <1>1, <2>1, <2>3
  <2> QED
    BY <2>2, <2>3
<1>3. DbTyped(p)
  BY <1>1, <1>2 DEF DbTyped
<1> QED
  BY <1>3 DEF p

\* A commit keeps the types.
LEMMA CommitTyped ==
    ASSUME NEW d, DbTyped(d), NEW r \in Requests
    PROVE  DbTyped(Commit(r, d))
<1> DEFINE p == Commit(r, d)
<1>1. /\ DOMAIN p = Keys
      /\ \A key \in Keys : p[key] = IF d[key].by = r
                                    THEN [by |-> Nobody, now |-> d[key].now, old |-> d[key].now]
                                    ELSE d[key]
  BY DEF Commit, Cell
<1> HIDE DEF p
<1>2. ASSUME NEW key \in Keys PROVE p[key] \in CellsOf(key)
  BY <1>1 DEF DbTyped, CellsOf
<1>3. DbTyped(p)
  BY <1>1, <1>2 DEF DbTyped
<1> QED
  BY <1>3 DEF p

\* A rollback keeps the types.
LEMMA RollbackTyped ==
    ASSUME DbTyped(db), NEW r \in Requests
    PROVE  DbTyped(Rollback(r))
<1> DEFINE p == Rollback(r)
<1>1. /\ DOMAIN p = Keys
      /\ \A key \in Keys : p[key] = IF db[key].by = r
                                    THEN [by |-> Nobody, now |-> db[key].old, old |-> db[key].old]
                                    ELSE db[key]
  BY DEF Rollback, Cell
<1> HIDE DEF p
<1>2. ASSUME NEW key \in Keys PROVE p[key] \in CellsOf(key)
  BY <1>1 DEF DbTyped, CellsOf
<1>3. DbTyped(p)
  BY <1>1, <1>2 DEF DbTyped
<1> QED
  BY <1>3 DEF p

\* So does a statement, in a transaction or on its own.
LEMMA WrittenTyped ==
    ASSUME DbTyped(db), NEW r \in Requests, NEW f,
           \A key \in DOMAIN f \cap Keys : f[key] \in Values(key)
    PROVE  DbTyped(Written(r, f))
<1>1. DbTyped(Put(r, f))
  BY PutTyped
<1>2. DbTyped(Commit(r, Put(r, f)))
  BY <1>1, CommitTyped
<1> QED
  BY <1>1, <1>2 DEF Written

\* What assign writes has its types.
LEMMA MovedTyped ==
    ASSUME TypeOK, NEW r \in Requests, req[r].cohort \in Cohorts
    PROVE  \A key \in DOMAIN Moved(r) \cap Keys : Moved(r)[key] \in Values(key)
<1>1. DbTyped(db)
  BY DEF TypeOK, DbTyped
<1>2. db["membership"].now \in Rows \cup {NoRow}
  BY <1>1, SeenTyped, KeyValues
<1>3. Listed(r) \subseteq Cohorts
  BY <1>2 DEF Listed, Members, Rows
<1>4. ids + 1 \in Nat
  BY DEF TypeOK
<1>5. [id |-> ids + 1, cohort |-> req[r].cohort] \in Rows
  BY <1>4 DEF Rows
<1>6. db["membership"].now # NoRow =>
        [db["membership"].now EXCEPT !.cohort = req[r].cohort] \in Rows
  BY <1>2 DEF Rows
<1>7. Moved(r)["membership"] \in Rows
  BY <1>5, <1>6 DEF Moved
<1>8. \A key \in Listed(r) : Moved(r)[key] \in BOOLEAN
  BY <1>3, CohortsAssumption DEF Moved
<1>9. DOMAIN Moved(r) = {"membership"} \cup Listed(r)
  BY DEF Moved
<1> QED
  BY <1>3, <1>7, <1>8, <1>9, KeyValues

\* A step that writes no row, and takes one request where it has what it needs.
LEMMA ReqStep ==
    ASSUME TypeInv, NEW r \in Requests, NEW next,
           next \in [at : Stages, kind : Kinds, cohort : Cohorts \cup {NoRow},
                     seen : Rows \cup {NoRow}, got : Cohorts \cup {NoRow}],
           next.at \in {"take", "lock", "assign", "note"} => next.cohort \in Cohorts,
           next.at \in {"unlist", "delete"} => next.seen \in Rows,
           req' = [req EXCEPT ![r] = next]
    PROVE  ReqTyped' /\ \A q \in Requests : HasCohort(q)'
<1>1. ReqTyped'
  BY DEF TypeInv, ReqTyped
<1>2. ASSUME NEW q \in Requests PROVE HasCohort(q)'
  <2>1. CASE q = r
    BY <2>1 DEF TypeInv, ReqTyped, HasCohort
  <2>2. CASE q # r
    <3>1. HasCohort(q) /\ req'[q] = req[q]
      BY <2>2 DEF TypeInv, ReqTyped
    <3> QED
      BY <3>1 DEF HasCohort
  <2> QED
    BY <2>1, <2>2
<1> QED
  BY <1>1, <1>2

\* Going to another stage of the same work.
LEMMA GoStep ==
    ASSUME TypeInv, NEW r \in Requests, NEW stage \in Stages, Go(r, stage),
           stage \in {"take", "lock", "assign", "note"} => req[r].cohort \in Cohorts,
           stage \in {"unlist", "delete"} => req[r].seen \in Rows
    PROVE  ReqTyped' /\ \A q \in Requests : HasCohort(q)'
<1> DEFINE next == [req[r] EXCEPT !.at = stage]
<1>1. /\ next \in [at : Stages, kind : Kinds, cohort : Cohorts \cup {NoRow},
                   seen : Rows \cup {NoRow}, got : Cohorts \cup {NoRow}]
      /\ next.at = stage /\ next.cohort = req[r].cohort /\ next.seen = req[r].seen
  BY DEF TypeInv, ReqTyped
<1>2. req' = [req EXCEPT ![r] = next]
  BY DEF Go
<1> HIDE DEF next
<1> QED
  BY <1>1, <1>2, ReqStep

\* The steps that write no row.
LEMMA QuietTypes ==
    ASSUME TypeInv, NEW r \in Requests,
           Get(r) \/ Add(r) \/ Remove(r) \/ Find(r) \/ Choose(r)
    PROVE  TypeInv'
<1>1. DbTyped(db)' /\ ids' \in Nat /\ registered' \in BOOLEAN
        /\ promised' \in Cohorts \cup {NoRow} /\ accidents' \subseteq AccidentKinds
  <2>1. /\ DbTyped(db) /\ ids \in Nat /\ registered \in BOOLEAN
        /\ promised \in Cohorts \cup {NoRow} /\ accidents \subseteq AccidentKinds
    BY DEF TypeInv
  <2>2. UNCHANGED <<db, ids, registered, promised>>
    BY DEF Get, Add, Remove, Find, Choose
  <2>3. accidents' \subseteq accidents \cup {"staffed", "lost"}
    BY DEF Get, Add, Remove, Find, Choose, HitIf
  <2> QED
    BY <2>1, <2>2, <2>3 DEF AccidentKinds, DbTyped
<1>2. ReqTyped' /\ \A q \in Requests : HasCohort(q)'
  <2> DEFINE Records == [at : Stages, kind : Kinds, cohort : Cohorts \cup {NoRow},
                         seen : Rows \cup {NoRow}, got : Cohorts \cup {NoRow}]
  <2>1. req \in [Requests -> Records] /\ DbTyped(db)
    BY DEF TypeInv, ReqTyped
  <2>2. CASE Get(r)
    <3> DEFINE next == [req[r] EXCEPT !.kind = "get", !.at = "find"]
    <3>1. next \in Records /\ next.at = "find" /\ req' = [req EXCEPT ![r] = next]
      BY <2>1, <2>2 DEF Get, Stages, Kinds
    <3> HIDE DEF next
    <3> QED
      BY <3>1, ReqStep
  <2>3. CASE Add(r)
    <3>1. PICK c \in Cohorts :
             req' = [req EXCEPT ![r].cohort = c,
                                ![r].kind = IF registered THEN "add" ELSE "preassign",
                                ![r].at = IF registered THEN "lock" ELSE "note"]
      BY <2>3 DEF Add
    <3> DEFINE next == [req[r] EXCEPT !.cohort = c,
                                      !.kind = IF registered THEN "add" ELSE "preassign",
                                      !.at = IF registered THEN "lock" ELSE "note"]
    <3>2. next \in Records /\ next.at \in {"lock", "note"} /\ next.cohort = c
            /\ req' = [req EXCEPT ![r] = next]
      BY <2>1, <3>1 DEF Stages, Kinds
    <3> HIDE DEF next
    <3> QED
      BY <3>2, ReqStep
  <2>4. CASE Remove(r)
    <3>1. PICK c \in Cohorts :
             req' = [req EXCEPT ![r].cohort = c, ![r].kind = "remove", ![r].at = "find"]
      BY <2>4 DEF Remove
    <3> DEFINE next == [req[r] EXCEPT !.cohort = c, !.kind = "remove", !.at = "find"]
    <3>2. next \in Records /\ next.at = "find" /\ req' = [req EXCEPT ![r] = next]
      BY <2>1, <3>1 DEF Stages, Kinds
    <3> HIDE DEF next
    <3> QED
      BY <3>2, ReqStep
  <2>5. CASE Find(r)
    <3> DEFINE row == Visible(r, "membership")
               got == [req[r] EXCEPT !.at = IF row = NoRow THEN "choose" ELSE "served",
                                     !.got = IF row = NoRow THEN NoRow ELSE row.cohort]
               read == [req[r] EXCEPT
                          !.at = IF Members(row) = {req[r].cohort} THEN "unlist" ELSE "failed",
                          !.seen = row]
    <3>1. row \in Rows \cup {NoRow}
      BY <2>1, SeenTyped, KeyValues
    <3>2. \/ req' = [req EXCEPT ![r] = got]
          \/ req' = [req EXCEPT ![r] = read]
      BY <2>5 DEF Find
    <3> HIDE DEF row
    <3>3. got \in Records /\ got.at \in {"choose", "served"}
      BY <2>1, <3>1 DEF Stages, Rows
    <3>4. read \in Records /\ read.at \in {"unlist", "failed"}
            /\ (read.at = "unlist" => read.seen \in Rows)
      BY <2>1, <3>1 DEF Stages, Members
    <3> HIDE DEF got, read
    <3>5. CASE req' = [req EXCEPT ![r] = got]
      BY <3>3, <3>5, ReqStep
    <3>6. CASE req' = [req EXCEPT ![r] = read]
      BY <3>4, <3>6, ReqStep
    <3> QED
      BY <3>2, <3>5, <3>6
  <2>6. CASE Choose(r)
    <3> DEFINE p == Visible(r, "preassigned")
    <3>1. p \in Rows \cup {NoRow}
      BY <2>1, SeenTyped, KeyValues
    <3>2. PICK c \in IF p = NoRow THEN Random ELSE {p.cohort} :
             req' = [req EXCEPT ![r].at = IF p = NoRow THEN "lock" ELSE "take",
                                ![r].cohort = c, ![r].seen = p]
      BY <2>6 DEF Choose
    <3> HIDE DEF p
    <3>3. c \in Cohorts
      BY <3>1, <3>2, CohortsAssumption DEF Rows
    <3> DEFINE next == [req[r] EXCEPT !.at = IF p = NoRow THEN "lock" ELSE "take",
                                      !.cohort = c, !.seen = p]
    <3>4. next \in Records /\ next.at \in {"lock", "take"} /\ next.cohort = c
            /\ req' = [req EXCEPT ![r] = next]
      BY <2>1, <3>1, <3>2, <3>3 DEF Stages
    <3> HIDE DEF next
    <3> QED
      BY <3>3, <3>4, ReqStep
  <2> QED
    BY <2>2, <2>3, <2>4, <2>5, <2>6
<1> QED
  BY <1>1, <1>2 DEF TypeInv

\* Writing one row.
LEMMA OnlyTyped ==
    ASSUME DbTyped(db), NEW r \in Requests, NEW key, NEW value,
           key \in Keys => value \in Values(key)
    PROVE  DbTyped(Put(r, Only(key, value))) /\ DbTyped(Written(r, Only(key, value)))
<1>1. \A k \in DOMAIN Only(key, value) \cap Keys : Only(key, value)[k] \in Values(k)
  BY DEF Only
<1> QED
  BY <1>1, PutTyped, WrittenTyped

\* The steps that write rows keep the types of the rows.
LEMMA RowsTyped ==
    ASSUME TypeInv, NEW r \in Requests,
           Take(r) \/ Lock(r) \/ Assign(r) \/ Unlist(r) \/ Delete(r) \/ Note(r) \/ End(r) \/ Raises(r)
    PROVE  DbTyped(db') /\ ids' \in Nat
<1>1. DbTyped(db) /\ ids \in Nat /\ HasCohort(r)
  BY DEF TypeInv
<1>2. db["membership"].now \in Rows \cup {NoRow} /\ db["preassigned"].now \in Rows \cup {NoRow}
  BY <1>1, SeenTyped, KeyValues
<1>3. CASE Take(r)
  BY <1>1, <1>3, KeyValues, OnlyTyped DEF Take
<1>4. CASE Lock(r)
  BY <1>1, <1>2, <1>4, KeyValues, OnlyTyped DEF Lock
<1>5. CASE Assign(r)
  <2>1. req[r].cohort \in Cohorts /\ TypeOK
    BY <1>1, <1>5, TypesInvariant DEF Assign, HasCohort
  <2>2. DbTyped(Written(r, Moved(r))) /\ DbTyped(Commit(r, db))
    BY <1>1, <2>1, MovedTyped, WrittenTyped, CommitTyped
  <2>3. db' \in {db, Commit(r, db), Written(r, Moved(r))}
    BY <1>5 DEF Assign
  <2>4. ids' \in {ids, ids + 1}
    BY <1>5 DEF Assign
  <2> QED
    BY <1>1, <2>2, <2>3, <2>4
<1>6. CASE Unlist(r)
  <2>1. req[r].seen.cohort \in Cohorts
    BY <1>1, <1>6 DEF Unlist, HasCohort, Rows
  <2>2. DbTyped(Put(r, Only(req[r].seen.cohort, FALSE)))
    BY <1>1, <2>1, KeyValues, OnlyTyped
  <2> QED
    BY <1>1, <1>6, <2>2 DEF Unlist
<1>7. CASE Delete(r)
  BY <1>1, <1>7, KeyValues, OnlyTyped DEF Delete
<1>8. CASE Note(r)
  <2> DEFINE row == [id |-> IF db["preassigned"].now = NoRow THEN ids + 1
                            ELSE db["preassigned"].now.id, cohort |-> req[r].cohort]
  <2>1. req[r].cohort \in Cohorts
    BY <1>1, <1>8 DEF Note, HasCohort
  <2>2. row \in Rows
    BY <1>1, <1>2, <2>1 DEF Rows
  <2>3. DbTyped(Written(r, Only("preassigned", row)))
    <3> HIDE DEF row
    <3> QED
      BY <1>1, <2>2, KeyValues, OnlyTyped
  <2>4. db' = Written(r, Only("preassigned", row)) /\ ids' \in {ids, ids + 1}
    BY <1>8 DEF Note
  <2> QED
    BY <1>1, <2>3, <2>4
<1>9. CASE End(r)
  BY <1>1, <1>9, CommitTyped DEF End
<1>10. CASE Raises(r)
  BY <1>1, <1>10, RollbackTyped DEF Raises
<1> QED
  BY <1>3, <1>4, <1>5, <1>6, <1>7, <1>8, <1>9, <1>10

\* And those of the requests.
LEMMA WritersTyped ==
    ASSUME TypeInv, NEW r \in Requests,
           Take(r) \/ Lock(r) \/ Assign(r) \/ Unlist(r) \/ Delete(r) \/ Note(r) \/ End(r) \/ Raises(r)
    PROVE  ReqTyped' /\ \A q \in Requests : HasCohort(q)'
<1> DEFINE Records == [at : Stages, kind : Kinds, cohort : Cohorts \cup {NoRow},
                       seen : Rows \cup {NoRow}, got : Cohorts \cup {NoRow}]
<1>1. req \in [Requests -> Records] /\ HasCohort(r)
  BY DEF TypeInv, ReqTyped
<1>2. CASE Take(r)
  <2>1. Go(r, "lock") /\ req[r].cohort \in Cohorts
    BY <1>1, <1>2 DEF Take, HasCohort
  <2> QED
    BY <2>1, GoStep DEF Stages
<1>3. CASE Lock(r)
  <2>1. Go(r, "assign") /\ req[r].cohort \in Cohorts
    BY <1>1, <1>3 DEF Lock, HasCohort
  <2> QED
    BY <2>1, GoStep DEF Stages
<1>4. CASE Assign(r)
  <2> DEFINE got == IF req[r].kind = "get" THEN req[r].cohort ELSE NoRow
             full == [req[r] EXCEPT !.at = IF req[r].kind = "get" THEN "served" ELSE "failed",
                                    !.got = got]
             next == [req[r] EXCEPT !.at = "served", !.got = got]
  <2>1. req' = [req EXCEPT ![r] = full] \/ req' = [req EXCEPT ![r] = next]
    BY <1>4 DEF Assign
  <2>2. got \in Cohorts \cup {NoRow}
    BY <1>1, <1>4 DEF Assign, HasCohort
  <2> HIDE DEF got
  <2>3. full \in Records /\ full.at \in {"served", "failed"}
    BY <1>1, <2>2 DEF Stages
  <2>4. next \in Records /\ next.at = "served"
    BY <1>1, <2>2 DEF Stages
  <2> HIDE DEF full, next
  <2>5. CASE req' = [req EXCEPT ![r] = full]
    BY <2>3, <2>5, ReqStep
  <2>6. CASE req' = [req EXCEPT ![r] = next]
    BY <2>4, <2>6, ReqStep
  <2> QED
    BY <2>1, <2>5, <2>6
<1>5. CASE Unlist(r)
  <2>1. Go(r, "delete") /\ req[r].seen \in Rows
    BY <1>1, <1>5 DEF Unlist, HasCohort
  <2> QED
    BY <2>1, GoStep DEF Stages
<1>6. CASE Delete(r)
  BY <1>6, GoStep DEF Delete, Stages
<1>7. CASE Note(r)
  BY <1>7, GoStep DEF Note, Stages
<1>8. CASE End(r)
  BY <1>8, GoStep DEF End, Stages
<1>9. CASE Raises(r)
  <2> DEFINE next == [req[r] EXCEPT !.at = "done", !.got = NoRow]
  <2>1. next \in Records /\ next.at = "done" /\ req' = [req EXCEPT ![r] = next]
    BY <1>1, <1>9 DEF Raises, Stages
  <2> HIDE DEF next
  <2> QED
    BY <2>1, ReqStep
<1> QED
  BY <1>2, <1>3, <1>4, <1>5, <1>6, <1>7, <1>8, <1>9

LEMMA WritersTypes ==
    ASSUME TypeInv, NEW r \in Requests,
           Take(r) \/ Lock(r) \/ Assign(r) \/ Unlist(r) \/ Delete(r) \/ Note(r) \/ End(r) \/ Raises(r)
    PROVE  TypeInv'
<1>1. (registered \in BOOLEAN /\ promised \in Cohorts \cup {NoRow})'
  BY DEF TypeInv, Take, Lock, Assign, Unlist, Delete, Note, End, Raises
<1>2. accidents' \subseteq accidents \cup {"raced", "lost", "crossed"}
  BY DEF Take, Lock, Assign, Unlist, Delete, Note, End, Raises, HitIf
<1>3. accidents' \subseteq AccidentKinds
  BY <1>2 DEF TypeInv, AccidentKinds
<1> QED
  BY <1>1, <1>3, RowsTyped, WritersTyped DEF TypeInv, DbTyped

LEMMA RegisterTypes == ASSUME TypeInv, Register PROVE TypeInv'
<1>1. db["preassigned"].old \in Rows \cup {NoRow}
  BY SeenTyped, KeyValues DEF TypeInv
<1>2. promised' \in Cohorts \cup {NoRow}
  BY <1>1 DEF Register, Rows
<1> QED
  BY <1>2 DEF TypeInv, Register, DbTyped, ReqTyped, HasCohort

LEMMA TypesAtFirst == Init => TypeInv
<1> SUFFICES ASSUME Init PROVE TypeInv
  OBVIOUS
<1>1. PICK c \in Cohorts \cup {NoRow} :
         db = [key \in Keys |->
                  IF key = "membership" /\ c # NoRow THEN Cell([id |-> 1, cohort |-> c])
                  ELSE IF key \in Cohorts THEN Cell(key = c) ELSE Cell(NoRow)]
  BY DEF Init
<1>2. c # NoRow => [id |-> 1, cohort |-> c] \in Rows
  BY DEF Rows
<1>3. DbTyped(db)
  BY <1>1, <1>2, CohortsAssumption DEF DbTyped, CellsOf, Cell
<1>4. ReqTyped /\ \A r \in Requests : HasCohort(r)
  BY DEF Init, ReqTyped, New, Stages, Kinds, HasCohort
<1> QED
  BY <1>3, <1>4 DEF Init, TypeInv, AccidentKinds

LEMMA TypesKept == TypeInv /\ [Next]_vars => TypeInv'
<1> SUFFICES ASSUME TypeInv, [Next]_vars PROVE TypeInv'
  OBVIOUS
<1>1. CASE UNCHANGED vars
  BY <1>1 DEF vars, TypeInv, DbTyped, ReqTyped, HasCohort
<1>2. CASE Register
  BY <1>2, RegisterTypes
<1>3. CASE \E r \in Requests : Get(r) \/ Add(r) \/ Remove(r) \/ Serve(r) \/ Raises(r)
  BY <1>3, QuietTypes, WritersTypes DEF Serve
<1> QED
  BY <1>1, <1>2, <1>3 DEF Next

\* The variables keep their types: assign and the receiver never work on a cohort
\* or a membership that is not there (models.py).
THEOREM TypesOfCohorts == Spec => []TypeOK
<1> QED
  BY TypesInvariant, TypesAtFirst, TypesKept, PTL DEF Spec

-----------------------------------------------------------------------------
(* Locks                                                                   *)

\* A row that nobody has locked is as everybody sees it.
FreeIsOld == \A key \in Keys : db[key].by = Nobody => db[key].now = db[key].old

\* assign holds the membership, and has changed nothing before it has the rest.
AssignLocks ==
    \A r \in Requests : req[r].at = "assign" =>
        db["membership"].by = r /\ db["membership"].now = db["membership"].old

\* Who holds the membership is in assign, or has done its work.
MembershipHeld ==
    \A r \in Requests : db["membership"].by = r => req[r].at \in {"assign", "served", "failed"}

\* Who holds a cohort is about to delete the membership, or has written it.
CohortHeld ==
    \A r \in Requests, c \in Cohorts : db[c].by = r =>
        \/ req[r].at = "delete" /\ req[r].seen.cohort = c
        \/ req[r].at \in {"served", "failed"} /\ db["membership"].by = r

\* The learner is taken out of one cohort when the membership is to be deleted.
UnlistedFirst ==
    \A r \in Requests : req[r].at = "delete" =>
        /\ db[req[r].seen.cohort].by = r
        /\ ~db[req[r].seen.cohort].now

\* The cohort of a row is what the cohorts say.
Agree(lists, row) == \A c \in Cohorts : lists[c] <=> c \in Members(row)

\* Who has written the membership sees the two records agree.
WritersAgree ==
    \A r \in Requests : db["membership"].by = r /\ req[r].at \in {"served", "failed"} =>
        Agree([c \in Cohorts |-> Visible(r, c)], Visible(r, "membership"))

\* So do those who have not.
OldAgree == Agree([c \in Cohorts |-> db[c].old], db["membership"].old)

\* The inductive invariant.
AgreeInv ==
    /\ TypeInv
    /\ FreeIsOld
    /\ AssignLocks
    /\ MembershipHeld
    /\ "crossed" \notin accidents =>
          /\ CohortHeld
          /\ UnlistedFirst
          /\ WritersAgree
          /\ OldAgree

-----------------------------------------------------------------------------
(* What a step does to the rows                                            *)

LEMMA PutCell ==
    ASSUME NEW r, NEW f, NEW key \in Keys
    PROVE  Put(r, f)[key] = IF key \in DOMAIN f
                            THEN [by |-> r, now |-> f[key], old |-> db[key].old] ELSE db[key]
BY DEF Put

LEMMA CommitCell ==
    ASSUME NEW r, NEW d, NEW key \in Keys
    PROVE  Commit(r, d)[key] = IF d[key].by = r
                               THEN [by |-> Nobody, now |-> d[key].now, old |-> d[key].now]
                               ELSE d[key]
BY DEF Commit, Cell

LEMMA RollbackCell ==
    ASSUME NEW r, NEW key \in Keys
    PROVE  Rollback(r)[key] = IF db[key].by = r
                              THEN [by |-> Nobody, now |-> db[key].old, old |-> db[key].old]
                              ELSE db[key]
BY DEF Rollback, Cell

LEMMA WrittenCell ==
    ASSUME NEW r, NEW f, NEW key \in Keys
    PROVE  Written(r, f)[key] =
              IF r \in Atomic
              THEN IF key \in DOMAIN f
                   THEN [by |-> r, now |-> f[key], old |-> db[key].old] ELSE db[key]
              ELSE IF key \in DOMAIN f
                   THEN [by |-> Nobody, now |-> f[key], old |-> f[key]]
                   ELSE IF db[key].by = r
                        THEN [by |-> Nobody, now |-> db[key].now, old |-> db[key].now]
                        ELSE db[key]
<1>1. Put(r, f)[key] = IF key \in DOMAIN f
                       THEN [by |-> r, now |-> f[key], old |-> db[key].old] ELSE db[key]
  BY PutCell
<1>2. Commit(r, Put(r, f))[key] =
        IF Put(r, f)[key].by = r
        THEN [by |-> Nobody, now |-> Put(r, f)[key].now, old |-> Put(r, f)[key].now]
        ELSE Put(r, f)[key]
  BY CommitCell
<1> QED
  BY <1>1, <1>2 DEF Written

\* A request locks a row that is free, or keeps what it has locked ...
Locks(r, key) ==
    /\ Free(r, key)
    /\ db'[key].by = r
    /\ db'[key].old = db[key].old

\* ... or leaves a row to all.
Leaves(r, key) ==
    /\ Free(r, key)
    /\ db'[key].by = Nobody
    /\ db'[key].now = db'[key].old

Step(r) ==
    \/ Get(r) \/ Add(r) \/ Remove(r) \/ Find(r) \/ Choose(r) \/ Take(r) \/ Lock(r)
    \/ Assign(r) \/ Unlist(r) \/ Delete(r) \/ Note(r) \/ End(r) \/ Raises(r)

\* What a statement does to the rows that are free.
LEMMA WrittenEffect ==
    ASSUME NEW r \in Requests, NEW f, db' = Written(r, f), NEW key \in Keys,
           key \in DOMAIN f => Free(r, key)
    PROVE  db'[key] = db[key] \/ Locks(r, key) \/ Leaves(r, key)
<1> DEFINE cell == Written(r, f)[key]
<1>1. cell = IF r \in Atomic
             THEN IF key \in DOMAIN f
                  THEN [by |-> r, now |-> f[key], old |-> db[key].old] ELSE db[key]
             ELSE IF key \in DOMAIN f
                  THEN [by |-> Nobody, now |-> f[key], old |-> f[key]]
                  ELSE IF db[key].by = r
                       THEN [by |-> Nobody, now |-> db[key].now, old |-> db[key].now]
                       ELSE db[key]
  BY WrittenCell
<1>2. db'[key] = cell
  OBVIOUS
<1> HIDE DEF cell
<1>3. CASE key \in DOMAIN f
  BY <1>1, <1>2, <1>3 DEF Locks, Leaves
<1>4. CASE key \notin DOMAIN f
  BY <1>1, <1>2, <1>4 DEF Leaves, Free
<1> QED
  BY <1>3, <1>4

LEMMA PutEffect ==
    ASSUME NEW r \in Requests, NEW f, db' = Put(r, f), NEW key \in Keys,
           key \in DOMAIN f => Free(r, key)
    PROVE  db'[key] = db[key] \/ Locks(r, key)
<1>1. Put(r, f)[key] = IF key \in DOMAIN f
                       THEN [by |-> r, now |-> f[key], old |-> db[key].old] ELSE db[key]
  BY PutCell
<1> QED
  BY <1>1 DEF Locks

LEMMA CommitEffect ==
    ASSUME NEW r \in Requests, db' = Commit(r, db) \/ db' = Rollback(r), NEW key \in Keys
    PROVE  db'[key] = db[key] \/ Leaves(r, key)
<1>1. Commit(r, db)[key] = IF db[key].by = r
                           THEN [by |-> Nobody, now |-> db[key].now, old |-> db[key].now]
                           ELSE db[key]
  BY CommitCell
<1>2. Rollback(r)[key] = IF db[key].by = r
                         THEN [by |-> Nobody, now |-> db[key].old, old |-> db[key].old]
                         ELSE db[key]
  BY RollbackCell
<1> QED
  BY <1>1, <1>2 DEF Leaves, Free

\* No step touches what others have locked.
LEMMA Effects ==
    ASSUME TypeInv, AssignLocks, NEW r \in Requests, Step(r), NEW key \in Keys
    PROVE  db'[key] = db[key] \/ Locks(r, key) \/ Leaves(r, key)
<1>1. CASE Get(r) \/ Add(r) \/ Remove(r) \/ Find(r) \/ Choose(r)
  BY <1>1 DEF Get, Add, Remove, Find, Choose
<1>2. CASE Take(r)
  BY <1>2, WrittenEffect DEF Take, Only
<1>3. CASE Lock(r)
  BY <1>3, PutEffect DEF Lock, Only
<1>4. CASE Assign(r)
  <2>1. Free(r, "membership")
    BY <1>4 DEF Assign, AssignLocks, Free
  <2>2. \/ db' = db
        \/ db' = Commit(r, db)
        \/ /\ \A k \in Listed(r) : Free(r, k)
           /\ db' = Written(r, Moved(r))
    BY <1>4 DEF Assign
  <2>3. CASE db' = db
    BY <2>3
  <2>4. CASE db' = Commit(r, db)
    BY <2>4, CommitEffect
  <2>5. CASE /\ \A k \in Listed(r) : Free(r, k)
             /\ db' = Written(r, Moved(r))
    <3>1. key \in DOMAIN Moved(r) => Free(r, key)
      BY <2>1, <2>5 DEF Moved
    <3> QED
      BY <2>5, <3>1, WrittenEffect
  <2> QED
    BY <2>2, <2>3, <2>4, <2>5
<1>5. CASE Unlist(r)
  <2> DEFINE c == req[r].seen.cohort
  <2>1. Free(r, c) /\ (db' = db \/ db' = Put(r, Only(c, FALSE)))
    BY <1>5 DEF Unlist
  <2>2. DOMAIN Only(c, FALSE) = {c}
    BY DEF Only
  <2> HIDE DEF c
  <2> QED
    BY <2>1, <2>2, PutEffect
<1>6. CASE Delete(r)
  BY <1>6, PutEffect DEF Delete, Only
<1>7. CASE Note(r)
  <2> DEFINE f == Only("preassigned", [id |-> IF db["preassigned"].now = NoRow THEN ids + 1
                                              ELSE db["preassigned"].now.id,
                                       cohort |-> req[r].cohort])
  <2>1. db' = Written(r, f) /\ Free(r, "preassigned")
    BY <1>7 DEF Note
  <2>2. DOMAIN f = {"preassigned"}
    BY DEF Only
  <2> HIDE DEF f
  <2> QED
    BY <2>1, <2>2, WrittenEffect
<1>8. CASE End(r) \/ Raises(r)
  BY <1>8, CommitEffect DEF End, Raises
<1> QED
  BY <1>1, <1>2, <1>3, <1>4, <1>5, <1>6, <1>7, <1>8 DEF Step

\* A statement that writes one row leaves the others, or commits what its task
\* had locked.
LEMMA WrittenOnly ==
    ASSUME NEW r \in Requests, NEW k, NEW value, db' = Written(r, Only(k, value)),
           NEW key \in Keys, key # k
    PROVE  db'[key] = db[key] \/ (db[key].by = r /\ db'[key].by = Nobody)
<1> DEFINE f == Only(k, value)
<1>1. DOMAIN f = {k} /\ db' = Written(r, f)
  BY DEF Only
<1> HIDE DEF f
<1>2. Written(r, f)[key] =
        IF r \in Atomic
        THEN IF key \in DOMAIN f
             THEN [by |-> r, now |-> f[key], old |-> db[key].old] ELSE db[key]
        ELSE IF key \in DOMAIN f
             THEN [by |-> Nobody, now |-> f[key], old |-> f[key]]
             ELSE IF db[key].by = r
                  THEN [by |-> Nobody, now |-> db[key].now, old |-> db[key].now]
                  ELSE db[key]
  BY WrittenCell
<1> QED
  BY <1>1, <1>2

LEMMA PutOnly ==
    ASSUME NEW r \in Requests, NEW k, NEW value, NEW key \in Keys, key # k
    PROVE  Put(r, Only(k, value))[key] = db[key]
<1>1. DOMAIN Only(k, value) = {k} /\ Only(k, value)[k] = value
  BY DEF Only
<1> DEFINE f == Only(k, value)
<1> HIDE DEF f
<1>2. Put(r, f)[key] = IF key \in DOMAIN f
                       THEN [by |-> r, now |-> f[key], old |-> db[key].old] ELSE db[key]
  BY PutCell
<1> QED
  BY <1>1, <1>2 DEF f

LEMMA PutCellOnly ==
    ASSUME NEW r \in Requests, NEW k \in Keys, NEW value
    PROVE  Put(r, Only(k, value))[k] = [by |-> r, now |-> value, old |-> db[k].old]
BY DEF Put, Only

LEMMA PreassignedOnly ==
    ASSUME NEW r \in Requests, Take(r) \/ Note(r), NEW key \in Keys, key # "preassigned"
    PROVE  db'[key] = db[key] \/ (db[key].by = r /\ db'[key].by = Nobody)
<1>1. PICK value : db' = db \/ db' = Written(r, Only("preassigned", value))
  BY DEF Take, Note
<1> QED
  BY <1>1, WrittenOnly

LEMMA UnlistOnly ==
    ASSUME NEW r \in Requests, Unlist(r), NEW key \in Keys, key # req[r].seen.cohort
    PROVE  db'[key] = db[key]
<1> DEFINE c == req[r].seen.cohort
<1>1. db' = db \/ db' = Put(r, Only(c, FALSE))
  BY DEF Unlist
<1> HIDE DEF c
<1>2. key # c
  BY DEF c
<1>3. Put(r, Only(c, FALSE))[key] = db[key]
  BY <1>2, PutOnly
<1> QED
  BY <1>1, <1>3

LEMMA MembershipOnly ==
    ASSUME NEW r \in Requests, Lock(r) \/ Delete(r), NEW key \in Keys, key # "membership"
    PROVE  db'[key] = db[key]
<1>1. PICK value : db' = db \/ db' = Put(r, Only("membership", value))
  BY DEF Lock, Delete
<1>2. Put(r, Only("membership", value))[key] = db[key]
  BY PutOnly
<1> QED
  BY <1>1, <1>2

LEMMA NothingHeld ==
    ASSUME NEW r \in Requests, End(r) \/ Raises(r), NEW key \in Keys
    PROVE  db'[key].by # r
<1>1. Commit(r, db)[key] = IF db[key].by = r
                           THEN [by |-> Nobody, now |-> db[key].now, old |-> db[key].now]
                           ELSE db[key]
  BY CommitCell
<1>2. Rollback(r)[key] = IF db[key].by = r
                         THEN [by |-> Nobody, now |-> db[key].old, old |-> db[key].old]
                         ELSE db[key]
  BY RollbackCell
<1> QED
  BY <1>1, <1>2, CohortsAssumption DEF End, Raises

LEMMA OthersWait ==
    ASSUME TypeInv, NEW r \in Requests, Step(r), NEW q \in Requests, q # r
    PROVE  req'[q] = req[q]
<1>1. PICK next : req' = [req EXCEPT ![r] = next]
  <2>1. CASE Add(r) \/ Remove(r)
    BY <2>1 DEF Add, Remove, TypeInv, ReqTyped
  <2>2. CASE Find(r) \/ Choose(r)
    BY <2>2 DEF Find, Choose, TypeInv, ReqTyped
  <2>3. CASE Get(r) \/ Take(r) \/ Lock(r) \/ Assign(r)
    BY <2>3 DEF Get, Take, Lock, Assign, Go, TypeInv, ReqTyped
  <2>4. CASE Unlist(r) \/ Delete(r) \/ Note(r) \/ End(r) \/ Raises(r)
    BY <2>4 DEF Unlist, Delete, Note, End, Raises, Go, TypeInv, ReqTyped
  <2> QED
    BY <2>1, <2>2, <2>3, <2>4 DEF Step
<1> QED
  BY <1>1 DEF TypeInv, ReqTyped

\* What another request holds stays what it is, and it gets nothing.
LEMMA OthersCells ==
    ASSUME TypeInv, AssignLocks, NEW r \in Requests, Step(r), NEW q \in Requests, q # r,
           NEW key \in Keys, db[key].by = q \/ db'[key].by = q
    PROVE  db'[key] = db[key]
<1>1. db'[key] = db[key] \/ Locks(r, key) \/ Leaves(r, key)
  BY Effects
<1> QED
  BY <1>1, CohortsAssumption DEF Locks, Leaves, Free

\* Where a step takes its request.
LEMMA Stage ==
    ASSUME TypeInv, NEW r \in Requests
    PROVE  /\ Get(r) \/ Add(r) \/ Remove(r) \/ Find(r) \/ Choose(r) \/ Take(r) \/ Note(r) =>
                 req[r].at \notin {"assign", "served", "failed", "delete"}
           /\ Get(r) \/ Add(r) \/ Remove(r) \/ Find(r) \/ Choose(r) \/ Take(r) \/ Note(r) =>
                 req'[r].at \notin {"assign", "delete"}
           /\ Lock(r) => req[r].at = "lock" /\ req'[r].at = "assign"
           /\ Assign(r) => req[r].at = "assign" /\ req'[r].at \in {"served", "failed"}
           /\ Unlist(r) => req[r].at = "unlist" /\ req'[r].at = "delete"
           /\ Unlist(r) => req'[r].seen = req[r].seen
           /\ Delete(r) => req[r].at = "delete" /\ req'[r].at = "served"
           /\ End(r) \/ Raises(r) => req'[r].at = "done"
<1> USE DEF TypeInv, ReqTyped
<1>1. Get(r) => req[r].at = "new" /\ req'[r].at = "find"
  BY DEF Get
<1>2. Add(r) => req[r].at = "new" /\ req'[r].at \in {"lock", "note"}
  BY DEF Add
<1>3. Remove(r) => req[r].at = "new" /\ req'[r].at = "find"
  BY DEF Remove
<1>4. Find(r) => req[r].at = "find" /\ req'[r].at \in {"choose", "served", "unlist", "failed"}
  BY DEF Find
<1>5. Choose(r) => req[r].at = "choose" /\ req'[r].at \in {"lock", "take"}
  BY DEF Choose
<1>6. Take(r) => req[r].at = "take" /\ req'[r].at = "lock"
  BY DEF Take, Go
<1>7. Note(r) => req[r].at = "note" /\ req'[r].at = "served"
  BY DEF Note, Go
<1>8. Lock(r) => req[r].at = "lock" /\ req'[r].at = "assign"
  BY DEF Lock, Go
<1>9. Assign(r) => req[r].at = "assign" /\ req'[r].at \in {"served", "failed"}
  BY DEF Assign
<1>10. Unlist(r) => req[r].at = "unlist" /\ req'[r].at = "delete" /\ req'[r].seen = req[r].seen
  BY DEF Unlist, Go
<1>11. Delete(r) => req[r].at = "delete" /\ req'[r].at = "served"
  BY DEF Delete, Go
<1>12. End(r) \/ Raises(r) => req'[r].at = "done"
  BY DEF End, Raises, Go
<1> HIDE DEF TypeInv, ReqTyped
<1> QED
  BY <1>1, <1>2, <1>3, <1>4, <1>5, <1>6, <1>7, <1>8, <1>9, <1>10, <1>11, <1>12

-----------------------------------------------------------------------------
(* The locks                                                               *)

LEMMA LocksKept ==
    ASSUME TypeInv, FreeIsOld, AssignLocks, MembershipHeld, NEW r \in Requests, Step(r)
    PROVE  FreeIsOld' /\ AssignLocks' /\ MembershipHeld'
<1>1. FreeIsOld'
  <2>1. ASSUME NEW key \in Keys, db'[key].by = Nobody PROVE db'[key].now = db'[key].old
    <3>1. db'[key] = db[key] \/ Locks(r, key) \/ Leaves(r, key)
      BY Effects
    <3> QED
      BY <2>1, <3>1, CohortsAssumption DEF FreeIsOld, Locks, Leaves
  <2> QED
    BY <2>1 DEF FreeIsOld
<1>2. MembershipHeld'
  <2>1. ASSUME NEW q \in Requests, db'["membership"].by = q
        PROVE  req'[q].at \in {"assign", "served", "failed"}
    <3>1. CASE q # r
      BY <2>1, <3>1, OthersCells, OthersWait, KeyValues DEF MembershipHeld
    <3>2. CASE q = r
      <4>1. CASE Get(r) \/ Add(r) \/ Remove(r) \/ Find(r) \/ Choose(r)
        <5>1. db' = db
          BY <4>1 DEF Get, Add, Remove, Find, Choose
        <5> QED
          BY <2>1, <3>2, <4>1, <5>1, Stage DEF MembershipHeld
      <4>2. CASE Take(r) \/ Note(r)
        <5>1. db'["membership"].by = Nobody \/ db'["membership"] = db["membership"]
          BY <4>2, PreassignedOnly, KeyValues
        <5> QED
          BY <2>1, <3>2, <4>2, <5>1, Stage, CohortsAssumption DEF MembershipHeld
      <4>3. CASE Unlist(r)
        <5>1. req[r].seen.cohort \in Cohorts
          BY <4>3 DEF Unlist, TypeInv, HasCohort, Rows
        <5>2. db'["membership"] = db["membership"]
          BY <4>3, <5>1, UnlistOnly, KeyValues, CohortsAssumption
        <5> QED
          BY <2>1, <3>2, <4>3, <5>2, Stage DEF MembershipHeld
      <4>4. CASE Lock(r) \/ Assign(r) \/ Delete(r)
        BY <3>2, <4>4, Stage
      <4>5. CASE End(r) \/ Raises(r)
        BY <2>1, <3>2, <4>5, NothingHeld, KeyValues
      <4> QED
        BY <4>1, <4>2, <4>3, <4>4, <4>5 DEF Step
    <3> QED
      BY <3>1, <3>2
  <2> QED
    BY <2>1 DEF MembershipHeld
<1>3. AssignLocks'
  <2>1. ASSUME NEW q \in Requests, req'[q].at = "assign"
        PROVE  db'["membership"].by = q /\ db'["membership"].now = db'["membership"].old
    <3>1. CASE q # r
      BY <2>1, <3>1, OthersCells, OthersWait, KeyValues DEF AssignLocks
    <3>2. CASE q = r
      <4>1. Lock(r)
        BY <2>1, <3>2, Stage DEF Step
      <4>2. db["membership"].by = Nobody
        BY <4>1, Stage DEF Lock, Free, MembershipHeld
      <4>3. db["membership"].now = db["membership"].old
        BY <4>2, KeyValues DEF FreeIsOld
      <4>4. db'["membership"] = [by |-> r, now |-> db["membership"].now, old |-> db["membership"].old]
        BY <4>1, PutCellOnly, KeyValues DEF Lock
      <4> QED
        BY <3>2, <4>3, <4>4
    <3> QED
      BY <3>1, <3>2
  <2> QED
    BY <2>1 DEF AssignLocks
<1> QED
  BY <1>1, <1>2, <1>3

-----------------------------------------------------------------------------
(* The two records                                                         *)

\* What AgreeInv says while no changed membership has been deleted.
Uncrossed ==
    /\ TypeInv /\ FreeIsOld /\ AssignLocks /\ MembershipHeld
    /\ CohortHeld /\ UnlistedFirst /\ WritersAgree /\ OldAgree
    /\ "crossed" \notin accidents

\* The rows of the learner's cohort.
CohortKeys == {"membership"} \cup Cohorts

\* Only assign, delete and what follows them have locked such a row.
LEMMA WhoHolds ==
    ASSUME MembershipHeld, CohortHeld, NEW r \in Requests, NEW key \in CohortKeys,
           db[key].by = r
    PROVE  \/ req[r].at = "delete"
           \/ req[r].at \in {"assign", "served", "failed"} /\ db["membership"].by = r
BY DEF MembershipHeld, CohortHeld, CohortKeys

\* A request that has not locked the membership changes no committed record.
LEMMA OldKept ==
    ASSUME Uncrossed, NEW r \in Requests, Step(r), db["membership"].by # r,
           NEW key \in CohortKeys
    PROVE  db'[key].old = db[key].old
<1> USE DEF Uncrossed
<1>0. key \in Keys /\ key # "preassigned"
  BY CohortsAssumption DEF CohortKeys, Keys
<1>1. CASE Get(r) \/ Add(r) \/ Remove(r) \/ Find(r) \/ Choose(r)
  BY <1>1 DEF Get, Add, Remove, Find, Choose
<1>2. CASE Take(r) \/ Note(r)
  <2>1. db[key].by # r
    BY <1>2, Stage, WhoHolds
  <2> QED
    BY <1>0, <1>2, <2>1, PreassignedOnly
<1>3. CASE Lock(r) \/ Delete(r)
  <2>1. PICK value : db' = db \/ db' = Put(r, Only("membership", value))
    BY <1>3 DEF Lock, Delete
  <2>2. Put(r, Only("membership", value))[key].old = db[key].old
    BY <1>0 DEF Put
  <2> QED
    BY <2>1, <2>2
<1>4. CASE Unlist(r)
  <2>1. PICK f : db' = db \/ db' = Put(r, f)
    BY <1>4 DEF Unlist
  <2>2. Put(r, f)[key].old = db[key].old
    BY <1>0 DEF Put
  <2> QED
    BY <2>1, <2>2
<1>5. CASE Assign(r)
  BY <1>5, Stage DEF AssignLocks
<1>6. CASE End(r)
  <2>1. req[r].at \in {"served", "failed"} /\ db' = Commit(r, db)
    BY <1>6 DEF End
  <2>2. db[key].by # r
    BY <2>1, WhoHolds
  <2>3. Commit(r, db)[key] = IF db[key].by = r
                             THEN [by |-> Nobody, now |-> db[key].now, old |-> db[key].now]
                             ELSE db[key]
    BY <1>0, CommitCell
  <2> QED
    BY <2>1, <2>2, <2>3
<1>7. CASE Raises(r)
  <2>1. db' = Rollback(r)
    BY <1>7 DEF Raises
  <2>2. Rollback(r)[key] = IF db[key].by = r
                           THEN [by |-> Nobody, now |-> db[key].old, old |-> db[key].old]
                           ELSE db[key]
    BY <1>0, RollbackCell
  <2> QED
    BY <2>1, <2>2
<1> QED
  BY <1>1, <1>2, <1>3, <1>4, <1>5, <1>6, <1>7 DEF Step

\* Records agree as long as they stay.
LEMMA SameAgree ==
    ASSUME NEW f, NEW g, NEW row, \A c \in Cohorts : f[c] = g[c], Agree(f, row)
    PROVE  Agree(g, row)
BY DEF Agree

LEMMA OldKeptAgree ==
    ASSUME OldAgree, \A key \in CohortKeys : db'[key].old = db[key].old
    PROVE  OldAgree'
<1> DEFINE f == [c \in Cohorts |-> db[c].old]
           g == [c \in Cohorts |-> db'[c].old]
<1>1. \A c \in Cohorts : f[c] = g[c]
  BY DEF CohortKeys
<1>2. Agree(f, db["membership"].old) /\ db'["membership"].old = db["membership"].old
  BY DEF OldAgree, CohortKeys
<1> HIDE DEF f, g
<1>3. Agree(g, db'["membership"].old)
  BY <1>1, <1>2, SameAgree
<1> QED
  BY <1>3 DEF OldAgree, g

\* What the request sees, and what all others see.
VisibleAgree(r) == Agree([c \in Cohorts |-> Visible(r, c)], Visible(r, "membership"))

\* In assign a request sees what everybody sees.
LEMMA AssignSees ==
    ASSUME Uncrossed, NEW r \in Requests, req[r].at = "assign"
    PROVE  /\ db["membership"].by = r
           /\ db["membership"].now = db["membership"].old
           /\ \A c \in Cohorts : db[c].by # r
           /\ \A c \in Cohorts : db[c].old <=> c \in Members(db["membership"].now)
           /\ db["membership"].now \in Rows \cup {NoRow}
<1>1. db["membership"].by = r /\ db["membership"].now = db["membership"].old
  BY DEF Uncrossed, AssignLocks
<1>2. \A c \in Cohorts : db[c].by # r
  BY DEF Uncrossed, CohortHeld
<1>3. \A c \in Cohorts : db[c].old <=> c \in Members(db["membership"].old)
  BY DEF Uncrossed, OldAgree, Agree
<1>4. db["membership"].now \in Rows \cup {NoRow}
  BY SeenTyped, KeyValues DEF Uncrossed, TypeInv
<1> QED
  BY <1>1, <1>2, <1>3, <1>4

\* Neither record changes for a learner who is in the cohort already ...
LEMMA AssignedAlready ==
    ASSUME Uncrossed, NEW r \in Requests, req[r].at = "assign",
           db' = db \/ db' = Commit(r, db)
    PROVE  VisibleAgree(r)' /\ OldAgree'
<1>1. \A key \in CohortKeys : db'[key].old = db[key].old /\ Visible(r, key)' = db[key].old
  <2> SUFFICES ASSUME NEW key \in CohortKeys
               PROVE  db'[key].old = db[key].old /\ Visible(r, key)' = db[key].old
    OBVIOUS
  <2>1. key \in Keys
    BY DEF CohortKeys, Keys
  <2>2. db[key].by = r => db[key].now = db[key].old
    BY AssignSees DEF CohortKeys
  <2>3. Commit(r, db)[key] = IF db[key].by = r
                             THEN [by |-> Nobody, now |-> db[key].now, old |-> db[key].now]
                             ELSE db[key]
    BY <2>1, CommitCell
  <2> QED
    BY <2>2, <2>3 DEF Visible
<1>2. OldAgree'
  BY <1>1, OldKeptAgree DEF Uncrossed
<1> DEFINE f == [c \in Cohorts |-> db'[c].old]
           g == [c \in Cohorts |-> Visible(r, c)']
<1>3. Agree(f, db'["membership"].old)
  BY <1>2 DEF OldAgree
<1>4. (\A c \in Cohorts : f[c] = g[c]) /\ Visible(r, "membership")' = db'["membership"].old
  BY <1>1 DEF CohortKeys
<1> HIDE DEF f, g
<1>5. Agree(g, Visible(r, "membership")')
  BY <1>3, <1>4, SameAgree
<1> QED
  BY <1>2, <1>5 DEF VisibleAgree, g

\* ... and both change, for the request or for everybody, when assign moves it.
LEMMA AssignedNow ==
    ASSUME Uncrossed, NEW r \in Requests, req[r].at = "assign", db' = Written(r, Moved(r))
    PROVE  VisibleAgree(r)' /\ (r \notin Atomic => OldAgree')
<1> DEFINE row == db["membership"].now
           cohort == req[r].cohort
           new == Moved(r)["membership"]
<1>1. cohort \in Cohorts /\ Listed(r) = {cohort} \cup Members(row)
  BY DEF Uncrossed, TypeInv, HasCohort, Listed
<1>2. Listed(r) \subseteq Cohorts
  BY <1>1, AssignSees DEF Members, Rows
<1>3. DOMAIN Moved(r) = {"membership"} \cup Listed(r)
  BY DEF Moved
<1>4. \A c \in Listed(r) : Moved(r)[c] = (c = cohort)
  BY <1>2, CohortsAssumption DEF Moved
<1>5. new \in Rows /\ new.cohort = cohort
  <2>1. new = IF row = NoRow THEN [id |-> ids + 1, cohort |-> cohort]
              ELSE [row EXCEPT !.cohort = cohort]
    BY DEF Moved
  <2>2. ids + 1 \in Nat
    BY DEF Uncrossed, TypeInv
  <2> QED
    BY <1>1, <2>1, <2>2, AssignSees DEF Rows
<1>6. Members(new) = {cohort}
  BY <1>5, NoRowAssumption DEF Members
<1>7. ASSUME NEW c \in Cohorts
      PROVE  /\ Visible(r, c)' <=> c = cohort
             /\ r \notin Atomic => (db'[c].old <=> c = cohort)
  <2>1. db'[c] = IF r \in Atomic
                 THEN IF c \in DOMAIN Moved(r)
                      THEN [by |-> r, now |-> Moved(r)[c], old |-> db[c].old] ELSE db[c]
                 ELSE IF c \in DOMAIN Moved(r)
                      THEN [by |-> Nobody, now |-> Moved(r)[c], old |-> Moved(r)[c]]
                      ELSE IF db[c].by = r
                           THEN [by |-> Nobody, now |-> db[c].now, old |-> db[c].now]
                           ELSE db[c]
    BY WrittenCell, KeyValues
  <2>2. db[c].by # r /\ (db[c].old <=> c \in Members(row))
    BY AssignSees
  <2>3. CASE c \in Listed(r)
    <3>1. c \in DOMAIN Moved(r) /\ Moved(r)[c] = (c = cohort)
      BY <1>3, <1>4, <2>3
    <3>2. Visible(r, c)' = Moved(r)[c] /\ (r \notin Atomic => db'[c].old = Moved(r)[c])
      <4> DEFINE v == Moved(r)[c]
      <4>1. db'[c] = IF r \in Atomic THEN [by |-> r, now |-> v, old |-> db[c].old]
                     ELSE [by |-> Nobody, now |-> v, old |-> v]
        BY <2>1, <3>1
      <4> HIDE DEF v
      <4>2. Visible(r, c)' = v /\ (r \notin Atomic => db'[c].old = v)
        BY <4>1, CohortsAssumption DEF Visible
      <4> QED
        BY <4>2 DEF v
    <3> QED
      BY <3>1, <3>2
  <2>4. CASE c \notin Listed(r)
    <3>1. c \notin DOMAIN Moved(r) /\ c # cohort /\ c \notin Members(row)
      BY <1>1, <1>3, <2>4, CohortsAssumption
    <3>2. db'[c] = db[c]
      BY <2>1, <2>2, <3>1
    <3> QED
      BY <2>2, <3>1, <3>2 DEF Visible
  <2> QED
    BY <2>3, <2>4
<1>8. Visible(r, "membership")' = new /\ (r \notin Atomic => db'["membership"].old = new)
  <2>1. db'["membership"] =
          IF r \in Atomic
          THEN [by |-> r, now |-> new, old |-> db["membership"].old]
          ELSE [by |-> Nobody, now |-> new, old |-> new]
    <3>1. db'["membership"] =
            IF r \in Atomic
            THEN IF "membership" \in DOMAIN Moved(r)
                 THEN [by |-> r, now |-> new, old |-> db["membership"].old]
                 ELSE db["membership"]
            ELSE IF "membership" \in DOMAIN Moved(r)
                 THEN [by |-> Nobody, now |-> new, old |-> new]
                 ELSE IF db["membership"].by = r
                      THEN [by |-> Nobody, now |-> row, old |-> row]
                      ELSE db["membership"]
      BY WrittenCell, KeyValues
    <3> QED
      BY <1>3, <3>1
  <2> HIDE DEF new
  <2> QED
    BY <2>1, CohortsAssumption DEF Visible
<1> HIDE DEF row, cohort, new
<1>9. VisibleAgree(r)'
  <2> DEFINE g == [c \in Cohorts |-> Visible(r, c)']
  <2>1. Agree(g, new)
    BY <1>6, <1>7 DEF Agree
  <2> HIDE DEF g
  <2>2. Agree(g, Visible(r, "membership")')
    BY <1>8, <2>1
  <2> QED
    BY <2>2 DEF VisibleAgree, g
<1>10. r \notin Atomic => OldAgree'
  <2> SUFFICES ASSUME r \notin Atomic PROVE OldAgree'
    OBVIOUS
  <2> DEFINE g == [c \in Cohorts |-> db'[c].old]
  <2>1. Agree(g, new)
    BY <1>6, <1>7 DEF Agree
  <2> HIDE DEF g
  <2>2. Agree(g, db'["membership"].old)
    BY <1>8, <2>1
  <2> QED
    BY <2>2 DEF OldAgree, g
<1> QED
  BY <1>9, <1>10

\* Who deletes the membership it has read sees both records go.
LEMMA DeleteAgrees ==
    ASSUME Uncrossed, NEW r \in Requests, Delete(r), "crossed" \notin accidents'
    PROVE  VisibleAgree(r)'
<1> DEFINE row == req[r].seen
<1>1. req[r].at = "delete" /\ Free(r, "membership") /\ db["membership"].now = row /\ row \in Rows
  BY DEF Delete, HitIf, Uncrossed, TypeInv, HasCohort
<1>2. db["membership"].by # r
  BY <1>1 DEF Uncrossed, MembershipHeld
<1>3. db["membership"].old = row
  BY <1>1, <1>2, KeyValues DEF Free, Uncrossed, FreeIsOld
<1>4. db' = Put(r, Only("membership", NoRow))
  BY <1>1, NoRowAssumption DEF Delete
<1>5. Visible(r, "membership")' = NoRow
  <2>1. Put(r, Only("membership", NoRow))["membership"]
          = [by |-> r, now |-> NoRow, old |-> db["membership"].old]
    BY PutCellOnly, KeyValues
  <2> QED
    BY <1>4, <2>1 DEF Visible
<1>6. Members(row) = {row.cohort}
  BY <1>1, NoRowAssumption DEF Members
<1>7. ASSUME NEW c \in Cohorts PROVE Visible(r, c)' = FALSE
  <2>1. db'[c] = db[c]
    BY <1>4, PutOnly, KeyValues, CohortsAssumption
  <2>2. db[c].by = r => c = row.cohort
    BY <1>1 DEF Uncrossed, CohortHeld
  <2>3. db[row.cohort].by = r /\ ~db[row.cohort].now
    BY <1>1 DEF Uncrossed, UnlistedFirst
  <2>4. db[c].old <=> c = row.cohort
    BY <1>3, <1>6 DEF Uncrossed, OldAgree, Agree
  <2>5. db[c].now \in BOOLEAN /\ db[c].old \in BOOLEAN
    BY SeenTyped, KeyValues DEF Uncrossed, TypeInv
  <2>6. CASE c = row.cohort
    <3>1. Visible(r, c)' = db[c].now
      BY <2>1, <2>3, <2>6 DEF Visible
    <3> QED
      BY <2>3, <2>5, <2>6, <3>1
  <2>7. CASE c # row.cohort
    <3>1. Visible(r, c)' = db[c].old
      BY <2>1, <2>2, <2>7 DEF Visible
    <3> QED
      BY <2>4, <2>5, <2>7, <3>1
  <2> QED
    BY <2>6, <2>7
<1> DEFINE g == [c \in Cohorts |-> Visible(r, c)']
<1>8. Agree(g, NoRow)
  BY <1>7 DEF Agree, Members
<1> HIDE DEF g
<1>9. Agree(g, Visible(r, "membership")')
  BY <1>5, <1>8
<1> QED
  BY <1>9 DEF VisibleAgree, g

\* The end of a request shows everybody what it sees.
LEMMA EndAgrees ==
    ASSUME Uncrossed, NEW r \in Requests, End(r), db["membership"].by = r
    PROVE  OldAgree'
<1>1. ASSUME NEW key \in CohortKeys PROVE db'[key].old = Visible(r, key)
  <2>1. key \in Keys
    BY DEF CohortKeys, Keys
  <2>2. Commit(r, db)[key] = IF db[key].by = r
                             THEN [by |-> Nobody, now |-> db[key].now, old |-> db[key].now]
                             ELSE db[key]
    BY <2>1, CommitCell
  <2> QED
    BY <2>2 DEF End, Visible
<1> DEFINE f == [c \in Cohorts |-> Visible(r, c)]
           g == [c \in Cohorts |-> db'[c].old]
<1>2. Agree(f, Visible(r, "membership"))
  BY DEF End, Uncrossed, WritersAgree
<1>3. (\A c \in Cohorts : f[c] = g[c]) /\ db'["membership"].old = Visible(r, "membership")
  BY <1>1 DEF CohortKeys
<1> HIDE DEF f, g
<1>4. Agree(g, db'["membership"].old)
  BY <1>2, <1>3, SameAgree
<1> QED
  BY <1>4 DEF OldAgree, g

\* What assign does to the rows.
LEMMA AssignAgrees ==
    ASSUME Uncrossed, NEW r \in Requests, Assign(r)
    PROVE  /\ VisibleAgree(r)'
           /\ db["membership"].by = r
           /\ r \notin Atomic => OldAgree'
           /\ r \in Atomic => OldAgree' \/ db' = Written(r, Moved(r))
<1>1. req[r].at = "assign"
  BY DEF Assign
<1>2. \/ db' = db \/ db' = Commit(r, db)
      \/ db' = Written(r, Moved(r))
  BY DEF Assign
<1> QED
  BY <1>1, <1>2, AssignSees, AssignedAlready, AssignedNow

\* The committed records agree after every step.
LEMMA OldAgreeKept ==
    ASSUME Uncrossed, NEW r \in Requests, Step(r)
    PROVE  OldAgree'
<1>1. CASE db["membership"].by # r
  BY <1>1, OldKept, OldKeptAgree DEF Uncrossed
<1>2. CASE db["membership"].by = r
  <2>1. req[r].at \in {"assign", "served", "failed"}
    BY <1>2 DEF Uncrossed, MembershipHeld
  <2>2. Assign(r) \/ End(r) \/ Raises(r)
    BY <2>1, Stage DEF Step, Lock, Unlist, Delete, Uncrossed
  <2>3. CASE Assign(r)
    <3>1. CASE r \notin Atomic
      BY <2>3, <3>1, AssignAgrees
    <3>2. CASE r \in Atomic
      <4>1. OldAgree' \/ db' = Written(r, Moved(r))
        BY <2>3, <3>2, AssignAgrees
      <4>2. CASE db' = Written(r, Moved(r))
        <5>1. ASSUME NEW key \in CohortKeys PROVE db'[key].old = db[key].old
          <6>1. key \in Keys /\ db' = Put(r, Moved(r))
            BY <3>2, <4>2 DEF Written, CohortKeys, Keys
          <6>2. Put(r, Moved(r))[key].old = db[key].old
            BY <6>1 DEF Put
          <6> QED
            BY <6>1, <6>2
        <5> QED
          BY <5>1, OldKeptAgree DEF Uncrossed
      <4> QED
        BY <4>1, <4>2
    <3> QED
      BY <3>1, <3>2
  <2>4. CASE End(r)
    BY <1>2, <2>4, EndAgrees
  <2>5. CASE Raises(r)
    <3>1. ASSUME NEW key \in CohortKeys PROVE db'[key].old = db[key].old
      <4>1. key \in Keys
        BY DEF CohortKeys, Keys
      <4>2. Rollback(r)[key] = IF db[key].by = r
                               THEN [by |-> Nobody, now |-> db[key].old, old |-> db[key].old]
                               ELSE db[key]
        BY <4>1, RollbackCell
      <4> QED
        BY <2>5, <4>2 DEF Raises
    <3> QED
      BY <3>1, OldKeptAgree DEF Uncrossed
  <2> QED
    BY <2>2, <2>3, <2>4, <2>5
<1> QED
  BY <1>1, <1>2

\* So does what the request sees that has written them.
LEMMA WriterAgrees ==
    ASSUME Uncrossed, "crossed" \notin accidents', NEW r \in Requests, Step(r),
           db'["membership"].by = r, req'[r].at \in {"served", "failed"}
    PROVE  VisibleAgree(r)'
<1> USE DEF Uncrossed
<1>1. CASE Get(r) \/ Add(r) \/ Remove(r) \/ Find(r) \/ Choose(r)
  <2>1. db' = db
    BY <1>1 DEF Get, Add, Remove, Find, Choose
  <2> QED
    BY <1>1, <2>1, Stage DEF MembershipHeld
<1>2. CASE Take(r) \/ Note(r)
  <2>1. db'["membership"] = db["membership"] \/ db'["membership"].by = Nobody
    BY <1>2, PreassignedOnly, KeyValues, CohortsAssumption
  <2> QED
    BY <1>2, <2>1, Stage, CohortsAssumption DEF MembershipHeld
<1>3. CASE Lock(r) \/ Unlist(r) \/ End(r) \/ Raises(r)
  BY <1>3, Stage
<1>4. CASE Assign(r)
  BY <1>4, AssignAgrees
<1>5. CASE Delete(r)
  BY <1>5, DeleteAgrees
<1> QED
  BY <1>1, <1>2, <1>3, <1>4, <1>5 DEF Step

\* And what the others see that had.
LEMMA OtherAgrees ==
    ASSUME Uncrossed, NEW r \in Requests, Step(r), NEW q \in Requests, q # r,
           db'["membership"].by = q, req'[q].at \in {"served", "failed"}
    PROVE  VisibleAgree(q)'
<1>1. db'["membership"] = db["membership"] /\ req'[q] = req[q]
  BY OthersCells, OthersWait, KeyValues DEF Uncrossed
<1>2. VisibleAgree(q)
  BY <1>1 DEF Uncrossed, WritersAgree, VisibleAgree
<1>3. ASSUME NEW key \in CohortKeys PROVE Visible(q, key)' = Visible(q, key)
  <2>1. key \in Keys
    BY DEF CohortKeys, Keys
  <2>2. db'[key].old = db[key].old
    BY <1>1, OldKept
  <2>3. db[key].by = q \/ db'[key].by = q => db'[key] = db[key]
    BY <2>1, OthersCells DEF Uncrossed
  <2> QED
    BY <2>2, <2>3 DEF Visible
<1> DEFINE f == [c \in Cohorts |-> Visible(q, c)]
           g == [c \in Cohorts |-> Visible(q, c)']
<1>4. (\A c \in Cohorts : f[c] = g[c]) /\ Visible(q, "membership")' = Visible(q, "membership")
  BY <1>3 DEF CohortKeys
<1>5. Agree(f, Visible(q, "membership"))
  BY <1>2 DEF VisibleAgree
<1> HIDE DEF f, g
<1>6. Agree(g, Visible(q, "membership")')
  BY <1>4, <1>5, SameAgree
<1> QED
  BY <1>6 DEF VisibleAgree, g

\* The invariant is kept while no changed membership is deleted.
LEMMA UncrossedKept ==
    ASSUME Uncrossed, "crossed" \notin accidents', NEW r \in Requests, Step(r)
    PROVE  CohortHeld' /\ UnlistedFirst' /\ WritersAgree' /\ OldAgree'
<1> USE DEF Uncrossed
<1>1. ASSUME NEW q \in Requests, NEW c \in Cohorts, db'[c].by = q
      PROVE  \/ req'[q].at = "delete" /\ req'[q].seen.cohort = c
             \/ req'[q].at \in {"served", "failed"} /\ db'["membership"].by = q
  <2>0. c \in Keys /\ c # "membership" /\ c # "preassigned" /\ "membership" \in Keys
    BY KeyValues, CohortsAssumption
  <2>1. CASE q # r
    <3>1. db'[c] = db[c] /\ req'[q] = req[q]
      BY <1>1, <2>0, <2>1, OthersCells, OthersWait
    <3>2. db["membership"].by = q => db'["membership"] = db["membership"]
      BY <2>0, <2>1, OthersCells
    <3> QED
      BY <1>1, <3>1, <3>2 DEF CohortHeld
  <2>2. CASE q = r
    <3>1. CASE Get(r) \/ Add(r) \/ Remove(r) \/ Find(r) \/ Choose(r)
      <4>1. db' = db
        BY <3>1 DEF Get, Add, Remove, Find, Choose
      <4> QED
        BY <1>1, <2>2, <3>1, <4>1, Stage DEF CohortHeld
    <3>2. CASE Take(r) \/ Note(r)
      <4>1. db'[c] = db[c] \/ db'[c].by = Nobody
        BY <2>0, <3>2, PreassignedOnly
      <4> QED
        BY <1>1, <2>2, <3>2, <4>1, Stage, CohortsAssumption DEF CohortHeld
    <3>3. CASE Lock(r)
      <4>1. db'[c] = db[c]
        BY <2>0, <3>3, MembershipOnly
      <4> QED
        BY <1>1, <2>2, <3>3, <4>1, Stage DEF CohortHeld
    <3>4. CASE Assign(r)
      <4>1. req'[r].at \in {"served", "failed"} /\ db["membership"].by = r
        BY <3>4, Stage, AssignAgrees
      <4>2. db[c].by # r
        BY <3>4, AssignSees DEF Assign
      <4>3. db' = Written(r, Moved(r))
        <5>1. Commit(r, db)[c] = IF db[c].by = r
                                 THEN [by |-> Nobody, now |-> db[c].now, old |-> db[c].now]
                                 ELSE db[c]
          BY <2>0, CommitCell
        <5>2. db' \in {db, Commit(r, db), Written(r, Moved(r))}
          BY <3>4 DEF Assign
        <5> QED
          BY <1>1, <2>2, <4>2, <5>1, <5>2
      <4>4. r \in Atomic
        <5>1. db'[c] = IF r \in Atomic
                       THEN IF c \in DOMAIN Moved(r)
                            THEN [by |-> r, now |-> Moved(r)[c], old |-> db[c].old] ELSE db[c]
                       ELSE IF c \in DOMAIN Moved(r)
                            THEN [by |-> Nobody, now |-> Moved(r)[c], old |-> Moved(r)[c]]
                            ELSE IF db[c].by = r
                                 THEN [by |-> Nobody, now |-> db[c].now, old |-> db[c].now]
                                 ELSE db[c]
          BY <2>0, <4>3, WrittenCell
        <5> QED
          BY <1>1, <2>2, <4>2, <5>1, CohortsAssumption
      <4>5. db' = Put(r, Moved(r))
        BY <4>3, <4>4 DEF Written
      <4>6. Put(r, Moved(r))["membership"].by = r
        BY <2>0, <4>1 DEF Put
      <4> QED
        BY <2>2, <4>1, <4>5, <4>6
    <3>5. CASE Unlist(r)
      <4>1. req[r].at = "unlist" /\ req'[r].at = "delete" /\ req'[r].seen = req[r].seen
        BY <3>5, Stage
      <4>2. c = req[r].seen.cohort
        <5>1. db[c].by # r
          BY <4>1 DEF CohortHeld
        <5> QED
          BY <1>1, <2>0, <2>2, <3>5, <5>1, UnlistOnly
      <4> QED
        BY <2>2, <4>1, <4>2
    <3>6. CASE Delete(r)
      <4>1. req'[r].at = "served"
        BY <3>6, Stage
      <4>2. db' = Put(r, Only("membership", NoRow))
        BY <3>6, NoRowAssumption DEF Delete, HitIf, TypeInv, HasCohort
      <4>3. Put(r, Only("membership", NoRow))["membership"]
              = [by |-> r, now |-> NoRow, old |-> db["membership"].old]
        BY <2>0, PutCellOnly
      <4> QED
        BY <2>2, <4>1, <4>2, <4>3
    <3>7. CASE End(r) \/ Raises(r)
      BY <1>1, <2>0, <2>2, <3>7, NothingHeld
    <3> QED
      BY <3>1, <3>2, <3>3, <3>4, <3>5, <3>6, <3>7 DEF Step
  <2> QED
    BY <2>1, <2>2
<1>2. ASSUME NEW q \in Requests, req'[q].at = "delete"
      PROVE  db'[req'[q].seen.cohort].by = q /\ ~db'[req'[q].seen.cohort].now
  <2>1. CASE q # r
    <3> DEFINE c == req[q].seen.cohort
    <3>1. req'[q] = req[q]
      BY <2>1, OthersWait
    <3>2. req[q].seen \in Rows
      BY <1>2, <3>1 DEF TypeInv, HasCohort
    <3>3. c \in Keys
      BY <3>2, KeyValues DEF Rows
    <3>4. db[c].by = q /\ ~db[c].now
      BY <1>2, <3>1 DEF UnlistedFirst
    <3>5. db'[c] = db[c]
      BY <2>1, <3>3, <3>4, OthersCells
    <3> QED
      BY <3>1, <3>4, <3>5
  <2>2. CASE q = r
    <3> DEFINE c == req[r].seen.cohort
    <3>1. Unlist(r)
      BY <1>2, <2>2, Stage DEF Step
    <3>2. c \in Keys /\ req'[r].seen = req[r].seen
      BY <3>1, Stage, KeyValues DEF Unlist, TypeInv, HasCohort, Rows
    <3>3. db' = Put(r, Only(c, FALSE))
      BY <3>1 DEF Unlist, HitIf
    <3>4. Put(r, Only(c, FALSE))[c] = [by |-> r, now |-> FALSE, old |-> db[c].old]
      BY <3>2, PutCellOnly
    <3> HIDE DEF c
    <3>5. db'[c] = [by |-> r, now |-> FALSE, old |-> db[c].old]
      BY <3>3, <3>4
    <3>6. db'[c].by = r /\ db'[c].now = FALSE
      BY <3>5
    <3> QED
      BY <2>2, <3>2, <3>6 DEF c
  <2> QED
    BY <2>1, <2>2
<1>3. ASSUME NEW q \in Requests, db'["membership"].by = q, req'[q].at \in {"served", "failed"}
      PROVE  VisibleAgree(q)'
  BY <1>3, WriterAgrees, OtherAgrees
<1>4. WritersAgree'
  BY <1>3 DEF WritersAgree, VisibleAgree
<1>5. OldAgree'
  BY OldAgreeKept
<1> QED
  BY <1>1, <1>2, <1>4, <1>5 DEF CohortHeld, UnlistedFirst

LEMMA AgreeAtFirst == Init => AgreeInv
<1> SUFFICES ASSUME Init PROVE AgreeInv
  OBVIOUS
<1>1. TypeInv
  BY TypesAtFirst
<1>2. PICK c \in Cohorts \cup {NoRow} :
         db = [key \in Keys |->
                  IF key = "membership" /\ c # NoRow THEN Cell([id |-> 1, cohort |-> c])
                  ELSE IF key \in Cohorts THEN Cell(key = c) ELSE Cell(NoRow)]
  BY DEF Init
<1>3. \A key \in Keys : db[key].by = Nobody /\ db[key].now = db[key].old
  BY <1>2 DEF Cell
<1>4. \A r \in Requests : req[r].at = "new"
  BY DEF Init, New
<1>5. FreeIsOld /\ AssignLocks /\ MembershipHeld
  BY <1>3, <1>4, CohortsAssumption, KeyValues DEF FreeIsOld, AssignLocks, MembershipHeld
<1>6. CohortHeld /\ UnlistedFirst /\ WritersAgree
  BY <1>3, <1>4, CohortsAssumption, KeyValues DEF CohortHeld, UnlistedFirst, WritersAgree
<1>7. OldAgree
  <2> DEFINE row == IF c # NoRow THEN [id |-> 1, cohort |-> c] ELSE NoRow
  <2>1. db["membership"].old = row
    BY <1>2, KeyValues, CohortsAssumption DEF Cell
  <2>2. \A k \in Cohorts : db[k].old = (k = c)
    BY <1>2, KeyValues, CohortsAssumption DEF Cell
  <2>3. ASSUME NEW k \in Cohorts PROVE k = c <=> k \in Members(row)
    <3>1. CASE c = NoRow
      BY <3>1, NoRowAssumption DEF Members
    <3>2. CASE c # NoRow
      <4>1. row \in Rows /\ row.cohort = c
        BY <3>2 DEF Rows
      <4> HIDE DEF row
      <4> QED
        BY <4>1, NoRowAssumption DEF Members
    <3> QED
      BY <3>1, <3>2
  <2> HIDE DEF row
  <2> DEFINE f == [k \in Cohorts |-> db[k].old]
  <2>4. \A k \in Cohorts : f[k] <=> k \in Members(row)
    BY <2>2, <2>3
  <2> HIDE DEF f
  <2>5. Agree(f, db["membership"].old)
    BY <2>1, <2>4 DEF Agree
  <2> QED
    BY <2>5 DEF OldAgree, f
<1> QED
  BY <1>1, <1>5, <1>6, <1>7 DEF AgreeInv

LEMMA AgreeKept == AgreeInv /\ [Next]_vars => AgreeInv'
<1> SUFFICES ASSUME AgreeInv, [Next]_vars PROVE AgreeInv'
  OBVIOUS
<1>1. TypeInv'
  BY TypesKept DEF AgreeInv
<1>2. CASE UNCHANGED <<db, req, accidents>>
  BY <1>1, <1>2 DEF AgreeInv, FreeIsOld, AssignLocks, MembershipHeld, CohortHeld, UnlistedFirst,
                    WritersAgree, OldAgree, Agree, Visible
<1>3. CASE Register \/ UNCHANGED vars
  BY <1>2, <1>3 DEF Register, vars
<1>4. CASE \E r \in Requests : Get(r) \/ Add(r) \/ Remove(r) \/ Serve(r) \/ Raises(r)
  <2>1. PICK r \in Requests : Step(r)
    BY <1>4 DEF Serve, Step
  <2>2. FreeIsOld' /\ AssignLocks' /\ MembershipHeld'
    BY <2>1, LocksKept DEF AgreeInv
  <2>3. ASSUME "crossed" \notin accidents'
        PROVE  CohortHeld' /\ UnlistedFirst' /\ WritersAgree' /\ OldAgree'
    <3>1. accidents \subseteq accidents'
      BY <2>1 DEF Step, Get, Add, Remove, Find, Choose, Take, Lock, Assign, Unlist, Delete,
                  Note, End, Raises, HitIf
    <3>2. Uncrossed
      BY <2>3, <3>1 DEF Uncrossed, AgreeInv
    <3> QED
      BY <2>1, <2>3, <3>2, UncrossedKept
  <2> QED
    BY <1>1, <2>2, <2>3 DEF AgreeInv
<1> QED
  BY <1>3, <1>4 DEF Next

\* What the invariant says of the rows is what the property says of sets.
LEMMA AgreeMeans == AgreeInv => TablesAgree
<1> SUFFICES ASSUME AgreeInv, "crossed" \notin accidents
             PROVE  {c \in Cohorts : db[c].old} = Members(db["membership"].old)
  BY DEF TablesAgree
<1>1. \A c \in Cohorts : db[c].old <=> c \in Members(db["membership"].old)
  BY DEF AgreeInv, OldAgree, Agree
<1>2. db["membership"].old \in Rows \cup {NoRow}
  BY SeenTyped, KeyValues DEF AgreeInv, TypeInv
<1>3. Members(db["membership"].old) \subseteq Cohorts
  BY <1>2 DEF Members, Rows
<1> QED
  BY <1>1, <1>3

\* The CohortMembership of a learner and the users of the cohorts agree in all that
\* is committed, however many requests move the learner and wherever they are
\* rolled back, as long as no membership that has changed is deleted (models.py).
THEOREM RecordsAgree == Spec => []TablesAgree
BY AgreeAtFirst, AgreeKept, AgreeMeans, PTL DEF Spec
-----------------------------------------------------------------------------
(* Answers and promises                                                    *)

\* Without staff, and where get_cohort moves nobody from one cohort to another.
Calm == accidents \subseteq {"lost"}
Unstaffed == accidents \subseteq {"raced", "lost"}

\* A request asks for the cohort, or preassigns one to an address without account.
AsAsked(r) ==
    LET q == req[r]
    IN  \/ q.kind = "none" /\ q.at = "new" /\ q.got = NoRow
        \/ /\ q.kind = "get" /\ registered
           /\ q.at \in {"find", "choose", "take", "lock", "assign", "served", "done"}
        \/ q.kind = "preassign" /\ q.at \in {"note", "served", "done"} /\ q.got = NoRow

\* A learner who has a cohort does not lose it.
Lasting == LET m == db["membership"] IN m.old # NoRow => m.now # NoRow

\* A learner who has a cohort keeps it.
Settled == LET m == db["membership"] IN m.old # NoRow => m.now = m.old

\* The learner is in the cohort that a request was told, in the eyes of the request
\* as long as it lasts, and of everybody afterwards.
Is(row, c) == row # NoRow /\ row.cohort = c
Told(r) ==
    LET q == req[r]
    IN  q.got # NoRow => /\ q.at = "served" => Is(Visible(r, "membership"), q.got)
                         /\ q.at = "done" => Is(db["membership"].old, q.got)

\* The cohorts that a learner may get to whom one has been promised.
Promised(c) ==
    \/ c = promised
    \/ \E q \in Requests : req[q].kind = "preassign" /\ req[q].cohort = c
KeepsPromise(row) == row # NoRow => Promised(row.cohort)

\* The rows hold nothing else.
RowsKeep ==
    \A key \in {"membership", "preassigned"} :
        KeepsPromise(db[key].now) /\ KeepsPromise(db[key].old)

\* The preassignment stays until the learner has a cohort, or a task is about to
\* assign it.
StillPromised ==
    registered /\ db["membership"].old = NoRow =>
        db["preassigned"].old # NoRow \/ \E s \in Requests : Between(s)

\* What is to be deleted has been read.
TakesSeen(r) == req[r].at = "take" => req[r].seen # NoRow

\* A request that works on another cohort comes too late.
ChoiceKeeps(r) ==
    req[r].kind = "get" /\ req[r].at \in {"take", "lock", "assign"} =>
        Promised(req[r].cohort) \/ db["membership"].old # NoRow

\* Who has taken the preassignment commits it together with the membership.
TakenWithMembership(r) ==
    LET m == db["membership"]
        p == db["preassigned"]
    IN  p.by = r =>
          /\ req[r].at \in {"lock", "assign", "served"}
          /\ req[r].at = "served" /\ p.now = NoRow =>
                m.old # NoRow \/ (m.by = r /\ m.now # NoRow)

\* The learner has not registered, or was promised a cohort.
Promising == accidents = {} /\ (registered => promised # NoRow)

PromiseInv ==
    /\ RowsKeep
    /\ StillPromised
    /\ \A r \in Requests : ChoiceKeeps(r) /\ TakesSeen(r) /\ TakenWithMembership(r)

\* Who is assigned a second time has had a cohort.
RacedLate ==
    accidents \subseteq {"raced"} /\ "raced" \in accidents => db["membership"].old # NoRow

\* The inductive invariant of both.
AnswerInv ==
    /\ TypeInv /\ FreeIsOld /\ AssignLocks /\ MembershipHeld
    /\ ~registered => promised = NoRow
    /\ Unstaffed => Lasting /\ \A r \in Requests : AsAsked(r)
    /\ Calm => Settled /\ \A r \in Requests : Told(r)
    /\ RacedLate
    /\ Promising => PromiseInv

\* Accidents have happened for good, and a step without staff is one of these.
LEMMA UnstaffedStep ==
    ASSUME NEW r \in Requests, Step(r), Unstaffed', Unstaffed => AsAsked(r)
    PROVE  /\ Unstaffed /\ AsAsked(r)
           /\ accidents \subseteq accidents' /\ UNCHANGED <<registered, promised>>
           /\ \/ Get(r) \/ (Add(r) /\ ~registered) \/ Find(r) \/ Choose(r) \/ Take(r) \/ Lock(r)
              \/ Assign(r) \/ Note(r) \/ End(r) \/ Raises(r)
<1>1. accidents \subseteq accidents' /\ UNCHANGED <<registered, promised>>
  BY DEF Step, Get, Add, Remove, Find, Choose, Take, Lock, Assign, Unlist, Delete, Note, End,
         Raises, HitIf
<1>2. Unstaffed
  BY <1>1 DEF Unstaffed
<1>3. ~Remove(r) /\ (Add(r) => ~registered)
  <2>1. Remove(r) \/ (Add(r) /\ registered) => "staffed" \in accidents'
    BY DEF Remove, Add, HitIf
  <2> QED
    BY <2>1 DEF Unstaffed
<1>4. ~Unlist(r) /\ ~Delete(r)
  BY <1>2 DEF Unlist, Delete, AsAsked
<1> QED
  BY <1>1, <1>2, <1>3, <1>4 DEF Step

LEMMA CalmStep ==
    ASSUME TypeInv, NEW r \in Requests, Step(r), Calm', Calm => AsAsked(r)
    PROVE  /\ Calm /\ accidents \subseteq accidents' /\ UNCHANGED <<registered, promised>>
           /\ \/ Get(r) \/ (Add(r) /\ ~registered) \/ Find(r) \/ Choose(r) \/ Take(r) \/ Lock(r)
              \/ Assign(r) \/ Note(r) \/ End(r) \/ Raises(r)
<1>1. accidents \subseteq accidents'
  BY DEF Step, Get, Add, Remove, Find, Choose, Take, Lock, Assign, Unlist, Delete, Note, End,
         Raises, HitIf
<1>2. Calm /\ Unstaffed'
  BY <1>1 DEF Calm, Unstaffed
<1> QED
  BY <1>2, UnstaffedStep

\* What the steps do to the request, as far as the answers go.
Takes(r, kind, stages, got) ==
    /\ req'[r].kind = kind
    /\ req'[r].at \in stages
    /\ req'[r].got \in got

LEMMA Served ==
    ASSUME TypeInv, NEW r \in Requests
    PROVE  /\ Get(r) => Takes(r, "get", {"find"}, {req[r].got}) /\ req[r].at = "new"
           /\ Add(r) /\ ~registered =>
                 Takes(r, "preassign", {"note"}, {req[r].got}) /\ req[r].at = "new"
           /\ Find(r) /\ req[r].kind = "get" =>
                 LET row == Visible(r, "membership")
                 IN  \/ Takes(r, "get", {"choose"}, {NoRow})
                     \/ row # NoRow /\ Takes(r, "get", {"served"}, {row.cohort})
           /\ Choose(r) => Takes(r, req[r].kind, {"lock", "take"}, {req[r].got})
           /\ Take(r) => Takes(r, req[r].kind, {"lock"}, {req[r].got})
           /\ Lock(r) => Takes(r, req[r].kind, {"assign"}, {req[r].got})
           /\ Assign(r) /\ req[r].kind = "get" => Takes(r, "get", {"served"}, {req[r].cohort})
           /\ Note(r) => Takes(r, req[r].kind, {"served"}, {req[r].got})
           /\ End(r) => Takes(r, req[r].kind, {"done"}, {req[r].got})
           /\ Raises(r) => Takes(r, req[r].kind, {"done"}, {NoRow})
<1> USE DEF TypeInv, ReqTyped, Takes
<1>1. Get(r) => Takes(r, "get", {"find"}, {req[r].got}) /\ req[r].at = "new"
  BY DEF Get
<1>2. Add(r) /\ ~registered =>
         Takes(r, "preassign", {"note"}, {req[r].got}) /\ req[r].at = "new"
  BY DEF Add
<1>3. ASSUME Find(r), req[r].kind = "get", NEW row, row = Visible(r, "membership")
      PROVE  \/ Takes(r, "get", {"choose"}, {NoRow})
             \/ row # NoRow /\ Takes(r, "get", {"served"}, {row.cohort})
  <2>1. req' = [req EXCEPT ![r].at = IF row = NoRow THEN "choose" ELSE "served",
                           ![r].got = IF row = NoRow THEN NoRow ELSE row.cohort]
    BY <1>3 DEF Find
  <2> QED
    BY <1>3, <2>1
<1>4. Choose(r) => Takes(r, req[r].kind, {"lock", "take"}, {req[r].got})
  <2> SUFFICES ASSUME Choose(r) PROVE Takes(r, req[r].kind, {"lock", "take"}, {req[r].got})
    OBVIOUS
  <2>1. PICK p, c : req' = [req EXCEPT ![r].at = IF p = NoRow THEN "lock" ELSE "take",
                                       ![r].cohort = c, ![r].seen = p]
    BY DEF Choose
  <2> QED
    BY <2>1
<1>5. Take(r) => Takes(r, req[r].kind, {"lock"}, {req[r].got})
  BY DEF Take, Go
<1>6. Lock(r) => Takes(r, req[r].kind, {"assign"}, {req[r].got})
  BY DEF Lock, Go
<1>7. Assign(r) /\ req[r].kind = "get" => Takes(r, "get", {"served"}, {req[r].cohort})
  BY DEF Assign
<1>8. Note(r) => Takes(r, req[r].kind, {"served"}, {req[r].got})
  BY DEF Note, Go
<1>9. End(r) => Takes(r, req[r].kind, {"done"}, {req[r].got})
  BY DEF End, Go
<1>10. Raises(r) => Takes(r, req[r].kind, {"done"}, {NoRow})
  BY DEF Raises
<1> HIDE DEF TypeInv, ReqTyped, Takes
<1> QED
  BY <1>1, <1>2, <1>3, <1>4, <1>5, <1>6, <1>7, <1>8, <1>9, <1>10

\* Requests stay what they were asked.
LEMMA AskedKept ==
    ASSUME TypeInv, NEW r \in Requests, Step(r), Unstaffed', Unstaffed => \A q \in Requests : AsAsked(q),
           NEW q \in Requests
    PROVE  AsAsked(q)'
<1>1. CASE q # r
  <2>1. req'[q] = req[q] /\ registered' = registered /\ AsAsked(q)
    BY <1>1, UnstaffedStep, OthersWait
  <2> QED
    BY <2>1 DEF AsAsked
<1>2. CASE q = r
  <2>1. AsAsked(r) /\ registered' = registered
    BY UnstaffedStep
  <2>2. CASE Get(r)
    <3>1. registered /\ Takes(r, "get", {"find"}, {req[r].got})
      BY <2>2, Served DEF Get
    <3> QED
      BY <1>2, <2>1, <3>1 DEF AsAsked, Takes
  <2>3. CASE Add(r) /\ ~registered
    <3>1. req[r].at = "new" /\ Takes(r, "preassign", {"note"}, {req[r].got})
      BY <2>3, Served
    <3> QED
      BY <1>2, <2>1, <3>1 DEF AsAsked, Takes
  <2>4. CASE Find(r) \/ Choose(r) \/ Take(r) \/ Lock(r) \/ Assign(r)
    <3>1. req[r].kind = "get" /\ registered
      BY <2>1, <2>4 DEF AsAsked, Find, Choose, Take, Lock, Assign
    <3>2. req'[r].kind = "get" /\ req'[r].at \in {"choose", "take", "lock", "assign", "served"}
      BY <2>4, <3>1, Served DEF Takes
    <3> QED
      BY <1>2, <2>1, <3>1, <3>2 DEF AsAsked
  <2>5. CASE Note(r)
    <3>1. req[r].kind = "preassign" /\ req[r].got = NoRow
      BY <2>1, <2>5 DEF AsAsked, Note
    <3> QED
      BY <1>2, <2>5, <3>1, Served DEF AsAsked, Takes
  <2>6. CASE End(r) \/ Raises(r)
    <3>1. req[r].at # "new"
      BY <2>6 DEF End, Raises
    <3> QED
      BY <1>2, <2>1, <2>6, <3>1, Served DEF AsAsked, Takes
  <2> QED
    BY <2>2, <2>3, <2>4, <2>5, <2>6, UnstaffedStep
<1> QED
  BY <1>1, <1>2

\* What a step does to the membership.
Moves(r, m, n) ==
    \/ n = m
    \/ Lock(r) /\ m.by = Nobody /\ n = [by |-> r, now |-> m.old, old |-> m.old]
    \/ Assign(r) /\ m.by = r /\ m.now = m.old /\ n = [by |-> Nobody, now |-> m.old, old |-> m.old]
    \/ /\ Assign(r) /\ m.by = r /\ m.now = NoRow /\ m.old = NoRow
       /\ Is(n.now, req[r].cohort)
       /\ \/ n.by = r /\ n.old = NoRow
          \/ n.by = Nobody /\ n.old = n.now
    \/ End(r) /\ m.by = r /\ n = [by |-> Nobody, now |-> m.now, old |-> m.now]
    \/ Raises(r) /\ m.by = r /\ n = [by |-> Nobody, now |-> m.old, old |-> m.old]

\* What get_cohort makes of the membership.
LEMMA Assigns ==
    ASSUME TypeInv, AssignLocks, NEW r \in Requests, Assign(r), Calm', req[r].kind = "get",
           NEW m, m = db["membership"], NEW n, n = db'["membership"]
    PROVE  /\ m.by = r /\ m.now = m.old
           /\ \/ n = m /\ Is(m.old, req[r].cohort)
              \/ /\ n = [by |-> Nobody, now |-> m.old, old |-> m.old]
                 /\ Is(m.old, req[r].cohort)
              \/ /\ m.now = NoRow /\ Is(n.now, req[r].cohort)
                 /\ \/ r \in Atomic /\ n.by = r /\ n.old = NoRow
                    \/ n.by = Nobody /\ n.old = n.now
<1> DEFINE c == req[r].cohort
           f == Moved(r)
<1>1. m.by = r /\ m.now = m.old /\ m.now \in Rows \cup {NoRow} /\ c \in Cohorts
  BY SeenTyped, KeyValues DEF TypeInv, HasCohort, Assign, AssignLocks
<1>2. \/ Members(m.now) = {c} /\ (db' = db \/ db' = Commit(r, db))
      \/ /\ Members(m.now) # {c} /\ db' = Written(r, f)
         /\ accidents' = IF m.now # NoRow THEN accidents \cup {"raced"} ELSE accidents
  BY DEF Assign, HitIf
<1>3. CASE Members(m.now) = {c} /\ (db' = db \/ db' = Commit(r, db))
  <2>1. m.now # NoRow /\ m.now.cohort = c
    BY <1>1, <1>3, NoRowAssumption DEF Members
  <2>2. Commit(r, db)["membership"] = IF m.by = r THEN [by |-> Nobody, now |-> m.now, old |-> m.now]
                                      ELSE m
    BY CommitCell, KeyValues
  <2> QED
    BY <1>1, <1>3, <2>1, <2>2 DEF Is
<1>4. CASE /\ Members(m.now) # {c} /\ db' = Written(r, f)
           /\ accidents' = IF m.now # NoRow THEN accidents \cup {"raced"} ELSE accidents
  <2>1. m.now = NoRow
    BY <1>4 DEF Calm
  <2>2. "membership" \in DOMAIN f /\ f["membership"] = [id |-> ids + 1, cohort |-> c]
    BY <2>1 DEF Moved
  <2>3. [id |-> ids + 1, cohort |-> c] \in Rows
    BY <1>1 DEF Rows, TypeInv
  <2>4. Is(f["membership"], c)
    BY <2>2, <2>3, NoRowAssumption DEF Is
  <2> HIDE DEF f
  <2>5. n = IF r \in Atomic
            THEN IF "membership" \in DOMAIN f
                 THEN [by |-> r, now |-> f["membership"], old |-> m.old] ELSE m
            ELSE IF "membership" \in DOMAIN f
                 THEN [by |-> Nobody, now |-> f["membership"], old |-> f["membership"]]
                 ELSE IF m.by = r
                      THEN [by |-> Nobody, now |-> m.now, old |-> m.now]
                      ELSE m
    BY <1>4, WrittenCell, KeyValues
  <2> QED
    BY <1>1, <2>1, <2>2, <2>4, <2>5
<1> QED
  BY <1>1, <1>2, <1>3, <1>4

LEMMA MembershipMoves ==
    ASSUME TypeInv, FreeIsOld, AssignLocks, MembershipHeld, NEW r \in Requests, Step(r), Calm',
           Calm => AsAsked(r)
    PROVE  Moves(r, db["membership"], db'["membership"])
<1> DEFINE m == db["membership"]
           n == db'["membership"]
<1>1. CASE Get(r) \/ Add(r) \/ Find(r) \/ Choose(r)
  BY <1>1 DEF Get, Add, Find, Choose, Moves
<1>2. CASE Take(r) \/ Note(r)
  <2>1. m.by # r
    BY <1>2, Stage DEF MembershipHeld
  <2> QED
    BY <1>2, <2>1, PreassignedOnly, KeyValues, CohortsAssumption DEF Moves
<1>3. CASE Lock(r)
  <2>1. m.by = Nobody /\ m.now = m.old
    BY <1>3, Stage, KeyValues DEF MembershipHeld, FreeIsOld, Lock, Free
  <2>2. n = [by |-> r, now |-> m.now, old |-> m.old]
    BY <1>3, PutCellOnly, KeyValues DEF Lock
  <2> QED
    BY <1>3, <2>1, <2>2 DEF Moves
<1>4. CASE Assign(r)
  <2>1. req[r].kind = "get"
    BY <1>4, CalmStep DEF AsAsked, Assign
  <2>2. \E x, y : x = m /\ y = n /\ Moves(r, x, y)
    <3>1. PICK x, y : x = m /\ y = n
      OBVIOUS
    <3>2. Moves(r, x, y)
      BY <1>4, <2>1, <3>1, Assigns DEF Moves
    <3> QED
      BY <3>1, <3>2
  <2> QED
    BY <2>2
<1>5. CASE End(r)
  <2>1. Commit(r, db)["membership"] = IF m.by = r THEN [by |-> Nobody, now |-> m.now, old |-> m.now]
                                      ELSE m
    BY CommitCell, KeyValues
  <2> QED
    BY <1>5, <2>1 DEF End, Moves
<1>6. CASE Raises(r)
  <2>1. Rollback(r)["membership"] = IF m.by = r THEN [by |-> Nobody, now |-> m.old, old |-> m.old]
                                    ELSE m
    BY RollbackCell, KeyValues
  <2> QED
    BY <1>6, <2>1 DEF Raises, Moves
<1> QED
  BY <1>1, <1>2, <1>3, <1>4, <1>5, <1>6, CalmStep

\* A learner keeps the cohort, and a commit does not take it away.
LEMMA SettledKept ==
    ASSUME NEW r, NEW m, NEW n, Moves(r, m, n), m.old # NoRow => m.now = m.old
    PROVE  /\ n.old # NoRow => n.now = n.old
           /\ m.old # NoRow => n.old = m.old /\ n.now = m.old
BY DEF Moves

\* The answers of the requests that do not move stay true.
LEMMA OthersTold ==
    ASSUME TypeInv, FreeIsOld, AssignLocks, MembershipHeld, NEW r \in Requests, Step(r), Calm',
           Calm => AsAsked(r), Settled, NEW q \in Requests, q # r, Told(q)
    PROVE  Told(q)'
<1> DEFINE m == db["membership"]
           n == db'["membership"]
<1>1. req'[q] = req[q]
  BY OthersWait
<1>2. m.by = q \/ n.by = q => n = m
  BY OthersCells, KeyValues
<1>3. m.old # NoRow => n.old = m.old
  BY MembershipMoves, SettledKept DEF Settled
<1> QED
  BY <1>1, <1>2, <1>3 DEF Told, Visible, Is

\* And so is the one that a request gives, and commits.
LEMMA OwnTold ==
    ASSUME TypeInv, FreeIsOld, AssignLocks, MembershipHeld, NEW r \in Requests, Step(r), Calm',
           Calm => AsAsked(r), Settled, Told(r)
    PROVE  Told(r)'
<1> DEFINE m == db["membership"]
           n == db'["membership"]
<1>1. AsAsked(r)
  BY CalmStep
<1>2. CASE Get(r) \/ (Add(r) /\ ~registered) \/ Choose(r) \/ Take(r) \/ Lock(r) \/ Raises(r)
  BY <1>2, Served DEF Takes, Told
<1>3. CASE Note(r)
  <2>1. req[r].got = NoRow
    BY <1>1, <1>3 DEF AsAsked, Note
  <2> QED
    BY <1>3, <2>1, Served DEF Takes, Told
<1>4. CASE Find(r)
  <2>1. req[r].kind = "get" /\ n = m
    BY <1>1, <1>4 DEF AsAsked, Find
  <2>2. Visible(r, "membership")' = Visible(r, "membership")
    BY <2>1 DEF Visible
  <2> QED
    BY <1>4, <2>1, <2>2, Served DEF Takes, Told, Is
<1>5. CASE Assign(r)
  <2>1. req[r].kind = "get"
    BY <1>1, <1>5 DEF AsAsked, Assign
  <2>2. req'[r].got = req[r].cohort /\ req'[r].at = "served"
    BY <1>5, <2>1, Served DEF Takes
  <2>3. Is(n.now, req[r].cohort) /\ (n.by = r \/ n.old = n.now)
    BY <1>5, <2>1, Assigns, CohortsAssumption DEF Is
  <2> QED
    BY <2>2, <2>3 DEF Told, Visible
<1>6. CASE End(r)
  <2>1. req[r].at = "served"
    BY <1>1, <1>6 DEF AsAsked, End
  <2>2. req'[r].at = "done" /\ req'[r].got = req[r].got
    BY <1>6, Served DEF Takes
  <2>3. n.old = Visible(r, "membership")
    <3>1. Commit(r, db)["membership"] = IF m.by = r THEN [by |-> Nobody, now |-> m.now, old |-> m.now]
                                        ELSE m
      BY CommitCell, KeyValues
    <3> QED
      BY <1>6, <3>1 DEF End, Visible
  <2> QED
    BY <2>1, <2>2, <2>3 DEF Told
<1> QED
  BY <1>2, <1>3, <1>4, <1>5, <1>6, CalmStep

\* What a step does to the preassignment.
Notes(r, p, n) ==
    \/ n = p
    \/ Take(r) /\ r \in Atomic /\ n = [by |-> r, now |-> NoRow, old |-> p.old]
    \/ Take(r) /\ r \notin Atomic /\ n = [by |-> Nobody, now |-> NoRow, old |-> NoRow]
    \/ /\ Note(r) /\ Is(n.now, req[r].cohort)
       /\ \/ n.by = r /\ n.old = p.old
          \/ n.by = Nobody /\ n.old = n.now
    \/ End(r) /\ p.by = r /\ n = [by |-> Nobody, now |-> p.now, old |-> p.now]
    \/ /\ Assign(r) /\ db'["membership"].by # r
       /\ n = [by |-> Nobody, now |-> p.now, old |-> p.now]
    \/ Raises(r) /\ p.by = r /\ n = [by |-> Nobody, now |-> p.old, old |-> p.old]

LEMMA PreassignedMoves ==
    ASSUME TypeInv, AssignLocks, NEW r \in Requests, Step(r), accidents' = {},
           Calm => AsAsked(r)
    PROVE  Notes(r, db["preassigned"], db'["preassigned"])
<1> DEFINE p == db["preassigned"]
           n == db'["preassigned"]
<1>0. Calm' /\ "preassigned" \in Keys /\ "membership" \in Keys
  BY KeyValues DEF Calm
<1>1. CASE Get(r) \/ Add(r) \/ Find(r) \/ Choose(r)
  BY <1>1 DEF Get, Add, Find, Choose, Notes
<1>2. CASE Take(r)
  <2> DEFINE f == Only("preassigned", NoRow)
  <2>1. db' = db \/ db' = Written(r, f)
    BY <1>2 DEF Take
  <2>2. f["preassigned"] = NoRow /\ "preassigned" \in DOMAIN f
    BY DEF Only
  <2> HIDE DEF f
  <2>3. ASSUME db' = Written(r, f)
        PROVE  n = IF r \in Atomic
                   THEN IF "preassigned" \in DOMAIN f
                        THEN [by |-> r, now |-> f["preassigned"], old |-> p.old] ELSE p
                   ELSE IF "preassigned" \in DOMAIN f
                        THEN [by |-> Nobody, now |-> f["preassigned"], old |-> f["preassigned"]]
                        ELSE IF p.by = r
                             THEN [by |-> Nobody, now |-> p.now, old |-> p.now]
                             ELSE p
    BY <1>0, <2>3, WrittenCell
  <2> QED
    BY <1>2, <2>1, <2>2, <2>3 DEF Notes
<1>3. CASE Lock(r)
  BY <1>3, <1>0, MembershipOnly, CohortsAssumption DEF Notes
<1>4. CASE Assign(r)
  <2> DEFINE f == Moved(r)
             m == db["membership"]
  <2>1. /\ m.by = r /\ m.now \in Rows \cup {NoRow} /\ req[r].cohort \in Cohorts
        /\ \/ db' = db \/ db' = Commit(r, db)
           \/ db' = Written(r, f)
    BY <1>4, SeenTyped, KeyValues DEF TypeInv, HasCohort, Assign, AssignLocks
  <2>2. /\ Commit(r, db)["preassigned"] =
              IF p.by = r THEN [by |-> Nobody, now |-> p.now, old |-> p.now] ELSE p
        /\ Commit(r, db)["membership"] =
              IF m.by = r THEN [by |-> Nobody, now |-> m.now, old |-> m.now] ELSE m
    BY <1>0, CommitCell
  <2>3. CASE db' = db
    BY <2>3 DEF Notes
  <2>4. CASE db' = Commit(r, db)
    BY <1>4, <2>1, <2>2, <2>4, CohortsAssumption DEF Notes
  <2>5. CASE db' = Written(r, f)
    <3>1. DOMAIN f = {"membership"} \cup Listed(r)
      BY DEF Moved
    <3>2. Listed(r) \subseteq Cohorts
      BY <2>1 DEF Listed, Members, Rows
    <3>3. "preassigned" \notin DOMAIN f /\ "membership" \in DOMAIN f
      BY <3>1, <3>2, CohortsAssumption
    <3> HIDE DEF f
    <3>4. n = IF r \in Atomic
              THEN IF "preassigned" \in DOMAIN f
                   THEN [by |-> r, now |-> f["preassigned"], old |-> p.old] ELSE p
              ELSE IF "preassigned" \in DOMAIN f
                   THEN [by |-> Nobody, now |-> f["preassigned"], old |-> f["preassigned"]]
                   ELSE IF p.by = r
                        THEN [by |-> Nobody, now |-> p.now, old |-> p.now]
                        ELSE p
      BY <1>0, <2>5, WrittenCell
    <3>5. db'["membership"] =
              IF r \in Atomic
              THEN IF "membership" \in DOMAIN f
                   THEN [by |-> r, now |-> f["membership"], old |-> m.old] ELSE m
              ELSE IF "membership" \in DOMAIN f
                   THEN [by |-> Nobody, now |-> f["membership"], old |-> f["membership"]]
                   ELSE IF m.by = r
                        THEN [by |-> Nobody, now |-> m.now, old |-> m.now]
                        ELSE m
      BY <1>0, <2>5, WrittenCell
    <3> QED
      BY <1>4, <3>3, <3>4, <3>5, CohortsAssumption DEF Notes
  <2> QED
    BY <2>1, <2>3, <2>4, <2>5
<1>5. CASE Note(r)
  <2> DEFINE row == [id |-> IF p.now = NoRow THEN ids + 1 ELSE p.now.id, cohort |-> req[r].cohort]
             f == Only("preassigned", row)
  <2>1. db' = Written(r, f)
    BY <1>5 DEF Note
  <2>2. /\ p.now \in Rows \cup {NoRow} /\ req[r].cohort \in Cohorts /\ ids \in Nat
    BY <1>5, SeenTyped, KeyValues DEF TypeInv, HasCohort, Note
  <2>3. row \in Rows
    BY <2>2 DEF Rows
  <2>4. Is(row, req[r].cohort)
    BY <2>3, NoRowAssumption DEF Is
  <2>5. f["preassigned"] = row /\ "preassigned" \in DOMAIN f
    BY DEF Only
  <2> HIDE DEF f, row
  <2>6. n = IF r \in Atomic
            THEN IF "preassigned" \in DOMAIN f
                 THEN [by |-> r, now |-> f["preassigned"], old |-> p.old] ELSE p
            ELSE IF "preassigned" \in DOMAIN f
                 THEN [by |-> Nobody, now |-> f["preassigned"], old |-> f["preassigned"]]
                 ELSE IF p.by = r
                      THEN [by |-> Nobody, now |-> p.now, old |-> p.now]
                      ELSE p
    BY <1>0, <2>1, WrittenCell
  <2> QED
    BY <1>5, <2>4, <2>5, <2>6 DEF Notes
<1>6. CASE End(r)
  <2>1. Commit(r, db)["preassigned"] =
          IF p.by = r THEN [by |-> Nobody, now |-> p.now, old |-> p.now] ELSE p
    BY <1>0, CommitCell
  <2> QED
    BY <1>6, <2>1 DEF End, Notes
<1>7. CASE Raises(r)
  <2>1. Rollback(r)["preassigned"] =
          IF p.by = r THEN [by |-> Nobody, now |-> p.old, old |-> p.old] ELSE p
    BY <1>0, RollbackCell
  <2> QED
    BY <1>7, <2>1 DEF Raises, Notes
<1> QED
  BY <1>0, <1>1, <1>2, <1>3, <1>4, <1>5, <1>6, <1>7, CalmStep

\* A request keeps the cohort that it works on, once it has one.
LEMMA CohortKept ==
    ASSUME TypeInv, NEW r \in Requests, Step(r), req[r].at \notin {"new", "find", "choose"}
    PROVE  req'[r].cohort = req[r].cohort /\ req'[r].kind = req[r].kind
<1> USE DEF TypeInv, ReqTyped
<1>0. ~(Get(r) \/ Add(r) \/ Remove(r) \/ Find(r) \/ Choose(r))
  BY DEF Get, Add, Remove, Find, Choose
<1>1. CASE Take(r) \/ Lock(r) \/ Assign(r)
  BY <1>1 DEF Take, Lock, Assign, Go
<1>2. CASE Unlist(r) \/ Delete(r) \/ Note(r)
  BY <1>2 DEF Unlist, Delete, Note, Go
<1>3. CASE End(r) \/ Raises(r)
  BY <1>3 DEF End, Raises, Go
<1> HIDE DEF TypeInv, ReqTyped
<1> QED
  BY <1>0, <1>1, <1>2, <1>3 DEF Step

\* What has been promised stays promised.
LEMMA PromisedKept ==
    ASSUME TypeInv, NEW r \in Requests, Step(r), Calm', Calm => AsAsked(r),
           NEW c, Promised(c)
    PROVE  Promised(c)'
<1>1. CASE c = promised
  BY <1>1, CalmStep DEF Promised
<1>2. CASE \E q \in Requests : req[q].kind = "preassign" /\ req[q].cohort = c
  <2>1. PICK q \in Requests : req[q].kind = "preassign" /\ req[q].cohort = c
    BY <1>2
  <2>2. req'[q].kind = "preassign" /\ req'[q].cohort = c
    <3>1. CASE q # r
      BY <2>1, <3>1, OthersWait
    <3>2. CASE q = r
      <4>1. AsAsked(r)
        BY CalmStep
      <4>2. req[r].at \notin {"new", "find", "choose"}
        BY <2>1, <3>2, <4>1 DEF AsAsked
      <4> QED
        BY <2>1, <3>2, <4>1, <4>2, CohortKept
    <3> QED
      BY <3>1, <3>2
  <2> QED
    BY <2>2 DEF Promised
<1> QED
  BY <1>1, <1>2 DEF Promised

\* What is known when a step keeps the promise.
Before ==
    /\ TypeInv /\ FreeIsOld /\ AssignLocks /\ MembershipHeld
    /\ Settled /\ (\A r \in Requests : AsAsked(r))
    /\ Promising /\ PromiseInv

\* The rows hold no other cohort, since assign and add_user_to_cohort have none.
LEMMA RowsKeepKept ==
    ASSUME Before, NEW r \in Requests, Step(r), accidents' = {}
    PROVE  RowsKeep'
<1> USE DEF Before
<1>0. Calm' /\ (Calm => AsAsked(r)) /\ AsAsked(r)
  BY DEF Calm
<1>1. ASSUME NEW row, KeepsPromise(row) PROVE KeepsPromise(row)'
  BY <1>0, <1>1, PromisedKept DEF KeepsPromise
<1>2. ASSUME NEW m, m = db["membership"], NEW n, n = db'["membership"]
      PROVE  KeepsPromise(n.now)' /\ KeepsPromise(n.old)'
  <2>1. KeepsPromise(m.now)' /\ KeepsPromise(m.old)' /\ KeepsPromise(NoRow)'
    BY <1>1, <1>2 DEF PromiseInv, RowsKeep, KeepsPromise
  <2>2. Moves(r, m, n)
    BY <1>0, <1>2, MembershipMoves
  <2>3. CASE /\ Assign(r) /\ m.old = NoRow
             /\ Is(n.now, req[r].cohort)
             /\ n.old = NoRow \/ n.old = n.now
    <3>1. req[r].kind = "get" /\ req[r].at = "assign"
      BY <1>0, <2>3 DEF Assign, AsAsked
    <3>2. Promised(req[r].cohort)
      BY <1>2, <2>3, <3>1 DEF PromiseInv, ChoiceKeeps
    <3>3. KeepsPromise(n.now)
      BY <2>3, <3>2 DEF KeepsPromise, Is
    <3> QED
      BY <1>1, <2>1, <2>3, <3>3
  <2>4. CASE n.now \in {m.now, m.old} /\ n.old \in {m.now, m.old}
    BY <2>1, <2>4
  <2> QED
    BY <2>2, <2>3, <2>4 DEF Moves
<1>3. ASSUME NEW p, p = db["preassigned"], NEW n, n = db'["preassigned"]
      PROVE  KeepsPromise(n.now)' /\ KeepsPromise(n.old)'
  <2>1. KeepsPromise(p.now)' /\ KeepsPromise(p.old)' /\ KeepsPromise(NoRow)'
    BY <1>1, <1>3 DEF PromiseInv, RowsKeep, KeepsPromise
  <2>2. Notes(r, p, n)
    BY <1>0, <1>3, PreassignedMoves
  <2>3. CASE /\ Note(r) /\ Is(n.now, req[r].cohort)
             /\ n.old = p.old \/ n.old = n.now
    <3>1. req[r].kind = "preassign" /\ req[r].at = "note"
      BY <1>0, <2>3 DEF Note, AsAsked
    <3>2. req'[r].cohort = req[r].cohort /\ req'[r].kind = req[r].kind
      BY <1>0, <2>3, <3>1, CohortKept
    <3>3. n.now.cohort = req'[r].cohort /\ req'[r].kind = "preassign"
      BY <2>3, <3>1, <3>2 DEF Is
    <3> QED
      BY <2>1, <2>3, <3>3 DEF KeepsPromise, Promised
  <2>4. CASE n.now \in {p.now, p.old, NoRow} /\ n.old \in {p.now, p.old, NoRow}
    BY <2>1, <2>4
  <2> QED
    BY <2>2, <2>3, <2>4 DEF Notes
<1>4. /\ KeepsPromise(db["membership"].now)' /\ KeepsPromise(db["membership"].old)'
      /\ KeepsPromise(db["preassigned"].now)' /\ KeepsPromise(db["preassigned"].old)'
  <2>1. PICK m, n, p, o : /\ m = db["membership"] /\ n = db'["membership"]
                          /\ p = db["preassigned"] /\ o = db'["preassigned"]
    OBVIOUS
  <2>2. KeepsPromise(n.now)' /\ KeepsPromise(n.old)' /\ KeepsPromise(o.now)' /\ KeepsPromise(o.old)'
    BY <1>2, <1>3, <2>1
  <2> QED
    BY <2>1, <2>2 DEF KeepsPromise, Promised
<1> QED
  BY <1>4 DEF RowsKeep

\* A commit shows what its request saw.
LEMMA EndShows ==
    ASSUME NEW r \in Requests, End(r), NEW key \in Keys
    PROVE  db'[key].old = Visible(r, key)
<1>1. Commit(r, db)[key] = IF db[key].by = r
                           THEN [by |-> Nobody, now |-> db[key].now, old |-> db[key].now]
                           ELSE db[key]
  BY CommitCell
<1> QED
  BY <1>1 DEF End, Visible

\* A task that has deleted the preassignment goes on to assign.
LEMMA BetweenKept ==
    ASSUME Before, NEW r \in Requests, Step(r), accidents' = {}, NEW s \in Requests, Between(s),
           db["membership"].old = NoRow, db'["membership"].old = NoRow
    PROVE  Between(s)'
<1> DEFINE m == db["membership"]
           n == db'["membership"]
<1> USE DEF Before
<1>0. Calm' /\ (Calm => AsAsked(r)) /\ AsAsked(r)
  BY DEF Calm
<1>1. CASE s # r
  <2>1. req'[s] = req[s]
    BY <1>1, OthersWait
  <2> QED
    BY <2>1 DEF Between
<1>2. CASE s = r
  <2>1. ~Raises(r)
    BY <1>2 DEF Raises, HitIf
  <2>2. ~Assign(r)
    <3>1. req[r].kind = "get" /\ r \notin Atomic
      BY <1>2 DEF Between
    <3> QED
      BY <1>0, <3>1, Assigns DEF Is
  <2>3. Lock(r)
    BY <1>0, <1>2, <2>1, <2>2, CalmStep DEF Between, Get, Add, Find, Choose, Take, Note, End
  <2>4. req'[r] = [req[r] EXCEPT !.at = "assign"]
    BY <2>3 DEF Lock, Go, TypeInv, ReqTyped
  <2> QED
    BY <1>2, <2>4 DEF Between, TypeInv, ReqTyped
<1> QED
  BY <1>1, <1>2

\* The preassignment is gone for good only with the membership in its place, or by
\* a task that is about to assign it.
LEMMA StillPromisedKept ==
    ASSUME Before, NEW r \in Requests, Step(r), accidents' = {}
    PROVE  StillPromised'
<1> DEFINE m == db["membership"]
           n == db'["membership"]
           p == db["preassigned"]
           o == db'["preassigned"]
<1> USE DEF Before
<1>0. Calm' /\ (Calm => AsAsked(r)) /\ AsAsked(r) /\ registered' = registered
  BY CalmStep DEF Calm
<1> SUFFICES ASSUME registered, n.old = NoRow
             PROVE  o.old # NoRow \/ \E s \in Requests : Between(s)'
  BY <1>0 DEF StillPromised
<1>1. m.old = NoRow
  BY <1>0, MembershipMoves, SettledKept DEF Settled
<1>2. p.old # NoRow \/ \E s \in Requests : Between(s)
  BY <1>1 DEF PromiseInv, StillPromised
<1>3. Notes(r, p, o)
  BY <1>0, PreassignedMoves
<1>4. CASE \E s \in Requests : Between(s)
  BY <1>1, <1>4, BetweenKept
<1>5. CASE p.old # NoRow
  <2>1. CASE o.old = p.old
    BY <1>5, <2>1
  <2>2. CASE Note(r) /\ Is(o.now, req[r].cohort) /\ o.old = o.now
    BY <2>2 DEF Is
  <2>3. CASE End(r) /\ p.by = r
    <3>1. req[r].at = "served"
      BY <1>0, <2>3 DEF AsAsked, End
    <3>2. p.now = NoRow => m.by = r /\ m.now # NoRow
      BY <1>1, <2>3, <3>1 DEF PromiseInv, TakenWithMembership
    <3>3. n.old = Visible(r, "membership") /\ o.old = Visible(r, "preassigned")
      BY <2>3, EndShows, KeyValues
    <3> QED
      BY <2>3, <3>2, <3>3 DEF Visible
  <2>4. CASE Assign(r) /\ n.by # r
    <3>1. req[r].kind = "get"
      BY <1>0, <2>4 DEF AsAsked, Assign
    <3> QED
      BY <1>0, <1>1, <2>4, <3>1, Assigns DEF Is
  <2>5. CASE Take(r) /\ r \notin Atomic
    <3>1. req[r].at = "take" /\ req[r].kind = "get" /\ req[r].seen # NoRow
      BY <1>0, <2>5 DEF AsAsked, Take, PromiseInv, TakesSeen
    <3>2. req'[r] = [req[r] EXCEPT !.at = "lock"]
      BY <2>5 DEF Take, Go, TypeInv, ReqTyped
    <3>3. Between(r)'
      BY <2>5, <3>1, <3>2 DEF Between, TypeInv, ReqTyped
    <3> QED
      BY <3>3
  <2> QED
    BY <1>3, <2>1, <2>2, <2>3, <2>4, <2>5 DEF Notes
<1> QED
  BY <1>2, <1>4, <1>5

\* What is to be deleted has been read.
LEMMA TakesSeenKept ==
    ASSUME Before, NEW r \in Requests, Step(r), accidents' = {}, NEW q \in Requests
    PROVE  TakesSeen(q)'
<1> USE DEF Before
<1>1. CASE q # r
  <2>1. req'[q] = req[q] /\ TakesSeen(q)
    BY <1>1, OthersWait DEF PromiseInv
  <2> QED
    BY <2>1 DEF TakesSeen
<1>2. CASE q = r
  <2>0. Calm' /\ (Calm => AsAsked(r)) /\ AsAsked(r)
    BY DEF Calm
  <2>1. CASE Choose(r)
    <3>1. PICK p, c : req' = [req EXCEPT ![r].at = IF p = NoRow THEN "lock" ELSE "take",
                                         ![r].cohort = c, ![r].seen = p]
      BY <2>1 DEF Choose
    <3> QED
      BY <1>2, <3>1 DEF TakesSeen, TypeInv, ReqTyped
  <2>2. CASE ~Choose(r)
    <3>1. req'[r].at # "take"
      <4>1. Find(r) \/ Assign(r) => req[r].kind = "get"
        BY <2>0 DEF Find, Assign, AsAsked
      <4> QED
        BY <2>0, <2>2, <4>1, CalmStep, Served DEF Takes
    <3> QED
      BY <1>2, <3>1 DEF TakesSeen
  <2> QED
    BY <2>1, <2>2
<1> QED
  BY <1>1, <1>2

\* A request that chooses finds the preassigned cohort, or comes too late.
LEMMA ChoiceKept ==
    ASSUME Before, NEW r \in Requests, Step(r), accidents' = {}, NEW q \in Requests
    PROVE  ChoiceKeeps(q)'
<1> DEFINE m == db["membership"]
           n == db'["membership"]
           p == db["preassigned"]
<1> USE DEF Before
<1>0. Calm' /\ (Calm => AsAsked(r)) /\ AsAsked(r) /\ registered' = registered
  BY CalmStep DEF Calm
<1>1. m.old # NoRow => n.old # NoRow
  BY <1>0, MembershipMoves, SettledKept DEF Settled
<1>2. ASSUME ChoiceKeeps(q), req'[q].cohort = req[q].cohort, req'[q].kind = req[q].kind,
             req[q].at \in {"take", "lock", "assign"}
      PROVE  ChoiceKeeps(q)'
  <2>1. PICK c : c = req[q].cohort
    OBVIOUS
  <2>2. Promised(c) => Promised(c)'
    BY <1>0, PromisedKept
  <2>3. Promised(c)' => Promised(req[q].cohort)'
    BY <1>2, <2>1 DEF Promised
  <2> QED
    BY <1>1, <1>2, <2>1, <2>2, <2>3 DEF ChoiceKeeps
<1>3. CASE q # r
  <2>1. req'[q] = req[q] /\ ChoiceKeeps(q)
    BY <1>3, OthersWait DEF PromiseInv
  <2>2. CASE req[q].at \in {"take", "lock", "assign"}
    BY <1>2, <2>1, <2>2
  <2>3. CASE req[q].at \notin {"take", "lock", "assign"}
    BY <2>1, <2>3 DEF ChoiceKeeps
  <2> QED
    BY <2>2, <2>3
<1>4. CASE q = r
  <2>1. CASE Choose(r)
    <3>1. p.by # r /\ registered /\ req[r].kind = "get"
      BY <1>0, <2>1 DEF PromiseInv, TakenWithMembership, AsAsked, Choose
    <3>2. n = m /\ Visible(r, "preassigned") = p.old
      BY <2>1, <3>1 DEF Choose, Visible
    <3>3. p.old \in Rows \cup {NoRow}
      BY SeenTyped, KeyValues DEF TypeInv
    <3>4. CASE p.old = NoRow
      <4>1. ~\E s \in Requests : Between(s)
        BY <2>1, <3>2, <3>4 DEF Choose, HitIf
      <4>2. n.old # NoRow
        BY <3>1, <3>2, <3>4, <4>1 DEF PromiseInv, StillPromised
      <4> QED
        BY <1>4, <4>2 DEF ChoiceKeeps
    <3>5. CASE p.old # NoRow
      <4>1. PICK c : c = p.old.cohort
        OBVIOUS
      <4>2. req'[r].cohort = c
        <5>1. PICK d \in {p.old.cohort} :
                 req' = [req EXCEPT ![r].at = "take", ![r].cohort = d, ![r].seen = p.old]
          BY <2>1, <3>2, <3>5 DEF Choose
        <5> QED
          BY <4>1, <5>1 DEF TypeInv, ReqTyped
      <4>3. Promised(c)'
        <5>1. Promised(c)
          BY <3>5, <4>1 DEF PromiseInv, RowsKeep, KeepsPromise
        <5> QED
          BY <1>0, <5>1, PromisedKept
      <4> QED
        BY <1>4, <4>2, <4>3 DEF ChoiceKeeps, Promised
    <3> QED
      BY <3>4, <3>5
  <2>2. CASE Take(r) \/ Lock(r)
    <3>1. req[r].at \in {"take", "lock"}
      BY <2>2 DEF Take, Lock
    <3>2. req'[r].cohort = req[r].cohort /\ req'[r].kind = req[r].kind
      BY <3>1, CohortKept
    <3> QED
      BY <1>2, <1>4, <3>1, <3>2 DEF PromiseInv
  <2>3. CASE Get(r) \/ (Add(r) /\ ~registered) \/ Find(r) \/ Assign(r) \/ Note(r) \/ End(r) \/ Raises(r)
    <3>1. req'[r].kind # "get" \/ req'[r].at \in {"find", "choose", "served", "done"}
      <4>1. Find(r) \/ Assign(r) => req[r].kind = "get"
        BY <1>0 DEF Find, Assign, AsAsked
      <4> QED
        BY <2>3, <4>1, Served DEF Takes
    <3> QED
      BY <1>4, <3>1 DEF ChoiceKeeps
  <2> QED
    BY <1>0, <2>1, <2>2, <2>3, CalmStep
<1> QED
  BY <1>3, <1>4

\* Who takes the preassignment goes on to assign.
LEMMA TakenKept ==
    ASSUME Before, NEW r \in Requests, Step(r), accidents' = {}, NEW q \in Requests
    PROVE  TakenWithMembership(q)'
<1> DEFINE m == db["membership"]
           n == db'["membership"]
           p == db["preassigned"]
           o == db'["preassigned"]
<1> USE DEF Before
<1>0. Calm' /\ (Calm => AsAsked(r)) /\ AsAsked(r) /\ TakenWithMembership(q)
  BY DEF Calm, PromiseInv
<1> SUFFICES ASSUME o.by = q
             PROVE  /\ req'[q].at \in {"lock", "assign", "served"}
                    /\ req'[q].at = "served" /\ o.now = NoRow =>
                          n.old # NoRow \/ (n.by = q /\ n.now # NoRow)
  BY DEF TakenWithMembership
<1>1. CASE q # r
  <2>1. req'[q] = req[q] /\ o = p
    BY <1>1, OthersWait, OthersCells, KeyValues
  <2>2. m.by = q => n = m
    BY <1>1, OthersCells, KeyValues
  <2>3. m.old # NoRow => n.old # NoRow
    BY <1>0, MembershipMoves, SettledKept DEF Settled
  <2> QED
    BY <1>0, <2>1, <2>2, <2>3 DEF TakenWithMembership
<1>2. CASE q = r
  <2>1. Notes(r, p, o) /\ ~End(r) /\ ~Raises(r)
    BY <1>0, <1>2, PreassignedMoves, NothingHeld, KeyValues
  <2>2. CASE Take(r)
    BY <1>2, <2>2, Served DEF Takes
  <2>3. CASE Note(r) /\ Is(o.now, req[r].cohort)
    BY <1>2, <2>3, Served DEF Takes, Is
  <2>4. CASE Assign(r)
    <3>1. req[r].kind = "get"
      BY <1>0, <2>4 DEF AsAsked, Assign
    <3>2. Is(n.now, req[r].cohort) /\ (n.by = r \/ n.old = n.now)
      BY <1>0, <2>4, <3>1, Assigns DEF Is
    <3> QED
      BY <1>2, <2>4, <3>1, <3>2, Served DEF Takes, Is
  <2>5. CASE o = p
    <3>1. req[r].at \in {"lock", "assign", "served"}
      BY <1>0, <1>2, <2>5 DEF TakenWithMembership
    <3>2. Lock(r) \/ Assign(r)
      BY <1>0, <2>1, <3>1, CalmStep DEF Get, Add, Find, Choose, Take, Note, AsAsked
    <3>3. CASE Lock(r)
      BY <1>2, <3>3, Served DEF Takes
    <3> QED
      BY <2>4, <3>2, <3>3
  <2> QED
    BY <1>2, <2>1, <2>2, <2>3, <2>4, <2>5, CohortsAssumption DEF Notes
<1> QED
  BY <1>1, <1>2

LEMMA AnswerAtFirst == Init => AnswerInv
<1> SUFFICES ASSUME Init PROVE AnswerInv
  OBVIOUS
<1>1. TypeInv /\ FreeIsOld /\ AssignLocks /\ MembershipHeld
  BY AgreeAtFirst DEF AgreeInv
<1>2. PICK c \in Cohorts \cup {NoRow} :
         db = [key \in Keys |->
                  IF key = "membership" /\ c # NoRow THEN Cell([id |-> 1, cohort |-> c])
                  ELSE IF key \in Cohorts THEN Cell(key = c) ELSE Cell(NoRow)]
  BY DEF Init
<1> DEFINE row == IF c # NoRow THEN [id |-> 1, cohort |-> c] ELSE NoRow
<1>3. db["membership"] = [by |-> Nobody, now |-> row, old |-> row]
  BY <1>2, KeyValues, CohortsAssumption DEF Cell
<1>4. db["preassigned"] = [by |-> Nobody, now |-> NoRow, old |-> NoRow]
  BY <1>2, KeyValues, CohortsAssumption DEF Cell
<1> HIDE DEF row
<1>5. registered <=> row # NoRow
  <2>1. registered = (db["membership"].now # NoRow)
    BY DEF Init
  <2>2. db["membership"].now = row
    BY <1>3
  <2> QED
    BY <2>1, <2>2
<1>6. \A r \in Requests : req[r].at = "new" /\ req[r].kind = "none" /\ req[r].got = NoRow
  BY DEF Init, New
<1>7. Settled /\ Lasting /\ RacedLate /\ \A r \in Requests : AsAsked(r) /\ Told(r)
  <2>1. accidents = {}
    BY DEF Init
  <2> QED
    BY <1>3, <1>6, <2>1 DEF Settled, Lasting, RacedLate, AsAsked, Told
<1>8. promised = NoRow
  BY DEF Init
<1>9. ASSUME Promising PROVE PromiseInv
  <2>1. ~registered /\ row = NoRow
    BY <1>5, <1>8, <1>9 DEF Promising
  <2>2. RowsKeep /\ StillPromised
    BY <1>3, <1>4, <2>1 DEF RowsKeep, KeepsPromise, StillPromised
  <2>3. \A r \in Requests : ChoiceKeeps(r) /\ TakesSeen(r) /\ TakenWithMembership(r)
    BY <1>4, <1>6, CohortsAssumption DEF ChoiceKeeps, TakesSeen, TakenWithMembership
  <2> QED
    BY <2>2, <2>3 DEF PromiseInv
<1> QED
  BY <1>1, <1>7, <1>8, <1>9 DEF AnswerInv

\* The learner registers: what was preassigned is now promised.
LEMMA RegisterAnswers ==
    ASSUME AnswerInv, Register
    PROVE  AnswerInv'
<1> DEFINE p == db["preassigned"]
<1>1. TypeInv /\ FreeIsOld' /\ AssignLocks' /\ MembershipHeld' /\ UNCHANGED <<db, req, accidents>>
  BY DEF AnswerInv, Register, FreeIsOld, AssignLocks, MembershipHeld
<1>2. TypeInv'
  BY <1>1, RegisterTypes
<1>3. ~registered /\ registered' /\ promised = NoRow
  BY DEF Register, AnswerInv
<1>4. promised' = IF p.old = NoRow THEN NoRow ELSE p.old.cohort
  BY DEF Register
<1>5. /\ Calm' => Settled' /\ \A r \in Requests : Told(r)'
      /\ RacedLate'
      /\ Unstaffed' => Lasting' /\ \A r \in Requests : AsAsked(r)'
  <2>1. (Calm' => Calm) /\ (Unstaffed' => Unstaffed)
    BY <1>1 DEF Calm, Unstaffed
  <2>2. Calm' => Settled' /\ \A r \in Requests : Told(r)'
    BY <1>1, <2>1 DEF AnswerInv, Settled, Told, Visible
  <2>3. Unstaffed' => Lasting' /\ \A r \in Requests : AsAsked(r)'
    BY <1>1, <1>3, <2>1 DEF AnswerInv, Lasting, AsAsked
  <2>4. RacedLate'
    BY <1>1 DEF AnswerInv, RacedLate
  <2> QED
    BY <2>2, <2>3, <2>4
<1>6. ASSUME Promising' PROVE PromiseInv'
  <2>1. PromiseInv /\ Unstaffed /\ promised' # NoRow
    BY <1>1, <1>3, <1>6 DEF AnswerInv, Promising, Unstaffed
  <2>2. p.old # NoRow
    BY <1>4, <2>1
  <2>3. ASSUME NEW row \in Rows \cup {NoRow}, KeepsPromise(row)
        PROVE  KeepsPromise(row)'
    <3>1. row # NoRow => row.cohort # promised
      BY <1>3, NoRowAssumption DEF Rows
    <3> QED
      BY <1>1, <2>3, <3>1 DEF KeepsPromise, Promised
  <2>4. RowsKeep'
    <3>1. ASSUME NEW key \in {"membership", "preassigned"}
          PROVE  KeepsPromise(db[key].now)' /\ KeepsPromise(db[key].old)'
      <4>1. PICK x, y : x = db[key].now /\ y = db[key].old
        OBVIOUS
      <4>2. x \in Rows \cup {NoRow} /\ y \in Rows \cup {NoRow}
        BY <1>1, <4>1, SeenTyped, KeyValues DEF TypeInv
      <4>3. KeepsPromise(x) /\ KeepsPromise(y)
        BY <2>1, <4>1 DEF PromiseInv, RowsKeep
      <4>4. KeepsPromise(x)' /\ KeepsPromise(y)'
        BY <2>3, <4>2, <4>3
      <4>5. x = db'[key].now /\ y = db'[key].old
        BY <1>1, <4>1
      <4> QED
        BY <4>4, <4>5 DEF KeepsPromise, Promised
    <3> QED
      BY <3>1 DEF RowsKeep
  <2>5. StillPromised'
    BY <1>1, <2>2 DEF StillPromised
  <2>6. ASSUME NEW r \in Requests
        PROVE  ChoiceKeeps(r)' /\ TakesSeen(r)' /\ TakenWithMembership(r)'
    <3>1. req[r].kind # "get"
      BY <1>3, <2>1 DEF AnswerInv, AsAsked
    <3>2. TakesSeen(r) /\ TakenWithMembership(r)
      BY <2>1 DEF PromiseInv
    <3> QED
      BY <1>1, <3>1, <3>2 DEF ChoiceKeeps, TakesSeen, TakenWithMembership
  <2> QED
    BY <2>4, <2>5, <2>6 DEF PromiseInv
<1> QED
  BY <1>1, <1>2, <1>3, <1>5, <1>6 DEF AnswerInv

\* Without staff nobody takes a cohort away.
LEMMA LastingKept ==
    ASSUME AnswerInv, NEW r \in Requests, Step(r), Unstaffed'
    PROVE  /\ Lasting'
           /\ db["membership"].old # NoRow => db'["membership"].old # NoRow
<1> DEFINE m == db["membership"]
           n == db'["membership"]
<1>0. /\ TypeInv /\ Lasting /\ AsAsked(r) /\ AssignLocks /\ "membership" \in Keys
      /\ MembershipHeld /\ FreeIsOld
  BY UnstaffedStep, KeyValues DEF AnswerInv
<1>1. \/ n = m
      \/ n.old = m.old /\ n.now = m.now
      \/ n.old = m.now /\ n.now = m.now
      \/ n.old = m.old /\ n.now = m.old
      \/ n.now # NoRow /\ n.old \in {n.now, m.old}
  <2>1. CASE Get(r) \/ Add(r) \/ Find(r) \/ Choose(r)
    BY <2>1 DEF Get, Add, Find, Choose
  <2>2. CASE Take(r) \/ Note(r)
    <3>1. m.by # r
      BY <1>0, <2>2, Stage DEF MembershipHeld
    <3> QED
      BY <1>0, <2>2, <3>1, PreassignedOnly, CohortsAssumption
  <2>3. CASE Lock(r)
    <3>1. n = [by |-> r, now |-> m.now, old |-> m.old]
      BY <1>0, <2>3, PutCellOnly DEF Lock
    <3> QED
      BY <3>1
  <2>4. CASE Assign(r)
    <3> DEFINE f == Moved(r)
    <3>1. m.by = r /\ m.now \in Rows \cup {NoRow} /\ req[r].cohort \in Cohorts /\ ids \in Nat
      BY <1>0, <2>4, SeenTyped, KeyValues DEF TypeInv, HasCohort, Assign, AssignLocks
    <3>2. db' = db \/ db' = Commit(r, db) \/ db' = Written(r, f)
      BY <2>4 DEF Assign
    <3>3. Commit(r, db)["membership"] = IF m.by = r THEN [by |-> Nobody, now |-> m.now, old |-> m.now]
                                        ELSE m
      BY <1>0, CommitCell
    <3>4. CASE db' = Written(r, f)
      <4>1. "membership" \in DOMAIN f /\ f["membership"] \in Rows
        BY <3>1 DEF Moved, Rows
      <4> HIDE DEF f
      <4>2. n = IF r \in Atomic
                THEN IF "membership" \in DOMAIN f
                     THEN [by |-> r, now |-> f["membership"], old |-> m.old] ELSE m
                ELSE IF "membership" \in DOMAIN f
                     THEN [by |-> Nobody, now |-> f["membership"], old |-> f["membership"]]
                     ELSE IF m.by = r
                          THEN [by |-> Nobody, now |-> m.now, old |-> m.now]
                          ELSE m
        BY <1>0, <3>4, WrittenCell
      <4> QED
        BY <4>1, <4>2, NoRowAssumption
    <3> QED
      BY <3>2, <3>3, <3>4
  <2>5. CASE End(r)
    <3>1. Commit(r, db)["membership"] = IF m.by = r THEN [by |-> Nobody, now |-> m.now, old |-> m.now]
                                        ELSE m
      BY <1>0, CommitCell
    <3> QED
      BY <2>5, <3>1 DEF End
  <2>6. CASE Raises(r)
    <3>1. Rollback(r)["membership"] = IF m.by = r THEN [by |-> Nobody, now |-> m.old, old |-> m.old]
                                      ELSE m
      BY <1>0, RollbackCell
    <3> QED
      BY <2>6, <3>1 DEF Raises
  <2> QED
    BY <2>1, <2>2, <2>3, <2>4, <2>5, <2>6, UnstaffedStep DEF AnswerInv
<1> QED
  BY <1>0, <1>1 DEF Lasting

\* The race comes after a cohort.
LEMMA RacedLateKept ==
    ASSUME AnswerInv, NEW r \in Requests, Step(r)
    PROVE  RacedLate'
<1> DEFINE m == db["membership"]
           n == db'["membership"]
<1> SUFFICES ASSUME accidents' \subseteq {"raced"}, "raced" \in accidents' PROVE n.old # NoRow
  BY DEF RacedLate
<1>1. Unstaffed' /\ accidents \subseteq {"raced"}
  <2>1. Unstaffed'
    BY DEF Unstaffed
  <2> QED
    BY <2>1, UnstaffedStep DEF AnswerInv
<1>2. m.old # NoRow
  <2>1. CASE "raced" \in accidents
    BY <1>1, <2>1 DEF AnswerInv, RacedLate
  <2>2. CASE "raced" \notin accidents
    <3>1. Assign(r) /\ m.now # NoRow
      BY <2>2 DEF Step, Get, Add, Remove, Find, Choose, Take, Lock, Assign, Unlist, Delete, Note,
                  End, Raises, HitIf
    <3> QED
      BY <3>1 DEF AnswerInv, AssignLocks, Assign
  <2> QED
    BY <2>1, <2>2
<1> QED
  BY <1>1, <1>2, LastingKept

LEMMA AnswerKept == AnswerInv /\ [Next]_vars => AnswerInv'
<1> SUFFICES ASSUME AnswerInv, [Next]_vars PROVE AnswerInv'
  OBVIOUS
<1>1. CASE UNCHANGED vars
  <2>1. TypeInv'
    BY <1>1, TypesKept DEF AnswerInv
  <2> QED
    BY <1>1, <2>1
       DEF vars, AnswerInv, FreeIsOld, AssignLocks, MembershipHeld, Calm, Settled, AsAsked, Told,
           Visible, Promising, PromiseInv, RowsKeep, KeepsPromise, Promised, StillPromised,
           Between, Unstaffed, Lasting, RacedLate, ChoiceKeeps, TakesSeen, TakenWithMembership
<1>2. CASE Register
  BY <1>2, RegisterAnswers
<1>3. CASE \E r \in Requests : Get(r) \/ Add(r) \/ Remove(r) \/ Serve(r) \/ Raises(r)
  <2>1. PICK r \in Requests : Step(r)
    BY <1>3 DEF Serve, Step
  <2>2. TypeInv' /\ FreeIsOld' /\ AssignLocks' /\ MembershipHeld'
    BY <2>1, LocksKept, TypesKept DEF AnswerInv
  <2>3. ASSUME Unstaffed' PROVE Lasting' /\ \A q \in Requests : AsAsked(q)'
    <3>1. Unstaffed => \A q \in Requests : AsAsked(q)
      BY DEF AnswerInv
    <3> QED
      BY <2>1, <2>3, <3>1, AskedKept, LastingKept DEF AnswerInv
  <2>7. ASSUME Calm' PROVE Settled' /\ \A q \in Requests : Told(q)'
    <3>1. Calm => AsAsked(r)
      BY DEF AnswerInv, Calm, Unstaffed
    <3>2. Calm
      BY <2>1, <2>7, <3>1, CalmStep DEF AnswerInv
    <3>3. Settled'
      BY <2>1, <2>7, <3>1, <3>2, MembershipMoves, SettledKept DEF AnswerInv, Settled
    <3>4. \A q \in Requests : Told(q)'
      BY <2>1, <2>7, <3>1, <3>2, OthersTold, OwnTold DEF AnswerInv
    <3> QED
      BY <3>3, <3>4
  <2>4. ~registered' => promised' = NoRow
    <3>1. UNCHANGED <<registered, promised>>
      BY <2>1 DEF Step, Get, Add, Remove, Find, Choose, Take, Lock, Assign, Unlist, Delete, Note,
                  End, Raises
    <3> QED
      BY <3>1 DEF AnswerInv
  <2>5. ASSUME Promising' PROVE PromiseInv'
    <3>1. accidents' = {} /\ Calm' /\ TypeInv /\ (Calm => AsAsked(r))
      BY <2>5 DEF Promising, Calm, Unstaffed, AnswerInv
    <3>2. accidents = {} /\ UNCHANGED <<registered, promised>>
      BY <2>1, <3>1, CalmStep
    <3>3. Before
      BY <2>5, <3>2 DEF Promising, Before, AnswerInv, Calm, Unstaffed
    <3> QED
      BY <2>1, <3>1, <3>3, RowsKeepKept, StillPromisedKept, ChoiceKept, TakesSeenKept, TakenKept
         DEF PromiseInv
  <2>6. RacedLate'
    BY <2>1, RacedLateKept
  <2> QED
    BY <2>2, <2>3, <2>7, <2>4, <2>5, <2>6 DEF AnswerInv
<1> QED
  BY <1>1, <1>2, <1>3 DEF Next

\* The cohort that get_cohort returns is still the learner's when its request is over,
\* for any number of requests, whatever is rolled back or deadlocks; unless staff
\* have moved the learner, or two requests have assigned one (get_cohort, assign).
THEOREM AnswersStand == Spec => []AnswerHolds
<1>1. AnswerInv => AnswerHolds
  <2> SUFFICES ASSUME AnswerInv, Calm, NEW r \in Requests, req[r].at = "done", req[r].got # NoRow
               PROVE  Members(db["membership"].old) = {req[r].got}
    BY DEF AnswerHolds, Calm
  <2>1. Is(db["membership"].old, req[r].got)
    BY DEF AnswerInv, Told
  <2> QED
    BY <2>1 DEF Is, Members
<1> QED
  BY <1>1, AnswerAtFirst, AnswerKept, PTL DEF Spec

\* The first cohort of a learner to whom one was preassigned is a preassigned one,
\* whoever asks first and whatever is rolled back: the preassignment goes with the
\* commit that replaces it.  It may be a random one only once staff have moved the
\* learner, or a task that is no transaction has failed, or has been overtaken,
\* between the deletion of the preassignment and the assignment (get_cohort).
THEOREM PromisesAreKept == Spec => PreassignedFirst
<1> DEFINE Good == {promised} \cup
                   {req[r].cohort : r \in {q \in Requests : req[q].kind = "preassign"}}
           First == LET m == db["membership"]
                    IN  /\ m.old = NoRow /\ m.old' # NoRow
                        /\ promised # NoRow /\ accidents' \subseteq {"raced"}
                        => m.old'.cohort \in Good
<1>1. ASSUME AnswerInv, AnswerInv', [Next]_vars PROVE [First]_vars
  <2> SUFFICES ASSUME db["membership"].old = NoRow, db'["membership"].old # NoRow,
                      promised # NoRow, accidents' \subseteq {"raced"}
               PROVE  db'["membership"].old.cohort \in Good
    OBVIOUS
  <2>1. PICK r \in Requests : Step(r)
    <3>1. ~UNCHANGED vars /\ ~Register
      BY DEF vars, Register
    <3> QED
      BY <1>1, <3>1 DEF Next, Serve, Step
  <2>2. Unstaffed' /\ Unstaffed /\ accidents \subseteq accidents' /\ promised' = promised
    <3>1. Unstaffed'
      BY DEF Unstaffed
    <3> QED
      BY <1>1, <2>1, <3>1, UnstaffedStep DEF AnswerInv
  <2>3. accidents' = {}
    <3>1. "raced" \notin accidents
      BY <1>1, <2>2 DEF AnswerInv, RacedLate
    <3>2. ASSUME "raced" \in accidents' PROVE FALSE
      <4>1. Assign(r) /\ db["membership"].now # NoRow
        BY <2>1, <3>1, <3>2 DEF Step, Get, Add, Remove, Find, Choose, Take, Lock, Assign, Unlist,
                                Delete, Note, End, Raises, HitIf
      <4> QED
        BY <1>1, <4>1 DEF AnswerInv, AssignLocks, Assign
    <3> QED
      BY <3>2
  <2>4. KeepsPromise(db["membership"].old)'
    BY <1>1, <2>2, <2>3 DEF AnswerInv, Promising, PromiseInv, RowsKeep
  <2>5. Promised(db["membership"].old.cohort)'
    BY <2>4 DEF KeepsPromise
  <2>6. \A q \in Requests : req'[q].kind = "preassign" =>
            req[q].kind = "preassign" /\ req[q].cohort = req'[q].cohort
    <3> SUFFICES ASSUME NEW q \in Requests, req'[q].kind = "preassign"
                 PROVE  req[q].kind = "preassign" /\ req[q].cohort = req'[q].cohort
      OBVIOUS
    <3>1. CASE q # r
      BY <1>1, <2>1, <3>1, OthersWait DEF AnswerInv
    <3>2. CASE q = r
      <4>1. ~Get(r) /\ ~Add(r) /\ ~Find(r) /\ ~Choose(r)
        BY DEF Get, Add, Find, Choose
      <4>2. \/ Take(r) \/ Lock(r) \/ Assign(r) \/ Note(r) \/ End(r) \/ Raises(r)
        BY <1>1, <2>1, <2>2, <4>1, UnstaffedStep DEF AnswerInv
      <4>3. req[r].at \notin {"new", "find", "choose"} \/ Raises(r)
        BY <4>2 DEF Take, Lock, Assign, Note, End
      <4>4. CASE Raises(r)
        <5>1. req'[r].kind = req[r].kind /\ req'[r].cohort = req[r].cohort
          BY <1>1, <4>4 DEF Raises, AnswerInv, TypeInv, ReqTyped
        <5> QED
          BY <3>2, <5>1
      <4>5. CASE ~Raises(r)
        <5>1. req'[r].kind = req[r].kind /\ req'[r].cohort = req[r].cohort
          BY <1>1, <2>1, <4>3, <4>5, CohortKept DEF AnswerInv
        <5> QED
          BY <3>2, <5>1
      <4> QED
        BY <4>4, <4>5
    <3> QED
      BY <3>1, <3>2
  <2> QED
    BY <2>2, <2>5, <2>6 DEF Promised
<1> QED
  BY <1>1, AnswerAtFirst, AnswerKept, PTL DEF Spec, PreassignedFirst
=============================================================================
