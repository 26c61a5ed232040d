------------------------- MODULE CourseIndexProofs -------------------------
(***************************************************************************)
(* Proofs about the index of a course: the variables keep their types; no  *)
(* index ever points to a structure that is not stored; the two databases  *)
(* agree unless one of the accidents happens; what learners see has been   *)
(* through the draft; no committed change is lost; and publications are    *)
(* announced.                                                              *)
(***************************************************************************)
EXTENDS CourseIndex, TLAPS

Indexes == Index \cup {NoIndex}
Records == [initial : Indexes, index : Indexes, news : SUBSET Ids, flag : BOOLEAN]
Holders == [by : Atomic, index : Index] \cup {NoPending}

\* A bulk operation that began with an index still has one, and one that is
\* about to write the row has one to write.
HasIndex(w) ==
    /\ pc[w] \in {"bulk", "store"} =>
          (rec[w].initial # NoIndex => rec[w].index # NoIndex)
    /\ pc[w] \in {"check", "save", "insert", "mirror"} => rec[w].index # NoIndex

\* The inductive invariant for the types.
TypeInv == TypeOK /\ \A w \in Writers : HasIndex(w)

LEMMA IdsOfWriter ==
    ASSUME NEW w \in Writers, NEW n \in 0..MaxMade
    PROVE  <<w, n>> \in Ids
BY DEF Ids

LEMMA NextIdIsId ==
    ASSUME TypeOK, NEW w \in Writers, made[w] < MaxMade
    PROVE  NextId(w) \in Ids /\ made[w] + 1 \in 0..MaxMade
<1>1. made[w] \in 0..MaxMade /\ MaxMade \in Nat
  BY CourseIndexAssumption DEF TypeOK, CourseIndexAssumption
<1>2. made[w] + 1 \in 0..MaxMade
  BY <1>1
<1>. QED  BY <1>2, IdsOfWriter DEF NextId

LEMMA VisibleIsIndex ==
    ASSUME TypeOK, NEW w \in Writers
    PROVE  Visible(w) \in Indexes
BY CourseIndexAssumption DEF TypeOK, Visible, Indexes, NoPending, CourseIndexAssumption

LEMMA StampedIsIndex ==
    ASSUME TypeOK, NEW w \in Writers, rec[w].index # NoIndex
    PROVE  Stamped(w) \in Index
<1>1. rec[w].index \in Index
  BY DEF TypeOK
<1>2. <<w, made[w]>> \in Ids
  BY IdsOfWriter DEF TypeOK
<1>. QED  BY <1>1, <1>2 DEF Stamped, Index

\* The row as it may be written.
LEMMA WriteRowType ==
    ASSUME TypeOK, NEW w \in Writers, NEW index \in Indexes,
           w \in Atomic => index # NoIndex, WriteRow(w, index)
    PROVE  row' \in Indexes /\ pending' \in Holders /\ kept' \subseteq Ids
<1>1. index # NoIndex => index.draft \in Ids
  BY DEF Index, Indexes
<1>2. row \in Indexes /\ pending \in Holders /\ kept \subseteq Ids /\ blocks \in [Ids -> SUBSET Ids]
  BY DEF TypeOK, Indexes, Holders
<1>. QED  BY <1>1, <1>2 DEF WriteRow, Indexes, Holders

LEMMA TypeInit == Init => TypeInv
<1>. SUFFICES ASSUME Init PROVE TypeInv
  OBVIOUS
<1>1. 0 \in 0..MaxMade /\ 1 \in 0..MaxMade
  BY CourseIndexAssumption DEF CourseIndexAssumption
<1>2. <<Origin, 0>> \in Ids /\ <<Origin, 1>> \in Ids
  BY <1>1 DEF Ids
<1>3. FirstIndex \in Index
  BY <1>2 DEF FirstIndex, Index
<1>4. row \in Indexes /\ mongo \in Indexes /\ structures \subseteq Ids
  BY <1>2, <1>3 DEF Init, Indexes, FirstIndex
<1>. QED
  BY <1>1, <1>4 DEF Init, TypeInv, TypeOK, HasIndex, Indexes, NoRecord, Stages, Cached, AccidentKinds

LEMMA SetIndex ==
    ASSUME NEW w \in Writers, NEW i \in Indexes, NEW recs \in [Writers -> Records]
    PROVE  [recs EXCEPT ![w].index = i] \in [Writers -> Records]
<1>1. [recs[w] EXCEPT !.index = i] \in Records
  BY DEF Records
<1>. QED  BY <1>1

LEMMA GoesTo ==
    ASSUME TypeOK, NEW w \in Writers, NEW stage \in Stages, Go(w, stage)
    PROVE  pc' \in [Writers -> Stages]
BY DEF TypeOK, Go

-----------------------------------------------------------------------------
(* The steps preserve the types                                            *)

LEMMA TypeRequest ==
    ASSUME TypeInv, NEW w \in Writers, StartRequest(w) \/ BeginBulk(w) \/ EndBody(w)
    PROVE  TypeInv'
<1>1. TypeOK /\ Visible(w) \in Indexes
  BY VisibleIsIndex DEF TypeInv
<1>. USE DEF TypeInv, HasIndex, TypeOK, Go, dbVars, histories, Stages
<1>2. CASE StartRequest(w)
  BY <1>1, <1>2 DEF StartRequest, Cached
<1>3. CASE BeginBulk(w)
  <2>. DEFINE found == IF cached[w] = Unread THEN Visible(w) ELSE cached[w]
  <2>1. found \in Indexes
    BY <1>1 DEF Cached, Indexes
  <2>. HIDE DEF found
  <2>2. /\ cached' = [cached EXCEPT ![w] = found]
        /\ rec' = [rec EXCEPT ![w].initial = found, ![w].index = found]
    BY <1>3 DEF BeginBulk, found
  <2>3. rec' \in [Writers -> Records]
    BY <1>1, <2>1, <2>2 DEF Records, Indexes
  <2>4. \A v \in Writers : HasIndex(v)'
    BY <1>1, <1>3, <2>2 DEF BeginBulk, TypeInv
  <2>. QED  BY <1>1, <1>3, <2>1, <2>2, <2>3, <2>4 DEF BeginBulk, Cached, Indexes, Records
<1>4. CASE EndBody(w)
  BY <1>4 DEF EndBody
<1>. QED  BY <1>2, <1>3, <1>4

\* What Edit and Publish do to the record and to the structures.
LEMMA TypeChange ==
    ASSUME TypeInv, NEW w \in Writers, pc[w] = "bulk", rec[w].index # NoIndex,
           NEW r \in Records, r.index # NoIndex, rec' = [rec EXCEPT ![w] = r],
           NEW i \in Ids, NEW content \in SUBSET Ids,
           blocks' = [blocks EXCEPT ![i] = content],
           NEW n \in 0..MaxMade, made' = [made EXCEPT ![w] = n],
           UNCHANGED <<dbVars, pc, cached, bulks, histories>>
    PROVE  TypeInv'
<1>1. rec' \in [Writers -> Records] /\ rec'[w].index # NoIndex
  BY DEF TypeInv, TypeOK, Records, Indexes
<1>2. \A v \in Writers : HasIndex(v)'
  BY <1>1 DEF TypeInv, HasIndex, TypeOK
<1>. QED  BY <1>1, <1>2 DEF TypeInv, TypeOK, Records, Indexes, dbVars, histories

LEMMA TypeEdit ==
    ASSUME TypeInv, NEW w \in Writers, Edit(w)
    PROVE  TypeInv'
<1>. DEFINE r == rec[w]
            id == IF DraftIsDirty(r) THEN r.index.draft ELSE NextId(w)
            new == [r EXCEPT !.index.draft = id, !.news = @ \cup {id}]
<1>1. r \in Records /\ r.index \in Index /\ r.index # NoIndex
  BY DEF TypeInv, TypeOK, Edit, Records, Indexes
<1>2. NextId(w) \in Ids /\ made[w] + 1 \in 0..MaxMade
  BY NextIdIsId DEF TypeInv, Edit
<1>3. id \in Ids /\ r.index.draft \in Ids
  BY <1>1, <1>2 DEF Index
<1>4. [r.index EXCEPT !.draft = id] \in Index
  BY <1>1, <1>3 DEF Index
<1>5. new \in Records /\ new.index # NoIndex
  BY <1>1, <1>3, <1>4, NoIndexAssumption DEF Records, Indexes, NoIndexAssumption
<1>6. blocks[r.index.draft] \cup {NextId(w)} \in SUBSET Ids
  BY <1>2, <1>3 DEF TypeInv, TypeOK
<1>7. rec' = [rec EXCEPT ![w] = new] /\ blocks' = [blocks EXCEPT ![id] = blocks[r.index.draft] \cup {NextId(w)}]
  BY DEF Edit
<1>. QED  BY <1>1, <1>2, <1>3, <1>5, <1>6, <1>7, TypeChange DEF Edit

LEMMA TypePublish ==
    ASSUME TypeInv, NEW w \in Writers, Publish(w)
    PROVE  TypeInv'
<1>. DEFINE r == rec[w]
            id == IF PublishedIsDirty(r) THEN r.index.published ELSE NextId(w)
            new == [r EXCEPT !.index.published = id, !.news = @ \cup {id}, !.flag = TRUE]
<1>1. r \in Records /\ r.index \in Index /\ r.index # NoIndex
  BY DEF TypeInv, TypeOK, Publish, Records, Indexes
<1>2. NextId(w) \in Ids /\ made[w] + 1 \in 0..MaxMade
  BY NextIdIsId DEF TypeInv, Publish
<1>3. id \in Ids /\ r.index.draft \in Ids
  BY <1>1, <1>2 DEF Index
<1>4. [r.index EXCEPT !.published = id] \in Index
  BY <1>1, <1>3 DEF Index
<1>5. new \in Records /\ new.index # NoIndex
  BY <1>1, <1>3, <1>4, NoIndexAssumption DEF Records, Indexes, NoIndexAssumption
<1>6. blocks[r.index.draft] \in SUBSET Ids
  BY <1>3 DEF TypeInv, TypeOK
<1>7. rec' = [rec EXCEPT ![w] = new] /\ blocks' = [blocks EXCEPT ![id] = blocks[r.index.draft]]
  BY DEF Publish
<1>. QED  BY <1>1, <1>2, <1>3, <1>5, <1>6, <1>7, TypeChange DEF Publish

LEMMA TypeCreate ==
    ASSUME TypeInv, NEW w \in Writers, CreateCourse(w)
    PROVE  TypeInv'
<1>. DEFINE d == NextId(w)
            p == <<w, made[w] + 2>>
            index == [_id |-> d, draft |-> d, published |-> p, last_update |-> d]
<1>1. made[w] \in 0..MaxMade /\ MaxMade \in Nat /\ made[w] + 2 <= MaxMade
  BY CourseIndexAssumption DEF TypeInv, TypeOK, CreateCourse, CourseIndexAssumption
<1>2. made[w] + 1 \in 0..MaxMade /\ made[w] + 2 \in 0..MaxMade
  BY <1>1
<1>3. d \in Ids /\ p \in Ids
  BY <1>2, IdsOfWriter DEF NextId
<1>4. index \in Index /\ index # NoIndex
  BY <1>3, NoIndexAssumption DEF Index, NoIndexAssumption
<1>5. /\ rec' = [rec EXCEPT ![w].index = index, ![w].news = @ \cup {d, p}, ![w].flag = TRUE]
      /\ blocks' = [blocks EXCEPT ![d] = {d}, ![p] = {d}]
      /\ made' = [made EXCEPT ![w] = @ + 2]
  BY DEF CreateCourse
<1>. HIDE DEF d, p, index
<1>6. rec' \in [Writers -> Records] /\ blocks' \in [Ids -> SUBSET Ids]
  <2>. DEFINE r == [rec[w] EXCEPT !.index = index, !.news = @ \cup {d, p}, !.flag = TRUE]
  <2>1. rec[w] \in Records /\ rec \in [Writers -> Records]
    BY DEF TypeInv, TypeOK, Records, Indexes
  <2>2. r \in Records
    BY <1>3, <1>4, <2>1 DEF Records, Indexes
  <2>3. rec' = [rec EXCEPT ![w] = r]
    BY <1>5, <2>1
  <2>. HIDE DEF r
  <2>4. rec' \in [Writers -> Records]
    BY <2>1, <2>2, <2>3
  <2>5. blocks' \in [Ids -> SUBSET Ids]
    BY <1>3, <1>5 DEF TypeInv, TypeOK
  <2>. QED  BY <2>4, <2>5
<1>7. \A v \in Writers : HasIndex(v)'
  BY <1>4, <1>5 DEF TypeInv, TypeOK, HasIndex, CreateCourse
<1>. QED
  BY <1>2, <1>5, <1>6, <1>7 DEF CreateCourse, TypeInv, TypeOK, Records, Indexes, dbVars, histories

LEMMA TypeStore ==
    ASSUME TypeInv, NEW w \in Writers, StoreStructures(w)
    PROVE  TypeInv'
<1>1. rec[w] \in Records
  BY DEF TypeInv, TypeOK, Records, Indexes
<1>2. structures' \subseteq Ids
  BY <1>1 DEF StoreStructures, TypeInv, TypeOK, Records
<1>3. NoRecord \in Records
  BY DEF NoRecord, Records, Indexes
<1>4. rec' \in [Writers -> Records]
  BY <1>3 DEF StoreStructures, Finish, TypeInv, TypeOK, Records, Indexes
<1>6. pc' \in [Writers -> Stages]
  <2>1. \E stage \in Stages : Go(w, stage)
    BY DEF StoreStructures, Finish, Stages
  <2>. QED  BY <2>1, GoesTo DEF TypeInv
<1>5. \A v \in Writers : HasIndex(v)'
  BY DEF StoreStructures, Finish, Go, TypeInv, TypeOK, HasIndex, NoRecord
<1>. QED  BY <1>2, <1>4, <1>5, <1>6 DEF StoreStructures, TypeInv, TypeOK, Records, Indexes, histories

LEMMA TypeReadRow ==
    ASSUME TypeInv, NEW w \in Writers, ReadRow(w)
    PROVE  TypeInv'
<1>1. rec[w].index # NoIndex /\ Stamped(w) \in Index /\ Stamped(w) # NoIndex
  BY StampedIsIndex, NoIndexAssumption DEF TypeInv, HasIndex, ReadRow, NoIndexAssumption
<1>2. rec' \in [Writers -> Records] /\ pc' \in [Writers -> Stages]
  <2>1. rec \in [Writers -> Records]
    BY DEF TypeInv, TypeOK, Records, Indexes
  <2>2. rec' = rec \/ rec' = [rec EXCEPT ![w].index = Stamped(w)]
    BY DEF ReadRow, Fail
  <2>3. \E stage \in Stages : Go(w, stage)
    BY DEF ReadRow, Fail, Stages
  <2>. QED  BY <1>1, <2>1, <2>2, <2>3, SetIndex, GoesTo DEF TypeInv, Indexes
<1>3. \A v \in Writers : HasIndex(v)'
  BY <1>1 DEF ReadRow, Fail, Go, TypeInv, TypeOK, HasIndex
<1>4. cached' \in [Writers -> Cached]
  BY DEF ReadRow, TypeInv, TypeOK, Cached
<1>. QED
  BY <1>2, <1>3, <1>4 DEF ReadRow, TypeInv, TypeOK, Records, Indexes, dbVars, histories

LEMMA TypeSaveRow ==
    ASSUME TypeInv, NEW w \in Writers, SaveRow(w)
    PROVE  TypeInv'
<1>1. rec[w].index # NoIndex /\ rec[w].index \in Indexes
  BY DEF TypeInv, TypeOK, HasIndex, SaveRow, Indexes
<1>2. row' \in Indexes /\ pending' \in Holders /\ kept' \subseteq Ids
  BY <1>1, WriteRowType DEF SaveRow, TypeInv, TypeOK, Indexes, Holders
<1>3. accidents' \subseteq AccidentKinds
  BY DEF SaveRow, TypeInv, TypeOK, AccidentKinds
<1>4. pc' \in [Writers -> Stages] /\ \A v \in Writers : HasIndex(v)'
  BY <1>1 DEF SaveRow, Go, TypeInv, TypeOK, HasIndex, Stages
<1>. QED  BY <1>2, <1>3, <1>4 DEF SaveRow, TypeInv, TypeOK, Indexes, Holders

LEMMA TypeInsertRow ==
    ASSUME TypeInv, NEW w \in Writers, InsertRow(w)
    PROVE  TypeInv'
<1>1. Stamped(w) \in Index /\ Stamped(w) # NoIndex
  BY StampedIsIndex, NoIndexAssumption DEF TypeInv, HasIndex, InsertRow, NoIndexAssumption
<1>2. row' \in Indexes /\ pending' \in Holders /\ kept' \subseteq Ids
  BY <1>1, WriteRowType DEF InsertRow, TypeInv, TypeOK, Indexes, Holders
<1>3. accidents' \subseteq AccidentKinds
  BY DEF InsertRow, HitIf, TypeInv, TypeOK, AccidentKinds
<1>4. rec' \in [Writers -> Records] /\ pc' \in [Writers -> Stages]
  <2>1. rec \in [Writers -> Records]
    BY DEF TypeInv, TypeOK, Records, Indexes
  <2>2. rec' = rec \/ rec' = [rec EXCEPT ![w].index = Stamped(w)]
    BY DEF InsertRow, Fail
  <2>3. \E stage \in Stages : Go(w, stage)
    BY DEF InsertRow, Fail, Stages
  <2>. QED  BY <1>1, <2>1, <2>2, <2>3, SetIndex, GoesTo DEF TypeInv, Indexes
<1>5. \A v \in Writers : HasIndex(v)'
  BY <1>1 DEF InsertRow, Fail, Go, TypeInv, TypeOK, HasIndex
<1>6. cached' \in [Writers -> Cached]
  BY DEF InsertRow, TypeInv, TypeOK, Cached
<1>. QED
  BY <1>2, <1>3, <1>4, <1>5, <1>6 DEF InsertRow, TypeInv, TypeOK, Records, Indexes, Holders

LEMMA TypeMongo ==
    ASSUME TypeInv, NEW w \in Writers, WriteMongo(w) \/ MongoFails(w) \/ DeleteMongo(w)
    PROVE  TypeInv'
<1>. USE DEF Go, TypeInv, TypeOK, HasIndex, Stages
<1>1. CASE WriteMongo(w)
  <2>1. rec[w].index \in Indexes
    BY DEF Indexes
  <2>2. mongo' \in Indexes
    BY <1>1, <2>1 DEF WriteMongo, Indexes
  <2>3. pc' \in [Writers -> Stages] /\ \A v \in Writers : HasIndex(v)'
    BY <1>1 DEF WriteMongo
  <2>. QED  BY <1>1, <2>2, <2>3 DEF WriteMongo, histories, Indexes
<1>2. CASE MongoFails(w)
  BY <1>2 DEF MongoFails, Hit, AccidentKinds, dbVars
<1>3. CASE DeleteMongo(w)
  BY <1>3 DEF DeleteMongo, histories
<1>. QED  BY <1>1, <1>2, <1>3

LEMMA TypeSignals ==
    ASSUME TypeInv, NEW w \in Writers, SendSignals(w)
    PROVE  TypeInv'
<1>1. NoRecord \in Records
  BY DEF NoRecord, Records, Indexes
<1>2. announced' \subseteq Ids
  BY DEF SendSignals, TypeInv, TypeOK, Index
<1>3. rec' \in [Writers -> Records] /\ pc' \in [Writers -> Stages]
  BY <1>1 DEF SendSignals, Finish, Go, TypeInv, TypeOK, Records, Indexes, Stages
<1>4. \A v \in Writers : HasIndex(v)'
  BY DEF SendSignals, Finish, Go, TypeInv, TypeOK, HasIndex, NoRecord
<1>. QED
  BY <1>2, <1>3, <1>4
  DEF SendSignals, HitIf, AccidentKinds, TypeInv, TypeOK, Records, Indexes, dbVars

LEMMA TypeEnd ==
    ASSUME TypeInv, NEW w \in Writers,
           DeleteCourse(w) \/ EndRequest(w) \/ Abort(w) \/ Crash(w)
    PROVE  TypeInv'
<1>1. CASE DeleteCourse(w)
  <2>1. row' \in Indexes /\ pending' \in Holders /\ kept' \subseteq Ids
    BY <1>1, WriteRowType DEF DeleteCourse, TypeInv, Indexes
  <2>. QED
    BY <1>1, <2>1 DEF DeleteCourse, HitIf, AccidentKinds, Go, TypeInv, TypeOK, HasIndex, Stages,
       Indexes, Holders, Cached
<1>2. CASE EndRequest(w)
  <2>1. pending.by = w => pending.index \in Index /\ pending.index.draft \in Ids
    BY CourseIndexAssumption DEF TypeInv, TypeOK, NoPending, CourseIndexAssumption, Index
  <2>2. row' \in Indexes /\ pending' \in Holders /\ kept' \subseteq Ids
    BY <1>2, <2>1 DEF EndRequest, TypeInv, TypeOK, Indexes, Holders
  <2>. QED
    BY <1>2, <2>2 DEF EndRequest, Go, TypeInv, TypeOK, HasIndex, Stages, Indexes, Holders
<1>3. CASE Abort(w)
  BY <1>3 DEF Abort, HitIf, AccidentKinds, Go, TypeInv, TypeOK, HasIndex, Stages
<1>4. CASE Crash(w)
  <2>1. NoRecord \in Records
    BY DEF NoRecord, Records, Indexes
  <2>. QED
    BY <1>4, <2>1 DEF Crash, Hit, AccidentKinds, Go, TypeInv, TypeOK, HasIndex, Stages, Records,
       Indexes
<1>. QED  BY <1>1, <1>2, <1>3, <1>4

LEMMA TypeNext == TypeInv /\ [Next]_vars => TypeInv'
<1>. SUFFICES ASSUME TypeInv, [Next]_vars PROVE TypeInv'
  OBVIOUS
<1>1. CASE Next
  <2>. PICK w \in Writers :
         \/ StartRequest(w) \/ BeginBulk(w) \/ Edit(w) \/ Publish(w) \/ CreateCourse(w)
         \/ DeleteCourse(w) \/ MongoFails(w) \/ Crash(w) \/ Work(w)
    BY <1>1 DEF Next
  <2>. QED
    BY TypeRequest, TypeEdit, TypePublish, TypeCreate, TypeStore, TypeReadRow, TypeSaveRow,
       TypeInsertRow, TypeMongo, TypeSignals, TypeEnd DEF Work
<1>2. CASE UNCHANGED vars
  BY <1>2 DEF vars, dbVars, histories, TypeInv, TypeOK, HasIndex
<1>. QED  BY <1>1, <1>2

\* Every variable of the modulestore keeps its type: an index that is written
\* is an index, whatever failed before (_end_outermost_bulk_operation).
THEOREM TypesOfCourseIndex == Spec => []TypeOK
<1>1. TypeInv => TypeOK
  BY DEF TypeInv
<1>. QED  BY TypeInit, TypeNext, <1>1, PTL DEF Spec

-----------------------------------------------------------------------------
(* No index points to a structure that is not stored                       *)

\* What a writer holds: the index of an open bulk operation points to what is
\* stored or will be, and from the insertion on to what is stored; so does what
\* the request cache returns.
HoldsStored(w) ==
    /\ pc[w] \in {"bulk", "store"} => Pointers(rec[w].index) \subseteq structures \cup rec[w].news
    /\ pc[w] \in {"check", "save", "insert", "mirror"} => Pointers(rec[w].index) \subseteq structures
    /\ cached[w] # Unread => Pointers(cached[w]) \subseteq structures

\* The inductive invariant for PointersAreStored.
StoredInv == TypeInv /\ PointersAreStored /\ \A w \in Writers : HoldsStored(w)

LEMMA PointersOfStamped ==
    ASSUME TypeOK, NEW w \in Writers, rec[w].index # NoIndex
    PROVE  Pointers(Stamped(w)) = Pointers(rec[w].index)
<1>1. Stamped(w) # NoIndex
  BY StampedIsIndex, NoIndexAssumption DEF NoIndexAssumption
<1>2. rec[w].index \in Index
  BY DEF TypeOK
<1>. QED  BY <1>1, <1>2 DEF Pointers, Stamped, Index

LEMMA PointersWritten ==
    ASSUME TypeOK, NEW w, NEW index, WriteRow(w, index)
    PROVE  Pointers(row') \cup Pointers(pending'.index)
             \subseteq Pointers(row) \cup Pointers(pending.index) \cup Pointers(index)
<1>1. CASE w \in Atomic
  BY <1>1 DEF WriteRow
<1>2. CASE w \notin Atomic
  BY <1>2 DEF WriteRow
<1>. QED  BY <1>1, <1>2

LEMMA NoPointers == Pointers(NoIndex) = {} /\ NoPending.index = NoIndex
BY DEF Pointers, NoPending

\* The indexes in the databases stay as they are, and what is stored stays.
LEMMA DatabasesKept ==
    ASSUME PointersAreStored, structures \subseteq structures', UNCHANGED <<row, pending, mongo>>
    PROVE  PointersAreStored'
BY DEF PointersAreStored, Pointers

\* A writer that does nothing holds what it held.
LEMMA OthersHold ==
    ASSUME NEW v \in Writers, HoldsStored(v), structures \subseteq structures',
           pc'[v] = pc[v], rec'[v] = rec[v], cached'[v] = cached[v]
    PROVE  HoldsStored(v)'
BY DEF HoldsStored, Pointers

\* A step of w moves its entries only.
LEMMA OnlyOwn ==
    ASSUME TypeInv, NEW w \in Writers,
           \/ StartRequest(w) \/ BeginBulk(w) \/ Edit(w) \/ Publish(w) \/ CreateCourse(w)
           \/ DeleteCourse(w) \/ MongoFails(w) \/ Crash(w) \/ Work(w)
    PROVE  /\ structures \subseteq structures'
           /\ \A v \in Writers \ {w} : /\ pc'[v] = pc[v]
                                       /\ rec'[v] = rec[v]
                                       /\ cached'[v] = cached[v]
<1>. USE DEF TypeInv, TypeOK, Go, dbVars
<1>1. CASE StartRequest(w) \/ BeginBulk(w) \/ EndBody(w)
  BY <1>1 DEF StartRequest, BeginBulk, EndBody
<1>2. CASE Edit(w) \/ Publish(w) \/ CreateCourse(w)
  BY <1>2 DEF Edit, Publish, CreateCourse
<1>3. CASE StoreStructures(w) \/ SendSignals(w)
  BY <1>3 DEF StoreStructures, SendSignals, Finish
<1>4. CASE ReadRow(w) \/ SaveRow(w) \/ InsertRow(w)
  BY <1>4 DEF ReadRow, SaveRow, InsertRow, Fail
<1>5. CASE WriteMongo(w) \/ MongoFails(w) \/ DeleteMongo(w)
  BY <1>5 DEF WriteMongo, MongoFails, DeleteMongo
<1>6. CASE DeleteCourse(w) \/ EndRequest(w) \/ Abort(w) \/ Crash(w)
  BY <1>6 DEF DeleteCourse, EndRequest, Abort, Crash
<1>. QED  BY <1>1, <1>2, <1>3, <1>4, <1>5, <1>6 DEF Work

LEMMA StoredInit == Init => StoredInv
<1>. SUFFICES ASSUME Init PROVE StoredInv
  OBVIOUS
<1>1. TypeInv
  BY TypeInit
<1>2. Pointers(row) \subseteq structures
  BY DEF Init, Pointers, FirstIndex
<1>. QED
  BY <1>1, <1>2, NoPointers DEF Init, StoredInv, PointersAreStored, HoldsStored

\* Requests, their ends, signals and deaths write no index they do not hold.
LEMMA StoredRequest ==
    ASSUME StoredInv, NEW w \in Writers, StartRequest(w) \/ BeginBulk(w) \/ EndBody(w)
    PROVE  PointersAreStored' /\ HoldsStored(w)'
<1>. USE DEF StoredInv, TypeInv, TypeOK, HoldsStored, Go, dbVars
<1>1. PointersAreStored'
  BY DatabasesKept DEF StartRequest, BeginBulk, EndBody
<1>2. CASE StartRequest(w)
  BY <1>1, <1>2 DEF StartRequest
<1>3. CASE BeginBulk(w)
  <2>. DEFINE found == IF cached[w] = Unread THEN Visible(w) ELSE cached[w]
  <2>1. Pointers(found) \subseteq structures
    BY DEF Visible, PointersAreStored
  <2>. HIDE DEF found
  <2>2. pc'[w] = "bulk" /\ cached'[w] = found /\ rec'[w].index = found /\ structures' = structures
    BY <1>3 DEF BeginBulk, found
  <2>. QED  BY <1>1, <2>1, <2>2 DEF Pointers
<1>4. CASE EndBody(w)
  BY <1>1, <1>4 DEF EndBody, Pointers
<1>. QED  BY <1>2, <1>3, <1>4

LEMMA StoredChange ==
    ASSUME StoredInv, NEW w \in Writers, Edit(w) \/ Publish(w) \/ CreateCourse(w)
    PROVE  PointersAreStored' /\ HoldsStored(w)'
<1>. USE DEF StoredInv, HoldsStored
<1>1. PointersAreStored'
  BY DatabasesKept DEF Edit, Publish, CreateCourse, dbVars
<1>2. /\ pc[w] = "bulk" /\ pc' = pc /\ cached' = cached /\ structures' = structures
      /\ rec[w] \in Records /\ rec[w].news \subseteq rec'[w].news
  BY DEF Edit, Publish, CreateCourse, dbVars, TypeInv, TypeOK, Records, Indexes
<1>3. ASSUME Edit(w) \/ Publish(w)
      PROVE  Pointers(rec'[w].index) \subseteq Pointers(rec[w].index) \cup rec'[w].news
  <2>1. rec[w].index \in Index /\ rec[w].index # NoIndex
    BY <1>2, <1>3 DEF Edit, Publish, Records, Indexes
  <2>2. CASE Edit(w)
    <3>1. PICK id : rec' = [rec EXCEPT ![w].index.draft = id, ![w].news = @ \cup {id}]
      BY <2>2 DEF Edit
    <3>2. rec'[w].index = [rec[w].index EXCEPT !.draft = id] /\ id \in rec'[w].news
      BY <3>1, <1>2 DEF TypeInv, TypeOK, Records
    <3>. QED  BY <2>1, <3>2 DEF Pointers, Index
  <2>3. CASE Publish(w)
    <3>1. PICK id : rec' = [rec EXCEPT ![w].index.published = id, ![w].news = @ \cup {id},
                                       ![w].flag = TRUE]
      BY <2>3 DEF Publish
    <3>2. rec'[w].index = [rec[w].index EXCEPT !.published = id] /\ id \in rec'[w].news
      BY <3>1, <1>2 DEF TypeInv, TypeOK, Records
    <3>. QED  BY <2>1, <3>2 DEF Pointers, Index
  <2>. QED  BY <1>3, <2>2, <2>3
<1>4. ASSUME CreateCourse(w)
      PROVE  Pointers(rec'[w].index) \subseteq rec'[w].news
  <2>1. PICK d, p : rec' = [rec EXCEPT ![w].index = [_id |-> d, draft |-> d, published |-> p,
                                                     last_update |-> d],
                                       ![w].news = @ \cup {d, p}, ![w].flag = TRUE]
    BY <1>4 DEF CreateCourse
  <2>2. /\ rec'[w].index = [_id |-> d, draft |-> d, published |-> p, last_update |-> d]
        /\ rec'[w].news = rec[w].news \cup {d, p}
    BY <2>1, <1>2 DEF TypeInv, TypeOK, Records
  <2>. QED  BY <2>2 DEF Pointers
<1>5. Pointers(rec'[w].index) \subseteq structures \cup rec'[w].news
  BY <1>2, <1>3, <1>4
<1>6. cached[w] # Unread => Pointers(cached[w]) \subseteq structures
  OBVIOUS
<1>7. /\ pc'[w] = "bulk" /\ structures' = structures
      /\ cached'[w] # Unread => Pointers(cached'[w]) \subseteq structures'
  BY <1>2, <1>6
<1>. QED  BY <1>1, <1>5, <1>7 DEF Pointers

\* insert_structure comes before the index is written.
LEMMA StoredStructures ==
    ASSUME StoredInv, NEW w \in Writers, StoreStructures(w)
    PROVE  PointersAreStored' /\ HoldsStored(w)'
<1>. USE DEF StoredInv, HoldsStored
<1>1. PointersAreStored'
  BY DatabasesKept DEF StoreStructures
<1>2. Pointers(rec[w].index) \subseteq structures'
  BY DEF StoreStructures
<1>3. /\ pc'[w] \in {"check", "insert"} /\ rec'[w] = rec[w]
      \/ pc'[w] \in {"signals", "request"}
  BY DEF StoreStructures, Finish, Go, TypeInv, TypeOK
<1>4. cached'[w] # Unread => Pointers(cached'[w]) \subseteq structures'
  BY DEF StoreStructures
<1>. QED  BY <1>1, <1>2, <1>3, <1>4 DEF Pointers

\* The row is read, saved or inserted with an index whose structures are stored.
LEMMA StoredRow ==
    ASSUME StoredInv, NEW w \in Writers, ReadRow(w) \/ SaveRow(w) \/ InsertRow(w)
    PROVE  PointersAreStored' /\ HoldsStored(w)'
<1>. USE DEF StoredInv, HoldsStored
<1>1. TypeOK /\ rec[w].index # NoIndex /\ Pointers(rec[w].index) \subseteq structures
  BY DEF TypeInv, HasIndex, ReadRow, SaveRow, InsertRow
<1>2. Pointers(Stamped(w)) \subseteq structures
  BY <1>1, PointersOfStamped
<1>3. CASE ReadRow(w)
  <2>1. PointersAreStored'
    BY <1>3, DatabasesKept DEF ReadRow, dbVars
  <2>2. /\ structures' = structures /\ cached'[w] = Unread
        /\ \/ pc'[w] \in {"failed", "signals"}
           \/ pc'[w] = "save" /\ rec'[w].index = Stamped(w)
    BY <1>1, <1>3 DEF ReadRow, Fail, Go, dbVars, TypeOK
  <2>. QED  BY <1>2, <2>1, <2>2 DEF Pointers
<1>4. CASE SaveRow(w)
  <2>1. Pointers(row') \cup Pointers(pending'.index) \subseteq structures
    BY <1>1, <1>4, PointersWritten DEF SaveRow, PointersAreStored
  <2>2. PointersAreStored'
    BY <1>4, <2>1 DEF SaveRow, PointersAreStored, Pointers
  <2>3. structures' = structures /\ rec' = rec /\ cached' = cached
    BY <1>4 DEF SaveRow
  <2>4. pc'[w] \in {"mirror", "failed"}
    BY <1>1, <1>4 DEF SaveRow, Go, TypeOK
  <2>. QED  BY <1>1, <2>2, <2>3, <2>4 DEF Pointers
<1>5. CASE InsertRow(w)
  <2>1. Pointers(row') \cup Pointers(pending'.index) \subseteq structures
    BY <1>1, <1>2, <1>5, PointersWritten DEF InsertRow, PointersAreStored
  <2>2. PointersAreStored'
    BY <1>5, <2>1 DEF InsertRow, PointersAreStored, Pointers
  <2>3. structures' = structures /\ cached'[w] = Unread
    BY <1>1, <1>5 DEF InsertRow, TypeOK
  <2>4. \/ pc'[w] = "failed"
        \/ pc'[w] = "mirror" /\ rec' = [rec EXCEPT ![w].index = Stamped(w)]
    BY <1>1, <1>5 DEF InsertRow, Fail, Go, TypeOK
  <2>5. rec' = [rec EXCEPT ![w].index = Stamped(w)] => rec'[w].index = Stamped(w)
    BY <1>1 DEF TypeOK
  <2>. QED  BY <1>2, <2>2, <2>3, <2>4, <2>5 DEF Pointers
<1>. QED  BY <1>3, <1>4, <1>5

LEMMA StoredMongo ==
    ASSUME StoredInv, NEW w \in Writers, WriteMongo(w) \/ MongoFails(w) \/ DeleteMongo(w)
    PROVE  PointersAreStored' /\ HoldsStored(w)'
<1>. USE DEF StoredInv, HoldsStored
<1>1. structures' = structures /\ row' = row /\ pending' = pending /\ cached' = cached
  BY DEF WriteMongo, MongoFails, DeleteMongo, dbVars
<1>2. \/ mongo' = mongo \/ mongo' = NoIndex
      \/ pc[w] = "mirror" /\ mongo' = rec[w].index
  <2>1. CASE WriteMongo(w)
    BY <2>1 DEF WriteMongo
  <2>2. CASE MongoFails(w) \/ DeleteMongo(w)
    BY <2>2 DEF MongoFails, DeleteMongo, dbVars
  <2>. QED  BY <2>1, <2>2
<1>3. Pointers(mongo') \subseteq structures
  BY <1>2, NoPointers DEF PointersAreStored
<1>4. pc'[w] \in {"signals", "failed", "request"}
  BY DEF WriteMongo, MongoFails, DeleteMongo, Go, TypeInv, TypeOK
<1>. QED  BY <1>1, <1>3, <1>4 DEF PointersAreStored, Pointers

LEMMA StoredEnd ==
    ASSUME StoredInv, NEW w \in Writers,
           SendSignals(w) \/ DeleteCourse(w) \/ EndRequest(w) \/ Abort(w) \/ Crash(w)
    PROVE  PointersAreStored' /\ HoldsStored(w)'
<1>. USE DEF StoredInv, HoldsStored
<1>1. structures' = structures /\ mongo' = mongo /\ cached'[w] \in {cached[w], Unread}
  BY DEF SendSignals, DeleteCourse, EndRequest, Abort, Crash, dbVars, TypeInv, TypeOK
<1>2. Pointers(row') \cup Pointers(pending'.index) \subseteq structures
  <2>1. CASE DeleteCourse(w)
    BY <2>1, PointersWritten, NoPointers DEF DeleteCourse, PointersAreStored, TypeInv
  <2>2. CASE EndRequest(w)
    BY <2>2, NoPointers DEF EndRequest, PointersAreStored
  <2>3. CASE Abort(w) \/ Crash(w)
    BY <2>3, NoPointers DEF Abort, Crash, PointersAreStored
  <2>4. CASE SendSignals(w)
    BY <2>4 DEF SendSignals, dbVars, PointersAreStored
  <2>. QED  BY <2>1, <2>2, <2>3, <2>4
<1>3. pc'[w] \in {"request", "unmirror", "idle"}
  BY DEF SendSignals, Finish, DeleteCourse, EndRequest, Abort, Crash, Go, TypeInv, TypeOK
<1>. QED  BY <1>1, <1>2, <1>3 DEF PointersAreStored, Pointers

LEMMA StoredNext == StoredInv /\ [Next]_vars => StoredInv'
<1>. SUFFICES ASSUME StoredInv, [Next]_vars PROVE StoredInv'
  OBVIOUS
<1>1. TypeInv'
  BY TypeNext DEF StoredInv
<1>2. CASE Next
  <2>. PICK w \in Writers :
         \/ StartRequest(w) \/ BeginBulk(w) \/ Edit(w) \/ Publish(w) \/ CreateCourse(w)
         \/ DeleteCourse(w) \/ MongoFails(w) \/ Crash(w) \/ Work(w)
    BY <1>2 DEF Next
  <2>1. PointersAreStored' /\ HoldsStored(w)'
    BY StoredRequest, StoredChange, StoredStructures, StoredRow, StoredMongo, StoredEnd DEF Work
  <2>2. \A v \in Writers \ {w} : HoldsStored(v)'
    BY OnlyOwn, OthersHold DEF StoredInv
  <2>. QED  BY <1>1, <2>1, <2>2 DEF StoredInv
<1>3. CASE UNCHANGED vars
  BY <1>1, <1>3 DEF vars, dbVars, StoredInv, PointersAreStored, HoldsStored, Pointers
<1>. QED  BY <1>2, <1>3

\* Neither database nor an open transaction ever points to a structure that is
\* not stored: _end_outermost_bulk_operation inserts the structures before it
\* writes the index, and every index that is written comes from there.
THEOREM StructuresBeforeIndex == Spec => []PointersAreStored
<1>1. StoredInv => PointersAreStored
  BY DEF StoredInv
<1>. QED  BY StoredInit, StoredNext, <1>1, PTL DEF Spec

-----------------------------------------------------------------------------
(* The two databases agree                                                 *)

\* The index as the last statement left it, committed or not.
Latest == IF pending.by = Origin THEN row ELSE pending.index

\* A new index is inserted, one that was there is replaced.
Directed(w) ==
    /\ pc[w] = "insert" => rec[w].initial = NoIndex
    /\ pc[w] \in {"check", "save"} => rec[w].initial # NoIndex

Mirroring(w) == pc[w] \in {"mirror", "unmirror"}

\* What a writer between its two writes has still to do will succeed.
WillAgree(w) ==
    /\ pc[w] = "mirror" =>
          /\ Latest = rec[w].index
          /\ pending.by = IF w \in Atomic THEN w ELSE Origin
          /\ IF rec[w].initial = NoIndex
             THEN mongo = NoIndex
             ELSE mongo # NoIndex /\ mongo._id = rec[w].index._id
    /\ pc[w] = "unmirror" => pending = NoPending /\ row = NoIndex

\* One writer at most stands between its two writes.
OneMirrors == \A v, w \in Writers : Mirroring(v) /\ Mirroring(w) => v = w

NobodyMirrors == \A w \in Writers : ~Mirroring(w)

\* The inductive invariant for MirrorAgrees.
MirrorInv ==
    /\ TypeInv
    /\ \A w \in Writers : Directed(w)
    /\ accidents = {} => /\ OneMirrors
                         /\ \A w \in Writers : WillAgree(w)
                         /\ NobodyMirrors => mongo = Latest

LEMMA PendingHasOne ==
    ASSUME TypeInv
    PROVE  /\ pending.by = Origin => pending = NoPending
           /\ pending.by # Origin => pending.by \in Atomic /\ pending.index \in Index
BY CourseIndexAssumption DEF CourseIndexAssumption, TypeInv, TypeOK, NoPending

\* A writer that may write sees the latest index, and leaves the one it writes.
LEMMA Written ==
    ASSUME TypeInv, NEW w \in Writers, Unlocked(w), NEW index, WriteRow(w, index)
    PROVE  /\ Visible(w) = Latest
           /\ Latest' = index
           /\ pending'.by = IF w \in Atomic THEN w ELSE Origin
           /\ w \notin Atomic => pending' = NoPending /\ row' = index
<1>1. w # Origin
  BY CourseIndexAssumption DEF CourseIndexAssumption
<1>2. Visible(w) = Latest
  BY <1>1, PendingHasOne DEF Unlocked, Visible, Latest
<1>3. CASE w \in Atomic
  BY <1>1, <1>2, <1>3 DEF WriteRow, Latest
<1>4. CASE w \notin Atomic
  <2>1. pending = NoPending
    BY <1>4, PendingHasOne DEF Unlocked
  <2>. QED  BY <1>2, <1>4, <2>1 DEF WriteRow, Latest, NoPending
<1>. QED  BY <1>3, <1>4

LEMMA MirrorInit == Init => MirrorInv
<1>1. Init => TypeInv
  BY TypeInit
<1>2. Init => mongo = Latest
  BY DEF Init, Latest, NoPending
<1>. QED
  BY <1>1, <1>2 DEF Init, MirrorInv, Directed, OneMirrors, NobodyMirrors, WillAgree, Mirroring

\* Writers that do not move.
Others(w) == \A v \in Writers \ {w} : pc'[v] = pc[v] /\ rec'[v] = rec[v]

\* A step that leaves the databases alone, away from the two writes.
LEMMA MirrorRests ==
    ASSUME MirrorInv, TypeInv', NEW w \in Writers, Others(w), Directed(w)',
           ~Mirroring(w), ~Mirroring(w)', mongo' = mongo, Latest' = Latest,
           (pending' = pending /\ row' = row) \/ pending.by = w,
           accidents \subseteq accidents'
    PROVE  MirrorInv'
<1>1. \A v \in Writers : Directed(v)'
  BY DEF MirrorInv, Others, Directed
<1>2. SUFFICES ASSUME accidents' = {}
               PROVE  /\ OneMirrors'
                      /\ \A v \in Writers : WillAgree(v)'
                      /\ NobodyMirrors' => mongo' = Latest'
  BY <1>1 DEF MirrorInv
<1>3. /\ OneMirrors
      /\ \A v \in Writers : WillAgree(v)
      /\ NobodyMirrors => mongo = Latest
  BY <1>2 DEF MirrorInv
<1>4. \A v \in Writers : Mirroring(v)' <=> Mirroring(v)
  BY DEF Others, Mirroring
<1>5. ASSUME NEW v \in Writers PROVE WillAgree(v)'
  <2>1. CASE v = w
    BY <2>1 DEF WillAgree, Mirroring
  <2>2. CASE v # w /\ Mirroring(v)
    <3>1. pending.by # w
      BY <1>3, <2>2, CourseIndexAssumption DEF WillAgree, Mirroring, NoPending, CourseIndexAssumption
    <3>2. pending' = pending /\ row' = row /\ pc'[v] = pc[v] /\ rec'[v] = rec[v]
      BY <2>2, <3>1 DEF Others
    <3>. QED  BY <1>3, <3>2 DEF WillAgree
  <2>3. CASE v # w /\ ~Mirroring(v)
    BY <1>4, <2>3 DEF WillAgree, Mirroring
  <2>. QED  BY <2>1, <2>2, <2>3
<1>. QED  BY <1>3, <1>4, <1>5 DEF OneMirrors, NobodyMirrors

\* Steps that leave both databases and the transaction as they are.
LEMMA MirrorPasses ==
    ASSUME MirrorInv, TypeInv', NEW w \in Writers,
           \/ StartRequest(w) \/ BeginBulk(w) \/ Edit(w) \/ Publish(w) \/ CreateCourse(w)
           \/ EndBody(w) \/ StoreStructures(w) \/ ReadRow(w) \/ SendSignals(w)
    PROVE  MirrorInv'
<1>. USE DEF dbVars, histories, Go
<1>1. TypeInv /\ TypeOK
  BY DEF MirrorInv, TypeInv
<1>2. Others(w)
  BY <1>1, OnlyOwn DEF Others, Work
<1>3. /\ UNCHANGED <<row, pending, mongo>>
      /\ accidents \subseteq accidents'
  BY DEF StartRequest, BeginBulk, Edit, Publish, CreateCourse, EndBody, StoreStructures,
         ReadRow, SendSignals, HitIf
<1>4. pc \in [Writers -> Stages] /\ rec \in [Writers -> Records]
  BY <1>1 DEF TypeOK, Records, Indexes
<1>5. ~Mirroring(w) /\ ~Mirroring(w)' /\ Directed(w)'
  <2>1. CASE StartRequest(w) \/ BeginBulk(w) \/ EndBody(w)
    BY <1>4, <2>1 DEF StartRequest, BeginBulk, EndBody, Mirroring, Directed
  <2>2. CASE Edit(w) \/ Publish(w) \/ CreateCourse(w)
    BY <1>4, <2>2 DEF Edit, Publish, CreateCourse, Mirroring, Directed
  <2>3. CASE StoreStructures(w)
    <3>1. /\ pc[w] = "store"
          /\ \/ /\ pc'[w] = IF rec[w].initial = NoIndex THEN "insert" ELSE "check"
                /\ rec' = rec
             \/ pc'[w] \in {"signals", "request"}
      BY <1>4, <2>3 DEF StoreStructures, Finish
    <3>. QED  BY <3>1 DEF Mirroring, Directed
  <2>4. CASE SendSignals(w)
    BY <1>4, <2>4 DEF SendSignals, Finish, Mirroring, Directed
  <2>5. CASE ReadRow(w)
    <3>1. /\ pc[w] = "check"
          /\ \/ pc'[w] \in {"failed", "signals"}
             \/ pc'[w] = "save" /\ rec' = [rec EXCEPT ![w].index = Stamped(w)]
      BY <1>4, <2>5 DEF ReadRow, Fail
    <3>2. pc'[w] = "save" => rec'[w].initial = rec[w].initial
      BY <1>4, <3>1 DEF Records
    <3>3. rec[w].initial # NoIndex
      BY <3>1 DEF MirrorInv, Directed
    <3>. QED  BY <3>1, <3>2, <3>3 DEF Mirroring, Directed
  <2>. QED  BY <2>1, <2>2, <2>3, <2>4, <2>5
<1>6. Latest' = Latest
  BY <1>3 DEF Latest
<1>. QED  BY <1>2, <1>3, <1>5, <1>6, MirrorRests

\* The first of the two writes, with nobody else between them.
LEMMA MirrorFirst ==
    ASSUME MirrorInv, TypeInv', NEW w \in Writers, Others(w), NEW index,
           Unlocked(w), WriteRow(w, index), ~Mirroring(w), mongo' = mongo,
           accidents' = {} => accidents = {} /\ \A v \in Writers \ {w} : ~Mirroring(v),
           \/ /\ pc'[w] = "mirror"
              /\ index = rec'[w].index
              /\ IF rec'[w].initial = NoIndex
                 THEN Visible(w) = NoIndex
                 ELSE Visible(w) # NoIndex /\ Visible(w)._id = index._id
           \/ pc'[w] = "unmirror" /\ w \notin Atomic /\ index = NoIndex
    PROVE  MirrorInv'
<1>1. TypeInv
  BY DEF MirrorInv
<1>2. \A v \in Writers : Directed(v)'
  BY DEF MirrorInv, Others, Directed
<1>3. SUFFICES ASSUME accidents' = {}
               PROVE  /\ OneMirrors'
                      /\ \A v \in Writers : WillAgree(v)'
                      /\ NobodyMirrors' => mongo' = Latest'
  BY <1>2 DEF MirrorInv
<1>4. mongo = Visible(w)
  BY <1>1, <1>3, Written DEF MirrorInv, NobodyMirrors
<1>5. \A v \in Writers \ {w} : ~Mirroring(v)'
  BY <1>3 DEF Others, Mirroring
<1>6. Mirroring(w)'
  BY DEF Mirroring
<1>7. WillAgree(w)'
  BY <1>1, <1>4, Written DEF WillAgree
<1>8. \A v \in Writers \ {w} : WillAgree(v)'
  BY <1>5 DEF WillAgree, Mirroring
<1>. QED  BY <1>5, <1>6, <1>7, <1>8 DEF OneMirrors, NobodyMirrors

LEMMA MirrorSave ==
    ASSUME MirrorInv, TypeInv', NEW w \in Writers, SaveRow(w)
    PROVE  MirrorInv'
<1>1. TypeInv /\ TypeOK
  BY DEF MirrorInv, TypeInv
<1>2. Others(w)
  BY <1>1, OnlyOwn DEF Others, Work
<1>3. /\ pc[w] = "save" /\ Unlocked(w) /\ mongo' = mongo /\ rec' = rec
      /\ ~Mirroring(w)
  BY DEF SaveRow, Mirroring
<1>4. rec[w].initial # NoIndex
  BY <1>3 DEF MirrorInv, Directed
<1>5. CASE pc'[w] = "failed"
  <2>1. UNCHANGED <<row, pending, accidents>>
    BY <1>1, <1>5 DEF SaveRow, Go, TypeOK
  <2>. QED
    BY <1>2, <1>3, <1>5, <2>1, MirrorRests DEF Latest, Mirroring, Directed
<1>6. CASE pc'[w] # "failed"
  <2>1. /\ Visible(w) # NoIndex => Visible(w)._id = rec[w].index._id
        /\ WriteRow(w, rec[w].index)
        /\ accidents' = accidents
              \cup (IF Visible(w) = NoIndex \/ Visible(w).last_update # rec[w].initial.last_update
                    THEN {"overlap"} ELSE {})
              \cup (IF \E v \in Writers \ {w} : pc[v] \in {"mirror", "unmirror"}
                    THEN {"overtaken"} ELSE {})
        /\ pc'[w] = "mirror"
    BY <1>1, <1>6 DEF SaveRow, Go, TypeOK
  <2>2. CASE accidents' = {}
    <3>1. /\ accidents = {} /\ Visible(w) # NoIndex
          /\ \A v \in Writers \ {w} : ~Mirroring(v)
      BY <2>1, <2>2 DEF Mirroring
    <3>. QED  BY <1>2, <1>3, <1>4, <2>1, <3>1, MirrorFirst
  <2>3. CASE accidents' # {}
    BY <1>2, <2>1, <2>3 DEF MirrorInv, Others, Directed
  <2>. QED  BY <2>2, <2>3
<1>. QED  BY <1>5, <1>6

LEMMA MirrorInsert ==
    ASSUME MirrorInv, TypeInv', NEW w \in Writers, InsertRow(w)
    PROVE  MirrorInv'
<1>1. TypeInv /\ TypeOK
  BY DEF MirrorInv, TypeInv
<1>2. Others(w)
  BY <1>1, OnlyOwn DEF Others, Work
<1>3. pc[w] = "insert" /\ Unlocked(w) /\ mongo' = mongo /\ ~Mirroring(w)
  BY DEF InsertRow, Mirroring
<1>4. rec[w].initial = NoIndex
  BY <1>3 DEF MirrorInv, Directed
<1>5. CASE pc'[w] = "failed"
  <2>1. UNCHANGED <<row, pending, accidents>>
    BY <1>1, <1>5 DEF InsertRow, Go, TypeOK
  <2>. QED
    BY <1>2, <1>3, <1>5, <2>1, MirrorRests DEF Latest, Mirroring, Directed
<1>6. CASE pc'[w] # "failed"
  <2>1. /\ Visible(w) = NoIndex
        /\ WriteRow(w, Stamped(w))
        /\ rec' = [rec EXCEPT ![w].index = Stamped(w)]
        /\ HitIf(\E v \in Writers \ {w} : pc[v] \in {"mirror", "unmirror"}, "overtaken")
        /\ pc'[w] = "mirror"
    BY <1>1, <1>6 DEF InsertRow, Fail, Go, TypeOK
  <2>2. rec'[w].index = Stamped(w) /\ rec'[w].initial = rec[w].initial
    BY <1>1, <2>1 DEF TypeOK
  <2>3. accidents' = {} => accidents = {} /\ \A v \in Writers \ {w} : ~Mirroring(v)
    BY <2>1 DEF HitIf, Mirroring
  <2>. QED  BY <1>2, <1>3, <1>4, <2>1, <2>2, <2>3, MirrorFirst
<1>. QED  BY <1>5, <1>6

LEMMA MirrorDelete ==
    ASSUME MirrorInv, TypeInv', NEW w \in Writers, DeleteCourse(w)
    PROVE  MirrorInv'
<1>1. TypeInv /\ TypeOK
  BY DEF MirrorInv, TypeInv
<1>2. Others(w)
  BY <1>1, OnlyOwn DEF Others, Work
<1>3. /\ w \notin Atomic /\ Unlocked(w) /\ WriteRow(w, NoIndex) /\ mongo' = mongo
      /\ ~Mirroring(w)
      /\ pc'[w] = "unmirror"
      /\ HitIf(\E v \in Writers \ {w} : pc[v] \in {"mirror", "unmirror"}, "overtaken")
  BY <1>1 DEF DeleteCourse, Go, TypeOK, Mirroring
<1>4. accidents' = {} => accidents = {} /\ \A v \in Writers \ {w} : ~Mirroring(v)
  BY <1>3 DEF HitIf, Mirroring
<1>. QED  BY <1>2, <1>3, <1>4, MirrorFirst

\* The second of the two writes.
LEMMA MirrorSecond ==
    ASSUME MirrorInv, TypeInv', NEW w \in Writers, WriteMongo(w) \/ DeleteMongo(w)
    PROVE  MirrorInv'
<1>1. TypeInv /\ TypeOK
  BY DEF MirrorInv, TypeInv
<1>2. Others(w)
  BY <1>1, OnlyOwn DEF Others, Work
<1>3. /\ UNCHANGED <<row, pending, accidents, rec>>
      /\ Mirroring(w)
      /\ pc'[w] \in {"signals", "failed", "request"}
  BY <1>1 DEF WriteMongo, DeleteMongo, histories, Go, TypeOK, Mirroring
<1>4. \A v \in Writers : Directed(v)'
  BY <1>2, <1>3 DEF MirrorInv, Others, Directed
<1>5. SUFFICES ASSUME accidents' = {}
               PROVE  /\ OneMirrors'
                      /\ \A v \in Writers : WillAgree(v)'
                      /\ NobodyMirrors' => mongo' = Latest'
  BY <1>4 DEF MirrorInv
<1>6. OneMirrors /\ \A v \in Writers : WillAgree(v)
  BY <1>3, <1>5 DEF MirrorInv
<1>7. \A v \in Writers : ~Mirroring(v)'
  BY <1>2, <1>3, <1>6 DEF Others, Mirroring, OneMirrors
<1>8. mongo' = Latest'
  <2>1. Latest' = Latest
    BY <1>3 DEF Latest
  <2>2. CASE WriteMongo(w)
    BY <1>6, <2>1, <2>2 DEF WriteMongo, WillAgree
  <2>3. CASE DeleteMongo(w)
    BY <1>6, <2>1, <2>3 DEF DeleteMongo, WillAgree, Latest, NoPending
  <2>. QED  BY <2>2, <2>3
<1>. QED  BY <1>7, <1>8 DEF OneMirrors, WillAgree, Mirroring

\* Ends of requests; one that undoes what MongoDB has is an accident.
LEMMA MirrorEnd ==
    ASSUME MirrorInv, TypeInv', NEW w \in Writers,
           EndRequest(w) \/ Abort(w) \/ MongoFails(w) \/ Crash(w)
    PROVE  MirrorInv'
<1>1. TypeInv /\ TypeOK
  BY DEF MirrorInv, TypeInv
<1>2. Others(w)
  BY <1>1, OnlyOwn DEF Others, Work
<1>3. mongo' = mongo /\ pc'[w] \in {"idle", "failed"}
  BY <1>1 DEF EndRequest, Abort, MongoFails, Crash, dbVars, Go, TypeOK
<1>4. Directed(w)' /\ ~Mirroring(w)'
  BY <1>3 DEF Directed, Mirroring
<1>5. CASE EndRequest(w)
  <2>1. ~Mirroring(w) /\ accidents' = accidents
    BY <1>5 DEF EndRequest, Mirroring
  <2>2. CASE pending.by = w
    <3>1. row' = pending.index /\ pending' = NoPending /\ w # Origin
      BY <1>5, <2>2, CourseIndexAssumption DEF EndRequest, CourseIndexAssumption
    <3>2. Latest' = Latest
      BY <2>2, <3>1 DEF Latest, NoPending
    <3>. QED  BY <1>2, <1>3, <1>4, <2>1, <2>2, <3>2, MirrorRests
  <2>3. CASE pending.by # w
    <3>1. UNCHANGED <<row, pending>>
      BY <1>5, <2>3 DEF EndRequest
    <3>. QED  BY <1>2, <1>3, <1>4, <2>1, <3>1, MirrorRests DEF Latest
  <2>. QED  BY <2>2, <2>3
<1>6. CASE accidents' # {}
  BY <1>2, <1>4, <1>6 DEF MirrorInv, Others, Directed
<1>7. CASE Abort(w) /\ accidents' = {}
  <2>1. ~Mirroring(w) /\ accidents = {} /\ pending.by # w
    BY <1>7 DEF Abort, HitIf, Mirroring
  <2>2. UNCHANGED <<row, pending>>
    BY <1>7, <2>1 DEF Abort
  <2>. QED  BY <1>2, <1>3, <1>4, <1>7, <2>1, <2>2, MirrorRests DEF Latest
<1>8. CASE MongoFails(w) \/ Crash(w)
  BY <1>6, <1>8 DEF MongoFails, Crash, Hit
<1>. QED  BY <1>5, <1>6, <1>7, <1>8

LEMMA MirrorNext == MirrorInv /\ [Next]_vars => MirrorInv'
<1>. SUFFICES ASSUME MirrorInv, [Next]_vars PROVE MirrorInv'
  OBVIOUS
<1>1. TypeInv'
  BY TypeNext DEF MirrorInv
<1>2. CASE UNCHANGED vars
  BY <1>1, <1>2 DEF vars, dbVars, histories, MirrorInv, Directed, OneMirrors, NobodyMirrors,
                    WillAgree, Mirroring, Latest
<1>3. ASSUME NEW w \in Writers,
             \/ StartRequest(w) \/ BeginBulk(w) \/ Edit(w) \/ Publish(w) \/ CreateCourse(w)
             \/ DeleteCourse(w) \/ MongoFails(w) \/ Crash(w) \/ Work(w)
      PROVE  MirrorInv'
  BY <1>1, <1>3, MirrorPasses, MirrorSave, MirrorInsert, MirrorDelete, MirrorSecond,
     MirrorEnd DEF Work
<1>. QED  BY <1>2, <1>3 DEF Next

\* Unless one of the accidents happens, the index in MongoDB is the one in MySQL
\* whenever nobody is writing (update_course_index and insert_course_index write
\* both, and what the second write looks for is there).
THEOREM DatabasesAgree == Spec => []MirrorAgrees
<1>1. MirrorInv => MirrorAgrees
  BY DEF MirrorInv, MirrorAgrees, AtRest, NobodyMirrors, Mirroring, Latest, NoPending
<1>. QED  BY <1>1, MirrorInit, MirrorNext, PTL DEF Spec

-----------------------------------------------------------------------------
(* What learners see has been through the draft.  Structures are changed in *)
(* place while their bulk operation is open, so that it rests on nobody     *)
(* else pointing to a structure that is being changed.                      *)


Holding == {"bulk", "store", "check", "save", "insert", "mirror"}
Working(w) == pc[w] \in Holding

\* The indexes that anybody may read: those of the databases, of an open
\* transaction, and of the request caches.
Common == {row, pending.index, mongo} \cup ({cached[w] : w \in Writers} \ {Unread})

\* All indexes that may still be written.
Live == Common \cup {rec[w].index : w \in {v \in Writers : Working(v)}}

\* The published structure of an index holds nothing that its draft lacks.
Behind(index) == index = NoIndex \/ blocks[index.published] \subseteq blocks[index.draft]

\* The structures that a bulk operation made and goes on changing.
Changing(w) ==
    IF rec[w].index = NoIndex THEN {}
    ELSE (IF DraftIsDirty(rec[w]) THEN {rec[w].index.draft} ELSE {}) \cup
         (IF PublishedIsDirty(rec[w]) THEN {rec[w].index.published} ELSE {})

\* A writer has made the structures that bear its name.
Numbered(index) ==
    \A w \in Writers, n \in Nat : <<w, n>> \in Pointers(index) => n <= made[w]

\* What is being changed is the writer's own, and nobody else points to it.
Private(w) ==
    /\ \A id \in Changing(w) : id[1] = w
    /\ \A i \in Common : Pointers(i) \cap Changing(w) = {}
    /\ \A v \in Writers \ {w} : Working(v) => Pointers(rec[v].index) \cap Changing(w) = {}

\* The inductive invariant.
DraftInv ==
    /\ TypeInv
    /\ \A i \in Live : Behind(i) /\ Numbered(i)
    /\ \A w \in Writers : pc[w] = "bulk" => Private(w)

\* i is no index, or has the two pointers of j.
SameAs(i, j) ==
    i = NoIndex \/ /\ j # NoIndex
                   /\ i.draft = j.draft
                   /\ i.published = j.published

\* The indexes that a step of w can write.
Sources(w) == Common \cup {rec[v].index : v \in {u \in {w} : Working(u)}}

LEMMA SameIsAsGood ==
    ASSUME NEW i, NEW j, SameAs(i, j)
    PROVE  /\ Pointers(i) \subseteq Pointers(j)
           /\ Behind(j) => Behind(i)
           /\ Numbered(j) => Numbered(i)
<1>1. Pointers(i) \subseteq Pointers(j)
  BY DEF SameAs, Pointers
<1>. QED  BY <1>1 DEF SameAs, Behind, Numbered

LEMMA DraftInit == Init => DraftInv
<1>. SUFFICES ASSUME Init PROVE DraftInv
  OBVIOUS
<1>1. TypeInv
  BY TypeInit
<1>2. \A i \in Live : i \in {FirstIndex, NoIndex}
  BY DEF Init, Live, Common, Working, Holding, NoPending
<1>3. Behind(FirstIndex) /\ Behind(NoIndex)
  <2>1. FirstIndex.draft \in Ids /\ FirstIndex.published \in Ids
    <3>1. 0 \in 0..MaxMade /\ 1 \in 0..MaxMade
      BY CourseIndexAssumption DEF CourseIndexAssumption
    <3>. QED  BY <3>1 DEF FirstIndex, Ids
  <2>. QED  BY <2>1 DEF Behind, Init
<1>4. Numbered(FirstIndex) /\ Numbered(NoIndex)
  BY CourseIndexAssumption DEF Numbered, Pointers, FirstIndex, CourseIndexAssumption
<1>5. \A w \in Writers : pc[w] # "bulk"
  BY DEF Init
<1>. QED  BY <1>1, <1>2, <1>3, <1>4, <1>5 DEF DraftInv

-----------------------------------------------------------------------------
(* Steps that change no structure                                          *)

LEMMA NoChange ==
    ASSUME DraftInv, TypeInv', NEW w \in Writers, UNCHANGED <<blocks, made>>,
           \A v \in Writers \ {w} : pc'[v] = pc[v] /\ rec'[v] = rec[v],
           \A i \in Common' : \E j \in Sources(w) : SameAs(i, j),
           Working(w)' => \E j \in Sources(w) : SameAs(rec'[w].index, j),
           pc'[w] = "bulk" => Changing(w)' = {}
    PROVE  DraftInv'
<1>1. \A j \in Sources(w) : j \in Live
  BY DEF Sources, Live
<1>2. \A i : Behind(i)' <=> Behind(i)
  BY DEF Behind
<1>3. \A i : Numbered(i)' <=> Numbered(i)
  BY DEF Numbered, Pointers
<1>4. ASSUME NEW i \in Live'
      PROVE  i \in Live \/ \E j \in Sources(w) : SameAs(i, j)
  <2>1. CASE i \in Common'
    BY <2>1
  <2>2. CASE \E v \in Writers : Working(v)' /\ i = rec'[v].index
    <3>. PICK v \in Writers : Working(v)' /\ i = rec'[v].index
      BY <2>2
    <3>1. CASE v = w
      BY <3>1
    <3>2. CASE v # w
      BY <3>2 DEF Live, Working
    <3>. QED  BY <3>1, <3>2
  <2>. QED  BY <2>1, <2>2 DEF Live
<1>5. \A i \in Live' : Behind(i)' /\ Numbered(i)'
  BY <1>1, <1>2, <1>3, <1>4, SameIsAsGood DEF DraftInv
<1>6. ASSUME NEW v \in Writers, pc'[v] = "bulk", v # w
      PROVE  Private(v)'
  <2>1. Private(v) /\ Changing(v)' = Changing(v)
    BY <1>6 DEF DraftInv, Changing, DraftIsDirty, PublishedIsDirty
  <2>2. \A j \in Sources(w) : Pointers(j) \cap Changing(v) = {}
    BY <1>6, <2>1 DEF Sources, Private
  <2>3. \A i : (\E j \in Sources(w) : SameAs(i, j)) => Pointers(i) \cap Changing(v) = {}
    BY <2>2, SameIsAsGood
  <2>4. \A i \in Common' : Pointers(i) \cap Changing(v) = {}
    BY <2>3
  <2>5. ASSUME NEW u \in Writers \ {v}, Working(u)'
        PROVE  Pointers(rec'[u].index) \cap Changing(v) = {}
    <3>1. CASE u = w
      BY <2>3, <2>5, <3>1
    <3>2. CASE u # w
      BY <2>1, <2>5, <3>2 DEF Private, Working
    <3>. QED  BY <3>1, <3>2
  <2>. QED  BY <2>1, <2>4, <2>5 DEF Private, Pointers
<1>7. pc'[w] = "bulk" => Private(w)'
  BY DEF Private
<1>. QED  BY <1>5, <1>6, <1>7 DEF DraftInv

\* The databases and w's request cache hold what they held before, or what w
\* had in its hands.
LEMMA CommonFrom ==
    ASSUME NEW w \in Writers, TypeInv,
           \A i \in {row', pending'.index, mongo'} : \E j \in Sources(w) : SameAs(i, j),
           \/ cached' = cached
           \/ cached' = [cached EXCEPT ![w] = Unread]
           \/ \E found \in Common : cached' = [cached EXCEPT ![w] = found]
    PROVE  \A i \in Common' : \E j \in Sources(w) : SameAs(i, j)
<1>1. \A i \in Common : i \in Sources(w) /\ SameAs(i, i)
  BY DEF Sources, SameAs
<1>2. \A v \in Writers : cached'[v] # Unread => cached'[v] \in Common
  BY DEF Common, TypeInv, TypeOK
<1>. QED  BY <1>1, <1>2 DEF Common

LEMMA CommonStays ==
    ASSUME NEW w \in Writers
    PROVE  \A i \in {row, pending.index, mongo, NoPending.index, NoIndex} :
               \E j \in Sources(w) : SameAs(i, j)
BY DEF Sources, Common, SameAs, NoPending

LEMMA DraftRequest ==
    ASSUME DraftInv, TypeInv', NEW w \in Writers, StartRequest(w) \/ BeginBulk(w) \/ EndBody(w)
    PROVE  DraftInv'
<1>. USE DEF DraftInv
<1>1. /\ UNCHANGED <<row, pending, mongo, blocks, made>>
      /\ \A v \in Writers \ {w} : pc'[v] = pc[v] /\ rec'[v] = rec[v]
  BY DEF StartRequest, BeginBulk, EndBody, dbVars, Go, TypeInv, TypeOK
<1>. DEFINE found == IF cached[w] = Unread THEN Visible(w) ELSE cached[w]
<1>2. found \in Common
  BY DEF Visible, Common
<1>3. \/ cached' = cached
      \/ cached' = [cached EXCEPT ![w] = Unread]
      \/ cached' = [cached EXCEPT ![w] = found]
  BY DEF StartRequest, BeginBulk, EndBody
<1>4. \A i \in Common' : \E j \in Sources(w) : SameAs(i, j)
  BY <1>1, <1>2, <1>3, CommonFrom, CommonStays
<1>5. CASE StartRequest(w)
  <2>1. pc'[w] = "request"
    BY <1>5 DEF StartRequest, Go, TypeInv, TypeOK
  <2>. QED  BY <1>1, <1>4, <2>1, NoChange DEF Working, Holding
<1>6. CASE EndBody(w)
  <2>1. pc[w] = "bulk" /\ pc'[w] = "store" /\ rec' = rec
    BY <1>6 DEF EndBody, Go, TypeInv, TypeOK
  <2>2. rec'[w].index \in Sources(w) /\ SameAs(rec'[w].index, rec'[w].index)
    BY <2>1 DEF Sources, Working, Holding, SameAs
  <2>. QED  BY <1>1, <1>4, <2>1, <2>2, NoChange
<1>7. CASE BeginBulk(w)
  <2>. HIDE DEF found
  <2>1. pc'[w] = "bulk" /\ rec' = [rec EXCEPT ![w].initial = found, ![w].index = found]
    BY <1>7 DEF BeginBulk, found, Go, TypeInv, TypeOK
  <2>2. rec'[w].index = found /\ rec'[w].initial = found
    BY <2>1 DEF TypeInv, TypeOK
  <2>3. Changing(w)' = {}
    BY <2>2 DEF Changing, DraftIsDirty, PublishedIsDirty
  <2>4. rec'[w].index \in Sources(w) /\ SameAs(rec'[w].index, rec'[w].index)
    BY <1>2, <2>2 DEF Sources, SameAs
  <2>. QED  BY <1>1, <1>4, <2>3, <2>4, NoChange
<1>. QED  BY <1>5, <1>6, <1>7

LEMMA DraftStore ==
    ASSUME DraftInv, TypeInv', NEW w \in Writers, StoreStructures(w) \/ SendSignals(w)
    PROVE  DraftInv'
<1>. USE DEF DraftInv
<1>1. /\ UNCHANGED <<row, pending, mongo, blocks, made, cached>>
      /\ \A v \in Writers \ {w} : pc'[v] = pc[v] /\ rec'[v] = rec[v]
  BY DEF StoreStructures, SendSignals, Finish, dbVars, Go, TypeInv, TypeOK
<1>2. \A i \in Common' : \E j \in Sources(w) : SameAs(i, j)
  BY <1>1, CommonFrom, CommonStays
<1>3. \/ pc'[w] \in {"request", "signals"}
      \/ pc[w] = "store" /\ pc'[w] \in {"insert", "check"} /\ rec' = rec
  BY DEF StoreStructures, SendSignals, Finish, Go, TypeInv, TypeOK
<1>4. Working(w)' => \E j \in Sources(w) : SameAs(rec'[w].index, j)
  <2>1. CASE pc'[w] \in {"request", "signals"}
    BY <2>1 DEF Working, Holding
  <2>2. CASE pc[w] = "store" /\ rec' = rec
    <3>1. rec'[w].index \in Sources(w) /\ SameAs(rec'[w].index, rec'[w].index)
      BY <2>2 DEF Sources, Working, Holding, SameAs
    <3>. QED  BY <3>1
  <2>. QED  BY <1>3, <2>1, <2>2
<1>. QED  BY <1>1, <1>2, <1>3, <1>4, NoChange

\* A row that w writes.
LEMMA WrittenFrom ==
    ASSUME TypeOK, NEW w \in Writers, NEW index, WriteRow(w, index),
           \E j \in Sources(w) : SameAs(index, j)
    PROVE  \A i \in {row', pending'.index} : \E j \in Sources(w) : SameAs(i, j)
<1>1. CASE w \in Atomic
  BY <1>1, CommonStays DEF WriteRow
<1>2. CASE w \notin Atomic
  BY <1>2, CommonStays DEF WriteRow
<1>. QED  BY <1>1, <1>2

LEMMA StampedFrom ==
    ASSUME TypeInv, NEW w \in Writers, pc[w] \in {"check", "save", "insert", "mirror"}
    PROVE  /\ \E j \in Sources(w) : SameAs(rec[w].index, j)
           /\ \E j \in Sources(w) : SameAs(Stamped(w), j)
<1>1. rec[w].index \in Sources(w) /\ rec[w].index # NoIndex /\ rec[w].index \in Index
  BY DEF Sources, Working, Holding, TypeInv, TypeOK, HasIndex
<1>. QED  BY <1>1 DEF SameAs, Stamped, Index

LEMMA DraftRow ==
    ASSUME DraftInv, TypeInv', NEW w \in Writers, ReadRow(w) \/ SaveRow(w) \/ InsertRow(w)
    PROVE  DraftInv'
<1>. USE DEF DraftInv
<1>1. /\ UNCHANGED <<mongo, blocks, made>>
      /\ \A v \in Writers \ {w} : pc'[v] = pc[v] /\ rec'[v] = rec[v]
  BY DEF ReadRow, SaveRow, InsertRow, Fail, Go, dbVars, TypeInv, TypeOK
<1>2. cached' = cached \/ cached' = [cached EXCEPT ![w] = Unread]
  BY DEF ReadRow, SaveRow, InsertRow
<1>3. /\ \E j \in Sources(w) : SameAs(rec[w].index, j)
      /\ \E j \in Sources(w) : SameAs(Stamped(w), j)
  BY StampedFrom DEF ReadRow, SaveRow, InsertRow
<1>4. \A i \in {row', pending'.index} : \E j \in Sources(w) : SameAs(i, j)
  <2>1. TypeOK
    BY DEF TypeInv
  <2>2. \/ UNCHANGED <<row, pending>>
        \/ WriteRow(w, rec[w].index)
        \/ WriteRow(w, Stamped(w))
    BY DEF ReadRow, SaveRow, InsertRow, dbVars
  <2>. QED  BY <1>3, <2>1, <2>2, WrittenFrom, CommonStays
<1>5. \A i \in Common' : \E j \in Sources(w) : SameAs(i, j)
  BY <1>1, <1>2, <1>4, CommonFrom, CommonStays
<1>6. rec' = rec \/ rec' = [rec EXCEPT ![w].index = Stamped(w)]
  BY DEF ReadRow, SaveRow, InsertRow, Fail
<1>7. rec'[w].index \in {rec[w].index, Stamped(w)}
  BY <1>6 DEF TypeInv, TypeOK
<1>8. pc'[w] # "bulk"
  BY DEF ReadRow, SaveRow, InsertRow, Fail, Go, TypeInv, TypeOK
<1>. QED  BY <1>1, <1>3, <1>5, <1>7, <1>8, NoChange

LEMMA DraftMongo ==
    ASSUME DraftInv, TypeInv', NEW w \in Writers,
           WriteMongo(w) \/ MongoFails(w) \/ DeleteMongo(w)
    PROVE  DraftInv'
<1>. USE DEF DraftInv
<1>1. /\ UNCHANGED <<row, pending, cached, blocks, made>>
      /\ \A v \in Writers \ {w} : pc'[v] = pc[v] /\ rec'[v] = rec[v]
  BY DEF WriteMongo, MongoFails, DeleteMongo, Go, dbVars, TypeInv, TypeOK
<1>2. \E j \in Sources(w) : SameAs(mongo', j)
  <2>1. CASE WriteMongo(w)
    <3>1. mongo' \in {mongo, rec[w].index} /\ pc[w] = "mirror"
      BY <2>1 DEF WriteMongo
    <3>. QED  BY <3>1, StampedFrom, CommonStays
  <2>2. CASE MongoFails(w) \/ DeleteMongo(w)
    BY <2>2, CommonStays DEF MongoFails, DeleteMongo, dbVars
  <2>. QED  BY <2>1, <2>2
<1>3. \A i \in Common' : \E j \in Sources(w) : SameAs(i, j)
  BY <1>1, <1>2, CommonFrom, CommonStays
<1>4. pc'[w] \in {"signals", "failed", "request"}
  BY DEF WriteMongo, MongoFails, DeleteMongo, Go, TypeInv, TypeOK
<1>. QED  BY <1>1, <1>3, <1>4, NoChange DEF Working, Holding

LEMMA DraftEnd ==
    ASSUME DraftInv, TypeInv', NEW w \in Writers,
           DeleteCourse(w) \/ EndRequest(w) \/ Abort(w) \/ Crash(w)
    PROVE  DraftInv'
<1>. USE DEF DraftInv
<1>1. /\ UNCHANGED <<mongo, blocks, made>>
      /\ \A v \in Writers \ {w} : pc'[v] = pc[v] /\ rec'[v] = rec[v]
      /\ cached' = cached \/ cached' = [cached EXCEPT ![w] = Unread]
  BY DEF DeleteCourse, EndRequest, Abort, Crash, Go, TypeInv, TypeOK
<1>2. \A i \in {row', pending'.index} : \E j \in Sources(w) : SameAs(i, j)
  <2>1. CASE DeleteCourse(w)
    BY <2>1, WrittenFrom, CommonStays DEF DeleteCourse, TypeInv
  <2>2. CASE EndRequest(w) \/ Abort(w) \/ Crash(w)
    BY <2>2, CommonStays DEF EndRequest, Abort, Crash
  <2>. QED  BY <2>1, <2>2
<1>3. \A i \in Common' : \E j \in Sources(w) : SameAs(i, j)
  BY <1>1, <1>2, CommonFrom, CommonStays
<1>4. pc'[w] \in {"unmirror", "idle"}
  BY DEF DeleteCourse, EndRequest, Abort, Crash, Go, TypeInv, TypeOK
<1>. QED  BY <1>1, <1>3, <1>4, NoChange DEF Working, Holding

-----------------------------------------------------------------------------
(* Changes                                                                 *)

\* The structures that w may change or make now.
Own(w, id) == id \in Changing(w) \/ \E n \in Nat : n > made[w] /\ id = <<w, n>>

LEMMA OthersDoNotPoint ==
    ASSUME DraftInv, NEW w \in Writers, pc[w] = "bulk", NEW id, Own(w, id)
    PROVE  /\ id[1] = w
           /\ \A i \in Common : id \notin Pointers(i)
           /\ \A v \in Writers \ {w} : Working(v) => id \notin Pointers(rec[v].index)
<1>1. Private(w) /\ made[w] \in Nat
  BY CourseIndexAssumption DEF DraftInv, TypeInv, TypeOK, CourseIndexAssumption
<1>2. CASE id \in Changing(w)
  BY <1>1, <1>2 DEF Private
<1>3. CASE \E n \in Nat : n > made[w] /\ id = <<w, n>>
  <2>. PICK n \in Nat : n > made[w] /\ id = <<w, n>>
    BY <1>3
  <2>1. \A i \in Live : <<w, n>> \notin Pointers(i)
    BY <1>1 DEF DraftInv, Numbered
  <2>. QED  BY <2>1 DEF Live
<1>. QED  BY <1>2, <1>3 DEF Own

LEMMA Change ==
    ASSUME DraftInv, TypeInv', NEW w \in Writers, pc[w] = "bulk",
           UNCHANGED <<dbVars, pc, cached>>,
           NEW new \in SUBSET Ids,
           \A id \in new : Own(w, id),
           \A id \in Ids \ new : blocks'[id] = blocks[id],
           \A v \in Writers \ {w} : rec'[v] = rec[v] /\ made'[v] = made[v],
           made'[w] >= made[w],
           Numbered(rec[w].index)', Behind(rec[w].index)',
           Pointers(rec'[w].index) \subseteq Pointers(rec[w].index) \cup new,
           Changing(w)' \subseteq Changing(w) \cup new
    PROVE  DraftInv'
<1>1. /\ \A i \in Common : Pointers(i) \cap new = {}
      /\ \A v \in Writers \ {w} : Working(v) => Pointers(rec[v].index) \cap new = {}
      /\ \A id \in new : id[1] = w
  BY OthersDoNotPoint
<1>2. \A i \in Indexes : Pointers(i) \subseteq Ids
  BY DEF Indexes, Index, Pointers
<1>3. /\ \A i \in Common : i \in Indexes
      /\ \A v \in Writers : rec[v].index \in Indexes /\ made[v] \in Nat /\ made'[v] \in Nat
  BY CourseIndexAssumption
  DEF DraftInv, TypeInv, TypeOK, Common, Indexes, Cached, NoPending, CourseIndexAssumption
<1>4. \A v \in Writers : made[v] <= made'[v]
  BY <1>3
<1>5. ASSUME NEW i \in Indexes, Pointers(i) \cap new = {}, Behind(i), Numbered(i)
      PROVE  Behind(i)' /\ Numbered(i)'
  <2>1. i # NoIndex => blocks'[i.draft] = blocks[i.draft] /\ blocks'[i.published] = blocks[i.published]
    BY <1>2, <1>5 DEF Pointers
  <2>2. Behind(i)'
    BY <1>5, <2>1 DEF Behind
  <2>3. Numbered(i)'
    BY <1>3, <1>4, <1>5 DEF Numbered, Pointers
  <2>. QED  BY <2>2, <2>3
<1>6. Common' = Common /\ \A v \in Writers : Working(v)' <=> Working(v)
  BY DEF Common, Working, dbVars
<1>7. ASSUME NEW i \in Live'
      PROVE  Behind(i)' /\ Numbered(i)'
  <2>1. CASE i \in Common
    BY <1>1, <1>3, <1>5, <2>1 DEF DraftInv, Live
  <2>2. CASE \E v \in Writers \ {w} : Working(v) /\ i = rec[v].index
    BY <1>1, <1>3, <1>5, <2>2 DEF DraftInv, Live
  <2>3. CASE i = rec'[w].index
    BY <2>3
  <2>4. i \in Common \/ \E v \in Writers : Working(v) /\ i = rec'[v].index
    BY <1>6 DEF Live
  <2>. QED  BY <2>1, <2>2, <2>3, <2>4
<1>8. Private(w)'
  <2>1. Private(w)
    BY DEF DraftInv
  <2>2. \A id \in Changing(w)' : id[1] = w
    BY <1>1, <2>1 DEF Private
  <2>3. \A i \in Common : Pointers(i) \cap Changing(w)' = {}
    BY <1>1, <2>1 DEF Private
  <2>4. \A v \in Writers \ {w} : Working(v) => Pointers(rec'[v].index) \cap Changing(w)' = {}
    BY <1>1, <2>1 DEF Private
  <2>. QED  BY <1>6, <2>2, <2>3, <2>4 DEF Private, Pointers
<1>9. ASSUME NEW v \in Writers \ {w}, pc'[v] = "bulk"
      PROVE  Private(v)'
  <2>1. Private(v) /\ Changing(v)' = Changing(v)
    BY <1>9 DEF DraftInv, Changing, DraftIsDirty, PublishedIsDirty
  <2>2. Pointers(rec[w].index) \cap Changing(v) = {} /\ \A id \in Changing(v) : id[1] # w
    BY <2>1 DEF Private, Working, Holding
  <2>3. Pointers(rec'[w].index) \cap Changing(v) = {}
    BY <1>1, <2>2
  <2>4. \A u \in Writers \ {v} : Working(u) => Pointers(rec'[u].index) \cap Changing(v) = {}
    BY <2>1, <2>3 DEF Private
  <2>. QED  BY <1>6, <2>1, <2>4 DEF Private, Pointers
<1>. QED  BY <1>7, <1>8, <1>9 DEF DraftInv

\* What w has made bears numbers that it has given.
LEMMA NumberedChange ==
    ASSUME DraftInv, NEW w \in Writers, pc[w] = "bulk",
           NEW n \in Nat, n > made[w], made' = [made EXCEPT ![w] = n],
           Pointers(rec'[w].index) \subseteq Pointers(rec[w].index) \cup {<<w, k>> : k \in 0..n}
    PROVE  /\ Numbered(rec[w].index)'
           /\ made'[w] >= made[w]
           /\ \A v \in Writers \ {w} : made'[v] = made[v]
<1>1. \A u \in Writers : made[u] \in Nat /\ made'[u] \in Nat /\ made[u] <= made'[u]
  BY CourseIndexAssumption DEF DraftInv, TypeInv, TypeOK, CourseIndexAssumption
<1>2. made'[w] = n /\ \A v \in Writers \ {w} : made'[v] = made[v]
  BY DEF DraftInv, TypeInv, TypeOK
<1>3. Numbered(rec[w].index)
  BY DEF DraftInv, Live, Working, Holding
<1>4. ASSUME NEW u \in Writers, NEW k \in Nat, <<u, k>> \in Pointers(rec'[w].index)
      PROVE  k <= made'[u]
  <2>1. CASE <<u, k>> \in Pointers(rec[w].index)
    <3>1. k <= made[u]
      BY <1>3, <2>1 DEF Numbered
    <3>. QED  BY <1>1, <3>1
  <2>2. CASE \E j \in 0..n : <<u, k>> = <<w, j>>
    BY <1>2, <2>2
  <2>. QED  BY <1>4, <2>1, <2>2
<1>. QED  BY <1>1, <1>2, <1>4 DEF Numbered, Pointers

LEMMA DraftEdit ==
    ASSUME DraftInv, TypeInv', NEW w \in Writers, Edit(w)
    PROVE  DraftInv'
<1>. DEFINE index == rec[w].index
            id == IF DraftIsDirty(rec[w]) THEN index.draft ELSE NextId(w)
            n == made[w] + 1
            new == {id}
<1>1. /\ index \in Index /\ index # NoIndex /\ n \in Nat /\ n > made[w] /\ n \in 0..n
      /\ NextId(w) = <<w, n>> /\ NextId(w) \in Ids /\ pc[w] = "bulk"
      /\ rec[w] \in Records
  BY NextIdIsId, CourseIndexAssumption
  DEF Edit, DraftInv, TypeInv, TypeOK, CourseIndexAssumption, NextId, Records, Indexes
<1>2. /\ blocks' = [blocks EXCEPT ![id] = blocks[index.draft] \cup {NextId(w)}]
      /\ rec' = [rec EXCEPT ![w].index.draft = id, ![w].news = @ \cup {id}]
      /\ made' = [made EXCEPT ![w] = n]
      /\ UNCHANGED <<dbVars, pc, cached>>
  BY DEF Edit
<1>3. Own(w, id) /\ id \in Ids
  BY <1>1 DEF Own, Changing, Index
<1>4. id \in Pointers(index) \cup {<<w, k>> : k \in 0..n}
  BY <1>1 DEF Pointers
<1>. HIDE DEF id, n
<1>5. rec'[w].index = [index EXCEPT !.draft = id] /\ rec'[w].initial = rec[w].initial
  BY <1>1, <1>2 DEF DraftInv, TypeInv, TypeOK, Records
<1>6. /\ rec'[w].index # NoIndex
      /\ rec'[w].index.draft = id
      /\ rec'[w].index.published = index.published
  BY <1>1, <1>5, NoIndexAssumption, <1>3 DEF Index, NoIndexAssumption
<1>7. Pointers(rec'[w].index) \subseteq Pointers(index) \cup {id}
  BY <1>1, <1>6 DEF Pointers
<1>8. Behind(rec[w].index)'
  <2>1. blocks'[id] = blocks[index.draft] \cup {NextId(w)}
    BY <1>2, <1>3 DEF DraftInv, TypeInv, TypeOK
  <2>2. index.published # id => blocks'[index.published] = blocks[index.published]
    BY <1>1, <1>2 DEF DraftInv, TypeInv, TypeOK, Index
  <2>3. blocks[index.published] \subseteq blocks[index.draft]
    BY <1>1 DEF Behind, DraftInv, Live, Working, Holding
  <2>4. blocks'[rec'[w].index.published] \subseteq blocks'[rec'[w].index.draft]
    BY <1>6, <2>1, <2>2, <2>3
  <2>. QED  BY <2>4 DEF Behind
<1>9. Changing(w)' \subseteq Changing(w) \cup {id}
  BY <1>1, <1>5, <1>6 DEF Changing, DraftIsDirty, PublishedIsDirty
<1>10. /\ new \in SUBSET Ids
       /\ \A i \in new : Own(w, i)
       /\ Pointers(rec'[w].index) \subseteq Pointers(rec[w].index) \cup new
       /\ Pointers(rec'[w].index) \subseteq Pointers(rec[w].index) \cup {<<w, k>> : k \in 0..n}
       /\ Changing(w)' \subseteq Changing(w) \cup new
  BY <1>3, <1>4, <1>7, <1>9
<1>11. /\ \A i \in Ids \ new : blocks'[i] = blocks[i]
       /\ \A v \in Writers \ {w} : rec'[v] = rec[v]
  BY <1>2, <1>3 DEF DraftInv, TypeInv, TypeOK
<1>. HIDE DEF new, index
<1>12. /\ Numbered(rec[w].index)'
       /\ made'[w] >= made[w]
       /\ \A v \in Writers \ {w} : made'[v] = made[v]
  BY <1>1, <1>2, <1>10, NumberedChange
<1>. QED  BY <1>1, <1>2, <1>8, <1>10, <1>11, <1>12, Change

LEMMA DraftPublish ==
    ASSUME DraftInv, TypeInv', NEW w \in Writers, Publish(w)
    PROVE  DraftInv'
<1>. DEFINE index == rec[w].index
            id == IF PublishedIsDirty(rec[w]) THEN index.published ELSE NextId(w)
            n == made[w] + 1
            new == {id}
<1>1. /\ index \in Index /\ index # NoIndex /\ n \in Nat /\ n > made[w] /\ n \in 0..n
      /\ NextId(w) = <<w, n>> /\ NextId(w) \in Ids /\ pc[w] = "bulk"
      /\ rec[w] \in Records
  BY NextIdIsId, CourseIndexAssumption
  DEF Publish, DraftInv, TypeInv, TypeOK, CourseIndexAssumption, NextId, Records, Indexes
<1>2. /\ blocks' = [blocks EXCEPT ![id] = blocks[index.draft]]
      /\ rec' = [rec EXCEPT ![w].index.published = id, ![w].news = @ \cup {id},
                            ![w].flag = TRUE]
      /\ made' = [made EXCEPT ![w] = n]
      /\ UNCHANGED <<dbVars, pc, cached>>
  BY DEF Publish
<1>3. Own(w, id) /\ id \in Ids
  BY <1>1 DEF Own, Changing, Index
<1>4. id \in Pointers(index) \cup {<<w, k>> : k \in 0..n}
  BY <1>1 DEF Pointers
<1>. HIDE DEF id, n
<1>5. rec'[w].index = [index EXCEPT !.published = id] /\ rec'[w].initial = rec[w].initial
  BY <1>1, <1>2 DEF DraftInv, TypeInv, TypeOK, Records
<1>6. /\ rec'[w].index # NoIndex
      /\ rec'[w].index.draft = index.draft
      /\ rec'[w].index.published = id
  BY <1>1, <1>5, NoIndexAssumption, <1>3 DEF Index, NoIndexAssumption
<1>7. Pointers(rec'[w].index) \subseteq Pointers(index) \cup {id}
  BY <1>1, <1>6 DEF Pointers
<1>8. Behind(rec[w].index)'
  <2>1. blocks'[id] = blocks[index.draft]
    BY <1>2, <1>3 DEF DraftInv, TypeInv, TypeOK
  <2>2. index.draft # id => blocks'[index.draft] = blocks[index.draft]
    BY <1>1, <1>2 DEF DraftInv, TypeInv, TypeOK, Index
  <2>3. blocks'[rec'[w].index.published] \subseteq blocks'[rec'[w].index.draft]
    BY <1>6, <2>1, <2>2
  <2>. QED  BY <2>3 DEF Behind
<1>9. Changing(w)' \subseteq Changing(w) \cup {id}
  BY <1>1, <1>5, <1>6 DEF Changing, DraftIsDirty, PublishedIsDirty
<1>10. /\ new \in SUBSET Ids
       /\ \A i \in new : Own(w, i)
       /\ Pointers(rec'[w].index) \subseteq Pointers(rec[w].index) \cup new
       /\ Pointers(rec'[w].index) \subseteq Pointers(rec[w].index) \cup {<<w, k>> : k \in 0..n}
       /\ Changing(w)' \subseteq Changing(w) \cup new
  BY <1>3, <1>4, <1>7, <1>9
<1>11. /\ \A i \in Ids \ new : blocks'[i] = blocks[i]
       /\ \A v \in Writers \ {w} : rec'[v] = rec[v]
  BY <1>2, <1>3 DEF DraftInv, TypeInv, TypeOK
<1>. HIDE DEF new, index
<1>12. /\ Numbered(rec[w].index)'
       /\ made'[w] >= made[w]
       /\ \A v \in Writers \ {w} : made'[v] = made[v]
  BY <1>1, <1>2, <1>10, NumberedChange
<1>. QED  BY <1>1, <1>2, <1>8, <1>10, <1>11, <1>12, Change

LEMMA DraftCreate ==
    ASSUME DraftInv, TypeInv', NEW w \in Writers, CreateCourse(w)
    PROVE  DraftInv'
<1>. DEFINE n == made[w] + 2
            d == NextId(w)
            p == <<w, n>>
            new == {d, p}
            index == [_id |-> d, draft |-> d, published |-> p, last_update |-> d]
<1>1. /\ made[w] \in Nat /\ n \in Nat /\ n > made[w] /\ n \in 0..MaxMade
      /\ made[w] + 1 \in 0..n /\ n \in 0..n /\ made[w] + 1 \in 0..MaxMade
      /\ rec[w] \in Records /\ pc[w] = "bulk"
  BY CourseIndexAssumption
  DEF CreateCourse, DraftInv, TypeInv, TypeOK, CourseIndexAssumption, Records, Indexes
<1>2. /\ blocks' = [blocks EXCEPT ![d] = {d}, ![p] = {d}]
      /\ rec' = [rec EXCEPT ![w].index = index, ![w].news = @ \cup {d, p}, ![w].flag = TRUE]
      /\ made' = [made EXCEPT ![w] = n]
      /\ UNCHANGED <<dbVars, pc, cached>>
  BY DEF CreateCourse
<1>3. d \in Ids /\ p \in Ids /\ d # p
  BY <1>1, IdsOfWriter DEF NextId
<1>4. Own(w, d) /\ Own(w, p)
  BY <1>1 DEF Own, NextId
<1>5. {d, p} \subseteq {<<w, k>> : k \in 0..n}
  BY <1>1 DEF NextId
<1>6. index \in Index /\ index # NoIndex
  BY <1>3, NoIndexAssumption DEF Index, NoIndexAssumption
<1>7. rec'[w].index = index
  BY <1>1, <1>2 DEF DraftInv, TypeInv, TypeOK, Records
<1>8. Pointers(rec'[w].index) = {d, p}
  BY <1>6, <1>7 DEF Pointers
<1>9. Behind(rec[w].index)'
  <2>1. blocks'[d] = {d} /\ blocks'[p] = {d}
    BY <1>2, <1>3 DEF DraftInv, TypeInv, TypeOK
  <2>. QED  BY <1>7, <2>1 DEF Behind
<1>. HIDE DEF n, d, p
<1>10. Changing(w)' \subseteq {d, p}
  BY <1>7 DEF Changing
<1>11. /\ new \in SUBSET Ids
       /\ \A i \in new : Own(w, i)
       /\ Pointers(rec'[w].index) \subseteq Pointers(rec[w].index) \cup new
       /\ Pointers(rec'[w].index) \subseteq Pointers(rec[w].index) \cup {<<w, k>> : k \in 0..n}
       /\ Changing(w)' \subseteq Changing(w) \cup new
  BY <1>3, <1>4, <1>5, <1>8, <1>10
<1>12. /\ \A i \in Ids \ new : blocks'[i] = blocks[i]
       /\ \A v \in Writers \ {w} : rec'[v] = rec[v]
  BY <1>2, <1>3 DEF DraftInv, TypeInv, TypeOK
<1>. HIDE DEF new, index
<1>13. /\ Numbered(rec[w].index)'
       /\ made'[w] >= made[w]
       /\ \A v \in Writers \ {w} : made'[v] = made[v]
  BY <1>1, <1>2, <1>11, NumberedChange
<1>. QED  BY <1>1, <1>2, <1>9, <1>11, <1>12, <1>13, Change

-----------------------------------------------------------------------------
(* The theorem                                                             *)

LEMMA DraftNext == DraftInv /\ [Next]_vars => DraftInv'
<1>. SUFFICES ASSUME DraftInv, [Next]_vars PROVE DraftInv'
  OBVIOUS
<1>1. TypeInv'
  BY TypeNext DEF DraftInv
<1>2. CASE Next
  <2>. PICK w \in Writers :
         \/ StartRequest(w) \/ BeginBulk(w) \/ Edit(w) \/ Publish(w) \/ CreateCourse(w)
         \/ DeleteCourse(w) \/ MongoFails(w) \/ Crash(w) \/ Work(w)
    BY <1>2 DEF Next
  <2>. QED
    BY <1>1, DraftRequest, DraftEdit, DraftPublish, DraftCreate, DraftStore, DraftRow, DraftMongo,
       DraftEnd DEF Work
<1>3. CASE UNCHANGED vars
  <2>1. /\ Live' = Live /\ Common' = Common
        /\ \A i : (Behind(i)' <=> Behind(i)) /\ (Numbered(i)' <=> Numbered(i))
    BY <1>3 DEF vars, dbVars, Live, Common, Working, Behind, Numbered, Pointers
  <2>2. \A w \in Writers : Private(w)' <=> Private(w)
    BY <1>3, <2>1
    DEF vars, Private, Changing, DraftIsDirty, PublishedIsDirty, Pointers, Working
  <2>. QED  BY <1>1, <1>3, <2>1, <2>2 DEF DraftInv, vars
<1>. QED  BY <1>2, <1>3

\* What is published, in either database, was in the draft of the same index,
\* however bulk operations overlap, fail or die: a publication copies the draft,
\* a structure is changed only while nobody else points to it, and both pointers
\* are saved together (publish, _end_outermost_bulk_operation).
THEOREM DraftBeforePublished == Spec => []PublishedWasDraft
<1>1. DraftInv => PublishedWasDraft
  BY DEF DraftInv, Live, Common, Behind, PublishedWasDraft
<1>. QED  BY DraftInit, DraftNext, <1>1, PTL DEF Spec

-----------------------------------------------------------------------------
(* Versions of the index: which of them are the same                       *)

\* The bulk operation has still to write its index.
Preparing(w) == pc[w] \in {"bulk", "store", "check", "save", "insert"}

\* The indexes that a bulk operation may begin with, and those that the open ones
\* began with.
Readable == ({row, pending.index} \cup {cached[w] : w \in Writers}) \ {Unread, NoIndex}
Seen == Readable \cup ({rec[w].initial : w \in {v \in Writers : Preparing(v)}} \ {NoIndex})

\* The bulk operation of w has made something.
Changed(w) ==
    \/ pc[w] \in {"check", "save", "insert"}
    \/ pc[w] \in {"bulk", "store"} /\ rec[w].index # rec[w].initial

\* The time of an update tells which version it is (update_course_index).
Twins == \A i, j \in Seen : i.last_update = j.last_update => SameAs(i, j)

\* The time of w's next update is new, and its record has it before it is saved.
FreshStamp(w) ==
    /\ \A i \in Seen, n \in Nat :
          i.last_update = <<w, n>> => n <= made[w] /\ (Changed(w) => n < made[w])
    /\ pc[w] = "save" => rec[w].index.last_update = <<w, made[w]>>

\* A published version is the one the operation began with, or its own, which it
\* will announce (_flag_publish_event).
Flagged(w) ==
    Preparing(w) /\ rec[w].index # NoIndex =>
        \/ rec[w].index.published[1] = w /\ rec[w].flag
        \/ rec[w].initial # NoIndex /\ rec[w].index.published = rec[w].initial.published

VersionInv == TypeInv /\ Twins /\ \A w \in Writers : FreshStamp(w) /\ Flagged(w)

LEMMA SeenAreIndexes ==
    ASSUME TypeInv
    PROVE  /\ Readable \subseteq Index
           /\ Seen \subseteq Index
           /\ \A w \in Writers : made[w] \in Nat
<1>1. Readable \subseteq Index
  BY CourseIndexAssumption DEF TypeInv, TypeOK, Readable, Cached, NoPending, CourseIndexAssumption
<1>2. \A w \in Writers : rec[w].initial \in Index \cup {NoIndex} /\ made[w] \in Nat
  BY CourseIndexAssumption DEF TypeInv, TypeOK, CourseIndexAssumption
<1>. QED  BY <1>1, <1>2 DEF Seen

LEMMA VersionInit == Init => VersionInv
<1>. SUFFICES ASSUME Init PROVE VersionInv
  OBVIOUS
<1>1. TypeInv
  BY TypeInit
<1>2. Seen \subseteq {FirstIndex}
  BY DEF Init, Seen, Readable, Preparing, NoPending
<1>3. Twins
  BY <1>2 DEF Twins, SameAs
<1>4. \A w \in Writers : ~Preparing(w) /\ w # Origin
  BY CourseIndexAssumption DEF Init, Preparing, CourseIndexAssumption
<1>5. FirstIndex.last_update = <<Origin, 0>>
  BY DEF FirstIndex
<1>. QED  BY <1>1, <1>2, <1>3, <1>4, <1>5 DEF VersionInv, FreshStamp, Flagged, Preparing

\* What can be read after a step of w that writes one of X at most.
LEMMA SeenFrom ==
    ASSUME NEW w \in Writers, Others(w), NEW X,
           {row', pending'.index} \subseteq Readable \cup {NoIndex} \cup X,
           \A v \in Writers : cached'[v] \in Readable \cup {Unread, NoIndex},
           Preparing(w)' => rec'[w].initial \in Seen \cup {NoIndex}
    PROVE  Readable' \subseteq Readable \cup X /\ Seen' \subseteq Seen \cup X
<1>1. Readable' \subseteq Readable \cup X
  BY DEF Readable
<1>2. ASSUME NEW v \in Writers, Preparing(v)'
      PROVE  rec'[v].initial \in Seen \cup {NoIndex}
  <2>1. CASE v = w
    BY <1>2, <2>1
  <2>2. CASE v # w
    BY <1>2, <2>2 DEF Others, Seen, Preparing
  <2>. QED  BY <2>1, <2>2
<1>. QED  BY <1>1, <1>2 DEF Seen

\* A step of w that writes no new index.
LEMMA VersionRests ==
    ASSUME VersionInv, TypeInv', NEW w \in Writers, Others(w), Seen' \subseteq Seen,
           \A v \in Writers \ {w} : made'[v] = made[v],
           \/ made'[w] = made[w] /\ (Changed(w)' => Changed(w))
           \/ made'[w] > made[w],
           (pc[w] = "save" => rec[w].index.last_update = <<w, made[w]>>)',
           Flagged(w)'
    PROVE  VersionInv'
<1>1. Twins'
  BY DEF VersionInv, Twins, SameAs
<1>2. ASSUME NEW v \in Writers PROVE FreshStamp(v)' /\ Flagged(v)'
  <2>1. FreshStamp(v) /\ Flagged(v) /\ made[v] \in Nat /\ made'[v] \in Nat
    BY SeenAreIndexes, CourseIndexAssumption
    DEF VersionInv, TypeInv, TypeOK, CourseIndexAssumption
  <2>2. CASE v # w
    BY <2>1, <2>2 DEF Others, FreshStamp, Flagged, Changed, Preparing
  <2>3. CASE v = w
    BY <2>1, <2>3 DEF FreshStamp
  <2>. QED  BY <2>2, <2>3
<1>. QED  BY <1>1, <1>2 DEF VersionInv

\* Nothing that can be seen bears the time at which w is about to save.
LEMMA NewStamp ==
    ASSUME VersionInv, NEW w \in Writers, Changed(w), NEW i \in Seen
    PROVE  i.last_update # <<w, made[w]>>
BY SeenAreIndexes DEF VersionInv, FreshStamp

\* A step of w that writes the index x.
LEMMA VersionWrites ==
    ASSUME VersionInv, TypeInv', NEW w \in Writers, Others(w), made' = made,
           NEW x, x.last_update = <<w, made[w]>>, Seen' \subseteq Seen \cup {x},
           Changed(w), ~Preparing(w)'
    PROVE  VersionInv'
<1>1. \A i \in Seen : i.last_update # x.last_update
  BY NewStamp
<1>2. Twins'
  BY <1>1 DEF VersionInv, Twins, SameAs
<1>3. ~Changed(w)' /\ pc'[w] # "save" /\ made[w] \in Nat
  BY SeenAreIndexes DEF Changed, Preparing, VersionInv
<1>4. ASSUME NEW v \in Writers PROVE FreshStamp(v)' /\ Flagged(v)'
  <2>1. FreshStamp(v) /\ Flagged(v)
    BY DEF VersionInv
  <2>2. CASE v # w
    BY <2>1, <2>2 DEF Others, FreshStamp, Flagged, Changed, Preparing
  <2>3. CASE v = w
    BY <1>3, <2>1, <2>3 DEF FreshStamp, Flagged
  <2>. QED  BY <2>2, <2>3
<1>. QED  BY <1>2, <1>4 DEF VersionInv

\* The steps of w that neither change a structure nor write an index.
Rests(w) ==
    \/ StartRequest(w) \/ BeginBulk(w) \/ EndBody(w) \/ StoreStructures(w) \/ ReadRow(w)
    \/ SendSignals(w) \/ WriteMongo(w) \/ DeleteMongo(w) \/ MongoFails(w) \/ DeleteCourse(w)
    \/ EndRequest(w) \/ Abort(w) \/ Crash(w)
    \/ (SaveRow(w) \/ InsertRow(w)) /\ pc'[w] = "failed"

Changes(w) == Edit(w) \/ Publish(w) \/ CreateCourse(w)

Saves(w) == (SaveRow(w) \/ InsertRow(w)) /\ pc'[w] = "mirror"

LEMMA StepsOfWriter ==
    ASSUME TypeInv, NEW w \in Writers,
           \/ StartRequest(w) \/ BeginBulk(w) \/ Edit(w) \/ Publish(w) \/ CreateCourse(w)
           \/ DeleteCourse(w) \/ MongoFails(w) \/ Crash(w) \/ Work(w)
    PROVE  (Rests(w) \/ Changes(w) \/ Saves(w)) /\ Others(w)
<1>1. SaveRow(w) \/ InsertRow(w) => pc'[w] \in {"mirror", "failed"}
  BY DEF SaveRow, InsertRow, Fail, Go, TypeInv, TypeOK
<1>2. Others(w)
  BY OnlyOwn DEF Others
<1>. QED  BY <1>1, <1>2 DEF Rests, Changes, Saves, Work

LEMMA ReadableIs ==
    ASSUME TypeInv
    PROVE  /\ {row, pending.index, NoPending.index} \subseteq Readable \cup {NoIndex}
           /\ \A v \in Writers : cached[v] \in Readable \cup {Unread, NoIndex}
           /\ \A v \in Writers : Visible(v) \in Readable \cup {NoIndex}
<1>1. row # Unread /\ pending.index # Unread
  BY NoIndexAssumption DEF NoIndexAssumption, TypeInv, TypeOK, NoPending
<1>. QED  BY <1>1 DEF Readable, NoPending, Visible

LEMMA CacheOf ==
    ASSUME TypeInv, NEW w \in Writers,
           \/ cached' = cached
           \/ cached' = [cached EXCEPT ![w] = Unread]
           \/ \E found \in Readable \cup {NoIndex} : cached' = [cached EXCEPT ![w] = found]
    PROVE  \A v \in Writers : cached'[v] \in Readable \cup {Unread, NoIndex}
BY ReadableIs DEF TypeInv, TypeOK

\* What can be read after a step that writes no index could be read before.
LEMMA RestsRead ==
    ASSUME TypeInv, NEW w \in Writers, Others(w), Rests(w)
    PROVE  /\ Readable' \subseteq Readable
           /\ Seen' \subseteq Seen
           /\ UNCHANGED <<blocks, made>>
<1>. USE DEF Go, dbVars, histories
<1>0. pc \in [Writers -> Stages] /\ cached \in [Writers -> Cached] /\ rec \in [Writers -> Records]
  BY DEF TypeInv, TypeOK, Records, Indexes
<1>1. UNCHANGED <<blocks, made>>
  BY DEF Rests, StartRequest, BeginBulk, EndBody, StoreStructures, ReadRow, SendSignals,
         WriteMongo, DeleteMongo, MongoFails, DeleteCourse, EndRequest, Abort, Crash,
         SaveRow, InsertRow
<1>. DEFINE found == IF cached[w] = Unread THEN Visible(w) ELSE cached[w]
<1>2. found \in Readable \cup {NoIndex}
  BY ReadableIs
<1>3. \/ cached' = cached
      \/ cached' = [cached EXCEPT ![w] = Unread]
      \/ cached' = [cached EXCEPT ![w] = found]
  BY DEF Rests, StartRequest, BeginBulk, EndBody, StoreStructures, ReadRow, SendSignals,
         WriteMongo, DeleteMongo, MongoFails, DeleteCourse, EndRequest, Abort, Crash,
         SaveRow, InsertRow
<1>4. \A v \in Writers : cached'[v] \in Readable \cup {Unread, NoIndex}
  BY <1>2, <1>3, CacheOf
<1>5. {row', pending'.index} \subseteq Readable \cup {NoIndex}
  <2>1. CASE DeleteCourse(w)
    BY <2>1, ReadableIs DEF DeleteCourse, WriteRow
  <2>2. CASE EndRequest(w) \/ Abort(w) \/ Crash(w)
    BY <2>2, ReadableIs DEF EndRequest, Abort, Crash
  <2>3. CASE (SaveRow(w) \/ InsertRow(w)) /\ pc'[w] = "failed"
    BY <1>0, <2>3, ReadableIs DEF SaveRow, InsertRow, Fail
  <2>4. CASE ~(DeleteCourse(w) \/ EndRequest(w) \/ Abort(w) \/ Crash(w))
             /\ ~((SaveRow(w) \/ InsertRow(w)) /\ pc'[w] = "failed")
    <3>1. UNCHANGED <<row, pending>>
      BY <2>4 DEF Rests, StartRequest, BeginBulk, EndBody, StoreStructures, ReadRow, SendSignals,
         WriteMongo, DeleteMongo, MongoFails
    <3>. QED  BY <3>1, ReadableIs
  <2>. QED  BY <2>1, <2>2, <2>3, <2>4
<1>6. Preparing(w)' => rec'[w].initial \in Seen \cup {NoIndex}
  <2>1. CASE BeginBulk(w)
    <3>. HIDE DEF found
    <3>1. rec' = [rec EXCEPT ![w].initial = found, ![w].index = found]
      BY <2>1 DEF BeginBulk, found
    <3>2. rec'[w].initial = found
      BY <1>0, <3>1 DEF Records
    <3>. QED  BY <1>2, <3>2 DEF Seen
  <2>2. CASE EndBody(w)
    BY <1>0, <2>2 DEF EndBody, Preparing, Seen
  <2>3. CASE StoreStructures(w)
    <3>1. pc[w] = "store" /\ (rec' = rec \/ pc'[w] = "request")
      BY <1>0, <2>3 DEF StoreStructures, Finish
    <3>. QED  BY <3>1 DEF Preparing, Seen
  <2>4. CASE ReadRow(w)
    <3>1. pc[w] = "check" /\ (rec' = rec \/ rec' = [rec EXCEPT ![w].index = Stamped(w)])
      BY <2>4 DEF ReadRow, Fail
    <3>2. rec'[w].initial = rec[w].initial
      BY <1>0, <3>1 DEF Records
    <3>. QED  BY <3>1, <3>2 DEF Preparing, Seen
  <2>5. CASE ~(BeginBulk(w) \/ EndBody(w) \/ StoreStructures(w) \/ ReadRow(w))
    <3>1. pc'[w] \in {"request", "signals", "failed", "idle", "unmirror"}
      BY <1>0, <2>5 DEF Rests, StartRequest, SendSignals, Finish,
         WriteMongo, DeleteMongo, MongoFails, DeleteCourse, EndRequest, Abort, Crash
    <3>. QED  BY <3>1 DEF Preparing
  <2>. QED  BY <2>1, <2>2, <2>3, <2>4, <2>5
<1>7. Readable' \subseteq Readable \cup {} /\ Seen' \subseteq Seen \cup {}
  BY <1>4, <1>5, <1>6, SeenFrom
<1>. QED  BY <1>1, <1>7


\* A step that writes an index: it is the one the operation has prepared.
LEMMA SavesWrite ==
    ASSUME VersionInv, NEW w \in Writers, Directed(w), Others(w), Saves(w),
           NEW x, x = rec'[w].index
    PROVE  /\ WriteRow(w, x) /\ Unlocked(w)
           /\ x \in Index /\ x.last_update = <<w, made[w]>>
           /\ rec[w].index # NoIndex
           /\ x.draft = rec[w].index.draft
           /\ x.published = rec[w].index.published
           /\ rec'[w].flag = rec[w].flag
           /\ Changed(w) /\ Preparing(w) /\ ~Preparing(w)'
           /\ UNCHANGED <<blocks, made, announced>>
           /\ Readable' \subseteq Readable \cup {x} /\ Seen' \subseteq Seen \cup {x}
           /\ accidents \subseteq accidents'
           /\ \/ /\ rec[w].initial # NoIndex
                 /\ "overlap" \notin accidents' =>
                       /\ Visible(w) # NoIndex
                       /\ Visible(w).last_update = rec[w].initial.last_update
              \/ rec[w].initial = NoIndex /\ Visible(w) = NoIndex
<1>1. TypeInv /\ rec \in [Writers -> Records]
  BY DEF VersionInv, TypeInv, TypeOK, Records, Indexes
<1>2. pc[w] \in {"save", "insert"} /\ pc'[w] = "mirror"
  BY DEF Saves, SaveRow, InsertRow
<1>3. rec[w].index \in Index /\ rec[w].index # NoIndex
  BY <1>1, <1>2 DEF TypeInv, TypeOK, HasIndex
<1>4. Changed(w) /\ Preparing(w) /\ ~Preparing(w)'
  BY <1>2 DEF Changed, Preparing
<1>5. /\ UNCHANGED <<blocks, made, announced>> /\ Unlocked(w)
      /\ cached' = cached \/ cached' = [cached EXCEPT ![w] = Unread]
  BY DEF Saves, SaveRow, InsertRow
<1>6. /\ WriteRow(w, x)
      /\ x \in Index /\ x.last_update = <<w, made[w]>>
      /\ x.draft = rec[w].index.draft
      /\ x.published = rec[w].index.published
      /\ rec'[w].flag = rec[w].flag
  <2>1. CASE SaveRow(w)
    <3>1. pc[w] = "save" /\ WriteRow(w, rec[w].index) /\ rec' = rec
      BY <1>1, <1>2, <2>1 DEF SaveRow, Go, TypeInv, TypeOK
    <3>. QED  BY <1>3, <3>1 DEF VersionInv, FreshStamp
  <2>2. CASE InsertRow(w)
    <3>1. WriteRow(w, Stamped(w)) /\ rec' = [rec EXCEPT ![w].index = Stamped(w)]
      BY <1>1, <1>2, <2>2 DEF InsertRow, Fail, Go, TypeInv, TypeOK
    <3>2. rec'[w].index = Stamped(w) /\ rec'[w].flag = rec[w].flag
      BY <1>1, <3>1 DEF Records
    <3>3. Stamped(w) \in Index
      BY <1>1, <1>3, StampedIsIndex DEF TypeInv
    <3>4. /\ Stamped(w).last_update = <<w, made[w]>>
          /\ Stamped(w).draft = rec[w].index.draft
          /\ Stamped(w).published = rec[w].index.published
      BY <1>3 DEF Stamped, Index
    <3>. QED  BY <3>1, <3>2, <3>3, <3>4
  <2>. QED  BY <2>1, <2>2 DEF Saves
<1>7. {row', pending'.index} \subseteq Readable \cup {NoIndex} \cup {x}
  BY <1>1, <1>6, ReadableIs DEF WriteRow
<1>8. Readable' \subseteq Readable \cup {x} /\ Seen' \subseteq Seen \cup {x}
  BY <1>1, <1>4, <1>5, <1>7, CacheOf, SeenFrom
<1>9. /\ accidents \subseteq accidents'
      /\ \/ /\ rec[w].initial # NoIndex
            /\ "overlap" \notin accidents' =>
                  /\ Visible(w) # NoIndex
                  /\ Visible(w).last_update = rec[w].initial.last_update
         \/ rec[w].initial = NoIndex /\ Visible(w) = NoIndex
  <2>1. CASE SaveRow(w)
    <3>1. /\ rec[w].initial # NoIndex
          /\ accidents' = accidents
                \cup (IF \/ Visible(w) = NoIndex
                         \/ Visible(w).last_update # rec[w].initial.last_update
                      THEN {"overlap"} ELSE {})
                \cup (IF \E v \in Writers \ {w} : pc[v] \in {"mirror", "unmirror"}
                      THEN {"overtaken"} ELSE {})
      BY <1>1, <1>2, <2>1 DEF SaveRow, Go, TypeInv, TypeOK, Directed
    <3>. QED  BY <3>1
  <2>2. CASE InsertRow(w)
    <3>1. pc[w] = "insert" /\ Visible(w) = NoIndex /\ accidents \subseteq accidents'
      BY <1>1, <1>2, <2>2 DEF InsertRow, Fail, Go, TypeInv, TypeOK, HitIf
    <3>. QED  BY <3>1 DEF Directed
  <2>. QED  BY <2>1, <2>2 DEF Saves
<1>. QED  BY <1>3, <1>4, <1>5, <1>6, <1>8, <1>9

\* A change: what is made in its course bears a number that was not given.
LEMMA ChangesMake ==
    ASSUME TypeInv, NEW w \in Writers, Changes(w)
    PROVE  /\ UNCHANGED <<dbVars, pc, cached, accidents, announced, kept>>
           /\ made'[w] > made[w]
           /\ \A v \in Writers \ {w} : made'[v] = made[v]
           /\ rec'[w].initial = rec[w].initial
           /\ pc[w] = "bulk"
           /\ Readable' = Readable /\ Seen' \subseteq Seen
<1>1. rec \in [Writers -> Records] /\ \A v \in Writers : made[v] \in Nat
  BY SeenAreIndexes DEF TypeInv, TypeOK, Records, Indexes
<1>2. UNCHANGED <<dbVars, pc, cached, accidents, announced, kept>> /\ pc[w] = "bulk"
  BY DEF Changes, Edit, Publish, CreateCourse, histories
<1>3. \/ made' = [made EXCEPT ![w] = @ + 1]
      \/ made' = [made EXCEPT ![w] = @ + 2]
  BY DEF Changes, Edit, Publish, CreateCourse
<1>4. made'[w] > made[w] /\ \A v \in Writers \ {w} : made'[v] = made[v]
  BY <1>1, <1>3 DEF TypeInv, TypeOK
<1>5. rec'[w].initial = rec[w].initial /\ \A v \in Writers \ {w} : rec'[v] = rec[v]
  BY <1>1 DEF Changes, Edit, Publish, CreateCourse, Records
<1>6. Readable' = Readable
  BY <1>2 DEF Readable, dbVars
<1>7. Seen' \subseteq Seen
  BY <1>2, <1>5, <1>6 DEF Seen, Preparing
<1>. QED  BY <1>2, <1>4, <1>5, <1>6, <1>7

LEMMA VersionNextRests ==
    ASSUME VersionInv, TypeInv', NEW w \in Writers, Others(w), Rests(w)
    PROVE  VersionInv'
<1>0. /\ TypeInv /\ pc \in [Writers -> Stages] /\ rec \in [Writers -> Records]
      /\ Flagged(w)
  BY DEF VersionInv, TypeInv, TypeOK, Records, Indexes
<1>1. Seen' \subseteq Seen /\ made' = made
  BY <1>0, RestsRead
<1>. USE DEF Go
<1>. DEFINE Good == /\ Changed(w)' => Changed(w)
                    /\ (pc[w] = "save" => rec[w].index.last_update = <<w, made[w]>>)'
                    /\ Flagged(w)'
<1>2. CASE BeginBulk(w)
  <2>1. PICK found : rec' = [rec EXCEPT ![w].initial = found, ![w].index = found]
    BY <1>2 DEF BeginBulk
  <2>2. rec'[w].initial = found /\ rec'[w].index = found /\ pc'[w] = "bulk"
    BY <1>0, <1>2, <2>1 DEF BeginBulk, Records
  <2>3. Good
    BY <2>2 DEF Changed, Flagged
  <2>. QED  BY <1>1, <2>3, VersionRests
<1>3. CASE EndBody(w)
  <2>1. pc[w] = "bulk" /\ pc'[w] = "store" /\ rec' = rec
    BY <1>0, <1>3 DEF EndBody
  <2>2. Good
    BY <1>0, <2>1 DEF Changed, Flagged, Preparing
  <2>. QED  BY <1>1, <2>2, VersionRests
<1>4. CASE StoreStructures(w)
  <2>1. /\ pc[w] = "store"
        /\ \/ pc'[w] \in {"check", "insert"} /\ rec' = rec /\ rec[w].index # rec[w].initial
           \/ pc'[w] \in {"signals", "request"}
    BY <1>0, <1>4 DEF StoreStructures, Finish
  <2>2. Good
    BY <1>0, <2>1 DEF Changed, Flagged, Preparing
  <2>. QED  BY <1>1, <2>2, VersionRests
<1>5. CASE ReadRow(w)
  <2>1. /\ pc[w] = "check"
        /\ \/ pc'[w] = "save" /\ rec' = [rec EXCEPT ![w].index = Stamped(w)]
           \/ pc'[w] \in {"signals", "failed"}
    BY <1>0, <1>5 DEF ReadRow, Fail
  <2>2. CASE pc'[w] = "save"
    <3>1. /\ rec'[w].index = Stamped(w) /\ rec'[w].flag = rec[w].flag
          /\ rec'[w].initial = rec[w].initial
      BY <1>0, <2>1, <2>2 DEF Records
    <3>2. rec[w].index \in Index /\ rec[w].index # NoIndex
      BY <1>0, <2>1 DEF TypeInv, TypeOK, HasIndex
    <3>3. /\ Stamped(w).last_update = <<w, made[w]>>
          /\ Stamped(w).published = rec[w].index.published
      BY <3>2 DEF Stamped, Index
    <3>4. Flagged(w)'
      BY <1>0, <2>1, <3>1, <3>2, <3>3 DEF Flagged, Preparing
    <3>5. Good
      BY <1>1, <2>1, <3>1, <3>3, <3>4 DEF Changed
    <3>. QED  BY <1>1, <3>5, VersionRests
  <2>3. CASE pc'[w] # "save"
    <3>1. Good
      BY <2>1, <2>3 DEF Changed, Flagged, Preparing
    <3>. QED  BY <1>1, <3>1, VersionRests
  <2>. QED  BY <2>2, <2>3
<1>6. CASE ~(BeginBulk(w) \/ EndBody(w) \/ StoreStructures(w) \/ ReadRow(w))
  <2>1. pc'[w] \in {"request", "signals", "failed", "idle", "unmirror"}
    BY <1>0, <1>6 DEF Rests, StartRequest, SendSignals, Finish,
       WriteMongo, DeleteMongo, MongoFails, DeleteCourse, EndRequest, Abort, Crash
  <2>2. Good
    BY <2>1 DEF Changed, Flagged, Preparing
  <2>. QED  BY <1>1, <2>2, VersionRests
<1>. QED  BY <1>2, <1>3, <1>4, <1>5, <1>6

LEMMA VersionNextSaves ==
    ASSUME VersionInv, TypeInv', NEW w \in Writers, Others(w), Directed(w), Saves(w)
    PROVE  VersionInv'
<1>. DEFINE x == rec'[w].index
<1>1. /\ x.last_update = <<w, made[w]>> /\ Seen' \subseteq Seen \cup {x}
      /\ Changed(w) /\ ~Preparing(w)' /\ made' = made
  BY SavesWrite
<1>. QED  BY <1>1, VersionWrites

LEMMA VersionNextChanges ==
    ASSUME VersionInv, TypeInv', NEW w \in Writers, Others(w), Changes(w)
    PROVE  VersionInv'
<1>0. TypeInv /\ rec \in [Writers -> Records] /\ Flagged(w)
  BY DEF VersionInv, TypeInv, TypeOK, Records, Indexes
<1>1. /\ made'[w] > made[w] /\ \A v \in Writers \ {w} : made'[v] = made[v]
      /\ pc' = pc /\ pc[w] = "bulk" /\ Seen' \subseteq Seen
      /\ rec'[w].initial = rec[w].initial
  BY <1>0, ChangesMake
<1>2. Flagged(w)'
  <2>1. CASE Edit(w)
    <3>1. PICK id : rec' = [rec EXCEPT ![w].index.draft = id, ![w].news = @ \cup {id}]
      BY <2>1 DEF Edit
    <3>2. rec[w].index \in Index /\ rec[w].index # NoIndex
      BY <1>0, <2>1 DEF Edit, Records, Indexes
    <3>3. /\ rec'[w].index.published = rec[w].index.published
          /\ rec'[w].flag = rec[w].flag
      BY <1>0, <3>1, <3>2 DEF Records, Index
    <3>. QED  BY <1>0, <1>1, <3>2, <3>3 DEF Flagged, Preparing
  <2>2. CASE Publish(w)
    <3>. DEFINE id == IF PublishedIsDirty(rec[w]) THEN rec[w].index.published ELSE NextId(w)
    <3>1. rec' = [rec EXCEPT ![w].index.published = id, ![w].news = @ \cup {id},
                             ![w].flag = TRUE]
      BY <2>2 DEF Publish
    <3>2. rec[w].index \in Index /\ rec[w].index # NoIndex
      BY <1>0, <2>2 DEF Publish, Records, Indexes
    <3>3. id[1] = w
      BY <1>0, <1>1, <3>2 DEF Flagged, Preparing, PublishedIsDirty, NextId
    <3>. HIDE DEF id
    <3>4. rec'[w].index.published = id /\ rec'[w].flag
      BY <1>0, <3>1, <3>2 DEF Records, Index
    <3>. QED  BY <3>3, <3>4 DEF Flagged
  <2>3. CASE CreateCourse(w)
    <3>. DEFINE d == NextId(w)
                p == <<w, made[w] + 2>>
                index == [_id |-> d, draft |-> d, published |-> p, last_update |-> d]
    <3>1. rec' = [rec EXCEPT ![w].index = index, ![w].news = @ \cup {d, p}, ![w].flag = TRUE]
      BY <2>3 DEF CreateCourse
    <3>2. index.published[1] = w
      OBVIOUS
    <3>. HIDE DEF index
    <3>3. rec'[w].index = index /\ rec'[w].flag
      BY <1>0, <3>1 DEF Records
    <3>. QED  BY <3>2, <3>3 DEF Flagged
  <2>. QED  BY <2>1, <2>2, <2>3 DEF Changes
<1>3. (pc[w] = "save" => rec[w].index.last_update = <<w, made[w]>>)'
  BY <1>1
<1>. QED  BY <1>1, <1>2, <1>3, VersionRests

-----------------------------------------------------------------------------
(* Nothing that was committed is lost                                      *)

\* What w prepares has all that is in the index it will be compared with.
Grows(w) ==
    Preparing(w) /\ rec[w].initial # NoIndex =>
        \A i \in Readable : i.last_update = rec[w].initial.last_update =>
            blocks[i.draft] \subseteq blocks[rec[w].index.draft]

Keeps(index) == index # NoIndex => kept \subseteq blocks[index.draft]

\* The inductive invariant for NothingLost.
KeepInv ==
    /\ DraftInv
    /\ MirrorInv
    /\ VersionInv
    /\ \A w \in Writers : Grows(w)
    /\ row = NoIndex => kept = {}
    /\ "overlap" \notin accidents => Keeps(row) /\ Keeps(pending.index)

LEMMA KeepInit == Init => KeepInv
<1>1. Init => DraftInv /\ MirrorInv /\ VersionInv
  BY DraftInit, MirrorInit, VersionInit
<1>2. Init => \A w \in Writers : Grows(w)
  BY DEF Init, Grows, Preparing
<1>3. Init => kept = {}
  BY DEF Init
<1>. QED  BY <1>1, <1>2, <1>3 DEF KeepInv, Keeps

LEMMA PreparedHasIndex ==
    ASSUME TypeInv, NEW w \in Writers, Preparing(w), rec[w].initial # NoIndex
    PROVE  rec[w].index \in Index /\ rec[w].index # NoIndex
BY DEF TypeInv, TypeOK, HasIndex, Preparing

\* A step that changes no structure, and writes x at most.
LEMMA GrowStays ==
    ASSUME KeepInv, NEW w \in Writers, Others(w), UNCHANGED blocks, NEW X,
           Readable' \subseteq Readable \cup X,
           \A x \in X : Changed(w) /\ x.last_update = <<w, made[w]>>,
           Grows(w)'
    PROVE  \A v \in Writers : Grows(v)'
<1>1. SUFFICES ASSUME NEW v \in Writers \ {w}, Preparing(v), rec[v].initial # NoIndex,
                      NEW i \in Readable', i.last_update = rec[v].initial.last_update
               PROVE  blocks[i.draft] \subseteq blocks[rec[v].index.draft]
  BY DEF Grows, Others, Preparing
<1>2. rec[v].initial \in Seen
  BY <1>1 DEF Seen
<1>3. i \notin X
  BY <1>1, <1>2, NewStamp DEF KeepInv
<1>. QED  BY <1>1, <1>3 DEF KeepInv, Grows

LEMMA GrowRests ==
    ASSUME KeepInv, NEW w \in Writers, Others(w), Rests(w)
    PROVE  \A v \in Writers : Grows(v)'
<1>0. /\ TypeInv /\ pc \in [Writers -> Stages] /\ rec \in [Writers -> Records]
      /\ Grows(w) /\ Twins
  BY DEF KeepInv, VersionInv, TypeInv, TypeOK, Records, Indexes
<1>1. Readable' \subseteq Readable /\ UNCHANGED blocks
  BY <1>0, RestsRead
<1>. SUFFICES Grows(w)'
  <2>. DEFINE none == {}
  <2>1. /\ Readable' \subseteq Readable \cup none
        /\ \A x \in none : Changed(w) /\ x.last_update = <<w, made[w]>>
    BY <1>1
  <2>. HIDE DEF none
  <2>. QED  BY <1>1, <2>1, GrowStays
<1>. USE DEF Go
<1>2. CASE BeginBulk(w)
  <2>. DEFINE found == IF cached[w] = Unread THEN Visible(w) ELSE cached[w]
  <2>1. found \in Readable \cup {NoIndex}
    BY <1>0, ReadableIs
  <2>2. rec' = [rec EXCEPT ![w].initial = found, ![w].index = found]
    BY <1>2 DEF BeginBulk
  <2>. HIDE DEF found
  <2>3. rec'[w].initial = found /\ rec'[w].index = found
    BY <1>0, <2>2 DEF Records
  <2>4. \A i \in Readable : found # NoIndex /\ i.last_update = found.last_update =>
            i.draft = found.draft
    BY <1>0, <2>1, SeenAreIndexes, NoIndexAssumption DEF Twins, SameAs, Seen, NoIndexAssumption
  <2>. QED  BY <1>1, <2>3, <2>4 DEF Grows
<1>3. CASE EndBody(w) \/ StoreStructures(w) \/ ReadRow(w)
  <2>1. CASE Preparing(w)'
    <3>1. Preparing(w)
      BY <1>3 DEF EndBody, StoreStructures, ReadRow, Preparing
    <3>2. rec' = rec \/ (rec' = [rec EXCEPT ![w].index = Stamped(w)] /\ pc[w] = "check")
      BY <1>0, <1>3, <2>1 DEF EndBody, StoreStructures, ReadRow, Finish, Fail, Preparing
    <3>3. CASE rec' = rec
      BY <1>0, <1>1, <3>1, <3>3 DEF Grows
    <3>4. CASE rec' = [rec EXCEPT ![w].index = Stamped(w)] /\ pc[w] = "check"
      <4>1. rec[w].index \in Index
        BY <1>0, <3>4 DEF TypeInv, TypeOK, HasIndex
      <4>2. Stamped(w).draft = rec[w].index.draft
        BY <4>1 DEF Stamped, Index
      <4>3. rec'[w].index = Stamped(w) /\ rec'[w].initial = rec[w].initial
        BY <1>0, <3>4 DEF Records
      <4>. QED  BY <1>0, <1>1, <3>1, <4>2, <4>3 DEF Grows
    <3>. QED  BY <3>2, <3>3, <3>4
  <2>2. CASE ~Preparing(w)'
    BY <2>2 DEF Grows
  <2>. QED  BY <2>1, <2>2
<1>4. CASE ~(BeginBulk(w) \/ EndBody(w) \/ StoreStructures(w) \/ ReadRow(w))
  <2>1. pc'[w] \in {"request", "signals", "failed", "idle", "unmirror"}
    BY <1>0, <1>4 DEF Rests, StartRequest, SendSignals, Finish,
       WriteMongo, DeleteMongo, MongoFails, DeleteCourse, EndRequest, Abort, Crash
  <2>. QED  BY <2>1 DEF Grows, Preparing
<1>. QED  BY <1>2, <1>3, <1>4

\* A change touches what its writer owns, and keeps all that the draft had.
LEMMA ChangesOwn ==
    ASSUME DraftInv, NEW w \in Writers, Changes(w)
    PROVE  /\ \E new \in SUBSET Ids : /\ \A id \in new : Own(w, id)
                                      /\ \A id \in Ids \ new : blocks'[id] = blocks[id]
           /\ rec[w].initial # NoIndex =>
                 /\ rec[w].index # NoIndex
                 /\ blocks[rec[w].index.draft] \subseteq blocks'[rec'[w].index.draft]
<1>1. /\ TypeInv /\ rec \in [Writers -> Records] /\ blocks \in [Ids -> SUBSET Ids]
      /\ made[w] \in Nat /\ pc[w] = "bulk"
  BY SeenAreIndexes DEF DraftInv, TypeInv, TypeOK, Records, Indexes, Changes, Edit, Publish,
                        CreateCourse
<1>2. CASE Edit(w)
  <2>. DEFINE index == rec[w].index
              id == IF DraftIsDirty(rec[w]) THEN index.draft ELSE NextId(w)
  <2>1. /\ index \in Index /\ index # NoIndex /\ NextId(w) \in Ids
        /\ NextId(w) = <<w, made[w] + 1>> /\ made[w] + 1 \in Nat /\ made[w] + 1 > made[w]
    BY <1>1, <1>2, NextIdIsId DEF Edit, Records, Indexes, TypeInv, NextId
  <2>2. Own(w, id) /\ id \in Ids
    BY <2>1 DEF Own, Changing, Index
  <2>3. /\ blocks' = [blocks EXCEPT ![id] = blocks[index.draft] \cup {NextId(w)}]
        /\ rec' = [rec EXCEPT ![w].index.draft = id, ![w].news = @ \cup {id}]
    BY <1>2 DEF Edit
  <2>. HIDE DEF id
  <2>4. rec'[w].index.draft = id
    BY <1>1, <2>1, <2>3 DEF Records, Index
  <2>5. blocks[index.draft] \subseteq blocks'[id] /\ \A i \in Ids \ {id} : blocks'[i] = blocks[i]
    BY <1>1, <2>2, <2>3
  <2>. QED  BY <2>1, <2>2, <2>4, <2>5
<1>3. CASE Publish(w)
  <2>. DEFINE index == rec[w].index
              id == IF PublishedIsDirty(rec[w]) THEN index.published ELSE NextId(w)
  <2>1. /\ index \in Index /\ index # NoIndex /\ NextId(w) \in Ids
        /\ NextId(w) = <<w, made[w] + 1>> /\ made[w] + 1 \in Nat /\ made[w] + 1 > made[w]
    BY <1>1, <1>3, NextIdIsId DEF Publish, Records, Indexes, TypeInv, NextId
  <2>2. Own(w, id) /\ id \in Ids
    BY <2>1 DEF Own, Changing, Index
  <2>3. /\ blocks' = [blocks EXCEPT ![id] = blocks[index.draft]]
        /\ rec' = [rec EXCEPT ![w].index.published = id, ![w].news = @ \cup {id},
                              ![w].flag = TRUE]
    BY <1>3 DEF Publish
  <2>. HIDE DEF id
  <2>4. rec'[w].index.draft = index.draft
    BY <1>1, <2>1, <2>3 DEF Records, Index
  <2>5. index.draft \in Ids
    BY <2>1 DEF Index
  <2>6. blocks'[index.draft] = blocks[index.draft] /\ \A i \in Ids \ {id} : blocks'[i] = blocks[i]
    BY <1>1, <2>2, <2>3, <2>5
  <2>. QED  BY <2>1, <2>2, <2>4, <2>6
<1>4. CASE CreateCourse(w)
  <2>. DEFINE d == NextId(w)
              p == <<w, made[w] + 2>>
  <2>1. /\ made[w] + 2 \in 0..MaxMade /\ made[w] + 1 \in 0..MaxMade
        /\ made[w] + 1 \in Nat /\ made[w] + 1 > made[w]
        /\ made[w] + 2 \in Nat /\ made[w] + 2 > made[w]
        /\ rec[w].initial = NoIndex
    BY <1>1, <1>4, CourseIndexAssumption
    DEF CreateCourse, CourseIndexAssumption, TypeInv, HasIndex
  <2>2. d \in Ids /\ p \in Ids /\ Own(w, d) /\ Own(w, p)
    BY <2>1, IdsOfWriter DEF NextId, Own
  <2>3. blocks' = [blocks EXCEPT ![d] = {d}, ![p] = {d}]
    BY <1>4 DEF CreateCourse
  <2>. HIDE DEF d, p
  <2>4. \A i \in Ids \ {d, p} : blocks'[i] = blocks[i]
    BY <1>1, <2>3
  <2>5. {d, p} \in SUBSET Ids /\ \A id \in {d, p} : Own(w, id)
    BY <2>2
  <2>. QED  BY <2>1, <2>4, <2>5
<1>. QED  BY <1>2, <1>3, <1>4 DEF Changes

LEMMA GrowChanges ==
    ASSUME KeepInv, NEW w \in Writers, Others(w), Changes(w)
    PROVE  /\ \A v \in Writers : Grows(v)'
           /\ \A i \in Readable : blocks'[i.draft] = blocks[i.draft]
<1>0. TypeInv /\ DraftInv /\ Readable \subseteq Index
  BY SeenAreIndexes DEF KeepInv, VersionInv
<1>1. /\ pc' = pc /\ pc[w] = "bulk" /\ Readable' = Readable
      /\ rec'[w].initial = rec[w].initial
  BY <1>0, ChangesMake
<1>2. PICK new \in SUBSET Ids : /\ \A id \in new : Own(w, id)
                                /\ \A id \in Ids \ new : blocks'[id] = blocks[id]
  BY <1>0, ChangesOwn
<1>3. /\ \A i \in Common, id \in new : id \notin Pointers(i)
      /\ \A v \in Writers \ {w}, id \in new : Working(v) => id \notin Pointers(rec[v].index)
  BY <1>0, <1>1, <1>2, OthersDoNotPoint
<1>4. ASSUME NEW i \in Readable PROVE blocks'[i.draft] = blocks[i.draft]
  <2>1. i \in Common /\ i # NoIndex /\ i.draft \in Ids
    BY <1>0 DEF Readable, Common, Index
  <2>2. i.draft \notin new
    BY <1>3, <2>1 DEF Pointers
  <2>. QED  BY <1>2, <2>1, <2>2
<1>5. ASSUME NEW v \in Writers \ {w} PROVE Grows(v)'
  <2>1. SUFFICES ASSUME Preparing(v), rec[v].initial # NoIndex
                 PROVE  blocks'[rec[v].index.draft] = blocks[rec[v].index.draft]
    BY <1>1, <1>4 DEF Grows, Others, Preparing, KeepInv
  <2>2. rec[v].index \in Index /\ rec[v].index # NoIndex /\ Working(v)
    BY <1>0, <2>1, PreparedHasIndex DEF Preparing, Working, Holding
  <2>3. rec[v].index.draft \notin new /\ rec[v].index.draft \in Ids
    BY <1>3, <2>2 DEF Pointers, Index
  <2>. QED  BY <1>2, <2>3
<1>6. Grows(w)'
  <2>1. Grows(w) /\ Preparing(w)
    BY <1>1 DEF KeepInv, Preparing
  <2>2. rec[w].initial # NoIndex =>
           blocks[rec[w].index.draft] \subseteq blocks'[rec'[w].index.draft]
    BY <1>0, ChangesOwn
  <2>. QED  BY <1>1, <1>4, <2>1, <2>2 DEF Grows
<1>. QED  BY <1>4, <1>5, <1>6

LEMMA GrowSaves ==
    ASSUME KeepInv, NEW w \in Writers, Others(w), Saves(w)
    PROVE  \A v \in Writers : Grows(v)'
<1>. DEFINE x == rec'[w].index
            new == {x}
<1>1. /\ Readable' \subseteq Readable \cup new /\ UNCHANGED blocks
      /\ \A y \in new : Changed(w) /\ y.last_update = <<w, made[w]>>
      /\ ~Preparing(w)'
  BY SavesWrite DEF KeepInv, MirrorInv
<1>2. Grows(w)'
  BY <1>1 DEF Grows
<1>. HIDE DEF new
<1>. QED  BY <1>1, <1>2, GrowStays

\* What is committed, or about to be, after a step that writes an index.
LEMMA KeptBySave ==
    ASSUME KeepInv, NEW w \in Writers, Others(w), Saves(w)
    PROVE  /\ (row = NoIndex => kept = {})'
           /\ "overlap" \notin accidents' => Keeps(row)' /\ Keeps(pending.index)'
<1>. DEFINE x == rec'[w].index
<1>0. TypeInv /\ VersionInv /\ Directed(w) /\ Grows(w)
  BY DEF KeepInv, VersionInv, MirrorInv
<1>1. /\ WriteRow(w, x) /\ Unlocked(w) /\ x \in Index /\ x # NoIndex
      /\ x.draft = rec[w].index.draft
      /\ Preparing(w) /\ UNCHANGED blocks /\ accidents \subseteq accidents'
      /\ \/ /\ rec[w].initial # NoIndex
            /\ "overlap" \notin accidents' =>
                  /\ Visible(w) # NoIndex
                  /\ Visible(w).last_update = rec[w].initial.last_update
         \/ rec[w].initial = NoIndex /\ Visible(w) = NoIndex
  BY <1>0, SavesWrite, NoIndexAssumption DEF NoIndexAssumption
<1>. HIDE DEF x
<1>2. ASSUME "overlap" \notin accidents'
      PROVE  kept \subseteq blocks[x.draft]
  <2>1. Keeps(row) /\ Keeps(pending.index)
    BY <1>1, <1>2 DEF KeepInv
  <2>2. CASE Visible(w) # NoIndex
    <3>1. Visible(w) \in Readable /\ kept \subseteq blocks[Visible(w).draft]
      BY <1>0, <2>1, <2>2, ReadableIs DEF Keeps, Visible
    <3>2. blocks[Visible(w).draft] \subseteq blocks[x.draft]
      BY <1>0, <1>1, <1>2, <2>2, <3>1 DEF Grows
    <3>. QED  BY <3>1, <3>2
  <2>3. CASE Visible(w) = NoIndex
    <3>1. pending.by # w
      BY <1>0, <2>3, PendingHasOne, NoIndexAssumption, CourseIndexAssumption
      DEF Visible, NoIndexAssumption, CourseIndexAssumption
    <3>2. row = NoIndex
      BY <2>3, <3>1 DEF Visible
    <3>. QED  BY <3>2 DEF KeepInv
  <2>. QED  BY <2>2, <2>3
<1>3. CASE w \in Atomic
  <2>1. pending'.index = x /\ row' = row /\ kept' = kept
    BY <1>1, <1>3 DEF WriteRow
  <2>2. (row = NoIndex => kept = {})'
    BY <2>1 DEF KeepInv
  <2>3. "overlap" \notin accidents' => Keeps(row)'
    BY <1>1, <2>1 DEF KeepInv, Keeps
  <2>4. "overlap" \notin accidents' => Keeps(pending.index)'
    BY <1>1, <1>2, <2>1 DEF Keeps
  <2>. QED  BY <2>2, <2>3, <2>4
<1>4. CASE w \notin Atomic
  <2>1. row' = x /\ kept' = kept \cup blocks[x.draft] /\ pending' = NoPending
    BY <1>0, <1>1, <1>4, Written DEF WriteRow
  <2>2. pending'.index = NoIndex
    BY <2>1 DEF NoPending
  <2>. QED  BY <1>1, <1>2, <2>1, <2>2 DEF Keeps
<1>. QED  BY <1>3, <1>4

LEMMA KeptByRest ==
    ASSUME KeepInv, NEW w \in Writers, Others(w), Rests(w)
    PROVE  /\ (row = NoIndex => kept = {})'
           /\ "overlap" \notin accidents' => Keeps(row)' /\ Keeps(pending.index)'
<1>0. TypeInv
  BY DEF KeepInv, VersionInv
<1>1. UNCHANGED blocks
  BY <1>0, RestsRead
<1>2. accidents \subseteq accidents'
  BY DEF Rests, StartRequest, BeginBulk, EndBody, StoreStructures, ReadRow, SendSignals,
         WriteMongo, DeleteMongo, MongoFails, DeleteCourse, EndRequest, Abort, Crash,
         SaveRow, InsertRow, HitIf, Hit, histories
<1>3. "overlap" \notin accidents' => Keeps(row) /\ Keeps(pending.index)
  BY <1>2 DEF KeepInv
<1>4. CASE kept' = {} /\ row' = NoIndex
  BY <1>4 DEF Keeps
<1>5. CASE kept' = kept /\ row' = row /\ pending' \in {pending, NoPending}
  <2>1. NoPending.index = NoIndex
    BY DEF NoPending
  <2>. QED  BY <1>1, <1>3, <1>5, <2>1 DEF Keeps, KeepInv
<1>6. CASE EndRequest(w) /\ pending.by = w
  <2>1. pending.index \in Index /\ pending.index # NoIndex
    BY <1>0, <1>6, PendingHasOne, NoIndexAssumption, CourseIndexAssumption
    DEF NoIndexAssumption, CourseIndexAssumption
  <2>2. /\ row' = pending.index /\ pending'.index = NoIndex
        /\ kept' = kept \cup blocks[pending.index.draft]
    BY <1>6 DEF EndRequest, NoPending
  <2>. QED  BY <1>1, <1>3, <2>1, <2>2 DEF Keeps
<1>7. CASE ~(EndRequest(w) /\ pending.by = w)
  <2>1. CASE DeleteCourse(w)
    BY <1>4, <2>1 DEF DeleteCourse, WriteRow
  <2>2. CASE EndRequest(w) \/ Abort(w) \/ Crash(w)
    BY <1>5, <1>7, <2>2 DEF EndRequest, Abort, Crash
  <2>3. CASE (SaveRow(w) \/ InsertRow(w)) /\ pc'[w] = "failed"
    BY <1>0, <1>5, <2>3 DEF SaveRow, InsertRow, Fail, Go, TypeInv, TypeOK
  <2>4. CASE \/ StartRequest(w) \/ BeginBulk(w) \/ EndBody(w) \/ StoreStructures(w) \/ ReadRow(w)
             \/ SendSignals(w) \/ WriteMongo(w) \/ DeleteMongo(w) \/ MongoFails(w)
    BY <1>5, <2>4 DEF StartRequest, BeginBulk, EndBody, StoreStructures, ReadRow, SendSignals,
         WriteMongo, DeleteMongo, MongoFails, dbVars, histories
  <2>. QED  BY <2>1, <2>2, <2>3, <2>4 DEF Rests
<1>. QED  BY <1>6, <1>7

LEMMA KeptByChange ==
    ASSUME KeepInv, NEW w \in Writers, Others(w), Changes(w)
    PROVE  /\ (row = NoIndex => kept = {})'
           /\ "overlap" \notin accidents' => Keeps(row)' /\ Keeps(pending.index)'
<1>1. TypeInv
  BY DEF KeepInv, VersionInv
<1>2. UNCHANGED <<row, pending, kept, accidents>>
  BY <1>1, ChangesMake DEF dbVars
<1>3. \A i \in {row, pending.index} : i # NoIndex => blocks'[i.draft] = blocks[i.draft]
  BY <1>1, GrowChanges, ReadableIs
<1>. QED  BY <1>2, <1>3 DEF KeepInv, Keeps

LEMMA VersionNext ==
    ASSUME VersionInv, TypeInv', NEW w \in Writers, Others(w), Directed(w),
           Rests(w) \/ Changes(w) \/ Saves(w)
    PROVE  VersionInv'
BY VersionNextRests, VersionNextChanges, VersionNextSaves

LEMMA VersionStutters ==
    ASSUME VersionInv, TypeInv', UNCHANGED vars
    PROVE  VersionInv'
<1>1. /\ Seen' = Seen
      /\ \A w \in Writers : (Changed(w)' <=> Changed(w)) /\ (Preparing(w)' <=> Preparing(w))
  BY DEF vars, dbVars, Seen, Readable, Preparing, Changed
<1>. QED  BY <1>1 DEF vars, VersionInv, Twins, SameAs, FreshStamp, Flagged

LEMMA KeepNext == KeepInv /\ [Next]_vars => KeepInv'
<1>. SUFFICES ASSUME KeepInv, [Next]_vars PROVE KeepInv'
  OBVIOUS
<1>1. TypeInv' /\ DraftInv' /\ MirrorInv'
  BY TypeNext, DraftNext, MirrorNext DEF KeepInv, VersionInv
<1>2. CASE UNCHANGED vars
  <2>1. VersionInv'
    BY <1>1, <1>2, VersionStutters DEF KeepInv
  <2>2. Readable' = Readable /\ \A w \in Writers : Preparing(w)' <=> Preparing(w)
    BY <1>2 DEF vars, dbVars, Readable, Preparing
  <2>3. \A w \in Writers : Grows(w)'
    BY <1>2, <2>2 DEF vars, KeepInv, Grows
  <2>4. /\ (row = NoIndex => kept = {})'
        /\ "overlap" \notin accidents' => Keeps(row)' /\ Keeps(pending.index)'
    BY <1>2 DEF vars, dbVars, histories, KeepInv, Keeps
  <2>. QED  BY <1>1, <2>1, <2>3, <2>4 DEF KeepInv
<1>3. CASE Next
  <2>1. PICK w \in Writers : (Rests(w) \/ Changes(w) \/ Saves(w)) /\ Others(w)
    BY <1>3, StepsOfWriter DEF Next, KeepInv, VersionInv
  <2>2. VersionInv'
    BY <1>1, <2>1, VersionNext DEF KeepInv, MirrorInv
  <2>3. \A v \in Writers : Grows(v)'
    BY <2>1, GrowRests, GrowChanges, GrowSaves
  <2>4. /\ (row = NoIndex => kept = {})'
        /\ "overlap" \notin accidents' => Keeps(row)' /\ Keeps(pending.index)'
    BY <2>1, KeptByRest, KeptByChange, KeptBySave
  <2>. QED  BY <1>1, <2>2, <2>3, <2>4 DEF KeepInv
<1>. QED  BY <1>2, <1>3

\* A change whose index was committed stays in the draft as long as the course is
\* there, however many bulk operations began from the same index, fail or die,
\* unless a save overlaps with another: the time of the last update tells the
\* version that the operation began with from every other (update_course_index).
THEOREM CommittedStays == Spec => []NothingLost
<1>1. KeepInv => NothingLost
  BY DEF KeepInv, Keeps, NothingLost
<1>. QED  BY <1>1, KeepInit, KeepNext, PTL DEF Spec

-----------------------------------------------------------------------------
(* Publications are announced                                              *)

\* A published version was announced or is about to be.
Told(p) == p[1] = Origin \/ p \in announced \/ Due(p[1])

\* The inductive invariant for PublishIsAnnounced.
AnnounceInv ==
    /\ MirrorInv
    /\ VersionInv
    /\ accidents = {} =>
          /\ row # NoIndex => Told(row.published)
          /\ pending.by # Origin =>
                \/ row # NoIndex /\ pending.index.published = row.published
                \/ Due(pending.by)

LEMMA AnnounceInit == Init => AnnounceInv
<1>1. Init => MirrorInv /\ VersionInv
  BY MirrorInit, VersionInit
<1>2. Init => (row # NoIndex => Told(row.published)) /\ pending.by = Origin
  BY DEF Init, FirstIndex, Told, NoPending
<1>. QED  BY <1>1, <1>2 DEF AnnounceInv

\* A writer that has a signal to send does so, if nothing fails.
LEMMA DueStays ==
    ASSUME MirrorInv, NEW w \in Writers, Others(w), Rests(w) \/ Changes(w) \/ Saves(w),
           accidents' = {}, NEW u \in Writers, Due(u), ~(u = w /\ SendSignals(w))
    PROVE  Due(u)'
<1>1. CASE u # w
  BY <1>1 DEF Others, Due
<1>2. CASE u = w
  <2>1. pc[w] \in {"mirror", "signals"} /\ rec[w].flag
    BY <1>2 DEF Due
  <2>2. WriteMongo(w) \/ MongoFails(w) \/ Crash(w)
    BY <1>2, <2>1 DEF Rests, Changes, Saves, StartRequest, BeginBulk, Edit, Publish, CreateCourse,
       EndBody, StoreStructures, ReadRow, SaveRow, InsertRow, DeleteMongo, DeleteCourse,
       EndRequest, Abort
  <2>3. WriteMongo(w)
    BY <2>2 DEF MongoFails, Crash, Hit
  <2>4. accidents = {} /\ pc[w] = "mirror"
    BY <2>3 DEF WriteMongo, histories
  <2>5. rec[w].initial = NoIndex => mongo = NoIndex
    BY <2>4 DEF MirrorInv, WillAgree
  <2>6. pc'[w] = "signals" /\ rec' = rec
    BY <2>3, <2>5 DEF WriteMongo, Go, MirrorInv, TypeInv, TypeOK
  <2>. QED  BY <1>2, <2>1, <2>6 DEF Due
<1>. QED  BY <1>1, <1>2

LEMMA AccidentsGrow ==
    ASSUME NEW w \in Writers, Rests(w) \/ Changes(w) \/ Saves(w)
    PROVE  accidents \subseteq accidents' /\ announced \subseteq announced'
BY DEF Rests, Changes, Saves, StartRequest, BeginBulk, Edit, Publish, CreateCourse, EndBody,
       StoreStructures, ReadRow, SendSignals, WriteMongo, DeleteMongo, MongoFails, DeleteCourse,
       EndRequest, Abort, Crash, SaveRow, InsertRow, HitIf, Hit, histories

\* What was told of the version that is readable stays told.
LEMMA ToldStays ==
    ASSUME MirrorInv, NEW w \in Writers, Others(w), Rests(w) \/ Changes(w) \/ Saves(w),
           accidents' = {}, row # NoIndex, NEW p, p = row.published, Told(p)
    PROVE  Told(p)'
<1>1. announced \subseteq announced'
  BY AccidentsGrow
<1>2. CASE p[1] = Origin \/ p \in announced
  BY <1>1, <1>2 DEF Told
<1>3. CASE ~(p[1] = Origin \/ p \in announced)
  <2>1. Due(p[1])
    BY <1>3 DEF Told
  <2>2. p \in Ids
    BY DEF MirrorInv, TypeInv, TypeOK, Index
  <2>3. p[1] \in Writers
    BY <1>3, <2>2 DEF Ids
  <2>4. CASE p[1] = w /\ SendSignals(w)
    <3>1. p \in announced'
      BY <2>1, <2>4 DEF SendSignals, Due
    <3>. QED  BY <3>1 DEF Told
  <2>5. CASE ~(p[1] = w /\ SendSignals(w))
    <3>. DEFINE u == p[1]
    <3>1. u \in Writers /\ Due(u) /\ ~(u = w /\ SendSignals(w))
      BY <2>1, <2>3, <2>5
    <3>. HIDE DEF u
    <3>2. Due(u)'
      BY <3>1, DueStays
    <3>3. pc'[u] \in {"mirror", "signals"} /\ rec'[u].flag /\ u = p[1]
      BY <3>2 DEF Due, u
    <3>. QED  BY <3>3 DEF Told, Due
  <2>. QED  BY <2>4, <2>5
<1>. QED  BY <1>2, <1>3

\* The part of the invariant that holds as long as there is no accident.
Announcing ==
    /\ row # NoIndex => Told(row.published)
    /\ pending.by # Origin => \/ row # NoIndex /\ pending.index.published = row.published
                              \/ Due(pending.by)

\* The transaction of another writer stays as it is, and so does its signal.
LEMMA PendingStays ==
    ASSUME MirrorInv, Announcing, NEW w \in Writers, Others(w),
           Rests(w) \/ Changes(w) \/ Saves(w), accidents' = {},
           UNCHANGED <<row, pending>>, ~(pending.by = w /\ SendSignals(w))
    PROVE  Announcing'
<1>. PICK p : p = row.published
  OBVIOUS
<1>. PICK u : u = pending.by
  OBVIOUS
<1>1. row # NoIndex => Told(p)'
  BY ToldStays DEF Announcing
<1>2. ASSUME u # Origin, Due(u) PROVE Due(u)'
  <2>1. u \in Writers /\ ~(u = w /\ SendSignals(w))
    BY <1>2, PendingHasOne, CourseIndexAssumption DEF MirrorInv, CourseIndexAssumption
  <2>. QED  BY <1>2, <2>1, DueStays
<1>3. row' # NoIndex => Told(row.published)'
  BY <1>1 DEF Told, Due
<1>4. u # Origin => (row # NoIndex /\ pending.index.published = row.published) \/ Due(u)'
  BY <1>2 DEF Announcing
<1>. QED  BY <1>3, <1>4 DEF Announcing, Due

LEMMA AnnounceRests ==
    ASSUME MirrorInv, Announcing, NEW w \in Writers, Others(w), Rests(w), accidents' = {}
    PROVE  Announcing'
<1>0. TypeInv /\ w # Origin
  BY CourseIndexAssumption DEF MirrorInv, CourseIndexAssumption
<1>1. CASE DeleteCourse(w)
  <2>1. w \notin Atomic /\ Unlocked(w) /\ WriteRow(w, NoIndex)
    BY <1>1 DEF DeleteCourse
  <2>2. pending' = NoPending /\ row' = NoIndex
    BY <1>0, <2>1, Written
  <2>. QED  BY <2>2 DEF Announcing, NoPending
<1>2. CASE EndRequest(w) /\ pending.by = w
  <2>1. row' = pending.index /\ pending'.by = Origin /\ pc[w] = "request"
    BY <1>2 DEF EndRequest, NoPending
  <2>2. row # NoIndex /\ pending.index.published = row.published /\ Told(row.published)
    BY <1>0, <1>2, <2>1 DEF Announcing, Due
  <2>. PICK p : p = row.published
    OBVIOUS
  <2>3. p = row'.published /\ Told(p)
    BY <2>1, <2>2
  <2>4. Told(p)'
    BY <2>2, <2>3, ToldStays
  <2>. QED  BY <2>1, <2>3, <2>4 DEF Announcing, Told, Due
<1>3. CASE ~DeleteCourse(w) /\ ~(EndRequest(w) /\ pending.by = w)
  <2>1. CASE EndRequest(w) \/ Abort(w) \/ Crash(w)
    <3>1. UNCHANGED <<row, pending>> /\ ~SendSignals(w)
      BY <1>3, <2>1 DEF EndRequest, Abort, Crash, HitIf, Hit, SendSignals
    <3>. QED  BY <3>1, PendingStays
  <2>2. CASE (SaveRow(w) \/ InsertRow(w)) /\ pc'[w] = "failed"
    <3>1. UNCHANGED <<row, pending>> /\ ~SendSignals(w)
      BY <1>0, <2>2 DEF SaveRow, InsertRow, Fail, Go, TypeInv, TypeOK, SendSignals
    <3>. QED  BY <3>1, PendingStays
  <2>3. CASE SendSignals(w)
    <3>1. UNCHANGED <<row, pending>> /\ ~(rec[w].flag /\ pending.by = w)
      BY <2>3 DEF SendSignals, dbVars, HitIf
    <3>2. CASE pending.by # w
      BY <3>1, <3>2, PendingStays
    <3>3. CASE pending.by = w
      <4>1. row # NoIndex /\ pending.index.published = row.published /\ Told(row.published)
        BY <1>0, <3>1, <3>3 DEF Announcing, Due
      <4>. PICK p : p = row.published
        OBVIOUS
      <4>2. p = row'.published /\ Told(p)
        BY <3>1, <4>1
      <4>3. Told(p)'
        BY <4>1, <4>2, ToldStays
      <4>. QED  BY <3>1, <4>1, <4>2, <4>3 DEF Announcing, Told, Due
    <3>. QED  BY <3>2, <3>3
  <2>4. CASE \/ StartRequest(w) \/ BeginBulk(w) \/ EndBody(w) \/ StoreStructures(w) \/ ReadRow(w)
             \/ WriteMongo(w) \/ DeleteMongo(w) \/ MongoFails(w)
    <3>1. UNCHANGED <<row, pending>> /\ ~SendSignals(w)
      BY <2>4 DEF StartRequest, BeginBulk, EndBody, StoreStructures, ReadRow, WriteMongo,
         DeleteMongo, MongoFails, SendSignals, dbVars, Hit
    <3>. QED  BY <3>1, PendingStays
  <2>. QED  BY <1>3, <2>1, <2>2, <2>3, <2>4 DEF Rests
<1>. QED  BY <1>1, <1>2, <1>3

LEMMA AnnounceChanges ==
    ASSUME MirrorInv, Announcing, NEW w \in Writers, Others(w), Changes(w), accidents' = {}
    PROVE  Announcing'
<1>1. UNCHANGED <<row, pending>> /\ ~SendSignals(w)
  BY DEF Changes, Edit, Publish, CreateCourse, dbVars, SendSignals
<1>. QED  BY <1>1, PendingStays

\* What a bulk operation saves was published by itself, or is what was readable.
LEMMA PublishedBySave ==
    ASSUME MirrorInv, VersionInv, Announcing, NEW w \in Writers, Others(w), Saves(w),
           accidents' = {}, NEW x, x = rec'[w].index
    PROVE  \/ PublishedIsDirty(rec[w]) /\ x.published[1] = w /\ Due(w)'
           \/ row # NoIndex /\ x.published = row.published
<1>0. /\ TypeInv /\ Directed(w) /\ Flagged(w) /\ Twins
      /\ pc'[w] = "mirror"
  BY DEF MirrorInv, VersionInv, Saves
<1>1. /\ rec[w].index # NoIndex
      /\ x.published = rec[w].index.published
      /\ rec'[w].flag = rec[w].flag
      /\ Preparing(w)
      /\ \/ /\ rec[w].initial # NoIndex
            /\ Visible(w) # NoIndex
            /\ Visible(w).last_update = rec[w].initial.last_update
         \/ rec[w].initial = NoIndex /\ Visible(w) = NoIndex
  BY <1>0, SavesWrite
<1>2. CASE PublishedIsDirty(rec[w])
  BY <1>0, <1>1, <1>2 DEF Flagged, PublishedIsDirty, Due
<1>3. CASE ~PublishedIsDirty(rec[w])
  <2>1. /\ rec[w].initial # NoIndex /\ x.published = rec[w].initial.published
        /\ Visible(w) # NoIndex
        /\ Visible(w).last_update = rec[w].initial.last_update
    BY <1>1, <1>3 DEF PublishedIsDirty
  <2>2. Visible(w) \in Seen /\ rec[w].initial \in Seen
    BY <1>0, <1>1, <2>1, ReadableIs DEF Seen
  <2>3. Visible(w).published = rec[w].initial.published
    BY <1>0, <2>1, <2>2 DEF Twins, SameAs
  <2>4. CASE pending.by = w
    <3>1. w # Origin /\ ~Due(w)
      BY <1>1, CourseIndexAssumption DEF CourseIndexAssumption, Due, Preparing
    <3>. QED  BY <2>1, <2>3, <2>4, <3>1 DEF Announcing, Visible
  <2>5. CASE pending.by # w
    BY <2>1, <2>3, <2>5 DEF Visible
  <2>. QED  BY <2>4, <2>5
<1>. QED  BY <1>2, <1>3

LEMMA AnnounceSaves ==
    ASSUME MirrorInv, VersionInv, Announcing, NEW w \in Writers, Others(w), Saves(w),
           accidents' = {}
    PROVE  Announcing'
<1>. DEFINE x == rec'[w].index
<1>0. TypeInv /\ Directed(w)
  BY DEF MirrorInv, VersionInv
<1>1. WriteRow(w, x) /\ Unlocked(w)
  BY <1>0, SavesWrite
<1>2. \/ x.published[1] = w /\ Due(w)'
      \/ row # NoIndex /\ x.published = row.published
  BY PublishedBySave
<1>. HIDE DEF x
<1>3. ASSUME row # NoIndex, NEW p, p = row.published
      PROVE  Told(p)'
  <2>1. Told(p)
    BY <1>3 DEF Announcing
  <2>. QED  BY <1>3, <2>1, ToldStays
<1>4. ASSUME NEW p, p = x.published
      PROVE  Told(p)'
  <2>1. CASE x.published[1] = w /\ Due(w)'
    <3>1. pc'[w] \in {"mirror", "signals"} /\ rec'[w].flag /\ p[1] = w
      BY <1>4, <2>1 DEF Due
    <3>. QED  BY <3>1 DEF Told, Due
  <2>2. CASE row # NoIndex /\ x.published = row.published
    BY <1>3, <1>4, <2>2
  <2>. QED  BY <1>2, <2>1, <2>2
<1>5. CASE w \in Atomic
  <2>1. pending'.by = w /\ pending'.index = x /\ row' = row
    BY <1>1, <1>5 DEF WriteRow
  <2>2. pending'.by # Origin => \/ row' # NoIndex /\ pending'.index.published = row'.published
                                \/ pc'[pending'.by] \in {"mirror", "signals"} /\ rec'[pending'.by].flag
    BY <1>2, <2>1 DEF Due
  <2>. PICK p : p = row.published
    OBVIOUS
  <2>3. row' # NoIndex => p = row'.published /\ Told(p)'
    BY <1>3, <2>1
  <2>. QED  BY <2>2, <2>3 DEF Announcing, Told, Due
<1>6. CASE w \notin Atomic
  <2>1. pending'.by = Origin /\ row' = x
    BY <1>0, <1>1, <1>6, Written
  <2>. PICK p : p = x.published
    OBVIOUS
  <2>2. p = row'.published /\ Told(p)'
    BY <1>4, <2>1
  <2>. QED  BY <2>1, <2>2 DEF Announcing, Told, Due
<1>. QED  BY <1>5, <1>6

LEMMA AnnounceNext == AnnounceInv /\ [Next]_vars => AnnounceInv'
<1>. SUFFICES ASSUME AnnounceInv, [Next]_vars PROVE AnnounceInv'
  OBVIOUS
<1>0. MirrorInv /\ VersionInv /\ TypeInv /\ (accidents = {} => Announcing)
  BY DEF AnnounceInv, Announcing, MirrorInv
<1>1. TypeInv' /\ MirrorInv'
  BY <1>0, TypeNext, MirrorNext
<1>2. VersionInv' /\ (accidents' = {} => Announcing')
  <2>1. CASE UNCHANGED vars
    BY <1>0, <1>1, <2>1, VersionStutters
    DEF vars, dbVars, histories, Announcing, Told, Due
  <2>2. CASE Next
    <3>1. PICK w \in Writers : (Rests(w) \/ Changes(w) \/ Saves(w)) /\ Others(w)
      BY <1>0, <2>2, StepsOfWriter DEF Next
    <3>2. VersionInv'
      BY <1>0, <1>1, <3>1, VersionNext DEF MirrorInv
    <3>3. accidents' = {} => accidents = {}
      BY <3>1, AccidentsGrow
    <3>4. ASSUME accidents' = {} PROVE Announcing'
      BY <1>0, <3>1, <3>3, <3>4, AnnounceRests, AnnounceChanges, AnnounceSaves
    <3>. QED  BY <3>2, <3>4
  <2>. QED  BY <2>1, <2>2
<1>. QED  BY <1>1, <1>2 DEF AnnounceInv, Announcing

\* If there is no accident, the published version that can be read was announced
\* after it could be read, or its writer is about to (send_bulk_published_signal
\* in _end_outermost_bulk_operation, after the index was written).
THEOREM PublicationsAnnounced == Spec => []PublishIsAnnounced
<1>1. AnnounceInv => PublishIsAnnounced
  BY DEF AnnounceInv, Told, PublishIsAnnounced
<1>. QED  BY <1>1, AnnounceInit, AnnounceNext, PTL DEF Spec
=============================================================================
