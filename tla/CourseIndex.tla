---------------------------- MODULE CourseIndex ----------------------------
(***************************************************************************)
(* The index of one course in the split modulestore, and the bulk          *)
(* operations that change it.  A course is a pair of pointers (its draft   *)
(* and its published branch) to immutable structures in MongoDB.  A bulk   *)
(* operation reads the index, works on copies, inserts the structures it   *)
(* made, and then moves the pointers: it saves the index in MySQL, which   *)
(* is where it is read, and after that in MongoDB.                         *)
(*                                                                         *)
(* Writers are the threads of Studio and its workers.  One in Atomic       *)
(* serves its request in a MySQL transaction (ATOMIC_REQUESTS); the others *)
(* (xblock_handler, celery tasks, commands) commit every statement.  Reads *)
(* see what is committed, and a row that is written stays locked until its *)
(* transaction ends.                                                       *)
(***************************************************************************)
EXTENDS Naturals, FiniteSets

CONSTANTS
    Writers,     \* the threads that work on the course
    Atomic,      \* those whose requests are transactions
    Origin,      \* who made the course as it is at first, no writer
    NoIndex,     \* the course is not there
    Unread,      \* a request cache that holds nothing (it may hold NoIndex)
    MaxBulks,    \* bound: bulk operations and deletions of each writer
    MaxMade,     \* bound: changes of each writer
    Faults       \* which of "crash" and "mongo" may happen

ASSUME CourseIndexAssumption ==
    /\ Atomic \subseteq Writers
    /\ Origin \notin Writers
    /\ MaxBulks \in [Writers -> Nat]
    /\ MaxMade \in Nat \ {0}
    /\ Faults \subseteq {"crash", "mongo"}

VARIABLES
    structures,  \* the ids of the structures stored in MongoDB
    blocks,      \* by id, what a structure holds: the changes made to it
    row,         \* the committed SplitModulestoreCourseIndex
    pending,     \* an uncommitted one, which locks the row
    mongo,       \* the index in MongoDB
    pc,          \* what each writer is doing
    cached,      \* its request cache of the index
    rec,         \* its SplitBulkWriteRecord
    made,        \* how many changes it has made
    bulks,       \* how many bulk operations it has begun
    announced,   \* history: published versions that were readable when
                 \* course_published was sent
    kept,        \* history: changes whose index was committed
    accidents    \* history: what has happened of AccidentKinds

dbVars == <<structures, row, pending, mongo>>
histories == <<announced, kept, accidents>>
vars == <<dbVars, blocks, pc, cached, rec, made, bulks, histories>>

-----------------------------------------------------------------------------
(* Ids, indexes and records                                                *)

\* ObjectIds are never reused: the nth thing a writer makes is its own.
Ids == (Writers \cup {Origin}) \X (0..MaxMade)

\* As as_v1_schema returns it.  last_update is a time, here the id of the
\* update: two updates of an index never carry the same.
Index == [_id : Ids, draft : Ids, published : Ids, last_update : Ids]

\* No index is an index; a cache that holds nothing says so.
ASSUME NoIndexAssumption == NoIndex \notin Index /\ Unread \notin Index \cup {NoIndex}

NoPending == [by |-> Origin, index |-> NoIndex]

\* SplitBulkWriteRecord; structures is what it has made.
NoRecord == [initial |-> NoIndex, index |-> NoIndex, news |-> {}, flag |-> FALSE]

\* Where a writer stands: without a request; in one; in a bulk operation;
\* about to insert its structures, to read the row it will save, to save it,
\* to insert a new one, to write to MongoDB, to send signals, to delete from
\* MongoDB; in a request that an exception has ended.
Stages == {"idle", "request", "bulk", "store", "check", "save", "insert",
           "mirror", "signals", "unmirror", "failed"}

\* What may happen to a course that a writer alone does not see:
\*   overlap    a save replaces an index other than the one it was compared with
\*   overtaken  an index is saved between the two writes of another
\*   undone     a transaction is rolled back after the write to MongoDB
\*   early      course_published is sent before the transaction commits
\*   crash      a writer dies
\*   mongo      a write to MongoDB raises
AccidentKinds == {"overlap", "overtaken", "undone", "early", "crash", "mongo"}

FirstIndex == [_id |-> <<Origin, 0>>, draft |-> <<Origin, 0>>,
               published |-> <<Origin, 1>>, last_update |-> <<Origin, 0>>]

Init ==
    /\ blocks = [i \in Ids |-> {}]
    /\ \/ /\ row = FirstIndex
          /\ structures = {FirstIndex.draft, FirstIndex.published}
       \/ /\ row = NoIndex
          /\ structures = {}
    /\ mongo = row
    /\ pending = NoPending
    /\ pc = [w \in Writers |-> "idle"]
    /\ cached = [w \in Writers |-> Unread]
    /\ rec = [w \in Writers |-> NoRecord]
    /\ made = [w \in Writers |-> 0]
    /\ bulks = [w \in Writers |-> 0]
    /\ announced = {}
    /\ kept = {}
    /\ accidents = {}

Go(w, stage) == pc' = [pc EXCEPT ![w] = stage]
Hit(kind) == accidents' = accidents \cup {kind}
HitIf(cond, kind) == accidents' = IF cond THEN accidents \cup {kind} ELSE accidents

\* What SplitModulestoreCourseIndex.objects.get finds for w.
Visible(w) == IF pending.by = w THEN pending.index ELSE row

\* No other transaction holds the row.
Unlocked(w) == pending.by \in {Origin, w}

NextId(w) == <<w, made[w] + 1>>

-----------------------------------------------------------------------------
(* Requests and the body of a bulk operation                               *)

\* The request cache is empty when a request or a task begins.
StartRequest(w) ==
    /\ pc[w] = "idle"
    /\ bulks[w] < MaxBulks[w]
    /\ Go(w, "request")
    /\ cached' = [cached EXCEPT ![w] = Unread]
    /\ UNCHANGED <<dbVars, blocks, rec, made, bulks, histories>>

\* _begin_bulk_operation with _start_outermost_bulk_operation.  structures and
\* has_publish_item stay in the record if an earlier end has raised.
BeginBulk(w) ==
    /\ pc[w] = "request"
    /\ bulks[w] < MaxBulks[w]
    /\ LET found == IF cached[w] = Unread THEN Visible(w) ELSE cached[w]
       IN  /\ cached' = [cached EXCEPT ![w] = found]
           /\ rec' = [rec EXCEPT ![w].initial = found, ![w].index = found]
    /\ bulks' = [bulks EXCEPT ![w] = @ + 1]
    /\ Go(w, "bulk")
    /\ UNCHANGED <<dbVars, blocks, made, histories>>

DraftIsDirty(r) == r.initial = NoIndex \/ r.index.draft # r.initial.draft
PublishedIsDirty(r) == r.initial = NoIndex \/ r.index.published # r.initial.published

\* A change of the draft: version_structure copies the structure, unless this
\* operation has done so already, update_structure and _update_head record it.
Edit(w) ==
    /\ pc[w] = "bulk"
    /\ rec[w].index # NoIndex
    /\ made[w] < MaxMade
    /\ LET r == rec[w]
           id == IF DraftIsDirty(r) THEN r.index.draft ELSE NextId(w)
       IN  /\ blocks' = [blocks EXCEPT ![id] = blocks[r.index.draft] \cup {NextId(w)}]
           /\ rec' = [rec EXCEPT ![w].index.draft = id, ![w].news = @ \cup {id}]
    /\ made' = [made EXCEPT ![w] = @ + 1]
    /\ UNCHANGED <<dbVars, pc, cached, bulks, histories>>

\* Mutant of Publish: the change is made to the published branch only.
PublishAhead(w) ==
    /\ pc[w] = "bulk"
    /\ rec[w].index # NoIndex
    /\ made[w] < MaxMade
    /\ LET r == rec[w]
           id == IF PublishedIsDirty(r) THEN r.index.published ELSE NextId(w)
       IN  /\ blocks' = [blocks EXCEPT ![id] = blocks[r.index.draft] \cup {NextId(w)}]
           /\ rec' = [rec EXCEPT ![w].index.published = id, ![w].news = @ \cup {id},
                                 ![w].flag = TRUE]
    /\ made' = [made EXCEPT ![w] = @ + 1]
    /\ UNCHANGED <<dbVars, pc, cached, bulks, histories>>

\* Mutant of Publish: the event is not flagged.
PublishQuietly(w) ==
    /\ pc[w] = "bulk"
    /\ rec[w].index # NoIndex
    /\ made[w] < MaxMade
    /\ LET r == rec[w]
           id == IF PublishedIsDirty(r) THEN r.index.published ELSE NextId(w)
       IN  /\ blocks' = [blocks EXCEPT ![id] = blocks[r.index.draft]]
           /\ rec' = [rec EXCEPT ![w].index.published = id, ![w].news = @ \cup {id}]
    /\ made' = [made EXCEPT ![w] = @ + 1]
    /\ UNCHANGED <<dbVars, pc, cached, bulks, histories>>

\* publish: copy to the published branch, _update_head and _flag_publish_event.
Publish(w) ==
    /\ pc[w] = "bulk"
    /\ rec[w].index # NoIndex
    /\ made[w] < MaxMade
    /\ LET r == rec[w]
           id == IF PublishedIsDirty(r) THEN r.index.published ELSE NextId(w)
       IN  /\ blocks' = [blocks EXCEPT ![id] = blocks[r.index.draft]]
           /\ rec' = [rec EXCEPT ![w].index.published = id, ![w].news = @ \cup {id},
                                 ![w].flag = TRUE]
    /\ made' = [made EXCEPT ![w] = @ + 1]
    /\ UNCHANGED <<dbVars, pc, cached, bulks, histories>>

\* create_course: a draft structure, the index in the record, and the root
\* published by _auto_publish_no_children.
CreateCourse(w) ==
    /\ pc[w] = "bulk"
    /\ rec[w].index = NoIndex
    /\ made[w] + 2 <= MaxMade
    /\ LET d == NextId(w)
           p == <<w, made[w] + 2>>
       IN  /\ blocks' = [blocks EXCEPT ![d] = {d}, ![p] = {d}]
           /\ rec' = [rec EXCEPT ![w].index = [_id |-> d, draft |-> d, published |-> p,
                                               last_update |-> d],
                                 ![w].news = @ \cup {d, p}, ![w].flag = TRUE]
    /\ made' = [made EXCEPT ![w] = @ + 2]
    /\ UNCHANGED <<dbVars, pc, cached, bulks, histories>>

\* The body returns or raises: bulk_operations ends the operation in a finally
\* clause either way.
EndBody(w) ==
    /\ pc[w] = "bulk"
    /\ Go(w, "store")
    /\ UNCHANGED <<dbVars, blocks, cached, rec, made, bulks, histories>>

-----------------------------------------------------------------------------
(* The end of the outermost bulk operation                                 *)

\* The record is cleared when the end has run to its end.
Finish(w) ==
    /\ Go(w, "request")
    /\ rec' = [rec EXCEPT ![w] = NoRecord]

\* An exception: the record stays as it is, the request is over.
Fail(w) ==
    /\ Go(w, "failed")
    /\ UNCHANGED rec

\* Mutant of StoreStructures: only the draft's structure is inserted.
StoreDraftOnly(w) ==
    /\ pc[w] = "store"
    /\ LET r == rec[w] IN
       /\ structures' = IF r.index = NoIndex THEN structures
                        ELSE structures \cup (r.news \cap {r.index.draft})
       /\ \/ /\ r.index # r.initial
             /\ Go(w, IF r.initial = NoIndex THEN "insert" ELSE "check")
             /\ UNCHANGED rec
          \/ /\ r.index = r.initial
             /\ Finish(w)
    /\ UNCHANGED <<row, pending, mongo, blocks, cached, made, bulks, histories>>

\* insert_structure of everything new (a structure that is there already is
\* fine), then the choice of _end_outermost_bulk_operation.  If nothing is
\* dirty no signal is sent.
StoreStructures(w) ==
    /\ pc[w] = "store"
    /\ structures' = structures \cup rec[w].news
    /\ LET r == rec[w] IN
       \/ /\ r.index # r.initial
          /\ Go(w, IF r.initial = NoIndex THEN "insert" ELSE "check")
          /\ UNCHANGED rec
       \/ /\ r.index = r.initial
          /\ r.news # {}
          /\ Go(w, "signals")
          /\ UNCHANGED rec
       \/ /\ r.index = r.initial
          /\ r.news = {}
          /\ Finish(w)
    /\ UNCHANGED <<row, pending, mongo, blocks, cached, made, bulks, histories>>

\* Mutant of Stamped: the time of the last update stays.
StampedAsBefore(w) == rec[w].index

\* The time of the update, set before the row is read.
Stamped(w) == [rec[w].index EXCEPT !.last_update = <<w, made[w]>>]

\* update_course_index: clear the request cache, read the row by its objectid
\* (which raises if it is gone) and compare its last_update.  A collision is
\* logged; the operation goes on as if the index had been written.
ReadRow(w) ==
    /\ pc[w] = "check"
    /\ cached' = [cached EXCEPT ![w] = Unread]
    /\ LET seen == Visible(w)
           there == seen # NoIndex /\ seen._id = rec[w].index._id
       IN  \/ /\ ~there
              /\ Fail(w)
           \/ /\ there
              /\ seen.last_update # rec[w].initial.last_update
              /\ Go(w, "signals")
              /\ UNCHANGED rec
           \/ /\ there
              /\ seen.last_update = rec[w].initial.last_update
              /\ Go(w, "save")
              /\ rec' = [rec EXCEPT ![w].index = Stamped(w)]
    /\ UNCHANGED <<dbVars, blocks, made, bulks, histories>>

\* A statement of w changes the row: for all to see, or in its transaction.
WriteRow(w, index) ==
    IF w \in Atomic
    THEN /\ pending' = [by |-> w, index |-> index]
         /\ UNCHANGED <<row, kept>>
    ELSE /\ row' = index
         /\ kept' = IF index = NoIndex THEN {} ELSE kept \cup blocks[index.draft]
         /\ UNCHANGED pending

\* index_obj.save(): an UPDATE by primary key, which waits for the row's lock,
\* and an INSERT if the row is gone; the course_id is unique.
SaveRow(w) ==
    /\ pc[w] = "save"
    /\ Unlocked(w)
    /\ LET there == Visible(w)
           free == there # NoIndex => there._id = rec[w].index._id
       IN  \/ /\ free
              /\ WriteRow(w, rec[w].index)
              /\ accidents' = accidents
                    \cup (IF there = NoIndex \/ there.last_update # rec[w].initial.last_update
                          THEN {"overlap"} ELSE {})
                    \cup (IF \E v \in Writers \ {w} : pc[v] \in {"mirror", "unmirror"}
                          THEN {"overtaken"} ELSE {})
              /\ Go(w, "mirror")
           \/ /\ ~free
              /\ Go(w, "failed")
              /\ UNCHANGED <<row, pending, kept, accidents>>
    /\ UNCHANGED <<structures, mongo, blocks, cached, rec, made, bulks, announced>>

\* insert_course_index: clear the request cache, then an INSERT, which raises
\* if the course is there.
InsertRow(w) ==
    /\ pc[w] = "insert"
    /\ Unlocked(w)
    /\ cached' = [cached EXCEPT ![w] = Unread]
    /\ \/ /\ Visible(w) = NoIndex
          /\ WriteRow(w, Stamped(w))
          /\ rec' = [rec EXCEPT ![w].index = Stamped(w)]
          /\ HitIf(\E v \in Writers \ {w} : pc[v] \in {"mirror", "unmirror"}, "overtaken")
          /\ Go(w, "mirror")
       \/ /\ Visible(w) # NoIndex
          /\ Fail(w)
          /\ UNCHANGED <<row, pending, kept, accidents>>
    /\ UNCHANGED <<structures, mongo, blocks, made, bulks, announced>>

\* Mutant of WriteMongo: only new indexes are written.
WriteMongoNew(w) ==
    /\ pc[w] = "mirror"
    /\ LET r == rec[w] IN
       \/ /\ r.initial # NoIndex \/ mongo = NoIndex
          /\ mongo' = IF mongo = NoIndex THEN r.index ELSE mongo
          /\ Go(w, "signals")
       \/ /\ r.initial = NoIndex
          /\ mongo # NoIndex
          /\ Go(w, "failed")
          /\ UNCHANGED mongo
    /\ UNCHANGED <<structures, row, pending, blocks, cached, rec, made, bulks, histories>>

\* The write to MongoDB: replace_one by _id, which finds nothing if another
\* index is there, or insert_one, which raises then.
WriteMongo(w) ==
    /\ pc[w] = "mirror"
    /\ LET r == rec[w] IN
       \/ /\ r.initial # NoIndex
          /\ mongo' = IF mongo # NoIndex /\ mongo._id = r.index._id THEN r.index ELSE mongo
          /\ Go(w, "signals")
       \/ /\ r.initial = NoIndex
          /\ mongo = NoIndex
          /\ mongo' = r.index
          /\ Go(w, "signals")
       \/ /\ r.initial = NoIndex
          /\ mongo # NoIndex
          /\ Go(w, "failed")
          /\ UNCHANGED mongo
    /\ UNCHANGED <<structures, row, pending, blocks, cached, rec, made, bulks, histories>>

MongoFails(w) ==
    /\ "mongo" \in Faults
    /\ pc[w] \in {"mirror", "unmirror"}
    /\ Go(w, "failed")
    /\ Hit("mongo")
    /\ UNCHANGED <<dbVars, blocks, cached, rec, made, bulks, announced, kept>>

\* send_bulk_published_signal if something was published; the record is
\* cleared.
SendSignals(w) ==
    /\ pc[w] = "signals"
    /\ announced' = IF rec[w].flag /\ row # NoIndex THEN announced \cup {row.published}
                                                    ELSE announced
    /\ HitIf(rec[w].flag /\ pending.by = w, "early")
    /\ Finish(w)
    /\ UNCHANGED <<dbVars, blocks, cached, made, bulks, kept>>

-----------------------------------------------------------------------------
(* Deletion, ends of requests and crashes                                  *)

\* delete_course_index, by the delete_course command: the row, then MongoDB.
DeleteCourse(w) ==
    /\ pc[w] = "request"
    /\ w \notin Atomic
    /\ bulks[w] < MaxBulks[w]
    /\ Unlocked(w)
    /\ cached' = [cached EXCEPT ![w] = Unread]
    /\ WriteRow(w, NoIndex)
    /\ HitIf(\E v \in Writers \ {w} : pc[v] \in {"mirror", "unmirror"}, "overtaken")
    /\ bulks' = [bulks EXCEPT ![w] = @ + 1]
    /\ Go(w, "unmirror")
    /\ UNCHANGED <<structures, mongo, blocks, rec, made, announced>>

DeleteMongo(w) ==
    /\ pc[w] = "unmirror"
    /\ mongo' = NoIndex
    /\ Go(w, "request")
    /\ UNCHANGED <<structures, row, pending, blocks, cached, rec, made, bulks, histories>>

\* The request or task is over; a transaction commits.
EndRequest(w) ==
    /\ pc[w] = "request"
    /\ IF pending.by = w
       THEN /\ row' = pending.index
            /\ pending' = NoPending
            /\ kept' = kept \cup blocks[pending.index.draft]
       ELSE UNCHANGED <<row, pending, kept>>
    /\ Go(w, "idle")
    /\ UNCHANGED <<structures, mongo, blocks, cached, rec, made, bulks, announced, accidents>>

\* An exception, of the end of a bulk operation or of what else a request does,
\* leaves the request: its transaction is rolled back, MongoDB keeps what it has.
Abort(w) ==
    /\ pc[w] \in {"request", "failed"}
    /\ pending' = IF pending.by = w THEN NoPending ELSE pending
    /\ HitIf(pending.by = w, "undone")
    /\ Go(w, "idle")
    /\ UNCHANGED <<structures, row, mongo, blocks, cached, rec, made, bulks, announced, kept>>

\* The process dies and is started again, without its memory.
Crash(w) ==
    /\ "crash" \in Faults
    /\ pc[w] # "idle"
    /\ pending' = IF pending.by = w THEN NoPending ELSE pending
    /\ rec' = [rec EXCEPT ![w] = NoRecord]
    /\ Hit("crash")
    /\ Go(w, "idle")
    /\ UNCHANGED <<structures, row, mongo, blocks, cached, made, bulks, announced, kept>>

Work(w) ==
    \/ EndBody(w) \/ StoreStructures(w) \/ ReadRow(w) \/ SaveRow(w) \/ InsertRow(w)
    \/ WriteMongo(w) \/ SendSignals(w) \/ DeleteMongo(w) \/ EndRequest(w) \/ Abort(w)

Next == \E w \in Writers :
    \/ StartRequest(w) \/ BeginBulk(w) \/ Edit(w) \/ Publish(w) \/ CreateCourse(w)
    \/ DeleteCourse(w) \/ MongoFails(w) \/ Crash(w) \/ Work(w)

Spec == Init /\ [][Next]_vars

-----------------------------------------------------------------------------
(* Properties                                                              *)

Cached == Index \cup {NoIndex, Unread}

\* The variables have their types.
TypeOK ==
    /\ structures \subseteq Ids
    /\ blocks \in [Ids -> SUBSET Ids]
    /\ row \in Index \cup {NoIndex}
    /\ pending \in [by : Atomic, index : Index] \cup {NoPending}
    /\ mongo \in Index \cup {NoIndex}
    /\ pc \in [Writers -> Stages]
    /\ cached \in [Writers -> Cached]
    /\ rec \in [Writers -> [initial : Index \cup {NoIndex}, index : Index \cup {NoIndex},
                            news : SUBSET Ids, flag : BOOLEAN]]
    /\ made \in [Writers -> 0..MaxMade]
    /\ bulks \in [Writers -> Nat]
    /\ announced \subseteq Ids
    /\ kept \subseteq Ids
    /\ accidents \subseteq AccidentKinds

Pointers(index) == IF index = NoIndex THEN {} ELSE {index.draft, index.published}

\* Neither database nor an open transaction ever points to a structure that is
\* not stored, whatever fails or dies (_end_outermost_bulk_operation inserts the
\* structures before it writes the index).
PointersAreStored ==
    Pointers(row) \cup Pointers(pending.index) \cup Pointers(mongo) \subseteq structures

\* Of two bulk operations that began from the same index one is discarded: a
\* change that was committed stays in the draft, unless an index was saved over
\* one that had been committed after the comparison of update_course_index.
NothingLost ==
    "overlap" \notin accidents /\ row # NoIndex => kept \subseteq blocks[row.draft]

\* What learners see has been through the draft: the published structure holds
\* no change that the draft of the same index lacks (copy; the two pointers are
\* read and saved together).
PublishedWasDraft ==
    \A index \in {row, mongo} \ {NoIndex} : blocks[index.published] \subseteq blocks[index.draft]

AtRest ==
    /\ pending = NoPending
    /\ \A w \in Writers : pc[w] \notin {"mirror", "unmirror"}

\* The index in MongoDB, which the pruning of structures goes by, is the one in
\* MySQL when nobody is writing and none of the accidents has happened.
MirrorAgrees == AtRest /\ accidents = {} => mongo = row

\* w is about to send the signal.
Due(w) == pc[w] \in {"mirror", "signals"} /\ rec[w].flag

\* A version that was published is announced by course_published after it can be
\* read, so that whoever acts on the signal finds it.  Not so after any of the
\* accidents: a transaction sends the signal early (xblock_handler is not atomic
\* because of that), and a save that overlaps can bring back a version that was
\* replaced before its signal was sent.
PublishIsAnnounced ==
    accidents = {} /\ row # NoIndex =>
        \/ row.published[1] = Origin
        \/ row.published \in announced
        \/ Due(row.published[1])
=============================================================================
