----------------------- MODULE BlockStructuresProofs -----------------------
(***************************************************************************)
(* A proof that learners get the version that is published when everything *)
(* has settled, unless an accident in the modulestore or workers that      *)
(* crossed have left an older one, or a task has given it up.  It rests on *)
(* the invariants of the index: a writer that saves a new version goes on  *)
(* to announce it, and nobody has seen the version that a writer has still *)
(* to save.                                                                *)
(***************************************************************************)
EXTENDS BlockStructures, CourseIndexProofs, FiniteSetTheorems

WorkerRecord == [at : Phases, want : Versions, seen : Versions, task : BOOLEAN]

\* The versions that somebody knows: the one that is published and those of the
\* model and the workers.
Marks ==
    {model} \cup {worker[k].want : k \in Workers} \cup {worker[k].seen : k \in Workers}
            \cup (IF row = NoIndex THEN {} ELSE {row.published})

\* What is known has been made.
Numbers == \A w \in Writers, n \in 0..MaxMade : <<w, n>> \in Marks => n <= made[w]

\* w has published a version and has still to save it.
NewVersion(w) == Preparing(w) /\ rec[w].index # NoIndex /\ PublishedIsDirty(rec[w])

\* Nobody knows it.
Novel == \A w \in Writers : NewVersion(w) => rec[w].index.published \notin Marks

\* A worker that is going to store an older version will cross another, if the
\* newest is stored.
Aged(k) ==
    worker[k].at \in {"compare", "collect"} /\ worker[k].want # row.published =>
        worker[k].seen # row.published

\* k will see to it that the version is stored, and set the key.
Heading(k) ==
    worker[k].task /\ worker[k].at \in {"compare", "collect"} /\ worker[k].want = row.published

Coming == tasks > 0 \/ (\E w \in Writers : Due(w)) \/ (\E k \in Workers : Heading(k))

\* k will set the key to it, if the model has it.
Setting(k) ==
    worker[k].task /\ worker[k].at \in {"cache", "read", "set"} /\ worker[k].want = row.published

ModelComes == model = row.published \/ Coming
KeyComes == versionKey = row.published \/ Coming \/ \E k \in Workers : Setting(k)

\* No task has given up the version, and no two workers have crossed.
Kept == ~crossed /\ row.published \notin abandoned

Serving ==
    row # NoIndex => /\ \A k \in Workers : Aged(k)
                     /\ Kept => ModelComes /\ KeyComes

\* The inductive invariant for ServedIsCurrent.
ServeInv ==
    /\ DraftInv
    /\ AnnounceInv
    /\ TypeOKAll
    /\ Numbers
    /\ accidents = {} => Novel /\ Serving

LEMMA NoVersionIsNoId == NoVersion \notin Ids /\ \A w \in Writers, n \in 0..MaxMade : <<w, n>> # NoVersion
BY BlockStructuresAssumption, IdsOfWriter DEF BlockStructuresAssumption

LEMMA PublishedIsId ==
    ASSUME TypeOK
    PROVE  /\ row # NoIndex => row.published \in Ids
           /\ \A w \in Writers : rec[w].index # NoIndex => rec[w].index.published \in Ids
BY DEF TypeOK, Index

LEMMA ServeInit == InitAll => ServeInv
<1>. SUFFICES ASSUME InitAll PROVE ServeInv
  OBVIOUS
<1>1. Init /\ row # NoIndex
  BY DEF InitAll
<1>2. DraftInv /\ AnnounceInv /\ TypeOK
  BY <1>1, DraftInit, AnnounceInit DEF DraftInv, TypeInv
<1>3. row.published = <<Origin, 1>> /\ row.published \in Ids
  BY <1>1, <1>2, PublishedIsId DEF Init, FirstIndex
<1>4. TypeOKAll
  <2>1. Idle \in WorkerRecord
    BY DEF Idle, WorkerRecord, Phases, Versions
  <2>2. worker \in [Workers -> WorkerRecord]
    BY <2>1 DEF InitAll
  <2>3. tasks \in Nat /\ reads \in 0..MaxReads /\ crossed \in BOOLEAN
    <3>1. tasks = 0 /\ reads = 0 /\ crossed = FALSE
      BY DEF InitAll
    <3>2. tasks \in Nat /\ reads \in 0..MaxReads
      BY <3>1, BlockStructuresAssumption DEF BlockStructuresAssumption
    <3>. QED  BY <3>1, <3>2
  <2>4. {model, versionKey} \cup stored \subseteq Versions /\ abandoned \subseteq Versions
    BY <1>3 DEF InitAll, Versions
  <2>. QED  BY <1>2, <2>2, <2>3, <2>4 DEF TypeOKAll, WorkerRecord
<1>5. Marks \subseteq {<<Origin, 1>>, NoVersion}
  BY <1>1, <1>3 DEF InitAll, Marks, Idle
<1>6. Numbers
  BY <1>5, NoVersionIsNoId, CourseIndexAssumption DEF Numbers, CourseIndexAssumption
<1>7. Novel
  BY <1>1 DEF Init, Novel, NewVersion, Preparing
<1>8. Serving
  BY DEF InitAll, Serving, Aged, Idle, ModelComes, KeyComes
<1>. QED  BY <1>2, <1>4, <1>6, <1>7, <1>8 DEF ServeInv

-----------------------------------------------------------------------------
(* Steps of the workers                                                    *)

\* The versions that are known after a step that makes none.
LEMMA NothingNew ==
    ASSUME ServeInv, UNCHANGED vars,
           model' \in Marks \cup {NoVersion},
           \A k \in Workers : /\ worker'[k].want \in Marks \cup {NoVersion}
                              /\ worker'[k].seen \in Marks \cup {NoVersion}
    PROVE  Numbers' /\ (accidents' = {} => Novel')
<1>1. Marks' \subseteq Marks \cup {NoVersion}
  BY DEF Marks, vars, dbVars
<1>2. Numbers'
  BY <1>1, NoVersionIsNoId DEF ServeInv, Numbers, vars
<1>3. ASSUME accidents' = {} PROVE Novel'
  <2>1. Novel /\ TypeOK
    BY <1>3 DEF ServeInv, vars, histories, TypeOKAll
  <2>2. ASSUME NEW w \in Writers, NewVersion(w)'
        PROVE  rec[w].index.published \notin Marks'
    <3>1. NewVersion(w)
      BY <2>2 DEF NewVersion, Preparing, vars
    <3>. QED  BY <1>1, <2>1, <3>1, PublishedIsId, NoVersionIsNoId DEF Novel, NewVersion
  <2>. QED  BY <2>2 DEF Novel, vars
<1>. QED  BY <1>2, <1>3

\* The modulestore stays as it is while a worker moves.
LEMMA StoreStays ==
    ASSUME ServeInv, UNCHANGED vars
    PROVE  DraftInv' /\ AnnounceInv'
<1>1. [Next]_vars
  OBVIOUS
<1>. QED  BY <1>1, DraftNext, AnnounceNext DEF ServeInv

\* The steps of a worker, and what they change of its record.
Steps(k) == Collect(k) \/ ReadMissing(k) \/ Trouble(k)

LEMMA WorkerTypes ==
    ASSUME ServeInv
    PROVE  /\ worker \in [Workers -> WorkerRecord]
           /\ model \in Versions /\ versionKey \in Versions
           /\ row # NoIndex => row.published \in Versions
           /\ tasks \in Nat
BY PublishedIsId DEF ServeInv, TypeOKAll, WorkerRecord, Versions

LEMMA WorkerOnly ==
    ASSUME ServeInv, NEW k \in Workers, Steps(k)
    PROVE  /\ UNCHANGED vars
           /\ worker' \in [Workers -> WorkerRecord]
           /\ \A j \in Workers \ {k} : worker'[j] = worker[j]
           /\ crossed => crossed'
           /\ abandoned \subseteq abandoned'
<1>1. worker \in [Workers -> WorkerRecord] /\ model \in Versions
  BY WorkerTypes
<1>2. UNCHANGED vars /\ (crossed => crossed') /\ abandoned \subseteq abandoned'
  <2>1. CASE SaveModel(k)
    BY <2>1 DEF SaveModel
  <2>2. CASE SetVersionKey(k)
    BY <2>2 DEF SetVersionKey
  <2>3. CASE TakeTask(k) \/ Compare(k) \/ AddToCache(k) \/ ReadModel(k)
    BY <2>3 DEF TakeTask, Compare, AddToCache, ReadModel
  <2>4. CASE ReadMissing(k) \/ Trouble(k)
    BY <2>4 DEF ReadMissing, Trouble, Raises, Retry, GiveUp, ReadFails
  <2>. QED  BY <2>1, <2>2, <2>3, <2>4 DEF Steps, Collect
<1>3. {"compare", "collect", "cache", "read", "set", "idle"} \subseteq Phases
  BY DEF Phases
<1>4. Idle \in WorkerRecord
  BY DEF Idle, WorkerRecord, Phases, Versions
<1>5. row # NoIndex =>
         /\ [at |-> "compare", want |-> row.published, seen |-> model, task |-> TRUE] \in WorkerRecord
         /\ [at |-> "collect", want |-> row.published, seen |-> model, task |-> FALSE] \in WorkerRecord
  BY <1>1, <1>3, WorkerTypes DEF WorkerRecord
<1>. DEFINE Good == /\ worker' \in [Workers -> WorkerRecord]
                    /\ \A j \in Workers \ {k} : worker'[j] = worker[j]
<1>6. ASSUME NEW r \in WorkerRecord, worker' = [worker EXCEPT ![k] = r]
      PROVE  Good
  BY <1>1, <1>6
<1>7. ASSUME TakeTask(k) \/ ReadMissing(k) PROVE Good
  <2>1. CASE worker' = worker
    BY <1>1, <2>1
  <2>2. CASE worker' # worker
    BY <1>5, <1>6, <1>7, <2>2 DEF TakeTask, ReadMissing
  <2>. QED  BY <2>1, <2>2
<1>8. ASSUME NEW phase \in Phases, worker' = [worker EXCEPT ![k].at = phase]
      PROVE  Good
  <2>1. [worker[k] EXCEPT !.at = phase] \in WorkerRecord
    BY <1>1 DEF WorkerRecord
  <2>. QED  BY <1>6, <1>8, <2>1
<1>9. ASSUME Compare(k) \/ SaveModel(k) PROVE Good
  <2>1. \E phase \in Phases : worker' = [worker EXCEPT ![k].at = phase]
    BY <1>3, <1>9 DEF Compare, SaveModel, Goes
  <2>. QED  BY <1>8, <2>1
<1>10. ASSUME AddToCache(k) \/ SetVersionKey(k) \/ Trouble(k) PROVE Good
  <2>1. \/ worker' = [worker EXCEPT ![k] = Idle]
        \/ worker' = [worker EXCEPT ![k].at = "read"]
    BY <1>10 DEF AddToCache, SetVersionKey, Trouble, Raises, Retry, GiveUp, ReadFails
  <2>. QED  BY <1>3, <1>4, <1>6, <1>8, <2>1
<1>11. ASSUME ReadModel(k) PROVE Good
  <2>1. worker' = [worker EXCEPT ![k].want = model, ![k].at = "set"]
    BY <1>11 DEF ReadModel
  <2>2. worker' = [worker EXCEPT ![k] = [worker[k] EXCEPT !.want = model, !.at = "set"]]
    BY <1>1, <2>1
  <2>3. [worker[k] EXCEPT !.want = model, !.at = "set"] \in WorkerRecord
    BY <1>1, <1>3 DEF WorkerRecord
  <2>. QED  BY <1>6, <2>2, <2>3
<1>12. Good
  BY <1>7, <1>9, <1>10, <1>11 DEF Steps, Collect
<1>. QED  BY <1>2, <1>12

\* What another worker or a writer will do is not disturbed by a step of k.
LEMMA ComingStays ==
    ASSUME ServeInv, NEW k \in Workers, Steps(k), Coming,
           tasks > 0 \/ Heading(k) => tasks' > 0 \/ Heading(k)'
    PROVE  Coming'
<1>1. UNCHANGED vars /\ \A j \in Workers \ {k} : worker'[j] = worker[j]
  BY WorkerOnly
<1>2. \A j \in Workers \ {k} : Heading(j)' <=> Heading(j)
  BY <1>1 DEF Heading, vars, dbVars
<1>3. \A w \in Writers : Due(w)' <=> Due(w)
  BY <1>1 DEF Due, vars
<1>. QED  BY <1>2, <1>3 DEF Coming

LEMMA SettingStays ==
    ASSUME ServeInv, NEW k \in Workers, Steps(k), NEW j \in Workers \ {k}, Setting(j)
    PROVE  Setting(j)'
BY WorkerOnly DEF Setting, vars, dbVars

\* A worker that starts takes what is published.
LEMMA StartServes ==
    ASSUME ServeInv, row # NoIndex, NEW k \in Workers, TakeTask(k) \/ ReadMissing(k)
    PROVE  Aged(k)' /\ (Kept' /\ ModelComes /\ KeyComes => ModelComes' /\ KeyComes')
<1>1. UNCHANGED vars /\ Steps(k) /\ worker \in [Workers -> WorkerRecord]
  BY WorkerOnly, WorkerTypes DEF Steps, Collect
<1>2. /\ UNCHANGED <<row, model, versionKey>> /\ worker[k].at = "idle"
      /\ worker'[k].want = row.published
  BY <1>1 DEF TakeTask, ReadMissing, vars, dbVars
<1>3. Aged(k)'
  BY <1>2 DEF Aged
<1>4. TakeTask(k) => Heading(k)'
  BY <1>1, <1>2 DEF TakeTask, Heading
<1>5. ReadMissing(k) => tasks' = tasks
  BY DEF ReadMissing
<1>6. Coming => Coming'
  BY <1>1, <1>2, <1>4, <1>5, ComingStays DEF Heading
<1>7. \A j \in Workers : Setting(j) => Setting(j)'
  BY <1>1, <1>2, SettingStays DEF Setting
<1>. QED  BY <1>2, <1>3, <1>6, <1>7 DEF ModelComes, KeyComes

LEMMA CompareServes ==
    ASSUME ServeInv, row # NoIndex, NEW k \in Workers, Compare(k), Aged(k)
    PROVE  Aged(k)' /\ (Kept' /\ ModelComes /\ KeyComes => ModelComes' /\ KeyComes')
<1>1. UNCHANGED vars /\ Steps(k) /\ worker \in [Workers -> WorkerRecord]
  BY WorkerOnly, WorkerTypes DEF Steps, Collect
<1>2. /\ UNCHANGED <<row, tasks, model, versionKey>> /\ worker[k].at = "compare"
      /\ worker'[k] = [worker[k] EXCEPT !.at = IF model = worker[k].want THEN "read" ELSE "collect"]
  BY <1>1 DEF Compare, Goes, vars, dbVars
<1>3. /\ worker'[k].want = worker[k].want /\ worker'[k].seen = worker[k].seen
      /\ worker'[k].task = worker[k].task
      /\ worker'[k].at = IF model = worker[k].want THEN "read" ELSE "collect"
  BY <1>1, <1>2 DEF WorkerRecord
<1>4. Aged(k)'
  BY <1>2, <1>3 DEF Aged
<1>5. \A j \in Workers : Setting(j) => Setting(j)'
  BY <1>1, <1>2, SettingStays DEF Setting
<1>6. CASE Heading(k) /\ model = worker[k].want
  <2>1. model' = row'.published /\ Setting(k)'
    BY <1>2, <1>3, <1>6 DEF Heading, Setting
  <2>. QED  BY <1>4, <2>1 DEF ModelComes, KeyComes
<1>7. CASE ~(Heading(k) /\ model = worker[k].want)
  <2>1. Heading(k) => Heading(k)'
    BY <1>2, <1>3, <1>7 DEF Heading
  <2>2. Coming => Coming'
    BY <1>1, <1>2, <2>1, ComingStays
  <2>. QED  BY <1>2, <1>4, <1>5, <2>2 DEF ModelComes, KeyComes
<1>. QED  BY <1>6, <1>7

\* A worker that saves an older version has crossed another, unless a newer one
\* is still to come.
LEMMA SaveServes ==
    ASSUME ServeInv, row # NoIndex, NEW k \in Workers, SaveModel(k), Aged(k)
    PROVE  Aged(k)' /\ (Kept' /\ ModelComes /\ KeyComes => ModelComes' /\ KeyComes')
<1>1. UNCHANGED vars /\ Steps(k) /\ worker \in [Workers -> WorkerRecord]
  BY WorkerOnly, WorkerTypes DEF Steps, Collect
<1>2. /\ UNCHANGED <<row, tasks, versionKey>> /\ worker[k].at = "collect"
      /\ worker'[k] = [worker[k] EXCEPT !.at = "cache"] /\ model' = worker[k].want
  BY <1>1 DEF SaveModel, Goes, vars, dbVars
<1>3. worker'[k].at = "cache" /\ worker'[k].task = worker[k].task
  BY <1>1, <1>2 DEF WorkerRecord
<1>4. Aged(k)'
  BY <1>3 DEF Aged
<1>5. \A j \in Workers : Setting(j) => Setting(j)'
  BY <1>1, <1>2, SettingStays DEF Setting
<1>6. CASE Heading(k)
  <2>1. model' = row'.published /\ Setting(k)'
    BY <1>2, <1>3, <1>6 DEF Heading, Setting
  <2>. QED  BY <1>4, <2>1 DEF ModelComes, KeyComes
<1>7. CASE ~Heading(k)
  <2>1. Coming => Coming'
    BY <1>1, <1>2, <1>7, ComingStays
  <2>2. CASE worker[k].want = row.published
    BY <1>2, <1>4, <1>5, <2>1, <2>2 DEF ModelComes, KeyComes
  <2>3. ASSUME worker[k].want # row.published, Kept', ModelComes
        PROVE  Coming
    BY <1>2, <2>3 DEF SaveModel, Aged, ModelComes, Kept
  <2>. QED  BY <1>4, <2>1, <2>2, <2>3 DEF ModelComes, KeyComes
<1>. QED  BY <1>6, <1>7

LEMMA CacheServes ==
    ASSUME ServeInv, row # NoIndex, NEW k \in Workers, AddToCache(k)
    PROVE  Aged(k)' /\ (Kept' /\ ModelComes /\ KeyComes => ModelComes' /\ KeyComes')
<1>1. UNCHANGED vars /\ Steps(k) /\ worker \in [Workers -> WorkerRecord]
  BY WorkerOnly, WorkerTypes DEF Steps, Collect
<1>2. /\ UNCHANGED <<row, model, versionKey, tasks>> /\ worker[k].at = "cache"
      /\ worker'[k] = IF worker[k].task THEN [worker[k] EXCEPT !.at = "read"] ELSE Idle
  BY <1>1 DEF AddToCache, vars, dbVars
<1>3. /\ Aged(k)' /\ ~Heading(k)
      /\ Setting(k) => Setting(k)'
  BY <1>1, <1>2 DEF Aged, Heading, Setting, WorkerRecord, Idle
<1>4. Coming => Coming'
  BY <1>1, <1>2, <1>3, ComingStays
<1>5. \A j \in Workers : Setting(j) => Setting(j)'
  BY <1>1, <1>3, SettingStays
<1>. QED  BY <1>2, <1>3, <1>4, <1>5 DEF ModelComes, KeyComes

\* A worker that fails has its task tried again, or its version is given up.
LEMMA TroubleServes ==
    ASSUME ServeInv, row # NoIndex, NEW k \in Workers, Trouble(k)
    PROVE  Aged(k)' /\ (Kept' /\ ModelComes /\ KeyComes => ModelComes' /\ KeyComes')
<1>1. /\ UNCHANGED vars /\ Steps(k)
      /\ worker \in [Workers -> WorkerRecord] /\ tasks \in Nat
  BY WorkerOnly, WorkerTypes DEF Steps
<1>2. /\ UNCHANGED <<row, model, versionKey>> /\ worker'[k] = Idle
      /\ tasks' > 0 \/ tasks' = tasks
  BY <1>1 DEF Trouble, Raises, Retry, GiveUp, ReadFails, vars, dbVars
<1>3. Aged(k)'
  BY <1>2 DEF Aged, Idle
<1>4. CASE tasks' > 0
  BY <1>3, <1>4 DEF Coming, ModelComes, KeyComes
<1>5. ASSUME Kept', ~(tasks' > 0) PROVE tasks' = tasks /\ ~Heading(k) /\ ~Setting(k)
  BY <1>1, <1>2, <1>5 DEF Trouble, Raises, Retry, GiveUp, ReadFails, Kept, Heading, Setting
<1>6. ASSUME Kept', ~(tasks' > 0)
      PROVE  /\ Coming => Coming'
             /\ \A j \in Workers : Setting(j) => Setting(j)'
  BY <1>1, <1>5, <1>6, ComingStays, SettingStays
<1>. QED  BY <1>2, <1>3, <1>4, <1>6 DEF ModelComes, KeyComes

\* So has one that sets the key to an older version.
LEMMA KeyServes ==
    ASSUME ServeInv, row # NoIndex, NEW k \in Workers, ReadModel(k) \/ SetVersionKey(k)
    PROVE  Aged(k)' /\ (Kept' /\ ModelComes /\ KeyComes => ModelComes' /\ KeyComes')
<1>1. UNCHANGED vars /\ Steps(k) /\ worker \in [Workers -> WorkerRecord]
  BY WorkerOnly, WorkerTypes DEF Steps, Collect
<1>2. UNCHANGED <<row, tasks, model>> /\ worker[k].at \in {"read", "set"} /\ ~Heading(k)
  BY <1>1 DEF ReadModel, SetVersionKey, vars, dbVars, Heading
<1>3. worker'[k] = IF worker[k].at = "read"
                   THEN [worker[k] EXCEPT !.want = model, !.at = "set"] ELSE Idle
  BY <1>1 DEF ReadModel, SetVersionKey
<1>4. worker'[k].at \in {"set", "idle"}
  BY <1>1, <1>3 DEF WorkerRecord, Idle
<1>5. Aged(k)'
  BY <1>4 DEF Aged
<1>6. Coming => Coming'
  BY <1>1, <1>2, ComingStays
<1>7. \A j \in Workers \ {k} : Setting(j) => Setting(j)'
  BY <1>1, SettingStays
<1>8. CASE ReadModel(k)
  <2>1. model = row.published /\ Setting(k) => Setting(k)'
    BY <1>1, <1>2, <1>3, <1>8 DEF ReadModel, Setting, WorkerRecord
  <2>2. versionKey' = versionKey
    BY <1>8 DEF ReadModel
  <2>. QED  BY <1>2, <1>5, <1>6, <1>7, <2>1, <2>2 DEF ModelComes, KeyComes
<1>9. CASE SetVersionKey(k)
  <2>1. /\ worker[k].at = "set" /\ versionKey' = worker[k].want
        /\ Kept' => model = worker[k].want
    BY <1>9 DEF SetVersionKey, Kept
  <2>. QED  BY <1>2, <1>5, <1>6, <2>1 DEF ModelComes, KeyComes
<1>. QED  BY <1>8, <1>9

LEMMA WorkerServes ==
    ASSUME ServeInv, NEW k \in Workers, Steps(k), Serving
    PROVE  Serving'
<1>1. /\ UNCHANGED vars /\ \A j \in Workers \ {k} : worker'[j] = worker[j]
      /\ Kept' => Kept
  BY WorkerOnly DEF Kept, vars, dbVars
<1>. SUFFICES ASSUME row # NoIndex
              PROVE  (\A j \in Workers : Aged(j)') /\ (Kept' => ModelComes' /\ KeyComes')
  BY <1>1 DEF Serving, vars, dbVars
<1>2. Aged(k)' /\ (Kept' /\ ModelComes /\ KeyComes => ModelComes' /\ KeyComes')
  BY StartServes, CompareServes, SaveServes, CacheServes, TroubleServes, KeyServes DEF Serving, Steps, Collect
<1>3. \A j \in Workers \ {k} : Aged(j) => Aged(j)'
  BY <1>1 DEF Aged, vars, dbVars
<1>. QED  BY <1>1, <1>2, <1>3 DEF Serving

\* A worker knows what was published or what the model had.
LEMMA WorkerKnows ==
    ASSUME ServeInv, NEW k \in Workers, Steps(k)
    PROVE  /\ model' \in {model, worker[k].want}
           /\ {worker'[k].want, worker'[k].seen}
                \subseteq {worker[k].want, worker[k].seen, model, NoVersion}
                          \cup (IF row = NoIndex THEN {} ELSE {row.published})
<1>1. worker \in [Workers -> WorkerRecord]
  BY WorkerTypes
<1>2. CASE TakeTask(k) \/ ReadMissing(k)
  BY <1>1, <1>2 DEF TakeTask, ReadMissing, WorkerRecord
<1>3. CASE Compare(k) \/ SaveModel(k)
  BY <1>1, <1>3 DEF Compare, SaveModel, Goes, WorkerRecord
<1>4. CASE AddToCache(k) \/ Trouble(k) \/ SetVersionKey(k)
  BY <1>1, <1>4 DEF AddToCache, Trouble, Raises, Retry, GiveUp, ReadFails, SetVersionKey,
     WorkerRecord, Idle
<1>5. CASE ReadModel(k)
  BY <1>1, <1>5 DEF ReadModel, WorkerRecord
<1>. QED  BY <1>2, <1>3, <1>4, <1>5 DEF Steps, Collect

LEMMA WorkerKeeps ==
    ASSUME ServeInv, NEW k \in Workers, Steps(k)
    PROVE  ServeInv'
<1>1. /\ UNCHANGED vars /\ worker' \in [Workers -> WorkerRecord]
      /\ \A j \in Workers \ {k} : worker'[j] = worker[j]
  BY WorkerOnly
<1>2. DraftInv' /\ AnnounceInv'
  BY <1>1, StoreStays
<1>3. TypeOKAll'
  <2>1. TypeOK'
    BY <1>2 DEF DraftInv, TypeInv
  <2>2. model' \in Versions
    BY WorkerTypes, WorkerKnows DEF WorkerRecord
  <2>3. versionKey' \in Versions
    BY WorkerTypes DEF WorkerRecord, Steps, Collect, TakeTask, ReadMissing, Compare, SaveModel,
       AddToCache, Trouble, Raises, Retry, GiveUp, ReadFails, ReadModel, SetVersionKey
  <2>4. stored' \subseteq Versions
    <3>1. stored' \subseteq stored \cup {worker[k].want}
      BY DEF Steps, Collect, TakeTask, ReadMissing, Compare, SaveModel, AddToCache,
         Trouble, Raises, Retry, GiveUp, ReadFails, ReadModel, SetVersionKey
    <3>. QED  BY <3>1, WorkerTypes DEF ServeInv, TypeOKAll, WorkerRecord
  <2>5. tasks' \in Nat /\ reads' \in 0..MaxReads
    BY WorkerTypes, BlockStructuresAssumption DEF ServeInv, TypeOKAll,
       BlockStructuresAssumption, Steps, Collect, TakeTask, ReadMissing, Compare, SaveModel,
       AddToCache, Trouble, Raises, Retry, GiveUp, ReadFails, ReadModel, SetVersionKey
  <2>6. crossed' \in BOOLEAN
    <3>1. crossed' = crossed \/ crossed' \in BOOLEAN
      BY DEF Steps, Collect, TakeTask, ReadMissing, Compare, SaveModel, AddToCache,
         Trouble, Raises, Retry, GiveUp, ReadFails, ReadModel, SetVersionKey
    <3>. QED  BY <3>1 DEF ServeInv, TypeOKAll
  <2>7. abandoned' \subseteq Versions
    <3>1. abandoned' \subseteq abandoned \cup {worker[k].want}
      BY DEF Steps, Collect, TakeTask, ReadMissing, Compare, SaveModel, AddToCache,
         Trouble, Raises, Retry, GiveUp, ReadFails, ReadModel, SetVersionKey
    <3>. QED  BY <3>1, WorkerTypes DEF ServeInv, TypeOKAll, WorkerRecord
  <2>. QED  BY <1>1, <2>1, <2>2, <2>3, <2>4, <2>5, <2>6, <2>7 DEF TypeOKAll, WorkerRecord
<1>4. Numbers' /\ (accidents' = {} => Novel')
  <2>1. model' \in Marks \cup {NoVersion}
    BY WorkerKnows DEF Marks
  <2>2. ASSUME NEW j \in Workers
        PROVE  {worker'[j].want, worker'[j].seen} \subseteq Marks \cup {NoVersion}
    BY <1>1, WorkerKnows DEF Marks
  <2>. QED  BY <1>1, <2>1, <2>2, NothingNew
<1>5. accidents' = {} => Serving'
  BY <1>1, WorkerServes DEF ServeInv, vars, histories
<1>. QED  BY <1>2, <1>3, <1>4, <1>5 DEF ServeInv

\* A reader, or the cache, only changes what is cached.
LEMMA CacheKeeps ==
    ASSUME ServeInv, ReadStored \/ Evict \/ UNCHANGED allVars
    PROVE  ServeInv'
<1>1. /\ UNCHANGED <<vars, tasks, model, versionKey, worker, reads, crossed, abandoned>>
      /\ stored' \subseteq stored \cup {model}
  BY DEF ReadStored, Evict, allVars, bsVars
<1>2. DraftInv' /\ AnnounceInv' /\ TypeOK'
  BY <1>1, StoreStays DEF DraftInv, TypeInv
<1>3. TypeOKAll'
  BY <1>1, <1>2 DEF ServeInv, TypeOKAll
<1>4. Numbers' /\ (accidents' = {} => Novel')
  BY <1>1, NothingNew DEF Marks
<1>5. Serving => Serving'
  BY <1>1 DEF Serving, Kept, Aged, ModelComes, KeyComes, Coming, Heading, Setting, Due, vars, dbVars
<1>. QED  BY <1>1, <1>2, <1>3, <1>4, <1>5 DEF ServeInv, vars, histories

-----------------------------------------------------------------------------
(* Steps of the modulestore                                                *)

Moves(w) == (Rests(w) \/ Changes(w) \/ Saves(w)) /\ Others(w)

LEMMA StoreMoves ==
    ASSUME ServeInv, StoreStep
    PROVE  \E w \in Writers : Moves(w)
<1>1. Next /\ TypeInv
  BY DEF StoreStep, ServeInv, DraftInv
<1>2. PICK w \in Writers :
         \/ StartRequest(w) \/ BeginBulk(w) \/ Edit(w) \/ Publish(w) \/ CreateCourse(w)
         \/ DeleteCourse(w) \/ MongoFails(w) \/ Crash(w) \/ Work(w)
  BY <1>1 DEF Next
<1>. QED  BY <1>1, <1>2, StepsOfWriter DEF Moves

\* A signal queues a task.
LEMMA SignalQueues ==
    ASSUME ServeInv, StoreStep, NEW w \in Writers, Moves(w)
    PROVE  /\ tasks' \in Nat /\ tasks' >= tasks
           /\ SendSignals(w) /\ rec[w].flag => tasks' > 0
<1>. DEFINE A == {v \in Writers : Announces(v)}
<1>1. \A v \in Writers \ {w} : ~Announces(v)
  BY DEF Moves, Others, Announces
<1>2. A = {} \/ A = {w}
  BY <1>1
<1>3. tasks' = tasks + Cardinality(A) /\ tasks \in Nat
  BY DEF StoreStep, ServeInv, TypeOKAll
<1>4. SendSignals(w) /\ rec[w].flag => w \in A
  BY DEF SendSignals, Finish, Go, Announces, ServeInv, TypeOKAll, TypeOK
<1>. HIDE DEF A
<1>5. A = {} => Cardinality(A) = 0
  BY FS_EmptySet, Zenon
<1>6. A = {w} => Cardinality(A) = 1
  BY FS_Singleton, Zenon
<1>7. CASE A = {}
  BY <1>3, <1>4, <1>5, <1>7
<1>8. CASE A = {w}
  BY <1>3, <1>6, <1>8
<1>. QED  BY <1>2, <1>7, <1>8

\* What is stored goes with the course only.
LEMMA ModelStays ==
    ASSUME ServeInv, StoreStep, NEW w \in Writers, Moves(w)
    PROVE  /\ model' \in {model, NoVersion} /\ stored' \subseteq stored
           /\ accidents = {} /\ row' # NoIndex => model' = model
<1>1. model' \in {model, NoVersion} /\ stored' \subseteq stored
  BY DEF StoreStep
<1>2. ASSUME accidents = {}, NEW v \in Writers, Deletes(v)
      PROVE  row' = NoIndex
  <2>1. v = w /\ pc[w] = "unmirror"
    BY <1>2 DEF Deletes, Moves, Others
  <2>2. row = NoIndex
    BY <1>2, <2>1 DEF ServeInv, AnnounceInv, MirrorInv, WillAgree
  <2>3. row' = row
    BY <2>1 DEF Moves, Rests, Changes, Saves, StartRequest, BeginBulk, Edit, Publish,
       CreateCourse, EndBody, StoreStructures, ReadRow, SendSignals, WriteMongo, DeleteMongo,
       MongoFails, DeleteCourse, EndRequest, Abort, Crash, SaveRow, InsertRow, dbVars
  <2>. QED  BY <2>2, <2>3
<1>3. (\E v \in Writers : Deletes(v)) \/ model' = model
  BY DEF StoreStep
<1>. QED  BY <1>1, <1>2, <1>3

\* An operation that has published goes on with its version; one that publishes
\* makes a new version.
LEMMA NewVersions ==
    ASSUME ServeInv, NEW w \in Writers, Moves(w), NewVersion(w)'
    PROVE  \/ NewVersion(w) /\ rec'[w].index.published = rec[w].index.published
           \/ \E n \in 0..MaxMade : n > made[w] /\ rec'[w].index.published = <<w, n>>
<1>0. TypeOK /\ rec \in [Writers -> Records] /\ made[w] \in Nat /\ MaxMade \in Nat
  BY CourseIndexAssumption, SeenAreIndexes DEF ServeInv, TypeOKAll, TypeOK, Records, Indexes,
     CourseIndexAssumption, DraftInv
<1>1. CASE Changes(w)
  <2>1. CASE Edit(w)
    <3>1. /\ rec'[w].initial = rec[w].initial /\ rec[w].index # NoIndex /\ pc[w] = "bulk"
          /\ rec'[w].index.published = rec[w].index.published
      BY <1>0, <2>1 DEF Edit, Records, Indexes, Index
    <3>. QED  BY <3>1 DEF NewVersion, Preparing, PublishedIsDirty
  <2>2. CASE Publish(w)
    <3>1. /\ rec'[w].initial = rec[w].initial /\ rec[w].index # NoIndex /\ pc[w] = "bulk"
          /\ rec'[w].index.published = IF PublishedIsDirty(rec[w]) THEN rec[w].index.published
                                                                   ELSE NextId(w)
      BY <1>0, <2>2 DEF Publish, Records, Indexes, Index
    <3>2. NextId(w) = <<w, made[w] + 1>> /\ made[w] + 1 \in 0..MaxMade /\ made[w] + 1 > made[w]
      BY <1>0, <2>2 DEF Publish, NextId
    <3>. QED  BY <3>1, <3>2 DEF NewVersion, Preparing
  <2>3. CASE CreateCourse(w)
    <3>1. rec'[w].index.published = <<w, made[w] + 2>>
      BY <1>0, <2>3 DEF CreateCourse, Records
    <3>2. made[w] + 2 \in 0..MaxMade /\ made[w] + 2 > made[w]
      BY <1>0, <2>3 DEF CreateCourse
    <3>. QED  BY <3>1, <3>2
  <2>. QED  BY <1>1, <2>1, <2>2, <2>3 DEF Changes
<1>2. CASE Saves(w)
  BY <1>2 DEF Saves, NewVersion, Preparing
<1>3. CASE Rests(w)
  <2>1. CASE BeginBulk(w)
    <3>1. rec'[w].index = rec'[w].initial
      BY <1>0, <2>1 DEF BeginBulk, Records
    <3>. QED  BY <3>1 DEF NewVersion, PublishedIsDirty
  <2>2. CASE EndBody(w) \/ StoreStructures(w) \/ ReadRow(w)
    <3>1. pc[w] \in {"bulk", "store", "check"} /\ pc'[w] # "request" =>
             /\ rec'[w].initial = rec[w].initial
             /\ \/ rec'[w].index = rec[w].index
                \/ ReadRow(w) /\ rec'[w].index = Stamped(w)
      BY <1>0, <2>2 DEF EndBody, StoreStructures, ReadRow, Fail, Finish, Go, Records, TypeOK
    <3>2. pc[w] \in {"bulk", "store", "check"} /\ pc'[w] # "request"
      BY <2>2 DEF EndBody, StoreStructures, ReadRow, NewVersion, Preparing
    <3>3. ReadRow(w) => rec[w].index # NoIndex
      BY DEF ReadRow, ServeInv, DraftInv, TypeInv, HasIndex
    <3>4. ReadRow(w) => Stamped(w).published = rec[w].index.published /\ Stamped(w) # NoIndex
      BY <1>0, <3>3, StampedIsIndex, NoIndexAssumption DEF Stamped, Records, Indexes, Index
    <3>. QED  BY <3>1, <3>2, <3>3, <3>4 DEF NewVersion, PublishedIsDirty, Preparing
  <2>3. CASE ~(BeginBulk(w) \/ EndBody(w) \/ StoreStructures(w) \/ ReadRow(w))
    <3>1. ~Preparing(w)'
      BY <1>0, <1>3, <2>3 DEF Rests, StartRequest, SendSignals, WriteMongo, DeleteMongo,
         MongoFails, DeleteCourse, EndRequest, Abort, Crash, Preparing, Go, Finish, Fail, TypeOK
    <3>. QED  BY <3>1 DEF NewVersion
  <2>. QED  BY <2>1, <2>2, <2>3
<1>. QED  BY <1>1, <1>2, <1>3 DEF Moves

\* As long as there is no accident the row keeps its published version, or gets
\* one that nobody knew, from a writer that goes on to announce it.
LEMMA RowAfter ==
    ASSUME ServeInv, NEW w \in Writers, Moves(w), accidents' = {}, row' # NoIndex
    PROVE  \/ row # NoIndex /\ row'.published = row.published
           \/ /\ Saves(w) /\ NewVersion(w) /\ Due(w)'
              /\ row'.published = rec[w].index.published
<1>0. TypeInv /\ MirrorInv /\ VersionInv /\ Directed(w)
  BY DEF ServeInv, AnnounceInv, MirrorInv
<1>1. accidents = {}
  BY AccidentsGrow DEF Moves
<1>2. Announcing
  BY <1>1 DEF ServeInv, AnnounceInv, Announcing
<1>3. CASE Saves(w)
  <2>. PICK x : x = rec'[w].index
    OBVIOUS
  <2>1. /\ x.published = rec[w].index.published /\ rec[w].index # NoIndex /\ Preparing(w)
        /\ WriteRow(w, x)
    BY <1>0, <1>3, SavesWrite DEF Moves
  <2>2. \/ PublishedIsDirty(rec[w]) /\ Due(w)'
        \/ row # NoIndex /\ x.published = row.published
    BY <1>0, <1>2, <1>3, PublishedBySave DEF Moves
  <2>3. row' = row \/ row' = x
    BY <2>1 DEF WriteRow
  <2>. QED  BY <1>3, <2>1, <2>2, <2>3 DEF NewVersion
<1>4. CASE Changes(w)
  BY <1>0, <1>4, ChangesMake DEF dbVars
<1>5. CASE Rests(w)
  <2>1. CASE EndRequest(w) /\ pending.by = w
    <3>1. row' = pending.index /\ w # Origin /\ ~Due(w)
      BY <2>1, CourseIndexAssumption DEF EndRequest, CourseIndexAssumption, Due
    <3>. QED  BY <1>2, <2>1, <3>1 DEF Announcing
  <2>2. CASE ~(EndRequest(w) /\ pending.by = w)
    <3>1. row' = row \/ DeleteCourse(w)
      BY <1>0, <1>5, <2>2 DEF Rests, StartRequest, BeginBulk, EndBody, StoreStructures, ReadRow,
         SendSignals, WriteMongo, DeleteMongo, MongoFails, EndRequest, Abort, Crash, SaveRow,
         InsertRow, dbVars, Fail, Go, TypeInv, TypeOK
    <3>2. DeleteCourse(w) => row' = NoIndex
      BY DEF DeleteCourse, WriteRow
    <3>. QED  BY <3>1, <3>2
  <2>. QED  BY <2>1, <2>2
<1>. QED  BY <1>3, <1>4, <1>5 DEF Moves

\* What a step of the modulestore makes known.
LEMMA MarksAfter ==
    ASSUME ServeInv, StoreStep, NEW w \in Writers, Moves(w)
    PROVE  Marks' \subseteq Marks \cup {NoVersion}
                            \cup (IF row' = NoIndex THEN {} ELSE {row'.published})
BY ModelStays DEF StoreStep, Marks

LEMMA NumbersAfter ==
    ASSUME ServeInv, StoreStep, NEW w \in Writers, Moves(w), DraftInv'
    PROVE  Numbers'
<1>1. \A v \in Writers : made[v] \in Nat /\ made'[v] \in Nat /\ made'[v] >= made[v]
  <2>1. TypeInv /\ TypeInv'
    BY DEF ServeInv, DraftInv
  <2>2. \A v \in Writers : made[v] \in Nat /\ made'[v] \in Nat
    BY <2>1 DEF TypeInv, TypeOK
  <2>3. made' = made \/ (made'[w] > made[w] /\ \A v \in Writers \ {w} : made'[v] = made[v])
    BY <2>1, RestsRead, ChangesMake, SavesWrite DEF Moves, ServeInv, AnnounceInv, MirrorInv
  <2>. QED  BY <2>2, <2>3
<1>2. ASSUME NEW v \in Writers, NEW n \in 0..MaxMade, <<v, n>> \in Marks'
      PROVE  n <= made'[v]
  <2>1. CASE <<v, n>> \in Marks
    <3>1. n <= made[v] /\ n \in Nat
      BY <2>1 DEF ServeInv, Numbers
    <3>. QED  BY <1>1, <3>1
  <2>2. CASE row' # NoIndex /\ <<v, n>> = row'.published
    <3>1. Numbered(row)'
      BY DEF DraftInv, Live, Common
    <3>2. <<v, n>> \in Pointers(row') /\ n \in Nat
      BY <2>2 DEF Pointers
    <3>. QED  BY <3>1, <3>2 DEF Numbered, Pointers
  <2>. QED  BY <1>2, <2>1, <2>2, MarksAfter, NoVersionIsNoId
<1>. QED  BY <1>2 DEF Numbers

\* A version that is being prepared bears its writer's name.
LEMMA VersionOfWriter ==
    ASSUME ServeInv, NEW w \in Writers, NewVersion(w)
    PROVE  rec[w].index.published[1] = w
BY DEF ServeInv, AnnounceInv, VersionInv, Flagged, NewVersion, PublishedIsDirty

LEMMA NovelAfter ==
    ASSUME ServeInv, StoreStep, NEW w \in Writers, Moves(w), DraftInv', accidents' = {}
    PROVE  Novel'
<1>0. accidents = {} /\ Novel /\ Numbers /\ TypeOK
  BY AccidentsGrow DEF Moves, ServeInv, TypeOKAll
<1>1. \A v \in Writers \ {w} : pc'[v] = pc[v] /\ rec'[v] = rec[v]
  BY DEF Moves, Others
<1>2. ASSUME NEW v \in Writers, NewVersion(v)'
      PROVE  rec'[v].index.published \notin Marks \cup {NoVersion}
  <2>1. CASE NewVersion(v) /\ rec'[v].index.published = rec[v].index.published
    BY <1>0, <2>1, PublishedIsId, NoVersionIsNoId DEF Novel, NewVersion
  <2>2. CASE v = w /\ \E n \in 0..MaxMade : n > made[w] /\ rec'[w].index.published = <<w, n>>
    <3>. PICK n \in 0..MaxMade : n > made[w] /\ rec'[w].index.published = <<w, n>>
      BY <2>2
    <3>1. made[w] \in Nat /\ n \in Nat
      BY <1>0 DEF TypeOK
    <3>. PICK p : p = <<w, n>>
      OBVIOUS
    <3>2. p \in Marks => n <= made[w]
      BY <1>0 DEF Numbers
    <3>3. p \notin Marks /\ p # NoVersion
      BY <3>1, <3>2, NoVersionIsNoId
    <3>. QED  BY <2>2, <3>3
  <2>3. v # w => NewVersion(v) /\ rec'[v].index.published = rec[v].index.published
    BY <1>1, <1>2 DEF NewVersion, Preparing
  <2>. QED  BY <1>2, <2>1, <2>2, <2>3, NewVersions
<1>3. ASSUME NEW v \in Writers, NewVersion(v)', row' # NoIndex
      PROVE  rec'[v].index.published # row'.published
  <2>1. CASE row # NoIndex /\ row'.published = row.published
    BY <1>2, <1>3, <2>1 DEF Marks
  <2>2. CASE Saves(w) /\ NewVersion(w) /\ row'.published = rec[w].index.published
    <3>1. v # w
      BY <1>3, <2>2 DEF NewVersion, Preparing, Saves
    <3>2. NewVersion(v) /\ rec'[v].index.published = rec[v].index.published
      BY <1>1, <1>3, <3>1 DEF NewVersion, Preparing
    <3>. QED  BY <2>2, <3>1, <3>2, VersionOfWriter
  <2>. QED  BY <1>3, <2>1, <2>2, RowAfter
<1>. QED  BY <1>2, <1>3, MarksAfter DEF Novel

LEMMA ServingAfter ==
    ASSUME ServeInv, StoreStep, NEW w \in Writers, Moves(w), accidents' = {}
    PROVE  Serving'
<1>. SUFFICES ASSUME row' # NoIndex
              PROVE  (\A k \in Workers : Aged(k)') /\ (Kept' => ModelComes' /\ KeyComes')
  BY DEF Serving
<1>0. accidents = {} /\ Novel /\ Serving /\ MirrorInv
  BY AccidentsGrow DEF Moves, ServeInv, AnnounceInv
<1>1. UNCHANGED <<versionKey, worker, crossed, abandoned>> /\ model' = model
  BY <1>0, ModelStays DEF StoreStep
<1>2. CASE row # NoIndex /\ row'.published = row.published
  <2>1. \A k \in Workers : (Aged(k) => Aged(k)') /\ (Heading(k) => Heading(k)')
                           /\ (Setting(k) => Setting(k)')
    BY <1>1, <1>2 DEF Aged, Heading, Setting
  <2>2. ASSUME Coming PROVE Coming'
    <3>1. CASE tasks > 0
      <4>1. tasks' > 0
        BY <3>1, SignalQueues DEF ServeInv, TypeOKAll
      <4>. QED  BY <4>1 DEF Coming
    <3>2. CASE \E v \in Writers : Due(v)
      <4>. PICK v \in Writers : Due(v)
        BY <3>2
      <4>1. CASE v = w /\ SendSignals(w)
        <5>1. tasks' > 0
          BY <4>1, SignalQueues DEF Due
        <5>. QED  BY <5>1 DEF Coming
      <4>2. CASE ~(v = w /\ SendSignals(w))
        <5>1. Due(v)'
          BY <1>0, <4>2, DueStays DEF Moves
        <5>. QED  BY <5>1 DEF Coming
      <4>. QED  BY <4>1, <4>2
    <3>3. CASE \E k \in Workers : Heading(k)
      BY <2>1, <3>3 DEF Coming
    <3>. QED  BY <2>2, <3>1, <3>2, <3>3 DEF Coming
  <2>3. Kept' => Kept
    BY <1>1, <1>2 DEF Kept
  <2>. QED  BY <1>0, <1>1, <1>2, <2>1, <2>2, <2>3 DEF Serving, ModelComes, KeyComes
<1>3. CASE NewVersion(w) /\ Due(w)' /\ row'.published = rec[w].index.published
  <2>1. \A k \in Workers : Aged(k)'
    <3>1. \A k \in Workers : worker'[k].seen # row'.published
      BY <1>0, <1>1, <1>3 DEF Novel, Marks
    <3>. QED  BY <3>1 DEF Aged
  <2>2. Coming'
    BY <1>3 DEF Coming
  <2>. QED  BY <2>1, <2>2 DEF ModelComes, KeyComes
<1>. QED  BY <1>2, <1>3, RowAfter

LEMMA StoreKeeps ==
    ASSUME ServeInv, StoreStep
    PROVE  ServeInv'
<1>. PICK w \in Writers : Moves(w)
  BY StoreMoves
<1>1. [Next]_vars
  BY DEF StoreStep
<1>2. DraftInv' /\ AnnounceInv' /\ TypeOK'
  BY <1>1, DraftNext, AnnounceNext DEF ServeInv, DraftInv, TypeInv
<1>3. TypeOKAll'
  <2>1. {model', versionKey'} \cup stored' \subseteq Versions
    BY ModelStays DEF ServeInv, TypeOKAll, StoreStep, Versions
  <2>2. tasks' \in Nat
    BY SignalQueues
  <2>. QED  BY <1>2, <2>1, <2>2 DEF ServeInv, TypeOKAll, StoreStep
<1>4. Numbers' /\ (accidents' = {} => Novel' /\ Serving')
  BY <1>2, NumbersAfter, NovelAfter, ServingAfter
<1>. QED  BY <1>2, <1>3, <1>4 DEF ServeInv

LEMMA ServeNext == ServeInv /\ [NextAll]_allVars => ServeInv'
BY StoreKeeps, CacheKeeps, WorkerKeeps DEF NextAll, Steps

\* The variables have their types.
THEOREM TypesOfBlockStructures == FairAll => []TypeOKAll
<1>1. ServeInv => TypeOKAll
  BY DEF ServeInv
<1>. QED  BY <1>1, ServeInit, ServeNext, PTL DEF FairAll

\* When no signal, task or collection is on its way, the model and the version
\* key have the version that is published (update_course_in_cache, with
\* update_block_structure_on_course_publish), unless there was an accident in the
\* modulestore, workers crossed or a task gave the version up.
THEOREM LearnersGetCurrent == FairAll => []ServedIsCurrent
<1>1. ASSUME ServeInv PROVE ServedIsCurrent
  <2>. SUFFICES ASSUME Settled, row # NoIndex, ~LeftBehind
                PROVE  model = row.published /\ versionKey = row.published
    BY DEF ServedIsCurrent, Served
  <2>1. ModelComes /\ KeyComes
    BY <1>1 DEF ServeInv, Serving, Kept, LeftBehind
  <2>2. ~Coming /\ \A k \in Workers : ~Setting(k)
    BY DEF Settled, Coming, Due, Heading, Setting
  <2>. QED  BY <2>1, <2>2 DEF ModelComes, KeyComes
<1>. QED  BY <1>1, ServeInit, ServeNext, PTL DEF FairAll
=============================================================================
