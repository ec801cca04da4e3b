------------------------- MODULE SessionState_proofs -------------------------
(****************************************************************************)
(* No save loses an edit and no save ends a tombstone, for every number of  *)
(* workers, edits and removals and whatever Redis, the database and the     *)
(* workers do in between; until the key is first lost the database holds    *)
(* nothing that Redis does not.                                             *)
(*                                                                          *)
(* The version alone does not carry the argument: a worker may hold a higher *)
(* version than the key, namely one it read before the key was removed.     *)
(* What holds is about a worker that read the key since: its version is at  *)
(* most the key's, and where the two are equal it has every edit the key    *)
(* has.  An intact watch gives the other direction, so at the write they    *)
(* are equal.                                                               *)
(****************************************************************************)
EXTENDS SessionState, TLAPS

Holding == {"loaded", "saving"}

\* A version of 0 is an absent key, or a tombstone: it has no edits.
UnversionedIsEmpty == redis.version = 0 => redis.work = {}

ReadsArePast == \A w \in Worker : worker[w].life <= losses

\* A copy read in this life of the key is not ahead of it, and misses nothing
\* of a key of its own version.
CopiesFollow ==
  \A w \in Worker :
    /\ worker[w].pc \in Holding /\ worker[w].life = losses /\ ~redis.deleted
    => /\ worker[w].mine.version <= redis.version
       /\ worker[w].mine.version = redis.version =>
            redis.work \subseteq worker[w].mine.work

\* An intact watch is on a key that does not reject the copy.
WatchesHold ==
  \A w \in watching : At(w, "saving") /\ ~Rejected(worker[w].mine)

SaveInv ==
  TypeOK /\ UnversionedIsEmpty /\ ReadsArePast /\ CopiesFollow /\ WatchesHold

\* Until the key is lost, what is in the database or on its way there is in
\* the key.
BackupsFollow ==
  losses = 0 /\ ~redis.deleted =>
    /\ store \subseteq redis.work
    /\ \A w \in Worker : At(w, "backup") => worker[w].mine.work \subseteq redis.work

Inv == SaveInv /\ BackupsFollow

\* The state a worker takes in hand is a State, whatever it loads.
LEMMA EditedType ==
  ASSUME TypeOK, NEW st \in State, NEW attach \in BOOLEAN
  PROVE  /\ Edited(st, attach) \in State
         /\ Edited(st, attach).version \in {0, st.version}
         /\ st.work \subseteq Edited(st, attach).work
<1> DEFINE copy == IF attach THEN Derived(st) ELSE Extracted(st)
<1>1. copy \in State /\ copy.version \in {0, st.version} /\ copy.work = st.work
  BY SessionAssumption DEF Extracted, Derived, State
<1> HIDE DEF copy
<1>2. [copy EXCEPT !.work = @ \cup {edits + 1}]
        = [deleted |-> copy.deleted, version |-> copy.version,
           work |-> copy.work \cup {edits + 1}]
  BY <1>1 DEF State
<1>3. Edited(st, attach) = [copy EXCEPT !.work = @ \cup {edits + 1}]
  BY DEF Edited, copy
<1> QED BY <1>1, <1>2, <1>3 DEF State, TypeOK

\* A worker that stops has a state of the right type.
LEMMA IdleType == Idle \in WorkerState /\ NoState \in State
BY DEF Idle, NoState, WorkerState, State

\* The invariant holds at first: no key, no row, nobody at work.
LEMMA InitInv == Init => Inv
<1> SUFFICES ASSUME Init PROVE Inv
  OBVIOUS
<1>1. TypeOK
  BY IdleType DEF Init, TypeOK
<1>2. UnversionedIsEmpty /\ ReadsArePast /\ CopiesFollow /\ WatchesHold
  BY DEF Init, UnversionedIsEmpty, ReadsArePast, CopiesFollow, WatchesHold, NoState, Idle,
         Holding
<1>3. BackupsFollow
  BY DEF Init, BackupsFollow, NoState, Idle, At
<1> QED BY <1>1, <1>2, <1>3 DEF Inv, SaveInv

\* The initial states and every step keep the types.
LEMMA TypeStep == ASSUME TypeOK, [Next]_vars PROVE TypeOK'
<1>1. ASSUME NEW w \in Worker, NEW attach \in BOOLEAN, Load(w, attach) PROVE TypeOK'
  <2>1. CASE /\ worker' = [worker EXCEPT ![w] = [Idle EXCEPT !.pc = "missed",
                                         !.life = losses, !.attach = attach]]
             /\ UNCHANGED edits
    <3>1. [Idle EXCEPT !.pc = "missed", !.life = losses, !.attach = attach] \in WorkerState
      BY IdleType DEF WorkerState, TypeOK, Idle
    <3> QED
      BY <1>1, <2>1, <3>1 DEF Load, TypeOK, rvars
  <2>2. CASE Edit(w, redis, attach, losses)
    <3>1. Edited(redis, attach) \in State
      BY EditedType DEF TypeOK
    <3> QED
      BY <1>1, <2>2, <3>1 DEF Load, Edit, TypeOK, WorkerState, rvars
  <2> QED BY <1>1, <2>1, <2>2 DEF Load
<1>2. ASSUME NEW w \in Worker, CheckMarker(w) \/ LoadFromStore(w) PROVE TypeOK'
  <2>1. CASE UNCHANGED edits
    BY <1>2, <2>1 DEF CheckMarker, LoadFromStore, Edit, Go, TypeOK, WorkerState, rvars
  <2>2. ASSUME NEW st \in State, Edit(w, st, worker[w].attach, worker[w].life)
        PROVE  TypeOK'
    <3>1. worker[w].attach \in BOOLEAN /\ worker[w].life \in Nat
      BY DEF TypeOK, WorkerState
    <3>2. Edited(st, worker[w].attach) \in State
      BY <3>1, EditedType
    <3>3. UNCHANGED <<rvars, stale, store, admin>>
      BY <1>2 DEF CheckMarker, LoadFromStore
    <3> QED
      BY <2>2, <3>1, <3>2, <3>3 DEF Edit, TypeOK, WorkerState, rvars
  <2>3. NoState \in State /\ FromRow(store) \in State
    BY DEF FromRow, NoState, State, TypeOK
  <2> QED BY <1>2, <2>1, <2>2, <2>3 DEF CheckMarker, LoadFromStore
<1>3. ASSUME NEW w \in Worker,
             SaveWatch(w) \/ SaveFails(w) \/ SaveBackup(w) \/ SetMarker(w) \/ Crash(w)
      PROVE  TypeOK'
  <2>1. Idle \in WorkerState
    BY DEF Idle, NoState, WorkerState, State
  <2>2. worker[w].mine.work \in SUBSET Nat /\ At(w, "mark") \in BOOLEAN
    BY DEF TypeOK, WorkerState, State, At
  <2>3. worker' \in [Worker -> WorkerState]
    BY <1>3, <2>1
    DEF SaveWatch, SaveFails, SaveBackup, SetMarker, Crash, Go, Stop, TypeOK, WorkerState
  <2> QED
    BY <1>3, <2>2, <2>3
    DEF SaveWatch, SaveFails, SaveBackup, SetMarker, Crash, Row, TypeOK, rvars
<1>4. ASSUME NEW w \in Worker, SaveExec(w) PROVE TypeOK'
  <2>1. Idle \in WorkerState
    BY DEF Idle, NoState, WorkerState, State
  <2>2. [worker[w].mine EXCEPT !.version = @ + 1] \in State
    BY DEF TypeOK, WorkerState, State
  <2>3. worker' \in [Worker -> WorkerState]
    BY <1>4, <2>1 DEF SaveExec, Go, Stop, TypeOK, WorkerState
  <2> QED
    BY <1>4, <2>2, <2>3 DEF SaveExec, WriteKey, TypeOK
<1>5. ASSUME DeleteKey \/ DeleteRow \/ UndeleteRead \/ UndeleteKey \/ LoseKey \/ MarkerExpires
      PROVE  TypeOK'
  <2>1. Tombstone \in State
    BY SessionAssumption DEF Tombstone, State
  <2>2. RemoveKey => redis' \in State /\ watching' \subseteq Worker /\ losses' \in Nat
    BY IdleType DEF RemoveKey, WriteKey, TypeOK
  <2>3. CASE DeleteKey \/ DeleteRow
    BY <2>1, <2>3 DEF DeleteKey, DeleteRow, WriteKey, TypeOK, rvars
  <2>4. CASE UndeleteRead \/ UndeleteKey
    BY <2>2, <2>4 DEF UndeleteRead, UndeleteKey, TypeOK, rvars
  <2>5. CASE LoseKey \/ MarkerExpires
    BY <2>2, <2>5 DEF LoseKey, MarkerExpires, TypeOK, rvars
  <2> QED BY <1>5, <2>3, <2>4, <2>5
<1>6. CASE UNCHANGED vars
  BY <1>6 DEF vars, TypeOK
<1> QED BY <1>1, <1>2, <1>3, <1>4, <1>5, <1>6 DEF Next
\* A worker that has the key's answer, or the row's, in hand agrees with the
\* key: what it loaded was the key itself, or has no version.
LEMMA LoadsFollow ==
  ASSUME SaveInv, NEW w \in Worker, NEW st \in State, NEW attach \in BOOLEAN, NEW n \in Nat,
         n <= losses, st = redis \/ st.version = 0, ~At(w, "saving"),
         Edit(w, st, attach, n), UNCHANGED rvars
  PROVE  UnversionedIsEmpty' /\ ReadsArePast' /\ CopiesFollow' /\ WatchesHold'
<1>1. UnversionedIsEmpty' /\ ReadsArePast'
  BY DEF SaveInv, TypeOK, WorkerState, Edit, UnversionedIsEmpty, ReadsArePast, rvars
<1> DEFINE e == Edited(st, attach)
<1>2. e.version \in {0, st.version} /\ st.work \subseteq e.work /\ e \in State
  BY EditedType DEF SaveInv
<1>3. /\ e.version <= redis.version
      /\ e.version = redis.version => redis.work \subseteq e.work
  BY <1>2 DEF SaveInv, TypeOK, State, UnversionedIsEmpty
<1>4. worker' = [worker EXCEPT ![w] =
                   [pc |-> "loaded", mine |-> e, life |-> n, attach |-> attach]]
  BY DEF Edit
<1> HIDE DEF e
<1>5. CopiesFollow'
  BY <1>3, <1>4 DEF SaveInv, TypeOK, CopiesFollow, rvars
<1>6. WatchesHold'
  BY <1>4 DEF SaveInv, TypeOK, WatchesHold, At, Rejected, rvars, Edit
<1> QED BY <1>1, <1>5, <1>6

\* The argument for the version: every action keeps the invariant.
LEMMA SaveStep == ASSUME SaveInv, [Next]_vars PROVE SaveInv'
<1>1. TypeOK'
  BY TypeStep DEF SaveInv
<1> USE DEF SaveInv
<1>2. ASSUME NEW w \in Worker, NEW attach \in BOOLEAN, Load(w, attach)
      PROVE  UnversionedIsEmpty' /\ ReadsArePast' /\ CopiesFollow' /\ WatchesHold'
  <2>1. CASE Edit(w, redis, attach, losses)
    <3>1. losses <= losses /\ ~At(w, "saving") /\ UNCHANGED rvars
      BY <1>2 DEF Load, At, TypeOK
    <3> QED BY <2>1, <3>1, LoadsFollow DEF TypeOK
  <2>2. CASE worker' = [worker EXCEPT ![w] = [Idle EXCEPT !.pc = "missed",
                                        !.life = losses, !.attach = attach]]
    BY <1>2, <2>2
    DEF Load, Idle, At, TypeOK, UnversionedIsEmpty, ReadsArePast, CopiesFollow, WatchesHold,
        Holding, Rejected, rvars
  <2> QED BY <1>2, <2>1, <2>2 DEF Load
<1>3. ASSUME NEW w \in Worker, CheckMarker(w) \/ LoadFromStore(w)
      PROVE  UnversionedIsEmpty' /\ ReadsArePast' /\ CopiesFollow' /\ WatchesHold'
  <2>1. worker[w].attach \in BOOLEAN /\ worker[w].life \in Nat /\ worker[w].life <= losses
    BY DEF TypeOK, WorkerState, ReadsArePast
  <2>2. ~At(w, "saving") /\ UNCHANGED rvars
    BY <1>3 DEF CheckMarker, LoadFromStore, At
  <2>3. ASSUME NEW st \in State, st.version = 0,
               Edit(w, st, worker[w].attach, worker[w].life)
        PROVE  UnversionedIsEmpty' /\ ReadsArePast' /\ CopiesFollow' /\ WatchesHold'
    BY <2>1, <2>2, <2>3, LoadsFollow
  <2>4. CASE Go(w, "fallback")
    BY <1>3, <2>2, <2>4
    DEF Go, At, TypeOK, UnversionedIsEmpty, ReadsArePast, CopiesFollow, WatchesHold, Holding,
        Rejected, rvars, WorkerState
  <2>5. /\ NoState \in State /\ NoState.version = 0
        /\ FromRow(store) \in State
        /\ FromRow(store).version = 0
    BY DEF FromRow, NoState, State, TypeOK
  <2> QED BY <1>3, <2>3, <2>4, <2>5 DEF CheckMarker, LoadFromStore
<1>4. ASSUME NEW w \in Worker, SaveWatch(w)
      PROVE  UnversionedIsEmpty' /\ ReadsArePast' /\ CopiesFollow' /\ WatchesHold'
  BY <1>4
  DEF SaveWatch, Go, Stop, Idle, At, TypeOK, UnversionedIsEmpty, ReadsArePast, CopiesFollow,
      WatchesHold, Holding, Rejected, WorkerState
<1>5. ASSUME NEW w \in Worker, SaveExec(w)
      PROVE  UnversionedIsEmpty' /\ ReadsArePast' /\ CopiesFollow' /\ WatchesHold'
  <2>1. CASE w \in watching
    <3>1. /\ redis' = [worker[w].mine EXCEPT !.version = @ + 1] /\ watching' = {}
          /\ worker' = [worker EXCEPT ![w].pc = "backup"] /\ UNCHANGED losses
      BY <1>5, <2>1 DEF SaveExec, WriteKey, Go
    <3>2. /\ worker[w].mine.version \in Nat /\ redis.version <= worker[w].mine.version
          /\ ~redis.deleted
      BY <2>1 DEF TypeOK, WorkerState, State, WatchesHold, Rejected
    <3>3. redis'.version = worker[w].mine.version + 1
      BY <3>1 DEF TypeOK, WorkerState, State
    <3>4. UnversionedIsEmpty' /\ WatchesHold' /\ ReadsArePast'
      BY <3>1, <3>2, <3>3 DEF UnversionedIsEmpty, WatchesHold, ReadsArePast, TypeOK, WorkerState
    <3>5. ASSUME NEW v \in Worker, worker'[v].pc \in Holding, worker'[v].life = losses'
          PROVE  worker'[v].mine.version < redis'.version
      <4>1. /\ worker'[v].mine = worker[v].mine /\ worker[v].pc \in Holding
            /\ worker[v].life = losses
        BY <3>1, <3>5 DEF TypeOK, WorkerState, Holding
      <4>2. worker[v].mine.version \in Nat /\ worker[v].mine.version <= redis.version
        BY <3>2, <4>1 DEF CopiesFollow, TypeOK, WorkerState, State
      <4> QED BY <3>2, <3>3, <4>1, <4>2 DEF TypeOK, State
    <3>6. \A v \in Worker : worker'[v].mine.version \in Nat /\ redis'.version \in Nat
      BY <1>1 DEF TypeOK, WorkerState, State
    <3>7. CopiesFollow'
      BY <3>5, <3>6 DEF CopiesFollow
    <3> QED BY <3>4, <3>7
  <2>2. CASE w \notin watching
    BY <1>5, <2>2
    DEF SaveExec, Stop, Idle, At, TypeOK, UnversionedIsEmpty, ReadsArePast, CopiesFollow,
        WatchesHold, Holding, Rejected, WorkerState
  <2> QED BY <2>1, <2>2
<1>6. ASSUME NEW w \in Worker, SaveFails(w) \/ SaveBackup(w) \/ SetMarker(w) \/ Crash(w)
      PROVE  UnversionedIsEmpty' /\ ReadsArePast' /\ CopiesFollow' /\ WatchesHold'
  <2>1. /\ UNCHANGED <<redis, losses>> /\ watching' \subseteq watching
        /\ w \in watching' => ~At(w, "loaded") /\ ~At(w, "saving")
    BY <1>6 DEF SaveFails, SaveBackup, SetMarker, Crash, At, rvars
  <2>2. \A v \in Worker :
          \/ v = w /\ worker'[v].pc \notin Holding /\ worker'[v].life \in {0, worker[v].life}
          \/ v # w /\ worker'[v] = worker[v]
    BY <1>6
    DEF SaveFails, SaveBackup, SetMarker, Crash, Go, Stop, Idle, Holding, TypeOK, WorkerState
  <2> QED
    BY <2>1, <2>2
    DEF At, TypeOK, UnversionedIsEmpty, ReadsArePast, CopiesFollow, WatchesHold, Rejected
<1>7. ASSUME DeleteKey \/ DeleteRow \/ UndeleteRead \/ UndeleteKey \/ LoseKey \/ MarkerExpires
      PROVE  UnversionedIsEmpty' /\ ReadsArePast' /\ CopiesFollow' /\ WatchesHold'
  <2>1. UNCHANGED worker
    BY <1>7 DEF DeleteKey, DeleteRow, UndeleteRead, UndeleteKey, LoseKey, MarkerExpires
  <2>2. CASE UNCHANGED rvars
    BY <2>1, <2>2
    DEF rvars, At, UnversionedIsEmpty, ReadsArePast, CopiesFollow, WatchesHold, Rejected
  <2>3. CASE WriteKey(Tombstone) /\ UNCHANGED losses
    BY <2>1, <2>3
    DEF WriteKey, Tombstone, UnversionedIsEmpty, ReadsArePast, CopiesFollow, WatchesHold
  <2>4. CASE RemoveKey
    BY <2>1, <2>4
    DEF RemoveKey, WriteKey, NoState, UnversionedIsEmpty, ReadsArePast, CopiesFollow,
        WatchesHold, TypeOK, WorkerState
  <2> QED
    BY <1>7, <2>2, <2>3, <2>4
    DEF DeleteKey, DeleteRow, UndeleteRead, UndeleteKey, LoseKey, MarkerExpires, rvars
<1>8. ASSUME UNCHANGED vars
      PROVE  UnversionedIsEmpty' /\ ReadsArePast' /\ CopiesFollow' /\ WatchesHold'
  <2>1. UNCHANGED <<redis, watching, losses, worker>>
    BY <1>8 DEF vars
  <2> QED
    BY <2>1 DEF At, UnversionedIsEmpty, ReadsArePast, CopiesFollow, WatchesHold, Rejected
<1>9. UnversionedIsEmpty' /\ ReadsArePast' /\ CopiesFollow' /\ WatchesHold'
  BY <1>2, <1>3, <1>4, <1>5, <1>6, <1>7, <1>8 DEF Next
<1> QED BY <1>1, <1>9

\* A write that goes through finds a key of its own version, or of a lower one
\* if the worker read it before the key was last removed.
LEMMA WriteFindsItsVersion ==
  ASSUME SaveInv, NEW w \in Worker, SaveExec(w), w \in watching
  PROVE  /\ ~redis.deleted
         /\ worker[w].life = losses => redis.work \subseteq worker[w].mine.work
         /\ redis'.work = worker[w].mine.work
<1>1. At(w, "saving") /\ ~redis.deleted /\ redis.version <= worker[w].mine.version
  BY DEF SaveInv, TypeOK, State, WorkerState, WatchesHold, Rejected
<1>2. ASSUME worker[w].life = losses PROVE redis.work \subseteq worker[w].mine.work
  <2>1. /\ worker[w].mine.version <= redis.version
        /\ worker[w].mine.version = redis.version => redis.work \subseteq worker[w].mine.work
    BY <1>1, <1>2 DEF SaveInv, CopiesFollow, Holding, At
  <2>2. worker[w].mine.version \in Nat /\ redis.version \in Nat
    BY DEF SaveInv, TypeOK, State, WorkerState
  <2> QED BY <1>1, <2>1, <2>2
<1>3. redis'.work = worker[w].mine.work
  BY DEF SaveExec, WriteKey, SaveInv, TypeOK, State, WorkerState
<1> QED BY <1>1, <1>2, <1>3

\* What a step does to the workers, with the one way to a backup set apart.
Moves(w) ==
  \/ worker' = [worker EXCEPT ![w].pc = worker'[w].pc] /\ ~At(w, "backup")'
  \/ worker' = [worker EXCEPT ![w] = worker'[w]] /\ ~At(w, "backup")'
  \/ SaveExec(w) /\ w \in watching

LEMMA WorkersMove ==
  ASSUME TypeOK, [Next]_vars
  PROVE  UNCHANGED worker \/ \E w \in Worker : Moves(w)
<1>1. ASSUME NEW w \in Worker, NEW step, step # "backup", Go(w, step) PROVE Moves(w)
  BY <1>1 DEF Go, Moves, TypeOK, At, WorkerState
<1>2. ASSUME NEW w \in Worker, Stop(w) PROVE Moves(w)
  BY <1>2 DEF Stop, Idle, Moves, TypeOK, At
<1>3. ASSUME NEW w \in Worker, NEW st, NEW attach, NEW n, Edit(w, st, attach, n)
      PROVE  Moves(w)
  BY <1>3 DEF Edit, Moves, TypeOK, At
<1>4. ASSUME NEW w \in Worker, NEW attach \in BOOLEAN, Load(w, attach) PROVE Moves(w)
  BY <1>3, <1>4 DEF Load, Idle, Moves, TypeOK, At
<1>5. ASSUME NEW w \in Worker, CheckMarker(w) \/ LoadFromStore(w) PROVE Moves(w)
  BY <1>1, <1>3, <1>5 DEF CheckMarker, LoadFromStore
<1>6. ASSUME NEW w \in Worker,
             SaveWatch(w) \/ SaveFails(w) \/ SaveBackup(w) \/ SetMarker(w) \/ Crash(w)
      PROVE  Moves(w)
  BY <1>1, <1>2, <1>6 DEF SaveWatch, SaveFails, SaveBackup, SetMarker, Crash
<1>7. ASSUME NEW w \in Worker, SaveExec(w) PROVE Moves(w)
  BY <1>2, <1>7 DEF SaveExec, Moves
<1>8. CASE DeleteKey \/ DeleteRow \/ UndeleteRead \/ UndeleteKey \/ LoseKey \/ MarkerExpires
  BY <1>8 DEF DeleteKey, DeleteRow, UndeleteRead, UndeleteKey, LoseKey, MarkerExpires
<1> QED BY <1>4, <1>5, <1>6, <1>7, <1>8 DEF Next, vars

\* Only SaveExec takes a worker to its backup, and only on an intact watch;
\* once there it keeps its copy.
LEMMA BackupsBegin ==
  ASSUME TypeOK, [Next]_vars, NEW w \in Worker, At(w, "backup")'
  PROVE  /\ worker'[w].mine = worker[w].mine
         /\ ~At(w, "backup") => SaveExec(w) /\ w \in watching
<1>1. ASSUME NEW v \in Worker, SaveExec(v), v \in watching
      PROVE  worker'[w].mine = worker[w].mine /\ (v = w \/ At(w, "backup"))
  BY <1>1 DEF SaveExec, Go, At, TypeOK, WorkerState
<1>2. ASSUME NEW v \in Worker, Moves(v), ~(SaveExec(v) /\ v \in watching)
      PROVE  worker'[w].mine = worker[w].mine /\ At(w, "backup")
  BY <1>2 DEF Moves, At, TypeOK, WorkerState
<1> QED BY <1>1, <1>2, WorkersMove DEF At

\* The key changes by a save on an intact watch, by the tombstone and by its
\* removal.
LEMMA KeyChanges ==
  ASSUME [Next]_vars
  PROVE  \/ UNCHANGED <<redis, losses>>
         \/ redis' = Tombstone /\ UNCHANGED losses
         \/ redis' = NoState /\ losses' = losses + 1
         \/ \E w \in Worker : SaveExec(w) /\ w \in watching
BY DEF Next, Load, CheckMarker, LoadFromStore, SaveWatch, SaveExec, SaveFails, SaveBackup,
       SetMarker, Crash, DeleteKey, DeleteRow, UndeleteRead, UndeleteKey, LoseKey,
       MarkerExpires, RemoveKey, WriteKey, rvars, vars

\* The database: its row changes by a backup and by a delete.
LEMMA BackupStep == ASSUME Inv, [Next]_vars PROVE BackupsFollow'
<1> SUFFICES ASSUME losses' = 0, ~redis'.deleted PROVE
      /\ store' \subseteq redis'.work
      /\ \A w \in Worker : At(w, "backup")' => worker'[w].mine.work \subseteq redis'.work
  BY DEF BackupsFollow, At
<1>1. losses = 0 /\ ~redis.deleted /\ redis.work \subseteq redis'.work
  <2>1. losses = 0
    <3>1. losses' \in {losses, losses + 1} /\ losses \in Nat
      BY KeyChanges DEF Inv, SaveInv, TypeOK, SaveExec
    <3> QED BY <3>1
  <2>2. \A w \in Worker : worker[w].life = losses
    BY <2>1 DEF Inv, SaveInv, ReadsArePast, TypeOK, WorkerState
  <2>3. ASSUME NEW w \in Worker, SaveExec(w), w \in watching
        PROVE  ~redis.deleted /\ redis.work \subseteq redis'.work
    BY <2>2, <2>3, WriteFindsItsVersion DEF Inv
  <2> QED
    BY <2>1, <2>3, KeyChanges DEF Inv, SaveInv, TypeOK, Tombstone
<1>2. /\ store \subseteq redis.work
      /\ \A w \in Worker : At(w, "backup") => worker[w].mine.work \subseteq redis.work
  BY <1>1 DEF Inv, BackupsFollow
<1>3. store' \subseteq redis'.work
  <2>1. \/ store' \in {store, {}}
        \/ \E w \in Worker : At(w, "backup") /\ store' = worker[w].mine.work
    BY DEF Next, Load, CheckMarker, LoadFromStore, SaveWatch, SaveExec, SaveFails, SaveBackup,
           Row, SetMarker, Crash, DeleteKey, DeleteRow, UndeleteRead, UndeleteKey, LoseKey,
           MarkerExpires, vars
  <2> QED BY <1>1, <1>2, <2>1
<1>4. ASSUME NEW w \in Worker, At(w, "backup")'
      PROVE  worker'[w].mine.work \subseteq redis'.work
  <2>1. /\ worker'[w].mine = worker[w].mine
        /\ ~At(w, "backup") => SaveExec(w) /\ w \in watching
    BY <1>4, BackupsBegin DEF Inv, SaveInv
  <2>2. ~At(w, "backup") => redis'.work = worker[w].mine.work
    BY <2>1, WriteFindsItsVersion DEF Inv
  <2> QED BY <1>1, <1>2, <2>1, <2>2
<1> QED BY <1>3, <1>4

\* The invariant of the shared session state.
THEOREM Invariance == Spec => []Inv
<1>1. Inv /\ [Next]_vars => Inv'
  BY SaveStep, BackupStep DEF Inv
<1> QED BY InitInv, <1>1, PTL DEF Spec

\* The types of the key, the row and the copies the workers hold
\* (SessionState, save and _save_to_store).
THEOREM SessionTypes == Spec => []TypeOK
<1>1. Inv => TypeOK
  BY DEF Inv, SaveInv
<1> QED BY Invariance, <1>1, PTL

\* save(): a worker that read the key since it was last removed overwrites no
\* checkpoint that holds an edit it does not have.
THEOREM NoUpdateIsLost == Spec => NoLostUpdate
<1>1. ASSUME Inv, [Next]_vars, NEW w \in Worker PROVE SaveKeeps(w)
  <2> SUFFICES ASSUME At(w, "saving"), At(w, "backup")', worker[w].life = losses
               PROVE  redis.work \subseteq redis'.work
    BY DEF SaveKeeps
  <2>1. SaveExec(w) /\ w \in watching
    BY <1>1, BackupsBegin DEF Inv, SaveInv, At
  <2> QED BY <1>1, <2>1, WriteFindsItsVersion DEF Inv
<1>2. Inv /\ [Next]_vars => [\A w \in Worker : SaveKeeps(w)]_vars
  BY <1>1
<1> QED BY Invariance, <1>2, PTL DEF Spec, NoLostUpdate

\* save() and delete(): no save ends a tombstone, not even one by a worker
\* that read the key before it was removed.
THEOREM TombstonesFence == Spec => TombstoneFences
<1>1. ASSUME Inv, [Next]_vars PROVE Fenced
  <2>1. ASSUME NEW w \in Worker, SaveExec(w), w \in watching PROVE ~redis.deleted
    BY <1>1, <2>1, WriteFindsItsVersion DEF Inv
  <2> QED BY <1>1, <2>1, KeyChanges DEF Fenced, Tombstoned
<1>2. Inv /\ [Next]_vars => [Fenced]_vars
  BY <1>1
<1> QED BY Invariance, <1>2, PTL DEF Spec, TombstoneFences

\* save(): the backup follows a write Redis has accepted, so the row is never
\* ahead of the key.
THEOREM StoreFollows == Spec => []StoreNeverAhead
<1>1. Inv => StoreNeverAhead
  BY DEF Inv, BackupsFollow, StoreNeverAhead, Live
<1> QED BY Invariance, <1>1, PTL
=============================================================================
