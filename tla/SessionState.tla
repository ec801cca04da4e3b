---------------------------- MODULE SessionState ----------------------------
(***************************************************************************)
(* The session state of one conversation that several workers share        *)
(* (proxy/session_state.py): a Redis key, which is authoritative, the      *)
(* engine_state row of the database behind it, and the vc:store_stale      *)
(* marker between them.  A request, or VCATTACH on the conversation it     *)
(* attaches to, loads the state, changes its copy and saves it with a      *)
(* compare-and-set on the version; the dashboard deletes the conversation  *)
(* behind a tombstone and VCATTACH takes the tombstone away again.         *)
(*                                                                         *)
(* A checkpoint is the set of the edits it contains.  Redis may refuse a   *)
(* command, a worker may die between two of its steps, and a key may       *)
(* expire or be evicted.                                                   *)
(***************************************************************************)
EXTENDS Integers

CONSTANTS
    Worker,          \* the workers that load and save the state
    MaxEdits,        \* bound on the requests
    MaxLoss,         \* bound on the removals of the key
    MaxVersion,      \* _MAX_VERSION, the version of a tombstone
    CarriesVersion   \* does a request save under the version it loaded?

ASSUME SessionAssumption ==
    /\ MaxEdits \in Nat /\ MaxLoss \in Nat /\ MaxVersion \in Nat
    /\ CarriesVersion \in BOOLEAN

VARIABLES
    redis,      \* vc:session:<conversation>: a State, NoState if absent
    watching,   \* the workers whose WATCH on that key no write has broken
    losses,     \* the removals of the key so far
    stale,      \* is vc:store_stale:<conversation> set?
    store,      \* the engine_state row: its edits, {} if there is no row
    worker,     \* what each worker is doing
    edits,      \* the edits begun so far
    admin       \* where delete() and undelete() stand

rvars == <<redis, watching, losses>>
vars  == <<redis, watching, losses, stale, store, worker, edits, admin>>

State   == [deleted : BOOLEAN, version : Nat, work : SUBSET Nat]
NoState == [deleted |-> FALSE, version |-> 0, work |-> {}]

Tombstoned == redis.deleted
Live       == redis # NoState /\ ~redis.deleted

\* A worker: its next step, the state it has in hand, how often the key had
\* been removed when it read it, and whether it is in VCATTACH rather than
\* in a request.
WorkerState ==
    [pc     : {"idle", "missed", "fallback", "loaded", "saving", "backup",
               "mark", "unmark"},
     mine   : State,
     life   : Nat,
     attach : BOOLEAN]

Idle == [pc |-> "idle", mine |-> NoState, life |-> 0, attach |-> FALSE]

TypeOK ==
    /\ redis \in State
    /\ watching \subseteq Worker
    /\ losses \in Nat
    /\ stale \in BOOLEAN
    /\ store \in SUBSET Nat
    /\ worker \in [Worker -> WorkerState]
    /\ edits \in Nat
    /\ admin \in {"idle", "row", "row-after-error", "deleted", "undelete"}

Init ==
    /\ redis = NoState /\ watching = {} /\ losses = 0
    /\ stale = FALSE /\ store = {}
    /\ worker = [w \in Worker |-> Idle]
    /\ edits = 0 /\ admin = "idle"

At(w, step) == worker[w].pc = step
Go(w, step) == worker' = [worker EXCEPT ![w].pc = step]
Stop(w)     == worker' = [worker EXCEPT ![w] = Idle]

-----------------------------------------------------------------------------
(***************************************************************************)
(* load().                                                                 *)
(***************************************************************************)

\* Mutant: the copy is one version behind what was loaded.
ExtractedBehind(st) == [st EXCEPT !.deleted = FALSE, !.version = @ - 1]

\* extract_session_state: a request's copy.  It has no version of its own, so
\* it is 0 unless the caller restores the loaded one.
Extracted(st) ==
    [st EXCEPT !.deleted = FALSE,
               !.version = IF CarriesVersion THEN @ ELSE 0]

\* derive_session_state_markers: VCATTACH's copy.  What can be derived from
\* the turns is replaced, everything else is carried along, the version and
\* the deleted flag too.
Derived(st) == st

Edited(st, attach) ==
    [(IF attach THEN Derived(st) ELSE Extracted(st))
        EXCEPT !.work = @ \cup {edits + 1}]

\* A worker has what load() returned and makes its own edit to it.
Edit(w, st, attach, life) ==
    /\ edits < MaxEdits /\ edits' = edits + 1
    /\ worker' = [worker EXCEPT ![w] =
          [pc |-> "loaded", mine |-> Edited(st, attach), life |-> life,
           attach |-> attach]]

\* GET on the key.  Without an answer, because the key is absent or Redis
\* raises, load() turns to the row.  A request stops at a tombstone, VCATTACH
\* goes on with it.
Load(w, attach) ==
    /\ At(w, "idle")
    /\ \/ /\ worker' = [worker EXCEPT ![w] =
                [Idle EXCEPT !.pc = "missed", !.life = losses,
                             !.attach = attach]]
          /\ UNCHANGED edits
       \/ redis # NoState /\ (Tombstoned => attach)
          /\ Edit(w, redis, attach, losses)
    /\ UNCHANGED <<rvars, stale, store, admin>>

\* _load_from_store: refuses a row that is marked stale, or whose marker it
\* cannot read.
CheckMarker(w) ==
    /\ At(w, "missed")
    /\ \/ Edit(w, NoState, worker[w].attach, worker[w].life)
       \/ ~stale /\ Go(w, "fallback") /\ UNCHANGED edits
    /\ UNCHANGED <<rvars, stale, store, admin>>

\* The row has no version and no deleted flag.
Row(st)      == st.work
FromRow(row) == [NoState EXCEPT !.work = row]

LoadFromStore(w) ==
    /\ At(w, "fallback")
    /\ Edit(w, FromRow(store), worker[w].attach, worker[w].life)
    /\ UNCHANGED <<rvars, stale, store, admin>>

-----------------------------------------------------------------------------
(***************************************************************************)
(* save().                                                                 *)
(***************************************************************************)

\* Mutant: the deleted flag is not looked at, only the version.
RejectsOlder(st) == redis.version > st.version

\* WATCH and GET.  A write between the two breaks the watch, so the two are
\* one step.
Rejected(st) == redis.deleted \/ redis.version > st.version

SaveWatch(w) ==
    /\ At(w, "loaded")
    /\ IF Rejected(worker[w].mine)
       THEN Stop(w) /\ UNCHANGED watching
       ELSE Go(w, "saving") /\ watching' = watching \cup {w}
    /\ UNCHANGED <<redis, losses, stale, store, edits, admin>>

\* Every write to the key breaks every watch on it.
WriteKey(value) == redis' = value /\ watching' = {}

\* Mutant: the SET without the WATCH.
SaveUnwatched(w) ==
    /\ At(w, "saving")
    /\ WriteKey([worker[w].mine EXCEPT !.version = @ + 1])
    /\ Go(w, "backup")
    /\ UNCHANGED <<losses, stale, store, edits, admin>>

\* MULTI, SET, EXEC: the write happens only if the watch is intact.
SaveExec(w) ==
    /\ At(w, "saving")
    /\ IF w \in watching
       THEN /\ WriteKey([worker[w].mine EXCEPT !.version = @ + 1])
            /\ Go(w, "backup")
       ELSE Stop(w) /\ UNCHANGED <<redis, watching>>
    /\ UNCHANGED <<losses, stale, store, edits, admin>>

\* Mutant: the backup is written although Redis raised.
SaveFailsOver(w) ==
    /\ worker[w].pc \in {"loaded", "saving"}
    /\ store' = Row(worker[w].mine)
    /\ Stop(w) /\ watching' = watching \ {w}
    /\ UNCHANGED <<redis, losses, stale, edits, admin>>

\* Redis raises before the write, or the worker dies: no backup either.
SaveFails(w) ==
    /\ worker[w].pc \in {"loaded", "saving"}
    /\ Stop(w) /\ watching' = watching \ {w}
    /\ UNCHANGED <<redis, losses, stale, store, edits, admin>>

\* _save_to_store: an upsert without any comparison with the row it replaces.
SaveBackup(w) ==
    /\ At(w, "backup")
    /\ \/ store' = Row(worker[w].mine) /\ Go(w, "unmark")
       \/ store' = store /\ Go(w, "mark")
    /\ UNCHANGED <<rvars, stale, edits, admin>>

\* The marker is set after a failed backup and removed after a good one;
\* each may itself fail, silently.
SetMarker(w) ==
    /\ worker[w].pc \in {"mark", "unmark"}
    /\ stale' \in {stale, At(w, "mark")}
    /\ Stop(w)
    /\ UNCHANGED <<rvars, store, edits, admin>>

\* The worker dies, or loses the connection after Redis has executed the
\* save and before it reads the reply.
Crash(w) ==
    /\ worker[w].pc \in {"missed", "fallback", "backup"}
    /\ Stop(w)
    /\ UNCHANGED <<rvars, stale, store, edits, admin>>

-----------------------------------------------------------------------------
(***************************************************************************)
(* delete() and undelete().                                                *)
(***************************************************************************)
Tombstone == [deleted |-> TRUE, version |-> MaxVersion, work |-> {}]

\* The tombstone is written, or Redis refuses it; delete() goes on to the
\* row in both cases and raises at the end.
DeleteKey ==
    /\ admin \in {"idle", "deleted"}
    /\ \/ WriteKey(Tombstone) /\ admin' = "row"
       \/ UNCHANGED <<redis, watching>> /\ admin' = "row-after-error"
    /\ UNCHANGED <<losses, stale, store, worker, edits>>

DeleteRow ==
    /\ admin \in {"row", "row-after-error"}
    /\ \/ /\ store' = {}
          /\ admin' = IF admin = "row" THEN "deleted" ELSE "idle"
       \/ store' = store /\ admin' = "idle"
    /\ UNCHANGED <<rvars, stale, worker, edits>>

\* Once the key is gone, whatever a worker read from it is out of date.
RemoveKey ==
    /\ losses < MaxLoss
    /\ WriteKey(NoState) /\ losses' = losses + 1

\* undelete() reads the key and then removes it, without a watch.
UndeleteRead ==
    /\ admin \in {"idle", "deleted"} /\ Tombstoned
    /\ admin' = "undelete"
    /\ UNCHANGED <<rvars, stale, store, worker, edits>>

UndeleteKey ==
    /\ admin = "undelete"
    /\ RemoveKey \/ UNCHANGED rvars
    /\ admin' = "idle"
    /\ UNCHANGED <<stale, store, worker, edits>>

-----------------------------------------------------------------------------
(***************************************************************************)
(* Time and failures.                                                      *)
(***************************************************************************)

\* Redis drops the key: a tombstone after its day, any key under memory
\* pressure or with the Redis process, which takes the marker along.
LoseKey ==
    /\ redis # NoState
    /\ RemoveKey
    /\ stale' \in {stale, FALSE}
    /\ UNCHANGED <<store, worker, edits, admin>>

\* The marker has a time to live of five minutes.
MarkerExpires ==
    /\ stale /\ stale' = FALSE
    /\ UNCHANGED <<rvars, store, worker, edits, admin>>

-----------------------------------------------------------------------------
Next ==
    \/ \E w \in Worker :
          \/ \E attach \in BOOLEAN : Load(w, attach)
          \/ CheckMarker(w) \/ LoadFromStore(w)
          \/ SaveWatch(w) \/ SaveExec(w) \/ SaveFails(w)
          \/ SaveBackup(w) \/ SetMarker(w) \/ Crash(w)
    \/ DeleteKey \/ DeleteRow \/ UndeleteRead \/ UndeleteKey
    \/ LoseKey \/ MarkerExpires

Spec == Init /\ [][Next]_vars

-----------------------------------------------------------------------------
(***************************************************************************)
(* Properties.                                                             *)
(***************************************************************************)

\* save(): "an in-flight stale worker cannot overwrite a newer checkpoint or
\* a delete tombstone".  As long as nobody removes the key, and for a worker
\* that read it since it was last removed, a save keeps every edit that is in
\* Redis, however the saves of the other workers fall between its load, its
\* WATCH and its EXEC.
SaveKeeps(w) ==
    At(w, "saving") /\ At(w, "backup")' /\ worker[w].life = losses
       => redis.work \subseteq redis'.work

NoLostUpdate == [][\A w \in Worker : SaveKeeps(w)]_vars

\* A tombstone stays until it is taken away by name: only undelete(), its
\* expiry or the loss of the key end it, and no save does, whatever version
\* its worker holds: VCATTACH may have loaded the tombstone's own.
Fenced == Tombstoned => redis' \in {redis, NoState, Tombstone}

TombstoneFences == [][Fenced]_vars

\* save() backs up only what Redis has accepted, so that load() never trusts
\* "the stale Redis copy over the newer store": until the key is first lost,
\* the row holds no edit that a live key does not hold.
StoreNeverAhead ==
    losses = 0 /\ Live => store \subseteq redis.work

\* delete(): "Postgres delete prevents resurrection".  After a delete that
\* reported success there is no row under the tombstone.
DeletedRowStaysGone == admin = "deleted" /\ Tombstoned => store = {}
=============================================================================
