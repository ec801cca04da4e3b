---------------------------- MODULE IngestionEpisode ----------------------------
(****************************************************************************)
(* Who tags the rows that requests store, and how an ingestion comes to its *)
(* end: the part of handle_prepare_payload after the phase gate, the        *)
(* server's dispatch, the ingestion thread (the pair-based pass, then the   *)
(* row-based sweep _tagger_run), its heartbeat sidecar, the self-heal and   *)
(* the crash of a worker (proxy/state.py, proxy/server.py).                 *)
(*                                                                          *)
(* A worker is one ProxyState; a crashed one does not come back (its        *)
(* successor has a new worker id).  Row k is the k-th turn of the           *)
(* conversation; a payload of n turns stores rows 1 to n.  Compaction, which*)
(* CompactionTakeover has in detail, is three steps here: enter, close, and *)
(* drain.  verify_epoch immediately before a statement that filters on the  *)
(* same epoch is one step with it.                                          *)
(****************************************************************************)
EXTENDS Naturals, FiniteSets, FiniteSetsExt

CONSTANTS
  Worker,      \* worker ids
  NRow,        \* turns of the longest payload
  MaxEpoch,    \* bound on conversations.lifecycle_epoch
  Slot,        \* ingestion threads one process may have alive at once
  Batch,       \* batch_size of the sweep (32 in the code)
  Mortal,      \* workers that may crash
  MaxPost,     \* bound on the requests, or None
  MaxLapse,    \* bound on leases that lapse although their owner lives
  None

ASSUME EpisodeAssumption ==
  /\ NRow \in Nat \ {0} /\ MaxEpoch \in Nat \ {0} /\ Batch \in Nat \ {0}
  /\ MaxLapse \in Nat /\ MaxPost \in Nat \cup {None} /\ Mortal \subseteq Worker
  /\ None \notin Worker \cup Slot

VARIABLES
  phase,     \* conversations.phase
  epoch,     \* conversations.lifecycle_epoch
  episode,   \* the running ingestion_episode of each epoch, or NoEpisode
  row,       \* canonical_turns: absent, untagged or tagged
  compactor, \* per worker: its compaction is off, running or about to drain
  up,        \* workers whose process lives
  mem,       \* per worker: what the ProxyState and its engine remember
  thread,    \* per worker and slot: an ingestion thread
  sidecar,   \* per worker: the epochs its heartbeat sidecars refresh
  rq,        \* per worker: the request in progress
  posts,     \* requests so far
  lapses,    \* leases that lapsed so far
  dropped    \* history: a worker or a lifecycle ended with work in its hands

storeVars == <<phase, epoch, episode, row>>
vars == <<phase, epoch, episode, row, compactor, up, mem, thread, sidecar, rq,
          posts, lapses, dropped>>

Row == 1..NRow
Epoch == 1..MaxEpoch
Untagged == {r \in Row : row[r] = "untagged"}
Present == {r \in Row : row[r] # "absent"}

NoEpisode == [owner |-> None, fresh |-> FALSE]
NoThread == [pc |-> "off", ep |-> 0, todo |-> {}, upto |-> 0]
NoRequest == [pc |-> "idle", ep |-> 0, seen |-> "init", n |-> 0, owns |-> FALSE,
              tagged |-> FALSE]
NewMemory == [epoch |-> 1, index |-> 0, hist |-> 0,
              ingested |-> FALSE, state |-> "active", cancel |-> FALSE,
              current |-> None]

ThreadPc == {"off", "read", "pairs", "caught", "sweep", "fetch", "tag", "mark",
             "complete", "retry", "activate", "post"}
RequestPc == {"idle", "gate", "snapshot", "toActive", "toIngesting", "upsert",
              "claim", "healClaim", "healComplete", "healActivate",
              "dispatch", "resume", "start", "join", "finalize",
              "finalActivate", "reply", "record"}

TypeOK ==
  /\ phase \in {"init", "ingesting", "compacting", "active", "deleted"}
  /\ epoch \in Epoch
  /\ episode \in [Epoch -> [owner : Worker \cup {None}, fresh : BOOLEAN]]
  /\ row \in [Row -> {"absent", "untagged", "tagged"}]
  /\ compactor \in [Worker -> {"off", "run", "drain"}]
  /\ up \subseteq Worker
  /\ mem \in [Worker -> [epoch : Epoch, index : 0..NRow, hist : 0..NRow,
                         ingested : BOOLEAN,
                         state : {"active", "ingesting"}, cancel : BOOLEAN,
                         current : Slot \cup {None}]]
  /\ thread \in [Worker -> [Slot -> [pc : ThreadPc, ep : 0..MaxEpoch,
                                     todo : SUBSET Row, upto : 0..NRow]]]
  /\ sidecar \in [Worker -> SUBSET Epoch]
  /\ rq \in [Worker -> [pc : RequestPc, ep : 0..MaxEpoch, n : 0..NRow,
                        owns : BOOLEAN, tagged : BOOLEAN,
                        seen : {"init", "ingesting", "active", "deleted"}]]
  /\ posts \in Nat /\ lapses \in 0..MaxLapse
  /\ dropped \in BOOLEAN

Init ==
  /\ phase = "init" /\ epoch = 1
  /\ episode = [e \in Epoch |-> NoEpisode]
  /\ row = [r \in Row |-> "absent"]
  /\ compactor = [w \in Worker |-> "off"]
  /\ up = Worker
  /\ mem = [w \in Worker |-> NewMemory]
  /\ thread = [w \in Worker |-> [t \in Slot |-> NoThread]]
  /\ sidecar = [w \in Worker |-> {}]
  /\ rq = [w \in Worker |-> NoRequest]
  /\ posts = 0 /\ lapses = 0 /\ dropped = FALSE

-----------------------------------------------------------------------------
(* The statements.                                                          *)

Running(e) == episode[e].owner # None

\* Mutant: the claim does not look at the heartbeat's age.
ClaimableByOwner(w, e) == Running(e) /\ episode[e].owner = w

\* The UPDATE of claim_ingestion_lease; it reads the episode's epoch only.
Claimable(w, e) == Running(e) /\ (episode[e].owner = w \/ ~episode[e].fresh)

Own(w) == [owner |-> w, fresh |-> TRUE]

ClaimIngestionLease(w, e) ==
  episode' = IF Claimable(w, e) THEN [episode EXCEPT ![e] = Own(w)] ELSE episode

\* INSERT ... ON CONFLICT widens a counter only: the owner stays.
UpsertIngestionEpisode(w, e) ==
  episode' = IF Running(e) THEN episode ELSE [episode EXCEPT ![e] = Own(w)]

\* refresh_ingestion_heartbeat and complete_ingestion_episode compare the
\* caller, the episode's epoch and the conversation's epoch.
OwnsEpisode(w, e) == e = epoch /\ episode[e].owner = w

RefreshIngestionHeartbeat(w, e) ==
  episode' = IF OwnsEpisode(w, e) THEN [episode EXCEPT ![e].fresh = TRUE]
             ELSE episode

\* Mutant: the completion without its NOT EXISTS.
CompletableAnyway(w, e) == OwnsEpisode(w, e)

\* ... and the completion, in the same UPDATE, that no untagged row is left.
Completable(w, e) == OwnsEpisode(w, e) /\ Untagged = {}

CompleteIngestionEpisode(w, e) ==
  episode' = IF Completable(w, e) THEN [episode EXCEPT ![e] = NoEpisode]
             ELSE episode

SetPhase(e, p) == phase' = IF e = epoch THEN p ELSE phase

\* Stale callers read no row.
IterUntagged(e) == IF e = epoch THEN Untagged ELSE {}

FirstRows(S, k) == {r \in S : Cardinality({x \in S : x < r}) < k}

-----------------------------------------------------------------------------
(* The request, up to the lease.                                            *)

RequestAt(w, pc) == w \in up /\ rq[w].pc = pc
Answer(w) == rq' = [rq EXCEPT ![w] = NoRequest]
RequestTo(w, pc) == rq' = [rq EXCEPT ![w].pc = pc]
Dispatch(w, owns) ==
  rq' = [rq EXCEPT ![w].pc = "dispatch", ![w].owns = owns]

\* The upstream's answer completes turn n + 1: recorded after a passthrough,
\* tagged too after an enriched request.
Forward(w, pc) == IF rq[w].n < NRow THEN RequestTo(w, pc) ELSE Answer(w)

\* The self-heal is part of the request, or follows the tagging of its reply.
Healed(w) == IF rq[w].tagged THEN Answer(w) ELSE Dispatch(w, FALSE)

restVars == <<compactor, up, thread, sidecar, posts, lapses>>

\* verify_epoch and ingest_batch, guarded by the same epoch.
ReceivePayload(w) ==
  /\ RequestAt(w, "idle") /\ mem[w].epoch = epoch
  /\ \E n \in Row :
       /\ n >= Cardinality(Present)
       /\ row' = [r \in Row |-> IF r <= n /\ row[r] = "absent" THEN "untagged"
                                ELSE row[r]]
       /\ rq' = [rq EXCEPT ![w] = [NoRequest EXCEPT !.pc = "gate", !.n = n,
                                                    !.ep = epoch]]
  /\ IF MaxPost = None THEN UNCHANGED posts
     ELSE posts < MaxPost /\ posts' = posts + 1
  /\ UNCHANGED <<phase, epoch, episode, mem, dropped, compactor, up, thread,
                 sidecar, lapses>>

\* LifecycleEpochMismatch: the request fails with the rows stored.
Mismatch(w) ==
  /\ w \in up /\ rq[w].pc \in {"gate", "toActive", "toIngesting"}
  /\ rq[w].ep # epoch
  /\ Answer(w) /\ dropped' = TRUE
  /\ UNCHANGED <<storeVars, mem, restVars>>

CompactionRunning == \E w \in Worker : compactor[w] = "run"

\* The phase gate: a deleted conversation is resurrected, an orphan
\* 'compacting' repaired; a live compaction ends the request here.
Gate(w) ==
  /\ RequestAt(w, "gate") /\ rq[w].ep = epoch
  /\ \/ /\ phase = "deleted"
        /\ epoch' = epoch + 1 /\ phase' = "init"
        /\ episode' = [e \in Epoch |-> IF e <= epoch THEN NoEpisode ELSE episode[e]]
        /\ mem' = [mem EXCEPT ![w].epoch = epoch + 1]
        /\ rq' = [rq EXCEPT ![w].pc = "snapshot", ![w].ep = epoch + 1,
                            ![w].seen = "deleted"]
     \/ /\ phase = "compacting" /\ CompactionRunning
        /\ Dispatch(w, FALSE)
        /\ UNCHANGED <<phase, epoch, episode, mem>>
     \/ /\ phase = "compacting" /\ ~CompactionRunning
        /\ phase' = "active"
        /\ rq' = [rq EXCEPT ![w].pc = "snapshot", ![w].seen = "active"]
        /\ UNCHANGED <<epoch, episode, mem>>
     \/ /\ phase \in {"init", "ingesting", "active"}
        /\ rq' = [rq EXCEPT ![w].pc = "snapshot", ![w].seen = phase]
        /\ UNCHANGED <<phase, epoch, episode, mem>>
  /\ UNCHANGED <<row, dropped, restVars>>

\* Step 5.5: the branch is taken on the totals read now and on the phase read
\* before (re-read after a resurrection).
Snapshot(w) ==
  LET seen == IF rq[w].seen = "deleted" THEN phase ELSE rq[w].seen IN
  /\ RequestAt(w, "snapshot")
  /\ \/ /\ Untagged = {} /\ seen = "init" /\ RequestTo(w, "toActive")
     \/ /\ Untagged = {} /\ seen = "ingesting" /\ RequestTo(w, "healClaim")
     \/ /\ Untagged = {} /\ seen \notin {"init", "ingesting"} /\ Dispatch(w, FALSE)
     \/ /\ Untagged # {} /\ seen \in {"init", "active"}
        /\ RequestTo(w, "toIngesting")
     \/ /\ Untagged # {} /\ seen \notin {"init", "active"} /\ RequestTo(w, "upsert")
  /\ UNCHANGED <<storeVars, mem, dropped, restVars>>

ToActive(w) ==
  /\ RequestAt(w, "toActive") /\ rq[w].ep = epoch
  /\ SetPhase(rq[w].ep, "active") /\ Dispatch(w, FALSE)
  /\ UNCHANGED <<epoch, episode, row, mem, dropped, restVars>>

ToIngesting(w) ==
  /\ RequestAt(w, "toIngesting") /\ rq[w].ep = epoch
  /\ SetPhase(rq[w].ep, "ingesting") /\ RequestTo(w, "upsert")
  /\ UNCHANGED <<epoch, episode, row, mem, dropped, restVars>>

Upsert(w) ==
  /\ RequestAt(w, "upsert")
  /\ UpsertIngestionEpisode(w, rq[w].ep) /\ RequestTo(w, "claim")
  /\ UNCHANGED <<phase, epoch, row, mem, dropped, restVars>>

Claim(w) ==
  /\ RequestAt(w, "claim")
  /\ ClaimIngestionLease(w, rq[w].ep) /\ Dispatch(w, Claimable(w, rq[w].ep))
  /\ UNCHANGED <<phase, epoch, row, mem, dropped, restVars>>

\* _finalize_ingestion_if_complete: claim, complete, then the phase.
HealClaim(w) ==
  /\ RequestAt(w, "healClaim")
  /\ \/ /\ phase = "ingesting" /\ Untagged = {} /\ Claimable(w, mem[w].epoch)
        /\ ClaimIngestionLease(w, mem[w].epoch) /\ RequestTo(w, "healComplete")
     \/ /\ ~(phase = "ingesting" /\ Untagged = {} /\ Claimable(w, mem[w].epoch))
        /\ Healed(w) /\ UNCHANGED episode
  /\ UNCHANGED <<phase, epoch, row, mem, dropped, restVars>>

HealComplete(w) ==
  LET e == mem[w].epoch IN
  /\ RequestAt(w, "healComplete")
  /\ CompleteIngestionEpisode(w, e)
  /\ IF Completable(w, e) THEN RequestTo(w, "healActivate") ELSE Healed(w)
  /\ UNCHANGED <<phase, epoch, row, mem, dropped, restVars>>

HealActivate(w) ==
  /\ RequestAt(w, "healActivate")
  /\ SetPhase(mem[w].epoch, "active") /\ Healed(w)
  /\ mem' = IF mem[w].epoch = epoch THEN [mem EXCEPT ![w].state = "active"] ELSE mem
  /\ UNCHANGED <<epoch, episode, row, dropped, restVars>>

-----------------------------------------------------------------------------
(* The server's dispatch and the start of an ingestion.                     *)

Pending(w) == mem[w].hist > mem[w].index
HistoryIngested(w) == mem[w].ingested /\ ~Pending(w)
Alive(w) == mem[w].current # None /\ thread[w][mem[w].current].pc # "off"

\* Mutant: the turn the request opens is counted among its completed turns.
PassthroughWithOpenTurn(w, m) ==
  mem' = [mem EXCEPT ![w].hist = IF HistoryIngested(w) THEN @ ELSE rq[w].n + 1]

\* A request that is not answered from a ready index keeps its payload, as
\* conversation_history and as the _latest_body the catch-up loop looks at.
Passthrough(w, m) ==
  mem' = [mem EXCEPT ![w].hist = IF HistoryIngested(w) THEN @ ELSE rq[w].n]

\* resolve_prepare_state and the branches of the dispatch.
Route(w) ==
  LET m == mem[w]  n == rq[w].n
      ready == m.ingested \/ (m.index > 0 /\ m.index >= n) IN
  /\ RequestAt(w, "dispatch")
  /\ \/ /\ m.state = "ingesting"
        /\ Passthrough(w, m)
        /\ IF rq[w].owns /\ ~HistoryIngested(w) THEN RequestTo(w, "start")
           ELSE Forward(w, "record")
     \/ /\ m.state = "active" /\ Pending(w) /\ rq[w].owns
        /\ RequestTo(w, "resume") /\ UNCHANGED mem
     \/ /\ m.state = "active" /\ Pending(w) /\ ~rq[w].owns
        /\ Passthrough(w, m) /\ Forward(w, "record")
     \/ /\ m.state = "active" /\ ~Pending(w) /\ ready
        /\ mem' = [mem EXCEPT ![w].ingested = TRUE] /\ Forward(w, "reply")
     \/ /\ m.state = "active" /\ ~Pending(w) /\ ~ready
        /\ Passthrough(w, m)
        /\ IF rq[w].owns THEN RequestTo(w, "start") ELSE Forward(w, "record")
  /\ UNCHANGED <<storeVars, dropped, restVars>>

\* _spawn_ingestion_workers: a new sidecar and a new thread.  The cancel flag
\* is whatever m says: nothing here clears it.
SpawnIngestionWorkers(w, upto, m, kept) ==
  \E t \in {s \in Slot : thread[w][s].pc = "off"} :
    /\ thread' = [thread EXCEPT ![w][t] =
                    [NoThread EXCEPT !.pc = "read", !.upto = upto]]
    /\ mem' = [mem EXCEPT ![w] = [m EXCEPT !.current = t, !.state = "ingesting"]]
    /\ sidecar' = [sidecar EXCEPT ![w] = kept \cup {m.epoch}]

\* resume_pending_ingestion_if_needed; after a spawn the same request starts
\* an ingestion too (the state it reads next is INGESTING).
Resume(w) ==
  LET e == mem[w].epoch  m == mem[w] IN
  /\ RequestAt(w, "resume")
  /\ ClaimIngestionLease(w, e)
  /\ \/ /\ Claimable(w, e) /\ ~Alive(w)
        /\ SpawnIngestionWorkers(w, m.hist, [m EXCEPT !.hist = rq[w].n], sidecar[w])
        /\ RequestTo(w, "start")
     \/ /\ Alive(w) \/ ~Claimable(w, e)
        /\ Forward(w, "reply") /\ UNCHANGED <<mem, thread, sidecar>>
  /\ UNCHANGED <<phase, epoch, row, compactor, up, posts, lapses, dropped>>

\* _another_worker_owns_lease reads the episode of the current epoch.
AnotherOwner(w) == Running(epoch) /\ episode[epoch].owner # w

\* start_ingestion_if_needed.
StartIngestion(w) ==
  LET m == mem[w]  n == rq[w].n IN
  /\ RequestAt(w, "start")
  /\ \/ /\ AnotherOwner(w) \/ m.ingested
        /\ Forward(w, "record") /\ UNCHANGED <<mem, thread, sidecar>>
     \/ /\ ~AnotherOwner(w) /\ ~m.ingested /\ m.index >= n
        /\ mem' = [mem EXCEPT ![w].ingested = TRUE]
        /\ Forward(w, "record") /\ UNCHANGED <<thread, sidecar>>
     \/ /\ ~AnotherOwner(w) /\ ~m.ingested /\ m.index < n /\ ~Alive(w)
        /\ SpawnIngestionWorkers(w, n, m, sidecar[w]) /\ Forward(w, "record")
     \/ /\ ~AnotherOwner(w) /\ ~m.ingested /\ m.index < n /\ Alive(w)
        /\ mem' = [mem EXCEPT ![w].cancel = TRUE]
        /\ RequestTo(w, "join") /\ UNCHANGED <<thread, sidecar>>
  /\ UNCHANGED <<storeVars, compactor, up, posts, lapses, dropped>>

\* The old thread has exited, or join(timeout=5.0) gave up on it.  The flag is
\* cleared either way, and a sidecar busy in a refresh has missed it.
Join(w) ==
  LET m == [mem[w] EXCEPT !.cancel = FALSE]  n == rq[w].n IN
  /\ RequestAt(w, "join")
  /\ \E kept \in SUBSET sidecar[w] :
       \/ /\ m.index >= n /\ RequestTo(w, "finalize")
          /\ mem' = [mem EXCEPT ![w] = m]
          /\ sidecar' = [sidecar EXCEPT ![w] = kept] /\ UNCHANGED thread
       \/ /\ m.index < n /\ Forward(w, "record")
          /\ SpawnIngestionWorkers(w, n, m, kept)
  /\ UNCHANGED <<storeVars, compactor, up, posts, lapses, dropped>>

\* _finalize_legacy_ingestion, for a request whose turns are all indexed.
Finalize(w) ==
  LET e == mem[w].epoch IN
  /\ RequestAt(w, "finalize")
  /\ CompleteIngestionEpisode(w, e)
  /\ IF Completable(w, e) THEN RequestTo(w, "finalActivate") ELSE Forward(w, "record")
  /\ UNCHANGED <<phase, epoch, row, mem, dropped, restVars>>

FinalActivate(w) ==
  /\ RequestAt(w, "finalActivate")
  /\ SetPhase(mem[w].epoch, "active") /\ Forward(w, "record")
  /\ mem' = IF mem[w].epoch = epoch
            THEN [mem EXCEPT ![w].ingested = TRUE, ![w].state = "active"] ELSE mem
  /\ UNCHANGED <<epoch, episode, row, dropped, restVars>>

\* The end of a request without tagging: the answer joins the history.
Record(w) ==
  /\ RequestAt(w, "record")
  /\ \E h \in {mem[w].hist, mem[w].hist + 1} \cap (0..NRow) :
       mem' = [mem EXCEPT ![w].hist = h]
  /\ Answer(w)
  /\ UNCHANGED <<storeVars, dropped, restVars>>

\* fire_turn_complete and _run_tag_turn after an enriched request.  The turn's
\* number is its place in the worker's history, which may have been rebuilt
\* from the payload; its row is saved unless the tagging asks for a compaction.
Reply(w) ==
  LET m == mem[w] IN
  /\ RequestAt(w, "reply")
  /\ \/ /\ Answer(w) /\ UNCHANGED <<row, mem>>
     \/ /\ m.state = "ingesting"
        /\ mem' = [mem EXCEPT ![w].hist = Min({m.hist + 1, NRow})]
        /\ Answer(w) /\ UNCHANGED row
     \/ /\ m.state = "active"
        /\ \E c \in {m.hist, rq[w].n} :
             /\ c < NRow /\ c >= m.index
             /\ mem' = [mem EXCEPT ![w].hist = c + 1, ![w].index = c + 1]
        /\ \E saved \in {"tagged", row[rq[w].n + 1]} :
             row' = [row EXCEPT ![rq[w].n + 1] = saved]
        /\ rq' = [rq EXCEPT ![w].pc = "healClaim", ![w].tagged = TRUE]
  /\ UNCHANGED <<phase, epoch, episode, dropped, restVars>>

-----------------------------------------------------------------------------
(* The ingestion thread.                                                    *)

ThreadAt(w, t, pc) == w \in up /\ thread[w][t].pc = pc
ThreadTo(w, t, pc) == thread' = [thread EXCEPT ![w][t].pc = pc]
ThreadEnds(w, t) == thread' = [thread EXCEPT ![w][t] = NoThread]
ThreadHolds(w, t, pc, todo) ==
  thread' = [thread EXCEPT ![w][t].pc = pc, ![w][t].todo = todo]

threadRest == <<compactor, up, sidecar, rq, posts, lapses, dropped>>

\* ingest_history in strict mode reads the untagged rows once, and gives up
\* when they are fewer than the turns it has to place.
ReadStrictRows(w, t) ==
  LET m == mem[w]  rows == IterUntagged(m.epoch)
      turns == IF thread[w][t].upto > m.index THEN thread[w][t].upto - m.index ELSE 0 IN
  /\ ThreadAt(w, t, "read")
  /\ \/ Cardinality(rows) < turns /\ ThreadTo(w, t, "sweep")
     \/ turns = 0 /\ ThreadTo(w, t, "caught")
     \/ Cardinality(rows) >= turns /\ turns > 0 /\ ThreadHolds(w, t, "pairs", rows)
  /\ UNCHANGED <<storeVars, mem, threadRest>>

\* The next entry of the index; two threads of a process may append more
\* entries than there are turns, and NRow stands for every such number.
Indexed(w) == IF mem[w].index < NRow THEN mem[w].index + 1 ELSE NRow

\* One turn: tagged, indexed, and saved over the next row of that list, by
\* role shape alone; then the progress callback looks at the cancel flag.
\* An error falls through to the sweep; it may come after the index entry.
TagTurn(w, t) ==
  LET r == Min(thread[w][t].todo)  m == mem[w]
      last == m.index + 1 >= thread[w][t].upto IN
  /\ ThreadAt(w, t, "pairs")
  /\ \/ /\ ThreadTo(w, t, "sweep") /\ UNCHANGED row
        /\ \E i \in {m.index, Indexed(w)} : mem' = [mem EXCEPT ![w].index = i]
     \/ /\ row' = [row EXCEPT ![r] = "tagged"]
        /\ mem' = [mem EXCEPT ![w].index = Indexed(w)]
        /\ IF m.cancel THEN ThreadEnds(w, t)
           ELSE IF last THEN ThreadHolds(w, t, "caught", {})
           ELSE ThreadHolds(w, t, "pairs", thread[w][t].todo \ {r})
  /\ UNCHANGED <<phase, epoch, episode, threadRest>>

\* The catch-up loop looks at the newest payload, then at the flag.
CatchUp(w, t) ==
  LET m == mem[w] IN
  /\ ThreadAt(w, t, "caught")
  /\ \/ m.cancel /\ ThreadEnds(w, t)
     \/ /\ ~m.cancel /\ m.hist > m.index
        /\ thread' = [thread EXCEPT ![w][t].pc = "read", ![w][t].upto = m.hist]
     \/ ~m.cancel /\ m.hist <= m.index /\ ThreadTo(w, t, "sweep")
  /\ UNCHANGED <<storeVars, mem, threadRest>>

\* _tagger_run captures its epoch once.
BeginSweep(w, t) ==
  /\ ThreadAt(w, t, "sweep")
  /\ thread' = [thread EXCEPT ![w][t] = [@ EXCEPT !.pc = "fetch", !.todo = {},
                                                  !.ep = mem[w].epoch]]
  /\ UNCHANGED <<storeVars, mem, threadRest>>

Verified(w) == mem[w].epoch = epoch

Fetch(w, t) ==
  LET rows == FirstRows(IterUntagged(thread[w][t].ep), Batch) IN
  /\ ThreadAt(w, t, "fetch")
  /\ \/ ~Verified(w) /\ ThreadEnds(w, t)
     \/ Verified(w) /\ rows = {} /\ ThreadTo(w, t, "complete")
     \/ Verified(w) /\ rows # {} /\ ThreadHolds(w, t, "tag", rows)
  /\ UNCHANGED <<storeVars, mem, threadRest>>

\* tag_canonical_row saves the row as it was read: tagged_at goes back to NULL.
SaveRow(w, t) ==
  /\ ThreadAt(w, t, "tag")
  /\ row' = [row EXCEPT ![Min(thread[w][t].todo)] = "untagged"]
  /\ ThreadTo(w, t, "mark")
  /\ UNCHANGED <<phase, epoch, episode, mem, threadRest>>

NextRow(w, t, todo) ==
  IF todo = {} THEN ThreadHolds(w, t, "fetch", {}) ELSE ThreadHolds(w, t, "tag", todo)

\* The tagger raised: the row stays untagged and the batch goes on.
SkipRow(w, t) ==
  /\ ThreadAt(w, t, "tag")
  /\ NextRow(w, t, thread[w][t].todo \ {Min(thread[w][t].todo)})
  /\ UNCHANGED <<storeVars, mem, threadRest>>

\* mark_canonical_row_tagged, then the heartbeat; a row that a peer has
\* tagged meanwhile ends the sweep like a stale epoch does.
MarkRow(w, t) ==
  LET r == Min(thread[w][t].todo)  e == thread[w][t].ep
      marked == Verified(w) /\ e = epoch /\ row[r] = "untagged" IN
  /\ ThreadAt(w, t, "mark")
  /\ \/ /\ marked
        /\ row' = [row EXCEPT ![r] = "tagged"]
        /\ RefreshIngestionHeartbeat(w, e)
        /\ NextRow(w, t, thread[w][t].todo \ {r})
     \/ ~marked /\ ThreadEnds(w, t) /\ UNCHANGED <<row, episode>>
  /\ UNCHANGED <<phase, epoch, mem, threadRest>>

CompleteSweep(w, t) ==
  LET e == thread[w][t].ep IN
  /\ ThreadAt(w, t, "complete")
  /\ \/ ~Verified(w) /\ ThreadEnds(w, t) /\ UNCHANGED episode
     \/ /\ Verified(w) /\ CompleteIngestionEpisode(w, e)
        /\ ThreadTo(w, t, IF Completable(w, e) THEN "activate" ELSE "retry")
  /\ UNCHANGED <<phase, epoch, row, mem, threadRest>>

\* Mutant: a refused completion is tried again whatever rows there are.
RetryAnyway(w, t) ==
  /\ ThreadAt(w, t, "retry")
  /\ IF Verified(w) THEN ThreadTo(w, t, "fetch") ELSE ThreadEnds(w, t)
  /\ UNCHANGED <<storeVars, mem, threadRest>>

RetrySweep(w, t) ==
  /\ ThreadAt(w, t, "retry")
  /\ IF Verified(w) /\ IterUntagged(thread[w][t].ep) # {}
     THEN ThreadTo(w, t, "fetch") ELSE ThreadEnds(w, t)
  /\ UNCHANGED <<storeVars, mem, threadRest>>

ActivatePhase(w, t) ==
  LET e == thread[w][t].ep IN
  /\ ThreadAt(w, t, "activate")
  /\ SetPhase(e, "active")
  /\ IF e = epoch
     THEN ThreadTo(w, t, "post") /\ mem' = [mem EXCEPT ![w].ingested = TRUE]
     ELSE ThreadEnds(w, t) /\ UNCHANGED mem
  /\ UNCHANGED <<epoch, episode, row, threadRest>>

\* After _compact_after_ingestion (CompactionTakeover) the session is ACTIVE.
FinishIngestion(w, t) ==
  /\ ThreadAt(w, t, "post")
  /\ mem' = [mem EXCEPT ![w].state = "active"]
  /\ ThreadEnds(w, t)
  /\ UNCHANGED <<storeVars, threadRest>>

\* One round of _run_heartbeat_sidecar; the handle it looks at is the current
\* ingestion thread's, whichever thread it was started with.
Heartbeat(w, e) ==
  /\ w \in up /\ e \in sidecar[w]
  /\ \/ /\ mem[w].cancel \/ ~Alive(w)
        /\ sidecar' = [sidecar EXCEPT ![w] = @ \ {e}]
        /\ UNCHANGED <<episode, mem>>
     \/ /\ ~mem[w].cancel /\ Alive(w) /\ OwnsEpisode(w, e)
        /\ RefreshIngestionHeartbeat(w, e) /\ UNCHANGED <<mem, sidecar>>
     \/ /\ ~mem[w].cancel /\ Alive(w) /\ ~OwnsEpisode(w, e)
        /\ mem' = [mem EXCEPT ![w].cancel = TRUE]
        /\ sidecar' = [sidecar EXCEPT ![w] = @ \ {e}] /\ UNCHANGED episode
  /\ UNCHANGED <<phase, epoch, row, compactor, up, thread, rq, posts, lapses, dropped>>

-----------------------------------------------------------------------------
(* Compaction, deletion and failures.                                       *)

\* enter_compaction: the operation row, then the phase, seen as one step.
EnterCompaction(w) ==
  /\ w \in up /\ compactor[w] = "off" /\ ~CompactionRunning
  /\ mem[w].epoch = epoch /\ mem[w].state = "active" /\ mem[w].ingested
  /\ phase # "deleted" /\ phase' = "compacting"
  /\ compactor' = [compactor EXCEPT ![w] = "run"]
  /\ UNCHANGED <<epoch, episode, row, up, mem, thread, sidecar, rq, posts, lapses, dropped>>

\* exit_compaction closes the operation ...
CloseCompaction(w) ==
  /\ w \in up /\ compactor[w] = "run"
  /\ compactor' = [compactor EXCEPT ![w] = "drain"]
  /\ UNCHANGED <<storeVars, up, mem, thread, sidecar, rq, posts, lapses, dropped>>

\* ... then drain_compaction_exit: it rolls back when an episode is running.
DrainCompaction(w) ==
  LET e == mem[w].epoch IN
  /\ w \in up /\ compactor[w] = "drain"
  /\ \/ /\ e # epoch \/ (Untagged # {} /\ Running(e))
        /\ UNCHANGED <<phase, episode>>
     \/ /\ e = epoch /\ Untagged # {} /\ ~Running(e)
        /\ phase' = "ingesting" /\ episode' = [episode EXCEPT ![e] = Own(w)]
     \/ /\ e = epoch /\ Untagged = {}
        /\ phase' = "active" /\ UNCHANGED episode
  /\ compactor' = [compactor EXCEPT ![w] = "off"]
  /\ UNCHANGED <<epoch, row, up, mem, thread, sidecar, rq, posts, lapses, dropped>>

\* mark_conversation_deleted.
DeleteConversation ==
  /\ epoch < MaxEpoch /\ phase # "deleted"
  /\ phase' = "deleted"
  /\ episode' = [episode EXCEPT ![epoch] = NoEpisode]
  /\ compactor' = [w \in Worker |-> "off"]
  /\ dropped' = TRUE
  /\ UNCHANGED <<epoch, row, up, mem, thread, sidecar, rq, posts, lapses>>

\* The caller of a request that failed on its epoch loads a new ProxyState from
\* the store; the threads of the old one have seen the epoch and are gone.
Rehydrate(w) ==
  /\ w \in up /\ rq[w].pc = "idle" /\ mem[w].epoch # epoch
  /\ \A t \in Slot : thread[w][t].pc = "off"
  /\ mem' = [mem EXCEPT ![w] =
               [NewMemory EXCEPT !.epoch = epoch,
                  !.index = Cardinality({r \in Row : row[r] = "tagged"}),
                  !.hist = Cardinality({r \in Row : row[r] = "tagged"})]]
  /\ sidecar' = [sidecar EXCEPT ![w] = {}]
  /\ UNCHANGED <<storeVars, compactor, up, thread, rq, posts, lapses, dropped>>

Crash(w) ==
  /\ w \in up \cap Mortal
  /\ up' = up \ {w}
  /\ thread' = [thread EXCEPT ![w] = [t \in Slot |-> NoThread]]
  /\ sidecar' = [sidecar EXCEPT ![w] = {}]
  /\ rq' = [rq EXCEPT ![w] = NoRequest]
  /\ mem' = [mem EXCEPT ![w] = NewMemory]
  /\ compactor' = [compactor EXCEPT ![w] = "off"]
  /\ dropped' = TRUE
  /\ UNCHANGED <<storeVars, posts, lapses>>

\* INGESTION_LEASE_TTL_S passes: without a living owner, or in spite of one.
Lapse(e) ==
  /\ Running(e) /\ episode[e].fresh
  /\ episode' = [episode EXCEPT ![e].fresh = FALSE]
  /\ \/ episode[e].owner \notin up /\ UNCHANGED lapses
     \/ /\ episode[e].owner \in up /\ lapses < MaxLapse
        /\ lapses' = lapses + 1
  /\ UNCHANGED <<phase, epoch, row, compactor, up, mem, thread, sidecar, rq, posts, dropped>>

-----------------------------------------------------------------------------
RequestStep(w) ==
  \/ Mismatch(w) \/ Gate(w) \/ Snapshot(w) \/ ToActive(w) \/ ToIngesting(w)
  \/ Upsert(w) \/ Claim(w) \/ HealClaim(w) \/ HealComplete(w)
  \/ HealActivate(w) \/ Route(w) \/ Resume(w) \/ StartIngestion(w) \/ Join(w)
  \/ Finalize(w) \/ FinalActivate(w) \/ Record(w) \/ Reply(w)

ThreadStep(w, t) ==
  \/ ReadStrictRows(w, t) \/ TagTurn(w, t) \/ CatchUp(w, t) \/ BeginSweep(w, t)
  \/ Fetch(w, t) \/ SaveRow(w, t) \/ SkipRow(w, t) \/ MarkRow(w, t)
  \/ CompleteSweep(w, t) \/ RetrySweep(w, t) \/ ActivatePhase(w, t)
  \/ FinishIngestion(w, t)

Next ==
  \/ \E w \in Worker :
       \/ ReceivePayload(w) \/ RequestStep(w) \/ Rehydrate(w) \/ Crash(w)
       \/ EnterCompaction(w) \/ CloseCompaction(w) \/ DrainCompaction(w)
       \/ \E t \in Slot : ThreadStep(w, t)
       \/ \E e \in Epoch : Heartbeat(w, e)
  \/ \E e \in Epoch : Lapse(e)
  \/ DeleteConversation

Spec == Init /\ [][Next]_vars

-----------------------------------------------------------------------------
(* Properties.                                                              *)

\* The threads are scheduled, the client keeps posting to a worker that does
\* not crash, a row's tagging does not raise for ever, and compactions end.
Fairness ==
  /\ \A w \in Worker \ Mortal : WF_vars(ReceivePayload(w))
  /\ \A w \in Worker :
       /\ WF_vars(RequestStep(w)) /\ WF_vars(Rehydrate(w))
       /\ WF_vars(CloseCompaction(w)) /\ WF_vars(DrainCompaction(w))
       /\ \A e \in Epoch : WF_vars(Heartbeat(w, e))
       /\ \A t \in Slot : WF_vars(ThreadStep(w, t)) /\ SF_vars(SaveRow(w, t))
  /\ \A e \in Epoch : WF_vars(Lapse(e) /\ episode[e].owner \notin up)

FairSpec == Spec /\ Fairness

InFlight == \E w \in up : rq[w].pc \in {"gate", "snapshot", "toActive",
                                        "toIngesting", "upsert", "claim"}

\* Rows a sweep has saved and not marked yet.
InHand ==
  {r \in Row : \E w \in up, t \in Slot :
                 thread[w][t].pc = "mark" /\ r = Min(thread[w][t].todo)}

\* A row a request stored has somebody answerable for it: an episode that a
\* worker owns or can claim, a compaction whose drain will open one, or the
\* request itself, on its way.  A request that met a compaction relies on the
\* drain, a request that met an episode on the completion's guard
\* (state.py:1355-1446, sqlite.py complete_ingestion_episode, drain).
UntaggedIsAnswered ==
  Untagged \ InHand # {} /\ phase # "deleted" /\ ~dropped =>
    Running(epoch) \/ InFlight \/ \E w \in up : compactor[w] # "off"

\* A lease whose owner died with rows left to tag is not waited for forever: the
\* next request on a live worker, not met by a compaction, claims it once its
\* heartbeat is stale (claim_ingestion_lease, INGESTION_LEASE_TTL_S).
Orphaned ==
  Untagged # {} /\ Running(epoch) /\ episode[epoch].owner \notin up

LeaseIsTakenOver == []<>(~Orphaned \/ CompactionRunning)

\* No ingestion thread sweeps for ever, although a failing row is fetched again
\* at once and every failed completion looks for rows again (_tagger_run).
ThreadsEnd == \A w \in Worker, t \in Slot : []<>(thread[w][t].pc = "off")

\* A row that is tagged stays tagged: what the progress counters derived from
\* tagged_at rely on (state.py:3804, "that cannot regress").
DoneNeverRegresses ==
  [][\A r \in Row : row[r] = "tagged" => row'[r] = "tagged"]_vars

\* What state.py:1442 says of started_tagger: the request that claimed the
\* lease spawns the thread downstream, in the same request flow.
ClaimIsServed ==
  \A w \in Worker :
    (rq[w].pc = "dispatch" /\ rq[w].owns) ~>
      (Untagged = {} \/ \E t \in Slot : thread[w][t].pc # "off")
================================================================================
