# A TLA+ model of virtual-context

virtual-context is a proxy between an LLM client and a provider. It stores every
turn of a conversation, tags it, compacts old turns into segments, facts and tag
summaries, and rewrites later requests so that only what is relevant goes upstream.
Several processes (*workers*) may serve the same conversation against one SQLite file
or one Postgres database. What is hard in it is not the text processing. It is that a
conversation's rows are changed by request handlers, compactor threads, heartbeat
threads, ingestion threads and admins, in several processes, with leases instead of
locks, that any of them may be late or die, and that a request's message list passes
through a dozen rewrites that each rely on what the others kept.

The specifications here model that part. They are checked by TLC on small
instances and, where it says so, proved by TLAPS for all values of the constants.

## 1. Inventory

| Component | State it keeps | Operations | What makes it correct | Module |
|---|---|---|---|---|
| Lifecycle rows (`storage/sqlite.py`, `storage/postgres.py`) | `conversations` (phase, lifecycle_epoch), `compaction_operation`, `ingestion_episode`, `canonical_turns`, `segments`, `facts`, `tag_summaries` | set_phase, mark deleted, resurrect, start / claim / refresh / advance / complete / fail / clean up a compaction, guarded writes, drain | one active operation per epoch; statuses only move forward; writes of a closed operation are refused; an abandoned one leaves nothing; an epoch rises once per deletion | `ConversationStore`, `OperationLedger` |
| Compactor (`proxy/state.py` `_run_compact`, `core/compaction_pipeline.py`) | `_compaction_lock`, `_active_compaction_op`, `_compaction_cancelled`, local `entered_lifecycle` | enter, advance, write, mark, exit, release; heartbeat sidecar | one pipeline per worker; a turn is compacted once; the phase 'compacting' ends | `CompactionTakeover` |
| Request gate (`proxy/state.py` `handle_prepare_payload`) | locals of one request | verify epoch, ingest, phase gate, repair, resurrect, claim, take over, submit | a dead compaction is taken over, a live one is not disturbed | `CompactionTakeover`, `IngestionEpisode` |
| Ingestion side (`start_ingestion`, `_tagger_run`, finalizers, sidecar) | `_ingestion_thread`, `_ingestion_cancel`, session state | claim lease, tag rows, complete the episode, set the phase, self-heal | every row has somebody answerable for it; threads end; a dead owner's lease is taken over | `IngestionEpisode` |
| Turn and compaction queue (`fire_turn_complete`, `_run_tag_turn`, `_queue_compaction`, `_run_compact_wrapper`) | reservations, two pools, pending futures, queued request, target ends | reserve, tag, submit, coalesce, replace, follow up, wait | a turn is tagged once; no demand is lost that no run covers; waits end | `TurnQueue`, `CompactionDemand` |
| Ingest reconciler (`core/ingest_reconciler.py`) | canonical turns with sort keys, anchors | align, append, prepend, insert, roll a batch back | merges are serialized; the payload is stored whole and in order; a resend writes nothing; known turns stay what and where they are; a refused batch leaves no row | `TurnAlignment`, `IngestReconciler` |
| Merge (VCMERGE: `engine.py`, `storage/*.py`) | merge audits, rows of two conversations, request turn counters, alias | reserve, lock, check, move, commit, roll back, sweep | turns stay distinct; the audit tells the truth; moved rows end in a live conversation; locks do not cycle | `ConversationMerge` |
| Aliases (VCATTACH: `core/alias_resolution.py`, `proxy/vcattach.py`) | `conversation_aliases` | save, delete, walk | no engine is built on a merged conversation | `ConversationMerge` |
| Session cache (`proxy/session_state.py`) | Redis blob with version, tombstone, stale marker; `engine_state` row | load, save, back up, fall back, delete, undelete | a stale copy never overwrites a newer one or a tombstone; the row is never ahead of the key | `SessionState` |
| Message list (`proxy/message_filter.py`, `proxy/formats.py`, `prepare_payload` in `proxy/server.py`, restore in `proxy/handlers.py`) | the payload of one request; `chain_snapshots`, `tool_outputs`; the worker's snapshot cache; flushed and compacted prefix | drop, filter, collapse, recover, stub, merge, safety valve, trim, clean up, restore | tool calls and results stay paired; the payload begins with a user; what a stub offers is stored; no chain is there twice; a truncated client gets its chains back; the question is sent | `PayloadMessages`, `PayloadPipeline` |
| Response relay (`proxy/handlers.py` `_handle_streaming`, `_handle_non_streaming`) | locals of one handler; `conversation_history`; the deletion flag | stream, hold back, run own tools, continue, number, close, record, mark | the client gets one well-formed message; every tool call has one party that answers it; what is recorded is what was shown; streams end | `ResponseRelay` |
| Lifecycle epoch (`core/lifecycle_epoch.py`, `engine.py`) | cached epoch per engine | load, verify | a worker of an old epoch changes nothing of the new one | `CompactionTakeover` |
| Protected window, paging store, tool queries | in-memory, per engine or request | merge, page, query | pure or single-threaded | none |
| Retrieval, scoring, assembly, search, temporal parsing, media, LLM providers, metrics, dashboard, CLI, TUI, MCP, configuration, importers, benchmarks | none shared | ranking, text, I/O | numeric or textual | none |

How they interact. A request is routed by `proxy/server.py` to the conversation's
`ProxyState`, whose `handle_prepare_payload` runs on the event loop, one at a time
per worker; `prepare_payload` then rewrites the message list and the request goes
upstream, while the model may call `vc_restore_tool` on what was collapsed. With paging the
handler runs such calls itself and asks the model to continue, before the client sees the end
of the answer; without it the bytes pass through. A threshold
after a turn, or the end of an ingestion, starts `_run_compact` on the pool thread or on
the ingestion thread; both exclude each other with a lock that is only tried. The pipeline
calls back for progress (phase advance, cancellation) and writes through the store under a
guard on the operation row. A sidecar thread refreshes the heartbeat and raises the cancel
flag when the row is no longer the worker's. The turns of a request reach `canonical_turns`
through the ingest reconciler, under a lock per conversation that the store provides; the
tagger and the compactor read and stamp the rows afterwards. Each answer is reserved and
tagged on a pool of one thread, whose compaction requests are coalesced. Workers meet in
the database and in the Redis key that holds the session state. The lifecycle epoch
separates a conversation from its next life after delete and resurrect; a merge moves its
rows into another conversation and leaves an alias.

Hard behaviours, each listed with its line in `PROJECT.json` under `hazards`:
statements of one method that are separate transactions, memory read before and
used after another thread changed it, leases that lapse while the owner still
works, batches read before LLM calls and marked after them, crashes between two
writes, guards read from a snapshot, two writes for one logical transition, caches
believed complete, rewrites whose order matters.

## 2. Modules

### Compaction and takeover

* `ConversationStore`: the rows and the store methods. One operator is one SQL
  statement, or one explicit transaction. Where the backends differ in how they
  group statements there are operators for both: SQLite's connection is in
  autocommit mode (`isolation_level=None`), so `cleanup_abandoned_compaction` and
  `claim_compaction_lease` are several steps there (`AbandonOp`, `DeleteSegments`,
  `DeleteSummaries`, `Uncompact`, `InsertRunning`), and one on Postgres
  (`CleanupAbandonedCompaction`); resurrect is the reverse (`Resurrect` on SQLite;
  `BumpEpoch`, `AbandonEpisodes`, `CancelOps` on Postgres).
* `CompactionTakeover`: extends it with the processes. `RunStep` is `_run_compact`
  with its pipeline, wrapper and sidecar, one action per store call; `GateStep` is
  `handle_prepare_payload` to the phase gate; `StartWorker`, `Crash`, `Lapse` and
  `Admin` are the environment; `IngestionWork` and `FinalizeIngestion` are the writes
  of the ingestion side, allowed at any time.
* `OperationLedger`: the abstract specification of `compaction_operation`. It knows
  nothing of threads: a row opens once, owned and fresh; queued may become running;
  only a lapsed lease, or one's own, changes hands; a row closes once, and only a
  running one is abandoned; an epoch has at most one active row. `CompactionTakeover`
  implements it (`LedgerSpec`).

State and code: `phase`, `epoch` are columns of `conversations`; `op[o]` is a row of
`compaction_operation`, where `fresh` stands for `heartbeat_ts` being younger than
the TTL; `episode[e]` is the owner of the running episode of epoch `e`; `tagging` and
`compactedBy` are columns of `canonical_turns`; `segments`, `facts` are the
operations that have rows there; `summary` is the stamp of one tag summary that all
compactions touch. `wepoch`, `activeOp`, `cancelled`, `lock`, `queued` are the
worker's memory, `run` and `post` the locals and program counters of its threads.
`deleting` counts the executed statements of `mark_conversation_deleted`, which
nothing in `virtual_context` but `composite_store` calls (its docstring says: the
delete endpoint), so it is an action of the environment. The phase 'merged' is in
`ConversationMerge` only.

### Ingestion

* `TurnAlignment`: the pure part of `core/ingest_reconciler.py`. A list of incoming turns
  is placed among the existing ones (`FindAlignment`: prefix, suffix, short overlap, then
  anchor windows) and the rows to write get sort keys (`NewRows`). A turn is its hash, an
  anchor hash the sequence of hashes it digests. Loops that keep the first best candidate
  are `CHOOSE`s of the candidate that the order of the loops comes to first.
* `IngestReconciler`: extends it with the calls. One action per store statement: the lock
  (`AcquireLock`), the epoch check inside it, the read, the alignment, each upsert, the
  three statements that refresh the anchors, the last epoch check and the rollback; `Fail`
  is an exception or the death of the process at any statement, `Resurrect` the
  environment. `turns` and `anchors` are the two tables, `merge[p]` the locals of the call
  that `p` is in, `outcome` how each call ended. The refusal of a sort key that another
  row has (`UNIQUE (conversation_id, sort_key)`) is `KeyTaken`.
* `IngestionEpisode`: who tags the rows a request stored. `rq[w]` is a request:
  `ReceivePayload`, `Gate` to `HealActivate` are `handle_prepare_payload` after the phase
  gate, one action per store statement; `Route`, `Resume`, `StartIngestion`, `Join`,
  `Finalize`, `Record`, `Reply` are the server's dispatch and the answer. `thread[w][t]` is
  an ingestion thread: the pair-based pass (`ReadStrictRows`, `TagTurn`), the catch-up, the
  row-based sweep `_tagger_run` (`Fetch`, `SaveRow`, `SkipRow`, `MarkRow`), its
  finalization (`CompleteSweep`, `RetrySweep`, `ActivatePhase`). `Heartbeat` is the sidecar.
  `episode[e]` is the row of `ingestion_episode`, `row` a `canonical_turns` row that is
  absent, untagged or tagged, `mem[w]` what the `ProxyState` remembers (cached epoch, index
  and history length, ingested mark, session state, cancel flag, the current thread).
  Compaction is three steps here (`EnterCompaction`, `CloseCompaction`, `DrainCompaction`),
  since only its phase writes matter. `Crash`, `Lapse`, `DeleteConversation` and `Rehydrate`
  are the environment; a crashed worker does not come back, its successor has a new id. A
  payload never has fewer turns than are stored.
* `TurnQueue`: what becomes of a finished turn inside one `ProxyState`. `loop` is the event
  loop between two steps of one callback, `tagger` and `compactor` are the threads of the
  two pools, `tagPool` and `pool` the tasks not started, `pending` the futures others wait
  for. `FireTurnComplete`, `ReserveTurn` are `fire_turn_complete`; `StartTagging` to
  `FinishTagging` are `_run_tag_turn`, with `QueueCompaction`, `SubmitCompaction`,
  `AssignCompaction` for `_queue_compaction` (decided under the lock, submitted outside it,
  assigned after that); `StartTask` to `Return` are `_run_compact_wrapper`; `TakeOver`,
  `CompactByHand` (/vccompact), `LateAnswer` and the ingestions are what comes between.
  A future is an identity that is free again once its task has ended and nobody holds it; that
  one is free is a guard of the submissions, and with the numbers of the run it never bites (one
  more of each gives the same states).
* `CompactionDemand`: the abstract specification of the coalescing. The furthest target
  anybody asked for stays *owed* until a run that reaches it has ended, or the prefix has
  passed it. `TurnQueue` implements it (`DemandSpec`), with `owed` the furthest target in
  anybody's hands.

### Shared state and other conversations

* `SessionState`: the Redis key with its version, the `engine_state` row behind it and the
  `vc:store_stale` marker. `Load`, `CheckMarker`, `LoadFromStore` are `load`; `SaveWatch`,
  `SaveExec`, `SaveFails`, `SaveBackup`, `SetMarker` are `save`, whose transaction is a
  compare-and-set on the version; `DeleteKey`, `DeleteRow`, `UndeleteRead`, `UndeleteKey`
  the two admin operations. A checkpoint is the set of the edits it contains. A worker is in
  a request or in VCATTACH (which may hold a tombstone it has loaded). `Crash`, `LoseKey`
  (expiry, eviction, the death of Redis) and `MarkerExpires` are the environment.
* `ConversationMerge`: VCMERGE, VCATTACH and the requests they race with. On Postgres the
  body of a merge is its lock requests (`Lock`, twice, in sorted order), the checks and the
  offset (`Check`), the UPDATEs (`Move`) and the commit, with `Fail` anywhere; on SQLite
  `MayWrite` keeps every other writer out while a body is open. `Reserve`,
  `MarkRolledBack`, `SweepReservation` (external: the sweeper of stale reservations is outside the repository)
  act on `audit`. A request has an engine bound to a conversation (`Construct` walks the
  aliases, `UseCached` does not), may begin an ingest, gets a turn number (`SaveContext`)
  and writes tool calls under it (`SaveToolCall`). `request_context` and `tool_calls` stand
  for all the tables that move: both carry a request turn, and only the writer of the first
  takes the lifecycle row.
* `PayloadMessages`: the message list of an Anthropic body and the pure operations on it.
  A message is its role, which client messages it holds, whether it has text, the tool calls
  it makes and answers, which results were replaced by a stub and which chain references it
  offers. `DropTurns`, `Filter` (with `Closure`, `Backfill`, `Alternate`), `Chain`,
  `Collapsed`, `StubOutputs`, `MergeConversational`, `Trimmed`, `Cleanup`, `Restorable`,
  `RestoreInPlace` are the functions of `message_filter.py`, `formats.py` and `handlers.py`
  with those names or those duties.
* `PayloadPipeline`: `prepare_payload` over them, stage by stage (`stage`, `body`), for a
  client that owns its history (`turns`, of which it still sends those after `base`).
  `Receive` is the truncation check and the flush gate; `Drop`, `FilterBody`, `Collapse`,
  `StubTools`, `Merge`, `Valve`, `Trim` follow in the code's order, the valve running the
  stages that waited a second time (`pass`). `rows` and `outputs` are `chain_snapshots` and
  `tool_outputs`, `cache` is `_chain_snapshot_cache`, and `Restore` is `vc_restore_tool`.
  `Ask`, `CallTool`, `Answer`, `Interrupt`, `Truncate` are the client and the model; `Tag`
  and `Compact` the background threads; `Restart` a new process.
* `ResponseRelay`: the way of an answer to the client, for an Anthropic body. `relay[r]` holds
  the locals of the handler: what it has forwarded and counted (`forwarded`), what it holds back
  (`suppressed`, `vcTools`), the body of the continuation, and `wire`, what the client has
  received. The events of one content block are one step. `StreamBlock` to `StreamClosed` are
  `_handle_streaming` over the upstream's events, `Tools` to `Close` its continuation rounds,
  `Answer` is `_handle_non_streaming`; `Post`, `Record`, `Mark` are what follows every answer.
  `history` is `conversation_history`, which all requests share. The model, a client that leaves
  (`Vanish`), an upstream that breaks and a deletion (`MarkDeleted`, `ClearHistory`, on a thread
  of its own) are the environment.

`MCTakeover`, `MCReconciler`, `MCIngestion` and `MCMerge` are the instances TLC checks,
with symmetry where identities are compared for equality only (operation ids, processes of
the reconciler, merges and requests) and never in a liveness run. `TurnQueue`,
`SessionState`, `PayloadPipeline` and `ResponseRelay` need no instance module. `*_proofs`:
theorems, see section 5.

## 3. Runs

| Run | Instance | Question | States |
|---|---|---|---|
| `TakeoverSqlite` | SQLite; w1 compacts on both its threads, w2 serves; 2 operations, 1 turn, 1 epoch | Does cleanup leave nothing, do the pipelines exclude each other, is no turn compacted twice, is the ledger kept? | 1.1 M |
| `TakeoverPostgres` | Postgres; both workers compact, w2 serves, w1 ingests; 1 operation, 2 epochs | Can a worker of the old epoch write? | 0.68 M |
| `TakeoverLive` | Postgres, `FairSpec`; w1 compacts, w2 serves; 2 operations | Is a dead compaction taken over, is an orphan phase left? | 0.16 M |
| `ReconcilerPostgres` | Postgres; 2 processes, 3 calls, 5 payloads of 1 to 4 turns, 2 epochs, failures | Is each merge alone, whole, in order and without a trace when refused? | 0.49 M |
| `IngestionSafe` | 2 workers, w1 may crash; 2 rows, 2 epochs, 2 requests | Has every untagged row somebody answerable for it? | 1.1 M |
| `IngestionLive` | `OrphanSpec`: w2 is dead and owns the episode; 2 rows, batches of 1, one lease lapses under its living owner | Is the lease taken over, do threads end? | 0.21 M |
| `TurnQueue` | `FairSpec`; 3 turns, 1 protected, 1 late answer, takeover, run by hand or ingestion | Is each turn tagged once, the furthest demand kept, each wait ended? | 0.58 M |
| `SessionState` | 2 workers, 4 edits, the key is lost once | Is no edit lost, no tombstone overwritten, the row never ahead? | 4.4 M |
| `MergePostgres` | Postgres; 2 conversations, 2 merges, 1 attach, 2 requests | Are turns distinct, is the audit true, do moved rows live, do locks not cycle? | 0.41 M |
| `PayloadPipeline` | 4 turns, 2 with tool rounds ("loop" or "mixed"), 1 protected, 1 trouble | Is the payload of every stage well formed, and is what it offers stored, once, and complete? | 1.1 M |
| `ResponseRelay` | `FairSpec`; 1 request, messages of at most 2 blocks, 3 continuation rounds | Is the client's stream well formed, every call answered once, the record what was shown, and does every stream end? | 0.20 M |
| `BugCurrentMessage` | `PayloadPipeline` with "loop" only | violated: see findings | |

Properties of the takeover.

* `AbandonedLeavesNothing`: once the cleanup of an operation is over, it owns no
  segment, no tag summary and no mark, whatever its stale compactor still tries. This
  needs the write guards *and* the order in cleanup (the row is abandoned before
  anything is deleted).
* `NeverRecompacted`: a batch of turns read before a takeover is never marked after
  the successor marked it.
* `StaleWorkerFenced`: a worker with an old epoch holds no operation that passes the
  write guard, except between the statements of a resurrect on Postgres. It holds on
  Postgres; on SQLite it does not (section 4).
* `PipelinesExclude`: two compacting threads of a worker are never both past the lock.
* `LedgerSpec`: refinement of `OperationLedger`.
* `DeadCompactionIsTakenOver`, `OrphanPhaseIsLeft`: liveness.
* `TypeOK` (one in each model): the type invariant. For the takeover, the reconciler, the session
  state and the turn queue it is a theorem and no run checks it.

Properties of ingestion.

* `MergesSerialized`: from the read of the turns to the end of the call, what was read plus
  the call's own rows is what the table holds. Alignment and sort keys are worthless
  without it.
* `KeysFree`: the keys a call has allocated are free when it writes them, so that no merge
  fails halfway on the unique key and leaves half of its payload.
* `PayloadIsStored`: when a call has written its rows, the table holds the turns of its
  payload next to each other and in order. Prefix, overlap and suffix come from three
  branches and two key allocations; this says that they fit together. It is stated for
  calls whose overlap is one (`AlignmentIsTrue`), since that fails (section 4).
* `StoredPayloadWritesNothing`: a payload the table holds already, next to anchors that
  describe the table, is recognized. A request that is sent again is the normal case, since
  every request carries the history.
* `RefusedLeavesNothing`: a call refused because of its epoch leaves none of its rows, at
  whichever of the two checks it was refused.
* `MergesOnlyAdd`: no merge and no rollback removes, moves or replaces a turn of a call that
  is over.
* `UntaggedIsAnswered`: an untagged row has an episode that a worker owns or can claim, a
  compaction whose drain will open one, or the request that stored it on its way. A request
  that met a compaction relies on the drain, one that met an episode on the guard of its
  completion: two writers who each leave the row to the other would break it.
* `LeaseIsTakenOver`: rows left by a dead owner do not wait for ever.
* `ThreadsEnd`: no ingestion thread sweeps for ever, although a failing row is fetched again
  at once and every failed completion looks for rows again.

Properties of the queue.

* `TaggedOnce`, `ReservationsHaveTasks`: the look at the index and the reservation are two
  steps, and two answers may end with the same turn; a reservation that outlived its task
  would keep the turn from being tagged for ever.
* `DemandSpec`: refinement of `CompactionDemand`.
* `WaitsEnd`: a request is let through in the end, however often the future it waits for is
  replaced by a follow-up run's.

Properties of the shared state and of merges.

* `NoLostUpdate`: a save by a worker that read the key since it was last removed keeps every
  edit the key holds, however other saves fall between its load, WATCH and EXEC.
* `TombstoneFences`: no save ends a tombstone, not even VCATTACH's with the tombstone's own
  version in hand.
* `StoreNeverAhead`: until the key is first lost, the row holds no edit that a live key lacks.
* `TurnsDistinct`: no two requests of a conversation have the same turn, whatever merges
  moved their rows and whenever they were numbered.
* `AuditTruthful`: rows were moved by committed merges only and a committed merge stays so,
  whatever the caller, the sweeper and a late exception do to the audit row.
* `MovedRowsLive`: a row a merge moved is never in a conversation that was itself merged away.
* `NoLockCycle`: merges never wait for each other in a circle, of two or of more.

Properties of the payload. They hold after every stage, not only at the end.

* `ToolsPaired`: every tool result directly follows the message with its call, and every
  call is answered by the next message. Providers refuse anything else, and every stage
  removes messages by a rule of its own.
* `BeginsWithUser`: what the filter, the trim and the cleanup leave begins with a user's
  message.
* `StubsStored`: what a stub offers has a row, even when some of the writes failed.
* `ChainsOnce`: a chain is not offered twice, nor beside its own messages, though the body,
  the store, the cache and the model's restores all bring chains in. The second half is claimed
  for a client that has truncated only where at most one turn is protected: with more it is false
  (`ChainsApart`, section 4).
* `RecoversSeen`: a client that truncated its history gets stubs for all its stored chains
  (short of deep compaction and of the protected window), as long as the worker's cache saw
  them all be stored. Without that condition it is false (section 4).

Properties of the relay. They hold whatever blocks the model mixes and wherever it breaks off.

* `WireWellFormed`: indexes increase, nothing but the stop follows the one `message_delta`,
  and nothing but the marker follows the stop. The blocks come from two writers, the model's own
  numbering and the counter from which the proxy numbers what it adds, and the events of the
  first message that are swallowed decide where the second begins. The property says exactly
  where indexes do not increase. Held-back calls that are sent after all (`Released`,
  `handlers.py:875`) come after blocks of higher indexes, and repeat none. A block the proxy adds
  (`Added`) has the number of the blocks before it as its index; it meets or goes below an index
  of the model's only if that block came past a held-back call (`PastHeldCall`), which section 4
  says more about.
* `CallsAnswered`: a continuation carries the results of exactly the calls of the message
  before; a client that is told "tool_use" has a call of its own to answer, and is shown the
  proxy's calls only beside one, in a message of which the proxy runs none.
* `RecordedIsShown`: the answer in the history is what the client was shown, all rounds in order
  and once, and a session that is not deleted holds the answer of every request that came to
  its end.
* `StreamsEnd`: every request ends, whatever the model keeps asking for.

### Bounds

Takeover. Two workers: every property is
about at most a stale one and its successor (the proofs cover any number). Two or
three operation ids: a dead one, its successor, and a second local trigger. An id that
never got a row is given back (`Unused`), so that skipped runs do not use them up. One
turn: a batch is a subset of the uncompacted turns, and the properties speak of one
turn at a time. `MaxEpoch` bounds deletions to `MaxEpoch - 1`: none in `TakeoverSqlite`, one in
`TakeoverPostgres`, whose question needs it; the theorems cover any number. One takeover job may
wait per pool (a second waits for it). At least one worker id survives. `TakeoverLive` has
no ingestion side; one worker that compacts, serves and ingests (`Ingester`, 0.11 M states)
passes as well, and there the drain of a compaction meets an episode that exists. `LoadRows`
may choose any subset of the uncompacted turns, so the protected recent turns are an
instance of it. `Progress` may advance the phase more often than the code, which
skips indices it has passed: the row it writes is the same. `MidMethodCrash` is
FALSE in all runs; see section 4.

Reconciler. Two processes, since the properties relate a call to one other; three
calls, since the table must first hold something, then be changed, then be met by a late or
repeated call. The payloads are chosen so that every branch is taken: an empty table,
prefix (`<<u, a>>` before `<<u, a, v, a>>`), suffix and prepend (`<<b, u, a, v>>`), short
overlap, interior insertion (`<<u, a, v, b>>` next to `<<u, a, v, a>>`), a fragment that is
refused (`<<u>>`), and repeated turns (`a` twice) that an alignment may confuse. Window sizes
3 and 4 stand for 3, 4 and 5: the code takes the largest that has a hit, and with two the
larger may hit, or only the smaller. `ShortOverlap` is the code's 3; `KeyGap` is its 1000.0
and `MinStep` = 1 its 0.001 on an integer scale, so keys of the instance never reach the
floor. A row counts as recently seen, or not, at will.

Ingestion. Two rows, so that one may be stored while the other is tagged, and a batch of one
or of both; two requests in `IngestionSafe` (the second arrives while the first is handled or
after it), any number in `IngestionLive`; one thread per worker at a time (`Slot`; a second
`Spawn` waits as in the code's join). A lease may lapse under a living owner once in
`IngestionLive`, where only one worker lives; section 4 says what two do.

Turn queue. Three turns make two targets past the protected one, so a demand can be replaced,
covered or queued; `MaxExtra` = 1 event from outside; one hash, so that two answers end with the
same turn. Two hashes with two turns pass as well, and so do two requests without an event from
outside (`WaitsEnd` alone), where one clears the future the other waits for. Five
futures are more than can be held at once.

Session state. Two workers, four edits (each may save twice), one removal of the key.
`MaxVersion` = 9 is above every version the edits can reach and stands for 2^53.

Merge. Two conversations and two merges, in the same or in opposite directions, so each may
be the other's source or target; three conversations without an attach, and three merges on
two conversations, pass as well, and three merges on three conversations, which may form a ring
(`NoLockCycle` alone). Two requests: two turn numbers that may collide. `MaxTurn` = 9
is not reached.

Payload. Four turns with two tool rounds and one protected turn: two turns can be compacted, one
collapsed, and one deep-compacted with the ratio of one half. `MinStoreTurns` = 2 stands for the
code's 10, so that recovery happens; `DefaultWindow` is the code's 6 and never bites in four turns.
What needs the window and a second protected turn to bite (`ChainsApart`, section 4) is outside.
One trouble (an unanswered turn, a truncation, a restart or a failing write). With the 0.7 ratio
of the truncation check a recovered chain can overlap the body only from six turns on; six turns
with one tool round of the form "loop" (1.6 M states) pass as well.

Relay. One request: the handlers share only the history, and a message of another request is not
this one's (`by`). Two blocks make every pair of kinds and orders, three rounds reach the end of
the loop (the code's `_MAX_CONTINUATION_LOOPS` is larger). Two requests with one block and two
rounds (2.4 M states) and one request with three blocks and two rounds (2.0 M) pass as well,
without the liveness property. The model may write its blocks in any order, a text after a call
included.

Deadlock is checked where the system cannot stop: `SessionState`, `TurnQueue`.
Not checked in the others. Those of the takeover and of ingestion have workers that may die, only
compact or only serve, or a `MaxEpoch` the deletions use up: when nobody is left to act, such an
instance has stopped legitimately. The calls of the reconciler, the merges, the turns and
troubles of the payload and the requests of the relay are used up.

### Fairness

`CompactionTakeover!FairSpec`: weak fairness of each thread's progress through `_run_compact`
(a thread that is not blocked is scheduled; LLM calls end or raise), of `GateStep` for
each worker that serves (clients keep sending requests), of some unborn worker starting,
and of the heartbeat of a dead owner growing old (time passes). Nothing is assumed of
triggers, errors, crashes, live heartbeats, deletions or the ingestion side.
The liveness properties exclude the end of the model's ids (`OutOfBounds`).

`IngestionEpisode!Fairness`: weak fairness of the threads, of a request's steps, of the sidecar,
of reloading after an epoch mismatch and of a compaction's end, and of a client that keeps posting
to a worker that does not crash; a dead owner's heartbeat grows old. Strong fairness of `SaveRow`
alone: tagging a row may raise any number of times, but not for ever. A row that always raises is
a hazard the code does not handle (its thread then never ends), and the assumption leaves it out.

`TurnQueue!FairSpec`: weak fairness of the two pool threads, of the event loop and of each request;
`TagTurn` may raise and a run may move the prefix by any amount up to its target or not at all.

`ResponseRelay!FairSpec`: weak fairness of each handler. The event loop runs a handler that can
run, and httpx limits every wait for the model.

## 4. Findings

`BugCurrentMessage` checks a statement the repository makes and finds it violated;
`PROJECT.json` quotes the statement. `filter_body_messages` appends the question being asked
last to the messages it keeps and then enforces the alternation of roles by dropping the
later of two neighbours. When the client's history holds a turn without an answer (the
upstream call failed, or the user interrupted a tool round) just before the question, and the
filter drops any other pair, the question is the later neighbour: it is in no message of the
payload that goes upstream.

### Known, without a run

Each of these was seen while modelling. Those with a recipe are statements of the models that
TLC finds violated; put the constants and the property into a `.cfg` of your own.

| Statement | Module and constants | What happens |
|---|---|---|
| `CompactedHasSegments` | `MCTakeover`, `Spec`: SQLite, `Worker` {w1}, 3 ops, `Poster` = `Compactor` = {w1}, `Ingester` {}, `Thread` {"pool", "ingest"}, `MaxEpoch` 1 | `cleanup_abandoned_compaction` deletes even when it abandoned nothing. `_active_compaction_op` can name another of the worker's operations, so its own live operation can reach cleanup while still 'queued'; its segment is deleted and its turns are then marked compacted. |
| `AbandonedLeavesNothing` | `MCTakeover`, `Spec`: Postgres, 2 workers, 2 ops, `Compactor` {w1}, `Poster` {w2}, `Thread` {"pool"}, `MaxEpoch` 1 | The guarded `INSERT ... SELECT` (`postgres.py:1613`) does not lock the operation row; it can commit after cleanup. |
| `QueuedCompactionIsTakenOver` | `MCTakeover`, `FairSpec`: SQLite, otherwise as above, no symmetry | Cleanup abandons only 'running'. A worker that dies before its first advance leaves 'queued', which every request claims and none can close. |
| `DrainsOnlyOwnPhase` | `MCTakeover`, `Spec`: SQLite, otherwise as above | A run that lost its lease still drains the phase under its successor (`state.py:1042`). |
| `StaleWorkerFenced` | `MCTakeover`, `Spec`: SQLite, `Poster` {w1, w2}, `MaxEpoch` 2, otherwise as above | A deletion and another worker's resurrect fit between the first UPDATE of cleanup and its INSERT, which does not look at `conversations.lifecycle_epoch`: the takeover inserts a running operation of the old epoch, under which its stale worker passes the write guards. |
| `MergesSerialized` | `MCReconciler` as in its cfg, with `Backend` "sqlite", `SinglePair` {}, `Failures` FALSE | `conversation_reconcile` is `BEGIN IMMEDIATE`, and `get_lifecycle_epoch`, called inside it, leaves `with conn`, which commits. From there on the merge has no lock, and two may store the same turns. |
| `AlignmentIsTrue` | `MCReconciler` as in its cfg, with `Failures` FALSE | The alignment believes the persisted anchors. A refused batch refreshes them, then deletes its rows and leaves the anchors; the retry under the new epoch is taken for a resend, and the turns that were rolled back are never stored. |
| `DoneNeverRegresses` | `MCIngestion`, `Spec`: 2 workers, `NRow` 2, `MaxEpoch` 1, `Slot` {t1}, `Batch` 2, `Mortal` {}, `MaxLapse` 0, `MaxPost` 3 | The sweep saves a row with `tagged_at` as it was fetched: a row the live tagging of a reply has tagged meanwhile becomes untagged again (`tagging_pipeline.py:1093`), against "cannot regress" (`state.py:3804`). |
| `ClaimIsServed` | `MCIngestion`, `FairSpec`: 1 worker, `MaxPost` None, otherwise as above | A request claims the ingestion lease and is then answered from a ready index: nobody spawns the thread (`server.py:864`, `state.py:1442`), and no peer may take a living owner's lease. |
| `ThreadsEnd` | `MCIngestion`, `FairSpec`: 2 workers, `MaxLapse` 1 | After a lease lapsed under its owner, two sweeps can undo each other's rows for ever. |
| `HardIsCaughtUp` | `TurnQueue`, `Spec`: 3 `TagFuture`, 4 `Future`, `MaxTurn` 2, `Protected` 0, `MaxExtra` 0 | The wrapper takes the queued request before its future is done; a demand queued in between has nobody to submit it. The request that "hard → block until caught up" (`server.py:1119`) should block goes ahead. |
| `TaggingExcludesInbound` | `TurnQueue`, `Spec`: 2 requests | With two requests in flight tagging runs beside `on_message_inbound` (`engine.py:118`). |
| `DeletedRowStaysGone` | `SessionState`, `Spec`: `Worker` {w1}, `MaxEdits` 1, `MaxLoss` 0, `CarriesVersion` TRUE | A save that has written the key, then a delete that reports success, then the backup of that save: the row is there again under the tombstone, and load hands it out when the tombstone has gone (`session_state.py:361`, 693). |
| `NoIndexTwice` | `ResponseRelay` as in its cfg, `Spec` | The proxy numbers what it adds by the blocks it has forwarded. A text after a held-back call keeps the model's index, which is higher than that count, and the proxy's numbering reuses it: two blocks of one message have one index, against "so continuation emits use correct indices" (`handlers.py:858`). |
| (later saves are rejected) | `SessionState` with `CarriesVersion` FALSE | `extract_session_state` says that it preserves the loaded version and never sets it; later saves are then rejected as stale. |
| `NoEngineOnMerged` | `MCMerge`, `Spec`: `MaxConv` 2, 1 merge, 1 attach, 1 request, `MaxTurn` 9, `Postgres` FALSE | An attach accepts its target, a merge moves that target away, and the attach then deletes the alias the merge left: a new engine is built on the merged source. `MergedSourceWithoutAliasError` (`core/exceptions.py:89`) describes the case; nothing raises it. |
| `RecoversChains` | `PayloadPipeline`: `Form` {"loop"}, otherwise as in its cfg | The safety valve (`server.py:1606`) stores chains without the worker's cache, and `recovery_loaded` becomes true with the first new snapshot, whatever the manifest lacks (`message_filter.py:1982`; after a restart it lacks everything older). A truncating client does not get those chains back, against "as if it had never been truncated" (`README.md:291`). |
| `StubsDiffer` | `PayloadPipeline`, as in its cfg | The chains known by turn are keyed by -1 too (`message_filter.py:1977`): a second chain of a request whose turn cannot be resolved is replaced by the first one's stub and never stored. |
| `ChainsApart` | `PayloadPipeline`: `Form` {"loop"}, `Protected` 2, `MinStoreTurns` 5, `MaxTurns` 7, otherwise as in its cfg (no trace within minutes unless a `CONSTRAINT` leaves the history below) | The collapse protects the last *groups* that the filter has left (`message_filter.py:1739`), the store-backed recovery the last turn *numbers* (`message_filter.py:2087`). Turns 4 and 6 run tools, turn 4 is collapsed while 6 is asked, the client then drops its first three turns, and for question 7 the filter keeps turn 4 and drops the plain turn 5. Turn 4 is then one of the last two groups, so its messages stay, and by its number unprotected, so the recovery offers its stub beside them, against "as if it had never been truncated" (`README.md:291`). The model may restore from that stub a chain the payload has. |

Takeover, beside these. Facts rows carry no operation id (`store_facts` checks the guard in a
statement of its own and leaves the column NULL), so `DELETE FROM facts` in cleanup, which its
docstring lists, matches none: facts of an abandoned compaction survive. On SQLite a crash
between the statements of cleanup leaves an abandoned operation with artifacts although the
docstring calls it one transaction; on Postgres a crash between the three statements of
resurrect leaves the old epoch's operation running and its worker unfenced. Both are what
`MidMethodCrash` excludes: set it to TRUE in `TakeoverSqlite.cfg` and `TakeoverPostgres.cfg` and
TLC finds `AbandonedLeavesNothing` and `StaleWorkerFenced` violated. `complete`, `fail` and
`advance` name no operation id, so they act on whatever active row the worker owns. The comment
that `_active_compaction_op` is "always authoritative" (`state.py:250`) and that "double-clear is
safe" (`state.py:2667`) do not hold for a run skipped at the lock.

Reconciler. On Postgres every upsert commits by itself, so a call that fails halfway
leaves part of its payload. A request that carries a trailing user turn, followed by
`ingest_single` of the pair, stores that user turn twice, because `ingest_single` allows no
short overlap. The floor of a key step is larger than a gap that was halved often enough
(about 16 times), and the keys then reach the right neighbour or pass it. The resend branch
of `ingest_single` writes the rows again with `tagged_at`, `compacted_at` and
`source_batch_id` NULL (only the session date and the group are copied). A hard delete during a
merge makes the last epoch check raise `KeyError`, and the rows stay. A failed refresh of the
anchors, which is only logged, and a process that dies between two upserts of an insertion leave
stale anchors as a refused batch does.

Ingestion. `start_ingestion` sets the ingested mark while the session stays INGESTING when the
index covers the payload (`state.py:3235`, against the comment at 3268). The cancel flag is
sticky: `_spawn_ingestion_workers` does not clear it (`state.py:3567`). The pair pass maps turns
to rows by the shape of roles and misaligns on another shape. A stale tagger's save of a row is
not guarded by the epoch (docstring at `state.py:733`). `tag_turn` persists the canonical row only
when no compaction was signalled (`tagging_pipeline.py:824`). An episode of a dead worker with no
untagged rows under phase 'active' is never closed.

Turn queue. When a session is shut down or deleted, `_request_background_stop` cancels the latest
pending tag future only, so the drain returns while an earlier task runs and the runtime state is
cleared under it (against the comment at `state.py:3050`); a follow-up run clears
`_compaction_cancelled`; `wait_for_tag` may null a newer future; `/vccompact` compares turns with
messages and its run is tracked by nobody.

Session state. A late older backup, a crash before a backup, or the marker's expiry after five
minutes leave the row older than the key with the marker unset, against the docstring of
`_load_from_store`; without any failure, when one worker's backup lands after another's. A worker
that read the key before it was removed may overwrite a newer checkpoint of a lower version.
`seed_tool_counter` reads and then sets. VCATTACH that holds an expired tombstone writes a deleted
record at version 2^53 + 1 without expiry. `undelete` reads and then deletes without WATCH.

Merge and aliases. The comments at `postgres.py:3085` and 3176 say that the lifecycle lock keeps
new compactions and ingests out; they never take it. The phase 'merged' may be overwritten by a
stale `set_phase` or by the end of an ingest (against `postgres.py:2574`), and the source is then
mergeable and attachable again. Concurrent attaches A→B and B→A, or one whose first write failed,
leave a cycle of aliases on which every later construction fails; a merge does not look at its
target's own alias. Rows that engines in flight write under the source after the merge are stranded
there, with turns that restart at 1. On Postgres rows inserted between the computation of the
sort-key offset and the UPDATE can collide or be stranded. `tool_outputs` is left out of the offset.
Exceptions of callbacks other than `InvalidationFailedError` reach the caller after a durable commit.
`delete_conversation` leaves the alias rows.

Payload. The filter counts pairs of a user and an assistant message, tool rounds included, as turns,
although `formats.py` calls its groups the "SOLE source of truth"; after a drop or with tool rounds
it looks the n-th pair up as the n-th turn. Without deferral all groups without tools outside the
window are dropped, compacted or not; with it the boundary is a position in a body that may have been
truncated. The safety valve passes no window, so the default of 6 applies. The filter also runs while
mutations are deferred. A snapshot of a turn with text beside the tool result, or cut off, lacks
messages that the collapse removes. `chain_snapshots` and `tool_outputs` have the reference alone as
primary key: equal content in two conversations is one row, which moves to the later one on SQLite
and stays with the earlier one on Postgres. The upstream trim is entered when the payload exceeds
the prompt limit and trims to the larger upstream limit. Merging the stub's user message with a user
message before it lets a restore overwrite that one. The budget reduction replaces an output even if
storing it failed.

Relay. Answers of overlapping or late requests break the pairing of questions and answers in
`conversation_history`: `wait_for_tag` waits for tagging, not for streams, so "live requests are
serialized" (`state.py:153` to 161) does not hold for its appends, nor against the clearing of the
list by a deletion on another thread. Streamed answers with paging carry no conversation marker,
although "conversation markers embedded in assistant responses" (`src` `README.md:309`) are how a
conversation is found again; without paging the marker follows `message_stop` as a delta of the
closed block 0 (`handlers.py:1614`). The bail sends held-back calls after blocks of higher indexes
(`handlers.py:875`). A client that leaves a paged stream, or a continuation that times out, loses
the answer shown so far. A continuation that ends with "max_tokens" is reported as "end_turn".

## 5. Proofs

Every theorem holds for arbitrary, also infinite, sets of actors and any bounds: those on the
takeover for any `Worker`, `Op`, `Row`, `MaxEpoch` and, unless stated, both backends, under
`StoreAssumption` and `ThreadAssumption`; on the reconciler for any processes, turns, payloads,
key gaps and window sizes, under `AlignmentAssumption` and `ReconcilerAssumption`; on the session
state under `SessionAssumption`, whether or not a request carries its version; on merges for both
backends, under `MergeAssumption`; on the queue and the ingestion episode under
`QueueAssumption` and `EpisodeAssumption`; on the relay under `RelayAssumption`; on the
message list for any windows, bounds and subset of the forms, under `WindowAssumption`,
`FormAssumption` and `BoundAssumption`.

* `CompactionTakeover_proofs`, first part: every store statement keeps `StoreTypeOK`; `StoreInv`
  is the lemma the others cite.
* `CompactionTakeover_proofs!TypeCorrect`: `Spec => [](TypeOK /\ RunsHaveIds)`. `TypeOK`
  alone is not inductive: writes index `op` by `run[p].op`, so the invariant adds that a
  run past its first step has an id.
* `CompactionTakeover_proofs!PipelinesAreExclusive`: `Spec => []PipelinesExclude`. The
  invariant `LockHeld` says that a thread in the pipeline is the one the lock names, so
  only it can release; `ThreadAssumption` keeps `None`, the free lock, apart from the threads.
* `CompactionTakeover_proofs!CleanupIsComplete`: on SQLite without mid-method crashes,
  `Spec => []AbandonedLeavesNothing`. The induction follows each cleanup program counter:
  an abandoned operation is either clean or some request is at a statement whose
  remaining steps delete what is left, and no guarded write can add to an operation
  whose status is not 'running'.
* `CompactionTakeover_proofs!LedgerImplemented`: `Spec => LedgerSpec`. The inductive
  invariant `LedgerInv` adds to type correctness that ids are minted once
  (`IdsMinted`, `IdsDistinct`, `IdsFresh`: an id held by a run, a request or a pool job
  that has no row yet is held once, so a row is never opened twice), that the `dead` id of a
  request has a row (`DeadKnown`), and `OneActive`.
* `CompactionTakeover_proofs!CompactedOnce`: on SQLite, crashes included,
  `Spec => NeverRecompacted`. `MarkInv` adds to `LedgerInv` that no turn of a batch a run
  still holds, if its operation is active, carries a mark of the same epoch
  (`BatchUnmarked`), and that a mark names an operation that has a row (`MarksHaveRows`). With
  `OneActive` a second run can only mark after the first is closed, and then its guard fails.
* `CompactionTakeover_proofs!StaleFencedOnPostgres`: on Postgres, if no process dies inside a
  resurrect, `Spec => []StaleWorkerFenced`. `EpochInv` says that no remembered epoch is
  ahead of the conversation's and that an operation runs under an older one only while the
  resurrect that made it old has still to cancel it. The run has one operation; the theorem
  covers successors, whose search does not end within minutes.
* `IngestReconciler_proofs!TypeCorrect`: `Spec => []TypeOK`, on both backends. It needs the
  operators of `TurnAlignment`: whatever index the anchors provide, an alignment that is not
  out of range lies within the list that was read and the payload, so that each access to a
  row or a turn is to one that is there (`FindAlignmentFits`, from `ExtendFits`,
  `BestHitFound`, `FirstLongestFound`; `NewRowsTyped`). `TypeInv` adds that `Table` lists the
  rows (`TableSound`; ranks are injective, `RankInjective`), that a call in progress has a
  number (`ActiveCalls`) and that a call at an upsert has a row left (`Pending`).
* `IngestReconciler_proofs!RefusedLeaveNothing`: `Spec => []RefusedLeavesNothing`, on both
  backends. `RefusedInv` says that call numbers are not shared (`CallsDistinct`), that the
  rows of a call carry its number or none (`OwnRows`), that a call that has not written has
  none (`NoneYet`) and that an outcome is final, so nobody writes for a refused call.
* `IngestReconciler_proofs!PostgresMergesSerialized`, `!PostgresMergesOnlyAdd`: with
  `Backend = "postgres"`. `LockInv` says that a call past the lock holds it (`LockHeld`, which
  is what SQLite loses) and that what it has read still stands (`SeenStands`): its pending
  rows have fresh identifiers or are those read, unchanged (`TodoOwn`). With it an upsert can
  only add, or repeat a row as it is (`WriteAddsOrRepeats`), and the rollback only removes
  rows of its own call.
* `IngestReconciler_proofs!PostgresKeysFree`: on Postgres, `Spec => []KeysFree`, for `L` and `G`
  with `PayloadsFit(L)` and `GapsLast(G, L)`: a payload has at most `L` turns, and `G[c]` is a
  distance that is left between any two keys when `c` calls have placed their turns, each of which
  may divide a gap by `L + 1`. Without it the property is false: `Step` has a floor, `MinStep`, and
  the keys then reach the right neighbour. In the code a gap of 1000.0 over a floor of 0.001 leaves
  room for 8 calls of 4 turns into the same gap (5^8 < 10^6), and for any number that append. The
  hypothesis counts calls, not calls into one gap, so it says nothing of longer histories; TLC
  evaluates it for the constants of the run (`MCReconcilerAssumption`). `PlanInv` says of each call
  on Postgres what it has planned (`Plan`, a function of what it read, its payload and the
  alignment): what is not in the table of the plan is still to be written, the call has no other
  rows, and no two rows have the same key (`KeysUnique`). `RoomInv(G)` says that the keys that are
  there and those that are planned lie `G[c]` apart, for the number `c` of calls that have placed
  theirs; `MergedGrows` (old and new rows in their places are in the order of their keys) is the
  lemma on positions it rests on.
* `IngestReconciler_proofs!PostgresPayloadIsStored`: under the same hypotheses,
  `Spec => []PayloadIsStored`. From `PlanInv` and `SeenStands` the table is what was read with the
  rows of the plan in their places (`PlanListsTurns`), and `ORDER BY` yields them in that order
  (`TableFollows`, by counting the rows that precede one); the payload is then at the position the
  alignment gives it (`PayloadAt`).
* `IngestReconciler_proofs!PostgresStoredWritesNothing`: on Postgres,
  `Spec => StoredPayloadWritesNothing`, if some anchor window is no longer than `ShortOverlap` (3
  and 3 in the code). Anchors that describe the table yield the windows of the table
  (`IndexOfTable`, as `PlanInv` says that what a call aligns is the table); of a payload that
  occurs in it the search finds an alignment as long as the payload (`FindsWhole`): by prefix, by
  the longest short overlap, or by the best hit, which extends at least as far as the hit where the
  payload is (`AnchorsFindWhole`). Gaps play no part in it.
* `SessionState_proofs!SessionTypes`, `!NoUpdateIsLost`, `!TombstonesFence`, `!StoreFollows`:
  the four properties of its run. The version alone does not carry the argument: a worker may
  hold a version the key has reached again after it was removed. The invariant counts the
  removals (`losses`, `life`): a copy read in this life of the key has only edits that the key
  has, or would be rejected for its version, and a WATCH that no write has broken gives
  equality between what was compared and what is there. Backups under way are copies of what
  the key accepted in some earlier life, which is why `StoreFollows` ends with the first loss.

* `ConversationMerge_proofs`: all five properties of its run, on both backends. `AuditFollows`
  (a body is open only while its audit row is in progress, and has committed only if the row says
  so) gives `AuditIsTruthful`. `LockInv` says who holds the two lifecycle rows of a merge at each
  of its steps, and that a body that waits for its second row holds only the one that sorts first,
  so a circle of waits would be a circle in the order of conversations (`LocksDoNotCycle`).
  `RowInv` says what a body has checked still stands when it commits: no turn is past its
  conversation's counter, the offset clears the target's counter as long as the body holds the
  locks, and what it has taken is every row that could collide or be stranded. `TurnsAreDistinct`
  and `MovedRowsStayLive` are not inductive without it.
* `TurnQueue_proofs!TypeCorrect`: the invariant adds what the loop, the tagger and the compactor
  hold between two steps (whoever submits has a demand and a future).
* `TurnQueue_proofs!TurnsTaggedOnce`: a tagger past its look at the index has a turn without an
  entry, because it is the only thread that writes there.
* `TurnQueue_proofs!ReservationsEnd`: `ReservedInv` says that each reserved turn has a task that
  waits or runs for that turn *and* that hash: a task gives back only the reservation of its own
  hash, so a turn whose hash was replaced must have the replacement's task still to come.
* `TurnQueue_proofs!DemandImplemented`: `Spec => DemandSpec`. `owed` is the maximum of what the
  loop, the tagger, the running task, the waiting tasks and the queued request hold. `ActiveInv`
  says that the target the lock names is somebody's, so a request that is coalesced into it is
  still owed; `FurthestExists` and `FurthestGrows` are the facts on maxima that each action needs.
* `IngestionEpisode_proofs!TypeCorrect`: with a deletion there is room for the epoch of the
  resurrection.
* `IngestionEpisode_proofs!UntaggedAnswered`: `Spec => []UntaggedIsAnswered`. Until something is
  dropped (a worker dies, the conversation is deleted, a request fails on its epoch) everybody who
  has an epoch has the same (`Calm`), so no statement is filtered away; and each row that no sweep
  has in hand has a running episode, a request before its upsert or a compaction before its drain
  (`Answered`). Requests at their claim or on the way to 'active' need not be counted: the
  invariant is stronger than the property. The guard of the completion and the drain's look at
  the untagged rows are the two places where the induction would break.

* `ResponseRelay_proofs!TypeCorrect`: `Spec => []TypeOK`. The bound of the count from which the
  proxy numbers its own blocks needs an invariant of its own (`Bounded`): what is left of it shrinks
  with each block and each round, and a round shows at most `MaxBlocks` blocks (`OnlySame`,
  `OnlyLengths`).
* `ResponseRelay_proofs!StreamWellFormed`: `Spec => []WireWellFormed`, in whatever order the
  model writes its blocks. `OrderInv` says which events are on the wire at each step of the
  handler, so that a delta, a stop or a marker comes only where nothing follows it. `IndexInv`
  says that, until a delta is sent, the count from which the proxy numbers equals the number of
  blocks on the wire, so that a block of the model is in its way only with an index above its own
  place (`AddedRise`); and that, while the model streams, what was forwarded and what is held back
  are two increasing sequences without a common index, so that what is released repeats none
  (`ReleasedRise`).
* `ResponseRelay_proofs!CallsAreAnswered`: `Spec => []CallsAnswered`. `CallInv` ties `vcTools` to
  the calls among the blocks kept for the body (or, in a later round, among those of the model's
  last message), and what the wire shows and tells to the calls the model has sent, until the
  results are in the body.
* `ResponseRelay_proofs!AnswersAreRecorded`: `Spec => []RecordedIsShown`. `TextInv` says that
  `texts` is what the wire shows, all rounds in order; `HistoryInv` that a request has no answer
  in the history before its `Record` and at most one after it, which is its `texts`, unless a
  deletion has cleared the list.

* `PayloadPipeline_proofs!TypeCorrect`, `!StubsAreStored`: `Spec => []TypeOK`, `Spec => []StubsStored`.
  The invariant `Inv` is more than the two. `Sending` says that until chains are collapsed the
  payload holds the client's messages only (`Raw`: with ids of turns that are sent, without
  references, so that the message that names a group has an id) and that a stub's references and
  outputs are stored (`Good`). `Kept` says that the cache knows only chains that have a row and that
  the client has sent the whole chain of each row (`WholeChain`), which is why a `Restore` finds a
  chain to put in the place of the pair; turns that are asked and answered later leave those chains
  as they are (`WholeKept`). Every operation of `PayloadMessages` keeps the type of its messages
  (`FilterTyped`, `CollapsedTyped`, `MergeTyped`, `CleanupTyped`, `RestoreTyped` and others).
  The loop of the collapse is followed state by state: all that it knows, offers or puts into the
  cache has a row or has just got one (`Backed`, kept by `StepBacked`), a write that raises included.

* `PayloadPipeline_proofs!ToolsArePaired`, `!PayloadBeginsWithUser`: `Spec => []ToolsPaired`,
  `Spec => []BeginsWithUser`. Neither is inductive: what a stage cuts at depends on roles and on
  results, not on calls. The invariant added to `Inv` is `Linking`. The payload is `Linked`: its first
  message answers nothing and is a user's, its last one calls nothing, and the calls of each message
  are *exactly* what the next one answers (`Passes`, which composes: pieces that hand their open calls
  on can be put one after the other); only assistants call and only users answer (`Sided`), so
  that a message which begins a group answers nothing and a cut between groups parts no call. And
  until chains are collapsed no call is made twice (`CallsOnce`): the filter's test for orphans and the
  collapse look by the id of the call, so with a call in two messages the one could take another's
  call for its own, and the other strip a result whose call stays. Each operation keeps that
  (`DropLinked`, `StubOutputsLinked`, `MergeLinked`, `TrimmedLinked`, `CleanupLinked`,
  `CollapsedLinked`, `RecoveredLinked`, `RestoreLinked`), and `LinkedWhole` says that the cleanup
  finds nothing to clean. The hard one is `FilterLinked`: the closure is closed under the halves of a call (`ClosureClosed`), the backfill
  puts a user in front (`BackfilledBegins`), and `Alternate`, which replaces one of two neighbours
  with the same role, is followed message by message: those that are marked as half of a call are
  never replaced, so the list built so far waits for the calls of its last message at every step
  (`StepAlternates`, `AlternatePrefix`, `PrefixEnds`). For a `Restore`, `RestorableLinked` says that
  a chain cut from the client's history, without the results that come from before it, stands
  by itself.

The relay and the message list select from lists of any length, and what a selection yields is an
induction over the list. The library's induction theorems take an operator as a parameter, which
the provers cannot instantiate. The proofs state the induction for a *set* instead (`InductionOver`,
`SeqInductionOver`: a set of naturals, or of sequences, that has the first and with each the next
has them all), which follows from the least element outside the set, and unfold recursive functions
by an operator that says what the values up to `n` are (`Keeps`). `Only` is the `SelectSeq` of a set as such
a function, because the body of `SelectSeq` is out of the provers' sight.

All safety properties of the takeover, the reconciler, the session state, the merges, the queue,
the ingestion episode and the relay that the runs check are proved, each for the backend it holds
on, and of the message list all but two. Only model-checked are `ChainsOnce` and `RecoversSeen` of
`PayloadPipeline`, which relate the chains of the body to those of the store and the cache for the
whole request, and all liveness properties, which are out of the provers' reach
(`DeadCompactionIsTakenOver`, `OrphanPhaseIsLeft`, `LeaseIsTakenOver`, `ThreadsEnd`, `WaitsEnd`,
`StreamsEnd`).

## 6. Plan

Built: the lifecycle rows, compaction and takeover, with the abstract ledger; the ingest
reconciler with its alignment; the ingestion episode; the turn queue with its abstract
demand; the session state; merge and aliases; the message list; the response relay. Proofs next,
in this order:

1. `NeverRecompacted` on Postgres, where a mark's guard can be read before cleanup commits, in the
   form that does hold there.
2. `KeysFree` and `PayloadIsStored` with a hypothesis on the calls into one gap in place of all
   calls, so that histories that only append are covered at any length.
3. `ChainsOnce`, from the invariant that a group of the payload that is not a stub has the ids of
   one turn, and that the groups and the stubs of a payload are of different turns. Looking for that invariant is
   what showed that `ChainsApart` is false.

Models next: deletion against late phase writes (`set_phase`, `enter_compaction` and
`drain_compaction_exit` check the epoch and not the phase); the shutdown of a session in
`TurnQueue`; an abstract specification of the reconciler (a conversation is a list that merges
only widen), which it should implement on Postgres where `AlignmentIsTrue`; `fill_pass` and
the other message formats; the protected window and the paging store as operators.

### Not modelled

* Of the payload: every format but Anthropic's; media, thinking blocks, context injection, token
  budgets and the shortening of single messages; `fill_pass` (off by default); turns with more than
  one tool round or more than one output, and turns with equal text (chains and outputs are then
  content-addressed alike); a store whose reads fail; the client's own summary after a truncation;
  `tool_output.enabled` FALSE. Whether the text the tagger hashes is the one the collapse finds
  (`hashed`), whether the provider's cache is cold, which tags match and what fits the window are
  nondeterministic. Entries are made for answered turns only, and none while a request is prepared,
  since it waits for them (`server.py:1115`). The forms "mixed" and "split" are those the comment at
  `message_filter.py:497` reports.
* Of ingestion: `reconcile_history_bootstrap`, the teardown at deletion, payloads shorter than the
  rows stored, a worker that comes back under its id.
* Of merges: sort keys, tag conflicts, tenants, labels, the outbox table, the trim of the moved
  tables; `BeginIngest` is one step, and `AttachAccept` never fails open.
* Of the session state: the tool counter, the caches of statistics, embeddings and hints.
* Of the relay: formats other than Anthropic's, the one-time rebuild of the history when a request
  arrives, usage counts and logs, keep-alive bytes, what the tools of the proxy do.
* Retrieval, scoring, text assembly, date parsing, media, LLM calls, metrics, dashboards, command
  lines, configuration, importers and benchmarks. They keep no shared state; what they do is numeric
  ranking, text or I/O. They, the schema and the queries of the stores are most of the
  repository's lines, which is why the map covers a small part of them; what is left
  out adds no interleaving, failure or ordering to what is here.
