--------------------------- MODULE ConversationStore ---------------------------
(****************************************************************************)
(* The rows of one conversation that several workers share, and the store   *)
(* methods that change them (storage/sqlite.py; storage/postgres.py has the *)
(* same statements).                                                        *)
(*                                                                          *)
(* Every operator below that primes a variable is one SQL statement or one  *)
(* explicit transaction of the source, and constrains every variable of     *)
(* this module.  A method that a backend runs as several autocommitted      *)
(* statements is several operators here: cleanup and claim on SQLite,       *)
(* resurrect on Postgres, mark_conversation_deleted on both.                *)
(*                                                                          *)
(* Abstractions: time is the Boolean "fresh" (is heartbeat_ts younger than  *)
(* the lease TTL?); owner and heartbeat of a row that is no longer active   *)
(* are forgotten, since no statement reads them; the counters that only     *)
(* feed progress bars (raw payload entries, phase_index) are left out.  Of  *)
(* an ingestion episode only the owner is kept: the statements here do not  *)
(* read its heartbeat.                                                      *)
(****************************************************************************)
EXTENDS Naturals, FiniteSets

CONSTANTS
  Worker,      \* worker ids; a restarted process has a new one
  Op,          \* compaction operation ids (uuid4 values)
  Row,         \* canonical turn ids
  MaxEpoch,    \* bound on conversations.lifecycle_epoch
  None,        \* SQL NULL / Python None
  Backend      \* "sqlite" or "postgres": they group statements differently

ASSUME StoreAssumption ==
  /\ MaxEpoch \in Nat \ {0}
  /\ None \notin Worker \cup Op \cup Row
  /\ Backend \in {"sqlite", "postgres"}

VARIABLES
  phase,        \* conversations.phase
  epoch,        \* conversations.lifecycle_epoch
  op,           \* compaction_operation rows, by operation_id
  episode,      \* owner of the running ingestion_episode of each epoch, or None
  tagging,      \* canonical_turns: is the row there, and is tagged_at NULL?
  compactedBy,  \* canonical_turns.compaction_operation_id
  segments,     \* operations that have rows in segments
  facts,        \* operations that have rows in facts
  summary       \* tag_summaries.operation_id of a tag all compactions touch

artifactVars == <<compactedBy, segments, facts, summary>>
storeVars == <<phase, epoch, op, episode, tagging, compactedBy, segments,
               facts, summary>>

Epoch == 1..MaxEpoch
Phase == {"init", "ingesting", "compacting", "active", "deleted"}
Active == {"queued", "running"}
Closed == {"completed", "failed", "abandoned", "cancelled"}
OpRow == [status : {"absent"} \cup Active \cup Closed,
          owner : Worker \cup {None}, ep : 0..MaxEpoch, fresh : BOOLEAN]

NoOp == [status |-> "absent", owner |-> None, ep |-> 0, fresh |-> FALSE]

StoreTypeOK ==
  /\ phase \in Phase
  /\ epoch \in Epoch
  /\ op \in [Op -> OpRow]
  /\ episode \in [Epoch -> Worker \cup {None}]
  /\ tagging \in [Row -> {"absent", "untagged", "tagged"}]
  /\ compactedBy \in [Row -> Op \cup {None}]
  /\ segments \subseteq Op
  /\ facts \subseteq Op
  /\ summary \in Op \cup {None}

StoreInit ==
  /\ phase = "init"
  /\ epoch = 1
  /\ op = [o \in Op |-> NoOp]
  /\ episode = [e \in Epoch |-> None]
  /\ tagging = [r \in Row |-> "absent"]
  /\ compactedBy = [r \in Row |-> None]
  /\ segments = {}
  /\ facts = {}
  /\ summary = None

-----------------------------------------------------------------------------
(* What the statements' WHERE clauses and the snapshot read.                 *)

\* The rows of idx_compaction_operation_active at epoch e.
ActiveOps(e) == {o \in Op : op[o].status \in Active /\ op[o].ep = e}

\* EXISTS (SELECT 1 FROM canonical_turns WHERE tagged_at IS NULL).
HasUntagged == \E r \in Row : tagging[r] = "untagged"

\* The ownership guard of every compaction write.
MayWrite(w, e, o) ==
  op[o].status = "running" /\ op[o].owner = w /\ op[o].ep = e

\* Mutant: the query without its compacted_at IS NULL.
EveryRow == {r \in Row : tagging[r] # "absent"}

\* Rows whose compacted_at is NULL, the candidates of a compaction.
Uncompacted == {r \in Row : tagging[r] # "absent" /\ compactedBy[r] = None}

\* Mutant: the owner alone, whatever epoch the conversation is in.
OwnedOpsAnyEpoch(w, e) == {o \in ActiveOps(e) : op[o].owner = w}

\* The active operations worker w may close or advance: epoch and owner match,
\* and the operation id is NOT part of the WHERE clause.
OwnedOps(w, e) == {o \in ActiveOps(e) : op[o].owner = w /\ e = epoch}

Close(row, st) == [row EXCEPT !.status = st, !.owner = None, !.fresh = FALSE]

-----------------------------------------------------------------------------
(* conversations                                                            *)

SetPhase(e, p) ==
  /\ phase' = IF e = epoch THEN p ELSE phase
  /\ UNCHANGED <<epoch, op, episode, tagging, artifactVars>>

\* mark_conversation_deleted runs three autocommitted statements.
MarkDeleted ==
  /\ phase' = "deleted"
  /\ UNCHANGED <<epoch, op, episode, tagging, artifactVars>>

AbandonEpisodes(E) ==
  /\ episode' = [e \in Epoch |-> IF e \in E THEN None ELSE episode[e]]
  /\ UNCHANGED <<phase, epoch, op, tagging, artifactVars>>

CancelOps(E) ==
  /\ op' = [o \in Op |-> IF op[o].status \in Active /\ op[o].ep \in E
                         THEN Close(op[o], "cancelled") ELSE op[o]]
  /\ UNCHANGED <<phase, epoch, episode, tagging, artifactVars>>

\* increment_lifecycle_epoch_on_resurrect: one transaction on SQLite ...
Resurrect ==
  LET e2 == IF phase = "deleted" THEN epoch + 1 ELSE epoch IN
  /\ epoch' = e2
  /\ phase' = IF phase = "deleted" THEN "init" ELSE phase
  /\ episode' = [e \in Epoch |-> IF e < e2 THEN None ELSE episode[e]]
  /\ op' = [o \in Op |-> IF op[o].status \in Active /\ op[o].ep < e2
                         THEN Close(op[o], "cancelled") ELSE op[o]]
  /\ UNCHANGED <<tagging, artifactVars>>

\* Mutant: every resurrect request bumps the epoch.
BumpEpochAgain ==
  /\ epoch' = epoch + 1
  /\ phase' = "init"
  /\ UNCHANGED <<op, episode, tagging, artifactVars>>

\* ... and three autocommitted statements on Postgres, of which this is the
\* first (the others are AbandonEpisodes and CancelOps on the older epochs).
BumpEpoch ==
  /\ epoch' = IF phase = "deleted" THEN epoch + 1 ELSE epoch
  /\ phase' = IF phase = "deleted" THEN "init" ELSE phase
  /\ UNCHANGED <<op, episode, tagging, artifactVars>>

-----------------------------------------------------------------------------
(* compaction_operation                                                     *)

\* Mutant: no partial unique index.
StartSecondOperation(w, e, o) ==
  /\ op' = [op EXCEPT ![o] = [status |-> "queued", owner |-> w,
                              ep |-> e, fresh |-> TRUE]]
  /\ UNCHANGED <<phase, epoch, episode, tagging, artifactVars>>

\* The INSERT succeeds only without an active row at this epoch (partial
\* unique index); it does not look at conversations.lifecycle_epoch.
StartCompactionOperation(w, e, o) ==
  /\ op' = IF ActiveOps(e) = {}
           THEN [op EXCEPT ![o] = [status |-> "queued", owner |-> w,
                                   ep |-> e, fresh |-> TRUE]]
           ELSE op
  /\ UNCHANGED <<phase, epoch, episode, tagging, artifactVars>>

\* Mutant: no takeover of a lapsed lease.
ClaimableByOwner(w, e) == {o \in ActiveOps(e) : op[o].owner = w}

\* The UPDATE of claim_compaction_lease.
Claimable(w, e) == {o \in ActiveOps(e) : op[o].owner = w \/ ~op[o].fresh}

ClaimCompactionLease(w, e) ==
  /\ op' = [o \in Op |-> IF o \in Claimable(w, e)
                         THEN [op[o] EXCEPT !.owner = w, !.fresh = TRUE]
                         ELSE op[o]]
  /\ UNCHANGED <<phase, epoch, episode, tagging, artifactVars>>

RefreshCompactionHeartbeat(w, e, o) ==
  /\ op' = IF MayWrite(w, e, o) THEN [op EXCEPT ![o].fresh = TRUE] ELSE op
  /\ UNCHANGED <<phase, epoch, episode, tagging, artifactVars>>

AdvanceCompactionPhase(w, e) ==
  /\ op' = [o \in Op |-> IF o \in OwnedOps(w, e)
                         THEN [op[o] EXCEPT !.status = "running", !.fresh = TRUE]
                         ELSE op[o]]
  /\ UNCHANGED <<phase, epoch, episode, tagging, artifactVars>>

\* complete_compaction_operation and fail_compaction_operation.
CloseCompactionOperation(w, e, st) ==
  /\ op' = [o \in Op |-> IF o \in OwnedOps(w, e) THEN Close(op[o], st)
                         ELSE op[o]]
  /\ UNCHANGED <<phase, epoch, episode, tagging, artifactVars>>

\* drain_compaction_exit, one transaction.  The INSERT of an episode fails on
\* the partial unique index when one is running: the transaction rolls back.
DrainFails(e) == e = epoch /\ HasUntagged /\ episode[e] # None

DrainCompactionExit(w, e) ==
  /\ IF e # epoch \/ DrainFails(e) THEN UNCHANGED <<phase, episode>>
     ELSE IF HasUntagged
     THEN /\ phase' = "ingesting"
          /\ episode' = [episode EXCEPT ![e] = w]
     ELSE phase' = "active" /\ UNCHANGED episode
  /\ UNCHANGED <<epoch, op, tagging, artifactVars>>

-----------------------------------------------------------------------------
(* cleanup_abandoned_compaction: its statements, then the transaction.      *)

FreshTakeover(e, dead) == op[dead].status = "running" /\ op[dead].ep = e

AbandonOp(e, dead) ==
  /\ op' = IF FreshTakeover(e, dead)
           THEN [op EXCEPT ![dead] = Close(@, "abandoned")] ELSE op
  /\ UNCHANGED <<phase, epoch, episode, tagging, artifactVars>>

\* facts rows carry no operation_id, so DELETE FROM facts matches none.
DeleteSegments(dead) ==
  /\ segments' = segments \ {dead}
  /\ UNCHANGED <<phase, epoch, op, episode, tagging, compactedBy, facts, summary>>

DeleteSummaries(dead) ==
  /\ summary' = IF summary = dead THEN None ELSE summary
  /\ UNCHANGED <<phase, epoch, op, episode, tagging, compactedBy, segments, facts>>

Uncompact(dead) ==
  /\ compactedBy' = [r \in Row |-> IF compactedBy[r] = dead THEN None
                                   ELSE compactedBy[r]]
  /\ UNCHANGED <<phase, epoch, op, episode, tagging, segments, facts, summary>>

RunningRow(w, e) == [status |-> "running", owner |-> w, ep |-> e, fresh |-> TRUE]

InsertRunning(w, e, o) ==
  /\ op' = IF ActiveOps(e) = {} THEN [op EXCEPT ![o] = RunningRow(w, e)] ELSE op
  /\ UNCHANGED <<phase, epoch, episode, tagging, artifactVars>>

CleanupAbandonedCompaction(w, e, dead, new) ==
  /\ op' = IF FreshTakeover(e, dead)
           THEN [op EXCEPT ![dead] = Close(@, "abandoned"),
                           ![new] = RunningRow(w, e)]
           ELSE op
  /\ segments' = segments \ {dead}
  /\ summary' = IF summary = dead THEN None ELSE summary
  /\ compactedBy' = [r \in Row |-> IF compactedBy[r] = dead THEN None
                                   ELSE compactedBy[r]]
  /\ UNCHANGED <<phase, epoch, episode, tagging, facts>>

-----------------------------------------------------------------------------
(* The writes of a compaction.  "held" is what the statement's guard on the *)
(* operation row (MayWrite) saw; a write that is not held changes nothing    *)
(* and its caller raises CompactionLeaseLost.  SQLite sees the row at the    *)
(* instant it writes.  Postgres (READ COMMITTED, no lock on the operation    *)
(* row) sees the statement's snapshot, and the write lands at commit.        *)

\* Mutants: a write without its guard.
StoreSegmentUnguarded(o, held) ==
  /\ segments' = segments \cup {o}
  /\ UNCHANGED <<phase, epoch, op, episode, tagging, compactedBy, facts, summary>>

MarkTurnsUnguarded(o, R, held) ==
  /\ compactedBy' = [r \in Row |-> IF r \in R THEN o ELSE compactedBy[r]]
  /\ UNCHANGED <<phase, epoch, op, episode, tagging, segments, facts, summary>>

StoreSegment(o, held) ==
  /\ segments' = IF held THEN segments \cup {o} ELSE segments
  /\ UNCHANGED <<phase, epoch, op, episode, tagging, compactedBy, facts, summary>>

StoreFacts(o, held) ==
  /\ facts' = IF held THEN facts \cup {o} ELSE facts
  /\ UNCHANGED <<phase, epoch, op, episode, tagging, compactedBy, segments, summary>>

MarkCanonicalTurnsCompacted(o, R, held) ==
  /\ compactedBy' = [r \in Row |-> IF held /\ r \in R THEN o ELSE compactedBy[r]]
  /\ UNCHANGED <<phase, epoch, op, episode, tagging, segments, facts, summary>>

SaveTagSummary(o, held) ==
  /\ summary' = IF held THEN o ELSE summary
  /\ UNCHANGED <<phase, epoch, op, episode, tagging, compactedBy, segments, facts>>

-----------------------------------------------------------------------------
(* canonical_turns and ingestion_episode                                    *)

ArriveRow(r) ==
  /\ tagging' = [tagging EXCEPT ![r] = "untagged"]
  /\ UNCHANGED <<phase, epoch, op, episode, artifactVars>>

MarkCanonicalRowTagged(e, r) ==
  /\ tagging' = IF e = epoch /\ tagging[r] = "untagged"
                THEN [tagging EXCEPT ![r] = "tagged"] ELSE tagging
  /\ UNCHANGED <<phase, epoch, op, episode, artifactVars>>

UpsertIngestionEpisode(w, e) ==
  /\ episode' = IF episode[e] = None
                THEN [episode EXCEPT ![e] = w]
                ELSE episode
  /\ UNCHANGED <<phase, epoch, op, tagging, artifactVars>>

OwnsIngestion(w, e) == e = epoch /\ episode[e] = w

MayCompleteIngestion(w, e) == OwnsIngestion(w, e) /\ ~HasUntagged

CompleteIngestionEpisode(w, e) ==
  /\ episode' = IF MayCompleteIngestion(w, e)
                THEN [episode EXCEPT ![e] = None] ELSE episode
  /\ UNCHANGED <<phase, epoch, op, tagging, artifactVars>>

-----------------------------------------------------------------------------
(* The passing of time: a heartbeat becomes older than the lease TTL.        *)

OpHeartbeatLapses(o) ==
  /\ op[o].status \in Active /\ op[o].fresh
  /\ op' = [op EXCEPT ![o].fresh = FALSE]
  /\ UNCHANGED <<phase, epoch, episode, tagging, artifactVars>>
=============================================================================
