------------------------ MODULE CompactionTakeover_proofs ------------------------
(****************************************************************************)
(* Proofs about CompactionTakeover, for every set of workers, operations    *)
(* and turns: types, that the two pipelines of a worker exclude each other, *)
(* that cleanup is complete, and, in the second part, that the rows         *)
(* implement OperationLedger.                                               *)
(****************************************************************************)
EXTENDS CompactionTakeover, TLAPS

-----------------------------------------------------------------------------
(****************************************************************************)
(* What every statement of ConversationStore preserves: the types of its    *)
(* rows, and that a deleted conversation still has an epoch to resurrect to *)
(* (the bound MaxEpoch also bounds deletions).                              *)
(****************************************************************************)

StoreInv == StoreTypeOK /\ (phase = "deleted" => epoch < MaxEpoch)

\* The initial rows have their types.
LEMMA StoreInitInv == StoreInit => StoreInv
BY StoreAssumption, SMT
   DEF StoreInit, StoreInv, StoreTypeOK, Phase, Epoch, OpRow, NoOp

\* A step that leaves every row alone.
LEMMA StoreUnchanged == StoreInv /\ UNCHANGED storeVars => StoreInv'
BY DEF StoreInv, StoreTypeOK, storeVars, artifactVars

-----------------------------------------------------------------------------
(* Statements on conversations.                                              *)

\* set_phase writes one of the phases and never 'deleted'.
LEMMA SetPhaseInv ==
  ASSUME StoreInv, NEW e, NEW p \in Phase \ {"deleted"}, SetPhase(e, p)
  PROVE  StoreInv'
BY DEF StoreInv, StoreTypeOK, SetPhase, artifactVars

\* mark_conversation_deleted, first statement.
LEMMA MarkDeletedInv ==
  ASSUME StoreInv, epoch < MaxEpoch, MarkDeleted
  PROVE  StoreInv'
BY DEF StoreInv, StoreTypeOK, MarkDeleted, artifactVars, Phase

\* Closing the running episodes of some epochs.
LEMMA AbandonEpisodesInv ==
  ASSUME StoreInv, NEW E, AbandonEpisodes(E)
  PROVE  StoreInv'
BY DEF StoreInv, StoreTypeOK, AbandonEpisodes, artifactVars

\* A closed row is a row.
LEMMA CloseType ==
  ASSUME NEW row \in OpRow, NEW st \in Closed
  PROVE  Close(row, st) \in OpRow
BY DEF Close, OpRow, Closed

\* Cancelling the active operations of some epochs.
LEMMA CancelOpsInv ==
  ASSUME StoreInv, NEW E, CancelOps(E)
  PROVE  StoreInv'
<1>1. \A o \in Op : op[o] \in OpRow /\ Close(op[o], "cancelled") \in OpRow
  BY CloseType DEF StoreInv, StoreTypeOK, Closed
<1>2. op' \in [Op -> OpRow]
  BY <1>1 DEF CancelOps
<1> QED BY <1>2 DEF StoreInv, StoreTypeOK, CancelOps, artifactVars

\* Both backends' resurrect bump the epoch only of a deleted conversation.
LEMMA ResurrectInv ==
  ASSUME StoreInv, Resurrect
  PROVE  StoreInv'
<1> DEFINE e2 == IF phase = "deleted" THEN epoch + 1 ELSE epoch
<1>1. \A o \in Op : op[o] \in OpRow /\ Close(op[o], "cancelled") \in OpRow
  BY CloseType DEF StoreInv, StoreTypeOK, Closed
<1>2. op' \in [Op -> OpRow]
  BY <1>1 DEF Resurrect
<1>3. epoch' \in Epoch /\ phase' \in Phase \ {"deleted"}
  BY StoreAssumption DEF StoreInv, StoreTypeOK, Resurrect, Epoch, Phase
<1>4. episode' \in [Epoch -> Worker \cup {None}]
  BY DEF StoreInv, StoreTypeOK, Resurrect
<1> QED
  BY <1>2, <1>3, <1>4 DEF StoreInv, StoreTypeOK, Resurrect, artifactVars

\* The first statement of the Postgres resurrect.
LEMMA BumpEpochInv ==
  ASSUME StoreInv, BumpEpoch
  PROVE  StoreInv'
BY StoreAssumption
   DEF StoreInv, StoreTypeOK, BumpEpoch, artifactVars, Epoch, Phase

-----------------------------------------------------------------------------
(* Statements on compaction_operation.                                       *)

\* The INSERT of a queued row.
LEMMA StartCompactionOperationInv ==
  ASSUME StoreInv, NEW w \in Worker, NEW e \in 0..MaxEpoch, NEW o,
         StartCompactionOperation(w, e, o)
  PROVE  StoreInv'
BY DEF StoreInv, StoreTypeOK, StartCompactionOperation, artifactVars, OpRow, Active

\* claim_compaction_lease.
LEMMA ClaimCompactionLeaseInv ==
  ASSUME StoreInv, NEW w \in Worker, NEW e, ClaimCompactionLease(w, e)
  PROVE  StoreInv'
BY DEF StoreInv, StoreTypeOK, ClaimCompactionLease, artifactVars, OpRow

\* refresh_compaction_heartbeat.
LEMMA RefreshCompactionHeartbeatInv ==
  ASSUME StoreInv, NEW w, NEW e, NEW o, RefreshCompactionHeartbeat(w, e, o)
  PROVE  StoreInv'
BY DEF StoreInv, StoreTypeOK, RefreshCompactionHeartbeat, artifactVars, OpRow

\* advance_compaction_phase.
LEMMA AdvanceCompactionPhaseInv ==
  ASSUME StoreInv, NEW w, NEW e, AdvanceCompactionPhase(w, e)
  PROVE  StoreInv'
BY DEF StoreInv, StoreTypeOK, AdvanceCompactionPhase, artifactVars, OpRow, Active

\* complete_compaction_operation and fail_compaction_operation.
LEMMA CloseCompactionOperationInv ==
  ASSUME StoreInv, NEW w, NEW e, NEW st \in Closed,
         CloseCompactionOperation(w, e, st)
  PROVE  StoreInv'
<1>1. \A o \in Op : op[o] \in OpRow /\ Close(op[o], st) \in OpRow
  BY CloseType DEF StoreInv, StoreTypeOK
<1>2. op' \in [Op -> OpRow]
  BY <1>1 DEF CloseCompactionOperation
<1> QED
  BY <1>2 DEF StoreInv, StoreTypeOK, CloseCompactionOperation, artifactVars

\* drain_compaction_exit.
LEMMA DrainCompactionExitInv ==
  ASSUME StoreInv, NEW w \in Worker, NEW e, DrainCompactionExit(w, e)
  PROVE  StoreInv'
<1>1. phase' \in Phase /\ (phase' = "deleted" => phase = "deleted")
  BY DEF StoreInv, StoreTypeOK, DrainCompactionExit, Phase
<1>2. \/ episode' = episode
      \/ episode' = [episode EXCEPT ![e] = w]
  BY DEF DrainCompactionExit
<1>3. episode \in [Epoch -> Worker \cup {None}]
  BY DEF StoreInv, StoreTypeOK
<1>4. episode' \in [Epoch -> Worker \cup {None}]
  BY <1>2, <1>3
<1> QED
  BY <1>1, <1>4 DEF StoreInv, StoreTypeOK, DrainCompactionExit, artifactVars

\* The statements of cleanup_abandoned_compaction, apart and together.
LEMMA AbandonOpInv ==
  ASSUME StoreInv, NEW e, NEW dead, AbandonOp(e, dead)
  PROVE  StoreInv'
<1>1. \A o \in Op : op[o] \in OpRow /\ Close(op[o], "abandoned") \in OpRow
  BY CloseType DEF StoreInv, StoreTypeOK, Closed
<1>2. op' \in [Op -> OpRow]
  <2>1. CASE dead \in Op
    BY <1>1, <2>1 DEF AbandonOp, StoreInv, StoreTypeOK
  <2>2. CASE dead \notin Op
    BY <1>1, <2>2 DEF AbandonOp, StoreInv, StoreTypeOK
  <2> QED BY <2>1, <2>2
<1> QED BY <1>2 DEF StoreInv, StoreTypeOK, AbandonOp, artifactVars

\* DELETE FROM segments of the abandoned operation.
LEMMA DeleteSegmentsInv ==
  ASSUME StoreInv, NEW dead, DeleteSegments(dead)
  PROVE  StoreInv'
BY DEF StoreInv, StoreTypeOK, DeleteSegments

\* DELETE FROM tag_summaries of the abandoned operation.
LEMMA DeleteSummariesInv ==
  ASSUME StoreInv, NEW dead, DeleteSummaries(dead)
  PROVE  StoreInv'
BY DEF StoreInv, StoreTypeOK, DeleteSummaries

\* Clearing the compaction marks of the abandoned operation.
LEMMA UncompactInv ==
  ASSUME StoreInv, NEW dead, Uncompact(dead)
  PROVE  StoreInv'
BY DEF StoreInv, StoreTypeOK, Uncompact

\* The INSERT of the successor's running row.
LEMMA InsertRunningInv ==
  ASSUME StoreInv, NEW w \in Worker, NEW e \in 0..MaxEpoch, NEW o,
         InsertRunning(w, e, o)
  PROVE  StoreInv'
BY DEF StoreInv, StoreTypeOK, InsertRunning, RunningRow, artifactVars, OpRow, Active

\* All of them in one transaction.
LEMMA CleanupAbandonedCompactionInv ==
  ASSUME StoreInv, NEW w \in Worker, NEW e \in 0..MaxEpoch, NEW dead, NEW new,
         CleanupAbandonedCompaction(w, e, dead, new)
  PROVE  StoreInv'
<1>1. \A o \in Op : op[o] \in OpRow /\ Close(op[o], "abandoned") \in OpRow
  BY CloseType DEF StoreInv, StoreTypeOK, Closed
<1>2. RunningRow(w, e) \in OpRow
  BY DEF RunningRow, OpRow, Active
<1>3. op' \in [Op -> OpRow]
  <2>1. CASE dead \in Op
    BY <1>1, <1>2, <2>1 DEF CleanupAbandonedCompaction, StoreInv, StoreTypeOK
  <2>2. CASE dead \notin Op
    BY <1>1, <1>2, <2>2 DEF CleanupAbandonedCompaction, StoreInv, StoreTypeOK
  <2> QED BY <2>1, <2>2
<1> QED
  BY <1>3 DEF StoreInv, StoreTypeOK, CleanupAbandonedCompaction

-----------------------------------------------------------------------------
(* The writes of a compaction, and the statements of the ingestion side.     *)

\* A write's operation is one when the write is held.
LEMMA StoreSegmentInv ==
  ASSUME StoreInv, NEW o \in Op, NEW held, StoreSegment(o, held)
  PROVE  StoreInv'
BY DEF StoreInv, StoreTypeOK, StoreSegment

\* replace_facts_for_segment.
LEMMA StoreFactsInv ==
  ASSUME StoreInv, NEW o \in Op, NEW held, StoreFacts(o, held)
  PROVE  StoreInv'
BY DEF StoreInv, StoreTypeOK, StoreFacts

\* mark_canonical_turns_compacted.
LEMMA MarkCanonicalTurnsCompactedInv ==
  ASSUME StoreInv, NEW o \in Op, NEW R, NEW held,
         MarkCanonicalTurnsCompacted(o, R, held)
  PROVE  StoreInv'
BY DEF StoreInv, StoreTypeOK, MarkCanonicalTurnsCompacted

\* save_tag_summary.
LEMMA SaveTagSummaryInv ==
  ASSUME StoreInv, NEW o \in Op, NEW held, SaveTagSummary(o, held)
  PROVE  StoreInv'
BY DEF StoreInv, StoreTypeOK, SaveTagSummary

\* A new canonical row.
LEMMA ArriveRowInv ==
  ASSUME StoreInv, NEW r, ArriveRow(r)
  PROVE  StoreInv'
BY DEF StoreInv, StoreTypeOK, ArriveRow, artifactVars

\* mark_canonical_row_tagged.
LEMMA MarkCanonicalRowTaggedInv ==
  ASSUME StoreInv, NEW e, NEW r, MarkCanonicalRowTagged(e, r)
  PROVE  StoreInv'
BY DEF StoreInv, StoreTypeOK, MarkCanonicalRowTagged, artifactVars

\* upsert_ingestion_episode.
LEMMA UpsertIngestionEpisodeInv ==
  ASSUME StoreInv, NEW w \in Worker, NEW e, UpsertIngestionEpisode(w, e)
  PROVE  StoreInv'
BY DEF StoreInv, StoreTypeOK, UpsertIngestionEpisode, artifactVars

\* complete_ingestion_episode.
LEMMA CompleteIngestionEpisodeInv ==
  ASSUME StoreInv, NEW w, NEW e, CompleteIngestionEpisode(w, e)
  PROVE  StoreInv'
BY DEF StoreInv, StoreTypeOK, CompleteIngestionEpisode, artifactVars

\* A heartbeat that grows older than the lease TTL.
LEMMA OpHeartbeatLapsesInv ==
  ASSUME StoreInv, NEW o \in Op, OpHeartbeatLapses(o)
  PROVE  StoreInv'
BY DEF StoreInv, StoreTypeOK, OpHeartbeatLapses, artifactVars, OpRow

-----------------------------------------------------------------------------
(* Types                                                                    *)

\* A run past its first step has an operation id.
RunsHaveIds ==
  \A p \in Proc : run[p].pc \notin {"idle", "finalized"} => run[p].op # None

ControlInv == ControlTypeOK /\ RunsHaveIds
TypeInv == StoreInv /\ ControlInv

\* A thread belongs to a worker.
LEMMA ProcType == \A p \in Proc : p[1] \in Worker /\ p[2] \in Thread
BY DEF Proc

\* The initial state is well typed.
LEMMA InitTypeInv == Init => TypeInv
<1> SUFFICES ASSUME Init PROVE TypeInv OBVIOUS
<1>1. StoreInv BY StoreInitInv DEF Init
<1>2. ControlInv
  BY StoreAssumption DEF Init, ControlInv, ControlTypeOK, RunsHaveIds, NoRun, NoPost, RunRow,
         PostRow, RunPc, PostPc
<1> QED BY <1>1, <1>2 DEF TypeInv

\* A write that is held is one of a run with an operation id.
LEMMA RunStepStore ==
  ASSUME TypeInv, NEW p \in Proc, RunStep(p)
  PROVE  StoreInv'
<1> DEFINE w == p[1]
<1>0. w \in Worker /\ wepoch[w] \in 0..MaxEpoch /\ run[p] \in RunRow
  BY ProcType DEF TypeInv, ControlInv, ControlTypeOK
<1>1. CASE FinalizeIngestion(p)
  BY <1>1, SetPhaseInv DEF TypeInv, FinalizeIngestion, Phase
<1>2. CASE EnterCompaction(p)
  BY <1>2, SetPhaseInv DEF TypeInv, EnterCompaction, Phase
<1>3. CASE InsertOperation(p)
  BY <1>0, <1>3, StartCompactionOperationInv DEF TypeInv, InsertOperation, RunRow
<1>4. CASE Progress(p)
  BY <1>4, AdvanceCompactionPhaseInv, StoreUnchanged DEF TypeInv, Progress
<1>5. CASE ProgressAfterSummary(p)
  BY <1>5, AdvanceCompactionPhaseInv DEF TypeInv, ProgressAfterSummary
<1>6. CASE WriteSegment(p) \/ WriteFacts(p) \/ MarkCompacted(p) \/ WriteSummary(p)
  <2>1. run[p].op \in Op
    BY <1>0, <1>6 DEF TypeInv, ControlInv, RunsHaveIds, RunRow, RunAt, WriteAt,
       WriteSegment, WriteFacts, MarkCompacted, WriteSummary
  <2>2. CASE WriteSegment(p)
    BY <2>1, <2>2, StoreSegmentInv DEF TypeInv, WriteSegment
  <2>3. CASE WriteFacts(p)
    BY <2>1, <2>3, StoreFactsInv DEF TypeInv, WriteFacts
  <2>4. CASE MarkCompacted(p)
    BY <2>1, <2>4, MarkCanonicalTurnsCompactedInv DEF TypeInv, MarkCompacted
  <2>5. CASE WriteSummary(p)
    BY <2>1, <2>5, SaveTagSummaryInv DEF TypeInv, WriteSummary
  <2> QED BY <1>6, <2>2, <2>3, <2>4, <2>5
<1>7. CASE ExitCompaction(p)
  <2>1. ExitStatus(run[p].pc) \in Closed
    BY DEF ExitStatus, Closed
  <2> QED
    BY <1>7, <2>1, CloseCompactionOperationInv, StoreUnchanged
       DEF TypeInv, ExitCompaction
<1>8. CASE Drain(p)
  BY <1>0, <1>8, DrainCompactionExitInv DEF TypeInv, Drain
<1>9. CASE Heartbeat(p)
  BY <1>9, RefreshCompactionHeartbeatInv DEF TypeInv, Heartbeat
<1>10. CASE UNCHANGED storeVars
  BY <1>10, StoreUnchanged DEF TypeInv
<1> QED
  BY <1>1, <1>2, <1>3, <1>4, <1>5, <1>6, <1>7, <1>8, <1>9, <1>10
     DEF RunStep, BeginRun, BeginTakeoverRun, AcquireLock, ProbeLifecycle,
         LoadRows, CheckGuard, PipelineError, ReleaseLock, ClearActiveOp

\* An idle thread and an idle request are rows.
LEMMA IdleRows == NoRun \in RunRow /\ NoRun.pc = "idle" /\ NoPost \in PostRow
BY StoreAssumption DEF NoRun, RunRow, RunPc, NoPost, PostRow, PostPc

\* A thread's row is replaced by another row that has an id when it needs one.
LEMMA RunUpdate ==
  ASSUME ControlInv, NEW p \in Proc, NEW x \in RunRow,
         x.pc \notin {"idle", "finalized"} => x.op # None,
         run' = [run EXCEPT ![p] = x]
  PROVE  run' \in [Proc -> RunRow] /\ RunsHaveIds'
BY DEF ControlInv, ControlTypeOK, RunsHaveIds

\* A working thread moves on within its run.
LEMMA RunMove ==
  ASSUME ControlInv, NEW p \in Proc, NEW pc \in RunPc,
         run[p].pc \notin {"idle", "finalized"}, RunTo(p, pc)
  PROVE  run' \in [Proc -> RunRow] /\ RunsHaveIds'
<1> DEFINE x == [run[p] EXCEPT !.pc = pc]
<1>1. run[p] \in RunRow /\ run[p].op # None
  BY DEF ControlInv, ControlTypeOK, RunsHaveIds
<1>2. x \in RunRow /\ x.op # None
  BY <1>1 DEF RunRow
<1> QED BY <1>2, RunUpdate DEF RunTo

\* The threads keep the types of what they and their worker remember.
LEMMA RunStepControl ==
  ASSUME TypeInv, NEW p \in Proc, RunStep(p)
  PROVE  ControlInv'
<1> DEFINE w == p[1]
<1>0. w \in Worker /\ p[2] \in Thread /\ wepoch[w] \in 0..MaxEpoch
      /\ run[p] \in RunRow
      /\ (run[p].pc \notin {"idle", "finalized"} => run[p].op # None)
      /\ ControlInv
  BY ProcType DEF TypeInv, ControlInv, ControlTypeOK, RunsHaveIds
<1>a. ASSUME run' \in [Proc -> RunRow] /\ RunsHaveIds',
             UNCHANGED <<memoryVars, post, minted, deleting>>
      PROVE  ControlInv'
  BY <1>a, <1>0 DEF ControlInv, ControlTypeOK, memoryVars
<1>1. CASE FinalizeIngestion(p)
  <2> DEFINE x == [run[p] EXCEPT !.pc = "finalized"]
  <2>1. x \in RunRow
    BY <1>0 DEF RunRow, RunPc
  <2>2. run' \in [Proc -> RunRow] /\ RunsHaveIds'
    BY <1>0, <1>1, <2>1, RunUpdate DEF FinalizeIngestion, RunTo, RunRow
  <2> QED BY <1>a, <1>1, <2>2 DEF FinalizeIngestion
<1>2. CASE BeginRun(p)
  <2>1. PICK o \in Op \ minted :
          /\ run' = [run EXCEPT ![p] = [NoRun EXCEPT !.pc = "lock", !.op = o]]
          /\ activeOp' = [activeOp EXCEPT ![w] = o]
          /\ minted' = minted \cup {o}
    BY <1>2 DEF BeginRun
  <2> DEFINE x == [NoRun EXCEPT !.pc = "lock", !.op = o]
  <2>a. o # None
    BY StoreAssumption
  <2>2. x \in RunRow /\ x.op # None
    BY <2>a, IdleRows DEF RunRow, RunPc
  <2>3. run' \in [Proc -> RunRow] /\ RunsHaveIds'
    BY <1>0, <2>1, <2>2, RunUpdate
  <2> QED BY <1>0, <1>2, <2>1, <2>3 DEF BeginRun, ControlInv, ControlTypeOK
<1>3. CASE BeginTakeoverRun(p)
  <2> DEFINE x == [NoRun EXCEPT !.pc = "lock", !.op = queued[w], !.pre = TRUE]
  <2>1. queued[w] \in Op
    BY <1>0, <1>3 DEF BeginTakeoverRun, ControlInv, ControlTypeOK
  <2>a. queued[w] # None
    BY <2>1, StoreAssumption
  <2>2. x \in RunRow /\ x.op # None
    BY <2>1, <2>a, IdleRows DEF RunRow, RunPc
  <2>3. run' \in [Proc -> RunRow] /\ RunsHaveIds'
    BY <1>0, <1>3, <2>2, RunUpdate DEF BeginTakeoverRun
  <2> QED
    BY <1>0, <1>3, <2>1, <2>3 DEF BeginTakeoverRun, ControlInv, ControlTypeOK
<1>4. CASE AcquireLock(p)
  <2>1. CASE lock[w] # None
    <3>1. run' \in [Proc -> RunRow] /\ RunsHaveIds'
      BY <1>0, <1>4, <2>1, RunMove DEF AcquireLock, RunAt, RunPc
    <3> QED
      BY <1>0, <1>4, <2>1, <3>1 DEF AcquireLock, ControlInv, ControlTypeOK
  <2>2. CASE lock[w] = None
    <3> DEFINE x == [run[p] EXCEPT !.pc = IF run[p].pre THEN "load" ELSE "enter",
                                   !.entered = run[p].pre, !.ep = wepoch[w]]
    <3>1. x \in RunRow /\ x.op # None
      BY <1>0, <1>4 DEF AcquireLock, RunAt, RunRow, RunPc
    <3>2. run' \in [Proc -> RunRow] /\ RunsHaveIds'
      BY <1>0, <1>4, <2>2, <3>1, RunUpdate DEF AcquireLock
    <3> QED
      BY <1>0, <1>4, <2>2, <3>2 DEF AcquireLock, ControlInv, ControlTypeOK
  <2> QED BY <2>1, <2>2
<1>5. CASE EnterCompaction(p)
  <2> DEFINE x == [run[p] EXCEPT
                     !.pc = IF wepoch[w] = epoch THEN "insert" ELSE "probe",
                     !.ep = wepoch[w]]
  <2>1. x \in RunRow /\ x.op # None
    BY <1>0, <1>5 DEF EnterCompaction, RunAt, RunRow, RunPc
  <2>2. run' \in [Proc -> RunRow] /\ RunsHaveIds'
    BY <1>0, <1>5, <2>1, RunUpdate DEF EnterCompaction
  <2> QED BY <1>a, <1>5, <2>2 DEF EnterCompaction
<1>6. CASE InsertOperation(p)
  <2>1. run' \in [Proc -> RunRow] /\ RunsHaveIds'
    BY <1>0, <1>6, RunMove DEF InsertOperation, RunAt, RunPc
  <2> QED BY <1>a, <1>6, <2>1 DEF InsertOperation
<1>7. CASE ProbeLifecycle(p)
  <2> DEFINE x == [run[p] EXCEPT !.pc = "load", !.entered = ActiveOps(epoch) # {},
                                 !.ep = wepoch[w]]
  <2>1. x \in RunRow /\ x.op # None
    BY <1>0, <1>7 DEF ProbeLifecycle, RunAt, RunRow, RunPc
  <2>2. run' \in [Proc -> RunRow] /\ RunsHaveIds'
    BY <1>0, <1>7, <2>1, RunUpdate DEF ProbeLifecycle
  <2> QED BY <1>a, <1>7, <2>2 DEF ProbeLifecycle, memoryVars
<1>8. CASE LoadRows(p)
  <2>1. PICK R \in SUBSET Uncompacted :
          run' = [run EXCEPT ![p] =
                    [@ EXCEPT !.pc = IF R = {} THEN "complete" ELSE "advance",
                              !.batch = R]]
    BY <1>8 DEF LoadRows
  <2> DEFINE x == [run[p] EXCEPT !.pc = IF R = {} THEN "complete" ELSE "advance",
                                 !.batch = R]
  <2>2. R \subseteq Row
    BY DEF Uncompacted
  <2>3. x \in RunRow /\ x.op # None
    BY <1>0, <1>8, <2>2 DEF LoadRows, RunAt, RunRow, RunPc
  <2>4. run' \in [Proc -> RunRow] /\ RunsHaveIds'
    BY <1>0, <2>1, <2>3, RunUpdate
  <2> QED BY <1>a, <1>8, <2>4 DEF LoadRows
<1>9. CASE Progress(p)
  <2>1. PICK pc \in RunPc : RunTo(p, pc)
    BY <1>9 DEF Progress, RunPc
  <2>2. run' \in [Proc -> RunRow] /\ RunsHaveIds'
    BY <1>0, <1>9, <2>1, RunMove DEF Progress
  <2> QED BY <1>a, <1>9, <2>2 DEF Progress
<1>10. CASE ProgressAfterSummary(p)
  BY <1>0, <1>10
     DEF ProgressAfterSummary, ControlInv, ControlTypeOK, RunsHaveIds, memoryVars,
         controlVars
<1>11. CASE CheckGuard(p)
  <2>1. CASE Holds(p)
    <3> DEFINE x == [run[p] EXCEPT !.held = TRUE]
    <3>1. x \in RunRow /\ x.op # None
      BY <1>0, <1>11 DEF CheckGuard, WritePc, RunRow
    <3>2. run' \in [Proc -> RunRow] /\ RunsHaveIds'
      BY <1>0, <1>11, <2>1, <3>1, RunUpdate DEF CheckGuard
    <3> QED BY <1>a, <1>11, <3>2 DEF CheckGuard
  <2>2. CASE ~Holds(p)
    <3>1. run' \in [Proc -> RunRow] /\ RunsHaveIds'
      BY <1>0, <1>11, <2>2, RunMove DEF CheckGuard, WritePc, RunTo, RunPc
    <3> QED BY <1>a, <1>11, <3>1 DEF CheckGuard
  <2> QED BY <2>1, <2>2
<1>12. ASSUME NEW pc \in WritePc, NEW next \in RunPc, WriteAt(p, pc, next)
       PROVE  ControlInv'
  <2> DEFINE x == [run[p] EXCEPT !.pc = IF Held(p) THEN next ELSE "fail",
                                 !.held = FALSE]
  <2>1. x \in RunRow /\ x.op # None
    BY <1>0, <1>12 DEF WriteAt, RunAt, WritePc, RunRow, RunPc
  <2>2. run' \in [Proc -> RunRow] /\ RunsHaveIds'
    BY <1>0, <1>12, <2>1, RunUpdate DEF WriteAt
  <2> QED BY <1>a, <1>12, <2>2 DEF WriteAt
<1>13. CASE WriteSegment(p) \/ WriteFacts(p) \/ MarkCompacted(p) \/ WriteSummary(p)
  BY <1>12, <1>13
     DEF WriteSegment, WriteFacts, MarkCompacted, WriteSummary, WritePc, RunPc
<1>14. CASE PipelineError(p)
  <2> DEFINE x == [run[p] EXCEPT !.pc = "fail", !.held = FALSE]
  <2>1. x \in RunRow /\ x.op # None
    BY <1>0, <1>14 DEF PipelineError, RunRow, RunPc
  <2>2. run' \in [Proc -> RunRow] /\ RunsHaveIds'
    BY <1>0, <1>14, <2>1, RunUpdate DEF PipelineError
  <2> QED BY <1>a, <1>14, <2>2 DEF PipelineError
<1>15. CASE ExitCompaction(p)
  <2>1. CASE run[p].entered
    <3> DEFINE x == [run[p] EXCEPT !.pc = "drain", !.ep = wepoch[w]]
    <3>1. x \in RunRow /\ x.op # None
      BY <1>0, <1>15 DEF ExitCompaction, RunRow, RunPc
    <3>2. run' \in [Proc -> RunRow] /\ RunsHaveIds'
      BY <1>0, <1>15, <2>1, <3>1, RunUpdate DEF ExitCompaction
    <3> QED BY <1>a, <1>15, <3>2 DEF ExitCompaction
  <2>2. CASE ~run[p].entered
    <3>1. run' \in [Proc -> RunRow] /\ RunsHaveIds'
      BY <1>0, <1>15, <2>2, RunMove DEF ExitCompaction, RunPc
    <3> QED BY <1>a, <1>15, <3>1 DEF ExitCompaction
  <2> QED BY <2>1, <2>2
<1>16. CASE Drain(p)
  <2>1. run' \in [Proc -> RunRow] /\ RunsHaveIds'
    BY <1>0, <1>16, RunMove DEF Drain, RunAt, RunPc
  <2> QED BY <1>a, <1>16, <2>1 DEF Drain
<1>17. CASE ReleaseLock(p)
  <2>1. run' \in [Proc -> RunRow] /\ RunsHaveIds'
    BY <1>0, <1>17, RunMove DEF ReleaseLock, RunAt, RunPc
  <2> QED BY <1>0, <1>17, <2>1 DEF ReleaseLock, ControlInv, ControlTypeOK
<1>18. CASE ClearActiveOp(p)
  <2>2. run' \in [Proc -> RunRow] /\ RunsHaveIds'
    BY <1>0, <1>18, IdleRows, RunUpdate DEF ClearActiveOp
  <2> QED BY <1>0, <1>18, <2>2 DEF ClearActiveOp, ControlInv, ControlTypeOK
<1>19. CASE Heartbeat(p)
  BY <1>0, <1>19 DEF Heartbeat, ControlInv, ControlTypeOK, RunsHaveIds, controlVars
<1> QED
  BY <1>1, <1>2, <1>3, <1>4, <1>5, <1>6, <1>7, <1>8, <1>9, <1>10, <1>11, <1>13,
     <1>14, <1>15, <1>16, <1>17, <1>18, <1>19 DEF RunStep

\* A request's row is replaced by another row, and nothing else of the memory
\* changes but the worker's epoch and the ids in use.
LEMMA PostUpdate ==
  ASSUME ControlInv, NEW w \in Worker, NEW x \in PostRow,
         post' = [post EXCEPT ![w] = x],
         wepoch' \in [Worker -> 0..MaxEpoch], minted' \subseteq Op,
         UNCHANGED <<life, activeOp, cancelled, lock, queued, run, deleting>>
  PROVE  ControlInv'
BY DEF ControlInv, ControlTypeOK, RunsHaveIds

\* A request keeps the types of its own row and of its worker's memory.
LEMMA GateStepControl ==
  ASSUME TypeInv, NEW w \in Worker, GateStep(w)
  PROVE  ControlInv'
<1>0. /\ ControlInv /\ post[w] \in PostRow /\ NoPost \in PostRow
      /\ wepoch[w] \in 0..MaxEpoch
      /\ wepoch \in [Worker -> 0..MaxEpoch] /\ minted \subseteq Op
      /\ epoch \in 0..MaxEpoch /\ (phase = "deleted" => epoch + 1 \in 0..MaxEpoch)
  BY IdleRows, StoreAssumption
     DEF TypeInv, ControlInv, ControlTypeOK, StoreInv, StoreTypeOK, Epoch
<1>a. ASSUME NEW x \in PostRow, post' = [post EXCEPT ![w] = x],
             UNCHANGED <<memoryVars, run, minted, deleting>>
      PROVE  ControlInv'
  BY <1>a, <1>0, PostUpdate DEF memoryVars
<1>b. ASSUME NEW pc \in PostPc, PostTo(w, pc) \/ PostReturn(w),
             UNCHANGED <<memoryVars, run, minted, deleting>>
      PROVE  ControlInv'
  <2> DEFINE x == [post[w] EXCEPT !.pc = pc]
  <2>1. x \in PostRow
    BY <1>0 DEF PostRow
  <2> QED BY <1>0, <1>a, <1>b, <2>1 DEF PostTo, PostReturn
<1>1. CASE PostBegin(w)
  <2> DEFINE x == [NoPost EXCEPT !.pc = "gate", !.ep = wepoch[w]]
  <2>1. x \in PostRow
    BY <1>0 DEF PostRow, PostPc
  <2> QED BY <1>a, <1>1, <2>1 DEF PostBegin
<1>2. CASE PhaseGate(w)
  <2>1. PICK pc \in PostPc : PostTo(w, pc) \/ PostReturn(w)
    BY <1>2 DEF PhaseGate, PostPc
  <2> QED BY <1>2, <1>b, <2>1 DEF PhaseGate
<1>3. CASE ResurrectConversation(w)
  <2> DEFINE e2 == IF phase = "deleted" THEN epoch + 1 ELSE epoch
  <2>1. e2 \in 0..MaxEpoch
    BY <1>0
  <2>2. wepoch' \in [Worker -> 0..MaxEpoch]
    BY <1>0, <1>3, <2>1 DEF ResurrectConversation
  <2>3. PICK x \in PostRow : post' = [post EXCEPT ![w] = x]
    <3> DEFINE y == [post[w] EXCEPT !.pc = "abandonOld", !.ep = e2]
    <3>1. y \in PostRow
      BY <1>0, <2>1 DEF PostRow, PostPc
    <3> QED BY <1>0, <1>3, <3>1 DEF ResurrectConversation, PostReturn
  <2> QED BY <1>0, <1>3, <2>2, <2>3, PostUpdate DEF ResurrectConversation
<1>4. CASE AbandonOldEpisodes(w)
  BY <1>4, <1>b DEF AbandonOldEpisodes, PostPc
<1>5. CASE CancelOldOps(w)
  <2>1. wepoch' \in [Worker -> 0..MaxEpoch]
    BY <1>0, <1>5 DEF CancelOldOps, PostRow
  <2> QED BY <1>0, <1>5, <2>1, PostUpdate DEF CancelOldOps, PostReturn
<1>6. CASE ReadSnapshot(w) \/ RepairOrphanPhase(w)
  BY <1>6, <1>b DEF ReadSnapshot, RepairOrphanPhase, PostPc
<1>7. CASE ClaimTransaction(w) \/ ClaimSelect(w)
  <2>1. Current(post[w].ep) \in Op \cup {None}
    BY DEF Current, ActiveOps
  <2> DEFINE x == [post[w] EXCEPT !.pc = "predicate", !.dead = Current(post[w].ep)]
             y == [post[w] EXCEPT !.pc = "claimUpdate", !.dead = Current(post[w].ep)]
  <2>2. x \in PostRow /\ y \in PostRow
    BY <1>0, <2>1 DEF PostRow, PostPc
  <2> QED
    BY <1>0, <1>7, <1>a, <2>2 DEF ClaimTransaction, ClaimSelect, PostReturn
<1>8. CASE ClaimUpdate(w)
  BY <1>8, <1>b DEF ClaimUpdate, PostPc
<1>9. CASE TakeoverPredicate(w)
  <2>1. CASE PostReturn(w) /\ UNCHANGED minted
    BY <1>9, <1>b, <2>1 DEF TakeoverPredicate, PostPc
  <2>2. ASSUME NEW o \in Op \ minted, minted' = minted \cup {o},
               post' = [post EXCEPT ![w] =
                 [@ EXCEPT !.new = o,
                           !.pc = IF Backend = "postgres" THEN "cleanup"
                                  ELSE "abandon"]]
        PROVE  ControlInv'
    <3> DEFINE x == [post[w] EXCEPT !.new = o,
                                    !.pc = IF Backend = "postgres" THEN "cleanup"
                                           ELSE "abandon"]
    <3>1. x \in PostRow
      BY <1>0 DEF PostRow, PostPc
    <3> QED
      BY <1>0, <1>9, <2>2, <3>1, PostUpdate DEF TakeoverPredicate, memoryVars
  <2> QED BY <1>9, <2>1, <2>2 DEF TakeoverPredicate
<1>10. CASE CleanupTransaction(w) \/ CleanupInsert(w)
  <2> DEFINE x == [post[w] EXCEPT !.pc = "submit"]
  <2>1. x \in PostRow
    BY <1>0 DEF PostRow, PostPc
  <2> QED
    BY <1>0, <1>10, <2>1, PostUpdate
       DEF CleanupTransaction, CleanupInsert, PostTo, PostReturn, memoryVars
<1>11. CASE CleanupAbandon(w)
  <2> DEFINE x == [post[w] EXCEPT !.pc = "deleteSegments",
                                  !.new = IF FreshTakeover(post[w].ep, post[w].dead)
                                          THEN post[w].new ELSE None]
  <2>1. x \in PostRow
    BY <1>0 DEF PostRow, PostPc
  <2>2. minted' \subseteq Op
    BY <1>0, <1>11 DEF CleanupAbandon
  <2>3. post' = [post EXCEPT ![w] = x]
    BY <1>11 DEF CleanupAbandon
  <2>4. UNCHANGED <<life, wepoch, activeOp, cancelled, lock, queued, run, deleting>>
    BY <1>11 DEF CleanupAbandon, memoryVars
  <2> QED BY <1>0, <2>1, <2>2, <2>3, <2>4, PostUpdate
<1>12. CASE CleanupSegments(w) \/ CleanupSummaries(w) \/ CleanupTurns(w)
  BY <1>12, <1>b DEF CleanupSegments, CleanupSummaries, CleanupTurns, PostPc
<1>13. CASE SubmitTakeover(w)
  BY <1>0, <1>13
     DEF SubmitTakeover, PostReturn, PostRow, ControlInv, ControlTypeOK, RunsHaveIds
<1>14. CASE SubmitRefused(w)
  BY <1>0, <1>14
     DEF SubmitRefused, PostReturn, ControlInv, ControlTypeOK, RunsHaveIds
<1> QED
  BY <1>1, <1>2, <1>3, <1>4, <1>5, <1>6, <1>7, <1>8, <1>9, <1>10, <1>11, <1>12,
     <1>13, <1>14 DEF GateStep

\* A request's statements keep the types of the rows.
LEMMA GateStepStore ==
  ASSUME TypeInv, NEW w \in Worker, GateStep(w)
  PROVE  StoreInv'
<1>0. StoreInv /\ post[w].ep \in 0..MaxEpoch
  BY DEF TypeInv, ControlInv, ControlTypeOK, PostRow
<1>1. CASE ResurrectConversation(w)
  BY <1>0, <1>1, ResurrectInv, BumpEpochInv DEF ResurrectConversation
<1>2. CASE AbandonOldEpisodes(w)
  BY <1>0, <1>2, AbandonEpisodesInv DEF AbandonOldEpisodes
<1>3. CASE CancelOldOps(w)
  BY <1>0, <1>3, CancelOpsInv DEF CancelOldOps
<1>4. CASE RepairOrphanPhase(w)
  BY <1>0, <1>4, SetPhaseInv DEF RepairOrphanPhase, Phase
<1>5. CASE ClaimTransaction(w) \/ ClaimUpdate(w)
  BY <1>0, <1>5, ClaimCompactionLeaseInv DEF ClaimTransaction, ClaimUpdate
<1>6. CASE CleanupTransaction(w)
  BY <1>0, <1>6, CleanupAbandonedCompactionInv DEF CleanupTransaction
<1>7. CASE CleanupAbandon(w)
  BY <1>0, <1>7, AbandonOpInv DEF CleanupAbandon
<1>8. CASE CleanupSegments(w)
  BY <1>0, <1>8, DeleteSegmentsInv DEF CleanupSegments
<1>9. CASE CleanupSummaries(w)
  BY <1>0, <1>9, DeleteSummariesInv DEF CleanupSummaries
<1>10. CASE CleanupTurns(w)
  BY <1>0, <1>10, UncompactInv DEF CleanupTurns
<1>11. CASE CleanupInsert(w)
  BY <1>0, <1>11, InsertRunningInv DEF CleanupInsert
<1>12. CASE UNCHANGED storeVars
  BY <1>0, <1>12, StoreUnchanged
<1> QED
  BY <1>1, <1>2, <1>3, <1>4, <1>5, <1>6, <1>7, <1>8, <1>9, <1>10, <1>11, <1>12
     DEF GateStep, PostBegin, PhaseGate, ReadSnapshot, ClaimSelect,
         TakeoverPredicate, SubmitTakeover, SubmitRefused

\* Starts, crashes, deletions, lapses and the other subsystems.
EnvStep ==
  \/ \E w \in Worker : StartWorker(w) \/ Crash(w) \/ IngestionWork(w)
  \/ \E o \in Op : Lapse(o)
  \/ \E r \in Row : RowArrives(r)
  \/ Admin

\* They keep the types too; a delete leaves an epoch to resurrect to.
LEMMA EnvStepTypeInv ==
  ASSUME TypeInv, EnvStep
  PROVE  TypeInv'
<1>0. StoreInv /\ ControlInv
  BY DEF TypeInv
<1>a. ASSUME UNCHANGED <<memoryVars, controlVars>>
      PROVE  ControlInv'
  BY <1>0, <1>a DEF ControlInv, ControlTypeOK, RunsHaveIds, memoryVars, controlVars
<1>1. ASSUME NEW w \in Worker, StartWorker(w)
      PROVE  TypeInv'
  <2>1. StoreInv'
    BY <1>0, <1>1, StoreUnchanged DEF StartWorker
  <2>2. epoch \in 0..MaxEpoch
    BY <1>0, StoreAssumption DEF StoreInv, StoreTypeOK, Epoch
  <2>3. ControlInv'
    BY <1>0, <1>1, <2>2
       DEF StartWorker, ControlInv, ControlTypeOK, RunsHaveIds, controlVars
  <2> QED BY <2>1, <2>3 DEF TypeInv
<1>2. ASSUME NEW w \in Worker, Crash(w)
      PROVE  TypeInv'
  <2>1. StoreInv'
    BY <1>0, <1>2, StoreUnchanged DEF Crash
  <2>2. run' \in [Proc -> RunRow] /\ RunsHaveIds'
    BY <1>0, <1>2, IdleRows DEF Crash, ControlInv, ControlTypeOK, RunsHaveIds
  <2>3. post' \in [Worker -> PostRow]
    BY <1>0, <1>2, IdleRows DEF Crash, ControlInv, ControlTypeOK
  <2>4. minted' \subseteq Op
    BY <1>0, <1>2 DEF Crash, ControlInv, ControlTypeOK
  <2>5. wepoch' \in [Worker -> 0..MaxEpoch]
    BY <1>0, <1>2, StoreAssumption DEF Crash, ControlInv, ControlTypeOK
  <2>6. ControlInv'
    BY <1>0, <1>2, <2>2, <2>3, <2>4, <2>5 DEF Crash, ControlInv, ControlTypeOK
  <2> QED BY <2>1, <2>6 DEF TypeInv
<1>3. ASSUME NEW w \in Worker, IngestionWork(w)
      PROVE  TypeInv'
  <2>1. StoreInv'
    BY <1>0, <1>3, SetPhaseInv, MarkCanonicalRowTaggedInv, UpsertIngestionEpisodeInv,
       CompleteIngestionEpisodeInv DEF IngestionWork, Phase
  <2> QED BY <1>a, <1>3, <2>1 DEF IngestionWork, TypeInv
<1>4. ASSUME NEW o \in Op, Lapse(o)
      PROVE  TypeInv'
  BY <1>0, <1>a, <1>4, OpHeartbeatLapsesInv DEF Lapse, TypeInv
<1>5. ASSUME NEW r \in Row, RowArrives(r)
      PROVE  TypeInv'
  BY <1>0, <1>a, <1>5, ArriveRowInv DEF RowArrives, TypeInv
<1>6. CASE Admin
  <2>1. StoreInv'
    BY <1>0, <1>6, MarkDeletedInv, AbandonEpisodesInv, CancelOpsInv
       DEF Admin, DeletePhase, DeleteEpisodes, DeleteOps
  <2>2. ControlInv'
    BY <1>0, <1>6 DEF Admin, DeletePhase, DeleteEpisodes, DeleteOps, ControlInv,
       ControlTypeOK, RunsHaveIds, memoryVars
  <2> QED BY <2>1, <2>2 DEF TypeInv
<1> QED
  BY <1>1, <1>2, <1>3, <1>4, <1>5, <1>6 DEF EnvStep

\* Every step belongs to a thread, to a request, or to the environment.
LEMMA NextSplits ==
  ASSUME Next
  PROVE  \/ \E p \in Proc : RunStep(p)
         \/ \E w \in Worker : GateStep(w)
         \/ EnvStep
BY DEF Next, EnvStep

\* Types are inductive.
LEMMA NextTypeInv == TypeInv /\ [Next]_takeoverVars => TypeInv'
<1> SUFFICES ASSUME TypeInv, [Next]_takeoverVars PROVE TypeInv'
  OBVIOUS
<1>1. ASSUME NEW p \in Proc, RunStep(p) PROVE TypeInv'
  BY <1>1, RunStepStore, RunStepControl DEF TypeInv
<1>2. ASSUME NEW w \in Worker, GateStep(w) PROVE TypeInv'
  BY <1>2, GateStepStore, GateStepControl DEF TypeInv
<1>3. CASE EnvStep
  BY <1>3, EnvStepTypeInv
<1>4. CASE UNCHANGED takeoverVars
  <2>1. StoreInv'
    BY <1>4, StoreUnchanged DEF TypeInv, takeoverVars
  <2>2. ControlInv'
    BY <1>4 DEF TypeInv, ControlInv, ControlTypeOK, RunsHaveIds, takeoverVars,
       memoryVars, controlVars
  <2> QED BY <2>1, <2>2 DEF TypeInv
<1> QED
  BY <1>1, <1>2, <1>3, <1>4, NextSplits

\* Every reachable state of the compaction protocol is well typed, and a run
\* always has the operation id it writes under.
THEOREM TypeCorrect == Spec => [](TypeOK /\ RunsHaveIds)
<1>1. TypeInv => TypeOK /\ RunsHaveIds
  BY DEF TypeInv, StoreInv, ControlInv, TypeOK
<1> QED
  BY <1>1, InitTypeInv, NextTypeInv, PTL DEF Spec

-----------------------------------------------------------------------------
(* The lock                                                                  *)

\* A thread between acquire and release is the one that _compaction_lock names;
\* PipelinesExclude alone does not say who may release it.
LockHeld == \A p \in Proc : run[p].pc \in PipelinePc => lock[p[1]] = p[2]

\* A step of a run keeps the lock with the thread in the pipeline.
LEMMA RunKeepsLock ==
  ASSUME TypeInv, LockHeld, NEW p \in Proc, RunStep(p)
  PROVE  LockHeld'
<1>0. /\ p[1] \in Worker /\ p[2] \in Thread /\ lock \in [Worker -> Thread \cup {None}]
      /\ run \in [Proc -> RunRow]
      /\ \A q \in Proc : q = <<q[1], q[2]>> /\ q[1] \in Worker /\ q[2] \in Thread
  BY DEF Proc, TypeInv, ControlInv, ControlTypeOK
<1>1. CASE UNCHANGED <<run, lock>>
  BY <1>1 DEF LockHeld
<1>2. \A q \in Proc \ {p} : run'[q] = run[q]
  BY <1>0 DEF RunStep, FinalizeIngestion, BeginRun, BeginTakeoverRun, AcquireLock,
     EnterCompaction, InsertOperation, ProbeLifecycle, LoadRows, Progress,
     ProgressAfterSummary, CheckGuard, WriteSegment, WriteFacts, MarkCompacted,
     WriteSummary, WriteAt, PipelineError, ExitCompaction, Drain, ReleaseLock,
     ClearActiveOp, Heartbeat, RunTo, controlVars
<1>3. CASE UNCHANGED lock /\ run[p].pc \in PipelinePc
  BY <1>2, <1>3 DEF LockHeld
<1>4. CASE UNCHANGED lock /\ run'[p].pc \notin PipelinePc
  BY <1>2, <1>4 DEF LockHeld
<1>5. CASE FinalizeIngestion(p) \/ BeginRun(p) \/ BeginTakeoverRun(p) \/ ClearActiveOp(p)
  <2>1. UNCHANGED lock
    BY <1>5 DEF FinalizeIngestion, BeginRun, BeginTakeoverRun, ClearActiveOp, memoryVars
  <2>2. CASE FinalizeIngestion(p)
    <3>1. run' = [run EXCEPT ![p] = [run[p] EXCEPT !.pc = "finalized"]]
      BY <1>0, <2>2 DEF FinalizeIngestion, RunTo
    <3>2. run[p] \in RunRow
      BY <1>0
    <3> DEFINE x == [run[p] EXCEPT !.pc = "finalized"]
    <3>3. x.pc \notin PipelinePc
      BY <3>2 DEF RunRow, PipelinePc
    <3>4. run'[p] = x
      BY <1>0, <3>1
    <3> QED BY <1>4, <2>1, <3>3, <3>4
  <2>3. CASE BeginRun(p)
    <3>1. PICK o : run' = [run EXCEPT ![p] = [NoRun EXCEPT !.pc = "lock", !.op = o]]
      BY <2>3 DEF BeginRun
    <3> DEFINE x == [NoRun EXCEPT !.pc = "lock", !.op = o]
    <3>2. x.pc \notin PipelinePc
      BY DEF NoRun, PipelinePc
    <3>3. run'[p] = x
      BY <1>0, <3>1
    <3> QED BY <1>4, <2>1, <3>2, <3>3
  <2>4. CASE BeginTakeoverRun(p)
    <3> DEFINE x == [NoRun EXCEPT !.pc = "lock", !.op = queued[p[1]], !.pre = TRUE]
    <3>1. x.pc \notin PipelinePc
      BY DEF NoRun, PipelinePc
    <3>2. run' = [run EXCEPT ![p] = x]
      BY <2>4 DEF BeginTakeoverRun
    <3>3. run'[p] = x
      BY <1>0, <3>2
    <3> QED BY <1>4, <2>1, <3>1, <3>3
  <2>5. CASE ClearActiveOp(p)
    <3>1. run' = [run EXCEPT ![p] = NoRun]
      BY <2>5 DEF ClearActiveOp
    <3>2. NoRun.pc \notin PipelinePc
      BY DEF NoRun, PipelinePc
    <3>3. run'[p] = NoRun
      BY <1>0, <3>1
    <3> QED BY <1>4, <2>1, <3>2, <3>3
  <2> QED BY <1>5, <2>2, <2>3, <2>4, <2>5
<1>6. CASE AcquireLock(p)
  <2>1. CASE lock[p[1]] # None
    <3>1. UNCHANGED lock /\ run'[p].pc = "clear"
      BY <1>0, <1>6, <2>1 DEF AcquireLock, RunTo, RunRow
    <3> QED BY <1>4, <3>1 DEF PipelinePc
  <2>2. CASE lock[p[1]] = None
    <3>1. lock' = [lock EXCEPT ![p[1]] = p[2]]
      BY <1>6, <2>2 DEF AcquireLock
    <3>2. \A q \in Proc : q[1] = p[1] => run[q].pc \notin PipelinePc
      BY <1>0, <2>2, ThreadAssumption DEF LockHeld
    <3> QED BY <1>0, <1>2, <3>1, <3>2 DEF LockHeld
  <2> QED BY <2>1, <2>2
<1>7. CASE ReleaseLock(p)
  <2>1. run[p].pc = "release" /\ lock' = [lock EXCEPT ![p[1]] = None]
    BY <1>7 DEF ReleaseLock, RunAt
  <2>2. run'[p].pc = "clear"
    BY <1>0, <1>7 DEF ReleaseLock, RunTo, RunRow
  <2>3. \A q \in Proc : q[1] = p[1] /\ run[q].pc \in PipelinePc => q = p
    BY <1>0, <2>1 DEF LockHeld, PipelinePc, RunPc
  <2> QED BY <1>0, <1>2, <2>1, <2>2, <2>3 DEF LockHeld, PipelinePc
<1>8. CASE \/ EnterCompaction(p) \/ InsertOperation(p) \/ ProbeLifecycle(p)
           \/ LoadRows(p) \/ Progress(p) \/ CheckGuard(p) \/ PipelineError(p)
           \/ ExitCompaction(p) \/ Drain(p)
  BY <1>3, <1>8
     DEF EnterCompaction, InsertOperation, ProbeLifecycle, LoadRows, Progress, CheckGuard,
         WritePc, PipelineError, ExitCompaction, Drain, RunAt, memoryVars, PipelinePc,
         RunPc
<1>9. CASE WriteSegment(p) \/ WriteFacts(p) \/ MarkCompacted(p) \/ WriteSummary(p)
  BY <1>3, <1>9
     DEF WriteSegment, WriteFacts, MarkCompacted, WriteSummary, WriteAt, RunAt,
         memoryVars, PipelinePc, RunPc
<1> QED
  BY <1>1, <1>5, <1>6, <1>7, <1>8, <1>9
     DEF RunStep, ProgressAfterSummary, Heartbeat, memoryVars, controlVars

\* The two compacting threads of a worker are never in the pipeline together,
\* although each clears the fields they share whether or not it got the lock.
THEOREM PipelinesAreExclusive == Spec => []PipelinesExclude
<1> DEFINE Inv == TypeInv /\ LockHeld
<1>1. Init => Inv
  BY InitTypeInv DEF Init, NoRun, LockHeld, PipelinePc
<1>2. Inv /\ [Next]_takeoverVars => Inv'
  <2> SUFFICES ASSUME TypeInv, LockHeld, [Next]_takeoverVars PROVE LockHeld'
    BY NextTypeInv
  <2>1. CASE UNCHANGED <<run, lock>>
    BY <2>1 DEF LockHeld
  <2>2. ASSUME NEW w \in Worker, Crash(w)
        PROVE  LockHeld'
    BY <2>2, ProcType DEF Crash, NoRun, LockHeld, PipelinePc, TypeInv, ControlInv,
       ControlTypeOK
  <2>3. ASSUME NEW w \in Worker, GateStep(w)
        PROVE  UNCHANGED <<run, lock>>
    BY <2>3 DEF GateStep, PostBegin, PhaseGate, ResurrectConversation,
       AbandonOldEpisodes, CancelOldOps, ReadSnapshot, RepairOrphanPhase,
       ClaimTransaction, ClaimSelect, ClaimUpdate, TakeoverPredicate,
       CleanupTransaction, CleanupAbandon, CleanupSegments, CleanupSummaries,
       CleanupTurns, CleanupInsert, SubmitTakeover, SubmitRefused, memoryVars
  <2>4. CASE EnvStep
    BY <2>1, <2>2, <2>4 DEF EnvStep, StartWorker, IngestionWork, Lapse, RowArrives,
       Admin, DeletePhase, DeleteEpisodes, DeleteOps, memoryVars, controlVars
  <2>5. CASE UNCHANGED takeoverVars
    BY <2>1, <2>5 DEF takeoverVars, memoryVars, controlVars
  <2> QED BY <2>1, <2>3, <2>4, <2>5, NextSplits, RunKeepsLock
<1>3. Inv => PipelinesExclude
  BY DEF LockHeld, PipelinesExclude, Proc
<1> QED BY <1>1, <1>2, <1>3, PTL DEF Spec

-----------------------------------------------------------------------------
(****************************************************************************)
(* What cleanup_abandoned_compaction leaves behind, on SQLite and for every *)
(* number of workers, operations and turns: nothing, as long as no worker   *)
(* dies between two of its statements.  (TLC refutes it on Postgres, and    *)
(* with a crash inside the method on SQLite: section 4 of the README.)      *)
(****************************************************************************)

CleaningPc == {"deleteSegments", "deleteSummaries", "uncompact"}

\* An artifact of an abandoned operation is on the list of a cleanup that has
\* not come to it yet.  AbandonedLeavesNothing alone is not inductive: it does
\* not say which of its statements a cleanup has still to execute.
CleanedBy(o, pcs) == \E w \in Worker : post[w].dead = o /\ post[w].pc \in pcs

SegmentsListed ==
  \A o \in segments : op[o].status = "abandoned" => CleanedBy(o, {"deleteSegments"})

SummaryListed ==
  \A o \in Op : summary = o /\ op[o].status = "abandoned"
    => CleanedBy(o, {"deleteSegments", "deleteSummaries"})

TurnsListed ==
  \A r \in Row : \A o \in Op : compactedBy[r] = o /\ op[o].status = "abandoned"
    => CleanedBy(o, CleaningPc)

Listed == SegmentsListed /\ SummaryListed /\ TurnsListed

\* No operation is abandoned by a step, and no cleanup moves.
NoneAbandoned == \A o \in Op : op'[o].status = "abandoned" => op[o].status = "abandoned"
CleanupsStay == \A w \in Worker : post[w].pc \in CleaningPc => post'[w] = post[w]

\* A step that abandons nothing, moves no cleanup and writes no artifact.
LEMMA QuietStep ==
  ASSUME TypeInv, Listed, NoneAbandoned, CleanupsStay, UNCHANGED artifactVars
  PROVE  Listed'
<1> USE DEF TypeInv, StoreInv, StoreTypeOK, artifactVars
<1>1. ASSUME NEW o \in Op, NEW pcs \in SUBSET CleaningPc, CleanedBy(o, pcs)
      PROVE  CleanedBy(o, pcs)'
  BY <1>1 DEF CleanedBy, CleanupsStay
<1>2. SegmentsListed'
  BY <1>1 DEF Listed, SegmentsListed, NoneAbandoned, CleaningPc
<1>3. SummaryListed'
  BY <1>1 DEF Listed, SummaryListed, NoneAbandoned, CleaningPc
<1>4. TurnsListed'
  BY <1>1 DEF Listed, TurnsListed, NoneAbandoned, CleaningPc
<1> QED BY <1>2, <1>3, <1>4 DEF Listed

-----------------------------------------------------------------------------
(* Steps of the compacting threads.                                          *)

\* Only a cleanup abandons operations: a run closes its own as completed or
\* failed.
LEMMA RunAbandonsNone ==
  ASSUME TypeInv, NEW p \in Proc, RunStep(p)
  PROVE  NoneAbandoned
<1> USE DEF TypeInv, StoreInv, StoreTypeOK, NoneAbandoned
<1>1. CASE UNCHANGED op
  BY <1>1
<1>2. CASE InsertOperation(p)
  BY <1>2 DEF InsertOperation, StartCompactionOperation
<1>3. CASE Progress(p) \/ ProgressAfterSummary(p)
  <2>1. \/ AdvanceCompactionPhase(p[1], wepoch[p[1]])
        \/ UNCHANGED op
    BY <1>3 DEF Progress, ProgressAfterSummary, storeVars
  <2>2. ASSUME NEW o \in Op, AdvanceCompactionPhase(p[1], wepoch[p[1]])
        PROVE  op'[o].status \in {op[o].status, "running"}
    BY <2>2 DEF AdvanceCompactionPhase, OpRow
  <2> QED BY <2>1, <2>2
<1>4. CASE ExitCompaction(p)
  <2>1. \/ UNCHANGED op
        \/ \E st \in {"completed", "failed"} :
             CloseCompactionOperation(p[1], wepoch[p[1]], st)
    BY <1>4 DEF ExitCompaction, ExitStatus, storeVars
  <2>2. ASSUME NEW o \in Op, NEW st \in {"completed", "failed"},
               CloseCompactionOperation(p[1], wepoch[p[1]], st)
        PROVE  op'[o].status \in {op[o].status, st}
    BY <2>2 DEF CloseCompactionOperation, Close, OpRow
  <2> QED BY <2>1, <2>2
<1>5. CASE Heartbeat(p)
  BY <1>5 DEF Heartbeat, RefreshCompactionHeartbeat, OpRow
<1> QED
  BY <1>1, <1>2, <1>3, <1>4, <1>5
     DEF RunStep, FinalizeIngestion, BeginRun, BeginTakeoverRun, AcquireLock,
         EnterCompaction, ProbeLifecycle, LoadRows, CheckGuard, WriteSegment,
         WriteFacts, MarkCompacted, WriteSummary, PipelineError, Drain, ReleaseLock,
         ClearActiveOp, SetPhase, StoreSegment, StoreFacts,
         MarkCanonicalTurnsCompacted, SaveTagSummary, DrainCompactionExit, storeVars

\* On SQLite a write that is held is one of a running operation.
LEMMA HeldRuns ==
  ASSUME Backend = "sqlite", NEW p \in Proc, Held(p)
  PROVE  op[run[p].op].status = "running"
BY DEF Held, Holds, MayWrite

\* A run adds artifacts only to a running operation.
LEMMA RunKeepsListed ==
  ASSUME Backend = "sqlite", TypeInv, Listed, NEW p \in Proc, RunStep(p)
  PROVE  Listed'
<1>0. NoneAbandoned /\ CleanupsStay
  <2>1. UNCHANGED post
    BY DEF RunStep, FinalizeIngestion, BeginRun, BeginTakeoverRun, AcquireLock,
           EnterCompaction, InsertOperation, ProbeLifecycle, LoadRows, Progress,
           ProgressAfterSummary, CheckGuard, WriteSegment, WriteFacts, MarkCompacted,
           WriteSummary, WriteAt, PipelineError, ExitCompaction, Drain, ReleaseLock,
           ClearActiveOp, Heartbeat, controlVars
  <2> QED BY <2>1, RunAbandonsNone DEF CleanupsStay
<1>1. CASE UNCHANGED artifactVars
  BY <1>0, <1>1, QuietStep
<1>2. CASE WriteSegment(p) \/ WriteFacts(p) \/ MarkCompacted(p) \/ WriteSummary(p)
  <2> USE DEF TypeInv, StoreInv, StoreTypeOK
  <2>1. UNCHANGED <<op, post>>
    BY <1>2 DEF WriteSegment, WriteFacts, MarkCompacted, WriteSummary, WriteAt,
       StoreSegment, StoreFacts, MarkCanonicalTurnsCompacted, SaveTagSummary
  <2>2. Held(p) => op[run[p].op].status # "abandoned"
    BY HeldRuns
  <2>3. /\ \A o \in segments' : o \in segments \/ (Held(p) /\ o = run[p].op)
        /\ summary' = summary \/ (Held(p) /\ summary' = run[p].op)
        /\ \A r \in Row : \/ compactedBy'[r] = compactedBy[r]
                          \/ Held(p) /\ compactedBy'[r] = run[p].op
    BY <1>2 DEF WriteSegment, WriteFacts, MarkCompacted, WriteSummary,
       StoreSegment, StoreFacts, MarkCanonicalTurnsCompacted, SaveTagSummary
  <2>4. SegmentsListed'
    BY <2>1, <2>2, <2>3 DEF Listed, SegmentsListed, CleanedBy
  <2>5. SummaryListed'
    BY <2>1, <2>2, <2>3 DEF Listed, SummaryListed, CleanedBy
  <2>6. TurnsListed'
    BY <2>1, <2>2, <2>3 DEF Listed, TurnsListed, CleanedBy
  <2> QED BY <2>4, <2>5, <2>6 DEF Listed
<1> QED
  BY <1>1, <1>2
     DEF RunStep, FinalizeIngestion, BeginRun, BeginTakeoverRun, AcquireLock,
         EnterCompaction, InsertOperation, ProbeLifecycle, LoadRows, Progress,
         ProgressAfterSummary, CheckGuard, PipelineError, ExitCompaction, Drain,
         ReleaseLock, ClearActiveOp, Heartbeat, SetPhase, StartCompactionOperation,
         AdvanceCompactionPhase, CloseCompactionOperation, DrainCompactionExit,
         RefreshCompactionHeartbeat, storeVars, artifactVars

-----------------------------------------------------------------------------
(* Steps of the requests.                                                    *)

\* A request that is not cleaning leaves every cleanup where it is.
LEMMA OthersStay ==
  ASSUME TypeInv, NEW w \in Worker, post[w].pc \notin CleaningPc,
         NEW x, post' = [post EXCEPT ![w] = x]
  PROVE  CleanupsStay
BY DEF CleanupsStay, TypeInv, ControlInv, ControlTypeOK

\* The statements of a cleanup, one after the other: the first lists the dead
\* operation, each of the others strikes what it deletes off the list.
LEMMA CleanupAbandonListed ==
  ASSUME TypeInv, Listed, NEW w \in Worker, CleanupAbandon(w)
  PROVE  Listed'
<1> USE DEF TypeInv, StoreInv, StoreTypeOK, ControlInv, ControlTypeOK
<1>1. post'[w].dead = post[w].dead /\ post'[w].pc = "deleteSegments"
  BY DEF CleanupAbandon, PostRow
<1>2. \A v \in Worker \ {w} : post'[v] = post[v]
  BY DEF CleanupAbandon
<1>3. post[w].pc = "abandon"
  BY DEF CleanupAbandon, PostAt
<1>4. ASSUME NEW o \in Op, op'[o].status = "abandoned", o # post[w].dead
      PROVE  op[o].status = "abandoned"
  BY <1>4 DEF CleanupAbandon, AbandonOp
<1>5. UNCHANGED artifactVars
  BY DEF CleanupAbandon, AbandonOp
<1>6. ASSUME NEW o \in Op, NEW pcs \in SUBSET CleaningPc, CleanedBy(o, pcs)
      PROVE  CleanedBy(o, pcs)'
  BY <1>6, <1>2, <1>3 DEF CleanedBy, CleaningPc
<1>7. ASSUME NEW o \in Op, o = post[w].dead, NEW pcs, "deleteSegments" \in pcs
      PROVE  CleanedBy(o, pcs)'
  BY <1>1, <1>7 DEF CleanedBy
<1>8. SegmentsListed'
  BY <1>4, <1>5, <1>6, <1>7 DEF Listed, SegmentsListed, artifactVars, CleaningPc
<1>9. SummaryListed'
  BY <1>4, <1>5, <1>6, <1>7 DEF Listed, SummaryListed, artifactVars, CleaningPc
<1>10. TurnsListed'
  BY <1>4, <1>5, <1>6, <1>7 DEF Listed, TurnsListed, artifactVars, CleaningPc
<1> QED BY <1>8, <1>9, <1>10 DEF Listed

\* A cleanup statement that moves its worker from one stage to the next.
LEMMA CleanupDeletesListed ==
  ASSUME TypeInv, Listed, NEW w \in Worker,
         CleanupSegments(w) \/ CleanupSummaries(w) \/ CleanupTurns(w)
  PROVE  Listed'
<1> USE DEF TypeInv, StoreInv, StoreTypeOK, ControlInv, ControlTypeOK
<1> DEFINE dead == post[w].dead
<1>1. UNCHANGED op /\ \A v \in Worker \ {w} : post'[v] = post[v]
  BY DEF CleanupSegments, CleanupSummaries, CleanupTurns, DeleteSegments,
         DeleteSummaries, Uncompact, PostTo, PostReturn
<1>2. ASSUME NEW o \in Op, o # dead, NEW pcs, CleanedBy(o, pcs)
      PROVE  CleanedBy(o, pcs)'
  BY <1>1, <1>2 DEF CleanedBy
<1>3. CASE CleanupSegments(w)
  <2>1. post'[w].dead = dead /\ post'[w].pc = "deleteSummaries"
    BY <1>3 DEF CleanupSegments, PostTo, PostRow
  <2>2. segments' = segments \ {dead} /\ UNCHANGED <<compactedBy, summary>>
    BY <1>3 DEF CleanupSegments, DeleteSegments
  <2>3. ASSUME NEW o \in Op, o = dead, NEW pcs, "deleteSummaries" \in pcs
        PROVE  CleanedBy(o, pcs)'
    BY <2>1, <2>3 DEF CleanedBy
  <2>4. SegmentsListed'
    BY <1>1, <1>2, <2>2 DEF Listed, SegmentsListed
  <2>5. SummaryListed'
    BY <1>1, <1>2, <2>2, <2>3 DEF Listed, SummaryListed
  <2>6. TurnsListed'
    BY <1>1, <1>2, <2>2, <2>3 DEF Listed, TurnsListed, CleaningPc
  <2> QED BY <2>4, <2>5, <2>6 DEF Listed
<1>4. CASE CleanupSummaries(w)
  <2>1. /\ post[w].pc = "deleteSummaries"
        /\ post'[w].dead = dead /\ post'[w].pc = "uncompact"
    BY <1>4 DEF CleanupSummaries, PostAt, PostTo, PostRow
  <2>2. summary' # dead \/ dead = None
    BY <1>4 DEF CleanupSummaries, DeleteSummaries
  <2>3. /\ summary' = summary \/ summary' = None
        /\ UNCHANGED <<compactedBy, segments>>
    BY <1>4 DEF CleanupSummaries, DeleteSummaries
  <2>4. SegmentsListed'
    BY <1>1, <2>1, <2>3 DEF Listed, SegmentsListed, CleanedBy
  <2>5. SummaryListed'
    BY <1>1, <1>2, <2>2, <2>3, StoreAssumption DEF Listed, SummaryListed
  <2>6. TurnsListed'
    BY <1>1, <2>1, <2>3 DEF Listed, TurnsListed, CleanedBy, CleaningPc
  <2> QED BY <2>4, <2>5, <2>6 DEF Listed
<1>5. CASE CleanupTurns(w)
  <2>1. post[w].pc = "uncompact"
    BY <1>5 DEF CleanupTurns, PostAt
  <2>2. /\ \A r \in Row : \/ compactedBy'[r] = None
                          \/ compactedBy'[r] = compactedBy[r] /\ compactedBy[r] # dead
        /\ UNCHANGED <<segments, summary>>
    BY <1>5 DEF CleanupTurns, Uncompact
  <2>3. SegmentsListed'
    BY <1>1, <2>1, <2>2 DEF Listed, SegmentsListed, CleanedBy
  <2>4. SummaryListed'
    BY <1>1, <2>1, <2>2 DEF Listed, SummaryListed, CleanedBy
  <2>5. TurnsListed'
    BY <1>1, <1>2, <2>2, StoreAssumption DEF Listed, TurnsListed
  <2> QED BY <2>3, <2>4, <2>5 DEF Listed
<1> QED BY <1>3, <1>4, <1>5

\* The whole method in one transaction lists nothing: what it abandons it has
\* deleted when it commits.
LEMMA CleanupTransactionListed ==
  ASSUME TypeInv, Listed, NEW w \in Worker, CleanupTransaction(w)
  PROVE  Listed'
<1> USE DEF TypeInv, StoreInv, StoreTypeOK, ControlInv, ControlTypeOK
<1> DEFINE dead == post[w].dead
<1>1. post[w].pc = "cleanup" /\ \A v \in Worker \ {w} : post'[v] = post[v]
  BY DEF CleanupTransaction, PostAt, PostTo, PostReturn
<1>2. ASSUME NEW o \in Op, NEW pcs \in SUBSET CleaningPc, CleanedBy(o, pcs)
      PROVE  CleanedBy(o, pcs)'
  BY <1>1, <1>2 DEF CleanedBy, CleaningPc
<1>3. ASSUME NEW o \in Op, o # dead, op'[o].status = "abandoned"
      PROVE  op[o].status = "abandoned"
  BY <1>3 DEF CleanupTransaction, CleanupAbandonedCompaction, RunningRow
<1>4. SegmentsListed'
  BY <1>2, <1>3 DEF Listed, SegmentsListed, CleanupTransaction,
     CleanupAbandonedCompaction, CleaningPc
<1>5. SummaryListed'
  <2>1. summary' # dead \/ summary' = None
    BY DEF CleanupTransaction, CleanupAbandonedCompaction
  <2>2. summary' = summary \/ summary' = None
    BY DEF CleanupTransaction, CleanupAbandonedCompaction
  <2> QED
    BY <1>2, <1>3, <2>1, <2>2, StoreAssumption DEF Listed, SummaryListed, CleaningPc
<1>6. TurnsListed'
  <2>1. \A r \in Row : \/ compactedBy'[r] = None
                       \/ compactedBy'[r] = compactedBy[r] /\ compactedBy[r] # dead
    BY DEF CleanupTransaction, CleanupAbandonedCompaction
  <2> QED
    BY <1>2, <1>3, <2>1, StoreAssumption DEF Listed, TurnsListed, CleaningPc
<1> QED BY <1>4, <1>5, <1>6 DEF Listed

\* Every other step of a request abandons nothing and moves no cleanup.
LEMMA GateKeepsListed ==
  ASSUME TypeInv, Listed, NEW w \in Worker, GateStep(w)
  PROVE  Listed'
<1> DEFINE Quiet == PostBegin(w) \/ PhaseGate(w) \/ ResurrectConversation(w)
                    \/ AbandonOldEpisodes(w) \/ CancelOldOps(w) \/ ReadSnapshot(w)
                    \/ RepairOrphanPhase(w) \/ ClaimTransaction(w) \/ ClaimSelect(w)
                    \/ ClaimUpdate(w) \/ TakeoverPredicate(w) \/ CleanupInsert(w)
                    \/ SubmitTakeover(w) \/ SubmitRefused(w)
<1>1. CASE Quiet
  <2>1. CleanupsStay
    <3>1. post[w].pc \notin CleaningPc
      BY <1>1 DEF PostBegin, PhaseGate, ResurrectConversation, AbandonOldEpisodes,
         CancelOldOps, ReadSnapshot, RepairOrphanPhase, ClaimTransaction, ClaimSelect,
         ClaimUpdate, TakeoverPredicate, CleanupInsert, SubmitTakeover, SubmitRefused,
         PostAt, CleaningPc
    <3>2. \E x : post' = [post EXCEPT ![w] = x]
      BY <1>1 DEF PostBegin, PhaseGate, ResurrectConversation, AbandonOldEpisodes,
         CancelOldOps, ReadSnapshot, RepairOrphanPhase, ClaimTransaction, ClaimSelect,
         ClaimUpdate, TakeoverPredicate, CleanupInsert, SubmitTakeover, SubmitRefused,
         PostTo, PostReturn
    <3> QED BY <3>1, <3>2, OthersStay
  <2>2. UNCHANGED artifactVars
    BY <1>1 DEF PostBegin, PhaseGate, ResurrectConversation, AbandonOldEpisodes,
       CancelOldOps, ReadSnapshot, RepairOrphanPhase, ClaimTransaction, ClaimSelect,
       ClaimUpdate, TakeoverPredicate, CleanupInsert, SubmitTakeover, SubmitRefused,
       Resurrect, BumpEpoch, AbandonEpisodes, CancelOps, SetPhase,
       ClaimCompactionLease, InsertRunning, storeVars, artifactVars
  <2>3. NoneAbandoned
    <3> USE DEF NoneAbandoned, TypeInv, StoreInv, StoreTypeOK
    <3>1. CASE UNCHANGED op
      BY <3>1
    <3>2. ASSUME Resurrect \/ CancelOps(Older(post[w].ep)), NEW o \in Op
          PROVE  op'[o].status \in {op[o].status, "cancelled"}
      <4>1. \/ op'[o] = op[o]
            \/ op'[o] = Close(op[o], "cancelled")
        BY <3>2 DEF Resurrect, CancelOps
      <4> QED BY <4>1 DEF Close, OpRow
    <3>3. ASSUME ClaimCompactionLease(w, post[w].ep), NEW o \in Op
          PROVE  op'[o].status = op[o].status
      BY <3>3 DEF ClaimCompactionLease, OpRow
    <3>4. ASSUME InsertRunning(w, post[w].ep, post[w].new), NEW o \in Op
          PROVE  op'[o].status \in {op[o].status, "running"}
      BY <3>4 DEF InsertRunning, RunningRow
    <3>5. \/ UNCHANGED op
          \/ Resurrect \/ CancelOps(Older(post[w].ep))
          \/ ClaimCompactionLease(w, post[w].ep)
          \/ InsertRunning(w, post[w].ep, post[w].new)
      BY <1>1 DEF PostBegin, PhaseGate, ResurrectConversation, AbandonOldEpisodes,
         CancelOldOps, ReadSnapshot, RepairOrphanPhase, ClaimTransaction, ClaimSelect,
         ClaimUpdate, TakeoverPredicate, CleanupInsert, SubmitTakeover, SubmitRefused,
         BumpEpoch, AbandonEpisodes, SetPhase, storeVars
    <3> QED BY <3>1, <3>2, <3>3, <3>4, <3>5
  <2> QED BY <2>1, <2>2, <2>3, QuietStep
<1> QED
  BY <1>1, CleanupAbandonListed, CleanupDeletesListed, CleanupTransactionListed
     DEF GateStep

-----------------------------------------------------------------------------
(* The environment, and the theorem.                                         *)

\* A crash is the one step of the environment that stops a cleanup, and it is
\* assumed not to fall between two of its statements.
LEMMA EnvKeepsListed ==
  ASSUME ~MidMethodCrash, TypeInv, Listed, EnvStep
  PROVE  Listed'
<1> USE DEF TypeInv, StoreInv, StoreTypeOK, ControlInv, ControlTypeOK
<1>1. UNCHANGED artifactVars
  BY DEF EnvStep, StartWorker, Crash, IngestionWork, Lapse, RowArrives, Admin,
         DeletePhase, DeleteEpisodes, DeleteOps, MarkDeleted, AbandonEpisodes,
         CancelOps, OpHeartbeatLapses, ArriveRow, MarkCanonicalRowTagged, SetPhase,
         UpsertIngestionEpisode, CompleteIngestionEpisode, storeVars, artifactVars
<1>2. CleanupsStay
  <2>1. ASSUME NEW w \in Worker, Crash(w)
        PROVE  CleanupsStay
    BY <2>1 DEF Crash, CleanupsStay, MidMethodPc, CleaningPc
  <2>2. CASE UNCHANGED post
    BY <2>2 DEF CleanupsStay
  <2> QED
    BY <2>1, <2>2 DEF EnvStep, StartWorker, IngestionWork, Lapse, RowArrives, Admin,
       DeletePhase, DeleteEpisodes, DeleteOps, controlVars
<1>3. NoneAbandoned
  <2>1. CASE UNCHANGED op
    BY <2>1 DEF NoneAbandoned
  <2>2. CASE DeleteOps
    BY <2>2 DEF DeleteOps, CancelOps, Close, NoneAbandoned, OpRow
  <2>3. ASSUME NEW o \in Op, Lapse(o)
        PROVE  NoneAbandoned
    BY <2>3 DEF Lapse, OpHeartbeatLapses, NoneAbandoned, OpRow
  <2> QED
    BY <2>1, <2>2, <2>3 DEF EnvStep, StartWorker, Crash, IngestionWork, RowArrives,
       Admin, DeletePhase, DeleteEpisodes, MarkDeleted, AbandonEpisodes, ArriveRow,
       MarkCanonicalRowTagged, SetPhase, UpsertIngestionEpisode,
       CompleteIngestionEpisode, storeVars
<1> QED BY <1>1, <1>2, <1>3, QuietStep

\* On SQLite, once cleanup_abandoned_compaction has run, the operation it
\* abandoned owns no segment, tag summary or compaction mark, now and ever
\* after, whatever its stale compactor still does: the guards of its writes
\* fence it.  A crash between two statements of the method is excluded.
THEOREM CleanupIsComplete ==
  ASSUME Backend = "sqlite", ~MidMethodCrash
  PROVE  Spec => []AbandonedLeavesNothing
<1> DEFINE Inv == TypeInv /\ Listed
<1>1. Init => Inv
  <2>1. Init => Listed
    BY DEF Init, StoreInit, NoOp, Listed, SegmentsListed, SummaryListed, TurnsListed
  <2> QED BY <2>1, InitTypeInv
<1>2. Inv /\ [Next]_takeoverVars => Inv'
  <2> SUFFICES ASSUME TypeInv, Listed, [Next]_takeoverVars PROVE Listed'
    BY NextTypeInv
  <2>1. CASE UNCHANGED takeoverVars
    BY <2>1, QuietStep DEF takeoverVars, controlVars, storeVars, artifactVars,
       NoneAbandoned, CleanupsStay
  <2> QED
    BY <2>1, NextSplits, RunKeepsListed, GateKeepsListed, EnvKeepsListed
<1>3. Inv => AbandonedLeavesNothing
  BY DEF Listed, SegmentsListed, SummaryListed, TurnsListed, CleanedBy, CleaningPc,
     AbandonedLeavesNothing, BeingCleaned, TypeInv, StoreInv, StoreTypeOK
<1> QED BY <1>1, <1>2, <1>3, PTL DEF Spec

-----------------------------------------------------------------------------
(****************************************************************************)
(* The compaction_operation rows implement OperationLedger, on both         *)
(* backends and whatever crashes: Spec => LedgerSpec.  Then what rests on   *)
(* it: no turn is compacted twice, and a stale worker cannot write.         *)
(*                                                                          *)
(* The rows alone are not enough for that: an INSERT opens a row only if    *)
(* its id has none yet.  The invariant says who holds which operation id,   *)
(* from the uuid4 that makes it to the row that carries it.                 *)
(****************************************************************************)

\* Before its INSERT, an id has no row.
BeforeInsertPc == {"lock", "enter", "insert"}
TakingOverPc == {"cleanup", "abandon", "deleteSegments", "deleteSummaries",
                 "uncompact", "insert"}

\* Every id in a row, in a run, in a request or in the pool's queue is minted.
IdsMinted ==
  /\ \A o \in Op : op[o].status # "absent" => o \in minted
  /\ \A p \in Proc : run[p].op \in minted \cup {None}
  /\ \A w \in Worker : {post[w].new, queued[w]} \subseteq minted \cup {None}

\* An id has one holder: a run, a request or a place in the queue.
IdsDistinct ==
  /\ \A p, q \in Proc : run[p].op = run[q].op /\ run[p].op # None => p = q
  /\ \A v, w \in Worker : post[v].new = post[w].new /\ post[v].new # None => v = w
  /\ \A v, w \in Worker : queued[v] = queued[w] /\ queued[v] # None => v = w
  /\ \A p \in Proc, w \in Worker : run[p].op # None
       => run[p].op \notin {post[w].new, queued[w]}
  /\ \A v, w \in Worker : post[v].new # None => post[v].new # queued[w]

\* A holder that has not inserted its row yet is the only one who could.
IdsFresh ==
  /\ \A p \in Proc : run[p].pc \in BeforeInsertPc /\ ~run[p].pre
       => op[run[p].op].status = "absent"
  /\ \A p \in Proc : run[p].pc \in {"enter", "insert"} => ~run[p].pre
  /\ \A w \in Worker : post[w].pc \in TakingOverPc /\ post[w].new # None
       => op[post[w].new].status = "absent"

\* A takeover knows the operation it abandons and, until it has found that
\* another worker was faster, the one it starts.
SuccessorPc == {"cleanup", "abandon", "insert"}

DeadKnown ==
  \A w \in Worker : /\ post[w].pc \in TakingOverPc => post[w].dead # None
                    /\ post[w].pc \in SuccessorPc => post[w].new # None

IdInv == IdsMinted /\ IdsDistinct /\ IdsFresh /\ DeadKnown

LedgerInv == TypeInv /\ IdInv /\ Ledger!OneActive(op)

-----------------------------------------------------------------------------
(* What the statements do to a row.                                          *)

\* Every row stays as it is, continues or is closed; none is opened.
RowsEvolve ==
  \A o \in Op : \/ op'[o] = op[o]
                \/ Ledger!Continues(op[o], op'[o])
                \/ Ledger!Closes(op[o], op'[o])

\* Rows that evolve keep their epochs, so that no epoch gains an active row.
LEMMA RowsEvolveStep ==
  ASSUME RowsEvolve, Ledger!OneActive(op)
  PROVE  /\ Ledger!Next
         /\ Ledger!OneActive(op')
         /\ \A o \in Op : op'[o].status = "absent" <=> op[o].status = "absent"
<1>1. \A o \in Op : Ledger!IsActive(op'[o])
        => Ledger!IsActive(op[o]) /\ op'[o].ep = op[o].ep
  BY DEF RowsEvolve, Ledger!Continues, Ledger!Closes, Ledger!IsActive,
         Ledger!Active, Ledger!Closed
<1>2. Ledger!OneActive(op')
  BY <1>1 DEF Ledger!OneActive
<1>3. \A o \in Op : op'[o].status = "absent" <=> op[o].status = "absent"
  BY DEF RowsEvolve, Ledger!Continues, Ledger!Closes, Ledger!IsActive,
         Ledger!Active, Ledger!Closed
<1> QED BY <1>2, <1>3 DEF Ledger!Next, RowsEvolve

\* A closed row, seen from the row it was.
LEMMA CloseRow ==
  ASSUME NEW row \in OpRow, NEW st \in Closed, row.status \in Active,
         st = "abandoned" => row.status = "running"
  PROVE  Ledger!Closes(row, Close(row, st))
BY DEF Close, OpRow, Active, Closed, Ledger!Closes, Ledger!IsActive,
       Ledger!Active, Ledger!Closed

\* A row whose lease is taken or renewed, or whose status moves to 'running'.
LEMMA ContinueRow ==
  ASSUME NEW row \in OpRow, NEW new \in OpRow, row.status \in Active,
         new.status \in {row.status, "running"}, new.ep = row.ep,
         new.owner = row.owner \/ ~row.fresh
  PROVE  Ledger!Continues(row, new)
BY DEF Active, Ledger!Continues, Ledger!IsActive, Ledger!Active

\* claim_compaction_lease takes only its own or a lapsed lease.
LEMMA ClaimEvolves ==
  ASSUME StoreInv, NEW w \in Worker, NEW e, ClaimCompactionLease(w, e)
  PROVE  RowsEvolve
<1> SUFFICES ASSUME NEW o \in Op, o \in Claimable(w, e)
             PROVE  Ledger!Continues(op[o], op'[o])
  BY DEF ClaimCompactionLease, RowsEvolve
<1> DEFINE new == [op[o] EXCEPT !.owner = w, !.fresh = TRUE]
<1>1. op[o] \in OpRow /\ op[o].status \in Active
      /\ (op[o].owner = w \/ ~op[o].fresh)
  BY DEF StoreInv, StoreTypeOK, Claimable, ActiveOps
<1>2. new \in OpRow /\ new.status = op[o].status /\ new.ep = op[o].ep /\ new.owner = w
  BY <1>1 DEF OpRow
<1>3. op'[o] = new
  BY DEF ClaimCompactionLease
<1> QED BY <1>1, <1>2, <1>3, ContinueRow

\* refresh_compaction_heartbeat, advance_compaction_phase and the passing of time
\* leave a row with its owner.
LEMMA RenewEvolves ==
  ASSUME StoreInv,
         \/ \E w \in Worker : \E e, o : RefreshCompactionHeartbeat(w, e, o)
         \/ \E w \in Worker : \E e : AdvanceCompactionPhase(w, e)
         \/ \E o \in Op : OpHeartbeatLapses(o)
  PROVE  RowsEvolve
<1> SUFFICES ASSUME NEW o \in Op, op'[o] # op[o]
             PROVE  Ledger!Continues(op[o], op'[o])
  BY DEF RowsEvolve
<1>1. op[o] \in OpRow
  BY DEF StoreInv, StoreTypeOK
<1>2. CASE \E w \in Worker : \E e, oo : RefreshCompactionHeartbeat(w, e, oo)
  <2>1. op[o].status \in Active /\ op'[o] = [op[o] EXCEPT !.fresh = TRUE]
    BY <1>2 DEF RefreshCompactionHeartbeat, MayWrite, StoreInv, StoreTypeOK, Active
  <2>2. op'[o] \in OpRow /\ op'[o].status = op[o].status /\ op'[o].ep = op[o].ep
        /\ op'[o].owner = op[o].owner
    BY <1>1, <2>1 DEF OpRow
  <2> QED BY <1>1, <2>1, <2>2, ContinueRow
<1>3. CASE \E w \in Worker : \E e : AdvanceCompactionPhase(w, e)
  <2>1. op[o].status \in Active
        /\ op'[o] = [op[o] EXCEPT !.status = "running", !.fresh = TRUE]
    BY <1>3 DEF AdvanceCompactionPhase, OwnedOps, ActiveOps
  <2>2. op'[o] \in OpRow /\ op'[o].status = "running" /\ op'[o].ep = op[o].ep
        /\ op'[o].owner = op[o].owner
    BY <1>1, <2>1 DEF OpRow, Active
  <2> QED BY <1>1, <2>1, <2>2, ContinueRow
<1>4. CASE \E oo \in Op : OpHeartbeatLapses(oo)
  <2>1. op[o].status \in Active /\ op'[o] = [op[o] EXCEPT !.fresh = FALSE]
    BY <1>4 DEF OpHeartbeatLapses, StoreInv, StoreTypeOK
  <2>2. op'[o] \in OpRow /\ op'[o].status = op[o].status /\ op'[o].ep = op[o].ep
        /\ op'[o].owner = op[o].owner
    BY <1>1, <2>1 DEF OpRow
  <2> QED BY <1>1, <2>1, <2>2, ContinueRow
<1> QED BY <1>2, <1>3, <1>4

\* Completing, failing, cancelling and abandoning close active rows.
LEMMA CloseEvolves ==
  ASSUME StoreInv,
         \/ \E w, e : \E st \in {"completed", "failed"} :
              CloseCompactionOperation(w, e, st)
         \/ \E E : CancelOps(E)
         \/ Resurrect
         \/ \E e, dead : AbandonOp(e, dead)
  PROVE  RowsEvolve
<1> SUFFICES ASSUME NEW o \in Op, op'[o] # op[o]
             PROVE  Ledger!Closes(op[o], op'[o])
  BY DEF RowsEvolve
<1>1. op[o] \in OpRow
  BY DEF StoreInv, StoreTypeOK
<1>2. CASE \E w, e : \E st \in {"completed", "failed"} : CloseCompactionOperation(w, e, st)
  <2>1. PICK st \in {"completed", "failed"} :
          op[o].status \in Active /\ op'[o] = Close(op[o], st)
    BY <1>2 DEF CloseCompactionOperation, OwnedOps, ActiveOps
  <2> QED BY <1>1, <2>1, CloseRow DEF Closed
<1>3. CASE Resurrect \/ \E E : CancelOps(E)
  <2>1. op[o].status \in Active /\ op'[o] = Close(op[o], "cancelled")
    BY <1>3 DEF Resurrect, CancelOps
  <2> QED BY <1>1, <2>1, CloseRow DEF Closed
<1>4. CASE \E e, dead : AbandonOp(e, dead)
  <2>1. op[o].status = "running" /\ op'[o] = Close(op[o], "abandoned")
    BY <1>4 DEF AbandonOp, FreshTakeover, StoreInv, StoreTypeOK
  <2> QED BY <1>1, <2>1, CloseRow DEF Closed, Active
<1> QED BY <1>2, <1>3, <1>4

\* The two INSERTs open a row with a fresh id at an epoch without an active row.
LEMMA OpenRow ==
  ASSUME StoreInv, Ledger!OneActive(op), NEW w \in Worker, NEW e \in 0..MaxEpoch,
         NEW o \in Op, op[o].status = "absent",
         StartCompactionOperation(w, e, o) \/ InsertRunning(w, e, o)
  PROVE  /\ Ledger!Next
         /\ Ledger!OneActive(op')
         /\ \A x \in Op \ {o} : op'[x] = op[x]
<1> DEFINE row == op'[o]
<1>0. op \in [Op -> OpRow]
  BY DEF StoreInv, StoreTypeOK
<1>1. CASE UNCHANGED op
  BY <1>1, RowsEvolveStep DEF RowsEvolve
<1>2. CASE ActiveOps(e) = {}
  <2>1. /\ row.status \in Active /\ row.owner = w /\ row.ep = e /\ row.fresh
        /\ \A x \in Op \ {o} : op'[x] = op[x]
    BY <1>0, <1>2 DEF StartCompactionOperation, InsertRunning, RunningRow, Active
  <2>2. Ledger!Opens(op[o], row)
    BY <2>1 DEF Ledger!Opens, Ledger!IsActive, Ledger!Active, Active
  <2>3. \A x \in Op : Ledger!IsActive(op[x]) => op[x].ep # e
    BY <1>2 DEF ActiveOps, Active, Ledger!IsActive, Ledger!Active
  <2>4. Ledger!OneActive(op')
    BY <2>1, <2>3 DEF Ledger!OneActive
  <2> QED BY <2>1, <2>2, <2>4 DEF Ledger!Next
<1> QED BY <1>1, <1>2 DEF StartCompactionOperation, InsertRunning

\* A takeover closes the one active row of its epoch and opens its successor.
LEMMA TakeOverRow ==
  ASSUME StoreInv, Ledger!OneActive(op), NEW w \in Worker, NEW e \in 0..MaxEpoch,
         NEW dead \in Op, NEW new \in Op, op[new].status = "absent",
         CleanupAbandonedCompaction(w, e, dead, new)
  PROVE  /\ Ledger!Next
         /\ Ledger!OneActive(op')
         /\ \A x \in Op \ {new} : op'[x].status = "absent" <=> op[x].status = "absent"
         /\ ~FreshTakeover(e, dead) => op' = op
<1>0. op \in [Op -> OpRow]
  BY DEF StoreInv, StoreTypeOK
<1>1. CASE ~FreshTakeover(e, dead)
  <2>1. op' = op
    BY <1>1 DEF CleanupAbandonedCompaction
  <2> QED BY <2>1, RowsEvolveStep DEF RowsEvolve
<1>2. CASE FreshTakeover(e, dead)
  <2>1. op[dead].status = "running" /\ op[dead].ep = e /\ dead # new
    BY <1>2 DEF FreshTakeover
  <2>2. /\ op'[dead] = Close(op[dead], "abandoned")
        /\ op'[new] = RunningRow(w, e)
        /\ \A x \in Op \ {dead, new} : op'[x] = op[x]
    BY <1>0, <1>2, <2>1 DEF CleanupAbandonedCompaction
  <2>3. Ledger!Closes(op[dead], op'[dead])
    BY <1>0, <2>1, <2>2, CloseRow DEF Active, Closed
  <2>4. Ledger!Opens(op[new], op'[new])
    BY <2>2 DEF RunningRow, Ledger!Opens, Ledger!IsActive, Ledger!Active
  <2>5. \A x \in Op : Ledger!IsActive(op[x]) /\ op[x].ep = e => x = dead
    BY <2>1 DEF Ledger!OneActive, Ledger!IsActive, Ledger!Active
  <2>6. /\ ~Ledger!IsActive(op'[dead])
        /\ op'[new].ep = e
    BY <2>2, <2>3 DEF RunningRow, Ledger!Closes, Ledger!IsActive, Ledger!Active,
       Ledger!Closed
  <2>7. Ledger!OneActive(op')
    BY <2>2, <2>5, <2>6 DEF Ledger!OneActive
  <2>8. op'[dead].status # "absent"
    BY <2>3 DEF Ledger!Closes, Ledger!Closed
  <2>9. Ledger!Next
    BY <2>2, <2>3, <2>4, <2>7 DEF Ledger!Next
  <2> QED BY <1>2, <2>1, <2>2, <2>7, <2>8, <2>9
<1> QED BY <1>1, <1>2

-----------------------------------------------------------------------------
(* Steps of the compacting threads.                                          *)

\* A run opens at most the row of its own id.
LEMMA RunStepRows ==
  ASSUME LedgerInv, NEW p \in Proc, RunStep(p)
  PROVE  /\ Ledger!Next
         /\ Ledger!OneActive(op')
         /\ \A o \in Op : \/ op'[o].status = "absent" <=> op[o].status = "absent"
                          \/ run[p].pc = "insert" /\ o = run[p].op
<1>0. StoreInv /\ p[1] \in Worker /\ run[p] \in RunRow
  BY ProcType DEF LedgerInv, TypeInv, ControlInv, ControlTypeOK
<1>1. CASE InsertOperation(p)
  <2>1. run[p].op \in Op /\ op[run[p].op].status = "absent" /\ run[p].pc = "insert"
    BY <1>0, <1>1 DEF InsertOperation, RunAt, LedgerInv, TypeInv, ControlInv,
       RunsHaveIds, IdInv, IdsFresh, BeforeInsertPc, RunRow
  <2> QED
    BY <1>0, <1>1, <2>1, OpenRow DEF InsertOperation, RunRow, LedgerInv
<1>2. ASSUME RowsEvolve
      PROVE  /\ Ledger!Next
             /\ Ledger!OneActive(op')
             /\ \A o \in Op : op'[o].status = "absent" <=> op[o].status = "absent"
  BY <1>2, RowsEvolveStep DEF LedgerInv
<1>3. CASE UNCHANGED op
  BY <1>2, <1>3 DEF RowsEvolve
<1>4. CASE Progress(p) \/ ProgressAfterSummary(p) \/ Heartbeat(p)
  <2>1. \/ UNCHANGED op
        \/ AdvanceCompactionPhase(p[1], wepoch[p[1]])
        \/ RefreshCompactionHeartbeat(p[1], run[p].ep, run[p].op)
    BY <1>4 DEF Progress, ProgressAfterSummary, Heartbeat, storeVars
  <2> QED BY <1>0, <1>2, <1>3, <2>1, RenewEvolves
<1>5. CASE ExitCompaction(p)
  <2>1. \/ UNCHANGED op
        \/ \E st \in {"completed", "failed"} :
             CloseCompactionOperation(p[1], wepoch[p[1]], st)
    BY <1>5 DEF ExitCompaction, ExitStatus, storeVars
  <2> QED BY <1>0, <1>2, <1>3, <2>1, CloseEvolves
<1> QED
  BY <1>1, <1>3, <1>4, <1>5
     DEF RunStep, FinalizeIngestion, BeginRun, BeginTakeoverRun, AcquireLock,
         EnterCompaction, ProbeLifecycle, LoadRows, CheckGuard, WriteSegment,
         WriteFacts, MarkCompacted, WriteSummary, PipelineError, Drain, ReleaseLock,
         ClearActiveOp, SetPhase, StoreSegment, StoreFacts,
         MarkCanonicalTurnsCompacted, SaveTagSummary, DrainCompactionExit, storeVars

\* Within a run the holders of ids and their progress stay as they are.
HoldersStay ==
  /\ UNCHANGED <<minted, post, queued>>
  /\ \A p \in Proc : /\ run'[p].op = run[p].op /\ run'[p].pre = run[p].pre
                     /\ run'[p].pc \in BeforeInsertPc => run[p].pc \in BeforeInsertPc
                     /\ run'[p].pc \in {"enter", "insert"} => ~run'[p].pre

\* A step that changes no holder keeps the invariant of ids.
LEMMA HoldersStayIds ==
  ASSUME LedgerInv, HoldersStay,
         \A o \in Op : op'[o].status = "absent" <=> op[o].status = "absent"
  PROVE  IdInv'
<1> USE DEF LedgerInv, IdInv, HoldersStay
<1>1. IdsMinted'
  BY DEF IdsMinted
<1>2. IdsDistinct'
  BY DEF IdsDistinct
<1>3. IdsFresh'
  <2>1. \A p \in Proc : run[p].pc \in BeforeInsertPc => run[p].op \in Op
    BY DEF TypeInv, ControlInv, ControlTypeOK, RunsHaveIds, RunRow, BeforeInsertPc
  <2>2. \A w \in Worker : post[w].new # None => post[w].new \in Op
    BY DEF TypeInv, ControlInv, ControlTypeOK, PostRow
  <2> QED BY <2>1, <2>2 DEF IdsFresh
<1>4. DeadKnown'
  BY DEF DeadKnown
<1> QED BY <1>1, <1>2, <1>3, <1>4

\* The steps of a run that neither take an id, nor give one back, nor insert.
LEMMA WorkingStepHolders ==
  ASSUME LedgerInv, NEW p \in Proc, RunStep(p),
         ~(BeginRun(p) \/ BeginTakeoverRun(p) \/ InsertOperation(p) \/ ClearActiveOp(p))
  PROVE  HoldersStay
<1>0. /\ run[p] \in RunRow /\ run \in [Proc -> RunRow]
      /\ run[p].pc \in {"enter", "insert"} => ~run[p].pre
      /\ \A q \in Proc : run[q].pc \in {"enter", "insert"} => ~run[q].pre
  BY DEF LedgerInv, TypeInv, ControlInv, ControlTypeOK, IdInv, IdsFresh
<1>a. ASSUME UNCHANGED <<minted, post, queued>>,
             \A q \in Proc \ {p} : run'[q] = run[q],
             run'[p].op = run[p].op, run'[p].pre = run[p].pre,
             run'[p].pc \notin BeforeInsertPc
      PROVE  HoldersStay
  BY <1>0, <1>a DEF HoldersStay, BeforeInsertPc
<1>b. ASSUME NEW pc, RunTo(p, pc)
      PROVE  /\ \A q \in Proc \ {p} : run'[q] = run[q]
             /\ run'[p].op = run[p].op /\ run'[p].pre = run[p].pre /\ run'[p].pc = pc
  BY <1>0, <1>b DEF RunTo, RunRow
<1>c. ASSUME UNCHANGED <<minted, post, queued>>,
             NEW pc, RunTo(p, pc), pc \notin BeforeInsertPc
      PROVE  HoldersStay
  BY <1>a, <1>b, <1>c
<1>1. CASE AcquireLock(p)
  <2>0. run[p].pc = "lock" /\ UNCHANGED <<minted, post, queued>>
    BY <1>1 DEF AcquireLock, RunAt
  <2>1. CASE lock[p[1]] # None
    BY <1>1, <1>c, <2>0, <2>1 DEF AcquireLock, BeforeInsertPc
  <2>2. CASE lock[p[1]] = None
    <3>1. /\ \A q \in Proc \ {p} : run'[q] = run[q]
          /\ run'[p].op = run[p].op /\ run'[p].pre = run[p].pre
          /\ run'[p].pc = IF run[p].pre THEN "load" ELSE "enter"
      BY <1>0, <1>1, <2>2 DEF AcquireLock, RunRow
    <3> QED BY <1>0, <2>0, <3>1 DEF HoldersStay, BeforeInsertPc, RunRow
  <2> QED BY <2>1, <2>2
<1>2. CASE EnterCompaction(p)
  <2>1. /\ \A q \in Proc \ {p} : run'[q] = run[q]
        /\ run'[p].op = run[p].op /\ run'[p].pre = run[p].pre
        /\ run'[p].pc \in {"insert", "probe"}
        /\ run[p].pc = "enter" /\ UNCHANGED <<minted, post, queued>>
    BY <1>0, <1>2 DEF EnterCompaction, RunAt, RunTo, RunRow, memoryVars
  <2> QED BY <1>0, <2>1 DEF HoldersStay, BeforeInsertPc
<1>3. CASE ProgressAfterSummary(p) \/ Heartbeat(p)
  BY <1>0, <1>3 DEF ProgressAfterSummary, Heartbeat, HoldersStay, memoryVars, controlVars
<1>4. CASE FinalizeIngestion(p) \/ Drain(p) \/ ReleaseLock(p)
  BY <1>4, <1>c DEF FinalizeIngestion, Drain, ReleaseLock, memoryVars, BeforeInsertPc
<1>8. CASE ProbeLifecycle(p) \/ CheckGuard(p) \/ PipelineError(p)
  <2>a. PICK x : run' = [run EXCEPT ![p] = x]
    BY <1>8 DEF ProbeLifecycle, CheckGuard, PipelineError
  <2>1. UNCHANGED <<minted, post, queued>> /\ \A q \in Proc \ {p} : run'[q] = run[q]
    BY <1>0, <1>8, <2>a DEF ProbeLifecycle, CheckGuard, PipelineError, memoryVars
  <2>2. CASE ProbeLifecycle(p)
    <3>1. run'[p].op = run[p].op /\ run'[p].pre = run[p].pre /\ run'[p].pc = "load"
      BY <1>0, <2>2 DEF ProbeLifecycle, RunRow
    <3> QED BY <1>a, <2>1, <3>1 DEF BeforeInsertPc
  <2>3. CASE CheckGuard(p)
    <3>1. /\ run'[p].op = run[p].op /\ run'[p].pre = run[p].pre
          /\ run'[p].pc \in WritePc \cup {"fail"}
      BY <1>0, <2>3 DEF CheckGuard, RunRow
    <3> QED BY <1>a, <2>1, <3>1 DEF BeforeInsertPc, WritePc
  <2>4. CASE PipelineError(p)
    <3>1. run'[p].op = run[p].op /\ run'[p].pre = run[p].pre /\ run'[p].pc = "fail"
      BY <1>0, <2>4 DEF PipelineError, RunRow
    <3> QED BY <1>a, <2>1, <3>1 DEF BeforeInsertPc
  <2> QED BY <1>8, <2>2, <2>3, <2>4
<1>5. CASE LoadRows(p)
  <2>1. /\ \A q \in Proc \ {p} : run'[q] = run[q]
        /\ run'[p].op = run[p].op /\ run'[p].pre = run[p].pre
        /\ run'[p].pc \notin BeforeInsertPc /\ UNCHANGED <<minted, post, queued>>
    BY <1>0, <1>5 DEF LoadRows, RunRow, memoryVars, BeforeInsertPc
  <2> QED BY <1>a, <2>1
<1>6. CASE Progress(p)
  <2>1. UNCHANGED <<minted, post, queued>>
        /\ \E pc \in {"fail", "segment", "fact", "mark"} : RunTo(p, pc)
    BY <1>6 DEF Progress, memoryVars
  <2> QED BY <1>c, <2>1 DEF BeforeInsertPc
<1>7. CASE ExitCompaction(p)
  <2>0. UNCHANGED <<minted, post, queued>>
    BY <1>7 DEF ExitCompaction, memoryVars
  <2>1. CASE ~run[p].entered
    BY <1>7, <1>c, <2>0, <2>1 DEF ExitCompaction, BeforeInsertPc
  <2>2. CASE run[p].entered
    <3>0. run' = [run EXCEPT ![p] = [@ EXCEPT !.pc = "drain", !.ep = wepoch[p[1]]]]
      BY <1>7, <2>2 DEF ExitCompaction
    <3>1. /\ \A q \in Proc \ {p} : run'[q] = run[q]
          /\ run'[p].op = run[p].op /\ run'[p].pre = run[p].pre /\ run'[p].pc = "drain"
      BY <1>0, <3>0 DEF RunRow
    <3> QED BY <1>a, <2>0, <3>1 DEF BeforeInsertPc
  <2> QED BY <2>1, <2>2
<1>9. ASSUME NEW pc, NEW next, next \notin BeforeInsertPc, WriteAt(p, pc, next)
      PROVE  HoldersStay
  <2>1. /\ UNCHANGED <<minted, post, queued>>
        /\ \A q \in Proc \ {p} : run'[q] = run[q]
    BY <1>9 DEF WriteAt, memoryVars
  <2>2. /\ run'[p].op = run[p].op /\ run'[p].pre = run[p].pre
        /\ run'[p].pc \in {next, "fail"}
    BY <1>0, <1>9 DEF WriteAt, RunRow
  <2> QED BY <1>a, <1>9, <2>1, <2>2 DEF BeforeInsertPc
<1>10. CASE WriteSegment(p) \/ WriteFacts(p) \/ MarkCompacted(p) \/ WriteSummary(p)
  BY <1>9, <1>10 DEF WriteSegment, WriteFacts, MarkCompacted, WriteSummary,
     BeforeInsertPc
<1> QED
  BY <1>1, <1>2, <1>3, <1>4, <1>5, <1>6, <1>7, <1>8, <1>10 DEF RunStep

\* A run takes its id, inserts its row and gives the id back.
LEMMA RunKeepsIds ==
  ASSUME LedgerInv, NEW p \in Proc, RunStep(p)
  PROVE  IdInv'
<1> USE DEF LedgerInv, IdInv, TypeInv, ControlInv, ControlTypeOK
<1>0. run[p] \in RunRow /\ p[1] \in Worker
  BY ProcType
<1>1. CASE ~(BeginRun(p) \/ BeginTakeoverRun(p) \/ InsertOperation(p) \/ ClearActiveOp(p))
  <2>1. HoldersStay
    BY <1>1, WorkingStepHolders
  <2>2. run[p].pc # "insert" \/ UNCHANGED op
    BY <1>1 DEF RunStep, FinalizeIngestion, AcquireLock, EnterCompaction, ProbeLifecycle,
       LoadRows, Progress, ProgressAfterSummary, CheckGuard, WriteSegment, WriteFacts,
       MarkCompacted, WriteSummary, WriteAt, PipelineError, ExitCompaction, Drain,
       ReleaseLock, Heartbeat, RunAt, WritePc, SidecarPc
  <2>3. \A o \in Op : op'[o].status = "absent" <=> op[o].status = "absent"
    BY <2>2, RunStepRows
  <2> QED BY <2>1, <2>3, HoldersStayIds
<1>2. CASE InsertOperation(p)
  <2>1. /\ run[p].pc = "insert" /\ run[p].op \in Op /\ run[p].op \in minted
        /\ UNCHANGED <<minted, post, queued>>
        /\ \A q \in Proc : run'[q].op = run[q].op /\ run'[q].pre = run[q].pre
        /\ \A q \in Proc \ {p} : run'[q] = run[q]
        /\ run'[p].pc = "probe"
    BY <1>0, <1>2 DEF InsertOperation, RunAt, RunTo, RunsHaveIds, IdsMinted, RunRow,
       memoryVars
  <2>2. \A o \in Op \ {run[p].op} : op'[o].status = "absent" <=> op[o].status = "absent"
    BY RunStepRows
  <2>3. IdsMinted'
    BY <2>1, <2>2 DEF IdsMinted
  <2>4. IdsDistinct'
    BY <2>1 DEF IdsDistinct
  <2>5. \A q \in Proc \ {p} : run[q].pc \in BeforeInsertPc
          => run[q].op \in Op \ {run[p].op}
    BY <2>1, StoreAssumption DEF RunsHaveIds, RunRow, BeforeInsertPc, IdsDistinct
  <2>6. \A w \in Worker : post[w].new # None => post[w].new \in Op \ {run[p].op}
    BY <2>1, StoreAssumption DEF PostRow, IdsDistinct
  <2>7. IdsFresh'
    BY <2>1, <2>2, <2>5, <2>6 DEF IdsFresh, BeforeInsertPc
  <2>8. DeadKnown'
    BY <2>1 DEF DeadKnown
  <2> QED BY <2>3, <2>4, <2>7, <2>8
<1>3. CASE BeginRun(p)
  <2>1. PICK o \in Op \ minted :
          /\ run' = [run EXCEPT ![p] = [NoRun EXCEPT !.pc = "lock", !.op = o]]
          /\ minted' = minted \cup {o}
    BY <1>3 DEF BeginRun
  <2>2. /\ \A q \in Proc \ {p} : run'[q] = run[q]
        /\ run'[p].op = o /\ run'[p].pc = "lock" /\ run'[p].pre = FALSE
        /\ UNCHANGED <<op, post, queued>>
    BY <1>0, <1>3, <2>1 DEF BeginRun, NoRun, storeVars
  <2>3. op[o].status = "absent" /\ o # None
    BY StoreAssumption DEF IdsMinted
  <2>4. IdsMinted'
    BY <2>1, <2>2 DEF IdsMinted
  <2>5. \A q \in Proc : run[q].op # o
    BY <2>3 DEF IdsMinted
  <2>6. \A w \in Worker : post[w].new # o /\ queued[w] # o
    BY <2>3 DEF IdsMinted
  <2>7. IdsDistinct'
    BY <2>2, <2>5, <2>6 DEF IdsDistinct
  <2>8. IdsFresh'
    BY <2>2, <2>3 DEF IdsFresh
  <2>9. DeadKnown'
    BY <2>2 DEF DeadKnown
  <2> QED BY <2>4, <2>7, <2>8, <2>9
<1>4. CASE BeginTakeoverRun(p)
  <2> DEFINE w == p[1]
  <2>1. /\ \A q \in Proc \ {p} : run'[q] = run[q]
        /\ run'[p].op = queued[w] /\ run'[p].pc = "lock" /\ run'[p].pre = TRUE
        /\ queued[w] # None /\ queued' = [queued EXCEPT ![w] = None]
        /\ UNCHANGED <<op, post, minted>>
    BY <1>0, <1>4 DEF BeginTakeoverRun, NoRun, storeVars
  <2>2. \A v \in Worker : queued'[v] = IF v = w THEN None ELSE queued[v]
    BY <1>0, <2>1
  <2>3. IdsMinted'
    BY <1>0, <2>1, <2>2 DEF IdsMinted
  <2>4. \A q \in Proc : run[q].op # queued[w]
    BY <1>0, <2>1 DEF IdsDistinct
  <2>5. \A v \in Worker : post[v].new # queued[w] /\ queued'[v] # queued[w]
    BY <1>0, <2>1, <2>2 DEF IdsDistinct
  <2>6. IdsDistinct'
    BY <2>1, <2>2, <2>4, <2>5 DEF IdsDistinct
  <2>7. IdsFresh'
    BY <2>1 DEF IdsFresh
  <2>8. DeadKnown'
    BY <2>1 DEF DeadKnown
  <2> QED BY <2>3, <2>6, <2>7, <2>8
<1>5. CASE ClearActiveOp(p)
  <2>1. /\ \A q \in Proc \ {p} : run'[q] = run[q]
        /\ run'[p] = NoRun
        /\ minted' = minted \ Unused(run[p].op)
        /\ UNCHANGED <<op, post, queued>>
    BY <1>0, <1>5 DEF ClearActiveOp, storeVars
  <2>2. \A x \in minted : x \in minted' \/ (x = run[p].op /\ op[x].status = "absent")
    BY <2>1 DEF Unused
  <2>3. run'[p].op = None /\ run'[p].pc = "idle"
    BY <2>1 DEF NoRun
  <2>4. IdsMinted'
    <3>1. \A q \in Proc \ {p} : run[q].op # None => run[q].op # run[p].op
      BY DEF IdsDistinct
    <3>2. \A w \in Worker : /\ post[w].new # None => post[w].new # run[p].op
                            /\ queued[w] # None => queued[w] # run[p].op
      BY DEF IdsDistinct
    <3> QED BY <2>1, <2>2, <2>3, <3>1, <3>2 DEF IdsMinted
  <2>5. IdsDistinct'
    BY <2>1, <2>3 DEF IdsDistinct
  <2>6. IdsFresh'
    BY <2>1, <2>3 DEF IdsFresh, BeforeInsertPc
  <2>7. DeadKnown'
    BY <2>1 DEF DeadKnown
  <2> QED BY <2>4, <2>5, <2>6, <2>7
<1> QED BY <1>1, <1>2, <1>3, <1>4, <1>5

-----------------------------------------------------------------------------
(* Steps of the requests.                                                    *)

\* A request opens at most the row of the successor it minted.
LEMMA GateStepRows ==
  ASSUME LedgerInv, NEW w \in Worker, GateStep(w)
  PROVE  /\ Ledger!Next
         /\ Ledger!OneActive(op')
         /\ \A o \in Op : \/ op'[o].status = "absent" <=> op[o].status = "absent"
                          \/ /\ CleanupTransaction(w) \/ CleanupInsert(w)
                             /\ o = post[w].new
<1>0. StoreInv /\ post[w] \in PostRow
  BY DEF LedgerInv, TypeInv, ControlInv, ControlTypeOK
<1>a. /\ post[w].pc \in TakingOverPc => post[w].dead # None
      /\ post[w].pc \in SuccessorPc => post[w].new # None
  BY DEF LedgerInv, IdInv, DeadKnown
<1>b. post[w].pc \in TakingOverPc /\ post[w].new # None
        => op[post[w].new].status = "absent"
  BY DEF LedgerInv, IdInv, IdsFresh
<1>1. ASSUME RowsEvolve
      PROVE  /\ Ledger!Next
             /\ Ledger!OneActive(op')
             /\ \A o \in Op : op'[o].status = "absent" <=> op[o].status = "absent"
  BY <1>1, RowsEvolveStep DEF LedgerInv
<1>2. CASE UNCHANGED op
  BY <1>1, <1>2 DEF RowsEvolve
<1>3. CASE \/ Resurrect \/ CancelOps(Older(post[w].ep))
           \/ AbandonOp(post[w].ep, post[w].dead)
  BY <1>0, <1>1, <1>3, CloseEvolves
<1>4. CASE ClaimCompactionLease(w, post[w].ep)
  BY <1>0, <1>1, <1>4, ClaimEvolves
<1>5. CASE CleanupTransaction(w)
  <2>0. post[w].pc = "cleanup"
    BY <1>5 DEF CleanupTransaction, PostAt
  <2>1. post[w].dead \in Op /\ post[w].new \in Op
        /\ op[post[w].new].status = "absent"
    BY <1>0, <1>a, <1>b, <2>0 DEF PostRow, TakingOverPc, SuccessorPc
  <2>2. CleanupAbandonedCompaction(w, post[w].ep, post[w].dead, post[w].new)
        /\ post[w].ep \in 0..MaxEpoch
    BY <1>0, <1>5 DEF CleanupTransaction, PostRow
  <2> QED BY <1>0, <1>5, <2>1, <2>2, TakeOverRow DEF LedgerInv
<1>6. CASE CleanupInsert(w)
  <2>0. post[w].pc = "insert"
    BY <1>6 DEF CleanupInsert, PostAt
  <2>1. post[w].new \in Op /\ op[post[w].new].status = "absent"
    BY <1>0, <1>a, <1>b, <2>0 DEF PostRow, TakingOverPc, SuccessorPc
  <2>2. InsertRunning(w, post[w].ep, post[w].new) /\ post[w].ep \in 0..MaxEpoch
    BY <1>0, <1>6 DEF CleanupInsert, PostRow
  <2> QED BY <1>0, <1>6, <2>1, <2>2, OpenRow DEF LedgerInv
<1> QED
  BY <1>2, <1>3, <1>4, <1>5, <1>6
     DEF GateStep, PostBegin, PhaseGate, ResurrectConversation, AbandonOldEpisodes,
         CancelOldOps, ReadSnapshot, RepairOrphanPhase, ClaimTransaction, ClaimSelect,
         ClaimUpdate, TakeoverPredicate, CleanupAbandon, CleanupSegments,
         CleanupSummaries, CleanupTurns, SubmitTakeover, SubmitRefused, BumpEpoch,
         AbandonEpisodes, SetPhase, DeleteSegments, DeleteSummaries, Uncompact, storeVars

\* Most steps of a request keep the id it holds or drop it, and free it only
\* while it has no row.
GateShrinks(w) ==
  /\ UNCHANGED <<run, queued>>
  /\ \A v \in Worker \ {w} : post'[v] = post[v]
  /\ post'[w].pc \in TakingOverPc
       => post[w].pc \in TakingOverPc /\ post'[w].dead = post[w].dead
  /\ post'[w].pc \in SuccessorPc => post'[w].new # None
  /\ \/ post'[w].new = post[w].new /\ minted' = minted
     \/ post'[w].new = None /\ minted' = minted
     \/ /\ post'[w].new = None /\ minted' = minted \ {post[w].new}
        /\ post[w].new # None => op'[post[w].new].status = "absent"
  /\ \A o \in Op : \/ op'[o].status = "absent" <=> op[o].status = "absent"
                   \/ o = post[w].new /\ post'[w].pc \notin TakingOverPc

\* Shrinking keeps the invariant of ids.
LEMMA GateShrinksIds ==
  ASSUME LedgerInv, NEW w \in Worker, GateShrinks(w)
  PROVE  IdInv'
<1> USE DEF LedgerInv, IdInv, GateShrinks
<1>0. /\ \A v \in Worker : post[v].new \in Op \cup {None}
      /\ \A q \in Proc : run[q].op \in Op \cup {None}
      /\ \A q \in Proc : run[q].pc \in BeforeInsertPc => run[q].op \in Op
      /\ None \notin Op
  BY StoreAssumption DEF TypeInv, ControlInv, ControlTypeOK, RunsHaveIds, RunRow,
     PostRow, BeforeInsertPc
<1>1. post'[w].new \in {post[w].new, None}
  OBVIOUS
<1>2. IdsDistinct'
  BY <1>1 DEF IdsDistinct
<1>3. IdsMinted'
  <2>1. \A x \in minted : x \in minted' \/ x = post[w].new
    OBVIOUS
  <2>2. \A o \in Op : op'[o].status # "absent" => o \in minted'
    BY <1>0, <2>1 DEF IdsMinted
  <2>3. \A q \in Proc : run[q].op \in minted' \cup {None}
    BY <1>0, <2>1 DEF IdsMinted, IdsDistinct
  <2>4. \A v \in Worker : queued[v] \in minted' \cup {None}
    BY <2>1, <1>0 DEF IdsMinted, IdsDistinct
  <2>5. \A v \in Worker \ {w} : post[v].new \in minted' \cup {None}
    BY <2>1, <1>0 DEF IdsMinted, IdsDistinct
  <2>6. post'[w].new \in minted' \cup {None}
    BY DEF IdsMinted
  <2> QED BY <2>2, <2>3, <2>4, <2>5, <2>6 DEF IdsMinted
<1>4. IdsFresh'
  <2>1. \A q \in Proc : run[q].pc \in BeforeInsertPc => run[q].op # post[w].new
    BY <1>0 DEF IdsDistinct
  <2>2. \A q \in Proc : run[q].pc \in BeforeInsertPc /\ ~run[q].pre
          => op'[run[q].op].status = "absent"
    BY <1>0, <2>1 DEF IdsFresh
  <2>3. \A v \in Worker \ {w} : post[v].pc \in TakingOverPc /\ post[v].new # None
          => op'[post[v].new].status = "absent"
    BY <1>0 DEF IdsFresh, IdsDistinct
  <2>4. post'[w].pc \in TakingOverPc /\ post'[w].new # None
          => op'[post'[w].new].status = "absent"
    BY <1>0, <1>1 DEF IdsFresh
  <2>5. \A q \in Proc : run[q].pc \in {"enter", "insert"} => ~run[q].pre
    BY DEF IdsFresh
  <2> QED BY <2>2, <2>3, <2>4, <2>5 DEF IdsFresh
<1>5. DeadKnown'
  <2>1. \A v \in Worker \ {w} : /\ post'[v].pc \in TakingOverPc => post'[v].dead # None
                                /\ post'[v].pc \in SuccessorPc => post'[v].new # None
    BY DEF DeadKnown
  <2>2. /\ post'[w].pc \in TakingOverPc => post'[w].dead # None
        /\ post'[w].pc \in SuccessorPc => post'[w].new # None
    BY DEF DeadKnown
  <2> QED BY <2>1, <2>2 DEF DeadKnown
<1> QED BY <1>2, <1>3, <1>4, <1>5

\* The steps of a request that neither mint an id nor queue it.
LEMMA GateStepShrinks ==
  ASSUME LedgerInv, NEW w \in Worker, GateStep(w),
         ~TakeoverPredicate(w), ~SubmitTakeover(w)
  PROVE  GateShrinks(w)
<1>0. /\ post \in [Worker -> PostRow] /\ post[w] \in PostRow
      /\ None \notin Op
  BY StoreAssumption DEF LedgerInv, TypeInv, ControlInv, ControlTypeOK
<1>a. /\ post[w].pc \in SuccessorPc => post[w].new # None
  BY DEF LedgerInv, IdInv, DeadKnown
<1>b. post[w].pc \in TakingOverPc /\ post[w].new # None
        => op[post[w].new].status = "absent"
  BY DEF LedgerInv, IdInv, IdsFresh
<1>c. \A o \in Op : \/ op'[o].status = "absent" <=> op[o].status = "absent"
                    \/ /\ CleanupTransaction(w) \/ CleanupInsert(w)
                       /\ o = post[w].new
  BY GateStepRows
<1>d. NoPost.pc = "idle" /\ NoPost.new = None
  BY DEF NoPost
<1>1. ASSUME UNCHANGED <<run, queued, minted>>, PostReturn(w),
             ~CleanupTransaction(w), ~CleanupInsert(w)
      PROVE  GateShrinks(w)
  BY <1>0, <1>c, <1>d, <1>1 DEF GateShrinks, PostReturn, TakingOverPc, SuccessorPc
<1>2. ASSUME UNCHANGED <<run, queued, minted>>, NEW pc, PostTo(w, pc),
             pc \in TakingOverPc => post[w].pc \in TakingOverPc,
             pc \in SuccessorPc => post[w].new # None,
             CleanupTransaction(w) \/ CleanupInsert(w) => pc \notin TakingOverPc
      PROVE  GateShrinks(w)
  <2>1. /\ \A v \in Worker \ {w} : post'[v] = post[v]
        /\ post'[w].pc = pc /\ post'[w].dead = post[w].dead /\ post'[w].new = post[w].new
    BY <1>0, <1>2 DEF PostTo, PostRow
  <2> QED BY <1>2, <1>c, <2>1 DEF GateShrinks
<1>3. CASE PostBegin(w)
  BY <1>0, <1>3, <1>c DEF PostBegin, CleanupTransaction, CleanupInsert, PostAt,
     GateShrinks, NoPost, TakingOverPc, SuccessorPc, memoryVars
<1>4. CASE PhaseGate(w)
  <2>1. UNCHANGED <<run, queued, minted>> /\ post[w].pc = "gate"
        /\ (PostTo(w, "snapshot") \/ PostTo(w, "resurrect") \/ PostReturn(w))
    BY <1>4 DEF PhaseGate, PostAt, memoryVars
  <2> QED
    BY <1>1, <1>2, <2>1 DEF CleanupTransaction, CleanupInsert, PostAt, TakingOverPc,
       SuccessorPc
<1>5. CASE ResurrectConversation(w)
  <2>1. UNCHANGED <<run, queued, minted>> /\ post[w].pc = "resurrect"
    BY <1>5 DEF ResurrectConversation, PostAt
  <2>2. ~CleanupTransaction(w) /\ ~CleanupInsert(w)
    BY <2>1 DEF CleanupTransaction, CleanupInsert, PostAt
  <2>3. CASE PostReturn(w)
    BY <1>1, <2>1, <2>2, <2>3
  <2>4. CASE ~PostReturn(w)
    <3>1. PICK e : post' = [post EXCEPT ![w] = [@ EXCEPT !.pc = "abandonOld", !.ep = e]]
      BY <1>5, <2>4 DEF ResurrectConversation
    <3>2. /\ \A v \in Worker \ {w} : post'[v] = post[v]
          /\ post'[w].pc = "abandonOld" /\ post'[w].new = post[w].new
      BY <1>0, <3>1 DEF PostRow
    <3> QED BY <1>c, <2>1, <2>2, <3>2 DEF GateShrinks, TakingOverPc, SuccessorPc
  <2> QED BY <2>3, <2>4
<1>6. CASE AbandonOldEpisodes(w) \/ CancelOldOps(w)
  <2>1. UNCHANGED <<run, queued, minted>> /\ post[w].pc \in {"abandonOld", "cancelOld"}
        /\ (PostTo(w, "cancelOld") \/ PostReturn(w))
    BY <1>6 DEF AbandonOldEpisodes, CancelOldOps, PostAt, memoryVars
  <2> QED
    BY <1>1, <1>2, <2>1 DEF CleanupTransaction, CleanupInsert, PostAt, TakingOverPc,
       SuccessorPc
<1>7. CASE ReadSnapshot(w) \/ RepairOrphanPhase(w)
  <2>1. UNCHANGED <<run, queued, minted>> /\ post[w].pc \in {"snapshot", "repair"}
        /\ (PostTo(w, "repair") \/ PostTo(w, "claim") \/ PostReturn(w))
    BY <1>7 DEF ReadSnapshot, RepairOrphanPhase, PostAt, memoryVars
  <2> QED
    BY <1>1, <1>2, <2>1 DEF CleanupTransaction, CleanupInsert, PostAt, TakingOverPc,
       SuccessorPc
<1>8. CASE ClaimTransaction(w) \/ ClaimSelect(w) \/ ClaimUpdate(w)
  <2>1. UNCHANGED <<run, queued, minted>> /\ post[w].pc \in {"claim", "claimUpdate"}
    BY <1>8 DEF ClaimTransaction, ClaimSelect, ClaimUpdate, PostAt, memoryVars
  <2>2. ~CleanupTransaction(w) /\ ~CleanupInsert(w)
    BY <2>1 DEF CleanupTransaction, CleanupInsert, PostAt
  <2>3. \/ PostReturn(w)
        \/ PostTo(w, "predicate")
        \/ \E pc \in {"predicate", "claimUpdate"} : \E d :
             post' = [post EXCEPT ![w] = [@ EXCEPT !.pc = pc, !.dead = d]]
    BY <1>8 DEF ClaimTransaction, ClaimSelect, ClaimUpdate
  <2>4. CASE PostReturn(w)
    BY <1>1, <2>1, <2>2, <2>4
  <2>5. CASE PostTo(w, "predicate")
    BY <1>2, <2>1, <2>2, <2>5 DEF TakingOverPc, SuccessorPc
  <2>6. ASSUME NEW pc \in {"predicate", "claimUpdate"}, NEW d,
               post' = [post EXCEPT ![w] = [@ EXCEPT !.pc = pc, !.dead = d]]
        PROVE  GateShrinks(w)
    <3>1. /\ \A v \in Worker \ {w} : post'[v] = post[v]
          /\ post'[w].pc = pc /\ post'[w].new = post[w].new
      BY <1>0, <2>6 DEF PostRow
    <3> QED BY <1>c, <2>1, <2>2, <3>1 DEF GateShrinks, TakingOverPc, SuccessorPc
  <2> QED BY <2>3, <2>4, <2>5, <2>6
<1>9. CASE CleanupTransaction(w)
  <2>0. post[w].pc = "cleanup" /\ UNCHANGED <<run, queued>>
    BY <1>9 DEF CleanupTransaction, PostAt, memoryVars
  <2>1. CASE FreshTakeover(post[w].ep, post[w].dead)
    BY <1>2, <1>9, <2>0, <2>1 DEF CleanupTransaction, TakingOverPc, SuccessorPc
  <2>2. CASE ~FreshTakeover(post[w].ep, post[w].dead)
    <3>1. op' = op /\ PostReturn(w) /\ minted' = minted \ {post[w].new}
      BY <1>9, <2>2 DEF CleanupTransaction, CleanupAbandonedCompaction
    <3> QED
      BY <1>0, <1>b, <1>d, <2>0, <3>1 DEF GateShrinks, PostReturn, TakingOverPc,
         SuccessorPc
  <2> QED BY <2>1, <2>2
<1>10. CASE CleanupInsert(w)
  <2>0. post[w].pc = "insert" /\ UNCHANGED <<run, queued>>
    BY <1>10 DEF CleanupInsert, PostAt, memoryVars
  <2>1. CASE ActiveOps(post[w].ep) = {}
    BY <1>2, <1>10, <2>0, <2>1 DEF CleanupInsert, TakingOverPc, SuccessorPc
  <2>2. CASE ActiveOps(post[w].ep) # {}
    <3>1. op' = op /\ PostReturn(w) /\ minted' = minted \ {post[w].new}
      BY <1>10, <2>2 DEF CleanupInsert, InsertRunning
    <3> QED
      BY <1>0, <1>b, <1>d, <2>0, <3>1 DEF GateShrinks, PostReturn, TakingOverPc,
         SuccessorPc
  <2> QED BY <2>1, <2>2
<1>11. CASE CleanupAbandon(w)
  <2>0. post[w].pc = "abandon" /\ UNCHANGED <<run, queued>>
    BY <1>11 DEF CleanupAbandon, PostAt, memoryVars
  <2>1. PICK n : /\ post' = [post EXCEPT ![w] = [@ EXCEPT !.pc = "deleteSegments", !.new = n]]
                 /\ \/ n = post[w].new /\ minted' = minted
                    \/ n = None /\ minted' = minted \ {post[w].new}
    BY <1>11 DEF CleanupAbandon
  <2>2. /\ \A v \in Worker \ {w} : post'[v] = post[v]
        /\ post'[w].pc = "deleteSegments" /\ post'[w].new = n
        /\ post'[w].dead = post[w].dead
    BY <1>0, <2>1 DEF PostRow
  <2>3. /\ post[w].new \in Op /\ op[post[w].new].status = "absent"
        /\ \A o \in Op : op'[o].status = "absent" <=> op[o].status = "absent"
    BY <1>0, <1>a, <1>b, <1>c, <2>0 DEF PostRow, TakingOverPc, SuccessorPc,
       CleanupTransaction, CleanupInsert, PostAt
  <2> QED BY <2>0, <2>1, <2>2, <2>3 DEF GateShrinks, TakingOverPc, SuccessorPc
<1>12. CASE CleanupSegments(w) \/ CleanupSummaries(w) \/ CleanupTurns(w)
  <2>1. /\ UNCHANGED <<run, queued, minted>>
        /\ post[w].pc \in {"deleteSegments", "deleteSummaries", "uncompact"}
        /\ \/ PostReturn(w) \/ PostTo(w, "deleteSummaries") \/ PostTo(w, "uncompact")
           \/ PostTo(w, "insert") /\ post[w].new # None
    BY <1>12 DEF CleanupSegments, CleanupSummaries, CleanupTurns, PostAt, memoryVars
  <2> QED
    BY <1>1, <1>2, <2>1 DEF CleanupTransaction, CleanupInsert, PostAt, TakingOverPc,
       SuccessorPc
<1>13. CASE SubmitRefused(w)
  BY <1>1, <1>13 DEF SubmitRefused, CleanupTransaction, CleanupInsert, PostAt
<1> QED
  BY <1>3, <1>4, <1>5, <1>6, <1>7, <1>8, <1>9, <1>10, <1>11, <1>12, <1>13 DEF GateStep

\* Minting the successor of a takeover, and handing it to the pool.
LEMMA GateKeepsIds ==
  ASSUME LedgerInv, NEW w \in Worker, GateStep(w)
  PROVE  IdInv'
<1> USE DEF LedgerInv, IdInv
<1>0. /\ post \in [Worker -> PostRow] /\ post[w] \in PostRow
      /\ queued \in [Worker -> Op \cup {None}]
      /\ None \notin Op
  BY StoreAssumption DEF TypeInv, ControlInv, ControlTypeOK
<1>1. CASE ~TakeoverPredicate(w) /\ ~SubmitTakeover(w)
  BY <1>1, GateStepShrinks, GateShrinksIds
<1>2. CASE TakeoverPredicate(w) /\ GateShrinks(w)
  BY <1>2, GateShrinksIds
<1>3. CASE TakeoverPredicate(w) /\ ~GateShrinks(w)
  <2>0. /\ post[w].pc = "predicate" /\ UNCHANGED <<op, run, queued>>
    BY <1>3 DEF TakeoverPredicate, PostAt, memoryVars, storeVars
  <2>1. CASE activeOp[w] = post[w].dead \/ post[w].dead = None
    <3>1. PostReturn(w) /\ UNCHANGED minted
      BY <1>3, <2>1 DEF TakeoverPredicate
    <3>2. GateShrinks(w)
      BY <1>0, <2>0, <3>1 DEF GateShrinks, PostReturn, NoPost, TakingOverPc, SuccessorPc
    <3> QED BY <1>3, <3>2
  <2>2. CASE ~(activeOp[w] = post[w].dead \/ post[w].dead = None)
    <3>1. PICK o \in Op \ minted, pc \in {"cleanup", "abandon"} :
            /\ minted' = minted \cup {o}
            /\ post' = [post EXCEPT ![w] = [@ EXCEPT !.new = o, !.pc = pc]]
      BY <1>3, <2>2 DEF TakeoverPredicate
    <3>2. /\ \A v \in Worker \ {w} : post'[v] = post[v]
          /\ post'[w].pc = pc /\ post'[w].new = o /\ post'[w].dead # None
      BY <1>0, <2>2, <3>1 DEF PostRow
    <3>3. /\ op[o].status = "absent" /\ o # None
          /\ \A q \in Proc : run[q].op # o
          /\ \A v \in Worker : post[v].new # o /\ queued[v] # o
      BY <1>0, <3>1 DEF IdsMinted
    <3>4. IdsMinted'
      BY <2>0, <3>1, <3>2 DEF IdsMinted
    <3>5. IdsDistinct'
      BY <2>0, <3>2, <3>3 DEF IdsDistinct
    <3>6. IdsFresh'
      BY <2>0, <3>2, <3>3 DEF IdsFresh
    <3>7. DeadKnown'
      BY <3>2, <3>3 DEF DeadKnown
    <3> QED BY <3>4, <3>5, <3>6, <3>7
  <2> QED BY <2>1, <2>2
<1>4. CASE SubmitTakeover(w)
  <2>1. /\ queued[w] = None /\ UNCHANGED <<op, run, minted>>
        /\ \A v \in Worker \ {w} : post'[v] = post[v] /\ queued'[v] = queued[v]
        /\ queued'[w] = post[w].new
        /\ post'[w].pc = "idle" /\ post'[w].new = None
    BY <1>0, <1>4 DEF SubmitTakeover, PostReturn, NoPost, storeVars
  <2>2. IdsMinted'
    BY <2>1 DEF IdsMinted
  <2>3. IdsDistinct'
    BY <2>1 DEF IdsDistinct
  <2>4. IdsFresh'
    BY <2>1 DEF IdsFresh, TakingOverPc
  <2>5. DeadKnown'
    BY <2>1 DEF DeadKnown, TakingOverPc, SuccessorPc
  <2> QED BY <2>2, <2>3, <2>4, <2>5
<1> QED BY <1>1, <1>2, <1>3, <1>4

-----------------------------------------------------------------------------
(* Steps of the environment.                                                 *)

\* A crash gives back the ids that have no row.
LEMMA CrashKeepsIds ==
  ASSUME LedgerInv, NEW w \in Worker, Crash(w)
  PROVE  IdInv'
<1> USE DEF LedgerInv, IdInv
<1> DEFINE HeldIds == {post[w].new} \cup {run[<<w, t>>].op : t \in Thread}
<1>0. /\ post \in [Worker -> PostRow] /\ run \in [Proc -> RunRow]
      /\ queued \in [Worker -> Op \cup {None}]
      /\ None \notin Op
  BY StoreAssumption DEF TypeInv, ControlInv, ControlTypeOK
<1>1. /\ UNCHANGED op
      /\ \A q \in Proc : run'[q] = IF q[1] = w THEN NoRun ELSE run[q]
      /\ \A v \in Worker : /\ post'[v] = IF v = w THEN NoPost ELSE post[v]
                           /\ queued'[v] = IF v = w THEN None ELSE queued[v]
  BY <1>0 DEF Crash, storeVars
<1>2. /\ NoRun.op = None /\ NoRun.pc = "idle" /\ NoPost.pc = "idle" /\ NoPost.new = None
  BY DEF NoRun, NoPost
<1>3. \A x \in minted : x \in minted' \/ (x \in HeldIds /\ op[x].status = "absent")
  BY DEF Crash, Unused
<1>4. \A x \in HeldIds : x # None =>
        /\ \A q \in Proc : q[1] # w => run[q].op # x
        /\ \A v \in Worker \ {w} : post[v].new # x /\ queued[v] # x
  <2> SUFFICES ASSUME NEW x \in HeldIds, x # None
               PROVE  /\ \A q \in Proc : q[1] # w => run[q].op # x
                      /\ \A v \in Worker \ {w} : post[v].new # x /\ queued[v] # x
    OBVIOUS
  <2>1. CASE x = post[w].new
    BY <2>1 DEF IdsDistinct
  <2>2. CASE x # post[w].new
    <3>1. PICK t \in Thread : x = run[<<w, t>>].op
      BY <2>2
    <3>2. <<w, t>> \in Proc /\ <<w, t>>[1] = w
      BY DEF Proc
    <3> QED BY <3>1, <3>2 DEF IdsDistinct
  <2> QED BY <2>1, <2>2
<1>5. IdsMinted'
  <2>1. \A o \in Op : op'[o].status # "absent" => o \in minted'
    BY <1>1, <1>3 DEF IdsMinted
  <2> HIDE DEF HeldIds
  <2>2. ASSUME NEW q \in Proc
        PROVE  run'[q].op \in minted' \cup {None}
    <3>1. CASE q[1] = w
      BY <1>1, <1>2, <3>1
    <3>2. CASE q[1] # w
      <4>1. run'[q].op = run[q].op /\ run[q].op \in minted \cup {None}
        BY <1>1, <3>2 DEF IdsMinted
      <4>2. run[q].op # None => run[q].op \notin HeldIds
        BY <1>4, <3>2
      <4> QED BY <1>3, <4>1, <4>2
    <3> QED BY <3>1, <3>2
  <2>3. ASSUME NEW v \in Worker, v # w
        PROVE  post[v].new \in minted' \cup {None} /\ queued[v] \in minted' \cup {None}
    <3>1. /\ post[v].new \in minted \cup {None}
          /\ queued[v] \in minted \cup {None}
      BY DEF IdsMinted
    <3>2. /\ post[v].new # None => post[v].new \notin HeldIds
          /\ queued[v] # None => queued[v] \notin HeldIds
      BY <1>4, <2>3
    <3> QED BY <1>3, <3>1, <3>2
  <2>4. \A v \in Worker : {post'[v].new, queued'[v]} \subseteq minted' \cup {None}
    BY <1>1, <1>2, <2>3
  <2> QED BY <2>1, <2>2, <2>4 DEF IdsMinted
<1>6. IdsDistinct'
  BY <1>1, <1>2 DEF IdsDistinct
<1>7. IdsFresh'
  BY <1>1, <1>2 DEF IdsFresh, BeforeInsertPc, TakingOverPc
<1>8. DeadKnown'
  BY <1>1, <1>2 DEF DeadKnown, TakingOverPc, SuccessorPc
<1> QED BY <1>5, <1>6, <1>7, <1>8

\* The environment opens no row and takes no id.
LEMMA EnvStepLedger ==
  ASSUME LedgerInv, EnvStep
  PROVE  /\ Ledger!Next /\ Ledger!OneActive(op') /\ IdInv'
         /\ \A o \in Op : op'[o].status = "absent" <=> op[o].status = "absent"
<1>0. StoreInv
  BY DEF LedgerInv, TypeInv
<1>1. RowsEvolve
  <2>1. CASE UNCHANGED op
    BY <2>1 DEF RowsEvolve
  <2>2. CASE \E o \in Op : OpHeartbeatLapses(o)
    BY <1>0, <2>2, RenewEvolves
  <2>3. CASE CancelOps(Epoch)
    BY <1>0, <2>3, CloseEvolves
  <2> QED
    BY <2>1, <2>2, <2>3
       DEF EnvStep, StartWorker, Crash, IngestionWork, Lapse, RowArrives, Admin,
           DeletePhase, DeleteEpisodes, DeleteOps, MarkDeleted, AbandonEpisodes,
           ArriveRow, MarkCanonicalRowTagged, SetPhase, UpsertIngestionEpisode,
           CompleteIngestionEpisode, storeVars
<1>2. /\ Ledger!Next /\ Ledger!OneActive(op')
      /\ \A o \in Op : op'[o].status = "absent" <=> op[o].status = "absent"
  BY <1>1, RowsEvolveStep DEF LedgerInv
<1>3. CASE \E w \in Worker : Crash(w)
  BY <1>2, <1>3, CrashKeepsIds
<1>4. CASE UNCHANGED <<run, post, queued, minted>>
  <2>1. HoldersStay
    BY <1>4 DEF HoldersStay, LedgerInv, IdInv, IdsFresh
  <2> QED BY <1>2, <2>1, HoldersStayIds
<1> QED
  BY <1>2, <1>3, <1>4
     DEF EnvStep, StartWorker, IngestionWork, Lapse, RowArrives, Admin,
         DeletePhase, DeleteEpisodes, DeleteOps, memoryVars, controlVars

-----------------------------------------------------------------------------
(* The refinement.                                                           *)

\* In the initial state there is no row and no id.
LEMMA InitLedgerInv == Init => LedgerInv /\ Ledger!Init
<1> SUFFICES ASSUME Init PROVE LedgerInv /\ Ledger!Init
  OBVIOUS
<1>1. \A o \in Op : op[o].status = "absent"
  BY DEF Init, StoreInit, NoOp
<1>2. /\ \A p \in Proc : run[p].pc = "idle" /\ run[p].op = None
      /\ \A w \in Worker : /\ post[w].pc = "idle" /\ post[w].new = None
                           /\ queued[w] = None
  BY DEF Init, NoRun, NoPost
<1>3. IdInv
  BY <1>1, <1>2 DEF IdInv, IdsMinted, IdsDistinct, IdsFresh, DeadKnown, BeforeInsertPc,
     TakingOverPc, SuccessorPc
<1>4. Ledger!OneActive(op)
  BY <1>1 DEF Ledger!OneActive, Ledger!IsActive, Ledger!Active
<1> QED BY <1>1, <1>3, <1>4, InitTypeInv DEF LedgerInv, Ledger!Init

\* Every step keeps the invariant and is a step of the ledger or a stutter.
LEMMA NextLedger ==
  LedgerInv /\ [Next]_takeoverVars => LedgerInv' /\ [Ledger!Next]_op
<1> SUFFICES ASSUME LedgerInv, [Next]_takeoverVars
             PROVE  LedgerInv' /\ [Ledger!Next]_op
  OBVIOUS
<1>0. TypeInv'
  BY NextTypeInv DEF LedgerInv
<1>1. ASSUME NEW p \in Proc, RunStep(p)
      PROVE  LedgerInv' /\ Ledger!Next
  BY <1>0, <1>1, RunStepRows, RunKeepsIds DEF LedgerInv
<1>2. ASSUME NEW w \in Worker, GateStep(w)
      PROVE  LedgerInv' /\ Ledger!Next
  BY <1>0, <1>2, GateStepRows, GateKeepsIds DEF LedgerInv
<1>3. CASE EnvStep
  BY <1>0, <1>3, EnvStepLedger DEF LedgerInv
<1>4. CASE UNCHANGED takeoverVars
  <2>1. HoldersStay /\ UNCHANGED op
    BY <1>4 DEF HoldersStay, LedgerInv, IdInv, IdsFresh, takeoverVars, memoryVars,
       controlVars, storeVars
  <2>2. IdInv'
    BY <2>1, HoldersStayIds
  <2> QED BY <1>0, <2>1, <2>2 DEF LedgerInv
<1> QED BY <1>1, <1>2, <1>3, <1>4, NextSplits

\* The statements that the workers run on compaction_operation, in any
\* interleaving, with crashes anywhere and on both backends, keep what the
\* table promises: one active row per epoch, rows that only move forward, and
\* leases that are taken only when they have lapsed.
THEOREM LedgerImplemented == Spec => LedgerSpec
<1>1. Init => LedgerInv /\ Ledger!Init
  BY InitLedgerInv
<1>2. LedgerInv /\ [Next]_takeoverVars => LedgerInv' /\ [Ledger!Next]_op
  BY NextLedger
<1> QED
  BY <1>1, <1>2, PTL DEF Spec, LedgerSpec, Ledger!Spec

-----------------------------------------------------------------------------
(****************************************************************************)
(* A turn is compacted once per lifecycle epoch, on SQLite, for every       *)
(* number of workers, operations and turns and whatever crashes.            *)
(*                                                                          *)
(* A run reads its batch long before it marks it, so what must hold is about *)
(* the batch: as long as the run's operation is active, no other operation  *)
(* of the epoch has marked a turn of it.  That needs the ledger (one active  *)
(* operation per epoch, rows that do not come back) and the ids (a run whose *)
(* operation got no row never gets one).                                    *)
(****************************************************************************)

\* From the read of the batch to its mark.
BatchPc == {"advance", "segment", "fact", "mark"}

BatchUnmarked ==
  \A p \in Proc : run[p].pc \in BatchPc /\ op[run[p].op].status \in Active =>
    \A r \in run[p].batch :
      compactedBy[r] # None => op[compactedBy[r]].ep # op[run[p].op].ep

MarksHaveRows ==
  \A r \in Row : compactedBy[r] # None => op[compactedBy[r]].status # "absent"

MarkInv == LedgerInv /\ BatchUnmarked /\ MarksHaveRows

\* The step that NeverRecompacted allows.
NoRemark ==
  \A r \in Row : compactedBy[r] # None /\ compactedBy'[r] # compactedBy[r] =>
    \/ compactedBy'[r] = None
    \/ op[compactedBy[r]].ep # op[compactedBy'[r]].ep

\* A run that holds a batch after a step held it before or has just read it,
\* and its operation did not get a row in between.
BatchesStay ==
  \A p \in Proc : run'[p].pc \in BatchPc =>
    /\ run[p].pc \in BatchPc \cup {"load"}
    /\ run'[p].op = run[p].op
    /\ \/ run[p].pc \in BatchPc /\ run'[p].batch = run[p].batch
       \/ run'[p].batch \subseteq Uncompacted
    /\ op[run[p].op].status = "absent" => op'[run[p].op].status = "absent"

MarksOnlyCleared == \A r \in Row : compactedBy'[r] \in {compactedBy[r], None}

\* Rows that exist keep their epoch and do not become active again.
LEMMA RowsKept ==
  ASSUME [Ledger!Next]_op, NEW o \in Op, op[o].status # "absent"
  PROVE  /\ op'[o].status # "absent" /\ op'[o].ep = op[o].ep
         /\ op'[o].status \in Active => op[o].status \in Active
BY DEF Ledger!Next, Ledger!Opens, Ledger!Continues, Ledger!Closes, Ledger!IsActive,
       Ledger!Active, Ledger!Closed, Active

\* A run that holds a batch has an operation id, and marks carry ids.
LEMMA MarkTypes ==
  ASSUME TypeInv
  PROVE  /\ \A p \in Proc : run[p].pc \in BatchPc \cup {"load"} => run[p].op \in Op
         /\ \A p \in Proc : run[p].batch \subseteq Row
         /\ \A r \in Row : compactedBy[r] # None => compactedBy[r] \in Op
BY DEF TypeInv, StoreInv, StoreTypeOK, ControlInv, ControlTypeOK, RunsHaveIds, RunRow,
       BatchPc

\* Every step but a mark.
LEMMA ClearingStep ==
  ASSUME MarkInv, TypeInv', [Ledger!Next]_op, BatchesStay, MarksOnlyCleared
  PROVE  BatchUnmarked' /\ MarksHaveRows' /\ NoRemark
<1>0. TypeInv
  BY DEF MarkInv, LedgerInv
<1>1. NoRemark
  BY DEF MarksOnlyCleared, NoRemark
<1>2. MarksHaveRows'
  BY <1>0, RowsKept, MarkTypes DEF MarksOnlyCleared, MarksHaveRows, MarkInv
<1>3. BatchUnmarked'
  <2> SUFFICES ASSUME NEW p \in Proc, run'[p].pc \in BatchPc,
                      op'[run'[p].op].status \in Active,
                      NEW r \in run'[p].batch, compactedBy'[r] # None
               PROVE  op'[compactedBy'[r]].ep # op'[run'[p].op].ep
    BY DEF BatchUnmarked
  <2>1. /\ run'[p].op = run[p].op /\ run[p].op \in Op /\ r \in Row
        /\ op[run[p].op].status # "absent"
    BY <1>0, MarkTypes DEF BatchesStay, Active, Uncompacted
  <2>2. /\ op[run[p].op].status \in Active
        /\ op'[run[p].op].ep = op[run[p].op].ep
    BY <2>1, RowsKept
  <2>3. compactedBy'[r] = compactedBy[r] /\ compactedBy[r] \in Op
    BY <1>0, <2>1, MarkTypes DEF MarksOnlyCleared
  <2>4. op'[compactedBy[r]].ep = op[compactedBy[r]].ep
    BY <2>1, <2>3, RowsKept DEF MarkInv, MarksHaveRows
  <2>5. run[p].pc \in BatchPc /\ r \in run[p].batch
    BY <2>3 DEF BatchesStay, Uncompacted
  <2> QED BY <2>1, <2>2, <2>3, <2>4, <2>5 DEF MarkInv, BatchUnmarked
<1> QED BY <1>1, <1>2, <1>3

\* The mark of a run whose operation is running: any other active operation
\* belongs to another epoch.
LEMMA MarkStep ==
  ASSUME Backend = "sqlite", MarkInv, NEW p \in Proc, MarkCompacted(p)
  PROVE  BatchUnmarked' /\ MarksHaveRows' /\ NoRemark
<1> DEFINE o == run[p].op
<1>0. TypeInv /\ Ledger!OneActive(op) /\ IdsDistinct
  BY DEF MarkInv, LedgerInv, IdInv
<1>1. run[p].pc = "mark" /\ o \in Op /\ op' = op
  BY <1>0, MarkTypes DEF MarkCompacted, WriteAt, RunAt, MarkCanonicalTurnsCompacted,
     BatchPc
<1>2. \A r \in Row : \/ compactedBy'[r] = compactedBy[r]
                     \/ /\ r \in run[p].batch /\ compactedBy'[r] = o
                        /\ op[o].status = "running"
  BY DEF MarkCompacted, MarkCanonicalTurnsCompacted, Held, Holds, MayWrite
<1>3. \A q \in Proc : run'[q].pc \in BatchPc => q # p /\ run'[q] = run[q]
  <2>1. run'[p].pc \in {"summary", "fail"} /\ \A q \in Proc \ {p} : run'[q] = run[q]
    BY <1>0 DEF MarkCompacted, WriteAt, TypeInv, ControlInv, ControlTypeOK, RunRow
  <2> QED BY <2>1 DEF BatchPc
<1>4. MarksHaveRows'
  BY <1>1, <1>2 DEF MarkInv, MarksHaveRows
<1>5. NoRemark
  BY <1>1, <1>2 DEF MarkInv, BatchUnmarked, NoRemark, BatchPc, Active
<1>6. BatchUnmarked'
  <2> SUFFICES ASSUME NEW q \in Proc, run'[q].pc \in BatchPc,
                      op[run[q].op].status \in Active,
                      NEW r \in run[q].batch, compactedBy'[r] # None
               PROVE  op[compactedBy'[r]].ep # op[run[q].op].ep
    BY <1>1, <1>3 DEF BatchUnmarked
  <2>1. run[q].op \in Op /\ r \in Row /\ run[q].pc \in BatchPc /\ q # p
    BY <1>0, <1>3, MarkTypes
  <2>2. CASE compactedBy'[r] = compactedBy[r]
    BY <2>1, <2>2 DEF MarkInv, BatchUnmarked
  <2>3. CASE compactedBy'[r] = o /\ op[o].status = "running"
    <3>1. run[q].op # o
      BY <1>0, <1>1, <2>1, StoreAssumption DEF IdsDistinct
    <3> QED
      BY <1>0, <1>1, <2>1, <2>3, <3>1
         DEF Ledger!OneActive, Ledger!IsActive, Ledger!Active, Active
  <2> QED BY <1>2, <2>1, <2>2, <2>3
<1> QED BY <1>4, <1>5, <1>6

-----------------------------------------------------------------------------
(* Which steps those are.                                                    *)

\* What a step of a run does to batches, apart from the rows it opens.
BatchKept(q) ==
  run'[q].pc \in BatchPc =>
    /\ run[q].pc \in BatchPc \cup {"load"} /\ run'[q].op = run[q].op
    /\ \/ run[q].pc \in BatchPc /\ run'[q].batch = run[q].batch
       \/ run'[q].batch \subseteq Uncompacted

\* A step of a run reads its batch, keeps it, or drops it.
LEMMA RunKeepsBatch ==
  ASSUME TypeInv, NEW p \in Proc, RunStep(p)
  PROVE  \A q \in Proc : BatchKept(q)
<1>0. run[p] \in RunRow /\ run \in [Proc -> RunRow]
  BY DEF TypeInv, ControlInv, ControlTypeOK
<1>a. ASSUME NEW x, run' = [run EXCEPT ![p] = x]
      PROVE  run'[p] = x /\ \A q \in Proc \ {p} : BatchKept(q)
  <2>1. run'[p] = x /\ \A q \in Proc \ {p} : run'[q] = run[q]
    BY <1>0, <1>a
  <2> QED BY <2>1 DEF BatchKept
<1>b. ASSUME NEW x, run' = [run EXCEPT ![p] = x], x.pc \notin BatchPc
      PROVE  \A q \in Proc : BatchKept(q)
  BY <1>a, <1>b DEF BatchKept
<1>c. ASSUME NEW x, run' = [run EXCEPT ![p] = x], run[p].pc \in BatchPc,
             x.op = run[p].op, x.batch = run[p].batch
      PROVE  \A q \in Proc : BatchKept(q)
  BY <1>a, <1>c DEF BatchKept
<1>d. ASSUME NEW pc, RunTo(p, pc), pc \notin BatchPc \/ run[p].pc \in BatchPc
      PROVE  \A q \in Proc : BatchKept(q)
  <2> DEFINE x == [run[p] EXCEPT !.pc = pc]
  <2>1. x.pc = pc /\ x.op = run[p].op /\ x.batch = run[p].batch
    BY <1>0 DEF RunRow
  <2> QED BY <1>b, <1>c, <1>d, <2>1 DEF RunTo
<1>1. CASE LoadRows(p)
  <2>1. PICK R \in SUBSET Uncompacted :
          run' = [run EXCEPT ![p] =
                    [@ EXCEPT !.pc = IF R = {} THEN "complete" ELSE "advance",
                              !.batch = R]]
    BY <1>1 DEF LoadRows
  <2> DEFINE x == [run[p] EXCEPT !.pc = IF R = {} THEN "complete" ELSE "advance",
                                 !.batch = R]
  <2>2. x.op = run[p].op /\ x.batch = R
    BY <1>0 DEF RunRow
  <2>3. run[p].pc = "load"
    BY <1>1 DEF LoadRows, RunAt
  <2> HIDE DEF x
  <2>4. run' = [run EXCEPT ![p] = x]
    BY <2>1 DEF x
  <2>5. BatchKept(p)
    BY <1>a, <2>2, <2>3, <2>4 DEF BatchKept
  <2> QED BY <1>a, <2>4, <2>5
<1>2. CASE Progress(p)
  BY <1>2, <1>d DEF Progress, BatchPc
<1>3. CASE CheckGuard(p)
  <2>1. CASE Holds(p)
    <3> DEFINE x == [run[p] EXCEPT !.held = TRUE]
    <3>1. x.pc = run[p].pc /\ x.op = run[p].op /\ x.batch = run[p].batch
      BY <1>0 DEF RunRow
    <3>2. run' = [run EXCEPT ![p] = x]
      BY <1>3, <2>1 DEF CheckGuard
    <3> QED BY <1>b, <1>c, <3>1, <3>2
  <2>2. CASE ~Holds(p)
    BY <1>3, <1>d, <2>2 DEF CheckGuard, RunTo, BatchPc
  <2> QED BY <2>1, <2>2
<1>4. ASSUME NEW pc, NEW next, WriteAt(p, pc, next),
             pc \in BatchPc \/ next \notin BatchPc
      PROVE  \A q \in Proc : BatchKept(q)
  <2> DEFINE x == [run[p] EXCEPT !.pc = IF Held(p) THEN next ELSE "fail", !.held = FALSE]
  <2>1. /\ x.pc = IF Held(p) THEN next ELSE "fail"
        /\ x.op = run[p].op /\ x.batch = run[p].batch
    BY <1>0 DEF RunRow
  <2>2. run' = [run EXCEPT ![p] = x] /\ run[p].pc = pc
    BY <1>4 DEF WriteAt, RunAt
  <2>3. x.pc \in {next, "fail"}
    BY <2>1
  <2> QED BY <1>4, <1>b, <1>c, <2>1, <2>2, <2>3 DEF BatchPc
<1>5. CASE WriteSegment(p) \/ WriteFacts(p) \/ MarkCompacted(p) \/ WriteSummary(p)
  BY <1>4, <1>5 DEF WriteSegment, WriteFacts, MarkCompacted, WriteSummary, BatchPc
<1>6. CASE UNCHANGED run
  BY <1>6 DEF BatchKept
<1>7. CASE FinalizeIngestion(p) \/ InsertOperation(p) \/ Drain(p) \/ ReleaseLock(p)
  BY <1>7, <1>d DEF FinalizeIngestion, InsertOperation, Drain, ReleaseLock, BatchPc
<1>8. CASE ExitCompaction(p)
  <2>1. CASE ~run[p].entered
    BY <1>8, <1>d, <2>1 DEF ExitCompaction, BatchPc
  <2>2. CASE run[p].entered
    <3> DEFINE x == [run[p] EXCEPT !.pc = "drain", !.ep = wepoch[p[1]]]
    <3>1. x.pc = "drain"
      BY <1>0 DEF RunRow
    <3> QED BY <1>8, <1>b, <2>2, <3>1 DEF ExitCompaction, BatchPc
  <2> QED BY <2>1, <2>2
<1>9. CASE AcquireLock(p)
  <2>1. CASE lock[p[1]] # None
    BY <1>9, <1>d, <2>1 DEF AcquireLock, BatchPc
  <2>2. CASE lock[p[1]] = None
    <3> DEFINE x == [run[p] EXCEPT !.pc = IF run[p].pre THEN "load" ELSE "enter",
                                   !.entered = run[p].pre, !.ep = wepoch[p[1]]]
    <3>1. x.pc \in {"load", "enter"}
      BY <1>0 DEF RunRow
    <3>2. run' = [run EXCEPT ![p] = x]
      BY <1>9, <2>2 DEF AcquireLock
    <3> QED BY <1>b, <3>1, <3>2 DEF BatchPc
  <2> QED BY <2>1, <2>2
<1>10. CASE EnterCompaction(p)
  <2> DEFINE x == [run[p] EXCEPT !.pc = IF wepoch[p[1]] = epoch THEN "insert" ELSE "probe",
                                 !.ep = wepoch[p[1]]]
  <2>1. x.pc \in {"insert", "probe"}
    BY <1>0 DEF RunRow
  <2>2. run' = [run EXCEPT ![p] = x]
    BY <1>10 DEF EnterCompaction
  <2> QED BY <1>b, <2>1, <2>2 DEF BatchPc
<1>11. CASE ProbeLifecycle(p)
  <2> DEFINE x == [run[p] EXCEPT !.pc = "load", !.entered = ActiveOps(epoch) # {},
                                 !.ep = wepoch[p[1]]]
  <2>1. x.pc = "load"
    BY <1>0 DEF RunRow
  <2> QED BY <1>11, <1>b, <2>1 DEF ProbeLifecycle, BatchPc
<1>12. CASE PipelineError(p)
  <2> DEFINE x == [run[p] EXCEPT !.pc = "fail", !.held = FALSE]
  <2>1. x.pc = "fail"
    BY <1>0 DEF RunRow
  <2> QED BY <1>12, <1>b, <2>1 DEF PipelineError, BatchPc
<1>13. CASE BeginRun(p) \/ BeginTakeoverRun(p) \/ ClearActiveOp(p)
  <2>1. CASE BeginRun(p)
    <3>1. PICK o : run' = [run EXCEPT ![p] = [NoRun EXCEPT !.pc = "lock", !.op = o]]
      BY <2>1 DEF BeginRun
    <3> DEFINE x == [NoRun EXCEPT !.pc = "lock", !.op = o]
    <3>2. x.pc = "lock"
      BY DEF NoRun
    <3> QED BY <1>b, <3>1, <3>2 DEF BatchPc
  <2>2. CASE BeginTakeoverRun(p)
    <3> DEFINE x == [NoRun EXCEPT !.pc = "lock", !.op = queued[p[1]], !.pre = TRUE]
    <3>1. x.pc = "lock"
      BY DEF NoRun
    <3>2. run' = [run EXCEPT ![p] = x]
      BY <2>2 DEF BeginTakeoverRun
    <3> QED BY <1>b, <3>1, <3>2 DEF BatchPc
  <2>3. CASE ClearActiveOp(p)
    BY <1>b, <2>3 DEF ClearActiveOp, NoRun, BatchPc
  <2> QED BY <1>13, <2>1, <2>2, <2>3
<1> QED
  BY <1>1, <1>2, <1>3, <1>5, <1>6, <1>7, <1>8, <1>9, <1>10, <1>11, <1>12, <1>13
     DEF RunStep, ProgressAfterSummary, Heartbeat, controlVars

\* A run keeps its batch while it works; it opens a row only before it has one.
LEMMA RunKeepsBatches ==
  ASSUME MarkInv, NEW p \in Proc, RunStep(p)
  PROVE  BatchesStay
<1>0. TypeInv /\ IdsDistinct
  BY DEF MarkInv, LedgerInv, IdInv
<1>1. \A q \in Proc : run[q].pc \in BatchPc \cup {"load"} => run[q].op \in Op
  BY <1>0, MarkTypes
<1>2. ASSUME NEW q \in Proc, run[q].pc \in BatchPc \cup {"load"}
      PROVE  op[run[q].op].status = "absent" => op'[run[q].op].status = "absent"
  <2>1. ~(run[p].pc = "insert" /\ run[q].op = run[p].op)
    BY <1>0, <1>1, <1>2, StoreAssumption DEF IdsDistinct, BatchPc
  <2> QED BY <1>1, <1>2, <2>1, RunStepRows DEF MarkInv
<1> QED BY <1>0, <1>2, RunKeepsBatch DEF BatchesStay, BatchKept

\* A request opens rows under ids that no run holds, and only clears marks.
LEMMA GateKeepsBatches ==
  ASSUME MarkInv, NEW w \in Worker, GateStep(w)
  PROVE  BatchesStay /\ MarksOnlyCleared
<1>0. TypeInv /\ IdsDistinct
  BY DEF MarkInv, LedgerInv, IdInv
<1>1. UNCHANGED run
  BY DEF GateStep, PostBegin, PhaseGate, ResurrectConversation, AbandonOldEpisodes,
         CancelOldOps, ReadSnapshot, RepairOrphanPhase, ClaimTransaction, ClaimSelect,
         ClaimUpdate, TakeoverPredicate, CleanupTransaction, CleanupAbandon,
         CleanupSegments, CleanupSummaries, CleanupTurns, CleanupInsert,
         SubmitTakeover, SubmitRefused
<1>2. ASSUME NEW q \in Proc, run[q].pc \in BatchPc
      PROVE  op[run[q].op].status = "absent" => op'[run[q].op].status = "absent"
  <2>1. run[q].op \in Op
    BY <1>0, <1>2, MarkTypes
  <2>2. run[q].op # post[w].new
    BY <1>0, <2>1, StoreAssumption DEF IdsDistinct
  <2> QED BY <2>1, <2>2, GateStepRows DEF MarkInv
<1>3. BatchesStay
  BY <1>1, <1>2 DEF BatchesStay
<1>4. MarksOnlyCleared
  <2>1. \/ UNCHANGED compactedBy
        \/ Uncompact(post[w].dead)
        \/ CleanupAbandonedCompaction(w, post[w].ep, post[w].dead, post[w].new)
    BY DEF GateStep, PostBegin, PhaseGate, ResurrectConversation, AbandonOldEpisodes,
           CancelOldOps, ReadSnapshot, RepairOrphanPhase, ClaimTransaction,
           ClaimSelect, ClaimUpdate, TakeoverPredicate, CleanupTransaction,
           CleanupAbandon, CleanupSegments, CleanupSummaries, CleanupTurns,
           CleanupInsert, SubmitTakeover, SubmitRefused, Resurrect, BumpEpoch,
           AbandonEpisodes, CancelOps, SetPhase, ClaimCompactionLease, AbandonOp,
           DeleteSegments, DeleteSummaries, InsertRunning, storeVars, artifactVars
  <2> QED BY <2>1 DEF Uncompact, CleanupAbandonedCompaction, MarksOnlyCleared
<1> QED BY <1>3, <1>4

\* The environment opens no row, drops batches only with their worker, and
\* touches no mark.
LEMMA EnvKeepsBatches ==
  ASSUME MarkInv, EnvStep
  PROVE  BatchesStay /\ MarksOnlyCleared
<1>0. TypeInv
  BY DEF MarkInv, LedgerInv
<1>1. ASSUME NEW q \in Proc, run[q].pc \in BatchPc
      PROVE  op[run[q].op].status = "absent" => op'[run[q].op].status = "absent"
  BY <1>0, <1>1, MarkTypes, EnvStepLedger DEF MarkInv
<1>2. \A q \in Proc : run'[q] = run[q] \/ run'[q].pc = "idle"
  <2>1. CASE UNCHANGED run
    BY <2>1
  <2>2. ASSUME NEW w \in Worker, Crash(w)
        PROVE  \A q \in Proc : run'[q] = run[q] \/ run'[q].pc = "idle"
    BY <2>2 DEF Crash, NoRun
  <2> QED
    BY <2>1, <2>2 DEF EnvStep, StartWorker, IngestionWork, Lapse, RowArrives, Admin,
       DeletePhase, DeleteEpisodes, DeleteOps, controlVars
<1>3. BatchesStay
  BY <1>1, <1>2 DEF BatchesStay, BatchPc
<1>4. UNCHANGED compactedBy
  BY DEF EnvStep, StartWorker, Crash, IngestionWork, Lapse, RowArrives, Admin,
         DeletePhase, DeleteEpisodes, DeleteOps, MarkDeleted, AbandonEpisodes,
         CancelOps, OpHeartbeatLapses, ArriveRow, MarkCanonicalRowTagged, SetPhase,
         UpsertIngestionEpisode, CompleteIngestionEpisode, storeVars, artifactVars
<1> QED BY <1>3, <1>4 DEF MarksOnlyCleared

\* Only the mark of a run sets marks.
LEMMA RunMarks ==
  ASSUME NEW p \in Proc, RunStep(p)
  PROVE  MarkCompacted(p) \/ UNCHANGED compactedBy
BY DEF RunStep, FinalizeIngestion, BeginRun, BeginTakeoverRun, AcquireLock,
       EnterCompaction, InsertOperation, ProbeLifecycle, LoadRows, Progress,
       ProgressAfterSummary, CheckGuard, WriteSegment, WriteFacts, WriteSummary,
       PipelineError, ExitCompaction, Drain, ReleaseLock, ClearActiveOp, Heartbeat,
       SetPhase, StartCompactionOperation, AdvanceCompactionPhase,
       CloseCompactionOperation, DrainCompactionExit, RefreshCompactionHeartbeat,
       StoreSegment, StoreFacts, SaveTagSummary, storeVars, artifactVars

\* On SQLite a turn that one operation has compacted is not compacted again in
\* the same lifecycle epoch unless cleanup has cleared its mark: a stale
\* compactor that wakes up with the batch it read before the takeover is
\* refused by the guard of mark_canonical_turns_compacted, wherever workers
\* crash and however often leases lapse.
THEOREM CompactedOnce ==
  ASSUME Backend = "sqlite"
  PROVE  Spec => NeverRecompacted
<1>1. Init => MarkInv
  BY InitLedgerInv DEF MarkInv, BatchUnmarked, MarksHaveRows, Init, StoreInit, NoRun,
     BatchPc
<1>2. MarkInv /\ [Next]_takeoverVars => MarkInv' /\ [NoRemark]_takeoverVars
  <2> SUFFICES ASSUME MarkInv, [Next]_takeoverVars
               PROVE  BatchUnmarked' /\ MarksHaveRows' /\ NoRemark
    BY NextLedger DEF MarkInv
  <2>1. LedgerInv' /\ TypeInv' /\ [Ledger!Next]_op
    BY NextLedger DEF MarkInv, LedgerInv
  <2>2. ASSUME NEW p \in Proc, RunStep(p)
        PROVE  BatchUnmarked' /\ MarksHaveRows' /\ NoRemark
    <3>1. CASE UNCHANGED compactedBy
      BY <2>1, <2>2, <3>1, RunKeepsBatches, ClearingStep DEF MarksOnlyCleared
    <3> QED BY <2>2, <3>1, RunMarks, MarkStep
  <2>3. ASSUME NEW w \in Worker, GateStep(w)
        PROVE  BatchUnmarked' /\ MarksHaveRows' /\ NoRemark
    BY <2>1, <2>3, GateKeepsBatches, ClearingStep
  <2>4. CASE EnvStep
    BY <2>1, <2>4, EnvKeepsBatches, ClearingStep
  <2>5. CASE UNCHANGED takeoverVars
    BY <2>5 DEF MarkInv, BatchUnmarked, MarksHaveRows, NoRemark, takeoverVars,
       storeVars, artifactVars, controlVars
  <2> QED BY <2>2, <2>3, <2>4, <2>5, NextSplits
<1>3. [NoRemark]_takeoverVars =>
        [\A r \in Row : compactedBy[r] # None /\ compactedBy'[r] # compactedBy[r] =>
           \/ compactedBy'[r] = None
           \/ op[compactedBy[r]].ep # op[compactedBy'[r]].ep]_takeoverVars
  BY DEF NoRemark
<1> QED BY <1>1, <1>2, <1>3, PTL DEF Spec, NeverRecompacted

-----------------------------------------------------------------------------
(****************************************************************************)
(* A worker of an old lifecycle epoch cannot write, on Postgres, for every  *)
(* number of workers, operations, turns and deletions, as long as no worker *)
(* dies between two statements of a resurrect.  (On SQLite TLC refutes it:  *)
(* section 4 of the README.)                                                *)
(*                                                                          *)
(* Statements compare an epoch read earlier with the row of the             *)
(* conversation, or do not compare at all, so the invariant is about the    *)
(* epochs that threads remember: none is ahead of the conversation, and an  *)
(* operation runs under an older one only while the resurrect that made it  *)
(* old has still to cancel it.                                              *)
(****************************************************************************)

EpochsPast ==
  /\ \A o \in Op : op[o].ep <= epoch
  /\ \A p \in Proc : run[p].ep <= epoch
  /\ \A w \in Worker : wepoch[w] <= epoch /\ post[w].ep <= epoch

\* The resurrect that opened the present epoch, until its last statement.
Resurrecting(w) == post[w].pc \in {"abandonOld", "cancelOld"} /\ post[w].ep = epoch

OldCancelled ==
  \A o \in Op : op[o].status = "running" =>
    /\ op[o].ep \in Epoch
    /\ op[o].ep # epoch => \E w \in Worker : Resurrecting(w)

\* Postgres runs cleanup as one transaction.
NoSplitCleanup ==
  \A w \in Worker : post[w].pc \notin {"abandon", "deleteSegments", "deleteSummaries",
                                      "uncompact", "insert"}

EpochInv == LedgerInv /\ EpochsPast /\ OldCancelled

\* A step that leaves the epoch and every resurrect alone starts operations
\* under the present epoch or under that of a running one.
StartsInStep ==
  \A o \in Op : op'[o].status = "running" =>
    \/ op'[o].ep = epoch
    \/ \E d \in Op : op[d].status = "running" /\ op[d].ep = op'[o].ep

\* Epochs that a step copies come from the rows and from memory.
EpochsCopied ==
  /\ \A o \in Op : op'[o].ep <= epoch
  /\ \A p \in Proc : run'[p].ep <= epoch
  /\ \A w \in Worker : wepoch'[w] <= epoch /\ post'[w].ep <= epoch

ResurrectsStay ==
  \A w \in Worker : post[w].pc \in {"abandonOld", "cancelOld"} =>
    post'[w].pc \in {"abandonOld", "cancelOld"} /\ post'[w].ep = post[w].ep

\* Such a step keeps the invariant.
LEMMA SameEpochStep ==
  ASSUME EpochInv, StartsInStep, EpochsCopied, ResurrectsStay, UNCHANGED epoch
  PROVE  EpochsPast' /\ OldCancelled'
<1>1. EpochsPast'
  BY DEF EpochsCopied, EpochsPast
<1>2. OldCancelled'
  <2> SUFFICES ASSUME NEW o \in Op, op'[o].status = "running"
               PROVE  /\ op'[o].ep \in Epoch
                      /\ op'[o].ep # epoch => \E w \in Worker : Resurrecting(w)'
    BY DEF OldCancelled
  <2>1. op'[o].ep \in Epoch
    BY DEF StartsInStep, EpochInv, OldCancelled, LedgerInv, TypeInv, StoreInv, StoreTypeOK
  <2>2. ASSUME op'[o].ep # epoch
        PROVE  \E w \in Worker : Resurrecting(w)'
    <3>1. PICK w \in Worker : Resurrecting(w)
      BY <2>2 DEF StartsInStep, EpochInv, OldCancelled
    <3> QED BY <3>1 DEF ResurrectsStay, Resurrecting
  <2> QED BY <2>1, <2>2
<1> QED BY <1>1, <1>2

-----------------------------------------------------------------------------
(* What the statements do to the epochs of operations.                       *)

OpsKeepEpochs ==
  \A o \in Op : op'[o].ep = op[o].ep
    /\ (op'[o].status = "running" => op[o].status = "running" \/ op[o].ep = epoch)

\* Such statements start operations under the present epoch only.
LEMMA KeptEpochs ==
  ASSUME EpochInv, OpsKeepEpochs
  PROVE  StartsInStep /\ \A o \in Op : op'[o].ep <= epoch
BY DEF OpsKeepEpochs, StartsInStep, EpochInv, EpochsPast

\* Every statement but the three that open a row keeps the rows' epochs, and
\* advance starts only an operation of the present one.
LEMMA StatementsKeepEpochs ==
  ASSUME EpochInv, NEW w \in Worker, NEW e,
         \/ UNCHANGED op
         \/ ClaimCompactionLease(w, e)
         \/ AdvanceCompactionPhase(w, e)
         \/ \E o \in Op : RefreshCompactionHeartbeat(w, e, o) \/ OpHeartbeatLapses(o)
         \/ \E st \in Closed : CloseCompactionOperation(w, e, st)
         \/ \E E : CancelOps(E)
  PROVE  OpsKeepEpochs
<1>0. \A o \in Op : op[o] \in OpRow
  BY DEF EpochInv, LedgerInv, TypeInv, StoreInv, StoreTypeOK
<1>1. \A o \in Op : \A st \in Closed :
        Close(op[o], st).ep = op[o].ep /\ Close(op[o], st).status # "running"
  BY <1>0 DEF Close, OpRow, Closed
<1>2. CASE UNCHANGED op
  BY <1>2 DEF OpsKeepEpochs
<1>3. CASE ClaimCompactionLease(w, e)
  BY <1>0, <1>3 DEF ClaimCompactionLease, OpsKeepEpochs, OpRow
<1>4. CASE AdvanceCompactionPhase(w, e)
  BY <1>0, <1>4 DEF AdvanceCompactionPhase, OwnedOps, ActiveOps, OpsKeepEpochs, OpRow
<1>5. ASSUME NEW o \in Op, RefreshCompactionHeartbeat(w, e, o) \/ OpHeartbeatLapses(o)
      PROVE  OpsKeepEpochs
  <2>1. op' = op \/ \E b \in BOOLEAN : op' = [op EXCEPT ![o] = [@ EXCEPT !.fresh = b]]
    BY <1>5 DEF RefreshCompactionHeartbeat, OpHeartbeatLapses
  <2> QED
    BY <1>0, <2>1 DEF EpochInv, LedgerInv, TypeInv, StoreInv, StoreTypeOK, OpsKeepEpochs,
       OpRow
<1>6. ASSUME NEW st \in Closed, CloseCompactionOperation(w, e, st)
      PROVE  OpsKeepEpochs
  BY <1>1, <1>6 DEF CloseCompactionOperation, OpsKeepEpochs
<1>7. ASSUME NEW E, CancelOps(E)
      PROVE  OpsKeepEpochs
  BY <1>1, <1>7 DEF CancelOps, OpsKeepEpochs, Closed
<1> QED BY <1>2, <1>3, <1>4, <1>5, <1>6, <1>7

\* start_compaction_operation inserts its row as queued.
LEMMA StartKeepsEpochs ==
  ASSUME EpochInv, NEW w \in Worker, NEW e \in 0..MaxEpoch, e <= epoch, NEW o \in Op,
         StartCompactionOperation(w, e, o)
  PROVE  StartsInStep /\ \A x \in Op : op'[x].ep <= epoch
BY DEF StartCompactionOperation, StartsInStep, EpochInv, EpochsPast, LedgerInv, TypeInv,
       StoreInv, StoreTypeOK

\* Cleanup inserts the successor of an operation that is running at its epoch.
LEMMA CleanupKeepsEpochs ==
  ASSUME EpochInv, NEW w \in Worker, NEW e \in 0..MaxEpoch, e <= epoch,
         NEW dead \in Op, NEW new \in Op, CleanupAbandonedCompaction(w, e, dead, new)
  PROVE  StartsInStep /\ \A x \in Op : op'[x].ep <= epoch
<1>0. op \in [Op -> OpRow] /\ \A x \in Op : op[x].ep <= epoch
  BY DEF EpochInv, EpochsPast, LedgerInv, TypeInv, StoreInv, StoreTypeOK
<1>1. CASE ~FreshTakeover(e, dead)
  BY <1>0, <1>1 DEF CleanupAbandonedCompaction, StartsInStep
<1>2. CASE FreshTakeover(e, dead)
  <2>1. /\ Close(op[dead], "abandoned").ep = e
        /\ Close(op[dead], "abandoned").status # "running"
        /\ RunningRow(w, e).ep = e
        /\ op[dead].status = "running" /\ op[dead].ep = e
    BY <1>0, <1>2 DEF FreshTakeover, Close, OpRow, RunningRow
  <2>2. \A x \in Op : \/ op'[x] = op[x]
                      \/ op'[x] = Close(op[dead], "abandoned")
                      \/ op'[x] = RunningRow(w, e)
    BY <1>0, <1>2 DEF CleanupAbandonedCompaction
  <2> QED BY <1>0, <2>1, <2>2 DEF StartsInStep
<1> QED BY <1>1, <1>2

-----------------------------------------------------------------------------
(* Steps of the compacting threads.                                          *)

\* A run's remembered epoch is its old one, its worker's, or none.
LEMMA RunCopiesEpochs ==
  ASSUME EpochInv, NEW p \in Proc, RunStep(p)
  PROVE  \A q \in Proc : run'[q].ep <= epoch
<1>0. /\ run[p] \in RunRow /\ run \in [Proc -> RunRow]
      /\ \A q \in Proc : run[q].ep <= epoch
      /\ wepoch[p[1]] <= epoch /\ 0 <= epoch
  BY ProcType, StoreAssumption
     DEF EpochInv, EpochsPast, LedgerInv, TypeInv, StoreInv, StoreTypeOK, ControlInv,
         ControlTypeOK, Epoch
<1>a. ASSUME NEW x, run' = [run EXCEPT ![p] = x], x.ep <= epoch
      PROVE  \A q \in Proc : run'[q].ep <= epoch
  <2>1. run'[p] = x /\ \A q \in Proc \ {p} : run'[q] = run[q]
    BY <1>0, <1>a
  <2> QED BY <1>0, <1>a, <2>1
<1>b. ASSUME NEW pc, RunTo(p, pc)
      PROVE  \A q \in Proc : run'[q].ep <= epoch
  <2>1. [run[p] EXCEPT !.pc = pc].ep = run[p].ep
    BY <1>0 DEF RunRow
  <2> QED BY <1>0, <1>a, <1>b, <2>1 DEF RunTo
<1>1. CASE UNCHANGED run
  BY <1>0, <1>1
<1>2. CASE \/ FinalizeIngestion(p) \/ InsertOperation(p) \/ Progress(p) \/ Drain(p)
           \/ ReleaseLock(p)
  BY <1>0, <1>1, <1>b, <1>2
     DEF FinalizeIngestion, InsertOperation, Progress, Drain, ReleaseLock
<1>3. CASE BeginRun(p)
  <2>1. PICK o : run' = [run EXCEPT ![p] = [NoRun EXCEPT !.pc = "lock", !.op = o]]
    BY <1>3 DEF BeginRun
  <2> DEFINE x == [NoRun EXCEPT !.pc = "lock", !.op = o]
  <2>2. x.ep = 0
    BY DEF NoRun
  <2> QED BY <1>0, <1>a, <2>1, <2>2
<1>4. CASE BeginTakeoverRun(p)
  <2> DEFINE x == [NoRun EXCEPT !.pc = "lock", !.op = queued[p[1]], !.pre = TRUE]
  <2>1. x.ep = 0
    BY DEF NoRun
  <2>2. run' = [run EXCEPT ![p] = x]
    BY <1>4 DEF BeginTakeoverRun
  <2> QED BY <1>0, <1>a, <2>1, <2>2
<1>5. CASE AcquireLock(p)
  <2>1. CASE lock[p[1]] # None
    BY <1>5, <1>b, <2>1 DEF AcquireLock
  <2>2. CASE lock[p[1]] = None
    <3> DEFINE x == [run[p] EXCEPT !.pc = IF run[p].pre THEN "load" ELSE "enter",
                                   !.entered = run[p].pre, !.ep = wepoch[p[1]]]
    <3>1. x.ep = wepoch[p[1]]
      BY <1>0 DEF RunRow
    <3>2. run' = [run EXCEPT ![p] = x]
      BY <1>5, <2>2 DEF AcquireLock
    <3> QED BY <1>0, <1>a, <3>1, <3>2
  <2> QED BY <2>1, <2>2
<1>6. CASE EnterCompaction(p)
  <2> DEFINE x == [run[p] EXCEPT !.pc = IF wepoch[p[1]] = epoch THEN "insert" ELSE "probe",
                                 !.ep = wepoch[p[1]]]
  <2>1. x.ep = wepoch[p[1]]
    BY <1>0 DEF RunRow
  <2>2. run' = [run EXCEPT ![p] = x]
    BY <1>6 DEF EnterCompaction
  <2> QED BY <1>0, <1>a, <2>1, <2>2
<1>7. CASE ProbeLifecycle(p)
  <2> DEFINE x == [run[p] EXCEPT !.pc = "load", !.entered = ActiveOps(epoch) # {},
                                 !.ep = wepoch[p[1]]]
  <2>1. x.ep = wepoch[p[1]]
    BY <1>0 DEF RunRow
  <2>2. run' = [run EXCEPT ![p] = x]
    BY <1>7 DEF ProbeLifecycle
  <2> QED BY <1>0, <1>a, <2>1, <2>2
<1>8. CASE LoadRows(p)
  <2>1. PICK R :
          run' = [run EXCEPT ![p] =
                    [@ EXCEPT !.pc = IF R = {} THEN "complete" ELSE "advance",
                              !.batch = R]]
    BY <1>8 DEF LoadRows
  <2> DEFINE x == [run[p] EXCEPT !.pc = IF R = {} THEN "complete" ELSE "advance",
                                 !.batch = R]
  <2>2. x.ep = run[p].ep
    BY <1>0 DEF RunRow
  <2> QED BY <1>0, <1>a, <2>1, <2>2
<1>9. CASE CheckGuard(p)
  <2>1. CASE Holds(p)
    <3> DEFINE x == [run[p] EXCEPT !.held = TRUE]
    <3>1. x.ep = run[p].ep
      BY <1>0 DEF RunRow
    <3> QED BY <1>0, <1>9, <1>a, <2>1, <3>1 DEF CheckGuard
  <2>2. CASE ~Holds(p)
    BY <1>9, <1>b, <2>2 DEF CheckGuard, RunTo
  <2> QED BY <2>1, <2>2
<1>10. ASSUME NEW pc, run' = [run EXCEPT ![p] = [@ EXCEPT !.pc = pc, !.held = FALSE]]
       PROVE  \A q \in Proc : run'[q].ep <= epoch
  <2>1. [run[p] EXCEPT !.pc = pc, !.held = FALSE].ep = run[p].ep
    BY <1>0 DEF RunRow
  <2> QED BY <1>0, <1>10, <1>a, <2>1
<1>11. CASE \/ WriteSegment(p) \/ WriteFacts(p) \/ MarkCompacted(p) \/ WriteSummary(p)
            \/ PipelineError(p)
  BY <1>10, <1>11 DEF WriteSegment, WriteFacts, MarkCompacted, WriteSummary, WriteAt,
     PipelineError
<1>12. CASE ExitCompaction(p)
  <2>1. CASE ~run[p].entered
    BY <1>12, <1>b, <2>1 DEF ExitCompaction
  <2>2. CASE run[p].entered
    <3> DEFINE x == [run[p] EXCEPT !.pc = "drain", !.ep = wepoch[p[1]]]
    <3>1. x.ep = wepoch[p[1]]
      BY <1>0 DEF RunRow
    <3>2. run' = [run EXCEPT ![p] = x]
      BY <1>12, <2>2 DEF ExitCompaction
    <3> QED BY <1>0, <1>a, <3>1, <3>2
  <2> QED BY <2>1, <2>2
<1>13. CASE ClearActiveOp(p)
  BY <1>0, <1>13, <1>a DEF ClearActiveOp, NoRun
<1> QED
  BY <1>1, <1>2, <1>3, <1>4, <1>5, <1>6, <1>7, <1>8, <1>9, <1>11, <1>12, <1>13
     DEF RunStep, ProgressAfterSummary, Heartbeat, controlVars

\* A run changes no epoch of the conversation, of a worker or of a request.
LEMMA RunKeepsEpochs ==
  ASSUME EpochInv, NEW p \in Proc, RunStep(p)
  PROVE  EpochsPast' /\ OldCancelled'
<1>0. /\ p[1] \in Worker /\ run[p] \in RunRow /\ run[p].ep <= epoch
      /\ run[p].pc \notin {"idle", "finalized"} => run[p].op \in Op
  BY ProcType DEF EpochInv, EpochsPast, LedgerInv, TypeInv, ControlInv, ControlTypeOK,
     RunsHaveIds, RunRow
<1>1. UNCHANGED <<epoch, wepoch, post>>
  BY DEF RunStep, FinalizeIngestion, BeginRun, BeginTakeoverRun, AcquireLock,
         EnterCompaction, InsertOperation, ProbeLifecycle, LoadRows, Progress,
         ProgressAfterSummary, CheckGuard, WriteSegment, WriteFacts, MarkCompacted,
         WriteSummary, WriteAt, PipelineError, ExitCompaction, Drain, ReleaseLock,
         ClearActiveOp, Heartbeat, SetPhase, StartCompactionOperation,
         AdvanceCompactionPhase, CloseCompactionOperation, DrainCompactionExit,
         RefreshCompactionHeartbeat, StoreSegment, StoreFacts,
         MarkCanonicalTurnsCompacted, SaveTagSummary, storeVars, memoryVars, controlVars
<1>2. StartsInStep /\ \A o \in Op : op'[o].ep <= epoch
  <2>1. CASE InsertOperation(p)
    BY <1>0, <2>1, StartKeepsEpochs DEF InsertOperation, RunAt, RunRow
  <2>2. CASE \/ UNCHANGED op
             \/ \E e : AdvanceCompactionPhase(p[1], e)
             \/ \E e : \E o \in Op : RefreshCompactionHeartbeat(p[1], e, o)
             \/ \E e : \E st \in Closed : CloseCompactionOperation(p[1], e, st)
    BY <1>0, <2>2, StatementsKeepEpochs, KeptEpochs
  <2>3. CASE ExitCompaction(p)
    BY <2>2, <2>3 DEF ExitCompaction, ExitStatus, Closed, storeVars
  <2>4. CASE Heartbeat(p)
    BY <1>0, <2>2, <2>4 DEF Heartbeat, SidecarPc
  <2> QED
    BY <2>1, <2>2, <2>3, <2>4
       DEF RunStep, FinalizeIngestion, BeginRun, BeginTakeoverRun, AcquireLock,
           EnterCompaction, ProbeLifecycle, LoadRows, Progress, ProgressAfterSummary,
           CheckGuard, WriteSegment, WriteFacts, MarkCompacted, WriteSummary,
           PipelineError, Drain, ReleaseLock, ClearActiveOp, SetPhase, StoreSegment,
           StoreFacts, MarkCanonicalTurnsCompacted, SaveTagSummary,
           DrainCompactionExit, storeVars
<1>3. EpochsCopied
  BY <1>1, <1>2, RunCopiesEpochs DEF EpochInv, EpochsPast, EpochsCopied
<1>4. ResurrectsStay
  BY <1>1 DEF ResurrectsStay
<1> QED BY <1>1, <1>2, <1>3, <1>4, SameEpochStep

-----------------------------------------------------------------------------
(* Steps of the requests, on Postgres.                                       *)

ResurrectPc == {"abandonOld", "cancelOld"}

\* A request that is not resurrecting and copies epochs of the past.
LEMMA QuietRequest ==
  ASSUME EpochInv, NEW w \in Worker, NEW x, post' = [post EXCEPT ![w] = x],
         x.ep <= epoch, post[w].pc \notin ResurrectPc,
         UNCHANGED <<epoch, run>>, \A v \in Worker : wepoch'[v] <= epoch,
         StartsInStep, \A o \in Op : op'[o].ep <= epoch
  PROVE  EpochsPast' /\ OldCancelled'
<1>1. post'[w] = x /\ \A v \in Worker \ {w} : post'[v] = post[v]
  BY DEF EpochInv, LedgerInv, TypeInv, ControlInv, ControlTypeOK
<1>2. EpochsCopied
  BY <1>1 DEF EpochInv, EpochsPast, EpochsCopied
<1>3. ResurrectsStay
  BY <1>1 DEF ResurrectsStay, ResurrectPc
<1> QED BY <1>2, <1>3, SameEpochStep

\* The first statement of a resurrect.
LEMMA BumpKeepsEpochs ==
  ASSUME EpochInv, Backend = "postgres", NEW w \in Worker, ResurrectConversation(w)
  PROVE  EpochsPast' /\ OldCancelled'
<1>0. /\ epoch \in Nat /\ wepoch \in [Worker -> 0..MaxEpoch]
      /\ post \in [Worker -> PostRow] /\ post[w].pc = "resurrect"
      /\ \A o \in Op : op[o] \in OpRow
      /\ run \in [Proc -> RunRow]
  BY StoreAssumption DEF EpochInv, LedgerInv, TypeInv, StoreInv, StoreTypeOK, ControlInv,
     ControlTypeOK, Epoch, ResurrectConversation, PostAt
<1>1. BumpEpoch /\ UNCHANGED <<op, run>>
  BY DEF ResurrectConversation, BumpEpoch
<1>2. CASE phase = "deleted"
  <2> DEFINE x == [post[w] EXCEPT !.pc = "abandonOld", !.ep = epoch + 1]
  <2>1. epoch' = epoch + 1 /\ UNCHANGED wepoch /\ post' = [post EXCEPT ![w] = x]
    BY <1>1, <1>2 DEF ResurrectConversation, BumpEpoch
  <2>2. x.pc = "abandonOld" /\ x.ep = epoch + 1
    BY <1>0 DEF PostRow
  <2> HIDE DEF x
  <2>3. post'[w] = x /\ \A v \in Worker \ {w} : post'[v] = post[v]
    BY <1>0, <2>1
  <2>4. Resurrecting(w)'
    BY <2>1, <2>2, <2>3 DEF Resurrecting
  <2>a. ASSUME NEW n \in Nat, n <= epoch
        PROVE  n <= epoch'
    BY <1>0, <2>1, <2>a
  <2>5. EpochsPast'
    <3>1. \A o \in Op : op[o].ep \in Nat /\ op[o].ep <= epoch
      BY <1>0 DEF OpRow, EpochInv, EpochsPast
    <3>2. \A p \in Proc : run[p].ep \in Nat /\ run[p].ep <= epoch
      BY <1>0 DEF RunRow, EpochInv, EpochsPast
    <3>3. \A v \in Worker : wepoch[v] \in Nat /\ wepoch[v] <= epoch
      BY <1>0 DEF EpochInv, EpochsPast
    <3>4. \A v \in Worker : post[v].ep \in Nat /\ post[v].ep <= epoch
      BY <1>0 DEF PostRow, EpochInv, EpochsPast
    <3>5. \A v \in Worker : post'[v].ep <= epoch'
      BY <1>0, <2>a, <2>1, <2>2, <2>3, <3>4
    <3> QED BY <1>1, <2>a, <2>1, <3>1, <3>2, <3>3, <3>5 DEF EpochsPast
  <2> QED BY <1>1, <2>4, <2>5 DEF OldCancelled, EpochInv
<1>3. CASE phase # "deleted"
  <2>1. /\ UNCHANGED epoch /\ post' = [post EXCEPT ![w] = NoPost]
        /\ wepoch' = [wepoch EXCEPT ![w] = epoch]
    BY <1>1, <1>3 DEF ResurrectConversation, BumpEpoch, PostReturn
  <2>2. \A v \in Worker : wepoch'[v] <= epoch
    BY <1>0, <2>1 DEF EpochInv, EpochsPast
  <2>3. NoPost.ep <= epoch
    BY <1>0 DEF NoPost
  <2>4. OpsKeepEpochs
    BY <1>1 DEF OpsKeepEpochs
  <2> QED
    BY <1>0, <1>1, <2>1, <2>2, <2>3, <2>4, KeptEpochs, QuietRequest DEF ResurrectPc
<1> QED BY <1>2, <1>3

\* Its last statement cancels every older operation; if the conversation has
\* been resurrected again since, that resurrect is still at work.
LEMMA CancelKeepsEpochs ==
  ASSUME EpochInv, NEW w \in Worker, CancelOldOps(w)
  PROVE  EpochsPast' /\ OldCancelled'
<1>0. /\ epoch \in Nat /\ wepoch \in [Worker -> 0..MaxEpoch]
      /\ post \in [Worker -> PostRow] /\ post[w].pc = "cancelOld"
      /\ \A o \in Op : op[o] \in OpRow
      /\ post[w].ep <= epoch
  BY StoreAssumption DEF EpochInv, EpochsPast, LedgerInv, TypeInv, StoreInv, StoreTypeOK,
     ControlInv, ControlTypeOK, Epoch, CancelOldOps, PostAt
<1>1. /\ CancelOps(Older(post[w].ep)) /\ UNCHANGED <<epoch, run>>
      /\ post' = [post EXCEPT ![w] = NoPost]
      /\ wepoch' = [wepoch EXCEPT ![w] = post[w].ep]
  BY DEF CancelOldOps, CancelOps, PostReturn
<1>2. post'[w] = NoPost /\ \A v \in Worker \ {w} : post'[v] = post[v]
  BY <1>0, <1>1
<1>3. OpsKeepEpochs
  BY <1>1, StatementsKeepEpochs
<1>4. EpochsPast'
  <2>1. \A v \in Worker : wepoch'[v] <= epoch
    BY <1>0, <1>1 DEF EpochInv, EpochsPast
  <2>2. \A v \in Worker : post'[v].ep <= epoch
    BY <1>0, <1>2 DEF NoPost, EpochInv, EpochsPast
  <2> QED BY <1>1, <1>3, <2>1, <2>2, KeptEpochs DEF EpochInv, EpochsPast
<1>5. OldCancelled'
  <2> SUFFICES ASSUME NEW o \in Op, op'[o].status = "running"
               PROVE  /\ op'[o].ep \in Epoch
                      /\ op'[o].ep # epoch => \E v \in Worker : Resurrecting(v)'
    BY <1>1 DEF OldCancelled
  <2>1. Close(op[o], "cancelled").status # "running"
    BY <1>0 DEF Close, OpRow
  <2>2. op'[o] = op[o] /\ op[o].status = "running" /\ op[o].ep \notin Older(post[w].ep)
    BY <1>1, <2>1 DEF CancelOps, Active
  <2>3. op[o].ep \in Epoch /\ op[o].ep <= epoch
        /\ (op[o].ep # epoch => \E v \in Worker : Resurrecting(v))
    BY <2>2 DEF EpochInv, OldCancelled, EpochsPast
  <2>4. ASSUME op[o].ep # epoch
        PROVE  \E v \in Worker : Resurrecting(v)'
    <3>1. PICK v \in Worker : Resurrecting(v)
      BY <2>3, <2>4
    <3>2. post[w].ep # epoch
      BY <1>0, <2>2, <2>3, <2>4 DEF Older, Epoch
    <3>3. v # w
      BY <3>1, <3>2 DEF Resurrecting
    <3> QED BY <1>1, <1>2, <3>1, <3>3 DEF Resurrecting
  <2> QED BY <2>2, <2>3, <2>4
<1> QED BY <1>4, <1>5

\* All steps of a request.
LEMMA GateKeepsEpochs ==
  ASSUME EpochInv, Backend = "postgres", NoSplitCleanup, NEW w \in Worker, GateStep(w)
  PROVE  EpochsPast' /\ OldCancelled'
<1>0. /\ epoch \in Nat /\ post[w] \in PostRow /\ post \in [Worker -> PostRow]
      /\ post[w].ep <= epoch /\ post[w].ep \in 0..MaxEpoch
      /\ \A v \in Worker : wepoch[v] <= epoch
  BY StoreAssumption DEF EpochInv, EpochsPast, LedgerInv, TypeInv, StoreInv, StoreTypeOK,
     ControlInv, ControlTypeOK, Epoch, PostRow
<1>a. ASSUME NEW x, post' = [post EXCEPT ![w] = x], x.ep <= epoch,
             post[w].pc \notin ResurrectPc, UNCHANGED <<epoch, run, wepoch>>, OpsKeepEpochs
      PROVE  EpochsPast' /\ OldCancelled'
  BY <1>0, <1>a, KeptEpochs, QuietRequest
<1>b. ASSUME \/ PostReturn(w) \/ \E pc : PostTo(w, pc),
             post[w].pc \notin ResurrectPc, UNCHANGED <<epoch, run, wepoch>>, OpsKeepEpochs
      PROVE  EpochsPast' /\ OldCancelled'
  <2>1. NoPost.ep <= epoch
    BY <1>0 DEF NoPost
  <2>2. \A pc : [post[w] EXCEPT !.pc = pc].ep = post[w].ep
    BY <1>0 DEF PostRow
  <2> QED BY <1>0, <1>a, <1>b, <2>1, <2>2 DEF PostReturn, PostTo
<1>1. CASE PostBegin(w)
  <2>1. [NoPost EXCEPT !.pc = "gate", !.ep = wepoch[w]].ep = wepoch[w]
    BY DEF NoPost
  <2>2. OpsKeepEpochs
    BY <1>1 DEF PostBegin, storeVars, OpsKeepEpochs
  <2> QED
    BY <1>0, <1>1, <1>a, <2>1, <2>2
       DEF PostBegin, PostAt, ResurrectPc, storeVars, memoryVars
<1>2. CASE PhaseGate(w) \/ ReadSnapshot(w)
  <2>1. OpsKeepEpochs
    BY <1>2 DEF PhaseGate, ReadSnapshot, storeVars, OpsKeepEpochs
  <2>2. UNCHANGED <<epoch, run, wepoch>> /\ post[w].pc \notin ResurrectPc
    BY <1>2 DEF PhaseGate, ReadSnapshot, PostAt, ResurrectPc, storeVars, memoryVars
  <2>3. PostReturn(w) \/ \E pc : PostTo(w, pc)
    BY <1>2 DEF PhaseGate, ReadSnapshot
  <2> QED BY <1>b, <2>1, <2>2, <2>3
<1>3. CASE ResurrectConversation(w)
  BY <1>3, BumpKeepsEpochs
<1>4. CASE AbandonOldEpisodes(w)
  <2> DEFINE x == [post[w] EXCEPT !.pc = "cancelOld"]
  <2>1. x.pc = "cancelOld" /\ x.ep = post[w].ep
    BY <1>0 DEF PostRow
  <2>2. UNCHANGED <<epoch, run, wepoch, op>> /\ post' = [post EXCEPT ![w] = x]
    BY <1>4 DEF AbandonOldEpisodes, AbandonEpisodes, memoryVars, PostTo
  <2> HIDE DEF x
  <2>3. post'[w] = x /\ \A v \in Worker \ {w} : post'[v] = post[v]
    BY <1>0, <2>2
  <2>4. ResurrectsStay
    BY <2>1, <2>3 DEF ResurrectsStay
  <2>5. OpsKeepEpochs
    BY <2>2 DEF OpsKeepEpochs
  <2>6. EpochsCopied
    BY <1>0, <2>1, <2>2, <2>3, <2>5, KeptEpochs DEF EpochInv, EpochsPast, EpochsCopied
  <2> QED BY <2>2, <2>4, <2>5, <2>6, KeptEpochs, SameEpochStep
<1>5. CASE CancelOldOps(w)
  BY <1>5, CancelKeepsEpochs
<1>6. CASE RepairOrphanPhase(w)
  <2>1. OpsKeepEpochs
    BY <1>6 DEF RepairOrphanPhase, SetPhase, OpsKeepEpochs
  <2> QED
    BY <1>6, <1>b, <2>1
       DEF RepairOrphanPhase, SetPhase, PostAt, ResurrectPc, memoryVars
<1>7. CASE ClaimTransaction(w) \/ ClaimUpdate(w)
  <2>1. ClaimCompactionLease(w, post[w].ep)
    BY <1>7 DEF ClaimTransaction, ClaimUpdate
  <2>2. OpsKeepEpochs
    BY <2>1, StatementsKeepEpochs
  <2>3. UNCHANGED <<epoch, run, wepoch>> /\ post[w].pc \notin ResurrectPc
    BY <1>7, <2>1 DEF ClaimTransaction, ClaimUpdate, ClaimCompactionLease, PostAt,
       ResurrectPc, memoryVars
  <2> DEFINE x == [post[w] EXCEPT !.pc = "predicate", !.dead = Current(post[w].ep)]
  <2>4. x.ep = post[w].ep
    BY <1>0 DEF PostRow
  <2>5. CASE ClaimUpdate(w)
    BY <1>b, <2>2, <2>3, <2>5 DEF ClaimUpdate
  <2>6. CASE ClaimTransaction(w)
    BY <1>0, <1>a, <1>b, <2>2, <2>3, <2>4, <2>6 DEF ClaimTransaction
  <2> QED BY <1>7, <2>5, <2>6
<1>8. CASE TakeoverPredicate(w)
  <2>0. /\ OpsKeepEpochs /\ UNCHANGED <<epoch, run, wepoch>>
        /\ post[w].pc \notin ResurrectPc
    BY <1>8 DEF TakeoverPredicate, PostAt, ResurrectPc, storeVars, memoryVars,
       OpsKeepEpochs
  <2>1. CASE PostReturn(w)
    BY <1>b, <2>0, <2>1
  <2>2. CASE ~PostReturn(w)
    <3>1. PICK o \in Op \ minted :
            post' = [post EXCEPT ![w] =
              [@ EXCEPT !.new = o,
                        !.pc = IF Backend = "postgres" THEN "cleanup" ELSE "abandon"]]
      BY <1>8, <2>2 DEF TakeoverPredicate
    <3> DEFINE x == [post[w] EXCEPT !.new = o,
                       !.pc = IF Backend = "postgres" THEN "cleanup" ELSE "abandon"]
    <3>2. x.ep = post[w].ep
      BY <1>0 DEF PostRow
    <3> QED BY <1>0, <1>a, <2>0, <3>1, <3>2
  <2> QED BY <2>1, <2>2
<1>9. CASE CleanupTransaction(w)
  <2>1. /\ CleanupAbandonedCompaction(w, post[w].ep, post[w].dead, post[w].new)
        /\ post[w].pc = "cleanup" /\ UNCHANGED <<epoch, run, wepoch>>
    BY <1>9 DEF CleanupTransaction, CleanupAbandonedCompaction, PostAt, memoryVars
  <2>2. post[w].dead \in Op /\ post[w].new \in Op
    BY <1>0, <2>1 DEF EpochInv, LedgerInv, IdInv, DeadKnown, TakingOverPc, SuccessorPc,
       PostRow
  <2>3. StartsInStep /\ \A o \in Op : op'[o].ep <= epoch
    BY <1>0, <2>1, <2>2, CleanupKeepsEpochs
  <2>4. \E x : post' = [post EXCEPT ![w] = x] /\ x.ep <= epoch
    <3>1. [post[w] EXCEPT !.pc = "submit"].ep = post[w].ep /\ NoPost.ep <= epoch
      BY <1>0 DEF PostRow, NoPost
    <3> QED BY <1>0, <1>9, <3>1 DEF CleanupTransaction, PostTo, PostReturn
  <2> QED BY <1>0, <2>1, <2>3, <2>4, QuietRequest DEF ResurrectPc
<1>10. CASE SubmitTakeover(w) \/ SubmitRefused(w)
  <2>1. OpsKeepEpochs
    BY <1>10 DEF SubmitTakeover, SubmitRefused, storeVars, OpsKeepEpochs
  <2> QED
    BY <1>10, <1>b, <2>1
       DEF SubmitTakeover, SubmitRefused, PostAt, ResurrectPc, storeVars
<1> QED
  BY <1>1, <1>2, <1>3, <1>4, <1>5, <1>6, <1>7, <1>8, <1>9, <1>10
     DEF GateStep, ClaimSelect, CleanupAbandon, CleanupSegments, CleanupSummaries,
         CleanupTurns, CleanupInsert, PostAt, NoSplitCleanup

\* A request enters the split cleanup only on SQLite.
LEMMA NoSplitStep ==
  ASSUME TypeInv, Backend = "postgres", NoSplitCleanup, [Next]_takeoverVars
  PROVE  NoSplitCleanup'
<1> DEFINE Split == {"abandon", "deleteSegments", "deleteSummaries", "uncompact", "insert"}
<1>0. post \in [Worker -> PostRow]
  BY DEF TypeInv, ControlInv, ControlTypeOK
<1>1. CASE UNCHANGED post
  BY <1>1 DEF NoSplitCleanup
<1>2. ASSUME NEW w \in Worker, GateStep(w)
      PROVE  NoSplitCleanup'
  <2>1. ASSUME NEW x, post' = [post EXCEPT ![w] = x], x.pc \notin Split
        PROVE  NoSplitCleanup'
    BY <1>0, <2>1 DEF NoSplitCleanup
  <2>2. ASSUME NEW pc, PostTo(w, pc), pc \notin Split
        PROVE  NoSplitCleanup'
    <3>1. [post[w] EXCEPT !.pc = pc].pc = pc
      BY <1>0 DEF PostRow
    <3> QED BY <2>1, <2>2, <3>1 DEF PostTo
  <2>3. ASSUME PostReturn(w)
        PROVE  NoSplitCleanup'
    BY <2>1, <2>3 DEF PostReturn, NoPost
  <2>4. CASE PostBegin(w)
    <3>1. [NoPost EXCEPT !.pc = "gate", !.ep = wepoch[w]].pc = "gate"
      BY DEF NoPost
    <3> QED BY <2>1, <2>4, <3>1 DEF PostBegin
  <2>5. CASE \/ PhaseGate(w) \/ ReadSnapshot(w) \/ AbandonOldEpisodes(w)
             \/ CancelOldOps(w) \/ RepairOrphanPhase(w) \/ CleanupTransaction(w)
             \/ SubmitRefused(w) \/ SubmitTakeover(w) \/ ClaimUpdate(w)
    BY <2>2, <2>3, <2>5
       DEF PhaseGate, ReadSnapshot, AbandonOldEpisodes, CancelOldOps, RepairOrphanPhase,
           CleanupTransaction, SubmitRefused, SubmitTakeover, ClaimUpdate
  <2>6. CASE ResurrectConversation(w)
    <3> DEFINE e2 == IF phase = "deleted" THEN epoch + 1 ELSE epoch
    <3>1. [post[w] EXCEPT !.pc = "abandonOld", !.ep = e2].pc = "abandonOld"
      BY <1>0 DEF PostRow
    <3> QED BY <2>1, <2>3, <2>6, <3>1 DEF ResurrectConversation
  <2>7. CASE ClaimTransaction(w)
    <3>1. [post[w] EXCEPT !.pc = "predicate", !.dead = Current(post[w].ep)].pc
            = "predicate"
      BY <1>0 DEF PostRow
    <3> QED BY <2>1, <2>3, <2>7, <3>1 DEF ClaimTransaction
  <2>8. CASE TakeoverPredicate(w)
    <3>1. CASE PostReturn(w)
      BY <2>3, <3>1
    <3>2. CASE ~PostReturn(w)
      <4>1. PICK o \in Op \ minted :
              post' = [post EXCEPT ![w] = [@ EXCEPT !.new = o, !.pc = "cleanup"]]
        BY <2>8, <3>2 DEF TakeoverPredicate
      <4>2. [post[w] EXCEPT !.new = o, !.pc = "cleanup"].pc = "cleanup"
        BY <1>0 DEF PostRow
      <4> QED BY <2>1, <4>1, <4>2
    <3> QED BY <3>1, <3>2
  <2> QED
    BY <1>2, <2>4, <2>5, <2>6, <2>7, <2>8
       DEF GateStep, ClaimSelect, CleanupAbandon, CleanupSegments, CleanupSummaries,
           CleanupTurns, CleanupInsert, PostAt, NoSplitCleanup
<1>3. ASSUME NEW w \in Worker, Crash(w)
      PROVE  NoSplitCleanup'
  BY <1>0, <1>3 DEF Crash, NoPost, NoSplitCleanup
<1>4. CASE EnvStep
  BY <1>1, <1>3, <1>4 DEF EnvStep, StartWorker, IngestionWork, Lapse, RowArrives, Admin,
     DeletePhase, DeleteEpisodes, DeleteOps, controlVars
<1>5. ASSUME NEW p \in Proc, RunStep(p)
      PROVE  UNCHANGED post
  BY <1>5 DEF RunStep, FinalizeIngestion, BeginRun, BeginTakeoverRun, AcquireLock,
     EnterCompaction, InsertOperation, ProbeLifecycle, LoadRows, Progress,
     ProgressAfterSummary, CheckGuard, WriteSegment, WriteFacts, MarkCompacted,
     WriteSummary, WriteAt, PipelineError, ExitCompaction, Drain, ReleaseLock,
     ClearActiveOp, Heartbeat, controlVars
<1> QED BY <1>1, <1>2, <1>4, <1>5, NextSplits DEF takeoverVars, controlVars

-----------------------------------------------------------------------------
(* The environment, and the theorem.                                         *)

\* A worker starts with the present epoch; none dies inside a resurrect.
LEMMA EnvKeepsEpochs ==
  ASSUME EpochInv, ~MidMethodCrash, EnvStep
  PROVE  EpochsPast' /\ OldCancelled'
<1>0. /\ epoch \in Nat /\ post \in [Worker -> PostRow] /\ run \in [Proc -> RunRow]
      /\ wepoch \in [Worker -> 0..MaxEpoch]
  BY StoreAssumption DEF EpochInv, LedgerInv, TypeInv, StoreInv, StoreTypeOK, ControlInv,
     ControlTypeOK, Epoch
<1>1. UNCHANGED epoch
  BY DEF EnvStep, StartWorker, Crash, IngestionWork, Lapse, RowArrives, Admin,
         DeletePhase, DeleteEpisodes, DeleteOps, MarkDeleted, AbandonEpisodes,
         CancelOps, OpHeartbeatLapses, ArriveRow, MarkCanonicalRowTagged, SetPhase,
         UpsertIngestionEpisode, CompleteIngestionEpisode, storeVars
<1>2. OpsKeepEpochs
  <2>2. ASSUME NEW o \in Op, OpHeartbeatLapses(o)
        PROVE  OpsKeepEpochs
    BY <2>2 DEF OpHeartbeatLapses, OpsKeepEpochs, EpochInv, LedgerInv, TypeInv, StoreInv,
       StoreTypeOK, OpRow
  <2>3. CASE UNCHANGED op
    BY <2>3 DEF OpsKeepEpochs
  <2>4. CASE CancelOps(Epoch)
    <3>1. \A o \in Op : /\ Close(op[o], "cancelled").ep = op[o].ep
                        /\ Close(op[o], "cancelled").status # "running"
      BY DEF Close, EpochInv, LedgerInv, TypeInv, StoreInv, StoreTypeOK, OpRow
    <3> QED BY <2>4, <3>1 DEF CancelOps, OpsKeepEpochs
  <2> QED
    BY <2>2, <2>3, <2>4
       DEF EnvStep, StartWorker, Crash, IngestionWork, Lapse, RowArrives, Admin,
           DeletePhase, DeleteEpisodes, DeleteOps, MarkDeleted, AbandonEpisodes,
           ArriveRow, MarkCanonicalRowTagged, SetPhase, UpsertIngestionEpisode,
           CompleteIngestionEpisode, storeVars
<1>3. CASE \E w \in Worker : Crash(w)
  <2>0. PICK w \in Worker : Crash(w)
    BY <1>3
  <2>1. /\ post[w].pc \notin ResurrectPc /\ post' = [post EXCEPT ![w] = NoPost]
        /\ wepoch' = [wepoch EXCEPT ![w] = 0]
        /\ run' = [p \in Proc |-> IF p[1] = w THEN NoRun ELSE run[p]]
    BY <2>0 DEF Crash, MidMethodPc, ResurrectPc
  <2>2. post'[w] = NoPost /\ \A v \in Worker \ {w} : post'[v] = post[v]
    BY <1>0, <2>1
  <2>3. ResurrectsStay
    BY <2>1, <2>2 DEF ResurrectsStay, ResurrectPc
  <2>4. EpochsCopied
    <3>1. \A v \in Worker : wepoch'[v] <= epoch
      BY <1>0, <2>1 DEF EpochInv, EpochsPast
    <3>2. \A p \in Proc : run'[p].ep <= epoch
      BY <1>0, <2>1 DEF EpochInv, EpochsPast, NoRun
    <3>3. \A v \in Worker : post'[v].ep <= epoch
      BY <1>0, <2>2 DEF EpochInv, EpochsPast, NoPost
    <3> QED BY <1>2, <3>1, <3>2, <3>3, KeptEpochs DEF EpochsCopied
  <2> QED BY <1>1, <1>2, <2>3, <2>4, KeptEpochs, SameEpochStep
<1>4. CASE UNCHANGED <<run, post>> /\ \A w \in Worker : wepoch'[w] \in {wepoch[w], epoch}
  <2>1. EpochsCopied
    BY <1>0, <1>2, <1>4, KeptEpochs DEF EpochInv, EpochsPast, EpochsCopied
  <2>2. ResurrectsStay
    BY <1>4 DEF ResurrectsStay
  <2> QED BY <1>1, <1>2, <2>1, <2>2, KeptEpochs, SameEpochStep
<1> QED
  BY <1>0, <1>3, <1>4
     DEF EnvStep, StartWorker, IngestionWork, Lapse, RowArrives, Admin, DeletePhase,
         DeleteEpisodes, DeleteOps, memoryVars, controlVars

\* On Postgres no operation passes the write guards for a worker whose epoch is
\* stale, but while a resurrect has still to cancel the old operations: advance
\* checks the conversation's epoch, and cleanup replaces a running operation in
\* the same transaction.  A crash inside a resurrect is excluded.
THEOREM StaleFencedOnPostgres ==
  ASSUME Backend = "postgres", ~MidMethodCrash
  PROVE  Spec => []StaleWorkerFenced
<1> DEFINE Inv == EpochInv /\ NoSplitCleanup
<1>1. Init => Inv
  <2> SUFFICES ASSUME Init PROVE EpochsPast /\ OldCancelled /\ NoSplitCleanup
    BY InitLedgerInv DEF EpochInv
  <2>1. EpochsPast
    BY DEF Init, StoreInit, NoOp, NoRun, NoPost, EpochsPast
  <2>2. OldCancelled /\ NoSplitCleanup
    BY DEF Init, StoreInit, NoOp, NoPost, OldCancelled, NoSplitCleanup
  <2> QED BY <2>1, <2>2
<1>2. Inv /\ [Next]_takeoverVars => Inv'
  <2> SUFFICES ASSUME EpochInv, NoSplitCleanup, [Next]_takeoverVars
               PROVE  EpochsPast' /\ OldCancelled'
    BY NextLedger, NoSplitStep DEF EpochInv, LedgerInv
  <2>1. CASE UNCHANGED takeoverVars
    BY <2>1 DEF EpochInv, EpochsPast, OldCancelled, Resurrecting, takeoverVars,
       storeVars, memoryVars, controlVars
  <2> QED
    BY <2>1, NextSplits, RunKeepsEpochs, GateKeepsEpochs, EnvKeepsEpochs
<1>3. Inv => StaleWorkerFenced
  <2> SUFFICES ASSUME EpochInv, NEW p \in Proc, run[p].op # None, Holds(p)
               PROVE  \/ wepoch[p[1]] = epoch
                      \/ \E w \in Worker : post[w].pc \in {"abandonOld", "cancelOld"}
    BY DEF StaleWorkerFenced
  <2>1. run[p].op \in Op
    BY DEF EpochInv, LedgerInv, TypeInv, ControlInv, ControlTypeOK, RunRow
  <2> QED
    BY <2>1 DEF Holds, MayWrite, EpochInv, OldCancelled, Resurrecting
<1> QED BY <1>1, <1>2, <1>3, PTL DEF Spec
=============================================================================
