--------------------------- MODULE CompactionTakeover ---------------------------
(****************************************************************************)
(* Compaction of one conversation by several workers: the compactor thread  *)
(* (ProxyState._run_compact and the pipeline it drives), its heartbeat      *)
(* sidecar, and the part of handle_prepare_payload that repairs, resurrects *)
(* or takes over (proxy/state.py, core/compaction_pipeline.py).             *)
(*                                                                          *)
(* A worker is one ProxyState.  It has two threads that may compact: "pool" *)
(* (_compact_pool, one thread, jobs in order) and "ingest" (the ingestion   *)
(* thread, through _compact_after_ingestion).  Requests of a conversation   *)
(* run on the event loop, one at a time.  Each step is one store call or    *)
(* one access to memory the worker's threads share.                         *)
(****************************************************************************)
EXTENDS ConversationStore

CONSTANTS
  Compactor,     \* workers where a threshold or an ingestion triggers compaction
  Poster,        \* workers that requests of this conversation reach
  Ingester,      \* workers whose ingestion side works
  Thread,        \* compacting threads of a worker, among "pool" and "ingest"
  MidMethodCrash \* may a worker die between two statements of a store method?

ASSUME ThreadAssumption ==
  /\ Compactor \cup Poster \cup Ingester \subseteq Worker
  /\ Thread \subseteq {"pool", "ingest"} /\ None \notin Thread
  /\ MidMethodCrash \in BOOLEAN

VARIABLES
  life,       \* has the process of this worker id started, or died?
  wepoch,     \* engine._engine_state.lifecycle_epoch
  activeOp,   \* ProxyState._active_compaction_op
  cancelled,  \* ProxyState._compaction_cancelled
  lock,       \* holder of ProxyState._compaction_lock
  queued,     \* takeover job waiting in _compact_pool
  run,        \* _run_compact on each thread
  post,       \* handle_prepare_payload on each worker
  minted,     \* operation ids handed out by uuid4
  deleting    \* statements of mark_conversation_deleted already executed

memoryVars == <<life, wepoch, activeOp, cancelled, lock, queued>>
controlVars == <<run, post, minted, deleting>>
takeoverVars == <<storeVars, memoryVars, controlVars>>

Proc == Worker \X Thread

RunPc == {"idle", "finalized", "lock", "enter", "insert", "probe", "load", "advance",
          "segment", "fact", "mark", "summary", "complete", "fail", "drain",
          "release", "clear"}
PostPc == {"idle", "gate", "resurrect", "abandonOld", "cancelOld", "snapshot",
           "repair", "claim", "claimUpdate", "predicate", "cleanup", "abandon",
           "deleteSegments", "deleteSummaries", "uncompact", "insert",
           "submit"}

RunRow == [pc : RunPc, op : Op \cup {None}, pre : BOOLEAN, entered : BOOLEAN,
           held : BOOLEAN, ep : 0..MaxEpoch, batch : SUBSET Row]
PostRow == [pc : PostPc, ep : 0..MaxEpoch, dead : Op \cup {None},
            new : Op \cup {None}]

NoRun == [pc |-> "idle", op |-> None, pre |-> FALSE, entered |-> FALSE,
          held |-> FALSE, ep |-> 0, batch |-> {}]
NoPost == [pc |-> "idle", ep |-> 0, dead |-> None, new |-> None]

ControlTypeOK ==
  /\ life \in [Worker -> {"unborn", "up", "down"}]
  /\ wepoch \in [Worker -> 0..MaxEpoch]
  /\ activeOp \in [Worker -> Op \cup {None}]
  /\ cancelled \in [Worker -> BOOLEAN]
  /\ lock \in [Worker -> Thread \cup {None}]
  /\ queued \in [Worker -> Op \cup {None}]
  /\ run \in [Proc -> RunRow]
  /\ post \in [Worker -> PostRow]
  /\ minted \subseteq Op
  /\ deleting \in 0..2

TypeOK == StoreTypeOK /\ ControlTypeOK

Init ==
  /\ StoreInit
  /\ life = [w \in Worker |-> "unborn"]
  /\ wepoch = [w \in Worker |-> 0]
  /\ activeOp = [w \in Worker |-> None]
  /\ cancelled = [w \in Worker |-> FALSE]
  /\ lock = [w \in Worker |-> None]
  /\ queued = [w \in Worker |-> None]
  /\ run = [p \in Proc |-> NoRun]
  /\ post = [w \in Worker |-> NoPost]
  /\ minted = {}
  /\ deleting = 0

RunAt(p, pc) == run[p].pc = pc /\ life[p[1]] = "up"
PostAt(w, pc) == post[w].pc = pc /\ life[w] = "up"
RunTo(p, pc) == run' = [run EXCEPT ![p] = [@ EXCEPT !.pc = pc]]
PostTo(w, pc) == post' = [post EXCEPT ![w] = [@ EXCEPT !.pc = pc]]
PostReturn(w) == post' = [post EXCEPT ![w] = NoPost]

\* uuid4 never repeats an id; the model reuses one that got no row.
Unused(o) == {x \in {o} : x # None /\ op[x].status = "absent"}

-----------------------------------------------------------------------------
(* _run_compact                                                             *)

\* The ingestion thread compacts right after it has finalized its episode and
\* set the phase (when that is, is left open here).
FinalizeIngestion(p) ==
  /\ RunAt(p, "idle") /\ p[2] = "ingest"
  /\ SetPhase(wepoch[p[1]], "active") /\ RunTo(p, "finalized")
  /\ UNCHANGED <<memoryVars, post, minted, deleting>>

\* A threshold or post-ingestion trigger: mint an id, publish it as ours.
BeginRun(p) ==
  LET w == p[1] IN
  /\ w \in Compactor /\ life[w] = "up"
  /\ \/ p[2] = "pool" /\ run[p].pc = "idle" /\ queued[w] = None
     \/ p[2] = "ingest" /\ run[p].pc = "finalized"
  /\ \E o \in Op \ minted :
       /\ run' = [run EXCEPT ![p] = [NoRun EXCEPT !.pc = "lock", !.op = o]]
       /\ activeOp' = [activeOp EXCEPT ![w] = o]
       /\ minted' = minted \cup {o}
  /\ UNCHANGED <<storeVars, life, wepoch, cancelled, lock, queued, post, deleting>>

\* The pool picks up a takeover job whose row cleanup already inserted.
BeginTakeoverRun(p) ==
  LET w == p[1] IN
  /\ RunAt(p, "idle") /\ p[2] = "pool" /\ queued[w] # None
  /\ run' = [run EXCEPT ![p] =
               [NoRun EXCEPT !.pc = "lock", !.op = queued[w], !.pre = TRUE]]
  /\ activeOp' = [activeOp EXCEPT ![w] = queued[w]]
  /\ queued' = [queued EXCEPT ![w] = None]
  /\ UNCHANGED <<storeVars, life, wepoch, cancelled, lock, post, minted, deleting>>

\* Mutant: the lock is not tried.
AcquireLockBlindly(p) ==
  LET w == p[1] IN
  /\ RunAt(p, "lock")
  /\ lock' = [lock EXCEPT ![w] = p[2]]
  /\ cancelled' = [cancelled EXCEPT ![w] = FALSE]
  /\ run' = [run EXCEPT ![p] =
               [@ EXCEPT !.pc = IF run[p].pre THEN "load" ELSE "enter",
                         !.entered = run[p].pre, !.ep = wepoch[w]]]
  /\ UNCHANGED <<storeVars, life, wepoch, activeOp, queued, post, minted, deleting>>

\* acquire(blocking=False); a run that finds the lock busy skips everything
\* but the finally block that forgets _active_compaction_op.
AcquireLock(p) ==
  LET w == p[1] IN
  /\ RunAt(p, "lock")
  /\ IF lock[w] # None
     THEN RunTo(p, "clear") /\ UNCHANGED <<lock, cancelled>>
     ELSE /\ lock' = [lock EXCEPT ![w] = p[2]]
          /\ cancelled' = [cancelled EXCEPT ![w] = FALSE]
          /\ run' = [run EXCEPT ![p] =
                       [@ EXCEPT !.pc = IF run[p].pre THEN "load" ELSE "enter",
                                 !.entered = run[p].pre, !.ep = wepoch[w]]]
  /\ UNCHANGED <<storeVars, life, wepoch, activeOp, queued, post, minted, deleting>>

\* enter_compaction: verify_epoch, then set_phase whatever the phase is.
EnterCompaction(p) ==
  LET w == p[1] IN
  /\ RunAt(p, "enter")
  /\ SetPhase(wepoch[w], "compacting")
  /\ run' = [run EXCEPT ![p] =
               [@ EXCEPT !.pc = IF wepoch[w] = epoch THEN "insert" ELSE "probe",
                         !.ep = wepoch[w]]]
  /\ UNCHANGED <<memoryVars, post, minted, deleting>>

InsertOperation(p) ==
  /\ RunAt(p, "insert")
  /\ StartCompactionOperation(p[1], run[p].ep, run[p].op)
  /\ RunTo(p, "probe")
  /\ UNCHANGED <<memoryVars, post, minted, deleting>>

\* entered_lifecycle is true when ANY operation is active at this epoch.
ProbeLifecycle(p) ==
  /\ RunAt(p, "probe")
  /\ run' = [run EXCEPT ![p] =
               [@ EXCEPT !.pc = "load", !.entered = ActiveOps(epoch) # {},
                         !.ep = wepoch[p[1]]]]
  /\ UNCHANGED <<storeVars, memoryVars, post, minted, deleting>>

\* _load_compactable_rows; the protected recent turns are not in the batch.
LoadRows(p) ==
  /\ RunAt(p, "load")
  /\ \E R \in SUBSET Uncompacted :
       run' = [run EXCEPT ![p] =
                 [@ EXCEPT !.pc = IF R = {} THEN "complete" ELSE "advance",
                           !.batch = R]]
  /\ UNCHANGED <<storeVars, memoryVars, post, minted, deleting>>

\* _compact_progress: InterruptedError once cancelled, else advance the row.
Progress(p) ==
  LET w == p[1] IN
  /\ run[p].pc \in {"advance", "segment", "fact", "mark"} /\ life[w] = "up"
  /\ ~run[p].held
  /\ IF cancelled[w]
     THEN RunTo(p, "fail") /\ UNCHANGED storeVars
     ELSE /\ AdvanceCompactionPhase(w, wepoch[w])
          /\ RunTo(p, IF run[p].pc = "advance" THEN "segment" ELSE run[p].pc)
  /\ UNCHANGED <<memoryVars, post, minted, deleting>>

\* The tag_summaries callback, whose exceptions the pipeline swallows.
ProgressAfterSummary(p) ==
  /\ RunAt(p, "complete") /\ run[p].batch # {} /\ ~cancelled[p[1]]
  /\ AdvanceCompactionPhase(p[1], wepoch[p[1]])
  /\ UNCHANGED <<memoryVars, controlVars>>

\* A guarded write either lands or raises CompactionLeaseLost.  On Postgres
\* its guard is read first (CheckGuard) and it lands when it commits.
Holds(p) == MayWrite(p[1], wepoch[p[1]], run[p].op)
WritePc == {"segment", "fact", "mark", "summary"}

CheckGuard(p) ==
  /\ Backend = "postgres" /\ run[p].pc \in WritePc /\ life[p[1]] = "up"
  /\ ~run[p].held
  /\ run' = [run EXCEPT ![p] = IF Holds(p) THEN [@ EXCEPT !.held = TRUE]
                               ELSE [@ EXCEPT !.pc = "fail"]]
  /\ UNCHANGED <<storeVars, memoryVars, post, minted, deleting>>

Held(p) == IF Backend = "sqlite" THEN Holds(p) ELSE run[p].held

WriteAt(p, pc, next) ==
  /\ RunAt(p, pc) /\ (Backend = "postgres" => run[p].held)
  /\ run' = [run EXCEPT ![p] = [@ EXCEPT !.pc = IF Held(p) THEN next ELSE "fail",
                                         !.held = FALSE]]
  /\ UNCHANGED <<memoryVars, post, minted, deleting>>

WriteSegment(p) ==
  WriteAt(p, "segment", "fact") /\ StoreSegment(run[p].op, Held(p))

WriteFacts(p) == WriteAt(p, "fact", "mark") /\ StoreFacts(run[p].op, Held(p))

MarkCompacted(p) ==
  /\ WriteAt(p, "mark", "summary")
  /\ MarkCanonicalTurnsCompacted(run[p].op, run[p].batch, Held(p))

WriteSummary(p) ==
  WriteAt(p, "summary", "complete") /\ SaveTagSummary(run[p].op, Held(p))

\* Any other exception of the pipeline (an LLM call, a locked database).
PipelineError(p) ==
  /\ run[p].pc \in {"load", "advance", "segment", "fact", "mark", "summary"}
  /\ life[p[1]] = "up"
  /\ run' = [run EXCEPT ![p] = [@ EXCEPT !.pc = "fail", !.held = FALSE]]
  /\ UNCHANGED <<storeVars, memoryVars, post, minted, deleting>>

\* exit_compaction(success): close the row, then drain in a second step.
ExitStatus(pc) == IF pc = "complete" THEN "completed" ELSE "failed"

ExitCompaction(p) ==
  LET w == p[1] IN
  /\ run[p].pc \in {"complete", "fail"} /\ life[w] = "up"
  /\ IF run[p].entered
     THEN /\ CloseCompactionOperation(w, wepoch[w], ExitStatus(run[p].pc))
          /\ run' = [run EXCEPT ![p] = [@ EXCEPT !.pc = "drain", !.ep = wepoch[w]]]
     ELSE UNCHANGED storeVars /\ RunTo(p, "release")
  /\ UNCHANGED <<memoryVars, post, minted, deleting>>

Drain(p) ==
  /\ RunAt(p, "drain")
  /\ DrainCompactionExit(p[1], run[p].ep)
  /\ RunTo(p, "release")
  /\ UNCHANGED <<memoryVars, post, minted, deleting>>

ReleaseLock(p) ==
  /\ RunAt(p, "release") /\ RunTo(p, "clear")
  /\ lock' = [lock EXCEPT ![p[1]] = None]
  /\ UNCHANGED <<storeVars, life, wepoch, activeOp, cancelled, queued, post,
                 minted, deleting>>

\* The finally blocks of _run_compact and, on the pool, of its wrapper follow
\* each other: an id published between them is lost like one before both.
ClearActiveOp(p) ==
  /\ RunAt(p, "clear")
  /\ activeOp' = [activeOp EXCEPT ![p[1]] = None]
  /\ run' = [run EXCEPT ![p] = NoRun]
  /\ minted' = minted \ Unused(run[p].op)
  /\ UNCHANGED <<storeVars, life, wepoch, cancelled, lock, queued, post, deleting>>

\* _run_compaction_heartbeat_sidecar, every TTL / 2 while the run works.
SidecarPc == {"load", "advance", "segment", "fact", "mark", "summary",
              "complete", "fail", "drain"}

Heartbeat(p) ==
  LET w == p[1]  held == MayWrite(w, run[p].ep, run[p].op) IN
  /\ run[p].pc \in SidecarPc /\ life[w] = "up"
  /\ RefreshCompactionHeartbeat(w, run[p].ep, run[p].op)
  /\ cancelled' = IF held THEN cancelled ELSE [cancelled EXCEPT ![w] = TRUE]
  /\ UNCHANGED <<life, wepoch, activeOp, lock, queued, controlVars>>

RunStep(p) ==
  \/ FinalizeIngestion(p) \/ BeginRun(p) \/ BeginTakeoverRun(p) \/ AcquireLock(p)
  \/ EnterCompaction(p) \/ InsertOperation(p) \/ ProbeLifecycle(p) \/ LoadRows(p)
  \/ Progress(p)
  \/ ProgressAfterSummary(p) \/ CheckGuard(p) \/ WriteSegment(p) \/ WriteFacts(p)
  \/ MarkCompacted(p) \/ WriteSummary(p) \/ PipelineError(p)
  \/ ExitCompaction(p) \/ Drain(p) \/ ReleaseLock(p) \/ ClearActiveOp(p)
  \/ Heartbeat(p)

-----------------------------------------------------------------------------
(* handle_prepare_payload up to and including the phase gate                *)

\* Steps 2 to 5: both verify_epoch calls and update_request_metadata succeed.
\* With a stale epoch the request raises and changes nothing.
PostBegin(w) ==
  /\ w \in Poster /\ PostAt(w, "idle") /\ wepoch[w] = epoch
  /\ post' = [post EXCEPT ![w] = [NoPost EXCEPT !.pc = "gate", !.ep = wepoch[w]]]
  /\ UNCHANGED <<storeVars, memoryVars, run, minted, deleting>>

\* A phase other than these two leads to the ingestion side (IngestionWork).
PhaseGate(w) ==
  /\ PostAt(w, "gate")
  /\ CASE phase = "compacting" -> PostTo(w, "snapshot")
       [] phase = "deleted" -> PostTo(w, "resurrect")
       [] OTHER -> PostReturn(w)
  /\ UNCHANGED <<storeVars, memoryVars, run, minted, deleting>>

ResurrectConversation(w) ==
  LET e2 == IF phase = "deleted" THEN epoch + 1 ELSE epoch IN
  /\ PostAt(w, "resurrect")
  /\ \/ /\ Backend = "sqlite" /\ Resurrect /\ PostReturn(w)
        /\ wepoch' = [wepoch EXCEPT ![w] = e2]
     \/ /\ Backend = "postgres" /\ BumpEpoch
        /\ IF phase = "deleted"
           THEN /\ post' = [post EXCEPT ![w] =
                              [@ EXCEPT !.pc = "abandonOld", !.ep = e2]]
                /\ UNCHANGED wepoch
           ELSE PostReturn(w) /\ wepoch' = [wepoch EXCEPT ![w] = e2]
  /\ UNCHANGED <<life, activeOp, cancelled, lock, queued, run, minted, deleting>>

Older(e) == {e1 \in Epoch : e1 < e}

AbandonOldEpisodes(w) ==
  /\ PostAt(w, "abandonOld") /\ AbandonEpisodes(Older(post[w].ep))
  /\ PostTo(w, "cancelOld")
  /\ UNCHANGED <<memoryVars, run, minted, deleting>>

CancelOldOps(w) ==
  /\ PostAt(w, "cancelOld") /\ CancelOps(Older(post[w].ep))
  /\ wepoch' = [wepoch EXCEPT ![w] = post[w].ep]
  /\ PostReturn(w)
  /\ UNCHANGED <<life, activeOp, cancelled, lock, queued, run, minted, deleting>>

\* Mutant: no repair of an orphan 'compacting'.
ReadSnapshotOnly(w) ==
  /\ PostAt(w, "snapshot")
  /\ IF ActiveOps(epoch) # {} /\ wepoch[w] = epoch THEN PostTo(w, "claim")
     ELSE PostReturn(w)
  /\ UNCHANGED <<storeVars, memoryVars, run, minted, deleting>>

\* read_progress_snapshot, then verify_epoch before a claim.
ReadSnapshot(w) ==
  /\ PostAt(w, "snapshot")
  /\ IF ActiveOps(epoch) = {} THEN PostTo(w, "repair")
     ELSE IF wepoch[w] = epoch THEN PostTo(w, "claim")
     ELSE PostReturn(w)
  /\ UNCHANGED <<storeVars, memoryVars, run, minted, deleting>>

\* ORPHAN_COMPACTING_REPAIR; a rejected write meets verify_epoch next.
RepairOrphanPhase(w) ==
  /\ PostAt(w, "repair") /\ SetPhase(post[w].ep, "active") /\ PostReturn(w)
  /\ UNCHANGED <<memoryVars, run, minted, deleting>>

\* The unique active operation at this epoch, as the claim's SELECT sees it.
Current(e) == IF ActiveOps(e) = {} THEN None ELSE CHOOSE o \in ActiveOps(e) : TRUE

ClaimTransaction(w) ==
  /\ Backend = "postgres" /\ PostAt(w, "claim")
  /\ ClaimCompactionLease(w, post[w].ep)
  /\ IF Claimable(w, post[w].ep) = {} THEN PostReturn(w)
     ELSE post' = [post EXCEPT ![w] =
                     [@ EXCEPT !.pc = "predicate", !.dead = Current(post[w].ep)]]
  /\ UNCHANGED <<memoryVars, run, minted, deleting>>

ClaimSelect(w) ==
  /\ Backend = "sqlite" /\ PostAt(w, "claim")
  /\ post' = [post EXCEPT ![w] =
                [@ EXCEPT !.pc = "claimUpdate", !.dead = Current(post[w].ep)]]
  /\ UNCHANGED <<storeVars, memoryVars, run, minted, deleting>>

ClaimUpdate(w) ==
  /\ PostAt(w, "claimUpdate") /\ ClaimCompactionLease(w, post[w].ep)
  /\ IF Claimable(w, post[w].ep) = {} THEN PostReturn(w) ELSE PostTo(w, "predicate")
  /\ UNCHANGED <<memoryVars, run, minted, deleting>>

\* Our own live operation needs no takeover; otherwise mint its successor.
TakeoverPredicate(w) ==
  /\ PostAt(w, "predicate")
  /\ IF activeOp[w] = post[w].dead \/ post[w].dead = None
     THEN PostReturn(w) /\ UNCHANGED minted
     ELSE \E o \in Op \ minted :
            /\ minted' = minted \cup {o}
            /\ post' = [post EXCEPT ![w] =
                 [@ EXCEPT !.new = o,
                           !.pc = IF Backend = "postgres" THEN "cleanup"
                                  ELSE "abandon"]]
  /\ UNCHANGED <<storeVars, memoryVars, run, deleting>>

CleanupTransaction(w) ==
  /\ PostAt(w, "cleanup")
  /\ CleanupAbandonedCompaction(w, post[w].ep, post[w].dead, post[w].new)
  /\ IF FreshTakeover(post[w].ep, post[w].dead)
     THEN PostTo(w, "submit") /\ UNCHANGED minted
     ELSE PostReturn(w) /\ minted' = minted \ {post[w].new}
  /\ UNCHANGED <<memoryVars, run, deleting>>

\* The same method on SQLite, one autocommitted statement at a time.
CleanupAbandon(w) ==
  /\ PostAt(w, "abandon") /\ AbandonOp(post[w].ep, post[w].dead)
  /\ post' = [post EXCEPT ![w] =
                [@ EXCEPT !.pc = "deleteSegments",
                          !.new = IF FreshTakeover(post[w].ep, post[w].dead)
                                  THEN post[w].new ELSE None]]
  /\ minted' = IF FreshTakeover(post[w].ep, post[w].dead) THEN minted
               ELSE minted \ {post[w].new}
  /\ UNCHANGED <<memoryVars, run, deleting>>

CleanupSegments(w) ==
  /\ PostAt(w, "deleteSegments") /\ DeleteSegments(post[w].dead)
  /\ PostTo(w, "deleteSummaries")
  /\ UNCHANGED <<memoryVars, run, minted, deleting>>

CleanupSummaries(w) ==
  /\ PostAt(w, "deleteSummaries") /\ DeleteSummaries(post[w].dead)
  /\ PostTo(w, "uncompact")
  /\ UNCHANGED <<memoryVars, run, minted, deleting>>

CleanupTurns(w) ==
  /\ PostAt(w, "uncompact") /\ Uncompact(post[w].dead)
  /\ IF post[w].new = None THEN PostReturn(w) ELSE PostTo(w, "insert")
  /\ UNCHANGED <<memoryVars, run, minted, deleting>>

CleanupInsert(w) ==
  /\ PostAt(w, "insert") /\ InsertRunning(w, post[w].ep, post[w].new)
  /\ IF ActiveOps(post[w].ep) = {} THEN PostTo(w, "submit") /\ UNCHANGED minted
     ELSE PostReturn(w) /\ minted' = minted \ {post[w].new}
  /\ UNCHANGED <<memoryVars, run, deleting>>

\* _submit_compaction_request publishes the id, then queues the job.  One
\* waiting takeover job per pool is the model's bound.
SubmitTakeover(w) ==
  /\ PostAt(w, "submit") /\ queued[w] = None
  /\ activeOp' = [activeOp EXCEPT ![w] = post[w].new]
  /\ queued' = [queued EXCEPT ![w] = post[w].new]
  /\ PostReturn(w)
  /\ UNCHANGED <<storeVars, life, wepoch, cancelled, lock, run, minted, deleting>>

\* The executor refuses the job (it is shutting down).
SubmitRefused(w) ==
  /\ PostAt(w, "submit") /\ PostReturn(w)
  /\ activeOp' = [activeOp EXCEPT ![w] = None]
  /\ UNCHANGED <<storeVars, life, wepoch, cancelled, lock, queued, run, minted,
                 deleting>>

GateStep(w) ==
  \/ PostBegin(w) \/ PhaseGate(w) \/ ResurrectConversation(w)
  \/ AbandonOldEpisodes(w) \/ CancelOldOps(w) \/ ReadSnapshot(w)
  \/ RepairOrphanPhase(w) \/ ClaimTransaction(w) \/ ClaimSelect(w)
  \/ ClaimUpdate(w) \/ TakeoverPredicate(w) \/ CleanupTransaction(w)
  \/ CleanupAbandon(w) \/ CleanupSegments(w) \/ CleanupSummaries(w)
  \/ CleanupTurns(w) \/ CleanupInsert(w) \/ SubmitTakeover(w) \/ SubmitRefused(w)

-----------------------------------------------------------------------------
(* Processes start and die; the admin deletes; the other subsystems work.   *)

StartWorker(w) ==
  /\ life[w] = "unborn"
  /\ life' = [life EXCEPT ![w] = "up"]
  /\ wepoch' = [wepoch EXCEPT ![w] = epoch]
  /\ UNCHANGED <<storeVars, activeOp, cancelled, lock, queued, controlVars>>

\* Between the statements of one autocommitted store method.
MidMethodPc == {"deleteSegments", "deleteSummaries", "uncompact",
                "insert", "abandonOld", "cancelOld"}

\* A crash loses the memory and every thread; at least one worker id survives.
Crash(w) ==
  /\ life[w] = "up" /\ \E v \in Worker \ {w} : life[v] # "down"
  /\ post[w].pc \in MidMethodPc => MidMethodCrash
  /\ life' = [life EXCEPT ![w] = "down"]
  /\ wepoch' = [wepoch EXCEPT ![w] = 0]
  /\ activeOp' = [activeOp EXCEPT ![w] = None]
  /\ cancelled' = [cancelled EXCEPT ![w] = FALSE]
  /\ lock' = [lock EXCEPT ![w] = None]
  /\ queued' = [queued EXCEPT ![w] = None]
  /\ run' = [p \in Proc |-> IF p[1] = w THEN NoRun ELSE run[p]]
  /\ post' = [post EXCEPT ![w] = NoPost]
  /\ minted' = minted \ UNION {Unused(o) : o \in
                 {post[w].new} \cup {run[<<w, t>>].op : t \in Thread}}
  /\ UNCHANGED <<storeVars, deleting>>

\* The bound MaxEpoch also bounds deletions.
DeletePhase ==
  /\ deleting = 0 /\ epoch < MaxEpoch /\ MarkDeleted /\ deleting' = 1
  /\ UNCHANGED <<memoryVars, run, post, minted>>

DeleteEpisodes ==
  /\ deleting = 1 /\ AbandonEpisodes(Epoch) /\ deleting' = 2
  /\ UNCHANGED <<memoryVars, run, post, minted>>

DeleteOps ==
  /\ deleting = 2 /\ CancelOps(Epoch) /\ deleting' = 0
  /\ UNCHANGED <<memoryVars, run, post, minted>>

Admin == DeletePhase \/ DeleteEpisodes \/ DeleteOps

Lapse(o) == OpHeartbeatLapses(o) /\ UNCHANGED <<memoryVars, controlVars>>

\* Rows that requests bring and the tagger tags, and the phase writes of the
\* ingestion side (handle_prepare_payload after the gate, the finalizers).
RowArrives(r) ==
  /\ tagging[r] = "absent" /\ ArriveRow(r)
  /\ UNCHANGED <<memoryVars, controlVars>>

IngestionWork(w) ==
  /\ w \in Ingester
  /\ life[w] = "up"
  /\ \/ \E r \in Row : MarkCanonicalRowTagged(wepoch[w], r)
     \/ \E p \in {"active", "ingesting"} : SetPhase(wepoch[w], p)
     \/ UpsertIngestionEpisode(w, wepoch[w])
     \/ CompleteIngestionEpisode(w, wepoch[w])
  /\ UNCHANGED <<memoryVars, controlVars>>

Next ==
  \/ \E p \in Proc : RunStep(p)
  \/ \E w \in Worker : GateStep(w) \/ StartWorker(w) \/ Crash(w)
                       \/ IngestionWork(w)
  \/ \E o \in Op : Lapse(o)
  \/ \E r \in Row : RowArrives(r)
  \/ Admin

Spec == Init /\ [][Next]_takeoverVars

\* Live threads keep going and the pool takes its jobs, requests keep coming,
\* processes start, and the heartbeat of a dead owner grows old.  Nothing is
\* assumed of triggers, crashes, heartbeats, deletions or the ingestion side.
RunForward(p) ==
  /\ run[p].pc \notin {"idle", "finalized"} \/ (p[2] = "pool" /\ queued[p[1]] # None)
  /\ RunStep(p) /\ run'[p].pc # run[p].pc
DeadLapse(o) == op[o].owner # None /\ life[op[o].owner] = "down" /\ Lapse(o)

FairSpec ==
  /\ Spec
  /\ \A p \in Proc : WF_takeoverVars(RunForward(p))
  /\ \A w \in Poster : WF_takeoverVars(GateStep(w))
  /\ WF_takeoverVars(\E w \in Worker : StartWorker(w))
  /\ WF_takeoverVars(\E o \in Op : DeadLapse(o))

-----------------------------------------------------------------------------
(* Safety                                                                   *)

BeingCleaned(o) ==
  \E w \in Worker :
    /\ post[w].dead = o
    /\ post[w].pc \in {"deleteSegments", "deleteSummaries", "uncompact"}

\* What cleanup_abandoned_compaction promises: once it has run, the abandoned
\* operation owns no segment, no tag summary and no compaction mark, and its
\* stale compactor adds none.
AbandonedLeavesNothing ==
  \A o \in Op : op[o].status = "abandoned" /\ ~BeingCleaned(o) =>
    /\ o \notin segments /\ summary # o
    /\ \A r \in Row : compactedBy[r] # o

\* Marking turns compacted hides them from later compactions, so the segments
\* that hold their text are there (core/compaction_pipeline.py writes segments
\* first, cleanup deletes them and clears the marks).
CompactedHasSegments ==
  \A r \in Row : compactedBy[r] # None =>
    compactedBy[r] \in segments \/ BeingCleaned(compactedBy[r])

\* Within one lifecycle epoch a turn is compacted at most once unless its mark
\* was cleared: a batch read before a takeover is never marked after it.
NeverRecompacted ==
  [][\A r \in Row : compactedBy[r] # None /\ compactedBy'[r] # compactedBy[r] =>
       \/ compactedBy'[r] = None
       \/ op[compactedBy[r]].ep # op[compactedBy'[r]].ep]_takeoverVars

\* A worker whose lifecycle epoch is stale holds no operation that passes the
\* write guards, but while a resurrect on Postgres is between its statements.
StaleWorkerFenced ==
  \A p \in Proc : life[p[1]] = "up" /\ run[p].op # None /\ Holds(p) =>
    \/ wepoch[p[1]] = epoch
    \/ \E w \in Worker : post[w].pc \in {"abandonOld", "cancelOld"}

\* The two compacting threads of a worker share _active_compaction_op and
\* _compaction_cancelled; _compaction_lock keeps their pipelines apart although
\* a run that finds it busy still goes through the same finally blocks.
PipelinePc == RunPc \ {"idle", "finalized", "lock", "clear"}

PipelinesExclude ==
  \A p, q \in Proc : p[1] = q[1] /\ run[p].pc \in PipelinePc
                     /\ run[q].pc \in PipelinePc => p = q

\* A run leaves 'compacting' only if it owned that phase: no other worker's
\* operation is running.
DrainsOnlyOwnPhase ==
  [][\A p \in Proc : run[p].pc = "drain" /\ run'[p].pc = "release"
                     /\ phase = "compacting" /\ phase' # "compacting"
       => \A o \in ActiveOps(epoch) : op[o].owner = p[1] \/ op[o].status = "queued"
      ]_takeoverVars

\* The compaction_operation rows keep the promises of OperationLedger.
Ledger == INSTANCE OperationLedger
LedgerSpec == Ledger!Spec

-----------------------------------------------------------------------------
(* Liveness                                                                 *)

SomeoneServes == \E w \in Poster : life[w] # "down"
Orphaned(o, st) ==
  /\ op[o].status = st /\ life[op[o].owner] = "down"
  /\ phase = "compacting"

\* The model has no id left for a takeover, or nobody to take over.
OutOfBounds == (\A o \in Op : op[o].status # "absent") \/ ~SomeoneServes

\* The compaction of a worker that died does not keep the conversation in
\* 'compacting': the requests that still come take it over.
DeadCompactionIsTakenOver ==
  \A o \in Op : Orphaned(o, "running") ~>
    (op[o].status # "running" \/ phase # "compacting" \/ OutOfBounds)

\* The same for one that died before its first phase advance.
QueuedCompactionIsTakenOver ==
  \A o \in Op : Orphaned(o, "queued") ~>
    (op[o].status # "queued" \/ phase # "compacting" \/ OutOfBounds)

\* 'compacting' without an active operation does not last.
OrphanPhaseIsLeft ==
  (phase = "compacting" /\ ActiveOps(epoch) = {}) ~>
    (phase # "compacting" \/ ActiveOps(epoch) # {} \/ OutOfBounds)
=============================================================================
