------------------------------ MODULE TurnQueue ------------------------------
(****************************************************************************)
(* What becomes of a finished turn inside one ProxyState: the event loop    *)
(* reserves it and hands it to the tagging pool, the tagging thread may ask *)
(* for a compaction, requests for compaction are coalesced behind the run   *)
(* in progress, and the next request waits for what it depends on           *)
(* (proxy/state.py, fire_turn_complete to _run_compact_wrapper, and the     *)
(* waits of proxy/server.py).                                               *)
(*                                                                          *)
(* Both pools have one worker.  A future is an identity that is free again  *)
(* once its task has ended and nobody holds it.  What a run does to the     *)
(* store is CompactionTakeover; here it ends and may have moved the         *)
(* compacted prefix.  Lengths of histories are counted in turns.            *)
(****************************************************************************)
EXTENDS Integers, Sequences, FiniteSets, FiniteSetsExt

CONSTANTS
  Request,    \* requests the client has in flight at a time
  TagFuture,  \* futures of _pool: a bound on those in use at a time
  Future,     \* futures of _compact_pool, likewise
  Hash,       \* contents a turn may end with
  MaxTurn,    \* bound on the turns of the conversation
  Protected,  \* monitor.protected_recent_turns
  MaxExtra,   \* bound on late answers, takeovers, runs by hand, ingestions
  None

Turn == 1..MaxTurn
Target == 0..MaxTurn
Priority == {"soft", "hard"}

Demand == [target : Target, priority : Priority]

ASSUME QueueAssumption ==
  /\ MaxTurn \in Nat \ {0} /\ Protected \in Nat /\ MaxExtra \in Nat
  /\ None \notin Request \cup TagFuture \cup Future \cup Hash \cup Demand

VARIABLES
  turns,      \* completed turns of conversation_history
  index,      \* entries of the TurnTagIndex, per turn
  reserved,   \* _queued_tag_turns: the content reserved for a turn, or None
  ingesting,  \* whether the session is INGESTING
  loop,       \* the event loop, between two steps of one callback
  tagPool,    \* _pool: tasks not started
  tagger,     \* its thread
  pool,       \* _compact_pool: tasks not started
  compactor,  \* its thread
  pending,    \* _pending_tag, _pending_compact
  queued,     \* _queued_compaction_request, or None
  active,     \* _active_compaction_target_end
  prefix,     \* compacted_prefix_messages
  priority,   \* _last_compact_priority
  request,    \* per request: where its preparation stands
  extra       \* how many of them so far

vars == <<turns, index, reserved, ingesting, loop, tagPool, tagger, pool,
          compactor, pending, queued, active, prefix, priority, request, extra>>

\* _compaction_target_end.
TargetEnd(t) == IF t > Protected THEN t - Protected ELSE 0

Free == [pc |-> "free", turn |-> 0, hash |-> None, fut |-> None]
IdleTagger == [pc |-> "idle", turn |-> 0, hash |-> None, fut |-> None,
               priority |-> None, sub |-> None]
IdleCompactor == [pc |-> "idle", kind |-> None, target |-> 0, fut |-> None,
                  next |-> None, sub |-> None]

Init ==
  /\ turns = 0 /\ index = [t \in Turn |-> 0] /\ reserved = [t \in Turn |-> None]
  /\ ingesting = FALSE /\ loop = Free
  /\ tagPool = <<>> /\ tagger = IdleTagger
  /\ pool = <<>> /\ compactor = IdleCompactor
  /\ pending = [tag |-> None, compact |-> None]
  /\ queued = None /\ active = -1 /\ prefix = 0 /\ priority = None
  /\ request = [r \in Request |-> [pc |-> "idle", fut |-> None]]
  /\ extra = 0

-----------------------------------------------------------------------------
(* Futures.                                                                 *)

Unfinished ==
  ({tagPool[i].fut : i \in DOMAIN tagPool} \cup {pool[i].fut : i \in DOMAIN pool}
    \cup {tagger.fut, compactor.fut}) \ {None}

Done(f) == f \notin Unfinished

Held == {pending.tag, pending.compact, loop.fut, tagger.sub,
         compactor.sub}
          \cup {request[r].fut : r \in Request}

\* What the submit of a pool returns is nobody else's.
Unused(F) == F \ (Unfinished \cup Held)
Fresh(F) == CHOOSE f \in Unused(F) : TRUE

\* The types of the state.
TypeOK ==
  /\ turns \in Target /\ index \in [Turn -> 0..2] /\ ingesting \in BOOLEAN
  /\ reserved \in [Turn -> Hash \cup {None}]
  /\ loop \in [pc : {"free", "fire", "takeover", "assign"}, turn : Target,
               hash : Hash \cup {None}, fut : Future \cup {None}]
  /\ tagPool \in Seq([turn : Turn, hash : Hash, fut : TagFuture])
  /\ tagger \in [pc : {"idle", "tag", "queue", "activate", "submit", "assign",
                       "split", "finish"},
                 turn : Target, hash : Hash \cup {None}, fut : TagFuture \cup {None},
                 priority : Priority \cup {None}, sub : Future \cup {None}]
  /\ pool \in Seq([kind : {"wrapped", "direct", "split"}, target : Target,
                   fut : Future \cup {None}])
  /\ compactor \in [pc : {"idle", "run", "finally", "activate", "submit",
                          "assign", "return"},
                    kind : {"wrapped", "direct", "split", None},
                    target : Target, fut : Future \cup {None},
                    next : Demand \cup {None}, sub : Future \cup {None}]
  /\ pending \in [tag : TagFuture \cup {None}, compact : Future \cup {None}]
  /\ queued \in Demand \cup {None} /\ active \in Target \cup {-1}
  /\ prefix \in Target /\ priority \in Priority \cup {None}
  /\ request \in [Request -> [pc : {"idle", "tag", "compact", "inbound", "reply"},
                              fut : TagFuture \cup Future \cup {None}]]
  /\ extra \in 0..MaxExtra

-----------------------------------------------------------------------------
(* The event loop.                                                          *)

\* fire_turn_complete, up to its look at the index.  The snapshot ends with
\* the new turn, or with the last one again: a resend, or two answers that
\* belong to one turn.
Completed ==
  \E t \in {turns, turns + 1} \cap Turn, h \in Hash :
    /\ turns' = t
    /\ loop' = IF ingesting \/ index[t] > 0 THEN Free
               ELSE [Free EXCEPT !.pc = "fire", !.turn = t, !.hash = h]

FireTurnComplete(r) ==
  /\ request[r].pc = "reply" /\ loop = Free
  /\ request' = [request EXCEPT ![r] = [pc |-> "idle", fut |-> None]]
  /\ Completed
  /\ UNCHANGED <<index, reserved, ingesting, tagPool, tagger, pool, compactor,
                 pending, queued, active, prefix, priority, extra>>

\* The stream of an earlier request ends only now, beside a later one.
LateAnswer ==
  /\ turns > 0 /\ loop = Free /\ extra < MaxExtra /\ extra' = extra + 1
  /\ Completed
  /\ UNCHANGED <<index, reserved, ingesting, tagPool, tagger, pool, compactor,
                 pending, queued, active, prefix, priority, request>>

\* The reservation, under _background_state_lock, and the submission.
ReserveTurn ==
  LET t == loop.turn  h == loop.hash IN
  /\ loop.pc = "fire" /\ loop' = Free
  /\ \/ reserved[t] = h /\ UNCHANGED <<reserved, tagPool, pending>>
     \/ /\ reserved[t] # h /\ Unused(TagFuture) # {}
        /\ reserved' = [reserved EXCEPT ![t] = h]
        /\ tagPool' = Append(tagPool, [turn |-> t, hash |-> h, fut |-> Fresh(TagFuture)])
        /\ pending' = [pending EXCEPT !.tag = Fresh(TagFuture)]
  /\ UNCHANGED <<turns, index, ingesting, tagger, pool, compactor, queued, active,
                 prefix, priority, request, extra>>

\* The takeover of a peer's compaction submits over the whole history and
\* bypasses the queue: _submit_compaction_request from the phase gate.
TakeOver ==
  /\ loop = Free /\ ~ingesting /\ extra < MaxExtra /\ turns > 0
  /\ extra' = extra + 1
  /\ active' = turns
  /\ loop' = [Free EXCEPT !.pc = "takeover", !.turn = turns]
  /\ UNCHANGED <<turns, index, reserved, ingesting, tagPool, tagger, pool,
                 compactor, pending, queued, prefix, priority, request>>

Submitted(target) ==
  /\ Unused(Future) # {}
  /\ pool' = Append(pool, [kind |-> "wrapped", target |-> target, fut |-> Fresh(Future)])

SubmitTakeOver ==
  /\ loop.pc = "takeover"
  /\ Submitted(loop.turn) /\ loop' = [Free EXCEPT !.pc = "assign", !.fut = Fresh(Future)]
  /\ UNCHANGED <<turns, index, reserved, ingesting, tagPool, tagger, compactor,
                 pending, queued, active, prefix, priority, request, extra>>

AssignTakeOver ==
  /\ loop.pc = "assign" /\ loop' = Free
  /\ pending' = [pending EXCEPT !.compact = loop.fut]
  /\ UNCHANGED <<turns, index, reserved, ingesting, tagPool, tagger, pool,
                 compactor, queued, active, prefix, priority, request, extra>>

\* /vccompact submits _run_compact itself: no wrapper, no future kept.  Its
\* guard takes the prefix, counted in messages, from the entries of the index.
CompactByHand ==
  /\ loop = Free /\ extra < MaxExtra
  /\ Cardinality({t \in Turn : index[t] > 0}) >= 2 * prefix + 2
  /\ extra' = extra + 1
  /\ pool' = Append(pool, [kind |-> "direct", target |-> TargetEnd(turns), fut |-> None])
  /\ UNCHANGED <<turns, index, reserved, ingesting, loop, tagPool, tagger,
                 compactor, pending, queued, active, prefix, priority, request>>

-----------------------------------------------------------------------------
(* The request's waits.                                                     *)

requestRest == <<turns, index, reserved, ingesting, loop, tagPool, tagger, pool,
                 compactor, queued, active, prefix, priority, extra>>

Await(r, pc, f) == request' = [request EXCEPT ![r] = [pc |-> pc, fut |-> f]]

Arrive(r) ==
  /\ request[r].pc = "idle" /\ loop = Free /\ ~ingesting
  /\ Await(r, "tag", pending.tag)
  /\ UNCHANGED <<pending, requestRest>>

\* wait_for_tag, which clears _pending_tag whatever it holds by then; only
\* after a hard threshold does the request wait for the compaction.
WaitForTag(r) ==
  LET f == request[r].fut IN
  /\ request[r].pc = "tag" /\ Done(f)
  /\ pending' = IF f = None THEN pending ELSE [pending EXCEPT !.tag = None]
  /\ Await(r, IF priority = "hard" THEN "compact" ELSE "inbound", None)
  /\ UNCHANGED requestRest

\* wait_for_compact, at the head of its loop.
LookAtCompact(r) ==
  /\ request[r].pc = "compact" /\ request[r].fut = None
  /\ Await(r, IF pending.compact = None THEN "inbound" ELSE "compact", pending.compact)
  /\ UNCHANGED <<pending, requestRest>>

\* Mutant: the future is left for the next one to clear.
WaitForCompactForever(r) ==
  LET f == request[r].fut IN
  /\ request[r].pc = "compact" /\ f # None /\ Done(f)
  /\ Await(r, "compact", None)
  /\ UNCHANGED <<pending, requestRest>>

\* Its future is done: the wait is over, unless a follow-up has replaced it.
WaitForCompact(r) ==
  LET f == request[r].fut IN
  /\ request[r].pc = "compact" /\ f # None /\ Done(f)
  /\ \/ /\ pending.compact = f
        /\ pending' = [pending EXCEPT !.compact = None] /\ Await(r, "inbound", None)
     \/ pending.compact # f /\ Await(r, "compact", None) /\ UNCHANGED pending
  /\ UNCHANGED requestRest

\* on_message_inbound, then the upstream call.
Inbound(r) ==
  /\ request[r].pc = "inbound" /\ Await(r, "reply", None)
  /\ UNCHANGED <<pending, requestRest>>

-----------------------------------------------------------------------------
(* The tagging thread: _run_tag_turn.                                       *)

\* Mutant: the turn is not looked up again.
StartTaggingBlindly ==
  /\ tagger.pc = "idle" /\ tagPool # <<>>
  /\ tagPool' = Tail(tagPool)
  /\ tagger' = [IdleTagger EXCEPT !.pc = "tag", !.turn = Head(tagPool).turn,
                                  !.hash = Head(tagPool).hash, !.fut = Head(tagPool).fut]
  /\ UNCHANGED <<turns, index, reserved, ingesting, loop, pool, compactor,
                 pending, queued, active, prefix, priority, request, extra>>

\* Mutant: a turn that has its entry by now is left before the try block.
StartTaggingOrLeave ==
  LET task == Head(tagPool) IN
  /\ tagger.pc = "idle" /\ tagPool # <<>>
  /\ tagPool' = Tail(tagPool)
  /\ tagger' = IF index[task.turn] > 0 THEN IdleTagger
               ELSE [IdleTagger EXCEPT !.pc = "tag", !.turn = task.turn,
                                       !.hash = task.hash, !.fut = task.fut]
  /\ UNCHANGED <<turns, index, reserved, ingesting, loop, pool, compactor,
                 pending, queued, active, prefix, priority, request, extra>>

StartTagging ==
  LET task == Head(tagPool) IN
  /\ tagger.pc = "idle" /\ tagPool # <<>>
  /\ tagPool' = Tail(tagPool)
  /\ tagger' = [IdleTagger EXCEPT !.pc = IF index[task.turn] > 0 THEN "finish" ELSE "tag",
                                  !.turn = task.turn, !.hash = task.hash,
                                  !.fut = task.fut]
  /\ UNCHANGED <<turns, index, reserved, ingesting, loop, pool, compactor,
                 pending, queued, active, prefix, priority, request, extra>>

taggerRest == <<turns, reserved, ingesting, loop, tagPool, compactor, prefix,
                request, extra>>

\* engine.tag_turn: it may raise before the index has the entry, or after.
TagTurn ==
  LET t == tagger.turn
      tagged == [index EXCEPT ![t] = IF @ < 2 THEN @ + 1 ELSE @] IN
  /\ tagger.pc = "tag"
  /\ \/ /\ index' \in {index, tagged} /\ tagger' = [tagger EXCEPT !.pc = "finish"]
        /\ UNCHANGED priority
     \/ /\ index' = tagged /\ priority' = None
        /\ tagger' = [tagger EXCEPT !.pc = "split"]
     \/ \E p \in Priority :
          /\ index' = tagged /\ priority' = p
          /\ tagger' = [tagger EXCEPT !.priority = p,
                                      !.pc = IF ingesting THEN "split" ELSE "queue"]
  /\ UNCHANGED <<pool, pending, queued, active, taggerRest>>

Asked == [target |-> TargetEnd(tagger.turn), priority |-> tagger.priority]

\* Mutant: the queued request is kept whatever target comes.
KeepsFirst(d) == queued = None

\* _should_replace_compaction_request; "or -1" reads a target of 0 as none.
Replaces(d) ==
  \/ queued = None
  \/ d.target > (IF queued.target = 0 THEN -1 ELSE queued.target)
  \/ d.target = queued.target /\ d.priority = "hard" /\ queued.priority = "soft"

\* _queue_compaction under the lock: submit, or coalesce under the run in
\* progress, or leave the request for it to find.
QueueCompaction ==
  LET d == Asked
      busy == pending.compact # None /\ ~Done(pending.compact) IN
  /\ tagger.pc = "queue"
  /\ \/ /\ ~busy /\ tagger' = [tagger EXCEPT !.pc = "activate"] /\ UNCHANGED queued
     \/ /\ busy /\ tagger' = [tagger EXCEPT !.pc = "split"]
        /\ queued' = IF d.target > active /\ Replaces(d) THEN d ELSE queued
  /\ UNCHANGED <<index, pool, pending, active, priority, taggerRest>>

\* _submit_compaction_request: the target under the lock, the pool, the future.
ActivateTarget ==
  /\ tagger.pc = "activate" /\ active' = Asked.target
  /\ tagger' = [tagger EXCEPT !.pc = "submit"]
  /\ UNCHANGED <<index, pool, pending, queued, priority, taggerRest>>

SubmitCompaction ==
  /\ tagger.pc = "submit"
  /\ Submitted(Asked.target)
  /\ tagger' = [tagger EXCEPT !.pc = "assign", !.sub = Fresh(Future)]
  /\ UNCHANGED <<index, pending, queued, active, priority, taggerRest>>

AssignCompaction ==
  /\ tagger.pc = "assign"
  /\ pending' = [pending EXCEPT !.compact = tagger.sub]
  /\ tagger' = [tagger EXCEPT !.pc = "split", !.sub = None]
  /\ UNCHANGED <<index, pool, queued, active, priority, taggerRest>>

\* _queue_deferred_tag_split: one split at a time, in the compaction pool.
\* _pending_split is not done exactly as long as its task has not ended.
SplitPending ==
  compactor.kind = "split" \/ \E i \in DOMAIN pool : pool[i].kind = "split"

QueueTagSplit ==
  /\ tagger.pc = "split" /\ tagger' = [tagger EXCEPT !.pc = "finish", !.priority = None]
  /\ pool' = IF SplitPending THEN pool
             ELSE Append(pool, [kind |-> "split", target |-> 0, fut |-> None])
  /\ UNCHANGED <<index, pending, queued, active, priority, taggerRest>>

\* The finally block gives the reservation back if it is still this one.
FinishTagging ==
  LET t == tagger.turn IN
  /\ tagger.pc = "finish" /\ tagger' = IdleTagger
  /\ reserved' = IF reserved[t] = tagger.hash THEN [reserved EXCEPT ![t] = None]
                 ELSE reserved
  /\ UNCHANGED <<turns, index, ingesting, loop, tagPool, pool, compactor, pending,
                 queued, active, prefix, priority, request, extra>>

-----------------------------------------------------------------------------
(* The compaction thread.                                                   *)

compactorRest == <<turns, index, reserved, ingesting, loop, tagPool, tagger,
                   priority, request, extra>>

StartTask ==
  LET task == Head(pool) IN
  /\ compactor.pc = "idle" /\ pool # <<>>
  /\ pool' = Tail(pool)
  /\ compactor' = [IdleCompactor EXCEPT !.pc = "run", !.kind = task.kind,
                                        !.target = task.target, !.fut = task.fut]
  /\ UNCHANGED <<pending, queued, active, prefix, compactorRest>>

\* Mutant: the prefix counts the turn after the last one compacted.
FurtherTooFar == {p \in 0..(MaxTurn + 1) : prefix < p /\ p <= compactor.target + 1}

\* How far the run may have moved the prefix.
Further == {p \in Target : prefix < p /\ p <= compactor.target}

\* _run_compact has moved the prefix, or failed, or was skipped because an
\* ingestion thread compacts.
FinishRun ==
  /\ compactor.pc = "run"
  /\ prefix' \in {prefix} \cup Further
  /\ compactor' = IF compactor.kind = "wrapped" THEN [compactor EXCEPT !.pc = "finally"]
                  ELSE IdleCompactor
  /\ UNCHANGED <<pool, pending, queued, active, compactorRest>>

\* The finally block of _run_compact_wrapper, under the lock.
FinishWrapper ==
  LET follow == queued # None /\ queued.target > prefix IN
  /\ compactor.pc = "finally"
  /\ active' = -1 /\ queued' = None
  /\ compactor' = [compactor EXCEPT !.pc = IF follow THEN "activate" ELSE "return",
                                    !.target = 0,
                                    !.next = IF follow THEN queued ELSE None]
  /\ UNCHANGED <<pool, pending, prefix, compactorRest>>

\* The follow-up, submitted by the run that ends.
ActivateFollowUp ==
  /\ compactor.pc = "activate" /\ active' = compactor.next.target
  /\ compactor' = [compactor EXCEPT !.pc = "submit"]
  /\ UNCHANGED <<pool, pending, queued, prefix, compactorRest>>

SubmitFollowUp ==
  /\ compactor.pc = "submit"
  /\ Submitted(compactor.next.target)
  /\ compactor' = [compactor EXCEPT !.pc = "assign", !.sub = Fresh(Future)]
  /\ UNCHANGED <<pending, queued, active, prefix, compactorRest>>

AssignFollowUp ==
  /\ compactor.pc = "assign"
  /\ pending' = [pending EXCEPT !.compact = compactor.sub]
  /\ compactor' = [compactor EXCEPT !.pc = "return", !.next = None, !.sub = None]
  /\ UNCHANGED <<pool, queued, active, prefix, compactorRest>>

\* The task returns: only now is its future done.
Return ==
  /\ compactor.pc = "return" /\ compactor' = IdleCompactor
  /\ UNCHANGED <<pool, pending, queued, active, prefix, compactorRest>>

-----------------------------------------------------------------------------
(* Ingestion, which IngestionEpisode has in detail: while it lasts requests *)
(* pass through and no turn is handed over.                                 *)

BeginIngestion ==
  /\ ~ingesting /\ ingesting' = TRUE
  /\ extra < MaxExtra /\ extra' = extra + 1
  /\ UNCHANGED <<turns, index, reserved, loop, tagPool, tagger, pool, compactor,
                 pending, queued, active, prefix, priority, request>>

EndIngestion ==
  /\ ingesting /\ ingesting' = FALSE
  /\ UNCHANGED <<turns, index, reserved, loop, tagPool, tagger, pool, compactor,
                 pending, queued, active, prefix, priority, request, extra>>

-----------------------------------------------------------------------------
LoopStep == ReserveTurn \/ SubmitTakeOver \/ AssignTakeOver

RequestStep(r) ==
  \/ WaitForTag(r) \/ LookAtCompact(r) \/ WaitForCompact(r) \/ Inbound(r) \/ FireTurnComplete(r)

TaggerStep ==
  \/ StartTagging \/ TagTurn \/ QueueCompaction \/ ActivateTarget
  \/ SubmitCompaction \/ AssignCompaction \/ QueueTagSplit \/ FinishTagging

CompactorStep ==
  \/ StartTask \/ FinishRun \/ FinishWrapper \/ ActivateFollowUp
  \/ SubmitFollowUp \/ AssignFollowUp \/ Return

Next ==
  \/ \E r \in Request : Arrive(r) \/ RequestStep(r)
  \/ LoopStep \/ LateAnswer \/ TakeOver \/ CompactByHand
  \/ TaggerStep \/ CompactorStep
  \/ BeginIngestion \/ EndIngestion

Spec == Init /\ [][Next]_vars

\* The two pool threads and the event loop are scheduled, upstream answers.
Fairness ==
  /\ WF_vars(LoopStep) /\ WF_vars(TaggerStep) /\ WF_vars(CompactorStep)
  /\ \A r \in Request : WF_vars(RequestStep(r))

FairSpec == Spec /\ Fairness

-----------------------------------------------------------------------------
(* Properties.                                                              *)

\* A run inside _run_compact_wrapper.
Wrapped == compactor.kind = "wrapped" /\ compactor.pc \in {"run", "finally"}

\* Every target somebody still has in his hands.
Outstanding ==
  {pool[i].target : i \in {k \in DOMAIN pool : pool[k].kind = "wrapped"}}
    \cup (IF tagger.pc \in {"queue", "activate", "submit"} THEN {Asked.target} ELSE {})
    \cup (IF loop.pc = "takeover" THEN {loop.turn} ELSE {})
    \cup (IF Wrapped THEN {compactor.target} ELSE {})
    \cup (IF compactor.next # None /\ compactor.pc \in {"activate", "submit"}
          THEN {compactor.next.target} ELSE {})
    \cup (IF queued # None THEN {queued.target} ELSE {})

Owed == Max(Outstanding \cup {0})

\* Coalescing, replacing and dropping requests never loses the furthest one:
\* it is given up only when a run that reaches it has ended or the prefix has
\* passed it (_queue_compaction, _run_compact_wrapper).
Demands ==
  INSTANCE CompactionDemand WITH
    owed <- Owed,
    running <- IF Wrapped THEN compactor.target ELSE 0,
    compacted <- prefix
DemandSpec == Demands!Spec

\* A turn gets one entry in the index, although it may be fired again while
\* its task ends (the look at the index and the reservation are two steps).
TaggedOnce == \A t \in Turn : index[t] <= 1

\* A reservation is held by a task to come: one that outlives its tasks would
\* keep the turn from being tagged for ever.
ReservationsHaveTasks ==
  \A t \in Turn :
    reserved[t] # None =>
      \/ tagger.turn = t /\ tagger.hash = reserved[t]
      \/ \E i \in DOMAIN tagPool : tagPool[i].turn = t /\ tagPool[i].hash = reserved[t]

\* A request is not held back for ever by the tagging or the compaction it
\* waits for, however often the pending future is replaced.
WaitsEnd == \A r \in Request : request[r].pc \in {"tag", "compact"} ~> request[r].pc = "inbound"

\* server.py:1117: after a hard threshold the request is blocked until the
\* compaction has caught up.
HardIsCaughtUp ==
  \A r \in Request : request[r].pc = "inbound" /\ priority = "hard" => Owed = 0

\* engine.py:119: tag_turn never runs beside on_message_inbound.
TaggingExcludesInbound ==
  \A r \in Request : request[r].pc = "inbound" => tagger.pc # "tag"
=============================================================================
