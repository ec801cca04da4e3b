-------------------------- MODULE ConversationMerge --------------------------
(****************************************************************************)
(* VCMERGE moves the rows of one conversation (the source) into another     *)
(* (the target) and leaves an alias behind; VCATTACH only writes an alias.  *)
(* Both run beside requests whose engines were bound earlier                *)
(* (storage/{sqlite,postgres}.py, engine.py, core/alias_resolution.py,      *)
(* proxy/vcattach.py).                                                      *)
(*                                                                          *)
(* The merge body is one transaction.  On SQLite BEGIN IMMEDIATE keeps every *)
(* other writer out.  On Postgres it holds its merge_audit row and the       *)
(* conversation_lifecycle rows of source and target, taken in sorted order,  *)
(* and only writers that take those rows wait: its steps here are the lock   *)
(* requests, the checks, the UPDATEs that move the rows, and the commit,     *)
(* which makes everything it wrote visible at once.                          *)
(*                                                                          *)
(* Abstractions: of the moved tables, request_context and tool_calls stand   *)
(* for all (both carry a request turn; only the writer of the first locks).  *)
(* One tenant; deletion and lifecycle epochs are in ConversationStore, so    *)
(* the tenant and epoch checks never fail here.  A running ingestion episode *)
(* stands for a compaction as well: the body refuses both in the same way.   *)
(* The 50-row trim of both tables and tag conflicts are left out.            *)
(****************************************************************************)
EXTENDS Naturals, FiniteSets

CONSTANTS
  MaxConv,     \* conversations are 1..MaxConv, in the order of their ids
  Merge,       \* merge ids
  Attach,      \* VCATTACH commands
  Request,     \* proxied requests
  MaxTurn,     \* bound on request turns
  None,        \* no conversation / no merge
  Postgres     \* TRUE: row locks; FALSE: SQLite's single writer

Conv == 1..MaxConv

\* max_hops of walk_conversation_alias_chain.
MaxHops == 8

ASSUME MergeAssumption ==
  /\ MaxConv \in Nat /\ MaxTurn \in Nat
  /\ None \notin Conv /\ None \notin Merge
  /\ Postgres \in BOOLEAN

VARIABLES
  phase,    \* conversations.phase
  episode,  \* is there a running ingestion_episode row?
  alias,    \* conversation_aliases: target_id by alias_id, or None
  counter,  \* request_turn_counters: the last turn allocated, 0 = no row
  row,      \* request_context and tool_calls rows, one of each per request
  audit,    \* merge_audit rows
  lock,     \* who holds the conversation_lifecycle row FOR UPDATE
  pc,       \* where the handler of each merge is
  offset,   \* request_turn_offset of an open body
  taken,    \* rows an open body has updated
  req,      \* where each request is
  bound,    \* the conversation its engine is bound to
  seen,     \* the phase handle_prepare_payload read for it
  turn,     \* the turn save_request_context returned to it
  att,      \* where each VCATTACH is
  edge      \* its old and target conversations

mergeVars == <<audit, lock, pc, offset, taken>>
requestVars == <<req, bound, seen, turn>>
attachVars == <<att, edge>>
convVars == <<phase, episode, alias, counter, row>>
vars == <<convVars, mergeVars, requestVars, attachVars>>

Phase == {"active", "ingesting", "merged"}
Table == {"request_context", "tool_calls"}
RowId == Table \X Request
Row == [conv : Conv \cup {None}, turn : 0..MaxTurn, movedBy : SUBSET Merge]
NoRow == [conv |-> None, turn |-> 0, movedBy |-> {}]
AuditRow == [status : {"none", "in_progress", "committed", "rolled_back"},
             source : Conv \cup {None}, target : Conv \cup {None}]
NoAudit == [status |-> "none", source |-> None, target |-> None]

Init ==
  /\ phase = [c \in Conv |-> "active"]
  /\ episode = [c \in Conv |-> FALSE]
  /\ alias = [c \in Conv |-> None]
  /\ counter = [c \in Conv |-> 0]
  /\ row = [i \in RowId |-> NoRow]
  /\ audit = [m \in Merge |-> NoAudit]
  /\ lock = [c \in Conv |-> None]
  /\ pc = [m \in Merge |-> "idle"]
  /\ offset = [m \in Merge |-> 0]
  /\ taken = [m \in Merge |-> {}]
  /\ req = [r \in Request |-> "idle"]
  /\ bound = [r \in Request |-> None]
  /\ seen = [r \in Request |-> "active"]
  /\ turn = [r \in Request |-> 0]
  /\ att = [x \in Attach |-> "idle"]
  /\ edge = [x \in Attach |-> <<None, None>>]

-----------------------------------------------------------------------------
Source(m) == audit[m].source
Target(m) == audit[m].target
First(m) == IF Source(m) < Target(m) THEN Source(m) ELSE Target(m)

\* The transaction of the body is open.
Open(m) == pc[m] \in {"opened", "half", "checked", "moved"}

\* SQLite has one writer at a time; Postgres lets the others write.
MayWrite == Postgres \/ \A m \in Merge : ~Open(m)

IsMax(k, S) == k \in S /\ \A x \in S : x <= k

RowsOf(c) == {i \in RowId : row[i].conv = c}

\* The audit row of an active merge of source c (idx_merge_audit_active_source).
ActiveMerges(c) ==
  {m \in Merge : Source(m) = c /\ audit[m].status \in {"in_progress", "committed"}}

\* Mutant: the list of busy phases without 'merged'.
NotBusy(c) == phase[c] # "ingesting" /\ ~episode[c]

\* Of the phases here, ingesting and merged are refused, and so is an episode.
Mergeable(c) == phase[c] = "active" /\ ~episode[c]

\* walk_conversation_alias_chain: None stands for its cycle and max_hops errors.
Terminal(c) ==
  LET hop[n \in 0..MaxHops] ==
        IF n = 0 THEN c
        ELSE IF alias[hop[n-1]] = None THEN hop[n-1] ELSE alias[hop[n-1]]
      last == hop[MaxHops - 1]
  IN  IF alias[last] = None THEN last ELSE None

Attachable(c) == phase[c] # "merged"

-----------------------------------------------------------------------------
(* The merge.                                                                *)

\* try_reserve_merge_audit_in_progress for a merge of s into t.
Reserve(m, s, t) ==
  /\ pc[m] = "idle" /\ MayWrite
  /\ IF ActiveMerges(s) = {}
     THEN /\ audit' = [audit EXCEPT ![m] =
                         [status |-> "in_progress", source |-> s, target |-> t]]
          /\ pc' = [pc EXCEPT ![m] = "reserved"]
     ELSE /\ pc' = [pc EXCEPT ![m] = "done"]
          /\ UNCHANGED audit
  /\ UNCHANGED <<convVars, lock, offset, taken, requestVars, attachVars>>

\* Mutant: the body trusts the reservation it was given.
BeginUnreserved(m) ==
  /\ pc[m] = "reserved" /\ MayWrite
  /\ pc' = [pc EXCEPT ![m] = "opened"]
  /\ UNCHANGED <<convVars, audit, lock, offset, taken, requestVars, attachVars>>

\* The body begins; without its in_progress row it raises MergeAuditMissing.
\* From here on Postgres holds the audit row FOR UPDATE.
Begin(m) ==
  /\ pc[m] = "reserved" /\ MayWrite
  /\ pc' = [pc EXCEPT ![m] = IF audit[m].status = "in_progress"
                             THEN "opened" ELSE "raised"]
  /\ UNCHANGED <<convVars, audit, lock, offset, taken, requestVars, attachVars>>

\* Mutant: source first, then target, whatever their order.
LockSourceFirst(m) ==
  /\ pc[m] = "opened" /\ lock[Source(m)] = None
  /\ lock' = [lock EXCEPT ![Source(m)] = m]
  /\ pc' = [pc EXCEPT ![m] = "half"]
  /\ UNCHANGED <<convVars, audit, offset, taken, requestVars, attachVars>>

\* The conversation_lifecycle row that sorts first ...
Lock(m) ==
  /\ pc[m] = "opened" /\ lock[First(m)] = None
  /\ lock' = [lock EXCEPT ![First(m)] = m]
  /\ pc' = [pc EXCEPT ![m] = "half"]
  /\ UNCHANGED <<convVars, audit, offset, taken, requestVars, attachVars>>

\* The transaction of the body ends, and the handler goes on at p.
EndBody(m, p) ==
  /\ lock' = [c \in Conv |-> IF lock[c] = m THEN None ELSE lock[c]]
  /\ offset' = [offset EXCEPT ![m] = 0]
  /\ taken' = [taken EXCEPT ![m] = {}]
  /\ pc' = [pc EXCEPT ![m] = p]

\* The candidates of request_turn_offset: one past every turn of the target,
\* and its counter.
OffsetFloor(c) == {1, counter[c]} \cup {row[i].turn + 1 : i \in RowsOf(c)}

\* ... then the other one; then phases and running episodes are checked again
\* and the offset is computed.
Check(m) ==
  /\ pc[m] = "half" /\ \A c \in {Source(m), Target(m)} : lock[c] \in {None, m}
  /\ IF Mergeable(Source(m)) /\ Mergeable(Target(m))
     THEN \E k \in 1..MaxTurn :
            /\ IsMax(k, OffsetFloor(Target(m)))
            /\ lock' = [lock EXCEPT ![Source(m)] = m, ![Target(m)] = m]
            /\ offset' = [offset EXCEPT ![m] = k]
            /\ pc' = [pc EXCEPT ![m] = "checked"]
            /\ UNCHANGED taken
     ELSE EndBody(m, "raised")
  /\ UNCHANGED <<convVars, audit, requestVars, attachVars>>

\* The per-table UPDATEs see the rows committed by now.
Move(m) ==
  /\ pc[m] = "checked"
  /\ taken' = [taken EXCEPT ![m] = RowsOf(Source(m))]
  /\ pc' = [pc EXCEPT ![m] = "moved"]
  /\ UNCHANGED <<convVars, audit, lock, offset, requestVars, attachVars>>

MovedRow(m, i) == [conv |-> Target(m), turn |-> row[i].turn + offset[m],
                   movedBy |-> row[i].movedBy \cup {m}]

\* The rows once the body's updates are visible.
RowsAfter(m) == [i \in RowId |-> IF i \in taken[m] THEN MovedRow(m, i) ELSE row[i]]

\* The counter of the target: past every turn that is there now.
CounterFloor(m, after) ==
  {counter[Target(m)]}
    \cup {after[i].turn + 1 : i \in {j \in RowId : after[j].conv = Target(m)}}

\* Source counter deleted, target's bumped, alias saved, phase flipped, audit
\* finalized: all of it visible at COMMIT.
Commit(m) ==
  /\ pc[m] = "moved"
  /\ row' = RowsAfter(m)
  /\ \E k \in 0..MaxTurn :
       /\ IsMax(k, CounterFloor(m, row'))
       /\ counter' = [counter EXCEPT ![Source(m)] = 0, ![Target(m)] = k]
  /\ \A i \in RowId : row'[i].turn <= MaxTurn
  /\ alias' = [alias EXCEPT ![Source(m)] = Target(m)]
  /\ phase' = [phase EXCEPT ![Source(m)] = "merged"]
  /\ audit' = [audit EXCEPT ![m].status =
                  IF @ = "in_progress" THEN "committed" ELSE @]
  /\ EndBody(m, "committed")
  /\ UNCHANGED <<episode, requestVars, attachVars>>

\* Any statement of the body may fail, and the process may die in it: the
\* transaction rolls back and the exception reaches the caller.
Fail(m) ==
  /\ Open(m)
  /\ EndBody(m, "raised")
  /\ UNCHANGED <<convVars, audit, requestVars, attachVars>>

\* The invalidation callbacks run after the commit.  InvalidationFailedError is
\* logged; any other exception reaches the caller of a merge that is durable.
FlushHooks(m) ==
  /\ pc[m] = "committed"
  /\ \E p \in {"raised", "done"} : pc' = [pc EXCEPT ![m] = p]
  /\ UNCHANGED <<convVars, audit, lock, offset, taken, requestVars, attachVars>>

RolledBack(m) == [audit EXCEPT ![m].status = "rolled_back"]

\* The caller's except clause: _mark_merge_rolled_back.
MarkRolledBack(m) ==
  /\ pc[m] = "raised" /\ MayWrite
  /\ audit' = IF audit[m].status = "in_progress" THEN RolledBack(m) ELSE audit
  /\ pc' = [pc EXCEPT ![m] = "done"]
  /\ UNCHANGED <<convVars, lock, offset, taken, requestVars, attachVars>>

\* The sweeper of stale reservations (outside this repository), which may find
\* a reservation whose handler is slow, not dead.  An open body holds the row.
SweepReservation(m) ==
  /\ audit[m].status = "in_progress" /\ ~Open(m) /\ MayWrite
  /\ audit' = RolledBack(m)
  /\ UNCHANGED <<convVars, lock, pc, offset, taken, requestVars, attachVars>>

-----------------------------------------------------------------------------
(* A proxied request.                                                        *)

\* The engine is bound to c and handle_prepare_payload reads the phase of c.
\* One step: an engine bound earlier is a cached one.
BindTo(r, c) ==
  /\ bound' = [bound EXCEPT ![r] = c]
  /\ seen' = [seen EXCEPT ![r] = phase[c]]
  /\ req' = [req EXCEPT ![r] = "bound"]

\* Mutant: resolution errors are swallowed and the raw chain end is used.
ConstructAnyway(r, c) ==
  /\ req[r] = "idle"
  /\ bound' = [bound EXCEPT ![r] = Terminal(c)]
  /\ seen' = [seen EXCEPT ![r] = phase[c]]
  /\ req' = [req EXCEPT ![r] = "bound"]
  /\ UNCHANGED <<convVars, mergeVars, turn, attachVars>>

\* VirtualContextEngine.__init__ for conversation c.  The terminal is checked
\* only when it is not c itself.
Construct(r, c) ==
  /\ req[r] = "idle"
  /\ IF Terminal(c) # None /\ (Terminal(c) = c \/ Attachable(Terminal(c)))
     THEN BindTo(r, Terminal(c))
     ELSE /\ req' = [req EXCEPT ![r] = "done"]
          /\ UNCHANGED <<bound, seen>>
  /\ UNCHANGED <<convVars, mergeVars, turn, attachVars>>

\* An engine built when c had no alias and still in the registry's cache:
\* eviction is best effort.
UseCached(r, c) ==
  /\ req[r] = "idle"
  /\ BindTo(r, c)
  /\ UNCHANGED <<convVars, mergeVars, turn, attachVars>>

\* handle_prepare_payload, with untagged rows, opens an episode, after setting
\* the phase to ingesting if it was active when it was read.  Nothing untagged:
\* it goes on.
BeginIngest(r) ==
  /\ req[r] = "bound" /\ MayWrite
  /\ \/ UNCHANGED <<phase, episode>>
     \/ /\ phase' = IF seen[r] = "active"
                    THEN [phase EXCEPT ![bound[r]] = "ingesting"] ELSE phase
        /\ episode' = [episode EXCEPT ![bound[r]] = TRUE]
  /\ req' = [req EXCEPT ![r] = "prepared"]
  /\ seen' = [seen EXCEPT ![r] = "active"]
  /\ UNCHANGED <<alias, counter, row, mergeVars, bound, turn, attachVars>>

\* The tagger has tagged everything: complete_ingestion_episode, set_phase.
EndIngest(c) ==
  /\ episode[c] /\ MayWrite
  /\ episode' = [episode EXCEPT ![c] = FALSE]
  /\ phase' = [phase EXCEPT ![c] = "active"]
  /\ UNCHANGED <<alias, counter, row, mergeVars, requestVars, attachVars>>

\* Mutant: Postgres without _acquire_lifecycle_share_lock.
SaveContextUnlocked(r) ==
  /\ req[r] = "prepared" /\ MayWrite
  /\ counter[bound[r]] < MaxTurn
  /\ LET c == bound[r]
     IN  /\ counter' = [counter EXCEPT ![c] = @ + 1]
         /\ row' = [row EXCEPT ![<<"request_context", r>>] =
                      [conv |-> c, turn |-> counter[c] + 1, movedBy |-> {}]]
         /\ turn' = [turn EXCEPT ![r] = counter[c] + 1]
  /\ req' = [req EXCEPT ![r] = "saved"]
  /\ UNCHANGED <<phase, episode, alias, mergeVars, bound, seen, attachVars>>

\* save_request_context: waits for a merge that holds the lifecycle row.
SaveContext(r) ==
  /\ req[r] = "prepared" /\ MayWrite
  /\ lock[bound[r]] = None
  /\ counter[bound[r]] < MaxTurn
  /\ LET c == bound[r]
     IN  /\ counter' = [counter EXCEPT ![c] = @ + 1]
         /\ row' = [row EXCEPT ![<<"request_context", r>>] =
                      [conv |-> c, turn |-> counter[c] + 1, movedBy |-> {}]]
         /\ turn' = [turn EXCEPT ![r] = counter[c] + 1]
  /\ req' = [req EXCEPT ![r] = "saved"]
  /\ UNCHANGED <<phase, episode, alias, mergeVars, bound, seen, attachVars>>

\* save_tool_call, under the turn that save_request_context returned: no lock.
SaveToolCall(r) ==
  /\ req[r] = "saved" /\ MayWrite
  /\ row' = [row EXCEPT ![<<"tool_calls", r>>] =
               [conv |-> bound[r], turn |-> turn[r], movedBy |-> {}]]
  /\ req' = [req EXCEPT ![r] = "done"]
  /\ bound' = [bound EXCEPT ![r] = None]
  /\ turn' = [turn EXCEPT ![r] = 0]
  /\ UNCHANGED <<phase, episode, alias, counter, mergeVars, seen, attachVars>>

-----------------------------------------------------------------------------
(* VCATTACH.                                                                 *)

Old(x) == edge[x][1]
To(x) == edge[x][2]

\* resolve_target accepts the target, and the REST path the source as well.
AttachAccept(x, old, to) ==
  /\ att[x] = "idle"
  /\ Attachable(old) /\ Attachable(to)
  /\ att' = [att EXCEPT ![x] = "accepted"]
  /\ edge' = [edge EXCEPT ![x] = <<old, to>>]
  /\ UNCHANGED <<convVars, mergeVars, requestVars>>

\* execute_attach T0a: the target's own alias is deleted; a failure is logged
\* and the command goes on.
AttachClear(x) ==
  /\ att[x] = "accepted" /\ MayWrite
  /\ alias' \in {[alias EXCEPT ![To(x)] = None], alias}
  /\ att' = [att EXCEPT ![x] = "cleared"]
  /\ UNCHANGED <<phase, episode, counter, row, mergeVars, requestVars, edge>>

\* T0b: the alias from old to target.
AttachSave(x) ==
  /\ att[x] = "cleared" /\ MayWrite
  /\ alias' = [alias EXCEPT ![Old(x)] = To(x)]
  /\ att' = [att EXCEPT ![x] = "done"]
  /\ edge' = [edge EXCEPT ![x] = <<None, None>>]
  /\ UNCHANGED <<phase, episode, counter, row, mergeVars, requestVars>>

-----------------------------------------------------------------------------
MergeStep(m) ==
  \/ \E s \in Conv : \E t \in Conv \ {s} : Reserve(m, s, t)
  \/ Begin(m) \/ Lock(m) \/ Check(m)
  \/ Move(m) \/ Commit(m) \/ Fail(m)
  \/ FlushHooks(m) \/ MarkRolledBack(m) \/ SweepReservation(m)

RequestStep(r) ==
  \/ \E c \in Conv : Construct(r, c) \/ UseCached(r, c)
  \/ BeginIngest(r) \/ SaveContext(r) \/ SaveToolCall(r)

AttachStep(x) ==
  \/ \E old \in Conv : \E to \in Conv \ {old} : AttachAccept(x, old, to)
  \/ AttachClear(x) \/ AttachSave(x)

Next ==
  \/ \E m \in Merge : MergeStep(m)
  \/ \E r \in Request : RequestStep(r)
  \/ \E x \in Attach : AttachStep(x)
  \/ \E c \in Conv : EndIngest(c)

Spec == Init /\ [][Next]_vars

-----------------------------------------------------------------------------
ServedReq == {"bound", "prepared", "saved"}

TypeOK ==
  /\ phase \in [Conv -> Phase]
  /\ episode \in [Conv -> BOOLEAN]
  /\ alias \in [Conv -> Conv \cup {None}]
  /\ counter \in [Conv -> 0..MaxTurn]
  /\ row \in [RowId -> Row]
  /\ audit \in [Merge -> AuditRow]
  /\ lock \in [Conv -> Merge \cup {None}]
  /\ pc \in [Merge -> {"idle", "reserved", "opened", "half", "checked", "moved",
                       "committed", "raised", "done"}]
  /\ offset \in [Merge -> 0..MaxTurn]
  /\ taken \in [Merge -> SUBSET RowId]
  /\ req \in [Request -> ServedReq \cup {"idle", "done"}]
  /\ bound \in [Request -> Conv \cup {None}]
  /\ seen \in [Request -> Phase]
  /\ turn \in [Request -> 0..MaxTurn]
  /\ att \in [Attach -> {"idle", "accepted", "cleared", "done"}]
  /\ edge \in [Attach -> (Conv \cup {None}) \X (Conv \cup {None})]
  /\ \A r \in Request : req[r] \in ServedReq => bound[r] \in Conv

\* No two requests of one conversation have the same turn number, whatever
\* merges moved their rows and whenever they were numbered: the recall page and
\* the tool calls tell requests apart by it (save_request_context, the offset
\* and the counter bump of merge_conversation_data).
TurnsDistinct ==
  \A r, q \in Request :
    LET a == row[<<"request_context", r>>]
        b == row[<<"request_context", q>>]
    IN  (r # q /\ a.conv # None /\ a.conv = b.conv) => a.turn # b.turn

\* merge_audit tells the truth, whatever the caller, the sweeper and a late
\* exception do to it: rows were moved by committed merges only, and a
\* committed merge stays committed.  A rolled back reservation may be taken
\* again for another target, so its slow body must not move anything.
AuditTruthful ==
  \A m \in Merge :
    ((\E i \in RowId : m \in row[i].movedBy) \/ pc[m] = "committed")
      => audit[m].status = "committed"

\* A row that a merge moved is never in a conversation that is itself merged
\* away: of two merges that share a conversation (a into b, b into c) the second
\* sees what the first did, since phases are read again under the locks.
MovedRowsLive ==
  \A i \in RowId : row[i].movedBy # {} => phase[row[i].conv] # "merged"

\* m waits for a lifecycle row that n holds.
Waits(m, n) ==
  /\ m # n
  /\ \/ pc[m] = "opened" /\ lock[First(m)] = n
     \/ pc[m] = "half" /\ \E c \in {Source(m), Target(m)} : lock[c] = n

\* Merges never wait for each other in a circle, in whatever directions they go
\* and however many share conversations: of any merges, one waits for none of the
\* others ("Sorted lexicographically to prevent deadlocks").
NoLockCycle ==
  \A S \in (SUBSET Merge) \ {{}} : \E m \in S : \A n \in S : ~Waits(m, n)

\* What MergedSourceWithoutAliasError says: no engine is built on a conversation
\* that was merged away; it redirects, or it is refused.
NoEngineOnMerged ==
  [][\A r \in Request, c \in Conv :
       Construct(r, c) /\ req'[r] = "bound" => phase[bound'[r]] # "merged"]_vars
=============================================================================
