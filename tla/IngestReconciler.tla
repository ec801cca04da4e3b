--------------------------- MODULE IngestReconciler ---------------------------
(****************************************************************************)
(* core/ingest_reconciler.py: concurrent calls of ingest_single and         *)
(* ingest_prepared_turns that merge lists of turns into the canonical turns *)
(* of one conversation, with the statements of storage/postgres.py and      *)
(* storage/sqlite.py they are made of.                                      *)
(*                                                                          *)
(* Abstractions: contents, tags, timestamps and turn groups of a row are    *)
(* left out (recompute_canonical_turn_groups and save_ingest_batch change   *)
(* nothing that is modelled); a row was seen recently or not, at will;      *)
(* canonical_turn_id is <<call, position>>.                                 *)
(****************************************************************************)
EXTENDS TurnAlignment, FiniteSets

CONSTANTS
  Proc,        \* threads or workers that ingest into the conversation
  Payload,     \* lists of turns a request may carry
  SinglePair,  \* pairs of turns ingest_single may be called with
  Backend,     \* "postgres" or "sqlite"
  MaxCalls,    \* bound on the calls
  MaxEpoch,    \* bound on the lifecycle epoch
  Failures,    \* whether statements may raise and processes die
  None

ASSUME ReconcilerAssumption ==
  /\ Backend \in {"postgres", "sqlite"}
  /\ Payload \subseteq Seq(Turn)
  /\ SinglePair \subseteq UserTurn \X AssistantTurn
  /\ MaxCalls \in Nat /\ MaxEpoch \in Nat \ {0}
  /\ Failures \in BOOLEAN
  /\ None \notin Proc

VARIABLES
  turns,    \* canonical_turns: [id, turn, key, batch], batch 0 for NULL
  anchors,  \* canonical_turn_anchors: [turns, start]
  epoch,    \* conversations.lifecycle_epoch
  holder,   \* who holds the lock of conversation_reconcile
  calls,    \* number of calls so far
  outcome,  \* what each call ended with
  merge     \* the call each process is in
vars == <<turns, anchors, epoch, holder, calls, outcome, merge>>

Id == (1..MaxCalls) \X (Nat \ {0})
Row == [id : Id, turn : Turn, key : Int, batch : 0..MaxCalls]
Anchor == [turns : Seq(Turn), start : Id]

Idle == [pc |-> "idle", kind |-> "batch", payload |-> <<>>, epoch |-> 0, call |-> 0,
         seen |-> <<>>, at |-> NoAlignment, todo |-> <<>>, windows |-> {}]

Init ==
  /\ turns = {} /\ anchors = {} /\ epoch = 1 /\ holder = None /\ calls = 0
  /\ outcome = [c \in 1..MaxCalls |-> "open"]
  /\ merge = [p \in Proc |-> Idle]

----------------------------------------------------------------------------
\* ORDER BY sort_key, canonical_turn_id
Precedes(r, s) ==
  \/ r.key < s.key
  \/ r.key = s.key /\ r.id[1] < s.id[1]
  \/ r.key = s.key /\ r.id[1] = s.id[1] /\ r.id[2] < s.id[2]
Table == [k \in 1..Cardinality(turns) |->
            CHOOSE r \in turns : Cardinality({s \in turns : Precedes(s, r)}) = k - 1]

\* get_canonical_turn_anchor_positions, else the index of the rows just read.
LoadAnchorIndex(rows, size) ==
  LET digests == {x.turns : x \in {y \in anchors : Len(y.turns) = size}}
      stored == {w \in [turns : digests, at : DOMAIN Table] :
                   [turns |-> w.turns, start |-> Table[w.at].id] \in anchors}
  IN IF stored # {} THEN stored ELSE AnchorIndex(TurnsOf(rows), size)

\* Mutant: positions in place of row identifiers.
WindowsByPosition(rows) == UNION {AnchorIndex(TurnsOf(rows), z) : z \in AnchorSizes}
Windows(rows) ==
  UNION {{[turns |-> w.turns, start |-> rows[w.at].id] : w \in AnchorIndex(TurnsOf(rows), z)} :
           z \in AnchorSizes}

Goto(p, pc) == merge' = [merge EXCEPT ![p].pc = pc]

\* The call returns or raises; leaving the with block ends the lock.
Leave(p, result) ==
  /\ merge' = [merge EXCEPT ![p] = Idle]
  /\ outcome' = [outcome EXCEPT ![merge[p].call] = result]
  /\ holder' = IF holder = p THEN None ELSE holder

----------------------------------------------------------------------------
\* The entry check passed.
Begin(p, kind, payload) ==
  /\ merge[p].pc = "idle" /\ calls < MaxCalls
  /\ calls' = calls + 1
  /\ merge' = [merge EXCEPT ![p] = [Idle EXCEPT !.pc = "lock", !.kind = kind,
                 !.payload = payload, !.epoch = epoch, !.call = calls + 1]]
  /\ UNCHANGED <<turns, anchors, epoch, holder, outcome>>

IngestBatch(p) == \E payload \in Payload : Begin(p, "batch", payload)
\* On SQLite ingest_single is one transaction and is left out.
IngestSingle(p) ==
  Backend = "postgres" /\ \E pair \in SinglePair : Begin(p, "single", pair)

\* Mutant: no lock.
EnterUnlocked(p) ==
  /\ merge[p].pc = "lock"
  /\ holder' = p
  /\ Goto(p, IF merge[p].kind = "batch" THEN "recheck" ELSE "read")
  /\ UNCHANGED <<turns, anchors, epoch, calls, outcome>>

\* FOR UPDATE of the lifecycle row, or BEGIN IMMEDIATE.
AcquireLock(p) ==
  /\ merge[p].pc = "lock" /\ holder = None
  /\ holder' = p
  /\ Goto(p, IF merge[p].kind = "batch" THEN "recheck" ELSE "read")
  /\ UNCHANGED <<turns, anchors, epoch, calls, outcome>>

\* The epoch is read again inside the lock.  SQLiteStore.get_lifecycle_epoch
\* leaves "with conn", which commits the transaction that is the lock.
Recheck(p) ==
  /\ merge[p].pc = "recheck"
  /\ IF merge[p].epoch = epoch
       THEN /\ Goto(p, "read")
            /\ holder' = IF Backend = "sqlite" THEN None ELSE holder
            /\ UNCHANGED outcome
       ELSE Leave(p, "stale")
  /\ UNCHANGED <<turns, anchors, epoch, calls>>

ReadTurns(p) ==
  /\ merge[p].pc = "read"
  /\ merge' = [merge EXCEPT ![p].pc = "align", ![p].seen = Table]
  /\ UNCHANGED <<turns, anchors, epoch, holder, calls, outcome>>

\* The rows of a call, with their identifiers and source_batch_id.
Stamped(new, call) ==
  [k \in DOMAIN new |-> [id |-> <<call, k>>, turn |-> new[k].turn, key |-> new[k].key, batch |-> call]]

WriteNext(todo) == IF todo = <<>> THEN "readAnchors" ELSE "write"

\* _find_alignment and the rows to write, or an IndexError, or nothing to write.
Align(p) ==
  LET m == merge[p]
      index == [z \in AnchorSizes |-> LoadAnchorIndex(m.seen, z)]
      a == FindAlignment(TurnsOf(m.seen), m.payload, index, m.kind = "batch")
  IN /\ m.pc = "align"
     /\ IF OutOfRange(m.seen, a)
          THEN Leave(p, "failed")
        ELSE LET todo == IF Rejected(m.seen, m.payload, a) THEN <<>>
                         ELSE Stamped(NewRows(m.seen, m.payload, a), m.call)
             IN /\ merge' = [merge EXCEPT ![p].at = a, ![p].todo = todo,
                     ![p].pc = IF Rejected(m.seen, m.payload, a) THEN "check" ELSE WriteNext(todo)]
                /\ UNCHANGED <<holder, outcome>>
     /\ UNCHANGED <<turns, anchors, epoch, calls>>

\* ingest_single finds its pair among the last five rows, seen recently, and
\* writes those rows again, without their source_batch_id.
ExactResend(p) ==
  LET m == merge[p] IN
  /\ m.pc = "align" /\ m.kind = "single"
  /\ \E w \in 1..(Len(m.seen) - 1) :
       /\ w > Len(m.seen) - 5
       /\ TurnsOf(Window(m.seen, w, 2)) = m.payload
       /\ merge' = [merge EXCEPT ![p].pc = "write", ![p].kind = "resend",
            ![p].at = [old |-> w, new |-> 1, n |-> 2],
            ![p].todo = [k \in 1..2 |-> [m.seen[w + k - 1] EXCEPT !.batch = 0]]]
  /\ UNCHANGED <<turns, anchors, epoch, holder, calls, outcome>>

KeyTaken(p) ==
  LET todo == merge[p].todo IN
  merge[p].pc = "write" /\ \E r \in turns : r.key = Head(todo).key /\ r.id # Head(todo).id

\* save_canonical_turn: one upsert.  UNIQUE (conversation_id, sort_key) refuses
\* a key that another row has; the statement then raises (Fail).
WriteTurn(p) ==
  LET todo == merge[p].todo IN
  /\ merge[p].pc = "write"
  /\ ~KeyTaken(p)
  /\ turns' = {r \in turns : r.id # Head(todo).id} \cup {Head(todo)}
  /\ merge' = [merge EXCEPT ![p].todo = Tail(todo), ![p].pc = WriteNext(Tail(todo))]
  /\ UNCHANGED <<anchors, epoch, holder, calls, outcome>>

----------------------------------------------------------------------------
\* _refresh_persisted_anchors reads, deletes and inserts.
ReadForAnchors(p) ==
  /\ merge[p].pc = "readAnchors"
  /\ merge' = [merge EXCEPT ![p].pc = "deleteAnchors", ![p].windows = Windows(Table)]
  /\ UNCHANGED <<turns, anchors, epoch, holder, calls, outcome>>

DeleteAnchors(p) ==
  /\ merge[p].pc = "deleteAnchors"
  /\ anchors' = {}
  /\ Goto(p, "insertAnchors")
  /\ UNCHANGED <<turns, epoch, holder, calls, outcome>>

InsertAnchors(p) ==
  /\ merge[p].pc = "insertAnchors"
  /\ anchors' = anchors \cup merge[p].windows
  /\ Goto(p, "check")
  /\ UNCHANGED <<turns, epoch, holder, calls, outcome>>

\* Any of the three raises: logged, except when resending.
RefreshFails(p) ==
  /\ Failures
  /\ merge[p].pc \in {"readAnchors", "deleteAnchors", "insertAnchors"}
  /\ merge[p].kind # "resend"
  /\ Goto(p, "check")
  /\ UNCHANGED <<turns, anchors, epoch, holder, calls, outcome>>

\* The commit-time check of ingest_prepared_turns.
CheckEpoch(p) ==
  /\ merge[p].pc = "check"
  /\ IF merge[p].kind = "batch" /\ merge[p].epoch # epoch
       THEN Goto(p, "purge") /\ UNCHANGED <<holder, outcome>>
       ELSE Leave(p, "ok")
  /\ UNCHANGED <<turns, anchors, epoch, calls>>

\* Mutant: what follows the turns read is deleted.
PurgeTail(p) ==
  /\ merge[p].pc = "purge"
  /\ turns' = {r \in turns : \E k \in DOMAIN merge[p].seen : r.key <= merge[p].seen[k].key}
  /\ Leave(p, "stale")
  /\ UNCHANGED <<anchors, epoch, calls>>

\* Mutant: every row of the conversation is deleted.
PurgeAll(p) ==
  /\ merge[p].pc = "purge"
  /\ turns' = {}
  /\ Leave(p, "stale")
  /\ UNCHANGED <<anchors, epoch, calls>>

\* delete_canonical_turns_by_batch_id, then LifecycleEpochMismatch.
Purge(p) ==
  /\ merge[p].pc = "purge"
  /\ turns' = {r \in turns : r.batch # merge[p].call}
  /\ Leave(p, "stale")
  /\ UNCHANGED <<anchors, epoch, calls>>

\* A statement raises, or the process dies.
Fail(p) ==
  /\ merge[p].pc # "idle"
  /\ Failures \/ KeyTaken(p)
  /\ Leave(p, "failed")
  /\ UNCHANGED <<turns, anchors, epoch, calls>>

\* The conversation is marked deleted and comes back with a new epoch.
Resurrect ==
  /\ epoch < MaxEpoch
  /\ epoch' = epoch + 1
  /\ UNCHANGED <<turns, anchors, holder, calls, outcome, merge>>

Next ==
  \/ \E p \in Proc :
       \/ IngestBatch(p) \/ IngestSingle(p) \/ AcquireLock(p) \/ Recheck(p)
       \/ ReadTurns(p) \/ Align(p) \/ ExactResend(p) \/ WriteTurn(p)
       \/ ReadForAnchors(p) \/ DeleteAnchors(p) \/ InsertAnchors(p) \/ RefreshFails(p)
       \/ CheckEpoch(p) \/ Purge(p) \/ Fail(p)
  \/ Resurrect

Spec == Init /\ [][Next]_vars

----------------------------------------------------------------------------
(* Properties *)

Phases == {"idle", "lock", "recheck", "read", "align", "write", "readAnchors",
           "deleteAnchors", "insertAnchors", "check", "purge"}
Merge == [pc : Phases, kind : {"batch", "single", "resend"}, payload : Seq(Turn),
          epoch : 0..MaxEpoch, call : 0..MaxCalls, seen : Seq(Row),
          at : [old : Nat, new : Nat, n : Nat], todo : Seq(Row), windows : SUBSET Anchor]

\* The variables have the types of the tables and of the locals of a call.
TypeOK ==
  /\ turns \subseteq Row /\ anchors \subseteq Anchor
  /\ epoch \in 1..MaxEpoch /\ holder \in Proc \cup {None} /\ calls \in 0..MaxCalls
  /\ outcome \in [1..MaxCalls -> {"open", "ok", "stale", "failed"}]
  /\ merge \in [Proc -> Merge]

Writing(p) == merge[p].pc \in {"align", "write", "readAnchors", "deleteAnchors", "insertAnchors",
                               "check", "purge"}
Placed(rows) == {[id |-> r.id, turn |-> r.turn, key |-> r.key] : r \in rows}

\* Between reading the turns and the end of the call nobody else changes the
\* table: what was read, with the rows of the call itself, is what is there.
MergesSerialized ==
  \A p \in Proc : Writing(p) =>
    Placed({r \in turns : r.batch # merge[p].call}) = Placed(Range(merge[p].seen))

\* The overlap found is one: _find_alignment proved that the hashes match.
AlignmentIsTrue ==
  \A p \in Proc : LET m == merge[p] IN
    Writing(p) => \A k \in 0..(m.at.n - 1) : m.seen[m.at.old + k].turn = m.payload[m.at.new + k]

\* When a call has written its rows, the table holds the turns of its payload
\* next to each other and in their order, if the overlap it found is one.
PayloadIsStored ==
  \A p \in Proc : LET m == merge[p] IN
    (/\ m.pc \in {"readAnchors", "deleteAnchors", "insertAnchors", "check"}
     /\ m.at.n = 0 => ~Rejected(m.seen, m.payload, m.at)
     /\ \A k \in 0..(m.at.n - 1) : m.seen[m.at.old + k].turn = m.payload[m.at.new + k])
    => OccursIn(m.payload, TurnsOf(Table))

\* The sort keys a call allocates are free when it comes to write them, so that
\* no merge fails halfway on UNIQUE (conversation_id, sort_key).
KeysFree ==
  \A p \in Proc : merge[p].pc = "write" =>
    \A r \in turns, w \in Range(merge[p].todo) : r.key = w.key => r.id = w.id

\* What that takes: a request carries at most L turns, and G[c] is a distance
\* that the keys still have when c calls have placed their turns.  Each call may
\* divide a gap among L new rows, and MinStep has to be left for the last one.
PayloadsFit(L) == \A I \in Payload \cup SinglePair : Len(I) <= L
GapsLast(G, L) ==
  /\ G \in [0..MaxCalls -> Nat]
  /\ G[0] <= KeyGap /\ MinStep <= G[MaxCalls]
  /\ \A c \in 1..MaxCalls : (L + 1) * G[c] <= G[c - 1]

\* A call that was refused because of its epoch leaves no row behind.
RefusedLeavesNothing == \A r \in turns : r.batch # 0 => outcome[r.batch] # "stale"

\* A payload that the table holds already, with anchors that describe the
\* table, is recognized: no turn of it is written twice.
AnchorsDescribe(rows) == anchors \in {{}, Windows(rows)}
StoredPayloadWritesNothing ==
  [][\A p \in Proc :
       (/\ Align(p) /\ merge[p].kind = "batch" /\ AnchorsDescribe(merge[p].seen)
        /\ OccursIn(merge[p].payload, TurnsOf(merge[p].seen)))
       => merge'[p].todo = <<>>]_vars

\* Whatever else happens, the turns of calls that are over stay what and where
\* they are.
MergesOnlyAdd ==
  [][\A r \in turns : (r.batch = 0 \/ \A p \in Proc : merge[p].call # r.batch)
       => \E s \in turns' : s.id = r.id /\ s.turn = r.turn /\ s.key = r.key]_vars
=============================================================================
