------------------------ MODULE ConversationMerge_proofs ------------------------
(****************************************************************************)
(* Merges keep turns apart, tell the truth in their audit rows, leave no    *)
(* row in a conversation that was merged away and never wait for each other *)
(* in a circle: for every number of conversations, merges, attaches and     *)
(* requests, on both backends.                                              *)
(*                                                                          *)
(* Everything rests on who holds the two lifecycle rows.  A body past its   *)
(* checks holds both, so that nobody numbers a request in either            *)
(* conversation, and no other body moves rows into or out of them, between  *)
(* the computation of the offset and the commit.                            *)
(****************************************************************************)
EXTENDS ConversationMerge, WellFoundedInduction, TLAPS

\* A merge that has a reservation names two conversations, its body is open
\* only while the audit row is in progress, and once it has committed the row
\* says so.
AuditFollows ==
  \A m \in Merge :
    /\ pc[m] \notin {"idle", "done"} =>
         Source(m) \in Conv /\ Target(m) \in Conv /\ Source(m) # Target(m)
    /\ pc[m] = "idle" => audit[m].status = "none"
    /\ Open(m) => audit[m].status = "in_progress"
    /\ pc[m] = "committed" => audit[m].status = "committed"

\* Whoever moved a row has committed.
MovesCommitted ==
  \A i \in RowId : \A m \in row[i].movedBy : audit[m].status = "committed"

AuditInv == AuditFollows /\ MovesCommitted

Locking == {"half", "checked", "moved"}
Locked == {"checked", "moved"}

\* A body holds the lifecycle rows it has asked for ...
BodiesHaveLocks ==
  \A m \in Merge :
    /\ pc[m] = "half" => lock[First(m)] = m
    /\ pc[m] \in Locked => lock[Source(m)] = m /\ lock[Target(m)] = m

\* ... and nobody else holds any: of a body that waits for its second row, only
\* the row that sorts first.
LocksHaveBodies ==
  \A c \in Conv : \A m \in Merge : lock[c] = m =>
    /\ pc[m] \in Locking
    /\ c \in {Source(m), Target(m)}
    /\ pc[m] = "half" => c = First(m)

LockInv == BodiesHaveLocks /\ LocksHaveBodies

Context(r) == <<"request_context", r>>
ToolCall(r) == <<"tool_calls", r>>

\* A row in no conversation was moved by nobody; turns start at 1.
RowsShaped ==
  /\ \A i \in RowId : row[i].conv = None => row[i].movedBy = {}
  /\ \A r \in Request : row[Context(r)].conv # None => row[Context(r)].turn >= 1

\* A request writes each of its rows once.
RowsOnce ==
  \A r \in Request :
    /\ req[r] \in {"idle", "bound", "prepared"} => row[Context(r)].conv = None
    /\ req[r] # "done" => row[ToolCall(r)].conv = None

\* No turn is past the counter of its conversation.
TurnsCounted ==
  \A r \in Request :
    row[Context(r)].conv # None => row[Context(r)].turn <= counter[row[Context(r)].conv]

\* What a body has checked still stands at its commit: its offset clears the
\* turns of the target, which is not merged away, and what it has taken is all
\* that could collide or be stranded.
CheckStands(m) ==
  /\ pc[m] \in Locked => offset[m] >= counter[Target(m)] /\ phase[Target(m)] # "merged"
  /\ pc[m] = "moved" =>
       /\ \A i \in taken[m] : row[i].conv = Source(m)
       /\ \A i \in RowId :
            row[i].conv = Source(m) /\ (i[1] = "request_context" \/ row[i].movedBy # {})
              => i \in taken[m]

ChecksStand == \A m \in Merge : CheckStands(m)

RowInv ==
  /\ RowsShaped /\ RowsOnce /\ TurnsCounted /\ ChecksStand
  /\ TurnsDistinct /\ MovedRowsLive

Inv == TypeOK /\ AuditInv /\ LockInv /\ RowInv

-----------------------------------------------------------------------------
(* Types                                                                    *)

\* One hop of the alias chain.
Hop(x) == IF alias[x] = None THEN x ELSE alias[x]

\* The walk of an alias chain ends in a conversation, or in an error.  The
\* chain is a function of the number of hops, which are eight: it exists since
\* it can be written down.
LEMMA TerminalType ==
  ASSUME TypeOK, NEW c \in Conv
  PROVE  Terminal(c) \in Conv \cup {None}
<1> DEFINE Chain(h) == h = [n \in 0..MaxHops |->
                              IF n = 0 THEN c
                              ELSE IF alias[h[n-1]] = None THEN h[n-1] ELSE alias[h[n-1]]]
           x1 == Hop(c)
           x2 == Hop(x1)
           x3 == Hop(x2)
           x4 == Hop(x3)
           x5 == Hop(x4)
           x6 == Hop(x5)
           x7 == Hop(x6)
           x8 == Hop(x7)
           walk == [n \in 0..8 |->
                      CASE n = 0 -> c  [] n = 1 -> x1 [] n = 2 -> x2
                        [] n = 3 -> x3 [] n = 4 -> x4 [] n = 5 -> x5
                        [] n = 6 -> x6 [] n = 7 -> x7 [] n = 8 -> x8]
           hop == CHOOSE h : Chain(h)
<1>1. \A x \in Conv : Hop(x) \in Conv
  BY DEF Hop, TypeOK
<1>2. /\ x1 \in Conv /\ x2 \in Conv /\ x3 \in Conv /\ x4 \in Conv
      /\ x5 \in Conv /\ x6 \in Conv /\ x7 \in Conv /\ x8 \in Conv
  BY <1>1
<1>3. /\ x1 = Hop(c) /\ x2 = Hop(x1) /\ x3 = Hop(x2) /\ x4 = Hop(x3)
      /\ x5 = Hop(x4) /\ x6 = Hop(x5) /\ x7 = Hop(x6) /\ x8 = Hop(x7)
  OBVIOUS
<1> HIDE DEF x1, x2, x3, x4, x5, x6, x7, x8
<1>4. walk = [n \in 0..8 |-> IF n = 0 THEN c ELSE Hop(walk[n-1])]
  BY <1>3
<1>5. Chain(walk)
  BY <1>4 DEF Hop, MaxHops
<1>6. Chain(hop)
  BY <1>5
<1> HIDE DEF hop
<1>7. \A n \in 1..8 : hop[n-1] \in Conv => hop[n] \in Conv
  BY <1>1, <1>6 DEF Hop, MaxHops
<1>8. hop[0] = c
  BY <1>6 DEF MaxHops
<1>9. /\ hop[1] \in Conv /\ hop[2] \in Conv /\ hop[3] \in Conv /\ hop[4] \in Conv
      /\ hop[5] \in Conv /\ hop[6] \in Conv /\ hop[7] \in Conv
  BY <1>7, <1>8
<1>10. Terminal(c) \in {hop[7], None}
  BY DEF Terminal, hop, MaxHops
<1> QED BY <1>9, <1>10

\* The initial rows and requests have their types.
LEMMA InitType == Init => TypeOK
BY MergeAssumption DEF Init, TypeOK, Phase, Row, NoRow, AuditRow, NoAudit, ServedReq

\* The end of a body, wherever it goes on.
LEMMA EndBodyType ==
  ASSUME TypeOK, NEW m \in Merge, NEW p \in {"raised", "committed"}, EndBody(m, p)
  PROVE  /\ lock' \in [Conv -> Merge \cup {None}]
         /\ offset' \in [Merge -> 0..MaxTurn]
         /\ taken' \in [Merge -> SUBSET RowId]
         /\ pc' = [pc EXCEPT ![m] = p]
BY MergeAssumption DEF EndBody, TypeOK

\* A row of the audit table that changes its status is one.
LEMMA StatusType ==
  ASSUME TypeOK, NEW m \in Merge
  PROVE  /\ [audit EXCEPT ![m].status = "rolled_back"] \in [Merge -> AuditRow]
         /\ [audit EXCEPT ![m].status = IF @ = "in_progress" THEN "committed" ELSE @]
              \in [Merge -> AuditRow]
<1>1. ASSUME NEW st \in {"none", "in_progress", "committed", "rolled_back"}
      PROVE  [audit[m] EXCEPT !.status = st] \in AuditRow
  BY DEF TypeOK, AuditRow
<1>2. audit[m].status \in {"none", "in_progress", "committed", "rolled_back"}
  BY DEF TypeOK, AuditRow
<1> QED BY <1>1, <1>2 DEF TypeOK

\* Every step of a merge keeps the types.
LEMMA MergeStepType ==
  ASSUME TypeOK, NEW m \in Merge, MergeStep(m)
  PROVE  TypeOK'
<1>1. ASSUME NEW s \in Conv, NEW t \in Conv \ {s}, Reserve(m, s, t)
      PROVE  TypeOK'
  <2>1. [status |-> "in_progress", source |-> s, target |-> t] \in AuditRow
    BY DEF AuditRow
  <2>2. audit' \in [Merge -> AuditRow]
    BY <1>1, <2>1 DEF Reserve, TypeOK
  <2> QED BY <1>1, <2>2 DEF Reserve, TypeOK, convVars, requestVars, attachVars
<1>2. CASE Begin(m) \/ Lock(m)
  BY <1>2 DEF Begin, Lock, TypeOK, convVars, requestVars, attachVars
<1>3. CASE Check(m)
  <2>1. CASE EndBody(m, "raised")
    BY <1>3, <2>1, EndBodyType DEF Check, TypeOK, convVars, requestVars, attachVars
  <2>2. ASSUME NEW k \in 1..MaxTurn,
               lock' = [lock EXCEPT ![Source(m)] = m, ![Target(m)] = m],
               offset' = [offset EXCEPT ![m] = k],
               pc' = [pc EXCEPT ![m] = "checked"],
               UNCHANGED taken
        PROVE  TypeOK'
    <3>1. lock' \in [Conv -> Merge \cup {None}]
      BY <2>2 DEF TypeOK
    <3>2. offset' \in [Merge -> 0..MaxTurn]
      BY <2>2, MergeAssumption DEF TypeOK
    <3>3. UNCHANGED <<convVars, audit, requestVars, attachVars>>
      BY <1>3 DEF Check
    <3> QED BY <2>2, <3>1, <3>2, <3>3 DEF TypeOK, convVars, requestVars, attachVars
  <2> QED BY <1>3, <2>1, <2>2 DEF Check
<1>4. CASE Move(m)
  BY <1>4 DEF Move, RowsOf, TypeOK, convVars, requestVars, attachVars
<1>5. CASE Commit(m)
  <2>1. row' \in [RowId -> Row]
    <3>1. ASSUME NEW i \in RowId PROVE MovedRow(m, i).turn \in Nat
                                       /\ MovedRow(m, i).conv \in Conv \cup {None}
                                       /\ MovedRow(m, i).movedBy \in SUBSET Merge
      BY DEF MovedRow, Target, TypeOK, AuditRow, Row
    <3>2. ASSUME NEW i \in RowId PROVE row'[i] \in {MovedRow(m, i), row[i]}
                                       /\ row'[i].turn <= MaxTurn
      BY <1>5 DEF Commit, RowsAfter
    <3>3. ASSUME NEW i \in RowId PROVE row'[i] \in Row
      <4>1. CASE row'[i] = row[i]
        BY <4>1 DEF TypeOK
      <4>2. CASE row'[i] = MovedRow(m, i)
        BY <3>1, <3>2, <4>2, MergeAssumption DEF MovedRow, Row
      <4> QED BY <3>2, <4>1, <4>2
    <3> QED BY <1>5, <3>3 DEF Commit, RowsAfter
  <2>2. counter' \in [Conv -> 0..MaxTurn]
    <3>1. PICK k \in 0..MaxTurn :
            counter' = [counter EXCEPT ![Source(m)] = 0, ![Target(m)] = k]
      BY <1>5 DEF Commit
    <3>2. 0 \in 0..MaxTurn
      BY MergeAssumption
    <3> QED BY <3>1, <3>2 DEF TypeOK
  <2>3. alias' \in [Conv -> Conv \cup {None}] /\ phase' \in [Conv -> Phase]
    BY <1>5 DEF Commit, TypeOK, Target, AuditRow, Phase
  <2>4. audit' \in [Merge -> AuditRow]
    BY <1>5, StatusType DEF Commit
  <2>5. EndBody(m, "committed")
    BY <1>5 DEF Commit
  <2> QED
    BY <1>5, <2>1, <2>2, <2>3, <2>4, <2>5, EndBodyType
    DEF Commit, TypeOK, requestVars, attachVars
<1>6. CASE Fail(m)
  BY <1>6, EndBodyType DEF Fail, TypeOK, convVars, requestVars, attachVars
<1>7. CASE FlushHooks(m) \/ MarkRolledBack(m) \/ SweepReservation(m)
  <2>1. RolledBack(m) \in [Merge -> AuditRow]
    BY StatusType DEF RolledBack
  <2> QED
    BY <1>7, <2>1 DEF FlushHooks, MarkRolledBack, SweepReservation, TypeOK,
                      convVars, requestVars, attachVars
<1> QED BY <1>1, <1>2, <1>3, <1>4, <1>5, <1>6, <1>7 DEF MergeStep

\* A request bound to a conversation is.
LEMMA BindToType ==
  ASSUME TypeOK, NEW r \in Request, NEW c \in Conv, BindTo(r, c)
  PROVE  /\ req' \in [Request -> ServedReq \cup {"idle", "done"}]
         /\ bound' \in [Request -> Conv \cup {None}]
         /\ seen' \in [Request -> Phase]
         /\ \A q \in Request : req'[q] \in ServedReq => bound'[q] \in Conv
BY DEF BindTo, TypeOK, ServedReq

\* Every step of a request keeps the types.
LEMMA RequestStepType ==
  ASSUME TypeOK, NEW r \in Request, RequestStep(r)
  PROVE  TypeOK'
<1>1. ASSUME NEW c \in Conv, Construct(r, c) PROVE TypeOK'
  <2>1. CASE Terminal(c) # None /\ BindTo(r, Terminal(c))
    BY <1>1, <2>1, TerminalType, BindToType
    DEF Construct, TypeOK, convVars, mergeVars, attachVars
  <2>2. CASE req' = [req EXCEPT ![r] = "done"] /\ UNCHANGED <<bound, seen>>
    BY <1>1, <2>2 DEF Construct, TypeOK, ServedReq, convVars, mergeVars, attachVars
  <2> QED BY <1>1, <2>1, <2>2 DEF Construct
<1>2. ASSUME NEW c \in Conv, UseCached(r, c) PROVE TypeOK'
  BY <1>2, BindToType DEF UseCached, TypeOK, convVars, mergeVars, attachVars
<1>3. CASE BeginIngest(r)
  BY <1>3 DEF BeginIngest, TypeOK, ServedReq, Phase, mergeVars, attachVars
<1>4. CASE SaveContext(r)
  <2>1. bound[r] \in Conv /\ counter[bound[r]] + 1 \in 0..MaxTurn
    BY <1>4, MergeAssumption DEF SaveContext, TypeOK, ServedReq
  <2>2. [conv |-> bound[r], turn |-> counter[bound[r]] + 1, movedBy |-> {}] \in Row
    BY <2>1 DEF Row
  <2> QED
    BY <1>4, <2>1, <2>2 DEF SaveContext, TypeOK, ServedReq, RowId, Table, mergeVars, attachVars
<1>5. CASE SaveToolCall(r)
  <2>1. [conv |-> bound[r], turn |-> turn[r], movedBy |-> {}] \in Row
    BY DEF Row, TypeOK
  <2> QED
    BY <1>5, <2>1, MergeAssumption
    DEF SaveToolCall, TypeOK, ServedReq, RowId, Table, mergeVars, attachVars
<1> QED BY <1>1, <1>2, <1>3, <1>4, <1>5 DEF RequestStep

\* Every other step keeps the types.
LEMMA OtherStepType ==
  ASSUME TypeOK,
         \/ \E x \in Attach : AttachStep(x)
         \/ \E c \in Conv : EndIngest(c)
         \/ UNCHANGED vars
  PROVE  TypeOK'
<1>1. ASSUME NEW x \in Attach, AttachStep(x) PROVE TypeOK'
  <2>1. ASSUME NEW old \in Conv, NEW to \in Conv, AttachAccept(x, old, to) PROVE TypeOK'
    BY <2>1 DEF AttachAccept, TypeOK, convVars, mergeVars, requestVars
  <2>2. CASE AttachClear(x)
    BY <2>2 DEF AttachClear, TypeOK, mergeVars, requestVars
  <2>3. CASE AttachSave(x)
    <3>1. To(x) \in Conv \cup {None} /\ <<None, None>> \in (Conv \cup {None}) \X (Conv \cup {None})
      BY DEF To, TypeOK
    <3> QED BY <2>3, <3>1 DEF AttachSave, TypeOK, mergeVars, requestVars
  <2> QED BY <1>1, <2>1, <2>2, <2>3 DEF AttachStep
<1>2. ASSUME NEW c \in Conv, EndIngest(c) PROVE TypeOK'
  BY <1>2 DEF EndIngest, TypeOK, Phase, mergeVars, requestVars, attachVars
<1>3. CASE UNCHANGED vars
  BY <1>3 DEF vars, TypeOK, convVars, mergeVars, requestVars, attachVars
<1> QED BY <1>1, <1>2, <1>3

\* Types are inductive.
LEMMA NextType == TypeOK /\ [Next]_vars => TypeOK'
BY MergeStepType, RequestStepType, OtherStepType DEF Next

\* Every reachable state of merges, attaches and requests is well typed: the
\* alias walk of an engine's construction ends in a conversation or in an
\* error, and no turn leaves its bound.
THEOREM TypeCorrect == Spec => []TypeOK
BY InitType, NextType, PTL DEF Spec

-----------------------------------------------------------------------------
(* The audit                                                                *)

\* The only step that a merge takes in another merge's affairs is none: what is
\* recorded of a merge changes by its own steps.
OthersKeep(m) ==
  \A n \in Merge \ {m} : audit'[n] = audit[n] /\ pc'[n] = pc[n]

\* Steps of a merge leave the other merges' rows and bodies alone, and keep
\* source and target of their own once they are named.
LEMMA MergeStepFrame ==
  ASSUME TypeOK, NEW m \in Merge, MergeStep(m)
  PROVE  /\ OthersKeep(m)
         /\ pc[m] # "idle" =>
              /\ audit'[m].source = audit[m].source
              /\ audit'[m].target = audit[m].target
BY EndBodyType DEF MergeStep, Reserve, Begin, Lock, Check, Move, Commit, Fail, FlushHooks,
   MarkRolledBack, SweepReservation, RolledBack, OthersKeep, TypeOK, AuditRow

\* Steps of requests, attaches and the tagger leave the merges alone.
LEMMA OtherStepFrame ==
  ASSUME \/ \E r \in Request : RequestStep(r)
         \/ \E x \in Attach : AttachStep(x)
         \/ \E c \in Conv : EndIngest(c)
         \/ UNCHANGED vars
  PROVE  UNCHANGED mergeVars
BY DEF RequestStep, Construct, UseCached, BeginIngest, SaveContext, SaveToolCall,
       AttachStep, AttachAccept, AttachClear, AttachSave, EndIngest, vars

\* How a merge's own step moves its program counter and its audit row.
LEMMA MergeStepAudit ==
  ASSUME TypeOK, AuditFollows, NEW m \in Merge, MergeStep(m)
  PROVE  \/ /\ pc[m] = "idle" /\ pc'[m] = "reserved"
            /\ audit'[m].status = "in_progress"
            /\ audit'[m].source \in Conv /\ audit'[m].target \in Conv
            /\ audit'[m].source # audit'[m].target
         \/ pc[m] = "idle" /\ pc'[m] = "done" /\ audit'[m] = audit[m]
         \/ /\ pc[m] \notin {"idle", "done"} /\ ~Open(m)' /\ audit'[m] = audit[m]
            /\ (pc'[m] = "committed" => pc[m] = "committed") /\ pc'[m] # "idle"
         \/ /\ pc[m] \notin {"idle", "done"} /\ Open(m)' /\ audit'[m] = audit[m]
            /\ audit[m].status = "in_progress"
         \/ Open(m) /\ pc'[m] = "committed" /\ audit'[m].status = "committed"
         \/ /\ pc[m] # "idle" /\ audit[m].status = "in_progress" /\ ~Open(m)
            /\ pc[m] # "committed"
            /\ pc'[m] \in {pc[m], "done"} /\ audit'[m].status = "rolled_back"
<1>1. ASSUME NEW s \in Conv, NEW t \in Conv \ {s}, Reserve(m, s, t)
      PROVE  \/ /\ pc[m] = "idle" /\ pc'[m] = "reserved"
                /\ audit'[m].status = "in_progress"
                /\ audit'[m].source = s /\ audit'[m].target = t
             \/ pc[m] = "idle" /\ pc'[m] = "done" /\ audit'[m] = audit[m]
  BY <1>1 DEF Reserve, TypeOK
<1>2. CASE Begin(m) \/ Lock(m) \/ Move(m) \/ Fail(m) \/ FlushHooks(m)
  BY <1>2 DEF Begin, Lock, Move, Fail, FlushHooks, EndBody, Open, TypeOK, AuditFollows
<1>3. CASE Check(m)
  BY <1>3 DEF Check, EndBody, Open, TypeOK, AuditFollows
<1>4. CASE Commit(m)
  BY <1>4 DEF Commit, EndBody, Open, TypeOK, AuditRow, AuditFollows
<1>5. CASE MarkRolledBack(m) \/ SweepReservation(m)
  BY <1>5 DEF MarkRolledBack, SweepReservation, RolledBack, Open, TypeOK, AuditRow,
              AuditFollows
<1> QED BY <1>1, <1>2, <1>3, <1>4, <1>5 DEF MergeStep

\* The audit rows follow the bodies.
LEMMA NextAuditFollows ==
  ASSUME TypeOK, AuditFollows, [Next]_vars
  PROVE  AuditFollows'
<1>1. ASSUME NEW m \in Merge, MergeStep(m) PROVE AuditFollows'
  <2> SUFFICES ASSUME NEW n \in Merge
      PROVE  /\ pc'[n] \notin {"idle", "done"} =>
                  /\ audit'[n].source \in Conv /\ audit'[n].target \in Conv
                  /\ audit'[n].source # audit'[n].target
             /\ pc'[n] = "idle" => audit'[n].status = "none"
             /\ Open(n)' => audit'[n].status = "in_progress"
             /\ pc'[n] = "committed" => audit'[n].status = "committed"
    BY DEF AuditFollows, Source, Target, Open
  <2>1. CASE n # m
    BY <1>1, <2>1, MergeStepFrame DEF OthersKeep, AuditFollows, Source, Target, Open
  <2>2. CASE n = m
    BY <1>1, <2>2, MergeStepFrame, MergeStepAudit DEF AuditFollows, Source, Target, Open
  <2> QED BY <2>1, <2>2
<1>2. CASE UNCHANGED mergeVars
  BY <1>2 DEF mergeVars, AuditFollows, Source, Target, Open
<1> QED BY <1>1, <1>2, OtherStepFrame DEF Next

\* A committed merge stays committed.
LEMMA CommittedStays ==
  ASSUME TypeOK, AuditFollows, [Next]_vars, NEW m \in Merge, audit[m].status = "committed"
  PROVE  audit'[m].status = "committed"
<1>1. ASSUME NEW n \in Merge, MergeStep(n) PROVE audit'[m].status = "committed"
  BY <1>1, MergeStepFrame, MergeStepAudit DEF OthersKeep, AuditFollows
<1>2. CASE UNCHANGED mergeVars
  BY <1>2 DEF mergeVars
<1> QED BY <1>1, <1>2, OtherStepFrame DEF Next

\* Rows are moved by the commit of their body, and otherwise written anew.
LEMMA NextMovesCommitted ==
  ASSUME TypeOK, AuditInv, [Next]_vars
  PROVE  MovesCommitted'
<1> SUFFICES ASSUME NEW i \in RowId, NEW m \in Merge, m \in row'[i].movedBy
             PROVE  audit'[m].status = "committed"
  BY NextType DEF MovesCommitted, TypeOK, Row
<1>1. CASE m \in row[i].movedBy
  BY <1>1, CommittedStays DEF AuditInv, MovesCommitted
<1>2. CASE m \notin row[i].movedBy
  <2>1. ASSUME NEW n \in Merge, MergeStep(n) PROVE n = m /\ Commit(m)
    <3>1. CASE UNCHANGED row
      BY <1>2, <3>1
    <3>2. CASE Commit(n)
      BY <1>2, <3>2 DEF Commit, RowsAfter, MovedRow
    <3> QED
      BY <2>1, <3>1, <3>2 DEF MergeStep, Reserve, Begin, Lock, Check, Move, Fail, FlushHooks,
         MarkRolledBack, SweepReservation, convVars
  <2>2. ASSUME NEW r \in Request, RequestStep(r) PROVE FALSE
    <3>1. CASE UNCHANGED row
      BY <1>2, <3>1
    <3>2. CASE SaveContext(r)
      BY <1>2, <3>2 DEF SaveContext, TypeOK
    <3>3. CASE SaveToolCall(r)
      BY <1>2, <3>3 DEF SaveToolCall, TypeOK
    <3> QED
      BY <2>2, <3>1, <3>2, <3>3 DEF RequestStep, Construct, UseCached, BeginIngest, convVars
  <2>3. CASE UNCHANGED row
    BY <1>2, <2>3
  <2>4. CASE Commit(m)
    BY <2>4 DEF Commit, AuditInv, AuditFollows, Open, TypeOK, AuditRow
  <2> QED
    BY <2>1, <2>2, <2>3, <2>4 DEF Next, AttachStep, AttachAccept, AttachClear, AttachSave,
       EndIngest, vars, convVars
<1> QED BY <1>1, <1>2

\* merge_audit tells the truth.
THEOREM AuditIsTruthful == Spec => []AuditTruthful
<1>1. Init => TypeOK /\ AuditInv
  BY InitType DEF Init, AuditInv, AuditFollows, MovesCommitted, NoAudit, NoRow, Open
<1>2. TypeOK /\ AuditInv /\ [Next]_vars => (TypeOK /\ AuditInv)'
  BY NextType, NextAuditFollows, NextMovesCommitted DEF AuditInv
<1>3. AuditInv => AuditTruthful
  BY DEF AuditInv, AuditFollows, MovesCommitted, AuditTruthful
<1> QED BY <1>1, <1>2, <1>3, PTL DEF Spec

-----------------------------------------------------------------------------
(* The locks                                                                *)

\* The row that sorts first is one of the two.
LEMMA FirstIsOne ==
  ASSUME NEW m \in Merge
  PROVE  First(m) \in {Source(m), Target(m)}
BY DEF First

\* A body that ends has no lock, and the others keep theirs.
LEMMA EndBodyLocks ==
  ASSUME TypeOK, AuditFollows, LockInv, NEW m \in Merge, NEW p \in {"raised", "committed"},
         MergeStep(m), EndBody(m, p), Open(m)
  PROVE  LockInv'
<1>2. pc'[m] = p /\ \A c \in Conv : lock'[c] = IF lock[c] = m THEN None ELSE lock[c]
  BY DEF EndBody, TypeOK
<1>3. ASSUME NEW n \in Merge \ {m}
      PROVE  pc'[n] = pc[n] /\ First(n)' = First(n) /\ Source(n)' = Source(n)
             /\ Target(n)' = Target(n)
  BY MergeStepFrame DEF OthersKeep, First, Source, Target
<1>4. ASSUME NEW n \in Merge, pc[n] \in Locking
      PROVE  Source(n) \in Conv /\ Target(n) \in Conv /\ First(n) \in Conv
  BY <1>4, FirstIsOne DEF Locking, AuditFollows
<1>5. BodiesHaveLocks'
  BY <1>2, <1>3, <1>4 DEF LockInv, BodiesHaveLocks, Locking, Locked
<1>6. LocksHaveBodies'
  BY <1>2, <1>3, MergeAssumption DEF LockInv, LocksHaveBodies
<1> QED BY <1>5, <1>6 DEF LockInv

\* A body takes only rows that nobody else holds.
LEMMA MergeStepLocks ==
  ASSUME TypeOK, AuditFollows, LockInv, NEW m \in Merge, MergeStep(m)
  PROVE  LockInv'
<1>1. ASSUME NEW n \in Merge \ {m}
      PROVE  pc'[n] = pc[n] /\ First(n)' = First(n) /\ Source(n)' = Source(n)
             /\ Target(n)' = Target(n)
  BY MergeStepFrame DEF OthersKeep, First, Source, Target
<1>2. pc[m] # "idle" =>
        First(m)' = First(m) /\ Source(m)' = Source(m) /\ Target(m)' = Target(m)
  BY MergeStepFrame DEF First, Source, Target
<1>3. ASSUME NEW n \in Merge, pc[n] \in Locking \cup {"opened"}
      PROVE  Source(n) \in Conv /\ Target(n) \in Conv /\ First(n) \in Conv
  BY <1>3, FirstIsOne DEF Locking, AuditFollows
<1>4. CASE UNCHANGED lock /\ pc[m] \notin Locking /\ pc'[m] \notin Locking
  BY <1>1, <1>2, <1>4 DEF LockInv, BodiesHaveLocks, LocksHaveBodies, Locking, Locked
<1>5. CASE Lock(m)
  <2>1. pc'[m] = "half" /\ lock[First(m)] = None /\ lock' = [lock EXCEPT ![First(m)] = m]
        /\ pc[m] = "opened"
    BY <1>5 DEF Lock, TypeOK
  <2>2. \A c \in Conv : lock'[c] = IF c = First(m) THEN m ELSE lock[c]
    BY <2>1 DEF TypeOK
  <2>3. BodiesHaveLocks'
    BY <1>1, <1>2, <1>3, <2>1, <2>2, MergeAssumption
    DEF LockInv, BodiesHaveLocks, Locking, Locked
  <2>4. LocksHaveBodies'
    BY <1>1, <1>2, <2>1, <2>2, FirstIsOne DEF LockInv, LocksHaveBodies, Locking
  <2> QED BY <2>3, <2>4 DEF LockInv
<1>6. CASE Check(m) /\ lock' = [lock EXCEPT ![Source(m)] = m, ![Target(m)] = m]
           /\ pc' = [pc EXCEPT ![m] = "checked"]
  <2>1. pc'[m] = "checked" /\ pc[m] = "half"
        /\ \A c \in {Source(m), Target(m)} : lock[c] \in {None, m}
    BY <1>6 DEF Check, TypeOK
  <2>2. \A c \in Conv : lock'[c] = IF c \in {Source(m), Target(m)} THEN m ELSE lock[c]
    BY <1>6 DEF TypeOK
  <2>3. BodiesHaveLocks'
    BY <1>1, <1>2, <1>3, <2>1, <2>2, MergeAssumption
    DEF LockInv, BodiesHaveLocks, Locking, Locked
  <2>4. LocksHaveBodies'
    BY <1>1, <1>2, <2>1, <2>2 DEF LockInv, LocksHaveBodies, Locking
  <2> QED BY <2>3, <2>4 DEF LockInv
<1>7. CASE Move(m)
  <2>1. pc[m] = "checked" /\ pc'[m] = "moved" /\ UNCHANGED lock
    BY <1>7 DEF Move, TypeOK
  <2> QED
    BY <1>1, <1>2, <2>1 DEF LockInv, BodiesHaveLocks, LocksHaveBodies, Locking, Locked
<1>8. CASE Open(m) /\ (EndBody(m, "raised") \/ EndBody(m, "committed"))
  BY <1>8, EndBodyLocks
<1>9. CASE Check(m) \/ Commit(m) \/ Fail(m)
  BY <1>6, <1>8, <1>9 DEF Check, Commit, Fail, Open
<1>10. CASE \/ \E s \in Conv : \E t \in Conv \ {s} : Reserve(m, s, t)
            \/ Begin(m) \/ FlushHooks(m) \/ MarkRolledBack(m)
  <2>1. UNCHANGED lock /\ pc[m] \notin Locking /\ pc'[m] \notin Locking
    BY <1>10 DEF Reserve, Begin, FlushHooks, MarkRolledBack, TypeOK, Locking
  <2> QED BY <1>4, <2>1
<1>11. CASE SweepReservation(m)
  <2>1. UNCHANGED <<lock, pc>> /\ pc[m] \notin Locking
    BY <1>11 DEF SweepReservation, Open, Locking
  <2> QED BY <1>4, <2>1
<1> QED BY <1>5, <1>7, <1>9, <1>10, <1>11 DEF MergeStep

\* The locks follow the bodies.
LEMMA NextLocks ==
  ASSUME TypeOK, AuditFollows, LockInv, [Next]_vars
  PROVE  LockInv'
<1>1. CASE UNCHANGED mergeVars
  BY <1>1 DEF mergeVars, LockInv, BodiesHaveLocks, LocksHaveBodies, First, Source, Target
<1> QED BY <1>1, MergeStepLocks, OtherStepFrame DEF Next

\* A set of naturals below a bound has a greatest element, if it is not empty.
LEMMA GreatestExists ==
  ASSUME NEW b \in Nat, NEW F \in SUBSET (0..b), F # {}
  PROVE  \E f \in F : \A g \in F : g <= f
<1> DEFINE D == {b - f : f \in F}
           R == {ss \in Nat \X Nat : ss[1] < ss[2]}
<1>1. D \in SUBSET Nat /\ D # {}
  <2>1. \A f \in F : f \in 0..b /\ b - f \in Nat
    OBVIOUS
  <2>2. D \in SUBSET Nat
    BY <2>1
  <2>3. PICK f : f \in F
    OBVIOUS
  <2>4. b - f \in D
    BY <2>3
  <2> QED  BY <2>2, <2>4
<1>2. IsWellFoundedOn(R, Nat)
  BY NatLessThanWellFounded, Zenon DEF OpToRel
<1>3. \A x, y \in Nat : x < y => <<x, y>> \in R
  OBVIOUS
<1> HIDE DEF R
<1>4. PICK d \in D : \A e \in D : ~ (<<e, d>> \in R)
  BY <1>1, <1>2, WFMin
<1>5. PICK f \in F : d = b - f
  BY <1>4
<1>6. ASSUME NEW g \in F PROVE g <= f
  <2>1. b - g \in D /\ b - g \in Nat /\ d \in Nat
    BY <1>1
  <2>2. ~ (b - g < d)
    BY <1>3, <1>4, <2>1
  <2> QED  BY <1>5, <2>2
<1> QED  BY <1>6

\* A body that waits for one that waits in turn: the other has taken the row
\* that sorts first of its two, and that row sorts after all that the waiting
\* body holds.
LEMMA WaitsUpwards ==
  ASSUME TypeOK, AuditFollows, LockInv, NEW x \in Merge, NEW y \in Merge, NEW z \in Merge,
         Waits(x, y), Waits(y, z)
  PROVE  /\ pc[y] = "half" /\ First(y) \in 0..MaxConv
         /\ pc[x] = "half" => First(x) < First(y)
<1>1. /\ Source(x) \in Conv /\ Target(x) \in Conv /\ First(x) \in Conv
      /\ Source(y) \in Conv /\ Target(y) \in Conv /\ First(y) \in Conv
  BY FirstIsOne DEF Waits, AuditFollows
<1>2. PICK c \in {Source(x), Target(x)} : lock[c] = y
  BY FirstIsOne DEF Waits
<1>3. pc[y] \in Locking /\ (pc[y] = "half" => c = First(y))
  BY <1>1, <1>2 DEF LockInv, LocksHaveBodies
<1>4. pc[y] = "half" /\ c = First(y)
  BY <1>3 DEF Waits, Locking
<1>5. ASSUME pc[x] = "half" PROVE First(x) < First(y)
  <2>1. lock[First(x)] = x /\ x # y
    BY <1>5 DEF LockInv, BodiesHaveLocks, Waits
  <2>2. c # First(x)
    BY <1>2, <2>1
  <2>3. Source(x) \in Nat /\ Target(x) \in Nat
    BY <1>1, MergeAssumption DEF Conv
  <2>4. First(x) < c
    BY <2>2, <2>3 DEF First
  <2> QED  BY <1>4, <2>4
<1>6. First(y) \in 0..MaxConv
  BY <1>1, MergeAssumption DEF Conv
<1> QED  BY <1>4, <1>5, <1>6

\* In a circle the rows held would sort one after the other without end.
LEMMA LocksAreOrdered ==
  ASSUME TypeOK, AuditFollows, LockInv
  PROVE  NoLockCycle
<1> SUFFICES ASSUME NEW S \in (SUBSET Merge) \ {{}}, \A m \in S : \E n \in S : Waits(m, n)
             PROVE  FALSE
  BY DEF NoLockCycle
<1> DEFINE T == {m \in S : pc[m] = "half"}
           F == {First(m) : m \in T}
<1>1. ASSUME NEW m \in S
      PROVE  \E n \in T : First(n) \in 0..MaxConv /\ (pc[m] = "half" => First(m) < First(n))
  <2>1. PICK n \in S : Waits(m, n)
    OBVIOUS
  <2>2. PICK k \in S : Waits(n, k)
    OBVIOUS
  <2> QED  BY <2>1, <2>2, WaitsUpwards
<1>2. ASSUME NEW m \in T PROVE First(m) \in 0..MaxConv
  <2>1. PICK k \in S : Waits(m, k)
    OBVIOUS
  <2>2. First(m) \in Conv
    BY <2>1, FirstIsOne DEF Waits, AuditFollows
  <2> QED  BY <2>2, MergeAssumption DEF Conv
<1>3. F \in SUBSET (0..MaxConv) /\ F # {}
  <2>1. PICK m \in S : TRUE
    OBVIOUS
  <2>2. PICK n \in T : First(n) \in 0..MaxConv
    BY <1>1, <2>1
  <2>3. First(n) \in F
    BY <2>2
  <2>4. F \in SUBSET (0..MaxConv)
    BY <1>2
  <2> QED  BY <2>3, <2>4
<1>4. PICK f \in F : \A g \in F : g <= f
  BY <1>3, GreatestExists, MergeAssumption
<1>5. PICK m \in T : f = First(m)
  BY <1>4
<1>6. PICK n \in T : First(m) < First(n) /\ First(n) \in 0..MaxConv
  BY <1>1, <1>5
<1>7. First(n) <= First(m)
  BY <1>4, <1>5
<1>8. First(m) \in 0..MaxConv
  BY <1>2
<1> QED  BY <1>6, <1>7, <1>8, MergeAssumption

\* The two rows of each request are all there are.
LEMMA RowIds ==
  /\ \A r \in Request : Context(r) \in RowId /\ ToolCall(r) \in RowId
                        /\ Context(r)[1] = "request_context" /\ ToolCall(r)[1] = "tool_calls"
  /\ \A i \in RowId : \E r \in Request : i \in {Context(r), ToolCall(r)}
  /\ \A i \in RowId : i[1] = "request_context" => \E r \in Request : i = Context(r)
  /\ \A r, q \in Request : Context(r) # ToolCall(q)
  /\ \A r, q \in Request : r # q => Context(r) # Context(q) /\ ToolCall(r) # ToolCall(q)
BY DEF RowId, Table, Context, ToolCall

\* The initial state has no audit row, no lock and no row.
LEMMA InitInv == Init => Inv
<1> SUFFICES ASSUME Init PROVE Inv
  OBVIOUS
<1>1. AuditInv
  BY DEF Init, AuditInv, AuditFollows, MovesCommitted, NoAudit, NoRow, Open
<1>2. LockInv
  BY MergeAssumption DEF Init, LockInv, BodiesHaveLocks, LocksHaveBodies, Locked
<1>3. \A i \in RowId : row[i].conv = None /\ row[i].movedBy = {}
  BY DEF Init, NoRow
<1>4. RowInv
  BY <1>3, RowIds
  DEF Init, RowInv, RowsShaped, RowsOnce, TurnsCounted, ChecksStand, CheckStands,
      TurnsDistinct, MovedRowsLive, Locked, Context, ToolCall
<1> QED BY <1>1, <1>2, <1>4, InitType DEF Inv

\* Merges never wait for each other's lifecycle rows in a circle of any length
\* (postgres.py:3092).
THEOREM LocksDoNotCycle == Spec => []NoLockCycle
<1>1. TypeOK /\ AuditFollows /\ LockInv /\ [Next]_vars => (TypeOK /\ AuditFollows /\ LockInv)'
  BY NextType, NextAuditFollows, NextLocks
<1>2. Init => TypeOK /\ AuditFollows /\ LockInv
  BY InitInv DEF Inv, AuditInv
<1> QED BY <1>1, <1>2, LocksAreOrdered, PTL DEF Spec

-----------------------------------------------------------------------------
(* The rows                                                                 *)

\* Two bodies past their checks share no conversation, and whoever holds no
\* lock on a conversation is not about to change it.
LEMMA LockedApart ==
  ASSUME TypeOK, AuditFollows, LockInv,
         NEW m \in Merge, NEW n \in Merge \ {m}, pc[m] \in Locked, pc[n] \in Locked
  PROVE  {Source(m), Target(m)} \cap {Source(n), Target(n)} = {}
BY DEF LockInv, BodiesHaveLocks

\* A step that leaves the rows, the counters and the requests alone and merges
\* nothing away keeps what is true of rows; what the bodies have checked stands
\* for those that it does not move.
LEMMA SameRows ==
  ASSUME RowInv, UNCHANGED <<row, counter, req>>,
         \A c \in Conv : phase'[c] = "merged" => phase[c] = "merged",
         \A i \in RowId : row[i].conv \in Conv \cup {None}
  PROVE  /\ RowsShaped' /\ RowsOnce' /\ TurnsCounted'
         /\ TurnsDistinct' /\ MovedRowsLive'
<1>1. RowsShaped' /\ RowsOnce' /\ TurnsCounted' /\ TurnsDistinct'
  BY DEF RowInv, RowsShaped, RowsOnce, TurnsCounted, TurnsDistinct, Context, ToolCall
<1>2. MovedRowsLive'
  BY DEF RowInv, MovedRowsLive, RowsShaped
<1> QED BY <1>1, <1>2

\* What a body has checked stands as long as nobody touches its two
\* conversations.
LEMMA ChecksKept ==
  ASSUME TypeOK, AuditFollows, LockInv, ChecksStand, NEW n \in Merge, pc[n] \in Locked,
         pc'[n] = pc[n], audit'[n] = audit[n], offset'[n] = offset[n], taken'[n] = taken[n],
         counter'[Target(n)] = counter[Target(n)],
         phase'[Target(n)] = "merged" => phase[Target(n)] = "merged",
         \A i \in RowId : \/ row'[i] = row[i]
                          \/ /\ row[i].conv # Source(n)
                             /\ row'[i].conv = Source(n) =>
                                  i[1] # "request_context" /\ row'[i].movedBy = {}
  PROVE  CheckStands(n)'
<1>1. Source(n)' = Source(n) /\ Target(n)' = Target(n)
  BY DEF Source, Target
<1>2. taken[n] \subseteq RowId
  BY DEF TypeOK
<1> QED BY <1>1, <1>2 DEF ChecksStand, CheckStands, Locked

\* Nor does it matter to a body that some phase changes, short of merging.
LEMMA ChecksUntouched ==
  ASSUME AuditFollows, ChecksStand, UNCHANGED <<row, counter, mergeVars>>,
         \A c \in Conv : phase'[c] = "merged" => phase[c] = "merged"
  PROVE  ChecksStand'
<1> SUFFICES ASSUME NEW n \in Merge PROVE CheckStands(n)'
  BY DEF ChecksStand
<1>1. Source(n)' = Source(n) /\ Target(n)' = Target(n)
  BY DEF Source, Target, mergeVars
<1>2. pc[n] \in Locked => Target(n) \in Conv
  BY DEF AuditFollows, Locked
<1> QED BY <1>1, <1>2 DEF ChecksStand, CheckStands, mergeVars

\* The steps of a merge before its commit, and after.
LEMMA QuietMergeStepRows ==
  ASSUME TypeOK, AuditFollows, LockInv, RowInv, NEW m \in Merge, MergeStep(m), ~Commit(m)
  PROVE  RowInv'
<1>1. UNCHANGED <<row, counter, req, phase>>
  BY DEF MergeStep, Reserve, Begin, Lock, Check, Move, Fail, FlushHooks,
         MarkRolledBack, SweepReservation, convVars, requestVars
<1>2. /\ RowsShaped' /\ RowsOnce' /\ TurnsCounted'
      /\ TurnsDistinct' /\ MovedRowsLive'
  <2>1. \A i \in RowId : row[i].conv \in Conv \cup {None}
    BY DEF TypeOK, Row
  <2> QED BY <1>1, <2>1, SameRows
<1>3. ASSUME NEW n \in Merge \ {m}
      PROVE  audit'[n] = audit[n] /\ pc'[n] = pc[n] /\ offset'[n] = offset[n]
             /\ taken'[n] = taken[n]
  <2>1. audit'[n] = audit[n] /\ pc'[n] = pc[n]
    BY MergeStepFrame DEF OthersKeep
  <2>2. offset'[n] = offset[n] /\ taken'[n] = taken[n]
    BY DEF MergeStep, Reserve, Begin, Lock, Check, Move, Fail, FlushHooks,
           MarkRolledBack, SweepReservation, EndBody, TypeOK
  <2> QED BY <2>1, <2>2
<1>4. pc[m] # "idle" => Source(m)' = Source(m) /\ Target(m)' = Target(m)
  BY MergeStepFrame DEF Source, Target
<1>5. ASSUME NEW n \in Merge \ {m}, pc'[n] \in Locked
      PROVE  CheckStands(n)'
  BY <1>1, <1>3, <1>5, ChecksKept DEF RowInv
<1>6. ASSUME pc'[m] \in Locked
      PROVE  CheckStands(m)'
  <2>1. CASE Check(m)
    <3>1. PICK k \in 1..MaxTurn : /\ IsMax(k, OffsetFloor(Target(m)))
                                  /\ offset' = [offset EXCEPT ![m] = k]
                                  /\ Mergeable(Target(m))
                                  /\ pc' = [pc EXCEPT ![m] = "checked"]
      BY <1>6, <2>1 DEF Check, EndBody, Locked, TypeOK
    <3>2. k >= counter[Target(m)] /\ Target(m) \in Conv
      BY <2>1, <3>1, MergeAssumption DEF IsMax, OffsetFloor, Check, AuditFollows, TypeOK
    <3>3. offset'[m] = k /\ pc'[m] = "checked" /\ pc[m] = "half"
      BY <2>1, <3>1 DEF TypeOK, Check
    <3> QED
      BY <1>1, <1>4, <3>1, <3>2, <3>3 DEF Mergeable, CheckStands
  <2>2. CASE Move(m)
    <3>1. pc[m] = "checked" /\ pc'[m] = "moved" /\ taken'[m] = RowsOf(Source(m))
          /\ offset'[m] = offset[m]
      BY <2>2 DEF Move, TypeOK
    <3>2. offset[m] >= counter[Target(m)] /\ phase[Target(m)] # "merged"
      BY <3>1 DEF RowInv, ChecksStand, CheckStands, Locked
    <3> QED
      BY <1>1, <1>4, <3>1, <3>2 DEF RowsOf, CheckStands
  <2>3. CASE SweepReservation(m)
    BY <1>6, <2>3 DEF SweepReservation, Open, Locked
  <2> QED
    BY <1>6, <2>1, <2>2, <2>3
    DEF MergeStep, Reserve, Begin, Lock, Fail, FlushHooks, MarkRolledBack, EndBody,
        Locked, TypeOK
<1>7. \A n \in Merge : pc'[n] \notin Locked => CheckStands(n)'
  BY DEF CheckStands, Locked
<1>8. ChecksStand'
  BY <1>5, <1>6, <1>7 DEF ChecksStand
<1> QED BY <1>2, <1>8 DEF RowInv

\* The commit of a body: the source's requests are renumbered past the target's
\* and past its counter, none is left behind.
LEMMA CommitRows ==
  ASSUME TypeOK, AuditFollows, LockInv, RowInv, NEW m \in Merge, Commit(m), MergeStep(m)
  PROVE  RowInv'
<1> DEFINE S == Source(m)
           T == Target(m)
<1>1. S \in Conv /\ T \in Conv /\ S # T /\ T # None /\ S # None
  BY MergeAssumption DEF Commit, AuditFollows
<1>2. \A i \in RowId : row'[i] = IF i \in taken[m] THEN MovedRow(m, i) ELSE row[i]
  BY DEF Commit, RowsAfter
<1>3. PICK k \in 0..MaxTurn :
        /\ \A x \in CounterFloor(m, row') : x <= k
        /\ counter' = [counter EXCEPT ![S] = 0, ![T] = k]
  BY DEF Commit, IsMax
<1>4. /\ counter[T] <= k
      /\ \A i \in RowId : row'[i].conv = T => row'[i].turn + 1 <= k
  BY <1>3 DEF CounterFloor
<1>5. counter'[T] = k /\ \A c \in Conv \ {S, T} : counter'[c] = counter[c]
  BY <1>1, <1>3 DEF TypeOK
<1>6. phase'[S] = "merged" /\ \A c \in Conv \ {S} : phase'[c] = phase[c]
  BY <1>1 DEF Commit, TypeOK
<1>7. /\ counter[T] <= offset[m] /\ phase[T] # "merged"
      /\ \A i \in taken[m] : i \in RowId /\ row[i].conv = S
      /\ \A i \in RowId :
           row[i].conv = S /\ (i[1] = "request_context" \/ row[i].movedBy # {})
             => i \in taken[m]
  BY MergeAssumption DEF Commit, RowInv, ChecksStand, CheckStands, Locked, TypeOK
<1>8. \A i \in RowId : /\ row[i].turn \in Nat /\ row'[i].turn \in Nat
                       /\ row[i].conv \in Conv \cup {None}
  BY NextType DEF TypeOK, Row, Next
<1>9. \A i \in RowId : i \in taken[m] =>
        /\ row'[i].conv = T /\ row'[i].turn = row[i].turn + offset[m]
        /\ row'[i].movedBy # {}
  <2> SUFFICES ASSUME NEW i \in RowId, i \in taken[m]
               PROVE  /\ row'[i].conv = T /\ row'[i].turn = row[i].turn + offset[m]
                      /\ m \in row'[i].movedBy
    OBVIOUS
  <2>1. row'[i] = [conv |-> T, turn |-> row[i].turn + offset[m],
                   movedBy |-> row[i].movedBy \cup {m}]
    BY <1>2 DEF MovedRow
  <2> QED BY <2>1
<1>10. offset[m] \in Nat /\ counter \in [Conv -> Nat]
  BY DEF TypeOK
<1>11. UNCHANGED req
  BY DEF Commit, requestVars
<1> HIDE DEF S, T
<1>12. RowsShaped'
  <2>1. \A i \in RowId : row'[i].conv = None => row'[i].movedBy = {}
    BY <1>1, <1>2, <1>9 DEF RowInv, RowsShaped
  <2>2. \A r \in Request : row'[Context(r)].conv # None => row'[Context(r)].turn >= 1
    BY <1>1, <1>2, <1>7, <1>8, <1>9, <1>10, RowIds DEF RowInv, RowsShaped
  <2> QED BY <2>1, <2>2 DEF RowsShaped, Context
<1>13. RowsOnce'
  BY <1>1, <1>2, <1>7, <1>11, RowIds DEF RowInv, RowsOnce, Context, ToolCall
<1>14. TurnsCounted'
  <2> SUFFICES ASSUME NEW r \in Request, row'[Context(r)].conv # None
               PROVE  row'[Context(r)].turn <= counter'[row'[Context(r)].conv]
    BY DEF TurnsCounted, Context
  <2>1. CASE row'[Context(r)].conv = T
    BY <1>4, <1>5, <1>8, <2>1, RowIds
  <2>2. CASE row'[Context(r)].conv # T
    BY <1>2, <1>5, <1>7, <1>8, <1>9, <2>2, RowIds DEF RowInv, TurnsCounted
  <2> QED BY <2>1, <2>2
<1>15. TurnsDistinct'
  <2> SUFFICES ASSUME NEW r \in Request, NEW q \in Request, r # q,
                      row'[Context(r)].conv # None,
                      row'[Context(r)].conv = row'[Context(q)].conv
               PROVE  row'[Context(r)].turn # row'[Context(q)].turn
    BY DEF TurnsDistinct, Context
  <2>1. ASSUME NEW x \in Request, NEW y \in Request, Context(x) \in taken[m],
               Context(y) \notin taken[m], row'[Context(y)].conv = T
        PROVE  row'[Context(x)].turn > row'[Context(y)].turn
    <3>1. row'[Context(x)].turn >= 1 + counter[T]
      BY <1>1, <1>7, <1>8, <1>9, <1>10, <2>1, RowIds DEF RowInv, RowsShaped
    <3>2. row'[Context(y)].turn <= counter[T]
      BY <1>1, <1>2, <2>1, RowIds DEF RowInv, TurnsCounted
    <3> QED BY <1>1, <1>8, <1>10, <3>1, <3>2, RowIds
  <2>2. CASE Context(r) \in taken[m] /\ Context(q) \notin taken[m]
    BY <1>8, <1>9, <2>1, <2>2, RowIds
  <2>3. CASE Context(r) \notin taken[m] /\ Context(q) \in taken[m]
    BY <1>8, <1>9, <2>1, <2>3, RowIds
  <2>4. CASE Context(r) \in taken[m] /\ Context(q) \in taken[m]
    <3>1. row[Context(r)].turn # row[Context(q)].turn
      BY <1>1, <1>7, <2>4 DEF RowInv, TurnsDistinct, Context
    <3> QED BY <1>8, <1>9, <1>10, <2>4, <3>1, RowIds
  <2>5. CASE Context(r) \notin taken[m] /\ Context(q) \notin taken[m]
    BY <1>2, <2>5, RowIds DEF RowInv, TurnsDistinct, Context
  <2> QED BY <2>2, <2>3, <2>4, <2>5
<1>16. MovedRowsLive'
  <2> SUFFICES ASSUME NEW i \in RowId, row'[i].movedBy # {}
               PROVE  phase'[row'[i].conv] # "merged"
    BY DEF MovedRowsLive
  <2>1. CASE i \in taken[m]
    BY <1>1, <1>6, <1>7, <1>9, <2>1
  <2>2. CASE i \notin taken[m]
    BY <1>1, <1>2, <1>6, <1>7, <1>8, <2>2 DEF RowInv, MovedRowsLive, RowsShaped
  <2> QED BY <2>1, <2>2
<1>17. ChecksStand'
  <2>1. CheckStands(m)'
    BY DEF Commit, EndBody, CheckStands, Locked, TypeOK
  <2>2. ASSUME NEW n \in Merge \ {m}, pc[n] \in Locked PROVE CheckStands(n)'
    <3>1. {S, T} \cap {Source(n), Target(n)} = {}
      BY <2>2, LockedApart DEF Commit, Locked, S, T
    <3>2. Source(n) \in Conv /\ Target(n) \in Conv
      BY <2>2 DEF AuditFollows, Locked
    <3>3. pc'[n] = pc[n] /\ audit'[n] = audit[n] /\ offset'[n] = offset[n]
          /\ taken'[n] = taken[n]
      BY MergeStepFrame DEF OthersKeep, Commit, EndBody, TypeOK
    <3>4. counter'[Target(n)] = counter[Target(n)] /\ phase'[Target(n)] = phase[Target(n)]
      BY <1>5, <1>6, <3>1, <3>2
    <3>5. \A i \in RowId : \/ row'[i] = row[i]
                           \/ row[i].conv # Source(n) /\ row'[i].conv # Source(n)
      BY <1>2, <1>7, <1>9, <3>1
    <3> QED BY <2>2, <3>3, <3>4, <3>5, ChecksKept DEF RowInv
  <2>3. ASSUME NEW n \in Merge \ {m}, pc[n] \notin Locked PROVE CheckStands(n)'
    BY <2>3, MergeStepFrame DEF OthersKeep, CheckStands, Locked
  <2> QED BY <2>1, <2>2, <2>3 DEF ChecksStand
<1> QED BY <1>12, <1>13, <1>14, <1>15, <1>16, <1>17 DEF RowInv

\* A request numbers itself past its conversation's counter, which no open body
\* past its checks can hold, and records its calls under that number.
LEMMA RequestStepRows ==
  ASSUME TypeOK, AuditFollows, LockInv, RowInv, NEW r \in Request, RequestStep(r)
  PROVE  RowInv'
<1>1. UNCHANGED mergeVars
  BY OtherStepFrame
<1>2. \A i \in RowId : row[i].conv \in Conv \cup {None} /\ row[i].turn \in Nat
  BY DEF TypeOK, Row
<1>3. CASE SaveContext(r)
  <2> DEFINE c == bound[r]
             i0 == Context(r)
  <2>1. c \in Conv /\ c # None /\ lock[c] = None
    BY <1>3, MergeAssumption DEF SaveContext, TypeOK, ServedReq
  <2>2. /\ row'[i0] = [conv |-> c, turn |-> counter[c] + 1, movedBy |-> {}]
        /\ \A i \in RowId : i # i0 => row'[i] = row[i]
    BY <1>3, RowIds DEF SaveContext, TypeOK, Context
  <2>3. /\ counter'[c] = counter[c] + 1
        /\ \A d \in Conv : d # c => counter'[d] = counter[d]
    BY <1>3, <2>1 DEF SaveContext, TypeOK
  <2>4. /\ req[r] = "prepared" /\ req'[r] = "saved"
        /\ \A q \in Request : q # r => req'[q] = req[q]
        /\ UNCHANGED phase
    BY <1>3 DEF SaveContext, TypeOK
  <2>5. row[i0].conv = None /\ counter \in [Conv -> Nat]
    BY <2>4 DEF RowInv, RowsOnce, TypeOK
  <2> HIDE DEF c, i0
  <2>6. /\ i0 \in RowId
        /\ \A q \in Request : /\ Context(q) \in RowId /\ (q # r => Context(q) # i0)
                              /\ ToolCall(q) # i0 /\ ToolCall(q) \in RowId
    BY RowIds DEF i0
  <2>7. RowsShaped'
    <3>1. \A i \in RowId : row'[i].conv = None => row'[i].movedBy = {}
      BY <2>2 DEF RowInv, RowsShaped
    <3>2. \A q \in Request : row'[Context(q)].conv # None => row'[Context(q)].turn >= 1
      BY <2>1, <2>2, <2>5, <2>6 DEF RowInv, RowsShaped, i0
    <3> QED BY <3>1, <3>2 DEF RowsShaped, Context
  <2>8. RowsOnce'
    BY <2>2, <2>4, <2>6 DEF RowInv, RowsOnce, Context, ToolCall, i0
  <2>9. TurnsCounted'
    <3> SUFFICES ASSUME NEW q \in Request, row'[Context(q)].conv # None
                 PROVE  row'[Context(q)].turn <= counter'[row'[Context(q)].conv]
      BY DEF TurnsCounted, Context
    <3>1. CASE q = r
      BY <2>1, <2>2, <2>3, <2>5, <3>1 DEF i0
    <3>2. CASE q # r
      BY <1>2, <2>1, <2>2, <2>3, <2>5, <2>6, <3>2 DEF RowInv, TurnsCounted
    <3> QED BY <3>1, <3>2
  <2>10. TurnsDistinct'
    <3>1. ASSUME NEW q \in Request, q # r, row'[Context(q)].conv = c
          PROVE  row'[Context(q)].turn < counter[c] + 1
      BY <1>2, <2>1, <2>2, <2>5, <2>6, <3>1 DEF RowInv, TurnsCounted
    <3>2. \A q \in Request : q # r => row'[Context(q)] = row[Context(q)]
      BY <2>2, <2>6
    <3>3. row'[Context(r)].conv = c /\ row'[Context(r)].turn = counter[c] + 1
      BY <2>2 DEF i0
    <3>4. \A p, q \in Request : p # r /\ q # r /\ p # q /\ row'[Context(p)].conv # None
              /\ row'[Context(p)].conv = row'[Context(q)].conv
            => row'[Context(p)].turn # row'[Context(q)].turn
      BY <3>2 DEF RowInv, TurnsDistinct, Context
    <3>5. \A q \in Request : row'[Context(q)].turn \in Nat
      BY <1>2, <2>1, <2>5, <2>6, <3>2, <3>3
    <3> SUFFICES ASSUME NEW p \in Request, NEW q \in Request, p # q,
                        row'[Context(p)].conv # None,
                        row'[Context(p)].conv = row'[Context(q)].conv
                 PROVE  row'[Context(p)].turn # row'[Context(q)].turn
      BY DEF TurnsDistinct, Context
    <3> QED BY <2>1, <2>5, <3>1, <3>3, <3>4, <3>5
  <2>11. MovedRowsLive'
    BY <2>2, <2>4 DEF RowInv, MovedRowsLive
  <2>12. ChecksStand'
    <3> SUFFICES ASSUME NEW n \in Merge PROVE CheckStands(n)'
      BY DEF ChecksStand
    <3>1. CASE pc[n] \in Locked
      <4>1. Source(n) \in Conv /\ Target(n) \in Conv
        BY <3>1 DEF AuditFollows, Locked
      <4>2. Source(n) # c /\ Target(n) # c /\ Source(n) # None
        BY <2>1, <3>1, <4>1, MergeAssumption DEF LockInv, BodiesHaveLocks
      <4>3. \A i \in RowId : \/ row'[i] = row[i]
                             \/ row[i].conv # Source(n) /\ row'[i].conv # Source(n)
        BY <2>2, <2>5, <4>2
      <4> QED
        BY <1>1, <2>3, <2>4, <3>1, <4>1, <4>2, <4>3, ChecksKept DEF RowInv, mergeVars
    <3>2. CASE pc[n] \notin Locked
      BY <1>1, <3>2 DEF mergeVars, CheckStands, Locked
    <3> QED BY <3>1, <3>2
  <2> QED BY <2>7, <2>8, <2>9, <2>10, <2>11, <2>12 DEF RowInv
<1>4. CASE SaveToolCall(r)
  <2> DEFINE c == bound[r]
             i0 == ToolCall(r)
  <2>1. c \in Conv /\ c # None
    BY <1>4, MergeAssumption DEF SaveToolCall, TypeOK, ServedReq
  <2>2. /\ row'[i0].conv = c /\ row'[i0].movedBy = {}
        /\ \A i \in RowId : i # i0 => row'[i] = row[i]
    BY <1>4, RowIds DEF SaveToolCall, TypeOK, ToolCall
  <2>3. /\ req[r] = "saved" /\ req'[r] = "done"
        /\ \A q \in Request : q # r => req'[q] = req[q]
        /\ UNCHANGED <<phase, counter>>
    BY <1>4 DEF SaveToolCall, TypeOK
  <2>4. row[i0].conv = None
    BY <2>3 DEF RowInv, RowsOnce
  <2> HIDE DEF c, i0
  <2>5. /\ i0 \in RowId
        /\ \A q \in Request : /\ Context(q) # i0 /\ Context(q) \in RowId
                              /\ ToolCall(q) \in RowId
                              /\ q # r => ToolCall(q) # i0
    BY RowIds DEF i0
  <2>6. \A q \in Request : /\ row'[Context(q)] = row[Context(q)]
                           /\ q # r => row'[ToolCall(q)] = row[ToolCall(q)]
    BY <2>2, <2>5
  <2>7. RowsShaped' /\ TurnsCounted' /\ TurnsDistinct'
    <3>1. \A i \in RowId : row'[i].conv = None => row'[i].movedBy = {}
      BY <2>1, <2>2 DEF RowInv, RowsShaped
    <3>2. RowsShaped'
      BY <2>6, <3>1 DEF RowInv, RowsShaped, Context
    <3>3. TurnsCounted' /\ TurnsDistinct'
      BY <2>3, <2>6 DEF RowInv, TurnsCounted, TurnsDistinct, Context
    <3> QED BY <3>2, <3>3
  <2>8. RowsOnce'
    <3> SUFFICES ASSUME NEW q \in Request
                 PROVE  /\ req'[q] \in {"idle", "bound", "prepared"} =>
                             row'[Context(q)].conv = None
                        /\ req'[q] # "done" => row'[ToolCall(q)].conv = None
      BY DEF RowsOnce, Context, ToolCall
    <3>1. CASE q = r
      BY <2>3, <3>1
    <3>2. CASE q # r
      BY <2>3, <2>6, <3>2 DEF RowInv, RowsOnce
    <3> QED BY <3>1, <3>2
  <2>9. MovedRowsLive'
    BY <2>2, <2>3 DEF RowInv, MovedRowsLive
  <2>10. ChecksStand'
    <3> SUFFICES ASSUME NEW n \in Merge PROVE CheckStands(n)'
      BY DEF ChecksStand
    <3>1. CASE pc[n] \in Locked
      <4>1. Source(n) # None
        BY <3>1, MergeAssumption DEF AuditFollows, Locked
      <4>2. i0[1] # "request_context"
        BY DEF i0, ToolCall
      <4>3. \A i \in RowId : \/ row'[i] = row[i]
                             \/ /\ row[i].conv # Source(n)
                                /\ i[1] # "request_context" /\ row'[i].movedBy = {}
        BY <2>2, <2>4, <4>1, <4>2
      <4> QED
        BY <1>1, <2>3, <3>1, <4>3, ChecksKept DEF RowInv, mergeVars
    <3>2. CASE pc[n] \notin Locked
      BY <1>1, <3>2 DEF mergeVars, CheckStands, Locked
    <3> QED BY <3>1, <3>2
  <2> QED BY <2>7, <2>8, <2>9, <2>10 DEF RowInv
<1>5. ASSUME UNCHANGED <<row, counter>>,
             \A q \in Request :
               \/ req[q] = req'[q]
               \/ req[q] \in {"idle", "bound"} /\ req'[q] \in {"bound", "prepared", "done"},
             \A d \in Conv : phase'[d] = "merged" => phase[d] = "merged"
      PROVE  RowInv'
  <2>1. RowsShaped' /\ TurnsCounted' /\ TurnsDistinct'
    BY <1>5 DEF RowInv, RowsShaped, TurnsCounted, TurnsDistinct, Context
  <2>2. RowsOnce'
    BY <1>5 DEF RowInv, RowsOnce, Context, ToolCall
  <2>3. MovedRowsLive'
    BY <1>2, <1>5 DEF RowInv, MovedRowsLive, RowsShaped
  <2>4. ChecksStand'
    BY <1>1, <1>5, ChecksUntouched DEF RowInv
  <2> QED BY <2>1, <2>2, <2>3, <2>4 DEF RowInv
<1>6. ASSUME NEW c \in Conv, Construct(r, c) \/ UseCached(r, c) PROVE RowInv'
  <2>1. \A q \in Request : \/ req[q] = req'[q]
                           \/ req[q] = "idle" /\ req'[q] \in {"bound", "done"}
    BY <1>6 DEF Construct, UseCached, BindTo, TypeOK
  <2>2. UNCHANGED <<row, counter, phase>>
    BY <1>6 DEF Construct, UseCached, convVars
  <2> QED BY <1>5, <2>1, <2>2
<1>7. CASE BeginIngest(r)
  <2>1. \A q \in Request : \/ req[q] = req'[q]
                           \/ req[q] = "bound" /\ req'[q] = "prepared"
    BY <1>7 DEF BeginIngest, TypeOK
  <2>2. \A d \in Conv : phase'[d] = "merged" => phase[d] = "merged"
    BY <1>7 DEF BeginIngest, TypeOK
  <2>3. UNCHANGED <<row, counter>>
    BY <1>7 DEF BeginIngest
  <2> QED BY <1>5, <2>1, <2>2, <2>3
<1> QED BY <1>3, <1>4, <1>6, <1>7 DEF RequestStep

\* Attaches and the tagger leave the rows alone.
LEMMA OtherStepRows ==
  ASSUME TypeOK, AuditFollows, RowInv,
         \/ \E x \in Attach : AttachStep(x)
         \/ \E c \in Conv : EndIngest(c)
         \/ UNCHANGED vars
  PROVE  RowInv'
<1>1. UNCHANGED <<row, counter, req, mergeVars>>
      /\ \A c \in Conv : phase'[c] = "merged" => phase[c] = "merged"
  BY DEF AttachStep, AttachAccept, AttachClear, AttachSave, EndIngest, TypeOK, vars,
         convVars, requestVars
<1>2. \A i \in RowId : row[i].conv \in Conv \cup {None}
  BY DEF TypeOK, Row
<1> QED BY <1>1, <1>2, SameRows, ChecksUntouched DEF RowInv

\* The inductive invariant.
LEMMA NextInv == Inv /\ [Next]_vars => Inv'
<1> SUFFICES ASSUME Inv, [Next]_vars PROVE Inv'
  OBVIOUS
<1>1. TypeOK' /\ AuditInv' /\ LockInv'
  BY NextType, NextAuditFollows, NextMovesCommitted, NextLocks DEF Inv, AuditInv
<1>2. RowInv'
  BY QuietMergeStepRows, CommitRows, RequestStepRows, OtherStepRows DEF Inv, AuditInv, Next
<1> QED BY <1>1, <1>2 DEF Inv

\* No two requests of one conversation have the same turn.
THEOREM TurnsAreDistinct == Spec => []TurnsDistinct
<1>1. Inv => TurnsDistinct
  BY DEF Inv, RowInv
<1> QED BY <1>1, InitInv, NextInv, PTL DEF Spec

\* A row that a merge moved stays in a conversation that is not merged away.
THEOREM MovedRowsStayLive == Spec => []MovedRowsLive
<1>1. Inv => MovedRowsLive
  BY DEF Inv, RowInv
<1> QED BY <1>1, InitInv, NextInv, PTL DEF Spec
=============================================================================
