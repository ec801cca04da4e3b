--------------------------- MODULE TurnQueue_proofs ---------------------------
(****************************************************************************)
(* Theorems about the turn queue: type correctness, that a turn is tagged   *)
(* once, that no reservation outlives its task, and that the coalescing of  *)
(* compaction requests implements CompactionDemand.                         *)
(****************************************************************************)
EXTENDS TurnQueue, FiniteSetTheorems, SequenceTheorems, WellFoundedInduction, TLAPS

----------------------------------------------------------------------------
(* Sequences of tasks.                                                      *)

\* What an append does to the members of a sequence.
LEMMA AppendMembers ==
  ASSUME NEW S, NEW s \in Seq(S), NEW e \in S
  PROVE  /\ Append(s, e) \in Seq(S)
         /\ DOMAIN Append(s, e) = 1..(Len(s) + 1)
         /\ \A i \in 1..Len(s) : Append(s, e)[i] = s[i]
         /\ Append(s, e)[Len(s) + 1] = e
  OBVIOUS

\* What taking the head does to them.
LEMMA TailMembers ==
  ASSUME NEW S, NEW s \in Seq(S), s # <<>>
  PROVE  /\ Head(s) \in S /\ Tail(s) \in Seq(S)
         /\ Len(s) > 0 /\ Head(s) = s[1]
         /\ DOMAIN Tail(s) = 1..(Len(s) - 1)
         /\ \A i \in 1..(Len(s) - 1) : Tail(s)[i] = s[i + 1]
<1>1. Len(s) \in Nat /\ Len(s) > 0
  BY EmptySeq
<1>2. /\ Head(s) \in S /\ Tail(s) \in Seq(S) /\ Len(Tail(s)) = Len(s) - 1
      /\ \A i \in 1..Len(Tail(s)) : Tail(s)[i] = s[i + 1]
  BY HeadTailProperties
<1>3. DOMAIN Tail(s) = 1..Len(Tail(s))
  BY <1>2, LenProperties
<1>4. Head(s) = s[1]
  BY <1>1
<1> QED  BY <1>1, <1>2, <1>3, <1>4

----------------------------------------------------------------------------
(* Type correctness.                                                        *)

TagTask == [turn : Turn, hash : Hash, fut : TagFuture]
Task == [kind : {"wrapped", "direct", "split"}, target : Target, fut : Future \cup {None}]

\* The type invariant, by who writes the variables, with what the loop and the
\* threads hold between two of their steps.
Counts ==
  /\ turns \in Target /\ index \in [Turn -> 0..2] /\ ingesting \in BOOLEAN
  /\ reserved \in [Turn -> Hash \cup {None}]
  /\ queued \in Demand \cup {None} /\ active \in Target \cup {-1}
  /\ prefix \in Target /\ priority \in Priority \cup {None}
  /\ extra \in 0..MaxExtra

LoopTyped ==
  /\ loop \in [pc : {"free", "fire", "takeover", "assign"}, turn : Target,
               hash : Hash \cup {None}, fut : Future \cup {None}]
  /\ loop.pc = "fire" => loop.turn \in Turn /\ loop.hash \in Hash

TaggerTyped ==
  /\ tagger \in [pc : {"idle", "tag", "queue", "activate", "submit", "assign",
                       "split", "finish"},
                 turn : Target, hash : Hash \cup {None}, fut : TagFuture \cup {None},
                 priority : Priority \cup {None}, sub : Future \cup {None}]
  /\ tagger.pc # "idle" => tagger.turn \in Turn
  /\ tagger.pc \in {"queue", "activate", "submit"} => tagger.priority \in Priority

CompactorTyped ==
  /\ compactor \in [pc : {"idle", "run", "finally", "activate", "submit",
                          "assign", "return"},
                    kind : {"wrapped", "direct", "split", None},
                    target : Target, fut : Future \cup {None},
                    next : Demand \cup {None}, sub : Future \cup {None}]
  /\ compactor.pc \in {"activate", "submit"} => compactor.next \in Demand

PoolsTyped == tagPool \in Seq(TagTask) /\ pool \in Seq(Task)

RequestsTyped ==
  /\ pending \in [tag : TagFuture \cup {None}, compact : Future \cup {None}]
  /\ request \in [Request -> [pc : {"idle", "tag", "compact", "inbound", "reply"},
                              fut : TagFuture \cup Future \cup {None}]]

TypeInv ==
  Counts /\ LoopTyped /\ TaggerTyped /\ CompactorTyped /\ PoolsTyped /\ RequestsTyped

LEMMA TargetEndTyped ==
  ASSUME NEW t \in Target
  PROVE  TargetEnd(t) \in Target
  BY QueueAssumption DEF TargetEnd, Target

LEMMA FreshTyped ==
  ASSUME NEW F, Unused(F) # {}
  PROVE  Fresh(F) \in F
<1>1. Fresh(F) \in Unused(F)
  BY Zenon DEF Fresh
<1> QED  BY <1>1 DEF Unused

LEMMA TypeInvInit == Init => TypeInv
<1> SUFFICES ASSUME Init PROVE TypeInv
  OBVIOUS
<1>1. 0 \in Target /\ 0 \in 0..2 /\ 0 \in 0..MaxExtra
  BY QueueAssumption DEF Target
<1>2. Counts
  BY <1>1 DEF Init, Counts
<1>3. LoopTyped /\ TaggerTyped /\ CompactorTyped
  BY <1>1 DEF Init, LoopTyped, TaggerTyped, CompactorTyped, Free, IdleTagger, IdleCompactor
<1>4. PoolsTyped
  BY DEF Init, PoolsTyped
<1>5. RequestsTyped
  BY DEF Init, RequestsTyped
<1> QED
  BY <1>2, <1>3, <1>4, <1>5 DEF TypeInv

LEMMA TypeInvImplies == TypeInv => TypeOK
  BY DEF TypeInv, Counts, LoopTyped, TaggerTyped, CompactorTyped, PoolsTyped,
         RequestsTyped, TypeOK, TagTask, Task

\* The parts nothing has been written of.
LEMMA LoopQuiet == LoopTyped /\ UNCHANGED loop => LoopTyped'
  BY DEF LoopTyped
LEMMA TaggerQuiet == TaggerTyped /\ UNCHANGED tagger => TaggerTyped'
  BY DEF TaggerTyped
LEMMA CompactorQuiet == CompactorTyped /\ UNCHANGED compactor => CompactorTyped'
  BY DEF CompactorTyped
LEMMA PoolsQuiet == PoolsTyped /\ UNCHANGED <<tagPool, pool>> => PoolsTyped'
  BY DEF PoolsTyped
LEMMA RequestsQuiet == RequestsTyped /\ UNCHANGED <<pending, request>> => RequestsTyped'
  BY DEF RequestsTyped
\* The event loop and the requests keep the types.
LEMMA CompletedTyped ==
  ASSUME TypeInv, Completed
  PROVE  turns' \in Target /\ LoopTyped'
<1>1. PICK t \in {turns, turns + 1} \cap Turn, h \in Hash :
         /\ turns' = t
         /\ loop' = IF ingesting \/ index[t] > 0 THEN Free
                    ELSE [Free EXCEPT !.pc = "fire", !.turn = t, !.hash = h]
  BY Zenon DEF Completed
<1>2. t \in Turn /\ t \in Target /\ 0 \in Target
  BY QueueAssumption DEF Turn, Target
<1> QED  BY <1>1, <1>2 DEF LoopTyped, Free

LEMMA LoopTypeStep ==
  ASSUME TypeInv,
         LoopStep \/ LateAnswer \/ TakeOver \/ CompactByHand \/ BeginIngestion \/ EndIngestion
  PROVE  TypeInv'
<1> USE DEF TypeInv
<1>0. 0 \in Target
  BY QueueAssumption DEF Target
<1>1. CASE ReserveTurn
  <2>1. loop.turn \in Turn /\ loop.hash \in Hash
    BY <1>1 DEF ReserveTurn, LoopTyped
  <2>2. LoopTyped'
    BY <1>0, <1>1 DEF ReserveTurn, LoopTyped, Free
  <2>3. CASE UNCHANGED <<reserved, tagPool, pending>>
    BY <1>1, <2>2, <2>3, TaggerQuiet, CompactorQuiet, PoolsQuiet, RequestsQuiet
    DEF ReserveTurn, Counts
  <2>4. CASE /\ Unused(TagFuture) # {}
             /\ reserved' = [reserved EXCEPT ![loop.turn] = loop.hash]
             /\ tagPool' = Append(tagPool, [turn |-> loop.turn, hash |-> loop.hash,
                                            fut |-> Fresh(TagFuture)])
             /\ pending' = [pending EXCEPT !.tag = Fresh(TagFuture)]
    <3>1. Fresh(TagFuture) \in TagFuture
      BY <2>4, FreshTyped
    <3>2. [turn |-> loop.turn, hash |-> loop.hash, fut |-> Fresh(TagFuture)] \in TagTask
      BY <2>1, <3>1 DEF TagTask
    <3>3. PoolsTyped'
      BY <1>1, <2>4, <3>2, AppendMembers DEF ReserveTurn, PoolsTyped
    <3>4. Counts'
      BY <1>1, <2>1, <2>4 DEF ReserveTurn, Counts
    <3>5. RequestsTyped'
      BY <1>1, <2>4, <3>1 DEF ReserveTurn, RequestsTyped
    <3> QED  BY <1>1, <2>2, <3>3, <3>4, <3>5, TaggerQuiet, CompactorQuiet DEF ReserveTurn
  <2> QED  BY <1>1, <2>3, <2>4 DEF ReserveTurn
<1>2. CASE SubmitTakeOver
  <2>1. Fresh(Future) \in Future
    BY <1>2, FreshTyped DEF SubmitTakeOver, Submitted
  <2>2. LoopTyped'
    BY <1>0, <1>2, <2>1 DEF SubmitTakeOver, LoopTyped, Free
  <2>3. [kind |-> "wrapped", target |-> loop.turn, fut |-> Fresh(Future)] \in Task
    BY <2>1 DEF LoopTyped, Task
  <2>4. PoolsTyped'
    BY <1>2, <2>3, AppendMembers DEF SubmitTakeOver, Submitted, PoolsTyped
  <2> QED
    BY <1>2, <2>2, <2>4, TaggerQuiet, CompactorQuiet, RequestsQuiet DEF SubmitTakeOver, Counts
<1>3. CASE AssignTakeOver
  <2>1. LoopTyped'
    BY <1>0, <1>3 DEF AssignTakeOver, LoopTyped, Free
  <2>2. RequestsTyped'
    BY <1>3 DEF AssignTakeOver, LoopTyped, RequestsTyped
  <2> QED
    BY <1>3, <2>1, <2>2, TaggerQuiet, CompactorQuiet, PoolsQuiet DEF AssignTakeOver, Counts
<1>4. CASE LateAnswer
  <2>1. turns' \in Target /\ LoopTyped'
    BY <1>4, CompletedTyped DEF LateAnswer
  <2>2. Counts'
    BY <1>4, <2>1, QueueAssumption DEF LateAnswer, Counts
  <2> QED
    BY <1>4, <2>1, <2>2, TaggerQuiet, CompactorQuiet, PoolsQuiet, RequestsQuiet DEF LateAnswer
<1>5. CASE TakeOver
  <2>1. LoopTyped'
    BY <1>0, <1>5 DEF TakeOver, LoopTyped, Free, Counts
  <2>2. Counts'
    BY <1>5, QueueAssumption DEF TakeOver, Counts
  <2> QED
    BY <1>5, <2>1, <2>2, TaggerQuiet, CompactorQuiet, PoolsQuiet, RequestsQuiet DEF TakeOver
<1>6. CASE CompactByHand
  <2>1. [kind |-> "direct", target |-> TargetEnd(turns), fut |-> None] \in Task
    BY TargetEndTyped DEF Counts, Task
  <2>2. PoolsTyped'
    BY <1>6, <2>1, AppendMembers DEF CompactByHand, PoolsTyped
  <2>3. Counts'
    BY <1>6, QueueAssumption DEF CompactByHand, Counts
  <2> QED
    BY <1>6, <2>2, <2>3, LoopQuiet, TaggerQuiet, CompactorQuiet, RequestsQuiet DEF CompactByHand
<1>7. CASE BeginIngestion
  BY <1>7, QueueAssumption, LoopQuiet, TaggerQuiet, CompactorQuiet, PoolsQuiet, RequestsQuiet
  DEF BeginIngestion, Counts
<1>8. CASE EndIngestion
  BY <1>8, LoopQuiet, TaggerQuiet, CompactorQuiet, PoolsQuiet, RequestsQuiet
  DEF EndIngestion, Counts
<1> QED  BY <1>1, <1>2, <1>3, <1>4, <1>5, <1>6, <1>7, <1>8 DEF LoopStep

LEMMA RequestTypeStep ==
  ASSUME TypeInv, NEW r \in Request, Arrive(r) \/ RequestStep(r)
  PROVE  TypeInv'
<1> USE DEF TypeInv
<1>1. CASE Arrive(r)
  <2>1. RequestsTyped'
    BY <1>1 DEF Arrive, Await, RequestsTyped
  <2> QED
    BY <1>1, <2>1, LoopQuiet, TaggerQuiet, CompactorQuiet, PoolsQuiet
    DEF Arrive, requestRest, Counts
<1>2. CASE WaitForTag(r)
  <2>1. RequestsTyped'
    BY <1>2 DEF WaitForTag, Await, RequestsTyped
  <2> QED
    BY <1>2, <2>1, LoopQuiet, TaggerQuiet, CompactorQuiet, PoolsQuiet
    DEF WaitForTag, requestRest, Counts
<1>3. CASE LookAtCompact(r)
  <2>1. RequestsTyped'
    BY <1>3 DEF LookAtCompact, Await, RequestsTyped
  <2> QED
    BY <1>3, <2>1, LoopQuiet, TaggerQuiet, CompactorQuiet, PoolsQuiet
    DEF LookAtCompact, requestRest, Counts
<1>4. CASE WaitForCompact(r)
  <2>1. RequestsTyped'
    BY <1>4 DEF WaitForCompact, Await, RequestsTyped
  <2> QED
    BY <1>4, <2>1, LoopQuiet, TaggerQuiet, CompactorQuiet, PoolsQuiet
    DEF WaitForCompact, requestRest, Counts
<1>5. CASE Inbound(r)
  <2>1. RequestsTyped'
    BY <1>5 DEF Inbound, Await, RequestsTyped
  <2> QED
    BY <1>5, <2>1, LoopQuiet, TaggerQuiet, CompactorQuiet, PoolsQuiet
    DEF Inbound, requestRest, Counts
<1>6. CASE FireTurnComplete(r)
  <2>1. turns' \in Target /\ LoopTyped'
    BY <1>6, CompletedTyped DEF FireTurnComplete
  <2>2. RequestsTyped'
    BY <1>6 DEF FireTurnComplete, RequestsTyped
  <2> QED
    BY <1>6, <2>1, <2>2, TaggerQuiet, CompactorQuiet, PoolsQuiet DEF FireTurnComplete, Counts
<1> QED  BY <1>1, <1>2, <1>3, <1>4, <1>5, <1>6 DEF RequestStep

\* The tagging thread keeps the types.
LEMMA AskedTyped ==
  ASSUME TypeInv, tagger.pc \in {"queue", "activate", "submit"}
  PROVE  Asked \in Demand
  BY TargetEndTyped DEF TypeInv, TaggerTyped, Asked, Demand

LEMMA TaggedTyped ==
  ASSUME TypeInv, NEW t \in Turn
  PROVE  LET tagged == [index EXCEPT ![t] = IF @ < 2 THEN @ + 1 ELSE @]
         IN  /\ tagged \in [Turn -> 0..2]
             /\ index[t] = 0 => tagged[t] = 1
             /\ \A u \in Turn : u # t => tagged[u] = index[u]
<1> DEFINE n == IF index[t] < 2 THEN index[t] + 1 ELSE index[t]
<1>1. index \in [Turn -> 0..2] /\ index[t] \in 0..2
  BY DEF TypeInv, Counts
<1>2. n \in 0..2 /\ (index[t] = 0 => n = 1)
  BY <1>1
<1> HIDE DEF n
<1>3. /\ [index EXCEPT ![t] = n] \in [Turn -> 0..2]
      /\ index[t] = 0 => [index EXCEPT ![t] = n][t] = 1
      /\ \A u \in Turn : u # t => [index EXCEPT ![t] = n][u] = index[u]
  BY <1>1, <1>2
<1> QED  BY <1>3 DEF n

LEMMA TaggerTypeStep ==
  ASSUME TypeInv, TaggerStep
  PROVE  TypeInv'
<1> USE DEF TypeInv
<1>0. 0 \in Target
  BY QueueAssumption DEF Target
<1>1. CASE StartTagging
  <2>1. Head(tagPool) \in TagTask /\ Tail(tagPool) \in Seq(TagTask)
    BY <1>1, TailMembers DEF StartTagging, PoolsTyped
  <2>2. Head(tagPool).turn \in Target
    BY <2>1 DEF TagTask, Turn, Target
  <2>3. TaggerTyped'
    BY <1>1, <2>1, <2>2 DEF StartTagging, TaggerTyped, TagTask, IdleTagger
  <2>4. PoolsTyped'
    BY <1>1, <2>1 DEF StartTagging, PoolsTyped
  <2> QED
    BY <1>1, <2>3, <2>4, LoopQuiet, CompactorQuiet, RequestsQuiet DEF StartTagging, Counts
<1>2. CASE TagTurn
  <2>1. TaggerTyped'
    BY <1>2 DEF TagTurn, TaggerTyped
  <2>2. index' \in [Turn -> 0..2]
    <3> DEFINE tagged == [index EXCEPT ![tagger.turn] = IF @ < 2 THEN @ + 1 ELSE @]
    <3>1. tagged \in [Turn -> 0..2]
      BY <1>2, TaggedTyped DEF TagTurn, TaggerTyped
    <3>2. index' \in {index, tagged}
      BY <1>2 DEF TagTurn
    <3> HIDE DEF tagged
    <3> QED  BY <3>1, <3>2 DEF Counts
  <2>3. Counts'
    BY <1>2, <2>2 DEF TagTurn, taggerRest, Counts
  <2> QED
    BY <1>2, <2>1, <2>3, LoopQuiet, CompactorQuiet, PoolsQuiet, RequestsQuiet
    DEF TagTurn, taggerRest
<1>3. CASE QueueCompaction
  <2>1. TaggerTyped'
    BY <1>3 DEF QueueCompaction, TaggerTyped
  <2>2. queued' \in Demand \cup {None}
    BY <1>3, AskedTyped DEF QueueCompaction, Counts
  <2>3. Counts'
    BY <1>3, <2>2 DEF QueueCompaction, taggerRest, Counts
  <2> QED
    BY <1>3, <2>1, <2>3, LoopQuiet, CompactorQuiet, PoolsQuiet, RequestsQuiet
    DEF QueueCompaction, taggerRest
<1>4. CASE ActivateTarget
  <2>1. TaggerTyped'
    BY <1>4 DEF ActivateTarget, TaggerTyped
  <2>2. Asked.target \in Target
    BY <1>4, AskedTyped DEF ActivateTarget, Demand
  <2> QED
    BY <1>4, <2>1, <2>2, LoopQuiet, CompactorQuiet, PoolsQuiet, RequestsQuiet
    DEF ActivateTarget, taggerRest, Counts
<1>5. CASE SubmitCompaction
  <2>1. Fresh(Future) \in Future
    BY <1>5, FreshTyped DEF SubmitCompaction, Submitted
  <2>2. TaggerTyped'
    BY <1>5, <2>1 DEF SubmitCompaction, TaggerTyped
  <2>3. Asked.target \in Target
    BY <1>5, AskedTyped DEF SubmitCompaction, Demand
  <2>4. [kind |-> "wrapped", target |-> Asked.target, fut |-> Fresh(Future)] \in Task
    BY <2>1, <2>3 DEF Task
  <2>5. PoolsTyped'
    BY <1>5, <2>4, AppendMembers DEF SubmitCompaction, Submitted, taggerRest, PoolsTyped
  <2> QED
    BY <1>5, <2>2, <2>5, LoopQuiet, CompactorQuiet, RequestsQuiet
    DEF SubmitCompaction, taggerRest, Counts
<1>6. CASE AssignCompaction
  <2>1. TaggerTyped' /\ RequestsTyped'
    BY <1>6 DEF AssignCompaction, taggerRest, TaggerTyped, RequestsTyped
  <2> QED
    BY <1>6, <2>1, LoopQuiet, CompactorQuiet, PoolsQuiet DEF AssignCompaction, taggerRest, Counts
<1>7. CASE QueueTagSplit
  <2>1. TaggerTyped'
    BY <1>7 DEF QueueTagSplit, TaggerTyped
  <2>2. [kind |-> "split", target |-> 0, fut |-> None] \in Task
    BY <1>0 DEF Task
  <2>3. PoolsTyped'
    BY <1>7, <2>2, AppendMembers DEF QueueTagSplit, taggerRest, PoolsTyped
  <2> QED
    BY <1>7, <2>1, <2>3, LoopQuiet, CompactorQuiet, RequestsQuiet
    DEF QueueTagSplit, taggerRest, Counts
<1>8. CASE FinishTagging
  <2>1. TaggerTyped'
    BY <1>0, <1>8 DEF FinishTagging, TaggerTyped, IdleTagger
  <2>2. Counts'
    BY <1>8 DEF FinishTagging, Counts
  <2> QED
    BY <1>8, <2>1, <2>2, LoopQuiet, CompactorQuiet, PoolsQuiet, RequestsQuiet DEF FinishTagging
<1> QED  BY <1>1, <1>2, <1>3, <1>4, <1>5, <1>6, <1>7, <1>8 DEF TaggerStep

\* The compaction thread keeps the types.
LEMMA CompactorTypeStep ==
  ASSUME TypeInv, CompactorStep
  PROVE  TypeInv'
<1> USE DEF TypeInv
<1>0. 0 \in Target
  BY QueueAssumption DEF Target
<1>1. CASE StartTask
  <2>1. Head(pool) \in Task /\ Tail(pool) \in Seq(Task)
    BY <1>1, TailMembers DEF StartTask, PoolsTyped
  <2>2. CompactorTyped'
    BY <1>1, <2>1 DEF StartTask, CompactorTyped, Task, IdleCompactor
  <2>3. PoolsTyped'
    BY <1>1, <2>1 DEF StartTask, compactorRest, PoolsTyped
  <2> QED
    BY <1>1, <2>2, <2>3, LoopQuiet, TaggerQuiet, RequestsQuiet DEF StartTask, compactorRest, Counts
<1>2. CASE FinishRun
  <2>1. CompactorTyped'
    BY <1>0, <1>2 DEF FinishRun, CompactorTyped, IdleCompactor
  <2>2. prefix' \in Target
    BY <1>2 DEF FinishRun, Further, Counts
  <2> QED
    BY <1>2, <2>1, <2>2, LoopQuiet, TaggerQuiet, PoolsQuiet, RequestsQuiet
    DEF FinishRun, compactorRest, Counts
<1>3. CASE FinishWrapper
  <2>1. CompactorTyped'
    BY <1>0, <1>3 DEF FinishWrapper, CompactorTyped, Counts
  <2> QED
    BY <1>3, <2>1, LoopQuiet, TaggerQuiet, PoolsQuiet, RequestsQuiet
    DEF FinishWrapper, compactorRest, Counts
<1>4. CASE ActivateFollowUp
  <2>1. CompactorTyped'
    BY <1>4 DEF ActivateFollowUp, CompactorTyped
  <2>2. compactor.next.target \in Target
    BY <1>4 DEF ActivateFollowUp, CompactorTyped, Demand
  <2> QED
    BY <1>4, <2>1, <2>2, LoopQuiet, TaggerQuiet, PoolsQuiet, RequestsQuiet
    DEF ActivateFollowUp, compactorRest, Counts
<1>5. CASE SubmitFollowUp
  <2>1. Fresh(Future) \in Future
    BY <1>5, FreshTyped DEF SubmitFollowUp, Submitted
  <2>2. compactor.next.target \in Target
    BY <1>5 DEF SubmitFollowUp, CompactorTyped, Demand
  <2>3. CompactorTyped'
    BY <1>5, <2>1 DEF SubmitFollowUp, CompactorTyped
  <2>4. [kind |-> "wrapped", target |-> compactor.next.target, fut |-> Fresh(Future)] \in Task
    BY <2>1, <2>2 DEF Task
  <2>5. PoolsTyped'
    BY <1>5, <2>4, AppendMembers DEF SubmitFollowUp, Submitted, compactorRest, PoolsTyped
  <2> QED
    BY <1>5, <2>3, <2>5, LoopQuiet, TaggerQuiet, RequestsQuiet
    DEF SubmitFollowUp, compactorRest, Counts
<1>6. CASE AssignFollowUp
  <2>1. CompactorTyped' /\ RequestsTyped'
    BY <1>6 DEF AssignFollowUp, compactorRest, CompactorTyped, RequestsTyped
  <2> QED
    BY <1>6, <2>1, LoopQuiet, TaggerQuiet, PoolsQuiet DEF AssignFollowUp, compactorRest, Counts
<1>7. CASE Return
  <2>1. CompactorTyped'
    BY <1>0, <1>7 DEF Return, CompactorTyped, IdleCompactor
  <2> QED
    BY <1>7, <2>1, LoopQuiet, TaggerQuiet, PoolsQuiet, RequestsQuiet DEF Return, compactorRest, Counts
<1> QED  BY <1>1, <1>2, <1>3, <1>4, <1>5, <1>6, <1>7 DEF CompactorStep

LEMMA TypeInvStep == TypeInv /\ [Next]_vars => TypeInv'
<1> SUFFICES ASSUME TypeInv, [Next]_vars PROVE TypeInv'
  OBVIOUS
<1>1. CASE UNCHANGED vars
  BY <1>1, LoopQuiet, TaggerQuiet, CompactorQuiet, PoolsQuiet, RequestsQuiet
  DEF vars, TypeInv, Counts
<1>2. CASE \E r \in Request : Arrive(r) \/ RequestStep(r)
  BY <1>2, RequestTypeStep
<1>3. CASE LoopStep \/ LateAnswer \/ TakeOver \/ CompactByHand \/ BeginIngestion \/ EndIngestion
  BY <1>3, LoopTypeStep
<1>4. CASE TaggerStep
  BY <1>4, TaggerTypeStep
<1>5. CASE CompactorStep
  BY <1>5, CompactorTypeStep
<1> QED  BY <1>1, <1>2, <1>3, <1>4, <1>5 DEF Next

\* The state keeps its types whatever the pools, the loop and the requests do:
\* a submission takes a future nobody else has, a run that submits a follow-up
\* has a demand in hand (_run_compact_wrapper), and a thread that asks for a
\* compaction has a priority (_queue_compaction).
THEOREM TypeCorrect == Spec => []TypeOK
<1>1. Spec => []TypeInv
  BY TypeInvInit, TypeInvStep, PTL DEF Spec
<1> QED  BY <1>1, TypeInvImplies, PTL

----------------------------------------------------------------------------
(* A turn is tagged once.                                                   *)

\* The tagging thread has found its turn without an entry and is the only one
\* that writes entries.
OnceInv == TaggedOnce /\ (tagger.pc = "tag" => index[tagger.turn] = 0)

LEMMA OnceStep == TypeInv /\ OnceInv /\ [Next]_vars => OnceInv'
<1> SUFFICES ASSUME TypeInv, OnceInv, [Next]_vars PROVE OnceInv'
  OBVIOUS
<1>1. index \in [Turn -> 0..2] /\ \A t \in Turn : index[t] <= 1
  BY DEF TypeInv, Counts, OnceInv, TaggedOnce
<1>2. CASE UNCHANGED <<index, tagger>>
  BY <1>2 DEF OnceInv, TaggedOnce
<1>3. CASE StartTagging
  <2>1. Head(tagPool) \in TagTask
    BY <1>3, TailMembers DEF StartTagging, TypeInv, PoolsTyped
  <2>2. Head(tagPool).turn \in Turn
    BY <2>1 DEF TagTask
  <2>3. index[Head(tagPool).turn] \in 0..2
    BY <1>1, <2>2
  <2>4. tagger'.pc = "tag" => index'[tagger'.turn] = 0
    BY <1>3, <2>3 DEF StartTagging, IdleTagger
  <2> QED  BY <1>3, <2>4 DEF StartTagging, OnceInv, TaggedOnce
<1>4. CASE TagTurn
  <2>1. tagger'.pc # "tag"
    BY <1>4 DEF TagTurn, TypeInv, TaggerTyped
  <2>2. tagger.turn \in Turn /\ index[tagger.turn] = 0
    BY <1>4 DEF TagTurn, OnceInv, TypeInv, TaggerTyped
  <2>3. \A t \in Turn : index'[t] <= 1
    <3> DEFINE tagged == [index EXCEPT ![tagger.turn] = IF @ < 2 THEN @ + 1 ELSE @]
    <3>1. tagged[tagger.turn] = 1 /\ \A u \in Turn : u # tagger.turn => tagged[u] = index[u]
      BY <2>2, TaggedTyped
    <3>2. index' \in {index, tagged}
      BY <1>4 DEF TagTurn
    <3> HIDE DEF tagged
    <3>3. ASSUME NEW t \in Turn PROVE tagged[t] <= 1
      BY <1>1, <3>1
    <3> QED  BY <1>1, <3>2, <3>3
  <2> QED  BY <2>1, <2>3 DEF OnceInv, TaggedOnce
<1>5. CASE /\ UNCHANGED index
           /\ \/ QueueCompaction \/ ActivateTarget \/ SubmitCompaction \/ AssignCompaction
              \/ QueueTagSplit \/ FinishTagging
  <2>1. tagger'.pc # "tag"
    <3> USE DEF TypeInv, TaggerTyped
    <3>1. QueueCompaction => tagger'.pc # "tag"
      BY DEF QueueCompaction
    <3>2. ActivateTarget \/ SubmitCompaction \/ AssignCompaction => tagger'.pc # "tag"
      BY DEF ActivateTarget, SubmitCompaction, AssignCompaction
    <3>3. QueueTagSplit => tagger'.pc # "tag"
      BY DEF QueueTagSplit
    <3>4. FinishTagging => tagger'.pc # "tag"
      BY DEF FinishTagging, IdleTagger
    <3> HIDE DEF TypeInv, TaggerTyped
    <3> QED  BY <1>5, <3>1, <3>2, <3>3, <3>4
  <2> QED  BY <1>5, <2>1 DEF OnceInv, TaggedOnce
<1>6. (\E r \in Request : Arrive(r) \/ RequestStep(r)) => UNCHANGED <<index, tagger>>
  BY DEF RequestStep, Arrive, WaitForTag, LookAtCompact, WaitForCompact, Inbound,
         FireTurnComplete, requestRest
<1>7. LoopStep \/ LateAnswer \/ TakeOver \/ CompactByHand \/ BeginIngestion \/ EndIngestion
        => UNCHANGED <<index, tagger>>
  BY DEF LoopStep, ReserveTurn, SubmitTakeOver, AssignTakeOver, LateAnswer, TakeOver,
         CompactByHand, BeginIngestion, EndIngestion
<1>8. CompactorStep => UNCHANGED <<index, tagger>>
  BY DEF CompactorStep, StartTask, FinishRun, FinishWrapper, ActivateFollowUp,
         SubmitFollowUp, AssignFollowUp, Return, compactorRest
<1>9. TaggerStep => StartTagging \/ TagTurn
                      \/ (/\ UNCHANGED index
                          /\ \/ QueueCompaction \/ ActivateTarget \/ SubmitCompaction
                             \/ AssignCompaction \/ QueueTagSplit \/ FinishTagging)
  BY DEF TaggerStep, QueueCompaction, ActivateTarget, SubmitCompaction, AssignCompaction,
         QueueTagSplit, FinishTagging
<1> QED
  BY <1>2, <1>3, <1>4, <1>5, <1>6, <1>7, <1>8, <1>9 DEF Next, vars

\* However often a turn is fired again while its task waits, runs or ends
\* (fire_turn_complete looks at the index and reserves in two steps), it gets one
\* entry: _run_tag_turn looks again, and nobody else writes entries.
THEOREM TurnsTaggedOnce == Spec => []TaggedOnce
<1>1. Init => OnceInv
  BY DEF Init, OnceInv, TaggedOnce, IdleTagger
<1>2. Spec => []TypeInv
  BY TypeInvInit, TypeInvStep, PTL DEF Spec
<1>3. OnceInv => TaggedOnce
  BY DEF OnceInv
<1> QED  BY <1>1, <1>2, <1>3, OnceStep, PTL DEF Spec

----------------------------------------------------------------------------
(* No reservation outlives its task.                                        *)

\* The task that will give a reservation back.
HasTask(t, h) ==
  \/ tagger.turn = t /\ tagger.hash = h
  \/ \E i \in DOMAIN tagPool : tagPool[i].turn = t /\ tagPool[i].hash = h

ReservedInv ==
  /\ \A t \in Turn : reserved[t] # None => HasTask(t, reserved[t])
  /\ tagger.pc = "idle" => tagger.hash = None

LEMMA ReservedQuiet ==
  ASSUME ReservedInv, UNCHANGED <<reserved, tagPool>>,
         tagger'.turn = tagger.turn, tagger'.hash = tagger.hash,
         tagger'.pc = "idle" => tagger.pc = "idle"
  PROVE  ReservedInv'
  BY DEF ReservedInv, HasTask

\* The new task is the last of the pool.
LEMMA ReserveTurnKeeps ==
  ASSUME TypeInv, ReservedInv, ReserveTurn
  PROVE  ReservedInv'
<1> DEFINE task == [turn |-> loop.turn, hash |-> loop.hash, fut |-> Fresh(TagFuture)]
<1>1. CASE UNCHANGED <<reserved, tagPool>>
  BY <1>1, ReservedQuiet DEF ReserveTurn
<1>2. CASE /\ Unused(TagFuture) # {}
           /\ reserved' = [reserved EXCEPT ![loop.turn] = loop.hash]
           /\ tagPool' = Append(tagPool, task)
  <2>1. loop.turn \in Turn /\ loop.hash \in Hash
    BY DEF ReserveTurn, TypeInv, LoopTyped
  <2>2. task \in TagTask /\ task.turn = loop.turn /\ task.hash = loop.hash
    BY <1>2, <2>1, FreshTyped DEF TagTask
  <2> HIDE DEF task
  <2>3. tagPool \in Seq(TagTask) /\ Len(tagPool) \in Nat /\ DOMAIN tagPool = 1..Len(tagPool)
    BY DEF TypeInv, PoolsTyped
  <2>4. /\ DOMAIN tagPool' = 1..(Len(tagPool) + 1)
        /\ \A i \in 1..Len(tagPool) : tagPool'[i] = tagPool[i]
        /\ tagPool'[Len(tagPool) + 1] = task
    BY <1>2, <2>2, <2>3, AppendMembers
  <2>5. tagger' = tagger
    BY DEF ReserveTurn
  <2>6. ASSUME NEW t \in Turn, reserved'[t] # None PROVE HasTask(t, reserved[t])'
    <3>1. CASE t = loop.turn
      <4>1. reserved'[t] = loop.hash
        BY <1>2, <2>1, <3>1 DEF TypeInv, Counts
      <4>2. Len(tagPool) + 1 \in DOMAIN tagPool'
        BY <2>3, <2>4
      <4> QED  BY <2>2, <2>4, <3>1, <4>1, <4>2 DEF HasTask
    <3>2. CASE t # loop.turn
      <4>1. reserved'[t] = reserved[t]
        BY <1>2, <2>1, <3>2 DEF TypeInv, Counts
      <4>2. HasTask(t, reserved[t])
        BY <2>6, <4>1 DEF ReservedInv
      <4>3. CASE tagger.turn = t /\ tagger.hash = reserved[t]
        BY <2>5, <4>1, <4>3 DEF HasTask
      <4>4. ASSUME NEW i \in DOMAIN tagPool, tagPool[i].turn = t, tagPool[i].hash = reserved[t]
            PROVE  HasTask(t, reserved[t])'
        <5>1. i \in DOMAIN tagPool' /\ tagPool'[i] = tagPool[i]
          BY <2>3, <2>4, <4>4
        <5> QED  BY <4>1, <4>4, <5>1 DEF HasTask
      <4> QED  BY <4>2, <4>3, <4>4 DEF HasTask
    <3> QED  BY <3>1, <3>2
  <2> QED  BY <2>5, <2>6 DEF ReservedInv
<1> QED  BY <1>1, <1>2 DEF ReserveTurn

\* The task moves from the head of the pool to the thread, which had none.
LEMMA StartTaggingKeeps ==
  ASSUME TypeInv, ReservedInv, StartTagging
  PROVE  ReservedInv'
<1>1. tagPool \in Seq(TagTask) /\ DOMAIN tagPool = 1..Len(tagPool) /\ Len(tagPool) \in Nat
  BY DEF TypeInv, PoolsTyped
<1>2. /\ Head(tagPool) = tagPool[1] /\ DOMAIN tagPool' = 1..(Len(tagPool) - 1)
      /\ \A i \in 1..(Len(tagPool) - 1) : tagPool'[i] = tagPool[i + 1]
  BY <1>1, TailMembers DEF StartTagging
<1>3. /\ tagger'.turn = tagPool[1].turn /\ tagger'.hash = tagPool[1].hash
      /\ tagger'.pc # "idle" /\ reserved' = reserved /\ tagger.hash = None
  BY <1>2 DEF StartTagging, IdleTagger, ReservedInv
<1>4. ASSUME NEW t \in Turn, reserved[t] # None PROVE HasTask(t, reserved[t])'
  <2>1. PICK i \in DOMAIN tagPool : tagPool[i].turn = t /\ tagPool[i].hash = reserved[t]
    BY <1>3, <1>4 DEF ReservedInv, HasTask
  <2>2. CASE i = 1
    BY <1>3, <2>1, <2>2 DEF HasTask
  <2>3. CASE i # 1
    <3>1. i - 1 \in DOMAIN tagPool' /\ tagPool'[i - 1] = tagPool[i]
      BY <1>1, <1>2, <2>3
    <3> QED  BY <1>3, <2>1, <3>1 DEF HasTask
  <2> QED  BY <2>2, <2>3
<1> QED  BY <1>3, <1>4 DEF ReservedInv

\* The reservation is given back, or the one that has replaced it has a task.
LEMMA FinishTaggingKeeps ==
  ASSUME TypeInv, ReservedInv, FinishTagging
  PROVE  ReservedInv'
<1>1. tagger.turn \in Turn /\ reserved \in [Turn -> Hash \cup {None}]
  BY DEF FinishTagging, TypeInv, TaggerTyped, Counts
<1>2. tagger' = IdleTagger /\ tagPool' = tagPool
  BY DEF FinishTagging
<1>3. ASSUME NEW t \in Turn, reserved'[t] # None PROVE HasTask(t, reserved[t])'
  <2>1. reserved'[t] = reserved[t] /\ ~ (t = tagger.turn /\ reserved[t] = tagger.hash)
    BY <1>1, <1>3 DEF FinishTagging
  <2>2. PICK i \in DOMAIN tagPool : tagPool[i].turn = t /\ tagPool[i].hash = reserved[t]
    BY <1>3, <2>1 DEF ReservedInv, HasTask
  <2> QED  BY <1>2, <2>1, <2>2 DEF HasTask
<1> QED  BY <1>2, <1>3 DEF ReservedInv, IdleTagger

LEMMA ReservedStep == TypeInv /\ ReservedInv /\ [Next]_vars => ReservedInv'
<1> SUFFICES ASSUME TypeInv, ReservedInv, [Next]_vars PROVE ReservedInv'
  OBVIOUS
<1>1. CASE UNCHANGED <<reserved, tagPool, tagger>>
  BY <1>1, ReservedQuiet
<1>2. CASE ReserveTurn
  BY <1>2, ReserveTurnKeeps
<1>3. CASE StartTagging
  BY <1>3, StartTaggingKeeps
<1>4. CASE FinishTagging
  BY <1>4, FinishTaggingKeeps
<1>5. CASE TagTurn
  <2>1. tagger'.turn = tagger.turn /\ tagger'.hash = tagger.hash /\ tagger'.pc # "idle"
    BY <1>5 DEF TagTurn, TypeInv, TaggerTyped
  <2> QED  BY <1>5, <2>1, ReservedQuiet DEF TagTurn, taggerRest
<1>6. CASE QueueCompaction
  <2>1. tagger'.turn = tagger.turn /\ tagger'.hash = tagger.hash /\ tagger'.pc # "idle"
    BY <1>6 DEF QueueCompaction, TypeInv, TaggerTyped
  <2> QED  BY <1>6, <2>1, ReservedQuiet DEF QueueCompaction, taggerRest
<1>7. CASE ActivateTarget
  <2>1. tagger'.turn = tagger.turn /\ tagger'.hash = tagger.hash /\ tagger'.pc # "idle"
    BY <1>7 DEF ActivateTarget, TypeInv, TaggerTyped
  <2> QED  BY <1>7, <2>1, ReservedQuiet DEF ActivateTarget, taggerRest
<1>8. CASE SubmitCompaction
  <2>1. tagger'.turn = tagger.turn /\ tagger'.hash = tagger.hash /\ tagger'.pc # "idle"
    BY <1>8 DEF SubmitCompaction, TypeInv, TaggerTyped
  <2> QED  BY <1>8, <2>1, ReservedQuiet DEF SubmitCompaction, taggerRest
<1>9. CASE AssignCompaction
  <2>1. tagger'.turn = tagger.turn /\ tagger'.hash = tagger.hash /\ tagger'.pc # "idle"
    BY <1>9 DEF AssignCompaction, TypeInv, TaggerTyped
  <2> QED  BY <1>9, <2>1, ReservedQuiet DEF AssignCompaction, taggerRest
<1>10. CASE QueueTagSplit
  <2>1. tagger'.turn = tagger.turn /\ tagger'.hash = tagger.hash /\ tagger'.pc # "idle"
    BY <1>10 DEF QueueTagSplit, TypeInv, TaggerTyped
  <2> QED  BY <1>10, <2>1, ReservedQuiet DEF QueueTagSplit, taggerRest
<1>11. (\E r \in Request : Arrive(r) \/ RequestStep(r)) => UNCHANGED <<reserved, tagPool, tagger>>
  BY DEF RequestStep, Arrive, WaitForTag, LookAtCompact, WaitForCompact, Inbound,
         FireTurnComplete, requestRest
<1>12. SubmitTakeOver \/ AssignTakeOver \/ LateAnswer \/ TakeOver \/ CompactByHand
         \/ BeginIngestion \/ EndIngestion => UNCHANGED <<reserved, tagPool, tagger>>
  BY DEF SubmitTakeOver, AssignTakeOver, LateAnswer, TakeOver, CompactByHand,
         BeginIngestion, EndIngestion
<1>13. CompactorStep => UNCHANGED <<reserved, tagPool, tagger>>
  BY DEF CompactorStep, StartTask, FinishRun, FinishWrapper, ActivateFollowUp,
         SubmitFollowUp, AssignFollowUp, Return, compactorRest
<1>14. CASE UNCHANGED vars
  BY <1>1, <1>14 DEF vars
<1> QED
  BY <1>1, <1>2, <1>3, <1>4, <1>5, <1>6, <1>7, <1>8, <1>9, <1>10, <1>11, <1>12, <1>13, <1>14
  DEF Next, LoopStep, TaggerStep

\* A turn that is reserved has a task to come that gives the reservation back,
\* however turns are fired again, with the same content or another, while tasks
\* wait and end (fire_turn_complete, the finally block of _run_tag_turn).
THEOREM ReservationsEnd == Spec => []ReservationsHaveTasks
<1>1. Init => ReservedInv
  BY DEF Init, ReservedInv, IdleTagger
<1>2. Spec => []TypeInv
  BY TypeInvInit, TypeInvStep, PTL DEF Spec
<1>3. ReservedInv => ReservationsHaveTasks
  BY DEF ReservedInv, HasTask, ReservationsHaveTasks
<1> QED  BY <1>1, <1>2, <1>3, ReservedStep, PTL DEF Spec

----------------------------------------------------------------------------
(* The demand.                                                              *)

\* A set of naturals that is not empty has a least element.
LEMMA LeastExists ==
  ASSUME NEW S \in SUBSET Nat, S # {}
  PROVE  \E x \in S : \A y \in S : x <= y
<1> DEFINE R == {ss \in Nat \X Nat : ss[1] < ss[2]}
<1>1. IsWellFoundedOn(R, Nat)
  BY NatLessThanWellFounded, Zenon DEF OpToRel
<1>2. \A m, n \in Nat : m < n => <<m, n>> \in R
  OBVIOUS
<1> HIDE DEF R
<1>3. PICK x \in S : \A y \in S : ~ (<<y, x>> \in R)
  BY <1>1, WFMin
<1>4. ASSUME NEW y \in S PROVE x <= y
  <2>1. CASE y < x
    BY <1>2, <1>3, <2>1
  <2> QED  BY <2>1
<1> QED  BY <1>4

\* The furthest of some targets, 0 without one, is one of them.
LEMMA FurthestExists ==
  ASSUME NEW S \in SUBSET Target
  PROVE  /\ Max(S \cup {0}) \in S \cup {0} /\ Max(S \cup {0}) \in Target
         /\ \A t \in S : t <= Max(S \cup {0})
<1> DEFINE T == S \cup {0}
           Left == {n \in Nat : MaxTurn - n \in T}
<1>1. MaxTurn \in Nat /\ T \in SUBSET Target /\ T \in SUBSET (0..MaxTurn) /\ 0 \in T
  BY QueueAssumption DEF Target
<1> HIDE DEF T
<1>2. MaxTurn \in Left
  BY <1>1
<1>3. Left \in SUBSET Nat /\ Left # {}
  BY <1>2
<1>4. PICK n \in Left : \A m \in Left : n <= m
  BY <1>3, LeastExists
<1>5. \A t \in T : MaxTurn - t \in Left
  BY <1>1
<1>6. MaxTurn - n \in T /\ \A t \in T : MaxTurn - n >= t
  BY <1>1, <1>4, <1>5
<1>7. \E x \in T : \A y \in T : x >= y
  BY <1>6
<1>8. Max(T) \in T /\ \A y \in T : Max(T) >= y
  BY <1>7, Zenon DEF Max
<1> QED  BY <1>1, <1>8 DEF T

\* It does not shrink when each target has one at least as far.
LEMMA FurthestGrows ==
  ASSUME NEW S \in SUBSET Target, NEW T \in SUBSET Target,
         \A s \in S : \E t \in T \cup {0} : s <= t
  PROVE  Max(S \cup {0}) <= Max(T \cup {0})
<1>1. S \subseteq Nat /\ T \subseteq Nat
  BY QueueAssumption DEF Target
<1> DEFINE s == Max(S \cup {0})
           m == Max(T \cup {0})
<1>2. s \in S \cup {0}
  BY FurthestExists
<1>3. m \in Target /\ \A t \in T : t <= m
  BY FurthestExists
<1> HIDE DEF s, m
<1>4. m \in Nat
  BY <1>3, QueueAssumption DEF Target
<1>5. PICK t \in T \cup {0} : s <= t
  BY <1>2
<1>6. t \in Nat /\ t <= m /\ s \in Nat
  BY <1>1, <1>2, <1>3, <1>4, <1>5
<1> QED  BY <1>4, <1>5, <1>6 DEF s, m

\* The targets of the tasks of _compact_pool, and of what each party holds.
Waiting(s) == {s[i].target : i \in {k \in DOMAIN s : s[k].kind = "wrapped"}}

TaggerHolds == IF tagger.pc \in {"queue", "activate", "submit"} THEN {Asked.target} ELSE {}
LoopHolds == IF loop.pc = "takeover" THEN {loop.turn} ELSE {}
RunHolds == IF Wrapped THEN {compactor.target} ELSE {}
NextHolds ==
  IF compactor.next # None /\ compactor.pc \in {"activate", "submit"}
  THEN {compactor.next.target} ELSE {}
QueueHolds == IF queued # None THEN {queued.target} ELSE {}

LEMMA OutstandingParts ==
  Outstanding = Waiting(pool) \cup TaggerHolds \cup LoopHolds \cup RunHolds
                  \cup NextHolds \cup QueueHolds
  BY DEF Outstanding, Waiting, TaggerHolds, LoopHolds, RunHolds, NextHolds, QueueHolds

LEMMA OutstandingPartsNext ==
  Outstanding' = Waiting(pool') \cup TaggerHolds' \cup LoopHolds' \cup RunHolds'
                   \cup NextHolds' \cup QueueHolds'
  BY DEF Outstanding, Waiting, TaggerHolds, LoopHolds, RunHolds, NextHolds, QueueHolds

LEMMA WaitingAppend ==
  ASSUME NEW s \in Seq(Task), NEW e \in Task
  PROVE  Waiting(Append(s, e))
           = Waiting(s) \cup (IF e.kind = "wrapped" THEN {e.target} ELSE {})
<1> DEFINE a == Append(s, e)
           added == IF e.kind = "wrapped" THEN {e.target} ELSE {}
<1>1. /\ Len(s) \in Nat /\ DOMAIN s = 1..Len(s) /\ DOMAIN a = 1..(Len(s) + 1)
      /\ \A i \in 1..Len(s) : a[i] = s[i]
      /\ a[Len(s) + 1] = e
  BY AppendMembers
<1> HIDE DEF a
<1>2. ASSUME NEW t \in Waiting(a) PROVE t \in Waiting(s) \cup added
  <2>1. PICK i \in DOMAIN a : a[i].kind = "wrapped" /\ t = a[i].target
    BY DEF Waiting
  <2>2. CASE i \in DOMAIN s
    BY <1>1, <2>1, <2>2 DEF Waiting
  <2>3. CASE i = Len(s) + 1
    BY <1>1, <2>1, <2>3
  <2> QED  BY <1>1, <2>1, <2>2, <2>3
<1>3. ASSUME NEW t \in Waiting(s) PROVE t \in Waiting(a)
  <2>1. PICK i \in DOMAIN s : s[i].kind = "wrapped" /\ t = s[i].target
    BY DEF Waiting
  <2>2. i \in DOMAIN a /\ a[i] = s[i]
    BY <1>1, <2>1
  <2> QED  BY <2>1, <2>2 DEF Waiting
<1>4. ASSUME e.kind = "wrapped" PROVE e.target \in Waiting(a)
  <2>1. Len(s) + 1 \in DOMAIN a
    BY <1>1
  <2> QED  BY <1>1, <1>4, <2>1 DEF Waiting
<1> QED  BY <1>2, <1>3, <1>4 DEF a

LEMMA WaitingTail ==
  ASSUME NEW s \in Seq(Task), s # <<>>
  PROVE  Waiting(s)
           = Waiting(Tail(s)) \cup (IF Head(s).kind = "wrapped" THEN {Head(s).target} ELSE {})
<1> DEFINE b == Tail(s)
           h == Head(s)
           gone == IF h.kind = "wrapped" THEN {h.target} ELSE {}
<1>1. /\ Len(s) \in Nat /\ Len(s) > 0 /\ DOMAIN s = 1..Len(s) /\ DOMAIN b = 1..(Len(s) - 1)
      /\ \A i \in 1..(Len(s) - 1) : b[i] = s[i + 1]
      /\ h = s[1]
  BY TailMembers
<1> HIDE DEF b, h
<1>2. ASSUME NEW t \in Waiting(b) PROVE t \in Waiting(s)
  <2>1. PICK i \in DOMAIN b : b[i].kind = "wrapped" /\ t = b[i].target
    BY DEF Waiting
  <2>2. i + 1 \in DOMAIN s /\ b[i] = s[i + 1]
    BY <1>1, <2>1
  <2> QED  BY <2>1, <2>2 DEF Waiting
<1>3. ASSUME NEW t \in Waiting(s) PROVE t \in Waiting(b) \cup gone
  <2>1. PICK i \in DOMAIN s : s[i].kind = "wrapped" /\ t = s[i].target
    BY DEF Waiting
  <2>2. CASE i = 1
    BY <1>1, <2>1, <2>2
  <2>3. CASE i # 1
    <3>1. i - 1 \in DOMAIN b /\ b[i - 1] = s[i]
      BY <1>1, <2>1, <2>3
    <3> QED  BY <2>1, <3>1 DEF Waiting
  <2> QED  BY <2>2, <2>3
<1>4. ASSUME h.kind = "wrapped" PROVE h.target \in Waiting(s)
  <2>1. 1 \in DOMAIN s
    BY <1>1
  <2> QED  BY <1>1, <1>4, <2>1 DEF Waiting
<1> QED  BY <1>2, <1>3, <1>4 DEF b, h

\* Every target is one.
LEMMA OutstandingTyped ==
  TypeInv => Outstanding \in SUBSET Target
<1> SUFFICES ASSUME TypeInv PROVE Outstanding \in SUBSET Target
  OBVIOUS
<1>1. Waiting(pool) \subseteq Target
  <2>1. \A i \in DOMAIN pool : pool[i] \in Task
    BY ElementOfSeq, LenProperties DEF TypeInv, PoolsTyped
  <2> QED  BY <2>1 DEF Waiting, Task
<1>2. TaggerHolds \subseteq Target
  BY TargetEndTyped DEF TypeInv, TaggerTyped, TaggerHolds, Asked
<1>3. LoopHolds \subseteq Target /\ RunHolds \subseteq Target
  BY DEF TypeInv, LoopTyped, CompactorTyped, LoopHolds, RunHolds
<1>4. NextHolds \subseteq Target
  BY DEF TypeInv, CompactorTyped, NextHolds, Demand
<1>5. QueueHolds \subseteq Target
  BY DEF TypeInv, Counts, QueueHolds, Demand
<1> QED  BY <1>1, <1>2, <1>3, <1>4, <1>5, OutstandingParts

LEMMA OutstandingTypedNext ==
  TypeInv' => (Outstanding \in SUBSET Target)'
  BY OutstandingTyped, PTL

\* The active target is that of a submission under way, a task or a run.
ActiveInv ==
  active # -1 =>
    \/ active \in Waiting(pool) \cup LoopHolds \cup RunHolds
    \/ tagger.pc = "submit" /\ active = Asked.target
    \/ compactor.pc = "submit" /\ active = compactor.next.target

Running == IF Wrapped THEN compactor.target ELSE 0

\* What the refinement asks of a step.
DemandStep == [Demands!Next]_(Demands!vars)

LEMMA OwedTyped ==
  ASSUME TypeInv
  PROVE  /\ Owed \in Outstanding \cup {0} /\ Owed \in Target /\ Owed \in Nat
         /\ \A t \in Outstanding : t <= Owed
<1>1. Outstanding \in SUBSET Target
  BY OutstandingTyped
<1>2. /\ Owed \in Outstanding \cup {0} /\ Owed \in Target
      /\ \A t \in Outstanding : t <= Owed
  BY <1>1, FurthestExists DEF Owed
<1> QED  BY <1>2, QueueAssumption DEF Target

LEMMA OwedTypedNext ==
  ASSUME TypeInv'
  PROVE  /\ Owed' \in Outstanding' \cup {0} /\ Owed' \in Target /\ Owed' \in Nat
         /\ \A t \in Outstanding' : t <= Owed'
<1>1. Outstanding' \in SUBSET Target
  BY OutstandingTypedNext
<1>2. /\ Owed' \in Outstanding' \cup {0} /\ Owed' \in Target
      /\ \A t \in Outstanding' : t <= Owed'
  BY <1>1, FurthestExists DEF Owed
<1> QED  BY <1>2, QueueAssumption DEF Target

LEMMA OwedSandwich ==
  ASSUME TypeInv, TypeInv', Outstanding' \subseteq Outstanding,
         \A o \in Outstanding : \E p \in Outstanding' \cup {0} : o <= p
  PROVE  Owed' = Owed
<1>1. Outstanding \in SUBSET Target /\ Outstanding' \in SUBSET Target
  BY OutstandingTyped, OutstandingTypedNext
<1>2. Owed \in Nat /\ Owed' \in Nat
  BY OwedTyped, OwedTypedNext
<1>3. Owed <= Owed'
  BY <1>1, FurthestGrows DEF Owed
<1>4. \A p \in Outstanding' : \E o \in Outstanding \cup {0} : p <= o
  BY <1>1, QueueAssumption DEF Target
<1>5. Owed' <= Owed
  BY <1>1, <1>4, FurthestGrows DEF Owed
<1> QED  BY <1>2, <1>3, <1>5

LEMMA StutterAllowed ==
  ASSUME Owed' = Owed, Running' = Running, prefix' = prefix
  PROVE  DemandStep
  BY DEF DemandStep, Demands!vars, Running

LEMMA AskAllowed ==
  ASSUME TypeInv, TypeInv', Outstanding \subseteq Outstanding',
         Running' = Running, prefix' = prefix
  PROVE  DemandStep
<1>1. Owed \in Nat /\ Owed' \in Nat /\ Owed' \in Target
  BY OwedTyped, OwedTypedNext
<1>2. Owed <= Owed'
  <2>1. CASE Owed = 0
    BY <1>1, <2>1
  <2>2. CASE Owed \in Outstanding
    BY <2>2, OwedTypedNext
  <2> QED  BY <2>1, <2>2, OwedTyped
<1>3. CASE Owed' = Owed
  BY <1>3, StutterAllowed
<1>4. CASE Owed' > Owed
  <2>1. Demands!Ask
    BY <1>1, <1>4 DEF Demands!Ask, Running
  <2> QED  BY <2>1 DEF DemandStep, Demands!Next
<1> QED  BY <1>1, <1>2, <1>3, <1>4

\* Nobody has taken or given up a target.
LEMMA HoldsUnchanged ==
  /\ UNCHANGED tagger => TaggerHolds' = TaggerHolds
  /\ UNCHANGED loop => LoopHolds' = LoopHolds
  /\ UNCHANGED compactor => RunHolds' = RunHolds /\ NextHolds' = NextHolds /\ Running' = Running
  /\ UNCHANGED queued => QueueHolds' = QueueHolds
  BY DEF TaggerHolds, LoopHolds, RunHolds, NextHolds, QueueHolds, Running, Wrapped, Asked

LEMMA DemandQuiet ==
  ASSUME ActiveInv, UNCHANGED <<compactor, prefix, active, queued>>,
         Waiting(pool') = Waiting(pool), LoopHolds' = LoopHolds, TaggerHolds' = TaggerHolds,
         tagger.pc = "submit" => tagger'.pc = "submit" /\ Asked'.target = Asked.target
  PROVE  ActiveInv' /\ DemandStep
<1>1. RunHolds' = RunHolds /\ NextHolds' = NextHolds /\ Running' = Running
      /\ QueueHolds' = QueueHolds
  BY HoldsUnchanged
<1>2. Outstanding' = Outstanding
  BY <1>1, OutstandingParts, OutstandingPartsNext
<1>3. DemandStep
  BY <1>1, <1>2, StutterAllowed DEF Owed
<1>4. ActiveInv'
  BY <1>1 DEF ActiveInv
<1> QED  BY <1>3, <1>4

LEMMA RequestDemandStep ==
  ASSUME TypeInv, ActiveInv, NEW r \in Request, Arrive(r) \/ RequestStep(r)
  PROVE  ActiveInv' /\ DemandStep
<1>1. UNCHANGED <<tagger, pool, compactor, prefix, active, queued>>
  BY DEF RequestStep, Arrive, WaitForTag, LookAtCompact, WaitForCompact, Inbound,
         FireTurnComplete, requestRest
<1>2. LoopHolds' = LoopHolds
  <2>1. CASE UNCHANGED loop
    BY <2>1, HoldsUnchanged
  <2>2. CASE FireTurnComplete(r)
    BY <2>2 DEF FireTurnComplete, Completed, Free, LoopHolds
  <2> QED
    BY <2>1, <2>2 DEF RequestStep, Arrive, WaitForTag, LookAtCompact, WaitForCompact,
                      Inbound, requestRest
<1> QED  BY <1>1, <1>2, HoldsUnchanged, DemandQuiet DEF Asked

LEMMA LoopDemandStep ==
  ASSUME TypeInv, TypeInv', ActiveInv,
         LoopStep \/ LateAnswer \/ TakeOver \/ CompactByHand \/ BeginIngestion \/ EndIngestion
  PROVE  ActiveInv' /\ DemandStep
<1>1. CASE ReserveTurn
  <2>1. UNCHANGED <<tagger, pool, compactor, prefix, active, queued>> /\ LoopHolds' = LoopHolds
    BY <1>1 DEF ReserveTurn, LoopHolds, Free
  <2> QED  BY <2>1, HoldsUnchanged, DemandQuiet DEF Asked
<1>2. CASE SubmitTakeOver
  <2>1. [kind |-> "wrapped", target |-> loop.turn, fut |-> Fresh(Future)] \in Task
    BY <1>2, FreshTyped DEF SubmitTakeOver, Submitted, TypeInv, LoopTyped, Task
  <2>2. Waiting(pool') = Waiting(pool) \cup {loop.turn}
    BY <1>2, <2>1, WaitingAppend DEF SubmitTakeOver, Submitted, TypeInv, PoolsTyped
  <2>3. LoopHolds = {loop.turn} /\ LoopHolds' = {}
    BY <1>2 DEF SubmitTakeOver, LoopHolds, Free
  <2>4. /\ UNCHANGED <<tagger, compactor, prefix, active, queued>>
        /\ TaggerHolds' = TaggerHolds /\ RunHolds' = RunHolds /\ NextHolds' = NextHolds
        /\ Running' = Running /\ QueueHolds' = QueueHolds
    BY <1>2, HoldsUnchanged DEF SubmitTakeOver
  <2>5. Outstanding' = Outstanding
    BY <2>2, <2>3, <2>4, OutstandingParts, OutstandingPartsNext
  <2>6. DemandStep
    BY <2>4, <2>5, StutterAllowed DEF Owed
  <2>7. ActiveInv'
    BY <2>2, <2>3, <2>4 DEF ActiveInv, Asked
  <2> QED  BY <2>6, <2>7
<1>3. CASE AssignTakeOver
  <2>1. UNCHANGED <<tagger, pool, compactor, prefix, active, queued>> /\ LoopHolds' = LoopHolds
    BY <1>3 DEF AssignTakeOver, LoopHolds, Free
  <2> QED  BY <2>1, HoldsUnchanged, DemandQuiet DEF Asked
<1>4. CASE LateAnswer
  <2>1. UNCHANGED <<tagger, pool, compactor, prefix, active, queued>> /\ LoopHolds' = LoopHolds
    BY <1>4 DEF LateAnswer, Completed, LoopHolds, Free
  <2> QED  BY <2>1, HoldsUnchanged, DemandQuiet DEF Asked
<1>5. CASE TakeOver
  <2>1. LoopHolds = {} /\ LoopHolds' = {turns} /\ active' = turns
    BY <1>5 DEF TakeOver, LoopHolds, Free
  <2>2. /\ UNCHANGED <<tagger, pool, compactor, prefix, queued>>
        /\ TaggerHolds' = TaggerHolds /\ RunHolds' = RunHolds /\ NextHolds' = NextHolds
        /\ Running' = Running /\ QueueHolds' = QueueHolds
    BY <1>5, HoldsUnchanged DEF TakeOver
  <2>3. Outstanding \subseteq Outstanding'
    BY <2>1, <2>2, OutstandingParts, OutstandingPartsNext
  <2>4. ActiveInv'
    BY <2>1 DEF ActiveInv
  <2> QED  BY <2>2, <2>3, <2>4, AskAllowed
<1>6. CASE CompactByHand
  <2>1. [kind |-> "direct", target |-> TargetEnd(turns), fut |-> None] \in Task
    BY TargetEndTyped DEF TypeInv, Counts, Task
  <2>2. Waiting(pool') = Waiting(pool)
    BY <1>6, <2>1, WaitingAppend DEF CompactByHand, TypeInv, PoolsTyped
  <2>3. UNCHANGED <<tagger, loop, compactor, prefix, active, queued>>
    BY <1>6 DEF CompactByHand
  <2> QED  BY <2>2, <2>3, HoldsUnchanged, DemandQuiet DEF Asked
<1>7. CASE BeginIngestion \/ EndIngestion
  <2>1. UNCHANGED <<tagger, loop, pool, compactor, prefix, active, queued>>
    BY <1>7 DEF BeginIngestion, EndIngestion
  <2> QED  BY <2>1, HoldsUnchanged, DemandQuiet DEF Asked
<1> QED  BY <1>1, <1>2, <1>3, <1>4, <1>5, <1>6, <1>7 DEF LoopStep

\* Coalescing: the request is queued in the place of a nearer one, or dropped for
\* one that reaches as far.
LEMMA CoalescedKeepsOwed ==
  ASSUME TypeInv, TypeInv', ActiveInv, QueueCompaction,
         pending.compact # None /\ ~Done(pending.compact),
         tagger' = [tagger EXCEPT !.pc = "split"],
         queued' = IF Asked.target > active /\ Replaces(Asked) THEN Asked ELSE queued
  PROVE  Owed' = Owed
<1> DEFINE d == Asked.target
           Others == Waiting(pool) \cup LoopHolds \cup RunHolds \cup NextHolds
<1>1. Asked \in Demand /\ d \in Target /\ active \in Target \cup {-1}
      /\ queued \in Demand \cup {None} /\ None \notin Demand /\ Target \subseteq Nat
  BY AskedTyped, QueueAssumption DEF QueueCompaction, TypeInv, Counts, Demand, Target
<1>2. TaggerHolds = {d} /\ TaggerHolds' = {}
  BY DEF QueueCompaction, TaggerHolds, TypeInv, TaggerTyped
<1>3. /\ UNCHANGED <<pool, loop, compactor>> /\ LoopHolds' = LoopHolds
      /\ RunHolds' = RunHolds /\ NextHolds' = NextHolds
  BY HoldsUnchanged DEF QueueCompaction, taggerRest
<1>4. /\ Outstanding = Others \cup {d} \cup QueueHolds
      /\ Outstanding' = Others \cup QueueHolds'
  BY <1>2, <1>3, OutstandingParts, OutstandingPartsNext
<1>5. active # -1 => active \in Others
  <2>1. compactor.pc = "submit" => compactor.next.target \in NextHolds
    BY <1>1 DEF TypeInv, CompactorTyped, NextHolds
  <2> QED  BY <2>1 DEF ActiveInv, QueueCompaction
<1> HIDE DEF Others
<1>6. CASE Asked.target > active /\ Replaces(Asked)
  <2>1. QueueHolds' = {d}
    BY <1>1, <1>6 DEF QueueHolds
  <2>2. \A q \in QueueHolds : q \in Nat /\ q <= d
    <3>1. CASE queued = None
      BY <3>1 DEF QueueHolds
    <3>2. CASE queued # None
      <4>1. queued.target \in Nat /\ d \in Nat /\ QueueHolds = {queued.target}
        BY <1>1, <3>2 DEF QueueHolds, Demand
      <4>2. \/ d > (IF queued.target = 0 THEN -1 ELSE queued.target)
            \/ d = queued.target
        BY <1>6, <3>2 DEF Replaces
      <4> HIDE DEF d
      <4> QED  BY <4>1, <4>2
    <3> QED  BY <3>1, <3>2
  <2>3. \A o \in Outstanding : \E p \in Outstanding' \cup {0} : o <= p
    <3> SUFFICES ASSUME NEW o \in Outstanding PROVE \E p \in Outstanding' \cup {0} : o <= p
      OBVIOUS
    <3>1. o \in Nat /\ d \in Nat
      BY <1>1, OutstandingTyped
    <3>2. CASE o \in Others
      BY <1>4, <3>1, <3>2
    <3>3. CASE o \in {d} \cup QueueHolds
      BY <1>4, <2>1, <2>2, <3>1, <3>3
    <3> QED  BY <1>4, <3>2, <3>3
  <2>4. Outstanding' \subseteq Outstanding
    BY <1>4, <2>1
  <2> QED  BY <2>3, <2>4, OwedSandwich
<1>7. CASE ~ (Asked.target > active /\ Replaces(Asked))
  <2>1. QueueHolds' = QueueHolds
    BY <1>7 DEF QueueHolds
  <2>2. \E p \in Others \cup QueueHolds : d <= p
    <3>1. CASE ~ (d > active)
      <4>1. active # -1 /\ d <= active
        BY <1>1, <3>1
      <4> QED  BY <1>5, <4>1
    <3>2. CASE ~ Replaces(Asked)
      <4>1. queued # None
        BY <3>2 DEF Replaces
      <4>2. queued.target \in Nat /\ d \in Nat /\ queued.target \in QueueHolds
        BY <1>1, <4>1 DEF QueueHolds, Demand
      <4>3. ~ (d > (IF queued.target = 0 THEN -1 ELSE queued.target))
        BY <3>2 DEF Replaces
      <4> HIDE DEF d
      <4>4. d <= queued.target
        BY <4>2, <4>3
      <4> QED  BY <4>2, <4>4
    <3> QED  BY <1>7, <3>1, <3>2
  <2>3. \A o \in Outstanding : \E p \in Outstanding' \cup {0} : o <= p
    <3> SUFFICES ASSUME NEW o \in Outstanding PROVE \E p \in Outstanding' \cup {0} : o <= p
      OBVIOUS
    <3>1. o \in Nat
      BY <1>1, OutstandingTyped
    <3>2. CASE o = d
      BY <1>4, <2>1, <2>2, <3>2
    <3>3. CASE o \in Outstanding'
      BY <3>1, <3>3
    <3> QED  BY <1>4, <2>1, <3>2, <3>3
  <2>4. Outstanding' \subseteq Outstanding
    BY <1>4, <2>1
  <2> QED  BY <2>3, <2>4, OwedSandwich
<1> QED  BY <1>6, <1>7

LEMMA TaggerDemandStep ==
  ASSUME TypeInv, TypeInv', ActiveInv, TaggerStep
  PROVE  ActiveInv' /\ DemandStep
<1>1. CASE StartTagging
  <2>1. TaggerHolds = {} /\ TaggerHolds' = {} /\ tagger.pc # "submit"
    BY <1>1 DEF StartTagging, TaggerHolds, IdleTagger
  <2>2. UNCHANGED <<loop, pool, compactor, prefix, active, queued>>
    BY <1>1 DEF StartTagging
  <2> QED  BY <2>1, <2>2, HoldsUnchanged, DemandQuiet
<1>2. CASE TagTurn
  <2>1. TaggerHolds = {} /\ tagger.pc # "submit"
    BY <1>2 DEF TagTurn, TaggerHolds
  <2>2. /\ UNCHANGED <<loop, pool, compactor, prefix, active, queued>>
        /\ LoopHolds' = LoopHolds /\ RunHolds' = RunHolds /\ NextHolds' = NextHolds
        /\ Running' = Running /\ QueueHolds' = QueueHolds
    BY <1>2, HoldsUnchanged DEF TagTurn, taggerRest
  <2>3. Outstanding \subseteq Outstanding'
    BY <2>1, <2>2, OutstandingParts, OutstandingPartsNext
  <2>4. ActiveInv'
    BY <2>1, <2>2 DEF ActiveInv
  <2> QED  BY <2>2, <2>3, <2>4, AskAllowed
<1>3. CASE QueueCompaction
  <2>1. /\ UNCHANGED <<loop, pool, compactor, prefix, active>> /\ tagger.pc = "queue"
        /\ LoopHolds' = LoopHolds /\ RunHolds' = RunHolds /\ Running' = Running
    BY <1>3, HoldsUnchanged DEF QueueCompaction, taggerRest
  <2>2. ActiveInv'
    BY <2>1 DEF ActiveInv
  <2>3. CASE tagger' = [tagger EXCEPT !.pc = "activate"] /\ UNCHANGED queued
    <3>1. TaggerHolds' = TaggerHolds
      BY <2>1, <2>3 DEF TaggerHolds, Asked, TypeInv, TaggerTyped
    <3> QED  BY <2>1, <2>3, <3>1, DemandQuiet
  <2>4. CASE /\ pending.compact # None /\ ~Done(pending.compact)
             /\ tagger' = [tagger EXCEPT !.pc = "split"]
             /\ queued' = IF Asked.target > active /\ Replaces(Asked) THEN Asked ELSE queued
    BY <1>3, <2>1, <2>2, <2>4, CoalescedKeepsOwed, StutterAllowed
  <2> QED  BY <1>3, <2>3, <2>4 DEF QueueCompaction
<1>4. CASE ActivateTarget
  <2>1. /\ UNCHANGED <<loop, pool, compactor, prefix, queued>> /\ active' = Asked.target
        /\ LoopHolds' = LoopHolds /\ RunHolds' = RunHolds /\ NextHolds' = NextHolds
        /\ Running' = Running /\ QueueHolds' = QueueHolds
    BY <1>4, HoldsUnchanged DEF ActivateTarget, taggerRest
  <2>2. tagger.pc = "activate" /\ tagger'.pc = "submit" /\ Asked'.target = Asked.target
    BY <1>4 DEF ActivateTarget, Asked, TypeInv, TaggerTyped
  <2>3. Outstanding' = Outstanding
    BY <2>1, <2>2, OutstandingParts, OutstandingPartsNext DEF TaggerHolds
  <2> QED  BY <2>1, <2>2, <2>3, StutterAllowed DEF Owed, ActiveInv
<1>5. CASE SubmitCompaction
  <2>1. [kind |-> "wrapped", target |-> Asked.target, fut |-> Fresh(Future)] \in Task
    BY <1>5, FreshTyped, AskedTyped DEF SubmitCompaction, Submitted, Demand, Task
  <2>2. Waiting(pool') = Waiting(pool) \cup {Asked.target}
    BY <1>5, <2>1, WaitingAppend DEF SubmitCompaction, Submitted, TypeInv, PoolsTyped
  <2>3. /\ UNCHANGED <<loop, compactor, prefix, active, queued>>
        /\ LoopHolds' = LoopHolds /\ RunHolds' = RunHolds /\ NextHolds' = NextHolds
        /\ Running' = Running /\ QueueHolds' = QueueHolds
    BY <1>5, HoldsUnchanged DEF SubmitCompaction, taggerRest
  <2>4. TaggerHolds = {Asked.target} /\ TaggerHolds' = {}
    BY <1>5 DEF SubmitCompaction, TaggerHolds, TypeInv, TaggerTyped
  <2>5. Outstanding' = Outstanding
    BY <2>2, <2>3, <2>4, OutstandingParts, OutstandingPartsNext
  <2>6. ActiveInv'
    BY <2>2, <2>3 DEF ActiveInv
  <2> QED  BY <2>3, <2>5, <2>6, StutterAllowed DEF Owed
<1>6. CASE AssignCompaction
  <2>1. UNCHANGED <<loop, pool, compactor, prefix, active, queued>>
    BY <1>6 DEF AssignCompaction, taggerRest
  <2>2. TaggerHolds = {} /\ TaggerHolds' = {} /\ tagger.pc # "submit"
    BY <1>6 DEF AssignCompaction, TaggerHolds, TypeInv, TaggerTyped
  <2> QED  BY <2>1, <2>2, HoldsUnchanged, DemandQuiet
<1>7. CASE QueueTagSplit
  <2>1. UNCHANGED <<loop, compactor, prefix, active, queued>>
    BY <1>7 DEF QueueTagSplit, taggerRest
  <2>2. TaggerHolds = {} /\ TaggerHolds' = {} /\ tagger.pc # "submit"
    BY <1>7 DEF QueueTagSplit, TaggerHolds, TypeInv, TaggerTyped
  <2>3. [kind |-> "split", target |-> 0, fut |-> None] \in Task
    BY QueueAssumption DEF Task, Target
  <2>4. Waiting(pool') = Waiting(pool)
    BY <1>7, <2>3, WaitingAppend DEF QueueTagSplit, TypeInv, PoolsTyped
  <2> QED  BY <2>1, <2>2, <2>4, HoldsUnchanged, DemandQuiet
<1>8. CASE FinishTagging
  <2>1. TaggerHolds = {} /\ TaggerHolds' = {} /\ tagger.pc # "submit"
    BY <1>8 DEF FinishTagging, TaggerHolds, IdleTagger
  <2>2. UNCHANGED <<loop, pool, compactor, prefix, active, queued>>
    BY <1>8 DEF FinishTagging
  <2> QED  BY <2>1, <2>2, HoldsUnchanged, DemandQuiet
<1> QED  BY <1>1, <1>2, <1>3, <1>4, <1>5, <1>6, <1>7, <1>8 DEF TaggerStep

LEMMA CompactorDemandStep ==
  ASSUME TypeInv, TypeInv', ActiveInv, CompactorStep
  PROVE  ActiveInv' /\ DemandStep
<1>0. None \notin Demand
  BY QueueAssumption
<1>1. CASE StartTask
  <2>1. Waiting(pool)
          = Waiting(pool') \cup (IF Head(pool).kind = "wrapped" THEN {Head(pool).target} ELSE {})
    BY <1>1, WaitingTail DEF StartTask, TypeInv, PoolsTyped
  <2>2. RunHolds = {} /\ NextHolds = {} /\ Running = 0 /\ compactor.pc # "submit"
    BY <1>1 DEF StartTask, RunHolds, NextHolds, Running, Wrapped
  <2>3. /\ RunHolds' = IF Head(pool).kind = "wrapped" THEN {Head(pool).target} ELSE {}
        /\ Running' = IF Head(pool).kind = "wrapped" THEN Head(pool).target ELSE 0
        /\ NextHolds' = {}
    BY <1>1 DEF StartTask, RunHolds, NextHolds, Running, Wrapped, IdleCompactor
  <2>4. /\ UNCHANGED <<tagger, loop, prefix, active, queued>>
        /\ TaggerHolds' = TaggerHolds /\ LoopHolds' = LoopHolds /\ QueueHolds' = QueueHolds
    BY <1>1, HoldsUnchanged DEF StartTask, compactorRest
  <2>5. Outstanding' = Outstanding
    BY <2>1, <2>2, <2>3, <2>4, OutstandingParts, OutstandingPartsNext
  <2>6. Owed' = Owed
    BY <2>5 DEF Owed
  <2>7. Running' \in 0..Owed
    <3>1. Running' = 0 \/ Running' \in Outstanding'
      BY <2>3, OutstandingPartsNext
    <3>2. Outstanding \subseteq Nat
      BY OutstandingTyped, QueueAssumption DEF Target
    <3>3. Owed \in Nat /\ \A t \in Outstanding : t <= Owed
      BY OwedTyped
    <3>4. Running' \in Nat /\ Running' <= Owed
      <4>1. CASE Running' = 0
        BY <3>3, <4>1
      <4>2. CASE Running' \in Outstanding
        BY <3>2, <3>3, <4>2
      <4> QED  BY <2>5, <3>1, <4>1, <4>2
    <3> QED  BY <3>3, <3>4
  <2>8. Demands!Begin
    BY <2>2, <2>4, <2>6, <2>7 DEF Demands!Begin, Running
  <2>9. ActiveInv'
    BY <2>1, <2>2, <2>3, <2>4 DEF ActiveInv, Asked
  <2> QED  BY <2>8, <2>9 DEF DemandStep, Demands!Next
<1>2. CASE FinishRun
  <2>1. /\ UNCHANGED <<tagger, loop, pool, active, queued>> /\ compactor.pc = "run"
        /\ TaggerHolds' = TaggerHolds /\ LoopHolds' = LoopHolds /\ QueueHolds' = QueueHolds
    BY <1>2, HoldsUnchanged DEF FinishRun, compactorRest
  <2>2. RunHolds' = RunHolds /\ Running' = Running /\ NextHolds = {} /\ NextHolds' = {}
    <3>1. CASE compactor.kind = "wrapped"
      <4>1. /\ compactor'.pc = "finally" /\ compactor'.kind = "wrapped"
            /\ compactor'.target = compactor.target
        BY <1>2, <3>1 DEF FinishRun, TypeInv, CompactorTyped
      <4> QED  BY <2>1, <3>1, <4>1 DEF RunHolds, Running, NextHolds, Wrapped
    <3>2. CASE compactor.kind # "wrapped"
      BY <1>2, <2>1, <3>2 DEF FinishRun, IdleCompactor, RunHolds, Running, NextHolds, Wrapped
    <3> QED  BY <3>1, <3>2
  <2>3. Owed' = Owed
    BY <2>1, <2>2, OutstandingParts, OutstandingPartsNext DEF Owed
  <2>4. ActiveInv'
    BY <2>1, <2>2 DEF ActiveInv, Asked
  <2>5. CASE prefix' = prefix
    BY <2>2, <2>3, <2>4, <2>5, StutterAllowed
  <2>6. CASE prefix' \in Further
    <3>1. Demands!Advance
      BY <2>2, <2>3, <2>6 DEF Demands!Advance, Further, Running, TypeInv, Counts, Target
    <3> QED  BY <2>4, <3>1 DEF DemandStep, Demands!Next
  <2> QED  BY <1>2, <2>5, <2>6 DEF FinishRun
<1>3. CASE FinishWrapper
  <2>1. /\ UNCHANGED <<tagger, loop, pool, prefix>> /\ active' = -1 /\ queued' = None
        /\ compactor.pc = "finally"
        /\ TaggerHolds' = TaggerHolds /\ LoopHolds' = LoopHolds /\ QueueHolds' = {}
    BY <1>3, HoldsUnchanged DEF FinishWrapper, compactorRest, QueueHolds
  <2>2. RunHolds' = {} /\ Running' = 0 /\ NextHolds = {}
    BY <1>3 DEF FinishWrapper, RunHolds, Running, NextHolds, Wrapped, TypeInv, CompactorTyped
  <2>3. RunHolds \subseteq {Running}
    BY DEF RunHolds, Running
  <2>4. NextHolds' \subseteq QueueHolds
    BY <1>3 DEF FinishWrapper, NextHolds, QueueHolds, TypeInv, CompactorTyped
  <2>5. ASSUME NEW q \in QueueHolds, prefix < q PROVE q \in NextHolds'
    BY <1>3, <2>5 DEF FinishWrapper, NextHolds, QueueHolds, TypeInv, CompactorTyped
  <2>6. Outstanding' \subseteq Outstanding
    BY <2>1, <2>2, <2>4, OutstandingParts, OutstandingPartsNext
  <2>7. Owed \in Nat /\ Owed' \in Nat /\ Owed' <= Owed
    BY <2>6, OwedTyped, OwedTypedNext
  <2>8. ASSUME Running < Owed, prefix < Owed PROVE Owed' = Owed
    <3>1. Owed \in Outstanding /\ Owed \notin RunHolds
      BY <2>3, <2>7, <2>8, OwedTyped DEF Running, TypeInv, CompactorTyped, Target
    <3>2. Owed \in Outstanding'
      BY <2>1, <2>2, <2>5, <2>8, <3>1, OutstandingParts, OutstandingPartsNext
    <3> QED  BY <2>7, <3>2, OwedTypedNext
  <2>9. Demands!End
    BY <2>1, <2>2, <2>7, <2>8 DEF Demands!End, Running
  <2>10. ActiveInv'
    BY <2>1 DEF ActiveInv
  <2> QED  BY <2>9, <2>10 DEF DemandStep, Demands!Next
<1>4. CASE ActivateFollowUp
  <2>1. /\ UNCHANGED <<tagger, loop, pool, prefix, queued>> /\ active' = compactor.next.target
        /\ TaggerHolds' = TaggerHolds /\ LoopHolds' = LoopHolds /\ QueueHolds' = QueueHolds
    BY <1>4, HoldsUnchanged DEF ActivateFollowUp, compactorRest
  <2>2. compactor'.next = compactor.next /\ compactor'.pc = "submit" /\ compactor.pc = "activate"
    BY <1>4 DEF ActivateFollowUp, TypeInv, CompactorTyped
  <2>3. RunHolds = {} /\ RunHolds' = {} /\ Running = 0 /\ Running' = 0 /\ NextHolds' = NextHolds
    BY <2>2 DEF RunHolds, Running, NextHolds, Wrapped
  <2>4. Owed' = Owed
    BY <2>1, <2>3, OutstandingParts, OutstandingPartsNext DEF Owed
  <2>5. ActiveInv'
    BY <2>1, <2>2 DEF ActiveInv
  <2> QED  BY <2>1, <2>3, <2>4, <2>5, StutterAllowed
<1>5. CASE SubmitFollowUp
  <2>1. compactor.next \in Demand /\ compactor.next # None
    BY <1>0, <1>5 DEF SubmitFollowUp, TypeInv, CompactorTyped
  <2>2. [kind |-> "wrapped", target |-> compactor.next.target, fut |-> Fresh(Future)] \in Task
    BY <1>5, <2>1, FreshTyped DEF SubmitFollowUp, Submitted, Demand, Task
  <2>3. Waiting(pool') = Waiting(pool) \cup {compactor.next.target}
    BY <1>5, <2>2, WaitingAppend DEF SubmitFollowUp, Submitted, TypeInv, PoolsTyped
  <2>4. /\ UNCHANGED <<tagger, loop, prefix, active, queued>>
        /\ TaggerHolds' = TaggerHolds /\ LoopHolds' = LoopHolds /\ QueueHolds' = QueueHolds
    BY <1>5, HoldsUnchanged DEF SubmitFollowUp, compactorRest
  <2>5. compactor.pc = "submit" /\ compactor'.pc = "assign"
    BY <1>5 DEF SubmitFollowUp, TypeInv, CompactorTyped
  <2>6. /\ RunHolds = {} /\ RunHolds' = {} /\ Running = 0 /\ Running' = 0
        /\ NextHolds = {compactor.next.target} /\ NextHolds' = {}
    BY <2>1, <2>5 DEF RunHolds, Running, NextHolds, Wrapped
  <2>7. Owed' = Owed
    BY <2>3, <2>4, <2>6, OutstandingParts, OutstandingPartsNext DEF Owed
  <2>8. ActiveInv'
    BY <2>3, <2>4, <2>6 DEF ActiveInv, Asked
  <2> QED  BY <2>4, <2>6, <2>7, <2>8, StutterAllowed
<1>6. CASE AssignFollowUp \/ Return
  <2>1. /\ UNCHANGED <<tagger, loop, pool, prefix, active, queued>>
        /\ TaggerHolds' = TaggerHolds /\ LoopHolds' = LoopHolds /\ QueueHolds' = QueueHolds
    BY <1>6, HoldsUnchanged DEF AssignFollowUp, Return, compactorRest
  <2>2. compactor.pc \in {"assign", "return"} /\ compactor'.pc \in {"return", "idle"}
    <3>1. CASE AssignFollowUp
      BY <3>1 DEF AssignFollowUp, TypeInv, CompactorTyped
    <3>2. CASE Return
      BY <3>2 DEF Return, IdleCompactor
    <3> QED  BY <1>6, <3>1, <3>2
  <2>3. /\ RunHolds = {} /\ RunHolds' = {} /\ Running = 0 /\ Running' = 0
        /\ NextHolds = {} /\ NextHolds' = {}
    BY <2>2 DEF RunHolds, Running, NextHolds, Wrapped
  <2>4. Owed' = Owed
    BY <2>1, <2>3, OutstandingParts, OutstandingPartsNext DEF Owed
  <2>5. ActiveInv'
    BY <2>1, <2>2, <2>3 DEF ActiveInv, Asked
  <2> QED  BY <2>1, <2>3, <2>4, <2>5, StutterAllowed
<1> QED  BY <1>1, <1>2, <1>3, <1>4, <1>5, <1>6 DEF CompactorStep

LEMMA DemandNextStep ==
  TypeInv /\ TypeInv' /\ ActiveInv /\ [Next]_vars => ActiveInv' /\ DemandStep
<1> SUFFICES ASSUME TypeInv, TypeInv', ActiveInv, [Next]_vars
             PROVE  ActiveInv' /\ DemandStep
  OBVIOUS
<1>1. CASE UNCHANGED vars
  <2>1. UNCHANGED <<tagger, loop, pool, compactor, prefix, active, queued>>
    BY <1>1 DEF vars
  <2> QED  BY <2>1, HoldsUnchanged, DemandQuiet DEF Asked
<1>2. CASE \E r \in Request : Arrive(r) \/ RequestStep(r)
  BY <1>2, RequestDemandStep
<1>3. CASE LoopStep \/ LateAnswer \/ TakeOver \/ CompactByHand \/ BeginIngestion \/ EndIngestion
  BY <1>3, LoopDemandStep
<1>4. CASE TaggerStep
  BY <1>4, TaggerDemandStep
<1>5. CASE CompactorStep
  BY <1>5, CompactorDemandStep
<1> QED  BY <1>1, <1>2, <1>3, <1>4, <1>5 DEF Next

LEMMA DemandInit == Init => ActiveInv /\ Demands!Init
<1> SUFFICES ASSUME Init PROVE ActiveInv /\ Demands!Init
  OBVIOUS
<1>1. Waiting(pool) = {} /\ TaggerHolds = {} /\ LoopHolds = {} /\ RunHolds = {}
      /\ NextHolds = {} /\ QueueHolds = {} /\ Running = 0
  BY DEF Init, Waiting, TaggerHolds, LoopHolds, RunHolds, NextHolds, QueueHolds, Running,
         Wrapped, Free, IdleTagger, IdleCompactor
<1>2. Outstanding = {}
  BY <1>1, OutstandingParts
<1>3. Owed = 0
  BY <1>2, FurthestExists DEF Owed
<1> QED  BY <1>1, <1>3 DEF Init, ActiveInv, Demands!Init, Running

\* Coalescing, replacing, dropping and taking the queued request never lose the
\* furthest demand: it stays owed until a run that reaches it has ended or the
\* prefix has passed it, however late the pending future is read (the lock of
\* _queue_compaction covers the decision and not the submission).
THEOREM DemandImplemented == Spec => DemandSpec
<1>1. Spec => []TypeInv
  BY TypeInvInit, TypeInvStep, PTL DEF Spec
<1>2. TypeInv /\ TypeInv' /\ ActiveInv /\ [Next]_vars
        => ActiveInv' /\ [Demands!Next]_(Demands!vars)
  BY DemandNextStep DEF DemandStep
<1> QED  BY <1>1, <1>2, DemandInit, PTL DEF Spec, DemandSpec, Demands!Spec
=============================================================================
