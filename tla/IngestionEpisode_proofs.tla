------------------------ MODULE IngestionEpisode_proofs ------------------------
(****************************************************************************)
(* Theorems about the ingestion episodes: type correctness, and that a row  *)
(* a request stored has somebody answerable for it.                         *)
(****************************************************************************)
EXTENDS IngestionEpisode, FiniteSetTheorems, TLAPS

----------------------------------------------------------------------------
(* Type correctness, by variable.                                           *)

Memory == [epoch : Epoch, index : 0..NRow, hist : 0..NRow, ingested : BOOLEAN,
           state : {"active", "ingesting"}, cancel : BOOLEAN,
           current : Slot \cup {None}]
Threads == [pc : ThreadPc, ep : 0..MaxEpoch, todo : SUBSET Row, upto : 0..NRow]
Requests == [pc : RequestPc, ep : 0..MaxEpoch, n : 0..NRow, owns : BOOLEAN,
             tagged : BOOLEAN, seen : {"init", "ingesting", "active", "deleted"}]

EpisodeTyped == episode \in [Epoch -> [owner : Worker \cup {None}, fresh : BOOLEAN]]
RowTyped == row \in [Row -> {"absent", "untagged", "tagged"}]
MemTyped == mem \in [Worker -> Memory]
ThreadTyped == thread \in [Worker -> [Slot -> Threads]]
RequestTyped == rq \in [Worker -> Requests]

\* A deletion leaves room for the resurrection's epoch.
PhaseTyped ==
  /\ phase \in {"init", "ingesting", "compacting", "active", "deleted"}
  /\ epoch \in Epoch
  /\ phase = "deleted" => epoch < MaxEpoch

RestTyped ==
  /\ compactor \in [Worker -> {"off", "run", "drain"}] /\ up \subseteq Worker
  /\ sidecar \in [Worker -> SUBSET Epoch]
  /\ posts \in Nat /\ lapses \in 0..MaxLapse /\ dropped \in BOOLEAN

TypeInv ==
  PhaseTyped /\ EpisodeTyped /\ RowTyped /\ MemTyped /\ ThreadTyped /\ RequestTyped
    /\ RestTyped

LEMMA TypeInvImplies == TypeInv => TypeOK
  BY DEF TypeInv, PhaseTyped, EpisodeTyped, RowTyped, MemTyped, ThreadTyped, RequestTyped,
         RestTyped, TypeOK, Memory, Threads, Requests

LEMMA Constants ==
  /\ NRow \in Nat /\ NRow > 0 /\ MaxEpoch \in Nat /\ MaxEpoch > 0
  /\ 0 \in 0..NRow /\ 0 \in 0..MaxEpoch /\ 1 \in Epoch
  /\ Epoch \subseteq 0..MaxEpoch /\ Row \subseteq 0..NRow
  /\ None \notin Worker \cup Slot
  BY EpisodeAssumption DEF Epoch, Row

LEMMA TypeInvInit == Init => TypeInv
<1> SUFFICES ASSUME Init PROVE TypeInv
  OBVIOUS
<1> USE Constants DEF Init
<1>1. PhaseTyped
  BY DEF PhaseTyped
<1>2. EpisodeTyped /\ RowTyped
  BY DEF EpisodeTyped, RowTyped, NoEpisode
<1>3. NewMemory \in Memory /\ NoThread \in Threads /\ NoRequest \in Requests
  BY DEF NewMemory, Memory, NoThread, Threads, NoRequest, Requests, ThreadPc, RequestPc
<1>4. MemTyped /\ ThreadTyped /\ RequestTyped
  BY <1>3 DEF MemTyped, ThreadTyped, RequestTyped
<1>5. RestTyped
  <2>1. 0 \in 0..MaxLapse /\ {} \in SUBSET Epoch
    BY EpisodeAssumption
  <2> QED  BY <2>1 DEF RestTyped
<1> QED  BY <1>1, <1>2, <1>4, <1>5 DEF TypeInv

\* The statements.
LEMMA EpisodeStatements ==
  ASSUME TypeInv, NEW w \in Worker, NEW e
  PROVE  /\ ClaimIngestionLease(w, e) => EpisodeTyped'
         /\ UpsertIngestionEpisode(w, e) => EpisodeTyped'
         /\ RefreshIngestionHeartbeat(w, e) => EpisodeTyped'
         /\ CompleteIngestionEpisode(w, e) => EpisodeTyped'
         /\ UNCHANGED episode => EpisodeTyped'
<1> DEFINE E == [owner : Worker \cup {None}, fresh : BOOLEAN]
<1>1. episode \in [Epoch -> E] /\ Own(w) \in E /\ NoEpisode \in E
  BY DEF TypeInv, EpisodeTyped, Own, NoEpisode
<1>2. /\ [episode EXCEPT ![e] = Own(w)] \in [Epoch -> E]
      /\ [episode EXCEPT ![e] = NoEpisode] \in [Epoch -> E]
  BY <1>1
<1>3. [episode EXCEPT ![e].fresh = TRUE] \in [Epoch -> E]
  BY <1>1
<1> QED
  BY <1>1, <1>2, <1>3 DEF EpisodeTyped, ClaimIngestionLease, UpsertIngestionEpisode,
                          RefreshIngestionHeartbeat, CompleteIngestionEpisode

LEMMA SetPhaseTyped ==
  ASSUME TypeInv, NEW e, NEW p \in {"init", "ingesting", "compacting", "active"},
         SetPhase(e, p), UNCHANGED epoch
  PROVE  PhaseTyped'
  BY DEF TypeInv, PhaseTyped, SetPhase

\* Where a request goes.
LEMMA RequestMoves ==
  ASSUME TypeInv, NEW w \in Worker
  PROVE  /\ Answer(w) => RequestTyped'
         /\ \A pc \in RequestPc : RequestTo(w, pc) => RequestTyped'
         /\ \A pc \in RequestPc : Forward(w, pc) => RequestTyped'
         /\ \A owns \in BOOLEAN : Dispatch(w, owns) => RequestTyped'
         /\ Healed(w) => RequestTyped'
         /\ UNCHANGED rq => RequestTyped'
<1>1. NoRequest \in Requests
  BY Constants DEF NoRequest, Requests, RequestPc
<1>2. Answer(w) => RequestTyped'
  BY <1>1 DEF TypeInv, RequestTyped, Answer
<1>3. \A pc \in RequestPc : RequestTo(w, pc) => RequestTyped'
  BY DEF TypeInv, RequestTyped, RequestTo, Requests
<1>4. \A owns \in BOOLEAN : Dispatch(w, owns) => RequestTyped'
  <2> SUFFICES ASSUME NEW owns \in BOOLEAN, Dispatch(w, owns) PROVE RequestTyped'
    OBVIOUS
  <2>1. [rq[w] EXCEPT !.pc = "dispatch", !.owns = owns] \in Requests
    BY DEF TypeInv, RequestTyped, Requests, RequestPc
  <2>2. rq' = [rq EXCEPT ![w] = [rq[w] EXCEPT !.pc = "dispatch", !.owns = owns]]
    BY DEF Dispatch, TypeInv, RequestTyped
  <2> QED  BY <2>1, <2>2 DEF TypeInv, RequestTyped
<1> QED  BY <1>2, <1>3, <1>4 DEF Forward, Healed, TypeInv, RequestTyped

LEMMA ThreadHeld ==
  ASSUME TypeInv, NEW w \in Worker, NEW t \in Slot
  PROVE  thread[w][t] \in Threads
<1>1. thread[w] \in [Slot -> Threads]
  BY DEF TypeInv, ThreadTyped
<1> QED  BY <1>1

\* Where a thread goes.
LEMMA ThreadPut ==
  ASSUME TypeInv, NEW w \in Worker, NEW t \in Slot, NEW x \in Threads,
         thread' = [thread EXCEPT ![w][t] = x]
  PROVE  ThreadTyped'
<1>1. thread \in [Worker -> [Slot -> Threads]]
  BY DEF TypeInv, ThreadTyped
<1>2. [thread[w] EXCEPT ![t] = x] \in [Slot -> Threads]
  BY <1>1
<1>3. thread' = [thread EXCEPT ![w] = [thread[w] EXCEPT ![t] = x]]
  BY <1>1
<1> QED  BY <1>1, <1>2, <1>3 DEF ThreadTyped
LEMMA ThreadMoves ==
  ASSUME TypeInv, NEW w \in Worker, NEW t \in Slot
  PROVE  /\ \A pc \in ThreadPc : ThreadTo(w, t, pc) => ThreadTyped'
         /\ ThreadEnds(w, t) => ThreadTyped'
         /\ \A pc \in ThreadPc, todo \in SUBSET Row :
              ThreadHolds(w, t, pc, todo) => ThreadTyped'
         /\ UNCHANGED thread => ThreadTyped'
<1>1. NoThread \in Threads
  BY Constants DEF NoThread, Threads, ThreadPc
<1>2. ThreadEnds(w, t) => ThreadTyped'
  BY <1>1, ThreadPut DEF ThreadEnds
<1>3. \A pc \in ThreadPc : ThreadTo(w, t, pc) => ThreadTyped'
  <2> SUFFICES ASSUME NEW pc \in ThreadPc, ThreadTo(w, t, pc) PROVE ThreadTyped'
    OBVIOUS
  <2>1. [thread[w][t] EXCEPT !.pc = pc] \in Threads
    BY ThreadHeld DEF Threads
  <2>2. thread' = [thread EXCEPT ![w][t] = [thread[w][t] EXCEPT !.pc = pc]]
    BY DEF ThreadTo, TypeInv, ThreadTyped
  <2> QED  BY <2>1, <2>2, ThreadPut
<1>4. \A pc \in ThreadPc, todo \in SUBSET Row : ThreadHolds(w, t, pc, todo) => ThreadTyped'
  <2> SUFFICES ASSUME NEW pc \in ThreadPc, NEW todo \in SUBSET Row, ThreadHolds(w, t, pc, todo)
               PROVE  ThreadTyped'
    OBVIOUS
  <2>1. [thread[w][t] EXCEPT !.pc = pc, !.todo = todo] \in Threads
    BY ThreadHeld DEF Threads
  <2>2. thread' = [thread EXCEPT ![w][t] = [thread[w][t] EXCEPT !.pc = pc, !.todo = todo]]
    BY DEF ThreadHolds, TypeInv, ThreadTyped
  <2> QED  BY <2>1, <2>2, ThreadPut
<1> QED  BY <1>2, <1>3, <1>4 DEF TypeInv, ThreadTyped

\* The rest of the variables.
LEMMA QuietTypes ==
  ASSUME TypeInv
  PROVE  /\ UNCHANGED <<phase, epoch>> => PhaseTyped'
         /\ UNCHANGED row => RowTyped'
         /\ UNCHANGED mem => MemTyped'
         /\ UNCHANGED <<compactor, up, sidecar, posts, lapses, dropped>> => RestTyped'
  BY DEF TypeInv, PhaseTyped, RowTyped, MemTyped, RestTyped

\* The requests keep the types.
LEMMA RowsGrow ==
  ASSUME TypeInv, NEW n, NEW x,
         x = [r \in Row |-> IF r <= n /\ row[r] = "absent" THEN "untagged" ELSE row[r]]
  PROVE  x \in [Row -> {"absent", "untagged", "tagged"}]
  BY DEF TypeInv, RowTyped

LEMMA ReceiveTyped ==
  ASSUME TypeInv, NEW w \in Worker, ReceivePayload(w)
  PROVE  TypeInv'
<1>1. PICK n \in Row :
        /\ row' = [r \in Row |-> IF r <= n /\ row[r] = "absent" THEN "untagged" ELSE row[r]]
        /\ rq' = [rq EXCEPT ![w] = [NoRequest EXCEPT !.pc = "gate", !.n = n, !.ep = epoch]]
  BY Zenon DEF ReceivePayload
<1>2. RowTyped'
  BY <1>1, RowsGrow DEF RowTyped
<1>3. [NoRequest EXCEPT !.pc = "gate", !.n = n, !.ep = epoch] \in Requests
  BY Constants DEF TypeInv, PhaseTyped, NoRequest, Requests, RequestPc
<1>4. RequestTyped'
  BY <1>1, <1>3 DEF TypeInv, RequestTyped
<1>5. posts' \in Nat
  BY DEF ReceivePayload, TypeInv, RestTyped
<1>6. RestTyped'
  BY <1>5 DEF ReceivePayload, TypeInv, RestTyped
<1>7. PhaseTyped' /\ EpisodeTyped' /\ MemTyped' /\ ThreadTyped'
  BY DEF ReceivePayload, TypeInv, PhaseTyped, EpisodeTyped, MemTyped, ThreadTyped
<1> QED  BY <1>2, <1>4, <1>6, <1>7 DEF TypeInv

LEMMA MemoryHeld ==
  ASSUME TypeInv, NEW w \in Worker
  PROVE  mem[w] \in Memory /\ rq[w] \in Requests
  BY DEF TypeInv, MemTyped, RequestTyped

LEMMA MemPut ==
  ASSUME TypeInv, NEW w \in Worker, NEW m \in Memory, mem' = [mem EXCEPT ![w] = m]
  PROVE  MemTyped'
  BY DEF TypeInv, MemTyped

LEMMA RequestPut ==
  ASSUME TypeInv, NEW w \in Worker, NEW q \in Requests, rq' = [rq EXCEPT ![w] = q]
  PROVE  RequestTyped'
  BY DEF TypeInv, RequestTyped

LEMMA GateTyped ==
  ASSUME TypeInv, NEW w \in Worker, Gate(w)
  PROVE  TypeInv'
<1>1. RowTyped' /\ ThreadTyped' /\ RestTyped'
  BY DEF Gate, restVars, TypeInv, RowTyped, ThreadTyped, RestTyped
<1>2. CASE /\ phase = "deleted" /\ epoch' = epoch + 1 /\ phase' = "init"
           /\ episode' = [e \in Epoch |-> IF e <= epoch THEN NoEpisode ELSE episode[e]]
           /\ mem' = [mem EXCEPT ![w].epoch = epoch + 1]
           /\ rq' = [rq EXCEPT ![w].pc = "snapshot", ![w].ep = epoch + 1,
                               ![w].seen = "deleted"]
  <2>1. epoch + 1 \in Epoch /\ epoch + 1 \in 0..MaxEpoch
    BY <1>2, Constants DEF TypeInv, PhaseTyped, Epoch
  <2>2. PhaseTyped'
    BY <1>2, <2>1 DEF PhaseTyped
  <2>3. EpisodeTyped'
    BY <1>2 DEF TypeInv, EpisodeTyped, NoEpisode
  <2>4. [mem[w] EXCEPT !.epoch = epoch + 1] \in Memory
    BY <2>1, MemoryHeld DEF Memory
  <2>5. MemTyped'
    BY <1>2, <2>4, MemPut
  <2>6. [rq[w] EXCEPT !.pc = "snapshot", !.ep = epoch + 1, !.seen = "deleted"] \in Requests
    BY <2>1, MemoryHeld DEF Requests, RequestPc
  <2>7. rq' = [rq EXCEPT ![w] = [rq[w] EXCEPT !.pc = "snapshot", !.ep = epoch + 1,
                                              !.seen = "deleted"]]
    BY <1>2 DEF TypeInv, RequestTyped
  <2>8. RequestTyped'
    BY <2>6, <2>7, RequestPut
  <2> QED  BY <1>1, <2>2, <2>3, <2>5, <2>8 DEF TypeInv
<1>3. CASE Dispatch(w, FALSE) /\ UNCHANGED <<phase, epoch, episode, mem>>
  BY <1>1, <1>3, RequestMoves, QuietTypes, EpisodeStatements DEF TypeInv
<1>4. ASSUME NEW seen \in {"init", "ingesting", "active"},
             rq' = [rq EXCEPT ![w].pc = "snapshot", ![w].seen = seen]
      PROVE  RequestTyped'
  <2>1. [rq[w] EXCEPT !.pc = "snapshot", !.seen = seen] \in Requests
    BY MemoryHeld DEF Requests, RequestPc
  <2>2. rq' = [rq EXCEPT ![w] = [rq[w] EXCEPT !.pc = "snapshot", !.seen = seen]]
    BY <1>4 DEF TypeInv, RequestTyped
  <2> QED  BY <2>1, <2>2, RequestPut
<1>5. CASE /\ phase' = "active"
           /\ rq' = [rq EXCEPT ![w].pc = "snapshot", ![w].seen = "active"]
           /\ UNCHANGED <<epoch, episode, mem>>
  <2>1. PhaseTyped'
    BY <1>5 DEF TypeInv, PhaseTyped
  <2> QED  BY <1>1, <1>4, <1>5, <2>1, QuietTypes, EpisodeStatements DEF TypeInv
<1>6. CASE /\ phase \in {"init", "ingesting", "active"}
           /\ rq' = [rq EXCEPT ![w].pc = "snapshot", ![w].seen = phase]
           /\ UNCHANGED <<phase, epoch, episode, mem>>
  BY <1>1, <1>4, <1>6, QuietTypes, EpisodeStatements DEF TypeInv
<1> QED  BY <1>2, <1>3, <1>5, <1>6 DEF Gate

LEMMA LeaseTyped ==
  ASSUME TypeInv, NEW w \in Worker,
         \/ Mismatch(w) \/ Snapshot(w) \/ ToActive(w) \/ ToIngesting(w) \/ Upsert(w) \/ Claim(w)
         \/ HealClaim(w) \/ HealComplete(w)
  PROVE  TypeInv'
<1> USE DEF TypeInv
<1>0. /\ "toActive" \in RequestPc /\ "healClaim" \in RequestPc /\ "toIngesting" \in RequestPc
      /\ "upsert" \in RequestPc /\ "claim" \in RequestPc /\ "healComplete" \in RequestPc
      /\ "healActivate" \in RequestPc
  BY DEF RequestPc
<1>1. CASE Mismatch(w)
  <2>1. RestTyped'
    BY <1>1 DEF Mismatch, restVars, RestTyped
  <2>2. ThreadTyped'
    BY <1>1 DEF Mismatch, restVars, ThreadTyped
  <2> QED
    BY <1>1, <2>1, <2>2, RequestMoves, QuietTypes, EpisodeStatements DEF Mismatch, storeVars
<1>2. CASE ~ Mismatch(w)
  <2>1. RestTyped' /\ ThreadTyped' /\ RowTyped' /\ MemTyped'
    BY <1>2, QuietTypes DEF Snapshot, ToActive, ToIngesting, Upsert, Claim, HealClaim,
           HealComplete, restVars, storeVars, ThreadTyped
  <2>2. CASE Snapshot(w)
    BY <1>0, <2>1, <2>2, RequestMoves, QuietTypes, EpisodeStatements DEF Snapshot, storeVars
  <2>3. CASE ToActive(w)
    BY <2>1, <2>3, RequestMoves, SetPhaseTyped, EpisodeStatements DEF ToActive
  <2>4. CASE ToIngesting(w)
    BY <1>0, <2>1, <2>4, RequestMoves, SetPhaseTyped, EpisodeStatements DEF ToIngesting
  <2>5. CASE Upsert(w)
    BY <1>0, <2>1, <2>5, RequestMoves, QuietTypes, EpisodeStatements DEF Upsert
  <2>6. CASE Claim(w)
    <3>1. Claimable(w, rq[w].ep) \in BOOLEAN
      BY MemoryHeld DEF Claimable, Running
    <3> QED  BY <2>1, <2>6, <3>1, RequestMoves, QuietTypes, EpisodeStatements DEF Claim
  <2>7. CASE HealClaim(w)
    BY <1>0, <2>1, <2>7, RequestMoves, QuietTypes, EpisodeStatements DEF HealClaim
  <2>8. CASE HealComplete(w)
    BY <1>0, <2>1, <2>8, RequestMoves, QuietTypes, EpisodeStatements DEF HealComplete
  <2> QED  BY <1>2, <2>2, <2>3, <2>4, <2>5, <2>6, <2>7, <2>8
<1> QED  BY <1>1, <1>2

\* What the dispatch and the reply do to a worker's memory.
LEMMA PassthroughTyped ==
  ASSUME TypeInv, NEW w \in Worker, NEW m, Passthrough(w, m)
  PROVE  MemTyped'
<1>1. [mem[w] EXCEPT !.hist = IF HistoryIngested(w) THEN @ ELSE rq[w].n] \in Memory
  BY MemoryHeld DEF Memory, Requests
<1>2. mem' = [mem EXCEPT ![w] = [mem[w] EXCEPT !.hist = IF HistoryIngested(w) THEN @
                                                        ELSE rq[w].n]]
  BY DEF Passthrough, TypeInv, MemTyped
<1> QED  BY <1>1, <1>2, MemPut

LEMMA FlagsTyped ==
  ASSUME TypeInv, NEW w \in Worker
  PROVE  /\ mem' = [mem EXCEPT ![w].ingested = TRUE] => MemTyped'
         /\ mem' = [mem EXCEPT ![w].cancel = TRUE] => MemTyped'
         /\ mem' = [mem EXCEPT ![w].state = "active"] => MemTyped'
         /\ mem' = [mem EXCEPT ![w].ingested = TRUE, ![w].state = "active"] => MemTyped'
         /\ \A h \in 0..NRow : mem' = [mem EXCEPT ![w].hist = h] => MemTyped'
         /\ \A i \in 0..NRow : mem' = [mem EXCEPT ![w].index = i] => MemTyped'
         /\ \A c \in 0..NRow : mem' = [mem EXCEPT ![w].hist = c, ![w].index = c] => MemTyped'
<1>0. mem[w] \in Memory /\ mem \in [Worker -> Memory]
  BY MemoryHeld DEF TypeInv, MemTyped
<1>1. ASSUME mem' = [mem EXCEPT ![w].ingested = TRUE] PROVE MemTyped'
  <2>1. [mem[w] EXCEPT !.ingested = TRUE] \in Memory
    BY <1>0 DEF Memory
  <2> QED  BY <1>0, <1>1, <2>1 DEF MemTyped
<1>2. ASSUME mem' = [mem EXCEPT ![w].cancel = TRUE] PROVE MemTyped'
  <2>1. [mem[w] EXCEPT !.cancel = TRUE] \in Memory
    BY <1>0 DEF Memory
  <2> QED  BY <1>0, <1>2, <2>1 DEF MemTyped
<1>3. ASSUME mem' = [mem EXCEPT ![w].state = "active"] PROVE MemTyped'
  <2>1. [mem[w] EXCEPT !.state = "active"] \in Memory
    BY <1>0 DEF Memory
  <2> QED  BY <1>0, <1>3, <2>1 DEF MemTyped
<1>4. ASSUME mem' = [mem EXCEPT ![w].ingested = TRUE, ![w].state = "active"] PROVE MemTyped'
  <2>1. [mem[w] EXCEPT !.ingested = TRUE, !.state = "active"] \in Memory
    BY <1>0 DEF Memory
  <2>2. mem' = [mem EXCEPT ![w] = [mem[w] EXCEPT !.ingested = TRUE, !.state = "active"]]
    BY <1>0, <1>4
  <2> QED  BY <2>1, <2>2, MemPut
<1>5. ASSUME NEW h \in 0..NRow, mem' = [mem EXCEPT ![w].hist = h] PROVE MemTyped'
  <2>1. [mem[w] EXCEPT !.hist = h] \in Memory
    BY <1>0 DEF Memory
  <2> QED  BY <1>0, <1>5, <2>1 DEF MemTyped
<1>6. ASSUME NEW i \in 0..NRow, mem' = [mem EXCEPT ![w].index = i] PROVE MemTyped'
  <2>1. [mem[w] EXCEPT !.index = i] \in Memory
    BY <1>0 DEF Memory
  <2> QED  BY <1>0, <1>6, <2>1 DEF MemTyped
<1>7. ASSUME NEW c \in 0..NRow, mem' = [mem EXCEPT ![w].hist = c, ![w].index = c]
      PROVE  MemTyped'
  <2>1. [mem[w] EXCEPT !.hist = c, !.index = c] \in Memory
    BY <1>0 DEF Memory
  <2>2. mem' = [mem EXCEPT ![w] = [mem[w] EXCEPT !.hist = c, !.index = c]]
    BY <1>0, <1>7
  <2> QED  BY <2>1, <2>2, MemPut
<1> QED  BY <1>1, <1>2, <1>3, <1>4, <1>5, <1>6, <1>7

LEMMA SpawnTyped ==
  ASSUME TypeInv, NEW w \in Worker, NEW upto \in 0..NRow, NEW m \in Memory,
         NEW kept \in SUBSET Epoch, SpawnIngestionWorkers(w, upto, m, kept)
  PROVE  ThreadTyped' /\ MemTyped' /\ sidecar' \in [Worker -> SUBSET Epoch]
<1>1. PICK t \in Slot :
        /\ thread' = [thread EXCEPT ![w][t] = [NoThread EXCEPT !.pc = "read", !.upto = upto]]
        /\ mem' = [mem EXCEPT ![w] = [m EXCEPT !.current = t, !.state = "ingesting"]]
        /\ sidecar' = [sidecar EXCEPT ![w] = kept \cup {m.epoch}]
  BY DEF SpawnIngestionWorkers
<1>2. [NoThread EXCEPT !.pc = "read", !.upto = upto] \in Threads
  BY Constants DEF NoThread, Threads, ThreadPc
<1>3. [m EXCEPT !.current = t, !.state = "ingesting"] \in Memory
  BY DEF Memory
<1>4. kept \cup {m.epoch} \in SUBSET Epoch
  BY DEF Memory
<1>5. sidecar \in [Worker -> SUBSET Epoch]
  BY DEF TypeInv, RestTyped
<1> QED  BY <1>1, <1>2, <1>3, <1>4, <1>5, ThreadPut, MemPut

LEMMA RouteTyped ==
  ASSUME TypeInv, NEW w \in Worker, Route(w)
  PROVE  TypeInv'
<1> USE DEF TypeInv
<1>0. "start" \in RequestPc /\ "record" \in RequestPc /\ "resume" \in RequestPc
      /\ "reply" \in RequestPc
  BY DEF RequestPc
<1>1. PhaseTyped' /\ EpisodeTyped' /\ RowTyped' /\ ThreadTyped' /\ RestTyped'
  BY QuietTypes, EpisodeStatements DEF Route, storeVars, restVars, ThreadTyped
<1>2. RequestTyped'
  BY <1>0, RequestMoves DEF Route
<1>3. MemTyped'
  BY PassthroughTyped, FlagsTyped, QuietTypes DEF Route
<1> QED  BY <1>1, <1>2, <1>3

LEMMA StartTyped ==
  ASSUME TypeInv, NEW w \in Worker, Resume(w) \/ StartIngestion(w) \/ Join(w)
  PROVE  TypeInv'
<1> USE DEF TypeInv
<1>0. /\ "start" \in RequestPc /\ "record" \in RequestPc /\ "reply" \in RequestPc
      /\ "join" \in RequestPc /\ "finalize" \in RequestPc
  BY DEF RequestPc
<1>1. /\ mem[w] \in Memory /\ mem[w].hist \in 0..NRow /\ rq[w].n \in 0..NRow
      /\ sidecar \in [Worker -> SUBSET Epoch] /\ sidecar[w] \in SUBSET Epoch
  BY MemoryHeld DEF Memory, Requests, RestTyped
<1>2. PhaseTyped' /\ RowTyped'
  BY QuietTypes DEF Resume, StartIngestion, Join, storeVars
<1>3. ASSUME sidecar' \in [Worker -> SUBSET Epoch], UNCHANGED <<compactor, up, posts, lapses>>,
             UNCHANGED dropped
      PROVE  RestTyped'
  BY <1>3 DEF RestTyped
<1>4. CASE Resume(w)
  <2>1. EpisodeTyped'
    BY <1>4, EpisodeStatements DEF Resume
  <2>2. CASE /\ SpawnIngestionWorkers(w, mem[w].hist, [mem[w] EXCEPT !.hist = rq[w].n], sidecar[w])
             /\ RequestTo(w, "start")
    <3>1. [mem[w] EXCEPT !.hist = rq[w].n] \in Memory
      BY <1>1 DEF Memory
    <3>2. ThreadTyped' /\ MemTyped' /\ sidecar' \in [Worker -> SUBSET Epoch]
      BY <1>1, <2>2, <3>1, SpawnTyped
    <3>3. RestTyped'
      BY <1>3, <1>4, <3>2 DEF Resume
    <3> QED  BY <1>0, <1>2, <2>1, <2>2, <3>2, <3>3, RequestMoves
  <2>3. CASE Forward(w, "reply") /\ UNCHANGED <<mem, thread, sidecar>>
    <3>1. RestTyped'
      BY <1>1, <1>3, <1>4, <2>3 DEF Resume
    <3>2. ThreadTyped'
      BY <2>3 DEF ThreadTyped
    <3> QED  BY <1>0, <1>2, <2>1, <2>3, <3>1, <3>2, RequestMoves, QuietTypes
  <2> QED  BY <1>4, <2>2, <2>3 DEF Resume
<1>5. CASE StartIngestion(w)
  <2>1. EpisodeTyped'
    BY <1>5, EpisodeStatements DEF StartIngestion, storeVars
  <2>2. RequestTyped'
    BY <1>0, <1>5, RequestMoves DEF StartIngestion
  <2>3. CASE SpawnIngestionWorkers(w, rq[w].n, mem[w], sidecar[w])
    <3>1. ThreadTyped' /\ MemTyped' /\ sidecar' \in [Worker -> SUBSET Epoch]
      BY <1>1, <2>3, SpawnTyped
    <3>2. RestTyped'
      BY <1>3, <1>5, <3>1 DEF StartIngestion
    <3> QED  BY <1>2, <2>1, <2>2, <3>1, <3>2
  <2>4. CASE UNCHANGED <<thread, sidecar>> /\ MemTyped'
    <3>1. RestTyped'
      BY <1>1, <1>3, <1>5, <2>4 DEF StartIngestion
    <3>2. ThreadTyped'
      BY <2>4 DEF ThreadTyped
    <3> QED  BY <1>2, <2>1, <2>2, <2>4, <3>1, <3>2
  <2> QED  BY <1>5, <2>3, <2>4, FlagsTyped, QuietTypes DEF StartIngestion
<1>6. CASE Join(w)
  <2> DEFINE m == [mem[w] EXCEPT !.cancel = FALSE]
  <2>1. EpisodeTyped'
    BY <1>6, EpisodeStatements DEF Join, storeVars
  <2>2. m \in Memory
    BY <1>1 DEF Memory
  <2>3. PICK kept \in SUBSET sidecar[w] :
          \/ /\ RequestTo(w, "finalize") /\ mem' = [mem EXCEPT ![w] = m]
             /\ sidecar' = [sidecar EXCEPT ![w] = kept] /\ UNCHANGED thread
          \/ Forward(w, "record") /\ SpawnIngestionWorkers(w, rq[w].n, m, kept)
    BY <1>6 DEF Join
  <2> HIDE DEF m
  <2>4. RequestTyped'
    BY <1>0, <2>3, RequestMoves
  <2>5. kept \in SUBSET Epoch
    BY <1>1
  <2>6. ThreadTyped' /\ MemTyped' /\ sidecar' \in [Worker -> SUBSET Epoch]
    <3>1. CASE /\ mem' = [mem EXCEPT ![w] = m]
               /\ sidecar' = [sidecar EXCEPT ![w] = kept] /\ UNCHANGED thread
      <4>1. ThreadTyped'
        BY <3>1 DEF ThreadTyped
      <4> QED  BY <1>1, <2>2, <2>5, <3>1, <4>1, MemPut
    <3>2. CASE SpawnIngestionWorkers(w, rq[w].n, m, kept)
      BY <1>1, <2>2, <2>5, <3>2, SpawnTyped
    <3> QED  BY <2>3, <3>1, <3>2
  <2>7. RestTyped'
    BY <1>3, <1>6, <2>6 DEF Join
  <2> QED  BY <1>2, <2>1, <2>4, <2>6, <2>7
<1> QED  BY <1>4, <1>5, <1>6

\* The least of two numbers.
LEMMA MinOfTwo ==
  ASSUME NEW a \in Nat, NEW b \in Nat
  PROVE  Min({a, b}) \in {a, b} /\ Min({a, b}) <= a /\ Min({a, b}) <= b
<1>1. \E x \in {a, b} : \A y \in {a, b} : x <= y
  <2>1. CASE a <= b
    BY <2>1
  <2>2. CASE b <= a
    BY <2>2
  <2> QED  BY <2>1, <2>2
<1>2. Min({a, b}) \in {a, b} /\ \A y \in {a, b} : Min({a, b}) <= y
  BY <1>1, Zenon DEF Min
<1> QED  BY <1>2

LEMMA ReplyTyped ==
  ASSUME TypeInv, NEW w \in Worker, Record(w) \/ Reply(w)
  PROVE  TypeInv'
<1> USE DEF TypeInv
<1>1. PhaseTyped' /\ EpisodeTyped' /\ ThreadTyped' /\ RestTyped'
  BY QuietTypes, EpisodeStatements DEF Record, Reply, storeVars, restVars, ThreadTyped
<1>2. mem[w] \in Memory /\ mem[w].hist \in 0..NRow /\ rq[w].n \in 0..NRow /\ rq[w] \in Requests
  BY MemoryHeld DEF Memory, Requests
<1>3. CASE Record(w)
  <2>1. MemTyped'
    BY <1>3, FlagsTyped DEF Record
  <2> QED  BY <1>1, <1>3, <2>1, RequestMoves, QuietTypes DEF Record, storeVars
<1>4. CASE Reply(w) /\ Answer(w) /\ UNCHANGED <<row, mem>>
  BY <1>1, <1>4, RequestMoves, QuietTypes
<1>5. CASE /\ mem' = [mem EXCEPT ![w].hist = Min({mem[w].hist + 1, NRow})]
           /\ Answer(w) /\ UNCHANGED row
  <2>1. Min({mem[w].hist + 1, NRow}) \in 0..NRow
    <3>1. mem[w].hist + 1 \in Nat /\ NRow \in Nat
      BY <1>2, Constants
    <3> HIDE DEF TypeInv
    <3>2. /\ Min({mem[w].hist + 1, NRow}) \in {mem[w].hist + 1, NRow}
          /\ Min({mem[w].hist + 1, NRow}) <= NRow
      BY <3>1, MinOfTwo
    <3> QED  BY <3>1, <3>2
  <2>2. MemTyped'
    BY <1>5, <2>1, FlagsTyped
  <2> QED  BY <1>1, <1>5, <2>2, RequestMoves, QuietTypes
<1>6. CASE /\ \E c \in {mem[w].hist, rq[w].n} :
                /\ c < NRow /\ c >= mem[w].index
                /\ mem' = [mem EXCEPT ![w].hist = c + 1, ![w].index = c + 1]
           /\ \E saved \in {"tagged", row[rq[w].n + 1]} :
                row' = [row EXCEPT ![rq[w].n + 1] = saved]
           /\ rq' = [rq EXCEPT ![w].pc = "healClaim", ![w].tagged = TRUE]
  <2>1. PICK c \in {mem[w].hist, rq[w].n} :
          c < NRow /\ mem' = [mem EXCEPT ![w].hist = c + 1, ![w].index = c + 1]
    BY <1>6
  <2>2. c + 1 \in 0..NRow
    BY <1>2, <2>1, Constants
  <2>3. MemTyped'
    BY <2>1, <2>2, FlagsTyped
  <2>4. RowTyped'
    <3>1. PICK saved \in {"tagged", row[rq[w].n + 1]} :
            row' = [row EXCEPT ![rq[w].n + 1] = saved]
      BY <1>6
    <3>2. rq[w].n + 1 \in Row => saved \in {"absent", "untagged", "tagged"}
      BY DEF RowTyped
    <3> QED  BY <3>1, <3>2 DEF RowTyped
  <2>5. [rq[w] EXCEPT !.pc = "healClaim", !.tagged = TRUE] \in Requests
    BY <1>2 DEF Requests, RequestPc
  <2>6. rq' = [rq EXCEPT ![w] = [rq[w] EXCEPT !.pc = "healClaim", !.tagged = TRUE]]
    BY <1>6 DEF RequestTyped
  <2>7. RequestTyped'
    BY <2>5, <2>6, RequestPut
  <2> QED  BY <1>1, <2>3, <2>4, <2>7
<1>7. CASE Reply(w)
  BY <1>4, <1>5, <1>6, <1>7 DEF Reply
<1> QED  BY <1>3, <1>7

LEMMA FinalTyped ==
  ASSUME TypeInv, NEW w \in Worker, HealActivate(w) \/ Finalize(w) \/ FinalActivate(w)
  PROVE  TypeInv'
<1> USE DEF TypeInv
<1>0. "finalActivate" \in RequestPc /\ "record" \in RequestPc
  BY DEF RequestPc
<1>1. ThreadTyped' /\ RestTyped' /\ RowTyped'
  BY QuietTypes DEF HealActivate, Finalize, FinalActivate, restVars, ThreadTyped
<1>2. CASE HealActivate(w)
  <2>1. MemTyped'
    BY <1>2, FlagsTyped, QuietTypes DEF HealActivate
  <2> QED  BY <1>1, <1>2, <2>1, RequestMoves, SetPhaseTyped, EpisodeStatements DEF HealActivate
<1>3. CASE Finalize(w)
  BY <1>0, <1>1, <1>3, RequestMoves, QuietTypes, EpisodeStatements DEF Finalize
<1>4. CASE FinalActivate(w)
  <2>1. MemTyped'
    BY <1>4, FlagsTyped, QuietTypes DEF FinalActivate
  <2> QED
    BY <1>0, <1>1, <1>4, <2>1, RequestMoves, SetPhaseTyped, EpisodeStatements DEF FinalActivate
<1> QED  BY <1>2, <1>3, <1>4

LEMMA RequestTypeStep ==
  ASSUME TypeInv, NEW w \in Worker, ReceivePayload(w) \/ RequestStep(w)
  PROVE  TypeInv'
  BY ReceiveTyped, GateTyped, LeaseTyped, RouteTyped, StartTyped, ReplyTyped, FinalTyped
  DEF RequestStep

\* The threads keep the types.
LEMMA ThreadTypeStep ==
  ASSUME TypeInv, NEW w \in Worker, NEW t \in Slot, ThreadStep(w, t)
  PROVE  TypeInv'
<1> USE DEF TypeInv
<1>0. \A pc \in {"sweep", "caught", "complete", "retry", "fetch", "activate", "post", "pairs",
                 "tag", "mark", "read"} : pc \in ThreadPc
  BY DEF ThreadPc
<1>1. RestTyped' /\ RequestTyped'
  BY QuietTypes DEF ThreadStep, ReadStrictRows, TagTurn, CatchUp, BeginSweep, Fetch, SaveRow,
     SkipRow, MarkRow, CompleteSweep, RetrySweep, ActivatePhase, FinishIngestion, threadRest,
     RequestTyped
<1>2. thread[w][t] \in Threads /\ mem[w] \in Memory
  BY ThreadHeld, MemoryHeld
<1>3. thread[w][t].todo \in SUBSET Row /\ {} \in SUBSET Row
  BY <1>2 DEF Threads
<1>4. ASSUME NEW r, NEW v \in {"untagged", "tagged"}, row' = [row EXCEPT ![r] = v]
      PROVE  RowTyped'
  BY <1>4 DEF RowTyped
<1>5. CASE ReadStrictRows(w, t)
  <2>1. IterUntagged(mem[w].epoch) \in SUBSET Row
    BY DEF IterUntagged, Untagged
  <2> QED  BY <1>0, <1>1, <1>5, <2>1, ThreadMoves, QuietTypes, EpisodeStatements
           DEF ReadStrictRows, storeVars
<1>6. CASE TagTurn(w, t)
  <2>1. mem[w].index \in 0..NRow /\ Indexed(w) \in 0..NRow
    BY <1>2, Constants DEF Memory, Indexed
  <2>2. MemTyped'
    BY <1>6, <2>1, FlagsTyped DEF TagTurn
  <2>3. RowTyped'
    BY <1>4, <1>6, QuietTypes DEF TagTurn
  <2>4. thread[w][t].todo \ {Min(thread[w][t].todo)} \in SUBSET Row
    BY <1>3
  <2>5. ThreadTyped'
    BY <1>0, <1>3, <1>6, <2>4, ThreadMoves DEF TagTurn
  <2> QED  BY <1>1, <1>6, <2>2, <2>3, <2>5, QuietTypes, EpisodeStatements DEF TagTurn
<1>7. CASE CatchUp(w, t)
  <2>1. ASSUME thread' = [thread EXCEPT ![w][t].pc = "read", ![w][t].upto = mem[w].hist]
        PROVE  ThreadTyped'
    <3>1. [thread[w][t] EXCEPT !.pc = "read", !.upto = mem[w].hist] \in Threads
      BY <1>0, <1>2 DEF Threads, Memory
    <3>2. thread' = [thread EXCEPT ![w][t] = [thread[w][t] EXCEPT !.pc = "read",
                                                                  !.upto = mem[w].hist]]
      BY <2>1 DEF ThreadTyped
    <3> QED  BY <3>1, <3>2, ThreadPut
  <2>2. ThreadTyped'
    BY <1>0, <1>7, <2>1, ThreadMoves DEF CatchUp
  <2> QED  BY <1>1, <1>7, <2>2, QuietTypes, EpisodeStatements DEF CatchUp, storeVars
<1>8. CASE BeginSweep(w, t)
  <2>1. [thread[w][t] EXCEPT !.pc = "fetch", !.todo = {}, !.ep = mem[w].epoch] \in Threads
    BY <1>0, <1>2, Constants DEF Threads, Memory
  <2>2. ThreadTyped'
    BY <1>8, <2>1, ThreadPut DEF BeginSweep
  <2> QED  BY <1>1, <1>8, <2>2, QuietTypes, EpisodeStatements DEF BeginSweep, storeVars
<1>9. CASE Fetch(w, t)
  <2>1. FirstRows(IterUntagged(thread[w][t].ep), Batch) \in SUBSET Row
    BY DEF FirstRows, IterUntagged, Untagged
  <2> QED  BY <1>0, <1>1, <1>9, <2>1, ThreadMoves, QuietTypes, EpisodeStatements
           DEF Fetch, storeVars
<1>10. CASE SaveRow(w, t)
  BY <1>0, <1>1, <1>4, <1>10, ThreadMoves, QuietTypes, EpisodeStatements DEF SaveRow
<1>11. ASSUME NEW r, NextRow(w, t, thread[w][t].todo \ {r}) PROVE ThreadTyped'
  <2>1. thread[w][t].todo \ {r} \in SUBSET Row
    BY <1>3
  <2> QED  BY <1>0, <1>3, <1>11, <2>1, ThreadMoves DEF NextRow
<1>12. CASE SkipRow(w, t)
  BY <1>1, <1>11, <1>12, QuietTypes, EpisodeStatements DEF SkipRow, storeVars
<1>13. CASE MarkRow(w, t)
  <2>1. ThreadTyped'
    BY <1>11, <1>13, ThreadMoves DEF MarkRow
  <2>2. RowTyped'
    BY <1>4, <1>13, QuietTypes DEF MarkRow
  <2>3. EpisodeTyped'
    BY <1>13, EpisodeStatements DEF MarkRow
  <2> QED  BY <1>1, <1>13, <2>1, <2>2, <2>3, QuietTypes DEF MarkRow
<1>14. CASE CompleteSweep(w, t)
  BY <1>0, <1>1, <1>14, ThreadMoves, QuietTypes, EpisodeStatements DEF CompleteSweep
<1>15. CASE RetrySweep(w, t)
  BY <1>0, <1>1, <1>15, ThreadMoves, QuietTypes, EpisodeStatements DEF RetrySweep, storeVars
<1>16. CASE ActivatePhase(w, t)
  <2>1. MemTyped' /\ ThreadTyped'
    BY <1>0, <1>16, ThreadMoves, FlagsTyped, QuietTypes DEF ActivatePhase
  <2>2. PhaseTyped'
    BY <1>16, SetPhaseTyped DEF ActivatePhase
  <2> QED  BY <1>1, <1>16, <2>1, <2>2, QuietTypes, EpisodeStatements DEF ActivatePhase
<1>17. CASE FinishIngestion(w, t)
  BY <1>1, <1>17, ThreadMoves, FlagsTyped, QuietTypes, EpisodeStatements
  DEF FinishIngestion, storeVars
<1> QED  BY <1>5, <1>6, <1>7, <1>8, <1>9, <1>10, <1>12, <1>13, <1>14, <1>15, <1>16, <1>17
         DEF ThreadStep

\* Compactions, deletions and failures keep the types.
LEMMA CountedRows ==
  ASSUME TypeInv
  PROVE  Cardinality({r \in Row : row[r] = "tagged"}) \in 0..NRow
<1>1. IsFiniteSet(Row) /\ Cardinality(Row) = NRow
  <2>1. 1 \in Int /\ NRow \in Int
    BY Constants
  <2>2. IsFiniteSet(1..NRow) /\ Cardinality(1..NRow) = IF 1 > NRow THEN 0 ELSE NRow - 1 + 1
    BY <2>1, FS_Interval, Zenon
  <2> QED  BY <2>2, Constants DEF Row
<1>2. {r \in Row : row[r] = "tagged"} \subseteq Row
  OBVIOUS
<1>3. /\ IsFiniteSet({r \in Row : row[r] = "tagged"})
      /\ Cardinality({r \in Row : row[r] = "tagged"}) <= NRow
  BY <1>1, <1>2, FS_Subset
<1> QED  BY <1>3, FS_CardinalityType, Constants

LEMMA SidecarTyped ==
  ASSUME TypeInv, NEW w \in Worker, NEW e \in Epoch, Heartbeat(w, e)
  PROVE  TypeInv'
<1> USE DEF TypeInv
<1>1. PhaseTyped' /\ RowTyped' /\ ThreadTyped' /\ RequestTyped'
  BY QuietTypes DEF Heartbeat, ThreadTyped, RequestTyped
<1>2. sidecar' = [sidecar EXCEPT ![w] = @ \ {e}] \/ UNCHANGED sidecar
  BY DEF Heartbeat
<1>3. sidecar' \in [Worker -> SUBSET Epoch]
  BY <1>2 DEF RestTyped
<1>4. RestTyped'
  BY <1>3 DEF Heartbeat, RestTyped
<1>5. EpisodeTyped' /\ MemTyped'
  BY EpisodeStatements, FlagsTyped, QuietTypes DEF Heartbeat
<1> QED  BY <1>1, <1>4, <1>5

LEMMA RehydrateTyped ==
  ASSUME TypeInv, NEW w \in Worker, Rehydrate(w)
  PROVE  TypeInv'
<1> USE DEF TypeInv
<1> DEFINE k == Cardinality({r \in Row : row[r] = "tagged"})
<1>1. k \in 0..NRow
  BY CountedRows
<1>2. mem' = [mem EXCEPT ![w] = [NewMemory EXCEPT !.epoch = epoch, !.index = k, !.hist = k]]
  BY DEF Rehydrate
<1> HIDE DEF k
<1>3. [NewMemory EXCEPT !.epoch = epoch, !.index = k, !.hist = k] \in Memory
  BY <1>1, Constants DEF NewMemory, Memory, PhaseTyped
<1>4. MemTyped'
  BY <1>2, <1>3, MemPut
<1>5. RestTyped'
  BY DEF Rehydrate, RestTyped
<1>6. PhaseTyped' /\ EpisodeTyped' /\ RowTyped' /\ ThreadTyped' /\ RequestTyped'
  BY QuietTypes, EpisodeStatements DEF Rehydrate, storeVars, ThreadTyped, RequestTyped
<1> QED  BY <1>4, <1>5, <1>6

LEMMA CrashTyped ==
  ASSUME TypeInv, NEW w \in Worker, Crash(w)
  PROVE  TypeInv'
<1> USE DEF TypeInv
<1>1. NoThread \in Threads /\ NoRequest \in Requests /\ NewMemory \in Memory
  BY Constants DEF NoThread, Threads, NoRequest, Requests, NewMemory, Memory, ThreadPc, RequestPc
<1>2. [t \in Slot |-> NoThread] \in [Slot -> Threads]
  BY <1>1
<1>3. ThreadTyped' /\ RequestTyped' /\ MemTyped'
  BY <1>1, <1>2 DEF Crash, ThreadTyped, RequestTyped, MemTyped
<1>4. RestTyped'
  BY DEF Crash, RestTyped
<1> QED  BY <1>3, <1>4, QuietTypes, EpisodeStatements DEF Crash, storeVars

LEMMA CompactionTyped ==
  ASSUME TypeInv, NEW w \in Worker,
         EnterCompaction(w) \/ CloseCompaction(w) \/ DrainCompaction(w)
  PROVE  TypeInv'
<1> USE DEF TypeInv
<1>1. RowTyped' /\ MemTyped' /\ ThreadTyped' /\ RequestTyped'
  BY QuietTypes DEF EnterCompaction, CloseCompaction, DrainCompaction, storeVars, ThreadTyped,
     RequestTyped
<1>2. RestTyped'
  BY DEF EnterCompaction, CloseCompaction, DrainCompaction, RestTyped
<1>3. PhaseTyped'
  BY DEF EnterCompaction, CloseCompaction, DrainCompaction, storeVars, PhaseTyped
<1>4. EpisodeTyped'
  <2>1. Own(w) \in [owner : Worker \cup {None}, fresh : BOOLEAN]
    BY DEF Own
  <2>2. UNCHANGED episode \/ episode' = [episode EXCEPT ![mem[w].epoch] = Own(w)]
    BY DEF EnterCompaction, CloseCompaction, DrainCompaction, storeVars
  <2> QED  BY <2>1, <2>2 DEF EpisodeTyped
<1> QED  BY <1>1, <1>2, <1>3, <1>4

LEMMA DeletionTyped ==
  ASSUME TypeInv, DeleteConversation
  PROVE  TypeInv'
<1> USE DEF TypeInv
<1>1. PhaseTyped' /\ EpisodeTyped' /\ RestTyped'
  BY DEF DeleteConversation, PhaseTyped, EpisodeTyped, NoEpisode, RestTyped
<1>2. RowTyped' /\ MemTyped' /\ ThreadTyped' /\ RequestTyped'
  BY QuietTypes DEF DeleteConversation, ThreadTyped, RequestTyped
<1> QED  BY <1>1, <1>2

LEMMA LapseTyped ==
  ASSUME TypeInv, NEW e \in Epoch, Lapse(e)
  PROVE  TypeInv'
<1> USE DEF TypeInv
<1>1. [episode[e] EXCEPT !.fresh = FALSE] \in [owner : Worker \cup {None}, fresh : BOOLEAN]
  BY DEF EpisodeTyped
<1>2. episode' = [episode EXCEPT ![e] = [episode[e] EXCEPT !.fresh = FALSE]]
  BY DEF Lapse, EpisodeTyped
<1>3. EpisodeTyped'
  BY <1>1, <1>2 DEF EpisodeTyped
<1>4. lapses' \in 0..MaxLapse
  BY EpisodeAssumption DEF Lapse, RestTyped
<1>5. RestTyped'
  BY <1>4 DEF Lapse, RestTyped
<1>6. PhaseTyped' /\ RowTyped' /\ MemTyped' /\ ThreadTyped' /\ RequestTyped'
  BY QuietTypes DEF Lapse, ThreadTyped, RequestTyped
<1> QED  BY <1>3, <1>5, <1>6

LEMMA TypeInvStep ==
  ASSUME TypeInv, [Next]_vars
  PROVE  TypeInv'
<1>1. CASE UNCHANGED vars
  BY <1>1 DEF vars, TypeInv, PhaseTyped, EpisodeTyped, RowTyped, MemTyped, ThreadTyped,
              RequestTyped, RestTyped
<1>2. CASE Next
  BY <1>2, RequestTypeStep, ThreadTypeStep, SidecarTyped, RehydrateTyped, CrashTyped,
     CompactionTyped, DeletionTyped, LapseTyped DEF Next
<1> QED  BY <1>1, <1>2

\* The episodes, the rows, the workers' memories, threads and requests keep
\* their types whatever the number of turns, epochs and threads: a thread or a
\* request never holds a row or an epoch that does not exist.
THEOREM TypeCorrect == Spec => []TypeOK
<1>1. TypeInv /\ [Next]_vars => TypeInv'
  BY TypeInvStep
<1> QED  BY TypeInvInit, <1>1, TypeInvImplies, PTL DEF Spec

----------------------------------------------------------------------------
(* A stored row has somebody answerable for it.                             *)

\* Where a thread relies on the epoch it captured.
Sweeping == {"fetch", "tag", "mark", "complete", "retry", "activate", "post"}

\* As long as nothing is dropped nobody meets another epoch than the first.
FirstLife == epoch = 1 /\ phase # "deleted" /\ up = Worker
MemoryCalm == \A w \in Worker : mem[w].epoch = 1
RequestsCalm == \A w \in Worker : rq[w].pc # "idle" => rq[w].ep = 1
ThreadsCalm == \A w \in Worker, t \in Slot : thread[w][t].pc \in Sweeping => thread[w][t].ep = 1
Calm == FirstLife /\ MemoryCalm /\ RequestsCalm /\ ThreadsCalm

\* A request on its way to the episode; one at "toActive" or "claim" needs no
\* counting: the row it would answer for has another one behind it.
Answering == {"gate", "snapshot", "toIngesting", "upsert"}

Answerable ==
  \/ Running(1)
  \/ \E w \in Worker : rq[w].pc \in Answering
  \/ \E w \in Worker : compactor[w] # "off"

Answered == Untagged \ InHand # {} => Answerable

AnswerInv == TypeInv /\ (~dropped => Calm /\ Answered)

LEMMA AnswerInvImplies == AnswerInv => UntaggedIsAnswered
  BY DEF AnswerInv, Calm, FirstLife, Answered, Answerable, Answering, UntaggedIsAnswered, InFlight

LEMMA AnswerInvInit == Init => AnswerInv
<1> SUFFICES ASSUME Init PROVE AnswerInv
  OBVIOUS
<1>1. TypeInv
  BY TypeInvInit
<1>2. Calm
  BY DEF Init, Calm, FirstLife, MemoryCalm, RequestsCalm, ThreadsCalm, Sweeping, NewMemory,
         NoRequest, NoThread
<1>3. Answered
  BY DEF Init, Answered, Untagged
<1> QED  BY <1>1, <1>2, <1>3 DEF AnswerInv

\* A request's move leaves the others alone and keeps its epoch.
OneRequest(w) ==
  /\ \A v \in Worker \ {w} : rq'[v] = rq[v]
  /\ rq'[w].pc # "idle" => rq'[w].ep = rq[w].ep

LEMMA RequestMovesAlone ==
  ASSUME TypeInv, NEW w \in Worker
  PROVE  /\ Answer(w) => OneRequest(w)
         /\ \A pc : RequestTo(w, pc) => OneRequest(w)
         /\ \A pc : Forward(w, pc) => OneRequest(w)
         /\ \A owns : Dispatch(w, owns) => OneRequest(w)
         /\ Healed(w) => OneRequest(w)
<1>1. Answer(w) => OneRequest(w)
  BY DEF Answer, OneRequest, NoRequest, TypeInv, RequestTyped
<1>2. \A pc : RequestTo(w, pc) => OneRequest(w)
  BY DEF RequestTo, OneRequest, TypeInv, RequestTyped, Requests
<1>3. \A owns : Dispatch(w, owns) => OneRequest(w)
  BY DEF Dispatch, OneRequest, TypeInv, RequestTyped, Requests
<1> QED  BY <1>1, <1>2, <1>3 DEF Forward, Healed

\* Nothing a worker does to its memory changes its epoch, but a resurrection
\* and a new ProxyState.
EpochsKept == \A v \in Worker : mem'[v].epoch = mem[v].epoch

LEMMA MemoryMoves ==
  ASSUME TypeInv, NEW w \in Worker
  PROVE  /\ UNCHANGED mem => EpochsKept
         /\ \A m \in Memory : mem' = [mem EXCEPT ![w] = m] /\ m.epoch = mem[w].epoch => EpochsKept
         /\ \A m : Passthrough(w, m) => EpochsKept
         /\ mem' = [mem EXCEPT ![w].ingested = TRUE] => EpochsKept
         /\ mem' = [mem EXCEPT ![w].cancel = TRUE] => EpochsKept
         /\ mem' = [mem EXCEPT ![w].state = "active"] => EpochsKept
         /\ mem' = [mem EXCEPT ![w].ingested = TRUE, ![w].state = "active"] => EpochsKept
         /\ \A h : mem' = [mem EXCEPT ![w].hist = h] => EpochsKept
         /\ \A i : mem' = [mem EXCEPT ![w].index = i] => EpochsKept
         /\ \A c : mem' = [mem EXCEPT ![w].hist = c, ![w].index = c] => EpochsKept
         /\ \A upto, kept : \A m \in Memory :
              SpawnIngestionWorkers(w, upto, m, kept) /\ m.epoch = mem[w].epoch => EpochsKept
<1> USE DEF EpochsKept, TypeInv, MemTyped, Memory
<1>1. /\ UNCHANGED mem => EpochsKept
      /\ \A m \in Memory : mem' = [mem EXCEPT ![w] = m] /\ m.epoch = mem[w].epoch => EpochsKept
  OBVIOUS
<1>2. /\ \A h : mem' = [mem EXCEPT ![w].hist = h] => EpochsKept
      /\ \A i : mem' = [mem EXCEPT ![w].index = i] => EpochsKept
  OBVIOUS
<1>3. \A c : mem' = [mem EXCEPT ![w].hist = c, ![w].index = c] => EpochsKept
  OBVIOUS
<1>4. /\ mem' = [mem EXCEPT ![w].ingested = TRUE] => EpochsKept
      /\ mem' = [mem EXCEPT ![w].cancel = TRUE] => EpochsKept
      /\ mem' = [mem EXCEPT ![w].state = "active"] => EpochsKept
  OBVIOUS
<1>5. mem' = [mem EXCEPT ![w].ingested = TRUE, ![w].state = "active"] => EpochsKept
  OBVIOUS
<1>6. \A m : Passthrough(w, m) => EpochsKept
  BY DEF Passthrough
<1>7. \A upto, kept : \A m \in Memory :
        SpawnIngestionWorkers(w, upto, m, kept) /\ m.epoch = mem[w].epoch => EpochsKept
  BY DEF SpawnIngestionWorkers
<1> QED  BY <1>1, <1>2, <1>3, <1>4, <1>5, <1>6, <1>7

\* The requests keep the calm.
LEMMA LifeKept ==
  ASSUME TypeInv, Calm, NEW w \in Worker, ReceivePayload(w) \/ RequestStep(w), ~dropped'
  PROVE  FirstLife' /\ UNCHANGED compactor
<1> USE DEF Calm, FirstLife
<1>1. ReceivePayload(w) => FirstLife' /\ UNCHANGED compactor
  BY DEF ReceivePayload
<1>2. Mismatch(w) => FALSE
  BY DEF Mismatch
<1>3. Gate(w) => FirstLife' /\ UNCHANGED compactor
  BY DEF Gate, restVars
<1>4. ToActive(w) \/ ToIngesting(w) \/ HealActivate(w) \/ FinalActivate(w)
        => FirstLife' /\ UNCHANGED compactor
  BY DEF ToActive, ToIngesting, HealActivate, FinalActivate, SetPhase, restVars
<1>5. Snapshot(w) \/ Upsert(w) \/ Claim(w) \/ HealClaim(w) \/ HealComplete(w) \/ Route(w)
        \/ Finalize(w) \/ Record(w) \/ Reply(w) => FirstLife' /\ UNCHANGED compactor
  BY DEF Snapshot, Upsert, Claim, HealClaim, HealComplete, Route, Finalize, Record, Reply,
     storeVars, restVars
<1>6. Resume(w) \/ StartIngestion(w) \/ Join(w) => FirstLife' /\ UNCHANGED compactor
  BY DEF Resume, StartIngestion, Join, storeVars
<1> QED  BY <1>1, <1>2, <1>3, <1>4, <1>5, <1>6 DEF RequestStep

LEMMA EpochsOfRequests ==
  ASSUME TypeInv, Calm, NEW w \in Worker, ReceivePayload(w) \/ RequestStep(w), ~dropped'
  PROVE  EpochsKept
<1>1. mem[w] \in Memory
  BY MemoryHeld
<1>2. ReceivePayload(w) \/ Snapshot(w) \/ ToActive(w) \/ ToIngesting(w) \/ Upsert(w) \/ Claim(w)
        \/ HealClaim(w) \/ HealComplete(w) \/ Finalize(w) => UNCHANGED mem
  BY DEF ReceivePayload, Snapshot, ToActive, ToIngesting, Upsert, Claim, HealClaim,
     HealComplete, Finalize
<1>3. Gate(w) => UNCHANGED mem
  BY DEF Gate, Calm, FirstLife
<1>4. HealActivate(w) \/ FinalActivate(w) => EpochsKept
  BY MemoryMoves DEF HealActivate, FinalActivate
<1>5. Route(w) => EpochsKept
  BY MemoryMoves DEF Route
<1>6. Resume(w) => EpochsKept
  <2>1. [mem[w] EXCEPT !.hist = rq[w].n] \in Memory
        /\ [mem[w] EXCEPT !.hist = rq[w].n].epoch = mem[w].epoch
    BY <1>1, MemoryHeld DEF Memory, Requests
  <2> QED  BY <2>1, MemoryMoves DEF Resume
<1>7. StartIngestion(w) => EpochsKept
  BY <1>1, MemoryMoves DEF StartIngestion
<1>8. Join(w) => EpochsKept
  <2> DEFINE m == [mem[w] EXCEPT !.cancel = FALSE]
  <2>1. m \in Memory /\ m.epoch = mem[w].epoch
    BY <1>1 DEF Memory
  <2>2. Join(w) => \/ mem' = [mem EXCEPT ![w] = m]
                   \/ \E kept : SpawnIngestionWorkers(w, rq[w].n, m, kept)
    BY DEF Join
  <2> HIDE DEF m
  <2> QED  BY <2>1, <2>2, MemoryMoves
<1>9. Record(w) => EpochsKept
  BY MemoryMoves DEF Record
<1>10. Reply(w) => EpochsKept
  BY MemoryMoves DEF Reply
<1>11. ~ Mismatch(w)
  BY DEF Mismatch
<1> QED
  BY <1>2, <1>3, <1>4, <1>5, <1>6, <1>7, <1>8, <1>9, <1>10, <1>11, MemoryMoves DEF RequestStep

LEMMA OneRequestAtATime ==
  ASSUME TypeInv, Calm, NEW w \in Worker, RequestStep(w), ~dropped'
  PROVE  OneRequest(w) /\ rq[w].pc # "idle"
<1>1. rq[w].pc # "idle"
  BY DEF RequestStep, Mismatch, Gate, Snapshot, ToActive, ToIngesting, Upsert, Claim, HealClaim,
     HealComplete, HealActivate, Route, Resume, StartIngestion, Join, Finalize, FinalActivate,
     Record, Reply, RequestAt
<1>2. Gate(w) => OneRequest(w)
  <2>1. \A s : rq' = [rq EXCEPT ![w].pc = "snapshot", ![w].seen = s] => OneRequest(w)
    BY DEF OneRequest, TypeInv, RequestTyped, Requests
  <2> QED  BY <2>1, RequestMovesAlone DEF Gate, Calm, FirstLife
<1>3. Snapshot(w) \/ ToActive(w) \/ ToIngesting(w) \/ Upsert(w) \/ Claim(w) \/ HealClaim(w)
        \/ HealComplete(w) \/ HealActivate(w) \/ Finalize(w) \/ FinalActivate(w) \/ Record(w)
        \/ Mismatch(w) => OneRequest(w)
  BY RequestMovesAlone DEF Snapshot, ToActive, ToIngesting, Upsert, Claim, HealClaim,
     HealComplete, HealActivate, Finalize, FinalActivate, Record, Mismatch
<1>4. Route(w) \/ Resume(w) \/ StartIngestion(w) \/ Join(w) => OneRequest(w)
  BY RequestMovesAlone DEF Route, Resume, StartIngestion, Join
<1>5. Reply(w) => OneRequest(w)
  <2>1. rq' = [rq EXCEPT ![w].pc = "healClaim", ![w].tagged = TRUE] => OneRequest(w)
    BY DEF OneRequest, TypeInv, RequestTyped, Requests
  <2> QED  BY <2>1, RequestMovesAlone DEF Reply
<1> QED  BY <1>1, <1>2, <1>3, <1>4, <1>5 DEF RequestStep

\* A thread is started with nothing captured; no other one moves.
LEMMA ThreadsOfRequests ==
  ASSUME TypeInv, NEW w \in Worker, ReceivePayload(w) \/ RequestStep(w)
  PROVE  \A v \in Worker, t \in Slot :
           \/ thread'[v][t] = thread[v][t]
           \/ thread[v][t].pc = "off" /\ thread'[v][t].pc = "read"
<1>1. \/ UNCHANGED thread
      \/ \E upto, m, kept : SpawnIngestionWorkers(w, upto, m, kept)
  BY DEF ReceivePayload, RequestStep, Mismatch, Gate, Snapshot, ToActive, ToIngesting, Upsert,
     Claim, HealClaim, HealComplete, HealActivate, Route, Resume, StartIngestion, Join, Finalize,
     FinalActivate, Record, Reply, restVars
<1>2. ASSUME NEW upto, NEW m, NEW kept, SpawnIngestionWorkers(w, upto, m, kept)
      PROVE  \A v \in Worker, t \in Slot :
               \/ thread'[v][t] = thread[v][t]
               \/ thread[v][t].pc = "off" /\ thread'[v][t].pc = "read"
  <2>1. PICK s \in Slot :
          /\ thread[w][s].pc = "off"
          /\ thread' = [thread EXCEPT ![w][s] = [NoThread EXCEPT !.pc = "read", !.upto = upto]]
    BY <1>2 DEF SpawnIngestionWorkers
  <2>2. [NoThread EXCEPT !.pc = "read", !.upto = upto].pc = "read"
    BY DEF NoThread
  <2> QED  BY <2>1, <2>2 DEF TypeInv, ThreadTyped
<1> QED  BY <1>1, <1>2

LEMMA RequestCalm ==
  ASSUME TypeInv, Calm, NEW w \in Worker, ReceivePayload(w) \/ RequestStep(w), ~dropped'
  PROVE  Calm'
<1>1. FirstLife'
  BY LifeKept
<1>2. MemoryCalm'
  BY EpochsOfRequests DEF EpochsKept, Calm, MemoryCalm
<1>3. RequestsCalm'
  <2>1. CASE RequestStep(w)
    BY <2>1, OneRequestAtATime DEF OneRequest, Calm, RequestsCalm
  <2>2. CASE ReceivePayload(w)
    <3>1. PICK n : rq' = [rq EXCEPT ![w] = [NoRequest EXCEPT !.pc = "gate", !.n = n, !.ep = epoch]]
      BY <2>2 DEF ReceivePayload
    <3>2. [NoRequest EXCEPT !.pc = "gate", !.n = n, !.ep = epoch].ep = 1
      BY DEF Calm, FirstLife, NoRequest
    <3> QED  BY <3>1, <3>2 DEF Calm, RequestsCalm, TypeInv, RequestTyped
  <2> QED  BY <2>1, <2>2
<1>4. ThreadsCalm'
  BY ThreadsOfRequests DEF Calm, ThreadsCalm, Sweeping
<1> QED  BY <1>1, <1>2, <1>3, <1>4 DEF Calm

\* Who ends an episode has seen that no row is left.
EpisodeOutlives == Running(1) /\ Untagged # {} => Running(1)'

LEMMA EpisodesKept ==
  ASSUME TypeInv, NEW w \in Worker
  PROVE  /\ UNCHANGED episode => EpisodeOutlives
         /\ \A e : ClaimIngestionLease(w, e) => EpisodeOutlives
         /\ \A e : UpsertIngestionEpisode(w, e) => EpisodeOutlives
         /\ \A e : RefreshIngestionHeartbeat(w, e) => EpisodeOutlives
         /\ \A e : CompleteIngestionEpisode(w, e) => EpisodeOutlives
<1> USE Constants DEF EpisodeOutlives, Running, TypeInv, EpisodeTyped
<1>1. UNCHANGED episode => EpisodeOutlives
  OBVIOUS
<1>2. \A e : ClaimIngestionLease(w, e) => EpisodeOutlives
  BY DEF ClaimIngestionLease, Own
<1>3. \A e : UpsertIngestionEpisode(w, e) => EpisodeOutlives
  BY DEF UpsertIngestionEpisode, Own
<1>4. \A e : RefreshIngestionHeartbeat(w, e) => EpisodeOutlives
  BY DEF RefreshIngestionHeartbeat
<1>5. \A e : CompleteIngestionEpisode(w, e) => EpisodeOutlives
  BY DEF CompleteIngestionEpisode, Completable
<1> QED  BY <1>1, <1>2, <1>3, <1>4, <1>5

\* A step that leaves no new row unanswered and takes nobody away.
LEMMA AnswersKept ==
  ASSUME Answered, (Untagged \ InHand)' \subseteq Untagged \ InHand, EpisodeOutlives,
         \A v \in Worker : rq[v].pc \in Answering => rq'[v].pc \in Answering,
         \A v \in Worker : compactor[v] # "off" => compactor'[v] # "off"
  PROVE  Answered'
  BY DEF Answered, Answerable, EpisodeOutlives, InHand

LEMMA HandsOfRequests ==
  ASSUME TypeInv, Calm, NEW w \in Worker, ReceivePayload(w) \/ RequestStep(w), ~dropped'
  PROVE  InHand \subseteq InHand'
<1>1. up' = up
  BY LifeKept DEF Calm, FirstLife
<1>2. \A v \in up, t \in Slot : thread[v][t].pc = "mark" => thread'[v][t] = thread[v][t]
  BY ThreadsOfRequests DEF TypeInv, RestTyped
<1> QED  BY <1>1, <1>2 DEF InHand

LEMMA EpisodesOfRequests ==
  ASSUME TypeInv, Calm, NEW w \in Worker, RequestStep(w), ~dropped'
  PROVE  EpisodeOutlives
<1>1. Gate(w) => UNCHANGED episode
  BY DEF Gate, Calm, FirstLife
<1>2. Mismatch(w) \/ Snapshot(w) \/ ToActive(w) \/ ToIngesting(w) \/ HealActivate(w) \/ Route(w)
        \/ FinalActivate(w) \/ Record(w) \/ Reply(w) => UNCHANGED episode
  BY DEF Mismatch, Snapshot, ToActive, ToIngesting, HealActivate, Route, FinalActivate, Record,
     Reply, storeVars
<1>3. StartIngestion(w) \/ Join(w) => UNCHANGED episode
  BY DEF StartIngestion, Join, storeVars
<1>4. Upsert(w) \/ Claim(w) \/ HealClaim(w) \/ HealComplete(w) \/ Finalize(w) \/ Resume(w)
        => EpisodeOutlives
  BY EpisodesKept DEF Upsert, Claim, HealClaim, HealComplete, Finalize, Resume, storeVars
<1> QED  BY <1>1, <1>2, <1>3, <1>4, EpisodesKept DEF RequestStep

LEMMA RowsOfRequests ==
  ASSUME TypeInv, Calm, NEW w \in Worker, RequestStep(w), ~dropped'
  PROVE  (Untagged \ InHand)' \subseteq Untagged \ InHand
<1>1. UNCHANGED row \/ Reply(w)
  BY DEF RequestStep, Mismatch, Gate, Snapshot, ToActive, ToIngesting, Upsert, Claim, HealClaim,
     HealComplete, HealActivate, Route, Resume, StartIngestion, Join, Finalize, FinalActivate,
     Record, storeVars
<1>2. Reply(w) => \A r \in Row : row'[r] = "untagged" => row[r] = "untagged"
  <2> SUFFICES ASSUME Reply(w), NEW r \in Row, row'[r] = "untagged" PROVE row[r] = "untagged"
    OBVIOUS
  <2>1. \/ UNCHANGED row
        \/ \E saved \in {"tagged", row[rq[w].n + 1]} : row' = [row EXCEPT ![rq[w].n + 1] = saved]
    BY DEF Reply
  <2> QED  BY <2>1 DEF TypeInv, RowTyped
<1>3. Untagged' \subseteq Untagged
  BY <1>1, <1>2 DEF Untagged
<1> QED  BY <1>3, HandsOfRequests

LEMMA RequestAnswers ==
  ASSUME TypeInv, Calm, Answered, NEW w \in Worker, ReceivePayload(w) \/ RequestStep(w),
         ~dropped'
  PROVE  Answered'
<1> USE DEF Answering
<1>1. CASE ReceivePayload(w)
  <2>1. PICK n : rq' = [rq EXCEPT ![w] = [NoRequest EXCEPT !.pc = "gate", !.n = n, !.ep = epoch]]
    BY <1>1 DEF ReceivePayload
  <2>2. rq'[w].pc = "gate"
    BY <2>1 DEF TypeInv, RequestTyped, NoRequest
  <2> QED  BY <2>2 DEF Answered, Answerable
<1>2. CASE Gate(w)
  <2>1. CompactionRunning => Answerable'
    BY LifeKept, <1>2 DEF CompactionRunning, Answerable
  <2>2. \A s : rq' = [rq EXCEPT ![w].pc = "snapshot", ![w].seen = s] => rq'[w].pc = "snapshot"
    BY DEF TypeInv, RequestTyped, Requests
  <2>3. CompactionRunning \/ rq'[w].pc = "snapshot"
    BY <1>2, <2>2 DEF Gate, Calm, FirstLife
  <2> QED  BY <2>1, <2>3 DEF Answered, Answerable
<1>3. CASE Snapshot(w)
  <2>1. CASE Untagged = {}
    <3>1. (Untagged \ InHand)' \subseteq Untagged \ InHand
      BY <1>3, RowsOfRequests DEF RequestStep
    <3> QED  BY <2>1, <3>1 DEF Answered
  <2>2. CASE Untagged # {}
    <3>1. RequestTo(w, "toIngesting") \/ RequestTo(w, "upsert")
      BY <1>3, <2>2 DEF Snapshot
    <3>2. rq'[w].pc \in Answering
      BY <3>1 DEF RequestTo, TypeInv, RequestTyped, Requests
    <3> QED  BY <3>2 DEF Answered, Answerable
  <2> QED  BY <2>1, <2>2
<1>4. CASE ToIngesting(w)
  <2>1. rq'[w].pc = "upsert"
    BY <1>4 DEF ToIngesting, RequestTo, TypeInv, RequestTyped, Requests
  <2> QED  BY <2>1 DEF Answered, Answerable
<1>5. CASE Upsert(w)
  <2>1. rq[w].ep = 1
    BY <1>5 DEF Upsert, RequestAt, Calm, RequestsCalm
  <2>2. Running(1)'
    BY <1>5, <2>1, Constants DEF Upsert, UpsertIngestionEpisode, Running, Own, TypeInv, EpisodeTyped
  <2> QED  BY <2>2 DEF Answered, Answerable
<1>6. CASE RequestStep(w) /\ ~(Gate(w) \/ Snapshot(w) \/ ToIngesting(w) \/ Upsert(w))
  <2>1. rq[w].pc \notin Answering
    <3>1. ~ Mismatch(w)
      BY <1>6 DEF Mismatch
    <3> QED  BY <1>6, <3>1 DEF RequestStep, ToActive, Claim, HealClaim, HealComplete,
                HealActivate, Route, Resume, StartIngestion, Join, Finalize, FinalActivate,
                Record, Reply, RequestAt
  <2>2. \A v \in Worker : rq[v].pc \in Answering => rq'[v].pc \in Answering
    BY <1>6, <2>1, OneRequestAtATime DEF OneRequest
  <2> QED  BY <1>6, <2>2, AnswersKept, RowsOfRequests, EpisodesOfRequests, LifeKept
<1> QED  BY <1>1, <1>2, <1>3, <1>4, <1>5, <1>6

\* A thread's step moves that thread, and captures the worker's epoch.
OneThread(w, t) ==
  /\ \A v \in Worker, s \in Slot : v # w \/ s # t => thread'[v][s] = thread[v][s]
  /\ thread'[w][t].pc \in Sweeping => thread'[w][t].ep = 1

LEMMA ThreadMovesAlone ==
  ASSUME TypeInv, Calm, NEW w \in Worker, NEW t \in Slot
  PROVE  /\ ThreadEnds(w, t) => OneThread(w, t)
         /\ \A pc : ThreadTo(w, t, pc) /\ (pc \notin Sweeping \/ thread[w][t].pc \in Sweeping)
                      => OneThread(w, t) /\ thread'[w][t].pc = pc
         /\ \A pc, todo : ThreadHolds(w, t, pc, todo)
                          /\ (pc \notin Sweeping \/ thread[w][t].pc \in Sweeping)
                      => OneThread(w, t)
<1> USE DEF OneThread, Calm, ThreadsCalm, TypeInv, ThreadTyped
<1>1. ThreadEnds(w, t) => OneThread(w, t)
  BY DEF ThreadEnds, NoThread, Sweeping
<1>2. \A pc : ThreadTo(w, t, pc) /\ (pc \notin Sweeping \/ thread[w][t].pc \in Sweeping)
                => OneThread(w, t) /\ thread'[w][t].pc = pc
  BY DEF ThreadTo, Threads
<1>3. \A pc, todo : ThreadHolds(w, t, pc, todo)
                    /\ (pc \notin Sweeping \/ thread[w][t].pc \in Sweeping)
                => OneThread(w, t)
  BY DEF ThreadHolds, Threads
<1> QED  BY <1>1, <1>2, <1>3

LEMMA OneThreadAtATime ==
  ASSUME TypeInv, Calm, NEW w \in Worker, NEW t \in Slot, ThreadStep(w, t)
  PROVE  OneThread(w, t)
<1> USE DEF ThreadAt
<1>0. /\ "sweep" \notin Sweeping /\ "caught" \notin Sweeping /\ "pairs" \notin Sweeping
      /\ "read" \notin Sweeping
      /\ \A pc \in {"fetch", "tag", "mark", "complete", "retry", "activate"} : pc \in Sweeping
  BY DEF Sweeping
<1>1. ReadStrictRows(w, t) \/ TagTurn(w, t) => OneThread(w, t)
  BY <1>0, ThreadMovesAlone DEF ReadStrictRows, TagTurn
<1>2. CatchUp(w, t) => OneThread(w, t)
  <2>1. \A h : thread' = [thread EXCEPT ![w][t].pc = "read", ![w][t].upto = h] => OneThread(w, t)
    BY <1>0 DEF OneThread, TypeInv, ThreadTyped, Threads
  <2> QED  BY <1>0, <2>1, ThreadMovesAlone DEF CatchUp
<1>3. BeginSweep(w, t) => OneThread(w, t)
  BY DEF BeginSweep, OneThread, Calm, MemoryCalm, TypeInv, ThreadTyped, Threads
<1>4. Fetch(w, t) \/ SaveRow(w, t) \/ SkipRow(w, t) \/ MarkRow(w, t) => OneThread(w, t)
  BY <1>0, ThreadMovesAlone DEF Fetch, SaveRow, SkipRow, MarkRow, NextRow
<1>5. CompleteSweep(w, t) \/ RetrySweep(w, t) \/ FinishIngestion(w, t) => OneThread(w, t)
  BY <1>0, ThreadMovesAlone DEF CompleteSweep, RetrySweep, FinishIngestion
<1>6. ActivatePhase(w, t) => OneThread(w, t)
  <2>1. ActivatePhase(w, t) /\ ThreadTo(w, t, "post") => OneThread(w, t)
    BY <1>0, ThreadMovesAlone DEF ActivatePhase
  <2> QED  BY <2>1, ThreadMovesAlone DEF ActivatePhase
<1> QED  BY <1>1, <1>2, <1>3, <1>4, <1>5, <1>6 DEF ThreadStep

LEMMA ThreadCalm ==
  ASSUME TypeInv, Calm, NEW w \in Worker, NEW t \in Slot, ThreadStep(w, t)
  PROVE  Calm'
<1>1. UNCHANGED <<compactor, up, sidecar, rq, posts, lapses, dropped>>
  BY DEF ThreadStep, ReadStrictRows, TagTurn, CatchUp, BeginSweep, Fetch, SaveRow,
     SkipRow, MarkRow, CompleteSweep, RetrySweep, ActivatePhase, FinishIngestion, threadRest
<1>2. FirstLife'
  BY <1>1 DEF ThreadStep, ReadStrictRows, TagTurn, CatchUp, BeginSweep, Fetch, SaveRow,
     SkipRow, MarkRow, CompleteSweep, RetrySweep, ActivatePhase, FinishIngestion, storeVars,
     SetPhase, Calm, FirstLife
<1>3. EpochsKept
  BY MemoryMoves DEF ThreadStep, ReadStrictRows, TagTurn, CatchUp, BeginSweep, Fetch, SaveRow,
     SkipRow, MarkRow, CompleteSweep, RetrySweep, ActivatePhase, FinishIngestion
<1>4. ThreadsCalm'
  BY OneThreadAtATime DEF OneThread, Calm, ThreadsCalm
<1> QED  BY <1>1, <1>2, <1>3, <1>4 DEF Calm, MemoryCalm, RequestsCalm, EpochsKept

LEMMA ThreadAnswers ==
  ASSUME TypeInv, Calm, Answered, NEW w \in Worker, NEW t \in Slot, ThreadStep(w, t)
  PROVE  Answered'
<1>1. UNCHANGED <<compactor, up, sidecar, rq, posts, lapses, dropped>>
  BY DEF ThreadStep, ReadStrictRows, TagTurn, CatchUp, BeginSweep, Fetch, SaveRow,
     SkipRow, MarkRow, CompleteSweep, RetrySweep, ActivatePhase, FinishIngestion, threadRest
<1>2. EpisodeOutlives
  BY EpisodesKept DEF ThreadStep, ReadStrictRows, TagTurn, CatchUp, BeginSweep, Fetch, SaveRow,
     SkipRow, MarkRow, CompleteSweep, RetrySweep, ActivatePhase, FinishIngestion, storeVars
<1> DEFINE r0 == Min(thread[w][t].todo)
<1>0. \A v \in up, s \in Slot : v # w \/ s # t => thread'[v][s] = thread[v][s]
  BY OneThreadAtATime DEF OneThread, TypeInv, RestTyped
<1>3. InHand \ {r0} \subseteq InHand'
  <2> SUFFICES ASSUME NEW r \in InHand, r # r0 PROVE r \in InHand'
    OBVIOUS
  <2>1. PICK v \in up, s \in Slot : thread[v][s].pc = "mark" /\ r = Min(thread[v][s].todo)
    BY DEF InHand
  <2>2. v # w \/ s # t
    BY <2>1
  <2>3. thread'[v][s] = thread[v][s] /\ v \in up'
    BY <1>0, <1>1, <2>2
  <2> QED  BY <2>1, <2>3 DEF InHand
<1>4. thread[w][t].pc # "mark" => InHand \subseteq InHand'
  <2> SUFFICES ASSUME thread[w][t].pc # "mark", NEW r \in InHand PROVE r \in InHand'
    OBVIOUS
  <2>1. PICK v \in up, s \in Slot : thread[v][s].pc = "mark" /\ r = Min(thread[v][s].todo)
    BY DEF InHand
  <2>2. v # w \/ s # t
    BY <2>1
  <2>3. thread'[v][s] = thread[v][s] /\ v \in up'
    BY <1>0, <1>1, <2>2
  <2> QED  BY <2>1, <2>3 DEF InHand
<1>5. CASE MarkRow(w, t)
  <2>1. Verified(w) /\ thread[w][t].ep = epoch
    BY <1>5 DEF MarkRow, ThreadAt, Verified, Calm, FirstLife, MemoryCalm, ThreadsCalm, Sweeping
  <2>2. \/ row[r0] = "untagged" /\ row' = [row EXCEPT ![r0] = "tagged"]
        \/ row[r0] # "untagged" /\ UNCHANGED row
    BY <1>5, <2>1 DEF MarkRow
  <2> HIDE DEF r0
  <2>3. Untagged' \subseteq Untagged \ {r0}
    BY <2>2 DEF Untagged, TypeInv, RowTyped
  <2>4. (Untagged \ InHand)' \subseteq Untagged \ InHand
    BY <1>3, <2>3
  <2> QED  BY <1>1, <1>2, <2>4, AnswersKept
<1>6. CASE SaveRow(w, t)
  <2>1. row' = [row EXCEPT ![r0] = "untagged"] /\ thread[w][t].pc # "mark"
    BY <1>6 DEF SaveRow, ThreadAt
  <2>2. w \in up' /\ thread'[w][t].pc = "mark" /\ Min(thread'[w][t].todo) = r0
    BY <1>1, <1>6, ThreadHeld
    DEF SaveRow, ThreadAt, ThreadTo, TypeInv, ThreadTyped, Threads
  <2> HIDE DEF r0
  <2>3. r0 \in Row => r0 \in InHand'
    BY <2>2 DEF InHand
  <2>4. Untagged' \subseteq Untagged \cup {r0}
    BY <2>1 DEF Untagged, TypeInv, RowTyped
  <2>5. (Untagged \ InHand)' \subseteq Untagged \ InHand
    BY <1>4, <2>1, <2>3, <2>4 DEF Untagged
  <2> QED  BY <1>1, <1>2, <2>5, AnswersKept
<1>7. CASE ThreadStep(w, t) /\ ~MarkRow(w, t) /\ ~SaveRow(w, t)
  <2>1. thread[w][t].pc # "mark"
    BY <1>7 DEF ThreadStep, ReadStrictRows, TagTurn, CatchUp, BeginSweep, Fetch, SkipRow,
       CompleteSweep, RetrySweep, ActivatePhase, FinishIngestion, ThreadAt
  <2>2. UNCHANGED row \/ row' = [row EXCEPT ![r0] = "tagged"]
    BY <1>7 DEF ThreadStep, ReadStrictRows, TagTurn, CatchUp, BeginSweep, Fetch, SkipRow,
       CompleteSweep, RetrySweep, ActivatePhase, FinishIngestion, storeVars
  <2> HIDE DEF r0
  <2>3. Untagged' \subseteq Untagged
    BY <2>2 DEF Untagged, TypeInv, RowTyped
  <2>4. (Untagged \ InHand)' \subseteq Untagged \ InHand
    BY <1>4, <2>1, <2>3
  <2> QED  BY <1>1, <1>2, <2>4, AnswersKept
<1> QED  BY <1>5, <1>6, <1>7

\* Compactions, heartbeats and lapses; whatever ends a life drops.
LEMMA OtherAnswers ==
  ASSUME TypeInv, Calm, Answered, ~dropped', NEW w \in Worker, NEW e \in Epoch,
         \/ Heartbeat(w, e) \/ Lapse(e) \/ Rehydrate(w) \/ Crash(w) \/ DeleteConversation
         \/ EnterCompaction(w) \/ CloseCompaction(w) \/ DrainCompaction(w)
  PROVE  Calm' /\ Answered'
<1>1. CASE Crash(w) \/ DeleteConversation
  BY <1>1 DEF Crash, DeleteConversation
<1>2. CASE Rehydrate(w)
  BY <1>2 DEF Rehydrate, Calm, FirstLife, MemoryCalm
<1>3. CASE Heartbeat(w, e)
  <2>1. UNCHANGED <<phase, epoch, row, compactor, up, thread, rq>> /\ EpochsKept /\ EpisodeOutlives
    BY <1>3, MemoryMoves, EpisodesKept DEF Heartbeat
  <2>2. Calm'
    BY <2>1 DEF Calm, FirstLife, MemoryCalm, RequestsCalm, ThreadsCalm, EpochsKept
  <2>3. (Untagged \ InHand)' \subseteq Untagged \ InHand
    BY <2>1 DEF Untagged, InHand
  <2> QED  BY <2>1, <2>2, <2>3, AnswersKept
<1>4. CASE Lapse(e)
  <2>1. UNCHANGED <<phase, epoch, row, compactor, up, mem, thread, rq>>
    BY <1>4 DEF Lapse
  <2>2. EpisodeOutlives
    BY <1>4 DEF Lapse, EpisodeOutlives, Running, TypeInv, EpisodeTyped
  <2>3. Calm'
    BY <2>1 DEF Calm, FirstLife, MemoryCalm, RequestsCalm, ThreadsCalm
  <2>4. (Untagged \ InHand)' \subseteq Untagged \ InHand
    BY <2>1 DEF Untagged, InHand
  <2> QED  BY <2>1, <2>2, <2>3, <2>4, AnswersKept
<1>5. CASE EnterCompaction(w) \/ CloseCompaction(w) \/ DrainCompaction(w)
  <2>1. UNCHANGED <<epoch, row, up, mem, thread, rq>> /\ phase' # "deleted"
    BY <1>5 DEF EnterCompaction, CloseCompaction, DrainCompaction, storeVars, Calm, FirstLife
  <2>2. Calm'
    BY <2>1 DEF Calm, FirstLife, MemoryCalm, RequestsCalm, ThreadsCalm
  <2>3. (Untagged \ InHand)' \subseteq Untagged \ InHand
    BY <2>1 DEF Untagged, InHand
  <2>4. CASE EnterCompaction(w) \/ CloseCompaction(w)
    <3>1. compactor'[w] # "off"
      BY <2>4 DEF EnterCompaction, CloseCompaction, TypeInv, RestTyped
    <3> QED  BY <2>2, <3>1 DEF Answered, Answerable
  <2>5. CASE DrainCompaction(w)
    <3>1. mem[w].epoch = epoch /\ epoch = 1
      BY DEF Calm, FirstLife, MemoryCalm
    <3>2. CASE Untagged # {}
      <4>1. \/ Running(1) /\ UNCHANGED episode
            \/ episode' = [episode EXCEPT ![1] = Own(w)]
        BY <2>5, <3>1, <3>2 DEF DrainCompaction
      <4>2. Running(1)'
        BY <4>1, Constants DEF Running, Own, TypeInv, EpisodeTyped
      <4> QED  BY <2>2, <4>2 DEF Answered, Answerable
    <3>3. CASE Untagged = {}
      BY <2>2, <2>3, <3>3 DEF Answered
    <3> QED  BY <3>2, <3>3
  <2> QED  BY <1>5, <2>4, <2>5
<1> QED  BY <1>1, <1>2, <1>3, <1>4, <1>5

\* What was dropped stays dropped.
LEMMA DroppedForever == TypeInv /\ Next /\ ~dropped' => ~dropped
<1> SUFFICES ASSUME TypeInv, Next PROVE dropped' = dropped \/ dropped' = TRUE
  BY DEF TypeInv, RestTyped
<1>1. ASSUME NEW w \in Worker, RequestStep(w) PROVE dropped' = dropped \/ dropped' = TRUE
  BY <1>1 DEF RequestStep, Mismatch, Gate, Snapshot, ToActive, ToIngesting, Upsert, Claim,
     HealClaim, HealComplete, HealActivate, Route, Resume, StartIngestion, Join, Finalize,
     FinalActivate, Record, Reply
<1>2. ASSUME NEW w \in Worker, NEW t \in Slot, ThreadStep(w, t) PROVE dropped' = dropped
  BY <1>2 DEF ThreadStep, ReadStrictRows, TagTurn, CatchUp, BeginSweep, Fetch, SaveRow,
     SkipRow, MarkRow, CompleteSweep, RetrySweep, ActivatePhase, FinishIngestion, threadRest
<1>3. ASSUME NEW w \in Worker, NEW e \in Epoch, Heartbeat(w, e) PROVE dropped' = dropped
  BY <1>3 DEF Heartbeat
<1>4. ASSUME (\E e \in Epoch : Lapse(e)) \/ DeleteConversation
      PROVE  dropped' = dropped \/ dropped' = TRUE
  BY <1>4 DEF Lapse, DeleteConversation
<1>5. ASSUME NEW w \in Worker, Rehydrate(w) \/ Crash(w) \/ EnterCompaction(w)
             \/ CloseCompaction(w) \/ DrainCompaction(w) \/ ReceivePayload(w)
      PROVE  dropped' = dropped \/ dropped' = TRUE
  BY <1>5 DEF ReceivePayload, Rehydrate, Crash, EnterCompaction, CloseCompaction, DrainCompaction
<1> QED  BY <1>1, <1>2, <1>3, <1>4, <1>5 DEF Next

LEMMA AnswerInvStep ==
  ASSUME AnswerInv, [Next]_vars
  PROVE  AnswerInv'
<1>1. TypeInv'
  BY TypeInvStep DEF AnswerInv
<1>2. CASE UNCHANGED vars
  <2>1. UNCHANGED <<phase, epoch, episode, row, compactor, up, mem, thread, rq, dropped>>
    BY <1>2 DEF vars
  <2>2. dropped \/ Calm => (dropped \/ Calm)'
    BY <2>1 DEF Calm, FirstLife, MemoryCalm, RequestsCalm, ThreadsCalm
  <2>3. Answered => Answered'
    BY <2>1 DEF Answered, Answerable, Untagged, InHand, Running
  <2> QED  BY <1>1, <2>1, <2>2, <2>3 DEF AnswerInv
<1>3. CASE Next
  <2> SUFFICES ASSUME ~dropped' PROVE Calm' /\ Answered'
    BY <1>1 DEF AnswerInv
  <2>1. TypeInv /\ Calm /\ Answered
    BY <1>3, DroppedForever DEF AnswerInv
  <2>2. 1 \in Epoch
    BY Constants
  <2>3. ASSUME NEW w \in Worker, ReceivePayload(w) \/ RequestStep(w)
        PROVE  Calm' /\ Answered'
    BY <2>1, <2>3, RequestCalm, RequestAnswers
  <2>4. ASSUME NEW w \in Worker, NEW t \in Slot, ThreadStep(w, t)
        PROVE  Calm' /\ Answered'
    BY <2>1, <2>4, ThreadCalm, ThreadAnswers
  <2>5. ASSUME NEW w \in Worker, Rehydrate(w) \/ Crash(w) \/ EnterCompaction(w)
               \/ CloseCompaction(w) \/ DrainCompaction(w)
        PROVE  Calm' /\ Answered'
    BY <2>1, <2>2, <2>5, OtherAnswers
  <2>6. ASSUME NEW w \in Worker, NEW e \in Epoch, Heartbeat(w, e)
        PROVE  Calm' /\ Answered'
    BY <2>1, <2>6, OtherAnswers
  <2>7. ASSUME NEW e \in Epoch, Lapse(e) PROVE Calm' /\ Answered'
    <3>1. PICK w \in Worker : episode[e].owner = w
      BY <2>1, <2>7 DEF Lapse, Running, TypeInv, EpisodeTyped
    <3> QED  BY <2>1, <2>7, <3>1, OtherAnswers
  <2>8. ASSUME DeleteConversation PROVE FALSE
    BY <2>8 DEF DeleteConversation
  <2> QED  BY <1>3, <2>3, <2>4, <2>5, <2>6, <2>7, <2>8 DEF Next
<1> QED  BY <1>2, <1>3

\* A row that a request stored is answered for, however many workers, threads
\* and turns there are and in whatever order claims, sweeps, heals, heartbeats
\* and compactions come: who ends an episode has seen in the same statement
\* that no row is left, and a compaction that turned a request away opens an
\* episode when it drains.
THEOREM UntaggedAnswered == Spec => []UntaggedIsAnswered
<1>1. AnswerInv /\ [Next]_vars => AnswerInv'
  BY AnswerInvStep
<1> QED  BY AnswerInvInit, <1>1, AnswerInvImplies, PTL DEF Spec
=============================================================================
