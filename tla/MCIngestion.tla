------------------------------ MODULE MCIngestion ------------------------------
EXTENDS IngestionEpisode
CONSTANTS w1, w2, t1, t2

\* What a crash of the owner leaves: rows stored, some of them tagged, and an
\* episode whose heartbeat is still fresh.
OrphanInit ==
  /\ phase = "ingesting" /\ epoch = 1
  /\ episode = [e \in Epoch |-> IF e = 1 THEN Own(w2) ELSE NoEpisode]
  /\ row \in [Row -> {"absent", "untagged", "tagged"}] /\ Untagged # {}
  /\ \A r \in Present : 1..r \subseteq Present
  /\ compactor = [w \in Worker |-> "off"]
  /\ up = Worker \ {w2}
  /\ mem = [w \in Worker |-> NewMemory]
  /\ thread = [w \in Worker |-> [t \in Slot |-> NoThread]]
  /\ sidecar = [w \in Worker |-> {}]
  /\ rq = [w \in Worker |-> NoRequest]
  /\ posts = 0 /\ lapses = 0 /\ dropped = TRUE

OrphanSpec == OrphanInit /\ [][Next]_vars /\ Fairness
================================================================================
