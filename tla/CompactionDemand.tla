--------------------------- MODULE CompactionDemand ---------------------------
(****************************************************************************)
(* What the coalescing of compaction requests promises: the highest target  *)
(* anybody has asked for stays owed until a run that reaches it has ended,  *)
(* or the compacted prefix has passed it.                                   *)
(****************************************************************************)
EXTENDS Naturals

CONSTANT Target

VARIABLES owed,       \* the highest target asked for and not given up
          running,    \* the target of the run in progress, 0 without one
          compacted   \* how far the conversation is compacted

vars == <<owed, running, compacted>>

Init == owed = 0 /\ running = 0 /\ compacted = 0

Ask == owed' \in Target /\ owed' > owed /\ UNCHANGED <<running, compacted>>

Begin == running = 0 /\ running' \in 0..owed /\ UNCHANGED <<owed, compacted>>

Advance == compacted' \in Target /\ compacted' > compacted /\ UNCHANGED <<owed, running>>

\* The run ends; what it has reached is no longer owed.
End ==
  /\ running' = 0 /\ UNCHANGED compacted
  /\ owed' <= owed
  /\ running < owed /\ compacted < owed => owed' = owed

Next == Ask \/ Begin \/ Advance \/ End

Spec == Init /\ [][Next]_vars
===============================================================================
