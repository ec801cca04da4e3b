---------------------------- MODULE MCReconciler ----------------------------
EXTENDS IngestReconciler

MCPayloads == {<<"u">>, <<"u", "a">>, <<"u", "a", "v", "a">>, <<"u", "a", "v", "b">>, <<"b", "u", "a", "v">>}
MCPairs == {<<"u", "a">>}
Procs == Permutations(Proc)

\* What the theorems on Postgres assume: three calls of at most four turns, with
\* 1000, 200, 40 and 8 between the keys, and a window for short payloads.
MCGaps == [c \in 0..MaxCalls |-> 1000 \div 5^c]
ASSUME MCReconcilerAssumption ==
  /\ PayloadsFit(4) /\ GapsLast(MCGaps, 4)
  /\ \E z \in AnchorSizes : z <= ShortOverlap
=============================================================================
