------------------------------- MODULE MCMerge -------------------------------
(* ConversationMerge on a small instance.  Merges and requests are            *)
(* interchangeable; conversations are not (their locks are taken in order).   *)
EXTENDS ConversationMerge, TLC

Symmetry == Permutations(Merge) \cup Permutations(Request)
=============================================================================
