------------------------------ MODULE MCTakeover ------------------------------
EXTENDS CompactionTakeover, TLC

OpSymmetry == Permutations(Op)
=============================================================================
