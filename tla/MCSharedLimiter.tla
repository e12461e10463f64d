-------------------------- MODULE MCSharedLimiter --------------------------
EXTENDS SharedLimiter, TLC

OldSymmetry == Permutations(Old)
=============================================================================
