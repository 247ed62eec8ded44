---------------------------- MODULE MCMemoryStore ----------------------------
EXTENDS MemoryStore, TLC

CONSTANTS r1, r2, r3

ThreeRuns == {r1, r2, r3}

Symmetry == Permutations(ThreeRuns)
=============================================================================
