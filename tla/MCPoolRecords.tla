---------------------------- MODULE MCPoolRecords ---------------------------
(* nvhtop is process 2: one pid before it in /proc and one after it.        *)
EXTENDS PoolRecords, TLC
CONSTANTS b1, b2, b3, b4
MCPids == 1..3
MCSelf == 2
MCBlocks == {b1, b2, b3, b4}
\* Which free block malloc returns makes no difference to a safety property.
MCSymmetry == Permutations(MCBlocks)
=============================================================================
