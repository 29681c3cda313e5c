---------------------------- MODULE MCJobQueue -----------------------------
EXTENDS JobQueue, TLC

CONSTANTS j1, j2, key

SameKey == [j \in Jobs |-> key]
NoKeys == [j \in Jobs |-> None]
NodeSymmetry == Permutations(Nodes)
=============================================================================
