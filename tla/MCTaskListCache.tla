-------------------------- MODULE MCTaskListCache --------------------------
(* Small instances of TaskListCache.                                         *)
EXTENDS TaskListCache, TLC

CONSTANTS r1, r2, w1, w2

Slots == Permutations(Readers) \cup Permutations(Writers)
=============================================================================
