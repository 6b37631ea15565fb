---------------------------- MODULE MCTaskTrail ----------------------------
(* Small instances of TaskTrail.                                             *)
EXTENDS TaskTrail, TLC

Slots == Permutations(Clients)
=============================================================================
