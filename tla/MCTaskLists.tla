---------------------------- MODULE MCTaskLists -----------------------------
(* The machine's memory for processes that are interchangeable. *)
EXTENDS TaskLists, MCLists, TLC

MCSymmetry == Permutations(Process)
=============================================================================
