-------------------------- MODULE MCSlobAllocator ---------------------------
(* Small objects of one, three and four units, a kmalloc whose alignment   *)
(* exceeds its header's, and both ways to ask for a whole page.            *)
EXTENDS SlobAllocator, TLC

MCCaches == {[size |-> 1, align |-> 2], [size |-> 8, align |-> 2]}
MCSymmetry == Permutations(Pages) \cup Permutations(Cpus)
=============================================================================
