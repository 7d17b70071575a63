--------------------------- MODULE RunQueueOrder ----------------------------
(***************************************************************************)
(* The linked run queue implements the abstract task order: the sequence   *)
(* read off by following next from the head changes only as TaskOrder      *)
(* allows.                                                                 *)
(***************************************************************************)
EXTENDS RunQueue, Sequences

(* The task reached after i hops along next, starting at rq->head: what    *)
(* print_rq() and the searches of schedule_sjf.c walk over.                *)
Hop[i \in Nat] == IF i = 0 THEN SeedTask ELSE next[Hop[i - 1]]

Walk == [i \in 1 .. nr_running |-> Hop[i - 1]]

Order == INSTANCE TaskOrder WITH order <- Walk

(* Every pointer manipulation is an insertion at the second place or an    *)
(* order-preserving removal of the abstract sequence.                      *)
ImplementsTaskOrder == Order!Ordered
=============================================================================
