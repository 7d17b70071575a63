----------------------------- MODULE TaskOrder ------------------------------
(***************************************************************************)
(* What the run queue promises, without pointers: a sequence of distinct   *)
(* tasks that begins with the seed.  A task enters at the second place and *)
(* leaves from wherever it stands without disturbing the order of the      *)
(* others; the seed leaves last.                                           *)
(***************************************************************************)
EXTENDS SequencesExt

CONSTANTS Task, SeedTask

VARIABLE order

Members == {order[i] : i \in DOMAIN order}

Start == order = <<SeedTask>>

Enter(p) ==
  /\ order # <<>>
  /\ p \notin Members
  /\ order' = <<SeedTask, p>> \o Tail(order)

Leave(p) ==
  /\ p = SeedTask => Len(order) = 1
  /\ \E i \in DOMAIN order : order[i] = p /\ order' = RemoveAt(order, i)

Change == \E p \in Task : Enter(p) \/ Leave(p)

Ordered == Start /\ [][Change]_order
=============================================================================
