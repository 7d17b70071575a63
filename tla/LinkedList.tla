----------------------------- MODULE LinkedList -----------------------------
(***************************************************************************)
(* list.h, the kernel's circular doubly linked lists: the functions that   *)
(* set links, on the memory l of all list_heads, a function from nodes to  *)
(* records of next and prev.  Each assignment of the code is one EXCEPT,   *)
(* in the code's order: where nodes coincide, as in an empty list, the     *)
(* order and what has been read before matter.                             *)
(***************************************************************************)
EXTENDS Integers, Sequences, FiniteSets

CONSTANT NoNode   \* the NULL pointer

InitListHead(l, n) == [l EXCEPT ![n] = [next |-> n, prev |-> n]]

\* __list_add
Between(l, new, before, after) ==
  [l EXCEPT ![after].prev = new,
            ![new] = [next |-> after, prev |-> before],
            ![before].next = new]

ListAdd(l, new, head) == Between(l, new, head, l[head].next)

\* Mutant: a stack instead of a queue.
ListAddFront(l, new, head) == Between(l, new, head, l[head].next)

ListAddTail(l, new, head) == Between(l, new, l[head].prev, head)

\* __list_del
Bridge(l, before, after) == [l EXCEPT ![after].prev = before, ![before].next = after]

ListDel(l, entry) ==
  [Bridge(l, l[entry].prev, l[entry].next) EXCEPT ![entry] = [next |-> NoNode, prev |-> NoNode]]

ListDelInit(l, entry) == InitListHead(Bridge(l, l[entry].prev, l[entry].next), entry)

ListMove(l, entry, head) == ListAdd(Bridge(l, l[entry].prev, l[entry].next), entry, head)

ListMoveTail(l, entry, head) == ListAddTail(Bridge(l, l[entry].prev, l[entry].next), entry, head)

ListEmpty(l, head) == l[head].next = head

\* __list_splice: first, last and at are read before anything is written.
Joined(l, list, head) ==
  LET first == l[list].next
      last  == l[list].prev
      at    == l[head].next
  IN [l EXCEPT ![first].prev = head, ![head].next = first,
               ![last].next = at, ![at].prev = last]

ListSplice(l, list, head) == IF ListEmpty(l, list) THEN l ELSE Joined(l, list, head)

ListSpliceInit(l, list, head) ==
  IF ListEmpty(l, list) THEN l ELSE InitListHead(Joined(l, list, head), list)
-----------------------------------------------------------------------------
\* list_for_each: the entries, by following next from the head until it comes
\* round.
Entries(l, head) ==
  LET Hop[k \in Nat] == l[IF k = 0 THEN head ELSE Hop[k - 1]].next
      size == CHOOSE n \in 0 .. Cardinality(DOMAIN l) :
                Hop[n] = head /\ \A k \in 0 .. n - 1 : Hop[k] # head
  IN [k \in 1 .. size |-> Hop[k - 1]]

\* list_for_each_prev, by following prev.
EntriesPrev(l, head) ==
  LET Hop[k \in Nat] == l[IF k = 0 THEN head ELSE Hop[k - 1]].prev
      size == CHOOSE n \in 0 .. Cardinality(DOMAIN l) :
                Hop[n] = head /\ \A k \in 0 .. n - 1 : Hop[k] # head
  IN [k \in 1 .. size |-> Hop[k - 1]]
=============================================================================
