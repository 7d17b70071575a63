------------------------------ MODULE MCLists -------------------------------
(***************************************************************************)
(* Every function of list.h against the sequence operation it stands for,  *)
(* on every pair of lists with up to three entries between them.           *)
(***************************************************************************)
EXTENDS Integers

LOCAL INSTANCE SequencesExt

List == INSTANCE LinkedList WITH NoNode <- 0

LOCAL Heads == {1, 2}
LOCAL Nodes == Heads \cup 3 .. 6

\* The memory in which head h of lists has the entries lists[h], and every
\* other node is as list_del leaves it.
LOCAL Layout(lists) ==
  LET Ring(h) == <<h>> \o lists[h]
      At(n) == CHOOSE h \in Heads : n \in ToSet(Ring(h))
      Neighbour(n, d) ==
        LET r == Ring(At(n))
            i == CHOOSE j \in DOMAIN r : r[j] = n
        IN r[1 + ((i - 1 + d + Len(r)) % Len(r))]
      Linked == Heads \cup UNION {ToSet(lists[h]) : h \in Heads}
  IN [n \in Nodes |-> IF n \in Linked
                      THEN [next |-> Neighbour(n, 1), prev |-> Neighbour(n, -1)]
                      ELSE [next |-> 0, prev |-> 0]]

LOCAL Lists ==
  {lists \in [Heads -> UNION {[1 .. n -> 3 .. 5] : n \in 0 .. 3}] :
     IsInjective(lists[1] \o lists[2])}

\* The lists with the entries of head h replaced.
LOCAL With(lists, h, entries) == Layout([lists EXCEPT ![h] = entries])

LOCAL Without(lists, e) == [h \in Heads |-> SelectSeq(lists[h], LAMBDA x : x # e)]

ListsRight ==
  \A lists \in Lists :
    LET l == Layout(lists)
    IN /\ \A h \in Heads :
            /\ List!Entries(l, h) = lists[h]
            /\ List!EntriesPrev(l, h) = Reverse(lists[h])
            /\ List!ListEmpty(l, h) <=> lists[h] = <<>>
            /\ List!ListAdd(l, 6, h) = With(lists, h, <<6>> \o lists[h])
            /\ List!ListAddTail(l, 6, h) = With(lists, h, Append(lists[h], 6))
       /\ \A from \in Heads : \A e \in ToSet(lists[from]) :
            LET rest == Without(lists, e)
            IN /\ List!ListDel(l, e) = Layout(rest)
               /\ List!ListDelInit(l, e) = List!InitListHead(Layout(rest), e)
               /\ \A to \in Heads :
                    /\ List!ListMove(l, e, to) = With(rest, to, <<e>> \o rest[to])
                    /\ List!ListMoveTail(l, e, to) = With(rest, to, Append(rest[to], e))
       /\ List!ListSpliceInit(l, 1, 2) = Layout([h \in Heads |-> IF h = 1 THEN <<>> ELSE lists[1] \o lists[2]])
       \* Without the init the emptied head keeps its links into the other list.
       /\ List!ListSplice(l, 1, 2) = [List!ListSpliceInit(l, 1, 2) EXCEPT ![1] = l[1]]

ASSUME ListFunctionsRight == ListsRight
=============================================================================
