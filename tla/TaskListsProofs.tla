-------------------------- MODULE TaskListsProofs --------------------------
(***************************************************************************)
(* The virtual machine's memory and lists (TaskLists): no task_struct,     *)
(* thread_info or name is freed twice or used after it was freed, all are  *)
(* freed when the machine has shut down, and the circular lists of list.h  *)
(* are, at every step of every handler, the families and sleepers they     *)
(* stand for. One invariant carries all of it, MemoryInv below.            *)
(***************************************************************************)
EXTENDS TaskLists, RunQueueProofs

-----------------------------------------------------------------------------
(* list.h: what its functions do to one list, and that they leave the      *)
(* others alone.                                                           *)

ListHead == [next : Node \cup {Null}, prev : Node \cup {Null}]

\* The i-th node on the way round from head h through the entries s.
At(h, s, i) == IF i \in 1 .. Len(s) THEN s[i] ELSE h

On(s) == {s[i] : i \in 1 .. Len(s)}

\* h is the head of a list whose entries are s.
Ring(l, h, s) ==
  /\ s \in Seq(Node \ {h})
  /\ \A i, j \in 1 .. Len(s) : s[i] = s[j] => i = j
  /\ \A i \in 0 .. Len(s) : /\ l[At(h, s, i)].next = At(h, s, i + 1)
                            /\ l[At(h, s, i + 1)].prev = At(h, s, i)

(* A list is only its own nodes' links.                                    *)
LEMMA RingFrame ==
  ASSUME NEW l, NEW m, NEW h, NEW s, Ring(l, h, s),
         \A x \in On(s) \cup {h} : m[x] = l[x]
  PROVE  Ring(m, h, s)
<1>1. \A i \in 0 .. Len(s) + 1 : At(h, s, i) \in On(s) \cup {h}
  BY DEF At, On
<1>2. Len(s) \in Nat
  BY DEF Ring
<1>3. \A i \in 0 .. Len(s) : i \in 0 .. Len(s) + 1 /\ i + 1 \in 0 .. Len(s) + 1
  BY <1>2
<1>4. \A i \in 0 .. Len(s) : /\ m[At(h, s, i)] = l[At(h, s, i)]
                             /\ m[At(h, s, i + 1)] = l[At(h, s, i + 1)]
  BY <1>1, <1>3
<1> QED BY <1>4 DEF Ring

LEMMA RingEmpty ==
  ASSUME NEW l, NEW h \in Node, l[h] = [next |-> h, prev |-> h]
  PROVE  Ring(l, h, <<>>)
BY DEF Ring, At

LEMMA InitIs ==
  ASSUME NEW l \in [Node -> ListHead], NEW n \in Node
  PROVE  /\ InitListHead(l, n) \in [Node -> ListHead]
         /\ InitListHead(l, n)[n] = [next |-> n, prev |-> n]
         /\ \A x \in Node \ {n} : InitListHead(l, n)[x] = l[x]
BY DEF InitListHead, ListHead

(* list_add_tail                                                           *)
LEMMA RingAddTail ==
  ASSUME NEW l \in [Node -> ListHead], NEW h \in Node, NEW s, Ring(l, h, s),
         NEW n \in Node, n # h, n \notin On(s)
  PROVE  /\ ListAddTail(l, n, h) \in [Node -> ListHead]
         /\ Ring(ListAddTail(l, n, h), h, Append(s, n))
         /\ \A x \in Node \ (On(s) \cup {h, n}) : ListAddTail(l, n, h)[x] = l[x]
<1> DEFINE m == ListAddTail(l, n, h)
           k == Len(s)
           last == At(h, s, k)
           t == Append(s, n)
<1>1. /\ s \in Seq(Node) /\ k \in Nat
      /\ \A i \in 1 .. k : s[i] \in Node /\ s[i] # h /\ s[i] # n
      /\ \A i, j \in 1 .. k : s[i] = s[j] => i = j
  BY DEF Ring, On
<1>2. l[h].prev = last /\ last \in Node /\ last \in On(s) \cup {h} /\ last # n
  <2>1. k \in 0 .. k /\ At(h, s, k + 1) = h
    BY <1>1 DEF At
  <2> QED BY <2>1, <1>1 DEF Ring, At, On
<1>3. m = [l EXCEPT ![h].prev = n, ![n] = [next |-> h, prev |-> last], ![last].next = n]
  BY <1>2 DEF ListAddTail, Between
<1>4. /\ m \in [Node -> ListHead]
      /\ \A x \in Node \ {h, n, last} : m[x] = l[x]
      /\ m[n] = [next |-> h, prev |-> last]
      /\ m[h].prev = n /\ m[last].next = n
      /\ h # last => m[h].next = l[h].next /\ m[last].prev = l[last].prev
  BY <1>2, <1>3 DEF ListHead
<1> HIDE DEF m, last
<1>5. /\ t \in Seq(Node \ {h}) /\ Len(t) = k + 1 /\ t[k + 1] = n
      /\ \A i \in 1 .. k : t[i] = s[i]
  BY <1>1 DEF Ring
<1>6. \A i, j \in 1 .. k + 1 : t[i] = t[j] => i = j
  <2> HIDE DEF t
  <2> QED BY <1>1, <1>5
<1>7. /\ \A i \in 0 .. k : At(h, t, i) = At(h, s, i)
      /\ At(h, t, k + 1) = n /\ At(h, t, k + 2) = h
  <2> HIDE DEF t
  <2> QED BY <1>1, <1>5 DEF At
<1>8. ASSUME NEW i \in 0 .. k + 1
      PROVE  /\ m[At(h, t, i)].next = At(h, t, i + 1)
             /\ m[At(h, t, i + 1)].prev = At(h, t, i)
  <2> HIDE DEF t
  <2>1. CASE i = k + 1
    <3>1. (k + 1) + 1 = k + 2
      BY <1>1
    <3> QED BY <2>1, <3>1, <1>4, <1>7
  <2>2. CASE i = k
    <3>1. At(h, t, i) = last
      BY <2>2, <1>1, <1>7 DEF last
    <3> QED BY <3>1, <2>2, <1>4, <1>7
  <2>3. CASE i < k
    <3>1. /\ i \in 0 .. k /\ i + 1 \in 0 .. k /\ i + 1 \in 1 .. k /\ k \in 1 .. k
          /\ At(h, t, i) = At(h, s, i) /\ At(h, t, i + 1) = At(h, s, i + 1)
      BY <2>3, <1>1, <1>7
    <3>2. l[At(h, s, i)].next = At(h, s, i + 1) /\ l[At(h, s, i + 1)].prev = At(h, s, i)
      BY <3>1 DEF Ring
    <3>3. last = s[k] /\ last # h /\ At(h, s, i + 1) = s[i + 1]
      BY <3>1, <1>1 DEF last, At
    <3>4. At(h, s, i) \in Node /\ At(h, s, i) # n /\ At(h, s, i) # last
      BY <3>1, <3>3, <2>3, <1>1 DEF At
    <3>5. m[At(h, s, i)].next = l[At(h, s, i)].next
      BY <3>3, <3>4, <1>4
    <3>6. m[s[i + 1]].prev = l[s[i + 1]].prev
      BY <3>1, <3>3, <1>1, <1>4
    <3> QED BY <3>1, <3>2, <3>3, <3>5, <3>6
  <2> QED BY <2>1, <2>2, <2>3, <1>1
<1>9. Ring(m, h, t)
  <2> HIDE DEF t
  <2> QED BY <1>5, <1>6, <1>8 DEF Ring
<1> QED BY <1>2, <1>4, <1>9 DEF m

(* list_del                                                                *)
LEMMA RingDel ==
  ASSUME NEW l \in [Node -> ListHead], NEW h \in Node, NEW s, Ring(l, h, s),
         NEW i \in 1 .. Len(s)
  PROVE  /\ ListDel(l, s[i]) \in [Node -> ListHead]
         /\ Ring(ListDel(l, s[i]), h, Order!RemoveAt(s, i))
         /\ \A x \in Node \ (On(s) \cup {h}) : ListDel(l, s[i])[x] = l[x]
<1> DEFINE e == s[i]
           m == ListDel(l, e)
           k == Len(s)
           a == At(h, s, i - 1)
           b == At(h, s, i + 1)
           t == [j \in 1 .. k - 1 |-> IF j < i THEN s[j] ELSE s[j + 1]]
<1>1. /\ s \in Seq(Node) /\ k \in Nat /\ i \in 1 .. k
      /\ \A j \in 1 .. k : s[j] \in Node /\ s[j] # h
      /\ \A j, j2 \in 1 .. k : s[j] = s[j2] => j = j2
      /\ \A j \in 0 .. k : /\ l[At(h, s, j)].next = At(h, s, j + 1)
                           /\ l[At(h, s, j + 1)].prev = At(h, s, j)
  BY DEF Ring
<1>2. /\ e \in Node /\ e # h /\ a \in Node /\ b \in Node /\ a # e /\ b # e
      /\ a \in On(s) \cup {h} /\ b \in On(s) \cup {h} /\ e \in On(s)
  BY <1>1 DEF At, On
<1>3. l[e].prev = a /\ l[e].next = b
  <2>1. i \in 0 .. k /\ i - 1 \in 0 .. k /\ (i - 1) + 1 = i /\ At(h, s, i) = e
    BY <1>1 DEF At
  <2> QED BY <2>1, <1>1
<1>4. m = [[l EXCEPT ![b].prev = a, ![a].next = b] EXCEPT ![e] = [next |-> Null, prev |-> Null]]
  BY <1>3 DEF ListDel, Bridge
<1>5. /\ m \in [Node -> ListHead]
      /\ \A x \in Node \ {a, b, e} : m[x] = l[x]
      /\ m[b].prev = a /\ m[a].next = b
      /\ a # b => m[a].prev = l[a].prev /\ m[b].next = l[b].next
  BY <1>2, <1>4 DEF ListHead
<1> HIDE DEF m
<1>6. \A x \in Node \ {a, e} : m[x].next = l[x].next
  BY <1>5
<1>7. \A x \in Node \ {b, e} : m[x].prev = l[x].prev
  BY <1>5
<1>8. t \in Seq(Node \ {h}) /\ Len(t) = k - 1
  BY <1>1
<1>9. \A j, j2 \in 1 .. k - 1 : t[j] = t[j2] => j = j2
  BY <1>1
\* The way round without e.
<1>10. ASSUME NEW j \in 0 .. k
       PROVE  At(h, t, j) = IF j < i THEN At(h, s, j) ELSE At(h, s, j + 1)
  <2> HIDE DEF a, b
  <2>1. DOMAIN t = 1 .. k - 1 /\ Len(t) = k - 1
    BY <1>8
  <2> QED BY <2>1, <1>1 DEF At
<1> HIDE DEF t
<1>11. ASSUME NEW j \in 0 .. k - 1
       PROVE  /\ m[At(h, t, j)].next = At(h, t, j + 1)
              /\ m[At(h, t, j + 1)].prev = At(h, t, j)
  <2>1. j \in 0 .. k /\ j + 1 \in 0 .. k
    BY <1>1
  <2>2. CASE j + 1 < i
    <3>1. At(h, t, j) = At(h, s, j) /\ At(h, t, j + 1) = At(h, s, j + 1)
      BY <2>1, <2>2, <1>10, <1>1
    <3>2. j + 1 \in 1 .. k /\ At(h, s, j + 1) = s[j + 1] /\ s[j + 1] # e /\ s[j + 1] # h
      BY <2>1, <2>2, <1>1 DEF At
    <3>3. s[j + 1] # b
      BY <3>2, <2>2, <1>1 DEF At
    <3>4. At(h, s, j) # a /\ At(h, s, j) # e /\ At(h, s, j) \in Node
      BY <2>1, <2>2, <1>1 DEF At
    <3> QED BY <3>1, <3>2, <3>3, <3>4, <2>1, <1>1, <1>6, <1>7
  <2>3. CASE j + 1 = i
    <3>1. At(h, t, j) = a /\ At(h, t, j + 1) = b
      <4>1. j = i - 1 /\ j < i /\ ~ (j + 1 < i) /\ (j + 1) + 1 = i + 1
        BY <2>3, <1>1
      <4> QED BY <4>1, <2>1, <1>10
    <3> QED BY <3>1, <1>5
  <2>4. CASE j + 1 > i
    <3>1. At(h, t, j) = At(h, s, j + 1) /\ At(h, t, j + 1) = At(h, s, (j + 1) + 1)
      BY <2>1, <2>4, <1>10, <1>1
    <3>2. j + 1 \in 1 .. k /\ At(h, s, j + 1) = s[j + 1] /\ s[j + 1] # e /\ s[j + 1] # h
      BY <2>1, <2>4, <1>1 DEF At
    <3>3. s[j + 1] # a
      BY <3>2, <2>4, <1>1 DEF At
    <3>4. /\ At(h, s, (j + 1) + 1) # b /\ At(h, s, (j + 1) + 1) # e
          /\ At(h, s, (j + 1) + 1) \in Node
      BY <2>1, <2>4, <1>1 DEF At
    <3> QED BY <3>1, <3>2, <3>3, <3>4, <2>1, <1>1, <1>6, <1>7
  <2> QED BY <2>1, <2>2, <2>3, <2>4, <1>1
<1>12. Ring(m, h, t)
  BY <1>8, <1>9, <1>11 DEF Ring
<1>13. t = Order!RemoveAt(s, i)
  BY <1>1, RemoveAtIs DEF t
<1> QED BY <1>2, <1>5, <1>12, <1>13 DEF m

LEMMA NodesFinite == IsFiniteSet(Node)
<1>1. IsFiniteSet({"list", "clist", "wait"})
  <2>1. {"list", "clist", "wait"} = ({"list"} \cup {"clist"}) \cup {"wait"}
    OBVIOUS
  <2>2. IsFiniteSet({"list"} \cup {"clist"})
    BY FS_Singleton, FS_AddElement, Zenon
  <2>3. IsFiniteSet(({"list"} \cup {"clist"}) \cup {"wait"})
    BY <2>2, FS_AddElement, Zenon
  <2> QED BY <2>1, <2>3
<1>2. IsFiniteSet({"list", "clist", "wait"} \X Task)
  BY <1>1, FS_Product, QueueAssumption
<1> QED BY <1>2, FS_Union, FS_Singleton DEF Node

(* Following next from the head finds the entries.                         *)
LEMMA RingEntries ==
  ASSUME NEW l \in [Node -> ListHead], NEW h \in Node, NEW s, Ring(l, h, s)
  PROVE  Entries(l, h) = s
<1> DEFINE Passed[k \in Nat] == l[IF k = 0 THEN h ELSE Passed[k - 1]].next
           links == [x \in Node |-> l[x].next]
           n == Len(s)
           walk0 == HopFrom(h, links)
           steps == [k \in Nat |-> walk0[k + 1]]
<1>1. /\ s \in Seq(Node) /\ n \in Nat
      /\ \A i \in 1 .. n : s[i] \in Node /\ s[i] # h
      /\ \A i, j \in 1 .. n : s[i] = s[j] => i = j
      /\ \A i \in 0 .. n : l[At(h, s, i)].next = At(h, s, i + 1)
  BY DEF Ring
<1>2. /\ walk0[0] = h
      /\ \A k \in Nat : walk0[k + 1] = links[walk0[k]]
  <2>1. walk0 = [k \in Nat |-> IF k = 0 THEN h ELSE links[walk0[k - 1]]]
    BY HopFromDef
  <2> HIDE DEF walk0, links
  <2>2. walk0[0] = h
    BY <2>1
  <2>3. ASSUME NEW k \in Nat PROVE walk0[k + 1] = links[walk0[k]]
    <3>1. k + 1 \in Nat /\ k + 1 # 0 /\ (k + 1) - 1 = k
      OBVIOUS
    <3> QED BY <2>1, <3>1
  <2> QED BY <2>2, <2>3
<1> HIDE DEF walk0
\* All hops stay on the list.
<1>3. \A k \in Nat : walk0[k] \in On(s) \cup {h}
  <2> DEFINE B == {k \in Nat : walk0[k] \notin On(s) \cup {h}}
  <2> SUFFICES ASSUME B # {} PROVE FALSE
    OBVIOUS
  <2>1. PICK b \in B : \A y \in B : ~ (y < b)
    <3>1. B \in SUBSET Nat
      OBVIOUS
    <3> HIDE DEF B
    <3> QED BY <3>1, NatMinimum
  <2>2. b # 0
    BY <1>2
  <2>3. b - 1 \in Nat /\ b - 1 \notin B /\ (b - 1) + 1 = b
    BY <2>1, <2>2
  <2>4. walk0[b - 1] \in On(s) \cup {h} /\ walk0[b] = links[walk0[b - 1]]
    <3>1. walk0[(b - 1) + 1] = links[walk0[b - 1]]
      BY <2>3, <1>2
    <3> HIDE DEF links
    <3> QED BY <2>3, <3>1
  <2>5. PICK i \in 0 .. n : walk0[b - 1] = At(h, s, i)
    <3>1. h = At(h, s, 0) /\ \A i \in 1 .. n : s[i] = At(h, s, i)
      BY <1>1 DEF At
    <3> QED BY <2>4, <3>1, <1>1 DEF On
  <2>6. At(h, s, i) \in Node /\ At(h, s, i + 1) \in On(s) \cup {h}
    BY <1>1 DEF At, On
  <2>7. links[walk0[b - 1]] = At(h, s, i + 1)
    BY <2>5, <2>6, <1>1
  <2> QED BY <2>1, <2>4, <2>6, <2>7
<1>4. On(s) \cup {h} \subseteq Node
  BY <1>1 DEF On
<1>5. steps = [k \in Nat |-> l[IF k = 0 THEN h ELSE steps[k - 1]].next]
  <2>1. ASSUME NEW k \in Nat
        PROVE  steps[k] = l[IF k = 0 THEN h ELSE steps[k - 1]].next
    <3>1. steps[k] = walk0[k + 1] /\ walk0[k + 1] = links[walk0[k]] /\ walk0[k] \in Node
      BY <1>2, <1>3, <1>4
    <3>2. steps[k] = l[walk0[k]].next
      BY <3>1
    <3>3. CASE k = 0
      BY <3>2, <3>3, <1>2
    <3>4. CASE k # 0
      <4>1. k - 1 \in Nat /\ (k - 1) + 1 = k
        BY <3>4
      <4>2. steps[k - 1] = walk0[k]
        BY <4>1
      <4> QED BY <3>2, <3>4, <4>2
    <3> QED BY <3>3, <3>4
  <2> HIDE DEF links
  <2> QED BY <2>1
<1> HIDE DEF links
<1>6. Passed = [k \in Nat |-> l[IF k = 0 THEN h ELSE Passed[k - 1]].next]
  <2> HIDE DEF steps
  <2> QED BY <1>5
<1> HIDE DEF steps, Passed
<1>7. \A k \in 0 .. n : Passed[k] = At(h, s, k + 1)
  <2> DEFINE B == {k \in 0 .. n : Passed[k] # At(h, s, k + 1)}
  <2> SUFFICES ASSUME B # {} PROVE FALSE
    OBVIOUS
  <2>1. PICK b \in B : \A y \in B : ~ (y < b)
    <3>1. B \in SUBSET Nat
      BY <1>1
    <3> HIDE DEF B
    <3> QED BY <3>1, NatMinimum
  <2>2. b \in 0 .. n /\ b \in Nat
    BY <1>1
  <2>3. CASE b = 0
    <3>1. Passed[0] = l[h].next
      BY <1>6
    <3>2. At(h, s, 0) = h /\ 0 \in 0 .. n
      BY <1>1 DEF At
    <3> QED BY <3>1, <3>2, <2>1, <2>3, <1>1
  <2>4. CASE b # 0
    <3>1. b - 1 \in Nat /\ b - 1 \in 0 .. n /\ b - 1 \notin B /\ (b - 1) + 1 = b
      BY <2>1, <2>2, <2>4
    <3>2. Passed[b - 1] = At(h, s, b)
      BY <3>1
    <3>3. Passed[b] = l[Passed[b - 1]].next
      BY <1>6, <2>2, <2>4
    <3> QED BY <3>2, <3>3, <2>1, <2>2, <1>1
  <2> QED BY <2>3, <2>4
<1> DEFINE Round(m) == Passed[m] = h /\ \A k \in 0 .. m - 1 : Passed[k] # h
           size == CHOOSE m \in 0 .. Cardinality(DOMAIN l) : Round(m)
<1>8. n \in 0 .. Cardinality(DOMAIN l)
  <2>1. IsFiniteSet(Node) /\ DOMAIN l = Node
    BY NodesFinite
  <2>2. On(s) \subseteq Node
    BY <1>4
  <2>3. s \in Bijection(1 .. n, On(s))
    BY <1>1 DEF Bijection, Injection, Surjection, IsInjective, On
  <2>4. IsFiniteSet(1 .. n) /\ Cardinality(1 .. n) = n
    <3>1. IsFiniteSet(1 .. n) /\ Cardinality(1 .. n) = IF 1 > n THEN 0 ELSE n - 1 + 1
      <4> HIDE DEF n
      <4> QED BY <1>1, FS_Interval
    <3> QED BY <3>1, <1>1
  <2>5. ExistsBijection(1 .. n, On(s))
    BY <2>3 DEF ExistsBijection
  <2>6. Cardinality(On(s)) = n
    BY <2>4, <2>5, FS_Bijection
  <2>7. Cardinality(On(s)) <= Cardinality(Node) /\ Cardinality(Node) \in Nat
    BY <2>1, <2>2, FS_Subset, FS_CardinalityType
  <2> QED BY <2>1, <2>6, <2>7, <1>1
<1>9. Round(n)
  <2>1. Passed[n] = h
    BY <1>1, <1>7 DEF At
  <2>2. \A k \in 0 .. n - 1 : Passed[k] # h
    <3> TAKE k \in 0 .. n - 1
    <3>1. k \in 0 .. n /\ k + 1 \in 1 .. n
      BY <1>1
    <3>2. At(h, s, k + 1) # h
      BY <3>1, <1>1 DEF At
    <3> QED BY <3>1, <3>2, <1>7
  <2> QED BY <2>1, <2>2
<1>10. \A m \in 0 .. Cardinality(DOMAIN l) : Round(m) => m = n
  <2> TAKE m \in 0 .. Cardinality(DOMAIN l)
  <2> HAVE Round(m)
  <2>1. m \in Nat /\ ~ (n < m) /\ ~ (m < n)
    BY <1>9, <1>1
  <2> QED BY <2>1, <1>1
<1>11. size = n
  <2> HIDE DEF Round
  <2> QED BY <1>8, <1>9, <1>10
<1>12. Entries(l, h) = [k \in 1 .. size |-> Passed[k - 1]]
  BY DEF Entries, Passed
<1>13. \A k \in 1 .. n : Passed[k - 1] = s[k]
  BY <1>1, <1>7 DEF At
<1> HIDE DEF size
<1>14. s = [k \in 1 .. n |-> s[k]]
  BY <1>1
<1> QED BY <1>11, <1>12, <1>13, <1>14

\* The list at head h is intact, and its entries are the nodes X.
Holds(l, h, X) == Ring(l, h, Entries(l, h)) /\ On(Entries(l, h)) = X

LEMMA HoldsRing ==
  ASSUME NEW l \in [Node -> ListHead], NEW h \in Node, NEW s, Ring(l, h, s)
  PROVE  Holds(l, h, On(s)) /\ Entries(l, h) = s
BY RingEntries DEF Holds

LEMMA HoldsNodes ==
  ASSUME NEW l \in [Node -> ListHead], NEW h \in Node, NEW X, Holds(l, h, X)
  PROVE  X \subseteq Node /\ h \notin X
BY DEF Holds, Ring, On

(* A list is only its own nodes' links.                                    *)
LEMMA HoldsFrame ==
  ASSUME NEW l \in [Node -> ListHead], NEW m \in [Node -> ListHead], NEW h \in Node,
         NEW X, Holds(l, h, X), \A x \in X \cup {h} : m[x] = l[x]
  PROVE  Holds(m, h, X) /\ Entries(m, h) = Entries(l, h)
<1>1. Ring(m, h, Entries(l, h))
  BY RingFrame DEF Holds
<1> QED BY <1>1, HoldsRing DEF Holds

LEMMA HoldsNone ==
  ASSUME NEW l \in [Node -> ListHead], NEW h \in Node, l[h] = [next |-> h, prev |-> h]
  PROVE  Holds(l, h, {}) /\ Entries(l, h) = <<>>
<1>1. Ring(l, h, <<>>) /\ On(<<>>) = {}
  BY RingEmpty DEF On
<1> QED BY <1>1, HoldsRing

LEMMA HoldsStep ==
  ASSUME NEW l \in [Node -> ListHead], NEW h \in Node, NEW X, Holds(l, h, X),
         NEW n \in X \cup {h}
  PROVE  /\ l[n].next \in X \cup {h} /\ l[n].prev \in X \cup {h}
         /\ n \in X => l[n].next # n
         /\ l[h].next = h => X = {}
<1> DEFINE s == Entries(l, h)
<1>1. Ring(l, h, s) /\ On(s) = X
  BY DEF Holds
<1> HIDE DEF s
<1>2. /\ Len(s) \in Nat /\ s \in Seq(Node \ {h})
      /\ \A i \in 0 .. Len(s) : /\ l[At(h, s, i)].next = At(h, s, i + 1)
                                /\ l[At(h, s, i + 1)].prev = At(h, s, i)
      /\ \A i \in 0 .. Len(s) + 1 : At(h, s, i) \in X \cup {h}
      /\ \A i, j \in 1 .. Len(s) : s[i] = s[j] => i = j
      /\ \A i \in 1 .. Len(s) : s[i] # h
  BY <1>1 DEF Ring, At, On
<1>3. PICK i \in 0 .. Len(s) : n = At(h, s, i) /\ (n \in X => i # 0)
  <2>1. CASE n = h
    <3>1. h = At(h, s, 0) /\ 0 \in 0 .. Len(s) /\ h \notin X
      BY <1>1, <1>2 DEF At, On
    <3> QED BY <2>1, <3>1
  <2>2. CASE n \in X
    <3>1. PICK i \in 1 .. Len(s) : n = s[i]
      BY <2>2, <1>1 DEF On
    <3> QED BY <3>1, <1>2 DEF At
  <2> QED BY <2>1, <2>2
<1>4. l[n].next = At(h, s, i + 1) /\ i + 1 \in 0 .. Len(s) + 1
  BY <1>2, <1>3
<1>5. l[n].prev \in X \cup {h}
  <2>1. CASE i = 0
    <3>1. Len(s) \in 0 .. Len(s) /\ Len(s) \in 0 .. Len(s) + 1 /\ n = h /\ At(h, s, Len(s) + 1) = h
      BY <2>1, <1>2, <1>3 DEF At
    <3>2. l[At(h, s, Len(s) + 1)].prev = At(h, s, Len(s))
      BY <3>1, <1>2
    <3> QED BY <3>1, <3>2, <1>2
  <2>2. CASE i # 0
    <3>1. i - 1 \in 0 .. Len(s) /\ i - 1 \in 0 .. Len(s) + 1 /\ (i - 1) + 1 = i
      BY <2>2, <1>2
    <3>2. l[At(h, s, (i - 1) + 1)].prev = At(h, s, i - 1)
      BY <3>1, <1>2
    <3> QED BY <3>1, <3>2, <1>2, <1>3
  <2> QED BY <2>1, <2>2
<1>6. n \in X => l[n].next # n
  BY <1>2, <1>3, <1>4 DEF At
<1>7. l[h].next = h => X = {}
  <2>1. l[h].next = At(h, s, 1)
    <3>1. 0 \in 0 .. Len(s) /\ At(h, s, 0) = h /\ 0 + 1 = 1
      BY <1>2 DEF At
    <3>2. l[At(h, s, 0)].next = At(h, s, 0 + 1)
      BY <3>1, <1>2
    <3> QED BY <3>1, <3>2
  <2>2. Len(s) # 0 => At(h, s, 1) # h
    BY <1>2 DEF At
  <2> QED BY <2>1, <2>2, <1>1, <1>2 DEF On
<1> QED BY <1>2, <1>4, <1>5, <1>6, <1>7

\* What list_add_tail of n does to the list of X at h.
TailAdded(l, m, n, h, X) ==
  /\ m \in [Node -> ListHead]
  /\ Holds(m, h, X \cup {n})
  /\ Entries(m, h) = Append(Entries(l, h), n)
  /\ \A x \in Node \ (X \cup {h, n}) : m[x] = l[x]

LEMMA HoldsAddTail ==
  ASSUME NEW l \in [Node -> ListHead], NEW h \in Node, NEW X, Holds(l, h, X),
         NEW n \in Node, n # h, n \notin X
  PROVE  TailAdded(l, ListAddTail(l, n, h), n, h, X)
<1> DEFINE s == Entries(l, h)
           m == ListAddTail(l, n, h)
<1>1. Ring(l, h, s) /\ On(s) = X
  BY DEF Holds
<1> HIDE DEF s, m
<1>2. /\ m \in [Node -> ListHead] /\ Ring(m, h, Append(s, n))
      /\ \A x \in Node \ (X \cup {h, n}) : m[x] = l[x]
  BY <1>1, RingAddTail DEF m
<1>3. On(Append(s, n)) = X \cup {n}
  <2>1. s \in Seq(Node \ {h})
    BY <1>1 DEF Ring
  <2> DEFINE t == Append(s, n)
  <2>2. /\ Len(t) = Len(s) + 1 /\ Len(s) \in Nat /\ t[Len(s) + 1] = n
        /\ \A i \in 1 .. Len(s) : t[i] = s[i]
    BY <2>1
  <2> HIDE DEF t
  <2>3. {t[i] : i \in 1 .. Len(t)} = {s[i] : i \in 1 .. Len(s)} \cup {n}
    <3>1. \A i \in 1 .. Len(t) : i \in 1 .. Len(s) \/ i = Len(s) + 1
      BY <2>2
    <3>2. Len(s) + 1 \in 1 .. Len(t) /\ \A i \in 1 .. Len(s) : i \in 1 .. Len(t)
      BY <2>2
    <3> QED BY <3>1, <3>2, <2>2
  <2> QED BY <2>3, <1>1 DEF On, t
<1>4. Holds(m, h, X \cup {n}) /\ Entries(m, h) = Append(s, n)
  BY <1>2, <1>3, HoldsRing
<1> QED BY <1>2, <1>4 DEF m, s, TailAdded

\* What list_del of e does to the list of X at h.
Unlinked(l, m, e, h, X) ==
  /\ m \in [Node -> ListHead]
  /\ Holds(m, h, X \ {e})
  /\ \E i \in 1 .. Len(Entries(l, h)) :
       /\ Entries(l, h)[i] = e
       /\ Entries(m, h) = Order!RemoveAt(Entries(l, h), i)
       /\ l[h].next = e => i = 1
  /\ l[h].next = e => m[h].next = l[e].next
  /\ \A x \in Node \ (X \cup {h}) : m[x] = l[x]

LEMMA HoldsDel ==
  ASSUME NEW l \in [Node -> ListHead], NEW h \in Node, NEW X, Holds(l, h, X), NEW e \in X
  PROVE  Unlinked(l, ListDel(l, e), e, h, X)
<1> DEFINE s == Entries(l, h)
           m == ListDel(l, e)
<1>1. Ring(l, h, s) /\ On(s) = X
  BY DEF Holds
<1>2. /\ Len(s) \in Nat /\ s \in Seq(Node) /\ s \in Seq(Node \ {h})
      /\ \A i, j \in 1 .. Len(s) : s[i] = s[j] => i = j
      /\ \A i \in 1 .. Len(s) : s[i] # h /\ s[i] \in Node
      /\ \A i \in 0 .. Len(s) : /\ l[At(h, s, i)].next = At(h, s, i + 1)
                                /\ l[At(h, s, i + 1)].prev = At(h, s, i)
  BY <1>1 DEF Ring
<1> HIDE DEF s, m
<1>3. PICK i \in 1 .. Len(s) : s[i] = e
  BY <1>1 DEF On
<1> DEFINE t == Order!RemoveAt(s, i)
<1>4. /\ m \in [Node -> ListHead] /\ Ring(m, h, t)
      /\ \A x \in Node \ (X \cup {h}) : m[x] = l[x]
  BY <1>1, <1>3, RingDel DEF m
<1>5. t = [j \in 1 .. Len(s) - 1 |-> IF j < i THEN s[j] ELSE s[j + 1]]
  BY <1>2, RemoveAtIs
<1> HIDE DEF t
<1>6. On(t) = X \ {e}
  <2>1. Len(t) = Len(s) - 1
    <3>1. t \in Seq(Node)
      BY <1>4 DEF Ring
    <3> QED BY <3>1, <1>2, <1>3, <1>5
  <2>2. ASSUME NEW j \in 1 .. Len(t) PROVE t[j] \in X \ {e}
    <3>1. t[j] = IF j < i THEN s[j] ELSE s[j + 1]
      BY <2>1, <1>5
    <3>2. j \in 1 .. Len(s) /\ j + 1 \in 1 .. Len(s)
      BY <2>1, <1>2
    <3> QED BY <3>1, <3>2, <1>1, <1>2, <1>3 DEF On
  <2>3. ASSUME NEW x \in X \ {e} PROVE \E j \in 1 .. Len(t) : t[j] = x
    <3>1. PICK k \in 1 .. Len(s) : s[k] = x
      BY <1>1 DEF On
    <3>2. CASE k < i
      BY <3>1, <3>2, <2>1, <1>2, <1>5
    <3>3. CASE k > i
      <4>1. k - 1 \in 1 .. Len(t) /\ (k - 1) + 1 = k /\ ~ (k - 1 < i)
        BY <3>3, <2>1, <1>2
      <4> QED BY <4>1, <3>1, <2>1, <1>5
    <3> QED BY <3>1, <3>2, <3>3, <1>2, <1>3
  <2> QED BY <2>2, <2>3 DEF On
<1>7. Holds(m, h, X \ {e}) /\ Entries(m, h) = t
  BY <1>4, <1>6, HoldsRing
<1>8. l[h].next = At(h, s, 1)
  <2>1. 0 \in 0 .. Len(s) /\ At(h, s, 0) = h /\ 0 + 1 = 1
    BY <1>2 DEF At
  <2>2. l[At(h, s, 0)].next = At(h, s, 0 + 1)
    BY <2>1, <1>2
  <2> QED BY <2>1, <2>2
<1>9. l[h].next = e => i = 1
  <2>1. 1 \in 1 .. Len(s) /\ At(h, s, 1) = s[1]
    BY <1>2, <1>3 DEF At
  <2> QED BY <2>1, <1>2, <1>3, <1>8
<1>10. l[h].next = e => m[h].next = l[e].next
  <2> HAVE l[h].next = e
  <2>1. i = 1 /\ l[e].next = At(h, s, 2) /\ 1 \in 0 .. Len(s) /\ 1 + 1 = 2
    <3>1. i = 1 /\ 1 \in 0 .. Len(s) /\ 1 + 1 = 2 /\ At(h, s, 1) = e
      BY <1>2, <1>3, <1>9 DEF At
    <3>2. l[At(h, s, 1)].next = At(h, s, 1 + 1)
      BY <3>1, <1>2
    <3> QED BY <3>1, <3>2
  <2>2. m[h].next = At(h, t, 1)
    <3>1. 0 \in 0 .. Len(t) /\ At(h, t, 0) = h /\ 0 + 1 = 1
      BY <1>4 DEF Ring, At
    <3>2. m[At(h, t, 0)].next = At(h, t, 0 + 1)
      BY <3>1, <1>4 DEF Ring
    <3> QED BY <3>1, <3>2
  <2>3. At(h, t, 1) = At(h, s, 2)
    <3>1. Len(t) = Len(s) - 1
      <4>1. t \in Seq(Node)
        BY <1>4 DEF Ring
      <4> QED BY <4>1, <1>2, <1>3, <1>5
    <3>2. 1 \in 1 .. Len(t) => t[1] = s[2]
      BY <3>1, <2>1, <1>2, <1>5
    <3> QED BY <3>1, <3>2, <1>2 DEF At
  <2> QED BY <2>1, <2>2, <2>3
<1> QED BY <1>3, <1>4, <1>7, <1>9, <1>10 DEF m, s, t, Unlinked

-----------------------------------------------------------------------------
(* The inductive invariant                                                 *)

\* Whose thread_info, name, task_struct, spare thread_info and wait node are
\* allocated: who is known, has a name, is alive, was ever born, is asleep.
Known == {t \in Task : <<"info", t>> \in live}
Titled == {t \in Task : <<"name", t>> \in live}
Alive == {t \in Task : <<"task", t>> \in live}
Born == {t \in Task : <<"spare", t>> \in live}
Asleep == {t \in Task : <<"wait", t>> \in live}

Refused == {"cleaning", "failing", "failed"}
Accepted == {"running", "spawning", "waking", "closing", "ended", "fault"}

\* init and the processes that have been read.
Kin == made \cup {SeedTask}

Types ==
  /\ mode \in Refused \cup Accepted \cup {"reading"}
  /\ link \in [Node -> ListHead]
  /\ live \subseteq Object
  /\ made \subseteq Process
  /\ named \subseteq Kin /\ SeedTask \in named
  /\ parent \in [Task -> Task \cup {Null}]
  /\ children \in [Task -> Nat]
  /\ top \in Kin /\ newtask \in made \cup {Null}
  /\ current \in Task \cup {Idle}

\* The family is a tree with init at its root: whatever set of processes is
\* taken, some parent is outside it.
Rooted ==
  /\ parent[SeedTask] = Null
  /\ \A t \in made : parent[t] \in Kin
  /\ \A S \in SUBSET made : S # {} => \E t \in S : parent[t] \notin S

\* Which objects a process has: a thread_info and perhaps a name from the time
\* it is read, a task from its birth to its end, and a wait node while it is
\* off the run queue.
Objects ==
  \A t \in Process :
    /\ t \in Known => t \in made
    /\ t \in Titled <=> t \in Known \cap named
    /\ t \in Born => t \in made /\ (t \in Known <=> t \in Alive)
    /\ t \in Alive => t \in Born
    /\ t \in Asleep <=> t \in Alive /\ ~ Queued(t)
    /\ Queued(t) => t \in Alive

RootObjects ==
  /\ SeedTask \in Born /\ SeedTask \notin Asleep
  /\ SeedTask \in Alive <=> SeedTask \in Known
  /\ SeedTask \in Alive <=> SeedTask \in Titled
  /\ SeedTask \in Alive <=> Queued(SeedTask) /\ mode \notin {"failing", "failed"}

IdleObjects ==
  /\ <<"spare", Idle>> \in live /\ <<"wait", Idle>> \notin live
  /\ IF mode \in {"ended", "failed"}
     THEN (Own(Idle) \cup {<<"task", Idle>>}) \cap live = {}
     ELSE Own(Idle) \cup {<<"task", Idle>>} \subseteq live

\* What holds in which part of the program.
Phases ==
  /\ mode \in Refused \cup {"reading"} => Born = {SeedTask} /\ current = Idle
  /\ mode = "reading" => made \subseteq Known
  /\ mode \in {"reading", "cleaning"} =>
       SeedTask \in Alive /\ \A t \in made \cap Known : parent[t] \in Known
  /\ mode \in Accepted => made \subseteq named \cap (Known \cup Born)
  /\ mode \in {"failing", "failed"} => Known = {}
  /\ mode \in {"closing", "ended"} => Alive = {}
  /\ current \in Task => current \in Alive
  /\ mode = "spawning" => current \in Task

\* A parent outlives its children, and counts them.
ChildrenOf(p) == {t \in made \cap Alive : parent[t] = p}
Counted ==
  /\ \A t \in Process \cap Alive : parent[t] \in Alive
  /\ \A p \in Task : children[p] = Cardinality(ChildrenOf(p))

\* Whose children are being cleaned up, innermost first.
Stacked(i) == walks[i].head[2]
Stack == IF mode = "cleaning" THEN {Stacked(i) : i \in 1 .. Len(walks)} ELSE {}

\* The children of p that are still in its list.
Waiting(p) == {t \in (made \cap Known) \ (Born \cup Stack) : parent[t] = p}

Clists(S) == {Clist(t) : t \in S}
WaitNodes(S) == {WaitNode(t) : t \in S}

Lists ==
  /\ Holds(link, IntWaitList, WaitNodes(Asleep))
  /\ \A p \in Kin : Holds(link, SpawnList(p), Clists(Waiting(p)))
  /\ \A p \in Task \ Kin : link[SpawnList(p)].next = Null

\* Where a walk stands.
OneWalk(head, at) == walks = <<[head |-> head, at |-> at]>>

SpawnWalk ==
  \E p \in Kin \cap Alive :
    \E n \in Clists(Waiting(p)) \cup {SpawnList(p)} : OneWalk(SpawnList(p), n)

CleanWalks ==
  /\ walks \in Seq([head : Node, at : Node]) /\ walks # <<>>
  /\ \A i \in 1 .. Len(walks) :
       /\ Stacked(i) \in Kin \cap Known
       /\ walks[i] = [head |-> SpawnList(Stacked(i)), at |-> link[SpawnList(Stacked(i))].next]
       /\ i < Len(walks) => parent[Stacked(i)] = Stacked(i + 1)
       /\ \A j \in 1 .. Len(walks) : Stacked(i) = Stacked(j) => i = j
  /\ Stacked(Len(walks)) = SeedTask

Walks ==
  /\ mode = "spawning" => SpawnWalk
  /\ mode = "waking" => OneWalk(IntWaitList, link[IntWaitList].next)
  /\ mode = "cleaning" => CleanWalks

Misuses ==
  misused \subseteq IF mode \in Refused THEN {<<"name", t>> : t \in made \ named}
                    ELSE IF mode \in {"closing", "ended"}
                    THEN {<<"task", SeedTask>>, <<"info", SeedTask>>}
                    ELSE IF mode = "fault" /\ (policy = "schedule_rr" \/ nr_running = 0)
                    THEN {ReadByPolicy}
                    ELSE {}

MemoryInv ==
  /\ Types /\ Rooted /\ Objects /\ RootObjects /\ IdleObjects /\ Phases
  /\ Counted /\ Lists /\ Walks /\ Misuses /\ QueueInv

\* schedule()'s pointer is at a task, the run queue stays allocated, and a
\* profile that is run has been closed.
RestInv ==
  /\ nxt \in Task \cup {Null}
  /\ Rq \in live
  /\ mode \in Accepted => Profile \notin live

-----------------------------------------------------------------------------
(* What follows from it                                                    *)

LEMMA Tasks == SeedTask \in Task /\ Null \notin Task /\ Idle \notin Task
BY QueueAssumption, IdleAssumption

LEMMA Nodes ==
  /\ IntWaitList \in Node
  /\ \A t \in Task : /\ SpawnList(t) \in Node /\ Clist(t) \in Node /\ WaitNode(t) \in Node
                     /\ SpawnList(t)[2] = t /\ Clist(t)[2] = t /\ WaitNode(t)[2] = t
                     /\ SpawnList(t) # IntWaitList /\ Clist(t) # IntWaitList
                     /\ WaitNode(t) # IntWaitList
  /\ \A t, u \in Task : /\ SpawnList(t) # Clist(u) /\ SpawnList(t) # WaitNode(u)
                        /\ Clist(t) # WaitNode(u)
                        /\ SpawnList(t) = SpawnList(u) => t = u
                        /\ Clist(t) = Clist(u) => t = u
                        /\ WaitNode(t) = WaitNode(u) => t = u
BY DEF Node, IntWaitList, SpawnList, Clist, WaitNode

LEMMA KinTasks == Types => Kin \subseteq Task /\ made \subseteq Task /\ SeedTask \notin made
BY Tasks DEF Types, Kin, Process

\* Whoever is alive has init for an ancestor, and so init is alive.
LEMMA RootAlive == MemoryInv /\ Alive # {} => SeedTask \in Alive
<1> SUFFICES ASSUME MemoryInv, Alive # {}, SeedTask \notin Alive PROVE FALSE
  OBVIOUS
<1>1. Alive \subseteq Process
  BY DEF Alive, Process
<1>2. Alive \subseteq made
  BY <1>1 DEF MemoryInv, Objects
<1>3. \A t \in Alive : parent[t] \in Alive
  BY <1>1 DEF MemoryInv, Counted
<1> QED BY <1>2, <1>3 DEF MemoryInv, Rooted

\* If init has no children left, nobody else is alive.
LEMMA RootAlone == MemoryInv /\ children[SeedTask] = 0 => Alive \subseteq {SeedTask}
<1> SUFFICES ASSUME MemoryInv, children[SeedTask] = 0, Alive \ {SeedTask} # {} PROVE FALSE
  OBVIOUS
<1> DEFINE S == Alive \ {SeedTask}
<1>1. S \subseteq Process /\ S \subseteq made
  <2>1. S \subseteq Process
    BY DEF Alive, Process
  <2> QED BY <2>1 DEF MemoryInv, Objects
<1>2. PICK t \in S : parent[t] \notin S
  BY <1>1 DEF MemoryInv, Rooted
<1>3. parent[t] \in Alive
  BY <1>1, <1>2 DEF MemoryInv, Counted
<1>4. t \in ChildrenOf(SeedTask)
  BY <1>1, <1>2, <1>3 DEF ChildrenOf
<1>5. IsFiniteSet(ChildrenOf(SeedTask))
  BY FS_Subset, QueueAssumption DEF ChildrenOf, Alive
<1>6. Cardinality(ChildrenOf(SeedTask)) = 0
  BY Tasks DEF MemoryInv, Counted
<1> QED BY <1>4, <1>5, <1>6, FS_EmptySet

\* While the machine runs, the run queue holds tasks that are alive.
LEMMA QueuedAlive ==
  MemoryInv /\ mode \notin {"failing", "failed"} => \A t \in Task : Queued(t) => t \in Alive
BY DEF MemoryInv, Objects, RootObjects, Process

LEMMA FrontLive ==
  MemoryInv /\ SeedTask \in Alive => FrontTasks \subseteq live
<1> SUFFICES ASSUME MemoryInv, SeedTask \in Alive PROVE FrontTasks \subseteq live
  OBVIOUS
<1>1. Queued(SeedTask) /\ mode \notin {"failing", "failed"}
  BY DEF MemoryInv, RootObjects
<1>2. next[SeedTask] \in Task /\ Queued(next[SeedTask])
  BY <1>1, Tasks, QueueNeighbours DEF MemoryInv, QueuedTasks
<1>3. next[SeedTask] \in Alive
  BY <1>1, <1>2, QueuedAlive
<1> QED BY <1>3 DEF FrontTasks, Alive

LEMMA NeighboursLive ==
  ASSUME MemoryInv, NEW t \in Task, Queued(t), mode \notin {"failing", "failed"}
  PROVE  Neighbours(t) \subseteq live
<1>1. next[t] \in Task /\ Queued(next[t]) /\ prev[t] \in Task /\ Queued(prev[t])
  BY QueueNeighbours DEF MemoryInv, QueuedTasks
<1>2. {t, next[t], prev[t]} \subseteq Alive
  BY <1>1, QueuedAlive
<1> QED BY <1>2 DEF Neighbours, Alive

\* Around an entry or the head of a list of children, all nodes are held by
\* allocated objects; and around the wait list.
LEMMA ChildNodesLive ==
  ASSUME MemoryInv, NEW p \in Kin, p \in Known,
         NEW n \in Clists(Waiting(p)) \cup {SpawnList(p)}
  PROVE  Holding(Around(n)) \subseteq live /\ Holding({n}) \subseteq live
<1> DEFINE ring == Clists(Waiting(p)) \cup {SpawnList(p)}
<1>1. Around(n) \subseteq ring
  <2>1. Holds(link, SpawnList(p), Clists(Waiting(p))) /\ link \in [Node -> ListHead]
        /\ SpawnList(p) \in Node
    BY Nodes, KinTasks DEF MemoryInv, Lists, Types
  <2>2. link[n].next \in ring /\ link[n].prev \in ring
    BY <2>1, HoldsStep
  <2> QED BY <2>2 DEF Around
<1>2. \A x \in ring : x[1] # "wait" /\ <<"info", x[2]>> \in live
  <2>1. \A t \in Waiting(p) \cup {p} : <<"info", t>> \in live
    BY DEF Waiting, Known
  <2> QED BY <2>1 DEF Clists, SpawnList, Clist
<1> QED BY <1>1, <1>2 DEF Holding

LEMMA WaitNodesLive ==
  ASSUME MemoryInv, NEW n \in WaitNodes(Asleep) \cup {IntWaitList}
  PROVE  Holding(Around(n)) \subseteq live /\ Holding({n}) \subseteq live
<1> DEFINE ring == WaitNodes(Asleep) \cup {IntWaitList}
<1>1. Around(n) \subseteq ring
  <2>1. Holds(link, IntWaitList, WaitNodes(Asleep)) /\ link \in [Node -> ListHead]
    BY DEF MemoryInv, Lists, Types
  <2>2. link[n].next \in ring /\ link[n].prev \in ring
    BY <2>1, Nodes, HoldsStep
  <2> QED BY <2>2 DEF Around
<1>2. ASSUME NEW x \in ring \ {IntWaitList} PROVE x[1] = "wait" /\ x \in live
  <2>1. PICK t \in Asleep : x = WaitNode(t)
    BY DEF WaitNodes
  <2> QED BY <2>1 DEF WaitNode, Asleep
<1> QED BY <1>1, <1>2 DEF Holding

LEMMA UseLive ==
  ASSUME NEW objects, objects \subseteq live, Use(objects)
  PROVE  misused' = misused
BY DEF Use

-----------------------------------------------------------------------------
(* Steps that link nothing, and allocate nothing for a task                *)

\* The objects that belong to a task.
Belongings == live \ ({Rq, Profile} \cup Strings)

quietVars == <<link, Belongings, parent, made, named, children, queueVars>>
FamilyStep == [Family!FamilyNext]_(Family!familyVars)

LEMMA LinksStutter == UNCHANGED link => FamilyStep
BY DEF FamilyStep, Family!familyVars, TasksOf

LEMMA QuietSets ==
  UNCHANGED quietVars => /\ Known' = Known /\ Titled' = Titled /\ Alive' = Alive
                         /\ Born' = Born /\ Asleep' = Asleep /\ Kin' = Kin
                         /\ \A t \in Task : Queued(t)' = Queued(t)
                         /\ \A k \in {"info", "name", "task", "spare", "wait"}, t \in Task \cup {Idle} :
                              <<k, t>> \in live' <=> <<k, t>> \in live
<1> SUFFICES ASSUME UNCHANGED quietVars
             PROVE  /\ Known' = Known /\ Titled' = Titled /\ Alive' = Alive
                    /\ Born' = Born /\ Asleep' = Asleep /\ Kin' = Kin
                    /\ \A t \in Task : Queued(t)' = Queued(t)
                    /\ \A k \in {"info", "name", "task", "spare", "wait"}, t \in Task \cup {Idle} :
                         <<k, t>> \in live' <=> <<k, t>> \in live
  OBVIOUS
<1>1. ASSUME NEW k \in {"info", "name", "task", "spare", "wait"}, NEW t \in Task \cup {Idle}
      PROVE  <<k, t>> \in live' <=> <<k, t>> \in live
  <2>1. <<k, t>> \notin {Rq, Profile} \cup Strings
    BY DEF Rq, Profile, Strings
  <2>2. Belongings' = Belongings
    BY DEF quietVars
  <2> QED BY <2>1, <2>2 DEF Belongings
<1> QED BY <1>1 DEF quietVars, queueVars, Known, Titled, Alive, Born, Asleep, Kin, Queued

LEMMA QuietStep ==
  ASSUME MemoryInv, UNCHANGED quietVars, mode # "cleaning", Stack' \subseteq {SeedTask},
         Types', Phases', Walks', Misuses',
         mode' \in {"failing", "failed"} <=> mode \in {"failing", "failed"},
         mode' \in {"ended", "failed"} <=> mode \in {"ended", "failed"}
  PROVE  MemoryInv' /\ FamilyStep
<1>1. /\ Known' = Known /\ Titled' = Titled /\ Alive' = Alive
      /\ Born' = Born /\ Asleep' = Asleep /\ Kin' = Kin
      /\ \A t \in Task : Queued(t)' = Queued(t)
  BY QuietSets
<1>2. link' = link /\ parent' = parent /\ made' = made /\ named' = named
      /\ children' = children /\ UNCHANGED queueVars
  BY DEF quietVars
<1>3. Rooted'
  BY <1>1, <1>2 DEF MemoryInv, Rooted
<1>4. Objects'
  BY <1>1, <1>2 DEF MemoryInv, Objects, Process
<1>5. RootObjects'
  BY <1>1, <1>2, Tasks DEF MemoryInv, RootObjects
<1>6. IdleObjects'
  BY QuietSets DEF MemoryInv, IdleObjects, Own
<1>7. Counted'
  BY <1>1, <1>2 DEF MemoryInv, Counted, ChildrenOf
<1>8. \A p \in Task : Waiting(p)' = Waiting(p)
  <2>1. Stack = {} /\ SeedTask \notin made
    BY KinTasks DEF MemoryInv, Stack
  <2> QED BY <2>1, <1>1, <1>2 DEF Waiting
<1>9. Lists'
  BY <1>1, <1>2, <1>8, KinTasks DEF MemoryInv, Lists
<1>10. QueueInv'
  BY <1>2 DEF MemoryInv, queueVars, QueueInv, QueueTypeOK, RingLinks, LinksInverse,
              HeadQueued, CountExact, OneRing, QueuedTasks, Queued
<1> QED BY <1>2, <1>3, <1>4, <1>5, <1>6, <1>7, <1>9, <1>10, LinksStutter DEF MemoryInv

LEMMA OpenSpawnKeeps == MemoryInv /\ OpenSpawn => MemoryInv' /\ FamilyStep
<1> SUFFICES ASSUME MemoryInv, OpenSpawn PROVE MemoryInv' /\ FamilyStep
  OBVIOUS
<1>1. /\ UNCHANGED quietVars /\ UNCHANGED <<live, mode, current, walks, misused, newtask>>
      /\ mode = "reading" /\ newtask \in made /\ top' = newtask
  BY DEF OpenSpawn, taskVars, quietVars, Belongings, MemoryInv, Types
<1>2. Stack' = {}
  BY <1>1 DEF Stack
<1>3. Types'
  BY <1>1 DEF MemoryInv, Types, quietVars, Kin
<1>4. Phases'
  BY <1>1, QuietSets DEF MemoryInv, Phases, quietVars
<1>5. Walks' /\ Misuses'
  BY <1>1 DEF MemoryInv, Walks, Misuses, quietVars, Refused
<1> QED BY <1>1, <1>2, <1>3, <1>4, <1>5, QuietStep

LEMMA EndSpawnKeeps == MemoryInv /\ EndSpawn => MemoryInv' /\ FamilyStep
<1> SUFFICES ASSUME MemoryInv, EndSpawn PROVE MemoryInv' /\ FamilyStep
  OBVIOUS
<1>1. /\ UNCHANGED quietVars /\ UNCHANGED <<live, mode, current, walks, misused>>
      /\ mode = "reading" /\ top \in made /\ newtask' = top /\ top' = parent[top]
  BY DEF EndSpawn, taskVars, quietVars, Belongings, MemoryInv, Types, Kin
<1>2. Stack' = {}
  BY <1>1 DEF Stack
<1>3. Types'
  BY <1>1 DEF MemoryInv, Types, quietVars, Kin, Rooted
<1>4. Phases'
  BY <1>1, QuietSets DEF MemoryInv, Phases, quietVars
<1>5. Walks' /\ Misuses'
  BY <1>1 DEF MemoryInv, Walks, Misuses, quietVars, Refused
<1> QED BY <1>1, <1>2, <1>3, <1>4, <1>5, QuietStep

LEMMA RefuseKeeps == MemoryInv /\ Refuse => MemoryInv' /\ FamilyStep
<1> SUFFICES ASSUME MemoryInv, Refuse PROVE MemoryInv' /\ FamilyStep
  OBVIOUS
<1>1. /\ UNCHANGED quietVars /\ UNCHANGED <<current, top, newtask, misused>>
      /\ live' \subseteq live /\ mode = "reading" /\ mode' = "cleaning"
      /\ walks' = <<WalkOf(SpawnList(SeedTask))>>
  BY DEF Refuse, taskVars, profileVars, quietVars, Belongings
<1>2. /\ Len(walks') = 1 /\ walks'[1] = WalkOf(SpawnList(SeedTask))
      /\ walks'[1].head = SpawnList(SeedTask) /\ Stacked(1)' = SeedTask
      /\ walks'[1].at = link[SpawnList(SeedTask)].next
  BY <1>1, Nodes, Tasks DEF WalkOf, Stacked
<1>3. Stack' = {SeedTask}
  BY <1>1, <1>2 DEF Stack
<1>4. Types'
  BY <1>1 DEF MemoryInv, Types, quietVars, Kin, Refused
<1>5. Phases'
  BY <1>1, QuietSets DEF MemoryInv, Phases, quietVars, Accepted, Refused
<1>6. Walks'
  <2>1. SeedTask \in Kin' /\ SeedTask \in Known'
    BY <1>1, QuietSets DEF MemoryInv, Phases, RootObjects, Kin
  <2>2. link[SpawnList(SeedTask)].next \in Node
    <3>1. SeedTask \in Kin /\ SpawnList(SeedTask) \in Node
      BY Nodes, Tasks DEF Kin
    <3>2. Holds(link, SpawnList(SeedTask), Clists(Waiting(SeedTask))) /\ link \in [Node -> ListHead]
      BY <3>1 DEF MemoryInv, Lists, Types
    <3>3. link[SpawnList(SeedTask)].next \in Clists(Waiting(SeedTask)) \cup {SpawnList(SeedTask)}
      BY <3>1, <3>2, HoldsStep
    <3> QED BY <3>1, <3>2, <3>3, HoldsNodes
  <2>3. walks' \in Seq([head : Node, at : Node])
    BY <1>1, <2>2, Nodes, Tasks DEF WalkOf
  <2>4. \A i \in 1 .. Len(walks') : i = 1
    BY <1>2
  <2>5. CleanWalks'
    BY <1>1, <1>2, <2>1, <2>3, <2>4 DEF CleanWalks, WalkOf, quietVars
  <2> QED BY <1>1, <2>5 DEF Walks
<1>7. Misuses'
  BY <1>1 DEF MemoryInv, Misuses, quietVars, Refused
<1> QED BY <1>1, <1>3, <1>4, <1>5, <1>6, <1>7, QuietStep

LEMMA TypeKeeps == MemoryInv /\ TypeCommand => MemoryInv' /\ FamilyStep
<1> SUFFICES ASSUME MemoryInv, TypeCommand PROVE MemoryInv' /\ FamilyStep
  OBVIOUS
<1>1. /\ UNCHANGED quietVars /\ UNCHANGED <<mode, current, walks, misused, top, newtask>>
      /\ mode = "reading" /\ live' = live \cup {<<"type", Idle>>}
  BY DEF TypeCommand, taskVars, profileVars, quietVars, Belongings, Strings
<1>2. Stack' = {}
  BY <1>1 DEF Stack
<1>3. Types'
  BY <1>1 DEF MemoryInv, Types, quietVars, Kin, Object, Strings
<1>4. Phases'
  BY <1>1, QuietSets DEF MemoryInv, Phases, quietVars
<1>5. Walks' /\ Misuses'
  BY <1>1 DEF MemoryInv, Walks, Misuses, quietVars, Refused
<1> QED BY <1>1, <1>2, <1>3, <1>4, <1>5, QuietStep

LEMMA AcceptKeeps == MemoryInv /\ Accept => MemoryInv' /\ FamilyStep
<1> SUFFICES ASSUME MemoryInv, Accept PROVE MemoryInv' /\ FamilyStep
  OBVIOUS
<1>1. /\ UNCHANGED quietVars /\ UNCHANGED <<current, top, newtask, misused, walks>>
      /\ live' \subseteq live /\ mode = "reading" /\ mode' = "running" /\ made \subseteq named
  BY DEF Accept, taskVars, profileVars, quietVars, Belongings
<1>2. Stack' = {}
  BY <1>1 DEF Stack
<1>3. Types'
  BY <1>1 DEF MemoryInv, Types, quietVars, Kin, Accepted
<1>4. Phases'
  BY <1>1, QuietSets DEF MemoryInv, Phases, quietVars, Accepted, Refused
<1>5. Walks' /\ Misuses'
  BY <1>1 DEF MemoryInv, Walks, Misuses, quietVars, Refused
<1> QED BY <1>1, <1>2, <1>3, <1>4, <1>5, QuietStep

\* What belongs to a task that is alive is allocated.
LEMMA AliveOwns ==
  ASSUME MemoryInv, mode = "running", NEW t \in Alive
  PROVE  Own(t) \cup {<<"task", t>>} \subseteq live
<1>1. t \in Known /\ t \in Titled
  BY DEF MemoryInv, Objects, RootObjects, Process, Phases, Accepted, Alive
<1> QED BY <1>1 DEF Own, Known, Titled, Alive

Switched ==
  /\ mode = "running" /\ UNCHANGED <<mode, misused>>
  /\ current' \in Alive

Faulted ==
  /\ mode = "running" /\ mode' = "fault" /\ current' = current
  /\ \/ misused' = misused
     \/ /\ misused' \subseteq misused \cup {ReadByPolicy} /\ ReadByPolicy' = ReadByPolicy
        /\ policy' = "schedule_rr" \/ nr_running' = 0

\* schedule() switches to a task that is alive, or ends the run.
LEMMA ScheduleChooses ==
  ASSUME MemoryInv, RestInv, Schedule
  PROVE  /\ UNCHANGED quietVars /\ UNCHANGED <<live, top, newtask, walks>>
         /\ Switched \/ Faulted
         /\ nxt' \in Task \cup {Null}
<1>1. mode = "running"
  BY DEF Schedule
<1>2. \A t \in Task : Queued(t) => t \in Alive
  BY <1>1, QueuedAlive
<1>3. next \in [Task -> Task \cup {Null}] /\ SeedTask \in Task
  BY QueueAssumption DEF MemoryInv, QueueInv, QueueTypeOK, Pointer
<1>4. ASSUME NEW t \in Alive, NEW objects, objects \subseteq live, Switch(t),
             Use(objects \cup Own(t)) 
      PROVE  /\ UNCHANGED quietVars /\ UNCHANGED <<live, top, newtask, walks>>
             /\ Switched
  <2>1. misused' = misused
    BY <1>1, <1>4, AliveOwns, UseLive
  <2> QED BY <2>1, <1>1, <1>4 DEF Switch, Switched, quietVars, profileVars, Belongings
<1>5. ASSUME NEW objects, Fault(objects), objects \subseteq {ReadByPolicy},
             policy = "schedule_rr" \/ nr_running = 0
      PROVE  /\ UNCHANGED quietVars /\ UNCHANGED <<live, top, newtask, walks, nxt>>
             /\ Faulted
  <2>1. /\ UNCHANGED <<link, live, parent, named, made, top, newtask, children, current, nxt, policy>>
        /\ UNCHANGED <<walks, queueVars>> /\ mode' = "fault"
        /\ misused' \subseteq misused \cup {ReadByPolicy}
    BY <1>5 DEF Fault, Use, profileVars, taskVars
  <2>2. nr_running' = nr_running /\ ReadByPolicy' = ReadByPolicy
    BY <2>1 DEF queueVars, ReadByPolicy
  <2> QED BY <2>1, <2>2, <1>1, <1>5 DEF Faulted, quietVars, Belongings
<1>6. CASE Alone
  <2>1. SeedTask \in Alive
    <3>1. QueuedTasks # {}
      <4>1. nr_running = 1 /\ nr_running = Cardinality(QueuedTasks)
        BY <1>6 DEF Alone, MemoryInv, QueueInv, RingLinks, CountExact
      <4>2. Cardinality({}) = 0
        BY FS_EmptySet
      <4> QED BY <4>1, <4>2
    <3> QED BY <3>1, <1>2, RootAlive DEF QueuedTasks
  <2>2. {<<"task", SeedTask>>} \subseteq live
    BY <2>1 DEF Alive
  <2>3. nxt' \in Task \cup {Null}
    BY <1>3, <1>6 DEF Alone, RestInv
  <2>4. Switch(SeedTask) /\ Use({<<"task", SeedTask>>} \cup Own(SeedTask))
    BY <1>6 DEF Alone
  <2> QED BY <2>1, <2>2, <2>3, <2>4, <1>4
<1>7. CASE policy = "schedule_rr" /\ NextTurn
  <2>1. CASE nxt # Null /\ <<"task", nxt>> \in live
    <3>1. nxt \in Alive /\ nxt \in Task
      BY <2>1 DEF RestInv, Alive
    <3>2. /\ nxt' = (IF next[nxt] = SeedTask THEN next[SeedTask] ELSE next[nxt])
          /\ Use({<<"task", nxt>>} \cup Own(nxt)) /\ Switch(nxt)
      BY <1>7, <2>1 DEF NextTurn
    <3>3. {<<"task", nxt>>} \subseteq live /\ nxt' \in Task \cup {Null}
      BY <2>1, <3>1, <3>2, <1>3
    <3> QED BY <3>1, <3>2, <3>3, <1>4
  <2>2. CASE ~ (nxt # Null /\ <<"task", nxt>> \in live)
    <3> DEFINE objects == {<<"task", nxt>>} \ {<<"task", Null>>}
    <3>1. Fault(objects)
      BY <1>7, <2>2 DEF NextTurn
    <3>2. objects \subseteq {ReadByPolicy}
      BY <1>7 DEF ReadByPolicy
    <3> HIDE DEF objects
    <3> QED BY <3>1, <3>2, <1>5, <1>7 DEF RestInv
  <2> QED BY <2>1, <2>2
<1>8. CASE policy = "schedule_sjf" /\ BestJob
  <2> DEFINE objects == {<<"task", x>> : x \in {y \in Task : Queued(y)}}
  <2>1. CASE \E t \in Process : Queued(t) /\ Use(Own(t) \cup objects) /\ Switch(t) /\ UNCHANGED nxt
    <3>1. PICK t \in Process : Queued(t) /\ Use(Own(t) \cup objects) /\ Switch(t) /\ UNCHANGED nxt
      BY <2>1
    <3>2. objects \subseteq live
      BY <1>2 DEF Alive
    <3>3. t \in Alive /\ Own(t) \cup objects = objects \cup Own(t)
      BY <3>1, <1>2 DEF Process
    <3> HIDE DEF objects
    <3>4. Use(objects \cup Own(t))
      BY <3>1, <3>3
    <3>5. nxt' \in Task \cup {Null}
      BY <3>1 DEF RestInv
    <3> QED BY <3>1, <3>2, <3>3, <3>4, <3>5, <1>4
  <2>2. CASE nr_running = 0 /\ Fault({<<"task", SeedTask>>})
    <3>1. {<<"task", SeedTask>>} \subseteq {ReadByPolicy}
      BY <1>8 DEF ReadByPolicy
    <3> QED BY <3>1, <2>2, <1>5 DEF RestInv
  <2> QED BY <2>1, <2>2, <1>8 DEF BestJob
<1> QED BY <1>6, <1>7, <1>8 DEF Schedule

\* Steps of the running machine that only switch, or end the run.
LEMMA TurnKeeps ==
  ASSUME MemoryInv, UNCHANGED quietVars, UNCHANGED <<live, top, newtask, walks>>,
         Switched \/ Faulted
  PROVE  MemoryInv' /\ FamilyStep
<1>1. mode = "running" /\ mode' \in {"running", "fault"}
  BY DEF Switched, Faulted
<1>2. current' \in Alive \/ current' = current
  BY DEF Switched, Faulted
<1>3. Stack' = {}
  BY <1>1 DEF Stack
<1>4. Types'
  BY <1>1, <1>2 DEF MemoryInv, Types, quietVars, Kin, Alive, Accepted
<1>5. Phases'
  BY <1>1, <1>2, QuietSets DEF MemoryInv, Phases, quietVars, Accepted, Refused
<1>6. Walks'
  BY <1>1 DEF Walks
<1>7. Misuses'
  <2>1. misused = {}
    BY <1>1 DEF MemoryInv, Misuses, Refused
  <2>2. CASE Switched
    BY <2>1, <2>2 DEF Switched, Misuses
  <2>3. CASE Faulted
    BY <2>1, <2>3 DEF Faulted, Misuses, Refused
  <2> QED BY <2>2, <2>3
<1> QED BY <1>1, <1>3, <1>4, <1>5, <1>6, <1>7, QuietStep

LEMMA ScheduleKeeps == MemoryInv /\ RestInv /\ Schedule => MemoryInv' /\ FamilyStep
BY ScheduleChooses, TurnKeeps

LEMMA AsleepOnCpuKeeps == MemoryInv /\ AsleepOnCpu => MemoryInv' /\ FamilyStep
<1> SUFFICES ASSUME MemoryInv, AsleepOnCpu PROVE MemoryInv' /\ FamilyStep
  OBVIOUS
<1>1. /\ UNCHANGED quietVars /\ UNCHANGED <<live, top, newtask, walks, current, misused>>
      /\ mode = "running" /\ mode' = "fault"
  BY DEF AsleepOnCpu, InCycle, Fault, Use, taskVars, profileVars, quietVars, Belongings
<1>2. Faulted
  BY <1>1 DEF Faulted
<1> QED BY <1>1, <1>2, TurnKeeps

LEMMA SpawnChildrenKeeps == MemoryInv /\ SpawnChildren => MemoryInv' /\ FamilyStep
<1> SUFFICES ASSUME MemoryInv, SpawnChildren PROVE MemoryInv' /\ FamilyStep
  OBVIOUS
<1> DEFINE h == SpawnList(current)
<1>1. /\ UNCHANGED quietVars /\ UNCHANGED <<live, current, top, newtask>>
      /\ mode = "running" /\ mode' = "spawning" /\ current \in Task
      /\ walks' = <<WalkOf(h)>> /\ Use(Holding({h}))
  BY DEF SpawnChildren, BeginWalk, taskVars, profileVars, quietVars, Belongings
<1>2. current \in Alive /\ current \in Known /\ current \in Kin
  BY <1>1 DEF MemoryInv, Phases, Objects, RootObjects, Process, Kin
<1>3. misused' = misused
  BY <1>1, <1>2, UseLive, ChildNodesLive
<1>4. Stack' = {}
  BY <1>1 DEF Stack
<1>5. Types'
  BY <1>1 DEF MemoryInv, Types, quietVars, Kin, Accepted
<1>6. Phases'
  BY <1>1, QuietSets DEF MemoryInv, Phases, quietVars, Accepted, Refused
<1>7. Walks'
  <2>1. link[h].next \in Clists(Waiting(current)) \cup {h}
    <3>1. Holds(link, h, Clists(Waiting(current))) /\ link \in [Node -> ListHead] /\ h \in Node
      BY <1>1, <1>2, Nodes DEF MemoryInv, Lists, Types
    <3> QED BY <3>1, HoldsStep
  <2>2. Waiting(current)' = Waiting(current)
    BY <1>1, <1>4, QuietSets DEF Waiting, Stack, quietVars
  <2>3. walks' = <<[head |-> h, at |-> link[h].next]>>
    BY <1>1 DEF WalkOf
  <2>4. SpawnWalk'
    BY <1>1, <1>2, <2>1, <2>2, <2>3, QuietSets DEF SpawnWalk, OneWalk, Clists
  <2> QED BY <1>1, <2>4 DEF Walks
<1>8. Misuses'
  BY <1>1, <1>3 DEF MemoryInv, Misuses, quietVars, Refused
<1> QED BY <1>1, <1>4, <1>5, <1>6, <1>7, <1>8, QuietStep

LEMMA IoEventKeeps == MemoryInv /\ IoEvent => MemoryInv' /\ FamilyStep
<1> SUFFICES ASSUME MemoryInv, IoEvent PROVE MemoryInv' /\ FamilyStep
  OBVIOUS
<1>1. /\ UNCHANGED quietVars /\ UNCHANGED <<live, current, top, newtask>>
      /\ mode = "running" /\ mode' = "waking"
      /\ walks' = <<WalkOf(IntWaitList)>> /\ Use(Holding({IntWaitList}))
  BY DEF IoEvent, BeginWalk, taskVars, profileVars, quietVars, Belongings
<1>2. misused' = misused
  BY <1>1, UseLive, WaitNodesLive
<1>3. Stack' = {}
  BY <1>1 DEF Stack
<1>4. Types'
  BY <1>1 DEF MemoryInv, Types, quietVars, Kin, Accepted
<1>5. Phases'
  BY <1>1, QuietSets DEF MemoryInv, Phases, quietVars, Accepted, Refused
<1>6. Walks'
  BY <1>1 DEF Walks, OneWalk, WalkOf, quietVars
<1>7. Misuses'
  BY <1>1, <1>2 DEF MemoryInv, Misuses, quietVars, Refused
<1> QED BY <1>1, <1>3, <1>4, <1>5, <1>6, <1>7, QuietStep

LEMMA EndWakingKeeps == MemoryInv /\ EndWaking => MemoryInv' /\ FamilyStep
<1> SUFFICES ASSUME MemoryInv, EndWaking PROVE MemoryInv' /\ FamilyStep
  OBVIOUS
<1>1. /\ UNCHANGED quietVars /\ UNCHANGED <<live, current, top, newtask, misused>>
      /\ mode = "waking" /\ mode' = "running"
  BY DEF EndWaking, taskVars, profileVars, quietVars, Belongings
<1>2. Stack' = {}
  BY <1>1 DEF Stack
<1>3. Types'
  BY <1>1 DEF MemoryInv, Types, quietVars, Kin, Accepted
<1>4. Phases'
  BY <1>1, QuietSets DEF MemoryInv, Phases, quietVars, Accepted, Refused
<1>5. Walks' /\ Misuses'
  BY <1>1 DEF MemoryInv, Walks, Misuses, quietVars, Refused
<1> QED BY <1>1, <1>2, <1>3, <1>4, <1>5, QuietStep

\* Where a walk over a list of children stands.
LEMMA Spawning ==
  ASSUME MemoryInv, mode = "spawning"
  PROVE  \E p \in Kin \cap Alive \cap Known :
           /\ p \in Task
           /\ walk.head = SpawnList(p) /\ walks = <<walk>>
           /\ walk = [head |-> walk.head, at |-> walk.at]
           /\ walk.at \in Clists(Waiting(p)) \cup {SpawnList(p)}
           /\ Holds(link, SpawnList(p), Clists(Waiting(p)))
<1>1. PICK p \in Kin \cap Alive, n \in Node :
        /\ OneWalk(SpawnList(p), n) /\ n \in Clists(Waiting(p)) \cup {SpawnList(p)}
        /\ p \in Task
  <2>1. PICK p \in Kin \cap Alive :
          \E n \in Clists(Waiting(p)) \cup {SpawnList(p)} : OneWalk(SpawnList(p), n)
    BY DEF MemoryInv, Walks, SpawnWalk
  <2>2. p \in Task
    BY KinTasks DEF MemoryInv
  <2>3. Clists(Waiting(p)) \cup {SpawnList(p)} \subseteq Node
    BY <2>2, Nodes DEF Clists, Waiting, Known
  <2> QED BY <2>1, <2>2, <2>3
<1>2. p \in Known
  BY <1>1 DEF MemoryInv, Objects, RootObjects, Process
<1>3. Holds(link, SpawnList(p), Clists(Waiting(p)))
  BY <1>1 DEF MemoryInv, Lists
<1>4. walk = [head |-> SpawnList(p), at |-> n] /\ walks = <<walk>>
  BY <1>1 DEF OneWalk, walk
<1> QED BY <1>1, <1>2, <1>3, <1>4

LEMMA SkipChildKeeps == MemoryInv /\ SkipChild => MemoryInv' /\ FamilyStep
<1> SUFFICES ASSUME MemoryInv, SkipChild PROVE MemoryInv' /\ FamilyStep
  OBVIOUS
<1>1. /\ UNCHANGED quietVars /\ UNCHANGED <<live, mode, current, top, newtask>>
      /\ mode = "spawning" /\ Onward /\ Use(Holding({walk.at}))
  BY DEF SkipChild, taskVars, profileVars, quietVars, Belongings
<1>2. PICK p \in Kin \cap Alive \cap Known :
        /\ p \in Task
        /\ walk.head = SpawnList(p)
        /\ walk = [head |-> walk.head, at |-> walk.at]
        /\ walk.at \in Clists(Waiting(p)) \cup {SpawnList(p)}
        /\ Holds(link, SpawnList(p), Clists(Waiting(p)))
  BY <1>1, Spawning
<1>3. misused' = misused
  BY <1>1, <1>2, UseLive, ChildNodesLive
<1>4. Stack' = {}
  BY <1>1 DEF Stack
<1>5. Types'
  BY <1>1 DEF MemoryInv, Types, quietVars, Kin
<1>6. Phases'
  BY <1>1, QuietSets DEF MemoryInv, Phases, quietVars, Accepted, Refused
<1>7. Walks'
  <2>1. link[walk.at].next \in Clists(Waiting(p)) \cup {SpawnList(p)}
    <3>1. link \in [Node -> ListHead] /\ SpawnList(p) \in Node
      BY <1>2, Nodes DEF MemoryInv, Types
    <3> QED BY <3>1, <1>2, HoldsStep
  <2>2. Waiting(p)' = Waiting(p)
    BY <1>1, <1>4, QuietSets DEF Waiting, Stack, quietVars
  <2>3. walks' = <<[head |-> SpawnList(p), at |-> link[walk.at].next]>>
    BY <1>1, <1>2 DEF Onward
  <2>4. SpawnWalk'
    BY <1>2, <1>1, <2>1, <2>2, <2>3, QuietSets DEF SpawnWalk, OneWalk, Clists
  <2> QED BY <1>1, <2>4 DEF Walks
<1>8. Misuses'
  BY <1>1, <1>3 DEF MemoryInv, Misuses, quietVars, Refused
<1> QED BY <1>1, <1>4, <1>5, <1>6, <1>7, <1>8, QuietStep

LEMMA EndSpawningKeeps == MemoryInv /\ EndSpawning => MemoryInv' /\ FamilyStep
<1> SUFFICES ASSUME MemoryInv, EndSpawning PROVE MemoryInv' /\ FamilyStep
  OBVIOUS
<1> DEFINE h == SpawnList(SeedTask)
<1>1. /\ UNCHANGED quietVars /\ UNCHANGED <<live, current, top, newtask, misused>>
      /\ mode = "spawning"
      /\ \/ mode' = "running"
         \/ mode' = "spawning" /\ walks' = <<WalkOf(h)>>
  BY DEF EndSpawning, taskVars, profileVars, quietVars, Belongings
<1>2. Stack' = {}
  BY <1>1 DEF Stack
<1>3. Types'
  BY <1>1 DEF MemoryInv, Types, quietVars, Kin, Accepted
<1>4. Phases'
  BY <1>1, QuietSets DEF MemoryInv, Phases, quietVars, Accepted, Refused
<1>5. SeedTask \in Kin \cap Alive
  BY <1>1, RootAlive DEF MemoryInv, Phases, Kin
<1>6. ASSUME mode' = "spawning" PROVE SpawnWalk'
  <2>1. link[h].next \in Clists(Waiting(SeedTask)) \cup {h}
    <3>1. Holds(link, h, Clists(Waiting(SeedTask))) /\ link \in [Node -> ListHead] /\ h \in Node
      BY <1>5, Tasks, Nodes DEF MemoryInv, Lists, Types
    <3> QED BY <3>1, HoldsStep
  <2>2. Waiting(SeedTask)' = Waiting(SeedTask)
    BY <1>1, <1>2, QuietSets DEF Waiting, Stack, quietVars
  <2>3. walks' = <<[head |-> h, at |-> link[h].next]>>
    BY <1>1, <1>6 DEF WalkOf
  <2> QED BY <1>1, <1>5, <2>1, <2>2, <2>3, QuietSets DEF SpawnWalk, OneWalk, Clists
<1>7. Walks' /\ Misuses'
  BY <1>1, <1>6 DEF MemoryInv, Walks, Misuses, quietVars, Refused
<1> QED BY <1>1, <1>2, <1>3, <1>4, <1>7, QuietStep

LEMMA EndCycleKeeps == MemoryInv /\ EndCycle => MemoryInv' /\ FamilyStep
<1> SUFFICES ASSUME MemoryInv, EndCycle PROVE MemoryInv' /\ FamilyStep
  OBVIOUS
<1>1. /\ UNCHANGED quietVars /\ UNCHANGED <<live, current, top, newtask, walks>>
      /\ mode = "running" /\ mode' = "closing" /\ nr_running = 0
      /\ misused' \subseteq misused \cup {<<"task", SeedTask>>, <<"info", SeedTask>>}
  BY DEF EndCycle, InCycle, taskVars, profileVars, quietVars, Belongings, Use
<1>2. Stack' = {}
  BY <1>1 DEF Stack
<1>3. Alive = {}
  <2>1. QueuedTasks = {}
    <3>1. IsFiniteSet(QueuedTasks)
      BY FS_Subset, QueueAssumption DEF QueuedTasks
    <3> QED BY <3>1, <1>1, FS_EmptySet DEF MemoryInv, QueueInv, RingLinks, CountExact
  <2>2. SeedTask \notin Alive
    BY <2>1, Tasks DEF MemoryInv, RootObjects, QueuedTasks
  <2> QED BY <2>2, RootAlive
<1>4. Types'
  BY <1>1 DEF MemoryInv, Types, quietVars, Kin, Accepted
<1>5. Phases'
  BY <1>1, <1>3, QuietSets DEF MemoryInv, Phases, quietVars, Accepted, Refused
<1>6. Walks' /\ Misuses'
  BY <1>1 DEF MemoryInv, Walks, Misuses, quietVars, Refused
<1> QED BY <1>1, <1>2, <1>4, <1>5, <1>6, QuietStep

-----------------------------------------------------------------------------
(* Steps that allocate or free, and leave the lists alone                  *)

LEMMA ListsFrame ==
  ASSUME MemoryInv, UNCHANGED <<link, made>>, Asleep' = Asleep,
         \A p \in Task : Waiting(p)' = Waiting(p)
  PROVE  Lists'
<1>1. Kin' = Kin
  BY DEF Kin
<1> QED BY <1>1, KinTasks DEF MemoryInv, Lists

LEMMA QueueFrame == UNCHANGED queueVars /\ QueueInv => QueueInv'
BY DEF queueVars, QueueInv, QueueTypeOK, RingLinks, LinksInverse, HeadQueued,
       CountExact, OneRing, QueuedTasks, Queued

LEMMA NameKeeps == MemoryInv /\ Name => MemoryInv' /\ FamilyStep
<1> SUFFICES ASSUME MemoryInv, Name PROVE MemoryInv' /\ FamilyStep
  OBVIOUS
<1> DEFINE t == newtask
<1>1. /\ UNCHANGED <<mode, link, misused, parent, made, top, newtask, children, current, walks>>
      /\ UNCHANGED queueVars
      /\ mode = "reading" /\ t \in made /\ t \in Process /\ t \in Task
      /\ named' = named \cup {t}
      /\ \/ live' = live \cup {<<"name", t>>}
         \/ live' = live \cup {<<"name", t>>, <<"replaced", Idle>>}
  BY KinTasks DEF Name, taskVars, MemoryInv, Types, Process
<1>2. t \in Known
  BY <1>1 DEF MemoryInv, Phases
<1>3. /\ Known' = Known /\ Titled' = Titled \cup {t} /\ Alive' = Alive
      /\ Born' = Born /\ Asleep' = Asleep /\ Kin' = Kin
      /\ \A u \in Task : Queued(u)' = Queued(u)
  BY <1>1 DEF queueVars, Known, Titled, Alive, Born, Asleep, Kin, Queued
<1>4. Types'
  BY <1>1, <1>3 DEF MemoryInv, Types, Object, Strings, Kin
<1>5. Rooted'
  BY <1>1, <1>3 DEF MemoryInv, Rooted
<1>6. Objects'
  BY <1>1, <1>2, <1>3 DEF MemoryInv, Objects, Process
<1>7. RootObjects'
  BY <1>1, <1>3, Tasks DEF MemoryInv, RootObjects, Process
<1>8. IdleObjects'
  BY <1>1 DEF MemoryInv, IdleObjects
<1>9. Phases'
  BY <1>1, <1>3 DEF MemoryInv, Phases, Accepted, Refused
<1>10. Counted'
  BY <1>1, <1>3 DEF MemoryInv, Counted, ChildrenOf
<1>11. Lists'
  <2>1. \A p \in Task : Waiting(p)' = Waiting(p)
    BY <1>1, <1>3 DEF Waiting, Stack
  <2> QED BY <2>1, <1>1, <1>3, ListsFrame
<1>12. Walks' /\ Misuses'
  BY <1>1 DEF MemoryInv, Walks, Misuses, Refused
<1> QED BY <1>1, <1>4, <1>5, <1>6, <1>7, <1>8, <1>9, <1>10, <1>11, <1>12,
           QueueFrame, LinksStutter DEF MemoryInv

LEMMA ExitRemoves == MemoryInv /\ Exit => Remove(current)
<1> SUFFICES ASSUME MemoryInv, Exit PROVE Remove(current)
  OBVIOUS
<1>1. /\ mode = "running" /\ current \in Task /\ Queued(current)
      /\ children[current] = 0 /\ Unlink(current)
  BY DEF Exit, InCycle
<1>2. ASSUME current = SeedTask PROVE next[SeedTask] = SeedTask
  <2>1. Alive \subseteq {SeedTask}
    BY <1>1, <1>2, RootAlone
  <2>2. QueuedTasks = {SeedTask}
    BY <2>1, <1>1, <1>2, QueuedAlive, Tasks DEF QueuedTasks
  <2> QED BY <2>2, <1>1, <1>2, HeadAlone DEF MemoryInv
<1> QED BY <1>1, <1>2 DEF Remove

LEMMA ExitKeeps == MemoryInv /\ Exit => MemoryInv' /\ FamilyStep
<1> SUFFICES ASSUME MemoryInv, Exit PROVE MemoryInv' /\ FamilyStep
  OBVIOUS
<1> DEFINE c == current
           p == parent[c]
           mine == Own(c) \cup {<<"task", c>>}
<1>1. /\ UNCHANGED <<mode, link, parent, named, made, top, newtask, walks>>
      /\ mode = "running" /\ c \in Task /\ Queued(c) /\ children[c] = 0
      /\ live' = live \ mine /\ current' = Idle
      /\ children' = (IF p = Null THEN children ELSE [children EXCEPT ![p] = @ - 1])
      /\ Use(mine \cup Neighbours(c) \cup (IF p = Null THEN {} ELSE {<<"info", p>>}))
  BY DEF Exit, InCycle, profileVars
<1>2. /\ c \in Alive /\ c \in Known /\ c \in Titled /\ c \notin Asleep
      /\ c \in Process => c \in made /\ c \in Born
      /\ c \in Process \/ c = SeedTask
  BY <1>1, QueuedAlive DEF MemoryInv, Objects, RootObjects, Process, Phases, Accepted
<1>3. /\ p # Null => p \in Alive /\ p \in Known /\ c \in made /\ p \in Task
      /\ p = Null => c \notin made
  <2>1. p # Null => c \in Process
    BY <1>2 DEF MemoryInv, Rooted
  <2>2. c \in made => p \in Task
    BY KinTasks DEF MemoryInv, Rooted
  <2>3. p # Null => p \in Alive
    BY <2>1, <1>2 DEF MemoryInv, Counted
  <2>4. p \in Alive => p \in Known
    BY DEF MemoryInv, Objects, RootObjects, Process, Alive
  <2> QED BY <2>1, <2>2, <2>3, <2>4, <1>2, Tasks
<1>4. misused' = misused
  <2>1. mine \subseteq live /\ (p # Null => <<"info", p>> \in live)
    BY <1>2, <1>3 DEF Own, Known, Titled, Alive
  <2>2. Neighbours(c) \subseteq live
    BY <1>1, NeighboursLive
  <2> QED BY <2>1, <2>2, <1>1, UseLive
<1>5. QueueInv' /\ QueuedTasks' = QueuedTasks \ {c}
  BY <1>1, ExitRemoves, RemoveKeepsLinks DEF MemoryInv
<1>6. \A t \in Task : Queued(t)' <=> Queued(t) /\ t # c
  BY <1>5 DEF QueuedTasks
<1>7. /\ Known' = Known \ {c} /\ Titled' = Titled \ {c} /\ Alive' = Alive \ {c}
      /\ Born' = Born /\ Asleep' = Asleep /\ Kin' = Kin
  BY <1>1 DEF Own, Known, Titled, Alive, Born, Asleep, Kin
<1>8. ChildrenOf(c) = {}
  <2>1. IsFiniteSet(ChildrenOf(c))
    BY FS_Subset, QueueAssumption DEF ChildrenOf, Alive
  <2>2. Cardinality(ChildrenOf(c)) = 0
    BY <1>1 DEF MemoryInv, Counted
  <2> QED BY <2>1, <2>2, FS_EmptySet
<1>9. Counted' /\ children' \in [Task -> Nat]
  <2>1. ASSUME NEW t \in Process \cap Alive' PROVE parent'[t] \in Alive'
    <3>1. t \in Alive /\ t \in made /\ parent[t] \in Alive
      BY <1>7 DEF MemoryInv, Objects, Counted
    <3>2. parent[t] # c
      BY <3>1, <1>8 DEF ChildrenOf
    <3> QED BY <3>1, <3>2, <1>1, <1>7
  <2>2. ASSUME NEW q \in Task
        PROVE  children'[q] = Cardinality(ChildrenOf(q)') /\ children'[q] \in Nat
    <3>1. IsFiniteSet(ChildrenOf(q)) /\ children[q] = Cardinality(ChildrenOf(q)) /\ children[q] \in Nat
      BY FS_Subset, QueueAssumption DEF ChildrenOf, Alive, MemoryInv, Counted, Types
    <3>2. ChildrenOf(q)' = ChildrenOf(q) \ {c}
      BY <1>1, <1>7 DEF ChildrenOf
    <3>3. CASE p # Null /\ q = p
      <4>1. c \in ChildrenOf(q)
        BY <3>3, <1>2, <1>3 DEF ChildrenOf
      <4>2. children'[q] = children[q] - 1
        BY <3>3, <1>1 DEF MemoryInv, Types
      <4>3. /\ Cardinality(ChildrenOf(q) \ {c}) = Cardinality(ChildrenOf(q)) - 1
            /\ Cardinality(ChildrenOf(q) \ {c}) \in Nat
        BY <3>1, <4>1, FS_RemoveElement, FS_CardinalityType
      <4> QED BY <3>1, <3>2, <4>2, <4>3
    <3>4. CASE ~ (p # Null /\ q = p)
      <4>1. c \notin ChildrenOf(q)
        BY <3>4, <1>3 DEF ChildrenOf
      <4>2. children'[q] = children[q]
        BY <3>4, <1>1, <1>3 DEF MemoryInv, Types
      <4>3. ChildrenOf(q) \ {c} = ChildrenOf(q)
        BY <4>1
      <4> QED BY <3>1, <3>2, <4>2, <4>3
    <3> QED BY <3>3, <3>4
  <2>3. DOMAIN children' = Task /\ children' = [q \in Task |-> children'[q]]
    BY <1>1 DEF MemoryInv, Types
  <2> QED BY <2>1, <2>2, <2>3 DEF Counted
<1>10. Types'
  BY <1>1, <1>7, <1>9 DEF MemoryInv, Types
<1>11. Rooted'
  BY <1>1, <1>7 DEF MemoryInv, Rooted
<1>12. Objects'
  BY <1>1, <1>2, <1>6, <1>7 DEF MemoryInv, Objects, Process
<1>13. RootObjects'
  BY <1>1, <1>2, <1>6, <1>7, Tasks DEF MemoryInv, RootObjects
<1>14. IdleObjects'
  <2>1. c # Idle
    BY <1>1, Tasks
  <2> QED BY <2>1, <1>1 DEF MemoryInv, IdleObjects, Own
<1>15. Phases'
  BY <1>1, <1>2, <1>7, Tasks DEF MemoryInv, Phases, Accepted, Refused, Kin, Types, Process
<1>16. Lists'
  <2>1. \A q \in Task : Waiting(q)' = Waiting(q)
    BY <1>1, <1>2, <1>7, KinTasks DEF Waiting, Stack, MemoryInv
  <2> QED BY <2>1, <1>1, <1>7, ListsFrame
<1>17. Walks' /\ Misuses'
  BY <1>1, <1>4 DEF MemoryInv, Walks, Misuses, Refused
<1> QED BY <1>1, <1>5, <1>9, <1>10, <1>11, <1>12, <1>13, <1>14, <1>15, <1>16, <1>17,
           LinksStutter DEF MemoryInv

LEMMA FreeInitKeeps == MemoryInv /\ FreeInit => MemoryInv' /\ FamilyStep
<1> SUFFICES ASSUME MemoryInv, FreeInit PROVE MemoryInv' /\ FamilyStep
  OBVIOUS
<1> DEFINE mine == Own(SeedTask) \cup {<<"task", SeedTask>>}
           h == SpawnList(SeedTask)
<1>1. /\ UNCHANGED <<link, parent, named, made, top, newtask, children, current>>
      /\ UNCHANGED queueVars
      /\ mode = "cleaning" /\ mode' = "failing" /\ Len(walks) = 1
      /\ AtEnd \/ walk.at = Null
      /\ live' = live \ mine /\ Use(mine)
  BY DEF FreeInit, profileVars, taskVars
<1>2. /\ SeedTask \in Alive /\ SeedTask \in Known /\ SeedTask \in Titled
      /\ Born = {SeedTask} /\ current = Idle
  BY <1>1 DEF MemoryInv, Phases, RootObjects, Refused
<1>3. misused' = misused
  BY <1>1, <1>2, UseLive DEF Own, Known, Titled, Alive
<1>4. /\ Known' = Known \ {SeedTask} /\ Titled' = Titled \ {SeedTask}
      /\ Alive' = Alive \ {SeedTask} /\ Born' = Born /\ Asleep' = Asleep /\ Kin' = Kin
      /\ \A t \in Task : Queued(t)' = Queued(t)
  BY <1>1, Tasks DEF Own, Known, Titled, Alive, Born, Asleep, Kin, queueVars, Queued
\* The list of init is empty, so that everything below it has been freed.
<1>5. Waiting(SeedTask) = {} /\ Stack = {SeedTask}
  <2>1. CleanWalks /\ 1 \in 1 .. Len(walks)
    BY <1>1 DEF MemoryInv, Walks
  <2>2. Stacked(1) = SeedTask /\ walk = [head |-> h, at |-> link[h].next]
    BY <2>1, <1>1 DEF CleanWalks, walk
  <2>3. Holds(link, h, Clists(Waiting(SeedTask))) /\ link \in [Node -> ListHead] /\ h \in Node
    BY Nodes, Tasks DEF MemoryInv, Lists, Types, Kin
  <2>4. link[h].next # Null
    <3>1. link[h].next \in Clists(Waiting(SeedTask)) \cup {h}
      BY <2>3, HoldsStep
    <3> QED BY <3>1, <2>3, HoldsNodes, NodeAssumption
  <2>5. Clists(Waiting(SeedTask)) = {}
    BY <1>1, <2>2, <2>3, <2>4, HoldsStep DEF AtEnd
  <2>6. Stack = {SeedTask}
    BY <1>1, <2>2 DEF Stack
  <2> QED BY <2>5, <2>6 DEF Clists
<1>6. made \cap Known = {}
  <2> DEFINE S == made \cap Known
  <2> SUFFICES ASSUME S # {} PROVE FALSE
    OBVIOUS
  <2>1. PICK t \in S : parent[t] \notin S
    BY DEF MemoryInv, Rooted
  <2>2. parent[t] \in Known /\ parent[t] \in Kin
    BY <1>1, <2>1 DEF MemoryInv, Phases, Rooted
  <2>3. parent[t] = SeedTask /\ t # SeedTask
    BY <2>1, <2>2, KinTasks DEF Kin, MemoryInv
  <2>4. t \in Waiting(SeedTask)
    BY <2>1, <2>3, <1>2, <1>5 DEF Waiting
  <2> QED BY <2>4, <1>5
<1>7. Known' = {}
  BY <1>4, <1>6 DEF MemoryInv, Objects, Process, Known
<1>8. Alive = {SeedTask} /\ Alive' = {}
  BY <1>2, <1>4 DEF MemoryInv, Objects, Process, Alive
<1>9. Types'
  BY <1>1, <1>4 DEF MemoryInv, Types, Refused
<1>10. Rooted'
  BY <1>1, <1>4 DEF MemoryInv, Rooted
<1>11. Objects'
  BY <1>1, <1>4 DEF MemoryInv, Objects, Process
<1>12. RootObjects'
  BY <1>1, <1>2, <1>4, <1>7, <1>8, Tasks DEF MemoryInv, RootObjects
<1>13. IdleObjects'
  <2>1. SeedTask # Idle
    BY Tasks
  <2> QED BY <2>1, <1>1 DEF MemoryInv, IdleObjects, Own
<1>14. Phases'
  BY <1>1, <1>2, <1>4, <1>7, Tasks DEF MemoryInv, Phases, Accepted, Refused
<1>15. Counted'
  BY <1>1, <1>2, <1>4, <1>8, KinTasks DEF MemoryInv, Counted, ChildrenOf
<1>16. Lists'
  <2>1. \A q \in Task : Waiting(q)' = Waiting(q)
    BY <1>1, <1>2, <1>4, <1>5, <1>6 DEF Waiting, Stack
  <2> QED BY <2>1, <1>1, <1>4, ListsFrame
<1>17. Walks' /\ Misuses'
  BY <1>1, <1>3 DEF MemoryInv, Walks, Misuses, Refused
<1> QED BY <1>1, <1>9, <1>10, <1>11, <1>12, <1>13, <1>14, <1>15, <1>16, <1>17,
           QueueFrame, LinksStutter DEF MemoryInv

LEMMA ShutDownKeeps == MemoryInv /\ ShutDown => MemoryInv' /\ FamilyStep
<1> SUFFICES ASSUME MemoryInv, ShutDown PROVE MemoryInv' /\ FamilyStep
  OBVIOUS
<1> DEFINE mine == Own(Idle) \cup {<<"task", Idle>>}
<1>1. /\ UNCHANGED <<link, parent, named, made, top, newtask, children, current, walks>>
      /\ UNCHANGED queueVars
      /\ \/ mode = "closing" /\ mode' = "ended"
         \/ mode = "failing" /\ mode' = "failed"
      /\ live' = live \ mine /\ Use(mine)
  BY DEF ShutDown, profileVars, taskVars
<1>2. misused' = misused
  BY <1>1, UseLive DEF MemoryInv, IdleObjects
<1>3. /\ Known' = Known /\ Titled' = Titled /\ Alive' = Alive
      /\ Born' = Born /\ Asleep' = Asleep /\ Kin' = Kin
      /\ \A t \in Task : Queued(t)' = Queued(t)
  BY <1>1, Tasks DEF Own, Known, Titled, Alive, Born, Asleep, Kin, queueVars, Queued
<1>4. Types'
  BY <1>1, <1>3 DEF MemoryInv, Types, Refused, Accepted
<1>5. Rooted'
  BY <1>1, <1>3 DEF MemoryInv, Rooted
<1>6. Objects'
  BY <1>1, <1>3 DEF MemoryInv, Objects, Process
<1>7. RootObjects'
  BY <1>1, <1>3, Tasks DEF MemoryInv, RootObjects
<1>8. IdleObjects'
  BY <1>1 DEF MemoryInv, IdleObjects, Own
<1>9. Phases'
  BY <1>1, <1>3 DEF MemoryInv, Phases, Accepted, Refused
<1>10. Counted'
  BY <1>1, <1>3 DEF MemoryInv, Counted, ChildrenOf
<1>11. Lists'
  <2>1. \A q \in Task : Waiting(q)' = Waiting(q)
    BY <1>1, <1>3 DEF Waiting, Stack
  <2> QED BY <2>1, <1>1, <1>3, ListsFrame
<1>12. Walks' /\ Misuses'
  BY <1>1, <1>2 DEF MemoryInv, Walks, Misuses, Refused
<1> QED BY <1>1, <1>4, <1>5, <1>6, <1>7, <1>8, <1>9, <1>10, <1>11, <1>12,
           QueueFrame, LinksStutter DEF MemoryInv

-----------------------------------------------------------------------------
(* What each list operation of the machine does to all lists               *)

UnbornOf(p) == Entries(link, SpawnList(p))
Sleepers == Entries(link, IntWaitList)

LEMMA ListNodes ==
  ASSUME MemoryInv
  PROVE  /\ link \in [Node -> ListHead]
         /\ WaitNodes(Asleep) \subseteq Node
         /\ \A p \in Kin : p \in Task /\ Waiting(p) \subseteq Task /\ Clists(Waiting(p)) \subseteq Node
<1>1. Kin \subseteq Task /\ made \subseteq Task
  BY KinTasks DEF MemoryInv
<1>2. \A p \in Kin : Waiting(p) \subseteq Task
  BY <1>1 DEF Waiting
<1>3. \A S \in SUBSET Task : Clists(S) \subseteq Node /\ WaitNodes(S) \subseteq Node
  BY Nodes DEF Clists, WaitNodes
<1>4. Asleep \in SUBSET Task /\ \A p \in Kin : Waiting(p) \in SUBSET Task
  BY <1>2 DEF Asleep
<1> QED BY <1>1, <1>3, <1>4 DEF MemoryInv, Types

\* A link may change that is on none of the lists.
LEMMA OthersKeep ==
  ASSUME MemoryInv, NEW m \in [Node -> ListHead], NEW C \in SUBSET Node,
         \A x \in Node \ C : m[x] = link[x]
  PROVE  /\ C \cap (WaitNodes(Asleep) \cup {IntWaitList}) = {} =>
              /\ Holds(m, IntWaitList, WaitNodes(Asleep))
              /\ Entries(m, IntWaitList) = Sleepers
         /\ \A p \in Kin : C \cap (Clists(Waiting(p)) \cup {SpawnList(p)}) = {} =>
              /\ Holds(m, SpawnList(p), Clists(Waiting(p)))
              /\ Entries(m, SpawnList(p)) = UnbornOf(p)
              /\ m[SpawnList(p)] = link[SpawnList(p)]
<1>1. /\ link \in [Node -> ListHead]
      /\ WaitNodes(Asleep) \subseteq Node
      /\ \A p \in Kin : p \in Task /\ Clists(Waiting(p)) \subseteq Node
  BY ListNodes
<1>2. Holds(link, IntWaitList, WaitNodes(Asleep))
  BY DEF MemoryInv, Lists
<1>3. \A p \in Kin : Holds(link, SpawnList(p), Clists(Waiting(p))) /\ SpawnList(p) \in Node
  BY <1>1, Nodes DEF MemoryInv, Lists
<1>4. ASSUME C \cap (WaitNodes(Asleep) \cup {IntWaitList}) = {}
      PROVE  /\ Holds(m, IntWaitList, WaitNodes(Asleep))
             /\ Entries(m, IntWaitList) = Sleepers
  <2>1. \A x \in WaitNodes(Asleep) \cup {IntWaitList} : m[x] = link[x]
    BY <1>1, <1>4, Nodes
  <2> QED BY <2>1, <1>1, <1>2, Nodes, HoldsFrame DEF Sleepers
<1>5. ASSUME NEW p \in Kin, C \cap (Clists(Waiting(p)) \cup {SpawnList(p)}) = {}
      PROVE  /\ Holds(m, SpawnList(p), Clists(Waiting(p)))
             /\ Entries(m, SpawnList(p)) = UnbornOf(p)
             /\ m[SpawnList(p)] = link[SpawnList(p)]
  <2>1. \A x \in Clists(Waiting(p)) \cup {SpawnList(p)} : m[x] = link[x]
    BY <1>1, <1>3, <1>5
  <2> QED BY <2>1, <1>1, <1>3, HoldsFrame DEF UnbornOf
<1> QED BY <1>4, <1>5

\* list_del of a child from its parent's list.
ChildUnlinked(m, p, t) ==
  /\ m \in [Node -> ListHead]
  /\ Holds(m, IntWaitList, WaitNodes(Asleep)) /\ Entries(m, IntWaitList) = Sleepers
  /\ \A q \in Kin \ {p} :
       /\ Holds(m, SpawnList(q), Clists(Waiting(q)))
       /\ Entries(m, SpawnList(q)) = UnbornOf(q)
       /\ m[SpawnList(q)] = link[SpawnList(q)]
  /\ Holds(m, SpawnList(p), Clists(Waiting(p) \ {t}))
  /\ link[SpawnList(p)].next = Clist(t) => m[SpawnList(p)].next = link[Clist(t)].next
  /\ link[Clist(t)].next \in Clists(Waiting(p) \ {t}) \cup {SpawnList(p)}
  /\ \A q \in Task \ Kin : m[SpawnList(q)].next = Null
  /\ \E i \in 1 .. Len(UnbornOf(p)) :
       Entries(m, SpawnList(p)) = Order!RemoveAt(UnbornOf(p), i)

LEMMA UnlinkChild ==
  ASSUME MemoryInv, NEW p \in Kin, NEW t \in Waiting(p)
  PROVE  ChildUnlinked(ListDel(link, Clist(t)), p, t)
<1> DEFINE m == ListDel(link, Clist(t))
           X == Clists(Waiting(p))
           h == SpawnList(p)
           C == X \cup {h}
<1>1. /\ link \in [Node -> ListHead] /\ p \in Task /\ Waiting(p) \subseteq Task /\ t \in Task
      /\ X \subseteq Node /\ h \in Node /\ Clist(t) \in X /\ Holds(link, h, X)
  BY ListNodes, Nodes DEF Clists, MemoryInv, Lists
<1> HIDE DEF m
<1>2. /\ m \in [Node -> ListHead] /\ Holds(m, h, X \ {Clist(t)})
      /\ \E i \in 1 .. Len(Entries(link, h)) :
           Entries(m, h) = Order!RemoveAt(Entries(link, h), i)
      /\ link[h].next = Clist(t) => m[h].next = link[Clist(t)].next
      /\ \A x \in Node \ C : m[x] = link[x]
  <2>1. Unlinked(link, m, Clist(t), h, X)
    BY <1>1, HoldsDel DEF m
  <2> HIDE DEF h, X
  <2> QED BY <2>1 DEF Unlinked
<1>3. X \ {Clist(t)} = Clists(Waiting(p) \ {t})
  BY <1>1, Nodes DEF Clists
<1>4. link[Clist(t)].next \in (X \ {Clist(t)}) \cup {h}
  <2>1. link[Clist(t)].next \in X \cup {h} /\ link[Clist(t)].next # Clist(t)
    BY <1>1, HoldsStep
  <2> QED BY <2>1
<1>5. C \cap (WaitNodes(Asleep) \cup {IntWaitList}) = {}
  <2>1. ASSUME NEW x \in C, NEW u \in Asleep PROVE x # WaitNode(u) /\ x # IntWaitList
    <3>1. u \in Task
      BY DEF Asleep
    <3>2. CASE x = h
      BY <3>1, <3>2, <1>1, Nodes
    <3>3. CASE x \in X
      <4>1. PICK v \in Task : x = Clist(v)
        BY <3>3, <1>1 DEF Clists
      <4> QED BY <4>1, <3>1, Nodes
    <3> QED BY <3>2, <3>3
  <2>2. \A x \in C : x # IntWaitList
    BY <1>1, Nodes DEF Clists
  <2> QED BY <2>1, <2>2 DEF WaitNodes
<1>6. \A q \in Kin \ {p} : C \cap (Clists(Waiting(q)) \cup {SpawnList(q)}) = {}
  <2> TAKE q \in Kin \ {p}
  <2>1. q \in Task /\ Waiting(q) \subseteq Task /\ Waiting(p) \cap Waiting(q) = {}
    BY ListNodes DEF Waiting
  <2> QED BY <2>1, <1>1, Nodes DEF Clists
<1>7. C \in SUBSET Node
  BY <1>1
<1>8. /\ Holds(m, IntWaitList, WaitNodes(Asleep)) /\ Entries(m, IntWaitList) = Sleepers
      /\ \A q \in Kin \ {p} :
           /\ Holds(m, SpawnList(q), Clists(Waiting(q)))
           /\ Entries(m, SpawnList(q)) = UnbornOf(q)
           /\ m[SpawnList(q)] = link[SpawnList(q)]
  <2> HIDE DEF C
  <2> QED BY <1>2, <1>5, <1>6, <1>7, OthersKeep
<1>9. \A q \in Task \ Kin : m[SpawnList(q)].next = Null
  <2>1. ASSUME NEW q \in Task \ Kin PROVE SpawnList(q) \in Node \ C /\ link[SpawnList(q)].next = Null
    BY <1>1, Nodes DEF Clists, MemoryInv, Lists
  <2> QED BY <2>1, <1>2
<1> QED BY <1>2, <1>3, <1>4, <1>8, <1>9 DEF ChildUnlinked, UnbornOf, m

(* The families that the lists stand for                                   *)

LEMMA TasksOfIs ==
  ASSUME NEW l \in [Node -> ListHead], NEW h \in Node, NEW X, Holds(l, h, X)
  PROVE  l[h].next # Null
<1>1. l[h].next \in X \cup {h} /\ X \subseteq Node
  BY HoldsStep, HoldsNodes
<1> QED BY <1>1, NodeAssumption

\* The tasks of one more node.
LEMMA TaskAppended ==
  ASSUME NEW s \in Seq(Node), NEW n
  PROVE  [k \in DOMAIN Append(s, n) |-> Append(s, n)[k][2]]
           = Append([k \in DOMAIN s |-> s[k][2]], n[2])
<1> DEFINE z == [k \in DOMAIN s |-> s[k][2]]
           e == Append(s, n)
           y == [k \in DOMAIN e |-> e[k][2]]
<1>1. Len(s) \in Nat /\ DOMAIN s = 1 .. Len(s) /\ DOMAIN e = 1 .. Len(s) + 1
      /\ e[Len(s) + 1] = n /\ \A k \in 1 .. Len(s) : e[k] = s[k]
  OBVIOUS
<1> HIDE DEF e
<1>2. z = [k \in 1 .. Len(s) |-> s[k][2]] /\ Len(z) = Len(s)
  <2> DEFINE S == {s[k][2] : k \in 1 .. Len(s)}
  <2>1. z = [k \in 1 .. Len(s) |-> s[k][2]]
    BY <1>1
  <2>2. z \in [1 .. Len(s) -> S]
    BY <2>1
  <2> HIDE DEF S, z
  <2>3. Len(z) = Len(s)
    BY <2>2, <1>1
  <2> QED BY <2>1, <2>3
<1> HIDE DEF z
<1>3. Append(z, n[2]) = [k \in 1 .. Len(s) + 1 |-> IF k = Len(s) + 1 THEN n[2] ELSE s[k][2]]
  BY <1>1, <1>2 DEF Append
<1>4. y = [k \in 1 .. Len(s) + 1 |-> IF k = Len(s) + 1 THEN n[2] ELSE s[k][2]]
  BY <1>1
<1> QED BY <1>3, <1>4 DEF y, z, e

\* Only who waits to be born is listed.
LEMMA NotListed ==
  ASSUME MemoryInv, NEW t \in Task, \A p \in Kin : t \notin Waiting(p)
  PROVE  ~ Family!Listed(t)
<1> SUFFICES ASSUME NEW p \in Task, NEW i \in DOMAIN TasksOf(SpawnList(p)),
                    TasksOf(SpawnList(p))[i] = t
             PROVE  FALSE
  BY DEF Family!Listed
<1> DEFINE b == UnbornOf(p)
<1>1. p \in Kin
  BY DEF MemoryInv, Lists, TasksOf
<1>2. Holds(link, SpawnList(p), Clists(Waiting(p))) /\ link[SpawnList(p)].next # Null
  BY <1>1, ListNodes, Nodes, TasksOfIs DEF MemoryInv, Lists
<1>3. On(b) = Clists(Waiting(p)) /\ b \in Seq(Node \ {SpawnList(p)})
      /\ TasksOf(SpawnList(p)) = [k \in DOMAIN b |-> b[k][2]]
  BY <1>2 DEF Holds, Ring, UnbornOf, TasksOf
<1>4. i \in 1 .. Len(b) /\ b[i][2] = t
  BY <1>3
<1> HIDE DEF b
<1>5. b[i] \in Clists(Waiting(p))
  BY <1>3, <1>4 DEF On
<1>6. PICK u \in Waiting(p) : b[i] = Clist(u)
  BY <1>5 DEF Clists
<1> QED BY <1>1, <1>4, <1>6, ListNodes, Nodes

\* One child less in one list.
LEMMA ChildLeaves ==
  ASSUME MemoryInv, NEW p \in Kin, NEW t \in Waiting(p), ChildUnlinked(link', p, t), UNCHANGED made
  PROVE  FamilyStep
<1> DEFINE un == [q \in Task |-> TasksOf(SpawnList(q))]
           s == UnbornOf(p)
<1>1. p \in Task /\ \A q \in Kin : q \in Task /\ SpawnList(q) \in Node
  BY ListNodes, Nodes
<1>2. /\ link \in [Node -> ListHead] /\ link' \in [Node -> ListHead]
      /\ \A q \in Kin : /\ link[SpawnList(q)].next # Null
                        /\ link'[SpawnList(q)].next # Null
  BY <1>1, TasksOfIs DEF MemoryInv, Types, Lists, ChildUnlinked
<1>3. PICK i \in 1 .. Len(s) : Entries(link', SpawnList(p)) = Order!RemoveAt(s, i)
  BY DEF ChildUnlinked
<1>4. s \in Seq(Node)
  <2>1. Holds(link, SpawnList(p), Clists(Waiting(p)))
    BY DEF MemoryInv, Lists
  <2>2. s \in Seq(Node \ {SpawnList(p)})
    BY <2>1 DEF Holds, Ring, UnbornOf
  <2> HIDE DEF s
  <2> QED BY <2>2
<1>5. un[p] = [k \in DOMAIN s |-> s[k][2]]
  BY <1>1, <1>2 DEF TasksOf, UnbornOf
<1>6. /\ Order!RemoveAt(s, i) = [j \in 1 .. Len(s) - 1 |-> IF j < i THEN s[j] ELSE s[j + 1]]
      /\ Len(s) \in Nat
  BY <1>4, RemoveAtIs
<1>7. DOMAIN s = 1 .. Len(s) /\ \A k \in 1 .. Len(s) : s[k] \in Node
  BY <1>4
<1>8. un'[p] = [k \in 1 .. Len(s) - 1 |-> Order!RemoveAt(s, i)[k][2]]
  <2>1. un'[p] = TasksOf(SpawnList(p))'
    BY <1>1
  <2>2. TasksOf(SpawnList(p))' = [k \in DOMAIN Entries(link', SpawnList(p)) |-> Entries(link', SpawnList(p))[k][2]]
    BY <1>2 DEF TasksOf
  <2>3. DOMAIN Order!RemoveAt(s, i) = 1 .. Len(s) - 1
    BY <1>6
  <2> QED BY <2>1, <2>2, <2>3, <1>3
<1>9. Family!RemoveAt(un[p], i) = [j \in 1 .. Len(s) - 1 |-> IF j < i THEN un[p][j] ELSE un[p][j + 1]]
  <2> DEFINE u == [k \in 1 .. Len(s) |-> s[k][2]]
  <2>1. u = un[p]
    BY <1>5, <1>7
  <2>2. u \in Seq({s[k][2] : k \in 1 .. Len(s)}) /\ Len(u) = Len(s)
    <3> DEFINE n == Len(s)
               S == {s[k][2] : k \in 1 .. n}
    <3>1. n \in Nat /\ u \in [1 .. n -> S]
      BY <1>6
    <3> HIDE DEF u, n, S
    <3>2. u \in Seq(S) /\ Len(u) = n
      BY <3>1
    <3> QED BY <3>2 DEF n, S
  <2> HIDE DEF u, un
  <2>3. Order!RemoveAt(u, i) = [j \in 1 .. Len(u) - 1 |-> IF j < i THEN u[j] ELSE u[j + 1]]
    BY <2>2, RemoveAtIs
  <2>4. Family!RemoveAt(u, i) = Order!RemoveAt(u, i)
    BY DEF Family!RemoveAt, Order!RemoveAt
  <2> QED BY <2>1, <2>2, <2>3, <2>4
<1>10. un'[p] = Family!RemoveAt(un[p], i)
  <2>1. \A j \in 1 .. Len(s) - 1 : j \in 1 .. Len(s) /\ j + 1 \in 1 .. Len(s)
    BY <1>6
  <2>2. \A j \in 1 .. Len(s) : un[p][j] = s[j][2]
    BY <1>5, <1>7
  <2>3. \A j \in 1 .. Len(s) - 1 :
          Order!RemoveAt(s, i)[j][2] = IF j < i THEN un[p][j] ELSE un[p][j + 1]
    BY <2>1, <2>2, <1>6
  <2> HIDE DEF un
  <2> QED BY <2>3, <1>8, <1>9
<1>11. \A q \in Task \ {p} : un'[q] = un[q]
  <2> TAKE q \in Task \ {p}
  <2>1. CASE q \in Kin
    <3>1. Entries(link', SpawnList(q)) = Entries(link, SpawnList(q))
      BY <2>1 DEF ChildUnlinked, UnbornOf
    <3> QED BY <3>1, <2>1, <1>2 DEF TasksOf
  <2>2. CASE q \notin Kin
    BY <2>2 DEF TasksOf, ChildUnlinked, MemoryInv, Lists
  <2> QED BY <2>1, <2>2
<1>12. un' = [un EXCEPT ![p] = Family!RemoveAt(@, i)]
  <2>1. un' = [q \in Task |-> un'[q]] /\ un = [q \in Task |-> un[q]]
    OBVIOUS
  <2> HIDE DEF un
  <2> QED BY <2>1, <1>1, <1>10, <1>11
<1>13. TasksOf(IntWaitList)' = TasksOf(IntWaitList)
  <2>1. link[IntWaitList].next # Null /\ link'[IntWaitList].next # Null
    BY <1>2, Nodes, TasksOfIs DEF MemoryInv, Lists, ChildUnlinked
  <2>2. Entries(link', IntWaitList) = Entries(link, IntWaitList)
    BY DEF ChildUnlinked, Sleepers
  <2> QED BY <2>1, <2>2 DEF TasksOf
<1>14. i \in DOMAIN un[p]
  BY <1>5, <1>7
<1>15. Family!Leave(p, i)
  BY <1>12, <1>13 DEF Family!Leave
<1>16. Family!FamilyNext
  BY <1>1, <1>14, <1>15 DEF Family!FamilyNext
<1> QED BY <1>16 DEF FamilyStep

-----------------------------------------------------------------------------
(* Births                                                                  *)

\* The place of the walk is a child that waits to be born, off the run queue.
LEMMA Forking ==
  ASSUME MemoryInv, ForkChild
  PROVE  LET t == walk.at[2]
             p == parent[t]
         IN /\ walk.at = Clist(t) /\ walk = [head |-> SpawnList(p), at |-> Clist(t)]
            /\ p \in Kin \cap Alive \cap Known \cap Titled /\ p \in Task
            /\ t \in Waiting(p) /\ t \in made /\ t \in Process /\ t \in Task
            /\ t \in Known \cap Titled /\ t \notin Alive /\ t \notin Born
            /\ SeedTask \in Alive /\ Insert(t)
            /\ Use(Own(t) \cup Own(p) \cup FrontTasks \cup Holding(Around(walk.at)))
<1> DEFINE t == walk.at[2]
           p == parent[t]
<1>1. /\ mode = "spawning" /\ walk.at # walk.head /\ InsertAfterHead(t)
      /\ Use(Own(t) \cup Own(p) \cup FrontTasks \cup Holding(Around(walk.at)))
  BY DEF ForkChild, AtEnd
<1>2. PICK q \in Kin \cap Alive \cap Known :
        /\ q \in Task
        /\ walk.head = SpawnList(q)
        /\ walk = [head |-> walk.head, at |-> walk.at]
        /\ walk.at \in Clists(Waiting(q)) \cup {SpawnList(q)}
  BY <1>1, Spawning
<1>3. PICK u \in Waiting(q) : walk.at = Clist(u)
  BY <1>1, <1>2 DEF Clists
<1>4. u \in made /\ parent[u] = q /\ u \in Task /\ u \in Known /\ u \notin Born
  BY ListNodes DEF Waiting
<1>5. t = u /\ p = q
  BY <1>3, <1>4, Nodes
<1> HIDE DEF t, p
<1>6. t \in Process
  BY <1>4, <1>5 DEF MemoryInv, Types
<1>7. made \subseteq named
  BY <1>1 DEF MemoryInv, Phases, Accepted
<1>8. t \in Titled /\ t \notin Alive /\ ~ Queued(t)
  BY <1>4, <1>5, <1>6, <1>7 DEF MemoryInv, Objects
<1>9. p \in Titled
  BY <1>2, <1>5, <1>7 DEF MemoryInv, Objects, RootObjects, Kin, Types
<1>10. SeedTask \in Alive /\ Queued(SeedTask)
  <2>1. SeedTask \in Alive
    BY <1>2, RootAlive
  <2> QED BY <2>1 DEF MemoryInv, RootObjects
<1>11. Insert(t)
  BY <1>1, <1>8, <1>10 DEF Insert, t
<1> QED BY <1>1, <1>2, <1>3, <1>4, <1>5, <1>6, <1>8, <1>9, <1>10, <1>11 DEF t, p

LEMMA ForkChildKeeps == MemoryInv /\ ForkChild => MemoryInv' /\ FamilyStep
<1> SUFFICES ASSUME MemoryInv, ForkChild PROVE MemoryInv' /\ FamilyStep
  OBVIOUS
<1>2. PICK t \in Process, p \in Task :
      /\ t = walk.at[2] /\ p = parent[t]
      /\ walk.at = Clist(t) /\ walk = [head |-> SpawnList(p), at |-> Clist(t)]
      /\ p \in Kin \cap Alive \cap Known \cap Titled /\ p \in Task
      /\ t \in Waiting(p) /\ t \in made /\ t \in Process /\ t \in Task
      /\ t \in Known \cap Titled /\ t \notin Alive /\ t \notin Born
      /\ SeedTask \in Alive /\ Insert(t)
      /\ Use(Own(t) \cup Own(p) \cup FrontTasks \cup Holding(Around(walk.at)))
  BY Forking
<1>1. /\ UNCHANGED <<mode, parent, named, made, top, newtask, current>>
      /\ mode = "spawning" /\ Onward
      /\ live' = live \cup Created(t)
      /\ children' = [children EXCEPT ![p] = @ + 1]
      /\ link' = ListDel(link, walk.at)
  BY <1>2 DEF ForkChild, profileVars
<1>3. misused' = misused
  <2>1. Own(t) \subseteq live /\ Own(p) \subseteq live
    BY <1>2 DEF Own, Known, Titled
  <2>2. FrontTasks \subseteq live
    BY <1>2, FrontLive
  <2>3. Holding(Around(walk.at)) \subseteq live
    BY <1>2, ChildNodesLive DEF Clists
  <2> QED BY <2>1, <2>2, <2>3, <1>2, UseLive
<1>4. QueueInv' /\ QueuedTasks' = QueuedTasks \cup {t}
  BY <1>2, InsertKeepsLinks DEF MemoryInv
<1>5. \A u \in Task : Queued(u)' <=> Queued(u) \/ u = t
  BY <1>2, <1>4 DEF QueuedTasks
<1>6. /\ Known' = Known /\ Titled' = Titled /\ Alive' = Alive \cup {t}
      /\ Born' = Born \cup {t} /\ Asleep' = Asleep /\ Kin' = Kin
  BY <1>1, <1>2 DEF Created, Known, Titled, Alive, Born, Asleep, Kin
<1>7. ChildUnlinked(link', p, t)
  BY <1>1, <1>2, UnlinkChild
<1>8. Counted' /\ children' \in [Task -> Nat]
  <2>1. ASSUME NEW u \in Process \cap Alive' PROVE parent'[u] \in Alive'
    <3>1. CASE u = t
      BY <3>1, <1>1, <1>2, <1>6
    <3>2. CASE u # t
      BY <3>2, <1>1, <1>6 DEF MemoryInv, Counted
    <3> QED BY <3>1, <3>2
  <2>2. ASSUME NEW q \in Task
        PROVE  children'[q] = Cardinality(ChildrenOf(q)') /\ children'[q] \in Nat
    <3>1. IsFiniteSet(ChildrenOf(q)) /\ children[q] = Cardinality(ChildrenOf(q)) /\ children[q] \in Nat
      BY FS_Subset, QueueAssumption DEF ChildrenOf, Alive, MemoryInv, Counted, Types
    <3>2. ChildrenOf(q)' = IF q = p THEN ChildrenOf(q) \cup {t} ELSE ChildrenOf(q)
      BY <1>1, <1>2, <1>6 DEF ChildrenOf
    <3>3. CASE q = p
      <4>1. t \notin ChildrenOf(q)
        BY <1>2 DEF ChildrenOf
      <4>2. children'[q] = children[q] + 1
        BY <3>3, <1>1, <1>2 DEF MemoryInv, Types
      <4>3. Cardinality(ChildrenOf(q) \cup {t}) = Cardinality(ChildrenOf(q)) + 1
        BY <3>1, <4>1, FS_AddElement
      <4> QED BY <3>1, <3>2, <3>3, <4>2, <4>3
    <3>4. CASE q # p
      BY <3>1, <3>2, <3>4, <1>1 DEF MemoryInv, Types
    <3> QED BY <3>3, <3>4
  <2>3. DOMAIN children' = Task /\ children' = [q \in Task |-> children'[q]]
    BY <1>1 DEF MemoryInv, Types
  <2> QED BY <2>1, <2>2, <2>3 DEF Counted
<1>9. Types'
  <2>1. link' \in [Node -> ListHead]
    BY <1>7 DEF ChildUnlinked
  <2>2. live' \subseteq Object
    <3>1. Created(t) \subseteq Object
      <4>1. <<"task", t>> \in Object /\ <<"spare", t>> \in Object
        BY <1>2 DEF Object
      <4> QED BY <4>1 DEF Created
    <3> QED BY <3>1, <1>1 DEF MemoryInv, Types
  <2> QED BY <2>1, <2>2, <1>1, <1>6, <1>8 DEF MemoryInv, Types
<1>10. Rooted'
  BY <1>1, <1>6 DEF MemoryInv, Rooted
<1>11. Objects'
  BY <1>1, <1>2, <1>5, <1>6 DEF MemoryInv, Objects, Process
<1>12. RootObjects'
  BY <1>1, <1>2, <1>5, <1>6, Tasks DEF MemoryInv, RootObjects, Process
<1>13. IdleObjects'
  BY <1>1, <1>2, Tasks DEF MemoryInv, IdleObjects, Created
<1>14. Phases'
  BY <1>1, <1>2, <1>6 DEF MemoryInv, Phases, Accepted, Refused
<1>15. \A q \in Kin : Waiting(q)' = IF q = p THEN Waiting(p) \ {t} ELSE Waiting(q)
  BY <1>1, <1>2, <1>6 DEF Waiting, Stack
<1>16. Lists'
  BY <1>1, <1>2, <1>6, <1>7, <1>15 DEF Lists, ChildUnlinked
<1>17. Walks'
  <2>1. link[Clist(t)].next \in Clists(Waiting(p) \ {t}) \cup {SpawnList(p)}
    BY <1>7 DEF ChildUnlinked
  <2>2. walks' = <<[head |-> SpawnList(p), at |-> link[Clist(t)].next]>>
    <3>1. walks' = <<[walk EXCEPT !.at = link[walk.at].next]>>
      BY <1>1 DEF Onward
    <3>2. [walk EXCEPT !.at = link[walk.at].next] = [head |-> SpawnList(p), at |-> link[Clist(t)].next]
      <4> DEFINE h == SpawnList(p)
                 n == Clist(t)
      <4>1. walk = [head |-> h, at |-> n]
        BY <1>2
      <4> HIDE DEF h, n
      <4>2. [walk EXCEPT !.at = link[walk.at].next] = [head |-> h, at |-> link[n].next]
        BY <4>1
      <4> QED BY <4>2 DEF h, n
    <3> QED BY <3>1, <3>2
  <2>3. Waiting(p)' = Waiting(p) \ {t}
    BY <1>2, <1>15
  <2>4. SpawnWalk'
    BY <1>2, <1>6, <2>1, <2>2, <2>3 DEF SpawnWalk, OneWalk, Clists
  <2> QED BY <1>1, <2>4 DEF Walks
<1>18. Misuses'
  BY <1>1, <1>3 DEF MemoryInv, Misuses, Refused
<1>19. FamilyStep
  BY <1>1, <1>2, <1>7, ChildLeaves
<1> QED BY <1>4, <1>8, <1>9, <1>10, <1>11, <1>12, <1>13, <1>14, <1>16, <1>17, <1>18, <1>19 DEF MemoryInv

-----------------------------------------------------------------------------
(* Sleepers                                                                *)

\* A change of the wait list is a change of nothing else.
LEMMA WaitNodesApart ==
  ASSUME MemoryInv, NEW S \in SUBSET Task, NEW C, C \subseteq WaitNodes(S) \cup {IntWaitList}
  PROVE  /\ C \subseteq Node
         /\ \A p \in Kin : C \cap (Clists(Waiting(p)) \cup {SpawnList(p)}) = {}
         /\ \A p \in Task \ Kin : SpawnList(p) \in Node \ C
<1>1. \A x \in C : x = IntWaitList \/ \E u \in Task : x = WaitNode(u)
  BY DEF WaitNodes
<1>2. \A p \in Kin : p \in Task /\ Waiting(p) \subseteq Task
  BY ListNodes
<1>3. C \subseteq Node
  BY <1>1, Nodes
<1>4. ASSUME NEW p \in Kin, NEW x \in C PROVE x \notin Clists(Waiting(p)) \cup {SpawnList(p)}
  <2>1. CASE x = IntWaitList
    BY <2>1, <1>2, Nodes DEF Clists
  <2>2. CASE \E u \in Task : x = WaitNode(u)
    <3>1. PICK u \in Task : x = WaitNode(u)
      BY <2>2
    <3>2. \A v \in Waiting(p) : Clist(v) # WaitNode(u)
      BY <1>2, Nodes
    <3> QED BY <3>1, <3>2, <1>2, Nodes DEF Clists
  <2> QED BY <2>1, <2>2, <1>1
<1>5. ASSUME NEW p \in Task \ Kin PROVE SpawnList(p) \in Node \ C
  BY <1>1, Nodes
<1> QED BY <1>3, <1>4, <1>5

\* A family step that only moves sleepers.
LEMMA OnlySleepers ==
  ASSUME MemoryInv, NEW m \in [Node -> ListHead], link' = m, UNCHANGED made,
         NEW X, Holds(m, IntWaitList, X),
         \A p \in Kin : Holds(m, SpawnList(p), Clists(Waiting(p))) /\ Entries(m, SpawnList(p)) = UnbornOf(p),
         \A p \in Task \ Kin : m[SpawnList(p)].next = Null
  PROVE  /\ UNCHANGED [t \in Task |-> TasksOf(SpawnList(t))]
         /\ Sleepers \in Seq(Node) /\ Entries(m, IntWaitList) \in Seq(Node)
         /\ TasksOf(IntWaitList) = [k \in DOMAIN Sleepers |-> Sleepers[k][2]]
         /\ TasksOf(IntWaitList)' =
              [k \in DOMAIN Entries(m, IntWaitList) |-> Entries(m, IntWaitList)[k][2]]
<1>1. link \in [Node -> ListHead] /\ Holds(link, IntWaitList, WaitNodes(Asleep))
  BY DEF MemoryInv, Types, Lists
<1>2. link[IntWaitList].next # Null /\ m[IntWaitList].next # Null
  BY <1>1, Nodes, TasksOfIs
<1>3. ASSUME NEW p \in Task PROVE TasksOf(SpawnList(p))' = TasksOf(SpawnList(p))
  <2>1. CASE p \in Kin
    <3>1. Holds(link, SpawnList(p), Clists(Waiting(p))) /\ SpawnList(p) \in Node
      BY <2>1, Nodes DEF MemoryInv, Lists
    <3>2. link[SpawnList(p)].next # Null /\ m[SpawnList(p)].next # Null
      BY <2>1, <3>1, <1>1, TasksOfIs
    <3>3. Entries(m, SpawnList(p)) = Entries(link, SpawnList(p))
      BY <2>1 DEF UnbornOf
    <3> QED BY <3>2, <3>3 DEF TasksOf
  <2>2. CASE p \notin Kin
    BY <2>2 DEF TasksOf, MemoryInv, Lists
  <2> QED BY <2>1, <2>2
<1>4. Sleepers \in Seq(Node \ {IntWaitList}) /\ Entries(m, IntWaitList) \in Seq(Node \ {IntWaitList})
  BY <1>1 DEF Holds, Ring, Sleepers
<1>5. Sleepers \in Seq(Node) /\ Entries(m, IntWaitList) \in Seq(Node)
  <2> DEFINE s == Sleepers
             e == Entries(m, IntWaitList)
  <2>1. s \in Seq(Node \ {IntWaitList}) /\ e \in Seq(Node \ {IntWaitList})
    BY <1>4
  <2> HIDE DEF s, e
  <2>2. s \in Seq(Node) /\ e \in Seq(Node)
    BY <2>1
  <2> QED BY <2>2 DEF s, e
<1>6. /\ TasksOf(IntWaitList) = [k \in DOMAIN Sleepers |-> Sleepers[k][2]]
      /\ TasksOf(IntWaitList)' =
           [k \in DOMAIN Entries(m, IntWaitList) |-> Entries(m, IntWaitList)[k][2]]
  BY <1>2 DEF TasksOf, Sleepers
<1> QED BY <1>3, <1>5, <1>6

LEMMA SleepKeeps == MemoryInv /\ Sleep => MemoryInv' /\ FamilyStep /\ Remove(current)
<1> SUFFICES ASSUME MemoryInv, Sleep PROVE MemoryInv' /\ FamilyStep /\ Remove(current)
  OBVIOUS
<1>0. PICK t \in Process : t = current
  BY DEF Sleep, InCycle
<1> DEFINE n == WaitNode(t)
           l1 == InitListHead(link, n)
           m == ListAddTail(l1, n, IntWaitList)
<1>1. /\ UNCHANGED <<mode, parent, named, made, top, newtask, children, current, walks>>
      /\ mode = "running" /\ t \in Process /\ t \in Task /\ t # SeedTask /\ Queued(t)
      /\ live' = live \cup {n} /\ link' = m /\ Unlink(t)
      /\ Use(Neighbours(t) \cup Holding(Around(IntWaitList)))
  BY <1>0 DEF Sleep, InCycle, profileVars, taskVars, Process
<1>2. t \in Alive /\ t \in Born /\ t \in made /\ t \notin Asleep /\ t \in Known
  BY <1>1 DEF MemoryInv, Objects
<1>3. misused' = misused
  <2>1. Neighbours(t) \subseteq live
    BY <1>1, NeighboursLive
  <2>2. Holding(Around(IntWaitList)) \subseteq live
    BY WaitNodesLive
  <2> QED BY <2>1, <2>2, <1>1, UseLive
<1>4. Remove(t)
  BY <1>1 DEF Remove
<1>5. QueueInv' /\ QueuedTasks' = QueuedTasks \ {t}
  BY <1>4, <1>1, RemoveKeepsLinks DEF MemoryInv
<1>6. \A u \in Task : Queued(u)' <=> Queued(u) /\ u # t
  BY <1>5 DEF QueuedTasks
<1>7. /\ Known' = Known /\ Titled' = Titled /\ Alive' = Alive
      /\ Born' = Born /\ Asleep' = Asleep \cup {t} /\ Kin' = Kin
  BY <1>1 DEF WaitNode, Known, Titled, Alive, Born, Asleep, Kin
\* The lists.
<1>8. /\ n \in Node /\ n # IntWaitList /\ n \notin WaitNodes(Asleep)
      /\ WaitNodes(Asleep) \cup {n} = WaitNodes(Asleep \cup {t})
      /\ Asleep \cup {t} \in SUBSET Task
  BY <1>1, <1>2, Nodes DEF WaitNodes, Asleep
<1>9. /\ link \in [Node -> ListHead] /\ l1 \in [Node -> ListHead]
      /\ \A x \in Node \ {n} : l1[x] = link[x]
  BY <1>8, InitIs DEF MemoryInv, Types
<1> HIDE DEF n, l1, m
<1>10. Holds(l1, IntWaitList, WaitNodes(Asleep)) /\ Entries(l1, IntWaitList) = Sleepers
  <2> DEFINE N == {n}
  <2>1. N \in SUBSET Node /\ (\A x \in Node \ N : l1[x] = link[x])
        /\ N \cap (WaitNodes(Asleep) \cup {IntWaitList}) = {}
    BY <1>8, <1>9
  <2> HIDE DEF N
  <2> QED BY <2>1, <1>9, OthersKeep
<1>11. /\ m \in [Node -> ListHead]
       /\ Holds(m, IntWaitList, WaitNodes(Asleep) \cup {n})
       /\ Entries(m, IntWaitList) = Append(Sleepers, n)
       /\ \A x \in Node \ (WaitNodes(Asleep) \cup {IntWaitList, n}) : m[x] = l1[x]
  <2> DEFINE X == WaitNodes(Asleep)
             s == Sleepers
  <2>1. IntWaitList \in Node /\ Holds(l1, IntWaitList, X) /\ Entries(l1, IntWaitList) = s
        /\ n \in Node /\ n # IntWaitList /\ n \notin X
    BY <1>8, <1>10, Nodes
  <2> HIDE DEF X, s
  <2>2. /\ m \in [Node -> ListHead]
        /\ Holds(m, IntWaitList, X \cup {n})
        /\ Entries(m, IntWaitList) = Append(s, n)
        /\ \A x \in Node \ (X \cup {IntWaitList, n}) : m[x] = l1[x]
    <3>1. TailAdded(l1, m, n, IntWaitList, X)
      BY <2>1, <1>9, HoldsAddTail DEF m
    <3> QED BY <3>1, <2>1 DEF TailAdded
  <2> QED BY <2>2 DEF X, s
<1> DEFINE C == WaitNodes(Asleep \cup {t}) \cup {IntWaitList}
<1>12. \A x \in Node \ C : m[x] = link[x]
  BY <1>8, <1>9, <1>11
<1>13. /\ \A p \in Kin : /\ Holds(m, SpawnList(p), Clists(Waiting(p)))
                         /\ Entries(m, SpawnList(p)) = UnbornOf(p)
       /\ \A p \in Task \ Kin : m[SpawnList(p)].next = Null
  <2>1. /\ C \in SUBSET Node
        /\ \A p \in Kin : C \cap (Clists(Waiting(p)) \cup {SpawnList(p)}) = {}
        /\ \A p \in Task \ Kin : SpawnList(p) \in Node \ C
    BY <1>8, WaitNodesApart
  <2>2. \A p \in Kin : /\ Holds(m, SpawnList(p), Clists(Waiting(p)))
                       /\ Entries(m, SpawnList(p)) = UnbornOf(p)
    <3> HIDE DEF C
    <3> QED BY <2>1, <1>11, <1>12, OthersKeep
  <2>3. \A p \in Task \ Kin : m[SpawnList(p)].next = link[SpawnList(p)].next
    <3> HIDE DEF C
    <3> QED BY <2>1, <1>12
  <2> QED BY <2>2, <2>3 DEF MemoryInv, Lists
<1>14. Types'
  <2>1. n \in Object
    BY <1>1 DEF n, WaitNode, Object
  <2> QED BY <2>1, <1>1, <1>7, <1>11 DEF MemoryInv, Types
<1>15. Rooted'
  BY <1>1, <1>7 DEF MemoryInv, Rooted
<1>16. Objects'
  BY <1>1, <1>2, <1>6, <1>7 DEF MemoryInv, Objects, Process
<1>17. RootObjects'
  BY <1>1, <1>6, <1>7, Tasks DEF MemoryInv, RootObjects
<1>18. IdleObjects'
  BY <1>1, Tasks DEF MemoryInv, IdleObjects, n, WaitNode
<1>19. Phases'
  BY <1>1, <1>2, <1>7 DEF MemoryInv, Phases, Accepted, Refused
<1>20. Counted'
  BY <1>1, <1>7 DEF MemoryInv, Counted, ChildrenOf
<1>21. Lists'
  <2>1. \A p \in Task : Waiting(p)' = Waiting(p)
    BY <1>1, <1>7 DEF Waiting, Stack
  <2>2. Kin \subseteq Task
    BY KinTasks DEF MemoryInv
  <2> QED BY <2>1, <2>2, <1>1, <1>7, <1>8, <1>11, <1>13 DEF Lists
<1>22. Walks' /\ Misuses'
  BY <1>1, <1>3 DEF MemoryInv, Walks, Misuses, Refused
\* The family: t falls asleep.
<1>23. FamilyStep
  <2> DEFINE s == Sleepers
             z == TasksOf(IntWaitList)
  <2>1. /\ UNCHANGED [u \in Task |-> TasksOf(SpawnList(u))]
        /\ s \in Seq(Node) /\ Append(s, n) \in Seq(Node)
        /\ z = [k \in DOMAIN s |-> s[k][2]]
        /\ z' = [k \in DOMAIN Append(s, n) |-> Append(s, n)[k][2]]
    BY <1>1, <1>11, <1>13, OnlySleepers
  <2>2. n[2] = t
    BY <1>1, Nodes DEF n
  <2>3. z' = Append(z, t)
    <3> HIDE DEF s, z
    <3> QED BY <2>1, <2>2, TaskAppended
  <2>4. ~ Family!Sleeping(t)
    <3> SUFFICES ASSUME NEW i \in DOMAIN z, z[i] = t PROVE FALSE
      BY DEF Family!Sleeping
    <3>1. i \in 1 .. Len(s) /\ s[i][2] = t
      BY <2>1
    <3>2. On(s) = WaitNodes(Asleep)
      BY DEF MemoryInv, Lists, Holds, Sleepers
    <3>3. PICK u \in Asleep : s[i] = WaitNode(u)
      BY <3>1, <3>2 DEF On, WaitNodes
    <3> QED BY <3>1, <3>3, <1>2, Nodes DEF Asleep
  <2>5. ~ Family!Listed(t)
    BY <1>1, <1>2, NotListed DEF Waiting
  <2>6. Family!FallAsleep(t)
    BY <2>1, <2>3, <2>4, <2>5 DEF Family!FallAsleep
  <2> QED BY <2>6, <1>1 DEF FamilyStep, Family!FamilyNext
<1> QED BY <1>0, <1>4, <1>5, <1>14, <1>15, <1>16, <1>17, <1>18, <1>19, <1>20, <1>21, <1>22, <1>23
        DEF MemoryInv

\* The place of the walk is whoever has slept longest.
LEMMA Waking ==
  ASSUME MemoryInv, WakeNext
  PROVE  LET t == walk.at[2]
         IN /\ walk.at = WaitNode(t) /\ walk = [head |-> IntWaitList, at |-> WaitNode(t)]
            /\ link[IntWaitList].next = WaitNode(t)
            /\ t \in Asleep /\ t \in Alive /\ t \in Process /\ t \in Task
            /\ SeedTask \in Alive /\ ~ Queued(t) /\ Insert(t)
<1> DEFINE t == walk.at[2]
<1>1. /\ mode = "waking" /\ walk.at # walk.head /\ InsertAfterHead(t)
  BY DEF WakeNext, AtEnd
<1>2. walk = [head |-> IntWaitList, at |-> link[IntWaitList].next]
  BY <1>1 DEF MemoryInv, Walks, OneWalk, walk
<1>3. link[IntWaitList].next \in WaitNodes(Asleep) \cup {IntWaitList}
  BY ListNodes, Nodes, HoldsStep DEF MemoryInv, Lists
<1>4. PICK u \in Asleep : link[IntWaitList].next = WaitNode(u)
  BY <1>1, <1>2, <1>3 DEF WaitNodes
<1>5. u \in Task /\ u # SeedTask
  BY DEF Asleep, MemoryInv, RootObjects
<1>6. walk.at = WaitNode(u) /\ t = u
  BY <1>2, <1>4, <1>5, Nodes
<1> HIDE DEF t
<1>7. t \in Process /\ t \in Alive /\ ~ Queued(t)
  BY <1>5, <1>6 DEF MemoryInv, Objects, Process
<1>8. SeedTask \in Alive /\ Queued(SeedTask)
  <2>1. SeedTask \in Alive
    BY <1>7, RootAlive
  <2> QED BY <2>1 DEF MemoryInv, RootObjects
<1>9. Insert(t)
  BY <1>1, <1>7, <1>8 DEF Insert, t
<1> QED BY <1>2, <1>4, <1>5, <1>6, <1>7, <1>8, <1>9 DEF t

LEMMA WakeNextKeeps == MemoryInv /\ WakeNext => MemoryInv' /\ FamilyStep
<1> SUFFICES ASSUME MemoryInv, WakeNext PROVE MemoryInv' /\ FamilyStep
  OBVIOUS
<1>0. PICK t \in Process :
        /\ t = walk.at[2]
        /\ walk.at = WaitNode(t) /\ walk = [head |-> IntWaitList, at |-> WaitNode(t)]
        /\ link[IntWaitList].next = WaitNode(t)
        /\ t \in Asleep /\ t \in Alive /\ t \in Task
        /\ SeedTask \in Alive /\ ~ Queued(t) /\ Insert(t)
  BY Waking
<1>1. /\ UNCHANGED <<mode, parent, named, made, top, newtask, children, current>>
      /\ mode = "waking" /\ Onward
      /\ live' = live \ {WaitNode(t)} /\ link' = ListDel(link, WaitNode(t))
      /\ Use(FrontTasks \cup Holding(Around(WaitNode(t))))
  BY <1>0 DEF WakeNext, profileVars, taskVars
<1>2. misused' = misused
  <2>1. FrontTasks \subseteq live
    BY <1>0, FrontLive
  <2>2. Holding(Around(WaitNode(t))) \subseteq live
    BY <1>0, WaitNodesLive DEF WaitNodes
  <2> QED BY <2>1, <2>2, <1>1, UseLive
<1>3. QueueInv' /\ QueuedTasks' = QueuedTasks \cup {t}
  BY <1>0, InsertKeepsLinks DEF MemoryInv
<1>4. \A u \in Task : Queued(u)' <=> Queued(u) \/ u = t
  BY <1>0, <1>3 DEF QueuedTasks
<1>5. /\ Known' = Known /\ Titled' = Titled /\ Alive' = Alive
      /\ Born' = Born /\ Asleep' = Asleep \ {t} /\ Kin' = Kin
  BY <1>1 DEF WaitNode, Known, Titled, Alive, Born, Asleep, Kin
\* The lists.
<1>6. WaitNodes(Asleep) \ {WaitNode(t)} = WaitNodes(Asleep \ {t}) /\ WaitNode(t) \in WaitNodes(Asleep)
  <2>1. Asleep \subseteq Task /\ \A u \in Task : WaitNode(u) = WaitNode(t) => u = t
    BY <1>0, Nodes DEF Asleep
  <2> QED BY <2>1, <1>0 DEF WaitNodes
<1>7. /\ link' \in [Node -> ListHead]
      /\ Holds(link', IntWaitList, WaitNodes(Asleep \ {t}))
      /\ Len(Sleepers) > 0 /\ Entries(link', IntWaitList) = Order!RemoveAt(Sleepers, 1)
      /\ link'[IntWaitList].next = link[WaitNode(t)].next
      /\ \A x \in Node \ (WaitNodes(Asleep) \cup {IntWaitList}) : link'[x] = link[x]
  <2> DEFINE X == WaitNodes(Asleep)
             e == WaitNode(t)
             m == ListDel(link, e)
             h == IntWaitList
  <2>1. /\ link \in [Node -> ListHead] /\ h \in Node /\ Holds(link, h, X) /\ e \in X
        /\ link[h].next = e
    BY <1>0, <1>6, ListNodes, Nodes DEF MemoryInv, Lists
  <2> HIDE DEF X, e, m, h
  <2>2. /\ m \in [Node -> ListHead] /\ Holds(m, h, X \ {e})
        /\ \E i \in 1 .. Len(Entries(link, h)) :
             /\ Entries(m, h) = Order!RemoveAt(Entries(link, h), i)
             /\ link[h].next = e => i = 1
        /\ link[h].next = e => m[h].next = link[e].next
        /\ \A x \in Node \ (X \cup {h}) : m[x] = link[x]
    <3>1. Unlinked(link, m, e, h, X)
      BY <2>1, HoldsDel DEF m
    <3> QED BY <3>1 DEF Unlinked
  <2>3. PICK i \in 1 .. Len(Entries(link, h)) :
          i = 1 /\ Entries(m, h) = Order!RemoveAt(Entries(link, h), i)
    BY <2>1, <2>2
  <2>4. Len(Entries(link, h)) > 0
    <3>1. Len(Entries(link, h)) \in Nat
      BY <2>1 DEF Holds, Ring
    <3> QED BY <3>1, <2>3
  <2> QED BY <2>1, <2>2, <2>3, <2>4, <1>1, <1>6 DEF X, e, m, h, Sleepers
<1> DEFINE C == WaitNodes(Asleep) \cup {IntWaitList}
<1>8. /\ \A p \in Kin : /\ Holds(link', SpawnList(p), Clists(Waiting(p)))
                        /\ Entries(link', SpawnList(p)) = UnbornOf(p)
      /\ \A p \in Task \ Kin : link'[SpawnList(p)].next = Null
  <2>1. /\ C \in SUBSET Node
        /\ \A p \in Kin : C \cap (Clists(Waiting(p)) \cup {SpawnList(p)}) = {}
        /\ \A p \in Task \ Kin : SpawnList(p) \in Node \ C
    <3>1. Asleep \in SUBSET Task
      BY DEF Asleep
    <3> QED BY <3>1, WaitNodesApart
  <2>2. \A p \in Kin : /\ Holds(link', SpawnList(p), Clists(Waiting(p)))
                       /\ Entries(link', SpawnList(p)) = UnbornOf(p)
    <3>1. \A x \in Node \ C : link'[x] = link[x]
      BY <1>7
    <3> HIDE DEF C
    <3> QED BY <2>1, <1>7, <3>1, OthersKeep
  <2>3. \A p \in Task \ Kin : link'[SpawnList(p)].next = link[SpawnList(p)].next
    BY <2>1, <1>7
  <2> QED BY <2>2, <2>3 DEF MemoryInv, Lists
<1>9. Types'
  BY <1>1, <1>5, <1>7 DEF MemoryInv, Types
<1>10. Rooted'
  BY <1>1, <1>5 DEF MemoryInv, Rooted
<1>11. Objects'
  BY <1>0, <1>1, <1>4, <1>5 DEF MemoryInv, Objects, Process
<1>12. RootObjects'
  BY <1>0, <1>1, <1>4, <1>5, Tasks DEF MemoryInv, RootObjects, Process
<1>13. IdleObjects'
  BY <1>1, Tasks DEF MemoryInv, IdleObjects, WaitNode, Own
<1>14. Phases'
  BY <1>1, <1>5 DEF MemoryInv, Phases, Accepted, Refused
<1>15. Counted'
  BY <1>1, <1>5 DEF MemoryInv, Counted, ChildrenOf
<1>16. Lists'
  <2>1. \A p \in Task : Waiting(p)' = Waiting(p)
    BY <1>1, <1>5 DEF Waiting, Stack
  <2>2. Kin \subseteq Task
    BY KinTasks DEF MemoryInv
  <2> QED BY <2>1, <2>2, <1>1, <1>5, <1>7, <1>8 DEF Lists
<1>17. Walks'
  <2>1. walks' = <<[walk EXCEPT !.at = link[walk.at].next]>>
    BY <1>1 DEF Onward
  <2>2. [walk EXCEPT !.at = link[walk.at].next] = [head |-> IntWaitList, at |-> link[WaitNode(t)].next]
    <3> DEFINE h == IntWaitList
               n == WaitNode(t)
    <3>1. walk = [head |-> h, at |-> n]
      BY <1>0
    <3> HIDE DEF h, n
    <3>2. [walk EXCEPT !.at = link[walk.at].next] = [head |-> h, at |-> link[n].next]
      BY <3>1
    <3> QED BY <3>2 DEF h, n
  <2>3. OneWalk(IntWaitList, link[IntWaitList].next)'
    BY <2>1, <2>2, <1>7 DEF OneWalk
  <2> QED BY <2>3, <1>1 DEF Walks
<1>18. Misuses'
  BY <1>1, <1>2 DEF MemoryInv, Misuses, Refused
<1>19. FamilyStep
  <2> DEFINE s == Sleepers
             e == Entries(link', IntWaitList)
             z == TasksOf(IntWaitList)
  <2>1. /\ UNCHANGED [u \in Task |-> TasksOf(SpawnList(u))]
        /\ s \in Seq(Node) /\ e \in Seq(Node)
        /\ z = [k \in DOMAIN s |-> s[k][2]]
        /\ z' = [k \in DOMAIN e |-> e[k][2]]
    BY <1>1, <1>7, <1>8, OnlySleepers
  <2>2. Len(s) > 0 /\ e = Order!RemoveAt(s, 1)
    BY <1>7
  <2>3. z # <<>> /\ z' = Tail(z)
    <3> HIDE DEF s, e, z
    <3>1. Len(s) \in Nat /\ DOMAIN s = 1 .. Len(s) /\ 1 \in 1 .. Len(s)
      BY <2>1, <2>2
    <3>2. e = [k \in 1 .. Len(s) - 1 |-> IF k < 1 THEN s[k] ELSE s[k + 1]]
      BY <3>1, <2>1, <2>2, RemoveAtIs
    <3>3. z = [k \in 1 .. Len(s) |-> s[k][2]] /\ z \in Seq({s[k][2] : k \in 1 .. Len(s)})
          /\ Len(z) = Len(s)
      <4> DEFINE S == {s[k][2] : k \in 1 .. Len(s)}
      <4>1. z = [k \in 1 .. Len(s) |-> s[k][2]]
        BY <2>1, <3>1
      <4>2. z \in [1 .. Len(s) -> S]
        BY <4>1
      <4> HIDE DEF S
      <4>3. Len(z) = Len(s) /\ z \in Seq(S)
        BY <4>2, <3>1
      <4> QED BY <4>1, <4>3 DEF S
    <3>4. z' = [k \in 1 .. Len(s) - 1 |-> s[k + 1][2]]
      <4>1. DOMAIN e = 1 .. Len(s) - 1 /\ \A k \in 1 .. Len(s) - 1 : e[k] = s[k + 1]
        BY <3>2, <3>1
      <4> QED BY <4>1, <2>1
    <3>5. Tail(z) = [k \in 1 .. Len(s) - 1 |-> z[k + 1]] /\ z # <<>>
      BY <3>1, <3>3, <2>2 DEF Tail
    <3>6. \A k \in 1 .. Len(s) - 1 : z[k + 1] = s[k + 1][2]
      BY <3>1, <3>3
    <3> QED BY <3>4, <3>5, <3>6
  <2>4. Family!WakeNext
    BY <2>1, <2>3 DEF Family!WakeNext
  <2> QED BY <2>4 DEF FamilyStep, Family!FamilyNext
<1> QED BY <1>3, <1>9, <1>10, <1>11, <1>12, <1>13, <1>14, <1>15, <1>16, <1>17, <1>18, <1>19
        DEF MemoryInv

\* What NEWPROCESS makes of the lists.
ChildDeclared(m, p, t) ==
  /\ m \in [Node -> ListHead]
  /\ Holds(m, IntWaitList, WaitNodes(Asleep)) /\ Entries(m, IntWaitList) = Sleepers
  /\ \A q \in Kin \ {p} :
       /\ Holds(m, SpawnList(q), Clists(Waiting(q)))
       /\ Entries(m, SpawnList(q)) = UnbornOf(q)
  /\ Holds(m, SpawnList(p), Clists(Waiting(p) \cup {t}))
  /\ Entries(m, SpawnList(p)) = Append(UnbornOf(p), Clist(t))
  /\ Holds(m, SpawnList(t), {}) /\ Entries(m, SpawnList(t)) = <<>>
  /\ \A q \in Task \ (Kin \cup {t}) : m[SpawnList(q)].next = Null

LEMMA DeclareChild ==
  ASSUME MemoryInv, NEW p \in Kin, NEW t \in Task, t \notin Kin
  PROVE  ChildDeclared(ListAddTail(InitListHead(link, SpawnList(t)), Clist(t), SpawnList(p)), p, t)
<1> DEFINE l1 == InitListHead(link, SpawnList(t))
           m == ListAddTail(l1, Clist(t), SpawnList(p))
           X == Clists(Waiting(p))
           C == X \cup {SpawnList(p), SpawnList(t), Clist(t)}
<1>1. /\ link \in [Node -> ListHead] /\ p \in Task /\ Waiting(p) \subseteq Task /\ X \subseteq Node
      /\ \A q \in Kin : q \in Task /\ q # t /\ Waiting(q) \subseteq Task /\ t \notin Waiting(q)
      /\ \A u \in Task : SpawnList(u) \in Node /\ Clist(u) \in Node
  <2>1. \A q \in Kin : t \notin Waiting(q)
    BY DEF Waiting, Kin
  <2> QED BY <2>1, ListNodes, Nodes
<1>2. Clist(t) \notin X /\ Clist(t) # SpawnList(p) /\ SpawnList(t) \notin X
      /\ SpawnList(t) # SpawnList(p) /\ SpawnList(t) # Clist(t)
  BY <1>1, Nodes DEF Clists
<1>3. X \cup {Clist(t)} = Clists(Waiting(p) \cup {t})
  BY DEF Clists
<1> HIDE DEF l1, m
<1>4. /\ l1 \in [Node -> ListHead]
      /\ l1[SpawnList(t)] = [next |-> SpawnList(t), prev |-> SpawnList(t)]
      /\ \A x \in Node \ {SpawnList(t)} : l1[x] = link[x]
  BY <1>1, InitIs DEF l1
<1>5. Holds(l1, SpawnList(t), {}) /\ Entries(l1, SpawnList(t)) = <<>>
  BY <1>1, <1>4, HoldsNone
<1>6. Holds(l1, SpawnList(p), X) /\ Entries(l1, SpawnList(p)) = UnbornOf(p)
  <2> DEFINE N == {SpawnList(t)}
  <2>1. N \in SUBSET Node /\ (\A x \in Node \ N : l1[x] = link[x])
        /\ N \cap (X \cup {SpawnList(p)}) = {}
    BY <1>1, <1>2, <1>4
  <2> HIDE DEF N
  <2> QED BY <2>1, <1>4, OthersKeep
<1>7. TailAdded(l1, m, Clist(t), SpawnList(p), X)
  BY <1>1, <1>2, <1>4, <1>6, HoldsAddTail DEF m
<1>8. m \in [Node -> ListHead] /\ \A x \in Node \ (X \cup {SpawnList(p), Clist(t)}) : m[x] = l1[x]
  BY <1>7 DEF TailAdded
<1>9. Holds(m, SpawnList(t), {}) /\ Entries(m, SpawnList(t)) = <<>>
  <2>1. m[SpawnList(t)] = l1[SpawnList(t)]
    BY <1>1, <1>2, <1>8
  <2>2. Holds(m, SpawnList(t), {}) /\ Entries(m, SpawnList(t)) = Entries(l1, SpawnList(t))
    BY <2>1, <1>1, <1>4, <1>5, <1>8, HoldsFrame
  <2> QED BY <2>2, <1>5
<1>10. C \in SUBSET Node /\ \A x \in Node \ C : m[x] = link[x]
  BY <1>1, <1>4, <1>8
<1>11. C \cap (WaitNodes(Asleep) \cup {IntWaitList}) = {}
  <2>1. \A x \in C : \E u \in Task : x = Clist(u) \/ x = SpawnList(u)
    BY <1>1 DEF Clists
  <2>2. \A x \in WaitNodes(Asleep) : \E u \in Task : x = WaitNode(u)
    BY DEF WaitNodes, Asleep
  <2> HIDE DEF C
  <2> QED BY <2>1, <2>2, Nodes
<1>12. \A q \in Kin \ {p} : C \cap (Clists(Waiting(q)) \cup {SpawnList(q)}) = {}
  <2> TAKE q \in Kin \ {p}
  <2>1. /\ q \in Task /\ q # t /\ q # p /\ t \notin Waiting(q)
        /\ Waiting(q) \subseteq Task /\ Waiting(p) \cap Waiting(q) = {}
    BY <1>1 DEF Waiting
  <2>2. \A u \in Waiting(q) : Clist(u) \notin C
    BY <2>1, <1>1, Nodes DEF Clists
  <2>3. SpawnList(q) \notin C
    BY <2>1, <1>1, Nodes DEF Clists
  <2> HIDE DEF C
  <2> QED BY <2>2, <2>3 DEF Clists
<1>13. /\ Holds(m, IntWaitList, WaitNodes(Asleep)) /\ Entries(m, IntWaitList) = Sleepers
       /\ \A q \in Kin \ {p} : /\ Holds(m, SpawnList(q), Clists(Waiting(q)))
                               /\ Entries(m, SpawnList(q)) = UnbornOf(q)
  <2> HIDE DEF C
  <2> QED BY <1>8, <1>10, <1>11, <1>12, OthersKeep
<1>14. \A q \in Task \ (Kin \cup {t}) : m[SpawnList(q)].next = Null
  <2>1. ASSUME NEW q \in Task \ (Kin \cup {t})
        PROVE  SpawnList(q) \in Node \ C /\ link[SpawnList(q)].next = Null
    <3>1. SpawnList(q) \notin C /\ SpawnList(q) \in Node
      BY <1>1, Nodes DEF Clists
    <3> QED BY <3>1 DEF MemoryInv, Lists
  <2> QED BY <2>1, <1>10
<1>15. Holds(m, SpawnList(p), X \cup {Clist(t)}) /\ Entries(m, SpawnList(p)) = Append(UnbornOf(p), Clist(t))
  BY <1>6, <1>7 DEF TailAdded
<1>16. ChildDeclared(m, p, t)
  BY <1>3, <1>8, <1>9, <1>13, <1>14, <1>15 DEF ChildDeclared
<1> QED BY <1>16 DEF m, l1

LEMMA ChildListed ==
  ASSUME MemoryInv, NEW p \in Kin, NEW t \in Task, t \notin Kin, ChildDeclared(link', p, t)
  PROVE  FamilyStep
<1> DEFINE un == [q \in Task |-> TasksOf(SpawnList(q))]
           s == UnbornOf(p)
<1>1. p \in Task /\ p # t /\ \A q \in Kin : q \in Task /\ SpawnList(q) \in Node
  BY ListNodes, Nodes
<1>2. /\ link \in [Node -> ListHead] /\ link' \in [Node -> ListHead]
      /\ \A q \in Kin : link[SpawnList(q)].next # Null
      /\ \A q \in Kin \ {p} : link'[SpawnList(q)].next # Null
      /\ link'[SpawnList(p)].next # Null /\ link'[SpawnList(t)].next # Null
  <2>1. SpawnList(t) \in Node
    BY Nodes
  <2> QED BY <2>1, <1>1, TasksOfIs DEF MemoryInv, Types, Lists, ChildDeclared
<1>3. s \in Seq(Node)
  <2>1. Holds(link, SpawnList(p), Clists(Waiting(p)))
    BY DEF MemoryInv, Lists
  <2>2. s \in Seq(Node \ {SpawnList(p)})
    BY <2>1 DEF Holds, Ring, UnbornOf
  <2> HIDE DEF s
  <2> QED BY <2>2
<1>4. un'[p] = Append(un[p], t)
  <2>1. un[p] = [k \in DOMAIN s |-> s[k][2]]
    BY <1>1, <1>2 DEF TasksOf, UnbornOf
  <2>2. un'[p] = TasksOf(SpawnList(p))'
    BY <1>1
  <2>3. Entries(link', SpawnList(p)) = Append(s, Clist(t))
    BY DEF ChildDeclared
  <2>4. TasksOf(SpawnList(p))' = [k \in DOMAIN Append(s, Clist(t)) |-> Append(s, Clist(t))[k][2]]
    <3> DEFINE e == Append(s, Clist(t))
    <3>1. Entries(link', SpawnList(p)) = e
      BY <2>3
    <3> HIDE DEF e
    <3>2. TasksOf(SpawnList(p))' = [k \in DOMAIN e |-> e[k][2]]
      BY <3>1, <1>2 DEF TasksOf
    <3> QED BY <3>2 DEF e
  <2>5. Clist(t)[2] = t
    BY Nodes
  <2> HIDE DEF un, s
  <2> QED BY <2>1, <2>2, <2>4, <2>5, <1>3, TaskAppended
<1>5. \A q \in Task \ {p} : un'[q] = un[q]
  <2> TAKE q \in Task \ {p}
  <2>1. CASE q \in Kin
    <3>1. Entries(link', SpawnList(q)) = Entries(link, SpawnList(q))
      BY <2>1 DEF ChildDeclared, UnbornOf
    <3> QED BY <3>1, <2>1, <1>2 DEF TasksOf
  <2>2. CASE q = t
    <3>1. un[q] = <<>>
      BY <2>2 DEF TasksOf, MemoryInv, Lists
    <3>2. Entries(link', SpawnList(q)) = <<>>
      BY <2>2 DEF ChildDeclared
    <3>3. TasksOf(SpawnList(q))' = [k \in DOMAIN << >> |-> << >>[k][2]]
      BY <3>2, <2>2, <1>2 DEF TasksOf
    <3>4. TasksOf(SpawnList(q))' = <<>>
      BY <3>3
    <3> QED BY <3>1, <3>4
  <2>3. CASE q \notin Kin /\ q # t
    BY <2>3 DEF TasksOf, ChildDeclared, MemoryInv, Lists
  <2> QED BY <2>1, <2>2, <2>3
<1>6. un' = [un EXCEPT ![p] = Append(@, t)]
  <2>1. un' = [q \in Task |-> un'[q]] /\ un = [q \in Task |-> un[q]]
    OBVIOUS
  <2> HIDE DEF un
  <2> QED BY <2>1, <1>1, <1>4, <1>5
<1>7. TasksOf(IntWaitList)' = TasksOf(IntWaitList)
  <2>1. link[IntWaitList].next # Null /\ link'[IntWaitList].next # Null
    BY <1>2, Nodes, TasksOfIs DEF MemoryInv, Lists, ChildDeclared
  <2>2. Entries(link', IntWaitList) = Entries(link, IntWaitList)
    BY DEF ChildDeclared, Sleepers
  <2> QED BY <2>1, <2>2 DEF TasksOf
<1>8. ~ Family!Listed(t)
  BY NotListed DEF Waiting, Kin
<1>9. Family!Declare(p, t)
  BY <1>6, <1>7, <1>8 DEF Family!Declare
<1> QED BY <1>1, <1>9 DEF FamilyStep, Family!FamilyNext

LEMMA NewProcessKeeps ==
  ASSUME MemoryInv, NEW t \in Process, NewProcess(t)
  PROVE  MemoryInv' /\ FamilyStep
<1>0. PICK p \in Kin : p = top
  BY DEF MemoryInv, Types
<1>1. /\ UNCHANGED <<mode, named, top, children, current, walks>> /\ UNCHANGED queueVars
      /\ mode = "reading" /\ t \notin made /\ made' = made \cup {t} /\ newtask' = t
      /\ parent' = [parent EXCEPT ![t] = p]
      /\ live' = live \cup {<<"info", t>>}
      /\ link' = ListAddTail(InitListHead(link, SpawnList(t)), Clist(t), SpawnList(p))
      /\ Use(Holding(Around(SpawnList(p))))
  BY <1>0 DEF NewProcess, taskVars
<1>2. /\ t \in Task /\ t # SeedTask /\ t \notin Kin /\ p \in Kin /\ p # t /\ p \in Task
      /\ made \subseteq Known /\ SeedTask \in Alive /\ SeedTask \in Known /\ p \in Known
      /\ Born = {SeedTask} /\ current = Idle /\ made \subseteq Task
      /\ t \notin Known /\ t \notin Titled /\ t \notin named /\ t \notin Alive /\ t \notin Asleep
      /\ ~ Queued(t)
  <2>1. t \in Task /\ t # SeedTask /\ t \notin Kin /\ p \in Kin /\ p # t /\ p \in Task
        /\ made \subseteq Task
    BY <1>1, KinTasks DEF Process, Kin, MemoryInv, Types
  <2>2. made \subseteq Known /\ SeedTask \in Alive /\ SeedTask \in Known
        /\ Born = {SeedTask} /\ current = Idle
    BY <1>1 DEF MemoryInv, Phases, RootObjects
  <2>3. t \notin Known /\ t \notin Titled /\ t \notin named /\ t \notin Alive /\ t \notin Asleep
        /\ ~ Queued(t)
    BY <2>1, <2>2, <1>1 DEF MemoryInv, Objects, Types, Kin, Process
  <2> QED BY <2>1, <2>2, <2>3 DEF Kin
<1>3. misused' = misused
  <2>1. Holding(Around(SpawnList(p))) \subseteq live
    BY <1>2, ChildNodesLive
  <2> QED BY <2>1, <1>1, UseLive
<1>4. /\ Known' = Known \cup {t} /\ Titled' = Titled /\ Alive' = Alive
      /\ Born' = Born /\ Asleep' = Asleep /\ Kin' = Kin \cup {t}
      /\ \A u \in Task : Queued(u)' = Queued(u)
  BY <1>1, <1>2 DEF queueVars, Known, Titled, Alive, Born, Asleep, Kin, Queued
<1>5. ChildDeclared(link', p, t)
  BY <1>1, <1>2, DeclareChild
<1>6. /\ parent' \in [Task -> Task \cup {Null}] /\ parent'[t] = p
      /\ \A u \in Task \ {t} : parent'[u] = parent[u]
  BY <1>1, <1>2 DEF MemoryInv, Types
<1>7. Types'
  <2>1. link' \in [Node -> ListHead]
    BY <1>5 DEF ChildDeclared
  <2>2. <<"info", t>> \in Object
    BY <1>2 DEF Object
  <2>3. UNCHANGED top
    BY <1>1
  <2> QED BY <2>1, <2>2, <1>1, <1>4, <1>6 DEF MemoryInv, Types
<1>8. Rooted'
  <2>1. parent'[SeedTask] = Null /\ \A u \in made' : parent'[u] \in Kin'
    BY <1>1, <1>2, <1>4, <1>6, Tasks DEF MemoryInv, Rooted
  <2>2. ASSUME NEW S \in SUBSET made', S # {} PROVE \E u \in S : parent'[u] \notin S
    <3>1. CASE S \ {t} = {}
      BY <3>1, <2>2, <1>2, <1>6
    <3>2. CASE S \ {t} # {}
      <4>1. S \ {t} \in SUBSET made
        BY <1>1
      <4>2. PICK u \in S \ {t} : parent[u] \notin S \ {t}
        BY <4>1, <3>2 DEF MemoryInv, Rooted
      <4>3. u \in made /\ parent[u] \in Kin /\ parent[u] # t
        BY <4>1, <1>2 DEF MemoryInv, Rooted
      <4> QED BY <4>2, <4>3, <1>2, <1>6
    <3> QED BY <3>1, <3>2
  <2> QED BY <2>1, <2>2 DEF Rooted
<1>9. Objects'
  BY <1>1, <1>2, <1>4 DEF MemoryInv, Objects, Process
<1>10. RootObjects'
  BY <1>1, <1>2, <1>4, Tasks DEF MemoryInv, RootObjects
<1>11. IdleObjects'
  BY <1>1, Tasks DEF MemoryInv, IdleObjects
<1>12. Phases'
  <2>1. \A u \in made' \cap Known' : parent'[u] \in Known'
    BY <1>1, <1>2, <1>4, <1>6 DEF MemoryInv, Phases
  <2>2. made' \subseteq Known'
    BY <1>1, <1>2, <1>4
  <2>3. mode' = "reading" /\ Born' = {SeedTask} /\ current' = Idle /\ SeedTask \in Alive' /\ Idle \notin Task
    BY <1>1, <1>2, <1>4, Tasks
  <2> QED BY <2>1, <2>2, <2>3 DEF Phases, Accepted, Refused
<1>13. Counted'
  <2>1. \A q \in Task : ChildrenOf(q)' = ChildrenOf(q)
    BY <1>1, <1>2, <1>4, <1>6 DEF ChildrenOf
  <2>2. \A u \in Process \cap Alive' : parent'[u] \in Alive'
    BY <1>2, <1>4, <1>6 DEF MemoryInv, Counted, Process
  <2> QED BY <2>1, <2>2, <1>1 DEF MemoryInv, Counted
<1>14. /\ Waiting(p)' = Waiting(p) \cup {t} /\ Waiting(t)' = {}
       /\ \A q \in Kin \ {p} : Waiting(q)' = Waiting(q)
  <2>1. Stack = {} /\ Stack' = {}
    BY <1>1 DEF Stack
  <2>2. \A u \in made : parent[u] # t
    BY <1>2 DEF MemoryInv, Rooted
  <2>3. \A q \in Task : Waiting(q)' = {u \in (made \cup {t}) \ Born : parent'[u] = q}
    BY <2>1, <1>1, <1>2, <1>4 DEF Waiting
  <2>4. \A q \in Task : Waiting(q) = {u \in made \ Born : parent[u] = q}
    BY <2>1, <1>2 DEF Waiting
  <2>5. \A u \in made : u # t /\ parent'[u] = parent[u]
    BY <1>1, <1>2, <1>6
  <2>6. t \notin Born /\ parent'[t] = p
    BY <1>2, <1>6
  <2>7. Waiting(p)' = Waiting(p) \cup {t}
    BY <2>3, <2>4, <2>5, <2>6, <1>2
  <2>8. Waiting(t)' = {}
    BY <2>2, <2>3, <2>5, <2>6, <1>2
  <2>9. \A q \in Kin \ {p} : Waiting(q)' = Waiting(q)
    <3> TAKE q \in Kin \ {p}
    <3>1. q \in Task /\ q # p
      BY ListNodes
    <3>2. Waiting(q)' = {u \in (made \cup {t}) \ Born : parent'[u] = q}
      BY <3>1, <2>3
    <3>3. Waiting(q) = {u \in made \ Born : parent[u] = q}
      BY <3>1, <2>4
    <3> QED BY <3>1, <3>2, <3>3, <2>5, <2>6
  <2> QED BY <2>7, <2>8, <2>9
<1>15. Lists'
  <2>1. Holds(link', IntWaitList, WaitNodes(Asleep'))
    BY <1>4, <1>5 DEF ChildDeclared
  <2>2. ASSUME NEW q \in Kin' PROVE Holds(link', SpawnList(q), Clists(Waiting(q)'))
    <3>1. CASE q = p
      BY <3>1, <1>5, <1>14 DEF ChildDeclared
    <3>2. CASE q = t
      <4>1. Clists({}) = {}
        BY DEF Clists
      <4> QED BY <4>1, <3>2, <1>5, <1>14 DEF ChildDeclared
    <3>3. CASE q \in Kin \ {p}
      BY <3>3, <1>5, <1>14 DEF ChildDeclared
    <3> QED BY <3>1, <3>2, <3>3, <1>4
  <2>3. \A q \in Task \ Kin' : link'[SpawnList(q)].next = Null
    BY <1>4, <1>5 DEF ChildDeclared
  <2> QED BY <2>1, <2>2, <2>3 DEF Lists, Clists, WaitNodes
<1>16. Walks' /\ Misuses'
  BY <1>1, <1>3 DEF MemoryInv, Walks, Misuses, Refused
<1>17. FamilyStep
  BY <1>2, <1>5, ChildListed
<1> QED BY <1>1, <1>7, <1>8, <1>9, <1>10, <1>11, <1>12, <1>13, <1>15, <1>16, <1>17, QueueFrame
        DEF MemoryInv

LEMMA Pushed ==
  ASSUME NEW T, NEW w \in Seq(T), w # <<>>, NEW a \in T, NEW b \in T, NEW v,
         v = <<a, b>> \o Tail(w)
  PROVE  /\ v \in Seq(T) /\ Len(w) \in Nat \ {0} /\ Len(v) = Len(w) + 1
         /\ v[1] = a /\ v[2] = b /\ \A i \in 2 .. Len(w) : v[i + 1] = w[i]
<1>1. Len(w) \in Nat \ {0} /\ Tail(w) \in Seq(T) /\ Len(Tail(w)) = Len(w) - 1
      /\ \A i \in 2 .. Len(w) : Tail(w)[i - 1] = w[i]
  OBVIOUS
<1> DEFINE u == Tail(w)
           c == <<a, b>>
<1> HIDE DEF u, c
<1>2. c \in Seq(T) /\ Len(c) = 2 /\ c[1] = a /\ c[2] = b
  BY DEF c
<1>3. u \in Seq(T) /\ Len(u) = Len(w) - 1 /\ \A i \in 2 .. Len(w) : u[i - 1] = w[i]
  BY <1>1 DEF u
<1>4. v = c \o u
  BY DEF u, c
<1>5. v \in Seq(T) /\ Len(v) = Len(w) + 1 /\ v[1] = a /\ v[2] = b
  BY <1>1, <1>2, <1>3, <1>4
<1>6. ASSUME NEW i \in 2 .. Len(w) PROVE v[i + 1] = w[i]
  <2>1. i + 1 \in 3 .. Len(w) + 1 /\ (i + 1) - 2 = i - 1
    BY <1>1
  <2>2. v[i + 1] = u[(i + 1) - 2]
    BY <2>1, <1>1, <1>2, <1>3, <1>4
  <2> QED BY <2>1, <2>2, <1>3
<1> QED BY <1>1, <1>5, <1>6

\* The innermost list that is cleaned up.
LEMMA Cleaning ==
  ASSUME MemoryInv, mode = "cleaning"
  PROVE  /\ CleanWalks /\ Len(walks) \in Nat \ {0} /\ 1 \in 1 .. Len(walks)
         /\ Stack = {Stacked(i) : i \in 1 .. Len(walks)}
         /\ Stacked(1) \in Kin /\ Stacked(1) \in Known /\ Stacked(1) \in Task
         /\ walk = [head |-> SpawnList(Stacked(1)), at |-> link[SpawnList(Stacked(1))].next]
         /\ walk.head[2] = Stacked(1)
         /\ walk.at # Null
         /\ AtEnd => Waiting(Stacked(1)) = {}
         /\ ~ AtEnd => walk.at \in Clists(Waiting(Stacked(1)))
<1> DEFINE s == Stacked(1)
           h == SpawnList(s)
<1>1. CleanWalks /\ Len(walks) \in Nat \ {0} /\ 1 \in 1 .. Len(walks)
  BY DEF MemoryInv, Walks, CleanWalks
<1>2. /\ s \in Kin /\ s \in Known /\ s \in Task
      /\ walk = [head |-> h, at |-> link[h].next] /\ walk.head[2] = s
  BY <1>1, ListNodes DEF CleanWalks, walk, Stacked
<1> HIDE DEF s
<1>3. Holds(link, h, Clists(Waiting(s))) /\ link \in [Node -> ListHead] /\ h \in Node
  BY <1>2, Nodes DEF MemoryInv, Lists, Types
<1>4. link[h].next \in Clists(Waiting(s)) \cup {h} /\ link[h].next # Null
      /\ (link[h].next = h => Clists(Waiting(s)) = {})
  BY <1>3, HoldsStep, TasksOfIs
<1>5. Stack = {Stacked(i) : i \in 1 .. Len(walks)}
  BY DEF Stack
<1>6. AtEnd <=> link[h].next = h
  <2> HIDE DEF h
  <2> QED BY <1>2 DEF AtEnd
<1>7. AtEnd => Waiting(s) = {}
  BY <1>4, <1>6 DEF Clists
<1>8. ~ AtEnd => walk.at \in Clists(Waiting(s))
  BY <1>2, <1>4, <1>6
<1>9. walk.at # Null
  BY <1>2, <1>4
<1> QED BY <1>1, <1>2, <1>5, <1>7, <1>8, <1>9 DEF s

LEMMA CleanChildKeeps == MemoryInv /\ CleanChild => MemoryInv' /\ FamilyStep
<1> SUFFICES ASSUME MemoryInv, CleanChild PROVE MemoryInv' /\ FamilyStep
  OBVIOUS
<1>1. /\ UNCHANGED <<mode, live, parent, named, made, top, newtask, children, current>>
      /\ UNCHANGED queueVars
      /\ mode = "cleaning" /\ ~ AtEnd /\ walk.at # Null
      /\ link' = ListDel(link, walk.at) /\ Use(Holding(Around(walk.at)))
      /\ walks' = <<[head |-> SpawnList(walk.at[2]), at |-> link'[SpawnList(walk.at[2])].next],
                    [walk EXCEPT !.at = link[walk.at].next]>> \o Tail(walks)
  BY DEF CleanChild, profileVars, taskVars
<1>2. PICK s \in Kin :
        /\ s = Stacked(1) /\ s \in Known /\ s \in Task
        /\ walk = [head |-> SpawnList(s), at |-> link[SpawnList(s)].next]
        /\ walk.at \in Clists(Waiting(s))
  BY <1>1, Cleaning
<1>3. CleanWalks /\ Len(walks) \in Nat \ {0} /\ 1 \in 1 .. Len(walks)
      /\ Stack = {Stacked(i) : i \in 1 .. Len(walks)}
  BY <1>1, Cleaning
<1>4. PICK t \in Waiting(s) : walk.at = Clist(t)
  BY <1>2 DEF Clists
<1>5. /\ t \in Task /\ t \in made /\ t \in Kin /\ t \in Known /\ parent[t] = s /\ t \notin Stack
      /\ t \notin Born /\ s \in Stack /\ t # s /\ walk.at[2] = t /\ t # SeedTask
  <2>1. t \in Task /\ t \in made /\ t \in Known /\ parent[t] = s /\ t \notin Stack /\ t \notin Born
    BY ListNodes DEF Waiting
  <2>2. s \in Stack
    BY <1>2, <1>3
  <2>3. t # SeedTask
    BY <2>1, KinTasks DEF MemoryInv
  <2> QED BY <2>1, <2>2, <2>3, <1>4, Nodes DEF Kin
<1>6. ChildUnlinked(link', s, t)
  BY <1>1, <1>4, UnlinkChild
<1>7. misused' = misused
  <2>1. Holding(Around(walk.at)) \subseteq live
    BY <1>2, ChildNodesLive
  <2> QED BY <2>1, <1>1, UseLive
<1>8. /\ Known' = Known /\ Titled' = Titled /\ Alive' = Alive
      /\ Born' = Born /\ Asleep' = Asleep /\ Kin' = Kin
      /\ \A u \in Task : Queued(u)' = Queued(u)
  BY <1>1 DEF queueVars, Known, Titled, Alive, Born, Asleep, Kin, Queued
\* The walks: t's comes first, that of s has gone on, the others stay.
<1> DEFINE W == [head : Node, at : Node]
           first == [head |-> SpawnList(t), at |-> link'[SpawnList(t)].next]
           second == [head |-> SpawnList(s), at |-> link'[SpawnList(s)].next]
<1>0. PICK n \in Nat \ {0} : n = Len(walks)
  BY <1>3
<1>9. /\ \A q \in Kin : SpawnList(q) \in Node /\ SpawnList(q)[2] = q /\ link'[SpawnList(q)].next \in Node
      /\ first \in W /\ second \in W
  <2>1. \A q \in Kin : q \in Task /\ SpawnList(q) \in Node /\ SpawnList(q)[2] = q
    BY ListNodes, Nodes
  <2>2. ASSUME NEW q \in Kin PROVE link'[SpawnList(q)].next \in Node
    <3>1. PICK X : Holds(link', SpawnList(q), X)
      BY <1>6 DEF ChildUnlinked
    <3>2. link' \in [Node -> ListHead]
      BY <1>6 DEF ChildUnlinked
    <3>3. link'[SpawnList(q)].next # Null
      BY <3>1, <3>2, <2>1, TasksOfIs
    <3>4. link'[SpawnList(q)] \in ListHead
      BY <3>2, <2>1
    <3> QED BY <3>3, <3>4 DEF ListHead
  <2> QED BY <2>1, <2>2, <1>5
<1>10. walks' = <<first, second>> \o Tail(walks)
  <2>1. [walk EXCEPT !.at = link[walk.at].next] = second
    <3> DEFINE h == SpawnList(s)
               b == link'[h].next
    <3>1. walk = [head |-> h, at |-> walk.at] /\ link[walk.at].next = b
      BY <1>2, <1>4, <1>6 DEF ChildUnlinked
    <3> HIDE DEF h, b
    <3>2. [walk EXCEPT !.at = link[walk.at].next] = [head |-> h, at |-> b]
      BY <3>1
    <3> QED BY <3>2 DEF h, b
  <2>2. first = [head |-> SpawnList(walk.at[2]), at |-> link'[SpawnList(walk.at[2])].next]
    BY <1>5
  <2> HIDE DEF first, second
  <2> QED BY <2>1, <2>2, <1>1
<1>11. /\ walks' \in Seq(W) /\ Len(walks') = n + 1
       /\ walks'[1] = first /\ walks'[2] = second
       /\ \A i \in 2 .. n : walks'[i + 1] = walks[i]
  <2>1. walks \in Seq(W) /\ walks # <<>>
    BY <1>3 DEF CleanWalks
  <2> HIDE DEF first, second, W
  <2> QED BY <2>1, <1>0, <1>9, <1>10, Pushed
<1>12. /\ Stacked(1)' = t /\ \A i \in 1 .. n : Stacked(i + 1)' = Stacked(i)
       /\ \A j \in 1 .. n + 1 : j = 1 \/ \E i \in 1 .. n : j = i + 1
  <2>1. first.head[2] = t /\ second.head[2] = s
    BY <1>5, <1>9
  <2>2. Stacked(1)' = t /\ Stacked(2)' = s
    BY <2>1, <1>11 DEF Stacked
  <2>3. ASSUME NEW i \in 1 .. n PROVE Stacked(i + 1)' = Stacked(i)
    <3>1. CASE i = 1
      BY <3>1, <2>2, <1>2
    <3>2. CASE i # 1
      BY <3>2, <1>0, <1>3, <1>11 DEF Stacked
    <3> QED BY <3>1, <3>2
  <2>4. \A j \in 1 .. n + 1 : j = 1 \/ \E i \in 1 .. n : j = i + 1
    <3> TAKE j \in 1 .. n + 1
    <3> SUFFICES ASSUME j # 1 PROVE \E i \in 1 .. n : j = i + 1
      OBVIOUS
    <3>1. j - 1 \in 1 .. n /\ j = (j - 1) + 1
      BY <1>0, <1>3
    <3> QED BY <3>1
  <2> QED BY <2>2, <2>3, <2>4
<1>13. Stack' = Stack \cup {t}
  <2>1. Stack' = {Stacked(j)' : j \in 1 .. n + 1}
    BY <1>1, <1>11 DEF Stack
  <2>2. \A i \in 1 .. n : i + 1 \in 1 .. n + 1
    BY <1>0, <1>3
  <2>3. 1 \in 1 .. n + 1
    BY <1>0, <1>3
  <2> QED BY <2>1, <2>2, <2>3, <1>0, <1>3, <1>12
<1>14. CleanWalks'
  <2>1. ASSUME NEW j \in 1 .. n + 1
        PROVE  /\ Stacked(j)' \in Kin /\ Stacked(j)' \in Known
               /\ walks'[j] = [head |-> SpawnList(Stacked(j)'), at |-> link'[SpawnList(Stacked(j)')].next]
               /\ j < n + 1 => parent[Stacked(j)'] = Stacked(j + 1)'
               /\ \A k \in 1 .. n + 1 : Stacked(j)' = Stacked(k)' => j = k
    <3>1. CASE j = 1
      <4>1. Stacked(2)' = s
        BY <1>2, <1>0, <1>3, <1>12
      <4>2. \A k \in 1 .. n + 1 : Stacked(k)' = t => k = 1
        BY <1>0, <1>3, <1>5, <1>12
      <4> QED BY <3>1, <4>1, <4>2, <1>5, <1>11, <1>12
    <3>2. CASE j # 1
      <4>1. PICK i \in 1 .. n : j = i + 1
        BY <3>2, <1>12
      <4>2. /\ Stacked(i) \in Kin /\ Stacked(i) \in Known /\ Stacked(j)' = Stacked(i)
            /\ walks[i] = [head |-> SpawnList(Stacked(i)), at |-> link[SpawnList(Stacked(i))].next]
            /\ i < n => parent[Stacked(i)] = Stacked(i + 1)
            /\ \A k \in 1 .. n : Stacked(i) = Stacked(k) => i = k
        BY <4>1, <1>0, <1>3, <1>12 DEF CleanWalks
      <4>3. walks'[j] = [head |-> SpawnList(Stacked(i)), at |-> link'[SpawnList(Stacked(i))].next]
        <5>1. CASE i = 1
          BY <5>1, <4>1, <1>2, <1>11
        <5>2. CASE i # 1
          <6>1. Stacked(i) # s
            BY <5>2, <4>2, <1>2, <1>0, <1>3
          <6>2. link'[SpawnList(Stacked(i))] = link[SpawnList(Stacked(i))]
            BY <6>1, <4>2, <1>6 DEF ChildUnlinked
          <6>3. walks'[j] = walks[i]
            BY <5>2, <4>1, <1>0, <1>3, <1>11
          <6> QED BY <6>2, <6>3, <4>2
        <5> QED BY <5>1, <5>2
      <4>4. j < n + 1 => parent[Stacked(j)'] = Stacked(j + 1)'
        <5>1. j < n + 1 => i < n /\ i + 1 \in 1 .. n /\ j + 1 = (i + 1) + 1
          BY <4>1, <1>0, <1>3
        <5> QED BY <5>1, <4>2, <1>12
      <4>5. \A k \in 1 .. n + 1 : Stacked(j)' = Stacked(k)' => j = k
        <5> TAKE k \in 1 .. n + 1
        <5>1. CASE k = 1
          BY <5>1, <4>2, <1>0, <1>3, <1>5, <1>12
        <5>2. CASE k # 1
          <6>1. PICK l \in 1 .. n : k = l + 1
            BY <5>2, <1>12
          <6> QED BY <6>1, <4>1, <4>2, <1>12
        <5> QED BY <5>1, <5>2
      <4> QED BY <4>2, <4>3, <4>4, <4>5
    <3> QED BY <3>1, <3>2
  <2>2. Stacked(n + 1)' = SeedTask
    <3>1. n \in 1 .. n
      BY <1>0, <1>3
    <3> QED BY <3>1, <1>0, <1>3, <1>12 DEF CleanWalks
  <2>3. walks' # <<>>
    BY <1>0, <1>3, <1>11
  <2>4. Len(walks') = n + 1 /\ walks' \in Seq(W)
    BY <1>11
  <2>5. /\ Stacked(n + 1)' = SeedTask
        /\ \A i \in 1 .. n + 1 :
             /\ Stacked(i)' \in Kin' \cap Known'
             /\ walks'[i] = [head |-> SpawnList(Stacked(i)'), at |-> link'[SpawnList(Stacked(i)')].next]
             /\ i < n + 1 => parent'[Stacked(i)'] = Stacked(i + 1)'
             /\ \A j \in 1 .. n + 1 : Stacked(i)' = Stacked(j)' => i = j
    <3> QED BY <2>1, <2>2, <2>4, <1>1, <1>8
  <2> QED BY <2>3, <2>4, <2>5 DEF CleanWalks, Stacked, SpawnList
<1>15. Types'
  <2>1. link' \in [Node -> ListHead]
    BY <1>6 DEF ChildUnlinked
  <2> QED BY <2>1, <1>1, <1>8 DEF MemoryInv, Types
<1>16. Rooted'
  BY <1>1, <1>8 DEF MemoryInv, Rooted
<1>17. Objects'
  BY <1>1, <1>8 DEF MemoryInv, Objects, Process
<1>18. RootObjects'
  BY <1>1, <1>8, Tasks DEF MemoryInv, RootObjects
<1>19. IdleObjects'
  BY <1>1 DEF MemoryInv, IdleObjects
<1>20. Phases'
  BY <1>1, <1>8 DEF MemoryInv, Phases, Accepted, Refused
<1>21. Counted'
  BY <1>1, <1>8 DEF MemoryInv, Counted, ChildrenOf
<1>22. \A q \in Kin : Waiting(q)' = IF q = s THEN Waiting(s) \ {t} ELSE Waiting(q)
  BY <1>1, <1>5, <1>8, <1>13 DEF Waiting
<1>23. Lists'
  BY <1>1, <1>8, <1>6, <1>22 DEF Lists, ChildUnlinked
<1>24. Walks' /\ Misuses'
  BY <1>1, <1>7, <1>14 DEF MemoryInv, Walks, Misuses
<1>25. FamilyStep
  BY <1>1, <1>6, ChildLeaves
<1> QED BY <1>1, <1>15, <1>16, <1>17, <1>18, <1>19, <1>20, <1>21, <1>23, <1>24, <1>25, QueueFrame
        DEF MemoryInv

LEMMA FreeChildKeeps == MemoryInv /\ FreeChild => MemoryInv' /\ FamilyStep
<1> SUFFICES ASSUME MemoryInv, FreeChild PROVE MemoryInv' /\ FamilyStep
  OBVIOUS
<1>1. /\ UNCHANGED <<mode, link, parent, named, made, top, newtask, children, current>>
      /\ UNCHANGED queueVars
      /\ mode = "cleaning" /\ (AtEnd \/ walk.at = Null) /\ Len(walks) > 1
      /\ walks' = Tail(walks)
      /\ \/ Use(Own(walk.head[2]))
         \/ walk.head[2] \notin named /\ Use({<<"info", walk.head[2]>>})
      /\ live' = live \ Own(walk.head[2])
  BY DEF FreeChild, profileVars, taskVars
<1>2. PICK t \in Kin :
        /\ t = Stacked(1) /\ t \in Known /\ t \in Task /\ walk.head[2] = t
        /\ Waiting(t) = {}
  BY <1>1, Cleaning
<1>3. CleanWalks /\ 1 \in 1 .. Len(walks) /\ Stack = {Stacked(i) : i \in 1 .. Len(walks)}
  BY <1>1, Cleaning
<1>4. PICK n \in Nat : n = Len(walks) - 1 /\ n > 0 /\ Len(walks) = n + 1
  <2>1. Len(walks) \in Nat
    BY <1>1, Cleaning
  <2>2. Len(walks) - 1 \in Nat /\ Len(walks) - 1 > 0 /\ Len(walks) = (Len(walks) - 1) + 1
    BY <2>1, <1>1
  <2> QED BY <2>2
<1>5. /\ \A i, j \in 1 .. n + 1 : Stacked(i) = Stacked(j) => i = j
      /\ \A i \in 1 .. n + 1 :
           /\ Stacked(i) \in Kin /\ Stacked(i) \in Known
           /\ walks[i] = [head |-> SpawnList(Stacked(i)), at |-> link[SpawnList(Stacked(i))].next]
           /\ i < n + 1 => parent[Stacked(i)] = Stacked(i + 1)
      /\ Stacked(n + 1) = SeedTask
  BY <1>3, <1>4 DEF CleanWalks
<1>6. t # SeedTask /\ t \in made /\ t \in Process /\ t \notin Born /\ t \notin Alive /\ current = Idle
      /\ Born = {SeedTask} /\ SeedTask \in Alive
  <2>1. t # SeedTask
    BY <1>2, <1>4, <1>5
  <2> QED BY <2>1, <1>1, <1>2 DEF Kin, MemoryInv, Phases, Objects, Process, Refused
<1>7. /\ Known' = Known \ {t} /\ Titled' = Titled \ {t} /\ Alive' = Alive
      /\ Born' = Born /\ Asleep' = Asleep /\ Kin' = Kin
      /\ \A u \in Task : Queued(u)' = Queued(u)
  BY <1>1, <1>2 DEF Own, Known, Titled, Alive, Born, Asleep, Kin, queueVars, Queued
\* The walk of t is gone.
<1>8. /\ walks' \in Seq([head : Node, at : Node]) /\ Len(walks') = n /\ walks' # <<>>
      /\ \A i \in 1 .. n : i + 1 \in 1 .. n + 1 /\ walks'[i] = walks[i + 1]
  <2> DEFINE W == [head : Node, at : Node]
  <2>1. walks \in Seq(W)
    BY <1>3 DEF CleanWalks
  <2> HIDE DEF W
  <2>2. walks' \in Seq(W) /\ Len(walks') = n /\ \A i \in 1 .. n : walks'[i] = walks[i + 1]
    BY <2>1, <1>1, <1>4
  <2> QED BY <2>2, <1>4 DEF W
<1>9. \A i \in 1 .. n : Stacked(i)' = Stacked(i + 1)
  BY <1>8 DEF Stacked
<1>10. Stack' = Stack \ {t}
  <2>1. Stack' = {Stacked(i)' : i \in 1 .. n} /\ Stack = {Stacked(i) : i \in 1 .. n + 1}
    BY <1>1, <1>3, <1>4, <1>8 DEF Stack
  <2>2. ASSUME NEW i \in 1 .. n PROVE Stacked(i)' \in Stack \ {t}
    <3>1. i + 1 \in 1 .. n + 1 /\ 1 \in 1 .. n + 1 /\ i + 1 # 1
      BY <1>4
    <3> QED BY <3>1, <2>1, <1>2, <1>5, <1>9
  <2>3. ASSUME NEW j \in 1 .. n + 1, Stacked(j) # t PROVE \E i \in 1 .. n : Stacked(i)' = Stacked(j)
    <3>1. j - 1 \in 1 .. n /\ (j - 1) + 1 = j
      BY <2>3, <1>2, <1>4
    <3>2. Stacked(j - 1)' = Stacked(j)
      BY <3>1, <1>9
    <3> QED BY <3>1, <3>2
  <2> QED BY <2>1, <2>2, <2>3
<1>11. CleanWalks'
  <2>1. ASSUME NEW i \in 1 .. n
        PROVE  /\ Stacked(i)' \in Kin /\ Stacked(i)' \in Known /\ Stacked(i)' # t
               /\ walks'[i] = [head |-> SpawnList(Stacked(i)'), at |-> link[SpawnList(Stacked(i)')].next]
               /\ i < n => parent[Stacked(i)'] = Stacked(i + 1)'
               /\ \A j \in 1 .. n : Stacked(i)' = Stacked(j)' => i = j
    <3>1. i + 1 \in 1 .. n + 1 /\ 1 \in 1 .. n + 1 /\ i + 1 # 1
      BY <1>4
    <3>2. Stacked(i)' = Stacked(i + 1) /\ walks'[i] = walks[i + 1]
      BY <1>8, <1>9
    <3>3. Stacked(i)' # t
      BY <3>1, <3>2, <1>2, <1>5
    <3>4. i < n => parent[Stacked(i)'] = Stacked(i + 1)'
      <4>1. i < n => i + 1 \in 1 .. n /\ i + 1 < n + 1
        BY <1>4
      <4> QED BY <4>1, <3>1, <3>2, <1>5, <1>9
    <3>5. \A j \in 1 .. n : Stacked(i)' = Stacked(j)' => i = j
      <4> TAKE j \in 1 .. n
      <4>1. j + 1 \in 1 .. n + 1 /\ Stacked(j)' = Stacked(j + 1)
        BY <1>4, <1>9
      <4> QED BY <4>1, <3>1, <3>2, <1>4, <1>5
    <3> QED BY <3>1, <3>2, <3>3, <3>4, <3>5, <1>5
  <2>2. Stacked(n)' = SeedTask
    <3>1. n \in 1 .. n
      BY <1>4
    <3> QED BY <3>1, <1>5, <1>9
  <2>3. /\ Stacked(n)' = SeedTask
        /\ \A i \in 1 .. n :
             /\ Stacked(i)' \in Kin' \cap Known'
             /\ walks'[i] = [head |-> SpawnList(Stacked(i)'), at |-> link'[SpawnList(Stacked(i)')].next]
             /\ i < n => parent'[Stacked(i)'] = Stacked(i + 1)'
             /\ \A j \in 1 .. n : Stacked(i)' = Stacked(j)' => i = j
    BY <2>1, <2>2, <1>1, <1>7
  <2> QED BY <2>3, <1>8 DEF CleanWalks, Stacked, SpawnList
\* Whose parent is t has been freed before it.
<1>12. \A u \in made \cap Known : parent[u] # t
  <2> SUFFICES ASSUME NEW u \in made \cap Known, parent[u] = t PROVE FALSE
    OBVIOUS
  <2>1. u # SeedTask /\ u \notin Born
    BY <1>6, KinTasks DEF MemoryInv
  <2>2. u \in Stack
    BY <2>1, <1>2 DEF Waiting
  <2>3. PICK i \in 1 .. n + 1 : u = Stacked(i)
    BY <2>2, <1>3, <1>4
  <2>4. i < n + 1
    BY <2>1, <2>3, <1>4, <1>5
  <2>5. t = Stacked(i + 1)
    BY <2>3, <2>4, <1>5
  <2>6. i + 1 \in 1 .. n + 1 /\ 1 \in 1 .. n + 1 /\ i + 1 # 1
    BY <2>4, <1>4
  <2> QED BY <2>5, <2>6, <1>2, <1>5
<1>13. Types'
  BY <1>1, <1>7 DEF MemoryInv, Types
<1>14. Rooted'
  BY <1>1, <1>7 DEF MemoryInv, Rooted
<1>15. Objects'
  BY <1>1, <1>6, <1>7 DEF MemoryInv, Objects, Process
<1>16. RootObjects'
  BY <1>1, <1>6, <1>7, Tasks DEF MemoryInv, RootObjects
<1>17. IdleObjects'
  <2>1. t # Idle
    BY <1>2, Tasks
  <2> QED BY <2>1, <1>1, <1>2 DEF MemoryInv, IdleObjects, Own
<1>18. Phases'
  <2>1. \A u \in made' \cap Known' : parent'[u] \in Known'
    BY <1>1, <1>7, <1>12 DEF MemoryInv, Phases
  <2> QED BY <2>1, <1>1, <1>6, <1>7, Tasks DEF Phases, Accepted, Refused
<1>19. Counted'
  BY <1>1, <1>7 DEF MemoryInv, Counted, ChildrenOf
<1>20. Lists'
  <2>1. t \in Stack
    BY <1>2, <1>3
  <2>2. \A p \in Task : Waiting(p)' = Waiting(p)
    BY <2>1, <1>1, <1>7, <1>10 DEF Waiting
  <2> QED BY <2>2, <1>1, <1>7, ListsFrame
<1>21. Misuses'
  <2>1. misused' \subseteq misused \cup {<<"name", u>> : u \in made \ named}
    <3>1. <<"info", t>> \in live /\ (t \in named => <<"name", t>> \in live)
      <4>1. t \in named => t \in Titled
        BY <1>2, <1>6 DEF MemoryInv, Objects
      <4> QED BY <4>1, <1>2 DEF Known, Titled
    <3> QED BY <3>1, <1>1, <1>2, <1>6 DEF Use, Own
  <2> QED BY <2>1, <1>1 DEF MemoryInv, Misuses, Refused
<1>22. Walks'
  BY <1>1, <1>11 DEF Walks
<1> QED BY <1>1, <1>13, <1>14, <1>15, <1>16, <1>17, <1>18, <1>19, <1>20, <1>21, <1>22,
           QueueFrame, LinksStutter DEF MemoryInv

-----------------------------------------------------------------------------
(* All steps                                                               *)

LEMMA MemoryStart == Init => MemoryInv /\ RestInv /\ Family!Begin
<1> SUFFICES ASSUME Init PROVE MemoryInv /\ RestInv /\ Family!Begin
  OBVIOUS
<1>1. /\ mode = "reading" /\ misused = {} /\ named = {SeedTask} /\ made = {} /\ top = SeedTask
      /\ newtask = Null /\ current = Idle /\ walks = <<>> /\ InitSchedule
      /\ parent = [t \in Task |-> Null] /\ children = [t \in Task |-> 0]
      /\ live = Created(SeedTask) \cup Own(SeedTask) \cup Created(Idle) \cup Own(Idle)
                  \cup {Rq, Profile}
      /\ nxt = Null
      /\ link = [n \in Node |-> IF n \in {SpawnList(SeedTask), IntWaitList}
                                THEN [next |-> n, prev |-> n]
                                ELSE [next |-> Null, prev |-> Null]]
  BY DEF Init
<1>2. SeedTask # Idle /\ SeedTask \in Task /\ Kin = {SeedTask}
  BY <1>1, Tasks DEF Kin
<1>3. /\ Known = {SeedTask} /\ Titled = {SeedTask} /\ Alive = {SeedTask} /\ Born = {SeedTask}
      /\ Asleep = {}
  BY <1>1, <1>2, Tasks DEF Created, Own, Known, Titled, Alive, Born, Asleep, Rq, Profile
<1>4. QueueInv /\ QueuedTasks = {SeedTask}
  BY <1>1, InitialLinks, QueueAssumption DEF InitSchedule, QueuedTasks, Queued
<1>5. \A t \in Task : Queued(t) <=> t = SeedTask
  BY <1>2, <1>4 DEF QueuedTasks
<1>6. link \in [Node -> ListHead]
  BY <1>1 DEF ListHead
<1>7. Waiting(SeedTask) = {} /\ Clists({}) = {} /\ WaitNodes({}) = {}
  BY <1>1 DEF Waiting, Clists, WaitNodes
<1>8. /\ Holds(link, IntWaitList, {}) /\ Entries(link, IntWaitList) = <<>>
      /\ Holds(link, SpawnList(SeedTask), {}) /\ Entries(link, SpawnList(SeedTask)) = <<>>
  <2>1. IntWaitList \in Node /\ SpawnList(SeedTask) \in Node
    BY <1>2, Nodes
  <2>2. /\ link[IntWaitList] = [next |-> IntWaitList, prev |-> IntWaitList]
        /\ link[SpawnList(SeedTask)] = [next |-> SpawnList(SeedTask), prev |-> SpawnList(SeedTask)]
    BY <2>1, <1>1
  <2> QED BY <2>1, <2>2, <1>6, HoldsNone
<1>9. \A p \in Task \ {SeedTask} : link[SpawnList(p)].next = Null
  <2> TAKE p \in Task \ {SeedTask}
  <2>1. SpawnList(p) \in Node /\ SpawnList(p) \notin {SpawnList(SeedTask), IntWaitList}
    BY <1>2, Nodes
  <2> QED BY <2>1, <1>1
<1>10. Lists
  BY <1>2, <1>3, <1>7, <1>8, <1>9 DEF Lists
<1>11. Types
  <2>1. live \subseteq Object
    <3>1. \A t \in Task \cup {Idle}, k \in {"info", "name", "task", "spare"} : <<k, t>> \in Object
      BY DEF Object
    <3>2. {Rq, Profile} \subseteq Object
      BY DEF Object
    <3> QED BY <3>1, <3>2, <1>1, <1>2 DEF Created, Own
  <2> QED BY <2>1, <1>1, <1>2, <1>6 DEF Types
<1>12. Rooted
  BY <1>1, <1>2 DEF Rooted
<1>13. Objects
  BY <1>1, <1>3, <1>5 DEF Objects, Process
<1>14. RootObjects
  BY <1>1, <1>2, <1>3, <1>5 DEF RootObjects
<1>15. IdleObjects
  BY <1>1, <1>2 DEF IdleObjects, Created, Own, Rq, Profile
<1>16. Phases
  BY <1>1, <1>3, Tasks DEF Phases, Accepted, Refused
<1>17. Counted
  <2>1. \A p \in Task : ChildrenOf(p) = {} /\ children[p] = 0
    BY <1>1 DEF ChildrenOf
  <2> QED BY <2>1, <1>3, FS_EmptySet DEF Counted, Process
<1>18. Walks /\ Misuses
  BY <1>1 DEF Walks, Misuses
<1>19. Family!Begin
  <2>1. \A p \in Task : TasksOf(SpawnList(p)) = <<>>
    BY <1>8, <1>9 DEF TasksOf
  <2>2. TasksOf(IntWaitList) = <<>>
    BY <1>8 DEF TasksOf
  <2> QED BY <2>1, <2>2 DEF Family!Begin
<1>20. RestInv
  BY <1>1 DEF RestInv, Accepted
<1> QED BY <1>4, <1>10, <1>11, <1>12, <1>13, <1>14, <1>15, <1>16, <1>17, <1>18, <1>19, <1>20
        DEF MemoryInv

LEMMA MemoryStep == MemoryInv /\ RestInv /\ [Next]_vars => MemoryInv' /\ FamilyStep
<1> SUFFICES ASSUME MemoryInv, RestInv, [Next]_vars PROVE MemoryInv' /\ FamilyStep
  OBVIOUS
<1>1. ASSUME NEW t \in Process, NewProcess(t) PROVE MemoryInv' /\ FamilyStep
  BY <1>1, NewProcessKeeps
<1>2. CASE Name \/ TypeCommand \/ OpenSpawn \/ EndSpawn \/ Refuse \/ Accept
  BY <1>2, NameKeeps, TypeKeeps, OpenSpawnKeeps, EndSpawnKeeps, RefuseKeeps, AcceptKeeps
<1>3. CASE Schedule \/ AsleepOnCpu
  BY <1>3, ScheduleKeeps, AsleepOnCpuKeeps
<1>4. CASE Sleep \/ Exit \/ EndCycle
  BY <1>4, SleepKeeps, ExitKeeps, EndCycleKeeps
<1>5. CASE SpawnChildren \/ ForkChild \/ SkipChild \/ EndSpawning
  BY <1>5, SpawnChildrenKeeps, ForkChildKeeps, SkipChildKeeps, EndSpawningKeeps
<1>6. CASE IoEvent \/ WakeNext \/ EndWaking
  BY <1>6, IoEventKeeps, WakeNextKeeps, EndWakingKeeps
<1>7. CASE CleanChild \/ FreeChild \/ FreeInit \/ ShutDown
  BY <1>7, CleanChildKeeps, FreeChildKeeps, FreeInitKeeps, ShutDownKeeps
<1>8. CASE UNCHANGED vars
  <2>1. Stack' = Stack /\ UNCHANGED <<link, live, misused, parent, named, made, top, newtask,
                                      mode, children, current, walks>> /\ UNCHANGED queueVars
    BY <1>8 DEF vars, profileVars, taskVars, Stack, Stacked
  <2>2. /\ Known' = Known /\ Titled' = Titled /\ Alive' = Alive
        /\ Born' = Born /\ Asleep' = Asleep /\ Kin' = Kin
        /\ \A u \in Task : Queued(u)' = Queued(u)
    BY <2>1 DEF queueVars, Known, Titled, Alive, Born, Asleep, Kin, Queued
  <2>3. Lists'
    <3>1. \A p \in Task : Waiting(p)' = Waiting(p)
      BY <2>1, <2>2 DEF Waiting
    <3> QED BY <3>1, <2>1, <2>2, ListsFrame
  <2>4. Types' /\ Rooted' /\ Objects'
    BY <2>1, <2>2 DEF MemoryInv, Types, Rooted, Objects, Process
  <2>5. RootObjects' /\ IdleObjects' /\ Phases' /\ Counted'
    BY <2>1, <2>2, Tasks DEF MemoryInv, RootObjects, IdleObjects, Phases, Counted, ChildrenOf
  <2>6. Walks' /\ Misuses'
    <3>1. \A p \in Kin : Clists(Waiting(p))' = Clists(Waiting(p))
      BY <2>1, <2>2 DEF Waiting, Clists
    <3>2. mode = "spawning" => SpawnWalk'
      BY <3>1, <2>1, <2>2 DEF MemoryInv, Walks, SpawnWalk, OneWalk
    <3>3. mode = "cleaning" => CleanWalks'
      BY <2>1, <2>2 DEF MemoryInv, Walks, CleanWalks, Stacked
    <3>4. mode = "waking" => OneWalk(IntWaitList, link[IntWaitList].next)'
      BY <2>1 DEF MemoryInv, Walks, OneWalk
    <3>5. Misuses'
      <4>1. policy' = policy /\ nxt' = nxt /\ nr_running' = nr_running /\ ReadByPolicy' = ReadByPolicy
        BY <1>8 DEF vars, taskVars, queueVars, ReadByPolicy
      <4> QED BY <4>1, <2>1 DEF MemoryInv, Misuses
    <3> QED BY <3>2, <3>3, <3>4, <3>5, <2>1 DEF Walks
  <2> QED BY <2>1, <2>3, <2>4, <2>5, <2>6, QueueFrame, LinksStutter DEF MemoryInv
<1> QED BY <1>1, <1>2, <1>3, <1>4, <1>5, <1>6, <1>7, <1>8 DEF Next

\* How the machine uses the run queue.
LEMMA QueueUse == MemoryInv /\ RestInv /\ [Next]_vars => [QueueNext]_queueVars
<1> SUFFICES ASSUME MemoryInv, RestInv, [Next]_vars PROVE [QueueNext]_queueVars
  OBVIOUS
<1>1. CASE Sleep
  <2>1. Remove(current) /\ current \in Task
    BY <1>1, SleepKeeps DEF Sleep, Process
  <2> QED BY <2>1 DEF QueueNext
<1>2. CASE Exit
  <2>1. Remove(current) /\ current \in Task
    BY <1>2, ExitRemoves DEF Exit
  <2> QED BY <2>1 DEF QueueNext
<1>3. CASE ForkChild
  <2>1. PICK t \in Task : Insert(t)
    BY <1>3, Forking
  <2> QED BY <2>1 DEF QueueNext
<1>4. CASE WakeNext
  <2>1. PICK t \in Task : Insert(t)
    BY <1>4, Waking
  <2> QED BY <2>1 DEF QueueNext
<1>5. CASE UNCHANGED vars \/ \E t \in Process : NewProcess(t)
  BY <1>5 DEF vars, NewProcess
<1>6. CASE Name \/ TypeCommand \/ OpenSpawn \/ EndSpawn \/ Refuse \/ Accept \/ AsleepOnCpu
  BY <1>6 DEF Name, TypeCommand, OpenSpawn, EndSpawn, Refuse, Accept, AsleepOnCpu, Fault
<1>7. CASE EndCycle \/ SpawnChildren \/ SkipChild \/ EndSpawning \/ IoEvent \/ EndWaking
  BY <1>7 DEF EndCycle, SpawnChildren, SkipChild, EndSpawning, IoEvent, EndWaking, BeginWalk
<1>8. CASE CleanChild \/ FreeChild \/ FreeInit \/ ShutDown
  BY <1>8 DEF CleanChild, FreeChild, FreeInit, ShutDown
<1>9. CASE Schedule
  BY <1>9, ScheduleChooses DEF quietVars
<1> QED BY <1>1, <1>2, <1>3, <1>4, <1>5, <1>6, <1>7, <1>8, <1>9 DEF Next

\* schedule()'s pointer, the run queue's structure and the open profile.
LEMMA RestStep == MemoryInv /\ RestInv /\ [Next]_vars => RestInv'
<1> SUFFICES ASSUME MemoryInv, RestInv, [Next]_vars PROVE RestInv'
  OBVIOUS
<1>1. /\ \A t \in Task \cup {Idle} : {Rq, Profile} \cap (Own(t) \cup Created(t)) = {}
      /\ \A n \in Node : n \notin {Rq, Profile}
  BY DEF Rq, Profile, Own, Created, Node, IntWaitList
<1>2. CASE \E t \in Process : NewProcess(t)
  BY <1>2, <1>1 DEF NewProcess, RestInv, taskVars, Accepted
<1>3. CASE Name \/ TypeCommand \/ OpenSpawn \/ EndSpawn \/ Refuse \/ Accept
  BY <1>3 DEF Name, TypeCommand, OpenSpawn, EndSpawn, Refuse, Accept, RestInv, taskVars,
              Accepted, Rq, Profile
<1>4. CASE Schedule
  <2>1. live' = live /\ nxt' \in Task \cup {Null} /\ mode = "running"
    BY <1>4, ScheduleChooses DEF Schedule
  <2> QED BY <2>1 DEF RestInv, Accepted
<1>5. CASE Sleep \/ AsleepOnCpu \/ EndCycle
  BY <1>5, <1>1 DEF Sleep, AsleepOnCpu, EndCycle, Fault, InCycle, RestInv, taskVars, Accepted,
                    WaitNode, Rq, Profile
<1>6. CASE Exit
  BY <1>6, <1>1 DEF Exit, InCycle, RestInv, Accepted, Rq, Profile, Own
<1>7. CASE SpawnChildren \/ SkipChild \/ EndSpawning \/ IoEvent \/ EndWaking
  BY <1>7 DEF SpawnChildren, SkipChild, EndSpawning, IoEvent, EndWaking, BeginWalk, RestInv,
              taskVars, Accepted
<1>8. CASE ForkChild
  <2>1. PICK t \in Task : live' = live \cup Created(t)
    <3>1. walk.at[2] \in Task
      BY <1>8, Forking
    <3> QED BY <3>1, <1>8 DEF ForkChild
  <2> QED BY <2>1, <1>1, <1>8 DEF ForkChild, RestInv, Accepted
<1>9. CASE WakeNext
  <2>1. live' = live \ {walk.at} /\ walk.at \in Node
    BY <1>9, Waking, Nodes DEF WakeNext
  <2> QED BY <2>1, <1>1, <1>9 DEF WakeNext, RestInv, taskVars, Accepted
<1>10. CASE CleanChild \/ FreeChild \/ FreeInit \/ ShutDown
  BY <1>10 DEF CleanChild, FreeChild, FreeInit, ShutDown, RestInv, taskVars, Accepted, Own, Rq
<1>11. CASE UNCHANGED vars
  BY <1>11 DEF vars, taskVars, RestInv
<1> QED BY <1>2, <1>3, <1>4, <1>5, <1>6, <1>7, <1>8, <1>9, <1>10, <1>11 DEF Next

LEMMA MemorySafe == MemoryInv /\ RestInv => FreedOnce /\ NothingLeft
<1> SUFFICES ASSUME MemoryInv, RestInv PROVE FreedOnce /\ NothingLeft
  OBVIOUS
<1>1. FreedOnce
  <2> SUFFICES ASSUME NEW o \in misused
               PROVE  \/ o \in {"task", "info"} \X {SeedTask} /\ mode \in {"closing", "ended"}
                      \/ o \in {"name"} \X (made \ named) /\ mode \in {"cleaning", "failing", "failed"}
                      \/ /\ o = ReadByPolicy /\ mode = "fault"
                         /\ policy = "schedule_rr" \/ nr_running = 0
    BY DEF FreedOnce
  <2>1. CASE mode \in Refused
    BY <2>1 DEF MemoryInv, Misuses, Refused
  <2>2. CASE mode \notin Refused
    BY <2>2 DEF MemoryInv, Misuses, Refused
  <2> QED BY <2>1, <2>2
<1>2. live \subseteq Object
  BY DEF MemoryInv, Types
<1>3. ASSUME mode \in {"ended", "failed"}
      PROVE  /\ Alive = {} /\ Asleep = {} /\ (Own(Idle) \cup {<<"task", Idle>>}) \cap live = {}
             /\ <<"spare", Idle>> \in live /\ <<"wait", Idle>> \notin live
  <2>1. (Own(Idle) \cup {<<"task", Idle>>}) \cap live = {}
        /\ <<"spare", Idle>> \in live /\ <<"wait", Idle>> \notin live
    BY <1>3 DEF MemoryInv, IdleObjects
  <2>2. Alive = {}
    BY <1>3 DEF MemoryInv, Phases, Objects, RootObjects, Process, Alive
  <2>3. Asleep = {}
    BY <2>2 DEF MemoryInv, Objects, RootObjects, Process, Asleep
  <2> QED BY <2>1, <2>2, <2>3
<1>4. \A o \in Object \ ({Rq, Profile} \cup Strings) :
        \E k \in {"info", "name", "task", "spare", "wait"}, t \in Task \cup {Idle} : o = <<k, t>>
  BY DEF Object
\* What every end leaves: the run queue's structure and the spares.
<1>5. Rq \in live /\ Rq \notin Strings /\ Rq # Profile
  BY DEF RestInv, Rq, Strings, Profile
<1>6. \A k \in {"info", "name", "task", "spare", "wait"}, t \in Task \cup {Idle} :
        <<k, t>> \notin {Rq, Profile} \cup Strings
  BY DEF Rq, Strings, Profile
<1>7. ASSUME mode = "failed"
      PROVE  live \ ({Profile} \cup Strings) = {Rq} \cup ({"spare"} \X {SeedTask, Idle})
  <2>1. Known = {} /\ Titled = {} /\ Born = {SeedTask}
    BY <1>7 DEF MemoryInv, Phases, Objects, RootObjects, Process, Refused, Titled
  <2>2. ASSUME NEW o \in live \ ({Rq, Profile} \cup Strings)
        PROVE  o \in {"spare"} \X {SeedTask, Idle}
    <3>1. PICK k \in {"info", "name", "task", "spare", "wait"}, t \in Task \cup {Idle} : o = <<k, t>>
      BY <1>2, <1>4, <2>2
    <3>2. CASE t \in Task
      BY <3>1, <3>2, <2>1, <2>2, <1>3, <1>7 DEF Known, Titled, Alive, Born, Asleep
    <3>3. CASE t = Idle
      BY <3>1, <3>3, <2>2, <1>3, <1>7 DEF Own
    <3> QED BY <3>2, <3>3
  <2>3. <<"spare", SeedTask>> \in live /\ <<"spare", Idle>> \in live
    BY <2>1, <1>3, <1>7 DEF Born
  <2>4. \A o \in {"spare"} \X {SeedTask, Idle} : o \in live \ ({Profile} \cup Strings)
    BY <2>3, <1>6, Tasks
  <2> QED BY <2>2, <2>4, <1>5
<1>8. ASSUME mode = "ended"
      PROVE  live \ Strings = {Rq} \cup ({"spare"} \X (Born \cup {Idle}))
                                \cup UNION {Own(t) : t \in made \ Born}
  <2>1. made \subseteq named /\ made \subseteq Known \cup Born /\ made \subseteq Task
        /\ SeedTask \notin Known /\ SeedTask \notin Titled
    BY <1>3, <1>8, KinTasks DEF MemoryInv, Phases, Accepted, RootObjects
  <2>2. \A t \in Process : /\ t \in Known <=> t \in made \ Born
                           /\ t \in Titled <=> t \in made \ Born
    BY <2>1, <1>3, <1>8 DEF MemoryInv, Objects
  <2>3. \A t \in Task : /\ t \in Known <=> t \in made \ Born
                        /\ t \in Titled <=> t \in made \ Born
    BY <2>1, <2>2, KinTasks DEF Process, MemoryInv
  <2>4. ASSUME NEW o \in live \ ({Rq, Profile} \cup Strings)
        PROVE  o \in ({"spare"} \X (Born \cup {Idle})) \cup UNION {Own(t) : t \in made \ Born}
    <3>1. PICK k \in {"info", "name", "task", "spare", "wait"}, t \in Task \cup {Idle} : o = <<k, t>>
      BY <1>2, <1>4, <2>4
    <3>2. CASE t \in Task
      <4>1. k \in {"info", "name"} => t \in made \ Born
        BY <3>1, <3>2, <2>3, <2>4 DEF Known, Titled
      <4>2. k = "spare" => t \in Born
        BY <3>1, <3>2, <2>4 DEF Born
      <4>3. k \notin {"task", "wait"}
        BY <3>1, <3>2, <2>4, <1>3, <1>8 DEF Alive, Asleep
      <4> QED BY <3>1, <4>1, <4>2, <4>3 DEF Own
    <3>3. CASE t = Idle
      BY <3>1, <3>3, <2>4, <1>3, <1>8 DEF Own
    <3> QED BY <3>2, <3>3
  <2>5. ASSUME NEW o \in ({"spare"} \X (Born \cup {Idle})) \cup UNION {Own(t) : t \in made \ Born}
        PROVE  o \in live \ ({Rq, Profile} \cup Strings)
    <3>1. CASE o \in {"spare"} \X (Born \cup {Idle})
      <4>1. PICK t \in Born \cup {Idle} : o = <<"spare", t>>
        BY <3>1
      <4> QED BY <4>1, <1>3, <1>6, <1>8 DEF Born
    <3>2. CASE o \in UNION {Own(t) : t \in made \ Born}
      <4>1. PICK t \in made \ Born : o \in Own(t)
        BY <3>2
      <4>2. t \in Known /\ t \in Titled
        BY <2>1, <2>3
      <4> QED BY <4>1, <4>2, <1>6 DEF Own, Known, Titled
    <3> QED BY <3>1, <3>2, <2>5
  <2>6. Profile \notin live
    BY <1>8 DEF RestInv, Accepted
  <2> QED BY <2>4, <2>5, <2>6, <1>5
<1>9. NothingLeft
  BY <1>7, <1>8 DEF NothingLeft, Born
<1> QED BY <1>1, <1>9

(* In every state: who owns which objects, which list each task is on,     *)
(* where the walks over the lists stand, that children counts the living   *)
(* children of a task, and where schedule()'s pointer may be.              *)
THEOREM MemoryInvariant == Spec => [](MemoryInv /\ RestInv)
BY MemoryStart, MemoryStep, RestStep, PTL DEF Spec

(* Nothing is freed twice or used when it is not allocated, the neighbours *)
(* whose links a list operation writes included, but for init as the loop  *)
(* ends, the missing name of a process that is refused, and the task from  *)
(* which schedule() starts: with an empty queue, or under round robin.     *)
THEOREM FreedOnceSound == Spec => []FreedOnce
BY MemoryInvariant, MemorySafe, PTL

(* What is left in memory: the run queue, the strings that TYPE and a      *)
(* second NAME lose and a spare thread_info for each task, with the open   *)
(* file if the profile is refused at a command, and with the processes     *)
(* never born if it is run.                                                *)
THEOREM NothingLeftSound == Spec => []NothingLeft
BY MemoryInvariant, MemorySafe, PTL

(* The pointers of list.h implement the families without pointers: children *)
(* are added at the end of their parent's list and leave it one at a time,  *)
(* and sleepers wake in the order in which they fell asleep.                *)
THEOREM ListsAreFamilies == Spec => ImplementsFamilies
<1>1. Spec => [](MemoryInv /\ RestInv)
  BY MemoryInvariant
<1>2. MemoryInv /\ RestInv /\ [Next]_vars => [Family!FamilyNext]_(Family!familyVars)
  BY MemoryStep DEF FamilyStep
<1> QED BY <1>1, <1>2, MemoryStart, PTL DEF Spec, ImplementsFamilies, Family!Families

(* Births, sleep, waking and the end of tasks keep the run queue one ring. *)
THEOREM MachineRingLinks == Spec => []RingLinks
BY MemoryInvariant, PTL DEF MemoryInv, QueueInv

(* Whatever the machine does to the run queue inserts a task where the      *)
(* queue does or removes one, and so keeps the order of the others.         *)
THEOREM MachineTaskOrder == Spec => ImplementsTaskOrder
<1>1. Spec => [](MemoryInv /\ RestInv)
  BY MemoryInvariant
<1>2. MemoryInv /\ RestInv /\ [Next]_vars => [QueueNext]_queueVars
  BY QueueUse
<1>3. Init => InitSchedule
  BY DEF Init
<1>4. Spec => QueueSpec
  BY <1>1, <1>2, <1>3, PTL DEF Spec, QueueSpec
<1> QED BY <1>4, QueueIsTaskOrder, PTL
=============================================================================
