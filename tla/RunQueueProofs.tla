--------------------------- MODULE RunQueueProofs ---------------------------
(***************************************************************************)
(* The run queue both schedulers and the machine's memory share is sound   *)
(* for every set of tasks: its links form one ring, and that ring is a     *)
(* sequence that tasks enter and leave in order.                           *)
(***************************************************************************)
EXTENDS RunQueueOrder, FiniteSetTheorems, SequenceTheorems, WellFoundedInduction, TLAPS

-----------------------------------------------------------------------------
(* The ring of links                                                       *)

QueueInv == QueueTypeOK /\ RingLinks

(* The links of a queued task lead to queued tasks.                        *)
LEMMA QueueNeighbours ==
  ASSUME QueueInv, NEW p \in Task, Queued(p)
  PROVE  /\ next[p] \in QueuedTasks /\ prev[p] \in QueuedTasks
         /\ prev[next[p]] = p /\ next[prev[p]] = p
BY QueueAssumption
   DEF QueueInv, QueueTypeOK, RingLinks, LinksInverse, Queued, QueuedTasks, Pointer

LEMMA InitialLinks == InitSchedule => QueueInv
<1> SUFFICES ASSUME InitSchedule PROVE QueueInv
  OBVIOUS
<1>1. QueuedTasks = {SeedTask}
  BY QueueAssumption DEF InitSchedule, QueuedTasks, Queued
<1>2. QueueTypeOK
  BY QueueAssumption DEF InitSchedule, QueueTypeOK, Pointer
<1>3. LinksInverse
  BY QueueAssumption DEF InitSchedule, LinksInverse
<1>4. HeadQueued /\ OneRing
  BY <1>1, QueueAssumption DEF HeadQueued, OneRing, QueuedTasks
<1>5. CountExact
  BY <1>1, FS_Singleton DEF InitSchedule, CountExact
<1> QED BY <1>2, <1>3, <1>4, <1>5 DEF QueueInv, RingLinks

(* Inserting a task that is off the queue adds it and keeps the ring.      *)
LEMMA InsertKeepsLinks ==
  ASSUME QueueInv, NEW p \in Task, Insert(p)
  PROVE  QueueInv' /\ QueuedTasks' = QueuedTasks \cup {p}
<1> DEFINE h == SeedTask
           n == next[SeedTask]
<1>1. /\ h \in Task /\ h # p /\ n \in QueuedTasks /\ n \in Task /\ n # p
      /\ prev[n] = h /\ p \notin QueuedTasks /\ h \in QueuedTasks
      /\ next[p] = Null /\ prev[p] = Null
  BY QueueAssumption, QueueNeighbours
     DEF Insert, Queued, QueuedTasks, QueueInv, RingLinks, LinksInverse
<1>2. /\ next' = [next EXCEPT ![p] = n, ![h] = p]
      /\ prev' = [prev EXCEPT ![p] = h, ![n] = p]
      /\ nr_running' = nr_running + 1
  BY DEF Insert, InsertAfterHead
<1>3. QueueTypeOK'
  BY <1>1, <1>2 DEF QueueInv, QueueTypeOK, Pointer
<1>4. QueuedTasks' = QueuedTasks \cup {p}
  BY <1>1, <1>2, QueueAssumption
     DEF QueuedTasks, Queued, QueueInv, QueueTypeOK, Pointer
<1>5. LinksInverse'
  <2> SUFFICES ASSUME NEW q \in Task
               PROVE  /\ next'[q] = Null <=> prev'[q] = Null
                      /\ next'[q] # Null => prev'[next'[q]] = q
                      /\ prev'[q] # Null => next'[prev'[q]] = q
    BY DEF LinksInverse
  <2>1. /\ next[q] = Null <=> prev[q] = Null
        /\ next[q] # Null => prev[next[q]] = q /\ next[q] \in Task /\ next[q] # p
        /\ prev[q] # Null => next[prev[q]] = q /\ prev[q] \in Task /\ prev[q] # p
    BY <1>1, QueueAssumption
       DEF QueueInv, QueueTypeOK, RingLinks, LinksInverse, Pointer
  <2>2. CASE q = p
    BY <2>2, <1>1, <1>2, QueueAssumption DEF QueueInv, QueueTypeOK
  <2>3. CASE q # p
    BY <2>1, <2>3, <1>1, <1>2, QueueAssumption DEF QueueInv, QueueTypeOK
  <2> QED BY <2>2, <2>3
<1>6. HeadQueued'
  BY <1>1, <1>4 DEF HeadQueued, QueuedTasks
<1>7. CountExact'
  <2>1. IsFiniteSet(QueuedTasks)
    BY FS_Subset, QueueAssumption DEF QueuedTasks
  <2> QED BY <2>1, <1>1, <1>2, <1>4, FS_AddElement
          DEF CountExact, QueueInv, RingLinks
<1>8. OneRing'
  <2> SUFFICES ASSUME NEW S \in SUBSET QueuedTasks', h \in S,
                      \A q \in S : next'[q] \in S
               PROVE  S = QueuedTasks'
    BY DEF OneRing
  <2>1. p \in S /\ n \in S
    BY <1>1, <1>2 DEF QueueInv, QueueTypeOK
  <2>2. ASSUME NEW q \in S \ {p} PROVE next[q] \in S \ {p}
    <3>1. q \in Task /\ q \in QueuedTasks
      BY <1>4 DEF QueuedTasks
    <3>2. next[q] \in QueuedTasks /\ next[q] # p
      BY <3>1, <1>1, QueueNeighbours DEF QueuedTasks
    <3>3. q # h => next'[q] = next[q]
      BY <3>1, <1>2, <1>1 DEF QueueInv, QueueTypeOK
    <3> QED BY <3>2, <3>3, <2>1, <1>1
  <2>3. S \ {p} \in SUBSET QueuedTasks
    BY <1>4
  <2>4. S \ {p} = QueuedTasks
    BY <2>2, <2>3, <1>1 DEF QueueInv, RingLinks, OneRing
  <2> QED BY <2>1, <2>4, <1>4
<1> QED BY <1>3, <1>4, <1>5, <1>6, <1>7, <1>8 DEF QueueInv, RingLinks

(* Unlinking a queued task removes it alone and keeps the ring.            *)
LEMMA RemoveKeepsLinks ==
  ASSUME QueueInv, NEW p \in Task, Remove(p)
  PROVE  QueueInv' /\ QueuedTasks' = QueuedTasks \ {p}
<1> DEFINE a == prev[p]
           b == next[p]
<1>1. /\ p \in QueuedTasks /\ a \in QueuedTasks /\ b \in QueuedTasks
      /\ a \in Task /\ b \in Task /\ next[a] = p /\ prev[b] = p
      /\ a # Null /\ b # Null
  BY QueueAssumption, QueueNeighbours DEF Remove, QueuedTasks, Queued
<1>2. /\ next' = [next EXCEPT ![a] = b, ![p] = Null]
      /\ prev' = [prev EXCEPT ![b] = a, ![p] = Null]
      /\ nr_running' = nr_running - 1
  BY DEF Remove, Unlink
<1>3. QueueTypeOK'
  BY <1>1, <1>2 DEF QueueInv, QueueTypeOK, Pointer
<1>4. QueuedTasks' = QueuedTasks \ {p}
  BY <1>1, <1>2, QueueAssumption
     DEF QueuedTasks, Queued, QueueInv, QueueTypeOK, Pointer
<1>5. LinksInverse'
  <2> SUFFICES ASSUME NEW q \in Task
               PROVE  /\ next'[q] = Null <=> prev'[q] = Null
                      /\ next'[q] # Null => prev'[next'[q]] = q
                      /\ prev'[q] # Null => next'[prev'[q]] = q
    BY DEF LinksInverse
  <2>1. /\ next[q] = Null <=> prev[q] = Null
        /\ next[q] # Null => prev[next[q]] = q /\ next[q] \in Task
        /\ prev[q] # Null => next[prev[q]] = q /\ prev[q] \in Task
    BY QueueAssumption
       DEF QueueInv, QueueTypeOK, RingLinks, LinksInverse, Pointer
  <2>2. CASE q = p
    BY <2>2, <1>1, <1>2, QueueAssumption DEF QueueInv, QueueTypeOK
  <2>3. CASE q # p
    <3>1. next'[q] = (IF q = a THEN b ELSE next[q]) /\ prev'[q] = (IF q = b THEN a ELSE prev[q])
      BY <2>3, <1>1, <1>2 DEF QueueInv, QueueTypeOK
    <3>2. a = p <=> b = p
      BY <1>1
    <3> QED BY <3>1, <3>2, <2>1, <2>3, <1>1, <1>2, QueueAssumption
            DEF QueueInv, QueueTypeOK
  <2> QED BY <2>2, <2>3
<1>6. OneRing'
  <2> SUFFICES ASSUME NEW S \in SUBSET QueuedTasks', SeedTask \in S,
                      \A q \in S : next'[q] \in S
               PROVE  S = QueuedTasks'
    BY DEF OneRing
  <2>1. p \notin S /\ S \in SUBSET QueuedTasks
    BY <1>4
  <2>2. \A q \in S : q \in Task /\ q # p /\ next'[q] = IF q = a THEN b ELSE next[q]
    BY <2>1, <1>1, <1>2 DEF QueueInv, QueueTypeOK, QueuedTasks
  <2>3. CASE a \in S
    <3>1. b \in S
      BY <2>2, <2>3
    <3>2. \A q \in S \cup {p} : next[q] \in S \cup {p}
      BY <2>2, <3>1, <1>1
    <3>3. S \cup {p} \in SUBSET QueuedTasks /\ SeedTask \in S \cup {p}
      BY <2>1, <1>1
    <3>4. S \cup {p} = QueuedTasks
      BY <3>2, <3>3, Zenon DEF QueueInv, RingLinks, OneRing
    <3> QED BY <3>4, <2>1, <1>4
  <2>4. CASE a \notin S
    <3>1. \A q \in S : next[q] \in S
      BY <2>2, <2>4
    <3>2. S = QueuedTasks
      BY <3>1, <2>1 DEF QueueInv, RingLinks, OneRing
    <3> QED BY <3>2, <2>1, <1>1
  <2> QED BY <2>3, <2>4
<1>7. HeadQueued'
  <2>1. CASE p = SeedTask
    <3>1. next[p] = p
      BY <2>1 DEF Remove
    <3>2. {p} = QueuedTasks
      BY <3>1, <2>1, <1>1 DEF QueueInv, RingLinks, OneRing
    <3> QED BY <3>2, <1>4 DEF HeadQueued
  <2>2. CASE p # SeedTask
    BY <2>2, <1>1, <1>4, QueueAssumption
       DEF HeadQueued, QueueInv, RingLinks, QueuedTasks
  <2> QED BY <2>1, <2>2
<1>8. CountExact'
  <2>1. IsFiniteSet(QueuedTasks)
    BY FS_Subset, QueueAssumption DEF QueuedTasks
  <2> QED BY <2>1, <1>1, <1>2, <1>4, FS_RemoveElement
          DEF CountExact, QueueInv, RingLinks
<1> QED BY <1>3, <1>4, <1>5, <1>6, <1>7, <1>8 DEF QueueInv, RingLinks

(* A queue that is not empty contains its head; alone, the head links to   *)
(* itself.                                                                 *)
LEMMA HeadAlone ==
  ASSUME QueueInv, Queued(SeedTask)
  PROVE  next[SeedTask] = SeedTask <=> QueuedTasks = {SeedTask}
<1>1. SeedTask \in QueuedTasks /\ next[SeedTask] \in QueuedTasks
  BY QueueAssumption, QueueNeighbours DEF QueuedTasks
<1> QED BY <1>1 DEF QueueInv, RingLinks, OneRing

-----------------------------------------------------------------------------
(* The ring read as a sequence.  Hop is a recursive function; that it has  *)
(* the values its definition says is an induction on the number of hops,   *)
(* made here by the least counterexample.                                  *)

LEMMA NatMinimum ==
  ASSUME NEW S \in SUBSET Nat, S # {}
  PROVE  \E x \in S : \A y \in S : ~ (y < x)
<1>1. PICK x \in S : \A y \in S : ~ (<<y, x>> \in OpToRel(<, Nat))
  BY NatLessThanWellFounded, WFMin
<1>2. \A y \in S : y < x => <<y, x>> \in OpToRel(<, Nat)
  BY DEF OpToRel
<1> QED BY <1>1, <1>2

(* What a number of hops along some links, from some start, is.            *)
Follows(start, links, n, f) ==
  f[0] = start /\ \A i \in 1 .. n : f[i] = links[f[i - 1]]

HopFrom(start, links) ==
  CHOOSE f : f = [i \in Nat |-> IF i = 0 THEN start ELSE links[f[i - 1]]]

LEMMA FollowsExists ==
  ASSUME NEW start, NEW links, NEW n \in Nat
  PROVE  \E f : Follows(start, links, n, f)
<1> DEFINE S == {m \in Nat : ~ \E f : Follows(start, links, m, f)}
<1> SUFFICES ASSUME S # {} PROVE FALSE
  OBVIOUS
<1>1. PICK m \in S : \A k \in S : ~ (k < m)
  <2>1. S \in SUBSET Nat
    OBVIOUS
  <2> HIDE DEF S
  <2> QED BY <2>1, NatMinimum
<1>2. m # 0
  <2>1. Follows(start, links, 0, [i \in {0} |-> start])
    BY DEF Follows
  <2> QED BY <2>1
<1>3. m - 1 \in Nat /\ m - 1 \notin S
  BY <1>1, <1>2
<1>4. PICK f : Follows(start, links, m - 1, f)
  BY <1>3
<1> DEFINE g == [i \in 0 .. m |-> IF i = m THEN links[f[m - 1]] ELSE f[i]]
<1>5. g[0] = start
  BY <1>2, <1>3, <1>4 DEF Follows
<1>6. ASSUME NEW i \in 1 .. m PROVE g[i] = links[g[i - 1]]
  <2>1. g[i - 1] = f[i - 1]
    BY <1>3
  <2>2. CASE i = m
    BY <2>1, <2>2
  <2>3. CASE i # m
    BY <2>1, <2>3, <1>3, <1>4 DEF Follows
  <2> QED BY <2>2, <2>3
<1>7. Follows(start, links, m, g)
  <2> HIDE DEF g
  <2> QED BY <1>5, <1>6 DEF Follows
<1> QED BY <1>7

LEMMA FollowsUnique ==
  ASSUME NEW start, NEW links, NEW n \in Nat, NEW m \in Nat, NEW f, NEW g,
         Follows(start, links, n, f), Follows(start, links, m, g), n <= m
  PROVE  \A i \in 0 .. n : f[i] = g[i]
<1> DEFINE S == {i \in 0 .. n : f[i] # g[i]}
<1> SUFFICES ASSUME S # {} PROVE FALSE
  OBVIOUS
<1>1. PICK k \in S : \A i \in S : ~ (i < k)
  <2>1. S \in SUBSET Nat
    OBVIOUS
  <2> HIDE DEF S
  <2> QED BY <2>1, NatMinimum
<1>2. k # 0
  BY DEF Follows
<1>3. k - 1 \in 0 .. n /\ k - 1 \notin S
  BY <1>1, <1>2
<1> QED BY <1>2, <1>3 DEF Follows

LEMMA HopFromDef ==
  ASSUME NEW start, NEW links
  PROVE  HopFrom(start, links) =
           [i \in Nat |-> IF i = 0 THEN start ELSE links[HopFrom(start, links)[i - 1]]]
<1> DEFINE F(n) == CHOOSE f : Follows(start, links, n, f)
           h == [n \in Nat |-> F(n)[n]]
<1>1. \A n \in Nat : Follows(start, links, n, F(n))
  BY FollowsExists
<1> HIDE DEF F
<1>2. h[0] = start
  BY <1>1 DEF Follows
<1>3. ASSUME NEW n \in Nat, n # 0 PROVE h[n] = links[h[n - 1]]
  <2>1. n - 1 \in Nat /\ n - 1 <= n /\ n - 1 \in 0 .. n - 1 /\ n \in 1 .. n
    BY <1>3
  <2>2. F(n - 1)[n - 1] = F(n)[n - 1]
    BY <2>1, <1>1, FollowsUnique
  <2>3. F(n)[n] = links[F(n)[n - 1]]
    BY <2>1, <1>1 DEF Follows
  <2> QED BY <2>1, <2>2, <2>3
<1>4. h = [i \in Nat |-> IF i = 0 THEN start ELSE links[h[i - 1]]]
  <2>1. \A i \in Nat : h[i] = IF i = 0 THEN start ELSE links[h[i - 1]]
    <3> HIDE DEF h
    <3> QED BY <1>2, <1>3
  <2> QED BY <2>1
<1> HIDE DEF h
<1> QED BY <1>4 DEF HopFrom

HopAlong(links) == HopFrom(SeedTask, links)

LEMMA HopAlongDef ==
  ASSUME NEW links
  PROVE  HopAlong(links) =
           [i \in Nat |-> IF i = 0 THEN SeedTask ELSE links[HopAlong(links)[i - 1]]]
BY HopFromDef DEF HopAlong

LEMMA HopIs == Hop = HopAlong(next)
BY DEF Hop, HopAlong, HopFrom

(* The walk passes every queued task once and is back at the head after    *)
(* nr_running hops.                                                        *)
RingWalk ==
  /\ nr_running \in Nat \ {0}
  /\ Walk \in [1 .. nr_running -> QueuedTasks]
  /\ Walk[1] = SeedTask
  /\ \A i \in 1 .. nr_running - 1 : Walk[i + 1] = next[Walk[i]]
  /\ next[Walk[nr_running]] = SeedTask
  /\ \A i, j \in 1 .. nr_running : Walk[i] = Walk[j] => i = j
  /\ \A q \in QueuedTasks : \E i \in 1 .. nr_running : q = Walk[i]

LEMMA RingIsWalk == QueueInv /\ Queued(SeedTask) => RingWalk
<1> SUFFICES ASSUME QueueInv, Queued(SeedTask) PROVE RingWalk
  OBVIOUS
<1>1. /\ DOMAIN Hop = Nat
      /\ Hop[0] = SeedTask
      /\ \A i \in Nat : Hop[i + 1] = next[Hop[i]]
  <2>1. Hop = [i \in Nat |-> IF i = 0 THEN SeedTask ELSE next[Hop[i - 1]]]
    BY HopIs, HopAlongDef
  <2>2. ASSUME NEW i \in Nat PROVE Hop[i + 1] = next[Hop[i]]
    <3>1. i + 1 \in Nat /\ i + 1 # 0 /\ (i + 1) - 1 = i
      OBVIOUS
    <3> QED BY <2>1, <3>1
  <2> QED BY <2>1, <2>2
<1>2. SeedTask \in Task /\ SeedTask \in QueuedTasks
  BY QueueAssumption DEF QueuedTasks
<1>3. \A q \in QueuedTasks : q \in Task /\ next[q] \in QueuedTasks
                             /\ prev[q] \in QueuedTasks
                             /\ prev[next[q]] = q /\ next[prev[q]] = q
  BY QueueNeighbours DEF QueuedTasks
<1> DEFINE S == {q \in QueuedTasks : \E i \in Nat : q = Hop[i]}
<1>4. S = QueuedTasks
  <2>1. \A q \in S : next[q] \in S
    BY <1>1, <1>3
  <2>2. SeedTask \in S
    BY <1>1, <1>2
  <2> QED BY <2>1, <2>2 DEF QueueInv, RingLinks, OneRing
<1>5. \A i \in Nat : Hop[i] \in QueuedTasks
  <2> DEFINE B == {i \in Nat : Hop[i] \notin QueuedTasks}
  <2> SUFFICES ASSUME B # {} PROVE FALSE
    OBVIOUS
  <2>1. PICK b \in B : \A y \in B : ~ (y < b)
    <3>1. B \in SUBSET Nat
      OBVIOUS
    <3> HIDE DEF B
    <3> QED BY <3>1, NatMinimum
  <2>2. b # 0
    BY <1>1, <1>2
  <2>3. b - 1 \in Nat /\ b - 1 \notin B
    BY <2>1, <2>2
  <2>4. Hop[b - 1] \in QueuedTasks /\ Hop[b] = next[Hop[b - 1]]
    BY <2>2, <2>3, <1>1
  <2> QED BY <2>4, <1>3
<1> DEFINE K == {k \in Nat \ {0} : Hop[k] = SeedTask}
<1>6. PICK k \in K : \A y \in K : ~ (y < k)
  <2>1. PICK m \in Nat : prev[SeedTask] = Hop[m]
    BY <1>2, <1>3, <1>4
  <2>2. m + 1 \in K
    BY <2>1, <1>1, <1>2, <1>3
  <2>3. K \in SUBSET Nat /\ K # {}
    BY <2>2
  <2> HIDE DEF K
  <2> QED BY <2>3, NatMinimum
<1>7. k \in Nat \ {0} /\ Hop[k] = SeedTask /\ \A y \in 1 .. k - 1 : Hop[y] # SeedTask
  BY <1>6
<1> HIDE DEF K
(* Two equal places before the k-th would, stepped back together, make an  *)
(* earlier return to the head.                                             *)
<1>8. ASSUME NEW i \in 0 .. k - 1, NEW j \in 0 .. k - 1, i < j, Hop[i] = Hop[j]
      PROVE  FALSE
  <2> DEFINE D == {x \in 0 .. i : \E y \in 1 .. k - 1 : x < y /\ Hop[x] = Hop[y]}
  <2>1. D \in SUBSET Nat /\ D # {}
    BY <1>8
  <2>2. PICK d \in D : \A x \in D : ~ (x < d)
    <3> HIDE DEF D
    <3> QED BY <2>1, NatMinimum
  <2>3. PICK y \in 1 .. k - 1 : d < y /\ Hop[d] = Hop[y]
    BY <2>2
  <2>4. d # 0
    BY <2>3, <1>1, <1>7
  <2>5. d \in 0 .. i /\ d - 1 \in Nat /\ y - 1 \in Nat /\ y - 1 \in 1 .. k - 1 /\ d - 1 < y - 1
    BY <2>2, <2>3, <2>4, <1>7
  <2>6. Hop[d] = next[Hop[d - 1]] /\ Hop[y] = next[Hop[y - 1]]
    <3>1. (d - 1) + 1 = d /\ (y - 1) + 1 = y
      BY <2>5
    <3> QED BY <3>1, <2>5, <1>1
  <2>7. Hop[d - 1] = Hop[y - 1]
    <3>1. Hop[d - 1] \in QueuedTasks /\ Hop[y - 1] \in QueuedTasks
      BY <2>5, <1>5
    <3>2. prev[next[Hop[d - 1]]] = Hop[d - 1] /\ prev[next[Hop[y - 1]]] = Hop[y - 1]
      BY <3>1, <1>3
    <3> QED BY <3>2, <2>3, <2>6
  <2>8. d - 1 \in D
    BY <2>5, <2>7
  <2> QED BY <2>2, <2>5, <2>8
<1>9. \A q \in QueuedTasks : \E i \in 0 .. k - 1 : q = Hop[i]
  <2> DEFINE T == {q \in QueuedTasks : \E i \in 0 .. k - 1 : q = Hop[i]}
  <2>1. SeedTask \in T
    BY <1>1, <1>2, <1>7
  <2>2. ASSUME NEW q \in T PROVE next[q] \in T
    <3>1. PICK i \in 0 .. k - 1 : q = Hop[i]
      OBVIOUS
    <3>2. next[q] = Hop[i + 1]
      BY <3>1, <1>1
    <3>3. CASE i = k - 1
      <4>1. next[q] = SeedTask
        BY <3>2, <3>3, <1>7
      <4> QED BY <4>1, <2>1
    <3>4. CASE i # k - 1
      <4>1. i + 1 \in 0 .. k - 1
        BY <3>4, <1>7
      <4> QED BY <4>1, <3>2, <1>3
    <3> QED BY <3>3, <3>4
  <2>3. T = QueuedTasks
    <3>1. T \in SUBSET QueuedTasks
      OBVIOUS
    <3> HIDE DEF T
    <3> QED BY <2>1, <2>2, <3>1 DEF QueueInv, RingLinks, OneRing
  <2> QED BY <2>3
<1>10. nr_running = k
  <2> DEFINE f == [i \in 1 .. k |-> Hop[i - 1]]
  <2>1. f \in Bijection(1 .. k, QueuedTasks)
    <3>1. f \in [1 .. k -> QueuedTasks]
      BY <1>5
    <3>2. \A i, j \in 1 .. k : f[i] = f[j] => i = j
      <4> SUFFICES ASSUME NEW i \in 1 .. k, NEW j \in 1 .. k, f[i] = f[j], i # j
                   PROVE  FALSE
        BY Zenon
      <4>1. i - 1 \in 0 .. k - 1 /\ j - 1 \in 0 .. k - 1 /\ Hop[i - 1] = Hop[j - 1]
        <5>1. f[i] = Hop[i - 1] /\ f[j] = Hop[j - 1]
          OBVIOUS
        <5> QED BY <5>1, <1>7
      <4>2. i - 1 < j - 1 \/ j - 1 < i - 1
        OBVIOUS
      <4> QED BY <4>1, <4>2, <1>8
    <3>3. \A q \in QueuedTasks : \E i \in 1 .. k : f[i] = q
      <4> TAKE q \in QueuedTasks
      <4>1. PICK i \in 0 .. k - 1 : q = Hop[i]
        BY <1>9
      <4>2. i + 1 \in 1 .. k /\ (i + 1) - 1 = i
        BY <1>7
      <4> QED BY <4>1, <4>2
    <3> HIDE DEF f
    <3> QED BY <3>1, <3>2, <3>3 DEF Bijection, Injection, Surjection, IsInjective
  <2>2. ExistsBijection(1 .. k, QueuedTasks)
    BY <2>1 DEF ExistsBijection
  <2>3. IsFiniteSet(1 .. k) /\ Cardinality(1 .. k) = k
    BY <1>7, FS_Interval
  <2> QED BY <2>2, <2>3, FS_Bijection DEF QueueInv, RingLinks, CountExact
<1>11. \A i \in 1 .. k : i - 1 \in 0 .. k - 1 /\ Walk[i] = Hop[i - 1]
  BY <1>10, <1>7 DEF Walk
<1>12. Walk \in [1 .. k -> QueuedTasks]
  BY <1>5, <1>7, <1>10, <1>11 DEF Walk
<1>13. \A i, j \in 1 .. k : Walk[i] = Walk[j] => i = j
  <2> SUFFICES ASSUME NEW i \in 1 .. k, NEW j \in 1 .. k, Walk[i] = Walk[j], i # j
               PROVE  FALSE
    BY Zenon
  <2>1. i - 1 < j - 1 \/ j - 1 < i - 1
    OBVIOUS
  <2> QED BY <2>1, <1>8, <1>11
<1>14. \A q \in QueuedTasks : \E i \in 1 .. k : q = Walk[i]
  <2> TAKE q \in QueuedTasks
  <2>1. PICK i \in 0 .. k - 1 : q = Hop[i]
    BY <1>9
  <2>2. i + 1 \in 1 .. k /\ (i + 1) - 1 = i
    BY <1>7
  <2> QED BY <2>1, <2>2, <1>11
<1>15. \A i \in 1 .. k - 1 : Walk[i + 1] = next[Walk[i]]
  <2> TAKE i \in 1 .. k - 1
  <2>1. i \in 1 .. k /\ i + 1 \in 1 .. k /\ (i + 1) - 1 = (i - 1) + 1 /\ i - 1 \in Nat
    BY <1>7
  <2> QED BY <2>1, <1>1, <1>11
<1>16. Walk[1] = SeedTask /\ next[Walk[k]] = SeedTask
  <2>1. 1 \in 1 .. k /\ k \in 1 .. k /\ k - 1 \in Nat /\ (k - 1) + 1 = k
    BY <1>7
  <2> QED BY <2>1, <1>1, <1>7, <1>11
<1> QED BY <1>7, <1>10, <1>12, <1>13, <1>14, <1>15, <1>16 DEF RingWalk

(* Whoever starts at the head and follows the links walks that way.        *)
LEMMA WalkUnique ==
  ASSUME NEW links, NEW n \in Nat, NEW f, n # 0 => f[1] = SeedTask,
         \A i \in 1 .. n - 1 : f[i + 1] = links[f[i]]
  PROVE  \A i \in 1 .. n : HopAlong(links)[i - 1] = f[i]
<1> DEFINE h == HopAlong(links)
           S == {i \in 1 .. n : h[i - 1] # f[i]}
<1> SUFFICES ASSUME S # {} PROVE FALSE
  OBVIOUS
<1>0. h = [i \in Nat |-> IF i = 0 THEN SeedTask ELSE links[h[i - 1]]]
  BY HopAlongDef
<1> HIDE DEF h
<1>1. /\ h[0] = SeedTask
      /\ \A i \in Nat \ {0} : h[i] = links[h[i - 1]]
  BY <1>0
<1>2. PICK k \in S : \A i \in S : ~ (i < k)
  <2>1. S \in SUBSET Nat
    OBVIOUS
  <2> HIDE DEF S
  <2> QED BY <2>1, NatMinimum
<1>3. k # 1
  BY <1>1
<1>4. k \in 1 .. n /\ k - 1 \in 1 .. n - 1 /\ k - 1 \in Nat \ {0} /\ k - 1 \notin S
  BY <1>2, <1>3
<1>5. h[k - 2] = f[k - 1] /\ h[k - 1] = links[h[k - 2]] /\ f[k] = links[f[k - 1]]
  <2>1. (k - 1) - 1 = k - 2 /\ (k - 1) + 1 = k /\ k - 1 \in 1 .. n
    BY <1>4
  <2> QED BY <2>1, <1>1, <1>4
<1> QED BY <1>2, <1>5

LEMMA RemoveAtIs ==
  ASSUME NEW T, NEW s \in Seq(T), NEW i \in 1 .. Len(s)
  PROVE  Order!RemoveAt(s, i) = [j \in 1 .. Len(s) - 1 |-> IF j < i THEN s[j] ELSE s[j + 1]]
<1> DEFINE a == SubSeq(s, 1, i - 1)
           b == SubSeq(s, i + 1, Len(s))
<1>1. Len(s) \in Nat /\ i \in Nat /\ i >= 1 /\ i <= Len(s)
  OBVIOUS
<1>2. a \in Seq(T) /\ Len(a) = i - 1 /\ \A j \in 1 .. i - 1 : a[j] = s[j]
  BY <1>1
<1>3. /\ b \in Seq(T) /\ Len(b) = Len(s) - i
      /\ \A j \in 1 .. Len(s) - i : b[j] = s[i + j]
  BY <1>1
<1> HIDE DEF a, b
<1>4. /\ a \o b \in Seq(T) /\ Len(a \o b) = Len(s) - 1
      /\ \A j \in 1 .. Len(s) - 1 :
           (a \o b)[j] = IF j < i THEN s[j] ELSE s[j + 1]
  <2>1. a \o b \in Seq(T) /\ Len(a \o b) = Len(s) - 1
    <3>1. a \o b \in Seq(T) /\ Len(a \o b) = Len(a) + Len(b)
      BY <1>2, <1>3, ConcatProperties
    <3> QED BY <3>1, <1>1, <1>2, <1>3
  <2>2. ASSUME NEW j \in 1 .. Len(s) - 1, j < i PROVE (a \o b)[j] = s[j]
    <3>1. j \in 1 .. i - 1 /\ j \in 1 .. Len(a)
      BY <1>1, <1>2, <2>2
    <3>2. (a \o b)[j] = a[j]
      BY <3>1, <1>2, <1>3
    <3> QED BY <3>1, <3>2, <1>2
  <2>3. ASSUME NEW j \in 1 .. Len(s) - 1, ~ (j < i) PROVE (a \o b)[j] = s[j + 1]
    <3>1. /\ j \in Len(a) + 1 .. Len(a) + Len(b) /\ j - (i - 1) \in 1 .. Len(s) - i
          /\ i + (j - (i - 1)) = j + 1
      BY <1>1, <1>2, <1>3, <2>3
    <3>2. (a \o b)[j] = b[j - (i - 1)]
      BY <3>1, <1>2, <1>3
    <3> QED BY <3>1, <3>2, <1>3
  <2> QED BY <2>1, <2>2, <2>3
<1>5. a \o b = [j \in 1 .. Len(s) - 1 |-> (a \o b)[j]]
  <2> DEFINE c == a \o b
  <2>1. c \in Seq(T) /\ Len(c) = Len(s) - 1
    BY <1>4
  <2> HIDE DEF c
  <2>2. c = [j \in 1 .. Len(s) - 1 |-> c[j]]
    BY <2>1
  <2> QED BY <2>2 DEF c
<1>6. a \o b = [j \in 1 .. Len(s) - 1 |-> IF j < i THEN s[j] ELSE s[j + 1]]
  BY <1>4, <1>5
<1> QED BY <1>6 DEF Order!RemoveAt, a, b

LEMMA WalkPrimed ==
  Walk' = [i \in 1 .. nr_running' |-> HopAlong(next')[i - 1]]
BY DEF Walk, Hop, HopAlong, HopFrom

LEMMA InsertEnters ==
  ASSUME QueueInv, NEW p \in Task, Insert(p)
  PROVE  Order!Enter(p)
<1>1. RingWalk
  BY RingIsWalk DEF Insert
<1>2. /\ next' = [next EXCEPT ![p] = next[SeedTask], ![SeedTask] = p]
      /\ nr_running' = nr_running + 1
      /\ ~Queued(p) /\ Queued(SeedTask) /\ next \in [Task -> Pointer]
      /\ SeedTask \in Task /\ p # SeedTask
  BY QueueAssumption DEF Insert, InsertAfterHead, QueueInv, QueueTypeOK
<1>3. next'[SeedTask] = p /\ next'[p] = next[SeedTask]
  BY <1>2
<1>4. nr_running \in Nat /\ nr_running >= 1 /\ Walk \in Seq(QueuedTasks) /\ Len(Walk) = nr_running
  BY <1>1 DEF RingWalk
<1>5. \A i \in 1 .. nr_running : Walk[i] \in QueuedTasks /\ Walk[i] \in Task /\ Walk[i] # p
  BY <1>1, <1>2 DEF RingWalk, QueuedTasks
<1> DEFINE f == [i \in 1 .. nr_running + 1 |->
                  IF i = 1 THEN SeedTask ELSE IF i = 2 THEN p ELSE Walk[i - 1]]
<1>6. \A i \in 1 .. nr_running : f[i + 1] = next'[f[i]]
  <2> TAKE i \in 1 .. nr_running
  <2>1. CASE i = 1
    BY <2>1, <1>3, <1>4
  <2>2. CASE i = 2
    <3>1. f[i] = p /\ f[i + 1] = Walk[2] /\ 1 \in 1 .. nr_running - 1
      BY <2>2, <1>4
    <3>2. Walk[1 + 1] = next[Walk[1]] /\ Walk[1] = SeedTask
      BY <3>1, <1>1 DEF RingWalk
    <3> QED BY <3>1, <3>2, <1>3
  <2>3. CASE i # 1 /\ i # 2
    <3>1. /\ f[i] = Walk[i - 1] /\ f[i + 1] = Walk[i] /\ i - 1 \in 1 .. nr_running - 1
          /\ i - 1 \in 1 .. nr_running /\ (i - 1) + 1 = i /\ i - 1 # 1 /\ 1 \in 1 .. nr_running
      BY <2>3, <1>4
    <3>2. Walk[i] = next[Walk[i - 1]] /\ Walk[i - 1] # SeedTask
      BY <3>1, <1>1 DEF RingWalk
    <3>3. next'[Walk[i - 1]] = next[Walk[i - 1]]
      BY <3>1, <3>2, <1>2, <1>5
    <3> QED BY <3>1, <3>2, <3>3
  <2> QED BY <2>1, <2>2, <2>3
<1>7. f[1] = SeedTask /\ DOMAIN f = 1 .. nr_running + 1
  BY <1>4
<1>8. Walk' = f
  <2>1. nr_running + 1 \in Nat /\ (nr_running + 1) - 1 = nr_running
    BY <1>4
  <2>2. f = [i \in 1 .. nr_running + 1 |-> f[i]]
    BY <1>7
  <2> HIDE DEF f
  <2>3. \A i \in 1 .. (nr_running + 1) - 1 : f[i + 1] = next'[f[i]]
    BY <2>1, <1>6
  <2>4. \A i \in 1 .. nr_running + 1 : HopAlong(next')[i - 1] = f[i]
    <3>1. nr_running + 1 # 0 => f[1] = SeedTask
      BY <1>7
    <3>2. \A links : (\A i \in 1 .. (nr_running + 1) - 1 : f[i + 1] = links[f[i]])
                        => \A i \in 1 .. nr_running + 1 : HopAlong(links)[i - 1] = f[i]
      BY <2>1, <3>1, WalkUnique
    <3> QED BY <2>3, <3>2
  <2> QED BY <2>2, <2>4, <1>2, WalkPrimed
<1>9. f = <<SeedTask, p>> \o Tail(Walk)
  <2>1. /\ Tail(Walk) \in Seq(QueuedTasks) /\ Len(Tail(Walk)) = nr_running - 1
        /\ \A i \in 1 .. nr_running - 1 : Tail(Walk)[i] = Walk[i + 1]
    BY <1>4
  <2> DEFINE g == <<SeedTask, p>> \o Tail(Walk)
  <2>2. Len(g) = nr_running + 1 /\ g \in Seq(QueuedTasks \cup {SeedTask, p})
    BY <2>1, <1>4
  <2>3. \A i \in 1 .. nr_running + 1 : g[i] = f[i]
    <3> TAKE i \in 1 .. nr_running + 1
    <3>1. CASE i \in 1 .. 2
      BY <3>1, <2>1, <1>4
    <3>2. CASE i \notin 1 .. 2
      <4>1. i - 2 \in 1 .. nr_running - 1 /\ (i - 2) + 1 = i - 1
        BY <3>2, <1>4
      <4>2. g[i] = Tail(Walk)[i - 2]
        BY <4>1, <2>1, <3>2, <1>4
      <4> QED BY <4>1, <4>2, <2>1, <3>2, <1>4
    <3> QED BY <3>1, <3>2
  <2> HIDE DEF g
  <2> QED BY <2>2, <2>3, <1>7 DEF g
<1>10. p \notin Order!Members
  BY <1>4, <1>5 DEF Order!Members
<1>11. Walk # <<>>
  BY <1>4
<1> HIDE DEF f
<1> QED BY <1>8, <1>9, <1>10, <1>11 DEF Order!Enter

LEMMA RemoveLeaves ==
  ASSUME QueueInv, NEW p \in Task, Remove(p)
  PROVE  Order!Leave(p)
<1>1. /\ Queued(p) /\ p \in QueuedTasks /\ next \in [Task -> Pointer]
      /\ prev[p] \in Task /\ next[prev[p]] = p
  BY QueueNeighbours DEF Remove, QueuedTasks, QueueInv, QueueTypeOK
<1>2. RingWalk
  <2>1. Queued(SeedTask)
    BY <1>1 DEF QueueInv, RingLinks, HeadQueued
  <2> QED BY <2>1, RingIsWalk
<1>3. /\ next' = [next EXCEPT ![prev[p]] = next[p], ![p] = Null]
      /\ nr_running' = nr_running - 1
  BY DEF Remove, Unlink
<1>4. nr_running \in Nat /\ nr_running >= 1 /\ Walk \in Seq(QueuedTasks) /\ Len(Walk) = nr_running
  BY <1>2 DEF RingWalk
<1>5. PICK i \in 1 .. nr_running : Walk[i] = p
  BY <1>1, <1>2 DEF RingWalk
<1>6. /\ Walk[1] = SeedTask
      /\ \A j \in 1 .. nr_running : Walk[j] \in Task
      /\ \A j \in 1 .. nr_running - 1 : Walk[j + 1] = next[Walk[j]]
      /\ \A j, k \in 1 .. nr_running : Walk[j] = Walk[k] => j = k
  BY <1>2 DEF RingWalk, QueuedTasks
<1>7. p = SeedTask => nr_running = 1
  <2> SUFFICES ASSUME p = SeedTask, nr_running # 1 PROVE FALSE
    OBVIOUS
  <2>1. 1 \in 1 .. nr_running - 1 /\ 1 \in 1 .. nr_running /\ 2 \in 1 .. nr_running /\ 1 + 1 = 2
    BY <1>4
  <2>2. Walk[2] = next[Walk[1]]
    BY <2>1, <1>6
  <2>3. Walk[2] = SeedTask
    BY <2>2, <1>6 DEF Remove
  <2> QED BY <2>1, <2>3, <1>6
<1> DEFINE f == [j \in 1 .. nr_running - 1 |-> IF j < i THEN Walk[j] ELSE Walk[j + 1]]
<1>8. nr_running - 1 # 0 => i # 1 /\ f[1] = SeedTask
  BY <1>4, <1>5, <1>6, <1>7
<1>9. \A j \in 1 .. nr_running - 2 : f[j + 1] = next'[f[j]]
  <2> TAKE j \in 1 .. nr_running - 2
  <2>1. /\ j \in 1 .. nr_running - 1 /\ j + 1 \in 1 .. nr_running - 1
        /\ j \in 1 .. nr_running /\ j + 1 \in 1 .. nr_running /\ i # 1
        /\ (j + 1) + 1 \in 1 .. nr_running
    BY <1>4, <1>8
  <2>2. i - 1 \in 1 .. nr_running - 1 /\ i - 1 \in 1 .. nr_running /\ (i - 1) + 1 = i
    BY <2>1, <1>4, <1>5
  <2>3. prev[p] = Walk[i - 1]
    <3>1. next[Walk[i - 1]] = p
      BY <2>2, <1>5, <1>6
    <3>2. Walk[i - 1] \in QueuedTasks
      BY <2>2, <1>2 DEF RingWalk
    <3> QED BY <3>1, <3>2, QueueNeighbours DEF QueuedTasks
  <2>4. \A q \in Task : q # p => next'[q] = IF q = Walk[i - 1] THEN next[p] ELSE next[q]
    BY <2>3, <1>1, <1>3
  <2>5. CASE j + 1 < i
    <3>1. f[j] = Walk[j] /\ f[j + 1] = Walk[j + 1] /\ j # i - 1 /\ j # i
      BY <2>1, <2>5, <1>5
    <3>2. Walk[j] # p /\ Walk[j] # Walk[i - 1]
      BY <3>1, <2>1, <2>2, <1>5, <1>6
    <3> QED BY <3>1, <3>2, <2>1, <2>4, <1>6
  <2>6. CASE j + 1 = i
    <3>1. f[j] = Walk[i - 1] /\ f[j + 1] = Walk[i + 1] /\ j = i - 1 /\ i \in 1 .. nr_running - 1
      BY <2>1, <2>6, <1>4, <1>5
    <3>2. Walk[i - 1] # p
      BY <2>2, <1>5, <1>6
    <3>3. next'[Walk[i - 1]] = next[p]
      BY <3>2, <2>2, <2>4, <1>6
    <3>4. Walk[i + 1] = next[p]
      BY <3>1, <1>5, <1>6
    <3> QED BY <3>1, <3>3, <3>4
  <2>7. CASE j + 1 > i
    <3>1. /\ f[j] = Walk[j + 1] /\ f[j + 1] = Walk[(j + 1) + 1]
          /\ j + 1 # i - 1 /\ j + 1 # i
      BY <2>1, <2>7, <1>4, <1>5
    <3>2. Walk[j + 1] # p /\ Walk[j + 1] # Walk[i - 1]
      BY <3>1, <2>1, <2>2, <1>5, <1>6
    <3>3. Walk[(j + 1) + 1] = next[Walk[j + 1]]
      BY <2>1, <1>6
    <3> QED BY <3>1, <3>2, <3>3, <2>1, <2>4, <1>6
  <2> QED BY <2>1, <2>5, <2>6, <2>7, <1>5
<1>10. DOMAIN f = 1 .. nr_running - 1
  OBVIOUS
<1>11. f = Order!RemoveAt(Walk, i)
  BY <1>4, RemoveAtIs
<1> HIDE DEF f
<1>12. Walk' = f
  <2>1. nr_running - 1 \in Nat /\ (nr_running - 1) - 1 = nr_running - 2
    BY <1>4
  <2>2. f = [j \in 1 .. nr_running - 1 |-> f[j]]
    BY <1>10, <1>11, <1>4, RemoveAtIs
  <2>3. nr_running - 1 # 0 => f[1] = SeedTask
    BY <1>8
  <2>4. \A links : (\A j \in 1 .. (nr_running - 1) - 1 : f[j + 1] = links[f[j]])
                      => \A j \in 1 .. nr_running - 1 : HopAlong(links)[j - 1] = f[j]
    BY <2>1, <2>3, WalkUnique
  <2>5. \A j \in 1 .. nr_running - 1 : HopAlong(next')[j - 1] = f[j]
    BY <2>1, <2>4, <1>9
  <2> QED BY <2>2, <2>5, <1>3, WalkPrimed
<1>13. DOMAIN Walk = 1 .. nr_running
  BY <1>4
<1> QED BY <1>4, <1>5, <1>7, <1>11, <1>12, <1>13 DEF Order!Leave
-----------------------------------------------------------------------------

LEMMA QueueStep == QueueInv /\ [QueueNext]_queueVars => QueueInv'
<1> SUFFICES ASSUME QueueInv, [QueueNext]_queueVars PROVE QueueInv'
  OBVIOUS
<1>1. CASE QueueNext
  BY <1>1, InsertKeepsLinks, RemoveKeepsLinks DEF QueueNext
<1>2. CASE UNCHANGED queueVars
  BY <1>2 DEF queueVars, QueueInv, QueueTypeOK, RingLinks, LinksInverse,
              HeadQueued, CountExact, OneRing, QueuedTasks, Queued
<1> QED BY <1>1, <1>2

(* Whatever its clients insert and remove, the run queue is one ring of    *)
(* mutually inverse links through the head, nr_running long: what schedule *)
(* and deactivate_task dereference is never NULL.                          *)
THEOREM QueueLinksSound == QueueSpec => [](QueueTypeOK /\ RingLinks)
BY InitialLinks, QueueStep, PTL DEF QueueSpec, QueueInv

(* The linked queue is a sequence in which a task enters at the second     *)
(* place and leaves without disturbing the order of the others: following  *)
(* next from the head visits every queued task once, in that order.        *)
THEOREM QueueIsTaskOrder == QueueSpec => ImplementsTaskOrder
<1>1. InitSchedule => Order!Start
  <2> SUFFICES ASSUME InitSchedule PROVE Walk = <<SeedTask>>
    BY DEF Order!Start
  <2>1. nr_running = 1 /\ Queued(SeedTask)
    BY QueueAssumption DEF InitSchedule, Queued
  <2>2. RingWalk
    BY <2>1, InitialLinks, RingIsWalk
  <2>3. Walk = [i \in 1 .. 1 |-> Walk[i]] /\ Walk[1] = SeedTask
    BY <2>1, <2>2 DEF RingWalk
  <2>4. Walk \in Seq(QueuedTasks) /\ Len(Walk) = 1
    BY <2>1, <2>2 DEF RingWalk
  <2> QED BY <2>3, <2>4
<1>2. QueueInv /\ [QueueNext]_queueVars => [Order!Change]_Walk
  <2> SUFFICES ASSUME QueueInv, [QueueNext]_queueVars PROVE [Order!Change]_Walk
    OBVIOUS
  <2>1. ASSUME NEW p \in Task, Insert(p) PROVE Order!Change
    BY <2>1, InsertEnters DEF Order!Change
  <2>2. ASSUME NEW p \in Task, Remove(p) PROVE Order!Change
    BY <2>2, RemoveLeaves DEF Order!Change
  <2>3. CASE UNCHANGED queueVars
    BY <2>3, HopIs, WalkPrimed DEF queueVars, Walk
  <2> QED BY <2>1, <2>2, <2>3 DEF QueueNext
<1>3. QueueSpec => []QueueInv
  BY InitialLinks, QueueStep, PTL DEF QueueSpec
<1> QED BY <1>1, <1>2, <1>3, PTL DEF QueueSpec, ImplementsTaskOrder, Order!Ordered
=============================================================================
