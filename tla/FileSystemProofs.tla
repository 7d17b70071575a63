-------------------------- MODULE FileSystemProofs --------------------------
(***************************************************************************)
(* The file system's tree, its store and its answers, for any names,       *)
(* paths, contents, sizes and hashes, as long as one thread runs handlers: *)
(* bbfs.c then keeps its types and does what a directory tree of logs      *)
(* would that may store another block for one that hashes alike.           *)
(*                                                                         *)
(* The nodes are a forest in which every node is reached on one path, so   *)
(* that making or removing an entry moves nothing else.  A handler's walk  *)
(* is described by how many names of its path it has come down; what it    *)
(* has found is what the whole path leads to, because nobody else runs.    *)
(***************************************************************************)
EXTENDS FileSystem, FiniteSetTheorems, SequenceTheorems, WellFoundedInduction, TLAPS
-----------------------------------------------------------------------------
(* The inductive invariant, for one thread                                 *)

\* The file system runs one handler at a time, as FUSE does with -s.
OneThread == \A t, u \in Threads : t = u

NodeRecord ==
  [name : Names \cup {"/"}, dir : BOOLEAN, size : Int, num_block : Int,
   files : Seq(Nat), block : [1 .. MaxBlocks -> Nat]]

CallRecord ==
  [op : Ops, phase : Phases, path : Paths \cup {<<>>}, data : Blocks \cup {Unwritten},
   first : Nat, size : Nat, token : Names \cup {NoToken}, name : Names \cup {NoToken},
   cur : Nat, parent : Nat, index : Nat, slot : Nat]
-----------------------------------------------------------------------------
(* Paths                                                                   *)

\* A set of numbers that is not empty has a least one.
LEMMA NatMinimum ==
  ASSUME NEW S \in SUBSET Nat, S # {}
  PROVE  \E x \in S : \A y \in S : ~ (y < x)
<1>1. PICK x \in S : \A y \in S : ~ (<<y, x>> \in OpToRel(<, Nat))
  BY NatLessThanWellFounded, WFMin
<1>2. \A y \in S : y < x => <<y, x>> \in OpToRel(<, Nat)
  BY DEF OpToRel
<1> QED BY <1>1, <1>2

\* A path that is not empty: what stands before its last name, and that name.
LEMMA Parts ==
  ASSUME NEW T, NEW p \in Seq(T), p # <<>>
  PROVE  /\ Front(p) \in Seq(T) /\ Last(p) \in T
         /\ Len(p) \in Nat \ {0} /\ Len(Front(p)) = Len(p) - 1
         /\ \A i \in 1 .. Len(p) - 1 : Front(p)[i] = p[i]
         /\ \A k \in 0 .. Len(p) - 1 : SubSeq(Front(p), 1, k) = SubSeq(p, 1, k)
         /\ Last(p) = p[Len(p)]
<1>1. Len(p) \in Nat \ {0} /\ Front(p) = SubSeq(p, 1, Len(p) - 1)
  BY DEF Front
<1>2. Front(p) \in Seq(T) /\ Len(Front(p)) = Len(p) - 1
      /\ \A i \in 1 .. Len(p) - 1 : Front(p)[i] = p[i]
  <2>1. 1 \in Int /\ Len(p) - 1 \in Int /\ \A i \in 1 .. Len(p) - 1 : p[i] \in T
    BY <1>1
  <2> DEFINE u == SubSeq(p, 1, Len(p) - 1)
  <2>2. /\ u \in Seq(T) /\ Len(u) = IF 1 <= Len(p) - 1 THEN (Len(p) - 1) - 1 + 1 ELSE 0
        /\ \A i \in 1 .. (Len(p) - 1) - 1 + 1 : u[i] = p[1 + i - 1]
    BY <2>1, SubSeqProperties
  <2> HIDE DEF u
  <2>3. \A i \in 1 .. Len(p) - 1 : i \in 1 .. (Len(p) - 1) - 1 + 1 /\ 1 + i - 1 = i
    BY <1>1
  <2>4. \A i \in 1 .. Len(p) - 1 : u[i] = p[i]
    BY <2>2, <2>3
  <2>5. Len(u) = Len(p) - 1
    <3> DEFINE n == Len(p)
    <3>1. n \in Nat \ {0} /\ Len(u) = IF 1 <= n - 1 THEN (n - 1) - 1 + 1 ELSE 0
      BY <1>1, <2>2
    <3> HIDE DEF n
    <3>2. Len(u) = n - 1
      BY <3>1
    <3> QED BY <3>2 DEF n
  <2> QED BY <1>1, <2>2, <2>4, <2>5 DEF u
<1>3. ASSUME NEW k \in 0 .. Len(p) - 1 PROVE SubSeq(Front(p), 1, k) = SubSeq(p, 1, k)
  BY <1>1, <1>2
<1> QED BY <1>1, <1>2, <1>3 DEF Last

\* Whatever holds of the empty path, and of a path when it holds of the one
\* that it continues, holds of all.
LEMMA PathsGrow ==
  ASSUME NEW T, NEW S, <<>> \in S,
         \A p \in Seq(T) : p # <<>> /\ Front(p) \in S => p \in S
  PROVE  Seq(T) \subseteq S
<1> DEFINE C == {n \in Nat : \E p \in Seq(T) \ S : Len(p) = n}
<1> SUFFICES ASSUME NEW q \in Seq(T), q \notin S PROVE FALSE
  OBVIOUS
<1>1. C # {}
  <2>1. Len(q) \in Nat
    OBVIOUS
  <2> QED BY <2>1
<1>2. PICK n \in C : \A m \in C : ~ (m < n)
  <2>1. C \in SUBSET Nat
    OBVIOUS
  <2> HIDE DEF C
  <2> QED BY <1>1, <2>1, NatMinimum
<1>3. PICK p \in Seq(T) \ S : Len(p) = n
  BY <1>2
<1>4. p # <<>>
  BY <1>3
<1>5. Front(p) \in Seq(T) /\ Len(Front(p)) = n - 1 /\ n - 1 \in Nat
  BY <1>3, <1>4, Parts
<1>6. Front(p) \in S
  <2>1. n - 1 \notin C
    BY <1>2, <1>5
  <2> QED BY <2>1, <1>5
<1> QED BY <1>3, <1>4, <1>6
-----------------------------------------------------------------------------
(* The search, over any nodes                                              *)

Kids(nodes, n) == nodes[n].files
Named(nodes, n, i, name) == nodes[nodes[n].files[i]].name = name

\* The search and the walk of bbfs.c, for nodes that are not the current ones:
\* what has been built from them must be compared with what was there.
IndexIn(nodes, n, name) ==
  LET kids == nodes[n].files
  IN IF \E i \in DOMAIN kids : nodes[kids[i]].name = name
     THEN CHOOSE i \in DOMAIN kids : /\ nodes[kids[i]].name = name
                                     /\ \A j \in 1 .. i - 1 : nodes[kids[j]].name # name
     ELSE 0

ChildIn(nodes, n, name) ==
  IF IndexIn(nodes, n, name) = 0 THEN Nothing ELSE nodes[n].files[IndexIn(nodes, n, name)]

DescentIn(nodes, path) ==
  LET at[k \in 0 .. Len(path)] ==
        IF k = 0 THEN Root
        ELSE IF at[k - 1] = Nothing THEN Nothing ELSE ChildIn(nodes, at[k - 1], path[k])
  IN at

ResolveIn(nodes, path) == DescentIn(nodes, path)[Len(path)]

LEMMA IndexIs ==
  ASSUME NEW n, NEW name
  PROVE  /\ IndexOf(n, name) = IndexIn(node, n, name)
         /\ IndexOf(n, name)' = IndexIn(node', n, name)
BY DEF IndexOf, IndexIn

LEMMA ChildIs ==
  ASSUME NEW n, NEW name
  PROVE  /\ Child(n, name) = ChildIn(node, n, name)
         /\ Child(n, name)' = ChildIn(node', n, name)
BY IndexIs DEF Child, ChildIn

LEMMA ResolveIs ==
  ASSUME NEW path
  PROVE  /\ Resolve(path) = ResolveIn(node, path)
         /\ Resolve(path)' = ResolveIn(node', path)
BY DEF Resolve, ResolveIn, DescentIn, Child, ChildIn, IndexOf, IndexIn

\* f leads down n names of the path.
Descends(nodes, path, n, f) ==
  /\ f[0] = Root
  /\ \A i \in 1 .. n :
       f[i] = IF f[i - 1] = Nothing THEN Nothing ELSE ChildIn(nodes, f[i - 1], path[i])

\* A path leads down to every one of its names ...
LEMMA DescendsExists ==
  ASSUME NEW nodes, NEW path, NEW n \in Nat
  PROVE  \E f : Descends(nodes, path, n, f)
<1> DEFINE S == {m \in Nat : ~ \E f : Descends(nodes, path, m, f)}
<1> SUFFICES ASSUME S # {} PROVE FALSE
  OBVIOUS
<1>1. PICK m \in S : \A k \in S : ~ (k < m)
  <2>1. S \in SUBSET Nat
    OBVIOUS
  <2> HIDE DEF S
  <2> QED BY <2>1, NatMinimum
<1>2. m # 0
  <2>1. Descends(nodes, path, 0, [i \in {0} |-> Root])
    BY DEF Descends
  <2> QED BY <2>1
<1>3. m - 1 \in Nat /\ m - 1 \notin S
  BY <1>1, <1>2
<1>4. PICK f : Descends(nodes, path, m - 1, f)
  BY <1>3
<1> DEFINE top == IF f[m - 1] = Nothing THEN Nothing ELSE ChildIn(nodes, f[m - 1], path[m])
           g == [i \in 0 .. m |-> IF i = m THEN top ELSE f[i]]
<1>5. g[0] = Root
  BY <1>2, <1>3, <1>4 DEF Descends
<1>6. ASSUME NEW i \in 1 .. m
      PROVE  g[i] = IF g[i - 1] = Nothing THEN Nothing ELSE ChildIn(nodes, g[i - 1], path[i])
  <2>1. g[i - 1] = f[i - 1]
    BY <1>3
  <2>2. CASE i = m
    BY <2>1, <2>2
  <2>3. CASE i # m
    <3>1. g[i] = f[i] /\ i \in 1 .. m - 1
      BY <2>3, <1>3
    <3> HIDE DEF g
    <3> QED BY <2>1, <3>1, <1>4 DEF Descends
  <2> QED BY <2>2, <2>3
<1>7. Descends(nodes, path, m, g)
  <2> HIDE DEF g
  <2> QED BY <1>5, <1>6 DEF Descends
<1> QED BY <1>7

\* ... in one way, so that the function of the definition is that one.
LEMMA DescendsUnique ==
  ASSUME NEW nodes, NEW path, NEW other, NEW n \in Nat, NEW f, NEW g,
         \A i \in 1 .. n : path[i] = other[i],
         Descends(nodes, path, n, f), Descends(nodes, other, n, g)
  PROVE  \A i \in 0 .. n : f[i] = g[i]
<1> DEFINE S == {i \in 0 .. n : f[i] # g[i]}
<1> SUFFICES ASSUME S # {} PROVE FALSE
  OBVIOUS
<1>1. PICK k \in S : \A i \in S : ~ (i < k)
  <2>1. S \in SUBSET Nat
    OBVIOUS
  <2> HIDE DEF S
  <2> QED BY <2>1, NatMinimum
<1>2. k # 0
  BY DEF Descends
<1>3. k - 1 \in 0 .. n /\ k - 1 \notin S /\ k \in 1 .. n
  BY <1>1, <1>2
<1>4. f[k - 1] = g[k - 1] /\ path[k] = other[k]
  BY <1>3
<1> QED BY <1>3, <1>4 DEF Descends

LEMMA DescentDescends ==
  ASSUME NEW nodes, NEW T, NEW path \in Seq(T)
  PROVE  Descends(nodes, path, Len(path), DescentIn(nodes, path))
<1>1. Len(path) \in Nat
  OBVIOUS
<1>2. PICK f : Descends(nodes, path, Len(path), f)
  BY <1>1, DescendsExists
<1> DEFINE g == [k \in 0 .. Len(path) |-> f[k]]
           On(at) == [k \in 0 .. Len(path) |->
             IF k = 0 THEN Root
             ELSE IF at[k - 1] = Nothing THEN Nothing ELSE ChildIn(nodes, at[k - 1], path[k])]
<1>3. g = On(g)
  <2>1. ASSUME NEW k \in 0 .. Len(path)
        PROVE  f[k] = IF k = 0 THEN Root
                      ELSE IF g[k - 1] = Nothing THEN Nothing ELSE ChildIn(nodes, g[k - 1], path[k])
    <3>1. CASE k = 0
      BY <3>1, <1>2 DEF Descends
    <3>2. CASE k # 0
      <4>1. k \in 1 .. Len(path) /\ g[k - 1] = f[k - 1]
        BY <3>2, <1>1
      <4> HIDE DEF g
      <4> QED BY <4>1, <1>2 DEF Descends
    <3> QED BY <3>1, <3>2
  <2> QED BY <2>1
<1>4. DescentIn(nodes, path) = On(DescentIn(nodes, path))
  <2> HIDE DEF g
  <2> QED BY <1>3 DEF DescentIn
<1> DEFINE d == DescentIn(nodes, path)
<1>5. d[0] = Root
  <2>1. 0 \in 0 .. Len(path)
    BY <1>1
  <2>2. On(d)[0] = Root
    BY <2>1
  <2> HIDE DEF On
  <2> QED BY <2>2, <1>4
<1>6. \A i \in 1 .. Len(path) :
        d[i] = IF d[i - 1] = Nothing THEN Nothing ELSE ChildIn(nodes, d[i - 1], path[i])
  <2>1. \A i \in 0 .. Len(path) : d[i] = On(d)[i]
    BY <1>4
  <2>2. \A i \in 1 .. Len(path) : i \in 0 .. Len(path) /\ i # 0
    OBVIOUS
  <2> HIDE DEF d
  <2> QED BY <2>1, <2>2
<1> QED BY <1>5, <1>6 DEF Descends

LEMMA ResolveEmpty ==
  ASSUME NEW nodes
  PROVE  ResolveIn(nodes, <<>>) = Root
<1>1. <<>> \in Seq({}) /\ Len(<<>>) = 0
  OBVIOUS
<1>2. DescentIn(nodes, <<>>)[0] = Root
  BY <1>1, DescentDescends DEF Descends
<1> QED BY <1>1, <1>2 DEF ResolveIn

\* A path leads where its last name leads from where the others lead.
LEMMA ResolveStep ==
  ASSUME NEW nodes, NEW T, NEW path \in Seq(T), path # <<>>
  PROVE  ResolveIn(nodes, path) =
           IF ResolveIn(nodes, Front(path)) = Nothing THEN Nothing
           ELSE ChildIn(nodes, ResolveIn(nodes, Front(path)), Last(path))
<1> DEFINE n == Len(path)
           up == Front(path)
           f == DescentIn(nodes, path)
           g == DescentIn(nodes, up)
<1>1. /\ n \in Nat \ {0} /\ n - 1 \in Nat /\ up \in Seq(T) /\ Len(up) = n - 1
      /\ \A i \in 1 .. n - 1 : up[i] = path[i]
      /\ Last(path) = path[n]
  BY Parts
<1> HIDE DEF n, up
<1>2. Descends(nodes, path, n, f) /\ Descends(nodes, up, n - 1, g)
  <2>1. Descends(nodes, path, n, f)
    BY DescentDescends DEF n
  <2>2. Descends(nodes, up, Len(up), g)
    BY <1>1, DescentDescends
  <2> QED BY <2>1, <2>2, <1>1
<1>3. ResolveIn(nodes, path) = f[n] /\ ResolveIn(nodes, up) = g[n - 1]
  BY <1>1 DEF ResolveIn, n
<1> HIDE DEF f, g
<1>4. Descends(nodes, path, n - 1, f)
  BY <1>1, <1>2 DEF Descends
<1>5. f[n - 1] = g[n - 1]
  <2> DEFINE m == n - 1
  <2>1. /\ m \in Nat /\ \A i \in 1 .. m : path[i] = up[i]
        /\ Descends(nodes, path, m, f) /\ Descends(nodes, up, m, g)
    BY <1>1, <1>2, <1>4
  <2> HIDE DEF m
  <2>2. \A i \in 0 .. m : f[i] = g[i]
    BY <2>1, DescendsUnique
  <2>3. m \in 0 .. m
    BY <2>1
  <2> QED BY <2>2, <2>3 DEF m
<1>6. f[n] = IF f[n - 1] = Nothing THEN Nothing ELSE ChildIn(nodes, f[n - 1], path[n])
  BY <1>1, <1>2 DEF Descends
<1> QED BY <1>1, <1>3, <1>5, <1>6 DEF up
LEMMA WholePath ==
  ASSUME NEW T, NEW p \in Seq(T), NEW q \in Seq(T), p # <<>>, q # <<>>,
         Front(p) = Front(q), Last(p) = Last(q)
  PROVE  p = q
<1> DEFINE n == Len(p)
<1>1. /\ n \in Nat \ {0} /\ Len(q) \in Nat \ {0} /\ Len(Front(p)) = n - 1
      /\ Len(Front(q)) = Len(q) - 1
      /\ \A i \in 1 .. n - 1 : Front(p)[i] = p[i]
      /\ \A i \in 1 .. Len(q) - 1 : Front(q)[i] = q[i]
      /\ Last(p) = p[n] /\ Last(q) = q[Len(q)]
  BY Parts
<1>2. Len(q) = n
  BY <1>1
<1>3. \A i \in 1 .. n : p[i] = q[i]
  <2> SUFFICES ASSUME NEW i \in 1 .. n PROVE p[i] = q[i]
    OBVIOUS
  <2>1. CASE i = n
    BY <2>1, <1>1, <1>2
  <2>2. CASE i # n
    <3>1. i \in 1 .. n - 1
      BY <2>2, <1>1
    <3> QED BY <3>1, <1>1, <1>2
  <2> QED BY <2>1, <2>2
<1> HIDE DEF n
<1> QED BY <1>2, <1>3, SeqEqual DEF n

\* A prefix of a path is that path, or one of what the path continues.
LEMMA PrefixStep ==
  ASSUME NEW T, NEW p \in Seq(T), NEW q \in Seq(T), q # <<>>
  PROVE  IsPrefix(p, q) <=> p = q \/ IsPrefix(p, Front(q))
<1> DEFINE n == Len(q)
           m == Len(p)
<1>1. /\ n \in Nat \ {0} /\ Front(q) \in Seq(T) /\ Len(Front(q)) = n - 1
      /\ \A k \in 0 .. n - 1 : SubSeq(Front(q), 1, k) = SubSeq(q, 1, k)
      /\ m \in Nat
      /\ SubSeq(p, 1, m) = p /\ SubSeq(q, 1, n) = q
  BY Parts, SubSeqFull
<1>2. IsPrefix(p, q) <=> m <= n /\ SubSeq(p, 1, m) = SubSeq(q, 1, m)
  BY DEF IsPrefix
<1>3. IsPrefix(p, Front(q)) <=> m <= n - 1 /\ SubSeq(p, 1, m) = SubSeq(Front(q), 1, m)
  BY <1>1 DEF IsPrefix
<1>4. p = q => m = n
  OBVIOUS
<1> HIDE DEF n, m
<1>5. CASE m <= n - 1
  <2>1. m \in 0 .. n - 1 /\ m # n /\ m <= n
    BY <1>1, <1>5
  <2> QED BY <2>1, <1>1, <1>2, <1>3, <1>4, <1>5
<1>6. CASE m = n
  <2>1. ~ (m <= n - 1) /\ m <= n
    BY <1>1, <1>6
  <2> QED BY <2>1, <1>1, <1>2, <1>3, <1>6
<1>7. CASE m > n
  <2>1. ~ (m <= n - 1) /\ ~ (m <= n) /\ m # n
    BY <1>1, <1>7
  <2> QED BY <2>1, <1>2, <1>3, <1>4
<1> QED BY <1>1, <1>5, <1>6, <1>7
-----------------------------------------------------------------------------
(* Forests                                                                 *)

\* No node is listed twice, and the root by none.
IsForest(nodes) ==
  /\ DOMAIN nodes \subseteq Nat \ {0} /\ Root \in DOMAIN nodes
  /\ \A n \in DOMAIN nodes : Kids(nodes, n) \in Seq(DOMAIN nodes)
  /\ \A n \in DOMAIN nodes : \A i \in DOMAIN Kids(nodes, n) : Kids(nodes, n)[i] # Root
  /\ \A n, m \in DOMAIN nodes : \A i \in DOMAIN Kids(nodes, n), j \in DOMAIN Kids(nodes, m) :
       Kids(nodes, n)[i] = Kids(nodes, m)[j] => n = m /\ i = j
  /\ \A n \in DOMAIN nodes : \A i, j \in DOMAIN Kids(nodes, n) :
       nodes[Kids(nodes, n)[i]].name = nodes[Kids(nodes, n)[j]].name => i = j

\* The first entry of a name, when there is one.
LEMMA IndexFound ==
  ASSUME NEW nodes, IsForest(nodes), NEW n \in DOMAIN nodes, NEW name
  PROVE  /\ IndexIn(nodes, n, name) \in Nat
         /\ \/ /\ IndexIn(nodes, n, name) = 0 /\ ChildIn(nodes, n, name) = Nothing
               /\ \A i \in DOMAIN Kids(nodes, n) : nodes[Kids(nodes, n)[i]].name # name
            \/ /\ IndexIn(nodes, n, name) \in DOMAIN Kids(nodes, n)
               /\ IndexIn(nodes, n, name) # 0
               /\ ChildIn(nodes, n, name) = Kids(nodes, n)[IndexIn(nodes, n, name)]
               /\ ChildIn(nodes, n, name) \in DOMAIN nodes \ {Nothing, Root}
               /\ nodes[ChildIn(nodes, n, name)].name = name
<1> DEFINE kids == Kids(nodes, n)
           hits == {i \in DOMAIN kids : nodes[kids[i]].name = name}
<1>1. kids \in Seq(DOMAIN nodes) /\ DOMAIN kids \subseteq Nat \ {0} /\ DOMAIN kids = 1 .. Len(kids)
  BY DEF IsForest
<1>2. CASE hits = {}
  BY <1>2, <1>1, Zenon DEF IndexIn, ChildIn, Kids
<1>3. CASE hits # {}
  <2>1. PICK x \in hits : \A y \in hits : ~ (y < x)
    <3>1. hits \in SUBSET Nat
      BY <1>1
    <3> HIDE DEF hits
    <3> QED BY <1>3, <3>1, NatMinimum
  <2>2. \A j \in 1 .. x - 1 : nodes[kids[j]].name # name
    <3> SUFFICES ASSUME NEW j \in 1 .. x - 1 PROVE nodes[kids[j]].name # name
      OBVIOUS
    <3>1. j \in DOMAIN kids /\ j < x
      BY <1>1, <2>1
    <3> QED BY <3>1, <2>1
  <2>3. /\ IndexIn(nodes, n, name) \in DOMAIN kids
        /\ nodes[kids[IndexIn(nodes, n, name)]].name = name
    BY <2>1, <2>2, Zenon DEF IndexIn, Kids
  <2>4. IndexIn(nodes, n, name) \in Nat \ {0}
    BY <2>3, <1>1
  <2>5. ChildIn(nodes, n, name) = kids[IndexIn(nodes, n, name)]
    BY <2>4 DEF ChildIn, Kids
  <2>6. kids[IndexIn(nodes, n, name)] \in DOMAIN nodes
        /\ kids[IndexIn(nodes, n, name)] # Root
    BY <2>3, <1>1 DEF IsForest
  <2>7. kids[IndexIn(nodes, n, name)] # Nothing
    BY <2>6 DEF IsForest, Nothing
  <2> QED BY <2>3, <2>4, <2>5, <2>6, <2>7
<1> QED BY <1>2, <1>3

LEMMA ChildNamed ==
  ASSUME NEW nodes, IsForest(nodes), NEW n \in DOMAIN nodes, NEW i \in DOMAIN Kids(nodes, n)
  PROVE  /\ ChildIn(nodes, n, nodes[Kids(nodes, n)[i]].name) = Kids(nodes, n)[i]
         /\ IndexIn(nodes, n, nodes[Kids(nodes, n)[i]].name) = i
<1> DEFINE name == nodes[Kids(nodes, n)[i]].name
           j == IndexIn(nodes, n, name)
<1>1. j \in DOMAIN Kids(nodes, n) /\ ChildIn(nodes, n, name) = Kids(nodes, n)[j]
      /\ nodes[ChildIn(nodes, n, name)].name = name
  BY IndexFound
<1>2. j = i
  BY <1>1, SMTT(30) DEF IsForest
<1> QED BY <1>1, <1>2

LEMMA Reached ==
  ASSUME NEW nodes, IsForest(nodes), NEW T, NEW p \in Seq(T)
  PROVE  ResolveIn(nodes, p) \in DOMAIN nodes \/ ResolveIn(nodes, p) = Nothing
<1> DEFINE S == {q \in Seq(T) : ResolveIn(nodes, q) \in DOMAIN nodes \/ ResolveIn(nodes, q) = Nothing}
<1>1. <<>> \in S
  BY ResolveEmpty DEF IsForest
<1>2. ASSUME NEW q \in Seq(T), q # <<>>, Front(q) \in S PROVE q \in S
  BY <1>2, ResolveStep, IndexFound
<1> HIDE DEF S
<1>3. Seq(T) \subseteq S
  BY <1>1, <1>2, PathsGrow
<1> QED BY <1>3 DEF S

\* Different paths lead to different nodes.
LEMMA OnePath ==
  ASSUME NEW nodes, IsForest(nodes), NEW T, NEW p \in Seq(T), NEW q \in Seq(T),
         ResolveIn(nodes, p) = ResolveIn(nodes, q), ResolveIn(nodes, p) # Nothing
  PROVE  p = q
<1> DEFINE S == {a \in Seq(T) : \A b \in Seq(T) :
                   ResolveIn(nodes, a) = ResolveIn(nodes, b) /\ ResolveIn(nodes, a) # Nothing => a = b}
<1>0. ASSUME NEW a \in Seq(T), a # <<>>, ResolveIn(nodes, a) # Nothing
      PROVE  /\ Front(a) \in Seq(T) /\ ResolveIn(nodes, Front(a)) \in DOMAIN nodes
             /\ ResolveIn(nodes, Front(a)) # Nothing
             /\ ResolveIn(nodes, a) = ChildIn(nodes, ResolveIn(nodes, Front(a)), Last(a))
             /\ \E i \in DOMAIN Kids(nodes, ResolveIn(nodes, Front(a))) :
                  ResolveIn(nodes, a) = Kids(nodes, ResolveIn(nodes, Front(a)))[i]
             /\ nodes[ResolveIn(nodes, a)].name = Last(a)
             /\ ResolveIn(nodes, a) # Root
  <2>1. Front(a) \in Seq(T)
    BY <1>0, Parts
  <2>2. /\ ResolveIn(nodes, Front(a)) # Nothing
        /\ ResolveIn(nodes, a) = ChildIn(nodes, ResolveIn(nodes, Front(a)), Last(a))
    BY <1>0, ResolveStep
  <2>3. ResolveIn(nodes, Front(a)) \in DOMAIN nodes
    BY <2>1, <2>2, Reached
  <2> QED BY <1>0, <2>1, <2>2, <2>3, IndexFound
<1>1. <<>> \in S
  <2> SUFFICES ASSUME NEW b \in Seq(T), ResolveIn(nodes, b) = ResolveIn(nodes, <<>>), b # <<>>,
                      ResolveIn(nodes, b) # Nothing
               PROVE FALSE
    OBVIOUS
  <2> QED BY <1>0, ResolveEmpty
<1>2. ASSUME NEW a \in Seq(T), a # <<>>, Front(a) \in S PROVE a \in S
  <2> SUFFICES ASSUME NEW b \in Seq(T), ResolveIn(nodes, a) = ResolveIn(nodes, b),
                      ResolveIn(nodes, a) # Nothing
               PROVE  a = b
    OBVIOUS
  <2>1. b # <<>>
    BY <1>0, <1>2, ResolveEmpty
  <2>2. ResolveIn(nodes, Front(a)) = ResolveIn(nodes, Front(b))
    BY <1>0, <1>2, <2>1 DEF IsForest
  <2>3. Front(a) = Front(b)
    BY <1>0, <1>2, <2>1, <2>2
  <2>4. Last(a) = Last(b)
    BY <1>0, <1>2, <2>1
  <2> QED BY <1>2, <2>1, <2>3, <2>4, WholePath
<1> HIDE DEF S
<1>3. Seq(T) \subseteq S
  BY <1>1, <1>2, PathsGrow
<1> QED BY <1>3 DEF S

\* What a path leads to stands in the node that the shorter path leads to.
LEMMA Parent ==
  ASSUME NEW nodes, IsForest(nodes), NEW T, NEW a \in Seq(T), a # <<>>,
         ResolveIn(nodes, a) # Nothing
  PROVE  /\ Front(a) \in Seq(T) /\ ResolveIn(nodes, Front(a)) \in DOMAIN nodes
         /\ ResolveIn(nodes, Front(a)) # Nothing
         /\ ResolveIn(nodes, a) = ChildIn(nodes, ResolveIn(nodes, Front(a)), Last(a))
         /\ Kids(nodes, ResolveIn(nodes, Front(a))) # <<>>
         /\ \E i \in DOMAIN Kids(nodes, ResolveIn(nodes, Front(a))) :
              ResolveIn(nodes, a) = Kids(nodes, ResolveIn(nodes, Front(a)))[i]
         /\ nodes[ResolveIn(nodes, a)].name = Last(a)
         /\ ResolveIn(nodes, a) # Root /\ ResolveIn(nodes, a) \in DOMAIN nodes
<1>1. Front(a) \in Seq(T)
  BY Parts
<1>2. /\ ResolveIn(nodes, Front(a)) # Nothing
      /\ ResolveIn(nodes, a) = ChildIn(nodes, ResolveIn(nodes, Front(a)), Last(a))
  BY ResolveStep
<1>3. ResolveIn(nodes, Front(a)) \in DOMAIN nodes
  BY <1>1, <1>2, Reached
<1>4. /\ \E i \in DOMAIN Kids(nodes, ResolveIn(nodes, Front(a))) :
           ResolveIn(nodes, a) = Kids(nodes, ResolveIn(nodes, Front(a)))[i]
      /\ nodes[ResolveIn(nodes, a)].name = Last(a)
      /\ ResolveIn(nodes, a) # Root /\ ResolveIn(nodes, a) \in DOMAIN nodes
  BY <1>2, <1>3, IndexFound
<1>5. Kids(nodes, ResolveIn(nodes, Front(a))) # <<>>
  BY <1>4
<1> QED BY <1>1, <1>2, <1>3, <1>4, <1>5

\* Every beginning of a path that leads somewhere leads to a node with entries.
LEMMA Beginnings ==
  ASSUME NEW nodes, IsForest(nodes), NEW T, NEW p \in Seq(T), ResolveIn(nodes, p) # Nothing
  PROVE  \A k \in 0 .. Len(p) :
           /\ ResolveIn(nodes, SubSeq(p, 1, k)) # Nothing
           /\ ResolveIn(nodes, SubSeq(p, 1, k)) \in DOMAIN nodes
           /\ k < Len(p) => Kids(nodes, ResolveIn(nodes, SubSeq(p, 1, k))) # <<>>
<1> DEFINE Good(q, k) == /\ ResolveIn(nodes, SubSeq(q, 1, k)) # Nothing
                         /\ ResolveIn(nodes, SubSeq(q, 1, k)) \in DOMAIN nodes
                         /\ k < Len(q) => Kids(nodes, ResolveIn(nodes, SubSeq(q, 1, k))) # <<>>
           S == {q \in Seq(T) : ResolveIn(nodes, q) # Nothing => \A k \in 0 .. Len(q) : Good(q, k)}
<1>1. <<>> \in S
  <2>1. \A k \in 0 .. Len(<<>>) : k = 0 /\ SubSeq(<<>>, 1, k) = <<>>
    BY SubSeqEmpty
  <2>2. Root # Nothing /\ Root \in DOMAIN nodes /\ Len(<<>>) = 0
    BY DEF Root, Nothing, IsForest
  <2>3. ASSUME NEW k \in 0 .. Len(<<>>) PROVE Good(<<>>, k)
    <3>1. SubSeq(<<>>, 1, k) = <<>> /\ ~ (k < Len(<<>>))
      BY <2>1, <2>2
    <3> QED BY <3>1, <2>2, ResolveEmpty
  <2> HIDE DEF Good
  <2> QED BY <2>3
<1>2. ASSUME NEW q \in Seq(T), q # <<>>, Front(q) \in S PROVE q \in S
  <2> SUFFICES ASSUME ResolveIn(nodes, q) # Nothing, NEW k \in 0 .. Len(q) PROVE Good(q, k)
    OBVIOUS
  <2>1. /\ Len(q) \in Nat \ {0} /\ Len(Front(q)) = Len(q) - 1 /\ Front(q) \in Seq(T)
        /\ \A i \in 0 .. Len(q) - 1 : SubSeq(Front(q), 1, i) = SubSeq(q, 1, i)
        /\ SubSeq(q, 1, Len(q)) = q
        /\ SubSeq(Front(q), 1, Len(Front(q))) = Front(q)
    BY <1>2, Parts, SubSeqFull
  <2>2. /\ ResolveIn(nodes, Front(q)) # Nothing
        /\ Kids(nodes, ResolveIn(nodes, Front(q))) # <<>>
        /\ ResolveIn(nodes, q) \in DOMAIN nodes
    BY <1>2, Parent
  <2>3. \A i \in 0 .. Len(q) - 1 : Good(Front(q), i)
    BY <2>1, <2>2, <1>2
  <2>4. CASE k = Len(q)
    <3>1. SubSeq(q, 1, k) = q /\ ~ (k < Len(q))
      BY <2>4, <2>1
    <3> QED BY <3>1, <2>2
  <2>5. CASE k = Len(q) - 1
    <3>1. k \in 0 .. Len(q) - 1 /\ SubSeq(q, 1, k) = Front(q)
      BY <2>5, <2>1
    <3> QED BY <3>1, <2>2, <2>3, <2>1
  <2>6. CASE k # Len(q) /\ k # Len(q) - 1
    <3>1. k \in 0 .. Len(q) - 1 /\ k < Len(Front(q))
      BY <2>6, <2>1
    <3> QED BY <3>1, <2>3, <2>1
  <2> QED BY <2>4, <2>5, <2>6
<1> HIDE DEF S
<1>3. Seq(T) \subseteq S
  BY <1>1, <1>2, PathsGrow
<1> QED BY <1>3 DEF S
-----------------------------------------------------------------------------
(* What making and removing entries does to all paths                      *)

LEMMA AppendIs ==
  ASSUME NEW T, NEW s \in Seq(T), NEW e \in T
  PROVE  /\ Append(s, e) \in Seq(T) /\ Len(s) \in Nat /\ Len(Append(s, e)) = Len(s) + 1
         /\ \A j \in 1 .. Len(s) : Append(s, e)[j] = s[j]
         /\ Append(s, e)[Len(s) + 1] = e
BY AppendProperties

LEMMA RemoveAtIs ==
  ASSUME NEW T, NEW s \in Seq(T), NEW i \in 1 .. Len(s)
  PROVE  RemoveAt(s, i) = [j \in 1 .. Len(s) - 1 |-> IF j < i THEN s[j] ELSE s[j + 1]]
<1> DEFINE a == SubSeq(s, 1, i - 1)
           b == SubSeq(s, i + 1, Len(s))
<1>1. Len(s) \in Nat /\ i \in Nat /\ i >= 1 /\ i <= Len(s)
  OBVIOUS
<1>2. a \in Seq(T) /\ Len(a) = i - 1 /\ \A j \in 1 .. i - 1 : a[j] = s[j]
  BY <1>1
<1>3. /\ b \in Seq(T) /\ Len(b) = Len(s) - i
      /\ \A j \in 1 .. Len(s) - i : b[j] = s[i + j]
  BY <1>1
<1> HIDE DEF a, b
<1>4. /\ a \o b \in Seq(T) /\ Len(a \o b) = Len(s) - 1
      /\ \A j \in 1 .. Len(s) - 1 :
           (a \o b)[j] = IF j < i THEN s[j] ELSE s[j + 1]
  <2>1. a \o b \in Seq(T) /\ Len(a \o b) = Len(s) - 1
    <3>1. a \o b \in Seq(T) /\ Len(a \o b) = Len(a) + Len(b)
      BY <1>2, <1>3, ConcatProperties
    <3> QED BY <3>1, <1>1, <1>2, <1>3
  <2>2. ASSUME NEW j \in 1 .. Len(s) - 1, j < i PROVE (a \o b)[j] = s[j]
    <3>1. j \in 1 .. i - 1 /\ j \in 1 .. Len(a)
      BY <1>1, <1>2, <2>2
    <3>2. (a \o b)[j] = a[j]
      BY <3>1, <1>2, <1>3
    <3> QED BY <3>1, <3>2, <1>2
  <2>3. ASSUME NEW j \in 1 .. Len(s) - 1, ~ (j < i) PROVE (a \o b)[j] = s[j + 1]
    <3>1. /\ j \in Len(a) + 1 .. Len(a) + Len(b) /\ j - (i - 1) \in 1 .. Len(s) - i
          /\ i + (j - (i - 1)) = j + 1
      BY <1>1, <1>2, <1>3, <2>3
    <3>2. (a \o b)[j] = b[j - (i - 1)]
      BY <3>1, <1>2, <1>3, SMTT(30)
    <3> QED BY <3>1, <3>2, <1>3
  <2> QED BY <2>1, <2>2, <2>3
<1>5. a \o b = [j \in 1 .. Len(s) - 1 |-> (a \o b)[j]]
  <2> DEFINE c == a \o b
  <2>1. c \in Seq(T) /\ Len(c) = Len(s) - 1
    BY <1>4
  <2> HIDE DEF c
  <2>2. c = [j \in 1 .. Len(s) - 1 |-> c[j]]
    BY <2>1
  <2> QED BY <2>2 DEF c
<1>6. a \o b = [j \in 1 .. Len(s) - 1 |-> IF j < i THEN s[j] ELSE s[j + 1]]
  BY <1>4, <1>5
<1> QED BY <1>6 DEF RemoveAt, a, b

\* What is left when an entry is removed, each once.
LEMMA Removed ==
  ASSUME NEW T, NEW s \in Seq(T), NEW i \in 1 .. Len(s)
  PROVE  /\ RemoveAt(s, i) \in Seq(T)
         /\ \A j \in DOMAIN RemoveAt(s, i) : \E k \in DOMAIN s \ {i} : RemoveAt(s, i)[j] = s[k]
         /\ \A k \in DOMAIN s \ {i} : \E j \in DOMAIN RemoveAt(s, i) : RemoveAt(s, i)[j] = s[k]
         /\ (\A a, b \in DOMAIN s : s[a] = s[b] => a = b) =>
              \A a, b \in DOMAIN RemoveAt(s, i) : RemoveAt(s, i)[a] = RemoveAt(s, i)[b] => a = b
<1> DEFINE n == Len(s)
           r == RemoveAt(s, i)
<1>1. n \in Nat /\ i \in 1 .. n /\ DOMAIN s = 1 .. n /\ \A k \in 1 .. n : s[k] \in T
  OBVIOUS
<1>2. r = [j \in 1 .. n - 1 |-> IF j < i THEN s[j] ELSE s[j + 1]]
  BY RemoveAtIs
<1> HIDE DEF n, r
<1>3. DOMAIN r = 1 .. n - 1 /\ \A j \in 1 .. n - 1 : r[j] = IF j < i THEN s[j] ELSE s[j + 1]
  BY <1>2
<1>4. ASSUME NEW j \in 1 .. n - 1
      PROVE  (IF j < i THEN j ELSE j + 1) \in (1 .. n) \ {i}
  BY <1>1
<1>5. r \in Seq(T)
  <2>1. \A j \in 1 .. n - 1 : r[j] \in T
    BY <1>1, <1>3, <1>4
  <2>2. n = 0 \/ n - 1 \in Nat
    BY <1>1
  <2>3. n # 0
    BY <1>1
  <2>4. n - 1 \in Nat /\ r \in [1 .. n - 1 -> T]
    BY <2>1, <2>2, <2>3, <1>2
  <2> QED BY <2>4, SeqDef
<1>6. ASSUME NEW j \in DOMAIN r PROVE \E k \in DOMAIN s \ {i} : r[j] = s[k]
  BY <1>1, <1>3, <1>4
<1>7. ASSUME NEW k \in DOMAIN s \ {i} PROVE \E j \in DOMAIN r : r[j] = s[k]
  <2>1. CASE k < i
    <3>1. k \in 1 .. n - 1 /\ r[k] = s[k]
      BY <2>1, <1>1, <1>3
    <3> QED BY <3>1, <1>3
  <2>2. CASE k > i
    <3>1. k - 1 \in 1 .. n - 1 /\ ~ (k - 1 < i) /\ (k - 1) + 1 = k
      BY <2>2, <1>1
    <3>2. r[k - 1] = s[k]
      BY <3>1, <1>3
    <3> QED BY <3>1, <3>2, <1>3
  <2> QED BY <2>1, <2>2, <1>1
<1>8. ASSUME \A a, b \in DOMAIN s : s[a] = s[b] => a = b,
             NEW a \in DOMAIN r, NEW b \in DOMAIN r, r[a] = r[b]
      PROVE  a = b
  <2> DEFINE f(j) == IF j < i THEN j ELSE j + 1
  <2>1. f(a) \in DOMAIN s /\ f(b) \in DOMAIN s /\ r[a] = s[f(a)] /\ r[b] = s[f(b)]
    BY <1>1, <1>3, <1>4
  <2>2. f(a) = f(b)
    BY <2>1, <1>8
  <2> QED BY <2>2, <1>1, <1>3
<1> QED BY <1>5, <1>6, <1>7, <1>8 DEF r

LEMMA ChildUnique ==
  ASSUME NEW nodes, IsForest(nodes), NEW n \in DOMAIN nodes, NEW x
  PROVE  /\ \A i \in DOMAIN Kids(nodes, n) :
              nodes[Kids(nodes, n)[i]].name = x => ChildIn(nodes, n, x) = Kids(nodes, n)[i]
         /\ (\A i \in DOMAIN Kids(nodes, n) : nodes[Kids(nodes, n)[i]].name # x)
              => ChildIn(nodes, n, x) = Nothing
BY IndexFound, ChildNamed

\* Where names and entries have not changed, every path leads where it led.
LEMMA SameTree ==
  ASSUME NEW nodes, NEW others, NEW T, IsForest(nodes), DOMAIN others = DOMAIN nodes,
         \A n \in DOMAIN nodes : Kids(others, n) = Kids(nodes, n)
                                 /\ others[n].name = nodes[n].name
  PROVE  /\ IsForest(others)
         /\ \A n \in DOMAIN nodes : \A x : ChildIn(others, n, x) = ChildIn(nodes, n, x)
                                           /\ IndexIn(others, n, x) = IndexIn(nodes, n, x)
         /\ \A p \in Seq(T) : ResolveIn(others, p) = ResolveIn(nodes, p)
<1>0. \A n \in DOMAIN nodes : \A i \in DOMAIN Kids(nodes, n) :
        /\ Kids(nodes, n)[i] \in DOMAIN nodes
        /\ others[Kids(nodes, n)[i]].name = nodes[Kids(nodes, n)[i]].name
  <2>1. \A n \in DOMAIN nodes : Kids(nodes, n) \in Seq(DOMAIN nodes)
    BY DEF IsForest
  <2>2. \A n \in DOMAIN nodes : \A i \in DOMAIN Kids(nodes, n) : Kids(nodes, n)[i] \in DOMAIN nodes
    BY <2>1
  <2> QED BY <2>2
<1>1. IsForest(others)
  <2>1. \A n \in DOMAIN nodes : \A i, j \in DOMAIN Kids(others, n) :
          others[Kids(others, n)[i]].name = others[Kids(others, n)[j]].name => i = j
    <3> SUFFICES ASSUME NEW n \in DOMAIN nodes, NEW i \in DOMAIN Kids(others, n),
                        NEW j \in DOMAIN Kids(others, n),
                        others[Kids(others, n)[i]].name = others[Kids(others, n)[j]].name
                 PROVE  i = j
      OBVIOUS
    <3>1. i \in DOMAIN Kids(nodes, n) /\ j \in DOMAIN Kids(nodes, n)
          /\ Kids(others, n) = Kids(nodes, n)
      OBVIOUS
    <3>2. nodes[Kids(nodes, n)[i]].name = nodes[Kids(nodes, n)[j]].name
      BY <3>1, <1>0
    <3> QED BY <3>1, <3>2 DEF IsForest
  <2>2. \A n, m \in DOMAIN nodes : \A i \in DOMAIN Kids(others, n), j \in DOMAIN Kids(others, m) :
          Kids(others, n)[i] = Kids(others, m)[j] => n = m /\ i = j
    <3> SUFFICES ASSUME NEW n \in DOMAIN nodes, NEW m \in DOMAIN nodes,
                        NEW i \in DOMAIN Kids(others, n), NEW j \in DOMAIN Kids(others, m),
                        Kids(others, n)[i] = Kids(others, m)[j]
                 PROVE  n = m /\ i = j
      OBVIOUS
    <3>1. Kids(others, n) = Kids(nodes, n) /\ Kids(others, m) = Kids(nodes, m)
      OBVIOUS
    <3>2. i \in DOMAIN Kids(nodes, n) /\ j \in DOMAIN Kids(nodes, m)
          /\ Kids(nodes, n)[i] = Kids(nodes, m)[j]
      BY <3>1
    <3> QED BY <3>2 DEF IsForest
  <2>3. \A n \in DOMAIN nodes : \A i \in DOMAIN Kids(others, n) : Kids(others, n)[i] # Root
    BY DEF IsForest
  <2>4. \A n \in DOMAIN nodes : Kids(others, n) \in Seq(DOMAIN nodes)
    BY DEF IsForest
  <2>5. DOMAIN nodes \subseteq Nat \ {0} /\ Root \in DOMAIN nodes
    BY DEF IsForest
  <2> QED BY <2>1, <2>2, <2>3, <2>4, <2>5 DEF IsForest
<1>2. ASSUME NEW n \in DOMAIN nodes, NEW x
      PROVE  ChildIn(others, n, x) = ChildIn(nodes, n, x) /\ IndexIn(others, n, x) = IndexIn(nodes, n, x)
  <2>1. CASE IndexIn(nodes, n, x) = 0
    <3>1. \A i \in DOMAIN Kids(others, n) : others[Kids(others, n)[i]].name # x
      <4>1. \A i \in DOMAIN Kids(nodes, n) : nodes[Kids(nodes, n)[i]].name # x
        BY <2>1, IndexFound
      <4> QED BY <4>1, <1>0
    <3>2. IndexIn(others, n, x) = 0 /\ ChildIn(others, n, x) = Nothing
      BY <3>1, <1>1, IndexFound
    <3> QED BY <3>2, <2>1, IndexFound
  <2>2. CASE IndexIn(nodes, n, x) # 0
    <3> DEFINE i == IndexIn(nodes, n, x)
    <3>1. i \in DOMAIN Kids(nodes, n) /\ ChildIn(nodes, n, x) = Kids(nodes, n)[i]
          /\ nodes[Kids(nodes, n)[i]].name = x
      BY <2>2, IndexFound
    <3>2. i \in DOMAIN Kids(others, n) /\ others[Kids(others, n)[i]].name = x
      BY <3>1 DEF IsForest
    <3>3. ChildIn(others, n, x) = Kids(others, n)[i] /\ IndexIn(others, n, x) = i
      BY <3>2, <1>1, ChildNamed
    <3> QED BY <3>1, <3>3
  <2> QED BY <2>1, <2>2
<1>3. \A p \in Seq(T) : ResolveIn(others, p) = ResolveIn(nodes, p)
  <2> DEFINE S == {p \in Seq(T) : ResolveIn(others, p) = ResolveIn(nodes, p)}
  <2>1. <<>> \in S
    BY ResolveEmpty
  <2>2. ASSUME NEW p \in Seq(T), p # <<>>, Front(p) \in S PROVE p \in S
    <3>1. Front(p) \in Seq(T)
      BY <2>2, Parts
    <3> QED BY <2>2, <3>1, <1>2, ResolveStep, Reached
  <2> HIDE DEF S
  <2>3. Seq(T) \subseteq S
    BY <2>1, <2>2, PathsGrow
  <2> QED BY <2>3 DEF S
<1> QED BY <1>1, <1>2, <1>3

\* Where the paths lead when there is a new node at one of them.
LinkedPaths(nodes, others, T, path, new) ==
  \A q \in Seq(T) : ResolveIn(others, q) = IF q = path THEN new ELSE ResolveIn(nodes, q)

\* A new entry is where the path says, and nothing else has moved.
LEMMA LinkedTree ==
  ASSUME NEW nodes, NEW others, IsForest(nodes), NEW T, NEW path \in Seq(T), path # <<>>,
         ResolveIn(nodes, path) = Nothing, NEW up \in DOMAIN nodes,
         ResolveIn(nodes, Front(path)) = up,
         NEW new \in Nat \ {0}, new \notin DOMAIN nodes,
         DOMAIN others = DOMAIN nodes \cup {new},
         Kids(others, new) = <<>>, others[new].name = Last(path),
         Kids(others, up) = Append(Kids(nodes, up), new),
         \A n \in DOMAIN nodes \ {up} : Kids(others, n) = Kids(nodes, n),
         \A n \in DOMAIN nodes : others[n].name = nodes[n].name
  PROVE  /\ IsForest(others)
         /\ LinkedPaths(nodes, others, T, path, new)
<1> DEFINE ks == Kids(nodes, up)
           D == DOMAIN nodes \cup {new}
<1>1. /\ ks \in Seq(DOMAIN nodes) /\ Len(ks) \in Nat /\ DOMAIN ks = 1 .. Len(ks)
      /\ \A n \in DOMAIN nodes : Kids(nodes, n) \in Seq(DOMAIN nodes)
      /\ \A n \in DOMAIN nodes : \A i \in DOMAIN Kids(nodes, n) : Kids(nodes, n)[i] \in DOMAIN nodes
  BY DEF IsForest
<1>2. /\ Kids(others, up) \in Seq(D) /\ DOMAIN Kids(others, up) = DOMAIN ks \cup {Len(ks) + 1}
      /\ \A j \in DOMAIN ks : Kids(others, up)[j] = ks[j]
      /\ Kids(others, up)[Len(ks) + 1] = new
  <2>1. ks \in Seq(D) /\ new \in D
    BY <1>1
  <2> HIDE DEF D, ks
  <2>2. /\ Append(ks, new) \in Seq(D) /\ Len(ks) \in Nat /\ Len(Append(ks, new)) = Len(ks) + 1
        /\ \A j \in 1 .. Len(ks) : Append(ks, new)[j] = ks[j]
        /\ Append(ks, new)[Len(ks) + 1] = new
    BY <2>1, AppendIs
  <2>3. DOMAIN Append(ks, new) = 1 .. Len(ks) + 1 /\ DOMAIN ks = 1 .. Len(ks)
    BY <2>1, <2>2
  <2>4. 1 .. Len(ks) + 1 = (1 .. Len(ks)) \cup {Len(ks) + 1}
    BY <2>2
  <2> QED BY <2>2, <2>3, <2>4 DEF ks
<1>3. \A i \in DOMAIN ks : nodes[ks[i]].name # Last(path)
  <2>1. ChildIn(nodes, up, Last(path)) = Nothing
    <3>1. up # Nothing
      BY DEF IsForest, Nothing
    <3> QED BY <3>1, ResolveStep
  <2> QED BY <2>1, IndexFound
<1> HIDE DEF D, ks
<1>4. Len(ks) + 1 \notin DOMAIN ks
  BY <1>1
<1>5. \A n \in DOMAIN nodes : \A i \in DOMAIN Kids(others, n) :
        \/ /\ i \in DOMAIN Kids(nodes, n) /\ Kids(others, n)[i] = Kids(nodes, n)[i]
           /\ Kids(others, n)[i] \in DOMAIN nodes
           /\ others[Kids(others, n)[i]].name = nodes[Kids(nodes, n)[i]].name
        \/ /\ n = up /\ i = Len(ks) + 1 /\ Kids(others, n)[i] = new
           /\ others[Kids(others, n)[i]].name = Last(path)
  <2> SUFFICES ASSUME NEW n \in DOMAIN nodes, NEW i \in DOMAIN Kids(others, n)
               PROVE  \/ /\ i \in DOMAIN Kids(nodes, n) /\ Kids(others, n)[i] = Kids(nodes, n)[i]
                         /\ Kids(others, n)[i] \in DOMAIN nodes
                         /\ others[Kids(others, n)[i]].name = nodes[Kids(nodes, n)[i]].name
                      \/ /\ n = up /\ i = Len(ks) + 1 /\ Kids(others, n)[i] = new
                         /\ others[Kids(others, n)[i]].name = Last(path)
    OBVIOUS
  <2>1. CASE n = up /\ i = Len(ks) + 1
    BY <2>1, <1>2
  <2>2. CASE n # up \/ i # Len(ks) + 1
    <3>1. i \in DOMAIN Kids(nodes, n) /\ Kids(others, n)[i] = Kids(nodes, n)[i]
      <4>1. CASE n = up
        BY <4>1, <2>2, <1>2 DEF ks
      <4>2. CASE n # up
        BY <4>2
      <4> QED BY <4>1, <4>2
    <3>2. Kids(nodes, n)[i] \in DOMAIN nodes
      BY <3>1, <1>1
    <3> QED BY <3>1, <3>2
  <2> QED BY <2>1, <2>2
<1>6. IsForest(others)
  <2>1. \A n \in DOMAIN others : Kids(others, n) \in Seq(DOMAIN others)
    <3> SUFFICES ASSUME NEW n \in DOMAIN others PROVE Kids(others, n) \in Seq(D)
      BY DEF D
    <3>1. CASE n = new
      BY <3>1
    <3>2. CASE n = up
      BY <3>2, <1>2
    <3>3. CASE n \in DOMAIN nodes \ {up}
      BY <3>3, <1>1 DEF D
    <3> QED BY <3>1, <3>2, <3>3
  <2>2. \A n \in DOMAIN others : \A i \in DOMAIN Kids(others, n) : n \in DOMAIN nodes
    <3> SUFFICES ASSUME NEW i \in DOMAIN Kids(others, new) PROVE FALSE
      OBVIOUS
    <3> QED OBVIOUS
  <2>3. \A n \in DOMAIN others : \A i \in DOMAIN Kids(others, n) : Kids(others, n)[i] # Root
    <3> SUFFICES ASSUME NEW n \in DOMAIN nodes, NEW i \in DOMAIN Kids(others, n)
                 PROVE  Kids(others, n)[i] # Root
      BY <2>2
    <3>1. new # Root
      BY DEF IsForest
    <3>2. i \in DOMAIN Kids(nodes, n) => Kids(nodes, n)[i] # Root
      BY DEF IsForest
    <3> QED BY <3>1, <3>2, <1>5
  <2>4. \A n, m \in DOMAIN others : \A i \in DOMAIN Kids(others, n), j \in DOMAIN Kids(others, m) :
          Kids(others, n)[i] = Kids(others, m)[j] => n = m /\ i = j
    <3> SUFFICES ASSUME NEW n \in DOMAIN nodes, NEW m \in DOMAIN nodes,
                        NEW i \in DOMAIN Kids(others, n), NEW j \in DOMAIN Kids(others, m),
                        Kids(others, n)[i] = Kids(others, m)[j]
                 PROVE  n = m /\ i = j
      BY <2>2
    <3>1. CASE i \in DOMAIN Kids(nodes, n) /\ Kids(others, n)[i] = Kids(nodes, n)[i]
               /\ Kids(others, n)[i] \in DOMAIN nodes
      <4>1. j \in DOMAIN Kids(nodes, m) /\ Kids(others, m)[j] = Kids(nodes, m)[j]
        BY <3>1, <1>5
      <4>2. Kids(nodes, n)[i] = Kids(nodes, m)[j]
        BY <3>1, <4>1
      <4> QED BY <3>1, <4>1, <4>2 DEF IsForest
    <3>2. CASE n = up /\ i = Len(ks) + 1 /\ Kids(others, n)[i] = new
      <4>1. Kids(others, m)[j] \notin DOMAIN nodes
        BY <3>2
      <4> QED BY <3>2, <4>1, <1>5
    <3> QED BY <3>1, <3>2, <1>5
  <2>5. \A n \in DOMAIN others : \A i, j \in DOMAIN Kids(others, n) :
          others[Kids(others, n)[i]].name = others[Kids(others, n)[j]].name => i = j
    <3> SUFFICES ASSUME NEW n \in DOMAIN nodes,
                        NEW i \in DOMAIN Kids(others, n), NEW j \in DOMAIN Kids(others, n),
                        others[Kids(others, n)[i]].name = others[Kids(others, n)[j]].name
                 PROVE  i = j
      BY <2>2
    <3> DEFINE Old(k) == /\ k \in DOMAIN Kids(nodes, n)
                         /\ others[Kids(others, n)[k]].name = nodes[Kids(nodes, n)[k]].name
               Late(k) == /\ n = up /\ k = Len(ks) + 1
                          /\ others[Kids(others, n)[k]].name = Last(path)
    <3>1. \A k \in DOMAIN Kids(others, n) : Old(k) \/ Late(k)
      BY <1>5
    <3>2. n = up => \A k \in DOMAIN Kids(nodes, n) : nodes[Kids(nodes, n)[k]].name # Last(path)
      BY <1>3 DEF ks
    <3>3. CASE Old(i) /\ Old(j)
      <4>1. nodes[Kids(nodes, n)[i]].name = nodes[Kids(nodes, n)[j]].name
        BY <3>3
      <4> QED BY <3>3, <4>1 DEF IsForest
    <3>4. CASE Late(i) /\ Old(j)
      BY <3>4, <3>2
    <3>5. CASE Old(i) /\ Late(j)
      BY <3>5, <3>2
    <3>6. CASE Late(i) /\ Late(j)
      BY <3>6
    <3> QED BY <3>1, <3>3, <3>4, <3>5, <3>6
  <2> QED BY <2>1, <2>3, <2>4, <2>5 DEF IsForest
<1>7. ASSUME NEW n \in DOMAIN nodes, NEW x, n # up \/ x # Last(path)
      PROVE  ChildIn(others, n, x) = ChildIn(nodes, n, x)
  <2>0. \A i \in DOMAIN Kids(nodes, n) :
          i \in DOMAIN Kids(others, n) /\ Kids(others, n)[i] = Kids(nodes, n)[i]
    BY <1>2 DEF ks
  <2>1. CASE ChildIn(nodes, n, x) = Nothing
    <3>1. \A i \in DOMAIN Kids(others, n) : others[Kids(others, n)[i]].name # x
      BY <2>1, <1>5, <1>7, IndexFound
    <3> QED BY <3>1, <2>1, <1>6, ChildUnique
  <2>2. CASE ChildIn(nodes, n, x) # Nothing
    <3>1. PICK i \in DOMAIN Kids(nodes, n) : ChildIn(nodes, n, x) = Kids(nodes, n)[i]
                                             /\ nodes[Kids(nodes, n)[i]].name = x
      BY <2>2, IndexFound
    <3>2. i \in DOMAIN Kids(others, n) /\ Kids(others, n)[i] = Kids(nodes, n)[i]
          /\ others[Kids(others, n)[i]].name = x
      BY <3>1, <2>0, <1>1
    <3> QED BY <3>1, <3>2, <1>6, ChildUnique
  <2> QED BY <2>1, <2>2
<1>8. ChildIn(others, up, Last(path)) = new
  <2>1. Len(ks) + 1 \in DOMAIN Kids(others, up)
        /\ others[Kids(others, up)[Len(ks) + 1]].name = Last(path)
    BY <1>2
  <2> QED BY <2>1, <1>2, <1>6, ChildUnique, SMTT(30)
<1>9. \A x : ChildIn(others, new, x) = Nothing
  <2>1. \A x : \A i \in DOMAIN Kids(others, new) : others[Kids(others, new)[i]].name # x
    OBVIOUS
  <2> QED BY <2>1, <1>6, ChildUnique
<1> DEFINE S == {q \in Seq(T) : ResolveIn(others, q) = IF q = path THEN new ELSE ResolveIn(nodes, q)}
<1>10. <<>> \in S
  BY ResolveEmpty
<1>11. ASSUME NEW q \in Seq(T), q # <<>>, Front(q) \in S PROVE q \in S
  <2> DEFINE f == Front(q)
  <2>1. f \in Seq(T) /\ ResolveIn(others, f) = IF f = path THEN new ELSE ResolveIn(nodes, f)
    BY <1>11, Parts
  <2>2. /\ ResolveIn(others, q) = IF ResolveIn(others, f) = Nothing THEN Nothing
                                  ELSE ChildIn(others, ResolveIn(others, f), Last(q))
        /\ ResolveIn(nodes, q) = IF ResolveIn(nodes, f) = Nothing THEN Nothing
                                 ELSE ChildIn(nodes, ResolveIn(nodes, f), Last(q))
    BY <1>11, ResolveStep
  <2>3. q = path => f = Front(path)
    OBVIOUS
  <2>4. Front(path) # path
    <3>1. Len(path) \in Nat \ {0} /\ Len(Front(path)) = Len(path) - 1
      BY Parts
    <3> QED BY <3>1
  <2>5. new # Nothing /\ up # Nothing
    BY DEF IsForest, Nothing
  <2> HIDE DEF f
  <2>6. CASE f = path
    <3>1. q # path
      BY <2>3, <2>4, <2>6
    <3> QED BY <3>1, <2>1, <2>2, <2>5, <2>6, <1>9
  <2>7. CASE f # path /\ ResolveIn(nodes, f) = Nothing
    BY <2>1, <2>2, <2>3, <2>5, <2>7
  <2>8. CASE f # path /\ ResolveIn(nodes, f) # Nothing
    <3> DEFINE n == ResolveIn(nodes, f)
    <3>1. n \in DOMAIN nodes
      BY <2>1, <2>8, Reached
    <3>2. ResolveIn(others, q) = ChildIn(others, n, Last(q))
          /\ ResolveIn(nodes, q) = ChildIn(nodes, n, Last(q))
      BY <2>1, <2>2, <2>8
    <3>3. CASE q = path
      BY <3>2, <3>3, <2>3, <1>8
    <3>4. CASE q # path
      <4>1. n = up => f = Front(path)
        <5>1. Front(path) \in Seq(T)
          BY Parts
        <5> QED BY <5>1, <2>1, <2>5, OnePath
      <4>2. n # up \/ Last(q) # Last(path)
        BY <4>1, <3>4, <1>11, WholePath DEF f
      <4>3. ChildIn(others, n, Last(q)) = ChildIn(nodes, n, Last(q))
        BY <4>2, <3>1, <1>7
      <4> QED BY <3>2, <3>4, <4>3
    <3> QED BY <3>3, <3>4
  <2> QED BY <2>6, <2>7, <2>8
<1> HIDE DEF S
<1>12. Seq(T) \subseteq S
  BY <1>10, <1>11, PathsGrow
<1> QED BY <1>6, <1>12 DEF S, LinkedPaths

\* ... and when the one at it has been taken away.
UnlinkedPaths(nodes, others, T, path) ==
  \A q \in Seq(T) :
    ResolveIn(others, q) = IF IsPrefix(path, q) THEN Nothing ELSE ResolveIn(nodes, q)

KidsOf(nodes, others) ==
  \A n \in DOMAIN nodes : \A i \in DOMAIN Kids(others, n) :
    \E k \in DOMAIN Kids(nodes, n) : Kids(others, n)[i] = Kids(nodes, n)[k]

\* Without an entry, what was at the path and all behind it is gone, and nothing
\* else has moved.
LEMMA UnlinkedTree ==
  ASSUME NEW nodes, NEW others, IsForest(nodes), NEW T, NEW path \in Seq(T), path # <<>>,
         NEW up \in DOMAIN nodes, ResolveIn(nodes, Front(path)) = up,
         IndexIn(nodes, up, Last(path)) # 0,
         DOMAIN others = DOMAIN nodes,
         Kids(others, up) = RemoveAt(Kids(nodes, up), IndexIn(nodes, up, Last(path))),
         \A n \in DOMAIN nodes \ {up} : Kids(others, n) = Kids(nodes, n),
         \A n \in DOMAIN nodes : others[n].name = nodes[n].name
  PROVE  /\ IsForest(others)
         /\ KidsOf(nodes, others) /\ UnlinkedPaths(nodes, others, T, path)
<1> DEFINE ks == Kids(nodes, up)
           gone == IndexIn(nodes, up, Last(path))
           rest == Kids(others, up)
<1>1. /\ ks \in Seq(DOMAIN nodes) /\ gone \in DOMAIN ks /\ DOMAIN ks = 1 .. Len(ks)
      /\ nodes[ks[gone]].name = Last(path)
      /\ \A a, b \in DOMAIN ks : ks[a] = ks[b] => a = b
  <2>1. ks \in Seq(DOMAIN nodes) /\ \A a, b \in DOMAIN ks : ks[a] = ks[b] => a = b
    BY DEF IsForest
  <2>2. gone \in DOMAIN ks /\ nodes[ks[gone]].name = Last(path)
    BY IndexFound
  <2> QED BY <2>1, <2>2
<1>2. rest = RemoveAt(ks, gone)
  OBVIOUS
<1> HIDE DEF ks, gone, rest
<1>3. /\ rest \in Seq(DOMAIN nodes)
      /\ \A j \in DOMAIN rest : \E k \in DOMAIN ks \ {gone} : rest[j] = ks[k]
      /\ \A k \in DOMAIN ks \ {gone} : \E j \in DOMAIN rest : rest[j] = ks[k]
      /\ \A a, b \in DOMAIN rest : rest[a] = rest[b] => a = b
  <2>1. gone \in 1 .. Len(ks) /\ ks \in Seq(DOMAIN nodes)
    BY <1>1
  <2> DEFINE r == RemoveAt(ks, gone)
  <2>2. /\ r \in Seq(DOMAIN nodes)
        /\ \A j \in DOMAIN r : \E k \in DOMAIN ks \ {gone} : r[j] = ks[k]
        /\ \A k \in DOMAIN ks \ {gone} : \E j \in DOMAIN r : r[j] = ks[k]
        /\ (\A a, b \in DOMAIN ks : ks[a] = ks[b] => a = b) =>
             \A a, b \in DOMAIN r : r[a] = r[b] => a = b
    BY <2>1, Removed, Zenon
  <2>3. rest = r
    BY <1>2
  <2> HIDE DEF r
  <2> QED BY <1>1, <2>2, <2>3
<1>4. ASSUME NEW n \in DOMAIN nodes, NEW i \in DOMAIN Kids(others, n)
      PROVE  \E k \in DOMAIN Kids(nodes, n) :
               Kids(others, n)[i] = Kids(nodes, n)[k] /\ (n = up => k # gone)
  <2>1. CASE n = up
    BY <2>1, <1>3 DEF ks, rest
  <2>2. CASE n # up
    BY <2>2
  <2> QED BY <2>1, <2>2
<1>5. \A n \in DOMAIN nodes : Kids(nodes, n) \in Seq(DOMAIN nodes)
  BY DEF IsForest
<1>6. IsForest(others)
  <2>1. \A n \in DOMAIN nodes : Kids(others, n) \in Seq(DOMAIN nodes)
    BY <1>3, <1>5 DEF rest
  <2>2. ASSUME NEW n \in DOMAIN nodes, NEW i \in DOMAIN Kids(others, n)
        PROVE  Kids(others, n)[i] # Root
    BY <1>4 DEF IsForest
  <2>3. ASSUME NEW n \in DOMAIN nodes, NEW i \in DOMAIN Kids(others, n), NEW j \in DOMAIN Kids(others, n),
               Kids(others, n)[i] = Kids(others, n)[j]
        PROVE  i = j
    <3>1. CASE n = up
      BY <2>3, <3>1, <1>3 DEF rest
    <3>2. CASE n # up
      <4>1. Kids(others, n) = Kids(nodes, n)
        BY <3>2
      <4>2. /\ i \in DOMAIN Kids(nodes, n) /\ j \in DOMAIN Kids(nodes, n)
            /\ Kids(nodes, n)[i] = Kids(nodes, n)[j]
        BY <4>1, <2>3
      <4> QED BY <4>2 DEF IsForest
    <3> QED BY <3>1, <3>2
  <2>4. ASSUME NEW n \in DOMAIN nodes, NEW m \in DOMAIN nodes, NEW i \in DOMAIN Kids(others, n),
               NEW j \in DOMAIN Kids(others, m), Kids(others, n)[i] = Kids(others, m)[j]
        PROVE  n = m /\ i = j
    <3>1. PICK k \in DOMAIN Kids(nodes, n) : Kids(others, n)[i] = Kids(nodes, n)[k]
      BY <1>4
    <3>2. PICK l \in DOMAIN Kids(nodes, m) : Kids(others, m)[j] = Kids(nodes, m)[l]
      BY <1>4
    <3>3. Kids(nodes, n)[k] = Kids(nodes, m)[l]
      BY <2>4, <3>1, <3>2
    <3>4. n = m
      BY <3>3 DEF IsForest
    <3> QED BY <3>4, <2>3, <2>4
  <2>5. ASSUME NEW n \in DOMAIN nodes, NEW i \in DOMAIN Kids(others, n), NEW j \in DOMAIN Kids(others, n),
               others[Kids(others, n)[i]].name = others[Kids(others, n)[j]].name
        PROVE  i = j
    <3>1. PICK k \in DOMAIN Kids(nodes, n) : Kids(others, n)[i] = Kids(nodes, n)[k]
      BY <1>4
    <3>2. PICK l \in DOMAIN Kids(nodes, n) : Kids(others, n)[j] = Kids(nodes, n)[l]
      BY <1>4
    <3>3. Kids(nodes, n)[k] \in DOMAIN nodes /\ Kids(nodes, n)[l] \in DOMAIN nodes
      BY <1>5
    <3>4. nodes[Kids(nodes, n)[k]].name = nodes[Kids(nodes, n)[l]].name
      BY <2>5, <3>1, <3>2, <3>3
    <3>5. k = l
      BY <3>4 DEF IsForest
    <3> QED BY <3>1, <3>2, <3>5, <2>3
  <2>6. DOMAIN nodes \subseteq Nat \ {0} /\ Root \in DOMAIN nodes
    BY DEF IsForest
  <2>7. \A n \in DOMAIN nodes : \A i, j \in DOMAIN Kids(others, n) :
          others[Kids(others, n)[i]].name = others[Kids(others, n)[j]].name => i = j
    BY <2>5
  <2>8. \A n, m \in DOMAIN nodes : \A i \in DOMAIN Kids(others, n), j \in DOMAIN Kids(others, m) :
          Kids(others, n)[i] = Kids(others, m)[j] => n = m /\ i = j
    BY <2>4
  <2> QED BY <2>1, <2>2, <2>6, <2>7, <2>8 DEF IsForest
<1>7. ASSUME NEW n \in DOMAIN nodes, NEW x, n # up \/ x # Last(path)
      PROVE  ChildIn(others, n, x) = ChildIn(nodes, n, x)
  <2>1. CASE ChildIn(nodes, n, x) = Nothing
    <3>1. ASSUME NEW i \in DOMAIN Kids(others, n) PROVE others[Kids(others, n)[i]].name # x
      <4>1. PICK k \in DOMAIN Kids(nodes, n) : Kids(others, n)[i] = Kids(nodes, n)[k]
        BY <1>4
      <4>2. nodes[Kids(nodes, n)[k]].name # x /\ Kids(nodes, n)[k] \in DOMAIN nodes
        BY <2>1, <1>5, IndexFound
      <4> QED BY <4>1, <4>2
    <3> QED BY <3>1, <2>1, <1>6, ChildUnique
  <2>2. CASE ChildIn(nodes, n, x) # Nothing
    <3>1. PICK k \in DOMAIN Kids(nodes, n) : ChildIn(nodes, n, x) = Kids(nodes, n)[k]
                                             /\ nodes[Kids(nodes, n)[k]].name = x
      BY <2>2, IndexFound
    <3>2. n = up => k # gone
      BY <3>1, <1>1, <1>7 DEF ks
    <3>3. PICK i \in DOMAIN Kids(others, n) : Kids(others, n)[i] = Kids(nodes, n)[k]
      <4>1. CASE n = up
        BY <4>1, <3>2, <1>3 DEF ks, rest
      <4>2. CASE n # up
        BY <4>2
      <4> QED BY <4>1, <4>2
    <3>4. others[Kids(others, n)[i]].name = x
      <4>1. Kids(nodes, n)[k] \in DOMAIN nodes
        BY <1>5
      <4> QED BY <4>1, <3>1, <3>3
    <3> QED BY <3>1, <3>3, <3>4, <1>6, ChildUnique
  <2> QED BY <2>1, <2>2
<1>8. ChildIn(others, up, Last(path)) = Nothing
  <2>1. ASSUME NEW i \in DOMAIN Kids(others, up) PROVE others[Kids(others, up)[i]].name # Last(path)
    <3>1. PICK k \in DOMAIN Kids(nodes, up) : Kids(others, up)[i] = Kids(nodes, up)[k] /\ k # gone
      BY <1>4
    <3>2. Kids(nodes, up)[k] \in DOMAIN nodes
      BY <1>5
    <3>3. nodes[Kids(nodes, up)[k]].name # Last(path)
      <4>1. gone \in DOMAIN Kids(nodes, up) /\ nodes[Kids(nodes, up)[gone]].name = Last(path)
        BY <1>1 DEF ks
      <4>2. nodes[Kids(nodes, up)[k]].name = nodes[Kids(nodes, up)[gone]].name => k = gone
        BY <4>1, <3>1 DEF IsForest
      <4> QED BY <4>1, <4>2, <3>1
    <3> QED BY <3>1, <3>2, <3>3
  <2> QED BY <2>1, <1>6, ChildUnique
<1> DEFINE S == {q \in Seq(T) : ResolveIn(others, q) =
                   IF IsPrefix(path, q) THEN Nothing ELSE ResolveIn(nodes, q)}
<1>10. <<>> \in S
  <2>1. ~ IsPrefix(path, <<>>)
    BY DEF IsPrefix
  <2> QED BY <2>1, ResolveEmpty
<1>11. ASSUME NEW q \in Seq(T), q # <<>>, Front(q) \in S PROVE q \in S
  <2> DEFINE f == Front(q)
  <2>1. f \in Seq(T)
        /\ ResolveIn(others, f) = IF IsPrefix(path, f) THEN Nothing ELSE ResolveIn(nodes, f)
    BY <1>11, Parts
  <2>2. /\ ResolveIn(others, q) = IF ResolveIn(others, f) = Nothing THEN Nothing
                                  ELSE ChildIn(others, ResolveIn(others, f), Last(q))
        /\ ResolveIn(nodes, q) = IF ResolveIn(nodes, f) = Nothing THEN Nothing
                                 ELSE ChildIn(nodes, ResolveIn(nodes, f), Last(q))
    BY <1>11, ResolveStep
  <2>3. q = path => f = Front(path)
    OBVIOUS
  <2>4. IsPrefix(path, q) <=> path = q \/ IsPrefix(path, f)
    BY <1>11, PrefixStep
  <2>5. up # Nothing
    BY DEF IsForest, Nothing
  <2> HIDE DEF f
  <2>6. CASE IsPrefix(path, f)
    BY <2>1, <2>2, <2>4, <2>6
  <2>7. CASE ~ IsPrefix(path, f) /\ ResolveIn(nodes, f) = Nothing
    BY <2>1, <2>2, <2>3, <2>4, <2>5, <2>7
  <2>8. CASE ~ IsPrefix(path, f) /\ ResolveIn(nodes, f) # Nothing
    <3> DEFINE n == ResolveIn(nodes, f)
    <3>1. n \in DOMAIN nodes
      BY <2>1, <2>8, Reached
    <3>2. ResolveIn(others, q) = ChildIn(others, n, Last(q))
          /\ ResolveIn(nodes, q) = ChildIn(nodes, n, Last(q))
      BY <2>1, <2>2, <2>8
    <3>3. CASE q = path
      BY <3>2, <3>3, <2>3, <2>4, <1>8
    <3>4. CASE q # path
      <4>1. n = up => f = Front(path)
        <5>1. Front(path) \in Seq(T)
          BY Parts
        <5> QED BY <5>1, <2>1, <2>5, OnePath
      <4>2. n # up \/ Last(q) # Last(path)
        BY <4>1, <3>4, <1>11, WholePath DEF f
      <4>3. ChildIn(others, n, Last(q)) = ChildIn(nodes, n, Last(q))
        BY <4>2, <3>1, <1>7
      <4> QED BY <3>2, <3>4, <4>3, <2>4, <2>8
    <3> QED BY <3>3, <3>4
  <2> QED BY <2>6, <2>7, <2>8
<1> HIDE DEF S
<1>12. Seq(T) \subseteq S
  BY <1>10, <1>11, PathsGrow
<1> QED BY <1>4, <1>6, <1>12 DEF S, KidsOf, UnlinkedPaths
-----------------------------------------------------------------------------
(* The inductive invariant                                                 *)

\* The nodes are directories and files of named entries.
Shaped(nodes, blocks) ==
  /\ nodes \in Seq(NodeRecord) /\ nodes # <<>>
  /\ IsForest(nodes)
  /\ nodes[Root].dir
  /\ \A n \in DOMAIN nodes : ~ nodes[n].dir => nodes[n].files = <<>>
  /\ \A n \in DOMAIN nodes : \A i \in DOMAIN nodes[n].files : nodes[nodes[n].files[i]].name \in Names
  /\ \A n \in DOMAIN nodes : nodes[n].block \in [1 .. MaxBlocks -> 0 .. Len(blocks)]

\* What stands in the tree was made by a handler, at one of the paths.
Charted(nodes) ==
  \A p \in Paths \cup {<<>>} : ResolveIn(nodes, p) # Nothing =>
    \A i \in DOMAIN nodes[ResolveIn(nodes, p)].files :
      Append(p, nodes[nodes[ResolveIn(nodes, p)].files[i]].name) \in Paths

\* A node's array is filled from the front: with k blocks.
Fills(nodes, n, k) == \A i \in 1 .. MaxBlocks : nodes[n].block[i] = NoBlock <=> i > k

\* A file's blocks are counted, the one included that is just being written; a
\* directory has none, and only the root lists files that do.
Counted(nodes, w) ==
  /\ \A n \in DOMAIN nodes : nodes[n].dir =>
       /\ Fills(nodes, n, 0)
       /\ nodes[n].num_block <= 0 /\ (n # Root => nodes[n].num_block = 0)
  /\ \A n \in DOMAIN nodes : ~ nodes[n].dir => \E k \in 0 .. MaxBlocks :
       Fills(nodes, n, k) /\ nodes[n].num_block = IF n \in w THEN k + 1 ELSE k
  /\ \A n \in DOMAIN nodes \ {Root} : \A i \in DOMAIN nodes[n].files :
       nodes[nodes[n].files[i]].num_block = 0

\* Between two handlers every block of the store has been filled.
Stored(blocks) == blocks \in Seq(Blocks)

Tree(nodes, blocks, w) ==
  Shaped(nodes, blocks) /\ Charted(nodes) /\ Counted(nodes, w) /\ Stored(blocks)

\* The file a block of which has been counted and is not yet written.
Writes(c) ==
  IF c.op = "write" /\ c.phase \in {"search", "store", "crashed"} /\ c.token = NoToken
  THEN {c.cur} ELSE {}

\* strtok has gone k names down a path, and the search with it.
Scan(rest, token, path, k) ==
  /\ token = IF k < Len(path) THEN path[k + 1] ELSE NoToken
  /\ k < Len(path) => rest = SubSeq(path, k + 2, Len(path))

Descent(nodes, rest, c, path, k) ==
  Scan(rest, c.token, path, k) /\ c.cur = ResolveIn(nodes, SubSeq(path, 1, k))

FileAt(nodes, path) == ResolveIn(nodes, path) # Nothing /\ ~ nodes[ResolveIn(nodes, path)].dir

\* No node is at the path, and one may be made there.
Free(nodes, path) ==
  /\ path \in Paths /\ ResolveIn(nodes, path) = Nothing
  /\ ResolveIn(nodes, Front(path)) # Nothing /\ nodes[ResolveIn(nodes, Front(path))].dir

\* A file is read within its size.
InRange(nodes, c) ==
  LET n == ResolveIn(nodes, c.path)
  IN c.op = "read" =>
       c.size > 0 /\ (n # Nothing => BlockSize * (c.first + c.size - 1) < nodes[n].size)

\* The first look-up, of getattr inside each handler.
Checking(nodes, rest, c) ==
  /\ c.op \in Reads \cup {"truncate", "write"} /\ InRange(nodes, c)
  /\ \E k \in 0 .. Len(c.path) : Descent(nodes, rest, c, c.path, k)

\* check_bbfile, which takes the first name of the path for the whole.
Rechecking(nodes, rest, c) ==
  /\ c.op \in {"read", "write"} /\ InRange(nodes, c) /\ FileAt(nodes, c.path)
  /\ \E k \in 0 .. 1 : Descent(nodes, rest, c, <<Head(c.path)>>, k)

\* A file in the root, whose block is looked for.
Writing(nodes, c) ==
  /\ c.op = "write" /\ Len(c.path) = 1 /\ c.token = NoToken
  /\ c.cur = ResolveIn(nodes, c.path) /\ ~ nodes[c.cur].dir

\* The search has ended behind the last block.
Storing(blocks, c) == c.slot = Len(blocks) + 1

\* The name of a new node: the last of the path.
Naming(nodes, rest, c) ==
  /\ c.op \in {"mknod", "mkdir"} /\ Free(nodes, c.path)
  /\ \E k \in 0 .. Len(c.path) : Scan(rest, c.token, c.path, k) /\ (k > 0 => c.name = c.path[k])

\* It is known, and so is the directory that is to list it.
Linking(nodes, c) ==
  /\ c.op \in {"mknod", "mkdir"} /\ Free(nodes, c.path)
  /\ c.name = Last(c.path) /\ c.cur = ResolveIn(nodes, Front(c.path))

\* On the way to that directory.
Adding(nodes, rest, c) ==
  /\ Free(nodes, c.path) /\ c.name = Last(c.path)
  /\ \/ \E k \in 0 .. Len(c.path) - 1 : Descent(nodes, rest, c, c.path, k)
     \/ c.op = "mkdir" /\ c.token = NoToken /\ c.cur = ResolveIn(nodes, Front(c.path))

\* On the way to what is taken away ...
Removing(nodes, rest, c) ==
  /\ c.op \in {"unlink", "rmdir"} /\ c.path \in Paths
  /\ \E k \in 0 .. Len(c.path) - 1 : Descent(nodes, rest, c, c.path, k)

\* ... and in the directory that lists it.
Unlinking(nodes, c) ==
  /\ c.op \in {"unlink", "rmdir"} /\ c.path \in Paths
  /\ c.parent = ResolveIn(nodes, Front(c.path))
  /\ c.index # 0 /\ c.index = IndexIn(nodes, c.parent, Last(c.path))

\* A call, and what holds where it stands.
Call(nodes, blocks, rest, c) ==
  /\ c \in CallRecord /\ c.cur \in DOMAIN nodes /\ c.parent \in DOMAIN nodes
  /\ c.op = "write" => c.data \in Blocks
  /\ c.op = "rename" => c.path \in DOMAIN Renames
  /\ c.path = <<>> => c.op \in {"getattr"} \cup Listings
  /\ c.phase = "check" => Checking(nodes, rest, c)
  /\ c.phase = "recheck" => Rechecking(nodes, rest, c)
  /\ c.phase = "search" => Writing(nodes, c)
  /\ c.phase = "store" => Writing(nodes, c) /\ Storing(blocks, c)
  /\ c.phase = "name" => Naming(nodes, rest, c)
  /\ c.phase = "add" => c.op = "mknod" /\ Adding(nodes, rest, c)
  /\ c.phase = "add_dir" => c.op = "mkdir" /\ Adding(nodes, rest, c)
  /\ c.phase = "link" => Linking(nodes, c)
  /\ c.phase = "remove" => Removing(nodes, rest, c)
  /\ c.phase = "unlink" => Unlinking(nodes, c)
  /\ c.phase = "answer" => c.op \in NoLookup

Written == UNION {Writes(call[t]) : t \in Threads}

\* The tree, the store, and the call of each thread.
FileInv ==
  /\ Tree(node, store, Written)
  /\ saved \in Seq(Names)
  /\ DOMAIN call = Threads /\ call = [t \in Threads |-> call[t]]
  /\ \A t \in Threads : Call(node, store, saved, call[t])
  /\ DOMAIN reply = Threads /\ reply = [t \in Threads |-> reply[t]]
  /\ errno \subseteq Threads /\ cached \subseteq Range(Renames) /\ changes \in 0 .. MaxChanges
LEMMA PathsAre ==
  /\ \A p \in Paths : p \in Seq(Names) /\ p # <<>> /\ Front(p) \in Paths \cup {<<>>}
  /\ \A p \in Paths \cup {<<>>} : p \in Seq(Names)
<1>1. \A p \in Paths : p \in Seq(Names) \ {<<>>} /\ Front(p) \in Paths \cup {<<>>}
  BY FileSystemAssumption
<1>2. <<>> \in Seq(Names)
  OBVIOUS
<1> QED BY <1>1, <1>2

\* The mapping, for nodes that are not the current ones.
FilledIn(nodes, n) ==
  CHOOSE k \in 0 .. MaxBlocks :
    /\ \A i \in 1 .. k : nodes[n].block[i] # NoBlock
    /\ k < MaxBlocks => nodes[n].block[k + 1] = NoBlock

DataIn(nodes, blocks, n) == [i \in 1 .. FilledIn(nodes, n) |-> blocks[nodes[n].block[i]][1]]

\* By how much a write in progress has made its file longer: with one thread, the
\* size of its call, which no step changes on the way.
Amount == Me(CHOOSE t \in Threads : TRUE).size

EntryIn(nodes, blocks, w, n) ==
  IF n = Nothing THEN [kind |-> "nothing", size |-> 0, log |-> <<>>]
  ELSE IF nodes[n].dir THEN [kind |-> "directory", size |-> nodes[n].size, log |-> <<>>]
  ELSE [kind |-> "file", size |-> nodes[n].size - (IF n \in w THEN Amount ELSE 0),
        log |-> DataIn(nodes, blocks, n)]

TreeIn(nodes, blocks, w) ==
  [p \in Paths \cup {<<>>} |-> EntryIn(nodes, blocks, w, ResolveIn(nodes, p))]

\* What the abstract file system has now.
TreeNow == [p \in Paths \cup {<<>>} |-> EntryAt(p)]

\* The size of the one call there is.
LEMMA AmountIs ==
  ASSUME OneThread, NEW t \in Threads
  PROVE  /\ Amount = call[t].size
         /\ \A u : u \in Threads => u = t
<1>1. \A u : u \in Threads => u = t
  BY DEF OneThread
<1>2. (CHOOSE u \in Threads : TRUE) = t
  BY <1>1
<1> QED BY <1>1, <1>2 DEF Amount, Me

LEMMA GrowthIs ==
  ASSUME OneThread, NEW n
  PROVE  Growth(n) = IF n \in Written THEN Amount ELSE 0
<1>1. Writers(n) = {} <=> n \notin Written
  BY DEF Writers, Written, Writes, At, Me
<1>2. CASE Writers(n) = {}
  BY <1>1, <1>2 DEF Growth
<1>3. CASE Writers(n) # {}
  <2>1. PICK t \in Writers(n) : t = CHOOSE u \in Writers(n) : TRUE
    BY <1>3
  <2>2. t \in Threads
    BY <2>1 DEF Writers
  <2> QED BY <1>1, <1>3, <2>1, <2>2, AmountIs DEF Growth, Me
<1> QED BY <1>2, <1>3

\* The call of a write stays as it was when it was counted.
SameSize == \A t \in Threads : Writes(call[t])' = {} \/ call'[t].size = call[t].size

LEMMA EntryIs ==
  ASSUME OneThread, NEW p
  PROVE  /\ Entry(Resolve(p)) = EntryIn(node, store, Written, ResolveIn(node, p))
         /\ SameSize => Entry(Resolve(p))' = EntryIn(node', store', Written', ResolveIn(node', p))
<1> DEFINE n == Resolve(p)
<1>1. n = ResolveIn(node, p) /\ n' = ResolveIn(node', p)
  BY ResolveIs
<1>2. Growth(n) = IF n \in Written THEN Amount ELSE 0
  BY GrowthIs
<1>3. ASSUME SameSize
      PROVE  Growth(n)' = IF n' \in Written' THEN Amount ELSE 0
  <2>1. Writers(n)' = {} <=> n' \notin Written'
    BY DEF Writers, Written, Writes, At, Me
  <2>2. CASE Writers(n)' = {}
    BY <2>1, <2>2 DEF Growth
  <2>3. CASE Writers(n)' # {}
    <3>1. PICK t \in Writers(n)' : t = CHOOSE u \in Writers(n)' : TRUE
      BY <2>3
    <3>2. t \in Threads /\ Writes(call[t])' # {}
      BY <3>1 DEF Writers, Writes, At, Me
    <3>3. call'[t].size = call[t].size
      BY <3>2, <1>3 DEF SameSize
    <3>4. Growth(n)' = call'[t].size
      BY <2>3, <3>1 DEF Growth, Me
    <3> QED BY <2>1, <2>3, <3>2, <3>3, <3>4, AmountIs
  <2> QED BY <2>2, <2>3
<1> HIDE DEF n
<1>4. Entry(n) = EntryIn(node, store, Written, ResolveIn(node, p))
  BY <1>1, <1>2 DEF Entry, EntryIn, Data, DataIn, Filled, FilledIn
<1>5. SameSize => Entry(n)' = EntryIn(node', store', Written', ResolveIn(node', p))
  BY <1>1, <1>3 DEF Entry, EntryIn, Data, DataIn, Filled, FilledIn
<1> QED BY <1>4, <1>5 DEF n

LEMMA EntryAtIs ==
  ASSUME NEW p
  PROVE  EntryAt(p) = Entry(Resolve(p)) /\ EntryAt(p)' = Entry(Resolve(p))'
<1>1. ASSUME NEW x PROVE (CHOOSE e \in {x} : TRUE) = x
  OBVIOUS
<1>2. {Entry(n) : n \in {Resolve(p)}} = {Entry(Resolve(p))}
  OBVIOUS
<1>3. EntryAt(p) = Entry(Resolve(p))
  BY <1>1, <1>2 DEF EntryAt
<1>4. {Entry(n) : n \in {Resolve(p)}}' = {Entry(Resolve(p))'}
  OBVIOUS
<1>5. EntryAt(p)' = Entry(Resolve(p))'
  BY <1>1, <1>4 DEF EntryAt
<1> QED BY <1>3, <1>5

LEMMA TreeIs ==
  ASSUME OneThread
  PROVE  /\ TreeNow = TreeIn(node, store, Written)
         /\ SameSize => TreeNow' = TreeIn(node', store', Written')
BY EntryIs, EntryAtIs DEF TreeNow, TreeIn

LEMMA FilledIs ==
  ASSUME NEW nodes, NEW n, NEW k \in 0 .. MaxBlocks,
         Fills(nodes, n, k)
  PROVE  FilledIn(nodes, n) = k
<1>1. MaxBlocks \in Nat
  BY FileSystemAssumption
<1> DEFINE Good(j) == /\ \A i \in 1 .. j : nodes[n].block[i] # NoBlock
                      /\ j < MaxBlocks => nodes[n].block[j + 1] = NoBlock
<1>0. \A i \in 1 .. MaxBlocks : nodes[n].block[i] = NoBlock <=> i > k
  BY DEF Fills
<1>2. Good(k)
  BY <1>0, <1>1
<1>3. ASSUME NEW j \in 0 .. MaxBlocks, Good(j) PROVE j = k
  <2>1. ~ (j < k)
    <3> SUFFICES ASSUME j < k PROVE FALSE
      OBVIOUS
    <3>1. j + 1 \in 1 .. MaxBlocks /\ ~ (j + 1 > k) /\ j < MaxBlocks
      BY <1>1
    <3> QED BY <3>1, <1>0, <1>3
  <2>2. ~ (k < j)
    <3> SUFFICES ASSUME k < j PROVE FALSE
      OBVIOUS
    <3>1. j \in 1 .. MaxBlocks /\ j > k /\ j \in 1 .. j
      BY <1>1
    <3> QED BY <3>1, <1>0, <1>3
  <2> QED BY <2>1, <2>2, <1>1
<1>4. FilledIn(nodes, n) = CHOOSE j \in 0 .. MaxBlocks : Good(j)
  BY DEF FilledIn
<1> HIDE DEF Good
<1> QED BY <1>2, <1>3, <1>4
-----------------------------------------------------------------------------
(* The mapping                                                             *)

\* What the abstract steps are made of.
Running == \A t \in Threads : ~ At(t, "crashed")
Asks == [t \in Threads |-> Request(t)]
FileStep == [Files!LogNext]_(Files!fileVars)
-----------------------------------------------------------------------------
(* Steps of the file system as steps of the logs                           *)

\* A step in which nothing is asked, changed or answered.
LEMMA FileStutter ==
  ASSUME Running' = Running, TreeNow' = TreeNow, Asks' = Asks, UNCHANGED <<reply, errno>>
  PROVE  FileStep
BY DEF FileStep, Files!fileVars, Running, TreeNow, Asks

\* A handler is called.
LEMMA FileAsk ==
  ASSUME NEW t \in Threads, Running, At(t, "idle"),
         Running' = Running, TreeNow' = TreeNow, UNCHANGED errno,
         Request(t)' \in Files!Requests,
         \A u \in Threads \ {t} : Request(u)' = Request(u),
         reply' = [reply EXCEPT ![t] = NoAnswer]
  PROVE  FileStep
<1>1. Asks[t] = Files!Idle /\ Asks'[t] = Request(t)'
  BY DEF Asks, Request, Files!Idle
<1>2. Asks' = [Asks EXCEPT ![t] = Asks'[t]]
  BY DEF Asks
<1>3. NoAnswer = Files!Code("none")
  BY DEF NoAnswer, Code, Answer, Files!Code
<1> HIDE DEF Asks
<1>4. Files!Ask(t)
  BY <1>1, <1>2, <1>3 DEF Files!Ask, Running, TreeNow, Asks
<1> QED BY <1>4 DEF FileStep, Files!LogNext

\* A handler returns: the tree changes and the answer is one that it may give.
LEMMA FileReply ==
  ASSUME NEW t \in Threads, Running, Running', ~ At(t, "idle"), At(t, "idle")',
         Me(t).op \in Ops,
         \A u \in Threads \ {t} : Request(u)' = Request(u),
         NEW e \in Files!Replies(t, Request(t)), reply' = [reply EXCEPT ![t] = e],
         errno' = IF Me(t).op = "ftruncate" THEN errno \cup {t} ELSE errno,
         CASE Me(t).op = "mknod" -> Files!Create(Me(t).path, Files!File)
           [] Me(t).op = "mkdir" -> Files!Create(Me(t).path, Files!Directory)
           [] Me(t).op \in {"unlink", "rmdir"} -> Files!Delete(Me(t).path)
           [] Me(t).op = "write" -> Files!AppendBlock(Me(t).path, Me(t).data[1], Me(t).size)
           [] Me(t).op = "truncate" ->
                /\ Files!Exists(Me(t).path)
                /\ TreeNow' = [TreeNow EXCEPT ![Me(t).path].size = Me(t).size]
           [] OTHER -> TreeNow' = TreeNow
  PROVE  FileStep
<1> DEFINE r == Request(t)
<1>1. /\ r.op = Me(t).op /\ r.path = Me(t).path /\ r.data = Me(t).data[1] /\ r.size = Me(t).size
      /\ Asks[t] = r /\ Asks'[t] = Files!Idle
  BY DEF Asks, Request, Files!Idle
<1>2. Asks' = [Asks EXCEPT ![t] = Files!Idle]
  BY <1>1 DEF Asks
<1>3. r.op # "none"
  BY <1>1 DEF Ops, Reads, NoLookup, Listings
<1>4. r # Files!Idle
  BY <1>3 DEF Files!Idle
<1>5. (CASE r.op = "mknod" -> Files!Create(r.path, Files!File)
        [] r.op = "mkdir" -> Files!Create(r.path, Files!Directory)
        [] r.op \in {"unlink", "rmdir"} -> Files!Delete(r.path)
        [] r.op = "write" -> Files!AppendBlock(r.path, r.data, r.size)
        [] r.op = "truncate" ->
             /\ Files!Exists(r.path)
             /\ TreeNow' = [TreeNow EXCEPT ![r.path].size = r.size]
        [] OTHER -> TreeNow' = TreeNow)
  BY <1>1
<1>6. Request(t) = r /\ Asks[t] = Request(t)
  BY <1>1
<1>7. Files!Reply(t)
  <2>1. Running' = Running
    OBVIOUS
  <2>2. errno' = IF r.op = "ftruncate" THEN errno \cup {t} ELSE errno
    BY <1>1
  <2>3. \E reply_1 \in Files!Replies(t, r) : reply' = [reply EXCEPT ![t] = reply_1]
    BY <1>6
  <2> HIDE DEF r
  <2> QED BY <1>1, <1>2, <1>4, <1>5, <2>1, <2>2, <2>3
          DEF Files!Reply, Running, TreeNow, Asks
<1> QED BY <1>7 DEF FileStep, Files!LogNext

\* Nobody else is in a handler.
LEMMA OneCall ==
  ASSUME OneThread, NEW t \in Threads
  PROVE  /\ Threads = {t}
         /\ Written = Writes(call[t]) /\ Written' = Writes(call'[t])
         /\ Writes(call'[t]) = {} \/ call'[t].size = call[t].size => SameSize
<1>1. Threads = {t}
  BY DEF OneThread
<1>2. Written = Writes(call[t]) /\ Written' = Writes(call'[t])
  BY <1>1 DEF Written, Writes
<1>3. Writes(call'[t]) = {} \/ call'[t].size = call[t].size => SameSize
  BY <1>1 DEF SameSize, Writes
<1> QED BY <1>1, <1>2, <1>3

LEMMA TreeHas ==
  ASSUME NEW nodes, NEW blocks, NEW w, Tree(nodes, blocks, w)
  PROVE  /\ IsForest(nodes) /\ Nothing \notin DOMAIN nodes
         /\ Root \in DOMAIN nodes /\ nodes[Root].dir
         /\ Len(nodes) \in Nat \ {0} /\ DOMAIN nodes = 1 .. Len(nodes)
         /\ nodes \in Seq(NodeRecord)
         /\ \A n \in DOMAIN nodes : nodes[n] \in NodeRecord
<1>1. nodes \in Seq(NodeRecord) /\ nodes # <<>> /\ IsForest(nodes) /\ nodes[Root].dir
  BY DEF Tree, Shaped
<1>2. Len(nodes) \in Nat \ {0} /\ DOMAIN nodes = 1 .. Len(nodes)
      /\ \A n \in DOMAIN nodes : nodes[n] \in NodeRecord
  BY <1>1
<1> QED BY <1>1, <1>2 DEF Nothing, Root

LEMMA QuietIs ==
  ASSUME NEW nodes, NEW blocks, NEW rest, Root \in DOMAIN nodes
  PROVE  Call(nodes, blocks, rest, Quiet) /\ Writes(Quiet) = {} /\ Quiet.phase = "idle"
<1>1. Root \in Nat
  BY DEF Root
<1>2. Quiet \in CallRecord
  BY <1>1 DEF Quiet, CallRecord, Ops, Reads, Listings, Phases
<1>3. /\ Quiet.op = "getattr" /\ Quiet.phase = "idle"
      /\ Quiet.cur = Root /\ Quiet.parent = Root
  BY DEF Quiet
<1> HIDE DEF Quiet
<1>4. Writes(Quiet) = {}
  BY <1>3 DEF Writes
<1> QED BY <1>2, <1>3, <1>4 DEF Call

\* A state in which the one call is as it should be.
LEMMA Holds ==
  ASSUME OneThread, FileInv, NEW t \in Threads, NEW c, call' = [call EXCEPT ![t] = c],
         Tree(node', store', Writes(c)), Call(node', store', saved', c),
         saved' \in Seq(Names), cached' \subseteq Range(Renames),
         errno' \subseteq Threads, changes' \in 0 .. MaxChanges,
         reply' = [u \in Threads |-> reply'[u]]
  PROVE  FileInv'
<1>1. DOMAIN call = Threads
  BY DEF FileInv
<1>2. call'[t] = c /\ DOMAIN call' = Threads /\ call' = [u \in Threads |-> call'[u]]
  BY <1>1
<1>3. Written' = Writes(c) /\ \A u \in Threads : u = t
  BY <1>2, OneCall
<1>4. \A u \in Threads : Call(node', store', saved', call'[u])
  BY <1>2, <1>3
<1> QED BY <1>2, <1>3, <1>4 DEF FileInv

LEMMA Others ==
  ASSUME OneThread, FileInv, NEW t \in Threads, NEW c, call' = [call EXCEPT ![t] = c]
  PROVE  /\ call'[t] = c
         /\ \A u \in Threads \ {t} : Request(u)' = Request(u)
         /\ c.phase # "crashed" => Running'
         /\ call[t].phase # "crashed" => Running
<1>1. DOMAIN call = Threads /\ \A u \in Threads : u = t
  BY DEF FileInv, OneThread
<1>2. call'[t] = c
  BY <1>1
<1>3. c.phase # "crashed" => Running'
  BY <1>1, <1>2 DEF Running, At
<1>4. call[t].phase # "crashed" => Running
  BY <1>1 DEF Running, At
<1> QED BY <1>1, <1>2, <1>3, <1>4

\* A step of which nothing is seen.
LEMMA Goes ==
  ASSUME OneThread, FileInv, NEW t \in Threads, NEW c, call' = [call EXCEPT ![t] = c],
         Tree(node', store', Writes(c)), Call(node', store', saved', c),
         saved' \in Seq(Names), UNCHANGED <<reply, errno, cached, changes>>,
         call[t].phase \notin {"idle", "crashed"}, c.phase \notin {"idle", "crashed"},
         c.op = call[t].op, c.path = call[t].path, c.data = call[t].data,
         c.first = call[t].first, c.size = call[t].size,
         TreeIn(node', store', Writes(c)) = TreeIn(node, store, Writes(call[t]))
  PROVE  FileInv' /\ FileStep
<1>1. FileInv'
  <2>1. saved' \in Seq(Names) /\ cached' \subseteq Range(Renames) /\ errno' \subseteq Threads
        /\ changes' \in 0 .. MaxChanges /\ reply' = [u \in Threads |-> reply'[u]]
    BY DEF FileInv
  <2> QED BY <2>1, Holds
<1>2. call'[t] = c /\ Running' /\ Running
      /\ \A u \in Threads \ {t} : Request(u)' = Request(u)
  BY Others
<1>3. Asks' = Asks
  <2>1. Request(t) = [op |-> call[t].op, path |-> call[t].path, data |-> call[t].data[1],
                      first |-> call[t].first, size |-> call[t].size]
    BY DEF Request, At, Me
  <2>2. Request(t)' = [op |-> c.op, path |-> c.path, data |-> c.data[1],
                       first |-> c.first, size |-> c.size]
    BY <1>2 DEF Request, At, Me
  <2>3. \A u \in Threads : Request(u)' = Request(u)
    BY <2>1, <2>2, <1>2
  <2> QED BY <2>3 DEF Asks
<1>4. TreeNow' = TreeNow
  <2>1. SameSize /\ Written = Writes(call[t]) /\ Written' = Writes(c)
    BY <1>2, OneCall
  <2> QED BY <2>1, TreeIs
<1>5. Running' = Running
  BY <1>2 DEF Running
<1> QED BY <1>1, <1>3, <1>4, <1>5, FileStutter

\* What is done to the tree when a request is answered.
Done(t) ==
  CASE Me(t).op = "mknod" -> Files!Create(Me(t).path, Files!File)
    [] Me(t).op = "mkdir" -> Files!Create(Me(t).path, Files!Directory)
    [] Me(t).op \in {"unlink", "rmdir"} -> Files!Delete(Me(t).path)
    [] Me(t).op = "write" -> Files!AppendBlock(Me(t).path, Me(t).data[1], Me(t).size)
    [] Me(t).op = "truncate" ->
         /\ Files!Exists(Me(t).path)
         /\ TreeNow' = [TreeNow EXCEPT ![Me(t).path].size = Me(t).size]
    [] OTHER -> TreeNow' = TreeNow

\* The last step of a handler.
LEMMA Answers ==
  ASSUME OneThread, FileInv, NEW t \in Threads, NEW e,
         call' = [call EXCEPT ![t] = Quiet], reply' = [reply EXCEPT ![t] = e],
         Tree(node', store', {}), saved' \in Seq(Names), cached' \subseteq Range(Renames),
         errno' = IF Me(t).op = "ftruncate" THEN errno \cup {t} ELSE errno, UNCHANGED changes,
         call[t].phase \notin {"idle", "crashed"}, e \in Files!Replies(t, Request(t)), Done(t)
  PROVE  FileInv' /\ FileStep
<1>1. Root \in DOMAIN node'
  BY TreeHas
<1>2. Call(node', store', saved', Quiet) /\ Writes(Quiet) = {} /\ Quiet.phase = "idle"
  BY <1>1, QuietIs
<1>3. FileInv'
  <2>1. errno' \subseteq Threads /\ changes' \in 0 .. MaxChanges
        /\ reply' = [u \in Threads |-> reply'[u]]
    BY DEF FileInv
  <2> QED BY <2>1, <1>2, Holds
<1>4. call'[t] = Quiet /\ Running' /\ Running
      /\ \A u \in Threads \ {t} : Request(u)' = Request(u)
  BY <1>2, Others
<1>5. ~ At(t, "idle") /\ At(t, "idle")' /\ Me(t).op \in Ops
  BY <1>2, <1>4 DEF At, Me, FileInv, Call, CallRecord
<1>6. FileStep
  BY <1>4, <1>5, FileReply DEF Done
<1> QED BY <1>3, <1>6
-----------------------------------------------------------------------------
(* Down a path, name by name                                               *)

LEMMA Tokens ==
  ASSUME NEW s \in Seq(Names)
  PROVE  Rest(s) \in Seq(Names) /\ First(s) \in Names \cup {NoToken}
         /\ (s # <<>> => First(s) \in Names /\ First(s) = s[1])
<1>1. CASE s = <<>>
  BY <1>1 DEF Rest, First
<1>2. CASE s # <<>>
  BY <1>2, HeadTailProperties DEF Rest, First
<1> QED BY <1>1, <1>2

LEMMA TailIs ==
  ASSUME NEW p \in Seq(Names), NEW a \in 1 .. Len(p)
  PROVE  LET s == SubSeq(p, a, Len(p))
         IN s \in Seq(Names) /\ s # <<>> /\ s[1] = p[a] /\ Tail(s) = SubSeq(p, a + 1, Len(p))
<1> DEFINE s == SubSeq(p, a, Len(p))
           n == Len(p)
           u == SubSeq(p, a + 1, n)
<1>1. n \in Nat /\ a \in Nat /\ a >= 1 /\ a <= n /\ \A i \in 1 .. n : p[i] \in Names
  OBVIOUS
<1>2. s \in Seq(Names) /\ Len(s) = n - a + 1 /\ \A i \in 1 .. n - a + 1 : s[i] = p[a + i - 1]
  BY <1>1
<1>3. u \in Seq(Names) /\ Len(u) = n - a /\ \A i \in 1 .. n - a : u[i] = p[a + i]
  <2>1. CASE a + 1 <= n
    BY <1>1, <2>1
  <2>2. CASE a = n
    BY <1>1, <2>2
  <2> QED BY <2>1, <2>2, <1>1
<1> HIDE DEF s, u, n
<1>4. s # <<>> /\ s[1] = p[a]
  BY <1>1, <1>2
<1>5. Tail(s) \in Seq(Names) /\ Len(Tail(s)) = n - a /\ \A i \in 1 .. n - a : Tail(s)[i] = s[i + 1]
  BY <1>1, <1>2, <1>4, HeadTailProperties
<1>6. Tail(s) = u
  <2>1. \A i \in 1 .. n - a : Tail(s)[i] = u[i]
    BY <1>1, <1>2, <1>3, <1>5
  <2> QED BY <2>1, <1>3, <1>5, SeqEqual
<1> QED BY <1>2, <1>4, <1>6 DEF s, u, n

\* strtok has found the first name ...
LEMMA ScanStart ==
  ASSUME NEW path \in Seq(Names)
  PROVE  Scan(Rest(path), First(path), path, 0)
<1>1. CASE path = <<>>
  BY <1>1 DEF Scan, First
<1>2. CASE path # <<>>
  <2>1. Len(path) \in Nat /\ Len(path) > 0 /\ SubSeq(path, 1, Len(path)) = path
    BY <1>2
  <2>2. 1 \in 1 .. Len(path)
    BY <2>1
  <2>3. Tail(path) = SubSeq(path, 2, Len(path))
    BY <2>1, <2>2, TailIs
  <2> QED BY <2>1, <2>3, <1>2, Tokens DEF Scan, Rest
<1> QED BY <1>1, <1>2

\* ... and finds the next, or that there is none.
LEMMA ScanNext ==
  ASSUME NEW path \in Seq(Names), NEW k \in 0 .. Len(path), NEW rest, NEW token,
         Scan(rest, token, path, k), token # NoToken
  PROVE  /\ k < Len(path) /\ k \in 0 .. Len(path) - 1 /\ k + 1 \in 0 .. Len(path)
         /\ token = path[k + 1] /\ token \in Names /\ rest \in Seq(Names)
         /\ Scan(Rest(rest), First(rest), path, k + 1)
         /\ rest = <<>> <=> k + 1 = Len(path)
<1>1. /\ k < Len(path) /\ token = path[k + 1] /\ rest = SubSeq(path, k + 2, Len(path))
      /\ Len(path) \in Nat
  BY DEF Scan
<1>2. /\ k \in 0 .. Len(path) - 1 /\ k + 1 \in 0 .. Len(path) /\ k + 1 \in 1 .. Len(path)
      /\ token \in Names
  BY <1>1
<1>3. CASE k + 1 = Len(path)
  <2>1. rest = <<>>
    BY <1>1, <1>3
  <2> QED BY <1>1, <1>2, <1>3, <2>1 DEF Scan, First
<1>4. CASE k + 1 # Len(path)
  <2>1. k + 2 \in 1 .. Len(path) /\ k + 1 < Len(path)
    BY <1>1, <1>4
  <2>2. /\ rest \in Seq(Names) /\ rest # <<>> /\ rest[1] = path[k + 2]
        /\ Tail(rest) = SubSeq(path, k + 3, Len(path))
    <3>1. (k + 2) + 1 = k + 3
      OBVIOUS
    <3> QED BY <2>1, <1>1, <3>1, TailIs
  <2>3. First(rest) = path[(k + 1) + 1] /\ Rest(rest) = SubSeq(path, (k + 1) + 2, Len(path))
    <3>1. (k + 1) + 1 = k + 2 /\ (k + 1) + 2 = k + 3
      OBVIOUS
    <3> QED BY <2>2, <3>1, Tokens DEF Rest
  <2> QED BY <2>1, <2>2, <2>3, <1>1, <1>2, <1>4 DEF Scan
<1> QED BY <1>3, <1>4

LEMMA ScanOn ==
  ASSUME NEW path \in Seq(Names), NEW k \in 0 .. Len(path), NEW rest, NEW token,
         Scan(rest, token, path, k), token # NoToken
  PROVE  k < Len(path)
BY DEF Scan

LEMMA ScanEnd ==
  ASSUME NEW path \in Seq(Names), NEW k \in 0 .. Len(path), NEW rest,
         Scan(rest, NoToken, path, k)
  PROVE  k = Len(path)
<1>1. k < Len(path) => path[k + 1] \in Names
  OBVIOUS
<1> QED BY <1>1, FileSystemAssumption DEF Scan

\* One name further down.
LEMMA Further ==
  ASSUME NEW nodes, NEW path \in Seq(Names), NEW k \in 0 .. Len(path) - 1
  PROVE  ResolveIn(nodes, SubSeq(path, 1, k + 1)) =
           IF ResolveIn(nodes, SubSeq(path, 1, k)) = Nothing THEN Nothing
           ELSE ChildIn(nodes, ResolveIn(nodes, SubSeq(path, 1, k)), path[k + 1])
<1> DEFINE s == SubSeq(path, 1, k + 1)
<1>1. k \in Nat /\ k + 1 \in 1 .. Len(path)
  OBVIOUS
<1>2. s \in Seq(Names) /\ Len(s) = k + 1 /\ \A i \in 1 .. k + 1 : s[i] = path[i]
  BY <1>1
<1>3. s # <<>>
  BY <1>1, <1>2
<1>4. SubSeq(s, 1, k) = SubSeq(path, 1, k)
  BY <1>1, <1>2
<1> HIDE DEF s
<1>5. Last(s) = path[k + 1] /\ Front(s) = SubSeq(path, 1, k)
  <2>1. Last(s) = s[k + 1]
    BY <1>2, <1>3, Parts
  <2>2. Front(s) \in Seq(Names) /\ Len(Front(s)) = k /\ SubSeq(Front(s), 1, k) = SubSeq(s, 1, k)
    <3>1. (k + 1) - 1 = k /\ k \in 0 .. (k + 1) - 1
      BY <1>1
    <3> QED BY <1>2, <1>3, <3>1, Parts
  <2>3. SubSeq(Front(s), 1, k) = Front(s)
    BY <2>2
  <2> QED BY <2>1, <2>2, <2>3, <1>1, <1>2, <1>4
<1> QED BY <1>2, <1>3, <1>5, ResolveStep DEF s

\* The whole path has been gone.
LEMMA WholeIs ==
  ASSUME NEW path \in Seq(Names)
  PROVE  /\ SubSeq(path, 1, Len(path)) = path /\ SubSeq(path, 1, 0) = <<>>
         /\ path # <<>> => SubSeq(path, 1, Len(path) - 1) = Front(path)
                             /\ Len(path) - 1 \in 0 .. Len(path) - 1 /\ Last(path) = path[Len(path)]
<1>1. SubSeq(path, 1, Len(path)) = path /\ SubSeq(path, 1, 0) = <<>>
  OBVIOUS
<1>2. ASSUME path # <<>> 
      PROVE SubSeq(path, 1, Len(path) - 1) = Front(path)
             /\ Len(path) - 1 \in 0 .. Len(path) - 1 /\ Last(path) = path[Len(path)]
  <2>1. Len(path) \in Nat \ {0} /\ Front(path) \in Seq(Names) /\ Len(Front(path)) = Len(path) - 1
        /\ Last(path) = path[Len(path)]
    BY <1>2, Parts
  <2>2. Len(path) - 1 \in 0 .. Len(path) - 1
    BY <2>1
  <2>3. SubSeq(Front(path), 1, Len(path) - 1) = SubSeq(path, 1, Len(path) - 1)
    BY <2>2, <1>2, Parts
  <2>4. SubSeq(Front(path), 1, Len(path) - 1) = Front(path)
    BY <2>1
  <2> QED BY <2>1, <2>2, <2>3, <2>4
<1> QED BY <1>1, <1>2
-----------------------------------------------------------------------------
(* Looking up                                                              *)

LEMMA Context ==
  ASSUME OneThread, FileInv, NEW t \in Threads
  PROVE  /\ Tree(node, store, Writes(call[t])) /\ Call(node, store, saved, call[t])
         /\ call[t] \in CallRecord /\ call[t].cur \in DOMAIN node /\ call[t].parent \in DOMAIN node
         /\ saved \in Seq(Names) /\ call[t].path \in Seq(Names)
         /\ call[t].path \in Paths \cup {<<>>}
         /\ IsForest(node) /\ Nothing \notin DOMAIN node
         /\ Me(t) = call[t]
         /\ \A e : [reply EXCEPT ![t] = e] = [u \in Threads |-> [reply EXCEPT ![t] = e][u]]
         /\ cached \subseteq Range(Renames) /\ errno \subseteq Threads /\ changes \in 0 .. MaxChanges
<1>1. Tree(node, store, Writes(call[t])) /\ Call(node, store, saved, call[t])
  BY OneCall DEF FileInv
<1>2. call[t] \in CallRecord /\ call[t].cur \in DOMAIN node /\ call[t].parent \in DOMAIN node
  BY <1>1 DEF Call
<1>3. call[t].path \in Paths \cup {<<>>}
  BY <1>2 DEF CallRecord
<1>4. IsForest(node) /\ Nothing \notin DOMAIN node
  BY <1>1, TreeHas
<1>5. call[t].path \in Seq(Names)
  BY <1>3, PathsAre
<1>6. \A e : [reply EXCEPT ![t] = e] = [u \in Threads |-> [reply EXCEPT ![t] = e][u]]
  BY DEF FileInv
<1> QED BY <1>1, <1>2, <1>3, <1>4, <1>5, <1>6 DEF FileInv, Me

LEMMA Seen ==
  ASSUME OneThread, FileInv, NEW t \in Threads, NEW p \in Paths \cup {<<>>}
  PROVE  /\ TreeNow[p] = EntryIn(node, store, Writes(call[t]), ResolveIn(node, p))
         /\ Files!Exists(p) <=> ResolveIn(node, p) # Nothing
         /\ Files!IsFile(p) <=> FileAt(node, p)
<1>1. TreeNow[p] = EntryIn(node, store, Writes(call[t]), ResolveIn(node, p))
  <2>1. TreeNow = TreeIn(node, store, Written)
    BY TreeIs
  <2>2. TreeIn(node, store, Written)[p] = EntryIn(node, store, Written, ResolveIn(node, p))
    BY DEF TreeIn
  <2> QED BY <2>1, <2>2, OneCall
<1>2. Files!Exists(p) <=> TreeNow[p].kind # "nothing"
  BY DEF Files!Exists, TreeNow
<1>3. Files!IsFile(p) <=> TreeNow[p].kind = "file"
  BY DEF Files!IsFile, TreeNow
<1> QED BY <1>1, <1>2, <1>3 DEF EntryIn, FileAt

Fatal(t) ==
  \/ /\ Me(t).op = "write" /\ Files!IsFile(Me(t).path) /\ Len(Me(t).path) = 1
     /\ Len(TreeNow[Me(t).path].log) = MaxBlocks \/ Me(t).size > BlockSize
  \/ Me(t).op = "read" /\ Me(t).size > 1 /\ Me(t).first + Me(t).size > Len(Files!Reached(Me(t).path))
  \/ Me(t).op = "truncate" /\ ~ Files!Exists(Me(t).path)
  \/ Me(t).op \in {"mknod", "mkdir"} /\ Me(t).path \in LongPaths
  \/ Me(t).op \notin Files!NoCopy /\ \E i \in DOMAIN Me(t).path : Me(t).path[i] \in LongNames

\* A handler that follows an index it has not got, or copies what does not fit,
\* stops the program.
LEMMA Dies ==
  ASSUME OneThread, FileInv, NEW t \in Threads, Crash, UNCHANGED changes,
         call[t].phase \notin {"idle", "crashed"},
         call[t].op = "write" => call[t].phase \in {"search", "store"} \/ call[t].token # NoToken,
         Fatal(t)
  PROVE  FileInv' /\ FileStep
<1> DEFINE c == [call[t] EXCEPT !.phase = "crashed"]
<1>1. call[t] \in CallRecord /\ Tree(node, store, Writes(call[t])) /\ Call(node, store, saved, call[t])
      /\ cached \subseteq Range(Renames) /\ errno \subseteq Threads /\ changes \in 0 .. MaxChanges
      /\ saved \in Seq(Names)
  BY Context
<1>2. /\ c \in CallRecord /\ c.phase = "crashed" /\ c.cur = call[t].cur /\ c.parent = call[t].parent
      /\ c.op = call[t].op /\ c.data = call[t].data /\ c.path = call[t].path
      /\ c.first = call[t].first /\ c.size = call[t].size /\ c.token = call[t].token
  BY <1>1 DEF CallRecord, Phases
<1>3. call' = [call EXCEPT ![t] = c]
  <2>1. DOMAIN call = Threads /\ call = [u \in Threads |-> call[u]] /\ \A u \in Threads : u = t
    BY DEF FileInv, OneThread
  <2> QED BY <2>1 DEF Crash
<1> HIDE DEF c
<1>4. Writes(c) = Writes(call[t])
  BY <1>2 DEF Writes
<1>5. Call(node, store, saved, c)
  BY <1>1, <1>2 DEF Call
<1>6. FileInv'
  <2>1. node' = node /\ store' = store /\ saved' = saved /\ cached' = cached /\ errno' = errno
        /\ reply' = reply
    BY DEF Crash
  <2>2. reply' = [u \in Threads |-> reply'[u]]
    BY <2>1 DEF FileInv
  <2>3. Tree(node', store', Writes(c)) /\ Call(node', store', saved', c)
    BY <1>1, <1>4, <1>5, <2>1
  <2>4. saved' \in Seq(Names) /\ cached' \subseteq Range(Renames) /\ errno' \subseteq Threads
        /\ changes' \in 0 .. MaxChanges
    BY <1>1, <2>1
  <2> QED BY <2>2, <2>3, <2>4, <1>3, Holds
<1>7. Running /\ ~ Running'
  <2>1. Running /\ call'[t] = c
    BY <1>3, Others
  <2> QED BY <2>1, <1>2 DEF Running, At
<1>8. Asks' = Asks
  <2>1. Request(t) = [op |-> call[t].op, path |-> call[t].path, data |-> call[t].data[1],
                      first |-> call[t].first, size |-> call[t].size]
    BY DEF Request, At, Me
  <2>2. call'[t] = c /\ \A u \in Threads \ {t} : Request(u)' = Request(u)
    BY <1>3, Others
  <2>3. Request(t)' = [op |-> c.op, path |-> c.path, data |-> c.data[1],
                       first |-> c.first, size |-> c.size]
    BY <1>2, <2>2 DEF Request, At, Me
  <2>4. \A u \in Threads : Request(u)' = Request(u)
    BY <2>1, <2>2, <2>3, <1>2
  <2> QED BY <2>4 DEF Asks
<1>9. TreeNow' = TreeNow
  <2>1. call'[t] = c
    BY <1>3, Others
  <2>2. SameSize /\ Written' = Written
    BY <2>1, <1>2, <1>4, OneCall
  <2> QED BY <2>2, TreeIs DEF Crash
<1>10. /\ Request(t).op = Me(t).op /\ Request(t).path = Me(t).path
       /\ Request(t).first = Me(t).first /\ Request(t).size = Me(t).size
       /\ Asks[t] = Request(t)
  BY DEF Request, At, Me, Asks
<1>11. Files!Die(t)
  <2>1. UNCHANGED <<reply, errno>> /\ Running' = FALSE
    BY <1>7 DEF Crash, Running
  <2>2. \/ /\ Asks[t].op = "write" /\ Files!IsFile(Asks[t].path) /\ Len(Asks[t].path) = 1
           /\ Len(TreeNow[Asks[t].path].log) = MaxBlocks \/ Asks[t].size > BlockSize
        \/ Asks[t].op = "read" /\ Asks[t].size > 1
              /\ Asks[t].first + Asks[t].size > Len(Files!Reached(Asks[t].path))
        \/ Asks[t].op = "truncate" /\ ~ Files!Exists(Asks[t].path)
        \/ Asks[t].op \in {"mknod", "mkdir"} /\ Asks[t].path \in LongPaths
        \/ Asks[t].op \notin Files!NoCopy
              /\ \E i \in DOMAIN Asks[t].path : Asks[t].path[i] \in LongNames
    BY <1>10 DEF Fatal
  <2> QED BY <2>1, <2>2, <1>7, <1>8, <1>9 DEF Files!Die, Asks, Running, TreeNow
<1> QED BY <1>6, <1>11 DEF FileStep, Files!LogNext

LEMMA Deeper ==
  ASSUME NEW nodes, NEW rest, NEW token, NEW cur,
         NEW path \in Seq(Names), NEW k \in 0 .. Len(path),
         Scan(rest, token, path, k), cur = ResolveIn(nodes, SubSeq(path, 1, k)), token # NoToken,
         cur # Nothing
  PROVE  ChildIn(nodes, cur, token) = ResolveIn(nodes, SubSeq(path, 1, k + 1))
<1>1. k \in 0 .. Len(path) - 1 /\ k + 1 \in 0 .. Len(path) /\ token = path[k + 1]
  BY ScanNext
<1>2. ChildIn(nodes, cur, token) = ResolveIn(nodes, SubSeq(path, 1, k + 1))
  BY <1>1, Further
<1> QED BY <1>1, <1>2

LEMMA Deepens ==
  ASSUME NEW nodes, IsForest(nodes), Nothing \notin DOMAIN nodes, NEW rest, NEW c, NEW d,
         NEW path \in Seq(Names), NEW k \in 0 .. Len(path),
         Descent(nodes, rest, c, path, k), c.token # NoToken, c.cur \in DOMAIN nodes,
         d.token = First(rest), d.cur = ChildIn(nodes, c.cur, c.token)
  PROVE  k + 1 \in 0 .. Len(path) /\ Descent(nodes, Rest(rest), d, path, k + 1)
<1>1. Scan(rest, c.token, path, k) /\ c.cur = ResolveIn(nodes, SubSeq(path, 1, k))
      /\ c.cur # Nothing
  BY DEF Descent
<1>2. ChildIn(nodes, c.cur, c.token) = ResolveIn(nodes, SubSeq(path, 1, k + 1))
  BY <1>1, Deeper
<1>3. Scan(Rest(rest), First(rest), path, k + 1) /\ k + 1 \in 0 .. Len(path)
  BY <1>1, ScanNext
<1> QED BY <1>2, <1>3 DEF Descent

LEMMA HeadIs ==
  ASSUME NEW path \in Seq(Names), path # <<>>
  PROVE  /\ <<Head(path)>> \in Seq(Names) /\ Len(<<Head(path)>>) = 1
         /\ SubSeq(path, 1, 1) = <<Head(path)>> /\ 1 \in 0 .. Len(path)
         /\ (Len(path) = 1 => <<Head(path)>> = path)
<1>1. Len(path) \in Nat /\ Len(path) >= 1 /\ Head(path) = path[1] /\ path[1] \in Names
  OBVIOUS
<1> DEFINE s == SubSeq(path, 1, 1)
           h == <<Head(path)>>
<1>2. s \in Seq(Names) /\ Len(s) = 1 /\ s[1] = path[1]
  BY <1>1
<1>3. h \in Seq(Names) /\ Len(h) = 1 /\ h[1] = path[1]
  BY <1>1
<1> HIDE DEF s, h
<1>4. s = h
  BY <1>2, <1>3, SeqEqual
<1>5. Len(path) = 1 => h = path
  BY <1>1, <1>3, SeqEqual
<1> QED BY <1>1, <1>3, <1>4, <1>5 DEF s, h

\* What has been looked up to the end.
LEMMA Arrived ==
  ASSUME NEW nodes, NEW rest, NEW c, NEW path \in Seq(Names), NEW k \in 0 .. Len(path),
         Descent(nodes, rest, c, path, k), c.token = NoToken
  PROVE  k = Len(path) /\ c.cur = ResolveIn(nodes, path)
<1>1. k = Len(path)
  BY ScanEnd DEF Descent
<1> QED BY <1>1, WholeIs DEF Descent
LEMMA RequestIs ==
  ASSUME NEW t \in Threads, call[t].phase # "idle"
  PROVE  Request(t) = [op |-> call[t].op, path |-> call[t].path, data |-> call[t].data[1],
                       first |-> call[t].first, size |-> call[t].size]
BY DEF Request, At, Me

LEMMA Believes ==
  ASSUME OneThread, FileInv, NEW t \in Threads, NEW e, Believe(t, e)
  PROVE  cached' \subseteq Range(Renames)
<1>1. cached \subseteq Range(Renames) /\ (Me(t).op = "rename" => Me(t).path \in DOMAIN Renames)
  BY Context DEF Call, Me
<1>2. Me(t).op = "rename" => Renames[Me(t).path] \in Range(Renames)
  BY <1>1 DEF Range
<1>3. CASE Me(t).op = "rename"
  BY <1>1, <1>2, <1>3 DEF Believe
<1>4. CASE Me(t).op # "rename"
  BY <1>1, <1>4 DEF Believe
<1> QED BY <1>3, <1>4

LEMMA Returns ==
  ASSUME OneThread, FileInv, NEW t \in Threads, NEW e, Return(t, e), UNCHANGED changes,
         Tree(node', store', {}), call[t].phase \notin {"idle", "crashed"},
         call[t].op # "ftruncate", e \in Files!Replies(t, Request(t)), Done(t)
  PROVE  FileInv' /\ FileStep
<1>1. cached' \subseteq Range(Renames)
  BY Believes DEF Return
<1>2. saved' \in Seq(Names)
  BY Context DEF Return
<1> QED BY <1>1, <1>2, Answers DEF Return, Me

LEMMA TreeSame ==
  ASSUME OneThread, NEW t \in Threads, NEW c, UNCHANGED <<node, store>>, 
         call'[t] = c, Writes(c) = Writes(call[t]), Writes(c) = {} \/ c.size = call[t].size
  PROVE  TreeNow' = TreeNow
<1>1. SameSize /\ Written' = Written
  BY OneCall
<1> QED BY <1>1, TreeIs

\* An answer with which nothing changes.
LEMMA Tells ==
  ASSUME OneThread, FileInv, NEW t \in Threads, NEW e, Return(t, e),
         UNCHANGED <<node, store, changes>>, Writes(call[t]) = {},
         call[t].phase \notin {"idle", "crashed"},
         \/ call[t].op \in Reads \cup {"rename"}
         \/ call[t].op = "write" /\ ~ (FileAt(node, call[t].path) /\ Len(call[t].path) = 1),
         e \in Files!Replies(t, Request(t))
  PROVE  FileInv' /\ FileStep
<1>1. Tree(node', store', {}) /\ DOMAIN call = Threads
  <2>1. Tree(node, store, Writes(call[t]))
    BY Context
  <2>2. node' = node /\ store' = store /\ Writes(call[t]) = {}
    OBVIOUS
  <2>3. Tree(node', store', {})
    BY ONLY <2>1, <2>2
  <2> QED BY <2>3 DEF FileInv
<1>2. TreeNow' = TreeNow
  <2>1. call'[t] = Quiet /\ Writes(Quiet) = {}
    BY <1>1, TreeHas, QuietIs DEF Return
  <2> QED BY <2>1, TreeSame
<1>3. Done(t) /\ call[t].op # "ftruncate"
  <2>1. CASE call[t].op \in Reads \cup {"rename"}
    BY <2>1, <1>2 DEF Done, Me, Reads, Listings
  <2>2. CASE call[t].op = "write" /\ ~ (FileAt(node, call[t].path) /\ Len(call[t].path) = 1)
    <3>1. ~ (Files!IsFile(call[t].path) /\ Len(call[t].path) = 1)
      <4>1. call[t].path \in Paths \cup {<<>>}
        BY Context
      <4>2. Files!IsFile(call[t].path) <=> FileAt(node, call[t].path)
        BY <4>1, Seen, SMTT(30)
      <4> QED BY <2>2, <4>2, Zenon
    <3>2. Files!AppendBlock(call[t].path, call[t].data[1], call[t].size)
      BY <3>1, <1>2 DEF Files!AppendBlock, TreeNow
    <3> QED BY <3>2, <2>2 DEF Done, Me
  <2> QED BY <2>1, <2>2
<1> QED BY <1>1, <1>3, Returns

\* A name of the path, on the way or the first, does not fit where it is copied.
LEMMA CopyingToken ==
  ASSUME OneThread, FileInv, NEW t \in Threads, CopyToken(t), UNCHANGED changes
  PROVE  FileInv' /\ FileStep
<1> DEFINE c == call[t]
<1>1. c.phase \in {"check", "recheck"} /\ c.token \in LongNames /\ Crash
  BY DEF CopyToken, At, Me
<1>2. c.token # NoToken
  BY <1>1, FileSystemAssumption
<1>3. Call(node, store, saved, c) /\ c.path \in Seq(Names) /\ c.path \in Paths \cup {<<>>}
  BY Context
<1>4. c.op \in Reads \cup {"truncate", "write"} /\ \E i \in DOMAIN c.path : c.path[i] = c.token
  <2>1. CASE c.phase = "check"
    <3>1. Checking(node, saved, c)
      BY <1>3, <2>1 DEF Call
    <3>2. PICK k \in 0 .. Len(c.path) : Scan(saved, c.token, c.path, k)
      BY <3>1 DEF Checking, Descent
    <3>3. k \in 0 .. Len(c.path) - 1 /\ c.token = c.path[k + 1]
      BY <3>2, <1>2, <1>3, ScanNext
    <3>4. k + 1 \in DOMAIN c.path
      BY <3>3, <1>3
    <3> QED BY <3>1, <3>3, <3>4 DEF Checking
  <2>2. CASE c.phase = "recheck"
    <3> DEFINE p == <<Head(c.path)>>
    <3>1. Rechecking(node, saved, c) /\ c.op \in {"read", "write"}
      BY <1>3, <2>2 DEF Call, Rechecking
    <3>2. c.path # <<>> /\ Len(c.path) \in Nat \ {0}
      BY <1>3, <3>1 DEF Call, Listings
    <3>3. p \in Seq(Names) /\ Len(p) = 1 /\ p[1] = c.path[1]
      BY <1>3, <3>2, HeadIs
    <3>4. PICK k \in 0 .. 1 : Scan(saved, c.token, p, k)
      BY <3>1 DEF Rechecking, Descent
    <3> HIDE DEF p
    <3>5. k \in 0 .. Len(p) - 1 /\ c.token = p[k + 1]
      BY <3>3, <3>4, <1>2, ScanNext
    <3>6. k = 0
      BY <3>3, <3>5
    <3>7. 1 \in DOMAIN c.path /\ c.path[1] = c.token
      BY <1>3, <3>2, <3>3, <3>5, <3>6
    <3> QED BY <3>1, <3>7 DEF Reads
  <2> QED BY <1>1, <2>1, <2>2
<1>5. Fatal(t)
  <2>1. c.op \notin Files!NoCopy
    BY <1>4 DEF Files!NoCopy, Reads, Listings
  <2>2. \E i \in DOMAIN c.path : c.path[i] \in LongNames
    BY <1>1, <1>4
  <2> QED BY <2>1, <2>2 DEF Fatal, Me
<1> QED BY <1>1, <1>2, <1>5, Dies

\* The look-up: one name further, nothing found, or the end.
LEMMA Looking ==
  ASSUME OneThread, FileInv, NEW t \in Threads, Lookup(t), UNCHANGED changes
  PROVE  FileInv' /\ FileStep
<1> DEFINE c == call[t]
           child == ChildIn(node, c.cur, c.token)
<1>1. /\ c.phase \in {"check", "recheck"} /\ c.token # NoToken /\ UNCHANGED <<node, store, changes>>
      /\ child # Nothing => Advance(t, [c EXCEPT !.cur = child])
      /\ child = Nothing /\ (c.op = "truncate" \/ c.phase = "recheck") => Crash
      /\ child = Nothing /\ c.op # "truncate" /\ c.phase # "recheck" =>
           Return(t, Code(IF c.op \in {"read", "write"} THEN "error" ELSE "ENOENT"))
  BY ChildIs DEF Lookup, At, Me
<1>2. /\ c \in CallRecord /\ c.cur \in DOMAIN node /\ c.path \in Seq(Names) /\ saved \in Seq(Names)
      /\ Call(node, store, saved, c) /\ Tree(node, store, Writes(c)) /\ c.path \in Paths \cup {<<>>}
      /\ IsForest(node) /\ Nothing \notin DOMAIN node
  BY Context
<1>3. Writes(c) = {}
  BY <1>1 DEF Writes
<1>0. /\ IsForest(node) /\ Nothing \notin DOMAIN node /\ c.cur \in DOMAIN node
      /\ c.token # NoToken /\ c.path \in Seq(Names)
  BY <1>1, <1>2
<1>4. child \in DOMAIN node \/ child = Nothing
  BY <1>2, IndexFound
<1>5. CASE child # Nothing
  <2> DEFINE d == [[c EXCEPT !.cur = child] EXCEPT !.token = First(saved)]
  <2>1. /\ call' = [call EXCEPT ![t] = d] /\ saved' = Rest(saved) /\ UNCHANGED <<reply, errno, cached>>
    BY <1>1, <1>5 DEF Advance
  <2>2. First(saved) \in Names \cup {NoToken} /\ Rest(saved) \in Seq(Names)
    BY <1>2, Tokens
  <2>3. child \in DOMAIN node /\ child \in Nat
    BY <1>4, <1>5, <1>2 DEF IsForest
  <2>4. /\ d \in CallRecord /\ d.phase = c.phase /\ d.op = c.op /\ d.path = c.path /\ d.data = c.data
        /\ d.first = c.first /\ d.size = c.size /\ d.parent = c.parent
        /\ d.cur = child /\ d.token = First(saved)
    BY <1>2, <2>2, <2>3 DEF CallRecord
  <2> HIDE DEF d
  <2>5. Writes(d) = {}
    BY <1>1, <2>4 DEF Writes
  <2>6. c.phase = "check" => Checking(node, saved', d)
    <3> SUFFICES ASSUME c.phase = "check" PROVE Checking(node, saved', d)
      OBVIOUS
    <3>1. Checking(node, saved, c)
      BY <1>2 DEF Call
    <3>2. PICK k \in 0 .. Len(c.path) : Descent(node, saved, c, c.path, k)
      BY <3>1 DEF Checking
    <3>3. k + 1 \in 0 .. Len(c.path) /\ Descent(node, saved', d, c.path, k + 1)
      BY <3>2, <1>1, <1>2, <2>1, <2>4, Deepens
    <3> QED BY <3>1, <3>3, <2>4 DEF Checking, InRange
  <2>7. c.phase = "recheck" => Rechecking(node, saved', d)
    <3> SUFFICES ASSUME c.phase = "recheck" PROVE Rechecking(node, saved', d)
      OBVIOUS
    <3>1. Rechecking(node, saved, c)
      BY <1>2 DEF Call
    <3>2. PICK k \in 0 .. 1 : Descent(node, saved, c, <<Head(c.path)>>, k)
      BY <3>1 DEF Rechecking
    <3>3. c.path # <<>>
      BY <1>2, <3>1 DEF Rechecking, Call, Listings
    <3>4. <<Head(c.path)>> \in Seq(Names) /\ Len(<<Head(c.path)>>) = 1
      BY <3>3, <1>2
    <3> DEFINE p == <<Head(c.path)>>
    <3> HIDE DEF p
    <3>5. k + 1 \in 0 .. Len(p) /\ Descent(node, saved', d, p, k + 1)
      <4>1. p \in Seq(Names) /\ k \in 0 .. Len(p) /\ Descent(node, saved, c, p, k)
        BY <3>2, <3>4 DEF p
      <4> QED BY <4>1, <1>1, <1>2, <2>1, <2>4, Deepens
    <3> QED BY <3>1, <3>4, <3>5, <2>4 DEF Rechecking, InRange, p
  <2>8. Call(node, store, saved', d)
    BY <1>1, <1>2, <2>3, <2>4, <2>6, <2>7 DEF Call
  <2>9. Tree(node', store', Writes(d)) /\ Call(node', store', saved', d)
        /\ TreeIn(node', store', Writes(d)) = TreeIn(node, store, Writes(c)) /\ saved' \in Seq(Names)
    BY <1>1, <1>2, <1>3, <2>1, <2>2, <2>5, <2>8
  <2> QED BY <2>1, <2>4, <2>9, <1>1, Goes
<1>6. CASE child = Nothing /\ c.phase = "recheck"
  <2>1. Rechecking(node, saved, c)
    BY <1>2, <1>6 DEF Call
  <2>2. PICK k \in 0 .. 1 : Descent(node, saved, c, <<Head(c.path)>>, k)
    BY <2>1 DEF Rechecking
  <2>3. c.path # <<>> /\ ResolveIn(node, c.path) # Nothing
    BY <1>2, <2>1 DEF Rechecking, Call, Listings, FileAt
  <2>4. <<Head(c.path)>> \in Seq(Names) /\ Len(<<Head(c.path)>>) = 1
        /\ SubSeq(c.path, 1, 1) = <<Head(c.path)>> /\ 1 \in 0 .. Len(c.path)
    BY <2>3, <1>2, HeadIs
  <2>5. ChildIn(node, c.cur, c.token) = ResolveIn(node, SubSeq(c.path, 1, 1))
    <3> DEFINE p == <<Head(c.path)>>
    <3>1. p \in Seq(Names) /\ Len(p) = 1 /\ k \in 0 .. Len(p) /\ Descent(node, saved, c, p, k)
          /\ SubSeq(c.path, 1, 1) = p
      BY <2>2, <2>4
    <3> HIDE DEF p, c, child
    <3>0. Scan(saved, c.token, p, k) /\ c.cur = ResolveIn(node, SubSeq(p, 1, k)) /\ c.cur # Nothing
          /\ c.token # NoToken
      BY <3>1, <1>0 DEF Descent
    <3>2. ChildIn(node, c.cur, c.token) = ResolveIn(node, SubSeq(p, 1, k + 1))
      <4> DEFINE token == c.token
                 cur == c.cur
      <4>1. p \in Seq(Names) /\ k \in 0 .. Len(p)
        BY <3>1
      <4>2. /\ Scan(saved, token, p, k) /\ cur = ResolveIn(node, SubSeq(p, 1, k))
            /\ token # NoToken /\ cur # Nothing
        BY <3>0
      <4> HIDE DEF token, cur
      <4>3. ChildIn(node, cur, token) = ResolveIn(node, SubSeq(p, 1, k + 1))
        BY ONLY <4>1, <4>2, Deeper
      <4> QED BY <4>3 DEF token, cur
    <3>3. SubSeq(p, 1, 1) = p
      BY <3>1
    <3>4. k = 0
      <4>1. k < Len(p)
        BY <3>0, <3>1, ScanOn
      <4> QED BY <4>1, <3>1
    <3>5. SubSeq(p, 1, 1) = SubSeq(c.path, 1, 1)
      BY <3>1, <3>3
    <3>6. k + 1 = 1
      BY <3>4
    <3> QED BY <3>2, <3>5, <3>6
  <2>6. ResolveIn(node, SubSeq(c.path, 1, 1)) # Nothing
    BY <2>3, <2>4, <1>2, Beginnings
  <2> QED BY <1>6, <2>5, <2>6
<1>7. CASE child = Nothing /\ c.phase = "check"
  <2>1. Checking(node, saved, c)
    BY <1>2, <1>7 DEF Call
  <2>2. PICK k \in 0 .. Len(c.path) : Descent(node, saved, c, c.path, k)
    BY <2>1 DEF Checking
  <2>3. k + 1 \in 0 .. Len(c.path) /\ ResolveIn(node, SubSeq(c.path, 1, k + 1)) = Nothing
    <3>0. /\ Scan(saved, c.token, c.path, k) /\ c.cur = ResolveIn(node, SubSeq(c.path, 1, k))
          /\ c.cur # Nothing
      BY <2>2, <1>0 DEF Descent
    <3>1. ChildIn(node, c.cur, c.token) = ResolveIn(node, SubSeq(c.path, 1, k + 1))
      BY <3>0, <1>0, Deeper
    <3>2. k + 1 \in 0 .. Len(c.path)
      BY <3>0, <1>0, ScanNext
    <3> QED BY <3>1, <3>2, <1>7
  <2>4. ResolveIn(node, c.path) = Nothing
    BY <2>3, <1>2, Beginnings
  <2>5. ~ Files!Exists(c.path) /\ ~ Files!IsFile(c.path)
    BY <2>4, <1>2, Seen DEF FileAt
  <2>6. CASE c.op = "truncate"
    <3>1. Crash
      BY <1>1, <1>7, <2>6
    <3>2. Fatal(t)
      BY <2>5, <2>6 DEF Fatal, Me
    <3> QED BY <3>1, <3>2, <2>6, <1>1, Dies
  <2>7. CASE c.op # "truncate"
    <3> DEFINE e == Code(IF c.op \in {"read", "write"} THEN "error" ELSE "ENOENT")
    <3>1. Return(t, e)
      BY <1>1, <1>7, <2>7
    <3>2. c.op \in Reads \cup {"write"}
      BY <2>1, <2>7 DEF Checking
    <3>3. /\ Request(t).op = c.op /\ Request(t).path = c.path
      BY <1>1, RequestIs
    <3>4. e \in Files!Replies(t, Request(t))
      <4>0. ~ Files!Exists(Request(t).path) /\ ~ Files!IsFile(Request(t).path)
        BY <2>5, <3>3
      <4>1. /\ Code("error") = Files!Code("error") /\ Code("ENOENT") = Files!Code("ENOENT")
        BY DEF Code, Answer, Files!Code
      <4>2. CASE c.op \in {"read", "write"}
        BY <4>0, <4>1, <4>2, <3>3 DEF Files!Replies
      <4>3. CASE c.op \in {"getattr", "open", "opendir"}
        BY <4>0, <4>1, <4>3, <3>3 DEF Files!Replies, Files!Known
      <4>4. CASE c.op = "readdir"
        <5>0. TreeNow[c.path] = EntryIn(node, store, Writes(call[t]), ResolveIn(node, c.path))
          BY <1>2, Seen
        <5>1. TreeNow[c.path].kind = "nothing"
          BY <5>0, <2>4 DEF EntryIn
        <5> QED BY <4>0, <4>1, <4>4, <5>1, <3>3 DEF Files!Replies, Files!Known, TreeNow
      <4> QED BY <4>2, <4>3, <4>4, <3>2 DEF Reads, Listings
    <3> HIDE DEF e
    <3>5. call[t].op \in Reads \cup {"rename"} \/ (call[t].op = "write" /\ ~ (FileAt(node, call[t].path) /\ Len(call[t].path) = 1))
      BY <3>2, <2>4 DEF FileAt
    <3> QED BY <3>1, <3>4, <3>5, <1>1, <1>3, Tells
  <2> QED BY <2>6, <2>7
<1> QED BY <1>1, <1>5, <1>6, <1>7
-----------------------------------------------------------------------------
(* getattr, open, opendir and readdir                                      *)

LEMMA FoundAt ==
  ASSUME OneThread, FileInv, NEW t \in Threads, NEW ops, Found(t, ops)
  PROVE  /\ call[t].phase = "check" /\ call[t].op \in ops /\ Writes(call[t]) = {}
         /\ call[t].cur = ResolveIn(node, call[t].path) /\ call[t].cur \in DOMAIN node
         /\ call[t].cur # Nothing
         /\ InRange(node, call[t])
         /\ TreeNow[call[t].path] = EntryIn(node, store, {}, call[t].cur)
         /\ Files!Exists(call[t].path) /\ (Files!IsFile(call[t].path) <=> ~ node[call[t].cur].dir)
<1>1. call[t].phase = "check" /\ call[t].op \in ops /\ call[t].token = NoToken
  BY DEF Found, At, Me
<1>2. Writes(call[t]) = {}
  BY <1>1 DEF Writes
<1>3. /\ Call(node, store, saved, call[t]) /\ call[t].path \in Seq(Names)
      /\ call[t].path \in Paths \cup {<<>>} /\ call[t].cur \in DOMAIN node /\ Nothing \notin DOMAIN node
  BY Context
<1>4. Checking(node, saved, call[t])
  BY <1>1, <1>3 DEF Call
<1>5. PICK k \in 0 .. Len(call[t].path) : Descent(node, saved, call[t], call[t].path, k)
  BY <1>4 DEF Checking
<1>6. call[t].cur = ResolveIn(node, call[t].path)
  BY <1>1, <1>3, <1>5, Arrived
<1>7. InRange(node, call[t])
  BY <1>4 DEF Checking
<1>8. call[t].cur # Nothing
  BY <1>3
<1>9. TreeNow[call[t].path] = EntryIn(node, store, {}, call[t].cur)
  BY <1>2, <1>3, <1>6, Seen
<1>10. Files!Exists(call[t].path) /\ (Files!IsFile(call[t].path) <=> ~ node[call[t].cur].dir)
  BY <1>3, <1>6, <1>8, Seen DEF FileAt
<1> QED BY <1>1, <1>2, <1>3, <1>6, <1>7, <1>8, <1>9, <1>10

LEMMA FoundTree ==
  ASSUME OneThread, FileInv, NEW t \in Threads, NEW ops, Found(t, ops)
  PROVE  TreeNow[call[t].path] = EntryIn(node, store, {}, call[t].cur)
BY FoundAt

LEMMA NodeIs ==
  ASSUME OneThread, FileInv, NEW n \in DOMAIN node
  PROVE  node[n] \in NodeRecord
<1>1. node \in Seq(NodeRecord)
  BY DEF FileInv, Tree, Shaped
<1> QED BY <1>1

LEMMA CodeIs == \A x : Code(x) = Files!Code(x)
BY DEF Code, Answer, Files!Code

\* getattr tells kind and size of what is there.
LEMMA Getting ==
  ASSUME OneThread, FileInv, NEW t \in Threads, Getattr(t), UNCHANGED changes
  PROVE  FileInv' /\ FileStep
<1> DEFINE c == call[t]
           n == node[c.cur]
           e == Answer(IF n.dir THEN "directory" ELSE "file", n.size, <<>>)
<1>1. Found(t, {"getattr"}) /\ Return(t, e) /\ UNCHANGED <<node, store, changes>>
  BY DEF Getattr, Me
<1>2. /\ c.phase = "check" /\ c.op = "getattr" /\ Writes(c) = {} /\ Files!Exists(c.path)
      /\ c.cur # Nothing /\ c.cur \in DOMAIN node
  BY <1>1, FoundAt
<1>20. TreeNow[c.path] = EntryIn(node, store, {}, c.cur)
  BY <1>1, FoundTree
<1>3. Request(t).op = c.op /\ Request(t).path = c.path
  BY <1>2, RequestIs
<1>4. Files!Replies(t, Request(t)) =
        {[Files!Code(TreeNow[c.path].kind) EXCEPT !.size = TreeNow[c.path].size]}
  BY <1>2, <1>3 DEF Files!Replies, Files!Known, TreeNow
<1>5. e = [Files!Code(TreeNow[c.path].kind) EXCEPT !.size = TreeNow[c.path].size]
  <2>1. TreeNow[c.path].kind = (IF n.dir THEN "directory" ELSE "file")
        /\ TreeNow[c.path].size = IF n.dir THEN n.size ELSE n.size - 0
    BY <1>2, <1>20 DEF EntryIn
  <2>2. n.size - 0 = n.size
    <3>1. n \in NodeRecord
      BY <1>2, NodeIs
    <3>2. n.size \in Int
      BY <3>1 DEF NodeRecord
    <3> QED BY <3>2
  <2> QED BY <2>1, <2>2 DEF Answer, Files!Code
<1>6. e \in Files!Replies(t, Request(t)) /\ c.op \in Reads
  BY <1>2, <1>4, <1>5 DEF Reads
<1> HIDE DEF e
<1> QED BY <1>1, <1>2, <1>6, Tells

\* open and opendir tell whether it is of their kind.
LEMMA Opening ==
  ASSUME OneThread, FileInv, NEW t \in Threads, Open(t) \/ Opendir(t), UNCHANGED changes
  PROVE  FileInv' /\ FileStep
<1> DEFINE c == call[t]
           dir == node[c.cur].dir
           e == Code(IF c.op = "open" THEN IF dir THEN "error" ELSE "ok"
                     ELSE IF dir THEN "ok" ELSE "ENOTDIR")
<1>1. Found(t, {"open", "opendir"}) /\ Return(t, e) /\ UNCHANGED <<node, store, changes>>
  <2>1. CASE Open(t)
    BY <2>1 DEF Open, Found, Me
  <2>2. CASE Opendir(t)
    BY <2>2 DEF Opendir, Found, Me
  <2> QED BY <2>1, <2>2
<1>2. /\ c.phase = "check" /\ c.op \in {"open", "opendir"} /\ Writes(c) = {} /\ Files!Exists(c.path)
      /\ (Files!IsFile(c.path) <=> ~ dir)
  BY <1>1, FoundAt
<1>3. Request(t).op = c.op /\ Request(t).path = c.path
  BY <1>2, RequestIs
<1>4. e \in Files!Replies(t, Request(t))
  <2>1. CASE c.op = "open"
    <3>1. Files!Replies(t, Request(t)) = {Files!Code(IF Files!IsFile(c.path) THEN "ok" ELSE "error")}
      BY <2>1, <1>2, <1>3 DEF Files!Replies, Files!Known
    <3> QED BY <2>1, <3>1, <1>2, CodeIs
  <2>2. CASE c.op = "opendir"
    <3>1. Files!Replies(t, Request(t)) = {Files!Code(IF Files!IsFile(c.path) THEN "ENOTDIR" ELSE "ok")}
      BY <2>2, <1>2, <1>3 DEF Files!Replies, Files!Known
    <3> QED BY <2>2, <3>1, <1>2, CodeIs
  <2> QED BY <1>2, <2>1, <2>2
<1>5. c.op \in Reads
  BY <1>2 DEF Reads, Listings
<1> HIDE DEF e
<1> QED BY <1>1, <1>2, <1>4, <1>5, Tells

\* Calls that bbfs.c answers without a look.
LEMMA Acknowledging ==
  ASSUME OneThread, FileInv, NEW t \in Threads, Acknowledge(t) \/ Ftruncate(t), UNCHANGED changes
  PROVE  FileInv' /\ FileStep
<1> DEFINE c == call[t]
<1>1. c.phase = "answer" /\ UNCHANGED <<node, store, changes>>
  BY DEF Acknowledge, Ftruncate, At, Me
<1>2. Call(node, store, saved, c) /\ Tree(node, store, Writes(c)) /\ saved \in Seq(Names)
      /\ cached \subseteq Range(Renames)
  BY Context
<1>3. c.op \in NoLookup /\ Writes(c) = {}
  BY <1>1, <1>2 DEF Call, Writes
<1>4. Request(t).op = c.op
  BY <1>1, RequestIs
<1>5. CASE Acknowledge(t)
  <2>1. c.op = "rename" /\ Return(t, Code("ok"))
    BY <1>3, <1>5 DEF Acknowledge, NoLookup, Me
  <2>2. Code("ok") \in Files!Replies(t, Request(t))
    BY <1>4, <2>1, CodeIs DEF Files!Replies
  <2> QED BY <1>1, <1>3, <2>1, <2>2, Tells
<1>6. CASE Ftruncate(t)
  <2>1. /\ c.op = "ftruncate" /\ call' = [call EXCEPT ![t] = Quiet]
        /\ reply' = [reply EXCEPT ![t] = Code("errno")] /\ errno' = errno \cup {t}
        /\ UNCHANGED <<saved, cached>>
    BY <1>6 DEF Ftruncate, Me
  <2>2. Code("errno") \in Files!Replies(t, Request(t))
    BY <1>4, <2>1, CodeIs DEF Files!Replies
  <2>3. Tree(node', store', {}) /\ saved' \in Seq(Names) /\ cached' \subseteq Range(Renames)
    BY <1>1, <1>2, <1>3, <2>1
  <2>4. Done(t)
    <3>1. call'[t] = Quiet /\ Writes(Quiet) = {}
      BY <2>1, <1>2, TreeHas, QuietIs DEF FileInv
    <3>2. TreeNow' = TreeNow
      BY <1>1, <1>3, <3>1, TreeSame
    <3> QED BY <2>1, <3>2 DEF Done, Me
  <2> QED BY <1>1, <2>1, <2>2, <2>3, <2>4, Answers DEF Me
<1> QED BY <1>5, <1>6
LEMMA AppendEnds ==
  ASSUME NEW p \in Seq(Names), NEW x \in Names
  PROVE  /\ Append(p, x) \in Seq(Names) /\ Append(p, x) # <<>>
         /\ Front(Append(p, x)) = p /\ Last(Append(p, x)) = x
<1> DEFINE q == Append(p, x)
<1>1. q \in Seq(Names) /\ Len(p) \in Nat /\ Len(q) = Len(p) + 1
      /\ (\A i \in 1 .. Len(p) : q[i] = p[i]) /\ q[Len(p) + 1] = x
  BY AppendIs
<1> HIDE DEF q
<1>2. q # <<>>
  BY <1>1
<1>3. /\ Front(q) \in Seq(Names) /\ Len(Front(q)) = Len(q) - 1
      /\ \A i \in 1 .. Len(q) - 1 : Front(q)[i] = q[i]
      /\ Last(q) = q[Len(q)]
  BY <1>1, <1>2, Parts
<1>4. Last(q) = x
  BY <1>1, <1>3
<1>5. Front(q) = p
  <2>1. Len(Front(q)) = Len(p) /\ \A i \in 1 .. Len(p) : Front(q)[i] = p[i]
    BY <1>1, <1>3
  <2> QED BY <2>1, <1>3, SeqEqual
<1> QED BY <1>1, <1>2, <1>4, <1>5 DEF q

\* The names that readdir lists are those behind the path, in some order.
LEMMA NamesListed ==
  ASSUME OneThread, FileInv, NEW t \in Threads, NEW p \in Paths \cup {<<>>},
         NEW n \in DOMAIN node, n = ResolveIn(node, p), n # Nothing
  PROVE  [i \in DOMAIN node[n].files |-> node[node[n].files[i]].name]
           \in Files!SetToSeqs({Files!Last(q) : q \in Files!Children(p)})
<1> DEFINE kids == node[n].files
           names == [i \in DOMAIN kids |-> node[kids[i]].name]
           S == {Files!Last(q) : q \in Files!Children(p)}
           m == Len(kids)
<1>1. /\ IsForest(node) /\ Tree(node, store, Writes(call[t])) /\ p \in Seq(Names)
      /\ Nothing \notin DOMAIN node
  BY Context, PathsAre
<1>2. kids \in Seq(DOMAIN node) /\ m \in Nat /\ DOMAIN kids = 1 .. m
  BY <1>1 DEF IsForest, Kids
<1>3. \A q : q \in Files!Children(p) <=>
        q \in Paths /\ ResolveIn(node, q) # Nothing /\ q # <<>> /\ Front(q) = p
  <2>1. \A q \in Paths : Files!Exists(q) <=> ResolveIn(node, q) # Nothing
    BY Seen
  <2>2. \A q : Files!Front(q) = Front(q)
    BY DEF Files!Front, Front
  <2>3. Files!Children(p) = {q \in Paths : Files!Exists(q) /\ q # <<>> /\ Files!Front(q) = p}
    BY DEF Files!Children
  <2> QED BY <2>1, <2>2, <2>3
<1>4. \A q : Files!Last(q) = Last(q)
  BY DEF Files!Last, Last
<1>5. S = {Last(q) : q \in Files!Children(p)}
  BY <1>4
<1>6. ASSUME NEW i \in DOMAIN kids PROVE names[i] \in S
  <2> DEFINE x == node[kids[i]].name
             q == Append(p, x)
  <2>1. q \in Paths
    BY <1>1 DEF Tree, Charted
  <2>2. x \in Names
    BY <1>1 DEF Tree, Shaped
  <2>3. q \in Seq(Names) /\ q # <<>> /\ Front(q) = p /\ Last(q) = x
    BY <1>1, <2>2, AppendEnds
  <2> HIDE DEF q
  <2>4. ResolveIn(node, q) = ChildIn(node, n, x)
    BY <2>3, ResolveStep
  <2>5. ChildIn(node, n, x) = kids[i] /\ kids[i] \in DOMAIN node
    <3>1. i \in DOMAIN Kids(node, n)
      BY DEF Kids
    <3> QED BY <3>1, <1>1, <1>2, ChildNamed DEF Kids
  <2>6. q \in Files!Children(p)
    BY <2>1, <2>3, <2>4, <2>5, <1>1, <1>3
  <2>7. names[i] = x
    OBVIOUS
  <2> QED BY <2>3, <2>6, <2>7, <1>5
<1>7. ASSUME NEW q \in Files!Children(p) PROVE \E i \in DOMAIN kids : names[i] = Last(q)
  <2>1. q \in Paths /\ q # <<>> /\ ResolveIn(node, q) # Nothing /\ Front(q) = p
    BY <1>3
  <2>2. q \in Seq(Names)
    BY <2>1, PathsAre
  <2>3. /\ \E i \in DOMAIN Kids(node, ResolveIn(node, Front(q))) :
             ResolveIn(node, q) = Kids(node, ResolveIn(node, Front(q)))[i]
        /\ node[ResolveIn(node, q)].name = Last(q)
    BY <1>1, <2>1, <2>2, Parent
  <2>4. PICK i \in DOMAIN kids : ResolveIn(node, q) = kids[i]
    BY <2>1, <2>3 DEF Kids
  <2> QED BY <2>3, <2>4
<1>8. ASSUME NEW i \in DOMAIN kids, NEW j \in DOMAIN kids, names[i] = names[j] PROVE i = j
  <2>1. node[kids[i]].name = node[kids[j]].name
    BY <1>8
  <2> QED BY <2>1, <1>1 DEF IsForest, Kids
<1> HIDE DEF S, kids
<1>9. names \in [1 .. m -> S] /\ \A i, j \in 1 .. m : names[i] = names[j] => i = j
  <2>1. \A i \in 1 .. m : names[i] \in S
    BY <1>2, <1>6
  <2>2. \A i, j \in 1 .. m : names[i] = names[j] => i = j
    <3> SUFFICES ASSUME NEW i \in 1 .. m, NEW j \in 1 .. m, names[i] = names[j] PROVE i = j
      OBVIOUS
    <3> QED BY <1>2, <1>8
  <2>3. DOMAIN names = 1 .. m /\ names = [i \in 1 .. m |-> names[i]]
    BY <1>2
  <2> HIDE DEF names
  <2> QED BY <2>1, <2>2, <2>3
<1>10. \A x \in S : \E i \in 1 .. m : names[i] = x
  BY <1>2, <1>5, <1>7
<1> HIDE DEF names
<1>11. names \in Bijection(1 .. m, S)
  <2>1. names \in Injection(1 .. m, S)
    BY <1>9 DEF Injection, IsInjective
  <2>2. names \in Surjection(1 .. m, S)
    BY <1>9, <1>10 DEF Surjection
  <2> QED BY <2>1, <2>2 DEF Bijection
<1>12. Cardinality(S) = m
  <2>1. ExistsBijection(1 .. m, S)
    BY <1>11 DEF ExistsBijection
  <2>2. m \in Nat
    BY <1>2
  <2> HIDE DEF m
  <2> QED BY <2>1, <2>2, FS_CountingElements
<1>13. Files!SetToSeqs(S) =
         {f \in [1 .. Cardinality(S) -> S] : \A i, j \in 1 .. Cardinality(S) : i # j => f[i] # f[j]}
  <2>1. Files!Cardinality(S) = Cardinality(S)
    BY DEF Files!Cardinality, Cardinality
  <2> QED BY <2>1 DEF Files!SetToSeqs
<1>14. names \in Files!SetToSeqs(S)
  BY <1>9, <1>12, <1>13
<1> QED BY <1>14 DEF S, names, kids

\* readdir lists them.
LEMMA Listing ==
  ASSUME OneThread, FileInv, NEW t \in Threads, Readdir(t), UNCHANGED changes
  PROVE  FileInv' /\ FileStep
<1> DEFINE c == call[t]
           n == node[c.cur]
           names == [i \in DOMAIN n.files |-> node[n.files[i]].name]
           e == IF ~ n.dir THEN Code("ENOTDIR")
                ELSE Answer(IF t \in errno THEN "errno" ELSE "ok", 0, names)
<1>1. Found(t, {"readdir"}) /\ Return(t, e) /\ UNCHANGED <<node, store, changes>>
  BY Zenon DEF Readdir, Me
<1>20. OneThread /\ FileInv /\ t \in Threads /\ Found(t, {"readdir"})
  BY <1>1
<1>21. /\ c.phase = "check" /\ c.op \in {"readdir"} /\ Writes(c) = {} /\ Files!Exists(c.path)
       /\ c.cur # Nothing /\ c.cur \in DOMAIN node /\ c.cur = ResolveIn(node, c.path)
  BY ONLY <1>20, FoundAt
<1>2. /\ c.phase = "check" /\ c.op = "readdir" /\ Writes(c) = {} /\ Files!Exists(c.path)
      /\ c.cur # Nothing /\ c.cur \in DOMAIN node /\ c.cur = ResolveIn(node, c.path)
  BY ONLY <1>21, Zenon
<1>3. TreeNow[c.path] = EntryIn(node, store, {}, c.cur)
  BY <1>1, FoundTree
<1>4. TreeNow[c.path].kind = IF n.dir THEN "directory" ELSE "file"
  BY <1>2, <1>3 DEF EntryIn
<1>5. Request(t).op = c.op /\ Request(t).path = c.path
  BY <1>2, RequestIs, SMTT(30)
<1>6. e \in Files!Replies(t, Request(t))
  <2>1. CASE n.dir
    <3>1. Files!Replies(t, Request(t)) =
            {Files!Listing(t, ns) : ns \in Files!SetToSeqs({Files!Last(q) : q \in Files!Children(c.path)})}
      BY <2>1, <1>2, <1>4, <1>5 DEF Files!Replies, TreeNow
    <3>2. c.path \in Paths \cup {<<>>}
      BY Context
    <3>3. names \in Files!SetToSeqs({Files!Last(q) : q \in Files!Children(c.path)})
      BY <1>2, <3>2, NamesListed
    <3>4. e = Files!Listing(t, names)
      BY <2>1 DEF Answer, Files!Listing
    <3> HIDE DEF e, names
    <3> QED BY <3>1, <3>3, <3>4
  <2>2. CASE ~ n.dir
    <3>1. Files!Replies(t, Request(t)) = {Files!Code("ENOTDIR")}
      BY <2>2, <1>2, <1>4, <1>5 DEF Files!Replies, Files!Known, TreeNow
    <3> QED BY <2>2, <3>1, CodeIs
  <2> QED BY <2>1, <2>2
<1>7. c.op \in Reads
  BY <1>2 DEF Reads, Listings
<1> HIDE DEF e
<1> QED BY <1>1, <1>2, <1>6, <1>7, Tells
-----------------------------------------------------------------------------
(* truncate                                                                *)

LEMMA SamePaths ==
  ASSUME NEW nodes, NEW others, NEW T, IsForest(nodes), DOMAIN others = DOMAIN nodes,
         \A n \in DOMAIN nodes : Kids(others, n) = Kids(nodes, n)
                                 /\ others[n].name = nodes[n].name,
         NEW p \in Seq(T)
  PROVE  ResolveIn(others, p) = ResolveIn(nodes, p)
BY SameTree

\* A node's record changes, and its entries do not.
LEMMA Altered ==
  ASSUME NEW nodes, NEW others, NEW blocks, NEW more, NEW n \in DOMAIN nodes,
         Shaped(nodes, blocks), Charted(nodes),
         others \in Seq(NodeRecord), DOMAIN others = DOMAIN nodes,
         others[n].name = nodes[n].name, others[n].dir = nodes[n].dir,
         others[n].files = nodes[n].files,
         others[n].block \in [1 .. MaxBlocks -> 0 .. Len(more)],
         \A m \in DOMAIN nodes \ {n} : others[m] = nodes[m],
         Len(blocks) \in Nat, Len(more) \in Nat, Len(blocks) <= Len(more)
  PROVE  Shaped(others, more) /\ Charted(others)
<1>1. nodes \in Seq(NodeRecord) /\ nodes # <<>> /\ IsForest(nodes) /\ Root \in DOMAIN nodes
  BY DEF Shaped, IsForest
<1>2. others \in Seq(NodeRecord) /\ DOMAIN others = DOMAIN nodes /\ Len(others) = Len(nodes)
  BY <1>1
<1>3. \A m \in DOMAIN nodes \ {n} : others[m] = nodes[m]
  OBVIOUS
<1>4. \A m \in DOMAIN nodes : /\ others[m].name = nodes[m].name /\ others[m].dir = nodes[m].dir
                              /\ others[m].files = nodes[m].files
  BY <1>3
<1>5. \A m \in DOMAIN nodes : others[m].block \in [1 .. MaxBlocks -> 0 .. Len(more)]
  <2> SUFFICES ASSUME NEW m \in DOMAIN nodes
               PROVE others[m].block \in [1 .. MaxBlocks -> 0 .. Len(more)]
    OBVIOUS
  <2>1. nodes[m].block \in [1 .. MaxBlocks -> 0 .. Len(blocks)]
    BY DEF Shaped
  <2>2. nodes[m].block \in [1 .. MaxBlocks -> 0 .. Len(more)]
    BY <2>1
  <2> QED BY <2>2, <1>3
<1>6. /\ IsForest(others)
      /\ \A p \in Seq(Names) : ResolveIn(others, p) = ResolveIn(nodes, p)
  <2>1. \A m \in DOMAIN nodes : Kids(others, m) = Kids(nodes, m) /\ others[m].name = nodes[m].name
    BY <1>4 DEF Kids
  <2>2. IsForest(others)
    BY <2>1, <1>1, <1>2, SameTree
  <2>3. ASSUME NEW p \in Seq(Names) PROVE ResolveIn(others, p) = ResolveIn(nodes, p)
    BY <2>1, <1>1, <1>2, SamePaths
  <2> QED BY <2>2, <2>3
<1>7. Shaped(others, more)
  <2>1. others # <<>>
    BY <1>1, <1>2
  <2>2. others[Root].dir /\ \A m \in DOMAIN others : ~ others[m].dir => others[m].files = <<>>
    BY <1>1, <1>2, <1>4 DEF Shaped
  <2>3. \A m \in DOMAIN others : \A i \in DOMAIN others[m].files :
          others[others[m].files[i]].name \in Names
    <3> SUFFICES ASSUME NEW m \in DOMAIN nodes, NEW i \in DOMAIN nodes[m].files
                 PROVE others[nodes[m].files[i]].name \in Names
      BY <1>2, <1>4
    <3>1. nodes[m].files[i] \in DOMAIN nodes
      BY <1>1 DEF IsForest, Kids
    <3>2. nodes[nodes[m].files[i]].name \in Names
      BY DEF Shaped
    <3> QED BY <3>1, <3>2, <1>4
  <2> QED BY <1>2, <1>5, <1>6, <2>1, <2>2, <2>3 DEF Shaped
<1>8. Charted(others)
  <2> SUFFICES ASSUME NEW p \in Paths \cup {<<>>}, ResolveIn(others, p) # Nothing,
                      NEW i \in DOMAIN others[ResolveIn(others, p)].files
               PROVE Append(p, others[others[ResolveIn(others, p)].files[i]].name) \in Paths
    BY DEF Charted
  <2> DEFINE m == ResolveIn(nodes, p)
  <2>1. p \in Seq(Names)
    BY PathsAre
  <2>2. ResolveIn(others, p) = m /\ m # Nothing
    BY <2>1, <1>6
  <2>3. m \in DOMAIN nodes
    BY <2>1, <2>2, <1>1, Reached
  <2>4. others[m].files = nodes[m].files /\ i \in DOMAIN nodes[m].files
    BY <2>2, <2>3, <1>4
  <2>5. nodes[m].files[i] \in DOMAIN nodes
    BY <2>3, <2>4, <1>1 DEF IsForest, Kids
  <2>6. others[nodes[m].files[i]].name = nodes[nodes[m].files[i]].name
    BY <2>5, <1>4
  <2>7. Append(p, nodes[nodes[m].files[i]].name) \in Paths
    BY <2>2, <2>4 DEF Charted
  <2> QED BY <2>2, <2>4, <2>6, <2>7
<1> QED BY <1>7, <1>8

LEMMA DataSame ==
  ASSUME NEW nodes, NEW others, NEW blocks, NEW more, NEW m, NEW k \in 0 .. MaxBlocks,
         Fills(nodes, m, k), nodes[m].block \in [1 .. MaxBlocks -> 0 .. Len(blocks)],
         others[m].block = nodes[m].block, Len(blocks) \in Nat,
         \A j \in 1 .. Len(blocks) : more[j] = blocks[j]
  PROVE  DataIn(others, more, m) = DataIn(nodes, blocks, m)
<1>1. MaxBlocks \in Nat
  BY FileSystemAssumption
<1>2. FilledIn(nodes, m) = k
  BY FilledIs
<1>3. FilledIn(others, m) = k
  BY FilledIs DEF Fills
<1>4. ASSUME NEW i \in 1 .. k PROVE more[others[m].block[i]] = blocks[nodes[m].block[i]]
  <2>1. i \in 1 .. MaxBlocks /\ ~ (i > k)
    BY <1>1
  <2>2. nodes[m].block[i] \in 0 .. Len(blocks) /\ nodes[m].block[i] # 0
    BY <2>1 DEF Fills, NoBlock
  <2>3. nodes[m].block[i] \in 1 .. Len(blocks)
    BY <2>2
  <2> QED BY <2>3
<1> QED BY <1>2, <1>3, <1>4 DEF DataIn

LEMMA EntrySame ==
  ASSUME NEW nodes, NEW others, NEW blocks, NEW more, NEW w, NEW v, NEW m, NEW k \in 0 .. MaxBlocks,
         Fills(nodes, m, k), nodes[m].block \in [1 .. MaxBlocks -> 0 .. Len(blocks)],
         others[m].block = nodes[m].block, others[m].dir = nodes[m].dir,
         others[m].size = nodes[m].size, m \in w <=> m \in v, Len(blocks) \in Nat,
         \A j \in 1 .. Len(blocks) : more[j] = blocks[j]
  PROVE  EntryIn(others, more, v, m) = EntryIn(nodes, blocks, w, m)
<1>1. DataIn(others, more, m) = DataIn(nodes, blocks, m)
  BY DataSame
<1> QED BY <1>1 DEF EntryIn

\* One node's record changes: so does what is at its path, and nothing else.
LEMMA TreeAltered ==
  ASSUME NEW nodes, NEW others, NEW blocks, NEW more, NEW w, NEW v, IsForest(nodes),
         NEW path \in Paths \cup {<<>>}, ResolveIn(nodes, path) # Nothing,
         \A p \in Seq(Names) : ResolveIn(others, p) = ResolveIn(nodes, p),
         \A m \in DOMAIN nodes \ {ResolveIn(nodes, path)} :
           EntryIn(others, more, v, m) = EntryIn(nodes, blocks, w, m)
  PROVE  TreeIn(others, more, v) =
           [TreeIn(nodes, blocks, w) EXCEPT
              ![path] = EntryIn(others, more, v, ResolveIn(nodes, path))]
<1> DEFINE e == EntryIn(others, more, v, ResolveIn(nodes, path))
<1>1. ASSUME NEW p \in Paths \cup {<<>>}, p # path
      PROVE EntryIn(others, more, v, ResolveIn(others, p)) = EntryIn(nodes, blocks, w, ResolveIn(nodes, p))
  <2>1. p \in Seq(Names) /\ path \in Seq(Names)
    BY PathsAre
  <2>2. ResolveIn(others, p) = ResolveIn(nodes, p)
    BY <2>1
  <2>3. CASE ResolveIn(nodes, p) = Nothing
    BY <2>2, <2>3 DEF EntryIn
  <2>4. CASE ResolveIn(nodes, p) # Nothing
    <3>1. ResolveIn(nodes, p) \in DOMAIN nodes
      BY <2>1, <2>4, Reached
    <3>2. ResolveIn(nodes, p) # ResolveIn(nodes, path)
      BY <2>1, <2>4, <1>1, OnePath
    <3> QED BY <2>2, <3>1, <3>2
  <2> QED BY <2>3, <2>4
<1>2. EntryIn(others, more, v, ResolveIn(others, path)) = e
  <2>1. path \in Seq(Names)
    BY PathsAre
  <2> QED BY <2>1
<1> HIDE DEF e
<1>3. TreeIn(others, more, v) = [TreeIn(nodes, blocks, w) EXCEPT ![path] = e]
  BY <1>1, <1>2 DEF TreeIn
<1> QED BY <1>3 DEF e
LEMMA CountedSame ==
  ASSUME NEW nodes, NEW others, NEW w, IsForest(nodes), DOMAIN others = DOMAIN nodes,
         \A m \in DOMAIN nodes :
           /\ others[m].block = nodes[m].block /\ others[m].dir = nodes[m].dir
           /\ others[m].num_block = nodes[m].num_block /\ others[m].files = nodes[m].files,
         Counted(nodes, w)
  PROVE  Counted(others, w)
<1>1. \A m \in DOMAIN nodes : \A i \in DOMAIN nodes[m].files : nodes[m].files[i] \in DOMAIN nodes
  BY DEF IsForest, Kids
<1>2. \A m \in DOMAIN nodes : \A k : Fills(others, m, k) <=> Fills(nodes, m, k)
  BY DEF Fills
<1>3. \A m \in DOMAIN others : others[m].dir =>
        /\ Fills(others, m, 0)
        /\ others[m].num_block <= 0 /\ (m # Root => others[m].num_block = 0)
  BY <1>2 DEF Counted
<1>4. ASSUME NEW m \in DOMAIN others, ~ others[m].dir
      PROVE  \E k \in 0 .. MaxBlocks :
               Fills(others, m, k) /\ others[m].num_block = IF m \in w THEN k + 1 ELSE k
  <2>1. PICK k \in 0 .. MaxBlocks :
          Fills(nodes, m, k) /\ nodes[m].num_block = IF m \in w THEN k + 1 ELSE k
    BY <1>4 DEF Counted
  <2>2. Fills(others, m, k) /\ others[m].num_block = IF m \in w THEN k + 1 ELSE k
    BY <2>1, <1>2
  <2> QED BY <2>2
<1>5. \A m \in DOMAIN others \ {Root} : \A i \in DOMAIN others[m].files :
        others[others[m].files[i]].num_block = 0
  BY <1>1 DEF Counted
<1> QED BY <1>3, <1>4, <1>5 DEF Counted

\* Every node's array is filled from the front.
LEMMA FilledTo ==
  ASSUME NEW nodes, NEW w, Counted(nodes, w), NEW m \in DOMAIN nodes
  PROVE  \E k \in 0 .. MaxBlocks : Fills(nodes, m, k)
<1>1. 0 \in 0 .. MaxBlocks
  BY FileSystemAssumption
<1> QED BY <1>1 DEF Counted

LEMMA TreesAre ==
  ASSUME OneThread, NEW t \in Threads, NEW c, call'[t] = c,
         Writes(c) = {} \/ c.size = call[t].size
  PROVE  /\ TreeNow = TreeIn(node, store, Writes(call[t]))
         /\ TreeNow' = TreeIn(node', store', Writes(c))
<1>1. SameSize /\ Written = Writes(call[t]) /\ Written' = Writes(c)
  BY OneCall
<1> QED BY <1>1, TreeIs

LEMMA QuietNext ==
  ASSUME OneThread, FileInv, NEW t \in Threads, call' = [call EXCEPT ![t] = Quiet]
  PROVE  call'[t] = Quiet /\ Writes(Quiet) = {}
<1>1. DOMAIN call = Threads /\ Root \in DOMAIN node
  BY Context, TreeHas DEF FileInv
<1> QED BY <1>1, QuietIs

\* truncate puts a size into the record, whatever the file holds.
LEMMA Truncating ==
  ASSUME OneThread, FileInv, NEW t \in Threads, Truncate(t), UNCHANGED changes
  PROVE  FileInv' /\ FileStep
<1> DEFINE c == call[t]
           n == c.cur
           r == [node[n] EXCEPT !.size = c.size]
           e == Answer("size", c.size, <<>>)
<1>1. Found(t, {"truncate"}) /\ Return(t, e) /\ UNCHANGED <<store, changes>>
      /\ node' = [node EXCEPT ![n] = r]
  BY DEF Truncate, Me
<1>2. /\ c.phase = "check" /\ c.op = "truncate" /\ Writes(c) = {} /\ Files!Exists(c.path)
      /\ n # Nothing /\ n \in DOMAIN node /\ n = ResolveIn(node, c.path)
  BY <1>1, FoundAt
<1>3. TreeNow[c.path] = EntryIn(node, store, {}, n)
  BY <1>1, FoundTree
<1>4. /\ Tree(node, store, {}) /\ c \in CallRecord /\ c.path \in Paths \cup {<<>>}
      /\ IsForest(node)
  BY <1>2, Context
<1>5. c.size \in Nat
  BY <1>4 DEF CallRecord
<1>6. /\ r \in NodeRecord /\ r.name = node[n].name /\ r.dir = node[n].dir /\ r.files = node[n].files
      /\ r.block = node[n].block /\ r.num_block = node[n].num_block /\ r.size = c.size
  <2>1. node[n] \in NodeRecord
    BY <1>2, NodeIs
  <2> QED BY <2>1, <1>5, SMTT(30) DEF NodeRecord
<1> HIDE DEF r
<1>7. /\ node'[n] = r /\ DOMAIN node' = DOMAIN node
      /\ \A m \in DOMAIN node \ {n} : node'[m] = node[m]
  BY <1>1, <1>2
<1>8. store' = store /\ Len(store) \in Nat /\ r.block \in [1 .. MaxBlocks -> 0 .. Len(store)]
  BY <1>1, <1>2, <1>4, <1>6 DEF Tree, Shaped, Stored
<1>9. Shaped(node, store) /\ Charted(node) /\ Counted(node, {}) /\ Stored(store)
  BY <1>4 DEF Tree
<1>10. Shaped(node', store) /\ Charted(node')
       /\ \A p \in Seq(Names) : ResolveIn(node', p) = ResolveIn(node, p)
  <2>1. Len(store) <= Len(store)
    BY <1>8
  <2>2. node' \in Seq(NodeRecord)
    BY <1>1, <1>2, <1>6, <1>9 DEF Shaped
  <2>3. /\ node'[n].name = node[n].name /\ node'[n].dir = node[n].dir
        /\ node'[n].files = node[n].files
        /\ node'[n].block \in [1 .. MaxBlocks -> 0 .. Len(store)]
    BY <1>6, <1>7, <1>8
  <2>4. Shaped(node', store) /\ Charted(node')
    BY <1>2, <1>7, <1>8, <1>9, <2>1, <2>2, <2>3, Altered
  <2>5. \A m \in DOMAIN node : Kids(node', m) = Kids(node, m) /\ node'[m].name = node[m].name
    BY <1>7, <2>3 DEF Kids
  <2>6. ASSUME NEW p \in Seq(Names) PROVE ResolveIn(node', p) = ResolveIn(node, p)
    BY <2>5, <1>4, <1>7, SamePaths
  <2> QED BY <2>4, <2>6
<1>11. Counted(node', {})
  <2>1. \A m \in DOMAIN node :
          /\ node'[m].block = node[m].block /\ node'[m].dir = node[m].dir
          /\ node'[m].num_block = node[m].num_block /\ node'[m].files = node[m].files
    BY <1>6, <1>7
  <2> QED BY <2>1, <1>4, <1>7, <1>9, CountedSame
<1>12. Tree(node', store', {})
  BY <1>8, <1>9, <1>10, <1>11 DEF Tree
<1>13. TreeNow' = [TreeNow EXCEPT ![c.path] = EntryIn(node', store', {}, n)]
  <2>1. ASSUME NEW m \in DOMAIN node \ {ResolveIn(node, c.path)}
        PROVE EntryIn(node', store', {}, m) = EntryIn(node, store, {}, m)
    <3>1. node'[m] = node[m]
      BY <1>2, <1>7
    <3> QED BY <3>1, <1>8 DEF EntryIn, DataIn, FilledIn
  <2>2. TreeIn(node', store', {}) =
          [TreeIn(node, store, {}) EXCEPT ![c.path] = EntryIn(node', store', {}, ResolveIn(node, c.path))]
    BY <2>1, <1>2, <1>4, <1>10, TreeAltered
  <2>3. call'[t] = Quiet /\ Writes(Quiet) = {}
    BY <1>1, QuietNext DEF Return
  <2> QED BY <2>2, <2>3, <1>2, TreesAre
<1>14. EntryIn(node', store', {}, n) = [TreeNow[c.path] EXCEPT !.size = c.size]
  <2>1. DataIn(node', store', n) = DataIn(node, store, n)
    <3>1. PICK k \in 0 .. MaxBlocks : Fills(node, n, k)
      BY <1>2, <1>9, FilledTo
    <3> QED BY <3>1, <1>6, <1>7, <1>8, DataSame
  <2>2. c.size - 0 = c.size
    BY <1>5
  <2> QED BY <2>1, <2>2, <1>2, <1>3, <1>6, <1>7 DEF EntryIn
<1>15. TreeNow' = [TreeNow EXCEPT ![c.path].size = c.size]
  BY <1>13, <1>14
<1>16. Done(t)
  BY <1>2, <1>15 DEF Done, Me
<1>17. e \in Files!Replies(t, Request(t))
  <2>1. Request(t).op = c.op /\ Request(t).size = c.size
    BY <1>2, RequestIs
  <2>2. Files!Replies(t, Request(t)) = {[Files!Code("size") EXCEPT !.size = c.size]}
    BY <2>1, <1>2 DEF Files!Replies
  <2> QED BY <2>2 DEF Answer, Files!Code
<1> HIDE DEF e
<1> QED BY <1>1, <1>2, <1>12, <1>16, <1>17, Returns
-----------------------------------------------------------------------------
(* read                                                                    *)

LEMMA Rechecks ==
  ASSUME OneThread, FileInv, NEW t \in Threads, Recheck(t), UNCHANGED changes
  PROVE  FileInv' /\ FileStep
<1> DEFINE c == call[t]
           p == <<Head(c.path)>>
           d == [c EXCEPT !.phase = "recheck", !.token = First(p), !.cur = Root]
<1>1. Found(t, {"read", "write"}) /\ UNCHANGED <<node, store, changes>>
  BY DEF Recheck
<1>2. /\ c.phase = "check" /\ c.op \in {"read", "write"} /\ Writes(c) = {}
      /\ c.cur \in DOMAIN node /\ c.cur = ResolveIn(node, c.path)
      /\ (Files!IsFile(c.path) <=> ~ node[c.cur].dir)
  BY <1>1, FoundAt
<1>20. InRange(node, c) /\ c.cur # Nothing
  BY <1>1, FoundAt
<1>3. /\ Tree(node, store, {}) /\ Call(node, store, saved, c) /\ c \in CallRecord
      /\ c.path \in Seq(Names) /\ Root \in DOMAIN node
  BY <1>2, Context DEF IsForest
<1>4. c.path # <<>>
  BY <1>2, <1>3 DEF Call, Listings
<1>5. CASE node[c.cur].dir
  <2>1. Return(t, Code("error"))
    BY <1>5 DEF Recheck, Me
  <2>2. Request(t).op = c.op /\ Request(t).path = c.path
    BY <1>2, RequestIs
  <2>3. Code("error") \in Files!Replies(t, Request(t))
    BY <2>2, <1>2, <1>5, CodeIs DEF Files!Replies
  <2>4. ~ FileAt(node, c.path)
    BY <1>2, <1>5 DEF FileAt
  <2>5. c.op \in Reads \cup {"rename"} \/ (c.op = "write" /\ ~ (FileAt(node, c.path) /\ Len(c.path) = 1))
    BY <1>2, <2>4 DEF Reads
  <2> QED BY <1>1, <1>2, <2>1, <2>3, <2>5, Tells
<1>6. CASE ~ node[c.cur].dir
  <2>1. p \in Seq(Names) /\ Len(p) = 1
    BY <1>3, <1>4, HeadIs
  <2>2. /\ call' = [call EXCEPT ![t].phase = "recheck", ![t].token = First(p), ![t].cur = Root]
        /\ saved' = Rest(p) /\ UNCHANGED <<reply, errno, cached>>
    BY <1>6 DEF Recheck, Tokenise, Me
  <2>3. First(p) \in Names \cup {NoToken} /\ Rest(p) \in Seq(Names)
    BY <2>1, Tokens
  <2>4. call' = [call EXCEPT ![t] = d]
    BY <2>2
  <2> HIDE DEF p
  <2>5. /\ d \in CallRecord /\ d.phase = "recheck" /\ d.op = c.op /\ d.path = c.path
        /\ d.data = c.data /\ d.first = c.first /\ d.size = c.size /\ d.parent = c.parent
        /\ d.cur = Root /\ d.token = First(p)
    BY <1>3, <2>3 DEF CallRecord, Phases, Root
  <2> HIDE DEF d
  <2>6. Descent(node, saved', d, p, 0) /\ 0 \in 0 .. 1
    <3>1. Scan(Rest(p), First(p), p, 0)
      BY <2>1, ScanStart
    <3>2. ResolveIn(node, SubSeq(p, 1, 0)) = Root
      BY <2>1, WholeIs, ResolveEmpty
    <3> QED BY <3>1, <3>2, <2>2, <2>5 DEF Descent
  <2>7. Rechecking(node, saved', d)
    <3>1. FileAt(node, d.path) /\ InRange(node, d)
      BY <1>2, <1>20, <1>6, <2>5 DEF FileAt, InRange
    <3>2. d.op \in {"read", "write"} /\ \E k \in 0 .. 1 : Descent(node, saved', d, <<Head(d.path)>>, k)
      BY <1>2, <2>5, <2>6 DEF p
    <3> QED BY <3>1, <3>2 DEF Rechecking
  <2>8. Call(node, store, saved', d)
    BY <1>2, <1>3, <2>5, <2>7 DEF Call
  <2>9. Writes(d) = {}
    BY <2>5 DEF Writes
  <2>10. Tree(node', store', Writes(d)) /\ Call(node', store', saved', d) /\ saved' \in Seq(Names)
         /\ TreeIn(node', store', Writes(d)) = TreeIn(node, store, Writes(c))
    BY <1>1, <1>2, <1>3, <2>2, <2>3, <2>8, <2>9
  <2> QED BY <1>1, <1>2, <2>2, <2>4, <2>5, <2>10, Goes
<1> QED BY <1>5, <1>6

\* What the first name of a file's path leads to: the file, or a directory that has
\* no blocks.
LEMMA FirstNamed ==
  ASSUME OneThread, FileInv, NEW t \in Threads, call[t].phase = "recheck", call[t].token = NoToken
  PROVE  /\ call[t].cur \in DOMAIN node /\ call[t].cur # Nothing /\ call[t].path \in Paths
         /\ FileAt(node, call[t].path) /\ InRange(node, call[t]) /\ Writes(call[t]) = {}
         /\ call[t].op \in {"read", "write"}
         /\ Len(call[t].path) = 1 => call[t].cur = ResolveIn(node, call[t].path)
                                       /\ ~ node[call[t].cur].dir
         /\ Len(call[t].path) # 1 => /\ node[call[t].cur].dir /\ node[call[t].cur].num_block = 0
                                     /\ Fills(node, call[t].cur, 0)
<1> DEFINE c == call[t]
           p == <<Head(c.path)>>
<1>1. /\ Tree(node, store, Writes(c)) /\ Call(node, store, saved, c) /\ IsForest(node)
      /\ c.path \in Seq(Names) /\ c.cur \in DOMAIN node /\ Nothing \notin DOMAIN node
      /\ c.path \in Paths \cup {<<>>}
  BY Context
<1>2. Rechecking(node, saved, c) /\ Writes(c) = {}
  BY <1>1 DEF Call, Writes
<1>3. /\ c.op \in {"read", "write"} /\ InRange(node, c) /\ FileAt(node, c.path)
      /\ c.path # <<>> /\ ResolveIn(node, c.path) # Nothing
  BY <1>1, <1>2 DEF Rechecking, Call, Listings, FileAt
<1>4. /\ p \in Seq(Names) /\ Len(p) = 1 /\ SubSeq(c.path, 1, 1) = p /\ 1 \in 0 .. Len(c.path)
      /\ (Len(c.path) = 1 => p = c.path)
  BY <1>1, <1>3, HeadIs
<1>5. c.cur = ResolveIn(node, p)
  <2>1. PICK k \in 0 .. 1 : Descent(node, saved, c, p, k)
    BY <1>2 DEF Rechecking
  <2> HIDE DEF p
  <2>2. k \in 0 .. Len(p)
    BY <1>4
  <2>3. Scan(saved, NoToken, p, k) /\ c.cur = ResolveIn(node, SubSeq(p, 1, k))
    BY <2>1 DEF Descent
  <2>4. k = 1
    BY <2>2, <2>3, <1>4, ScanEnd
  <2>5. SubSeq(p, 1, 1) = p
    BY <1>4
  <2> QED BY <2>3, <2>4, <2>5
<1>50. p # <<>>
  OBVIOUS
<1> HIDE DEF p
<1>6. Len(c.path) = 1 => c.cur = ResolveIn(node, c.path) /\ ~ node[c.cur].dir
  BY <1>3, <1>4, <1>5 DEF FileAt
<1>7. ASSUME Len(c.path) # 1
      PROVE node[c.cur].dir /\ node[c.cur].num_block = 0 /\ Fills(node, c.cur, 0)
  <2>1. 1 < Len(c.path) /\ Len(c.path) \in Nat
    BY <1>1, <1>3, <1>4, <1>7
  <2>2. Kids(node, ResolveIn(node, SubSeq(c.path, 1, 1))) # <<>>
    BY <1>1, <1>3, <1>4, <2>1, Beginnings
  <2>3. node[c.cur].dir
    BY <1>1, <1>4, <1>5, <2>2 DEF Kids, Tree, Shaped
  <2>4. c.cur # Root
    <3>1. p # <<>> /\ ResolveIn(node, p) # Nothing
      BY <1>50, <1>1, <1>5
    <3> QED BY <3>1, <1>1, <1>4, <1>5, Parent
  <2> QED BY <1>1, <2>3, <2>4 DEF Tree, Counted
<1> QED BY <1>1, <1>2, <1>3, <1>6, <1>7

\* read copies the blocks that the range of the request covers.
LEMMA Reading ==
  ASSUME OneThread, FileInv, NEW t \in Threads, Read(t), UNCHANGED changes
  PROVE  FileInv' /\ FileStep
<1> DEFINE c == call[t]
           n == node[c.cur]
           first == IF n.size > 0 /\ c.first < n.num_block
                    THEN store[n.block[c.first + 1]][1] ELSE Garbage
           e == Answer("data", 0, [i \in 1 .. c.size |->
                  IF i = 1 THEN first ELSE store[n.block[c.first + i]][1]])
           Fine == \A i \in 2 .. c.size : c.first + i <= MaxBlocks /\ n.block[c.first + i] # NoBlock
<1>1. /\ c.phase = "recheck" /\ c.token = NoToken /\ c.op = "read"
      /\ UNCHANGED <<node, store, changes>>
      /\ (Fine => Return(t, e)) /\ (~ Fine => Crash)
  BY Zenon DEF Read, At, Me
<1>2. /\ c.cur \in DOMAIN node /\ c.cur # Nothing /\ c.path \in Paths
      /\ FileAt(node, c.path) /\ InRange(node, c) /\ Writes(c) = {}
  BY <1>1, FirstNamed, Zenon
<1>3. /\ Len(c.path) = 1 => c.cur = ResolveIn(node, c.path) /\ ~ n.dir
      /\ Len(c.path) # 1 => n.dir /\ n.num_block = 0 /\ Fills(node, c.cur, 0)
  BY <1>1, FirstNamed, Zenon
<1>4. c.first \in Nat /\ c.size \in Nat /\ c.size > 0 /\ Tree(node, store, {}) /\ MaxBlocks \in Nat
  <2>1. c \in CallRecord /\ Tree(node, store, Writes(c))
    BY Context
  <2>2. c.first \in Nat /\ c.size \in Nat
    BY <2>1 DEF CallRecord
  <2>3. c.size > 0
    BY <1>1, <1>2, Zenon DEF InRange
  <2>4. Tree(node, store, {})
    BY <1>2, <2>1, Zenon
  <2>5. MaxBlocks \in Nat
    BY FileSystemAssumption
  <2> QED BY <2>2, <2>3, <2>4, <2>5, Zenon
<1>5. \E k \in 0 .. MaxBlocks :
        /\ Fills(node, c.cur, k) /\ n.num_block = k /\ (Len(c.path) # 1 => k = 0)
  <2>1. CASE Len(c.path) = 1
    BY <1>2, <1>3, <1>4, <2>1 DEF Tree, Counted
  <2>2. CASE Len(c.path) # 1
    BY <1>3, <1>4, <2>2
  <2> QED BY <2>1, <2>2
<1>6. PICK k \in 0 .. MaxBlocks :
        /\ Fills(node, c.cur, k) /\ n.num_block = k /\ (Len(c.path) # 1 => k = 0)
  BY <1>5
<1>7. Len(c.path) = 1 => n.size > 0
  <2> SUFFICES ASSUME Len(c.path) = 1 PROVE n.size > 0
    OBVIOUS
  <2> DEFINE last == c.first + c.size - 1
  <2>1. BlockSize * last < n.size
    BY <1>1, <1>2, <1>3, Zenon DEF InRange
  <2>2. n.size \in Int
    BY <1>2, NodeIs DEF NodeRecord
  <2>3. last \in Nat /\ BlockSize \in Nat
    BY <1>4, FileSystemAssumption
  <2> HIDE DEF last
  <2>4. BlockSize * last \in Nat
    BY <2>3
  <2> QED BY <2>1, <2>2, <2>4
<1>8. TreeNow[c.path].log = DataIn(node, store, ResolveIn(node, c.path))
  <2>1. TreeNow[c.path] = EntryIn(node, store, {}, ResolveIn(node, c.path))
    BY <1>2, Seen
  <2> QED BY <2>1, <1>2 DEF EntryIn, FileAt
<1>9. FilledIn(node, c.cur) = k
  BY <1>6, FilledIs
<1>10. Files!Reached(c.path) = [i \in 1 .. k |-> store[n.block[i]][1]]
  <2>1. CASE Len(c.path) = 1
    BY <1>3, <1>8, <1>9, <2>1, Zenon DEF Files!Reached, DataIn, TreeNow
  <2>2. CASE Len(c.path) # 1
    <3>1. Files!Reached(c.path) = <<>> /\ k = 0
      BY <2>2, <1>6, SMTT(30) DEF Files!Reached
    <3> QED BY <3>1
  <2> QED BY <2>1, <2>2
<1>11. Len(Files!Reached(c.path)) = k
  BY <1>10
<1>12. Fine <=> \A i \in 2 .. c.size : c.first + i <= k
  <2>1. ASSUME NEW i \in 2 .. c.size
        PROVE (c.first + i <= MaxBlocks /\ n.block[c.first + i] # NoBlock) <=> c.first + i <= k
    <3>1. c.first + i \in Nat /\ c.first + i >= 1
      BY <1>4
    <3>2. k \in Nat /\ k <= MaxBlocks
      BY <1>4
    <3>3. CASE c.first + i <= MaxBlocks
      <4>1. c.first + i \in 1 .. MaxBlocks
        BY <3>1, <3>3, <1>4
      <4>2. n.block[c.first + i] = NoBlock <=> c.first + i > k
        BY <4>1, <1>6 DEF Fills
      <4> QED BY <3>1, <3>2, <3>3, <4>2
    <3>4. CASE ~ (c.first + i <= MaxBlocks)
      BY <3>1, <3>2, <3>4, <1>4
    <3> QED BY <3>3, <3>4
  <2> QED BY <2>1
<1> HIDE DEF Fine
<1>13. CASE ~ Fine
  <2>1. PICK i \in 2 .. c.size : ~ (c.first + i <= k)
    BY <1>12, <1>13
  <2>2. c.size > 1 /\ c.first + c.size > k
    BY <2>1, <1>4
  <2>3. Fatal(t)
    BY <2>2, <1>1, <1>11, Zenon DEF Fatal, Me
  <2> QED BY <2>3, <1>1, <1>13, Dies, Zenon
<1>14. CASE Fine
  <2>1. Request(t).op = c.op /\ Request(t).path = c.path /\ Request(t).first = c.first
        /\ Request(t).size = c.size
    <3>1. c.phase # "idle"
      BY <1>1, Zenon
    <3>2. Request(t) = [op |-> c.op, path |-> c.path, data |-> c.data[1],
                        first |-> c.first, size |-> c.size]
      BY <3>1, RequestIs
    <3> QED BY <3>2
  <2>2. Files!IsFile(c.path)
    BY <1>2, Seen
  <2>3. Files!Replies(t, Request(t)) =
          {[Files!Code("data") EXCEPT !.list = Files!Blocks(Files!Reached(c.path), c.first, c.size)]}
    BY <2>1, <2>2, <1>1, Zenon DEF Files!Replies
  <2> DEFINE log == Files!Reached(c.path)
             list == [i \in 1 .. c.size |->
                        IF i = 1 THEN first ELSE store[n.block[c.first + i]][1]]
  <2>4. ASSUME NEW i \in 1 .. c.size
        PROVE list[i] = IF i = 1 /\ c.first >= Len(log) THEN Garbage ELSE log[c.first + i]
    <3>1. CASE i = 1 /\ c.first >= k
      <4>1. ~ (c.first < n.num_block)
        BY <3>1, <1>4, <1>6
      <4> QED BY <3>1, <4>1, <1>11, Zenon
    <3>2. CASE i = 1 /\ ~ (c.first >= k)
      <4>1. c.first < n.num_block /\ c.first + 1 \in 1 .. k /\ k # 0
        BY <3>2, <1>4, <1>6
      <4>2. n.size > 0
        BY <4>1, <1>6, <1>7
      <4>3. log[c.first + 1] = store[n.block[c.first + 1]][1]
        BY <4>1, <1>10, Zenon
      <4> QED BY <3>2, <4>1, <4>2, <4>3, <1>11, Zenon
    <3>3. CASE i # 1
      <4>1. i \in 2 .. c.size
        BY <3>3, <1>4
      <4>2. c.first + i \in 1 .. k
        BY <4>1, <1>4, <1>12, <1>14
      <4>3. log[c.first + i] = store[n.block[c.first + i]][1]
        BY <4>2, <1>10, Zenon
      <4> QED BY <3>3, <4>3, Zenon
    <3> QED BY <3>1, <3>2, <3>3, Zenon
  <2>5. list = Files!Blocks(log, c.first, c.size)
    <3>1. Files!Blocks(log, c.first, c.size) =
            [i \in 1 .. c.size |->
               IF i = 1 /\ c.first >= Len(log) THEN Garbage ELSE log[c.first + i]]
      BY DEF Files!Blocks
    <3> HIDE DEF log, first
    <3> QED BY <2>4, <3>1
  <2>6. e = [Files!Code("data") EXCEPT !.list = Files!Blocks(log, c.first, c.size)]
    <3>1. e = Answer("data", 0, list)
      OBVIOUS
    <3> HIDE DEF log, list, e
    <3> QED BY <2>5, <3>1 DEF Answer, Files!Code
  <2>7. e \in Files!Replies(t, Request(t)) /\ c.op \in Reads
    BY <2>3, <2>6, <1>1, Zenon DEF Reads
  <2> HIDE DEF e
  <2> QED BY <1>1, <1>2, <1>14, <2>7, Tells
<1> QED BY <1>13, <1>14
-----------------------------------------------------------------------------
(* write: the block is counted, looked for and stored                      *)

LEMMA OneName ==
  ASSUME NEW path \in Seq(Names), Len(path) = 1
  PROVE  path # <<>>
<1>1. Len(<<>>) = 0 /\ 0 # 1
  OBVIOUS
<1> QED BY <1>1, Zenon

\* Only the root lists what has a path of one name.
LEMMA RootLists ==
  ASSUME NEW nodes, IsForest(nodes), NEW path \in Seq(Names), Len(path) = 1,
         ResolveIn(nodes, path) # Nothing, NEW m \in DOMAIN nodes, NEW i \in DOMAIN nodes[m].files,
         nodes[m].files[i] = ResolveIn(nodes, path)
  PROVE  m = Root
<1>1. path # <<>> /\ Front(path) = <<>>
  <2>1. path # <<>>
    BY OneName
  <2>2. Front(path) \in Seq(Names) /\ Len(Front(path)) = 0
    BY <2>1, Parts
  <2> QED BY <2>1, <2>2
<1>2. \E j \in DOMAIN Kids(nodes, ResolveIn(nodes, Front(path))) :
        ResolveIn(nodes, path) = Kids(nodes, ResolveIn(nodes, Front(path)))[j]
  BY <1>1, Parent
<1>3. ResolveIn(nodes, Front(path)) = Root /\ Root \in DOMAIN nodes
  BY <1>1, ResolveEmpty DEF IsForest
<1>4. PICK j \in DOMAIN Kids(nodes, Root) : ResolveIn(nodes, path) = Kids(nodes, Root)[j]
  BY <1>2, <1>3
<1>5. i \in DOMAIN Kids(nodes, m) /\ Kids(nodes, m)[i] = Kids(nodes, Root)[j]
  BY <1>4 DEF Kids
<1> QED BY <1>3, <1>4, <1>5 DEF IsForest

\* The count of a file that only the root lists changes, with its array or before it.
LEMMA CountedAltered ==
  ASSUME NEW nodes, NEW others, NEW n \in DOMAIN nodes, NEW w, NEW v, w \subseteq {n}, v \subseteq {n},
         IsForest(nodes), DOMAIN others = DOMAIN nodes, ~ nodes[n].dir, ~ others[n].dir,
         others[n].files = nodes[n].files,
         NEW k \in 0 .. MaxBlocks, Fills(others, n, k),
         others[n].num_block = (IF n \in v THEN k + 1 ELSE k),
         \A m \in DOMAIN nodes \ {n} : others[m] = nodes[m],
         \A m \in DOMAIN nodes : \A i \in DOMAIN nodes[m].files : nodes[m].files[i] = n => m = Root,
         Counted(nodes, w)
  PROVE  Counted(others, v)
<1>1. \A m \in DOMAIN nodes : \A i \in DOMAIN nodes[m].files : nodes[m].files[i] \in DOMAIN nodes
  BY DEF IsForest, Kids
<1>2. \A m \in DOMAIN nodes \ {n} : \A j : Fills(others, m, j) <=> Fills(nodes, m, j)
  BY DEF Fills
<1>3. ASSUME NEW m \in DOMAIN others, others[m].dir
      PROVE  /\ Fills(others, m, 0)
             /\ others[m].num_block <= 0 /\ (m # Root => others[m].num_block = 0)
  <2>1. m \in DOMAIN nodes \ {n}
    BY <1>3
  <2> QED BY <2>1, <1>2, <1>3 DEF Counted
<1>4. ASSUME NEW m \in DOMAIN others, ~ others[m].dir
      PROVE  \E j \in 0 .. MaxBlocks :
               Fills(others, m, j) /\ others[m].num_block = IF m \in v THEN j + 1 ELSE j
  <2>1. CASE m = n
    BY <2>1
  <2>2. CASE m # n
    <3>1. m \in DOMAIN nodes \ {n} /\ ~ nodes[m].dir
      BY <2>2, <1>4
    <3>2. PICK j \in 0 .. MaxBlocks :
            Fills(nodes, m, j) /\ nodes[m].num_block = IF m \in w THEN j + 1 ELSE j
      BY <3>1 DEF Counted
    <3>3. Fills(others, m, j) /\ others[m].num_block = IF m \in v THEN j + 1 ELSE j
      BY <3>1, <3>2, <1>2
    <3> QED BY <3>3
  <2> QED BY <2>1, <2>2
<1>5. ASSUME NEW m \in DOMAIN others \ {Root}, NEW i \in DOMAIN others[m].files
      PROVE  others[others[m].files[i]].num_block = 0
  <2>1. others[m].files = nodes[m].files /\ m \in DOMAIN nodes \ {Root}
    BY <1>5
  <2>2. nodes[m].files[i] # n /\ nodes[m].files[i] \in DOMAIN nodes
    BY <2>1, <1>1, <1>5
  <2>3. nodes[nodes[m].files[i]].num_block = 0
    BY <2>1, <1>5 DEF Counted
  <2> QED BY <2>1, <2>2, <2>3
<1> QED BY <1>3, <1>4, <1>5 DEF Counted

\* write counts a block before it has one.
LEMMA Growing ==
  ASSUME OneThread, FileInv, NEW t \in Threads, WriteGrow(t), UNCHANGED changes
  PROVE  FileInv' /\ FileStep
<1> DEFINE c == call[t]
           n == c.cur
           d == [c EXCEPT !.phase = "search"]
           r == [node[n] EXCEPT !.size = node[n].size + c.size, !.num_block = node[n].num_block + 1]
<1>1. c.phase = "recheck" /\ c.token = NoToken /\ c.op = "write" /\ UNCHANGED <<store, changes>>
  BY DEF WriteGrow, At, Me
<1>2. /\ n \in DOMAIN node /\ n # Nothing /\ c.path \in Paths
      /\ FileAt(node, c.path) /\ Writes(c) = {}
  BY <1>1, FirstNamed
<1>3. /\ Len(c.path) = 1 => n = ResolveIn(node, c.path) /\ ~ node[n].dir
      /\ Len(c.path) # 1 => node[n].dir
  BY <1>1, FirstNamed
<1>4. /\ Tree(node, store, {}) /\ Call(node, store, saved, c) /\ c \in CallRecord
      /\ c.path \in Seq(Names) /\ IsForest(node) /\ saved \in Seq(Names)
  BY <1>2, Context
<1>5. CASE node[n].dir
  <2>1. Return(t, Code("error")) /\ UNCHANGED node
    BY <1>5 DEF WriteGrow, Me
  <2>2. Request(t).op = c.op /\ Request(t).path = c.path
    BY <1>1, RequestIs
  <2>3. Code("error") \in Files!Replies(t, Request(t))
    BY <2>2, <1>1, <1>3, <1>5, CodeIs DEF Files!Replies
  <2>4. c.op = "write" /\ ~ (FileAt(node, c.path) /\ Len(c.path) = 1)
    BY <1>1, <1>3, <1>5
  <2> QED BY <1>1, <1>2, <2>1, <2>3, <2>4, Tells
<1>6. CASE ~ node[n].dir
  <2>1. node' = [node EXCEPT ![n] = r] /\ Proceed(t, "search")
    BY <1>6 DEF WriteGrow, Me
  <2>2. call' = [call EXCEPT ![t] = d] /\ UNCHANGED <<saved, reply, errno, cached>>
    BY <2>1 DEF Proceed
  <2>3. Len(c.path) = 1 /\ n = ResolveIn(node, c.path)
    BY <1>3, <1>6
  <2>4. /\ d \in CallRecord /\ d.phase = "search" /\ d.op = c.op /\ d.path = c.path
        /\ d.data = c.data /\ d.first = c.first /\ d.size = c.size /\ d.parent = c.parent
        /\ d.cur = n /\ d.token = NoToken
    BY <1>1, <1>4 DEF CallRecord, Phases
  <2>5. node[n] \in NodeRecord
    BY <1>2, NodeIs
  <2>6. /\ r \in NodeRecord /\ r.name = node[n].name /\ r.dir = node[n].dir
        /\ r.files = node[n].files /\ r.block = node[n].block
        /\ r.num_block = node[n].num_block + 1 /\ r.size = node[n].size + c.size
    <3>0. c.size \in Nat
      BY <1>4 DEF CallRecord
    <3>1. node[n].size + c.size \in Int /\ node[n].num_block + 1 \in Int
      BY <2>5, <3>0 DEF NodeRecord
    <3> DEFINE o == node[n]
               a == o.size + c.size
               b == o.num_block + 1
    <3>2. r = [o EXCEPT !.size = a, !.num_block = b]
      OBVIOUS
    <3>3. o \in NodeRecord /\ a \in Int /\ b \in Int
      BY <2>5, <3>1
    <3> HIDE DEF r, o, a, b
    <3>4. /\ r \in NodeRecord /\ r.name = o.name /\ r.dir = o.dir
          /\ r.files = o.files /\ r.block = o.block
          /\ r.num_block = b /\ r.size = a
      BY <3>2, <3>3 DEF NodeRecord
    <3> QED BY <3>4 DEF o, a, b
  <2> HIDE DEF r, d
  <2>7. /\ node'[n] = r /\ DOMAIN node' = DOMAIN node
        /\ \A m \in DOMAIN node \ {n} : node'[m] = node[m]
    BY <1>2, <2>1
  <2>8. Shaped(node, store) /\ Charted(node) /\ Counted(node, {}) /\ Stored(store)
    BY <1>4 DEF Tree
  <2>9. store' = store /\ Len(store) \in Nat /\ r.block \in [1 .. MaxBlocks -> 0 .. Len(store)]
    BY <1>1, <1>2, <2>6, <2>8 DEF Shaped, Stored
  <2>10. Shaped(node', store) /\ Charted(node')
    <3>1. Len(store) <= Len(store)
      BY <2>9
    <3>2. node' \in Seq(NodeRecord)
      BY <1>2, <2>1, <2>6, <2>8 DEF Shaped
    <3>3. /\ node'[n].name = node[n].name /\ node'[n].dir = node[n].dir
          /\ node'[n].files = node[n].files
          /\ node'[n].block \in [1 .. MaxBlocks -> 0 .. Len(store)]
      BY <2>6, <2>7, <2>9
    <3> QED BY <1>2, <2>7, <2>8, <2>9, <3>1, <3>2, <3>3, Altered
  <2>11. ASSUME NEW p \in Seq(Names) PROVE ResolveIn(node', p) = ResolveIn(node, p)
    <3>1. \A m \in DOMAIN node : Kids(node', m) = Kids(node, m) /\ node'[m].name = node[m].name
      BY <2>6, <2>7 DEF Kids
    <3> QED BY <3>1, <1>4, <2>7, SamePaths
  <2>12. PICK k \in 0 .. MaxBlocks : Fills(node, n, k) /\ node[n].num_block = k
    BY <1>2, <1>6, <2>8 DEF Counted
  <2>13. Counted(node', {n})
    <3>1. Fills(node', n, k)
      BY <2>6, <2>7, <2>12 DEF Fills
    <3>2. ~ node'[n].dir /\ node'[n].files = node[n].files /\ node'[n].num_block = k + 1
      BY <1>6, <2>6, <2>7, <2>12
    <3>3. \A m \in DOMAIN node : \A i \in DOMAIN node[m].files : node[m].files[i] = n => m = Root
      BY <1>2, <1>4, <2>3, RootLists
    <3>4. n \in {n} /\ {} \subseteq {n} /\ {n} \subseteq {n}
      OBVIOUS
    <3> QED BY <1>2, <1>4, <1>6, <2>7, <2>8, <3>1, <3>2, <3>3, <3>4, CountedAltered
  <2>14. Writes(d) = {n}
    BY <1>1, <2>4 DEF Writes
  <2>15. Tree(node', store', Writes(d))
    BY <2>8, <2>9, <2>10, <2>13, <2>14 DEF Tree
  <2>16. Call(node', store', saved', d)
    <3>1. Writing(node', d)
      BY <1>1, <1>4, <1>6, <2>3, <2>4, <2>6, <2>7, <2>11 DEF Writing
    <3>2. d.cur \in DOMAIN node' /\ d.parent \in DOMAIN node'
      BY <1>4, <2>4, <2>7, <1>2 DEF Call
    <3> QED BY <3>1, <3>2, <1>1, <1>4, <2>4 DEF Call
  <2>17. EntryIn(node', store', {n}, n) = EntryIn(node, store, {}, n)
    <3>1. DataIn(node', store', n) = DataIn(node, store, n)
      <4>1. node[n].block \in [1 .. MaxBlocks -> 0 .. Len(store)] /\ node'[n].block = node[n].block
        BY <2>6, <2>7, <2>9
      <4> QED BY <4>1, <2>9, <2>12, DataSame
    <3>2. node'[n].size - Amount = node[n].size - 0
      <4>1. Amount = c.size /\ c.size \in Nat /\ node[n].size \in Int
        BY <1>4, <2>5, AmountIs DEF CallRecord, NodeRecord
      <4>2. node'[n].size = node[n].size + c.size
        BY <2>6, <2>7
      <4> QED BY <4>1, <4>2
    <3> QED BY <3>1, <3>2, <1>2, <1>6, <2>6, <2>7 DEF EntryIn
  <2> DEFINE w == {n}
  <2>18. \A m : m \in w <=> m = n
    OBVIOUS
  <2>20. EntryIn(node', store', w, n) = EntryIn(node, store, {}, n)
    BY <2>17
  <2>21. Writes(d) = w
    BY <2>14
  <2> HIDE DEF w
  <2>22. TreeIn(node', store', w) = TreeIn(node, store, {})
    <3>1. ASSUME NEW m \in DOMAIN node \ {ResolveIn(node, c.path)}
          PROVE EntryIn(node', store', w, m) = EntryIn(node, store, {}, m)
      <4>1. node'[m] = node[m] /\ m \notin w /\ m \in DOMAIN node
        BY <2>3, <2>7, <2>18
      <4>2. PICK j \in 0 .. MaxBlocks : Fills(node, m, j)
        BY <4>1, <2>8, FilledTo
      <4>3. node[m].block \in [1 .. MaxBlocks -> 0 .. Len(store)]
        BY <4>1, <2>8 DEF Shaped
      <4> QED BY <4>1, <4>2, <4>3, <2>9, EntrySame
    <3>2. TreeIn(node', store', w) =
            [TreeIn(node, store, {}) EXCEPT
               ![c.path] = EntryIn(node', store', w, ResolveIn(node, c.path))]
      <4>1. c.path \in Paths \cup {<<>>} /\ ResolveIn(node, c.path) # Nothing
        BY <1>2, <2>3
      <4>2. \A p \in Seq(Names) : ResolveIn(node', p) = ResolveIn(node, p)
        BY <2>11
      <4> QED BY <3>1, <4>1, <4>2, <1>4, TreeAltered
    <3>3. TreeIn(node, store, {})[c.path] = EntryIn(node, store, {}, n)
      BY <1>2, <2>3 DEF TreeIn
    <3>4. TreeIn(node', store', w) = [TreeIn(node, store, {}) EXCEPT ![c.path] = TreeIn(node, store, {})[c.path]]
      BY <3>2, <3>3, <2>3, <2>20
    <3> QED BY <3>4 DEF TreeIn
  <2>19. saved' \in Seq(Names) /\ TreeIn(node', store', Writes(d)) = TreeIn(node, store, Writes(c))
    BY <1>2, <1>4, <2>2, <2>21, <2>22
  <2> QED BY <1>1, <2>2, <2>4, <2>15, <2>16, <2>19, Goes
<1> QED BY <1>5, <1>6

\* A file that is written: its blocks, of which the last has no index yet.
LEMMA WritingAt ==
  ASSUME OneThread, FileInv, NEW t \in Threads, call[t].phase \in {"search", "store"}
  PROVE  /\ call[t].op = "write" /\ Len(call[t].path) = 1 /\ call[t].path \in Paths
         /\ call[t].cur = ResolveIn(node, call[t].path) /\ ~ node[call[t].cur].dir
         /\ call[t].cur \in DOMAIN node /\ call[t].cur # Nothing /\ call[t].data \in Blocks
         /\ Writes(call[t]) = {call[t].cur} /\ call[t].token = NoToken
         /\ \E k \in 0 .. MaxBlocks : Fills(node, call[t].cur, k) /\ node[call[t].cur].num_block = k + 1
<1> DEFINE c == call[t]
<1>1. /\ Tree(node, store, Writes(c)) /\ Call(node, store, saved, c)
      /\ c.path \in Seq(Names) /\ c.cur \in DOMAIN node /\ Nothing \notin DOMAIN node
      /\ c.path \in Paths \cup {<<>>}
  BY Context
<1>2. Writing(node, c)
  BY <1>1 DEF Call
<1>3. /\ c.op = "write" /\ Len(c.path) = 1 /\ c.cur = ResolveIn(node, c.path) /\ ~ node[c.cur].dir
      /\ c.token = NoToken
  BY <1>2 DEF Writing
<1>4. c.data \in Blocks
  BY <1>1, <1>3 DEF Call
<1>5. c.path # <<>>
  BY <1>1, <1>3, OneName
<1>6. Writes(c) = {c.cur}
  BY <1>3 DEF Writes
<1>7. \E k \in 0 .. MaxBlocks : Fills(node, c.cur, k) /\ node[c.cur].num_block = k + 1
  <2>1. c.cur \in Writes(c) /\ Counted(node, Writes(c))
    BY <1>1, <1>6 DEF Tree
  <2> QED BY <1>1, <1>3, <2>1 DEF Counted
<1> QED BY <1>1, <1>3, <1>4, <1>5, <1>6, <1>7

\* The array has no place for the block that has been counted.
LEMMA Overflowing ==
  ASSUME OneThread, FileInv, NEW t \in Threads, call[t].phase \in {"search", "store"},
         node[call[t].cur].num_block \notin 1 .. MaxBlocks, Crash, UNCHANGED changes
  PROVE  FileInv' /\ FileStep
<1> DEFINE c == call[t]
<1>1. /\ c.op = "write" /\ Len(c.path) = 1 /\ c.path \in Paths
      /\ c.cur = ResolveIn(node, c.path) /\ ~ node[c.cur].dir /\ c.cur # Nothing
  BY WritingAt
<1>2. PICK k \in 0 .. MaxBlocks : Fills(node, c.cur, k) /\ node[c.cur].num_block = k + 1
  BY WritingAt
<1>3. k = MaxBlocks
  BY <1>2, FileSystemAssumption
<1>4. FilledIn(node, c.cur) = k
  BY <1>2, FilledIs
<1>5. TreeNow[c.path].log = DataIn(node, store, c.cur)
  <2>1. TreeNow[c.path] = EntryIn(node, store, Writes(c), ResolveIn(node, c.path))
    BY <1>1, Seen, SMTT(30)
  <2> QED BY <2>1, <1>1 DEF EntryIn
<1>6. Len(DataIn(node, store, c.cur)) = MaxBlocks
  <2>1. DataIn(node, store, c.cur) = [i \in 1 .. k |-> store[node[c.cur].block[i]][1]]
    BY <1>4 DEF DataIn
  <2> QED BY <2>1, <1>3, FileSystemAssumption
<1>7. Files!IsFile(c.path)
  BY <1>1, Seen DEF FileAt
<1>8. Fatal(t)
  BY <1>1, <1>5, <1>6, <1>7 DEF Fatal, Me
<1> QED BY <1>1, <1>8, Dies

\* What is written is taken to be longer than a block.
LEMMA Overrunning ==
  ASSUME OneThread, FileInv, NEW t \in Threads, Overrun(t), UNCHANGED changes
  PROVE  FileInv' /\ FileStep
<1> DEFINE c == call[t]
<1>1. c.phase = "search" /\ c.size > BlockSize /\ Crash
  BY DEF Overrun, At, Me
<1>2. /\ c.op = "write" /\ Len(c.path) = 1 /\ c.path \in Paths
      /\ c.cur = ResolveIn(node, c.path) /\ ~ node[c.cur].dir /\ c.cur # Nothing
  BY <1>1, WritingAt
<1>3. Files!IsFile(c.path)
  BY <1>2, Seen DEF FileAt
<1>4. Fatal(t)
  BY <1>1, <1>2, <1>3 DEF Fatal, Me
<1> QED BY <1>1, <1>4, Dies

LEMMA BlockPut ==
  ASSUME NEW o \in NodeRecord, NEW b, b \in [1 .. MaxBlocks -> Nat], NEW r, r = [o EXCEPT !.block = b]
  PROVE  /\ r \in NodeRecord /\ r.name = o.name /\ r.dir = o.dir /\ r.files = o.files
         /\ r.block = b /\ r.num_block = o.num_block /\ r.size = o.size
BY DEF NodeRecord

\* A file in the root directory gets the index of one more block.
BlockAdded(nodes, others, blocks, more, n, k, slot) ==
  /\ DOMAIN others = DOMAIN nodes /\ \A m \in DOMAIN nodes \ {n} : others[m] = nodes[m]
  /\ others[n] \in NodeRecord /\ others[n].name = nodes[n].name /\ others[n].dir = nodes[n].dir
  /\ others[n].files = nodes[n].files /\ others[n].num_block = nodes[n].num_block
  /\ others[n].size = nodes[n].size
  /\ others[n].block \in [1 .. MaxBlocks -> 0 .. Len(more)]
  /\ others[n].block[k + 1] = slot
  /\ \A i \in 1 .. MaxBlocks : i # k + 1 => others[n].block[i] = nodes[n].block[i]
  /\ Len(blocks) \in Nat /\ Len(more) \in Nat /\ Len(blocks) <= Len(more)
  /\ \A j \in 1 .. Len(blocks) : more[j] = blocks[j]
  /\ k \in 0 .. MaxBlocks /\ k + 1 \in 1 .. MaxBlocks /\ slot \in 1 .. Len(more)
  /\ Fills(nodes, n, k) /\ nodes[n].num_block = k + 1

LEMMA AddedFills ==
  ASSUME NEW nodes, NEW others, NEW blocks, NEW more, NEW n, NEW k, NEW slot,
         BlockAdded(nodes, others, blocks, more, n, k, slot)
  PROVE  Fills(others, n, k + 1)
<1>1. MaxBlocks \in Nat /\ k \in Nat /\ slot \in Nat \ {0}
  BY FileSystemAssumption DEF BlockAdded
<1> SUFFICES ASSUME NEW i \in 1 .. MaxBlocks PROVE others[n].block[i] = NoBlock <=> i > k + 1
  BY DEF Fills
<1>2. nodes[n].block[i] = NoBlock <=> i > k
  BY DEF BlockAdded, Fills
<1>3. CASE i = k + 1
  <2>1. others[n].block[i] = slot
    BY <1>3 DEF BlockAdded
  <2> QED BY <1>1, <1>3, <2>1 DEF NoBlock
<1>4. CASE i # k + 1
  <2>1. others[n].block[i] = nodes[n].block[i]
    BY <1>4 DEF BlockAdded
  <2>2. i > k <=> i > k + 1
    BY <1>1, <1>4
  <2> QED BY <1>2, <2>1, <2>2
<1> QED BY <1>3, <1>4

LEMMA AddedTree ==
  ASSUME NEW nodes, NEW others, NEW blocks, NEW more, NEW n \in DOMAIN nodes, NEW k, NEW slot, NEW w, NEW v,
         BlockAdded(nodes, others, blocks, more, n, k, slot), others \in Seq(NodeRecord),
         NEW path \in Seq(Names), Len(path) = 1, n = ResolveIn(nodes, path), n # Nothing, ~ nodes[n].dir,
         w \subseteq {n}, v = {}, Tree(nodes, blocks, w), Stored(more)
  PROVE  Tree(others, more, v)
<1>1. Shaped(nodes, blocks) /\ Charted(nodes) /\ Counted(nodes, w) /\ IsForest(nodes)
  BY DEF Tree, Shaped
<1>2. /\ DOMAIN others = DOMAIN nodes /\ \A m \in DOMAIN nodes \ {n} : others[m] = nodes[m]
      /\ others[n].name = nodes[n].name /\ others[n].dir = nodes[n].dir
      /\ others[n].files = nodes[n].files
      /\ others[n].block \in [1 .. MaxBlocks -> 0 .. Len(more)]
      /\ Len(blocks) \in Nat /\ Len(more) \in Nat /\ Len(blocks) <= Len(more)
  BY DEF BlockAdded
<1>3. Shaped(others, more) /\ Charted(others)
  BY <1>1, <1>2, Altered
<1>4. Counted(others, v)
  <2> DEFINE j == k + 1
  <2>1. j \in 0 .. MaxBlocks /\ Fills(others, n, j) /\ others[n].num_block = j
    <3>1. Fills(others, n, k + 1)
      BY AddedFills
    <3>2. k + 1 \in 0 .. MaxBlocks /\ others[n].num_block = k + 1
      BY FileSystemAssumption DEF BlockAdded
    <3> QED BY <3>1, <3>2
  <2> HIDE DEF j
  <2>2. \A m \in DOMAIN nodes : \A i \in DOMAIN nodes[m].files : nodes[m].files[i] = n => m = Root
    BY <1>1, RootLists
  <2>3. v \subseteq {n} /\ n \notin v /\ ~ others[n].dir
    BY <1>2
  <2>4. others[n].num_block = IF n \in v THEN j + 1 ELSE j
    BY <2>1, <2>3
  <2> QED BY <1>1, <1>2, <2>1, <2>2, <2>3, <2>4, CountedAltered
<1> QED BY <1>3, <1>4 DEF Tree

LEMMA AddedData ==
  ASSUME NEW nodes, NEW others, NEW blocks, NEW more, NEW n \in DOMAIN nodes, NEW k, NEW slot,
         BlockAdded(nodes, others, blocks, more, n, k, slot), Shaped(nodes, blocks)
  PROVE  /\ Len(DataIn(nodes, blocks, n)) = k
         /\ DataIn(others, more, n) = Append(DataIn(nodes, blocks, n), more[slot][1])
<1> DEFINE f == DataIn(nodes, blocks, n)
           g == DataIn(others, more, n)
           x == more[slot][1]
<1>1. k \in 0 .. MaxBlocks /\ k + 1 \in 0 .. MaxBlocks /\ k \in Nat /\ MaxBlocks \in Nat /\ k + 1 <= MaxBlocks
  BY FileSystemAssumption DEF BlockAdded
<1>2. FilledIn(nodes, n) = k
  BY <1>1, FilledIs DEF BlockAdded
<1>3. FilledIn(others, n) = k + 1
  <2> DEFINE j == k + 1
  <2>1. j \in 0 .. MaxBlocks /\ Fills(others, n, j)
    BY <1>1, AddedFills
  <2> HIDE DEF j
  <2>2. FilledIn(others, n) = j
    BY <2>1, FilledIs
  <2> QED BY <2>2 DEF j
<1>4. f = [i \in 1 .. k |-> blocks[nodes[n].block[i]][1]] /\ g = [i \in 1 .. k + 1 |-> more[others[n].block[i]][1]]
  BY <1>2, <1>3 DEF DataIn
<1>5. ASSUME NEW i \in 1 .. k PROVE g[i] = f[i]
  <2>1. i \in 1 .. MaxBlocks /\ i # k + 1 /\ ~ (i > k) /\ i \in 1 .. k + 1
    BY <1>1
  <2>2. others[n].block[i] = nodes[n].block[i]
    BY <2>1 DEF BlockAdded
  <2>3. nodes[n].block[i] \in 0 .. Len(blocks) /\ nodes[n].block[i] # NoBlock
    BY <2>1 DEF Shaped, Fills, BlockAdded
  <2>4. nodes[n].block[i] \in 1 .. Len(blocks)
    <3>1. Len(blocks) \in Nat
      BY DEF BlockAdded
    <3> QED BY <3>1, <2>3 DEF NoBlock
  <2>5. more[nodes[n].block[i]] = blocks[nodes[n].block[i]]
    BY <2>4 DEF BlockAdded
  <2>6. g[i] = more[others[n].block[i]][1] /\ f[i] = blocks[nodes[n].block[i]][1]
    BY <2>1, <1>4
  <2> QED BY <2>2, <2>5, <2>6
<1>6. g[k + 1] = x
  <2>1. others[n].block[k + 1] = slot
    BY DEF BlockAdded
  <2>2. k + 1 \in 1 .. k + 1
    BY <1>1
  <2> QED BY <2>1, <2>2, <1>4
<1>7. f = [i \in 1 .. k |-> f[i]] /\ g = [i \in 1 .. k + 1 |-> g[i]]
  BY <1>4
<1> HIDE DEF f, g, x
<1>8. Len(f) = k /\ DOMAIN f = 1 .. k
  BY <1>7, <1>1
<1>9. Append(f, x) = [i \in 1 .. k + 1 |-> IF i = k + 1 THEN x ELSE f[i]]
  BY <1>7, <1>8, <1>1
<1>10. \A i \in 1 .. k + 1 : g[i] = IF i = k + 1 THEN x ELSE f[i]
  <2> SUFFICES ASSUME NEW i \in 1 .. k + 1 PROVE g[i] = IF i = k + 1 THEN x ELSE f[i]
    OBVIOUS
  <2>1. CASE i = k + 1
    BY <2>1, <1>6
  <2>2. CASE i # k + 1
    <3>1. i \in 1 .. k
      BY <2>2, <1>1
    <3> QED BY <2>2, <3>1, <1>5
  <2> QED BY <2>1, <2>2
<1>11. g = Append(f, x)
  BY <1>7, <1>9, <1>10
<1> QED BY <1>8, <1>11 DEF f, g, x

LEMMA TreePut ==
  ASSUME NEW nodes, NEW others, NEW blocks, NEW more, NEW w, NEW v, IsForest(nodes),
         NEW path, path \in Paths \cup {<<>>}, NEW n, n = ResolveIn(nodes, path), n # Nothing,
         \A p \in Seq(Names) : ResolveIn(others, p) = ResolveIn(nodes, p),
         \A m \in DOMAIN nodes : m # n => EntryIn(others, more, v, m) = EntryIn(nodes, blocks, w, m),
         NEW e, e = EntryIn(others, more, v, n)
  PROVE  TreeIn(others, more, v) = [TreeIn(nodes, blocks, w) EXCEPT ![path] = e]
BY TreeAltered

PutAt(f, path, e, g) == g = [f EXCEPT ![path] = e]

LEMMA AddedTreeIn ==
  ASSUME NEW nodes, NEW others, NEW blocks, NEW more, NEW n \in DOMAIN nodes, NEW k, NEW slot, NEW w, NEW v,
         BlockAdded(nodes, others, blocks, more, n, k, slot),
         NEW path, path \in Paths \cup {<<>>}, n = ResolveIn(nodes, path), n # Nothing, ~ nodes[n].dir,
         \A m : m \in w <=> m = n, v = {}, Tree(nodes, blocks, w),
         NEW e, e = [kind |-> "file", size |-> nodes[n].size - 0,
                     log |-> Append(DataIn(nodes, blocks, n), more[slot][1])]
  PROVE  PutAt(TreeIn(nodes, blocks, w), path, e, TreeIn(others, more, v))
<1>1. Shaped(nodes, blocks) /\ Counted(nodes, w) /\ IsForest(nodes)
  BY DEF Tree, Shaped
<1>2. /\ DOMAIN others = DOMAIN nodes /\ \A m \in DOMAIN nodes \ {n} : others[m] = nodes[m]
      /\ others[n].name = nodes[n].name /\ others[n].dir = nodes[n].dir
      /\ others[n].files = nodes[n].files /\ others[n].size = nodes[n].size
      /\ Len(blocks) \in Nat /\ \A j \in 1 .. Len(blocks) : more[j] = blocks[j]
  BY DEF BlockAdded
<1>3. \A p \in Seq(Names) : ResolveIn(others, p) = ResolveIn(nodes, p)
  <2>1. \A m \in DOMAIN nodes : Kids(others, m) = Kids(nodes, m) /\ others[m].name = nodes[m].name
    BY <1>2 DEF Kids
  <2>2. ASSUME NEW p \in Seq(Names) PROVE ResolveIn(others, p) = ResolveIn(nodes, p)
    BY <2>1, <1>1, <1>2, SamePaths
  <2> QED BY <2>2
<1>4. \A m \in DOMAIN nodes : m # n => EntryIn(others, more, v, m) = EntryIn(nodes, blocks, w, m)
  <2> SUFFICES ASSUME NEW m \in DOMAIN nodes, m # n
               PROVE  EntryIn(others, more, v, m) = EntryIn(nodes, blocks, w, m)
    OBVIOUS
  <2>1. others[m] = nodes[m]
    BY <1>2
  <2>2. m \in w <=> m \in v
    OBVIOUS
  <2>3. PICK j \in 0 .. MaxBlocks : Fills(nodes, m, j)
    BY <1>1, FilledTo
  <2>4. nodes[m].block \in [1 .. MaxBlocks -> 0 .. Len(blocks)]
    BY <1>1 DEF Shaped
  <2>5. others[m].block = nodes[m].block /\ others[m].dir = nodes[m].dir /\ others[m].size = nodes[m].size
    BY <2>1
  <2> QED BY <1>2, <2>2, <2>3, <2>4, <2>5, EntrySame
<1>6. EntryIn(others, more, v, n) = e
  <2>1. DataIn(others, more, n) = Append(DataIn(nodes, blocks, n), more[slot][1])
    BY <1>1, AddedData
  <2>2. n \notin v /\ ~ others[n].dir
    BY <1>2
  <2> QED BY <2>1, <2>2, <1>2 DEF EntryIn
<1> QED BY <1>1, <1>3, <1>4, <1>6, TreePut DEF PutAt
Grown(e, i, a) == [e EXCEPT !.log = a, !.size = i]

LEMMA LogGrows ==
  ASSUME NEW i, NEW j, NEW a, NEW log, NEW kind, NEW e, e = [kind |-> kind, size |-> j, log |-> log]
  PROVE  [kind |-> kind, size |-> i, log |-> a] = Grown(e, i, a)
<1> DEFINE f == [e EXCEPT !.log = a, !.size = i]
           g == [kind |-> kind, size |-> i, log |-> a]
           D == {"kind", "size", "log"}
<1>1. DOMAIN e = D /\ e.kind = kind
  OBVIOUS
<1>2. f = [x \in D |-> f[x]] /\ g = [x \in D |-> g[x]]
  BY <1>1
<1>3. f.kind = kind /\ f.size = i /\ f.log = a
  BY <1>1
<1>4. g.kind = kind /\ g.size = i /\ g.log = a
  OBVIOUS
<1> HIDE DEF f, g
<1>5. \A x \in D : f[x] = g[x]
  BY <1>3, <1>4
<1> QED BY <1>2, <1>5 DEF f, g, Grown

\* What may stand for each of the contents: what a block holds that hashes alike.
Twins == [data \in Contents |->
            {b[1] : b \in {b \in Blocks : \E r \in Residues :
               <<data, r>> \in Blocks /\ Hash[b] = Hash[<<data, r>>]}}]

LEMMA TwinIs ==
  ASSUME NEW b \in Blocks, NEW data \in Blocks, Hash[b] = Hash[data]
  PROVE  b[1] \in Twins[data[1]]
<1>1. data[1] \in Contents /\ data[2] \in Residues /\ data = <<data[1], data[2]>>
  BY DEF Blocks
<1> DEFINE x == data[1]
           r == data[2]
<1>2. x \in Contents /\ r \in Residues /\ <<x, r>> \in Blocks /\ Hash[b] = Hash[<<x, r>>]
  BY <1>1
<1> HIDE DEF x, r
<1>3. b[1] \in Twins[x]
  BY <1>2 DEF Twins
<1> QED BY <1>3 DEF x

\* A file's array gets the index of a block that hashes like what is written.
LEMMA Pointing ==
  ASSUME OneThread, FileInv, NEW t \in Threads, call[t].phase \in {"search", "store"},
         node[call[t].cur].num_block \in 1 .. MaxBlocks,
         Len(store) \in Nat, Len(store') \in Nat, Len(store) <= Len(store'), NEW slot, slot \in 1 .. Len(store'),
         node' = [node EXCEPT ![call[t].cur].block[node[call[t].cur].num_block] = slot],
         Stored(store'), \A j \in 1 .. Len(store) : store'[j] = store[j],
         store'[slot] \in Blocks, Hash[store'[slot]] = Hash[call[t].data],
         Return(t, Code("written")), UNCHANGED changes
  PROVE  FileInv' /\ FileStep
<1> DEFINE c == call[t]
           n == c.cur
           o == node[n]
           b == [o.block EXCEPT ![o.num_block] = slot]
           r == [o EXCEPT !.block = b]
           w == Writes(c)
           v == {}
           more == store'
           others == node'
           put == store'[slot][1]
<1>1. /\ c.op = "write" /\ Len(c.path) = 1 /\ c.path \in Paths /\ n = ResolveIn(node, c.path)
      /\ ~ o.dir /\ n \in DOMAIN node /\ n # Nothing /\ w = {n}
  BY WritingAt
<1>2. PICK k \in 0 .. MaxBlocks : Fills(node, n, k) /\ o.num_block = k + 1
  BY WritingAt
<1>3. Tree(node, store, w) /\ IsForest(node) /\ c.path \in Seq(Names)
  BY Context
<1>4. Shaped(node, store) /\ Stored(store) /\ node \in Seq(NodeRecord) /\ o \in NodeRecord
  BY <1>1, <1>3, NodeIs DEF Tree, Shaped
<1>5. MaxBlocks \in Nat /\ k + 1 \in 1 .. MaxBlocks /\ k \in Nat
  BY <1>2, FileSystemAssumption
<1>6. /\ Len(store) \in Nat /\ Len(more) \in Nat /\ Len(store) <= Len(more) /\ slot \in 1 .. Len(more)
      /\ Stored(more) /\ \A j \in 1 .. Len(store) : more[j] = store[j]
      /\ more[slot][1] = put
  OBVIOUS
<1>60. put \in Twins[c.data[1]] /\ c.size \in Nat /\ Amount = c.size
  <2>1. c \in CallRecord /\ c.data \in Blocks
    BY Context, WritingAt
  <2>2. c.size \in Nat
    BY <2>1 DEF CallRecord
  <2>3. Amount = c.size
    BY AmountIs
  <2> QED BY <2>1, <2>2, <2>3, TwinIs
<1>7. others = [node EXCEPT ![n] = r] /\ o.block \in [1 .. MaxBlocks -> 0 .. Len(store)]
  BY <1>1, <1>4 DEF Shaped
<1>8. (\A m : m \in w <=> m = n) /\ w \subseteq {n} /\ v = {}
  BY <1>1
<1>9. more = store' /\ others = node' /\ w = Writes(c) /\ o = node[n]
  OBVIOUS
<1> HIDE DEF more, others, w, v, put
<1>10. b \in [1 .. MaxBlocks -> 0 .. Len(more)] /\ b[k + 1] = slot
       /\ \A i \in 1 .. MaxBlocks : i # k + 1 => b[i] = o.block[i]
  <2> DEFINE a == o.block
             z == Len(more)
             y == Len(store)
             q == k + 1
  <2>1. /\ a \in [1 .. MaxBlocks -> 0 .. y] /\ z \in Nat /\ y \in Nat /\ y <= z /\ slot \in 1 .. z
        /\ q \in 1 .. MaxBlocks /\ b = [a EXCEPT ![q] = slot]
    BY <1>2, <1>5, <1>6, <1>7
  <2> HIDE DEF a, z, y, q, b
  <2>2. b \in [1 .. MaxBlocks -> 0 .. z] /\ b[q] = slot /\ \A i \in 1 .. MaxBlocks : i # q => b[i] = a[i]
    BY <2>1
  <2> QED BY <2>2 DEF a, z, q
<1>11. r = [o EXCEPT !.block = b]
  OBVIOUS
<1> HIDE DEF b, r
<1>12. /\ r \in NodeRecord /\ r.name = o.name /\ r.dir = o.dir /\ r.files = o.files
       /\ r.block = b /\ r.num_block = o.num_block /\ r.size = o.size
  <2>1. b \in [1 .. MaxBlocks -> Nat]
    BY <1>6, <1>10
  <2>2. o \in NodeRecord
    BY <1>4
  <2> HIDE DEF o
  <2> QED BY ONLY <1>11, <2>1, <2>2, BlockPut
<1>13. /\ others[n] = r /\ DOMAIN others = DOMAIN node
       /\ (\A m \in DOMAIN node \ {n} : others[m] = node[m]) /\ others \in Seq(NodeRecord)
  BY <1>1, <1>4, <1>7, <1>12
<1>140. n \in DOMAIN node /\ n = ResolveIn(node, c.path) /\ n # Nothing /\ ~ node[n].dir /\ o = node[n]
  BY <1>1
<1> HIDE DEF n
<1>14. BlockAdded(node, others, store, more, n, k, slot)
  BY <1>2, <1>5, <1>6, <1>10, <1>12, <1>13 DEF BlockAdded
<1>15. Tree(others, more, v)
  BY <1>1, <1>3, <1>6, <1>8, <1>13, <1>14, AddedTree
<1>16. Len(DataIn(node, store, n)) = k
  BY <1>140, <1>4, <1>14, AddedData
<1> DEFINE new == [kind |-> "file", size |-> o.size - 0, log |-> Append(DataIn(node, store, n), put)]
<1>17. TreeIn(others, more, v) = [TreeIn(node, store, w) EXCEPT ![c.path] = new]
  <2> DEFINE p == c.path
  <2>1. p \in Paths \cup {<<>>} /\ n = ResolveIn(node, p) /\ n # Nothing /\ ~ node[n].dir
    BY <1>1, <1>140
  <2>2. new = [kind |-> "file", size |-> node[n].size - 0,
               log |-> Append(DataIn(node, store, n), more[slot][1])]
    BY <1>6, <1>140
  <2> HIDE DEF p, new
  <2>3. PutAt(TreeIn(node, store, w), p, new, TreeIn(others, more, v))
    <3>1. n \in DOMAIN node /\ Tree(node, store, w) /\ (\A m : m \in w <=> m = n) /\ v = {}
      BY <1>140, <1>3, <1>8
    <3> QED BY ONLY <3>1, <1>14, <2>1, <2>2, AddedTreeIn
  <2> QED BY <2>3 DEF p, PutAt
<1>18. TreeIn(node, store, w)[c.path] =
         [kind |-> "file", size |-> o.size - c.size, log |-> DataIn(node, store, n)]
  BY <1>1, <1>8, <1>60 DEF TreeIn, EntryIn
<1>19. TreeNow = TreeIn(node, store, w) /\ TreeNow' = TreeIn(others, more, v)
  <2>1. call'[t] = Quiet /\ Writes(Quiet) = v /\ Writes(Quiet) = {}
    BY <1>8, QuietNext DEF Return
  <2> QED BY <2>1, <1>9, TreesAre
<1>20. TreeNow' = [TreeNow EXCEPT ![c.path].log = Append(@, put), ![c.path].size = @ + c.size]
  <2> DEFINE tree == TreeIn(node, store, w)
             x == put
             z == c.size
             log == DataIn(node, store, n)
             p == c.path
             s == o.size
             e == tree[p]
             i == s - 0
             j == s - z
             a == Append(log, x)
  <2>1. s \in Int /\ z \in Nat
    BY <1>4, <1>60 DEF NodeRecord
  <2>2. p \in DOMAIN tree /\ e = [kind |-> "file", size |-> j, log |-> log]
    BY <1>1, <1>18 DEF TreeIn
  <2>3. TreeNow' = [tree EXCEPT ![p] = new] /\ TreeNow = tree /\ new = [kind |-> "file", size |-> i, log |-> a]
    BY <1>17, <1>19
  <2>4. j + z = i
    BY <2>1
  <2> HIDE DEF tree, x, z, log, p, s, e, i, j, a
  <2>5. new = [e EXCEPT !.log = a, !.size = i]
    <3>1. [kind |-> "file", size |-> i, log |-> a] = Grown(e, i, a)
      BY <2>2, LogGrows
    <3> QED BY <2>3, <3>1 DEF Grown
  <2>6. e.log = log /\ e.size = j
    BY <2>2
  <2>7. [tree EXCEPT ![p].log = Append(@, x), ![p].size = @ + z]
          = [tree EXCEPT ![p] = [e EXCEPT !.log = Append(e.log, x), !.size = e.size + z]]
    BY <2>2 DEF e
  <2>8. Append(e.log, x) = a /\ e.size + z = i
    BY <2>4, <2>6 DEF a
  <2> QED BY <2>3, <2>5, <2>7, <2>8 DEF p, x, z
<1>21. TreeNow[c.path].kind = "file" /\ TreeNow[c.path].log = DataIn(node, store, n)
  BY <1>18, <1>19
<1>22. Done(t)
  <2>1. Files!IsFile(c.path) /\ Len(c.path) = 1
    BY <1>1, <1>21 DEF Files!IsFile, TreeNow
  <2>2. Len(TreeNow[c.path].log) < MaxBlocks
    <3>1. TreeNow[c.path].log = DataIn(node, store, n) /\ Len(DataIn(node, store, n)) = k
      BY <1>16, <1>21, Zenon
    <3>2. k < MaxBlocks
      BY <1>5, SMTT(30)
    <3> QED BY ONLY <3>1, <3>2
  <2>3. \E stored \in Twins[c.data[1]] :
          TreeNow' = [TreeNow EXCEPT ![c.path].log = Append(@, stored), ![c.path].size = @ + c.size]
    BY <1>20, <1>60
  <2>4. Files!AppendBlock(c.path, c.data[1], c.size)
    BY <2>1, <2>2, <2>3 DEF Files!AppendBlock, TreeNow, Twins
  <2> QED BY <2>4, <1>1 DEF Done, Me
<1>23. Code("written") \in Files!Replies(t, Request(t))
  <2>0. c.phase # "idle"
    OBVIOUS
  <2>1. Request(t).op = c.op /\ Request(t).path = c.path
    BY <2>0, RequestIs
  <2>2. Files!IsFile(c.path)
    BY <1>21 DEF Files!IsFile, TreeNow
  <2> QED BY <2>1, <2>2, <1>1, CodeIs DEF Files!Replies
<1>24. Tree(node', store', {}) /\ c.phase \notin {"idle", "crashed"} /\ c.op # "ftruncate"
  BY <1>1, <1>15 DEF others, more, v
<1> QED BY <1>22, <1>23, <1>24, Returns

LEMMA MinIs ==
  ASSUME NEW S, S \subseteq Nat, S # {}
  PROVE  Min(S) \in S
<1>1. PICK x \in S : \A y \in S : ~ (y < x)
  BY NatMinimum
<1>2. \A y \in S : x =< y
  BY <1>1
<1> QED BY <1>1, <1>2 DEF Min

\* write goes on with a block that is stored, or finds none.
LEMMA Searching ==
  ASSUME OneThread, FileInv, NEW t \in Threads, WriteSearch(t), UNCHANGED changes
  PROVE  FileInv' /\ FileStep
<1> DEFINE c == call[t]
           n == c.cur
           found == {i \in DOMAIN store : Same(i, c.data)}
           d == [c EXCEPT !.phase = "store", !.slot = Len(store) + 1]
<1>1. c.phase = "search" /\ UNCHANGED changes
  BY DEF WriteSearch, At, Me
<1>2. /\ c.op = "write" /\ Len(c.path) = 1 /\ c.path \in Paths /\ c.data \in Blocks
      /\ n = ResolveIn(node, c.path) /\ ~ node[n].dir /\ n \in DOMAIN node /\ n # Nothing
      /\ Writes(c) = {n} /\ c.token = NoToken
  BY <1>1, WritingAt
<1>3. /\ Tree(node, store, Writes(c)) /\ Call(node, store, saved, c) /\ c \in CallRecord
      /\ c.parent \in DOMAIN node /\ saved \in Seq(Names)
  BY Context
<1>4. /\ Stored(store) /\ store \in Seq(Blocks) /\ Len(store) \in Nat /\ DOMAIN store = 1 .. Len(store)
  BY <1>3 DEF Tree, Stored
<1>5. CASE found = {}
  <2>1. call' = [call EXCEPT ![t] = d] /\ UNCHANGED <<node, store, saved, reply, errno, cached>>
    BY <1>5 DEF WriteSearch, Me
  <2>2. /\ d \in CallRecord /\ d.phase = "store" /\ d.op = c.op /\ d.path = c.path
        /\ d.data = c.data /\ d.first = c.first /\ d.size = c.size /\ d.parent = c.parent
        /\ d.cur = n /\ d.slot = Len(store) + 1 /\ d.token = NoToken
    <3> DEFINE q == Len(store) + 1
    <3>1. q \in Nat /\ d = [c EXCEPT !.phase = "store", !.slot = q]
      BY <1>4
    <3> HIDE DEF q, d
    <3>2. "store" \in Phases
      BY DEF Phases
    <3> DEFINE x == c
    <3>3. x \in CallRecord /\ d = [x EXCEPT !.phase = "store", !.slot = q]
      BY <1>3, <3>1
    <3> HIDE DEF x
    <3>4. /\ d \in CallRecord /\ d.phase = "store" /\ d.op = x.op /\ d.path = x.path
          /\ d.data = x.data /\ d.first = x.first /\ d.size = x.size /\ d.parent = x.parent
          /\ d.cur = x.cur /\ d.slot = q /\ d.token = x.token
      BY <3>1, <3>2, <3>3 DEF CallRecord
    <3> QED BY <3>4, <1>2 DEF x, q
  <2> HIDE DEF d
  <2>4. Writing(node, d)
    BY <1>2, <2>2 DEF Writing
  <2>5. Storing(store, d)
    BY <2>2 DEF Storing
  <2>6. Call(node, store, saved, d)
    BY <1>2, <1>3, <2>2, <2>4, <2>5 DEF Call
  <2>7. Writes(d) = Writes(c)
    BY <1>1, <1>2, <2>2 DEF Writes
  <2>8. Tree(node', store', Writes(d)) /\ Call(node', store', saved', d) /\ saved' \in Seq(Names)
        /\ TreeIn(node', store', Writes(d)) = TreeIn(node, store, Writes(c))
    BY <1>3, <2>1, <2>6, <2>7
  <2> QED BY <1>1, <2>1, <2>2, <2>8, Goes
<1>6. CASE found # {}
  <2> DEFINE slot == Min(found)
  <2>1. slot \in DOMAIN store /\ store[slot] \in Blocks /\ Hash[store[slot]] = Hash[c.data]
    <3>1. slot \in found
      <4>1. found \subseteq Nat
        BY <1>4
      <4> HIDE DEF found
      <4> QED BY <4>1, <1>6, MinIs
    <3> HIDE DEF slot
    <3>2. slot \in DOMAIN store /\ Same(slot, c.data)
      BY <3>1
    <3> QED BY <3>2, <1>4 DEF Same
  <2>2. PointTo(n, slot, Return(t, Code("written")) /\ UNCHANGED store)
    BY <1>6, SMTT(30) DEF WriteSearch, Me
  <2> HIDE DEF slot
  <2>3. CASE node[n].num_block \in 1 .. MaxBlocks
    <3>1. node' = [node EXCEPT ![n].block[node[n].num_block] = slot]
          /\ Return(t, Code("written")) /\ UNCHANGED store
      BY <2>2, <2>3 DEF PointTo
    <3>2. /\ Len(store) \in Nat /\ Len(store') \in Nat /\ Len(store) <= Len(store')
          /\ slot \in 1 .. Len(store') /\ Stored(store')
          /\ (\A j \in 1 .. Len(store) : store'[j] = store[j])
          /\ store'[slot] \in Blocks /\ Hash[store'[slot]] = Hash[c.data]
      BY <1>4, <2>1, <3>1
    <3> QED BY <1>1, <2>3, <3>1, <3>2, Pointing
  <2>4. CASE node[n].num_block \notin 1 .. MaxBlocks
    <3>1. Crash
      BY <2>2, <2>4 DEF PointTo
    <3> QED BY <3>1, <1>1, <2>4, Overflowing
  <2> QED BY <2>3, <2>4
<1> QED BY <1>5, <1>6

LEMMA AppendFun ==
  ASSUME NEW T, NEW s \in Seq(T), NEW e
  PROVE  Append(s, e) = [i \in 1 .. Len(s) + 1 |-> IF i = Len(s) + 1 THEN e ELSE s[i]]
<1> DEFINE k == Len(s)
<1>1. s = [i \in 1 .. k |-> s[i]] /\ k \in Nat /\ Len(s) = k /\ DOMAIN s = 1 .. k
  OBVIOUS
<1> HIDE DEF k
<1>2. Append(s, e) = [i \in 1 .. k + 1 |-> IF i = k + 1 THEN e ELSE s[i]]
  BY <1>1
<1> QED BY <1>2 DEF k

\* A block put behind the others.
LEMMA StoreGrows ==
  ASSUME NEW blocks, Stored(blocks), NEW x \in Blocks,
         NEW more, more = [Append(blocks, Unwritten) EXCEPT ![Len(blocks) + 1] = x]
  PROVE  /\ Stored(more) /\ Len(blocks) \in Nat /\ Len(more) = Len(blocks) + 1
         /\ \A j \in 1 .. Len(blocks) : more[j] = blocks[j]
         /\ more[Len(blocks) + 1] = x
<1> DEFINE n == Len(blocks)
<1>1. blocks \in Seq(Blocks) /\ n \in Nat /\ DOMAIN blocks = 1 .. n
  BY DEF Stored
<1>2. more = Append(blocks, x)
  <2>1. Append(blocks, Unwritten) = [i \in 1 .. n + 1 |-> IF i = n + 1 THEN Unwritten ELSE blocks[i]]
    BY <1>1, AppendFun
  <2>2. Append(blocks, x) = [i \in 1 .. n + 1 |-> IF i = n + 1 THEN x ELSE blocks[i]]
    BY <1>1, AppendFun
  <2>3. [[i \in 1 .. n + 1 |-> IF i = n + 1 THEN Unwritten ELSE blocks[i]] EXCEPT ![n + 1] = x]
          = [i \in 1 .. n + 1 |-> IF i = n + 1 THEN x ELSE blocks[i]]
    BY <1>1
  <2> QED BY <2>1, <2>2, <2>3
<1>3. /\ more \in Seq(Blocks) /\ Len(more) = n + 1 /\ (\A j \in 1 .. n : more[j] = blocks[j])
      /\ more[n + 1] = x
  <2> HIDE DEF n
  <2>1. Len(blocks) = n
    BY DEF n
  <2>2. Append(blocks, x) \in Seq(Blocks)
    BY <1>1, AppendIs
  <2>3. Len(Append(blocks, x)) = n + 1
    BY <1>1, <2>1, AppendIs
  <2>4. \A j \in 1 .. n : Append(blocks, x)[j] = blocks[j]
    BY <1>1, <2>1, AppendIs
  <2>5. Append(blocks, x)[n + 1] = x
    BY <1>1, <2>1, AppendIs
  <2> QED BY <1>2, <2>2, <2>3, <2>4, <2>5
<1> QED BY <1>1, <1>3 DEF Stored

\* write stores the block.
LEMMA StoringStep ==
  ASSUME OneThread, FileInv, NEW t \in Threads, WriteStore(t), UNCHANGED changes
  PROVE  FileInv' /\ FileStep
<1> DEFINE c == call[t]
           n == c.cur
           slot == c.slot
           more == [Append(store, Unwritten) EXCEPT ![slot] = c.data]
<1>1. c.phase = "store"
  BY DEF WriteStore, At, Me
<1>2. c.data \in Blocks
  BY <1>1, WritingAt
<1>3. Stored(store) /\ Storing(store, c)
  BY <1>1, Context DEF Tree, Call
<1>4. slot = Len(store) + 1
  BY <1>3 DEF Storing
<1>5. more = [Append(store, Unwritten) EXCEPT ![Len(store) + 1] = c.data]
  BY <1>4
<1>6. PointTo(n, slot, store' = more /\ Return(t, Code("written")))
  BY DEF WriteStore, Me
<1> HIDE DEF more
<1>7. /\ Stored(more) /\ Len(store) \in Nat /\ Len(more) = Len(store) + 1
      /\ (\A j \in 1 .. Len(store) : more[j] = store[j]) /\ more[Len(store) + 1] = c.data
  <2> DEFINE x == c.data
             blocks == store
  <2>1. /\ Stored(blocks) /\ x \in Blocks
        /\ more = [Append(blocks, Unwritten) EXCEPT ![Len(blocks) + 1] = x]
    BY <1>2, <1>3, <1>4, <1>5
  <2> HIDE DEF x, blocks
  <2>2. /\ Stored(more) /\ Len(blocks) \in Nat /\ Len(more) = Len(blocks) + 1
        /\ (\A j \in 1 .. Len(blocks) : more[j] = blocks[j])
        /\ more[Len(blocks) + 1] = x
    BY <2>1, StoreGrows, SMTT(30)
  <2> QED BY <2>2 DEF x, blocks
<1>8. CASE node[n].num_block \in 1 .. MaxBlocks
  <2>1. node' = [node EXCEPT ![n].block[node[n].num_block] = slot]
        /\ Return(t, Code("written")) /\ store' = more
    BY <1>6, <1>8 DEF PointTo
  <2>2. /\ Len(store) \in Nat /\ Len(store') \in Nat /\ Len(store) <= Len(store')
        /\ slot \in 1 .. Len(store') /\ Stored(store')
        /\ (\A j \in 1 .. Len(store) : store'[j] = store[j])
        /\ store'[slot] \in Blocks /\ Hash[store'[slot]] = Hash[c.data]
    BY <1>2, <1>4, <1>7, <2>1
  <2> HIDE DEF slot
  <2> QED BY <1>1, <1>8, <2>1, <2>2, Pointing
<1>9. CASE node[n].num_block \notin 1 .. MaxBlocks
  <2>1. Crash
    BY <1>6, <1>9 DEF PointTo
  <2> QED BY <2>1, <1>1, <1>9, Overflowing
<1> QED BY <1>8, <1>9
-----------------------------------------------------------------------------
(* mknod and mkdir: the name, the directory and the new node               *)

LEMMA FreeHas ==
  ASSUME NEW path, Free(node, path)
  PROVE  /\ path \in Seq(Names) /\ path # <<>> /\ path \in Paths /\ Len(path) \in Nat \ {0}
         /\ Front(path) \in Seq(Names) /\ Front(path) \in Paths \cup {<<>>}
         /\ Last(path) \in Names /\ Last(path) = path[Len(path)]
         /\ ResolveIn(node, path) = Nothing /\ ResolveIn(node, Front(path)) # Nothing
         /\ node[ResolveIn(node, Front(path))].dir
<1>1. /\ path \in Paths /\ ResolveIn(node, path) = Nothing
      /\ ResolveIn(node, Front(path)) # Nothing /\ node[ResolveIn(node, Front(path))].dir
  BY DEF Free
<1>2. path \in Seq(Names) /\ path # <<>> /\ Front(path) \in Paths \cup {<<>>}
  BY <1>1, PathsAre
<1>3. /\ Len(path) \in Nat \ {0} /\ Front(path) \in Seq(Names)
      /\ Last(path) \in Names /\ Last(path) = path[Len(path)]
  BY <1>2, Parts
<1> QED BY <1>1, <1>2, <1>3

\* On the way to where a node may be made, only the last name is not found.
LEMMA OnTheWay ==
  ASSUME NEW path, Free(node, path), IsForest(node), Nothing \notin DOMAIN node, NEW rest, NEW c,
         c.cur \in DOMAIN node, NEW k \in 0 .. Len(path) - 1, Descent(node, rest, c, path, k)
  PROVE  LET child == ChildIn(node, c.cur, c.token)
         IN /\ c.token # NoToken
            /\ child = ResolveIn(node, SubSeq(path, 1, k + 1))
            /\ child # Nothing => k + 1 \in 0 .. Len(path) - 1
            /\ child = Nothing => k + 1 = Len(path)
            /\ rest = <<>> <=> k + 1 = Len(path)
            /\ k + 1 = Len(path) => c.cur = ResolveIn(node, Front(path))
<1> DEFINE child == ChildIn(node, c.cur, c.token)
           up == Front(path)
<1>1. /\ path \in Seq(Names) /\ path # <<>> /\ Len(path) \in Nat \ {0} /\ up \in Seq(Names)
      /\ ResolveIn(node, path) = Nothing /\ ResolveIn(node, up) # Nothing
  BY FreeHas
<1>2. Scan(rest, c.token, path, k) /\ c.cur = ResolveIn(node, SubSeq(path, 1, k)) /\ c.cur # Nothing
      /\ k \in 0 .. Len(path)
  BY <1>1 DEF Descent
<1>3. c.token # NoToken
  <2>1. c.token = path[k + 1] /\ k + 1 \in 1 .. Len(path)
    BY <1>1, <1>2 DEF Scan
  <2>2. path[k + 1] \in Names
    BY <2>1, <1>1
  <2> QED BY <2>1, <2>2, FileSystemAssumption
<1>4. child = ResolveIn(node, SubSeq(path, 1, k + 1))
  BY <1>1, <1>2, <1>3, Deeper
<1>5. rest = <<>> <=> k + 1 = Len(path)
  BY <1>1, <1>2, <1>3, ScanNext
<1>6. child # Nothing => k + 1 \in 0 .. Len(path) - 1
  <2>1. SubSeq(path, 1, Len(path)) = path
    BY <1>1, WholeIs
  <2>2. k + 1 = Len(path) => child = Nothing
    BY <2>1, <1>1, <1>4
  <2> QED BY <2>2, <1>1
<1>7. child = Nothing => k + 1 = Len(path)
  <2> SUFFICES ASSUME k + 1 # Len(path) PROVE child # Nothing
    OBVIOUS
  <2>1. Len(up) = Len(path) - 1 /\ \A j \in 0 .. Len(path) - 1 : SubSeq(up, 1, j) = SubSeq(path, 1, j)
    BY <1>1, Parts
  <2>2. k + 1 \in 0 .. Len(path) - 1
    BY <1>1
  <2>3. k + 1 \in 0 .. Len(up) /\ SubSeq(up, 1, k + 1) = SubSeq(path, 1, k + 1)
    BY <2>1, <2>2
  <2> HIDE DEF up
  <2>4. ResolveIn(node, SubSeq(up, 1, k + 1)) # Nothing
    BY <2>3, <1>1, Beginnings
  <2> QED BY <2>3, <2>4, <1>4
<1>8. k + 1 = Len(path) => c.cur = ResolveIn(node, up)
  <2>1. SubSeq(path, 1, Len(path) - 1) = up
    BY <1>1, WholeIs
  <2>2. k + 1 = Len(path) => k = Len(path) - 1
    BY <1>1
  <2> QED BY <2>1, <2>2, <1>2
<1> QED BY <1>3, <1>4, <1>5, <1>6, <1>7, <1>8

\* A step of a handler that makes a node, before it makes it.
LEMMA Makes ==
  ASSUME OneThread, FileInv, NEW t \in Threads, NEW d, call' = [call EXCEPT ![t] = d],
         UNCHANGED <<node, store, reply, errno, cached, changes>>, saved' \in Seq(Names),
         call[t].op \in {"mknod", "mkdir"}, d \in CallRecord, d.cur \in DOMAIN node,
         call[t].phase \notin {"idle", "crashed"}, d.phase \in {"name", "add", "add_dir", "link"},
         d.op = call[t].op, d.path = call[t].path, d.data = call[t].data, call[t].path \in Paths,
         d.first = call[t].first, d.size = call[t].size, d.parent = call[t].parent,
         d.phase = "name" => Naming(node, saved', d),
         d.phase = "add" => d.op = "mknod" /\ Adding(node, saved', d),
         d.phase = "add_dir" => d.op = "mkdir" /\ Adding(node, saved', d),
         d.phase = "link" => Linking(node, d)
  PROVE  FileInv' /\ FileStep
<1>1. Tree(node, store, Writes(call[t])) /\ d.parent \in DOMAIN node
  BY Context
<1>2. Writes(d) = {} /\ Writes(call[t]) = {}
  BY DEF Writes
<1>3. d.path # <<>>
  BY PathsAre
<1>4. Call(node, store, saved', d)
  BY <1>1, <1>3 DEF Call
<1>5. Tree(node', store', Writes(d)) /\ Call(node', store', saved', d)
      /\ TreeIn(node', store', Writes(d)) = TreeIn(node, store, Writes(call[t]))
  BY <1>1, <1>2, <1>4
<1> QED BY <1>5, Goes

\* The path, or the last name of it, does not fit where it is copied.
LEMMA CopyingName ==
  ASSUME OneThread, FileInv, NEW t \in Threads, CopyName(t), UNCHANGED changes
  PROVE  FileInv' /\ FileStep
<1> DEFINE c == call[t]
           path == c.path
<1>1. /\ c.phase = "name" /\ c.token = NoToken /\ Crash
      /\ path \in LongPaths \/ c.name \in LongNames
  BY DEF CopyName, At, Me
<1>2. Naming(node, saved, c)
  BY <1>1, Context DEF Call
<1>3. c.op \in {"mknod", "mkdir"} /\ Free(node, path)
  BY <1>2 DEF Naming
<1>4. PICK k \in 0 .. Len(path) : Scan(saved, c.token, path, k) /\ (k > 0 => c.name = path[k])
  BY <1>2 DEF Naming
<1>5. path \in Seq(Names) /\ Len(path) \in Nat \ {0}
  BY <1>3, FreeHas
<1>6. k = Len(path)
  BY <1>1, <1>4, <1>5, ScanEnd
<1>7. Len(path) \in DOMAIN path /\ c.name = path[Len(path)]
  BY <1>4, <1>5, <1>6
<1>8. c.op \notin Files!NoCopy
  BY <1>3 DEF Files!NoCopy
<1>9. Fatal(t)
  BY <1>1, <1>3, <1>7, <1>8 DEF Fatal, Me
<1>10. c.op # "write"
  BY <1>3
<1> QED BY <1>1, <1>9, <1>10, Dies

\* mknod and mkdir take the last name of the path.
LEMMA GettingName ==
  ASSUME OneThread, FileInv, NEW t \in Threads, GetName(t), UNCHANGED changes
  PROVE  FileInv' /\ FileStep
<1> DEFINE c == call[t]
           path == c.path
<1>1. c.phase = "name" /\ UNCHANGED <<node, store, changes>>
  BY DEF GetName, At, Me
<1>2. Naming(node, saved, c) /\ c \in CallRecord /\ c.cur \in DOMAIN node /\ saved \in Seq(Names)
  BY <1>1, Context DEF Call
<1>3. c.op \in {"mknod", "mkdir"} /\ Free(node, path)
  BY <1>2 DEF Naming
<1>4. PICK k \in 0 .. Len(path) : Scan(saved, c.token, path, k) /\ (k > 0 => c.name = path[k])
  BY <1>2 DEF Naming
<1>5. path \in Seq(Names) /\ path # <<>> /\ path \in Paths /\ Len(path) \in Nat \ {0}
      /\ Last(path) = path[Len(path)] /\ Front(path) \in Seq(Names)
  BY <1>3, FreeHas
<1>6. CASE c.token # NoToken
  <2> DEFINE d == [[c EXCEPT !.name = c.token] EXCEPT !.token = First(saved)]
  <2>1. call' = [call EXCEPT ![t] = d] /\ saved' = Rest(saved) /\ UNCHANGED <<reply, errno, cached>>
    BY <1>6 DEF GetName, Advance, Me
  <2>2. First(saved) \in Names \cup {NoToken} /\ Rest(saved) \in Seq(Names)
    BY <1>2, Tokens
  <2>3. /\ d \in CallRecord /\ d.phase = c.phase /\ d.op = c.op /\ d.path = c.path /\ d.data = c.data
        /\ d.first = c.first /\ d.size = c.size /\ d.parent = c.parent
        /\ d.cur = c.cur /\ d.token = First(saved) /\ d.name = c.token
    BY <1>2, <2>2 DEF CallRecord
  <2> HIDE DEF d
  <2>4. /\ k + 1 \in 0 .. Len(path) /\ c.token = path[k + 1]
        /\ Scan(Rest(saved), First(saved), path, k + 1)
    BY <1>4, <1>5, <1>6, ScanNext
  <2>5. Naming(node, saved', d)
    BY <1>3, <2>1, <2>3, <2>4 DEF Naming
  <2> QED BY <1>1, <1>2, <1>3, <1>5, <2>1, <2>2, <2>3, <2>5, Makes
<1>7. CASE c.token = NoToken
  <2> DEFINE ph == IF c.op = "mkdir" THEN "add_dir" ELSE "add"
             d == [c EXCEPT !.phase = ph, !.token = First(path), !.cur = Root]
  <2>1. call' = [call EXCEPT ![t] = d] /\ saved' = Rest(path) /\ UNCHANGED <<reply, errno, cached>>
    <3>1. Tokenise(t, path, ph)
      BY <1>7 DEF GetName, Me
    <3> HIDE DEF ph
    <3> QED BY <3>1 DEF Tokenise
  <2>2. First(path) \in Names \cup {NoToken} /\ Rest(path) \in Seq(Names) /\ Root \in Nat
        /\ Root \in DOMAIN node
    BY <1>5, Tokens, Context DEF Root, IsForest
  <2>3. /\ d \in CallRecord /\ d.phase = ph /\ d.op = c.op /\ d.path = c.path /\ d.data = c.data
        /\ d.first = c.first /\ d.size = c.size /\ d.parent = c.parent
        /\ d.cur = Root /\ d.token = First(path) /\ d.name = c.name
    <3>1. ph \in Phases
      BY DEF Phases
    <3> HIDE DEF ph
    <3> DEFINE a == First(path)
    <3>2. a \in Names \cup {NoToken} /\ d = [c EXCEPT !.phase = ph, !.token = a, !.cur = Root]
      BY <2>2
    <3> HIDE DEF a, d
    <3>3. /\ d \in CallRecord /\ d.phase = ph /\ d.op = c.op /\ d.path = c.path /\ d.data = c.data
          /\ d.first = c.first /\ d.size = c.size /\ d.parent = c.parent
          /\ d.cur = Root /\ d.token = a /\ d.name = c.name
      BY <1>2, <2>2, <3>1, <3>2 DEF CallRecord
    <3> QED BY <3>3 DEF a
  <2> HIDE DEF d
  <2>4. c.name = Last(path)
    <3>1. k = Len(path)
      BY <1>4, <1>5, <1>7, ScanEnd
    <3> QED BY <3>1, <1>4, <1>5
  <2>5. Adding(node, saved', d)
    <3>1. 0 \in 0 .. Len(path) - 1
      BY <1>5
    <3>2. Descent(node, saved', d, path, 0)
      BY <1>5, <2>1, <2>3, ScanStart, ResolveEmpty, WholeIs DEF Descent
    <3> QED BY <3>1, <3>2, <1>3, <2>3, <2>4 DEF Adding
  <2>6. (d.phase = "add" /\ d.op = "mknod") \/ (d.phase = "add_dir" /\ d.op = "mkdir")
    BY <1>3, <2>3
  <2> HIDE DEF ph
  <2>7. d.phase \in {"name", "add", "add_dir", "link"} /\ d.cur \in DOMAIN node
    BY <2>2, <2>3, <2>6
  <2> QED BY <1>1, <1>2, <1>3, <1>5, <2>1, <2>2, <2>3, <2>5, <2>6, <2>7, Makes
<1> QED BY <1>6, <1>7
LEMMA AddingPath ==
  ASSUME OneThread, FileInv, NEW t \in Threads, Adding(node, saved, call[t])
  PROVE  /\ Free(node, call[t].path) /\ call[t].name = Last(call[t].path)
         /\ call[t].path \in Paths /\ call[t].path \in Seq(Names)
         /\ Len(call[t].path) \in Nat \ {0}
         /\ call[t].cur = ResolveIn(node, SubSeq(call[t].path, 1, 0)) => call[t].cur = Root
BY FreeHas, WholeIs, ResolveEmpty DEF Adding

\* Down to the next name, or at the last.
LEMMA AddingDown ==
  ASSUME OneThread, FileInv, NEW t \in Threads, Adding(node, saved, call[t]),
         ~ (call[t].op = "mkdir" /\ call[t].token = NoToken), NEW d, d.op = call[t].op,
         d.path = call[t].path, d.token = First(saved), d.name = call[t].name,
         d.cur = ChildIn(node, call[t].cur, call[t].token), d.cur # Nothing
  PROVE  Adding(node, Rest(saved), d)
<1> DEFINE c == call[t]
           path == c.path
<1>1. Free(node, path) /\ c.name = Last(path) /\ path \in Seq(Names) /\ Len(path) \in Nat
  BY AddingPath
<1>2. PICK k \in 0 .. Len(path) - 1 : Descent(node, saved, c, path, k)
  BY DEF Adding
<1>3. IsForest(node) /\ Nothing \notin DOMAIN node /\ c.cur \in DOMAIN node
  BY Context
<1>4. c.token # NoToken /\ k + 1 \in 0 .. Len(path) - 1 /\ k \in 0 .. Len(path)
  BY <1>1, <1>2, <1>3, OnTheWay
<1>5. Descent(node, Rest(saved), d, path, k + 1)
  BY <1>1, <1>2, <1>3, <1>4, Deepens
<1> QED BY <1>1, <1>4, <1>5 DEF Adding

LEMMA AddingLast ==
  ASSUME OneThread, FileInv, NEW t \in Threads, Adding(node, saved, call[t]),
         ~ (call[t].op = "mkdir" /\ call[t].token = NoToken),
         ChildIn(node, call[t].cur, call[t].token) = Nothing
  PROVE  saved = <<>> /\ call[t].cur = ResolveIn(node, Front(call[t].path)) /\ call[t].token # NoToken
<1> DEFINE c == call[t]
           path == c.path
<1>1. Free(node, path)
  BY AddingPath
<1>2. PICK k \in 0 .. Len(path) - 1 : Descent(node, saved, c, path, k)
  BY DEF Adding
<1>3. IsForest(node) /\ Nothing \notin DOMAIN node /\ c.cur \in DOMAIN node
  BY Context
<1> QED BY <1>1, <1>2, <1>3, OnTheWay

LEMMA AddingOn ==
  ASSUME OneThread, FileInv, NEW t \in Threads, Adding(node, saved, call[t]),
         ~ (call[t].op = "mkdir" /\ call[t].token = NoToken)
  PROVE  call[t].token # NoToken
<1> DEFINE c == call[t]
           path == c.path
<1>1. Free(node, path)
  BY AddingPath
<1>2. PICK k \in 0 .. Len(path) - 1 : Descent(node, saved, c, path, k)
  BY DEF Adding
<1>3. IsForest(node) /\ Nothing \notin DOMAIN node /\ c.cur \in DOMAIN node
  BY Context
<1> QED BY <1>1, <1>2, <1>3, OnTheWay

\* mknod goes down to the directory.
LEMMA AddingStep ==
  ASSUME OneThread, FileInv, NEW t \in Threads, Add(t), UNCHANGED changes
  PROVE  FileInv' /\ FileStep
<1> DEFINE c == call[t]
           path == c.path
           child == ChildIn(node, c.cur, c.token)
<1>1. /\ c.phase = "add" /\ UNCHANGED <<node, store, changes>>
      /\ c.token # NoToken /\ child # Nothing => Advance(t, [c EXCEPT !.cur = child])
      /\ c.token # NoToken /\ child = Nothing /\ saved = <<>> => Advance(t, [c EXCEPT !.phase = "link"])
  BY ChildIs DEF Add, At, Me
<1>2. /\ c \in CallRecord /\ c.cur \in DOMAIN node /\ saved \in Seq(Names)
      /\ IsForest(node) /\ Nothing \notin DOMAIN node /\ Call(node, store, saved, c)
  BY Context
<1>3. c.op = "mknod" /\ Adding(node, saved, c)
  BY <1>1, <1>2 DEF Call
<1>4. c.token # NoToken /\ path \in Paths /\ c.name = Last(path) /\ Free(node, path)
  BY <1>3, AddingOn, AddingPath
<1>5. First(saved) \in Names \cup {NoToken} /\ Rest(saved) \in Seq(Names)
  BY <1>2, Tokens
<1>6. CASE child # Nothing
  <2> DEFINE d == [[c EXCEPT !.cur = child] EXCEPT !.token = First(saved)]
  <2>1. call' = [call EXCEPT ![t] = d] /\ saved' = Rest(saved) /\ UNCHANGED <<reply, errno, cached>>
    BY <1>1, <1>4, <1>6 DEF Advance
  <2>2. child \in DOMAIN node /\ child \in Nat
    BY <1>2, <1>6, IndexFound DEF IsForest
  <2>3. /\ d \in CallRecord /\ d.phase = "add" /\ d.op = c.op /\ d.path = c.path /\ d.data = c.data
        /\ d.first = c.first /\ d.size = c.size /\ d.parent = c.parent
        /\ d.cur = child /\ d.token = First(saved) /\ d.name = c.name
    BY <1>1, <1>2, <1>5, <2>2 DEF CallRecord
  <2> HIDE DEF d
  <2>4. Adding(node, saved', d)
    <3>1. Adding(node, Rest(saved), d)
      BY <1>3, <1>6, <2>3, AddingDown
    <3> QED BY <3>1, <2>1
  <2> QED BY <1>1, <1>3, <1>4, <1>5, <2>1, <2>2, <2>3, <2>4, Makes
<1>7. CASE child = Nothing
  <2> DEFINE d == [[c EXCEPT !.phase = "link"] EXCEPT !.token = First(saved)]
  <2>0. saved = <<>> /\ c.cur = ResolveIn(node, Front(path))
    BY <1>3, <1>7, AddingLast
  <2>1. call' = [call EXCEPT ![t] = d] /\ saved' = Rest(saved) /\ UNCHANGED <<reply, errno, cached>>
    BY <1>1, <1>4, <1>7, <2>0 DEF Advance
  <2>3. /\ d \in CallRecord /\ d.phase = "link" /\ d.op = c.op /\ d.path = c.path /\ d.data = c.data
        /\ d.first = c.first /\ d.size = c.size /\ d.parent = c.parent
        /\ d.cur = c.cur /\ d.token = First(saved) /\ d.name = c.name
    BY <1>1, <1>2, <1>5 DEF CallRecord, Phases
  <2> HIDE DEF d
  <2>4. Linking(node, d)
    BY <1>3, <1>4, <2>0, <2>3 DEF Linking
  <2> QED BY <1>1, <1>2, <1>3, <1>4, <1>5, <2>1, <2>3, <2>4, Makes
<1> QED BY <1>6, <1>7

\* mkdir does, and stops at the name that is not there.
LEMMA AddingDirStep ==
  ASSUME OneThread, FileInv, NEW t \in Threads, AddDir(t), UNCHANGED changes
  PROVE  FileInv' /\ FileStep
<1> DEFINE c == call[t]
           path == c.path
           child == ChildIn(node, c.cur, c.token)
           to == IF child = Nothing THEN c.cur ELSE child
<1>1. /\ c.phase = "add_dir" /\ UNCHANGED <<node, store, changes>>
      /\ c.token # NoToken => Advance(t, [c EXCEPT !.cur = to])
      /\ c.token = NoToken => Proceed(t, "link")
  BY ChildIs DEF AddDir, At, Me
<1>2. /\ c \in CallRecord /\ c.cur \in DOMAIN node /\ saved \in Seq(Names)
      /\ IsForest(node) /\ Nothing \notin DOMAIN node /\ Call(node, store, saved, c)
  BY Context
<1>3. c.op = "mkdir" /\ Adding(node, saved, c)
  BY <1>1, <1>2 DEF Call
<1>4. path \in Paths /\ c.name = Last(path) /\ Free(node, path)
  BY <1>3, AddingPath
<1>5. First(saved) \in Names \cup {NoToken} /\ Rest(saved) \in Seq(Names)
  BY <1>2, Tokens
<1>6. CASE c.token # NoToken
  <2> DEFINE d == [[c EXCEPT !.cur = to] EXCEPT !.token = First(saved)]
  <2>1. call' = [call EXCEPT ![t] = d] /\ saved' = Rest(saved) /\ UNCHANGED <<reply, errno, cached>>
    BY <1>1, <1>6 DEF Advance
  <2>2. to \in DOMAIN node /\ to \in Nat
    BY <1>2, IndexFound DEF IsForest
  <2> HIDE DEF to
  <2>3. /\ d \in CallRecord /\ d.phase = "add_dir" /\ d.op = c.op /\ d.path = c.path /\ d.data = c.data
        /\ d.first = c.first /\ d.size = c.size /\ d.parent = c.parent
        /\ d.cur = to /\ d.token = First(saved) /\ d.name = c.name
    BY <1>1, <1>2, <1>5, <2>2 DEF CallRecord
  <2> HIDE DEF d
  <2>4. Adding(node, saved', d)
    <3>1. CASE child # Nothing
      <4>1. d.cur = child
        BY <3>1, <2>3 DEF to
      <4>2. Adding(node, Rest(saved), d)
        BY <1>3, <1>6, <2>3, <3>1, <4>1, AddingDown
      <4> QED BY <4>2, <2>1
    <3>2. CASE child = Nothing
      <4>1. saved = <<>> /\ c.cur = ResolveIn(node, Front(path))
        BY <1>3, <1>6, <3>2, AddingLast
      <4>2. d.cur = c.cur /\ d.token = NoToken
        BY <2>3, <3>2, <4>1 DEF to, First
      <4> QED BY <1>3, <1>4, <2>3, <4>1, <4>2 DEF Adding
    <3> QED BY <3>1, <3>2
  <2> QED BY <1>1, <1>3, <1>4, <1>5, <2>1, <2>2, <2>3, <2>4, Makes
<1>7. CASE c.token = NoToken
  <2> DEFINE d == [c EXCEPT !.phase = "link"]
  <2>0. c.cur = ResolveIn(node, Front(path))
    <3>1. ASSUME NEW k \in 0 .. Len(path) - 1 PROVE ~ Descent(node, saved, c, path, k)
      BY <1>2, <1>4, <1>7, OnTheWay
    <3> QED BY <1>3, <3>1 DEF Adding
  <2>1. call' = [call EXCEPT ![t] = d] /\ saved' = saved /\ UNCHANGED <<reply, errno, cached>>
    BY <1>1, <1>7 DEF Proceed
  <2>3. /\ d \in CallRecord /\ d.phase = "link" /\ d.op = c.op /\ d.path = c.path /\ d.data = c.data
        /\ d.first = c.first /\ d.size = c.size /\ d.parent = c.parent
        /\ d.cur = c.cur /\ d.token = c.token /\ d.name = c.name
    BY <1>1, <1>2 DEF CallRecord, Phases
  <2> HIDE DEF d
  <2>4. Linking(node, d)
    BY <1>3, <1>4, <2>0, <2>3 DEF Linking
  <2> QED BY <1>1, <1>2, <1>3, <1>4, <2>1, <2>3, <2>4, Makes
<1> QED BY <1>6, <1>7
-----------------------------------------------------------------------------
(* The new node in the tree                                                *)

LEMMA FrontLast ==
  ASSUME NEW T, NEW p \in Seq(T), p # <<>>
  PROVE  Append(Front(p), Last(p)) = p
<1> DEFINE f == Front(p)
           e == Last(p)
           n == Len(p)
<1>1. /\ f \in Seq(T) /\ n \in Nat \ {0} /\ Len(f) = n - 1 /\ e = p[n]
      /\ \A i \in 1 .. n - 1 : f[i] = p[i]
  BY Parts
<1>2. p = [i \in 1 .. n |-> p[i]]
  OBVIOUS
<1> HIDE DEF f, e, n
<1>3. Append(f, e) = [i \in 1 .. Len(f) + 1 |-> IF i = Len(f) + 1 THEN e ELSE f[i]]
  BY <1>1, AppendFun
<1>4. (n - 1) + 1 = n
  BY <1>1
<1>5. Append(f, e) = [i \in 1 .. n |-> IF i = n THEN e ELSE f[i]]
  BY <1>1, <1>3, <1>4
<1>6. \A i \in 1 .. n : p[i] = IF i = n THEN e ELSE f[i]
  BY <1>1
<1> QED BY <1>2, <1>5, <1>6 DEF f, e

\* Nothing but a new node at the path, at the end of its parent's entries.
NodeAdded(nodes, others, path, up, new, dir) ==
  /\ path \in Paths /\ ResolveIn(nodes, path) = Nothing
  /\ up = ResolveIn(nodes, Front(path)) /\ up \in DOMAIN nodes /\ up # Nothing /\ nodes[up].dir
  /\ new = Len(nodes) + 1 /\ dir \in BOOLEAN
  /\ others \in Seq(NodeRecord) /\ DOMAIN others = DOMAIN nodes \cup {new}
  /\ others[new] = NewNode(Last(path), dir)
  /\ others[up].files = Append(nodes[up].files, new)
  /\ \A m \in DOMAIN nodes :
       /\ others[m].name = nodes[m].name /\ others[m].dir = nodes[m].dir
       /\ others[m].size = nodes[m].size /\ others[m].num_block = nodes[m].num_block
       /\ others[m].block = nodes[m].block
  /\ \A m \in DOMAIN nodes : m # up => others[m].files = nodes[m].files

LEMMA NewIs ==
  ASSUME NEW name, NEW dir
  PROVE  /\ NewNode(name, dir).name = name /\ NewNode(name, dir).dir = dir
         /\ NewNode(name, dir).size = 0 /\ NewNode(name, dir).num_block = 0
         /\ NewNode(name, dir).files = <<>>
         /\ NewNode(name, dir).block \in [1 .. MaxBlocks -> {NoBlock}]
BY DEF NewNode

LEMMA NewTyped ==
  ASSUME NEW name \in Names \cup {"/"}, NEW dir \in BOOLEAN
  PROVE  NewNode(name, dir) \in NodeRecord
<1> DEFINE b == [i \in 1 .. MaxBlocks |-> NoBlock]
<1>1. b \in [1 .. MaxBlocks -> Nat]
  BY DEF NoBlock
<1>2. <<>> \in Seq(Nat)
  OBVIOUS
<1> HIDE DEF b
<1>3. [name |-> name, dir |-> dir, size |-> 0, num_block |-> 0, files |-> <<>>, block |-> b] \in NodeRecord
  BY <1>1, <1>2 DEF NodeRecord
<1> QED BY <1>3 DEF NewNode, b

LEMMA AddedPaths ==
  ASSUME NEW nodes, NEW others, NEW path, NEW up, NEW new, NEW dir,
         NodeAdded(nodes, others, path, up, new, dir), IsForest(nodes), nodes \in Seq(NodeRecord)
  PROVE  /\ IsForest(others) /\ new \in Nat \ {0} /\ new \notin DOMAIN nodes
         /\ \A q \in Seq(Names) : ResolveIn(others, q) = IF q = path THEN new ELSE ResolveIn(nodes, q)
<1>1. path \in Seq(Names) /\ path # <<>>
  BY PathsAre DEF NodeAdded
<1>2. new \in Nat \ {0} /\ new \notin DOMAIN nodes
  BY DEF NodeAdded
<1>3. /\ up \in DOMAIN nodes /\ ResolveIn(nodes, path) = Nothing /\ ResolveIn(nodes, Front(path)) = up
      /\ DOMAIN others = DOMAIN nodes \cup {new}
  BY DEF NodeAdded
<1>4. others[new].name = Last(path) /\ Kids(others, new) = <<>>
  BY NewIs DEF NodeAdded, Kids
<1>5. /\ Kids(others, up) = Append(Kids(nodes, up), new)
      /\ \A n \in DOMAIN nodes \ {up} : Kids(others, n) = Kids(nodes, n)
      /\ \A n \in DOMAIN nodes : others[n].name = nodes[n].name
  BY DEF NodeAdded, Kids
<1>6. IsForest(others)
  BY <1>1, <1>2, <1>3, <1>4, <1>5, LinkedTree
<1>7. \A q \in Seq(Names) : ResolveIn(others, q) = IF q = path THEN new ELSE ResolveIn(nodes, q)
  <2>1. LinkedPaths(nodes, others, Names, path, new)
    BY <1>1, <1>2, <1>3, <1>4, <1>5, LinkedTree
  <2> QED BY <2>1 DEF LinkedPaths
<1> QED BY <1>2, <1>6, <1>7

\* What a node lists: what it listed, and the new node in its parent.
LEMMA AddedKids ==
  ASSUME NEW nodes, NEW others, NEW path, NEW up, NEW new, NEW dir,
         NodeAdded(nodes, others, path, up, new, dir), IsForest(nodes), nodes \in Seq(NodeRecord),
         NEW m \in DOMAIN others, NEW i \in DOMAIN others[m].files
  PROVE  /\ m \in DOMAIN nodes
         /\ \/ i \in DOMAIN nodes[m].files /\ others[m].files[i] = nodes[m].files[i]
                 /\ nodes[m].files[i] \in DOMAIN nodes
            \/ m = up /\ others[m].files[i] = new
<1>1. m # new
  BY NewIs DEF NodeAdded
<1>2. m \in DOMAIN nodes /\ nodes[m].files \in Seq(DOMAIN nodes)
  BY <1>1 DEF NodeAdded, IsForest, Kids
<1>3. CASE m # up
  BY <1>2, <1>3 DEF NodeAdded
<1>4. CASE m = up
  <2> DEFINE s == nodes[m].files
  <2>1. others[m].files = Append(s, new) /\ s \in Seq(DOMAIN nodes)
    BY <1>2, <1>4 DEF NodeAdded
  <2> HIDE DEF s
  <2> DEFINE k == Len(s)
  <2>2. k \in Nat /\ DOMAIN s = 1 .. k
    BY <2>1
  <2>3. Append(s, new) = [j \in 1 .. k + 1 |-> IF j = k + 1 THEN new ELSE s[j]]
    BY <2>1, AppendFun
  <2> HIDE DEF k
  <2>4. i \in 1 .. k + 1 /\ others[m].files[i] = IF i = k + 1 THEN new ELSE s[i]
    BY <2>1, <2>3
  <2>5. i # k + 1 => i \in 1 .. k
    BY <2>2, <2>4
  <2>6. (i \in DOMAIN s /\ others[m].files[i] = s[i] /\ s[i] \in DOMAIN nodes) \/ others[m].files[i] = new
    BY <2>1, <2>2, <2>4, <2>5
  <2> QED BY <1>2, <1>4, <2>6 DEF s
<1> QED BY <1>3, <1>4

LEMMA AddedShaped ==
  ASSUME NEW nodes, NEW others, NEW path, NEW up, NEW new, NEW dir, NEW blocks, Len(blocks) \in Nat,
         NodeAdded(nodes, others, path, up, new, dir), Shaped(nodes, blocks)
  PROVE  Shaped(others, blocks)
<1>1. nodes \in Seq(NodeRecord) /\ nodes # <<>> /\ IsForest(nodes) /\ Root \in DOMAIN nodes
  BY DEF Shaped, IsForest
<1>2. IsForest(others) /\ new \in Nat \ {0} /\ new \notin DOMAIN nodes
  BY <1>1, AddedPaths
<1>3. others \in Seq(NodeRecord) /\ DOMAIN others = DOMAIN nodes \cup {new} /\ others # <<>>
  BY <1>1 DEF NodeAdded
<1>4. others[Root].dir
  BY <1>1 DEF NodeAdded, Shaped
<1>5. ASSUME NEW m \in DOMAIN others, ~ others[m].dir PROVE others[m].files = <<>>
  <2>1. CASE m = new
    BY <2>1, NewIs DEF NodeAdded
  <2>2. CASE m # new
    <3>1. m \in DOMAIN nodes /\ ~ nodes[m].dir
      BY <2>2, <1>3, <1>5 DEF NodeAdded
    <3>2. m # up
      BY <3>1 DEF NodeAdded
    <3> QED BY <3>1, <3>2 DEF NodeAdded, Shaped
  <2> QED BY <2>1, <2>2
<1>6. ASSUME NEW m \in DOMAIN others, NEW i \in DOMAIN others[m].files
      PROVE  others[others[m].files[i]].name \in Names
  <2>1. m \in DOMAIN nodes
    BY <1>1, AddedKids
  <2>2. CASE i \in DOMAIN nodes[m].files /\ others[m].files[i] = nodes[m].files[i]
                 /\ nodes[m].files[i] \in DOMAIN nodes
    <3>1. nodes[nodes[m].files[i]].name \in Names
      BY <2>1, <2>2 DEF Shaped
    <3> QED BY <2>2, <3>1 DEF NodeAdded
  <2>3. CASE others[m].files[i] = new
    <3>1. path \in Seq(Names) /\ path # <<>>
      BY PathsAre DEF NodeAdded
    <3>2. Last(path) \in Names
      BY <3>1, Parts
    <3> QED BY <2>3, <3>2, NewIs DEF NodeAdded
  <2> QED BY <2>2, <2>3, <1>1, AddedKids
<1>7. ASSUME NEW m \in DOMAIN others PROVE others[m].block \in [1 .. MaxBlocks -> 0 .. Len(blocks)]
  <2>1. CASE m = new
    <3>1. others[m].block \in [1 .. MaxBlocks -> {NoBlock}]
      BY <2>1, NewIs DEF NodeAdded
    <3> QED BY <3>1 DEF NoBlock
  <2>2. CASE m # new
    BY <2>2, <1>3 DEF NodeAdded, Shaped
  <2> QED BY <2>1, <2>2
<1> QED BY <1>2, <1>3, <1>4, <1>5, <1>6, <1>7 DEF Shaped

LEMMA AddedCharted ==
  ASSUME NEW nodes, NEW others, NEW path, NEW up, NEW new, NEW dir,
         NodeAdded(nodes, others, path, up, new, dir), IsForest(nodes), nodes \in Seq(NodeRecord),
         Charted(nodes)
  PROVE  Charted(others)
<1> SUFFICES ASSUME NEW p \in Paths \cup {<<>>}, ResolveIn(others, p) # Nothing,
                    NEW i \in DOMAIN others[ResolveIn(others, p)].files
             PROVE  Append(p, others[others[ResolveIn(others, p)].files[i]].name) \in Paths
  BY DEF Charted
<1> DEFINE m == ResolveIn(others, p)
<1>1. p \in Seq(Names) /\ path \in Seq(Names) /\ path # <<>> /\ Front(path) \in Seq(Names)
  BY PathsAre, Parts DEF NodeAdded
<1>2. /\ IsForest(others) /\ m = IF p = path THEN new ELSE ResolveIn(nodes, p)
  BY <1>1, AddedPaths
<1>3. m \in DOMAIN others
  BY <1>1, <1>2, Reached
<1>4. m \in DOMAIN nodes
  BY <1>3, AddedKids
<1>5. p # path /\ m = ResolveIn(nodes, p)
  <2>1. new \notin DOMAIN nodes
    BY AddedPaths
  <2> QED BY <2>1, <1>2, <1>4
<1>6. CASE i \in DOMAIN nodes[m].files /\ others[m].files[i] = nodes[m].files[i]
             /\ nodes[m].files[i] \in DOMAIN nodes
  <2>1. Append(p, nodes[nodes[m].files[i]].name) \in Paths
    BY <1>5, <1>6 DEF Charted
  <2> QED BY <2>1, <1>6 DEF NodeAdded
<1>7. CASE m = up /\ others[m].files[i] = new
  <2>1. ResolveIn(nodes, p) = ResolveIn(nodes, Front(path)) /\ ResolveIn(nodes, p) # Nothing
    BY <1>5, <1>7 DEF NodeAdded
  <2>2. p = Front(path)
    BY <2>1, <1>1, OnePath
  <2>3. Append(p, Last(path)) = path
    BY <2>2, <1>1, FrontLast
  <2>4. others[new].name = Last(path)
    BY NewIs DEF NodeAdded
  <2>5. path \in Paths /\ others[others[m].files[i]].name = Last(path)
    BY <1>7, <2>4 DEF NodeAdded
  <2> HIDE DEF m
  <2> QED BY <2>3, <2>5 DEF m
<1> QED BY <1>3, <1>6, <1>7, AddedKids

LEMMA AddedCounted ==
  ASSUME NEW nodes, NEW others, NEW path, NEW up, NEW new, NEW dir, NEW w,
         NodeAdded(nodes, others, path, up, new, dir), IsForest(nodes), nodes \in Seq(NodeRecord),
         Counted(nodes, w), new \notin w
  PROVE  Counted(others, w) /\ Fills(others, new, 0)
<1>1. MaxBlocks \in Nat
  BY FileSystemAssumption
<1>2. Fills(others, new, 0) /\ others[new].num_block = 0 /\ others[new].dir = dir
  <2>1. others[new].block \in [1 .. MaxBlocks -> {NoBlock}]
    BY NewIs DEF NodeAdded
  <2> QED BY <2>1, <1>1, NewIs DEF NodeAdded, Fills
<1>3. \A m \in DOMAIN nodes : \A k : Fills(others, m, k) <=> Fills(nodes, m, k)
  BY DEF NodeAdded, Fills
<1>4. ASSUME NEW m \in DOMAIN others, others[m].dir
      PROVE  /\ Fills(others, m, 0)
             /\ others[m].num_block <= 0 /\ (m # Root => others[m].num_block = 0)
  <2>1. CASE m = new
    BY <2>1, <1>2
  <2>2. CASE m # new
    <3>1. m \in DOMAIN nodes /\ nodes[m].dir /\ others[m].num_block = nodes[m].num_block
      BY <2>2, <1>4 DEF NodeAdded
    <3> QED BY <3>1, <1>3 DEF Counted
  <2> QED BY <2>1, <2>2
<1>5. ASSUME NEW m \in DOMAIN others, ~ others[m].dir
      PROVE  \E k \in 0 .. MaxBlocks :
               Fills(others, m, k) /\ others[m].num_block = IF m \in w THEN k + 1 ELSE k
  <2>1. CASE m = new
    <3>1. 0 \in 0 .. MaxBlocks /\ Fills(others, m, 0) /\ others[m].num_block = IF m \in w THEN 0 + 1 ELSE 0
      BY <2>1, <1>1, <1>2
    <3> QED BY <3>1
  <2>2. CASE m # new
    <3>1. m \in DOMAIN nodes /\ ~ nodes[m].dir /\ others[m].num_block = nodes[m].num_block
      BY <2>2, <1>5 DEF NodeAdded
    <3>2. PICK k \in 0 .. MaxBlocks :
            Fills(nodes, m, k) /\ nodes[m].num_block = IF m \in w THEN k + 1 ELSE k
      BY <3>1 DEF Counted
    <3>3. Fills(others, m, k) /\ others[m].num_block = IF m \in w THEN k + 1 ELSE k
      BY <3>1, <3>2, <1>3
    <3> QED BY <3>3
  <2> QED BY <2>1, <2>2
<1>6. ASSUME NEW m \in DOMAIN others \ {Root}, NEW i \in DOMAIN others[m].files
      PROVE  others[others[m].files[i]].num_block = 0
  <2>1. m \in DOMAIN nodes
    BY AddedKids
  <2>2. CASE i \in DOMAIN nodes[m].files /\ others[m].files[i] = nodes[m].files[i]
             /\ nodes[m].files[i] \in DOMAIN nodes
    <3>1. nodes[nodes[m].files[i]].num_block = 0
      BY <2>1, <2>2 DEF Counted
    <3> QED BY <3>1, <2>2 DEF NodeAdded
  <2>3. CASE others[m].files[i] = new
    BY <2>3, <1>2
  <2> QED BY <2>2, <2>3, AddedKids
<1> QED BY <1>2, <1>4, <1>5, <1>6 DEF Counted

Empty(dir) == [kind |-> IF dir THEN "directory" ELSE "file", size |-> 0, log |-> <<>>]

\* The abstract tree gets the new entry, and nothing else.
LEMMA AddedEntries ==
  ASSUME NEW nodes, NEW others, NEW path, NEW up, NEW new, NEW dir, NEW blocks, NEW w,
         NodeAdded(nodes, others, path, up, new, dir), Tree(nodes, blocks, w), w = {}
  PROVE  PutAt(TreeIn(nodes, blocks, w), path, Empty(dir), TreeIn(others, blocks, w))
<1>1. /\ Shaped(nodes, blocks) /\ Counted(nodes, w) /\ IsForest(nodes) /\ nodes \in Seq(NodeRecord)
      /\ Len(blocks) \in Nat
  BY DEF Tree, Shaped, Stored
<1>2. new \in Nat \ {0} /\ new \notin DOMAIN nodes
  BY <1>1, AddedPaths
<1>3. \A q \in Seq(Names) : ResolveIn(others, q) = IF q = path THEN new ELSE ResolveIn(nodes, q)
  BY <1>1, AddedPaths
<1>4. EntryIn(others, blocks, w, new) = Empty(dir)
  <2>1. 0 \in 0 .. MaxBlocks /\ Fills(others, new, 0)
    <3>1. new \notin w /\ Counted(nodes, w)
      BY <1>1
    <3>2. Fills(others, new, 0)
      BY <3>1, <1>1, AddedCounted
    <3> QED BY <3>2, FileSystemAssumption
  <2>2. FilledIn(others, new) = 0
    BY <2>1, FilledIs
  <2>3. DataIn(others, blocks, new) = <<>>
    BY <2>2 DEF DataIn
  <2>4. others[new].size = 0 /\ others[new].dir = dir /\ new # Nothing /\ new \notin w
    BY <1>2, NewIs DEF NodeAdded, Nothing
  <2>5. dir \in BOOLEAN
    BY DEF NodeAdded
  <2> QED BY <2>3, <2>4, <2>5 DEF EntryIn, Empty
<1>5. ASSUME NEW m \in DOMAIN nodes
      PROVE  EntryIn(others, blocks, w, m) = EntryIn(nodes, blocks, w, m)
  <2>1. others[m].block = nodes[m].block /\ others[m].dir = nodes[m].dir /\ others[m].size = nodes[m].size
    BY DEF NodeAdded
  <2>2. PICK j \in 0 .. MaxBlocks : Fills(nodes, m, j)
    BY <1>1, FilledTo
  <2>3. nodes[m].block \in [1 .. MaxBlocks -> 0 .. Len(blocks)]
    BY <1>1 DEF Shaped
  <2>4. \A k \in 1 .. Len(blocks) : blocks[k] = blocks[k]
    OBVIOUS
  <2>5. m \in w <=> m \in w
    OBVIOUS
  <2> QED BY <1>1, <2>1, <2>2, <2>3, <2>4, <2>5, EntrySame
<1>6. ASSUME NEW p \in Paths \cup {<<>>}
      PROVE  EntryIn(others, blocks, w, ResolveIn(others, p)) =
               IF p = path THEN Empty(dir) ELSE EntryIn(nodes, blocks, w, ResolveIn(nodes, p))
  <2>1. p \in Seq(Names)
    BY PathsAre
  <2>2. CASE p = path
    BY <2>1, <2>2, <1>3, <1>4
  <2>3. CASE p # path
    <3>1. ResolveIn(others, p) = ResolveIn(nodes, p)
      BY <2>1, <2>3, <1>3
    <3>2. CASE ResolveIn(nodes, p) = Nothing
      BY <3>1, <3>2, <2>3 DEF EntryIn
    <3>3. CASE ResolveIn(nodes, p) # Nothing
      <4>1. ResolveIn(nodes, p) \in DOMAIN nodes
        BY <2>1, <3>3, <1>1, Reached
      <4> QED BY <2>3, <3>1, <4>1, <1>5
    <3> QED BY <3>2, <3>3
  <2> QED BY <2>2, <2>3
<1>7. path \in Paths \cup {<<>>}
  BY DEF NodeAdded
<1> HIDE DEF Empty
<1> QED BY <1>6, <1>7 DEF TreeIn, PutAt
LEMMA FilesPut ==
  ASSUME NEW o \in NodeRecord, NEW f \in Seq(Nat), NEW r, r = [o EXCEPT !.files = f]
  PROVE  /\ r \in NodeRecord /\ r.name = o.name /\ r.dir = o.dir /\ r.files = f
         /\ r.block = o.block /\ r.num_block = o.num_block /\ r.size = o.size
BY DEF NodeRecord

\* What Link does to the nodes.
LEMMA LinkAdds ==
  ASSUME NEW nodes, Shaped(nodes, store), NEW path \in Paths, Free(nodes, path),
         NEW n \in DOMAIN nodes, n # Nothing, n = ResolveIn(nodes, Front(path)), NEW dir \in BOOLEAN,
         NEW others,
         others = Append([nodes EXCEPT ![n].files = Append(@, Len(nodes) + 1)],
                         NewNode(Last(path), dir))
  PROVE  NodeAdded(nodes, others, path, n, Len(nodes) + 1, dir)
<1> DEFINE k == Len(nodes)
           o == nodes[n]
           f == Append(o.files, k + 1)
           r == [o EXCEPT !.files = f]
           a == [nodes EXCEPT ![n] = r]
           new == NewNode(Last(path), dir)
<1>1. nodes \in Seq(NodeRecord) /\ k \in Nat /\ DOMAIN nodes = 1 .. k /\ o \in NodeRecord
  BY DEF Shaped
<1>2. others = Append(a, new)
  OBVIOUS
<1>3. o.files \in Seq(Nat) /\ k + 1 \in Nat
  BY <1>1 DEF NodeRecord
<1> HIDE DEF k
<1>4. f \in Seq(Nat)
  BY <1>3
<1>5. r = [o EXCEPT !.files = f] /\ o = nodes[n]
  OBVIOUS
<1> HIDE DEF o, r
<1>6. /\ r \in NodeRecord /\ r.name = o.name /\ r.dir = o.dir /\ r.files = f
      /\ r.block = o.block /\ r.num_block = o.num_block /\ r.size = o.size
  <2> HIDE DEF f
  <2> QED BY <1>1, <1>4, <1>5, FilesPut
<1>7. /\ a \in Seq(NodeRecord) /\ Len(a) = k /\ a[n] = r
      /\ \A m \in DOMAIN nodes : m # n => a[m] = nodes[m]
  BY <1>1, <1>6
<1>8. new \in NodeRecord
  <2>1. path \in Seq(Names) /\ path # <<>>
    BY PathsAre
  <2>2. Last(path) \in Names \cup {"/"}
    BY <2>1, Parts
  <2> QED BY <2>2, NewTyped
<1> HIDE DEF a, new
<1>9. others = [i \in 1 .. k + 1 |-> IF i = k + 1 THEN new ELSE a[i]]
  <2>1. others = [i \in 1 .. Len(a) + 1 |-> IF i = Len(a) + 1 THEN new ELSE a[i]]
    <3>1. Append(a, new) = [i \in 1 .. Len(a) + 1 |-> IF i = Len(a) + 1 THEN new ELSE a[i]]
      BY <1>7, AppendFun
    <3> QED BY <3>1, <1>2
  <2> QED BY <2>1, <1>7
<1>10. others \in Seq(NodeRecord) /\ DOMAIN others = DOMAIN nodes \cup {k + 1}
  <2>1. others \in Seq(NodeRecord)
    BY <1>2, <1>7, <1>8, AppendIs
  <2> QED BY <2>1, <1>1, <1>9
<1>11. others[k + 1] = new
  BY <1>1, <1>9
<1>12. others[n] = r /\ \A m \in DOMAIN nodes : m # n => others[m] = nodes[m]
  BY <1>1, <1>7, <1>9
<1>13. others[n].files = Append(nodes[n].files, k + 1)
  BY <1>5, <1>6, <1>12
<1>14. \A m \in DOMAIN nodes :
         /\ others[m].name = nodes[m].name /\ others[m].dir = nodes[m].dir
         /\ others[m].size = nodes[m].size /\ others[m].num_block = nodes[m].num_block
         /\ others[m].block = nodes[m].block
  BY <1>5, <1>6, <1>12
<1>15. ResolveIn(nodes, path) = Nothing /\ nodes[n].dir
  BY DEF Free
<1> QED BY <1>10, <1>11, <1>12, <1>13, <1>14, <1>15 DEF NodeAdded, k, new

\* mknod and mkdir put the node into the tree.
LEMMA LinkStep ==
  ASSUME OneThread, FileInv, NEW t \in Threads, Link(t), UNCHANGED changes
  PROVE  FileInv' /\ FileStep
<1> DEFINE c == call[t]
           path == c.path
           n == c.cur
           dir == c.op = "mkdir"
           new == Len(node) + 1
           w == {}
<1>1. /\ c.phase = "link" /\ Return(t, Code("ok")) /\ UNCHANGED <<store, changes>>
      /\ node' = Append([node EXCEPT ![n].files = Append(@, new)], NewNode(c.name, dir))
  BY DEF Link, At, Me
<1>2. /\ Linking(node, c) /\ c \in CallRecord /\ n \in DOMAIN node /\ Nothing \notin DOMAIN node
      /\ Tree(node, store, Writes(c)) /\ IsForest(node)
  BY <1>1, Context DEF Call
<1>3. /\ c.op \in {"mknod", "mkdir"} /\ Free(node, path) /\ c.name = Last(path)
      /\ n = ResolveIn(node, Front(path)) /\ n # Nothing
  BY <1>2 DEF Linking
<1>4. /\ path \in Paths /\ ResolveIn(node, path) = Nothing /\ node[n].dir
      /\ Front(path) \in Paths \cup {<<>>}
  BY <1>3, FreeHas
<1>5. Writes(c) = w /\ dir \in BOOLEAN /\ w = {} /\ new \notin w
  BY <1>1 DEF Writes
<1>6. Shaped(node, store) /\ Charted(node) /\ Counted(node, w) /\ Stored(store) /\ Tree(node, store, w)
      /\ node \in Seq(NodeRecord) /\ Len(store) \in Nat
  BY <1>2, <1>5 DEF Tree, Shaped, Stored
<1>60. dir = (c.op = "mkdir") /\ store' = store
  BY <1>1
<1> HIDE DEF dir, w
<1>7. NodeAdded(node, node', path, n, new, dir)
  BY <1>1, <1>2, <1>3, <1>4, <1>5, <1>6, LinkAdds, ZenonT(30)
<1> HIDE DEF new
<1>8. Shaped(node', store) /\ Charted(node') /\ Counted(node', w)
  <2>1. Shaped(node', store)
    BY <1>6, <1>7, AddedShaped
  <2>2. Charted(node')
    BY <1>2, <1>6, <1>7, AddedCharted
  <2>3. Counted(node', w)
    BY <1>2, <1>5, <1>6, <1>7, AddedCounted
  <2> QED BY <2>1, <2>2, <2>3
<1>9. Tree(node', store', {})
  BY <1>5, <1>6, <1>8, <1>60 DEF Tree
<1>10. PutAt(TreeIn(node, store, w), path, Empty(dir), TreeIn(node', store, w))
  BY <1>5, <1>6, <1>7, AddedEntries
<1>11. TreeNow = TreeIn(node, store, w) /\ TreeNow' = TreeIn(node', store, w)
  <2>1. call'[t] = Quiet /\ Writes(Quiet) = w /\ Writes(Quiet) = {}
    BY <1>1, <1>5, QuietNext DEF Return
  <2>2. TreeNow = TreeIn(node, store, Writes(call[t])) /\ TreeNow' = TreeIn(node', store', w)
    BY <2>1, TreesAre
  <2> QED BY <2>2, <1>5, <1>60
<1>12. TreeNow' = [TreeNow EXCEPT ![path] = Empty(dir)]
  BY <1>10, <1>11 DEF PutAt
<1>13. ~ Files!Exists(path)
  BY <1>4, Seen
<1>14. TreeNow[Front(path)].kind = "directory"
  <2> DEFINE p == Front(path)
  <2>1. p \in Paths \cup {<<>>} /\ ResolveIn(node, p) = n
    BY <1>3, <1>4
  <2> HIDE DEF p
  <2>2. TreeNow[p] = EntryIn(node, store, Writes(call[t]), n)
    BY <2>1, Seen
  <2>3. EntryIn(node, store, Writes(call[t]), n).kind = "directory"
    BY <1>3, <1>4 DEF EntryIn
  <2> QED BY <2>2, <2>3 DEF p
<1>15. Done(t)
  <2>1. CASE c.op = "mknod"
    <3>1. Empty(dir) = Files!File
      BY <2>1, <1>60 DEF Empty, Files!File
    <3> DEFINE e == Files!File
    <3>3. TreeNow' = [TreeNow EXCEPT ![path] = e]
      BY <3>1, <1>12
    <3> HIDE DEF e
    <3>2. Files!Create(path, e)
      BY <3>3, <1>13, <1>14 DEF Files!Create, TreeNow, Files!Front, Front
    <3> QED BY <2>1, <3>2 DEF Done, Me, e, e
  <2>2. CASE c.op = "mkdir"
    <3>1. Empty(dir) = Files!Directory
      BY <2>2, <1>60 DEF Empty, Files!Directory
    <3> DEFINE e == Files!Directory
    <3>3. TreeNow' = [TreeNow EXCEPT ![path] = e]
      BY <3>1, <1>12
    <3> HIDE DEF e
    <3>2. Files!Create(path, e)
      BY <3>3, <1>13, <1>14 DEF Files!Create, TreeNow, Files!Front, Front
    <3> QED BY <2>2, <3>2 DEF Done, Me, e, e
  <2> QED BY <2>1, <2>2, <1>3
<1>16. Code("ok") \in Files!Replies(t, Request(t))
  <2>1. Request(t).op = c.op
    BY <1>1, RequestIs
  <2> QED BY <2>1, <1>3, CodeIs DEF Files!Replies
<1>17. c.phase \notin {"idle", "crashed"} /\ c.op # "ftruncate"
  BY <1>1, <1>3
<1> QED BY <1>1, <1>9, <1>15, <1>16, <1>17, Returns
-----------------------------------------------------------------------------
(* The tree without a node                                                 *)

\* Nothing but an entry less in the parent of what was at the path, and its
\* counts lowered by the node's.
NodeRemoved(nodes, others, path, up, gone) ==
  /\ path \in Paths /\ IndexIn(nodes, up, Last(path)) # 0
  /\ up = ResolveIn(nodes, Front(path)) /\ up \in DOMAIN nodes /\ up # Nothing
  /\ gone = ResolveIn(nodes, path) /\ gone \in DOMAIN nodes /\ gone # Nothing /\ gone # Root
  /\ \E i \in DOMAIN nodes[up].files : nodes[up].files[i] = gone
  /\ others \in Seq(NodeRecord) /\ DOMAIN others = DOMAIN nodes
  /\ others[up].files = RemoveAt(nodes[up].files, IndexIn(nodes, up, Last(path)))
  /\ others[up].size = nodes[up].size - nodes[gone].size
  /\ others[up].num_block = nodes[up].num_block - nodes[gone].num_block
  /\ \A m \in DOMAIN nodes : /\ others[m].name = nodes[m].name /\ others[m].dir = nodes[m].dir
                             /\ others[m].block = nodes[m].block
  /\ \A m \in DOMAIN nodes : m # up =>
       /\ others[m].files = nodes[m].files /\ others[m].size = nodes[m].size
       /\ others[m].num_block = nodes[m].num_block

LEMMA RemovedPaths ==
  ASSUME NEW nodes, NEW others, NEW path, NEW up, NEW gone,
         NodeRemoved(nodes, others, path, up, gone), IsForest(nodes)
  PROVE  IsForest(others) /\ KidsOf(nodes, others) /\ UnlinkedPaths(nodes, others, Names, path)
<1>1. path \in Seq(Names) /\ path # <<>>
  BY PathsAre DEF NodeRemoved
<1>2. /\ up \in DOMAIN nodes /\ ResolveIn(nodes, Front(path)) = up
      /\ IndexIn(nodes, up, Last(path)) # 0 /\ DOMAIN others = DOMAIN nodes
      /\ Kids(others, up) = RemoveAt(Kids(nodes, up), IndexIn(nodes, up, Last(path)))
      /\ \A n \in DOMAIN nodes \ {up} : Kids(others, n) = Kids(nodes, n)
      /\ \A n \in DOMAIN nodes : others[n].name = nodes[n].name
  BY DEF NodeRemoved, Kids
<1> QED BY <1>1, <1>2, UnlinkedTree

LEMMA RemovedKids ==
  ASSUME NEW nodes, NEW others, NEW path, NEW up, NEW gone,
         NodeRemoved(nodes, others, path, up, gone), IsForest(nodes),
         NEW m \in DOMAIN others, NEW i \in DOMAIN others[m].files
  PROVE  /\ m \in DOMAIN nodes
         /\ \E k \in DOMAIN nodes[m].files : others[m].files[i] = nodes[m].files[k]
                                               /\ nodes[m].files[k] \in DOMAIN nodes
<1>1. m \in DOMAIN nodes /\ KidsOf(nodes, others)
  BY RemovedPaths DEF NodeRemoved
<1>2. PICK k \in DOMAIN nodes[m].files : others[m].files[i] = nodes[m].files[k]
  BY <1>1 DEF KidsOf, Kids
<1>3. nodes[m].files \in Seq(DOMAIN nodes)
  BY <1>1 DEF IsForest, Kids
<1>4. nodes[m].files[k] \in DOMAIN nodes
  BY <1>3
<1> QED BY <1>1, <1>2, <1>4

LEMMA RemovedShaped ==
  ASSUME NEW nodes, NEW others, NEW path, NEW up, NEW gone, NEW blocks,
         NodeRemoved(nodes, others, path, up, gone), Shaped(nodes, blocks)
  PROVE  Shaped(others, blocks)
<1>1. nodes \in Seq(NodeRecord) /\ nodes # <<>> /\ IsForest(nodes) /\ Root \in DOMAIN nodes
  BY DEF Shaped, IsForest
<1>2. IsForest(others)
  BY <1>1, RemovedPaths
<1>3. others \in Seq(NodeRecord) /\ DOMAIN others = DOMAIN nodes /\ others # <<>> /\ others[Root].dir
  BY <1>1 DEF NodeRemoved, Shaped
<1>4. ASSUME NEW m \in DOMAIN others, ~ others[m].dir PROVE others[m].files = <<>>
  <2>1. m \in DOMAIN nodes /\ ~ nodes[m].dir /\ nodes[m].files = <<>>
    BY <1>3, <1>4 DEF NodeRemoved, Shaped
  <2>2. m # up
    BY <2>1 DEF NodeRemoved
  <2> QED BY <2>1, <2>2 DEF NodeRemoved
<1>5. ASSUME NEW m \in DOMAIN others, NEW i \in DOMAIN others[m].files
      PROVE  others[others[m].files[i]].name \in Names
  <2>1. PICK k \in DOMAIN nodes[m].files : others[m].files[i] = nodes[m].files[k]
                                             /\ nodes[m].files[k] \in DOMAIN nodes
    BY <1>1, RemovedKids
  <2>2. nodes[nodes[m].files[k]].name \in Names
    BY <1>3 DEF Shaped
  <2> QED BY <2>1, <2>2 DEF NodeRemoved
<1>6. \A m \in DOMAIN others : others[m].block \in [1 .. MaxBlocks -> 0 .. Len(blocks)]
  BY <1>3 DEF NodeRemoved, Shaped
<1> QED BY <1>2, <1>3, <1>4, <1>5, <1>6 DEF Shaped

LEMMA RemovedCharted ==
  ASSUME NEW nodes, NEW others, NEW path, NEW up, NEW gone,
         NodeRemoved(nodes, others, path, up, gone), IsForest(nodes), Charted(nodes)
  PROVE  Charted(others)
<1> SUFFICES ASSUME NEW p \in Paths \cup {<<>>}, ResolveIn(others, p) # Nothing,
                    NEW i \in DOMAIN others[ResolveIn(others, p)].files
             PROVE  Append(p, others[others[ResolveIn(others, p)].files[i]].name) \in Paths
  BY DEF Charted
<1> DEFINE m == ResolveIn(others, p)
<1>1. p \in Seq(Names)
  BY PathsAre
<1>2. IsForest(others) /\ m = IF IsPrefix(path, p) THEN Nothing ELSE ResolveIn(nodes, p)
  BY <1>1, RemovedPaths DEF UnlinkedPaths
<1>3. m \in DOMAIN others /\ m = ResolveIn(nodes, p)
  BY <1>1, <1>2, Reached
<1>4. i \in DOMAIN others[m].files /\ ResolveIn(nodes, p) # Nothing
  BY <1>3
<1> HIDE DEF m
<1>5. PICK k \in DOMAIN nodes[m].files : others[m].files[i] = nodes[m].files[k]
                                           /\ nodes[m].files[k] \in DOMAIN nodes
  BY <1>3, <1>4, RemovedKids
<1>6. Append(p, nodes[nodes[m].files[k]].name) \in Paths
  BY <1>3, <1>4 DEF Charted
<1>7. Append(p, others[others[m].files[i]].name) \in Paths
  BY <1>5, <1>6 DEF NodeRemoved
<1> QED BY <1>7 DEF m

LEMMA RemovedCounted ==
  ASSUME NEW nodes, NEW others, NEW path, NEW up, NEW gone, NEW w,
         NodeRemoved(nodes, others, path, up, gone), IsForest(nodes), nodes \in Seq(NodeRecord),
         Counted(nodes, w), nodes[up].dir
  PROVE  Counted(others, w)
<1>1. MaxBlocks \in Nat
  BY FileSystemAssumption
<1>2. \A m \in DOMAIN nodes : \A k : Fills(others, m, k) <=> Fills(nodes, m, k)
  BY DEF NodeRemoved, Fills
<1>3. nodes[gone].num_block \in Nat /\ (up # Root => nodes[gone].num_block = 0)
  <2>1. up # Root => nodes[gone].num_block = 0
    <3>1. PICK i \in DOMAIN nodes[up].files : nodes[up].files[i] = gone
      BY DEF NodeRemoved
    <3>2. up \in DOMAIN nodes
      BY DEF NodeRemoved
    <3> QED BY <3>1, <3>2 DEF Counted
  <2>2. nodes[gone].dir => nodes[gone].num_block = 0
    BY DEF NodeRemoved, Counted
  <2>3. ASSUME ~ nodes[gone].dir PROVE nodes[gone].num_block \in Nat
    <3>1. PICK k \in 0 .. MaxBlocks : nodes[gone].num_block = IF gone \in w THEN k + 1 ELSE k
      BY <2>3 DEF NodeRemoved, Counted
    <3> QED BY <3>1, <1>1
  <2> QED BY <2>1, <2>2, <2>3
<1>4. /\ nodes[up].num_block \in Int /\ nodes[up].num_block <= 0
      /\ (up # Root => nodes[up].num_block = 0)
      /\ others[up].num_block = nodes[up].num_block - nodes[gone].num_block
  <2>1. up \in DOMAIN nodes /\ nodes[up] \in NodeRecord
    BY DEF NodeRemoved
  <2> QED BY <2>1 DEF NodeRecord, Counted, NodeRemoved
<1>5. others[up].num_block <= 0 /\ (up # Root => others[up].num_block = 0)
  BY <1>3, <1>4
<1>6. ASSUME NEW m \in DOMAIN others, others[m].dir
      PROVE  /\ Fills(others, m, 0)
             /\ others[m].num_block <= 0 /\ (m # Root => others[m].num_block = 0)
  <2>1. m \in DOMAIN nodes /\ nodes[m].dir
    BY <1>6 DEF NodeRemoved
  <2>2. Fills(others, m, 0)
    BY <2>1, <1>2 DEF Counted
  <2>3. m # up => others[m].num_block = nodes[m].num_block
    BY <2>1 DEF NodeRemoved
  <2>4. nodes[m].num_block <= 0 /\ (m # Root => nodes[m].num_block = 0)
    BY <2>1 DEF Counted
  <2> QED BY <2>2, <2>3, <2>4, <1>5
<1>7. ASSUME NEW m \in DOMAIN others, ~ others[m].dir
      PROVE  \E k \in 0 .. MaxBlocks :
               Fills(others, m, k) /\ others[m].num_block = IF m \in w THEN k + 1 ELSE k
  <2>1. m \in DOMAIN nodes /\ ~ nodes[m].dir
    BY <1>7 DEF NodeRemoved
  <2>2. others[m].num_block = nodes[m].num_block
    <3>1. m # up
      BY <2>1
    <3> QED BY <3>1, <2>1 DEF NodeRemoved
  <2>3. PICK k \in 0 .. MaxBlocks :
          Fills(nodes, m, k) /\ nodes[m].num_block = IF m \in w THEN k + 1 ELSE k
    BY <2>1 DEF Counted
  <2>4. Fills(others, m, k) /\ others[m].num_block = IF m \in w THEN k + 1 ELSE k
    BY <2>1, <2>2, <2>3, <1>2
  <2> QED BY <2>4
<1>8. ASSUME NEW m \in DOMAIN others \ {Root}, NEW i \in DOMAIN others[m].files
      PROVE  others[others[m].files[i]].num_block = 0
  <2>1. m \in DOMAIN nodes /\ m # Root
    BY RemovedKids
  <2>2. PICK k \in DOMAIN nodes[m].files : others[m].files[i] = nodes[m].files[k]
                                             /\ nodes[m].files[k] \in DOMAIN nodes
    BY RemovedKids
  <2> DEFINE n == nodes[m].files[k]
  <2>3. nodes[n].num_block = 0 /\ n # Root /\ n \in DOMAIN nodes
    <3>1. nodes[n].num_block = 0
      BY <2>1 DEF Counted
    <3>2. n # Root
      BY <2>1 DEF IsForest, Kids
    <3> QED BY <3>1, <3>2, <2>2
  <2> HIDE DEF n
  <2>4. others[n].num_block = 0
    <3>1. CASE n = up
      BY <3>1, <2>3, <1>5
    <3>2. CASE n # up
      BY <3>2, <2>3 DEF NodeRemoved
    <3> QED BY <3>1, <3>2
  <2> QED BY <2>2, <2>4 DEF n
<1> QED BY <1>6, <1>7, <1>8 DEF Counted
TakenAt(f, path, g) ==
  g = [q \in DOMAIN f |->
         IF IsPrefix(path, q) THEN Files!Nothing
         ELSE IF q = Front(path) THEN [f[q] EXCEPT !.size = @ - f[path].size]
         ELSE f[q]]

LEMMA Shrinks ==
  ASSUME NEW e, NEW k, NEW a, NEW log, NEW j, e = [kind |-> k, size |-> a, log |-> log]
  PROVE  [e EXCEPT !.size = @ - j] = [kind |-> k, size |-> a - j, log |-> log]
OBVIOUS

LEMMA FrontShorter ==
  ASSUME NEW path \in Seq(Names), path # <<>>
  PROVE  ~ IsPrefix(path, Front(path))
<1>1. Len(path) \in Nat \ {0} /\ Len(Front(path)) = Len(path) - 1
  BY Parts
<1> QED BY <1>1 DEF IsPrefix

\* The abstract tree loses what was there and all behind it.
LEMMA RemovedEntries ==
  ASSUME NEW nodes, NEW others, NEW path, NEW up, NEW gone, NEW blocks, NEW w,
         NodeRemoved(nodes, others, path, up, gone), Tree(nodes, blocks, w), w = {}, nodes[up].dir
  PROVE  TakenAt(TreeIn(nodes, blocks, w), path, TreeIn(others, blocks, w))
<1>1. /\ Shaped(nodes, blocks) /\ Counted(nodes, w) /\ IsForest(nodes) /\ nodes \in Seq(NodeRecord)
      /\ Len(blocks) \in Nat /\ Nothing \notin DOMAIN nodes
  BY DEF Tree, Shaped, Stored, IsForest, Nothing
<1>2. \A q \in Seq(Names) :
        ResolveIn(others, q) = IF IsPrefix(path, q) THEN Nothing ELSE ResolveIn(nodes, q)
  BY <1>1, RemovedPaths DEF UnlinkedPaths
<1>3. /\ path \in Paths /\ path \in Seq(Names) /\ path # <<>> /\ Front(path) \in Paths \cup {<<>>}
      /\ Front(path) \in Seq(Names)
  BY PathsAre DEF NodeRemoved
<1>4. /\ up = ResolveIn(nodes, Front(path)) /\ gone = ResolveIn(nodes, path) /\ up \in DOMAIN nodes
      /\ gone \in DOMAIN nodes /\ others[up].dir /\ up # Nothing /\ gone # Nothing
      /\ others[up].size = nodes[up].size - nodes[gone].size
      /\ nodes[up].size \in Int /\ nodes[gone].size \in Int
  <2>1. nodes[up] \in NodeRecord /\ nodes[gone] \in NodeRecord
    BY <1>1 DEF NodeRemoved
  <2> QED BY <2>1 DEF NodeRemoved, NodeRecord
<1>5. ASSUME NEW m \in DOMAIN nodes, m # up
      PROVE  EntryIn(others, blocks, w, m) = EntryIn(nodes, blocks, w, m)
  <2>1. others[m].block = nodes[m].block /\ others[m].dir = nodes[m].dir /\ others[m].size = nodes[m].size
    BY <1>5 DEF NodeRemoved
  <2>2. PICK j \in 0 .. MaxBlocks : Fills(nodes, m, j)
    BY <1>1, FilledTo
  <2>3. nodes[m].block \in [1 .. MaxBlocks -> 0 .. Len(blocks)]
    BY <1>1 DEF Shaped
  <2>4. \A k \in 1 .. Len(blocks) : blocks[k] = blocks[k]
    OBVIOUS
  <2>5. m \in w <=> m \in w
    OBVIOUS
  <2> QED BY <1>1, <2>1, <2>2, <2>3, <2>4, <2>5, EntrySame
<1> DEFINE f == TreeIn(nodes, blocks, w)
           g == TreeIn(others, blocks, w)
<1>6. /\ DOMAIN f = Paths \cup {<<>>}
      /\ g = [q \in Paths \cup {<<>>} |-> g[q]]
      /\ \A q \in Paths \cup {<<>>} : /\ f[q] = EntryIn(nodes, blocks, w, ResolveIn(nodes, q))
                                      /\ g[q] = EntryIn(others, blocks, w, ResolveIn(others, q))
  BY DEF TreeIn
<1>7. f[path].size = nodes[gone].size
  <2>1. f[path] = EntryIn(nodes, blocks, w, gone)
    BY <1>3, <1>4, <1>6
  <2> HIDE DEF f
  <2>2. nodes[gone].size - 0 = nodes[gone].size
    BY <1>4
  <2>3. gone \notin w
    OBVIOUS
  <2> QED BY <2>1, <2>2, <2>3, <1>4 DEF EntryIn
<1> HIDE DEF f, g
<1>8. ASSUME NEW q \in Paths \cup {<<>>}
      PROVE  g[q] = IF IsPrefix(path, q) THEN Files!Nothing
                    ELSE IF q = Front(path) THEN [f[q] EXCEPT !.size = @ - f[path].size]
                    ELSE f[q]
  <2>1. q \in Seq(Names)
    BY PathsAre
  <2>2. CASE IsPrefix(path, q)
    <3>1. g[q] = EntryIn(others, blocks, w, Nothing)
      BY <2>1, <2>2, <1>2, <1>6
    <3>2. EntryIn(others, blocks, w, Nothing) = Files!Nothing
      BY DEF EntryIn, Files!Nothing
    <3> QED BY <2>2, <3>1, <3>2
  <2>3. CASE ~ IsPrefix(path, q) /\ q = Front(path)
    <3>1. f[q] = EntryIn(nodes, blocks, w, up) /\ g[q] = EntryIn(others, blocks, w, up)
      BY <2>1, <2>3, <1>2, <1>4, <1>6
    <3>2. f[q] = [kind |-> "directory", size |-> nodes[up].size, log |-> <<>>]
      BY <3>1, <1>4 DEF EntryIn
    <3>3. g[q] = [kind |-> "directory", size |-> nodes[up].size - nodes[gone].size, log |-> <<>>]
      BY <3>1, <1>4 DEF EntryIn
    <3>4. [f[q] EXCEPT !.size = @ - nodes[gone].size] =
            [kind |-> "directory", size |-> nodes[up].size - nodes[gone].size, log |-> <<>>]
      BY <3>2, Shrinks
    <3> QED BY <2>3, <3>3, <3>4, <1>7
  <2>4. CASE ~ IsPrefix(path, q) /\ q # Front(path)
    <3>1. f[q] = EntryIn(nodes, blocks, w, ResolveIn(nodes, q))
          /\ g[q] = EntryIn(others, blocks, w, ResolveIn(nodes, q))
      BY <2>1, <2>4, <1>2, <1>6
    <3>2. CASE ResolveIn(nodes, q) = Nothing
      BY <3>1, <3>2, <2>4 DEF EntryIn
    <3>3. CASE ResolveIn(nodes, q) # Nothing
      <4>1. ResolveIn(nodes, q) # up
        BY <2>1, <2>4, <3>3, <1>1, <1>3, <1>4, OnePath
      <4>2. ResolveIn(nodes, q) \in DOMAIN nodes
        BY <2>1, <3>3, <1>1, Reached
      <4> QED BY <3>1, <4>1, <4>2, <1>5, <2>4
    <3> QED BY <3>2, <3>3
  <2> QED BY <2>2, <2>3, <2>4
<1> QED BY <1>6, <1>8 DEF TakenAt, f, g

NodePut(o, f, s, b) == [o EXCEPT !.files = f, !.size = s, !.num_block = b]

LEMMA CountsPut ==
  ASSUME NEW o \in NodeRecord, NEW f \in Seq(Nat), NEW s \in Int, NEW b \in Int,
         NEW r, r = NodePut(o, f, s, b)
  PROVE  /\ r \in NodeRecord /\ r.name = o.name /\ r.dir = o.dir /\ r.files = f
         /\ r.block = o.block /\ r.num_block = b /\ r.size = s
BY DEF NodeRecord, NodePut

\* What Unlink does to the nodes.
LEMMA UnlinkRemoves ==
  ASSUME NEW nodes, Shaped(nodes, store), NEW path \in Paths,
         NEW p \in DOMAIN nodes, p # Nothing, p = ResolveIn(nodes, Front(path)),
         NEW i, i = IndexIn(nodes, p, Last(path)), i # 0, NEW gone, gone = nodes[p].files[i],
         NEW others,
         others = [nodes EXCEPT ![p].files = RemoveAt(@, i), ![p].size = @ - nodes[gone].size,
                                ![p].num_block = @ - nodes[gone].num_block]
  PROVE  NodeRemoved(nodes, others, path, p, gone) /\ i \in 1 .. Len(nodes[p].files)
<1> DEFINE o == nodes[p]
           f == RemoveAt(o.files, i)
           s == o.size - nodes[gone].size
           b == o.num_block - nodes[gone].num_block
           r == [o EXCEPT !.files = f, !.size = s, !.num_block = b]
<1>1. /\ nodes \in Seq(NodeRecord) /\ o \in NodeRecord /\ IsForest(nodes) /\ nodes[p].files \in Seq(DOMAIN nodes)
      /\ Nothing \notin DOMAIN nodes
  <2>1. nodes \in Seq(NodeRecord) /\ IsForest(nodes)
    BY SMTT(30) DEF Shaped
  <2>2. nodes[p] \in NodeRecord
    BY <2>1, SMTT(30)
  <2>3. nodes[p].files \in Seq(DOMAIN nodes) /\ Nothing \notin DOMAIN nodes
    BY <2>1, SMTT(30) DEF IsForest, Kids, Nothing
  <2> QED BY <2>1, <2>2, <2>3, SMTT(30)
<1>2. /\ i \in DOMAIN nodes[p].files /\ gone = ChildIn(nodes, p, Last(path))
      /\ gone \in DOMAIN nodes \ {Nothing, Root}
  BY <1>1, IndexFound DEF Kids
<1>3. i \in 1 .. Len(nodes[p].files) /\ i \in 1 .. Len(o.files) /\ nodes[gone] \in NodeRecord
  BY <1>1, <1>2
<1>4. gone = ResolveIn(nodes, path)
  <2>1. path \in Seq(Names) /\ path # <<>>
    BY PathsAre
  <2> QED BY <2>1, <1>2, ResolveStep, SMTT(30)
<1>5. o.files \in Seq(Nat)
  BY <1>1, SMTT(30) DEF NodeRecord
<1>6. s \in Int /\ b \in Int
  <2>1. o.size \in Int /\ o.num_block \in Int /\ nodes[gone].size \in Int /\ nodes[gone].num_block \in Int
    <3> HIDE DEF o
    <3> QED BY <1>1, <1>3 DEF NodeRecord
  <2> HIDE DEF o
  <2> QED BY <2>1, SMTT(30)
<1>7. f \in Seq(Nat)
  BY <1>3, <1>5, Removed
<1>8. others = [nodes EXCEPT ![p] = r]
  OBVIOUS
<1>9. r = [o EXCEPT !.files = f, !.size = s, !.num_block = b] /\ o = nodes[p]
  OBVIOUS
<1>10. /\ s = nodes[p].size - nodes[gone].size /\ f = RemoveAt(nodes[p].files, i)
       /\ b = nodes[p].num_block - nodes[gone].num_block
  OBVIOUS
<1> HIDE DEF o, f, s, b, r
<1>11. /\ r \in NodeRecord /\ r.name = o.name /\ r.dir = o.dir /\ r.files = f
       /\ r.block = o.block /\ r.num_block = b /\ r.size = s
  <2>1. o \in NodeRecord
    BY <1>1, SMTT(30)
  <2>2. r = NodePut(o, f, s, b)
    BY <1>9 DEF NodePut
  <2> QED BY ONLY <2>1, <1>6, <1>7, <2>2, CountsPut, SMTT(30)
<1>12. /\ others \in Seq(NodeRecord) /\ DOMAIN others = DOMAIN nodes /\ others[p] = r
       /\ \A m \in DOMAIN nodes : m # p => others[m] = nodes[m]
  <2>1. r \in NodeRecord /\ nodes \in Seq(NodeRecord)
    BY <1>1, <1>11
  <2> QED BY ONLY <2>1, <1>8, p \in DOMAIN nodes, SMTT(30)
<1>13. /\ others[p].files = RemoveAt(nodes[p].files, i) /\ others[p].size = nodes[p].size - nodes[gone].size
       /\ others[p].num_block = nodes[p].num_block - nodes[gone].num_block
  BY <1>10, <1>11, <1>12, Zenon
<1>14. \A m \in DOMAIN nodes : /\ others[m].name = nodes[m].name /\ others[m].dir = nodes[m].dir
                               /\ others[m].block = nodes[m].block
  BY <1>9, <1>11, <1>12, Zenon
<1>15. \E j \in DOMAIN nodes[p].files : nodes[p].files[j] = gone
  BY <1>2
<1>16. gone \in DOMAIN nodes /\ gone # Nothing /\ gone # Root
  BY <1>2
<1>17. \A m \in DOMAIN nodes : m # p =>
         /\ others[m].files = nodes[m].files /\ others[m].size = nodes[m].size
         /\ others[m].num_block = nodes[m].num_block
  BY <1>12, Zenon
<1>18. others[p].files = RemoveAt(nodes[p].files, IndexIn(nodes, p, Last(path)))
  BY <1>13, Zenon
<1> QED BY <1>3, <1>4, <1>12, <1>13, <1>14, <1>15, <1>16, <1>17, <1>18 DEF NodeRemoved
-----------------------------------------------------------------------------
(* unlink and rmdir                                                        *)

LEMMA Removes ==
  ASSUME OneThread, NEW t \in Threads, NEW path, Me(t).path = path, Me(t).op \in {"unlink", "rmdir"},
         TakenAt(TreeNow, path, TreeNow')
  PROVE  Done(t)
<1>1. Files!Delete(path)
  BY DEF Files!Delete, TakenAt, TreeNow, Files!Front, Front, Files!IsPrefix, IsPrefix
<1> QED BY <1>1 DEF Done

\* unlink and rmdir take the node from its parent.
LEMMA UnlinkStep ==
  ASSUME OneThread, FileInv, NEW t \in Threads, Unlink(t), UNCHANGED changes
  PROVE  FileInv' /\ FileStep
<1> DEFINE c == call[t]
           path == c.path
           p == c.parent
           i == c.index
           gone == node[p].files[i]
           w == {}
<1>1. /\ c.phase = "unlink"
      /\ i > Len(node[p].files) => Crash
      /\ ~ (i > Len(node[p].files)) =>
           /\ node' = [node EXCEPT ![p].files = RemoveAt(@, i), ![p].size = @ - node[gone].size,
                                   ![p].num_block = @ - node[gone].num_block]
           /\ Return(t, Code("ok")) /\ UNCHANGED store
  BY Zenon DEF Unlink, At, Me
<1>2. /\ Unlinking(node, c) /\ c \in CallRecord /\ p \in DOMAIN node /\ Nothing \notin DOMAIN node
      /\ Tree(node, store, Writes(c)) /\ IsForest(node)
  BY <1>1, Context, Zenon DEF Call
<1>3. /\ c.op \in {"unlink", "rmdir"} /\ path \in Paths /\ path \in Seq(Names) /\ path # <<>>
      /\ p = ResolveIn(node, Front(path)) /\ i # 0 /\ i = IndexIn(node, p, Last(path)) /\ p # Nothing
  BY <1>2, PathsAre DEF Unlinking
<1>4. Writes(c) = w /\ w = {}
  BY <1>1, Zenon DEF Writes
<1>5. Shaped(node, store) /\ Charted(node) /\ Counted(node, w) /\ Stored(store) /\ Tree(node, store, w)
      /\ node \in Seq(NodeRecord)
  BY <1>2, <1>4 DEF Tree, Shaped
<1>6. i \in 1 .. Len(node[p].files) /\ node[p].files \in Seq(DOMAIN node)
  <2>1. i \in DOMAIN node[p].files
    BY <1>2, <1>3, IndexFound DEF Kids
  <2>2. node[p].files \in Seq(DOMAIN node)
    BY <1>2 DEF IsForest, Kids
  <2> QED BY <2>1, <2>2
<1>7. node[p].dir
  <2>1. node[p].files # <<>>
    BY <1>6
  <2> QED BY <2>1, <1>2, <1>5 DEF Shaped
<1>8. ~ (i > Len(node[p].files))
  BY <1>6
<1>9. /\ node' = [node EXCEPT ![p].files = RemoveAt(@, i), ![p].size = @ - node[gone].size,
                              ![p].num_block = @ - node[gone].num_block]
      /\ Return(t, Code("ok")) /\ UNCHANGED store
  BY <1>1, <1>8, Zenon
<1>10. gone = node[p].files[i]
  OBVIOUS
<1> HIDE DEF gone, w
<1>11. NodeRemoved(node, node', path, p, gone)
  BY <1>2, <1>3, <1>5, <1>9, <1>10, UnlinkRemoves, Zenon
<1>12. Tree(node', store', {})
  <2>1. Shaped(node', store)
    BY <1>5, <1>11, RemovedShaped
  <2>2. Charted(node')
    BY <1>2, <1>5, <1>11, RemovedCharted
  <2>3. Counted(node', w)
    BY <1>2, <1>5, <1>7, <1>11, RemovedCounted
  <2> QED BY <2>1, <2>2, <2>3, <1>4, <1>5, <1>9, Zenon DEF Tree
<1>13. TakenAt(TreeIn(node, store, w), path, TreeIn(node', store, w))
  BY <1>4, <1>5, <1>7, <1>11, RemovedEntries, SMTT(30)
<1>14. TreeNow = TreeIn(node, store, w) /\ TreeNow' = TreeIn(node', store, w)
  <2>1. call'[t] = Quiet /\ Writes(Quiet) = w /\ Writes(Quiet) = {}
    BY <1>4, <1>9, QuietNext DEF Return
  <2>2. TreeNow = TreeIn(node, store, Writes(call[t])) /\ TreeNow' = TreeIn(node', store', w)
    BY <2>1, TreesAre
  <2> QED BY <2>2, <1>4, <1>9
<1>15. Done(t)
  <2>1. TakenAt(TreeNow, path, TreeNow')
    BY <1>13, <1>14
  <2> QED BY <2>1, <1>3, Removes DEF Me
<1>16. Code("ok") \in Files!Replies(t, Request(t))
  <2>1. Request(t).op = c.op
    BY <1>1, RequestIs
  <2> QED BY <2>1, <1>3, CodeIs DEF Files!Replies
<1>17. c.phase \notin {"idle", "crashed"} /\ c.op # "ftruncate"
  BY <1>1, <1>3
<1> QED BY <1>9, <1>12, <1>15, <1>16, <1>17, Returns, Zenon

\* What begins with the path is not there when the path is not.
LEMMA AllGone ==
  ASSUME NEW nodes, IsForest(nodes), NEW p \in Seq(Names), NEW q \in Seq(Names),
         IsPrefix(p, q), ResolveIn(nodes, p) = Nothing
  PROVE  ResolveIn(nodes, q) = Nothing
<1> SUFFICES ASSUME ResolveIn(nodes, q) # Nothing PROVE FALSE
  OBVIOUS
<1> DEFINE k == Len(p)
<1>1. k \in 0 .. Len(q) /\ SubSeq(q, 1, k) = p
  <2>1. k <= Len(q) /\ SubSeq(p, 1, k) = SubSeq(q, 1, k) /\ k \in Nat /\ Len(q) \in Nat
    BY DEF IsPrefix
  <2>2. SubSeq(p, 1, k) = p
    BY WholeIs
  <2> QED BY <2>1, <2>2
<1> HIDE DEF k
<1>2. ResolveIn(nodes, SubSeq(q, 1, k)) # Nothing
  BY <1>1, Beginnings
<1> QED BY <1>1, <1>2

\* To remove what is not there changes nothing.
LEMMA NothingTaken ==
  ASSUME NEW nodes, NEW path \in Paths, NEW blocks, NEW w, w = {},
         Tree(nodes, blocks, w), ResolveIn(nodes, path) = Nothing
  PROVE  TakenAt(TreeIn(nodes, blocks, w), path, TreeIn(nodes, blocks, w))
<1> DEFINE f == TreeIn(nodes, blocks, w)
<1>1. IsForest(nodes) /\ nodes \in Seq(NodeRecord) /\ path \in Seq(Names)
  BY PathsAre DEF Tree, Shaped
<1>2. /\ f = [q \in Paths \cup {<<>>} |-> f[q]] /\ DOMAIN f = Paths \cup {<<>>}
      /\ \A q \in Paths \cup {<<>>} : f[q] = EntryIn(nodes, blocks, w, ResolveIn(nodes, q))
  BY DEF TreeIn
<1> HIDE DEF f
<1>3. f[path].size = 0
  <2>1. path \in Paths \cup {<<>>}
    OBVIOUS
  <2>2. f[path] = EntryIn(nodes, blocks, w, Nothing)
    BY <1>2, <2>1
  <2>3. EntryIn(nodes, blocks, w, Nothing) = [kind |-> "nothing", size |-> 0, log |-> <<>>]
    BY DEF EntryIn
  <2> QED BY <2>2, <2>3
<1>4. ASSUME NEW q \in Paths \cup {<<>>}
      PROVE  f[q] = IF IsPrefix(path, q) THEN Files!Nothing
                    ELSE IF q = Front(path) THEN [f[q] EXCEPT !.size = @ - f[path].size]
                    ELSE f[q]
  <2>1. q \in Seq(Names)
    BY PathsAre
  <2>2. CASE IsPrefix(path, q)
    <3>1. ResolveIn(nodes, q) = Nothing
      BY <2>1, <2>2, <1>1, AllGone
    <3> QED BY <2>2, <3>1, <1>2 DEF EntryIn, Files!Nothing
  <2>3. CASE ~ IsPrefix(path, q)
    <3> DEFINE n == ResolveIn(nodes, q)
    <3>1. n = Nothing \/ n \in DOMAIN nodes
      BY <2>1, <1>1, Reached
    <3>2. f[q] = EntryIn(nodes, blocks, w, n)
      BY <1>2
    <3> HIDE DEF n
    <3>3. n \in DOMAIN nodes => nodes[n].size \in Int
      <4>1. n \in DOMAIN nodes => nodes[n] \in NodeRecord
        BY <1>1
      <4> QED BY <4>1 DEF NodeRecord
    <3>4. \E k, a, log : f[q] = [kind |-> k, size |-> a, log |-> log] /\ a \in Int
      <4>1. CASE n = Nothing
        <5>1. f[q] = [kind |-> "nothing", size |-> 0, log |-> <<>>]
          BY <3>2, <4>1 DEF EntryIn
        <5>2. 0 \in Int
          OBVIOUS
        <5> QED BY <5>1, <5>2, Zenon
      <4>2. CASE n # Nothing
        <5>1. nodes[n].size \in Int /\ n \notin w
          BY <3>1, <3>3, <4>2
        <5>2. CASE nodes[n].dir
          BY <3>2, <4>2, <5>1, <5>2 DEF EntryIn
        <5>3. CASE ~ nodes[n].dir
          <6>1. f[q] = [kind |-> "file", size |-> nodes[n].size - 0, log |-> DataIn(nodes, blocks, n)]
            BY <3>2, <4>2, <5>1, <5>3 DEF EntryIn
          <6>2. nodes[n].size - 0 \in Int
            BY <5>1
          <6> QED BY <6>1, <6>2
        <5> QED BY <5>2, <5>3
      <4> QED BY <4>1, <4>2
    <3>40. PICK k, a, log : f[q] = [kind |-> k, size |-> a, log |-> log] /\ a \in Int
      BY <3>4
    <3>5. [f[q] EXCEPT !.size = @ - 0] = [kind |-> k, size |-> a - 0, log |-> log]
      BY <3>40, Shrinks
    <3>6. a - 0 = a
      BY <3>40
    <3>7. [f[q] EXCEPT !.size = @ - f[path].size] = f[q]
      BY <1>3, <3>40, <3>5, <3>6
    <3> QED BY <2>3, <3>7
  <2> QED BY <2>2, <2>3
<1> QED BY <1>2, <1>4 DEF TakenAt, f

\* unlink and rmdir on the way.
LEMMA RemovingAt ==
  ASSUME OneThread, FileInv, NEW t \in Threads, Removing(node, saved, call[t])
  PROVE  \E k \in 0 .. Len(call[t].path) - 1 :
           /\ k \in 0 .. Len(call[t].path) /\ k + 1 \in 0 .. Len(call[t].path)
           /\ Descent(node, saved, call[t], call[t].path, k)
           /\ call[t].token # NoToken /\ call[t].token = call[t].path[k + 1]
           /\ saved = <<>> <=> k + 1 = Len(call[t].path)
           /\ ChildIn(node, call[t].cur, call[t].token) = ResolveIn(node, SubSeq(call[t].path, 1, k + 1))
<1> DEFINE c == call[t]
           path == c.path
<1>1. path \in Paths /\ path \in Seq(Names) /\ path # <<>> /\ Len(path) \in Nat
  BY PathsAre DEF Removing
<1>2. PICK k \in 0 .. Len(path) - 1 : Descent(node, saved, c, path, k)
  BY DEF Removing
<1>3. k \in 0 .. Len(path) /\ k + 1 \in 1 .. Len(path) /\ k < Len(path)
  BY <1>1, <1>2
<1>4. Scan(saved, c.token, path, k) /\ c.cur = ResolveIn(node, SubSeq(path, 1, k))
  BY <1>2 DEF Descent
<1>5. c.token # NoToken
  <2>1. path[k + 1] \in Names
    BY <1>1, <1>3
  <2>2. c.token = path[k + 1]
    BY <1>3, <1>4 DEF Scan
  <2> QED BY <2>1, <2>2, FileSystemAssumption
<1>6. c.cur # Nothing
  BY Context
<1>7. /\ k + 1 \in 0 .. Len(path) /\ c.token = path[k + 1]
      /\ saved = <<>> <=> k + 1 = Len(path)
  BY <1>1, <1>3, <1>4, <1>5, ScanNext
<1>8. ChildIn(node, c.cur, c.token) = ResolveIn(node, SubSeq(path, 1, k + 1))
  BY <1>1, <1>3, <1>4, <1>5, <1>6, Deeper
<1> QED BY <1>2, <1>3, <1>5, <1>7, <1>8

LEMMA FindGoes ==
  ASSUME OneThread, FileInv, NEW t \in Threads, NEW d, call' = [call EXCEPT ![t] = d],
         UNCHANGED <<node, store, reply, errno, cached, changes>>, saved' \in Seq(Names),
         call[t].op \in {"unlink", "rmdir"}, d \in CallRecord, d.cur \in DOMAIN node,
         d.parent \in DOMAIN node, call[t].phase = "remove", d.phase \in {"remove", "unlink"},
         d.op = call[t].op, d.path = call[t].path, d.data = call[t].data, call[t].path \in Paths,
         d.first = call[t].first, d.size = call[t].size,
         d.phase = "remove" => Removing(node, saved', d), d.phase = "unlink" => Unlinking(node, d)
  PROVE  FileInv' /\ FileStep
<1> DEFINE c == call[t]
<1>1. Writes(c) = {} /\ Writes(d) = {}
  BY DEF Writes
<1>2. /\ c \in CallRecord /\ Tree(node, store, {}) /\ c.path # <<>>
  BY <1>1, Context, PathsAre
<1>3. Call(node, store, saved', d)
  BY <1>2 DEF Call
<1>4. /\ Tree(node', store', Writes(d)) /\ Call(node', store', saved', d)
      /\ TreeIn(node', store', Writes(d)) = TreeIn(node, store, Writes(c))
  BY <1>1, <1>2, <1>3
<1>5. c.phase \notin {"idle", "crashed"} /\ d.phase \notin {"idle", "crashed"}
  OBVIOUS
<1> HIDE DEF c
<1> QED BY <1>4, <1>5, Goes DEF c

\* They find the directory, or that nothing is there.
LEMMA FindStep ==
  ASSUME OneThread, FileInv, NEW t \in Threads, Find(t), UNCHANGED changes
  PROVE  FileInv' /\ FileStep
<1> DEFINE c == call[t]
           path == c.path
           i == IndexIn(node, c.cur, c.token)
           child == node[c.cur].files[i]
           phase == IF saved = <<>> THEN "unlink" ELSE "remove"
           d == [[c EXCEPT !.parent = c.cur, !.index = i, !.cur = child, !.phase = phase]
                  EXCEPT !.token = First(saved)]
<1>1. /\ c.phase = "remove" /\ UNCHANGED <<node, store, changes>>
      /\ i = 0 => Abandon(t)
      /\ i # 0 => /\ call' = [call EXCEPT ![t] = d] /\ saved' = Rest(saved)
                  /\ UNCHANGED <<reply, errno, cached>>
  BY IndexIs DEF Find, At, Me, Advance
<1>2. /\ c \in CallRecord /\ c.cur \in DOMAIN node /\ saved \in Seq(Names)
      /\ IsForest(node) /\ Nothing \notin DOMAIN node /\ Call(node, store, saved, c)
      /\ Tree(node, store, Writes(c))
  BY Context
<1>3. Removing(node, saved, c) /\ c.op \in {"unlink", "rmdir"} /\ path \in Paths
      /\ path \in Seq(Names) /\ path # <<>>
  <2>1. Removing(node, saved, c)
    BY <1>1, <1>2 DEF Call
  <2> QED BY <2>1, PathsAre DEF Removing
<1>4. First(saved) \in Names \cup {NoToken} /\ Rest(saved) \in Seq(Names)
  BY <1>2, Tokens
<1>5. PICK k \in 0 .. Len(path) - 1 :
        /\ k \in 0 .. Len(path) /\ k + 1 \in 0 .. Len(path)
        /\ Descent(node, saved, c, path, k)
        /\ c.token # NoToken /\ c.token = path[k + 1]
        /\ saved = <<>> <=> k + 1 = Len(path)
        /\ ChildIn(node, c.cur, c.token) = ResolveIn(node, SubSeq(path, 1, k + 1))
  BY <1>3, RemovingAt
<1>6. Writes(c) = {}
  BY <1>1 DEF Writes
<1>7. CASE i = 0
  <2>1. Abandon(t)
    BY <1>1, <1>7
  <2>2. /\ call' = [call EXCEPT ![t] = Quiet] /\ reply' = [reply EXCEPT ![t] = Code("ok")]
        /\ saved' \in Seq(Names) /\ Believe(t, Code("ok")) /\ UNCHANGED errno
    BY <2>1, <1>4 DEF Abandon
  <2>3. cached' \subseteq Range(Renames)
    BY <2>2, Believes
  <2>4. Tree(node', store', {})
    BY <1>1, <1>2, <1>6
  <2>5. ResolveIn(node, path) = Nothing
    <3>1. ChildIn(node, c.cur, c.token) = Nothing
      BY <1>7 DEF ChildIn
    <3>2. ResolveIn(node, SubSeq(path, 1, k + 1)) = Nothing
      BY <3>1, <1>5
    <3> QED BY <3>2, <1>2, <1>3, <1>5, Beginnings
  <2>6. TreeNow' = TreeNow /\ TreeNow = TreeIn(node, store, {})
    <3>1. call'[t] = Quiet /\ Writes(Quiet) = {}
      BY <2>2, QuietNext
    <3> QED BY <3>1, <1>1, <1>6, TreesAre
  <2>7. Done(t)
    <3>1. TakenAt(TreeIn(node, store, {}), path, TreeIn(node, store, {}))
      <4> DEFINE w == {}
      <4>1. w = {} /\ Tree(node, store, w)
        BY <1>2, <1>6
      <4> HIDE DEF w
      <4>2. TakenAt(TreeIn(node, store, w), path, TreeIn(node, store, w))
        BY <4>1, <1>3, <2>5, NothingTaken
      <4> QED BY <4>1, <4>2
    <3>2. TakenAt(TreeNow, path, TreeNow')
      BY <3>1, <2>6
    <3> QED BY <3>2, <1>3, Removes DEF Me
  <2>8. Code("ok") \in Files!Replies(t, Request(t))
    <3>1. Request(t).op = c.op
      BY <1>1, RequestIs
    <3> QED BY <3>1, <1>3, CodeIs DEF Files!Replies
  <2>9. c.phase \notin {"idle", "crashed"} /\ Me(t).op # "ftruncate"
    BY <1>1, <1>3 DEF Me
  <2>10. errno' = IF Me(t).op = "ftruncate" THEN errno \cup {t} ELSE errno
    BY <2>2, <2>9
  <2> QED BY <1>1, <2>2, <2>3, <2>4, <2>7, <2>8, <2>9, <2>10, Answers
<1>8. CASE i # 0
  <2>1. call' = [call EXCEPT ![t] = d] /\ saved' = Rest(saved) /\ UNCHANGED <<reply, errno, cached>>
    BY <1>1, <1>8
  <2>2. child \in DOMAIN node /\ child \in Nat /\ i \in Nat /\ child = ChildIn(node, c.cur, c.token)
    BY <1>2, <1>8, IndexFound DEF IsForest, ChildIn
  <2>3. phase \in {"remove", "unlink"} /\ c.cur \in Nat
    BY <1>2 DEF CallRecord
  <2>30. i = IndexIn(node, c.cur, c.token)
    OBVIOUS
  <2> HIDE DEF i, child
  <2>31. saved = <<>> <=> phase = "unlink"
    OBVIOUS
  <2> HIDE DEF phase
  <2>4. /\ d \in CallRecord /\ d.phase = phase /\ d.op = c.op /\ d.path = c.path /\ d.data = c.data
        /\ d.first = c.first /\ d.size = c.size /\ d.parent = c.cur /\ d.index = i
        /\ d.cur = child /\ d.token = First(saved)
    BY <1>2, <1>4, <2>2, <2>3 DEF CallRecord, Phases
  <2> HIDE DEF d
  <2>5. d.phase = "remove" => Removing(node, saved', d)
    <3> SUFFICES ASSUME d.phase = "remove" PROVE Removing(node, saved', d)
      OBVIOUS
    <3>1. k + 1 # Len(path)
      BY <1>5, <2>31, <2>4
    <3>2. Descent(node, Rest(saved), d, path, k + 1)
      BY <1>2, <1>3, <1>5, <2>2, <2>4, Deepens
    <3>3. k + 1 \in 0 .. Len(path) - 1
      BY <3>1, <1>5, <1>3
    <3> QED BY <3>2, <3>3, <1>3, <2>1, <2>4 DEF Removing
  <2>6. d.phase = "unlink" => Unlinking(node, d)
    <3> SUFFICES ASSUME d.phase = "unlink" PROVE Unlinking(node, d)
      OBVIOUS
    <3>1. k + 1 = Len(path)
      BY <1>5, <2>31, <2>4
    <3>2. k = Len(path) - 1 /\ Len(path) \in Nat
      BY <3>1, <1>3
    <3>3. /\ SubSeq(path, 1, Len(path) - 1) = Front(path) /\ Last(path) = path[Len(path)]
      BY <1>3, WholeIs
    <3>4. c.cur = ResolveIn(node, SubSeq(path, 1, k)) /\ c.token = path[k + 1]
      BY <1>5 DEF Descent
    <3>5. c.cur = ResolveIn(node, Front(path)) /\ c.token = Last(path)
      BY <3>1, <3>2, <3>3, <3>4
    <3> QED BY <3>5, <1>3, <1>8, <2>30, <2>4 DEF Unlinking
  <2>7. saved' \in Seq(Names) /\ UNCHANGED <<node, store, reply, errno, cached, changes>>
    BY <1>1, <1>4, <2>1
  <2> QED BY <1>1, <1>2, <1>3, <2>1, <2>2, <2>3, <2>4, <2>5, <2>6, <2>7, FindGoes
<1> QED BY <1>7, <1>8
-----------------------------------------------------------------------------
(* An empty file system                                                    *)

RootOnly(nodes) ==
  /\ nodes \in Seq(NodeRecord) /\ nodes # <<>> /\ DOMAIN nodes = {Root}
  /\ nodes[Root].name = "/" /\ nodes[Root].dir /\ nodes[Root].size = 0
  /\ nodes[Root].num_block = 0 /\ nodes[Root].files = <<>>
  /\ nodes[Root].block \in [1 .. MaxBlocks -> {NoBlock}]

LEMMA FreshRoot ==
  ASSUME NEW nodes, nodes = <<NewNode("/", TRUE)>>
  PROVE  RootOnly(nodes)
<1>1. NewNode("/", TRUE) \in NodeRecord
  BY NewTyped
<1> DEFINE r == NewNode("/", TRUE)
<1>2. /\ r.name = "/" /\ r.dir = TRUE /\ r.size = 0 /\ r.num_block = 0 /\ r.files = <<>>
      /\ r.block \in [1 .. MaxBlocks -> {NoBlock}]
  BY DEF NewNode
<1>3. nodes = <<r>> /\ r \in NodeRecord
  BY <1>1
<1> HIDE DEF r
<1>4. nodes \in Seq(NodeRecord) /\ nodes # <<>> /\ DOMAIN nodes = {1} /\ nodes[1] = r
  BY ONLY <1>3
<1> QED BY ONLY <1>2, <1>4 DEF RootOnly, Root

LEMMA FreshTree ==
  ASSUME NEW nodes, RootOnly(nodes), NEW w, w = {}, NEW b, b = <<>>
  PROVE  /\ Tree(nodes, b, w)
         /\ TreeIn(nodes, b, w) =
              [p \in Paths \cup {<<>>} |-> IF p = <<>> THEN Files!Directory ELSE Files!Nothing]
<1>1. /\ nodes \in Seq(NodeRecord) /\ nodes # <<>> /\ DOMAIN nodes = {Root}
      /\ nodes[Root].name = "/" /\ nodes[Root].dir /\ nodes[Root].size = 0
      /\ nodes[Root].num_block = 0 /\ nodes[Root].files = <<>>
      /\ nodes[Root].block \in [1 .. MaxBlocks -> {NoBlock}]
  BY DEF RootOnly
<1>2. b \in Seq(Blocks) /\ Len(b) = 0 /\ DOMAIN b = {} /\ MaxBlocks \in Nat
  BY FileSystemAssumption
<1>3. IsForest(nodes)
  <2>1. \A n \in DOMAIN nodes : Kids(nodes, n) = <<>>
    BY <1>1 DEF Kids
  <2>2. \A n \in DOMAIN nodes : Kids(nodes, n) \in Seq(DOMAIN nodes) /\ DOMAIN Kids(nodes, n) = {}
    <3>1. \A S : <<>> \in Seq(S) /\ DOMAIN <<>> = {}
      OBVIOUS
    <3> QED BY <2>1, <3>1, Zenon
  <2>3. DOMAIN nodes \subseteq Nat \ {0} /\ Root \in DOMAIN nodes
    BY <1>1 DEF Root
  <2> QED BY <2>2, <2>3 DEF IsForest
<1>4. Shaped(nodes, b)
  <2>1. \A n \in DOMAIN nodes : nodes[n].block \in [1 .. MaxBlocks -> 0 .. Len(b)]
    BY <1>1, <1>2 DEF NoBlock
  <2>2. \A n \in DOMAIN nodes : DOMAIN nodes[n].files = {}
    BY <1>1
  <2> QED BY <1>1, <1>3, <2>1, <2>2 DEF Shaped
<1>5. \A p \in Seq(Names) : ResolveIn(nodes, p) = Root \/ ResolveIn(nodes, p) = Nothing
  BY <1>1, <1>3, Reached
<1>6. Charted(nodes)
  <2>1. \A p \in Paths \cup {<<>>} : ResolveIn(nodes, p) # Nothing => ResolveIn(nodes, p) = Root
    BY <1>5, PathsAre
  <2>2. DOMAIN nodes[Root].files = {}
    BY <1>1
  <2> QED BY <2>1, <2>2 DEF Charted
<1>7. Counted(nodes, w)
  <2>1. Fills(nodes, Root, 0)
    BY <1>1, <1>2 DEF Fills
  <2> QED BY <1>1, <2>1 DEF Counted
<1>8. Stored(b)
  BY <1>2 DEF Stored
<1>9. \A x : ChildIn(nodes, Root, x) = Nothing
  BY <1>1 DEF ChildIn, IndexIn
<1>10. \A p \in Paths \cup {<<>>} : ResolveIn(nodes, p) = IF p = <<>> THEN Root ELSE Nothing
  <2> TAKE p \in Paths \cup {<<>>}
  <2>1. CASE p = <<>>
    BY <2>1, ResolveEmpty
  <2>2. CASE p # <<>>
    <3>1. p \in Seq(Names) /\ Front(p) \in Seq(Names)
      BY <2>2, PathsAre
    <3>2. ResolveIn(nodes, Front(p)) = Root \/ ResolveIn(nodes, Front(p)) = Nothing
      BY <3>1, <1>5
    <3>3. ResolveIn(nodes, p) = IF ResolveIn(nodes, Front(p)) = Nothing THEN Nothing
                                ELSE ChildIn(nodes, ResolveIn(nodes, Front(p)), Last(p))
      BY <2>2, <3>1, ResolveStep
    <3> QED BY <2>2, <3>2, <3>3, <1>9
  <2> QED BY <2>1, <2>2
<1>11. EntryIn(nodes, b, w, Root) = Files!Directory /\ EntryIn(nodes, b, w, Nothing) = Files!Nothing
  BY <1>1 DEF EntryIn, Files!Directory, Files!Nothing, Root, Nothing
<1>12. TreeIn(nodes, b, w) =
         [p \in Paths \cup {<<>>} |-> IF p = <<>> THEN Files!Directory ELSE Files!Nothing]
  <2>1. \A p \in Paths \cup {<<>>} : EntryIn(nodes, b, w, ResolveIn(nodes, p)) =
          IF p = <<>> THEN Files!Directory ELSE Files!Nothing
    BY <1>10, <1>11
  <2> QED BY <2>1 DEF TreeIn
<1> QED BY <1>4, <1>6, <1>7, <1>8, <1>12 DEF Tree

LEMMA QuietAsks == ~ (Quiet.phase # "idle") /\ Quiet \in CallRecord /\ Quiet.phase # "crashed"
  BY DEF Quiet, CallRecord, Ops, Reads, Phases, Root

\* What holds of an empty file system, and what it is to the abstract one.
LEMMA Starts ==
  ASSUME Init
  PROVE  FileInv /\ Files!FormatDisk
<1> DEFINE w == {}
           fresh == <<NewNode("/", TRUE)>>
<1>1. /\ node = fresh /\ store = <<>> /\ saved = <<>> /\ call = [t \in Threads |-> Quiet]
      /\ reply = [t \in Threads |-> NoAnswer] /\ errno = {} /\ cached = {} /\ changes = 0
  BY DEF Init
<1>2. Tree(node, store, w)
      /\ TreeIn(node, store, w) =
           [p \in Paths \cup {<<>>} |-> IF p = <<>> THEN Files!Directory ELSE Files!Nothing]
  BY <1>1, FreshRoot, FreshTree
<1>3. Root \in DOMAIN node
  BY <1>2 DEF Tree, Shaped, IsForest
<1>4. Written = w
  BY <1>1, <1>3, QuietIs DEF Written
<1>5. \A t \in Threads : Call(node, store, saved, call[t])
  BY <1>1, <1>3, QuietIs
<1> HIDE DEF w, fresh
<1>6. FileInv
  BY <1>1, <1>2, <1>4, <1>5, FileSystemAssumption DEF FileInv
<1>7. TreeNow = TreeIn(node, store, w)
  <2>1. \A p \in Paths \cup {<<>>} : Entry(Resolve(p)) = EntryIn(node, store, w, ResolveIn(node, p))
    <3> TAKE p \in Paths \cup {<<>>}
    <3> DEFINE n == ResolveIn(node, p)
    <3>1. Resolve(p) = n
      BY ResolveIs
    <3> HIDE DEF n
    <3>2. \A m : Writers(m) = {}
      BY <1>1, QuietAsks DEF Writers, At, Me
    <3>3. Growth(n) = 0
      BY <3>2 DEF Growth
    <3>4. n \notin w
      BY DEF w
    <3>5. Entry(n) = EntryIn(node, store, w, n)
      BY <3>3, <3>4 DEF Entry, EntryIn, Data, DataIn, Filled, FilledIn
    <3> QED BY <3>1, <3>5 DEF n
  <2> QED BY <2>1, EntryAtIs DEF TreeNow, TreeIn
<1>8. Running
  BY <1>1, QuietAsks DEF Running, At
<1>9. Asks = [t \in Threads |-> Files!Idle]
  <2>1. \A t \in Threads : Request(t) = Files!Idle
    BY <1>1, QuietAsks DEF Request, At, Files!Idle
  <2> QED BY <2>1 DEF Asks
<1>10. reply = [t \in Threads |-> Files!Code("none")]
  BY <1>1 DEF NoAnswer, Code, Answer, Files!Code
<1>11. Files!FormatDisk
  <2>1. Running = TRUE
    BY <1>8
  <2>2. TreeNow = [p \in Paths \cup {<<>>} |-> IF p = <<>> THEN Files!Directory ELSE Files!Nothing]
    BY <1>2, <1>7
  <2> QED BY <2>1, <2>2, <1>9, <1>10, <1>1 DEF Files!FormatDisk, Running, TreeNow, Asks
<1> QED BY <1>6, <1>11
LEMMA StartsAlways == Init => FileInv /\ Files!FormatDisk
  BY Starts

LEMMA StartsNext == Init' => (FileInv /\ Files!FormatDisk)'
  BY StartsAlways, PTL

\* The file system is mounted again, empty.
LEMMA Remounting ==
  ASSUME Remount
  PROVE  FileInv' /\ FileStep
<1>1. Init'
  BY DEF Remount, Init
<1>2. FileInv' /\ Files!FormatDisk'
  BY <1>1, StartsNext
<1>3. Running /\ Asks = [t \in Threads |-> Files!Idle]
  BY DEF Remount, Running, Asks, At, Request, Files!Idle
<1>4. Files!Reformat
  BY <1>2, <1>3 DEF Files!Reformat, Running, Asks
<1> QED BY <1>2, <1>4 DEF FileStep, Files!LogNext

\* Nothing but the nodes, the store and the calls makes the entries.
LEMMA SameEntries ==
  ASSUME UNCHANGED <<node, store, call>>, NEW p
  PROVE  EntryAt(p)' = EntryAt(p)
<1>1. Resolve(p)' = Resolve(p)
  BY ResolveIs
<1>2. \A n : Growth(n)' = Growth(n)
  BY DEF Growth, Writers, At, Me
<1>3. \A n : Data(n)' = Data(n)
  BY DEF Data, Filled
<1>4. Entry(Resolve(p))' = Entry(Resolve(p))
  BY <1>1, <1>2, <1>3 DEF Entry
<1> QED BY <1>4, EntryAtIs

\* The kernel forgets a name that was renamed.
LEMMA Expiring ==
  ASSUME FileInv, Expire
  PROVE  FileInv' /\ FileStep
<1>1. UNCHANGED <<node, store, saved, call, reply, errno, changes>> /\ cached' \subseteq cached
  BY DEF Expire
<1>2. FileInv'
  <2>1. Written' = Written
    BY <1>1 DEF Written
  <2> QED BY <1>1, <2>1 DEF FileInv
<1>3. TreeNow' = TreeNow /\ Asks' = Asks /\ Running' = Running
  <2>1. \A p : EntryAt(p)' = EntryAt(p)
    BY <1>1, SameEntries
  <2> QED BY <1>1, <2>1 DEF TreeNow, Asks, Running, Request, At, Me
<1> QED BY <1>1, <1>2, <1>3, FileStutter

\* A thread outside of all handlers.
LEMMA Standing ==
  ASSUME FileInv, UNCHANGED vars
  PROVE  FileInv' /\ FileStep
<1>1. UNCHANGED <<node, store, saved, call, reply, errno, cached, changes>>
  BY DEF vars
<1>2. FileInv'
  <2>1. Written' = Written
    BY <1>1 DEF Written
  <2> QED BY <1>1, <2>1 DEF FileInv
<1>3. TreeNow' = TreeNow /\ Asks' = Asks /\ Running' = Running
  <2>1. \A p : EntryAt(p)' = EntryAt(p)
    BY <1>1, SameEntries
  <2> QED BY <1>1, <2>1 DEF TreeNow, Asks, Running, Request, At, Me
<1> QED BY <1>1, <1>2, <1>3, FileStutter
-----------------------------------------------------------------------------
(* A call begins                                                           *)

LEMMA Phased ==
  ASSUME NEW op \in Ops
  PROVE  /\ FirstPhase(op) \in Phases \ {"idle", "crashed"}
         /\ FirstPhase(op) = "check" => op \in Reads \cup {"truncate", "write"}
         /\ FirstPhase(op) = "answer" => op \in NoLookup
         /\ FirstPhase(op) = "name" => op \in {"mknod", "mkdir"}
         /\ FirstPhase(op) = "remove" => op \in {"unlink", "rmdir"}
         /\ FirstPhase(op) \in {"check", "answer", "name", "remove"}
         /\ op \in NoLookup <=> FirstPhase(op) = "answer"
BY DEF FirstPhase, Ops, Phases, Reads, Listings, NoLookup

LEMMA Asked ==
  ASSUME NEW op \in Ops, NEW path \in Paths \cup {<<>>}, NEW data \in Contents \cup {Garbage},
         NEW first \in Nat, NEW size \in Nat
  PROVE  [op |-> op, path |-> path, data |-> data, first |-> first, size |-> size] \in Files!Requests
BY DEF Files!Requests, Ops, Reads, Listings, NoLookup

LEMMA DataAsked ==
  ASSUME NEW data \in Blocks \cup {Unwritten}
  PROVE  data[1] \in Contents \cup {Garbage}
BY DEF Blocks, Garbage

LEMMA RangeAsked ==
  ASSUME NEW op, NEW path, Resolve(path) # Nothing => node[Resolve(path)].size \in Int,
         NEW range \in (CASE op = "truncate" -> {0} \X Sizes
                          [] op = "write" -> {0} \X Lengths
                          [] op = "read" -> Ranges(path)
                          [] OTHER -> {<<0, 0>>})
  PROVE  /\ range[1] \in Nat /\ range[2] \in Nat
         /\ op = "read" => /\ range[2] > 0
                           /\ Resolve(path) # Nothing =>
                                BlockSize * (range[1] + range[2] - 1) < node[Resolve(path)].size
<1>1. MaxBlocks \in Nat /\ Sizes \subseteq Nat /\ Lengths \subseteq Nat
  BY FileSystemAssumption
<1>2. CASE op = "truncate"
  <2>1. range \in {0} \X Sizes
    BY <1>2
  <2> QED BY <1>1, <1>2, <2>1
<1>20. CASE op = "write"
  <2>1. range \in {0} \X Lengths
    BY <1>20
  <2> QED BY <1>1, <1>20, <2>1
<1>3. CASE op = "read"
  <2>1. range \in Ranges(path)
    BY <1>3
  <2>2. CASE Resolve(path) = Nothing
    <3>1. range = <<0, 1>>
      BY <2>1, <2>2 DEF Ranges
    <3> QED BY <3>1, <1>3, <2>2
  <2>3. CASE Resolve(path) # Nothing
    <3>1. /\ range \in (0 .. MaxBlocks) \X (1 .. MaxBlocks)
          /\ BlockSize * (range[1] + range[2] - 1) < node[Resolve(path)].size
      BY <2>1, <2>3 DEF Ranges
    <3>2. range[1] \in Nat /\ range[2] \in Nat /\ range[2] > 0
      BY <3>1, <1>1
    <3> QED BY <3>1, <3>2, <1>3, Zenon
  <2> QED BY <2>2, <2>3
<1>4. CASE op # "truncate" /\ op # "read" /\ op # "write"
  <2>1. range = <<0, 0>>
    BY <1>4
  <2> QED BY <2>1, <1>4
<1> QED BY <1>2, <1>20, <1>3, <1>4

\* The call as it is made.
Asking(op, path, data, a, b) ==
  [Quiet EXCEPT !.op = op, !.phase = FirstPhase(op), !.path = path, !.data = data,
                !.first = a, !.size = b,
                !.token = IF op \in NoLookup THEN NoToken ELSE First(path)]

AskedFor(d, op, path, data, a, b) ==
  /\ d \in CallRecord /\ d.op = op /\ d.phase = FirstPhase(op) /\ d.path = path
  /\ d.data = data /\ d.first = a /\ d.size = b
  /\ d.token = (IF op \in NoLookup THEN NoToken ELSE First(path))
  /\ d.cur = Root /\ d.parent = Root

LEMMA AskingIs ==
  ASSUME NEW op \in Ops, NEW path \in Paths \cup {<<>>}, NEW data \in Blocks \cup {Unwritten},
         NEW a \in Nat, NEW b \in Nat, NEW d, d = Asking(op, path, data, a, b)
  PROVE  AskedFor(d, op, path, data, a, b)
<1> DEFINE token == IF op \in NoLookup THEN NoToken ELSE First(path)
           phase == FirstPhase(op)
<1>1. token \in Names \cup {NoToken}
  <2>1. path \in Seq(Names)
    BY PathsAre
  <2> QED BY <2>1, Tokens
<1>2. phase \in Phases
  BY Phased
<1>3. d = [Quiet EXCEPT !.op = op, !.phase = phase, !.path = path, !.data = data,
                        !.first = a, !.size = b, !.token = token]
  BY DEF Asking
<1>4. Quiet \in CallRecord /\ Quiet.cur = Root /\ Quiet.parent = Root
  <2>1. Quiet.cur = Root /\ Quiet.parent = Root
    BY DEF Quiet
  <2> QED BY <2>1, QuietAsks
<1> DEFINE q == Quiet
<1>5. q = Quiet
  OBVIOUS
<1> HIDE DEF token, phase, q
<1>6. /\ d \in CallRecord /\ d.op = op /\ d.phase = phase /\ d.path = path
      /\ d.data = data /\ d.first = a /\ d.size = b /\ d.token = token
      /\ d.cur = q.cur /\ d.parent = q.parent
  BY <1>1, <1>2, <1>3, <1>4, <1>5, ZenonT(40) DEF CallRecord
<1> QED BY <1>4, <1>5, <1>6 DEF token, phase, AskedFor

\* A call begins.
LEMMA Beginning ==
  ASSUME OneThread, FileInv, NEW t \in Threads, NEW op \in Ops, NEW path \in Paths \cup {<<>>},
         Begin(t, op, path)
  PROVE  FileInv' /\ FileStep
<1>1. PICK data \in (IF op = "write" THEN Blocks ELSE {Unwritten}),
           range \in (CASE op = "truncate" -> {0} \X Sizes
                        [] op = "write" -> {0} \X Lengths
                        [] op = "read" -> Ranges(path)
                        [] OTHER -> {<<0, 0>>}) :
        call' = [call EXCEPT ![t] = Asking(op, path, data, range[1], range[2])]
  BY DEF Begin, Asking
<1>2. /\ call[t].phase = "idle" /\ Permitted(op, path)
      /\ saved' = IF op \in NoLookup \/ path = <<>> THEN saved ELSE Rest(path)
      /\ reply' = [reply EXCEPT ![t] = NoAnswer] /\ UNCHANGED <<node, store, errno, cached>>
      /\ (op \notin Reads => changes < MaxChanges)
      /\ changes' = IF op \in Reads THEN changes ELSE changes + 1
  BY DEF Begin, At
<1> DEFINE a == range[1]
           b == range[2]
           d == Asking(op, path, data, a, b)
<1>3. /\ Tree(node, store, Writes(call[t])) /\ saved \in Seq(Names) /\ path \in Seq(Names)
      /\ IsForest(node) /\ Nothing \notin DOMAIN node /\ Root \in DOMAIN node
      /\ cached \subseteq Range(Renames) /\ errno \subseteq Threads /\ changes \in 0 .. MaxChanges
      /\ reply' = [u \in Threads |-> reply'[u]]
  <2>1. /\ Tree(node, store, Writes(call[t])) /\ saved \in Seq(Names)
        /\ IsForest(node) /\ Nothing \notin DOMAIN node
        /\ cached \subseteq Range(Renames) /\ errno \subseteq Threads /\ changes \in 0 .. MaxChanges
        /\ \A e : [reply EXCEPT ![t] = e] = [u \in Threads |-> [reply EXCEPT ![t] = e][u]]
    BY Context
  <2>2. reply' = [u \in Threads |-> reply'[u]]
    BY <2>1, <1>2
  <2>3. path \in Seq(Names) /\ Root \in DOMAIN node
    BY <2>1, PathsAre DEF IsForest
  <2> QED BY <2>1, <2>2, <2>3
<1>4. data \in Blocks \cup {Unwritten} /\ (op = "write" => data \in Blocks)
  BY <1>1
<1>5. /\ a \in Nat /\ b \in Nat
      /\ op = "read" =>
           b > 0 /\ (ResolveIn(node, path) # Nothing =>
                       BlockSize * (a + b - 1) < node[ResolveIn(node, path)].size)
  <2>1. Resolve(path) = ResolveIn(node, path)
    BY ResolveIs
  <2>2. Resolve(path) # Nothing => node[Resolve(path)].size \in Int
    <3> DEFINE n == ResolveIn(node, path)
    <3>1. n # Nothing => n \in DOMAIN node
      BY <1>3, Reached
    <3> HIDE DEF n
    <3>2. node \in Seq(NodeRecord)
      BY <1>3 DEF Tree, Shaped
    <3>3. n # Nothing => node[n] \in NodeRecord
      BY <3>1, <3>2
    <3>4. n # Nothing => node[n].size \in Int
      BY <3>3 DEF NodeRecord
    <3> QED BY <3>4, <2>1 DEF n
  <2> QED BY <1>1, <2>1, <2>2, RangeAsked
<1>50. call' = [call EXCEPT ![t] = d] /\ d = Asking(op, path, data, a, b)
  BY <1>1
<1> HIDE DEF a, b, d
<1>6. /\ d \in CallRecord /\ d.op = op /\ d.phase = FirstPhase(op) /\ d.path = path
      /\ d.data = data /\ d.first = a /\ d.size = b
      /\ d.token = (IF op \in NoLookup THEN NoToken ELSE First(path))
      /\ d.cur = Root /\ d.parent = Root
  <2>1. a \in Nat /\ b \in Nat /\ data \in Blocks \cup {Unwritten} /\ op \in Ops
        /\ path \in Paths \cup {<<>>} /\ d = Asking(op, path, data, a, b)
    BY <1>4, <1>5, <1>50
  <2>2. AskedFor(d, op, path, data, a, b)
    BY ONLY <2>1, AskingIs
  <2> QED BY ONLY <2>2 DEF AskedFor
<1>7. saved' \in Seq(Names)
  BY <1>2, <1>3, Tokens
<1>8. Writes(d) = {} /\ Writes(call[t]) = {}
  BY <1>2, <1>6, Phased DEF Writes
<1>9. op \notin NoLookup => Scan(saved', d.token, path, 0)
  <2> SUFFICES ASSUME op \notin NoLookup PROVE Scan(saved', d.token, path, 0)
    OBVIOUS
  <2>1. d.token = First(path)
    BY <1>6
  <2>2. CASE path = <<>>
    <3>1. Len(path) = 0 /\ d.token = NoToken
      BY <2>1, <2>2 DEF First
    <3> QED BY <3>1 DEF Scan
  <2>3. CASE path # <<>>
    <3>1. saved' = Rest(path)
      BY <1>2, <2>3
    <3> QED BY <2>1, <3>1, <1>3, ScanStart
  <2> QED BY <2>2, <2>3
<1>10. op \notin NoLookup => Descent(node, saved', d, path, 0)
  <2>1. Root = ResolveIn(node, SubSeq(path, 1, 0))
    BY <1>3, WholeIs, ResolveEmpty
  <2> QED BY <2>1, <1>6, <1>9 DEF Descent
<1>11. 0 \in 0 .. Len(path) /\ (path # <<>> => 0 \in 0 .. Len(path) - 1)
  <2>1. Len(path) \in Nat /\ (path # <<>> => Len(path) # 0)
    BY <1>3
  <2> QED BY <2>1
<1>12. d.phase = "check" => Checking(node, saved', d)
  <2> SUFFICES ASSUME d.phase = "check" PROVE Checking(node, saved', d)
    OBVIOUS
  <2>1. op \in Reads \cup {"truncate", "write"} /\ op \notin NoLookup
    BY <1>6, Phased
  <2>2. InRange(node, d)
    BY <1>5, <1>6 DEF InRange
  <2>3. \E k \in 0 .. Len(d.path) : Descent(node, saved', d, d.path, k)
    BY <2>1, <1>6, <1>10, <1>11
  <2> QED BY <2>1, <2>2, <2>3, <1>6 DEF Checking
<1>13. op \in {"mknod", "mkdir", "unlink", "rmdir", "truncate", "write", "read", "open", "rename", "ftruncate"}
         => path \in Paths /\ path # <<>>
  <2>1. path = <<>> => op \in {"getattr"} \cup Listings
    BY <1>2 DEF Permitted
  <2> QED BY <2>1, PathsAre DEF Listings
<1>14. d.phase = "name" => Naming(node, saved', d)
  <2> SUFFICES ASSUME d.phase = "name" PROVE Naming(node, saved', d)
    OBVIOUS
  <2>1. op \in {"mknod", "mkdir"} /\ op \notin NoLookup
    BY <1>6, Phased DEF NoLookup
  <2>2. path \in Paths /\ path # <<>>
    BY <2>1, <1>13
  <2>3. Resolve(path) = Nothing /\ IsDirectory(Front(path))
    BY <2>1, <1>2 DEF Permitted
  <2>4. Free(node, path)
    BY <2>2, <2>3, ResolveIs DEF Free, IsDirectory
  <2>5. \E k \in 0 .. Len(d.path) :
          Scan(saved', d.token, d.path, k) /\ (k > 0 => d.name = d.path[k])
    <3>1. ~ (0 > 0)
      OBVIOUS
    <3> QED BY <3>1, <2>1, <1>6, <1>9, <1>11
  <2> QED BY <2>1, <2>4, <2>5, <1>6 DEF Naming
<1>15. d.phase = "remove" => Removing(node, saved', d)
  <2> SUFFICES ASSUME d.phase = "remove" PROVE Removing(node, saved', d)
    OBVIOUS
  <2>1. op \in {"unlink", "rmdir"} /\ op \notin NoLookup
    BY <1>6, Phased DEF NoLookup
  <2>2. path \in Paths /\ path # <<>>
    BY <2>1, <1>13
  <2> QED BY <2>1, <2>2, <1>6, <1>10, <1>11 DEF Removing
<1>16. Call(node, store, saved', d)
  <2>1. d.cur \in DOMAIN node /\ d.parent \in DOMAIN node
    BY <1>3, <1>6
  <2>2. d.op = "rename" => d.path \in DOMAIN Renames
    BY <1>2, <1>6 DEF Permitted
  <2>3. d.path = <<>> => d.op \in {"getattr"} \cup Listings
    BY <1>2, <1>6 DEF Permitted
  <2>4. d.phase \in {"check", "answer", "name", "remove"} /\ (d.phase = "answer" => d.op \in NoLookup)
    BY <1>6, Phased
  <2> QED BY <2>1, <2>2, <2>3, <2>4, <1>4, <1>6, <1>12, <1>14, <1>15 DEF Call
<1>17. changes' \in 0 .. MaxChanges
  <2>1. MaxChanges \in Nat
    BY FileSystemAssumption
  <2>2. CASE op \in Reads
    BY <2>2, <1>2, <1>3
  <2>3. CASE op \notin Reads
    BY <2>1, <2>3, <1>2, <1>3
  <2> QED BY <2>2, <2>3
<1>18. FileInv'
  <2>1. Tree(node', store', Writes(d)) /\ Call(node', store', saved', d)
    BY <1>2, <1>3, <1>8, <1>16
  <2>2. cached' \subseteq Range(Renames) /\ errno' \subseteq Threads
    BY <1>2, <1>3
  <2> QED BY <2>1, <2>2, <1>3, <1>7, <1>17, <1>50, Holds
<1>19. FileStep
  <2>1. call'[t] = d /\ \A u \in Threads \ {t} : Request(u)' = Request(u)
    BY <1>50, Others
  <2>2. d.phase \notin {"idle", "crashed"}
    BY <1>6, Phased
  <2>3. Running /\ Running'
    BY <2>2, <1>2, <1>50, Others
  <2>4. TreeNow' = TreeNow
    BY <2>1, <1>2, <1>8, TreeSame
  <2>5. Request(t)' = [op |-> d.op, path |-> d.path, data |-> d.data[1], first |-> d.first, size |-> d.size]
    BY <2>1, <2>2 DEF Request, At, Me
  <2>6. Request(t)' \in Files!Requests
    <3> DEFINE x == data[1]
    <3>1. x \in Contents \cup {Garbage}
      BY <1>4, DataAsked
    <3>2. Request(t)' = [op |-> op, path |-> path, data |-> x, first |-> a, size |-> b]
      BY <2>5, <1>6
    <3>3. op \in Ops /\ path \in Paths \cup {<<>>} /\ a \in Nat /\ b \in Nat
      BY <1>5
    <3> HIDE DEF x, a, b
    <3> QED BY <3>1, <3>2, <3>3, Asked
  <2>7. At(t, "idle") /\ Running' = Running /\ UNCHANGED errno
    BY <2>3, <1>2 DEF At
  <2> QED BY <2>1, <2>3, <2>4, <2>6, <2>7, <1>2, FileAsk
<1> QED BY <1>18, <1>19
-----------------------------------------------------------------------------
(* Each step                                                               *)

\* A step of a handler, whichever phase it is in.
LEMMA Stepping ==
  ASSUME OneThread, FileInv, NEW t \in Threads, Step(t), UNCHANGED changes
  PROVE  FileInv' /\ FileStep
<1>1. CASE Lookup(t) BY <1>1, Looking
<1>2. CASE Getattr(t) BY <1>2, Getting
<1>3. CASE Open(t) BY <1>3, Opening
<1>4. CASE Opendir(t) BY <1>4, Opening
<1>5. CASE Readdir(t) BY <1>5, Listing
<1>6. CASE Truncate(t) BY <1>6, Truncating
<1>7. CASE Ftruncate(t) BY <1>7, Acknowledging
<1>8. CASE Acknowledge(t) BY <1>8, Acknowledging
<1>9. CASE Recheck(t) BY <1>9, Rechecks
<1>10. CASE Read(t) BY <1>10, Reading
<1>11. CASE WriteGrow(t) BY <1>11, Growing
<1>12. CASE WriteSearch(t) BY <1>12, Searching
<1>13. CASE WriteStore(t) BY <1>13, StoringStep
<1>14. CASE GetName(t) BY <1>14, GettingName
<1>15. CASE Add(t) BY <1>15, AddingStep
<1>16. CASE AddDir(t) BY <1>16, AddingDirStep
<1>17. CASE Link(t) BY <1>17, LinkStep
<1>18. CASE Find(t) BY <1>18, FindStep
<1>19. CASE Unlink(t) BY <1>19, UnlinkStep
<1>20. CASE CopyToken(t) BY <1>20, CopyingToken
<1>21. CASE Overrun(t) BY <1>21, Overrunning
<1>22. CASE CopyName(t) BY <1>22, CopyingName
<1> QED BY <1>1, <1>2, <1>3, <1>4, <1>5, <1>6, <1>7, <1>8, <1>9, <1>10, <1>11, <1>12, <1>13,
           <1>14, <1>15, <1>16, <1>17, <1>18, <1>19, <1>20, <1>21, <1>22 DEF Step

\* Every step keeps the invariant, and is a step of the logs or none that they see.
LEMMA FileSteps ==
  ASSUME OneThread, FileInv, [Next]_vars
  PROVE  FileInv' /\ FileStep
<1>1. CASE \E t \in Threads : Step(t) /\ UNCHANGED changes
  BY <1>1, Stepping
<1>2. CASE \E t \in Threads, op \in Ops, path \in Paths \cup {<<>>} : Begin(t, op, path)
  BY <1>2, Beginning
<1>3. CASE Expire
  BY <1>3, Expiring
<1>4. CASE Remount
  BY <1>4, Remounting
<1>5. CASE UNCHANGED vars
  BY <1>5, Standing
<1> QED BY <1>1, <1>2, <1>3, <1>4, <1>5 DEF Next
-----------------------------------------------------------------------------
(* Types                                                                   *)

LEMMA SeqWider ==
  ASSUME NEW S, NEW T, S \subseteq T, NEW s \in Seq(S)
  PROVE  s \in Seq(T)
OBVIOUS

WithFields(m, size, num_block, block, files) ==
  [m EXCEPT !.size = size, !.num_block = num_block, !.block = block, !.files = files]

LEMMA FieldsPut ==
  ASSUME NEW a, NEW b, NEW c, NEW d, NEW e, NEW f, NEW g, NEW m, NEW x, NEW y, NEW z,
         m = [name |-> a, dir |-> b, size |-> x, num_block |-> y, files |-> z, block |-> g]
  PROVE  WithFields(m, c, d, f, e)
           = [name |-> a, dir |-> b, size |-> c, num_block |-> d, files |-> e, block |-> f]
<1> DEFINE m1 == [m EXCEPT !.size = c]
           m2 == [m1 EXCEPT !.num_block = d]
           m3 == [m2 EXCEPT !.block = f]
<1>1. [m EXCEPT !.size = c, !.num_block = d, !.block = f, !.files = e] = [m3 EXCEPT !.files = e]
  OBVIOUS
<1>2. m1 = [name |-> a, dir |-> b, size |-> c, num_block |-> y, files |-> z, block |-> g]
  OBVIOUS
<1> HIDE DEF m1
<1>3. m2 = [name |-> a, dir |-> b, size |-> c, num_block |-> d, files |-> z, block |-> g]
  BY ONLY <1>2
<1> HIDE DEF m2
<1>4. m3 = [name |-> a, dir |-> b, size |-> c, num_block |-> d, files |-> z, block |-> f]
  BY ONLY <1>3
<1> HIDE DEF m3
<1> QED BY ONLY <1>1, <1>4 DEF WithFields

LEMMA NodeRecordIs ==
  ASSUME NEW r \in NodeRecord
  PROVE  r = [NewNode(r.name, r.dir) EXCEPT
                !.size = r.size, !.num_block = r.num_block, !.block = r.block, !.files = r.files]
<1>1. r = [name |-> r.name, dir |-> r.dir, size |-> r.size, num_block |-> r.num_block,
           files |-> r.files, block |-> r.block]
  BY DEF NodeRecord
<1> DEFINE m == NewNode(r.name, r.dir)
           b == [i \in 1 .. MaxBlocks |-> NoBlock]
<1>2. m = [name |-> r.name, dir |-> r.dir, size |-> 0, num_block |-> 0, files |-> <<>>, block |-> b]
  BY DEF NewNode
<1> DEFINE s == r.size
           k == r.num_block
           f == r.files
           g == r.block
           n == r.name
           d == r.dir
<1>20. m = [name |-> n, dir |-> d, size |-> 0, num_block |-> 0, files |-> <<>>, block |-> b]
  BY <1>2
<1> HIDE DEF m, b, s, k, f, g, n, d
<1>30. WithFields(m, s, k, g, f)
         = [name |-> n, dir |-> d, size |-> s, num_block |-> k, files |-> f, block |-> g]
  BY <1>20, FieldsPut
<1>3. [m EXCEPT !.size = r.size, !.num_block = r.num_block, !.block = r.block, !.files = r.files]
        = [name |-> r.name, dir |-> r.dir, size |-> r.size, num_block |-> r.num_block,
           files |-> r.files, block |-> r.block]
  BY <1>30, SMTT(30) DEF WithFields, s, k, f, g, n, d
<1> QED BY <1>1, <1>3 DEF m

\* The invariant bounds every variable.
LEMMA FileTyped ==
  ASSUME OneThread, FileInv
  PROVE  TypeOK
<1>1. /\ Tree(node, store, Written) /\ Shaped(node, store) /\ Counted(node, Written) /\ Stored(store)
      /\ IsForest(node) /\ node \in Seq(NodeRecord)
  BY DEF FileInv, Tree, Shaped
<1>2. store \in Seq(Blocks \cup {Unwritten}) /\ saved \in Seq(Names)
  BY <1>1, SeqWider DEF Stored, FileInv
<1>3. ASSUME NEW n \in DOMAIN node, ~ node[n].dir
      PROVE  \/ \E t \in Threads : At(t, "crashed")
             \/ node[n].num_block = Len(Data(n))
             \/ node[n].num_block = Len(Data(n)) + 1 /\ \E t \in Threads :
                  (At(t, "search") \/ At(t, "store")) /\ Me(t).cur = n
  <2>1. PICK k \in 0 .. MaxBlocks :
          Fills(node, n, k) /\ node[n].num_block = IF n \in Written THEN k + 1 ELSE k
    BY <1>1, <1>3 DEF Counted
  <2>2. Len(Data(n)) = k
    <3>1. FilledIn(node, n) = k
      BY <2>1, FilledIs
    <3>2. Filled(n) = k /\ k \in Nat
      BY <3>1, FileSystemAssumption DEF Filled, FilledIn
    <3>3. Data(n) = [i \in 1 .. k |-> store[node[n].block[i]][1]]
      BY <3>2 DEF Data
    <3> QED BY <3>2, <3>3
  <2>3. CASE n \in Written
    <3>1. PICK t \in Threads : n \in Writes(call[t])
      BY <2>3 DEF Written
    <3>2. call[t].phase \in {"search", "store", "crashed"} /\ call[t].cur = n
      BY <3>1 DEF Writes
    <3> QED BY <2>1, <2>2, <2>3, <3>2 DEF At, Me
  <2>4. CASE n \notin Written
    BY <2>1, <2>2, <2>4
  <2> QED BY <2>3, <2>4
<1>4. ASSUME NEW n \in DOMAIN node
      PROVE  /\ node[n] = [NewNode(node[n].name, node[n].dir) EXCEPT
                  !.size = node[n].size, !.num_block = node[n].num_block,
                  !.block = node[n].block, !.files = node[n].files]
             /\ node[n].name \in Names \cup {"/"} /\ node[n].dir \in BOOLEAN
             /\ node[n].size \in Int /\ node[n].num_block \in Int
             /\ node[n].files \in Seq(DOMAIN node)
             /\ node[n].block \in [1 .. MaxBlocks -> NoBlock .. Len(store)]
  <2> DEFINE r == node[n]
  <2>1. r \in NodeRecord
    BY <1>1
  <2>2. node[n].files \in Seq(DOMAIN node) /\ node[n].block \in [1 .. MaxBlocks -> NoBlock .. Len(store)]
    BY <1>1 DEF IsForest, Kids, Shaped, NoBlock
  <2> HIDE DEF r
  <2>3. r = [NewNode(r.name, r.dir) EXCEPT
               !.size = r.size, !.num_block = r.num_block, !.block = r.block, !.files = r.files]
    BY <2>1, NodeRecordIs
  <2>4. /\ r.name \in Names \cup {"/"} /\ r.dir \in BOOLEAN /\ r.size \in Int /\ r.num_block \in Int
    BY <2>1 DEF NodeRecord
  <2> QED BY <2>2, <2>3, <2>4 DEF r
<1>5. ASSUME NEW t \in Threads
      PROVE  /\ Me(t).op \in Ops /\ Me(t).phase \in Phases
             /\ Me(t).path \in Paths \cup {<<>>}
             /\ Me(t).data \in Blocks \cup {Unwritten} /\ {Me(t).first, Me(t).size} \subseteq Nat
             /\ {Me(t).token, Me(t).name} \subseteq Names \cup {NoToken}
             /\ {Me(t).cur, Me(t).parent} \subseteq DOMAIN node
             /\ Me(t).index \in Nat /\ Me(t).slot \in Nat
  <2>1. call[t] \in CallRecord /\ call[t].cur \in DOMAIN node /\ call[t].parent \in DOMAIN node
    BY Context
  <2> QED BY <2>1 DEF CallRecord, Me
<1>6. errno \subseteq Threads /\ cached \subseteq Range(Renames) /\ changes \in 0 .. MaxChanges
  BY DEF FileInv
<1> QED BY <1>2, <1>3, <1>4, <1>5, <1>6 DEF TypeOK
-----------------------------------------------------------------------------
\* Whatever one thread calls in whatever order, the nodes stay a forest of
\* files and directories whose arrays are filled from the front with blocks of the
\* store, and the call of the thread is where its handler says.
THEOREM FileInvariant == OneThread => (Spec => []FileInv)
<1> SUFFICES ASSUME OneThread PROVE Spec => []FileInv
  OBVIOUS
<1>1. Init => FileInv
  BY Starts
<1>2. FileInv /\ [Next]_vars => FileInv'
  BY FileSteps
<1> QED BY <1>1, <1>2, PTL DEF Spec

\* Nodes, blocks and the local variables of bbfs.c keep their types: every index
\* that a handler goes on with is that of a node or of a block.
THEOREM FileTypeCorrect == OneThread => (Spec => []TypeOK)
<1> SUFFICES ASSUME OneThread PROVE Spec => []TypeOK
  OBVIOUS
<1>1. FileInv => TypeOK
  BY FileTyped
<1>2. Spec => []FileInv
  BY FileInvariant
<1> QED BY <1>1, <1>2, PTL

\* bbfs.c does what a directory tree of logs does: every answer of a handler is one
\* of those that the tree allows when the handler ends, and each call changes the
\* tree in that one step, or ends the program where the tree says that it may.
THEOREM FilesAreLogs == OneThread => (Spec => ImplementsFileLog)
<1> SUFFICES ASSUME OneThread PROVE Spec => ImplementsFileLog
  OBVIOUS
<1>1. Init => Files!FormatDisk
  BY Starts
<1>2. FileInv /\ [Next]_vars => [Files!LogNext]_(Files!fileVars)
  BY FileSteps DEF FileStep
<1>3. Spec => []FileInv
  BY FileInvariant
<1> QED BY <1>1, <1>2, <1>3, PTL DEF Spec, ImplementsFileLog, Files!LogSpec
=============================================================================
