----------------------------- MODULE SlobProofs -----------------------------
(***************************************************************************)
(* SLOB's memory is sound for any number of pages and processors, any size *)
(* of page and anything that is asked for: the list of blocks in each page *)
(* tells the truth about it, no two users share a unit, and the search in  *)
(* two stages finds the best fit.                                          *)
(***************************************************************************)
EXTENDS SlobAllocator, FiniteSetTheorems, SequenceTheorems, WellFoundedInduction, TLAPS

-----------------------------------------------------------------------------
(* What a page's list has to say of the set C of its free cells: for each  *)
(* piece of C where it ends, and which piece comes next.                   *)

Starts(C) == {c \in C : c - 1 \notin C}

EndsAt(C, s, e) == (\A c \in s .. e - 1 : c \in C) /\ e \notin C

NextIs(C, s, n) ==
  /\ n > s
  /\ n = PageUnits \/ n \in Starts(C)
  /\ \A t \in Starts(C) : t > s => n <= t

\* The header at s says: a block of u units, followed by the block at n.
Header(mem, s, u, n) ==
  /\ s \in Cells /\ u \in Nat \ {0} /\ s + u <= PageUnits /\ n \in 1 .. PageUnits
  /\ IF u > 1 THEN mem[s] = u /\ mem[s + 1] = n ELSE mem[s] = -n

Describes(mem, C) ==
  \A s \in Starts(C) : \E u, n :
    Header(mem, s, u, n) /\ EndsAt(C, s, s + u) /\ NextIs(C, s, n)

Account(pg, C) ==
  /\ pg \in PageType
  /\ C \subseteq Cells
  /\ pg.freelist \in Starts(C) /\ \A t \in Starts(C) : pg.freelist <= t
  /\ pg.units = Cardinality(C)
  /\ Describes(pg.mem, C)

Memory == [Cells -> -PageUnits .. PageUnits]
-----------------------------------------------------------------------------
LEMMA NatLeast ==
  ASSUME NEW S \in SUBSET Nat, S # {}
  PROVE  \E x \in S : \A y \in S : ~ (y < x)
<1>1. PICK x \in S : \A y \in S : ~ (<<y, x>> \in OpToRel(<, Nat))
  BY NatLessThanWellFounded, WFMin
<1>2. \A y \in S : y < x => <<y, x>> \in OpToRel(<, Nat)
  BY DEF OpToRel
<1> QED BY <1>1, <1>2

LEMMA Units == PageUnits \in Nat /\ PageUnits > 1 /\ \A c : c \in Cells <=> c \in Nat /\ c < PageUnits
BY SlobPageAssumption DEF Cells

LEMMA LastIs == \A n \in 1 .. PageUnits : n % PageUnits = 0 <=> n = PageUnits
<1> SUFFICES ASSUME NEW n \in 1 .. PageUnits PROVE n % PageUnits = 0 <=> n = PageUnits
  OBVIOUS
<1>1. PageUnits \in Nat /\ PageUnits > 1
  BY Units
<1>2. CASE n < PageUnits
  BY <1>1, <1>2
<1>3. CASE n = PageUnits
  BY <1>1, <1>3
<1> QED BY <1>1, <1>2, <1>3

LEMMA HeaderRead ==
  ASSUME NEW mem, NEW s, NEW u, NEW n, Header(mem, s, u, n)
  PROVE  SlobUnits(mem, s) = u /\ SlobNext(mem, s) = n /\ (SlobLast(mem, s) <=> n = PageUnits)
<1>1. PageUnits \in Nat /\ u \in Nat \ {0} /\ n \in 1 .. PageUnits
  BY Units DEF Header
<1>2. SlobUnits(mem, s) = u /\ SlobNext(mem, s) = n
  BY <1>1 DEF Header, SlobUnits, SlobNext
<1> QED BY <1>1, <1>2, LastIs DEF SlobLast

\* What set_slob is called with, here: a block within the page, and a next one
\* or the end of the page.
Writable(mem, s, u, n) ==
  mem \in Memory /\ s \in Cells /\ u \in Nat \ {0} /\ s + u <= PageUnits /\ n \in 1 .. PageUnits

\* set_slob writes the header and nothing beyond the block.
LEMMA SetSlobIs ==
  ASSUME NEW mem, NEW s, NEW u, NEW n, Writable(mem, s, u, n)
  PROVE  /\ SetSlob(mem, s, u, n) \in Memory
         /\ Header(SetSlob(mem, s, u, n), s, u, n)
         /\ \A c \in Cells \ (s .. s + u - 1) : SetSlob(mem, s, u, n)[c] = mem[c]
<1>1. /\ PageUnits \in Nat /\ s \in Nat /\ s < PageUnits
      /\ mem \in Memory /\ s \in Cells /\ u \in Nat \ {0} /\ s + u <= PageUnits /\ n \in 1 .. PageUnits
  BY Units DEF Writable
<1>2. CASE u > 1
  <2>1. s + 1 \in Cells /\ SetSlob(mem, s, u, n) = [mem EXCEPT ![s] = u, ![s + 1] = n]
    BY <1>1, <1>2, Units DEF SetSlob
  <2> QED BY <1>1, <1>2, <2>1 DEF Memory, Header
<1>3. CASE u = 1
  <2>1. SetSlob(mem, s, u, n) = [mem EXCEPT ![s] = -n]
    BY <1>3 DEF SetSlob
  <2> QED BY <1>1, <1>3, <2>1 DEF Memory, Header
<1> QED BY <1>1, <1>2, <1>3

LEMMA HeaderKept ==
  ASSUME NEW mem, NEW m, NEW s, NEW u, NEW n, Header(mem, s, u, n),
         \A c \in s .. s + u - 1 : m[c] = mem[c]
  PROVE  Header(m, s, u, n)
BY Units DEF Header
-----------------------------------------------------------------------------
(* Following the list.  Hop is a recursive function; that it has the       *)
(* values its definition says is an induction, made by the least           *)
(* counterexample.                                                         *)

Along(mem, a, n, f) == f[0] = a /\ \A k \in 1 .. n : f[k] = SlobNext(mem, f[k - 1])

HopFrom(mem, a) == CHOOSE f : f = [k \in Nat |-> IF k = 0 THEN a ELSE SlobNext(mem, f[k - 1])]

LEMMA AlongExists ==
  ASSUME NEW mem, NEW a, NEW n \in Nat
  PROVE  \E f : Along(mem, a, n, f)
<1> DEFINE S == {m \in Nat : ~ \E f : Along(mem, a, m, f)}
<1> SUFFICES ASSUME S # {} PROVE FALSE
  OBVIOUS
<1>1. PICK m \in S : \A k \in S : ~ (k < m)
  <2>1. S \in SUBSET Nat
    OBVIOUS
  <2> HIDE DEF S
  <2> QED BY <2>1, NatLeast
<1>2. m # 0
  <2>1. Along(mem, a, 0, [i \in {0} |-> a])
    BY DEF Along
  <2> QED BY <2>1
<1>3. m - 1 \in Nat /\ m - 1 \notin S
  BY <1>1, <1>2
<1>4. PICK f : Along(mem, a, m - 1, f)
  BY <1>3
<1> DEFINE g == [i \in 0 .. m |-> IF i = m THEN SlobNext(mem, f[m - 1]) ELSE f[i]]
<1>5. g[0] = a
  BY <1>2, <1>3, <1>4 DEF Along
<1>6. ASSUME NEW i \in 1 .. m PROVE g[i] = SlobNext(mem, g[i - 1])
  <2>1. g[i - 1] = f[i - 1]
    BY <1>3
  <2>2. CASE i = m
    BY <2>1, <2>2
  <2>3. CASE i # m
    BY <2>1, <2>3, <1>3, <1>4 DEF Along
  <2> QED BY <2>2, <2>3
<1>7. Along(mem, a, m, g)
  <2> HIDE DEF g
  <2> QED BY <1>5, <1>6 DEF Along
<1> QED BY <1>7

LEMMA AlongUnique ==
  ASSUME NEW mem, NEW a, NEW n \in Nat, NEW m \in Nat, NEW f, NEW g,
         Along(mem, a, n, f), Along(mem, a, m, g), n <= m
  PROVE  \A i \in 0 .. n : f[i] = g[i]
<1> DEFINE S == {i \in 0 .. n : f[i] # g[i]}
<1> SUFFICES ASSUME S # {} PROVE FALSE
  OBVIOUS
<1>1. PICK k \in S : \A i \in S : ~ (i < k)
  <2>1. S \in SUBSET Nat
    OBVIOUS
  <2> HIDE DEF S
  <2> QED BY <2>1, NatLeast
<1>2. k # 0
  BY DEF Along
<1>3. k - 1 \in 0 .. n /\ k - 1 \notin S
  BY <1>1, <1>2
<1> QED BY <1>2, <1>3 DEF Along

LEMMA HopFromDef ==
  ASSUME NEW mem, NEW a
  PROVE  /\ HopFrom(mem, a)[0] = a
         /\ \A k \in Nat \ {0} : HopFrom(mem, a)[k] = SlobNext(mem, HopFrom(mem, a)[k - 1])
<1> DEFINE F(n) == CHOOSE f : Along(mem, a, n, f)
           h == [n \in Nat |-> F(n)[n]]
<1>1. \A n \in Nat : Along(mem, a, n, F(n))
  BY AlongExists
<1> HIDE DEF F
<1>2. h[0] = a
  BY <1>1 DEF Along
<1>3. ASSUME NEW n \in Nat, n # 0 PROVE h[n] = SlobNext(mem, h[n - 1])
  <2>1. n - 1 \in Nat /\ n - 1 <= n /\ n - 1 \in 0 .. n - 1 /\ n \in 1 .. n
    BY <1>3
  <2>2. F(n - 1)[n - 1] = F(n)[n - 1]
    BY <2>1, <1>1, AlongUnique
  <2>3. F(n)[n] = SlobNext(mem, F(n)[n - 1])
    BY <2>1, <1>1 DEF Along
  <2> QED BY <2>1, <2>2, <2>3
<1>4. h = [k \in Nat |-> IF k = 0 THEN a ELSE SlobNext(mem, h[k - 1])]
  <2>1. \A k \in Nat : h[k] = IF k = 0 THEN a ELSE SlobNext(mem, h[k - 1])
    <3> HIDE DEF h
    <3> QED BY <1>2, <1>3
  <2> QED BY <2>1
<1> HIDE DEF h
<1> DEFINE H == HopFrom(mem, a)
<1>5. H = [k \in Nat |-> IF k = 0 THEN a ELSE SlobNext(mem, H[k - 1])]
  BY <1>4 DEF HopFrom
<1> HIDE DEF H
<1>6. H[0] = a /\ \A k \in Nat \ {0} : H[k] = SlobNext(mem, H[k - 1])
  BY <1>5
<1> QED BY <1>6 DEF H

\* The blocks that are found by following the list are the pieces of C.
LEMMA FreeBlocksAre ==
  ASSUME NEW pg, NEW C, Account(pg, C)
  PROVE  FreeBlocks(pg) = Starts(C)
<1> DEFINE H == HopFrom(pg.mem, pg.freelist)
           EndsWalk(k) == SlobLast(pg.mem, H[k])
           IsEnd(k) == EndsWalk(k) /\ \A j \in 0 .. k - 1 : ~ EndsWalk(j)
           last == CHOOSE k \in Cells : IsEnd(k)
<1>1. FreeBlocks(pg) = {H[k] : k \in 0 .. last}
  BY DEF FreeBlocks, HopFrom
<1>2. H[0] = pg.freelist /\ \A k \in Nat \ {0} : H[k] = SlobNext(pg.mem, H[k - 1])
  BY HopFromDef
<1> HIDE DEF H
<1>3. /\ \A s \in Starts(C) : s \in Cells /\ s \in Nat /\ s < PageUnits
      /\ PageUnits \in Nat
  BY Units DEF Account, Starts
<1>4. ASSUME NEW s \in Starts(C)
      PROVE  NextIs(C, s, SlobNext(pg.mem, s)) /\ (SlobLast(pg.mem, s) <=> SlobNext(pg.mem, s) = PageUnits)
  BY HeaderRead DEF Account, Describes
<1> DEFINE Good(k) == /\ H[k] \in Starts(C) /\ H[k] >= k
                      /\ \A t \in Starts(C) : t < H[k] => \E j \in 0 .. k - 1 : H[j] = t
           Bad == {k \in Nat : (\A j \in 0 .. k - 1 : ~ EndsWalk(j)) /\ ~ Good(k)}
<1>5. Bad = {}
  <2> SUFFICES ASSUME Bad # {} PROVE FALSE
    OBVIOUS
  <2>1. PICK k \in Bad : \A j \in Bad : ~ (j < k)
    <3>1. Bad \in SUBSET Nat
      OBVIOUS
    <3> HIDE DEF Bad
    <3> QED BY <3>1, NatLeast
  <2>2. k # 0
    <3>1. Good(0)
      BY <1>2, <1>3 DEF Account
    <3> QED BY <3>1
  <2>3. k \in Nat /\ k - 1 \in Nat /\ k - 1 \in 0 .. k - 1 /\ ~ EndsWalk(k - 1) /\ k - 1 \notin Bad
    BY <2>1, <2>2
  <2>4. Good(k - 1)
    BY <2>3
  <2>5. H[k] = SlobNext(pg.mem, H[k - 1])
    BY <1>2, <2>2
  <2>6. NextIs(C, H[k - 1], H[k]) /\ H[k] # PageUnits
    BY <1>4, <2>3, <2>4, <2>5
  <2>7. H[k] \in Starts(C) /\ H[k] > H[k - 1] /\ H[k] >= k
    BY <1>3, <2>3, <2>4, <2>6 DEF NextIs
  <2>8. ASSUME NEW t \in Starts(C), t < H[k]
        PROVE  \E j \in 0 .. k - 1 : H[j] = t
    <3>1. t <= H[k - 1]
      BY <1>3, <2>4, <2>6, <2>7, <2>8 DEF NextIs
    <3>2. CASE t = H[k - 1]
      BY <2>3, <3>2
    <3>3. CASE t < H[k - 1]
      <4>1. PICK j \in 0 .. (k - 1) - 1 : H[j] = t
        BY <2>4, <3>3
      <4>2. j \in 0 .. k - 1
        BY <2>3
      <4> QED BY <4>1, <4>2
    <3> QED BY <1>3, <2>4, <3>1, <3>2, <3>3
  <2>9. Good(k)
    BY <2>7, <2>8
  <2> QED BY <2>9
<1>6. \A k \in Nat : (\A j \in 0 .. k - 1 : ~ EndsWalk(j)) => Good(k)
  BY <1>5
<1> HIDE DEF Bad
<1>7. \E k \in Cells : IsEnd(k)
  <2> DEFINE S == {k \in Nat : EndsWalk(k)}
  <2>1. S # {}
    <3> SUFFICES ASSUME S = {} PROVE FALSE
      OBVIOUS
    <3>1. \A j \in 0 .. PageUnits - 1 : ~ EndsWalk(j)
      OBVIOUS
    <3>2. Good(PageUnits)
      BY <1>3, <1>6, <3>1
    <3> QED BY <1>3, <3>2
  <2>2. PICK k \in S : \A j \in S : ~ (j < k)
    <3>1. S \in SUBSET Nat
      OBVIOUS
    <3> HIDE DEF S
    <3> QED BY <2>1, <3>1, NatLeast
  <2>3. IsEnd(k) /\ k \in Nat
    BY <2>2
  <2>4. H[k] \in Starts(C) /\ H[k] >= k
    BY <1>6, <2>3
  <2>5. k \in Cells
    BY <1>3, <2>3, <2>4, Units
  <2> QED BY <2>3, <2>5
<1>8. last \in Cells /\ IsEnd(last)
  BY <1>7
<1> HIDE DEF last
<1>9. last \in Nat
  BY <1>8, Units
<1>10. ASSUME NEW k \in 0 .. last PROVE H[k] \in Starts(C)
  <2>1. k \in Nat /\ \A j \in 0 .. k - 1 : j \in 0 .. last - 1
    BY <1>9
  <2> QED BY <1>6, <1>8, <2>1
<1>11. ASSUME NEW t \in Starts(C) PROVE \E k \in 0 .. last : H[k] = t
  <2>1. Good(last) /\ last \in 0 .. last
    BY <1>6, <1>8, <1>9
  <2>2. NextIs(C, H[last], PageUnits)
    BY <1>4, <1>8, <2>1
  <2>3. t <= H[last]
    BY <1>3, <2>1, <2>2 DEF NextIs
  <2>4. CASE t < H[last]
    <3>1. PICK j \in 0 .. last - 1 : H[j] = t
      BY <2>1, <2>4
    <3> QED BY <1>9, <3>1
  <2> QED BY <1>3, <2>1, <2>3, <2>4
<1> QED BY <1>1, <1>10, <1>11
-----------------------------------------------------------------------------
(* What an account says of the operators the properties are made of.       *)

LEMMA PieceIs ==
  ASSUME NEW pg, NEW C, Account(pg, C), NEW s \in Starts(C)
  PROVE  LET u == SlobUnits(pg.mem, s)
             n == SlobNext(pg.mem, s)
         IN /\ Header(pg.mem, s, u, n) /\ EndsAt(C, s, s + u) /\ NextIs(C, s, n)
            /\ SlobLast(pg.mem, s) <=> n = PageUnits
BY HeaderRead DEF Account, Describes

LEMMA StartBelow ==
  ASSUME NEW C \in SUBSET Cells, NEW c \in C
  PROVE  \E s \in Starts(C) : s <= c /\ \A i \in s .. c : i \in C
<1> DEFINE S == {s \in Nat : s <= c /\ \A i \in s .. c : i \in C}
<1>1. c \in Nat
  BY Units
<1>2. PICK s \in S : \A t \in S : ~ (t < s)
  <2>1. S \in SUBSET Nat /\ c \in S
    BY <1>1
  <2> HIDE DEF S
  <2> QED BY <2>1, NatLeast
<1>3. s \in C
  BY <1>1, <1>2
<1>4. ASSUME s - 1 \in C PROVE FALSE
  <2>1. s - 1 \in Nat /\ s - 1 < s
    BY <1>4, <1>2, Units
  <2>2. \A i \in s - 1 .. c : i = s - 1 \/ i \in s .. c
    BY <2>1, <1>1
  <2>3. s - 1 \in S
    BY <2>1, <2>2, <1>1, <1>2, <1>4
  <2> QED BY <2>1, <2>3, <1>2
<1> QED BY <1>2, <1>3, <1>4 DEF Starts

LEMMA FreeCellsAre ==
  ASSUME NEW pg, NEW C, Account(pg, C)
  PROVE  FreeCells(pg) = C
<1>1. FreeCells(pg) = UNION {s .. s + SlobUnits(pg.mem, s) - 1 : s \in Starts(C)}
  BY FreeBlocksAre DEF FreeCells
<1>2. C \in SUBSET Cells
  BY DEF Account
<1>3. ASSUME NEW s \in Starts(C), NEW c \in s .. s + SlobUnits(pg.mem, s) - 1
      PROVE  c \in C
  <2> DEFINE u == SlobUnits(pg.mem, s)
  <2>1. EndsAt(C, s, s + u)
    BY PieceIs
  <2>2. u \in Nat /\ s \in Nat
    BY PieceIs, Units DEF Header
  <2>3. c \in s .. s + u - 1
    BY <1>3
  <2> HIDE DEF u
  <2>4. c \in s .. (s + u) - 1
    BY <2>2, <2>3
  <2> QED BY <2>1, <2>4 DEF EndsAt
<1>4. ASSUME NEW c \in C
      PROVE  \E s \in Starts(C) : c \in s .. s + SlobUnits(pg.mem, s) - 1
  <2>1. PICK s \in Starts(C) : s <= c /\ \A i \in s .. c : i \in C
    BY <1>2, StartBelow
  <2> DEFINE u == SlobUnits(pg.mem, s)
  <2>2. u \in Nat /\ s + u \notin C
    BY <2>1, PieceIs DEF EndsAt, Header
  <2>3. c \in Nat /\ s \in Nat
    BY <1>2, <2>1, Units DEF Starts
  <2> HIDE DEF u
  <2>4. c <= s + u - 1
    BY <2>1, <2>2, <2>3
  <2>5. c \in s .. s + u - 1
    BY <2>1, <2>2, <2>3, <2>4
  <2> QED BY <2>5 DEF u
<1> QED BY <1>1, <1>3, <1>4

LEMMA PiecesApart ==
  ASSUME NEW pg, NEW C, Account(pg, C)
  PROVE  \A s, t \in FreeBlocks(pg) : s + SlobUnits(pg.mem, s) # t
BY FreeBlocksAre, PieceIs DEF EndsAt, Starts

LEMMA CellsFinite ==
  ASSUME NEW C \in SUBSET Cells
  PROVE  IsFiniteSet(C) /\ Cardinality(C) \in 0 .. PageUnits
<1>1. IsFiniteSet(Cells) /\ Cardinality(Cells) = PageUnits
  BY Units, FS_Interval DEF Cells
<1>2. IsFiniteSet(C) /\ Cardinality(C) <= PageUnits
  BY <1>1, FS_Subset
<1> QED BY <1>2, FS_CardinalityType, Units

\* Forgetting what is in no header loses nothing of the account.
LEMMA ForgetKeeps ==
  ASSUME NEW pg, NEW C, Account(pg, C)
  PROVE  Account(Forget(pg), C)
<1> DEFINE HeaderOf(s) == s .. s + Min({1, SlobUnits(pg.mem, s) - 1})
           headers == UNION {HeaderOf(s) : s \in Starts(C)}
           m == [c \in Cells |-> IF c \in headers THEN pg.mem[c] ELSE Used]
<1>1. C \in SUBSET Cells /\ C # {} /\ pg.units # 0 /\ pg \in PageType /\ PageUnits \in Nat
  <2>1. C \in SUBSET Cells /\ C # {}
    BY DEF Account, Starts
  <2>2. pg.units # 0
    BY <2>1, CellsFinite, FS_EmptySet DEF Account
  <2> QED BY <2>1, <2>2, Units DEF Account
<1>2. Forget(pg) = [pg EXCEPT !.mem = m]
  <2>1. FreeBlocks(pg) = Starts(C)
    BY FreeBlocksAre
  <2> QED BY <1>1, <2>1, Zenon DEF Forget
<1>3. m \in Memory
  BY <1>1 DEF Memory, PageType, Used
<1>4. ASSUME NEW s \in Starts(C), NEW u, NEW n, Header(pg.mem, s, u, n)
      PROVE  Header(m, s, u, n)
  <2>1. SlobUnits(pg.mem, s) = u /\ u \in Nat \ {0} /\ s \in Nat /\ s \in Cells /\ s + u <= PageUnits
    BY <1>4, HeaderRead, Units DEF Header
  <2>2. CASE u = 1
    <3>1. Min({1, u - 1}) = 0
      BY <2>2 DEF Min
    <3>2. s \in HeaderOf(s)
      BY <3>1, <2>1
    <3>3. m[s] = pg.mem[s]
      BY <3>2, <2>1
    <3>4. ~ (u > 1)
      BY <2>2
    <3> HIDE DEF m
    <3> QED BY <1>4, <3>3, <3>4 DEF Header
  <2>3. CASE u > 1
    <3>1. Min({1, u - 1}) = 1
      BY <2>1, <2>3 DEF Min
    <3>2. s \in HeaderOf(s) /\ s + 1 \in HeaderOf(s) /\ s + 1 \in Cells
      BY <3>1, <2>1, <2>3, Units
    <3>3. m[s] = pg.mem[s] /\ m[s + 1] = pg.mem[s + 1]
      BY <3>2, <2>1
    <3> HIDE DEF m
    <3> QED BY <1>4, <2>3, <3>3 DEF Header
  <2> QED BY <2>1, <2>2, <2>3
<1> HIDE DEF m
<1>5. Describes(m, C)
  BY <1>4 DEF Account, Describes
<1> DEFINE f == Forget(pg)
<1>6. f.mem = m /\ f.freelist = pg.freelist /\ f.units = pg.units /\ f \in PageType
  BY <1>1, <1>2, <1>3 DEF PageType, Memory
<1> QED BY <1>5, <1>6 DEF Account

LEMMA ForgetFull ==
  ASSUME NEW pg \in PageType, pg.units = 0
  PROVE  Forget(pg) \in PageType /\ Forget(pg).units = 0
BY Units DEF Forget, PageType, Used
-----------------------------------------------------------------------------
(* Best fit                                                                *)

LEMMA MinIs ==
  ASSUME NEW S \in SUBSET Nat, S # {}
  PROVE  Min(S) \in S /\ \A y \in S : Min(S) <= y
<1>1. PICK x \in S : \A y \in S : ~ (y < x)
  BY NatLeast
<1>2. \A y \in S : x <= y
  BY <1>1
<1> QED BY <1>2 DEF Min

LEMMA MultipleOf ==
  ASSUME NEW q \in Int, NEW a \in Nat \ {0}
  PROVE  (q * a) % a = 0
OBVIOUS

LEMMA AlignUpIs ==
  ASSUME NEW x \in Nat, NEW a \in Nat \ {0}
  PROVE  AlignUp(x, a) \in Nat /\ AlignUp(x, a) >= x /\ AlignUp(x, a) < x + a /\ AlignUp(x, a) % a = 0
<1> DEFINE q == (x + a - 1) \div a
           r == (x + a - 1) % a
<1>1. x + a - 1 \in Nat
  OBVIOUS
<1>2. q \in Int /\ r \in 0 .. a - 1 /\ x + a - 1 = a * q + r
  BY <1>1
<1> HIDE DEF r
<1>3. q * a = a * q /\ q * a \in Int
  BY <1>2
<1>4. (q * a) % a = 0
  BY <1>2, MultipleOf
<1>5. AlignUp(x, a) = q * a
  BY DEF AlignUp
<1> HIDE DEF q
<1> DEFINE z == q * a
<1>6. z \in Int /\ x + a - 1 = z + r
  BY <1>2, <1>3
<1> HIDE DEF z
<1>7. z \in Nat /\ z >= x /\ z < x + a
  BY <1>2, <1>6
<1> QED BY <1>4, <1>5, <1>7 DEF z

LEMMA DeltaIs ==
  ASSUME NEW s \in Nat, NEW align \in Nat \ {0}, NEW offset \in Nat
  PROVE  /\ Delta(s, align, offset) \in 0 .. align - 1
         /\ (s + Delta(s, align, offset) + offset) % align = 0
<1> DEFINE z == AlignUp(s + offset, align)
<1>1. z \in Nat /\ z >= s + offset /\ z < s + offset + align /\ z % align = 0
  <2>1. s + offset \in Nat
    OBVIOUS
  <2> QED BY <2>1, AlignUpIs
<1>2. Delta(s, align, offset) = z - offset - s
  BY DEF Delta
<1> HIDE DEF z
<1>3. s + (z - offset - s) + offset = z
  BY <1>1
<1> QED BY <1>1, <1>2, <1>3

LEMMA BestBlockIs ==
  ASSUME NEW pg, NEW C, Account(pg, C), NEW units \in Nat, NEW align \in Nat \ {0}, NEW offset \in Nat,
         Fitting(pg, units, align, offset) # {}
  PROVE  LET s == BestBlock(pg, units, align, offset)
         IN /\ s \in Starts(C) /\ Delta(s, align, offset) + units <= SlobUnits(pg.mem, s)
            /\ s \in Fitting(pg, units, align, offset)
            /\ \A t \in Fitting(pg, units, align, offset) :
                 Left(pg, s, units, align, offset) <= Left(pg, t, units, align, offset)
<1> DEFINE fit == Fitting(pg, units, align, offset)
           Leaves(s) == Left(pg, s, units, align, offset)
           all == {Leaves(s) : s \in fit}
           best == {s \in fit : \A t \in fit : Leaves(s) <= Leaves(t)}
<1>1. ASSUME NEW s \in fit
      PROVE  /\ s \in Starts(C) /\ s \in Nat /\ Leaves(s) \in Nat
             /\ Delta(s, align, offset) + units <= SlobUnits(pg.mem, s)
  <2>1. s \in Starts(C) /\ Leaves(s) >= 0
    BY FreeBlocksAre DEF Fitting
  <2>2. s \in Nat /\ SlobUnits(pg.mem, s) \in Nat
    BY <2>1, PieceIs, Units DEF Header
  <2>3. Delta(s, align, offset) \in Nat
    BY <2>2, DeltaIs
  <2> QED BY <2>1, <2>2, <2>3 DEF Left
<1> HIDE DEF Leaves
<1>2. PICK x \in all : \A y \in all : ~ (y < x)
  <2>1. all \in SUBSET Nat /\ all # {}
    BY <1>1
  <2> HIDE DEF all
  <2> QED BY <2>1, NatLeast
<1>3. PICK s \in fit : Leaves(s) = x
  BY <1>2
<1>4. ASSUME NEW t \in fit PROVE Leaves(s) <= Leaves(t)
  <2>1. ~ (Leaves(t) < x) /\ Leaves(t) \in Nat /\ x \in Nat
    BY <1>1, <1>2, <1>3
  <2> QED BY <2>1, <1>3
<1>5. best \in SUBSET Nat /\ best # {}
  BY <1>1, <1>3, <1>4
<1>6. Min(best) \in best
  BY <1>5, MinIs
<1>7. BestBlock(pg, units, align, offset) = Min(best)
  BY DEF BestBlock, Leaves
<1>8. Min(best) \in fit /\ \A t \in fit : Leaves(Min(best)) <= Leaves(t)
  BY <1>6
<1> HIDE DEF best
<1> QED BY <1>1, <1>7, <1>8 DEF Leaves
-----------------------------------------------------------------------------
(* Taking cells out of a piece, and what becomes of the list.              *)

Interval(at, units) == at .. at + units - 1

LEMMA CutCells ==
  ASSUME NEW C \in SUBSET Cells, NEW at \in Nat, NEW units \in Nat \ {0},
         \A c \in Interval(at, units) : c \in C
  PROVE  /\ C \ Interval(at, units) \in SUBSET Cells
         /\ Cardinality(C \ Interval(at, units)) = Cardinality(C) - units
<1> DEFINE D == Interval(at, units)
<1>1. IsFiniteSet(C)
  BY CellsFinite
<1>2. IsFiniteSet(D) /\ Cardinality(D) = units
  BY FS_Interval DEF Interval
<1>3. D \in SUBSET C
  OBVIOUS
<1> HIDE DEF D
<1>4. C = (C \ D) \cup D /\ (C \ D) \cap D = {}
  BY <1>3
<1>5. IsFiniteSet(C \ D)
  BY <1>1, FS_Subset
<1>6. Cardinality(C) = Cardinality(C \ D) + Cardinality(D) - Cardinality({})
  BY <1>2, <1>4, <1>5, FS_Union
<1>7. Cardinality({}) = 0 /\ Cardinality(C) \in Nat /\ Cardinality(C \ D) \in Nat
  BY <1>1, <1>5, FS_EmptySet, FS_CardinalityType
<1> QED BY <1>2, <1>6, <1>7 DEF D

\* Two pieces do not overlap.
LEMMA PiecesDisjoint ==
  ASSUME NEW C \in SUBSET Cells, NEW s \in Starts(C), NEW t \in Starts(C), s < t,
         NEW e \in Nat, EndsAt(C, s, e)
  PROVE  e < t
<1>1. s \in Nat /\ t \in Nat /\ t \in C /\ t - 1 \notin C
  BY Units DEF Starts
<1>2. e \notin C /\ \A c \in s .. e - 1 : c \in C
  BY <1>1 DEF EndsAt
<1>3. ~ (t - 1 \in s .. e - 1)
  BY <1>1, <1>2
<1> QED BY <1>1, <1>2, <1>3

\* The cells to be taken are in the piece that begins at s and ends before e.
Cut(C, s, e, at, units) ==
  /\ C \in SUBSET Cells /\ s \in Starts(C) /\ e \in Nat /\ e > s /\ EndsAt(C, s, e)
  /\ at \in Nat /\ units \in Nat \ {0} /\ s <= at /\ at + units <= e

LEMMA StartsOfCut ==
  ASSUME NEW C, NEW s, NEW e, NEW at, NEW units, Cut(C, s, e, at, units)
  PROVE  LET B == C \ Interval(at, units)
         IN /\ \A c \in Interval(at, units) : c \in C
            /\ \A t : t \in Starts(B) <=> \/ t \in Starts(C) /\ (t # s \/ at > s)
                                          \/ t = at + units /\ at + units < e
<1> DEFINE B == C \ Interval(at, units)
<1> USE DEF Cut
<1>1. s \in Nat /\ s \in C /\ s - 1 \notin C
  BY Units DEF Starts
<1>2. e \notin C /\ \A c \in s .. e - 1 : c \in C
  BY <1>1 DEF EndsAt
<1>3. \A c \in Interval(at, units) : c \in C
  BY <1>1, <1>2 DEF Interval
<1>4. \A c \in C : c \in Int
  BY Units
<1>5. ASSUME NEW t \in Starts(B)
      PROVE  \/ t \in Starts(C) /\ (t # s \/ at > s)
             \/ t = at + units /\ at + units < e
  <2>1. t \in C /\ t \in Int /\ ~ (t >= at /\ t <= at + units - 1)
        /\ (t - 1 \notin C \/ (t - 1 >= at /\ t - 1 <= at + units - 1))
    BY <1>4 DEF Starts, Interval
  <2>2. CASE t - 1 \notin C
    BY <1>1, <2>1, <2>2 DEF Starts
  <2>3. CASE t - 1 >= at /\ t - 1 <= at + units - 1
    BY <1>1, <1>2, <2>1, <2>3
  <2> QED BY <2>1, <2>2, <2>3
<1>6. ASSUME NEW t \in Starts(C), t # s \/ at > s PROVE t \in Starts(B)
  <2>1. t \in C /\ t \in Int /\ t - 1 \notin C
    BY <1>4 DEF Starts
  <2>2. t \notin Interval(at, units)
    BY <1>1, <1>2, <1>6, <2>1 DEF Interval
  <2> QED BY <2>1, <2>2 DEF Starts
<1>7. ASSUME at + units < e PROVE at + units \in Starts(B)
  <2>1. at + units \in C /\ at + units \notin Interval(at, units)
        /\ (at + units) - 1 \in Interval(at, units)
    BY <1>1, <1>2, <1>7 DEF Interval
  <2> QED BY <2>1 DEF Starts
<1> QED BY <1>3, <1>5, <1>6, <1>7

\* Another piece of C than the one that is cut ends where it ended.
LEMMA OtherPiece ==
  ASSUME NEW C, NEW s, NEW e, NEW at, NEW units, Cut(C, s, e, at, units),
         NEW t \in Starts(C), t # s, NEW f \in Nat, EndsAt(C, t, f)
  PROVE  /\ EndsAt(C \ Interval(at, units), t, f)
         /\ \A c \in t .. f - 1 : c \notin s .. e - 1
<1> USE DEF Cut
<1>1. s \in Nat /\ t \in Nat
  BY Units DEF Starts
<1>2. e < t \/ f < s
  <2>1. s < t \/ t < s
    BY <1>1
  <2> QED BY <2>1, PiecesDisjoint
<1> QED BY <1>1, <1>2 DEF EndsAt, Interval

\* The list when a piece of C was cut: the other pieces keep their headers,
\* and the one before the cut names what is behind it.
After(at, units, e, n) == IF at + units = e THEN n ELSE at + units

LEMMA NextAfterCut ==
  ASSUME NEW C, NEW s, NEW e, NEW at, NEW units, Cut(C, s, e, at, units),
         NEW n, NextIs(C, s, n)
  PROVE  LET B == C \ Interval(at, units)
             rest == After(at, units, e, n)
         IN /\ NextIs(B, s, rest)
            /\ at + units < e => NextIs(B, at + units, n)
            /\ \A t \in Starts(C) : \A k : t # s /\ NextIs(C, t, k) =>
                 NextIs(B, t, IF at = s /\ k = s THEN rest ELSE k)
<1> DEFINE B == C \ Interval(at, units)
           rest == After(at, units, e, n)
<1> USE DEF After
<1>0. /\ C \in SUBSET Cells /\ s \in Starts(C) /\ e \in Nat /\ e > s /\ EndsAt(C, s, e)
      /\ at \in Nat /\ units \in Nat \ {0} /\ s <= at /\ at + units <= e
  BY DEF Cut
<1>1. /\ s \in Nat /\ (n = PageUnits \/ n \in Starts(C)) /\ n > s
      /\ \A t \in Starts(C) : t \in Nat /\ t < PageUnits
      /\ PageUnits \in Nat
  BY <1>0, Units DEF Starts, NextIs
<1>2. n > e \/ n = PageUnits
  BY <1>0, <1>1, PiecesDisjoint DEF Starts
<1>3. \A t : t \in Starts(B) <=> \/ t \in Starts(C) /\ (t # s \/ at > s)
                                 \/ t = at + units /\ at + units < e
  BY StartsOfCut
<1>4. \A t \in Starts(C) : t > s => t > e /\ t >= n
  BY <1>0, <1>1, PiecesDisjoint DEF NextIs
<1>5. n = PageUnits \/ n \in Starts(B)
  BY <1>0, <1>1, <1>3
<1>6. at + units < e => at + units < PageUnits /\ at + units \in Starts(B)
  <2>1. at + units < e => at + units \in Starts(B)
    BY <1>3
  <2>2. at + units \in Starts(B) => at + units \in Cells
    BY <1>0 DEF Starts
  <2> QED BY <2>1, <2>2, Units
<1>7. n \in Nat /\ rest \in Nat /\ rest > s /\ (rest = PageUnits \/ rest \in Starts(B))
  <2>1. n \in Nat
    BY <1>0, <1>1
  <2>2. CASE at + units = e
    BY <1>0, <1>1, <1>5, <2>1, <2>2
  <2>3. CASE at + units # e
    <3>1. at + units < e
      BY <1>0, <1>1, <2>3
    <3> QED BY <1>0, <1>1, <1>6, <2>1, <2>3, <3>1
  <2> QED BY <2>1, <2>2, <2>3
<1>8. \A t \in Starts(B) : t > s => rest <= t
  BY <1>0, <1>1, <1>3, <1>4
<1>9. NextIs(B, s, rest)
  BY <1>7, <1>8 DEF NextIs
<1>10. ASSUME at + units < e PROVE NextIs(B, at + units, n)
  <2>1. n > at + units
    <3>1. n \in Nat /\ e \in Nat
      BY <1>0, <1>7
    <3> QED BY <1>0, <3>1, <1>2, <1>6, <1>10
  <2>2. \A t \in Starts(B) : t > at + units => n <= t
    BY <1>0, <1>1, <1>3, <1>4
  <2> QED BY <1>5, <2>1, <2>2 DEF NextIs
<1>11. ASSUME NEW t \in Starts(C), NEW k, t # s, NextIs(C, t, k)
       PROVE  NextIs(B, t, IF at = s /\ k = s THEN rest ELSE k)
  <2>1. k > t /\ (k = PageUnits \/ k \in Starts(C)) /\ \A x \in Starts(C) : x > t => k <= x
    BY <1>11 DEF NextIs
  <2>2. CASE k = s /\ at = s
    <3>1. \A x \in Starts(B) : x > t => rest <= x
      <4> SUFFICES ASSUME NEW x \in Starts(B), x > t PROVE rest <= x
        OBVIOUS
      <4>1. CASE x \in Starts(C) /\ x # s
        <5>1. x > s
          BY <1>0, <1>1, <2>1, <2>2, <4>1
        <5> QED BY <1>8, <5>1
      <4>2. CASE x = at + units /\ at + units < e
        BY <4>2, <1>1
      <4> QED BY <1>3, <2>2, <1>1, <4>1, <4>2
    <3>2. rest > t
      BY <1>0, <1>1, <1>7, <2>1, <2>2
    <3> QED BY <1>7, <2>2, <3>1, <3>2 DEF NextIs
  <2>3. CASE ~ (k = s /\ at = s)
    <3>1. k = PageUnits \/ k \in Starts(B)
      BY <1>0, <1>1, <1>3, <2>1, <2>3
    <3>2. ASSUME NEW x \in Starts(B), x > t PROVE k <= x
      <4>1. CASE x \in Starts(C)
        BY <2>1, <3>2, <4>1
      <4>2. CASE x = at + units /\ at + units < e
        <5>1. s > t
          BY <1>0, <1>1, <1>4, <3>2, <4>2, <1>11
        <5>2. k <= s
          BY <1>0, <2>1, <5>1
        <5>3. k \in Nat
          BY <2>1, <1>1
        <5> QED BY <1>0, <1>1, <4>2, <5>2, <5>3
      <4> QED BY <1>3, <3>2, <4>1, <4>2
    <3> HIDE DEF rest
    <3> QED BY <2>1, <2>3, <3>1, <3>2 DEF NextIs
  <2> QED BY <2>2, <2>3
<1> QED BY <1>9, <1>10, <1>11

\* An object that does not begin where its block does: the head stays a block.
LEMMA TakeInside ==
  ASSUME NEW pg, NEW C, Account(pg, C), NEW s \in Starts(C), NEW units \in Nat \ {0},
         NEW delta \in Nat \ {0}, delta + units <= SlobUnits(pg.mem, s)
  PROVE  Account(Take(SplitHead(pg, s, delta), s, s + delta, units), C \ Interval(s + delta, units))
<1> DEFINE u == SlobUnits(pg.mem, s)
           n == SlobNext(pg.mem, s)
           at == s + delta
           B == C \ Interval(at, units)
           w == u - delta
           e == s + u
           left == w - units
           m0 == SetSlob(pg.mem, at, w, n)
           m1 == SetSlob(m0, s, delta, at)
           rest == After(at, units, e, n)
           m2 == SetSlob(m1, s, delta, rest)
           m3 == IF w = units THEN m2 ELSE SetSlob(m2, rest, left, n)
           P == [mem |-> m3, freelist |-> pg.freelist, units |-> pg.units - units]
<1>1. /\ Header(pg.mem, s, u, n) /\ EndsAt(C, s, s + u) /\ NextIs(C, s, n)
      /\ pg.mem \in Memory /\ C \in SUBSET Cells /\ pg \in PageType
  BY PieceIs DEF Account, PageType, Memory
<1>2. /\ s \in Nat /\ s \in Cells /\ u \in Nat \ {0} /\ s + u <= PageUnits /\ PageUnits \in Nat
      /\ n \in 1 .. PageUnits
  BY <1>1, Units DEF Header
<1>3. delta + units <= u
  OBVIOUS
<1> HIDE DEF u, n
<1>4. /\ at \in Cells /\ at \in Nat /\ w \in Nat \ {0} /\ at + w <= PageUnits
      /\ at > s /\ at + units <= e /\ at + w = e /\ at \in 1 .. PageUnits
      /\ s + delta <= PageUnits
      /\ e \in Nat /\ e <= PageUnits /\ EndsAt(C, s, e)
      /\ w # units => left \in Nat \ {0} /\ at + units \in Cells /\ (at + units) + left = e
  BY <1>1, <1>2, <1>3, Units
<1>30. w = u - delta /\ at = s + delta /\ e = s + u /\ e > s /\ left = w - units
  BY <1>2
<1> HIDE DEF w, at, e, left
<1>31. /\ Writable(pg.mem, at, w, n)
       /\ Cut(C, s, e, at, units)
       /\ w = units <=> at + units = e
  BY <1>1, <1>2, <1>4, <1>30 DEF Writable, Cut
<1>5. /\ m0 \in Memory /\ Header(m0, at, w, n)
      /\ \A c \in Cells \ (s .. e - 1) : m0[c] = pg.mem[c]
  <2>1. /\ m0 \in Memory /\ Header(m0, at, w, n)
        /\ \A c \in Cells \ (at .. at + w - 1) : m0[c] = pg.mem[c]
    BY <1>31, SetSlobIs
  <2> HIDE DEF m0
  <2>2. \A c \in Cells \ (s .. e - 1) : c \notin at .. at + w - 1
    BY <1>2, <1>4, <1>30
  <2> QED BY <2>1, <2>2
<1> HIDE DEF m0
<1>6. /\ m1 \in Memory /\ Header(m1, s, delta, at)
      /\ \A c \in Cells \ (s .. s + delta - 1) : m1[c] = m0[c]
  <2>1. Writable(m0, s, delta, at)
    BY <1>2, <1>4, <1>5 DEF Writable
  <2> QED BY <2>1, SetSlobIs
<1> HIDE DEF m1
<1>7. Header(m1, at, w, n)
  <2>1. \A c \in at .. at + w - 1 : m1[c] = m0[c]
    BY <1>2, <1>4, <1>6, <1>30, Units
  <2> QED BY <1>5, <2>1, HeaderKept
<1>8. /\ SlobUnits(m1, at) = w /\ SlobNext(m1, at) = n /\ SlobUnits(m1, s) = delta
  BY <1>6, <1>7, HeaderRead
<1>9. SplitHead(pg, s, delta) = [pg EXCEPT !.mem = m1]
  BY Zenon DEF SplitHead, m1, m0, u, n, at, w
<1>10. Take(SplitHead(pg, s, delta), s, at, units) = P
  <2> DEFINE q == SplitHead(pg, s, delta)
  <2>1. q.mem = m1 /\ q.freelist = pg.freelist /\ q.units = pg.units
    BY <1>1, <1>9 DEF PageType
  <2>2. s # None
    BY <1>2 DEF None
  <2>3. rest = IF w = units THEN n ELSE at + units
    BY <1>31 DEF After
  <2> HIDE DEF q, P, rest
  <2>4. P.mem = m3 /\ P = [mem |-> m3, freelist |-> pg.freelist, units |-> pg.units - units]
    BY DEF P
  <2>5. Take(q, s, at, units) = [mem |-> m3, freelist |-> pg.freelist, units |-> pg.units - units]
    BY <1>8, <2>1, <2>2, <2>3, Zenon DEF Take, left
  <2> QED BY <2>4, <2>5 DEF q
<1>11. /\ rest \in 1 .. PageUnits
       /\ w # units => rest \in Cells /\ rest \in Nat /\ rest = at + units /\ rest + left = e
                       /\ rest > s + delta - 1 /\ rest + left <= PageUnits
  BY <1>2, <1>4, <1>30, <1>31, Units DEF After
<1> HIDE DEF rest
<1>12. /\ m2 \in Memory /\ Header(m2, s, delta, rest)
       /\ \A c \in Cells \ (s .. s + delta - 1) : m2[c] = m1[c]
  <2>1. Writable(m1, s, delta, rest)
    BY <1>2, <1>4, <1>6, <1>11 DEF Writable
  <2> QED BY <2>1, SetSlobIs
<1> HIDE DEF m2
<1>13. /\ m3 \in Memory /\ Header(m3, s, delta, rest)
       /\ w # units => Header(m3, at + units, left, n)
       /\ \A c \in Cells \ (s .. e - 1) : m3[c] = pg.mem[c]
  <2>1. \A c \in Cells \ (s .. e - 1) : m2[c] = pg.mem[c]
    <3>1. \A c \in Cells \ (s .. e - 1) : c \notin s .. s + delta - 1
      BY <1>2, <1>4, <1>30
    <3> QED BY <3>1, <1>5, <1>6, <1>12
  <2>2. CASE w = units
    BY <1>12, <2>1, <2>2
  <2>3. CASE w # units
    <3>1. /\ m3 \in Memory /\ Header(m3, rest, left, n)
          /\ \A c \in Cells \ (rest .. rest + left - 1) : m3[c] = m2[c]
      <4>1. Writable(m2, rest, left, n)
        BY <1>2, <1>4, <1>11, <1>12, <2>3 DEF Writable
      <4> QED BY <2>3, <4>1, SetSlobIs
    <3> HIDE DEF m3
    <3>2. \A c \in s .. s + delta - 1 : c \in Cells \ (rest .. rest + left - 1)
      BY <1>2, <1>4, <1>11, <2>3, Units
    <3>3. Header(m3, s, delta, rest)
      BY <1>12, <3>1, <3>2, HeaderKept
    <3>4. \A c \in Cells \ (s .. e - 1) : c \in Cells \ (rest .. rest + left - 1)
      BY <1>2, <1>4, <1>11, <1>30, <2>3, Units
    <3>5. rest = at + units
      BY <1>11, <2>3
    <3> QED BY <2>1, <3>1, <3>3, <3>4, <3>5
  <2> QED BY <2>2, <2>3
<1> HIDE DEF m3
<1>14. rest = After(at, units, e, n)
  BY DEF rest
<1>15. B \in SUBSET Cells /\ Cardinality(B) = Cardinality(C) - units
  <2>1. \A c \in Interval(at, units) : c \in C
    BY <1>31, StartsOfCut
  <2> QED BY <2>1, <1>1, <1>4, CutCells
<1>16. \A t : t \in Starts(B) <=> t \in Starts(C) \/ (t = at + units /\ at + units < e)
  BY <1>4, <1>31, StartsOfCut
<1>17. Describes(m3, B)
  <2> SUFFICES ASSUME NEW t \in Starts(B)
               PROVE  \E v, k : Header(m3, t, v, k) /\ EndsAt(B, t, t + v) /\ NextIs(B, t, k)
    BY DEF Describes
  <2>1. CASE t = s
    <3>1. EndsAt(B, s, s + delta)
      BY <1>1, <1>2, <1>4, <1>30 DEF EndsAt, Interval
    <3>2. NextIs(B, s, rest)
      BY <1>1, <1>14, <1>31, NextAfterCut
    <3> QED BY <1>13, <2>1, <3>1, <3>2
  <2>2. CASE t = at + units /\ at + units < e
    <3>1. w # units /\ (at + units) + left = e
      BY <1>4, <2>2
    <3>2. EndsAt(B, at + units, e)
      BY <1>1, <1>2, <1>4, <2>2 DEF EndsAt, Interval
    <3>3. NextIs(B, at + units, n)
      BY <1>1, <1>31, <2>2, NextAfterCut
    <3> QED BY <1>13, <2>2, <3>1, <3>2, <3>3
  <2>3. CASE t \in Starts(C) /\ t # s
    <3> DEFINE v == SlobUnits(pg.mem, t)
               k == SlobNext(pg.mem, t)
    <3>1. Header(pg.mem, t, v, k) /\ EndsAt(C, t, t + v) /\ NextIs(C, t, k)
      BY <2>3, PieceIs
    <3>2. v \in Nat \ {0} /\ t \in Nat /\ t + v <= PageUnits
      BY <3>1, Units DEF Header
    <3> DEFINE f == t + v
    <3>8. f \in Nat /\ EndsAt(C, t, f) /\ f = t + v /\ t + v - 1 = f - 1
      BY <3>1, <3>2
    <3> HIDE DEF v, k, f
    <3>9. EndsAt(B, t, f) /\ \A c \in t .. f - 1 : c \notin s .. e - 1
      BY <1>31, <2>3, <3>8, OtherPiece
    <3>3. EndsAt(B, t, t + v) /\ \A c \in t .. t + v - 1 : c \notin s .. e - 1
      BY <3>8, <3>9, Zenon
    <3>4. \A c \in t .. t + v - 1 : c \in Cells \ (s .. e - 1)
      BY <3>2, <3>3, Units
    <3>5. Header(m3, t, v, k)
      BY <1>13, <3>1, <3>4, HeaderKept
    <3>6. at # s
      BY <1>2, <1>4
    <3>7. NextIs(B, t, k)
      BY <1>1, <1>31, <2>3, <3>1, <3>6, NextAfterCut
    <3> QED BY <3>3, <3>5, <3>7
  <2> QED BY <1>16, <2>1, <2>2, <2>3
<1>18. pg.freelist \in Starts(B) /\ \A t \in Starts(B) : pg.freelist <= t
  <2>1. pg.freelist \in Starts(C) /\ \A t \in Starts(C) : pg.freelist <= t
    BY DEF Account
  <2>2. pg.freelist \in Nat /\ pg.freelist <= s /\ s < at + units
    <3>1. pg.freelist \in Cells /\ pg.freelist <= s
      BY <1>1, <2>1 DEF Starts
    <3> QED BY <1>2, <1>4, <3>1, Units
  <2> QED BY <1>2, <1>4, <1>16, <2>1, <2>2
<1>19. Cardinality(B) \in 0 .. PageUnits /\ pg.units = Cardinality(C)
  BY <1>15, CellsFinite DEF Account
<1>20. P \in PageType
  <2>1. pg.units - units \in 0 .. PageUnits /\ pg.freelist \in 0 .. PageUnits
    BY <1>1, <1>15, <1>19 DEF PageType
  <2> QED BY <1>13, <2>1 DEF PageType, Memory
<1>21. P.mem = m3 /\ P.freelist = pg.freelist /\ P.units = Cardinality(B)
  BY <1>15, <1>19
<1> HIDE DEF P, B
<1>22. Account(P, B)
  BY <1>15, <1>17, <1>18, <1>20, <1>21 DEF Account
<1> QED BY <1>10, <1>22 DEF at, B

LEMMA MaxIs ==
  ASSUME NEW S \in SUBSET Cells, S # {}
  PROVE  Max(S) \in S /\ \A y \in S : Max(S) >= y
<1> DEFINE T == {PageUnits - x : x \in S}
<1>1. \A x \in S : x \in Nat /\ PageUnits - x \in Nat
  BY Units
<1>2. PICK z \in T : \A y \in T : ~ (y < z)
  <2>1. T \in SUBSET Nat /\ T # {}
    BY <1>1
  <2> HIDE DEF T
  <2> QED BY <2>1, NatLeast
<1>3. PICK x \in S : z = PageUnits - x
  BY <1>2
<1>4. \A y \in S : x >= y
  <2> SUFFICES ASSUME NEW y \in S PROVE x >= y
    OBVIOUS
  <2>1. ~ (PageUnits - y < PageUnits - x)
    BY <1>2, <1>3
  <2> QED BY <1>1, <2>1, Units
<1> QED BY <1>4 DEF Max

\* The piece before the cells from b on.
LEMMA PredecessorIs ==
  ASSUME NEW C \in SUBSET Cells, NEW b \in Nat, \E t \in Starts(C) : t < b
  PROVE  LET p == Max({t \in Starts(C) : t < b})
         IN p \in Starts(C) /\ p < b /\ \A t \in Starts(C) : t < b => t <= p
<1> DEFINE S == {t \in Starts(C) : t < b}
<1>1. S \in SUBSET Cells /\ S # {}
  BY DEF Starts
<1>2. \A t \in S : t \in Nat
  BY <1>1, Units
<1>3. Max(S) \in S /\ \A y \in S : Max(S) >= y
  BY <1>1, MaxIs
<1> QED BY <1>2, <1>3

LEMMA PrevIs ==
  ASSUME NEW pg, NEW C, Account(pg, C), NEW s \in Starts(C), s # pg.freelist
  PROVE  /\ Prev(pg, s) \in Starts(C) /\ Prev(pg, s) < s /\ SlobNext(pg.mem, Prev(pg, s)) = s
         /\ Prev(pg, s) # None
         /\ \A t \in Starts(C) : t # Prev(pg, s) => SlobNext(pg.mem, t) # s
<1>1. C \in SUBSET Cells /\ pg.freelist \in Starts(C) /\ pg.freelist <= s /\ PageUnits \in Nat
      /\ \A t \in Starts(C) : t \in Nat /\ t < PageUnits
  BY Units DEF Account, Starts
<1> DEFINE p == Max({t \in Starts(C) : t < s})
<1>2. p \in Starts(C) /\ p < s /\ \A t \in Starts(C) : t < s => t <= p
  <2>1. pg.freelist < s
    BY <1>1
  <2> QED BY <1>1, <2>1, PredecessorIs
<1> HIDE DEF p
<1>3. ASSUME NEW t \in Starts(C)
      PROVE  /\ SlobNext(pg.mem, t) > t
             /\ SlobNext(pg.mem, t) = PageUnits \/ SlobNext(pg.mem, t) \in Starts(C)
             /\ \A x \in Starts(C) : x > t => SlobNext(pg.mem, t) <= x
  BY PieceIs DEF NextIs
<1>4. SlobNext(pg.mem, p) = s
  <2>1. SlobNext(pg.mem, p) <= s /\ SlobNext(pg.mem, p) > p
    BY <1>1, <1>2, <1>3
  <2>2. SlobNext(pg.mem, p) \in Starts(C)
    BY <1>1, <1>2, <1>3, <2>1
  <2> QED BY <1>1, <1>2, <2>1, <2>2
<1>5. \E t \in FreeBlocks(pg) : SlobNext(pg.mem, t) = s
  BY <1>2, <1>4, FreeBlocksAre
<1>6. Prev(pg, s) \in Starts(C) /\ SlobNext(pg.mem, Prev(pg, s)) = s
  BY <1>5, FreeBlocksAre DEF Prev
<1> DEFINE q == Prev(pg, s)
<1> HIDE DEF q
<1>7. q \in Starts(C) /\ SlobNext(pg.mem, q) = s
  BY <1>6 DEF q
<1>8. q < s /\ q # None
  BY <1>1, <1>3, <1>7 DEF None
<1>9. ASSUME NEW t \in Starts(C), t # q, SlobNext(pg.mem, t) = s PROVE FALSE
  <2>1. t < s /\ t \in Nat /\ q \in Nat /\ s \in Nat
    BY <1>1, <1>3, <1>7, <1>9
  <2>2. CASE t < q
    BY <1>3, <1>7, <1>8, <1>9, <2>1, <2>2
  <2>3. CASE q < t
    BY <1>3, <1>7, <1>9, <2>1, <2>3
  <2> QED BY <1>9, <2>1, <2>2, <2>3
<1> QED BY <1>7, <1>8, <1>9 DEF q

\* What came before block s is linked to rest, whether there is any or not.
Linked(pg, s, rest) ==
  IF Prev(pg, s) = None THEN pg.mem
  ELSE SetSlob(pg.mem, Prev(pg, s), SlobUnits(pg.mem, Prev(pg, s)), rest)

LEMMA LinkedIs ==
  ASSUME NEW pg, NEW C, Account(pg, C), NEW s \in Starts(C), NEW rest \in 1 .. PageUnits
  PROVE  /\ Linked(pg, s, rest) \in Memory
         /\ \A t \in Starts(C) : t # s =>
              Header(Linked(pg, s, rest), t, SlobUnits(pg.mem, t),
                     IF SlobNext(pg.mem, t) = s THEN rest ELSE SlobNext(pg.mem, t))
<1>1. pg.mem \in Memory /\ C \in SUBSET Cells
  BY DEF Account, PageType, Memory
<1>2. ASSUME NEW t \in Starts(C)
      PROVE  /\ Header(pg.mem, t, SlobUnits(pg.mem, t), SlobNext(pg.mem, t))
             /\ t \in Nat /\ t \in Cells /\ SlobUnits(pg.mem, t) \in Nat \ {0}
             /\ t + SlobUnits(pg.mem, t) \in Nat /\ t + SlobUnits(pg.mem, t) <= PageUnits
             /\ EndsAt(C, t, t + SlobUnits(pg.mem, t)) /\ SlobNext(pg.mem, t) > t
  BY PieceIs, Units DEF Header, NextIs
<1>3. CASE s = pg.freelist
  <2>1. Linked(pg, s, rest) = pg.mem
    BY <1>3 DEF Linked, Prev
  <2>2. ASSUME NEW t \in Starts(C), t # s PROVE SlobNext(pg.mem, t) # s
    <3>1. s <= t
      BY <1>3 DEF Account
    <3> QED BY <1>2, <3>1, <2>2
  <2> QED BY <1>1, <1>2, <2>1, <2>2
<1>4. CASE s # pg.freelist
  <2> DEFINE p == Prev(pg, s)
             pu == SlobUnits(pg.mem, p)
             m == SetSlob(pg.mem, p, pu, rest)
  <2>1. /\ p \in Starts(C) /\ p < s /\ SlobNext(pg.mem, p) = s /\ p # None
        /\ \A t \in Starts(C) : t # p => SlobNext(pg.mem, t) # s
    BY <1>4, PrevIs
  <2>2. Linked(pg, s, rest) = m
    BY <2>1 DEF Linked
  <2> HIDE DEF p
  <2>3. Writable(pg.mem, p, pu, rest)
    BY <1>1, <1>2, <2>1 DEF Writable
  <2>4. /\ m \in Memory /\ Header(m, p, pu, rest)
        /\ \A c \in Cells \ (p .. p + pu - 1) : m[c] = pg.mem[c]
    BY <2>3, SetSlobIs
  <2> HIDE DEF m
  <2>5. ASSUME NEW t \in Starts(C), t # s, t # p
        PROVE  Header(m, t, SlobUnits(pg.mem, t), SlobNext(pg.mem, t))
    <3> DEFINE v == SlobUnits(pg.mem, t)
               e == p + pu
               f == t + v
    <3>1. /\ v \in Nat /\ pu \in Nat /\ t \in Nat /\ p \in Nat /\ t + v <= PageUnits
          /\ e \in Nat /\ f \in Nat /\ EndsAt(C, t, f) /\ EndsAt(C, p, e)
      BY <1>2, <2>1
    <3>2. e = p + pu /\ f = t + v
      OBVIOUS
    <3> HIDE DEF v, pu, e, f
    <3>3. e < t \/ f < p
      BY <1>1, <2>1, <2>5, <3>1, PiecesDisjoint
    <3>4. \A c \in t .. t + v - 1 : c \in Cells \ (p .. p + pu - 1)
      BY <3>1, <3>2, <3>3, Units
    <3>5. \A c \in t .. t + v - 1 : m[c] = pg.mem[c]
      BY <2>4, <3>4 DEF pu
    <3> QED BY <1>2, <3>5, HeaderKept DEF v
  <2> QED BY <2>1, <2>2, <2>4, <2>5
<1> QED BY <1>3, <1>4

\* An object that begins where its block does.
LEMMA TakeFirst ==
  ASSUME NEW pg, NEW C, Account(pg, C), NEW s \in Starts(C), NEW units \in Nat \ {0},
         units <= SlobUnits(pg.mem, s)
  PROVE  LET P == Take(pg, Prev(pg, s), s, units)
             B == C \ Interval(s, units)
         IN IF B = {} THEN P \in PageType /\ P.units = 0 ELSE Account(P, B)
<1> DEFINE u == SlobUnits(pg.mem, s)
           n == SlobNext(pg.mem, s)
           e == s + u
           B == C \ Interval(s, units)
           rest == After(s, units, e, n)
           left == u - units
           m1 == Linked(pg, s, rest)
           m2 == IF u = units THEN m1 ELSE SetSlob(m1, rest, left, n)
           list == IF Prev(pg, s) = None THEN rest ELSE pg.freelist
           P == [mem |-> m2, freelist |-> list, units |-> pg.units - units]
<1>1. /\ Header(pg.mem, s, u, n) /\ EndsAt(C, s, e) /\ NextIs(C, s, n)
      /\ pg.mem \in Memory /\ C \in SUBSET Cells /\ pg \in PageType
      /\ pg.freelist \in Starts(C) /\ \A t \in Starts(C) : pg.freelist <= t
  BY PieceIs DEF Account, PageType, Memory
<1>2. /\ s \in Nat /\ s \in Cells /\ u \in Nat \ {0} /\ s + u <= PageUnits /\ PageUnits \in Nat
      /\ n \in 1 .. PageUnits /\ units <= u
      /\ \A t \in Starts(C) : t \in Nat /\ t \in Cells
  BY <1>1, Units DEF Header, Starts
<1> HIDE DEF u, n
<1>3. /\ e \in Nat /\ e <= PageUnits /\ e = s + u /\ e > s
      /\ u = units <=> s + units = e
      /\ u # units => left \in Nat \ {0} /\ (s + units) + left = e /\ s + units < e
                      /\ rest = s + units /\ s + units \in Cells
      /\ left = u - units
  BY <1>2, Units DEF After
<1>4. rest \in 1 .. PageUnits /\ rest = IF u = units THEN n ELSE s + units
  BY <1>2, <1>3, Units DEF After
<1>5. Cut(C, s, e, s, units)
  BY <1>1, <1>2, <1>3 DEF Cut
<1>6. rest = After(s, units, e, n)
  OBVIOUS
<1> HIDE DEF e, left, rest
<1>7. /\ m1 \in Memory
      /\ \A t \in Starts(C) : t # s =>
           Header(m1, t, SlobUnits(pg.mem, t),
                  IF SlobNext(pg.mem, t) = s THEN rest ELSE SlobNext(pg.mem, t))
  BY <1>4, LinkedIs
<1>8. Take(pg, Prev(pg, s), s, units) = P
  BY <1>4, Zenon DEF Take, Linked, u, n, left
<1> HIDE DEF m1
<1>9. ASSUME NEW t \in Starts(C), t # s
      PROVE  \A c \in t .. t + SlobUnits(pg.mem, t) - 1 : c \in Cells \ (s .. e - 1)
  <2> DEFINE v == SlobUnits(pg.mem, t)
             f == t + v
  <2>1. v \in Nat \ {0} /\ t \in Nat /\ f <= PageUnits /\ EndsAt(C, t, f)
    BY PieceIs, Units, <1>9 DEF Header
  <2>2. f \in Nat /\ f = t + v
    BY <2>1
  <2> HIDE DEF v, f
  <2>3. \A c \in t .. f - 1 : c \notin s .. e - 1
    BY <1>5, <1>9, <2>1, <2>2, OtherPiece
  <2>4. \A c \in t .. t + v - 1 : c \in Cells \ (s .. e - 1)
    BY <2>1, <2>2, <2>3, Units
  <2> QED BY <2>4 DEF v
<1>10. /\ m2 \in Memory
       /\ \A t \in Starts(C) : t # s =>
            Header(m2, t, SlobUnits(pg.mem, t),
                   IF SlobNext(pg.mem, t) = s THEN rest ELSE SlobNext(pg.mem, t))
       /\ u # units => Header(m2, s + units, left, n)
  <2>1. CASE u = units
    BY <1>7, <2>1
  <2>2. CASE u # units
    <3>1. Writable(m1, rest, left, n)
      BY <1>2, <1>3, <1>4, <1>7, <2>2 DEF Writable
    <3>2. /\ m2 \in Memory /\ Header(m2, rest, left, n)
          /\ \A c \in Cells \ (rest .. rest + left - 1) : m2[c] = m1[c]
      BY <3>1, <2>2, SetSlobIs
    <3> HIDE DEF m2
    <3>3. \A c \in Cells \ (s .. e - 1) : m2[c] = m1[c]
      <4>1. \A c \in rest .. rest + left - 1 : c \in s .. e - 1
        BY <1>2, <1>3, <2>2
      <4> QED BY <3>2, <4>1
    <3>4. ASSUME NEW t \in Starts(C), t # s
          PROVE  Header(m2, t, SlobUnits(pg.mem, t),
                        IF SlobNext(pg.mem, t) = s THEN rest ELSE SlobNext(pg.mem, t))
      BY <1>7, <1>9, <3>3, <3>4, HeaderKept
    <3> QED BY <1>3, <2>2, <3>2, <3>4
  <2> QED BY <2>1, <2>2
<1> HIDE DEF m2
<1>11. B \in SUBSET Cells /\ Cardinality(B) = Cardinality(C) - units
  <2>1. \A c \in Interval(s, units) : c \in C
    BY <1>5, StartsOfCut
  <2> QED BY <2>1, <1>1, <1>2, CutCells
<1>12. \A t : t \in Starts(B) <=> (t \in Starts(C) /\ t # s) \/ (t = s + units /\ s + units < e)
  <2>1. ~ (s > s)
    BY <1>2
  <2> QED BY <1>5, <2>1, StartsOfCut
<1>13. NextIs(B, s, rest)
  BY <1>1, <1>5, <1>6, NextAfterCut
<1>14. Describes(m2, B)
  <2> SUFFICES ASSUME NEW t \in Starts(B)
               PROVE  \E v, k : Header(m2, t, v, k) /\ EndsAt(B, t, t + v) /\ NextIs(B, t, k)
    BY DEF Describes
  <2>1. CASE t = s + units /\ s + units < e
    <3>1. u # units /\ (s + units) + left = e
      BY <1>2, <1>3, <2>1
    <3>2. EndsAt(B, s + units, e)
      BY <1>1, <1>2, <1>3, <2>1 DEF EndsAt, Interval
    <3>3. NextIs(B, s + units, n)
      BY <1>1, <1>5, <2>1, NextAfterCut
    <3> QED BY <1>10, <2>1, <3>1, <3>2, <3>3
  <2>2. CASE t \in Starts(C) /\ t # s
    <3> DEFINE v == SlobUnits(pg.mem, t)
               k == SlobNext(pg.mem, t)
               f == t + v
    <3>1. EndsAt(C, t, f) /\ NextIs(C, t, k) /\ f \in Nat
      BY <1>2, <2>2, PieceIs DEF Header
    <3>2. Header(m2, t, v, IF k = s THEN rest ELSE k)
      BY <1>10, <2>2
    <3>3. f = t + v
      OBVIOUS
    <3> HIDE DEF v, k, f
    <3>4. EndsAt(B, t, f)
      BY <1>5, <2>2, <3>1, OtherPiece
    <3>5. NextIs(B, t, IF k = s THEN rest ELSE k)
      BY <1>1, <1>5, <1>6, <2>2, <3>1, NextAfterCut
    <3> QED BY <3>2, <3>3, <3>4, <3>5
  <2> QED BY <1>12, <2>1, <2>2
<1>15. ASSUME B # {} PROVE list \in Starts(B) /\ \A t \in Starts(B) : list <= t
  <2>1. CASE s = pg.freelist
    <3>1. list = rest
      BY <2>1 DEF Prev
    <3>2. \A t \in Starts(B) : t > s
      BY <1>1, <1>2, <1>12, <2>1
    <3>3. \A t \in Starts(B) : rest <= t
      BY <1>13, <3>2 DEF NextIs
    <3>4. PICK t \in Starts(B) : TRUE
      BY <1>11, <1>15, StartBelow
    <3>5. t < PageUnits /\ t \in Nat
      BY <1>11, <3>4, Units DEF Starts
    <3>6. rest # PageUnits
      BY <1>2, <3>3, <3>4, <3>5
    <3>7. rest \in Starts(B)
      BY <1>13, <3>6 DEF NextIs
    <3> QED BY <3>1, <3>3, <3>7
  <2>2. CASE s # pg.freelist
    <3>1. list = pg.freelist
      BY <2>2, PrevIs
    <3>2. pg.freelist \in Starts(B)
      BY <1>1, <1>12, <2>2
    <3>5. pg.freelist \in Nat /\ pg.freelist <= s
      BY <1>1, <1>2, Zenon
    <3>3. pg.freelist <= s + units
      BY <1>2, <3>5
    <3>4. \A t \in Starts(B) : pg.freelist <= t
      BY <1>1, <1>12, <3>3
    <3> QED BY <3>1, <3>2, <3>4
  <2> QED BY <2>1, <2>2
<1>16. Cardinality(B) \in 0 .. PageUnits /\ pg.units = Cardinality(C)
  BY <1>11, CellsFinite DEF Account
<1>17. P \in PageType
  <2>1. pg.units - units \in 0 .. PageUnits
    BY <1>1, <1>11, <1>16
  <2>2. list \in 0 .. PageUnits
    BY <1>1, <1>4 DEF PageType
  <2> HIDE DEF list
  <2> QED BY <1>10, <2>1, <2>2 DEF PageType, Memory
<1>18. P.mem = m2 /\ P.freelist = list /\ P.units = Cardinality(B)
  BY <1>11, <1>16
<1> HIDE DEF P, B, list
<1>19. CASE B = {}
  <2>1. Cardinality(B) = 0
    BY <1>19, FS_EmptySet
  <2> QED BY <1>8, <1>17, <1>18, <1>19, <2>1 DEF B
<1>20. CASE B # {}
  <2>1. Account(P, B)
    BY <1>11, <1>14, <1>15, <1>17, <1>18, <1>20 DEF Account
  <2> QED BY <1>8, <1>20, <2>1 DEF B
<1> QED BY <1>19, <1>20

\* What slob_page_alloc does to a page of which C is free: it takes an aligned
\* part of C, if any block of C has one, and the list tells of the rest.
Allocated(C, units, align, offset, found) ==
  /\ found.at \in Nat /\ found.at # None /\ (found.at + offset) % align = 0
  /\ \A c \in Interval(found.at, units) : c \in C
  /\ found.at + units <= PageUnits
  /\ IF C \ Interval(found.at, units) = {} THEN found.page \in PageType /\ found.page.units = 0
     ELSE Account(found.page, C \ Interval(found.at, units))

LEMMA PageAllocIs ==
  ASSUME NEW pg, NEW C, Account(pg, C), NEW units \in Nat \ {0}, NEW align \in Nat \ {0}, NEW offset \in Nat
  PROVE  LET found == PageAlloc(pg, units, align, offset)
         IN \/ found.at = None /\ Fitting(pg, units, align, offset) = {}
            \/ Allocated(C, units, align, offset, found)
<1> DEFINE found == PageAlloc(pg, units, align, offset)
           s == BestBlock(pg, units, align, offset)
           delta == Delta(s, align, offset)
           u == SlobUnits(pg.mem, s)
           at == s + delta
           D == Interval(at, units)
<1>1. CASE Fitting(pg, units, align, offset) = {}
  BY <1>1 DEF PageAlloc
<1>2. CASE Fitting(pg, units, align, offset) # {}
  <2>1. s \in Starts(C) /\ delta + units <= u
    BY <1>2, BestBlockIs
  <2>2. /\ Header(pg.mem, s, u, SlobNext(pg.mem, s)) /\ EndsAt(C, s, s + u)
        /\ C \in SUBSET Cells /\ s \in Nat
    BY <2>1, PieceIs, Units DEF Account, Starts
  <2>3. u \in Nat /\ s + u <= PageUnits /\ PageUnits \in Nat
    BY <2>2, Units DEF Header
  <2>4. delta \in Nat /\ (at + offset) % align = 0
    BY <2>2, DeltaIs
  <2> DEFINE taken == IF delta > 0 THEN Take(SplitHead(pg, s, delta), s, at, units)
                      ELSE Take(pg, Prev(pg, s), s, units)
  <2>5. found.at = at /\ found.page = Forget(taken)
    BY <1>2 DEF PageAlloc
  <2> HIDE DEF found, s, delta, u
  <2>6. /\ at \in Nat /\ at + units <= PageUnits /\ at # None
        /\ \A c \in D : c \in C
    BY <2>1, <2>2, <2>3, <2>4 DEF Interval, EndsAt, None
  <2>7. IF C \ D = {} THEN taken \in PageType /\ taken.units = 0 ELSE Account(taken, C \ D)
    <3>1. CASE delta > 0
      <4>1. Account(taken, C \ D)
        BY <2>1, <2>4, <3>1, TakeInside DEF u
      <4>2. C \ D # {}
        BY <4>1 DEF Account, Starts
      <4> QED BY <4>1, <4>2
    <3>2. CASE delta = 0
      <4>1. ~ (delta > 0) /\ at = s /\ units <= u
        BY <2>1, <2>2, <3>2
      <4>2. taken = Take(pg, Prev(pg, s), s, units) /\ D = Interval(s, units)
        BY <4>1
      <4> HIDE DEF taken, D
      <4>3. units <= SlobUnits(pg.mem, s)
        BY <4>1 DEF u
      <4> QED BY <2>1, <4>2, <4>3, TakeFirst
    <3> QED BY <2>4, <3>1, <3>2
  <2> HIDE DEF taken
  <2>8. IF C \ D = {} THEN Forget(taken) \in PageType /\ Forget(taken).units = 0
        ELSE Account(Forget(taken), C \ D)
    BY <2>7, ForgetKeeps, ForgetFull
  <2> QED BY <2>4, <2>5, <2>6, <2>8 DEF Allocated, found
<1> QED BY <1>1, <1>2
-----------------------------------------------------------------------------
(* Putting cells back, next to what is free or apart from it.              *)

\* The cells from b on were in use.
Back(C, b, units) ==
  /\ C \in SUBSET Cells /\ b \in Nat /\ units \in Nat \ {0} /\ b + units <= PageUnits
  /\ \A c \in Interval(b, units) : c \notin C

LEMMA BackCells ==
  ASSUME NEW C, NEW b, NEW units, Back(C, b, units)
  PROVE  LET J == C \cup Interval(b, units)
         IN J \in SUBSET Cells /\ Cardinality(J) = Cardinality(C) + units
<1> DEFINE D == Interval(b, units)
<1>1. IsFiniteSet(C) /\ C \in SUBSET Cells
  BY CellsFinite DEF Back
<1>2. IsFiniteSet(D) /\ Cardinality(D) = units
  BY FS_Interval DEF Interval, Back
<1>3. D \in SUBSET Cells
  BY Units DEF Back, Interval
<1>4. C \cap D = {}
  BY DEF Back
<1> HIDE DEF D
<1>5. Cardinality(C \cup D) = Cardinality(C) + Cardinality(D) - Cardinality({})
  BY <1>1, <1>2, <1>4, FS_Union
<1>6. Cardinality({}) = 0 /\ Cardinality(C) \in Nat /\ units \in Nat
  BY <1>1, FS_EmptySet, FS_CardinalityType DEF Back
<1> QED BY <1>1, <1>2, <1>3, <1>5, <1>6 DEF D

LEMMA StartsOfJoin ==
  ASSUME NEW C, NEW b, NEW units, Back(C, b, units)
  PROVE  \A t : t \in Starts(C \cup Interval(b, units)) <=>
                  \/ t \in Starts(C) /\ t # b + units
                  \/ t = b /\ b - 1 \notin C
<1> DEFINE J == C \cup Interval(b, units)
<1>1. /\ C \in SUBSET Cells /\ b \in Nat /\ units \in Nat \ {0} /\ b + units <= PageUnits
      /\ \A c \in C : c \in Nat /\ ~ (c >= b /\ c <= b + units - 1)
  BY Units DEF Back, Interval
<1>2. \A c : c \in J <=> c \in C \/ (c \in Int /\ c >= b /\ c <= b + units - 1)
  BY <1>1 DEF Interval
<1>3. ASSUME NEW t \in Starts(J)
      PROVE  (t \in Starts(C) /\ t # b + units) \/ (t = b /\ b - 1 \notin C)
  <2>1. t \in J /\ t - 1 \notin J /\ t \in Int
    BY <1>1, <1>2 DEF Starts
  <2> QED BY <1>1, <1>2, <2>1 DEF Starts
<1>4. ASSUME NEW t \in Starts(C), t # b + units PROVE t \in Starts(J)
  <2>1. t \in C /\ t - 1 \notin C /\ t \in Nat
    BY <1>1 DEF Starts
  <2>2. t - 1 \notin J
    BY <1>1, <1>2, <1>4, <2>1
  <2> QED BY <1>2, <2>1, <2>2 DEF Starts
<1>5. ASSUME b - 1 \notin C PROVE b \in Starts(J)
  BY <1>1, <1>2, <1>5 DEF Starts
<1> QED BY <1>3, <1>4, <1>5

\* A piece of C that is not the one behind the cells.
LEMMA OtherAfterBack ==
  ASSUME NEW C, NEW b, NEW units, Back(C, b, units), NEW t \in Starts(C), t # b + units
  PROVE  LET J == C \cup Interval(b, units)
         IN /\ \A f : f \in Nat /\ EndsAt(C, t, f) /\ f > t =>
                 /\ f # b => EndsAt(J, t, f)
                 /\ t < b => f <= b
            /\ \A k : NextIs(C, t, k) /\ (t < b => k < b) => NextIs(J, t, k)
            /\ t < b \/ t > b + units
<1> DEFINE J == C \cup Interval(b, units)
<1>1. /\ C \in SUBSET Cells /\ b \in Nat /\ units \in Nat \ {0} /\ b + units <= PageUnits
      /\ \A c \in C : c \in Nat /\ c < PageUnits /\ ~ (c >= b /\ c <= b + units - 1)
      /\ PageUnits \in Nat
  BY Units DEF Back, Interval
<1>2. \A c : c \in J <=> c \in C \/ (c \in Int /\ c >= b /\ c <= b + units - 1)
  BY <1>1 DEF Interval
<1>3. t \in C /\ t \in Nat /\ (t < b \/ t > b + units) /\ t - 1 \notin C
  BY <1>1 DEF Starts
<1>4. ASSUME NEW f \in Nat, EndsAt(C, t, f), f > t
      PROVE  (f # b => EndsAt(J, t, f)) /\ (t < b => f <= b)
  <2>1. f \notin C /\ \A c \in t .. f - 1 : c \in C
    BY <1>4 DEF EndsAt
  <2>2. t < b => f <= b
    <3> SUFFICES ASSUME t < b, f > b PROVE FALSE
      BY <1>1, <1>3
    <3>1. b \in t .. f - 1
      BY <1>1, <1>3
    <3> QED BY <1>1, <2>1, <3>1
  <2>3. ASSUME f # b PROVE f \notin J
    <3>1. CASE t < b
      BY <1>1, <1>2, <2>1, <2>2, <2>3, <3>1
    <3>2. CASE t > b + units
      BY <1>1, <1>2, <1>3, <1>4, <2>1, <3>2
    <3> QED BY <1>3, <3>1, <3>2
  <2> QED BY <2>1, <2>2, <2>3 DEF EndsAt
<1>5. \A x : x \in Starts(J) <=> \/ x \in Starts(C) /\ x # b + units
                                 \/ x = b /\ b - 1 \notin C
  BY StartsOfJoin
<1>6. ASSUME NEW k, NextIs(C, t, k), t < b => k < b PROVE NextIs(J, t, k)
  <2>1. k > t /\ (k = PageUnits \/ k \in Starts(C)) /\ \A x \in Starts(C) : x > t => k <= x
    BY <1>6 DEF NextIs
  <2>2. k \in Nat
    BY <1>1, <2>1 DEF Starts
  <2>3. k # b + units \/ k = PageUnits
    BY <1>1, <1>3, <1>6, <2>1, <2>2
  <2>4. k = PageUnits \/ k \in Starts(J)
    BY <1>5, <2>1, <2>3
  <2>5. \A x \in Starts(J) : x > t => k <= x
    BY <1>1, <1>3, <1>5, <1>6, <2>1, <2>2
  <2> QED BY <2>1, <2>4, <2>5 DEF NextIs
<1> QED BY <1>3, <1>4, <1>6

\* The block that begins at b, which is joined to the one behind it if that
\* touches it.
LEMMA JoinedTail ==
  ASSUME NEW pg, NEW C, Account(pg, C), NEW b, NEW units, Back(C, b, units),
         NEW next, NextIs(C, b, next)
  PROVE  LET J == C \cup Interval(b, units)
             joins == next # PageUnits /\ b + units = next
             size == IF joins THEN units + SlobUnits(pg.mem, next) ELSE units
             behind == IF joins THEN SlobNext(pg.mem, next) ELSE next
         IN /\ Writable(pg.mem, b, size, behind)
            /\ EndsAt(J, b, b + size)
            /\ NextIs(J, b, behind)
            /\ \A t \in Starts(C) : t # b + units =>
                 \A c \in t .. t + SlobUnits(pg.mem, t) - 1 : c \in Cells \ (b .. b + size - 1)
<1> DEFINE J == C \cup Interval(b, units)
           joins == next # PageUnits /\ b + units = next
           size == IF joins THEN units + SlobUnits(pg.mem, next) ELSE units
           behind == IF joins THEN SlobNext(pg.mem, next) ELSE next
<1> SUFFICES /\ Writable(pg.mem, b, size, behind)
             /\ EndsAt(J, b, b + size)
             /\ NextIs(J, b, behind)
             /\ \A t \in Starts(C) : t # b + units =>
                  \A c \in t .. t + SlobUnits(pg.mem, t) - 1 : c \in Cells \ (b .. b + size - 1)
  OBVIOUS
<1>1. /\ C \in SUBSET Cells /\ b \in Nat /\ units \in Nat \ {0} /\ b + units <= PageUnits
      /\ \A c \in C : c \in Nat /\ c < PageUnits /\ ~ (c >= b /\ c <= b + units - 1)
      /\ PageUnits \in Nat /\ pg.mem \in Memory
  BY Units DEF Back, Interval, Account, PageType, Memory
<1>2. \A c : c \in J <=> c \in C \/ (c \in Int /\ c >= b /\ c <= b + units - 1)
  BY <1>1 DEF Interval
<1>3. next > b /\ (next = PageUnits \/ next \in Starts(C)) /\ \A x \in Starts(C) : x > b => next <= x
  BY DEF NextIs
<1>4. next \in Nat /\ next >= b + units /\ next <= PageUnits
  BY <1>1, <1>3 DEF Starts
<1>5. ASSUME NEW t \in Starts(C)
      PROVE  /\ SlobUnits(pg.mem, t) \in Nat \ {0} /\ t + SlobUnits(pg.mem, t) <= PageUnits
             /\ SlobNext(pg.mem, t) \in 1 .. PageUnits
             /\ EndsAt(C, t, t + SlobUnits(pg.mem, t)) /\ NextIs(C, t, SlobNext(pg.mem, t))
             /\ t \in Nat /\ t \in C
  BY <1>1, PieceIs DEF Header, Starts
<1>6. \A x : x \in Starts(J) <=> \/ x \in Starts(C) /\ x # b + units
                                 \/ x = b /\ b - 1 \notin C
  BY StartsOfJoin
<1>7. CASE joins
  <2> DEFINE v == SlobUnits(pg.mem, next)
             k == SlobNext(pg.mem, next)
  <2>1. next \in Starts(C) /\ next = b + units
    BY <1>3, <1>7
  <2>2. /\ v \in Nat \ {0} /\ next + v <= PageUnits /\ k \in 1 .. PageUnits
        /\ EndsAt(C, next, next + v) /\ NextIs(C, next, k)
    BY <1>5, <2>1
  <2>3. size = units + v /\ behind = k
    BY <1>7
  <2> HIDE DEF v, k, size, behind
  <2>4. b \in Cells /\ size \in Nat \ {0} /\ b + size = next + v /\ b + size <= PageUnits
    BY <1>1, <2>1, <2>2, <2>3, Units
  <2>5. Writable(pg.mem, b, size, behind)
    BY <1>1, <2>2, <2>3, <2>4 DEF Writable
  <2>6. EndsAt(J, b, b + size)
    <3>1. next + v \notin C /\ \A c \in next .. next + v - 1 : c \in C
      BY <1>1, <2>1, <2>2 DEF EndsAt
    <3>2. b + size \notin J
      BY <1>1, <1>2, <2>1, <2>2, <2>4, <3>1
    <3>3. \A c \in b .. (b + size) - 1 : c \in J
      BY <1>1, <1>2, <2>1, <2>2, <2>4, <3>1
    <3> QED BY <3>2, <3>3 DEF EndsAt
  <2>7. k > next /\ (k = PageUnits \/ k \in Starts(C)) /\ \A x \in Starts(C) : x > next => k <= x
    BY <2>2 DEF NextIs
  <2>8. NextIs(J, b, behind)
    <3>1. behind = PageUnits \/ behind \in Starts(J)
      BY <1>1, <1>4, <1>6, <2>1, <2>2, <2>3, <2>7
    <3>2. behind > b
      BY <1>1, <2>1, <2>2, <2>3, <2>7
    <3>3. ASSUME NEW x \in Starts(J), x > b PROVE behind <= x
      <4>3. x # b
        BY <1>1, <3>3
      <4>1. x \in Starts(C) /\ x # next
        BY <1>6, <2>1, <4>3
      <4>2. next <= x /\ x \in Nat
        BY <1>3, <1>5, <3>3, <4>1
      <4> QED BY <1>4, <2>3, <2>7, <4>1, <4>2
    <3> QED BY <3>1, <3>2, <3>3 DEF NextIs
  <2>9. ASSUME NEW t \in Starts(C), t # b + units
        PROVE  \A c \in t .. t + SlobUnits(pg.mem, t) - 1 : c \in Cells \ (b .. b + size - 1)
    <3> DEFINE w == SlobUnits(pg.mem, t)
               f == t + w
               g == next + v
    <3>1. w \in Nat \ {0} /\ f <= PageUnits /\ EndsAt(C, t, f) /\ t \in Nat /\ f = t + w /\ f > t
      BY <1>5
    <3>2. g \in Nat /\ EndsAt(C, next, g) /\ f \in Nat /\ g = b + size
      BY <1>4, <2>2, <2>4, <3>1
    <3> HIDE DEF w, f, g
    <3>3. t < b => f <= b
      BY <2>9, <3>1, <3>2, OtherAfterBack
    <3>4. t < b \/ t > b + units
      BY <2>9, OtherAfterBack
    <3>5. t > b + units => g < t
      BY <1>1, <2>1, <3>2, PiecesDisjoint
    <3>6. \A c \in t .. t + w - 1 : c \in Cells /\ ~ (c >= b /\ c <= b + size - 1)
      BY <1>1, <2>4, <3>1, <3>2, <3>3, <3>4, <3>5, Units
    <3>7. \A c \in t .. t + w - 1 : c \in Cells \ (b .. b + size - 1)
      BY <1>1, <2>4, <3>6
    <3> QED BY <3>7 DEF w
  <2> QED BY <2>5, <2>6, <2>8, <2>9
<1>8. CASE ~ joins
  <2>1. size = units /\ behind = next
    BY <1>8
  <2>2. next # b + units \/ next = PageUnits
    BY <1>8
  <2> HIDE DEF size, behind, joins
  <2>3. Writable(pg.mem, b, size, behind)
    BY <1>1, <1>3, <1>4, <2>1, Units DEF Writable
  <2>4. EndsAt(J, b, b + size)
    <3>1. b + units \notin C
      <4> SUFFICES ASSUME b + units \in C PROVE FALSE
        OBVIOUS
      <4>1. (b + units) - 1 \notin C
        BY <1>1
      <4>2. b + units \in Starts(C) /\ b + units > b /\ b + units < PageUnits
        BY <1>1, <4>1 DEF Starts
      <4>3. next <= b + units
        BY <1>3, <4>2
      <4> QED BY <1>1, <1>4, <2>2, <4>2, <4>3
    <3>2. b + units \notin J
      BY <1>1, <1>2, <3>1
    <3>3. \A c \in b .. (b + units) - 1 : c \in J
      BY <1>1, <1>2
    <3> QED BY <2>1, <3>2, <3>3 DEF EndsAt
  <2>5. NextIs(J, b, behind)
    <3>1. behind = PageUnits \/ behind \in Starts(J)
      BY <1>3, <1>6, <2>1, <2>2
    <3>2. \A x \in Starts(J) : x > b => behind <= x
      BY <1>1, <1>3, <1>6, <2>1
    <3> QED BY <1>3, <2>1, <3>1, <3>2 DEF NextIs
  <2>6. ASSUME NEW t \in Starts(C), t # b + units
        PROVE  \A c \in t .. t + SlobUnits(pg.mem, t) - 1 : c \in Cells \ (b .. b + size - 1)
    <3> DEFINE w == SlobUnits(pg.mem, t)
               f == t + w
    <3>1. w \in Nat \ {0} /\ f <= PageUnits /\ EndsAt(C, t, f) /\ t \in Nat /\ f = t + w /\ f > t
      BY <1>5
    <3>2. f \in Nat
      BY <3>1
    <3> HIDE DEF w, f
    <3>3. t < b => f <= b
      BY <2>6, <3>1, <3>2, OtherAfterBack
    <3>4. t < b \/ t > b + units
      BY <2>6, OtherAfterBack
    <3>5. \A c \in t .. t + w - 1 : c \in Cells /\ ~ (c >= b /\ c <= b + size - 1)
      BY <1>1, <2>1, <3>1, <3>2, <3>3, <3>4, Units
    <3>6. \A c \in t .. t + w - 1 : c \in Cells \ (b .. b + size - 1)
      BY <1>1, <2>1, <3>5
    <3> QED BY <3>6 DEF w
  <2> QED BY <2>3, <2>4, <2>5, <2>6
<1> QED BY <1>7, <1>8

\* A page as slob_alloc sets it up, and one whose first block is freed.
LEMMA OnlyPiece ==
  ASSUME NEW pg \in PageType, NEW b, NEW units, Writable(pg.mem, b, units, PageUnits),
         NEW C, C = Interval(b, units)
  PROVE  Account([mem |-> SetSlob(pg.mem, b, units, PageUnits), freelist |-> b, units |-> units], C)
<1> DEFINE m == SetSlob(pg.mem, b, units, PageUnits)
           P == [mem |-> m, freelist |-> b, units |-> units]
<1>1. /\ b \in Nat /\ b \in Cells /\ units \in Nat \ {0} /\ b + units <= PageUnits /\ PageUnits \in Nat
      /\ PageUnits > 1
  BY Units DEF Writable
<1>2. m \in Memory /\ Header(m, b, units, PageUnits)
  BY SetSlobIs
<1>3. C \in SUBSET Cells /\ Cardinality(C) = units
  <2>1. C \in SUBSET Cells
    BY <1>1, Units DEF Interval
  <2> QED BY <1>1, <2>1, FS_Interval DEF Interval
<1>4. \A t : t \in Starts(C) <=> t = b
  BY <1>1 DEF Starts, Interval
<1>5. EndsAt(C, b, b + units)
  BY <1>1 DEF EndsAt, Interval
<1>6. NextIs(C, b, PageUnits)
  BY <1>1, <1>4, Units DEF NextIs
<1> HIDE DEF m
<1>7. Describes(m, C)
  BY <1>2, <1>4, <1>5, <1>6 DEF Describes
<1>8. P \in PageType
  BY <1>1, <1>2 DEF PageType, Memory
<1>9. P.mem = m /\ P.freelist = b /\ P.units = units
  OBVIOUS
<1> HIDE DEF P
<1>10. Account(P, C)
  BY <1>1, <1>3, <1>4, <1>7, <1>8, <1>9 DEF Account
<1> QED BY <1>10 DEF P, m

LEMMA FirstFreedIs ==
  ASSUME NEW pg \in PageType, NEW b \in Nat, NEW units \in Nat \ {0}, b + units <= PageUnits
  PROVE  Account(FirstFreed(pg, b, units), Interval(b, units))
<1>1. Writable(pg.mem, b, units, PageUnits)
  BY Units DEF Writable, PageType, Memory
<1> QED BY <1>1, OnlyPiece DEF FirstFreed

LEMMA FreshIs == Account(FreshPage, Cells)
<1> DEFINE pg == [mem |-> [c \in Cells |-> Used], freelist |-> 0, units |-> 0]
<1>1. pg \in PageType
  BY Units DEF PageType, Used
<1>2. Writable(pg.mem, 0, PageUnits, PageUnits)
  BY <1>1, Units DEF Writable, PageType, Memory
<1>3. Cells = Interval(0, PageUnits)
  BY Units DEF Cells, Interval
<1>4. pg.mem = [c \in Cells |-> Used]
  OBVIOUS
<1> HIDE DEF pg
<1>5. Account([mem |-> SetSlob(pg.mem, 0, PageUnits, PageUnits), freelist |-> 0, units |-> PageUnits], Cells)
  BY <1>1, <1>2, <1>3, OnlyPiece
<1> QED BY <1>4, <1>5 DEF FreshPage

LEMMA BeforeAllIs ==
  ASSUME NEW pg, NEW C, Account(pg, C), NEW b, NEW units, Back(C, b, units), b < pg.freelist
  PROVE  Account(BeforeAll(pg, b, units), C \cup Interval(b, units))
<1> DEFINE J == C \cup Interval(b, units)
           first == pg.freelist
           joins == first # PageUnits /\ b + units = first
           size == IF joins THEN units + SlobUnits(pg.mem, first) ELSE units
           behind == IF joins THEN SlobNext(pg.mem, first) ELSE first
           m == SetSlob(pg.mem, b, size, behind)
           P == [mem |-> m, freelist |-> b, units |-> pg.units + units]
<1>1. /\ C \in SUBSET Cells /\ b \in Nat /\ units \in Nat \ {0} /\ b + units <= PageUnits
      /\ first \in Starts(C) /\ \A t \in Starts(C) : first <= t
      /\ \A t \in Starts(C) : t \in Nat /\ t < PageUnits /\ t # PageUnits
      /\ PageUnits \in Nat /\ pg \in PageType
  BY Units DEF Back, Account, Starts
<1>2. NextIs(C, b, first)
  BY <1>1 DEF NextIs
<1>3. b - 1 \notin C
  <2> SUFFICES ASSUME b - 1 \in C PROVE FALSE
    OBVIOUS
  <2>1. PICK s \in Starts(C) : s <= b - 1
    BY <1>1, StartBelow
  <2> QED BY <1>1, <2>1
<1>4. BeforeAll(pg, b, units) = P
  BY <1>1 DEF BeforeAll
<1>5. /\ Writable(pg.mem, b, size, behind)
      /\ EndsAt(J, b, b + size)
      /\ NextIs(J, b, behind)
      /\ \A t \in Starts(C) : t # b + units =>
           \A c \in t .. t + SlobUnits(pg.mem, t) - 1 : c \in Cells \ (b .. b + size - 1)
  BY <1>2, JoinedTail
<1> HIDE DEF size, behind
<1>6. /\ m \in Memory /\ Header(m, b, size, behind)
      /\ \A c \in Cells \ (b .. b + size - 1) : m[c] = pg.mem[c]
  BY <1>5, SetSlobIs
<1> HIDE DEF m
<1>7. \A t : t \in Starts(J) <=> \/ t \in Starts(C) /\ t # b + units
                                 \/ t = b
  BY <1>3, StartsOfJoin
<1>8. Describes(m, J)
  <2> SUFFICES ASSUME NEW t \in Starts(J)
               PROVE  \E v, k : Header(m, t, v, k) /\ EndsAt(J, t, t + v) /\ NextIs(J, t, k)
    BY DEF Describes
  <2>1. CASE t = b
    BY <1>5, <1>6, <2>1
  <2>2. CASE t \in Starts(C) /\ t # b + units
    <3> DEFINE v == SlobUnits(pg.mem, t)
               k == SlobNext(pg.mem, t)
               f == t + v
    <3>1. Header(pg.mem, t, v, k) /\ EndsAt(C, t, f) /\ NextIs(C, t, k)
      BY <2>2, PieceIs
    <3>2. f \in Nat /\ f > t /\ f # b /\ ~ (t < b)
      BY <1>1, <2>2, <3>1 DEF Header
    <3>3. Header(m, t, v, k)
      BY <1>5, <1>6, <2>2, <3>1, HeaderKept
    <3>4. f = t + v
      OBVIOUS
    <3> HIDE DEF v, k, f
    <3>5. EndsAt(J, t, f) /\ NextIs(J, t, k)
      BY <2>2, <3>1, <3>2, OtherAfterBack
    <3> QED BY <3>3, <3>4, <3>5
  <2> QED BY <1>7, <2>1, <2>2
<1>9. b \in Starts(J) /\ \A t \in Starts(J) : b <= t
  <2> HIDE DEF J
  <2>1. first \in Nat /\ b <= b
    BY <1>1
  <2>2. \A t \in Starts(C) : b <= t
    BY <1>1, <2>1
  <2> QED BY <1>7, <2>1, <2>2
<1>10. J \in SUBSET Cells /\ Cardinality(J) = Cardinality(C) + units /\ Cardinality(J) \in 0 .. PageUnits
  BY BackCells, CellsFinite
<1>11. pg.units + units = Cardinality(J)
  BY <1>10 DEF Account
<1>12. P \in PageType
  BY <1>1, <1>6, <1>10, <1>11 DEF PageType, Memory
<1>13. P.mem = m /\ P.freelist = b /\ P.units = Cardinality(J)
  BY <1>11
<1> HIDE DEF P, J
<1>14. Account(P, J)
  BY <1>8, <1>9, <1>10, <1>12, <1>13 DEF Account
<1> QED BY <1>4, <1>14 DEF J

LEMMA BetweenIs ==
  ASSUME NEW pg, NEW C, Account(pg, C), NEW b, NEW units, Back(C, b, units), ~ (b < pg.freelist)
  PROVE  Account(Between(pg, b, units), C \cup Interval(b, units))
<1> DEFINE J == C \cup Interval(b, units)
           prev == Max({s \in FreeBlocks(pg) : s < b})
           pu == SlobUnits(pg.mem, prev)
           next == SlobNext(pg.mem, prev)
           joins == next # PageUnits /\ b + units = next
           size == IF joins THEN units + SlobUnits(pg.mem, next) ELSE units
           behind == IF joins THEN SlobNext(pg.mem, next) ELSE next
           after == SetSlob(pg.mem, b, size, behind)
           touches == prev + pu = b
           m == IF touches THEN SetSlob(after, prev, size + pu, behind)
                ELSE SetSlob(after, prev, pu, b)
           P == [pg EXCEPT !.units = @ + units, !.mem = m]
<1>1. /\ C \in SUBSET Cells /\ b \in Nat /\ units \in Nat \ {0} /\ b + units <= PageUnits
      /\ pg.freelist \in Starts(C) /\ \A t \in Starts(C) : pg.freelist <= t
      /\ \A t \in Starts(C) : t \in Nat /\ t \in Cells /\ t < PageUnits /\ t # PageUnits /\ t # b
      /\ PageUnits \in Nat /\ pg \in PageType /\ b \notin C /\ b \in Cells /\ b \in 1 .. PageUnits
  <2>1. /\ C \in SUBSET Cells /\ b \in Nat /\ units \in Nat \ {0} /\ b + units <= PageUnits
        /\ b \in Interval(b, units) /\ pg.freelist \in Starts(C) /\ pg \in PageType
        /\ \A t \in Starts(C) : pg.freelist <= t
    BY DEF Back, Account, Interval
  <2>2. b \notin C
    BY <2>1 DEF Back
  <2>3. pg.freelist \in Nat /\ b # pg.freelist
    BY <2>1, <2>2, Units DEF Starts
  <2> QED BY <2>1, <2>2, <2>3, Units DEF Starts
<1>2. prev \in Starts(C) /\ prev < b /\ \A t \in Starts(C) : t < b => t <= prev
  <2>1. prev = Max({s \in Starts(C) : s < b})
    BY FreeBlocksAre
  <2>2. pg.freelist < b
    BY <1>1
  <2> HIDE DEF prev
  <2> QED BY <1>1, <2>1, <2>2, PredecessorIs
<1> HIDE DEF prev
<1>3. /\ Header(pg.mem, prev, pu, next) /\ EndsAt(C, prev, prev + pu) /\ NextIs(C, prev, next)
      /\ SlobLast(pg.mem, prev) <=> next = PageUnits
  BY <1>2, PieceIs
<1>4. /\ prev \in Nat /\ prev \in Cells /\ pu \in Nat \ {0} /\ prev + pu <= PageUnits /\ next \in 1 .. PageUnits
  BY <1>1, <1>2, <1>3 DEF Header
<1>5. prev # b + units /\ prev + pu <= b
  <2> DEFINE f == prev + pu
  <2>1. prev # b + units /\ f \in Nat /\ f > prev /\ EndsAt(C, prev, f)
    BY <1>1, <1>2, <1>3, <1>4
  <2> HIDE DEF f
  <2>2. f <= b
    BY <1>2, <2>1, OtherAfterBack
  <2> QED BY <2>1, <2>2 DEF f
<1>6. /\ next > prev /\ (next = PageUnits \/ next \in Starts(C))
      /\ \A x \in Starts(C) : x > prev => next <= x
  BY <1>3 DEF NextIs
<1>7. NextIs(C, b, next)
  <2>1. next > b
    BY <1>1, <1>2, <1>4, <1>6
  <2>2. \A x \in Starts(C) : x > b => next <= x
    BY <1>1, <1>2, <1>4, <1>6
  <2> QED BY <1>6, <2>1, <2>2 DEF NextIs
<1> HIDE DEF next, pu
<1>8. /\ Writable(pg.mem, b, size, behind)
      /\ EndsAt(J, b, b + size)
      /\ NextIs(J, b, behind)
      /\ \A t \in Starts(C) : t # b + units =>
           \A c \in t .. t + SlobUnits(pg.mem, t) - 1 : c \in Cells \ (b .. b + size - 1)
  BY <1>7, JoinedTail
<1>9. size \in Nat \ {0} /\ b + size <= PageUnits /\ behind \in 1 .. PageUnits
  BY <1>8 DEF Writable
<1>10. joins <=> ~ SlobLast(pg.mem, prev) /\ b + units = next
  BY <1>3
<1>11. after = IF ~ SlobLast(pg.mem, prev) /\ b + units = next
               THEN SetSlob(pg.mem, b, units + SlobUnits(pg.mem, next), SlobNext(pg.mem, next))
               ELSE SetSlob(pg.mem, b, units, next)
  BY <1>10, Zenon
<1> HIDE DEF size, behind, joins
<1>12. /\ after \in Memory /\ Header(after, b, size, behind)
       /\ \A c \in Cells \ (b .. b + size - 1) : after[c] = pg.mem[c]
  BY <1>8, SetSlobIs
<1> HIDE DEF after
<1>13. Header(after, prev, pu, next)
  <2>1. \A c \in prev .. prev + pu - 1 : after[c] = pg.mem[c]
    BY <1>2, <1>5, <1>8, <1>12 DEF pu
  <2> QED BY <1>3, <2>1, HeaderKept
<1>14. SlobUnits(after, prev) = pu /\ SlobUnits(after, b) = size /\ SlobNext(after, b) = behind
  BY <1>12, <1>13, HeaderRead
<1>15. Between(pg, b, units) = P
  BY <1>11, <1>14, Zenon DEF Between, prev, pu, next
<1>16. /\ m \in Memory
       /\ Header(m, prev, IF touches THEN size + pu ELSE pu, IF touches THEN behind ELSE b)
       /\ ~ touches => Header(m, b, size, behind)
       /\ \A t \in Starts(C) : t # prev /\ t # b + units =>
            Header(m, t, SlobUnits(pg.mem, t), SlobNext(pg.mem, t))
  <2> DEFINE r == IF touches THEN size + pu ELSE pu
             k == IF touches THEN behind ELSE b
  <2>1. Writable(after, prev, r, k)
    BY <1>1, <1>4, <1>9, <1>12 DEF Writable
  <2>2. m = SetSlob(after, prev, r, k)
    OBVIOUS
  <2>3. /\ r \in Nat \ {0}
        /\ touches => prev + r = b + size
        /\ ~ touches => prev + r < b
    BY <1>1, <1>4, <1>5, <1>9
  <2> HIDE DEF m, r, k, touches
  <2>4. /\ m \in Memory /\ Header(m, prev, r, k)
        /\ \A c \in Cells \ (prev .. prev + r - 1) : m[c] = after[c]
    BY <2>1, <2>2, SetSlobIs
  <2>5. ~ touches => Header(m, b, size, behind)
    <3> SUFFICES ASSUME ~ touches PROVE Header(m, b, size, behind)
      OBVIOUS
    <3>1. \A c \in b .. b + size - 1 : c \in Cells \ (prev .. prev + r - 1)
      <4>1. prev + r < b
        BY <2>3
      <4> QED BY <1>1, <1>4, <1>9, <2>3, <4>1, Units
    <3> QED BY <1>12, <2>4, <3>1, HeaderKept
  <2>6. ASSUME NEW t \in Starts(C), t # prev, t # b + units
        PROVE  Header(m, t, SlobUnits(pg.mem, t), SlobNext(pg.mem, t))
    <3> DEFINE w == SlobUnits(pg.mem, t)
               f == t + w
               g == prev + pu
    <3>1. /\ Header(pg.mem, t, w, SlobNext(pg.mem, t)) /\ EndsAt(C, t, f)
          /\ w \in Nat \ {0} /\ f \in Nat /\ f <= PageUnits /\ t \in Nat /\ f = t + w
          /\ g \in Nat /\ EndsAt(C, prev, g) /\ g <= b /\ g = prev + pu
      BY <1>1, <1>3, <1>4, <1>5, PieceIs DEF Header
    <3>2. \A c \in t .. t + w - 1 : c \in Cells \ (b .. b + size - 1)
      BY <1>8, <2>6
    <3> HIDE DEF w, f, g
    <3>3. t < prev => f < prev
      BY <1>1, <1>2, <3>1, PiecesDisjoint
    <3>4. t < b \/ t > b + units
      BY <2>6, OtherAfterBack
    <3>5. t < b => t < prev
      BY <1>1, <1>2, <1>4, <2>6, <3>1
    <3>6. ASSUME NEW c \in t .. t + w - 1 PROVE c \in Cells /\ c \notin prev .. prev + r - 1
      <4>1. c \in Cells /\ c \in Nat /\ c >= t /\ c < f /\ (c < b \/ c > b + size - 1)
        BY <1>1, <1>9, <3>1, <3>2, Units
      <4>2. CASE t < prev
        BY <1>4, <3>1, <3>3, <4>1, <4>2
      <4>3. CASE t > b + units
        <5>1. c > b + size - 1
          BY <1>1, <3>1, <4>1, <4>3
        <5>2. prev + r <= b + size
          BY <1>1, <1>4, <1>9, <2>3
        <5> QED BY <1>1, <1>4, <1>9, <2>3, <4>1, <5>1, <5>2
      <4> QED BY <3>4, <3>5, <4>2, <4>3
    <3>7. \A c \in t .. t + w - 1 : m[c] = pg.mem[c]
      BY <1>12, <2>4, <3>2, <3>6
    <3> QED BY <3>1, <3>7, HeaderKept DEF w
  <2> QED BY <2>4, <2>5, <2>6 DEF r, k
<1> HIDE DEF m
<1>17. touches <=> b - 1 \in C
  <2>1. ASSUME touches PROVE b - 1 \in C
    <3>1. b - 1 \in prev .. (prev + pu) - 1
      BY <1>1, <1>2, <1>4, <2>1
    <3> QED BY <1>3, <3>1 DEF EndsAt
  <2>2. ASSUME b - 1 \in C PROVE touches
    <3>1. PICK s \in Starts(C) : s <= b - 1 /\ \A i \in s .. b - 1 : i \in C
      BY <1>1, <2>2, StartBelow
    <3>2. s <= prev
      BY <1>1, <1>2, <3>1
    <3>3. prev + pu \notin C
      BY <1>3 DEF EndsAt
    <3>4. ~ (prev + pu \in s .. b - 1)
      BY <3>1, <3>3
    <3> QED BY <1>1, <1>4, <1>5, <3>1, <3>2, <3>4
  <2> QED BY <2>1, <2>2
<1>18. \A t : t \in Starts(J) <=> \/ t \in Starts(C) /\ t # b + units
                                  \/ t = b /\ ~ touches
  BY <1>17, StartsOfJoin
<1> DEFINE bend == b + size
<1>19. bend \in Nat /\ bend > b /\ EndsAt(J, b, bend) /\ bend = b + size
  BY <1>1, <1>8, <1>9
<1> HIDE DEF bend
<1>20. Describes(m, J)
  <2> SUFFICES ASSUME NEW t \in Starts(J)
               PROVE  \E v, k : Header(m, t, v, k) /\ EndsAt(J, t, t + v) /\ NextIs(J, t, k)
    BY DEF Describes
  <2>1. CASE t = b /\ ~ touches
    BY <1>8, <1>16, <2>1
  <2>2. CASE t = prev /\ touches
    <3>1. Header(m, prev, size + pu, behind)
      BY <1>16, <2>2
    <3>2. prev + (size + pu) = bend
      BY <1>4, <1>9, <1>19, <2>2
    <3>3. EndsAt(J, prev, bend)
      <4>1. bend \notin J /\ \A c \in b .. bend - 1 : c \in J
        BY <1>19 DEF EndsAt
      <4>2. \A c \in prev .. (prev + pu) - 1 : c \in C
        BY <1>3 DEF EndsAt
      <4>3. \A c \in prev .. bend - 1 : c \in prev .. (prev + pu) - 1 \/ c \in b .. bend - 1
        BY <1>1, <1>4, <1>19, <2>2
      <4> QED BY <4>1, <4>2, <4>3 DEF EndsAt
    <3>4. NextIs(J, prev, behind)
      <4>1. behind > b /\ (behind = PageUnits \/ behind \in Starts(J))
            /\ \A x \in Starts(J) : x > b => behind <= x
        BY <1>8 DEF NextIs
      <4>2. ASSUME NEW x \in Starts(J), x > prev PROVE x > b
        <5>1. x \in Starts(C) /\ x \in Nat /\ x # b
          BY <1>1, <1>18, <2>2
        <5> QED BY <1>1, <1>2, <1>4, <4>2, <5>1
      <4>3. behind > prev
        BY <1>1, <1>2, <1>4, <1>9, <4>1
      <4> QED BY <4>1, <4>2, <4>3 DEF NextIs
    <3> QED BY <2>2, <3>1, <3>2, <3>3, <3>4
  <2>3. CASE t = prev /\ ~ touches
    <3> DEFINE f == prev + pu
    <3>1. Header(m, prev, pu, b)
      BY <1>16, <2>3
    <3>2. f \in Nat /\ f > prev /\ f # b /\ EndsAt(C, prev, f) /\ f = prev + pu
      BY <1>3, <1>4, <2>3
    <3> HIDE DEF f
    <3>3. EndsAt(J, prev, f)
      BY <1>2, <1>5, <3>2, OtherAfterBack
    <3>4. NextIs(J, prev, b)
      <4>1. b \in Starts(J)
        BY <1>18, <2>3
      <4>2. ASSUME NEW x \in Starts(J), x > prev PROVE b <= x
        BY <1>1, <1>2, <1>4, <1>18, <4>2
      <4> QED BY <1>2, <4>1, <4>2 DEF NextIs
    <3> QED BY <2>3, <3>1, <3>2, <3>3, <3>4
  <2>4. CASE t \in Starts(C) /\ t # b + units /\ t # prev
    <3> DEFINE v == SlobUnits(pg.mem, t)
               k == SlobNext(pg.mem, t)
               f == t + v
    <3>1. Header(pg.mem, t, v, k) /\ EndsAt(C, t, f) /\ NextIs(C, t, k)
      BY <2>4, PieceIs
    <3>2. f \in Nat /\ f > t /\ v \in Nat \ {0} /\ t \in Nat
      BY <1>1, <2>4, <3>1 DEF Header
    <3>3. Header(m, t, v, k)
      BY <1>16, <2>4
    <3>4. f = t + v
      OBVIOUS
    <3> HIDE DEF v, k, f
    <3>5. t < b => t < prev
      BY <1>1, <1>2, <1>4, <2>4
    <3>6. t < prev => f < prev
      BY <1>1, <1>2, <2>4, <3>1, <3>2, PiecesDisjoint
    <3>7. f # b
      <4>1. t > b \/ t < prev
        BY <1>1, <2>4, <3>5
      <4> QED BY <1>1, <1>2, <1>4, <3>2, <3>6, <4>1
    <3>8. t < b => k < b
      <4>1. t < prev => k <= prev
        BY <1>2, <3>1 DEF NextIs
      <4>2. k = PageUnits \/ k \in Starts(C)
        BY <3>1 DEF NextIs
      <4>3. k \in Nat
        BY <1>1, <4>2
      <4> QED BY <1>1, <1>2, <1>4, <3>5, <4>1, <4>3
    <3>9. EndsAt(J, t, f) /\ NextIs(J, t, k)
      BY <2>4, <3>1, <3>2, <3>7, <3>8, OtherAfterBack
    <3> QED BY <3>3, <3>4, <3>9
  <2> QED BY <1>18, <2>1, <2>2, <2>3, <2>4
<1>21. pg.freelist \in Starts(J) /\ \A t \in Starts(J) : pg.freelist <= t
  <2> HIDE DEF J
  <2>1. pg.freelist \in Nat /\ pg.freelist <= b /\ pg.freelist # b + units
    BY <1>1
  <2> QED BY <1>1, <1>18, <2>1
<1>22. J \in SUBSET Cells /\ Cardinality(J) = Cardinality(C) + units /\ Cardinality(J) \in 0 .. PageUnits
  BY BackCells, CellsFinite
<1>23. pg.units + units = Cardinality(J)
  BY <1>22 DEF Account
<1>24. P.mem = m /\ P.freelist = pg.freelist /\ P.units = Cardinality(J) /\ P \in PageType
  BY <1>1, <1>16, <1>22, <1>23 DEF PageType, Memory
<1> HIDE DEF P, J
<1>25. Account(P, J)
  BY <1>20, <1>21, <1>22, <1>24 DEF Account
<1> QED BY <1>15, <1>25 DEF J

LEMMA ReinsertIs ==
  ASSUME NEW pg, NEW C, Account(pg, C), NEW b, NEW units, Back(C, b, units)
  PROVE  Account(Reinsert(pg, b, units), C \cup Interval(b, units))
BY BeforeAllIs, BetweenIs, ForgetKeeps DEF Reinsert
-----------------------------------------------------------------------------
(* What is asked for                                                       *)

LEMMA MaxOfTwo ==
  ASSUME NEW a \in Nat, NEW b \in Nat
  PROVE  Max({a, b}) = IF a >= b THEN a ELSE b
<1>1. \E x \in {a, b} : \A y \in {a, b} : x >= y
  OBVIOUS
<1>2. Max({a, b}) \in {a, b} /\ \A y \in {a, b} : Max({a, b}) >= y
  BY <1>1 DEF Max
<1> QED BY <1>2

LEMMA AlignUpWithin ==
  ASSUME NEW x \in Nat, NEW a \in Nat \ {0}, x <= a
  PROVE  AlignUp(x, a) = IF x = 0 THEN 0 ELSE a
<1>1. CASE x = 0
  <2>1. (x + a - 1) \div a = 0
    BY <1>1
  <2> QED BY <1>1, <2>1 DEF AlignUp
<1>2. CASE x # 0
  <2>1. (x + a - 1) \div a = 1
    <3>1. x + a - 1 \in Nat /\ x + a - 1 >= a /\ x + a - 1 < a + a
      BY <1>2
    <3> QED BY <3>1
  <2> QED BY <1>2, <2>1 DEF AlignUp
<1> QED BY <1>1, <1>2

\* Every request can be met by a page that nobody uses.
LEMMA RequestIs ==
  ASSUME NEW r \in Requests
  PROVE  /\ r.units \in Nat \ {0} /\ r.units <= PageUnits
         /\ r.align \in Nat \ {0} /\ r.offset \in Nat /\ r.cache \in BOOLEAN
         /\ r # NoRequest
         /\ Whole(r) => r.offset % r.align = 0
         /\ ~ Whole(r) => Delta(0, r.align, r.offset) + r.units <= PageUnits
<1> USE SlobAssumption, Units DEF Whole
<1>0. \A a \in Nat \ {0} : 0 % a = 0
  OBVIOUS
<1>1. CASE \E cache \in BOOLEAN : r = WholePage(cache)
  <2>1. PICK cache \in BOOLEAN : r = WholePage(cache)
    BY <1>1
  <2>2. r.units = PageUnits /\ r.align = PageUnits /\ r.offset = 0 /\ r.cache = cache
    BY <2>1 DEF WholePage
  <2>3. r # NoRequest
    BY <2>2 DEF NoRequest
  <2> QED BY <1>0, <2>2, <2>3
<1>2. ASSUME NEW size \in KmallocSizes, r = KmallocRequest(size), ~ (size >= PageUnits - MinAlign)
      PROVE  /\ r.units = size + MinAlign /\ r.offset = MinAlign /\ r.cache = FALSE
             /\ r.align \in Nat \ {0} /\ size \in Nat \ {0} /\ r # NoRequest
             /\ size + MinAlign < PageUnits /\ MinAlign <= r.align
             /\ Delta(0, r.align, r.offset) + r.units <= PageUnits
  <2> DEFINE a == IF IsPowerOfTwo(size) THEN Max({MinAlign, size}) ELSE MinAlign
  <2>1. r = [units |-> size + MinAlign, offset |-> MinAlign, cache |-> FALSE, align |-> a]
    BY <1>2 DEF KmallocRequest
  <2>2. size \in Nat \ {0} /\ MinAlign \in Nat \ {0} /\ size + MinAlign < PageUnits
    BY <1>2
  <2>3. a \in Nat \ {0} /\ MinAlign <= a /\ (a = MinAlign \/ (a = size /\ IsPowerOfTwo(size)))
    BY <2>2, MaxOfTwo
  <2> HIDE DEF a
  <2>4. r.units = size + MinAlign /\ r.offset = MinAlign /\ r.align = a /\ r.cache = FALSE
    BY <2>1
  <2>5. r # NoRequest
    BY <2>2, <2>4 DEF NoRequest
  <2>6. Delta(0, a, MinAlign) = a - MinAlign
    <3>1. AlignUp(MinAlign, a) = a
      BY <2>2, <2>3, AlignUpWithin
    <3>2. 0 + MinAlign = MinAlign /\ a # 0
      BY <2>2, <2>3
    <3> QED BY <2>2, <2>3, <3>1, <3>2 DEF Delta
  <2>7. a + size <= PageUnits
    <3>1. CASE a = MinAlign
      BY <2>2, <3>1
    <3>2. CASE a = size /\ IsPowerOfTwo(size)
      <4>1. size \in 1 .. PageUnits - 1
        BY <2>2
      <4>2. 2 * size <= PageUnits
        BY <3>2, <4>1
      <4> QED BY <2>2, <3>2, <4>2
    <3> QED BY <2>3, <3>1, <3>2
  <2> QED BY <2>2, <2>3, <2>4, <2>5, <2>6, <2>7
<1>3. ASSUME NEW k \in Caches, r = CacheRequest(k), ~ (k.size >= PageUnits)
      PROVE  /\ r.units = k.size /\ r.offset = 0 /\ r.cache = TRUE /\ r.align = k.align
             /\ k.size \in Nat \ {0} /\ k.align \in Nat \ {0} /\ k.size < PageUnits /\ r # NoRequest
             /\ Delta(0, r.align, r.offset) = 0
  <2>1. k.size \in Nat \ {0} /\ k.align \in Nat \ {0} /\ k.size < PageUnits
    BY <1>3
  <2>2. r.units = k.size /\ r.offset = 0 /\ r.cache = TRUE /\ r.align = k.align
    BY <1>3 DEF CacheRequest
  <2>3. AlignUp(0, k.align) = 0
    BY <2>1, AlignUpWithin
  <2>4. Delta(0, r.align, r.offset) = 0
    BY <2>1, <2>2, <2>3 DEF Delta
  <2> QED BY <2>1, <2>2, <2>4 DEF NoRequest
<1>4. CASE \E size \in KmallocSizes : r = KmallocRequest(size)
  <2>1. PICK size \in KmallocSizes : r = KmallocRequest(size)
    BY <1>4
  <2>2. CASE size >= PageUnits - MinAlign
    BY <1>1, <2>1, <2>2 DEF KmallocRequest
  <2>3. CASE ~ (size >= PageUnits - MinAlign)
    <3>1. /\ r.units = size + MinAlign /\ r.offset = MinAlign /\ r.cache = FALSE
          /\ r.align \in Nat \ {0} /\ size \in Nat \ {0} /\ r # NoRequest
          /\ size + MinAlign < PageUnits
          /\ Delta(0, r.align, r.offset) + r.units <= PageUnits
      BY <1>2, <2>1, <2>3
    <3>2. r.units # PageUnits /\ r.units \in Nat \ {0} /\ r.units <= PageUnits /\ r.offset \in Nat
      BY <3>1
    <3> QED BY <3>1, <3>2, Zenon DEF Whole
  <2> QED BY <2>2, <2>3
<1>5. CASE \E k \in Caches : r = CacheRequest(k)
  <2>1. PICK k \in Caches : r = CacheRequest(k)
    BY <1>5
  <2>2. CASE k.size >= PageUnits
    BY <1>1, <2>1, <2>2 DEF CacheRequest
  <2>3. CASE ~ (k.size >= PageUnits)
    <3>1. /\ r.units = k.size /\ r.offset = 0 /\ r.cache = TRUE /\ r.align = k.align
          /\ k.size \in Nat \ {0} /\ k.align \in Nat \ {0} /\ k.size < PageUnits /\ r # NoRequest
          /\ Delta(0, r.align, r.offset) = 0
      BY <1>3, <2>1, <2>3
    <3>2. r.units # PageUnits /\ r.units \in Nat \ {0} /\ r.units <= PageUnits /\ r.offset \in Nat
          /\ r.align \in Nat \ {0} /\ 0 + r.units <= PageUnits
      BY <3>1
    <3> QED BY <3>1, <3>2, Zenon DEF Whole
  <2> QED BY <2>2, <2>3
<1> QED BY <1>4, <1>5 DEF Requests
-----------------------------------------------------------------------------
(* The lists of pages                                                      *)

NoRepeat(list) == \A i, j \in DOMAIN list : list[i] = list[j] => i = j

LEMMA RemoveAtIs ==
  ASSUME NEW T, NEW s \in Seq(T), NEW i \in 1 .. Len(s)
  PROVE  RemoveAt(s, i) = [j \in 1 .. Len(s) - 1 |-> IF j < i THEN s[j] ELSE s[j + 1]]
<1> DEFINE a == SubSeq(s, 1, i - 1)
           b == SubSeq(s, i + 1, Len(s))
<1>1. Len(s) \in Nat /\ i \in Nat /\ i >= 1 /\ i <= Len(s)
  OBVIOUS
<1>2. a \in Seq(T) /\ Len(a) = i - 1 /\ \A j \in 1 .. i - 1 : a[j] = s[j]
  BY <1>1
<1>3. /\ b \in Seq(T) /\ Len(b) = Len(s) - i
      /\ \A j \in 1 .. Len(s) - i : b[j] = s[i + j]
  BY <1>1
<1> HIDE DEF a, b
<1>4. /\ a \o b \in Seq(T) /\ Len(a \o b) = Len(s) - 1
      /\ \A j \in 1 .. Len(s) - 1 :
           (a \o b)[j] = IF j < i THEN s[j] ELSE s[j + 1]
  <2>1. a \o b \in Seq(T) /\ Len(a \o b) = Len(s) - 1
    <3>1. a \o b \in Seq(T) /\ Len(a \o b) = Len(a) + Len(b)
      BY <1>2, <1>3, ConcatProperties
    <3> QED BY <3>1, <1>1, <1>2, <1>3
  <2>2. ASSUME NEW j \in 1 .. Len(s) - 1, j < i PROVE (a \o b)[j] = s[j]
    <3>1. j \in 1 .. i - 1 /\ j \in 1 .. Len(a)
      BY <1>1, <1>2, <2>2
    <3>2. (a \o b)[j] = a[j]
      BY <3>1, <1>2, <1>3
    <3> QED BY <3>1, <3>2, <1>2
  <2>3. ASSUME NEW j \in 1 .. Len(s) - 1, ~ (j < i) PROVE (a \o b)[j] = s[j + 1]
    <3>1. /\ j \in Len(a) + 1 .. Len(a) + Len(b) /\ j - (i - 1) \in 1 .. Len(s) - i
          /\ i + (j - (i - 1)) = j + 1
      BY <1>1, <1>2, <1>3, <2>3
    <3>2. (a \o b)[j] = b[j - (i - 1)]
      BY <3>1, <1>2, <1>3
    <3> QED BY <3>1, <3>2, <1>3
  <2> QED BY <2>1, <2>2, <2>3
<1>5. a \o b = [j \in 1 .. Len(s) - 1 |-> (a \o b)[j]]
  <2> DEFINE c == a \o b
  <2>1. c \in Seq(T) /\ Len(c) = Len(s) - 1
    BY <1>4
  <2> HIDE DEF c
  <2>2. c = [j \in 1 .. Len(s) - 1 |-> c[j]]
    BY <2>1
  <2> QED BY <2>2 DEF c
<1>6. a \o b = [j \in 1 .. Len(s) - 1 |-> IF j < i THEN s[j] ELSE s[j + 1]]
  BY <1>4, <1>5
<1> QED BY <1>6 DEF RemoveAt, a, b

LEMMA WithoutIs ==
  ASSUME NEW T, NEW s \in Seq(T), NoRepeat(s), NEW p
  PROVE  Without(s, p) \in Seq(T) /\ ToSet(Without(s, p)) = ToSet(s) \ {p} /\ NoRepeat(Without(s, p))
<1>1. CASE p \notin ToSet(s)
  BY <1>1 DEF Without
<1>2. CASE p \in ToSet(s)
  <2> DEFINE i == CHOOSE k \in DOMAIN s : s[k] = p
             w == RemoveAt(s, i)
  <2>1. i \in 1 .. Len(s) /\ s[i] = p /\ Len(s) \in Nat
    BY <1>2 DEF ToSet
  <2> HIDE DEF i
  <2>2. w = [j \in 1 .. Len(s) - 1 |-> IF j < i THEN s[j] ELSE s[j + 1]]
    BY <2>1, RemoveAtIs
  <2>3. Without(s, p) = w
    BY <1>2 DEF Without, i
  <2> HIDE DEF w
  <2>4. /\ DOMAIN w = 1 .. Len(s) - 1
        /\ \A j \in 1 .. Len(s) - 1 : w[j] = IF j < i THEN s[j] ELSE s[j + 1]
    BY <2>2
  <2>5. \A j \in 1 .. Len(s) - 1 : w[j] \in T
    BY <2>1, <2>4
  <2>6. w \in Seq(T)
    <3>1. Len(s) - 1 \in Nat
      BY <2>1
    <3>2. w \in [1 .. Len(s) - 1 -> T]
      BY <2>2, <2>4, <2>5
    <3> QED BY <3>1, <3>2, SeqDef
  <2>7. \A k \in 1 .. Len(s) : s[k] = p => k = i
    BY <2>1 DEF NoRepeat
  <2>8. ASSUME NEW j \in 1 .. Len(s) - 1 PROVE w[j] \in ToSet(s) /\ w[j] # p
    <3>1. CASE j < i
      BY <2>1, <2>4, <2>7, <3>1 DEF ToSet
    <3>2. CASE ~ (j < i)
      <4>1. j + 1 \in 1 .. Len(s) /\ j + 1 # i /\ w[j] = s[j + 1]
        BY <2>1, <2>4, <3>2
      <4> QED BY <2>1, <2>7, <4>1 DEF ToSet
    <3> QED BY <3>1, <3>2
  <2>9. ASSUME NEW x \in ToSet(s), x # p PROVE \E j \in 1 .. Len(s) - 1 : w[j] = x
    <3>1. PICK k \in 1 .. Len(s) : s[k] = x
      BY DEF ToSet
    <3>2. CASE k < i
      <4>1. k \in 1 .. Len(s) - 1
        BY <2>1, <3>2
      <4> QED BY <2>4, <3>1, <3>2, <4>1
    <3>3. CASE k > i
      <4>1. k - 1 \in 1 .. Len(s) - 1 /\ ~ (k - 1 < i) /\ (k - 1) + 1 = k
        BY <2>1, <3>3
      <4> QED BY <2>4, <3>1, <4>1
    <3> QED BY <2>1, <2>9, <3>1, <3>2, <3>3
  <2>10. NoRepeat(w)
    <3> SUFFICES ASSUME NEW j \in 1 .. Len(s) - 1, NEW k \in 1 .. Len(s) - 1, w[j] = w[k] PROVE j = k
      BY <2>4 DEF NoRepeat
    <3> DEFINE a == IF j < i THEN j ELSE j + 1
               b == IF k < i THEN k ELSE k + 1
    <3>1. a \in DOMAIN s /\ w[j] = s[a]
      BY <2>1, <2>4
    <3>4. b \in DOMAIN s /\ w[k] = s[b]
      BY <2>1, <2>4
    <3> HIDE DEF a, b
    <3>3. a \in DOMAIN s /\ b \in DOMAIN s /\ s[a] = s[b]
      BY <3>1, <3>4
    <3>2. a = b
      BY <3>3 DEF NoRepeat
    <3> QED BY <2>1, <3>2 DEF a, b
  <2>11. ToSet(w) = ToSet(s) \ {p}
    <3>1. ToSet(w) = {w[j] : j \in 1 .. Len(s) - 1}
      BY <2>4 DEF ToSet
    <3> QED BY <2>8, <2>9, <3>1
  <2> QED BY <2>3, <2>6, <2>10, <2>11
<1> QED BY <1>1, <1>2

LEMMA PushIs ==
  ASSUME NEW T, NEW s \in Seq(T), NoRepeat(s), NEW p \in T, p \notin ToSet(s)
  PROVE  <<p>> \o s \in Seq(T) /\ ToSet(<<p>> \o s) = ToSet(s) \cup {p} /\ NoRepeat(<<p>> \o s)
<1> DEFINE w == <<p>> \o s
<1>1. /\ w \in Seq(T) /\ Len(w) = Len(s) + 1 /\ Len(s) \in Nat /\ w[1] = p
      /\ \A k \in 1 .. Len(s) : w[k + 1] = s[k]
  <2>1. <<p>> \in Seq(T) /\ Len(<<p>>) = 1 /\ <<p>>[1] = p
    OBVIOUS
  <2> QED BY <2>1
<1> HIDE DEF w
<1>2. ASSUME NEW k \in DOMAIN w
      PROVE  (k = 1 /\ w[k] = p) \/ (k - 1 \in DOMAIN s /\ w[k] = s[k - 1] /\ s[k - 1] \in ToSet(s))
  <2>1. k \in 1 .. Len(s) + 1
    BY <1>1
  <2>2. CASE k = 1
    BY <1>1, <2>2
  <2>3. CASE k # 1
    <3>1. k - 1 \in 1 .. Len(s) /\ (k - 1) + 1 = k
      BY <1>1, <2>1, <2>3
    <3>2. w[k] = s[k - 1] /\ k - 1 \in DOMAIN s
      BY <1>1, <3>1
    <3> QED BY <3>2 DEF ToSet
  <2> QED BY <2>2, <2>3
<1>3. NoRepeat(w)
  <2> SUFFICES ASSUME NEW j \in DOMAIN w, NEW k \in DOMAIN w, w[j] = w[k] PROVE j = k
    BY DEF NoRepeat
  <2>1. j \in Int /\ k \in Int
    BY <1>1
  <2>2. j - 1 \in DOMAIN s /\ k - 1 \in DOMAIN s /\ s[j - 1] = s[k - 1] => j = k
    BY <2>1 DEF NoRepeat
  <2> QED BY <1>2, <2>2
<1>4. ToSet(w) = ToSet(s) \cup {p}
  <2>1. ToSet(w) \subseteq ToSet(s) \cup {p}
    BY <1>2 DEF ToSet
  <2>2. p \in ToSet(w)
    <3>1. 1 \in DOMAIN w
      BY <1>1
    <3> QED BY <1>1, <3>1 DEF ToSet
  <2>3. ASSUME NEW x \in ToSet(s) PROVE x \in ToSet(w)
    <3>1. PICK k \in 1 .. Len(s) : s[k] = x
      BY DEF ToSet
    <3>2. k + 1 \in DOMAIN w /\ w[k + 1] = x
      BY <1>1, <3>1
    <3> QED BY <3>2 DEF ToSet
  <2> QED BY <2>1, <2>2, <2>3
<1> QED BY <1>1, <1>3, <1>4 DEF w
-----------------------------------------------------------------------------
(* One page: what there is to say of it, in terms of its account pg, its   *)
(* user us, the set B of the blocks in it, the processors that carry it to *)
(* or from the page allocator and the lists it is on.                      *)

CellsOf(b) == Interval(b.at, b.req.units)
FreeIn(B) == Cells \ UNION {CellsOf(b) : b \in B}

BlocksFit(us, B, lists) ==
  \A b \in B :
    /\ b \in BlockType
    /\ b.at + b.req.units <= PageUnits
    /\ us = IF Whole(b.req) THEN "somebody" ELSE "slob"
    /\ \A l \in lists : l = ListOf(b.req.units)
    /\ \A d \in B : /\ ListOf(d.req.units) = ListOf(b.req.units)
                    /\ d # b => CellsOf(d) \cap CellsOf(b) = {}

Settled(pg, us, B, carriers, lists) ==
  /\ pg \in PageType
  /\ BlocksFit(us, B, lists)
  /\ lists # {} => us = "slob" /\ carriers = {} /\ Account(pg, FreeIn(B))
  /\ us = "slob" /\ carriers = {} /\ lists = {} => FreeIn(B) = {} /\ pg.units = 0
  /\ us = "nobody" => B = {} /\ carriers = {} /\ lists = {}
  /\ carriers # {} => B = {} /\ lists = {}
  /\ \A c, d \in carriers : c = d

LEMMA BlockIs ==
  ASSUME NEW b \in BlockType
  PROVE  /\ b.at \in Nat /\ b.at < PageUnits /\ b.req \in Requests /\ b.page \in Pages
         /\ b.req.units \in Nat \ {0} /\ b.req.units <= PageUnits
         /\ b.at \in CellsOf(b)
<1>1. b.at \in Nat /\ b.at < PageUnits /\ b.req \in Requests /\ b.page \in Pages
  BY Units DEF BlockType
<1>2. b.req.units \in Nat \ {0} /\ b.req.units <= PageUnits
  BY <1>1, RequestIs
<1> QED BY <1>1, <1>2 DEF CellsOf, Interval

LEMMA FreeInAdd ==
  ASSUME NEW B, NEW b
  PROVE  FreeIn(B \cup {b}) = FreeIn(B) \ CellsOf(b)
BY DEF FreeIn

LEMMA FreeInRemove ==
  ASSUME NEW B, NEW b \in B, NEW us, NEW lists, BlocksFit(us, B, lists)
  PROVE  /\ FreeIn(B \ {b}) = FreeIn(B) \cup CellsOf(b)
         /\ Back(FreeIn(B), b.at, b.req.units)
<1>1. b \in BlockType /\ b.at + b.req.units <= PageUnits /\ \A d \in B : d # b => CellsOf(d) \cap CellsOf(b) = {}
  BY DEF BlocksFit
<1>2. b.at \in Nat /\ b.req.units \in Nat \ {0}
  BY <1>1, BlockIs
<1>3. CellsOf(b) \subseteq Cells
  BY <1>1, <1>2, Units DEF CellsOf, Interval
<1>4. FreeIn(B \ {b}) = FreeIn(B) \cup CellsOf(b)
  BY <1>1, <1>3 DEF FreeIn
<1>5. \A c \in CellsOf(b) : c \notin FreeIn(B)
  BY DEF FreeIn
<1> QED BY <1>1, <1>2, <1>4, <1>5 DEF Back, CellsOf, FreeIn

\* A block is cut out of what is free in a page.
LEMMA SettledObtain ==
  ASSUME NEW B, NEW lists, BlocksFit("slob", B, lists), NEW r \in Requests, ~ Whole(r),
         \A l \in lists : l = ListOf(r.units),
         \A d \in B : ListOf(d.req.units) = ListOf(r.units),
         NEW found, Allocated(FreeIn(B), r.units, r.align, r.offset, found),
         NEW p \in Pages, NEW b, b = [page |-> p, at |-> found.at, req |-> r],
         NEW on, on = IF found.page.units = 0 THEN {} ELSE {ListOf(r.units)}
  PROVE  /\ b \notin B /\ b \in BlockType
         /\ Settled(found.page, "slob", B \cup {b}, {}, on)
<1>1. b.page = p /\ b.at = found.at /\ b.req = r
  OBVIOUS
<1>2. r.units \in Nat \ {0} /\ r.units <= PageUnits
  BY RequestIs
<1>3. /\ found.at \in Nat /\ found.at + r.units <= PageUnits
      /\ \A c \in CellsOf(b) : c \in FreeIn(B)
      /\ IF FreeIn(B) \ CellsOf(b) = {} THEN found.page \in PageType /\ found.page.units = 0
         ELSE Account(found.page, FreeIn(B) \ CellsOf(b))
  BY <1>1 DEF Allocated, CellsOf
<1>4. found.at \in Cells /\ PageUnits \in Nat
  BY <1>2, <1>3, Units
<1>5. b \in BlockType
  BY <1>4 DEF BlockType
<1>6. b.at \in CellsOf(b)
  BY <1>5, BlockIs
<1>7. \A d \in B : CellsOf(d) \cap CellsOf(b) = {} /\ CellsOf(b) \cap CellsOf(d) = {}
  BY <1>3 DEF FreeIn
<1>8. b \notin B
  BY <1>6, <1>7
<1>9. BlocksFit("slob", B \cup {b}, on)
  <2> SUFFICES ASSUME NEW x \in B \cup {b}
               PROVE  /\ x \in BlockType
                      /\ x.at + x.req.units <= PageUnits
                      /\ "slob" = IF Whole(x.req) THEN "somebody" ELSE "slob"
                      /\ \A l \in on : l = ListOf(x.req.units)
                      /\ \A d \in B \cup {b} : /\ ListOf(d.req.units) = ListOf(x.req.units)
                                               /\ d # x => CellsOf(d) \cap CellsOf(x) = {}
    BY Zenon DEF BlocksFit
  <2>1. CASE x = b
    BY <1>1, <1>3, <1>5, <1>7, <2>1
  <2>2. CASE x \in B
    <3>1. /\ x \in BlockType
          /\ x.at + x.req.units <= PageUnits
          /\ "slob" = IF Whole(x.req) THEN "somebody" ELSE "slob"
          /\ \A d \in B : /\ ListOf(d.req.units) = ListOf(x.req.units)
                          /\ d # x => CellsOf(d) \cap CellsOf(x) = {}
          /\ ListOf(x.req.units) = ListOf(r.units)
      BY <2>2, Zenon DEF BlocksFit
    <3>2. \A l \in on : l = ListOf(x.req.units)
      BY <3>1
    <3> QED BY <1>1, <1>7, <2>2, <3>1, <3>2, Zenon
  <2> QED BY <2>1, <2>2
<1>10. FreeIn(B \cup {b}) = FreeIn(B) \ CellsOf(b)
  BY FreeInAdd
<1>11. CASE FreeIn(B) \ CellsOf(b) = {}
  BY <1>3, <1>5, <1>8, <1>9, <1>10, <1>11 DEF Settled
<1>12. CASE FreeIn(B) \ CellsOf(b) # {}
  <2>1. Account(found.page, FreeIn(B) \ CellsOf(b))
    BY <1>3, <1>12
  <2>2. found.page.units # 0 /\ found.page \in PageType
    BY <1>12, <2>1, CellsFinite, FS_EmptySet DEF Account
  <2> QED BY <1>5, <1>8, <1>9, <1>10, <2>1, <2>2 DEF Settled
<1> QED BY <1>11, <1>12

\* A block is given back to its page, and the page is not all free by that.
LEMMA SettledFree ==
  ASSUME NEW pg, NEW B, NEW lists, Settled(pg, "slob", B, {}, lists),
         NEW b \in B, pg.units + b.req.units # PageUnits,
         NEW q, q = IF lists # {} THEN Reinsert(pg, b.at, b.req.units) ELSE FirstFreed(pg, b.at, b.req.units)
  PROVE  Settled(q, "slob", B \ {b}, {}, {ListOf(b.req.units)})
<1>1. BlocksFit("slob", B, lists) /\ pg \in PageType
  BY DEF Settled
<1>2. /\ b \in BlockType /\ \A d \in B : ListOf(d.req.units) = ListOf(b.req.units)
      /\ \A l \in lists : l = ListOf(b.req.units)
      /\ b.at + b.req.units <= PageUnits
  BY <1>1, Zenon DEF BlocksFit
<1>3. b.at \in Nat /\ b.req.units \in Nat \ {0}
  BY <1>2, BlockIs
<1>4. FreeIn(B \ {b}) = FreeIn(B) \cup CellsOf(b) /\ Back(FreeIn(B), b.at, b.req.units)
  BY <1>1, FreeInRemove
<1>5. Account(q, FreeIn(B \ {b}))
  <2>1. CASE lists # {}
    <3>1. Account(pg, FreeIn(B))
      BY <2>1 DEF Settled
    <3> QED BY <1>4, <2>1, <3>1, ReinsertIs DEF CellsOf
  <2>2. CASE lists = {}
    <3>1. FreeIn(B) = {}
      BY <2>2 DEF Settled
    <3>2. FreeIn(B \ {b}) = Interval(b.at, b.req.units)
      BY <1>4, <3>1 DEF CellsOf
    <3>3. q = FirstFreed(pg, b.at, b.req.units)
      BY <2>2
    <3> HIDE DEF FirstFreed
    <3> QED BY <1>1, <1>2, <1>3, <3>2, <3>3, FirstFreedIs
  <2> QED BY <2>1, <2>2
<1>6. BlocksFit("slob", B \ {b}, {ListOf(b.req.units)})
  BY <1>1, <1>2 DEF BlocksFit
<1>7. q \in PageType
  BY <1>5 DEF Account
<1> QED BY <1>5, <1>6, <1>7 DEF Settled

\* The last block of a page is given back.
LEMMA SettledLast ==
  ASSUME NEW pg, NEW B, NEW lists, Settled(pg, "slob", B, {}, lists),
         NEW b \in B, ~ Whole(b.req), pg.units + b.req.units = PageUnits
  PROVE  B \ {b} = {}
<1>1. BlocksFit("slob", B, lists) /\ pg \in PageType
  BY DEF Settled
<1>2. b \in BlockType /\ b.req.units # PageUnits
  BY <1>1 DEF BlocksFit, Whole
<1>3. b.req.units \in Nat \ {0} /\ PageUnits \in Nat
  BY <1>2, BlockIs, Units
<1>4. pg.units # 0
  BY <1>2, <1>3
<1>5. lists # {}
  BY <1>4 DEF Settled
<1>6. Account(pg, FreeIn(B))
  BY <1>5 DEF Settled
<1>7. Back(FreeIn(B), b.at, b.req.units) /\ FreeIn(B \ {b}) = FreeIn(B) \cup CellsOf(b)
  BY <1>1, FreeInRemove
<1>8. FreeIn(B \ {b}) \in SUBSET Cells /\ Cardinality(FreeIn(B \ {b})) = PageUnits
  <2> DEFINE C == FreeIn(B)
             n == b.req.units
  <2>1. C \cup Interval(b.at, n) \in SUBSET Cells /\ Cardinality(C \cup Interval(b.at, n)) = Cardinality(C) + n
    BY <1>7, BackCells
  <2>2. pg.units = Cardinality(C)
    BY <1>6 DEF Account
  <2> HIDE DEF C, n
  <2>3. FreeIn(B \ {b}) = C \cup Interval(b.at, n)
    BY <1>7 DEF C, n, CellsOf
  <2>4. Cardinality(C) + n = PageUnits
    BY <2>2 DEF n
  <2> QED BY <2>1, <2>3, <2>4
<1>9. IsFiniteSet(Cells) /\ Cardinality(Cells) = PageUnits
  BY Units, FS_Interval DEF Cells
<1>10. FreeIn(B \ {b}) = Cells
  BY <1>8, <1>9, FS_Subset
<1>11. ASSUME NEW d \in B \ {b} PROVE FALSE
  <2>1. d \in BlockType
    BY <1>1 DEF BlocksFit
  <2>2. d.at \in CellsOf(d) /\ d.at \in Cells
    BY <2>1, BlockIs DEF BlockType
  <2> QED BY <1>10, <2>2 DEF FreeIn
<1> QED BY <1>11

\* A block that is a whole page is alone in it.
LEMMA SettledWhole ==
  ASSUME NEW us, NEW B, NEW lists, BlocksFit(us, B, lists), NEW b \in B, Whole(b.req)
  PROVE  B = {b}
<1>1. ASSUME NEW d \in B, d # b PROVE FALSE
  <2>1. /\ b \in BlockType /\ d \in BlockType /\ CellsOf(d) \cap CellsOf(b) = {}
        /\ b.at + b.req.units <= PageUnits
    BY <1>1 DEF BlocksFit
  <2>2. b.at = 0 /\ b.req.units = PageUnits
    BY <2>1, BlockIs, Units DEF Whole
  <2>3. d.at \in Nat /\ d.at < PageUnits /\ d.at \in CellsOf(d)
    BY <2>1, BlockIs
  <2>4. d.at \in CellsOf(b)
    BY <2>2, <2>3, Units DEF CellsOf, Interval
  <2> QED BY <2>1, <2>3, <2>4
<1> QED BY <1>1
-----------------------------------------------------------------------------
(* The inductive invariant                                                 *)

CallType == [at : Phases, req : Requests \cup {NoRequest},
             page : Pages \cup {NoPage}, seen : 0 .. Wrap - 1]

ListsOf(p) == {l \in Lists : p \in ToSet(free_slob[l])}
Carriers(p) == {c \in Cpus : call[c].page = p}

ListsOK ==
  /\ free_slob \in [Lists -> Seq(Pages)]
  /\ \A l \in Lists : NoRepeat(free_slob[l])
  /\ \A p \in Pages : \A l, m \in ListsOf(p) : l = m

\* What a processor carries it has from the page allocator or for it.
CallOK(c) ==
  /\ call[c].at \in {"count", "init", "release"} <=> call[c].page # NoPage
  /\ call[c].at \in {"search", "grow", "count", "init"} => call[c].req \in Requests
  /\ call[c].at \in {"search", "init"} => ~ Whole(call[c].req)
  /\ call[c].at = "count" => use[call[c].page] = "somebody"
  /\ call[c].at = "init" => use[call[c].page] = "slob"

PageOK(p) == Settled(page[p], use[p], BlocksOf(p), Carriers(p), ListsOf(p))

Shapes ==
  /\ page \in [Pages -> PageType]
  /\ use \in [Pages -> {"nobody", "somebody", "slob"}]
  /\ blocks \in SUBSET BlockType
  /\ allocated_mem \in 0 .. Wrap - 1
  /\ call \in [Cpus -> CallType]

SlobInv ==
  /\ Shapes
  /\ ListsOK
  /\ \A c \in Cpus : CallOK(c)
  /\ \A p \in Pages : PageOK(p)

\* What a step of processor c does to page p alone.
LEMMA StepKeeps ==
  ASSUME SlobInv, Shapes', ListsOK', NEW c \in Cpus, NEW p \in Pages,
         \A d \in Cpus \ {c} : call'[d] = call[d] /\ call[d].page # p,
         CallOK(c)', call[c].page \in {NoPage, p}, call'[c].page \in {NoPage, p},
         \A q \in Pages \ {p} : /\ page'[q] = page[q] /\ use'[q] = use[q]
                                /\ BlocksOf(q)' = BlocksOf(q) /\ ListsOf(q)' = ListsOf(q),
         Settled(page'[p], use'[p], BlocksOf(p)', IF call'[c].page = p THEN {c} ELSE {}, ListsOf(p)')
  PROVE  SlobInv'
<1>1. \A q \in Pages : q # NoPage
  BY SlobAssumption
<1>2. Carriers(p)' = IF call'[c].page = p THEN {c} ELSE {}
  BY DEF Carriers
<1>3. PageOK(p)'
  BY <1>2 DEF PageOK
<1>4. ASSUME NEW q \in Pages, q # p PROVE PageOK(q)'
  <2>1. Carriers(q)' = Carriers(q)
    BY <1>1, <1>4 DEF Carriers
  <2>2. PageOK(q)
    BY DEF SlobInv
  <2> QED BY <1>4, <2>1, <2>2 DEF PageOK
<1>5. ASSUME NEW d \in Cpus, d # c PROVE CallOK(d)'
  <2>1. CallOK(d) /\ call'[d] = call[d] /\ call[d].page # p
    BY <1>5 DEF SlobInv
  <2>2. call[d].page # NoPage => call[d].page \in Pages \ {p}
    BY <2>1 DEF SlobInv, Shapes, CallType
  <2>3. call[d].page # NoPage => use'[call[d].page] = use[call[d].page]
    BY <2>2
  <2> QED BY <2>1, <2>3 DEF CallOK
<1> QED BY <1>3, <1>4, <1>5 DEF SlobInv

\* A step that changes no page.
LEMMA StepAside ==
  ASSUME SlobInv, Shapes', NEW c \in Cpus, UNCHANGED <<page, use, free_slob, blocks>>,
         \A d \in Cpus \ {c} : call'[d] = call[d],
         CallOK(c)', call[c].page = NoPage, call'[c].page = NoPage
  PROVE  SlobInv'
<1>1. \A q \in Pages : q # NoPage
  BY SlobAssumption
<1>2. ASSUME NEW q \in Pages PROVE PageOK(q)'
  <2>1. Carriers(q)' = Carriers(q) /\ BlocksOf(q)' = BlocksOf(q) /\ ListsOf(q)' = ListsOf(q)
    BY <1>1 DEF Carriers, BlocksOf, ListsOf
  <2>2. PageOK(q)
    BY DEF SlobInv
  <2> QED BY <2>1, <2>2 DEF PageOK
<1>3. ASSUME NEW d \in Cpus, d # c PROVE CallOK(d)'
  BY <1>3 DEF SlobInv, CallOK
<1>4. ListsOK'
  BY DEF SlobInv, ListsOK, ListsOf
<1> QED BY <1>2, <1>3, <1>4 DEF SlobInv

LEMMA Carried ==
  ASSUME SlobInv, NEW c \in Cpus, call[c].page \in Pages
  PROVE  LET p == call[c].page
         IN /\ BlocksOf(p) = {} /\ ListsOf(p) = {} /\ Carriers(p) = {c} /\ use[p] # "nobody"
            /\ \A d \in Cpus \ {c} : call[d].page # p
<1> DEFINE p == call[c].page
<1>1. Settled(page[p], use[p], BlocksOf(p), Carriers(p), ListsOf(p)) /\ c \in Carriers(p)
  BY DEF SlobInv, PageOK, Carriers
<1>2. /\ BlocksOf(p) = {} /\ ListsOf(p) = {} /\ use[p] # "nobody"
      /\ \A d \in Carriers(p) : d = c
  BY <1>1, Zenon DEF Settled
<1> QED BY <1>1, <1>2 DEF Carriers

LEMMA NotCarried ==
  ASSUME SlobInv, NEW p \in Pages, BlocksOf(p) # {} \/ ListsOf(p) # {} \/ use[p] = "nobody"
  PROVE  Carriers(p) = {} /\ \A d \in Cpus : call[d].page # p
<1>1. Settled(page[p], use[p], BlocksOf(p), Carriers(p), ListsOf(p))
  BY DEF SlobInv, PageOK
<1>2. Carriers(p) = {}
  BY <1>1 DEF Settled
<1> QED BY <1>2 DEF Carriers

LEMMA DelistIs ==
  ASSUME ListsOK, NEW p \in Pages, free_slob' = Delist(p)
  PROVE  ListsOK' /\ ListsOf(p)' = {} /\ \A q \in Pages \ {p} : ListsOf(q)' = ListsOf(q)
<1>1. ASSUME NEW l \in Lists
      PROVE  /\ free_slob'[l] \in Seq(Pages) /\ ToSet(free_slob'[l]) = ToSet(free_slob[l]) \ {p}
             /\ NoRepeat(free_slob'[l])
  <2>1. free_slob'[l] = Without(free_slob[l], p) /\ free_slob[l] \in Seq(Pages) /\ NoRepeat(free_slob[l])
    BY DEF Delist, ListsOK
  <2> QED BY <2>1, WithoutIs
<1>2. free_slob' \in [Lists -> Seq(Pages)]
  BY <1>1 DEF Delist
<1>3. ListsOf(p)' = {} /\ \A q \in Pages \ {p} : ListsOf(q)' = ListsOf(q)
  BY <1>1 DEF ListsOf
<1>4. \A q \in Pages : \A l, m \in ListsOf(q)' : l = m
  BY <1>3 DEF ListsOK
<1> QED BY <1>1, <1>2, <1>3, <1>4 DEF ListsOK

LEMMA EnlistIs ==
  ASSUME ListsOK, NEW p \in Pages, NEW l \in Lists, ListsOf(p) = {}, free_slob' = Enlist(p, l)
  PROVE  ListsOK' /\ ListsOf(p)' = {l} /\ \A q \in Pages \ {p} : ListsOf(q)' = ListsOf(q)
<1>1. ASSUME NEW m \in Lists
      PROVE  /\ free_slob'[m] \in Seq(Pages)
             /\ ToSet(free_slob'[m]) = IF m = l THEN ToSet(free_slob[m]) \cup {p} ELSE ToSet(free_slob[m])
             /\ NoRepeat(free_slob'[m])
  <2>1. free_slob[m] \in Seq(Pages) /\ NoRepeat(free_slob[m]) /\ p \notin ToSet(free_slob[m])
    BY DEF ListsOK, ListsOf
  <2>2. free_slob'[m] = IF m = l THEN <<p>> \o free_slob[m] ELSE free_slob[m]
    BY DEF Enlist, ListsOK
  <2>3. CASE m = l
    BY <2>1, <2>2, <2>3, PushIs
  <2>4. CASE m # l
    BY <2>1, <2>2, <2>4
  <2> QED BY <2>3, <2>4
<1>2. free_slob' \in [Lists -> Seq(Pages)]
  <2>1. DOMAIN free_slob' = Lists /\ free_slob' = [m \in Lists |-> free_slob'[m]]
    BY DEF Enlist, ListsOK
  <2> QED BY <1>1, <2>1
<1>3. ListsOf(p)' = {l} /\ \A q \in Pages \ {p} : ListsOf(q)' = ListsOf(q)
  BY <1>1 DEF ListsOf
<1>4. \A q \in Pages : \A k, m \in ListsOf(q)' : k = m
  BY <1>3 DEF ListsOK
<1> QED BY <1>1, <1>2, <1>3, <1>4 DEF ListsOK

LEMMA BlocksAre ==
  ASSUME NEW b, NEW p, b.page = p
  PROVE  /\ blocks' = blocks \cup {b} =>
              BlocksOf(p)' = BlocksOf(p) \cup {b} /\ \A q \in Pages \ {p} : BlocksOf(q)' = BlocksOf(q)
         /\ blocks' = blocks \ {b} =>
              BlocksOf(p)' = BlocksOf(p) \ {b} /\ \A q \in Pages \ {p} : BlocksOf(q)' = BlocksOf(q)
BY DEF BlocksOf

LEMMA SlobInit == Init => SlobInv
<1> SUFFICES ASSUME Init PROVE SlobInv
  OBVIOUS
<1> USE DEF Init
<1>1. FreshPage \in PageType
  BY FreshIs DEF Account
<1>2. Wrap \in Nat \ {0} /\ \A p \in Pages : p # NoPage
  BY SlobAssumption
<1>3. Quiet \in CallType /\ Quiet.page = NoPage /\ Quiet.at = "idle"
  BY <1>2 DEF Quiet, CallType, Phases
<1>4. Shapes
  BY <1>1, <1>2, <1>3 DEF Shapes
<1>5. \A p : BlocksOf(p) = {} /\ ListsOf(p) = {}
  BY DEF BlocksOf, ListsOf, ToSet
<1>6. ListsOK
  BY <1>5 DEF ListsOK, NoRepeat
<1>7. \A c \in Cpus : CallOK(c)
  BY <1>3 DEF CallOK
<1>8. ASSUME NEW p \in Pages PROVE PageOK(p)
  <2>1. Carriers(p) = {}
    BY <1>2, <1>3 DEF Carriers
  <2>2. page[p] \in PageType /\ use[p] = "nobody"
    BY <1>1
  <2> QED BY <1>5, <2>1, <2>2 DEF PageOK, Settled, BlocksFit
<1> QED BY <1>4, <1>6, <1>7, <1>8 DEF SlobInv
-----------------------------------------------------------------------------
(* The steps                                                               *)

\* Processor c is given a block that nobody has, aligned as it asked for.
GrantedTo(c) ==
  \E b :
    /\ b \notin blocks /\ blocks' = blocks \cup {b} /\ b.page \in Pages /\ b.at \in Nat
    /\ b = [page |-> b.page, at |-> b.at, req |-> call[c].req]
    /\ (b.at + call[c].req.offset) % call[c].req.align = 0
    /\ call' = [call EXCEPT ![c] = Quiet]

LEMMA BestFitCheckIs ==
  ASSUME NEW pg, NEW C, Account(pg, C), NEW units \in Nat, NEW align \in Nat \ {0}
  PROVE  BestFitCheck(pg, units, align) \in Nat \cup {None}
<1> DEFINE fit == Fitting(pg, units, align, 0)
           all == {Left(pg, s, units, align, 0) : s \in fit}
<1>1. ASSUME NEW s \in fit PROVE Left(pg, s, units, align, 0) \in Nat
  <2>1. s \in Starts(C) /\ Left(pg, s, units, align, 0) >= 0
    BY FreeBlocksAre DEF Fitting
  <2>2. s \in Nat /\ SlobUnits(pg.mem, s) \in Nat
    BY <2>1, PieceIs, Units DEF Header
  <2>3. Delta(s, align, 0) \in Nat
    BY <2>2, DeltaIs
  <2> QED BY <2>1, <2>2, <2>3 DEF Left
<1>2. fit # {} => Min(all) \in all
  <2>1. all \in SUBSET Nat /\ (fit # {} => all # {})
    BY <1>1
  <2> HIDE DEF all
  <2> QED BY <2>1, MinIs
<1> QED BY <1>1, <1>2 DEF BestFitCheck

LEMMA BestPageIs ==
  ASSUME SlobInv, NEW r \in Requests
  PROVE  LET list == free_slob[ListOf(r.units)]
             p == BestPage(list, r)
         IN IF p = NoPage THEN \A i \in DOMAIN list : Fit(list[i], r) = None
            ELSE /\ p \in Pages /\ ListsOf(p) = {ListOf(r.units)} /\ Fit(p, r) # None
                 /\ \A i \in DOMAIN list : Fit(list[i], r) # None => Fit(p, r) <= Fit(list[i], r)
<1> DEFINE l == ListOf(r.units)
           list == free_slob[l]
           fits == {i \in DOMAIN list : Fit(list[i], r) # None}
           best == {i \in fits : \A j \in fits : Fit(list[i], r) <= Fit(list[j], r)}
<1>1. l \in Lists /\ list \in Seq(Pages) /\ r.units \in Nat /\ r.align \in Nat \ {0}
  BY RequestIs DEF ListOf, Lists, SlobInv, ListsOK
<1> HIDE DEF l
<1>2. ASSUME NEW i \in DOMAIN list
      PROVE  list[i] \in Pages /\ l \in ListsOf(list[i]) /\ i \in Nat
             /\ Fit(list[i], r) \in Nat \cup {None}
  <2> DEFINE q == list[i]
  <2>1. q \in Pages /\ l \in ListsOf(q) /\ i \in Nat
    BY <1>1 DEF ListsOf, ToSet
  <2> HIDE DEF q
  <2>2. Account(page[q], FreeIn(BlocksOf(q)))
    BY <2>1 DEF SlobInv, PageOK, Settled
  <2>3. Fit(q, r) \in Nat \cup {None}
    BY <1>1, <2>2, BestFitCheckIs DEF Fit
  <2> QED BY <2>1, <2>3 DEF q
<1> HIDE DEF list
<1>3. BestPage(list, r) = IF fits = {} THEN NoPage ELSE list[Min(best)]
  BY DEF BestPage, l, list
<1>4. CASE fits = {}
  BY <1>3, <1>4 DEF l, list
<1>5. CASE fits # {}
  <2>1. best \in SUBSET Nat /\ best # {}
    <3> DEFINE all == {Fit(list[i], r) : i \in fits}
    <3>1. all \in SUBSET Nat /\ all # {}
      BY <1>2, <1>5
    <3>2. PICK x \in all : \A y \in all : ~ (y < x)
      <4> HIDE DEF all
      <4> QED BY <3>1, NatLeast
    <3>3. PICK i \in fits : x = Fit(list[i], r)
      BY <3>2
    <3>4. \A j \in fits : Fit(list[i], r) <= Fit(list[j], r)
      <4> SUFFICES ASSUME NEW j \in fits PROVE Fit(list[i], r) <= Fit(list[j], r)
        OBVIOUS
      <4>1. Fit(list[i], r) \in Nat /\ Fit(list[j], r) \in Nat
        BY <1>2
      <4>2. ~ (Fit(list[j], r) < Fit(list[i], r))
        BY <3>2, <3>3
      <4> QED BY <4>1, <4>2
    <3> QED BY <1>2, <3>3, <3>4
  <2>2. Min(best) \in best
    <3> HIDE DEF best
    <3> QED BY <2>1, MinIs
  <2>3. PICK i \in fits : i = Min(best) /\ \A j \in fits : Fit(list[i], r) <= Fit(list[j], r)
    BY <2>2
  <2>4. PICK p : p = list[i]
    OBVIOUS
  <2>5. BestPage(list, r) = p
    BY <1>3, <1>5, <2>3, <2>4
  <2>6. p \in Pages /\ l \in ListsOf(p) /\ Fit(p, r) # None
    BY <1>2, <2>4
  <2>7. ListsOf(p) = {l} /\ p # NoPage
    BY <2>6, SlobAssumption DEF SlobInv, ListsOK
  <2>8. \A j \in DOMAIN list : Fit(list[j], r) # None => Fit(p, r) <= Fit(list[j], r)
    BY <2>3, <2>4
  <2> QED BY <2>5, <2>6, <2>7, <2>8 DEF l, list
<1> QED BY <1>4, <1>5

LEMMA QuietOK ==
  /\ Quiet \in CallType /\ Quiet.at = "idle" /\ Quiet.page = NoPage
BY SlobAssumption DEF Quiet, CallType, Phases

LEMMA MallocStep ==
  ASSUME SlobInv, NEW c \in Cpus, Malloc(c)
  PROVE  SlobInv'
<1>1. PICK r \in Requests :
        call' = [call EXCEPT ![c].req = r, ![c].at = IF Whole(r) THEN "grow" ELSE "search"]
  BY DEF Malloc
<1>2. call \in [Cpus -> CallType] /\ call[c].at = "idle" /\ CallOK(c)
  BY DEF SlobInv, Shapes, Malloc
<1>3. /\ call'[c] = [call[c] EXCEPT !.req = r, !.at = IF Whole(r) THEN "grow" ELSE "search"]
      /\ \A d \in Cpus \ {c} : call'[d] = call[d]
      /\ call' \in [Cpus -> CallType]
  BY <1>1, <1>2 DEF CallType, Phases
<1>4. call[c] \in CallType /\ call[c].page = NoPage
  BY <1>2 DEF CallOK
<1>5. /\ call'[c].req = r /\ call'[c].at = (IF Whole(r) THEN "grow" ELSE "search")
      /\ call'[c].page = NoPage
  BY <1>3, <1>4 DEF CallType
<1>6. CallOK(c)'
  BY <1>5 DEF CallOK
<1>7. Shapes'
  BY <1>3 DEF Malloc, SlobInv, Shapes
<1>8. UNCHANGED <<page, use, free_slob, blocks>>
  BY DEF Malloc
<1> QED BY <1>3, <1>4, <1>5, <1>6, <1>7, <1>8, StepAside

LEMMA UncountStep ==
  ASSUME SlobInv, NEW c \in Cpus, Uncount(c)
  PROVE  SlobInv'
<1>1. call \in [Cpus -> CallType] /\ call[c].at = "uncount" /\ CallOK(c) /\ call' = [call EXCEPT ![c] = Quiet]
  BY DEF SlobInv, Shapes, Uncount
<1>2. call'[c] = Quiet /\ (\A d \in Cpus \ {c} : call'[d] = call[d]) /\ call' \in [Cpus -> CallType]
  BY <1>1, QuietOK
<1>3. call[c].page = NoPage
  BY <1>1 DEF CallOK
<1>4. CallOK(c)'
  BY <1>2, QuietOK DEF CallOK
<1>5. allocated_mem' \in 0 .. Wrap - 1
  <2>1. call[c].seen \in Int /\ Wrap \in Nat \ {0}
    BY <1>1, SlobAssumption DEF CallType
  <2> QED BY <2>1 DEF Uncount
<1>6. Shapes'
  BY <1>2, <1>5 DEF Uncount, SlobInv, Shapes
<1>7. UNCHANGED <<page, use, free_slob, blocks>>
  BY DEF Uncount
<1> QED BY <1>2, <1>3, <1>4, <1>6, <1>7, QuietOK, StepAside

LEMMA GrowStep ==
  ASSUME SlobInv, NEW c \in Cpus, Grow(c)
  PROVE  SlobInv'
<1>1. call \in [Cpus -> CallType] /\ call[c].at = "grow" /\ CallOK(c) /\ call[c] \in CallType
  BY DEF SlobInv, Shapes, Grow
<1>2. call[c].page = NoPage /\ call[c].req \in Requests
  BY <1>1 DEF CallOK
<1>3. CASE call' = [call EXCEPT ![c] = Quiet] /\ UNCHANGED use
  <2>1. call'[c] = Quiet /\ (\A d \in Cpus \ {c} : call'[d] = call[d]) /\ call' \in [Cpus -> CallType]
    BY <1>1, <1>3, QuietOK
  <2>2. CallOK(c)'
    BY <2>1, QuietOK DEF CallOK
  <2>3. Shapes' /\ UNCHANGED <<page, use, free_slob, blocks>>
    BY <1>3, <2>1 DEF Grow, SlobInv, Shapes
  <2> QED BY <1>2, <2>1, <2>2, <2>3, QuietOK, StepAside
<1>4. CASE \E p \in Pages :
            /\ use[p] = "nobody"
            /\ use' = [use EXCEPT ![p] = "somebody"]
            /\ call' = [call EXCEPT ![c].at = "count", ![c].page = p, ![c].seen = allocated_mem]
  <2>1. PICK p \in Pages :
            /\ use[p] = "nobody"
            /\ use' = [use EXCEPT ![p] = "somebody"]
            /\ call' = [call EXCEPT ![c].at = "count", ![c].page = p, ![c].seen = allocated_mem]
    BY <1>4
  <2>2. UNCHANGED <<page, free_slob, blocks, allocated_mem>>
    BY DEF Grow
  <2>3. /\ call'[c] = [call[c] EXCEPT !.at = "count", !.page = p, !.seen = allocated_mem]
        /\ \A d \in Cpus \ {c} : call'[d] = call[d]
        /\ call' \in [Cpus -> CallType]
    BY <1>1, <2>1 DEF CallType, Phases, SlobInv, Shapes
  <2>4. call'[c].at = "count" /\ call'[c].page = p /\ call'[c].req = call[c].req /\ p # NoPage
    BY <1>1, <2>3, SlobAssumption DEF CallType
  <2>5. use'[p] = "somebody" /\ (\A q \in Pages \ {p} : use'[q] = use[q])
        /\ use' \in [Pages -> {"nobody", "somebody", "slob"}]
    BY <2>1 DEF SlobInv, Shapes
  <2>6. CallOK(c)'
    BY <1>2, <2>4, <2>5 DEF CallOK
  <2>7. \A d \in Cpus \ {c} : call[d].page # p
    BY <2>1, NotCarried
  <2>8. \A q : BlocksOf(q)' = BlocksOf(q) /\ ListsOf(q)' = ListsOf(q)
    BY <2>2 DEF BlocksOf, ListsOf
  <2>9. page[p] \in PageType /\ BlocksOf(p) = {} /\ ListsOf(p) = {}
    BY <2>1 DEF SlobInv, PageOK, Settled
  <2>10. Settled(page'[p], use'[p], BlocksOf(p)', {c}, ListsOf(p)')
    BY <2>2, <2>5, <2>8, <2>9 DEF Settled, BlocksFit
  <2>11. Shapes' /\ ListsOK'
    BY <2>2, <2>3, <2>5 DEF SlobInv, Shapes, ListsOK, ListsOf
  <2>12. /\ \A d \in Cpus \ {c} : call'[d] = call[d] /\ call[d].page # p
         /\ call[c].page \in {NoPage, p} /\ call'[c].page \in {NoPage, p}
    BY <1>2, <2>3, <2>4, <2>7
  <2>13. \A q \in Pages \ {p} : /\ page'[q] = page[q] /\ use'[q] = use[q]
                                 /\ BlocksOf(q)' = BlocksOf(q) /\ ListsOf(q)' = ListsOf(q)
    BY <2>2, <2>5, <2>8
  <2>14. Settled(page'[p], use'[p], BlocksOf(p)', IF call'[c].page = p THEN {c} ELSE {}, ListsOf(p)')
    BY <2>4, <2>10
  <2> QED BY <2>6, <2>11, <2>12, <2>13, <2>14, StepKeeps
<1> QED BY <1>3, <1>4, Zenon DEF Grow

LEMMA ReleaseStep ==
  ASSUME SlobInv, NEW c \in Cpus, Release(c)
  PROVE  SlobInv'
<1>1. call \in [Cpus -> CallType] /\ call[c].at = "release" /\ CallOK(c) /\ call[c] \in CallType
  BY DEF SlobInv, Shapes, Release
<1>2. PICK p \in Pages : p = call[c].page /\ p # NoPage
  BY <1>1 DEF CallOK, CallType
<1>3. BlocksOf(p) = {} /\ ListsOf(p) = {} /\ \A d \in Cpus \ {c} : call[d].page # p
  BY <1>2, Carried
<1>4. /\ UNCHANGED <<page, free_slob, blocks, allocated_mem>>
      /\ use' = [use EXCEPT ![p] = "nobody"]
      /\ call' = [call EXCEPT ![c].at = "uncount", ![c].page = NoPage, ![c].seen = allocated_mem]
  BY <1>2 DEF Release
<1>5. /\ call'[c] = [call[c] EXCEPT !.at = "uncount", !.page = NoPage, !.seen = allocated_mem]
      /\ \A d \in Cpus \ {c} : call'[d] = call[d]
      /\ call' \in [Cpus -> CallType]
  BY <1>1, <1>4 DEF CallType, Phases, SlobInv, Shapes
<1>6. call'[c].at = "uncount" /\ call'[c].page = NoPage
  BY <1>1, <1>5 DEF CallType
<1>7. CallOK(c)'
  BY <1>6 DEF CallOK
<1>8. use'[p] = "nobody" /\ (\A q \in Pages \ {p} : use'[q] = use[q])
      /\ use' \in [Pages -> {"nobody", "somebody", "slob"}]
  BY <1>2, <1>4 DEF SlobInv, Shapes
<1>9. \A q : BlocksOf(q)' = BlocksOf(q) /\ ListsOf(q)' = ListsOf(q)
  BY <1>4 DEF BlocksOf, ListsOf
<1>10. page[p] \in PageType
  BY <1>2 DEF SlobInv, Shapes
<1>11. Settled(page'[p], use'[p], BlocksOf(p)', IF call'[c].page = p THEN {c} ELSE {}, ListsOf(p)')
  <2>1. BlocksOf(p)' = {} /\ ListsOf(p)' = {} /\ page'[p] \in PageType
    BY <1>3, <1>4, <1>9, <1>10
  <2>2. Settled(page'[p], use'[p], {}, {}, {})
    BY <1>8, <2>1 DEF Settled, BlocksFit
  <2> QED BY <1>2, <1>6, <2>1, <2>2
<1>12. Shapes' /\ ListsOK'
  BY <1>4, <1>5, <1>8 DEF SlobInv, Shapes, ListsOK, ListsOf
<1>13. /\ \A d \in Cpus \ {c} : call'[d] = call[d] /\ call[d].page # p
       /\ call[c].page \in {NoPage, p} /\ call'[c].page \in {NoPage, p}
  BY <1>2, <1>3, <1>5, <1>6
<1>14. \A q \in Pages \ {p} : /\ page'[q] = page[q] /\ use'[q] = use[q]
                               /\ BlocksOf(q)' = BlocksOf(q) /\ ListsOf(q)' = ListsOf(q)
  BY <1>4, <1>8, <1>9
<1> QED BY <1>2, <1>7, <1>11, <1>12, <1>13, <1>14, StepKeeps

LEMMA CountStep ==
  ASSUME SlobInv, NEW c \in Cpus, Count(c)
  PROVE  SlobInv' /\ (Whole(call[c].req) => GrantedTo(c))
<1> DEFINE r == call[c].req
<1>1. call \in [Cpus -> CallType] /\ call[c].at = "count" /\ CallOK(c) /\ call[c] \in CallType
  BY DEF SlobInv, Shapes, Count
<1>2. PICK p \in Pages : p = call[c].page /\ p # NoPage /\ use[p] = "somebody"
  BY <1>1 DEF CallOK, CallType
<1>3. BlocksOf(p) = {} /\ ListsOf(p) = {} /\ \A d \in Cpus \ {c} : call[d].page # p
  BY <1>2, Carried
<1>4. UNCHANGED <<page, free_slob>> /\ allocated_mem' \in 0 .. Wrap - 1 /\ r \in Requests
  <2>1. call[c].seen \in Int /\ Wrap \in Nat \ {0}
    BY <1>1, SlobAssumption DEF CallType
  <2> QED BY <1>1, <2>1 DEF Count, CallOK
<1>5. \A q : ListsOf(q)' = ListsOf(q)
  BY <1>4 DEF ListsOf
<1>6. ListsOK' /\ page[p] \in PageType
  BY <1>4 DEF SlobInv, Shapes, ListsOK, ListsOf
<1>7. CASE Whole(r)
  <2> DEFINE b == [page |-> p, at |-> 0, req |-> r]
  <2>1. blocks' = blocks \cup {b} /\ call' = [call EXCEPT ![c] = Quiet] /\ UNCHANGED use
    BY <1>2, <1>7 DEF Count, Obtain
  <2>2. call'[c] = Quiet /\ (\A d \in Cpus \ {c} : call'[d] = call[d]) /\ call' \in [Cpus -> CallType]
    BY <1>1, <2>1, QuietOK
  <2>3. PICK a : a = b
    OBVIOUS
  <2>4. a \in BlockType /\ a.page = p /\ a.at = 0 /\ a.req = r
    BY <1>4, <2>3, Units DEF BlockType
  <2>5. BlocksOf(p)' = {a} /\ \A q \in Pages \ {p} : BlocksOf(q)' = BlocksOf(q)
    BY <1>3, <2>1, <2>3, <2>4, BlocksAre
  <2>6. CallOK(c)'
    BY <2>2, QuietOK DEF CallOK
  <2>7. Shapes'
    BY <1>4, <2>1, <2>2, <2>3, <2>4 DEF SlobInv, Shapes
  <2>8. BlocksFit("somebody", {a}, {})
    BY <1>7, <2>4, Units DEF BlocksFit, Whole
  <2>9. Settled(page'[p], use'[p], BlocksOf(p)', IF call'[c].page = p THEN {c} ELSE {}, ListsOf(p)')
    <3>1. page'[p] \in PageType /\ use'[p] = "somebody" /\ ListsOf(p)' = {} /\ call'[c].page # p
      BY <1>2, <1>3, <1>4, <1>5, <1>6, <2>1, <2>2, QuietOK
    <3>2. Settled(page'[p], "somebody", {a}, {}, {})
      BY <2>8, <3>1 DEF Settled
    <3> QED BY <2>5, <3>1, <3>2
  <2>10. /\ \A d \in Cpus \ {c} : call'[d] = call[d] /\ call[d].page # p
         /\ call[c].page \in {NoPage, p} /\ call'[c].page \in {NoPage, p}
    BY <1>2, <1>3, <2>2, QuietOK
  <2>11. \A q \in Pages \ {p} : /\ page'[q] = page[q] /\ use'[q] = use[q]
                                /\ BlocksOf(q)' = BlocksOf(q) /\ ListsOf(q)' = ListsOf(q)
    BY <1>4, <1>5, <2>1, <2>5
  <2>12. GrantedTo(c)
    <3>1. a \notin BlocksOf(p) /\ a = [page |-> a.page, at |-> a.at, req |-> call[c].req]
      BY <1>3, <2>3
    <3>2. (a.at + r.offset) % r.align = 0
      <4>1. r.offset % r.align = 0 /\ r.offset \in Nat
        BY <1>4, <1>7, RequestIs
      <4>2. a.at + r.offset = r.offset
        BY <2>4, <4>1
      <4> QED BY <4>1, <4>2
    <3> QED BY <2>1, <2>3, <2>4, <3>1, <3>2 DEF GrantedTo, BlocksOf
  <2>13. SlobInv'
    BY <1>6, <2>6, <2>7, <2>9, <2>10, <2>11, StepKeeps
  <2> QED BY <2>12, <2>13
<1>8. CASE ~ Whole(r)
  <2>1. /\ call' = [call EXCEPT ![c].at = "init", ![c].seen = 0]
        /\ use' = [use EXCEPT ![p] = "slob"] /\ UNCHANGED blocks
    BY <1>2, <1>8 DEF Count
  <2>2. /\ call'[c] = [call[c] EXCEPT !.at = "init", !.seen = 0]
        /\ \A d \in Cpus \ {c} : call'[d] = call[d]
        /\ call' \in [Cpus -> CallType]
    <3>1. 0 \in 0 .. Wrap - 1
      BY SlobAssumption
    <3> QED BY <1>1, <2>1, <3>1 DEF CallType, Phases
  <2>3. call'[c].at = "init" /\ call'[c].page = p /\ call'[c].req = r
    BY <1>1, <1>2, <2>2 DEF CallType
  <2>4. use'[p] = "slob" /\ (\A q \in Pages \ {p} : use'[q] = use[q])
        /\ use' \in [Pages -> {"nobody", "somebody", "slob"}]
    BY <2>1 DEF SlobInv, Shapes
  <2>5. CallOK(c)'
    BY <1>2, <1>4, <1>8, <2>3, <2>4 DEF CallOK
  <2>6. \A q : BlocksOf(q)' = BlocksOf(q)
    BY <2>1 DEF BlocksOf
  <2>7. Shapes'
    BY <1>4, <2>1, <2>2, <2>4 DEF SlobInv, Shapes
  <2>8. Settled(page'[p], use'[p], BlocksOf(p)', IF call'[c].page = p THEN {c} ELSE {}, ListsOf(p)')
    <3>1. page'[p] \in PageType /\ BlocksOf(p)' = {} /\ ListsOf(p)' = {}
      BY <1>3, <1>4, <1>5, <1>6, <2>6
    <3>2. Settled(page'[p], "slob", {}, {c}, {})
      BY <3>1 DEF Settled, BlocksFit
    <3> QED BY <2>3, <2>4, <3>1, <3>2
  <2>9. /\ \A d \in Cpus \ {c} : call'[d] = call[d] /\ call[d].page # p
        /\ call[c].page \in {NoPage, p} /\ call'[c].page \in {NoPage, p}
    BY <1>2, <1>3, <2>2, <2>3
  <2>10. \A q \in Pages \ {p} : /\ page'[q] = page[q] /\ use'[q] = use[q]
                                /\ BlocksOf(q)' = BlocksOf(q) /\ ListsOf(q)' = ListsOf(q)
    BY <1>4, <1>5, <2>4, <2>6
  <2>11. SlobInv'
    BY <1>6, <2>5, <2>7, <2>8, <2>9, <2>10, StepKeeps
  <2> QED BY <1>8, <2>11
<1> QED BY <1>7, <1>8

\* The BUG_ON never bites: what is asked for is found in a fresh page.
LEMMA FreshFound ==
  ASSUME NEW r \in Requests, ~ Whole(r)
  PROVE  Allocated(Cells, r.units, r.align, r.offset, PageAlloc(FreshPage, r.units, r.align, r.offset))
<1>1. /\ r.units \in Nat \ {0} /\ r.align \in Nat \ {0} /\ r.offset \in Nat
      /\ Delta(0, r.align, r.offset) + r.units <= PageUnits
  BY RequestIs
<1>2. Account(FreshPage, Cells)
  BY FreshIs
<1>3. Fitting(FreshPage, r.units, r.align, r.offset) # {}
  <2>1. 0 \in Starts(Cells) /\ PageUnits \in Nat
    BY Units DEF Starts
  <2>2. 0 \in FreeBlocks(FreshPage)
    BY <1>2, <2>1, FreeBlocksAre
  <2>3. SlobUnits(FreshPage.mem, 0) = PageUnits
    <3> DEFINE u == SlobUnits(FreshPage.mem, 0)
    <3>1. EndsAt(Cells, 0, 0 + u) /\ u \in Nat /\ 0 + u <= PageUnits
      BY <1>2, <2>1, PieceIs DEF Header
    <3> HIDE DEF u
    <3>2. ~ (0 + u < PageUnits)
      BY <3>1, Units DEF EndsAt
    <3>3. u = PageUnits
      BY <2>1, <3>1, <3>2
    <3> QED BY <3>3 DEF u
  <2>4. Delta(0, r.align, r.offset) \in Nat
    <3>1. 0 \in Nat /\ r.align \in Nat \ {0} /\ r.offset \in Nat
      BY <1>1
    <3>2. Delta(0, r.align, r.offset) \in 0 .. r.align - 1
      BY <3>1, DeltaIs
    <3> HIDE DEF Delta
    <3> QED BY <3>1, <3>2
  <2>5. Left(FreshPage, 0, r.units, r.align, r.offset) >= 0
    BY <1>1, <2>1, <2>3, <2>4 DEF Left
  <2> QED BY <2>2, <2>5 DEF Fitting
<1> QED BY <1>1, <1>2, <1>3, PageAllocIs

LEMMA InitPageStep ==
  ASSUME SlobInv, NEW c \in Cpus, InitPage(c)
  PROVE  SlobInv' /\ GrantedTo(c)
<1>1. call \in [Cpus -> CallType] /\ call[c].at = "init" /\ CallOK(c) /\ call[c] \in CallType
  BY DEF SlobInv, Shapes, InitPage
<1>2. PICK p \in Pages : p = call[c].page /\ p # NoPage /\ use[p] = "slob"
  BY <1>1 DEF CallOK, CallType
<1>3. BlocksOf(p) = {} /\ ListsOf(p) = {} /\ \A d \in Cpus \ {c} : call[d].page # p
  BY <1>2, Carried
<1>4. PICK r \in Requests : r = call[c].req /\ ~ Whole(r)
  BY <1>1 DEF CallOK
<1>5. PICK found : found = PageAlloc(FreshPage, r.units, r.align, r.offset)
  OBVIOUS
<1>6. PICK b : b = [page |-> p, at |-> found.at, req |-> r]
  OBVIOUS
<1>7. /\ page' = [page EXCEPT ![p] = found.page]
      /\ free_slob' = IF found.page.units = 0 THEN free_slob ELSE Enlist(p, ListOf(r.units))
      /\ blocks' = blocks \cup {b} /\ call' = [call EXCEPT ![c] = Quiet]
      /\ UNCHANGED <<use, allocated_mem>>
  BY <1>2, <1>4, <1>5, <1>6, Zenon DEF InitPage, Obtain
<1>8. Allocated(FreeIn({}), r.units, r.align, r.offset, found)
  <2>1. FreeIn({}) = Cells
    BY DEF FreeIn
  <2> QED BY <1>4, <1>5, <2>1, FreshFound
<1>9. ListOf(r.units) \in Lists
  BY DEF ListOf, Lists
<1> DEFINE on == IF found.page.units = 0 THEN {} ELSE {ListOf(r.units)}
<1>10. b \in BlockType /\ Settled(found.page, "slob", {b}, {}, on)
  <2>1. BlocksFit("slob", {}, {})
    BY DEF BlocksFit
  <2>2. b \in BlockType /\ Settled(found.page, "slob", {} \cup {b}, {}, on)
    <3>1. PICK o : o = on
      OBVIOUS
    <3>2. /\ \A l \in {} : l = ListOf(r.units)
          /\ \A d \in {} : ListOf(d.req.units) = ListOf(r.units)
      OBVIOUS
    <3>3. p \in Pages /\ r \in Requests /\ ~ Whole(r)
      BY <1>2, <1>4
    <3>4. o = IF found.page.units = 0 THEN {} ELSE {ListOf(r.units)}
      BY <3>1
    <3>5. b \in BlockType /\ Settled(found.page, "slob", {} \cup {b}, {}, o)
      BY <1>6, <1>8, <2>1, <3>2, <3>3, <3>4, SettledObtain
    <3> QED BY <3>1, <3>5
  <2>3. {} \cup {b} = {b}
    OBVIOUS
  <2> QED BY <2>2, <2>3
<1>11. ListsOK' /\ ListsOf(p)' = on /\ \A q \in Pages \ {p} : ListsOf(q)' = ListsOf(q)
  <2>1. ListsOK
    BY DEF SlobInv
  <2>2. CASE found.page.units = 0
    <3>1. free_slob' = free_slob
      BY <1>7, <2>2
    <3>2. \A q : ListsOf(q)' = ListsOf(q)
      BY <3>1 DEF ListsOf
    <3> QED BY <1>3, <2>1, <2>2, <3>1, <3>2 DEF ListsOK
  <2>3. CASE found.page.units # 0
    BY <1>3, <1>7, <1>9, <2>1, <2>3, EnlistIs
  <2> QED BY <2>2, <2>3
<1> HIDE DEF on
<1>12. BlocksOf(p)' = {b} /\ \A q \in Pages \ {p} : BlocksOf(q)' = BlocksOf(q)
  <2>1. b.page = p
    BY <1>6
  <2> QED BY <1>3, <1>7, <2>1, BlocksAre
<1>13. call'[c] = Quiet /\ (\A d \in Cpus \ {c} : call'[d] = call[d]) /\ call' \in [Cpus -> CallType]
  BY <1>1, <1>7, QuietOK
<1>14. CallOK(c)'
  BY <1>13, QuietOK DEF CallOK
<1>15. /\ page'[p] = found.page /\ found.page \in PageType
       /\ \A q \in Pages \ {p} : page'[q] = page[q]
       /\ page' \in [Pages -> PageType]
  BY <1>7, <1>10 DEF SlobInv, Shapes, Settled
<1>16. Shapes'
  BY <1>7, <1>10, <1>13, <1>15 DEF SlobInv, Shapes
<1>17. Settled(page'[p], use'[p], BlocksOf(p)', IF call'[c].page = p THEN {c} ELSE {}, ListsOf(p)')
  BY <1>2, <1>7, <1>10, <1>11, <1>12, <1>13, <1>15, QuietOK
<1>18. /\ \A d \in Cpus \ {c} : call'[d] = call[d] /\ call[d].page # p
       /\ call[c].page \in {NoPage, p} /\ call'[c].page \in {NoPage, p}
  BY <1>2, <1>3, <1>13, QuietOK
<1>19. \A q \in Pages \ {p} : /\ page'[q] = page[q] /\ use'[q] = use[q]
                              /\ BlocksOf(q)' = BlocksOf(q) /\ ListsOf(q)' = ListsOf(q)
  BY <1>7, <1>11, <1>12, <1>15
<1>20. GrantedTo(c)
  <2>1. b \notin BlocksOf(p) /\ b = [page |-> b.page, at |-> b.at, req |-> call[c].req]
        /\ b.page = p /\ b.at = found.at
    BY <1>3, <1>4, <1>6
  <2>2. found.at \in Nat /\ (found.at + r.offset) % r.align = 0
    BY <1>8 DEF Allocated
  <2> QED BY <1>4, <1>7, <2>1, <2>2 DEF GrantedTo, BlocksOf
<1>21. SlobInv'
  BY <1>11, <1>14, <1>16, <1>17, <1>18, <1>19, StepKeeps
<1> QED BY <1>20, <1>21

LEMMA SearchStep ==
  ASSUME SlobInv, NEW c \in Cpus, Search(c)
  PROVE  /\ SlobInv'
         /\ (UNCHANGED blocks /\ call' = [call EXCEPT ![c].at = "grow"]) \/ GrantedTo(c)
<1>1. call \in [Cpus -> CallType] /\ call[c].at = "search" /\ CallOK(c) /\ call[c] \in CallType
  BY DEF SlobInv, Shapes, Search
<1>2. call[c].page = NoPage
  BY <1>1 DEF CallOK
<1>3. PICK r \in Requests : r = call[c].req /\ ~ Whole(r)
  BY <1>1 DEF CallOK
<1>4. PICK p : p = BestPage(free_slob[ListOf(r.units)], r)
  OBVIOUS
<1>5. PICK found : found = IF p = NoPage THEN [at |-> None]
                           ELSE PageAlloc(page[p], r.units, r.align, r.offset)
  OBVIOUS
<1>6. /\ IF found.at = None
         THEN /\ call' = [call EXCEPT ![c].at = "grow"]
              /\ UNCHANGED <<page, free_slob, blocks>>
         ELSE /\ page' = [page EXCEPT ![p] = found.page]
              /\ free_slob' = IF found.page.units = 0 THEN Delist(p) ELSE free_slob
              /\ Obtain(c, p, found.at)
      /\ UNCHANGED <<use, allocated_mem>>
  BY <1>3, <1>4, <1>5, Zenon DEF Search
<1>7. CASE found.at = None
  <2>1. /\ call'[c] = [call[c] EXCEPT !.at = "grow"]
        /\ \A d \in Cpus \ {c} : call'[d] = call[d]
        /\ call' \in [Cpus -> CallType]
    BY <1>1, <1>6, <1>7 DEF CallType, Phases
  <2>2. call'[c].at = "grow" /\ call'[c].page = NoPage /\ call'[c].req = r
    BY <1>1, <1>2, <1>3, <2>1 DEF CallType
  <2>3. CallOK(c)'
    BY <2>2 DEF CallOK
  <2>4. UNCHANGED <<page, use, free_slob, blocks, allocated_mem>>
    BY <1>6, <1>7
  <2>5. Shapes'
    BY <2>1, <2>4 DEF SlobInv, Shapes
  <2>6. SlobInv'
    BY <1>2, <2>1, <2>2, <2>3, <2>4, <2>5, StepAside
  <2> QED BY <1>6, <1>7, <2>4, <2>6
<1>8. CASE found.at # None
  <2>1. p # NoPage
    BY <1>5, <1>8
  <2>2. p \in Pages /\ ListsOf(p) = {ListOf(r.units)}
    BY <1>4, <2>1, BestPageIs
  <2>3. Settled(page[p], use[p], BlocksOf(p), Carriers(p), ListsOf(p)) /\ ListsOf(p) # {}
    BY <2>2 DEF SlobInv, PageOK
  <2>4. /\ BlocksFit(use[p], BlocksOf(p), ListsOf(p)) /\ use[p] = "slob"
        /\ Account(page[p], FreeIn(BlocksOf(p)))
    BY <2>3 DEF Settled
  <2>5. r.units \in Nat \ {0} /\ r.align \in Nat \ {0} /\ r.offset \in Nat
    BY RequestIs
  <2>6. Allocated(FreeIn(BlocksOf(p)), r.units, r.align, r.offset, found)
    <3>1. found = PageAlloc(page[p], r.units, r.align, r.offset)
      BY <1>5, <2>1
    <3> QED BY <1>8, <2>4, <2>5, <3>1, PageAllocIs
  <2>7. PICK b : b = [page |-> p, at |-> found.at, req |-> r]
    OBVIOUS
  <2>8. /\ page' = [page EXCEPT ![p] = found.page]
        /\ free_slob' = IF found.page.units = 0 THEN Delist(p) ELSE free_slob
        /\ blocks' = blocks \cup {b} /\ call' = [call EXCEPT ![c] = Quiet]
        /\ UNCHANGED <<use, allocated_mem>>
    BY <1>3, <1>6, <1>8, <2>7, Zenon DEF Obtain
  <2> DEFINE on == IF found.page.units = 0 THEN {} ELSE {ListOf(r.units)}
  <2>9. b \notin BlocksOf(p) /\ b \in BlockType /\ Settled(found.page, "slob", BlocksOf(p) \cup {b}, {}, on)
    <3>1. \A l \in ListsOf(p) : l = ListOf(r.units)
      BY <2>2
    <3>2. \A d \in BlocksOf(p) : ListOf(d.req.units) = ListOf(r.units)
      BY <2>2, <2>4 DEF BlocksFit
    <3>3. BlocksFit("slob", BlocksOf(p), ListsOf(p))
      BY <2>4
    <3>4. PICK B : B = BlocksOf(p)
      OBVIOUS
    <3>5. PICK o : o = on
      OBVIOUS
    <3>6. /\ BlocksFit("slob", B, ListsOf(p)) /\ \A d \in B : ListOf(d.req.units) = ListOf(r.units)
          /\ Allocated(FreeIn(B), r.units, r.align, r.offset, found)
      BY <2>6, <3>2, <3>3, <3>4
    <3>7. r \in Requests /\ ~ Whole(r) /\ p \in Pages /\ b = [page |-> p, at |-> found.at, req |-> r]
          /\ o = IF found.page.units = 0 THEN {} ELSE {ListOf(r.units)}
      BY <1>3, <2>2, <2>7, <3>5
    <3>8. b \notin B /\ b \in BlockType /\ Settled(found.page, "slob", B \cup {b}, {}, o)
      BY <3>1, <3>6, <3>7, SettledObtain
    <3> QED BY <3>4, <3>5, <3>8
  <2>10. ListsOK' /\ ListsOf(p)' = on /\ \A q \in Pages \ {p} : ListsOf(q)' = ListsOf(q)
    <3>1. ListsOK
      BY DEF SlobInv
    <3>2. CASE found.page.units = 0
      BY <2>2, <2>8, <3>1, <3>2, DelistIs
    <3>3. CASE found.page.units # 0
      <4>1. free_slob' = free_slob
        BY <2>8, <3>3
      <4>2. \A q : ListsOf(q)' = ListsOf(q)
        BY <4>1 DEF ListsOf
      <4> QED BY <2>2, <3>1, <3>3, <4>1, <4>2 DEF ListsOK
    <3> QED BY <3>2, <3>3
  <2> HIDE DEF on
  <2>11. BlocksOf(p)' = BlocksOf(p) \cup {b} /\ \A q \in Pages \ {p} : BlocksOf(q)' = BlocksOf(q)
    <3>1. b.page = p
      BY <2>7
    <3> QED BY <2>8, <3>1, BlocksAre
  <2>12. call'[c] = Quiet /\ (\A d \in Cpus \ {c} : call'[d] = call[d]) /\ call' \in [Cpus -> CallType]
    BY <1>1, <2>8, QuietOK
  <2>13. CallOK(c)'
    BY <2>12, QuietOK DEF CallOK
  <2>14. /\ page'[p] = found.page /\ found.page \in PageType
         /\ \A q \in Pages \ {p} : page'[q] = page[q]
         /\ page' \in [Pages -> PageType]
    BY <2>2, <2>8, <2>9 DEF SlobInv, Shapes, Settled
  <2>15. Shapes'
    BY <2>8, <2>9, <2>12, <2>14 DEF SlobInv, Shapes
  <2>16. call'[c].page # p /\ call'[c].page = NoPage
    BY <2>1, <2>12, QuietOK
  <2>17. Settled(page'[p], use'[p], BlocksOf(p)', IF call'[c].page = p THEN {c} ELSE {}, ListsOf(p)')
    <3>1. use'[p] = "slob"
      BY <2>4, <2>8
    <3> QED BY <2>9, <2>10, <2>11, <2>14, <2>16, <3>1
  <2>18. /\ \A d \in Cpus \ {c} : call'[d] = call[d] /\ call[d].page # p
         /\ call[c].page \in {NoPage, p} /\ call'[c].page \in {NoPage, p}
    BY <1>2, <2>2, <2>3, <2>12, <2>16, NotCarried
  <2>19. \A q \in Pages \ {p} : /\ page'[q] = page[q] /\ use'[q] = use[q]
                                /\ BlocksOf(q)' = BlocksOf(q) /\ ListsOf(q)' = ListsOf(q)
    BY <2>8, <2>10, <2>11, <2>14
  <2>20. GrantedTo(c)
    <3>1. b = [page |-> b.page, at |-> b.at, req |-> call[c].req] /\ b.page = p /\ b.at = found.at
      BY <1>3, <2>7
    <3>2. found.at \in Nat /\ (found.at + r.offset) % r.align = 0
      BY <2>6 DEF Allocated
    <3> QED BY <1>3, <2>2, <2>8, <2>9, <3>1, <3>2 DEF GrantedTo, BlocksOf
  <2>21. SlobInv'
    BY <2>2, <2>10, <2>13, <2>15, <2>17, <2>18, <2>19, StepKeeps
  <2> QED BY <2>20, <2>21
<1> QED BY <1>7, <1>8

LEMMA FreeWholeStep ==
  ASSUME SlobInv, NEW c \in Cpus, call[c].at = "idle", NEW b \in blocks, blocks' = blocks \ {b},
         Whole(b.req), FreeWhole(c, b), UNCHANGED allocated_mem
  PROVE  SlobInv'
<1>1. call \in [Cpus -> CallType] /\ CallOK(c) /\ call[c] \in CallType /\ b \in BlockType
  BY DEF SlobInv, Shapes
<1>2. call[c].page = NoPage
  BY <1>1 DEF CallOK
<1>3. PICK p \in Pages : p = b.page
  BY <1>1, BlockIs
<1>4. p # NoPage /\ b \in BlocksOf(p)
  BY <1>3, SlobAssumption DEF BlocksOf
<1>5. \A d \in Cpus : call[d].page # p
  BY <1>4, NotCarried
<1>6. BlocksFit(use[p], BlocksOf(p), ListsOf(p)) /\ page[p] \in PageType
  BY DEF SlobInv, PageOK, Settled
<1>7. BlocksOf(p) = {b}
  BY <1>4, <1>6, SettledWhole
<1>8. use[p] = "somebody"
  BY <1>4, <1>6 DEF BlocksFit
<1>9. ListsOf(p) = {}
  BY <1>8 DEF SlobInv, PageOK, Settled
<1>10. UNCHANGED <<page, free_slob, allocated_mem>>
  BY DEF FreeWhole
<1>11. BlocksOf(p)' = {} /\ \A q \in Pages \ {p} : BlocksOf(q)' = BlocksOf(q)
  BY <1>3, <1>7, BlocksAre
<1>12. \A q : ListsOf(q)' = ListsOf(q)
  BY <1>10 DEF ListsOf
<1>13. ListsOK'
  BY <1>10 DEF SlobInv, ListsOK, ListsOf
<1>14. CASE b.req.cache
  <2>1. use' = use /\ call' = [call EXCEPT ![c].at = "release", ![c].page = p]
    BY <1>3, <1>14 DEF FreeWhole
  <2>2. /\ call'[c] = [call[c] EXCEPT !.at = "release", !.page = p]
        /\ \A d \in Cpus \ {c} : call'[d] = call[d]
        /\ call' \in [Cpus -> CallType]
    BY <1>1, <2>1 DEF CallType, Phases
  <2>3. call'[c].at = "release" /\ call'[c].page = p
    BY <1>1, <2>2 DEF CallType
  <2>4. CallOK(c)'
    BY <1>4, <2>3 DEF CallOK
  <2>5. Shapes'
    BY <1>10, <2>1, <2>2 DEF SlobInv, Shapes
  <2>6. Settled(page'[p], use'[p], BlocksOf(p)', IF call'[c].page = p THEN {c} ELSE {}, ListsOf(p)')
    <3>1. page'[p] \in PageType /\ use'[p] = "somebody" /\ BlocksOf(p)' = {} /\ ListsOf(p)' = {}
      BY <1>6, <1>8, <1>9, <1>10, <1>11, <1>12, <2>1
    <3>2. Settled(page'[p], "somebody", {}, {c}, {})
      BY <3>1 DEF Settled, BlocksFit
    <3> QED BY <2>3, <3>1, <3>2
  <2>7. /\ \A d \in Cpus \ {c} : call'[d] = call[d] /\ call[d].page # p
        /\ call[c].page \in {NoPage, p} /\ call'[c].page \in {NoPage, p}
    BY <1>2, <1>5, <2>2, <2>3
  <2>8. \A q \in Pages \ {p} : /\ page'[q] = page[q] /\ use'[q] = use[q]
                               /\ BlocksOf(q)' = BlocksOf(q) /\ ListsOf(q)' = ListsOf(q)
    BY <1>10, <1>11, <1>12, <2>1
  <2> QED BY <1>13, <2>4, <2>5, <2>6, <2>7, <2>8, StepKeeps
<1>15. CASE ~ b.req.cache
  <2>1. use' = [use EXCEPT ![p] = "nobody"] /\ call' = call
    BY <1>3, <1>15 DEF FreeWhole
  <2>2. use'[p] = "nobody" /\ (\A q \in Pages \ {p} : use'[q] = use[q])
        /\ use' \in [Pages -> {"nobody", "somebody", "slob"}]
    BY <2>1 DEF SlobInv, Shapes
  <2>3. CallOK(c)'
    BY <1>2, <2>1 DEF CallOK
  <2>4. Shapes'
    BY <1>10, <2>1, <2>2 DEF SlobInv, Shapes
  <2>5. Settled(page'[p], use'[p], BlocksOf(p)', IF call'[c].page = p THEN {c} ELSE {}, ListsOf(p)')
    <3>1. page'[p] \in PageType /\ use'[p] = "nobody" /\ BlocksOf(p)' = {} /\ ListsOf(p)' = {}
      BY <1>6, <1>9, <1>10, <1>11, <1>12, <2>2
    <3>2. Settled(page'[p], "nobody", {}, {}, {})
      BY <3>1 DEF Settled, BlocksFit
    <3>3. call'[c].page # p
      BY <1>5, <2>1
    <3> QED BY <3>1, <3>2, <3>3
  <2>6. /\ \A d \in Cpus \ {c} : call'[d] = call[d] /\ call[d].page # p
        /\ call[c].page \in {NoPage, p} /\ call'[c].page \in {NoPage, p}
    BY <1>2, <1>5, <2>1
  <2>7. \A q \in Pages \ {p} : /\ page'[q] = page[q] /\ use'[q] = use[q]
                               /\ BlocksOf(q)' = BlocksOf(q) /\ ListsOf(q)' = ListsOf(q)
    BY <1>10, <1>11, <1>12, <2>2
  <2> QED BY <1>13, <2>3, <2>4, <2>5, <2>6, <2>7, StepKeeps
<1> QED BY <1>14, <1>15

LEMMA FreeSmallStep ==
  ASSUME SlobInv, NEW c \in Cpus, call[c].at = "idle", NEW b \in blocks, blocks' = blocks \ {b},
         ~ Whole(b.req), FreeSmall(c, b), UNCHANGED allocated_mem
  PROVE  SlobInv'
<1>1. call \in [Cpus -> CallType] /\ CallOK(c) /\ call[c] \in CallType /\ b \in BlockType
  BY DEF SlobInv, Shapes
<1>2. call[c].page = NoPage
  BY <1>1 DEF CallOK
<1>3. PICK p \in Pages : p = b.page
  BY <1>1, BlockIs
<1>4. p # NoPage /\ b \in BlocksOf(p)
  BY <1>3, SlobAssumption DEF BlocksOf
<1>5. Carriers(p) = {} /\ \A d \in Cpus : call[d].page # p
  BY <1>4, NotCarried
<1>6. PageOK(p) /\ ListsOK
  BY DEF SlobInv
<1>7. use[p] = "slob"
  BY <1>4, <1>6 DEF PageOK, Settled, BlocksFit
<1>8. Settled(page[p], "slob", BlocksOf(p), {}, ListsOf(p))
  BY <1>5, <1>6, <1>7 DEF PageOK
<1>9. BlocksOf(p)' = BlocksOf(p) \ {b} /\ \A q \in Pages \ {p} : BlocksOf(q)' = BlocksOf(q)
  BY <1>3, BlocksAre
<1>10. PICK units : units = b.req.units
  OBVIOUS
<1>11. UNCHANGED use
  BY DEF FreeSmall
<1>12. CASE page[p].units + units = PageUnits
  <2>1. /\ page' = [page EXCEPT ![p] = FreshPage] /\ free_slob' = Delist(p)
        /\ call' = [call EXCEPT ![c].at = "release", ![c].page = p]
    BY <1>3, <1>10, <1>12 DEF FreeSmall
  <2>2. BlocksOf(p)' = {}
    BY <1>4, <1>8, <1>9, <1>10, <1>12, SettledLast
  <2>3. ListsOK' /\ ListsOf(p)' = {} /\ \A q \in Pages \ {p} : ListsOf(q)' = ListsOf(q)
    BY <1>6, <2>1, DelistIs
  <2>4. /\ call'[c] = [call[c] EXCEPT !.at = "release", !.page = p]
        /\ \A d \in Cpus \ {c} : call'[d] = call[d]
        /\ call' \in [Cpus -> CallType]
    BY <1>1, <2>1 DEF CallType, Phases
  <2>5. call'[c].at = "release" /\ call'[c].page = p
    BY <1>1, <2>4 DEF CallType
  <2>6. CallOK(c)'
    BY <1>4, <2>5 DEF CallOK
  <2>7. FreshPage \in PageType
    BY FreshIs DEF Account
  <2>8. /\ page'[p] = FreshPage /\ \A q \in Pages \ {p} : page'[q] = page[q]
        /\ page' \in [Pages -> PageType]
    BY <2>1, <2>7 DEF SlobInv, Shapes
  <2>9. Shapes'
    BY <1>11, <2>4, <2>8 DEF SlobInv, Shapes
  <2>10. Settled(page'[p], use'[p], BlocksOf(p)', IF call'[c].page = p THEN {c} ELSE {}, ListsOf(p)')
    <3>1. page'[p] \in PageType /\ use'[p] = "slob" /\ BlocksOf(p)' = {} /\ ListsOf(p)' = {}
      BY <1>7, <1>11, <2>2, <2>3, <2>7, <2>8
    <3>2. Settled(page'[p], "slob", {}, {c}, {})
      BY <3>1 DEF Settled, BlocksFit
    <3> QED BY <2>5, <3>1, <3>2
  <2>11. /\ \A d \in Cpus \ {c} : call'[d] = call[d] /\ call[d].page # p
         /\ call[c].page \in {NoPage, p} /\ call'[c].page \in {NoPage, p}
    BY <1>2, <1>5, <2>4, <2>5
  <2>12. \A q \in Pages \ {p} : /\ page'[q] = page[q] /\ use'[q] = use[q]
                                /\ BlocksOf(q)' = BlocksOf(q) /\ ListsOf(q)' = ListsOf(q)
    BY <1>9, <1>11, <2>3, <2>8
  <2> QED BY <2>3, <2>6, <2>9, <2>10, <2>11, <2>12, StepKeeps
<1>13. CASE page[p].units + units # PageUnits
  <2>1. call' = call
    BY <1>3, <1>10, <1>13 DEF FreeSmall
  <2>2. Listed(p) <=> ListsOf(p) # {}
    BY DEF Listed, ListsOf
  <2>3. PICK q : q = IF ListsOf(p) # {} THEN Reinsert(page[p], b.at, units) ELSE FirstFreed(page[p], b.at, units)
    OBVIOUS
  <2>4. page' = [page EXCEPT ![p] = q]
    <3>1. CASE Listed(p)
      BY <1>3, <1>10, <1>13, <2>2, <2>3, <3>1 DEF FreeSmall, SlobInv, Shapes
    <3>2. CASE ~ Listed(p)
      BY <1>3, <1>10, <1>13, <2>2, <2>3, <3>2 DEF FreeSmall, SlobInv, Shapes
    <3> QED BY <3>1, <3>2
  <2>5. Settled(q, "slob", BlocksOf(p) \ {b}, {}, {ListOf(units)})
    BY <1>4, <1>8, <1>10, <1>13, <2>3, SettledFree
  <2>6. ListsOK' /\ ListsOf(p)' = {ListOf(units)} /\ \A k \in Pages \ {p} : ListsOf(k)' = ListsOf(k)
    <3>1. ListOf(units) \in Lists
      BY DEF ListOf, Lists
    <3>2. CASE Listed(p)
      <4>1. free_slob' = free_slob
        BY <1>3, <1>10, <1>13, <3>2 DEF FreeSmall
      <4>2. \A k : ListsOf(k)' = ListsOf(k)
        BY <4>1 DEF ListsOf
      <4>3. ListsOf(p) = {ListOf(units)}
        BY <1>4, <1>8, <1>10, <2>2, <3>2 DEF Settled, BlocksFit
      <4> QED BY <1>6, <4>1, <4>2, <4>3 DEF ListsOK
    <3>3. CASE ~ Listed(p)
      <4>1. free_slob' = Enlist(p, ListOf(units))
        BY <1>3, <1>10, <1>13, <3>3 DEF FreeSmall
      <4> QED BY <1>6, <2>2, <3>1, <3>3, <4>1, EnlistIs
    <3> QED BY <3>2, <3>3
  <2>7. CallOK(c)'
    BY <1>2, <2>1 DEF CallOK
  <2>8. /\ page'[p] = q /\ (\A k \in Pages \ {p} : page'[k] = page[k])
        /\ page' \in [Pages -> PageType]
    BY <2>4, <2>5 DEF SlobInv, Shapes, Settled
  <2>9. Shapes'
    BY <1>11, <2>1, <2>8 DEF SlobInv, Shapes
  <2>10. Settled(page'[p], use'[p], BlocksOf(p)', IF call'[c].page = p THEN {c} ELSE {}, ListsOf(p)')
    <3>1. call'[c].page # p
      BY <1>5, <2>1
    <3> QED BY <1>7, <1>9, <1>11, <2>5, <2>6, <2>8, <3>1
  <2>11. /\ \A d \in Cpus \ {c} : call'[d] = call[d] /\ call[d].page # p
         /\ call[c].page \in {NoPage, p} /\ call'[c].page \in {NoPage, p}
    BY <1>2, <1>5, <2>1
  <2>12. \A k \in Pages \ {p} : /\ page'[k] = page[k] /\ use'[k] = use[k]
                                /\ BlocksOf(k)' = BlocksOf(k) /\ ListsOf(k)' = ListsOf(k)
    BY <1>9, <1>11, <2>6, <2>8
  <2> QED BY <2>6, <2>7, <2>9, <2>10, <2>11, <2>12, StepKeeps
<1> QED BY <1>12, <1>13

LEMMA FreeStep ==
  ASSUME SlobInv, NEW c \in Cpus, Free(c)
  PROVE  SlobInv'
BY FreeWholeStep, FreeSmallStep, Zenon DEF Free

LEMMA SlobStep == SlobInv /\ [Next]_vars => SlobInv'
<1> SUFFICES ASSUME SlobInv, [Next]_vars PROVE SlobInv'
  OBVIOUS
<1>1. CASE UNCHANGED vars
  <2> USE <1>1 DEF vars
  <2>1. Shapes'
    BY DEF SlobInv, Shapes
  <2>2. ListsOK'
    BY DEF SlobInv, ListsOK, ListsOf
  <2>3. \A c \in Cpus : CallOK(c)'
    BY DEF SlobInv, CallOK
  <2>4. \A p \in Pages : PageOK(p)'
    BY DEF SlobInv, PageOK, BlocksOf, Carriers, ListsOf
  <2> QED BY <2>1, <2>2, <2>3, <2>4 DEF SlobInv
<1>2. ASSUME NEW c \in Cpus, Malloc(c) PROVE SlobInv'
  BY <1>2, MallocStep
<1>3. ASSUME NEW c \in Cpus, Search(c) PROVE SlobInv'
  BY <1>3, SearchStep
<1>4. ASSUME NEW c \in Cpus, Grow(c) PROVE SlobInv'
  BY <1>4, GrowStep
<1>5. ASSUME NEW c \in Cpus, Count(c) PROVE SlobInv'
  BY <1>5, CountStep
<1>6. ASSUME NEW c \in Cpus, InitPage(c) PROVE SlobInv'
  BY <1>6, InitPageStep
<1>7. ASSUME NEW c \in Cpus, Free(c) PROVE SlobInv'
  BY <1>7, FreeStep
<1>8. ASSUME NEW c \in Cpus, Release(c) PROVE SlobInv'
  BY <1>8, ReleaseStep
<1>9. ASSUME NEW c \in Cpus, Uncount(c) PROVE SlobInv'
  BY <1>9, UncountStep
<1> QED BY <1>1, <1>2, <1>3, <1>4, <1>5, <1>6, <1>7, <1>8, <1>9 DEF Next

(* The invariant holds: in every page the lists, the account, the blocks   *)
(* and those who carry it agree, whatever is asked for and in which order. *)
THEOREM SlobInvariant == Spec => []SlobInv
BY SlobInit, SlobStep, PTL DEF Spec-----------------------------------------------------------------------------
(* The properties                                                          *)

(* Types, and that the search in a fresh page never fails (BUG_ON).        *)
THEOREM SlobTyped == Spec => []TypeOK
<1>1. SlobInv => TypeOK
  BY DEF SlobInv, Shapes, ListsOK, CallType, TypeOK
<1> QED BY <1>1, SlobInvariant, PTL

(* A page is on one list, once, exactly if it is partly free; its chain of *)
(* free blocks is exactly what its users have left, in maximal pieces; and *)
(* its count is exact.                                                     *)
THEOREM SlobPagesSound == Spec => []PagesSound
<1>1. SlobInv => PagesSound
  <2> SUFFICES ASSUME SlobInv, NEW p \in Pages
               PROVE  /\ \A l, m \in Lists : \A i \in DOMAIN free_slob[l], j \in DOMAIN free_slob[m] :
                           free_slob[l][i] = p /\ free_slob[m][j] = p => l = m /\ i = j
                      /\ Listed(p) => use[p] = "slob" /\ ~ InTransit(p) /\ PageSound(p)
                      /\ use[p] = "slob" /\ ~ InTransit(p) /\ ~ Listed(p) => TakenCells(p) = Cells
                      /\ \A b \in BlocksOf(p) :
                           /\ use[p] = IF Whole(b.req) THEN "somebody" ELSE "slob"
                           /\ Listed(p) => p \in ToSet(free_slob[ListOf(b.req.units)])
    BY Zenon DEF PagesSound
  <2>1. ListsOK /\ Settled(page[p], use[p], BlocksOf(p), Carriers(p), ListsOf(p))
    BY DEF SlobInv, PageOK
  <2>2. /\ Listed(p) <=> ListsOf(p) # {}
        /\ InTransit(p) <=> Carriers(p) # {}
    BY DEF Listed, ListsOf, InTransit, Carriers
  <2>3. ASSUME NEW l \in Lists, NEW m \in Lists, NEW i \in DOMAIN free_slob[l], NEW j \in DOMAIN free_slob[m],
               free_slob[l][i] = p, free_slob[m][j] = p
        PROVE  l = m /\ i = j
    <3>1. l \in ListsOf(p) /\ m \in ListsOf(p)
      BY <2>3 DEF ListsOf, ToSet
    <3>2. l = m
      BY <2>1, <3>1 DEF ListsOK
    <3> QED BY <2>1, <2>3, <3>2 DEF ListsOK, NoRepeat
  <2>4. FreeIn(BlocksOf(p)) = Cells \ TakenCells(p)
    BY DEF FreeIn, TakenCells, CellsOf, Interval
  <2>5. TakenCells(p) \subseteq Cells
    <3> SUFFICES ASSUME NEW b \in BlocksOf(p), NEW x \in b.at .. b.at + b.req.units - 1 PROVE x \in Cells
      BY DEF TakenCells
    <3>1. b \in BlockType /\ b.at + b.req.units <= PageUnits
      BY <2>1 DEF Settled, BlocksFit
    <3>2. b.at \in Nat /\ b.req.units \in Nat
      BY <3>1, BlockIs
    <3> QED BY <3>1, <3>2, Units
  <2>6. ASSUME Listed(p) PROVE use[p] = "slob" /\ ~ InTransit(p) /\ PageSound(p)
    <3>1. use[p] = "slob" /\ ~ InTransit(p) /\ Account(page[p], FreeIn(BlocksOf(p)))
      BY <2>1, <2>2, <2>6 DEF Settled
    <3>2. FreeCells(page[p]) = Cells \ TakenCells(p)
      BY <2>4, <3>1, FreeCellsAre
    <3>3. page[p].units = Cardinality(Cells \ TakenCells(p))
      BY <2>4, <3>1 DEF Account
    <3>4. \A s, t \in FreeBlocks(page[p]) : s + SlobUnits(page[p].mem, s) # t
      BY <3>1, PiecesApart
    <3> QED BY <3>1, <3>2, <3>3, <3>4, Zenon DEF PageSound
  <2>7. ASSUME use[p] = "slob", ~ InTransit(p), ~ Listed(p) PROVE TakenCells(p) = Cells
    <3>1. FreeIn(BlocksOf(p)) = {}
      BY <2>1, <2>2, <2>7 DEF Settled
    <3> QED BY <2>4, <2>5, <3>1
  <2>8. ASSUME NEW b \in BlocksOf(p)
        PROVE  /\ use[p] = IF Whole(b.req) THEN "somebody" ELSE "slob"
               /\ Listed(p) => p \in ToSet(free_slob[ListOf(b.req.units)])
    BY <2>1 DEF Settled, BlocksFit, Listed, ListsOf
  <2> QED BY <2>3, <2>6, <2>7, <2>8
<1> QED BY <1>1, SlobInvariant, PTL

LEMMA AskedIs ==
  ASSUME NEW c \in Cpus, \A d \in Cpus \ {c} : call'[d] = call[d]
  PROVE  Asked' = [Asked EXCEPT ![c] = Asked'[c]]
BY DEF Asked

LEMMA GrantIs ==
  ASSUME SlobInv, SlobInv', NEW c \in Cpus, GrantedTo(c), call[c].at \in {"search", "count", "init"}
  PROVE  Promise!Grant(c)
<1>1. PICK b : /\ b \notin blocks /\ blocks' = blocks \cup {b} /\ b.page \in Pages /\ b.at \in Nat
               /\ b = [page |-> b.page, at |-> b.at, req |-> call[c].req]
               /\ (b.at + call[c].req.offset) % call[c].req.align = 0
               /\ call' = [call EXCEPT ![c] = Quiet]
  BY DEF GrantedTo
<1>2. PICK r \in Requests : r = call[c].req
  BY DEF SlobInv, CallOK
<1>3. call \in [Cpus -> CallType]
  BY DEF SlobInv, Shapes
<1>4. Asked[c] = r /\ r # NoRequest
  BY <1>2, RequestIs DEF Asked
<1>5. Asked' = [Asked EXCEPT ![c] = NoRequest]
  <2>1. call'[c].at = "idle" /\ \A d \in Cpus \ {c} : call'[d] = call[d]
    BY <1>1, <1>3, QuietOK
  <2>2. Asked'[c] = NoRequest
    BY <2>1 DEF Asked
  <2> QED BY <2>1, <2>2, AskedIs
<1>6. BlocksFit(use'[b.page], BlocksOf(b.page)', ListsOf(b.page)') /\ b \in BlocksOf(b.page)'
  <2>1. PageOK(b.page)'
    BY <1>1 DEF SlobInv
  <2> QED BY <1>1, <2>1 DEF PageOK, Settled, BlocksOf
<1>7. b.at \in 0 .. PageUnits - r.units
  <2>1. b.at + b.req.units <= PageUnits /\ b.req = r
    BY <1>1, <1>2, <1>6 DEF BlocksFit
  <2>2. r.units \in Nat
    BY RequestIs
  <2> QED BY <1>1, <2>1, <2>2, Units
<1>8. ASSUME NEW other \in blocks PROVE Promise!Extent(b) \cap Promise!Extent(other) = {}
  <2>1. CASE other.page # b.page
    BY <2>1 DEF Promise!Extent
  <2>2. CASE other.page = b.page
    <3>1. other # b /\ other \in BlocksOf(b.page)'
      BY <1>1, <2>2 DEF BlocksOf
    <3>2. CellsOf(other) \cap CellsOf(b) = {}
      BY <1>6, <3>1 DEF BlocksFit
    <3> QED BY <3>2 DEF Promise!Extent, CellsOf, Interval
  <2> QED BY <2>1, <2>2
<1>9. b = [page |-> b.page, at |-> b.at, req |-> r] /\ (b.at + r.offset) % r.align = 0
  BY <1>1, <1>2
<1> QED BY <1>1, <1>4, <1>5, <1>7, <1>8, <1>9 DEF Promise!Grant

(* slob_alloc and slob_free implement the heap: what is granted has the    *)
(* size and the alignment asked for and shares no memory with what others  *)
(* have; only a request is answered, and only its owner gives a block back. *)
THEOREM SlobImplementsHeap == Spec => ImplementsHeap
<1>1. Init => Promise!HeapInit
  <2> SUFFICES ASSUME Init PROVE blocks = {} /\ Asked = [c \in Cpus |-> NoRequest]
    BY DEF Promise!HeapInit
  <2>1. \A c \in Cpus : call[c].at = "idle"
    BY QuietOK DEF Init
  <2> QED BY <2>1 DEF Init, Asked
<1>2. SlobInv /\ SlobInv' /\ [Next]_vars => [Promise!HeapNext]_(Promise!heapVars)
  <2> SUFFICES ASSUME SlobInv, SlobInv', [Next]_vars
               PROVE  Promise!HeapNext \/ (blocks' = blocks /\ Asked' = Asked)
    BY DEF Promise!heapVars
  <2>0. call \in [Cpus -> CallType] /\ \A c \in Cpus : CallOK(c)
    BY DEF SlobInv, Shapes
  <2>1. ASSUME NEW c \in Cpus, Malloc(c) PROVE Promise!HeapNext
    <3>1. PICK r \in Requests :
            call' = [call EXCEPT ![c].req = r, ![c].at = IF Whole(r) THEN "grow" ELSE "search"]
      BY <2>1 DEF Malloc
    <3>2. call[c].at = "idle" /\ UNCHANGED blocks
      BY <2>1 DEF Malloc
    <3>3. /\ call'[c].at \in {"grow", "search"} /\ call'[c].req = r
          /\ \A d \in Cpus \ {c} : call'[d] = call[d]
      BY <2>0, <3>1 DEF CallType
    <3>4. Asked[c] = NoRequest /\ Asked'[c] = r
      BY <3>2, <3>3 DEF Asked
    <3>5. Asked' = [Asked EXCEPT ![c] = r]
      BY <3>3, <3>4, AskedIs
    <3>6. Promise!Ask(c)
      BY <3>2, <3>4, <3>5 DEF Promise!Ask
    <3> QED BY <3>6 DEF Promise!HeapNext
  <2>2. ASSUME NEW c \in Cpus, UNCHANGED blocks,
               call[c].at \in {"search", "grow", "count", "init"},
               call'[c].at \in {"search", "grow", "count", "init"}, call'[c].req = call[c].req,
               \A d \in Cpus \ {c} : call'[d] = call[d]
        PROVE  blocks' = blocks /\ Asked' = Asked
    BY <2>2 DEF Asked
  <2>3. ASSUME NEW c \in Cpus,
               call[c].at \notin {"search", "grow", "count", "init"},
               call'[c].at \notin {"search", "grow", "count", "init"},
               \A d \in Cpus \ {c} : call'[d] = call[d]
        PROVE  Asked' = Asked
    BY <2>3 DEF Asked
  <2>4. ASSUME NEW c \in Cpus, GrantedTo(c), call[c].at \in {"search", "count", "init"}
        PROVE  Promise!HeapNext
    BY <2>4, GrantIs DEF Promise!HeapNext
  <2>5. ASSUME NEW c \in Cpus, Search(c) PROVE Promise!HeapNext \/ (blocks' = blocks /\ Asked' = Asked)
    <3>1. call[c].at = "search"
      BY <2>5 DEF Search
    <3>2. CASE GrantedTo(c)
      BY <2>4, <3>1, <3>2
    <3>3. CASE UNCHANGED blocks /\ call' = [call EXCEPT ![c].at = "grow"]
      <4>1. call'[c].at = "grow" /\ call'[c].req = call[c].req /\ \A d \in Cpus \ {c} : call'[d] = call[d]
        BY <2>0, <3>3 DEF CallType
      <4> QED BY <2>2, <3>1, <3>3, <4>1
    <3> QED BY <2>5, <3>2, <3>3, SearchStep
  <2>6. ASSUME NEW c \in Cpus, Grow(c) PROVE Promise!HeapNext \/ (blocks' = blocks /\ Asked' = Asked)
    <3>1. call[c].at = "grow" /\ UNCHANGED blocks
      BY <2>6 DEF Grow
    <3>2. CASE call' = [call EXCEPT ![c] = Quiet]
      <4>1. call'[c].at = "idle" /\ \A d \in Cpus \ {c} : call'[d] = call[d]
        BY <2>0, <3>2, QuietOK
      <4>2. Asked'[c] = NoRequest /\ Asked[c] = call[c].req
        BY <3>1, <4>1 DEF Asked
      <4>3. Asked[c] # NoRequest
        BY <2>0, <3>1, <4>2, RequestIs DEF CallOK
      <4>4. Promise!Refuse(c)
        BY <3>1, <4>1, <4>2, <4>3, AskedIs DEF Promise!Refuse
      <4> QED BY <4>4 DEF Promise!HeapNext
    <3>3. CASE \E p \in Pages :
                 call' = [call EXCEPT ![c].at = "count", ![c].page = p, ![c].seen = allocated_mem]
      <4>1. call'[c].at = "count" /\ call'[c].req = call[c].req /\ \A d \in Cpus \ {c} : call'[d] = call[d]
        BY <2>0, <3>3 DEF CallType
      <4> QED BY <2>2, <3>1, <4>1
    <3> QED BY <2>6, <3>2, <3>3, Zenon DEF Grow
  <2>7. ASSUME NEW c \in Cpus, Count(c) PROVE Promise!HeapNext \/ (blocks' = blocks /\ Asked' = Asked)
    <3>1. call[c].at = "count"
      BY <2>7 DEF Count
    <3>2. CASE Whole(call[c].req)
      BY <2>4, <2>7, <3>1, <3>2, CountStep
    <3>3. CASE ~ Whole(call[c].req)
      <4>1. UNCHANGED blocks /\ call' = [call EXCEPT ![c].at = "init", ![c].seen = 0]
        BY <2>7, <3>3 DEF Count
      <4>2. call'[c].at = "init" /\ call'[c].req = call[c].req /\ \A d \in Cpus \ {c} : call'[d] = call[d]
        BY <2>0, <4>1 DEF CallType
      <4> QED BY <2>2, <3>1, <4>1, <4>2
    <3> QED BY <3>2, <3>3
  <2>8. ASSUME NEW c \in Cpus, InitPage(c) PROVE Promise!HeapNext
    <3>1. call[c].at = "init"
      BY <2>8 DEF InitPage
    <3> QED BY <2>4, <2>8, <3>1, InitPageStep
  <2>9. ASSUME NEW c \in Cpus, Free(c) PROVE Promise!HeapNext
    <3>1. PICK b \in blocks : /\ blocks' = blocks \ {b}
                              /\ IF Whole(b.req) THEN FreeWhole(c, b) ELSE FreeSmall(c, b)
      BY <2>9 DEF Free
    <3>2. call[c].at = "idle"
      BY <2>9 DEF Free
    <3>3. call' = call \/ call' = [call EXCEPT ![c].at = "release", ![c].page = b.page]
      BY <3>1, Zenon DEF FreeWhole, FreeSmall
    <3>4. call'[c].at \in {"idle", "release"} /\ \A d \in Cpus \ {c} : call'[d] = call[d]
      BY <2>0, <3>2, <3>3 DEF CallType
    <3>5. Asked' = Asked
      BY <2>3, <3>2, <3>4
    <3> QED BY <3>1, <3>5 DEF Promise!HeapNext, Promise!Give
  <2>10. ASSUME NEW c \in Cpus, Release(c) PROVE blocks' = blocks /\ Asked' = Asked
    <3>1. /\ call[c].at = "release" /\ UNCHANGED blocks
          /\ call' = [call EXCEPT ![c].at = "uncount", ![c].page = NoPage, ![c].seen = allocated_mem]
      BY <2>10 DEF Release
    <3>2. call'[c].at = "uncount" /\ \A d \in Cpus \ {c} : call'[d] = call[d]
      BY <2>0, <3>1 DEF CallType
    <3> QED BY <2>3, <3>1, <3>2
  <2>11. ASSUME NEW c \in Cpus, Uncount(c) PROVE blocks' = blocks /\ Asked' = Asked
    <3>1. call[c].at = "uncount" /\ UNCHANGED blocks /\ call' = [call EXCEPT ![c] = Quiet]
      BY <2>11 DEF Uncount
    <3>2. call'[c].at = "idle" /\ \A d \in Cpus \ {c} : call'[d] = call[d]
      BY <2>0, <3>1, QuietOK
    <3> QED BY <2>3, <3>1, <3>2
  <2>12. CASE UNCHANGED vars
    BY <2>12 DEF vars, Asked
  <2> QED BY <2>1, <2>5, <2>6, <2>7, <2>8, <2>9, <2>10, <2>11, <2>12 DEF Next
<1> QED BY <1>1, <1>2, SlobInvariant, PTL DEF Spec, ImplementsHeap, Promise!HeapSpec-----------------------------------------------------------------------------
(* Best fit                                                                *)

LEMMA MultiplesApart ==
  ASSUME NEW x \in Nat, NEW y \in Nat, NEW a \in Nat \ {0}, x % a = 0, y % a = 0, x < y
  PROVE  x + a <= y
<1>1. PICK p \in Int : x = a * p
  <2>1. x = a * (x \div a) + (x % a) /\ x \div a \in Int
    OBVIOUS
  <2> QED BY <2>1
<1>2. PICK q \in Int : y = a * q
  <2>1. y = a * (y \div a) + (y % a) /\ y \div a \in Int
    OBVIOUS
  <2> QED BY <2>1
<1>3. \A d \in Nat : a * d >= 0 /\ a * d \in Int
  OBVIOUS
<1>4. p < q
  <2> SUFFICES ASSUME p - q \in Nat PROVE FALSE
    OBVIOUS
  <2>1. a * p = a * q + a * (p - q)
    OBVIOUS
  <2>2. a * (p - q) >= 0 /\ a * (p - q) \in Int
    BY <1>3
  <2> QED BY <1>1, <1>2, <2>1, <2>2
<1>5. q - p - 1 \in Nat
  BY <1>4
<1>6. a * q = a * p + a + a * (q - p - 1)
  OBVIOUS
<1>7. a * (q - p - 1) >= 0 /\ a * (q - p - 1) \in Int
  BY <1>3, <1>5
<1> QED BY <1>1, <1>2, <1>6, <1>7

LEMMA SumOfMultiples ==
  ASSUME NEW x \in Nat, NEW y \in Nat, NEW a \in Nat \ {0}, x % a = 0, y % a = 0
  PROVE  (x + y) % a = 0
<1>1. PICK p \in Int : x = a * p
  <2>1. x = a * (x \div a) + (x % a) /\ x \div a \in Int
    OBVIOUS
  <2> QED BY <2>1
<1>2. PICK q \in Int : y = a * q
  <2>1. y = a * (y \div a) + (y % a) /\ y \div a \in Int
    OBVIOUS
  <2> QED BY <2>1
<1>3. x + y = (p + q) * a
  BY <1>1, <1>2
<1>4. p + q \in Int
  OBVIOUS
<1> QED BY <1>3, <1>4, MultipleOf

\* An offset that is aligned itself does not matter.
LEMMA OffsetAligned ==
  ASSUME NEW s \in Nat, NEW align \in Nat \ {0}, NEW offset \in Nat, offset % align = 0
  PROVE  Delta(s, align, offset) = Delta(s, align, 0)
<1>1. PICK d \in 0 .. align - 1 : d = Delta(s, align, offset) /\ (s + d + offset) % align = 0
  BY DeltaIs
<1>2. PICK e \in 0 .. align - 1 : e = Delta(s, align, 0) /\ (s + e) % align = 0
  <2>1. 0 \in Nat
    OBVIOUS
  <2>2. Delta(s, align, 0) \in 0 .. align - 1 /\ (s + Delta(s, align, 0) + 0) % align = 0
    BY <2>1, DeltaIs
  <2>3. s + Delta(s, align, 0) + 0 = s + Delta(s, align, 0)
    BY <2>2
  <2> QED BY <2>2, <2>3
<1>3. (s + e + offset) % align = 0
  <2>1. s + e \in Nat
    OBVIOUS
  <2> QED BY <1>2, <2>1, SumOfMultiples
<1>4. s + d + offset \in Nat /\ s + e + offset \in Nat
  OBVIOUS
<1>5. ~ (s + d + offset < s + e + offset)
  <2> SUFFICES ASSUME s + d + offset < s + e + offset PROVE FALSE
    OBVIOUS
  <2>1. s + d + offset + align <= s + e + offset
    BY <1>1, <1>3, <1>4, MultiplesApart
  <2> QED BY <2>1
<1>6. ~ (s + e + offset < s + d + offset)
  <2> SUFFICES ASSUME s + e + offset < s + d + offset PROVE FALSE
    OBVIOUS
  <2>1. s + e + offset + align <= s + d + offset
    BY <1>1, <1>3, <1>4, MultiplesApart
  <2> QED BY <2>1
<1>7. d = e
  BY <1>5, <1>6
<1> QED BY <1>1, <1>2, <1>7

LeftoversIn(pg, r) ==
  {Left(pg, s, r.units, r.align, r.offset) : s \in Fitting(pg, r.units, r.align, r.offset)}

LEMMA LeftoversAre ==
  ASSUME NEW pg, NEW C, Account(pg, C), NEW r \in Requests
  PROVE  /\ LeftoversIn(pg, r) \in SUBSET Nat
         /\ LeftoversIn(pg, r) # {} => r.units <= pg.units
<1> USE DEF Whole
<1>1. r.units \in Nat \ {0} /\ r.align \in Nat \ {0} /\ r.offset \in Nat
  BY RequestIs
<1>2. ASSUME NEW s \in Fitting(pg, r.units, r.align, r.offset)
      PROVE  Left(pg, s, r.units, r.align, r.offset) \in Nat /\ r.units <= pg.units
  <2>1. s \in Starts(C) /\ Left(pg, s, r.units, r.align, r.offset) >= 0
    BY FreeBlocksAre DEF Fitting
  <2>2. PICK u : u = SlobUnits(pg.mem, s)
    OBVIOUS
  <2>3. s \in Nat /\ u \in Nat /\ EndsAt(C, s, s + u)
    BY <2>1, <2>2, PieceIs, Units DEF Header
  <2>4. Delta(s, r.align, r.offset) \in 0 .. r.align - 1
    BY <1>1, <2>3, DeltaIs
  <2>5. Left(pg, s, r.units, r.align, r.offset) \in Nat /\ r.units <= u
    BY <1>1, <2>1, <2>2, <2>3, <2>4 DEF Left
  <2>6. u <= pg.units
    <3>1. Interval(s, u) \subseteq C /\ Cardinality(Interval(s, u)) = u
      <4>1. Interval(s, u) \subseteq C
        BY <2>3 DEF Interval, EndsAt
      <4>2. s \in Int /\ s + u - 1 \in Int
        BY <2>3
      <4>3. Cardinality(s .. s + u - 1) = IF s > s + u - 1 THEN 0 ELSE (s + u - 1) - s + 1
        BY <4>2, FS_Interval
      <4>4. (s + u - 1) - s + 1 = u /\ (s > s + u - 1 => u = 0)
        BY <2>3
      <4> QED BY <4>1, <4>3, <4>4 DEF Interval
    <3>2. IsFiniteSet(C) /\ pg.units = Cardinality(C)
      BY CellsFinite DEF Account
    <3> QED BY <3>1, <3>2, FS_Subset
  <2>7. pg.units \in Nat
    BY Units DEF Account, PageType
  <2> QED BY <1>1, <2>3, <2>5, <2>6, <2>7
<1> QED BY <1>2 DEF LeftoversIn

\* What slob_page_best_fit_check says of a page is what the allocation then
\* leaves, where the offset is aligned.
LEMMA FitIs ==
  ASSUME NEW p, NEW C, Account(page[p], C), NEW r \in Requests, r.offset % r.align = 0
  PROVE  Fit(p, r) = IF LeftoversIn(page[p], r) = {} THEN None ELSE Min(LeftoversIn(page[p], r))
<1> DEFINE pg == page[p]
<1>1. r.units \in Nat \ {0} /\ r.align \in Nat \ {0} /\ r.offset \in Nat
  BY RequestIs
<1> HIDE DEF pg
<1>2. ASSUME NEW s \in FreeBlocks(pg)
      PROVE  Left(pg, s, r.units, r.align, 0) = Left(pg, s, r.units, r.align, r.offset)
  <2>1. s \in Nat
    BY FreeBlocksAre, Units DEF pg, Account, Starts
  <2> QED BY <1>1, <2>1, OffsetAligned DEF Left
<1>3. Fitting(pg, r.units, r.align, 0) = Fitting(pg, r.units, r.align, r.offset)
  BY <1>2 DEF Fitting
<1>4. {Left(pg, s, r.units, r.align, 0) : s \in Fitting(pg, r.units, r.align, 0)} = LeftoversIn(pg, r)
  BY <1>2, <1>3 DEF LeftoversIn, Fitting
<1>5. BestFitCheck(pg, r.units, r.align) = IF LeftoversIn(pg, r) = {} THEN None ELSE Min(LeftoversIn(pg, r))
  <2>1. Fitting(pg, r.units, r.align, 0) = {} <=> LeftoversIn(pg, r) = {}
    BY <1>3 DEF LeftoversIn
  <2> QED BY <1>4, <2>1 DEF BestFitCheck
<1>6. CASE pg.units < r.units
  <2>1. LeftoversIn(pg, r) = {}
    <3>1. pg.units \in Nat
      BY Units DEF pg, Account, PageType
    <3>2. LeftoversIn(pg, r) # {} => r.units <= pg.units
      BY LeftoversAre DEF pg
    <3> QED BY <1>1, <1>6, <3>1, <3>2
  <2> QED BY <1>6, <2>1 DEF Fit, pg
<1>7. CASE ~ (pg.units < r.units)
  BY <1>5, <1>7 DEF Fit, pg
<1> QED BY <1>6, <1>7

LEMMA BestOfAll ==
  ASSUME SlobInv, NEW r \in Requests, r.offset % r.align = 0
  PROVE  LET p == BestPage(free_slob[ListOf(r.units)], r)
         IN IF p = NoPage THEN Leftovers(r) = {}
            ELSE /\ p \in Pages /\ ListsOf(p) # {} /\ Leftovers(r) # {}
                 /\ LeftoversIn(page[p], r) # {}
                 /\ Min(LeftoversIn(page[p], r)) = Min(Leftovers(r))
<1>1. PICK l \in Lists : l = ListOf(r.units)
  BY DEF ListOf, Lists
<1>2. PICK list \in Seq(Pages) : list = free_slob[l]
  BY DEF SlobInv, ListsOK
<1>3. PICK p : p = BestPage(list, r)
  OBVIOUS
<1>4. IF p = NoPage THEN \A i \in DOMAIN list : Fit(list[i], r) = None
      ELSE /\ p \in Pages /\ ListsOf(p) = {l} /\ Fit(p, r) # None
           /\ \A i \in DOMAIN list : Fit(list[i], r) # None => Fit(p, r) <= Fit(list[i], r)
  BY <1>1, <1>2, <1>3, BestPageIs
<1>5. Leftovers(r) = UNION {LeftoversIn(page[q], r) : q \in ToSet(list)}
  BY <1>1, <1>2 DEF Leftovers, LeftoversIn
<1>6. ASSUME NEW q \in Pages, ListsOf(q) # {}
      PROVE  /\ LeftoversIn(page[q], r) \in SUBSET Nat
             /\ Fit(q, r) = IF LeftoversIn(page[q], r) = {} THEN None ELSE Min(LeftoversIn(page[q], r))
  <2>1. Account(page[q], FreeIn(BlocksOf(q)))
    BY <1>6 DEF SlobInv, PageOK, Settled
  <2> QED BY <2>1, LeftoversAre, FitIs
<1>7. \A q \in ToSet(list) : q \in Pages /\ l \in ListsOf(q) /\ \E i \in DOMAIN list : list[i] = q
  BY <1>2 DEF ToSet, ListsOf
<1>8. ASSUME NEW q \in ToSet(list), LeftoversIn(page[q], r) # {}
      PROVE  Fit(q, r) \in Nat /\ Fit(q, r) # None /\ \A y \in LeftoversIn(page[q], r) : Fit(q, r) <= y
  <2>1. /\ LeftoversIn(page[q], r) \in SUBSET Nat
        /\ Fit(q, r) = Min(LeftoversIn(page[q], r))
    BY <1>6, <1>7, <1>8
  <2> QED BY <1>8, <2>1, MinIs DEF None
<1>9. CASE p = NoPage
  <2>1. \A q \in ToSet(list) : LeftoversIn(page[q], r) = {}
    BY <1>4, <1>7, <1>8, <1>9
  <2>2. Leftovers(r) = {}
    BY <1>5, <2>1
  <2> QED BY <1>1, <1>2, <1>3, <1>9, <2>2
<1>10. CASE p # NoPage
  <2>1. p \in Pages /\ ListsOf(p) = {l} /\ Fit(p, r) # None
    BY <1>4, <1>10
  <2>2. p \in ToSet(list)
    BY <1>2, <2>1 DEF ListsOf
  <2>3. LeftoversIn(page[p], r) # {} /\ Fit(p, r) = Min(LeftoversIn(page[p], r))
    BY <1>6, <2>1
  <2>4. PICK m : m = Fit(p, r)
    OBVIOUS
  <2>5. m \in Nat /\ m \in LeftoversIn(page[p], r)
    <3>1. LeftoversIn(page[p], r) \in SUBSET Nat
      BY <1>6, <2>1
    <3>2. Min(LeftoversIn(page[p], r)) \in LeftoversIn(page[p], r)
      BY <2>3, <3>1, MinIs
    <3> QED BY <2>3, <2>4, <3>1, <3>2
  <2>6. m \in Leftovers(r)
    BY <1>5, <2>2, <2>5
  <2>7. Leftovers(r) \in SUBSET Nat
    BY <1>5, <1>6, <1>7
  <2>8. ASSUME NEW y \in Leftovers(r) PROVE m <= y
    <3>1. PICK q \in ToSet(list) : y \in LeftoversIn(page[q], r)
      BY <1>5
    <3>2. Fit(q, r) \in Nat /\ Fit(q, r) # None /\ Fit(q, r) <= y
      BY <1>8, <3>1
    <3>3. m <= Fit(q, r)
      BY <1>4, <1>7, <1>10, <2>4, <3>2
    <3> QED BY <2>5, <2>7, <3>2, <3>3
  <2>9. Min(Leftovers(r)) = m
    <3>1. Min(Leftovers(r)) \in Leftovers(r) /\ Min(Leftovers(r)) <= m
      BY <2>6, <2>7, MinIs
    <3>2. m <= Min(Leftovers(r)) /\ Min(Leftovers(r)) \in Nat
      BY <2>7, <2>8, <3>1
    <3> QED BY <2>5, <3>1, <3>2
  <2> QED BY <1>1, <1>2, <1>3, <1>10, <2>1, <2>3, <2>4, <2>6, <2>9
<1> QED BY <1>9, <1>10

\* The block that the found one was cut from, and what is left of it.
LEMMA CutFrom ==
  ASSUME NEW pg, NEW C, Account(pg, C), NEW r \in Requests, LeftoversIn(pg, r) # {},
         NEW b, b.at = PageAlloc(pg, r.units, r.align, r.offset).at, page[b.page] = pg
  PROVE  /\ b.at # None
         /\ Left(pg, Origin(b), r.units, r.align, r.offset) = Min(LeftoversIn(pg, r))
<1>1. r.units \in Nat \ {0} /\ r.align \in Nat \ {0} /\ r.offset \in Nat
  BY RequestIs
<1>2. Fitting(pg, r.units, r.align, r.offset) # {}
  BY DEF LeftoversIn
<1>3. PICK s : s = BestBlock(pg, r.units, r.align, r.offset)
  OBVIOUS
<1>4. PICK d : d = Delta(s, r.align, r.offset)
  OBVIOUS
<1>5. /\ s \in Starts(C) /\ d + r.units <= SlobUnits(pg.mem, s)
      /\ s \in Fitting(pg, r.units, r.align, r.offset)
      /\ \A t \in Fitting(pg, r.units, r.align, r.offset) :
           Left(pg, s, r.units, r.align, r.offset) <= Left(pg, t, r.units, r.align, r.offset)
  <2>1. r.units \in Nat
    BY <1>1
  <2> QED BY <1>1, <1>2, <1>3, <1>4, <2>1, BestBlockIs
<1>6. \A t \in Starts(C) : /\ t \in Nat /\ SlobUnits(pg.mem, t) \in Nat \ {0}
                           /\ EndsAt(C, t, t + SlobUnits(pg.mem, t))
  BY PieceIs, Units DEF Header
<1>7. d \in Nat
  <2>1. d \in 0 .. r.align - 1
    BY <1>1, <1>4, <1>5, <1>6, DeltaIs
  <2> QED BY <1>1, <2>1
<1>8. b.at = s + d
  BY <1>2, <1>3, <1>4 DEF PageAlloc
<1>9. Origin(b) = s
  <2>1. s <= b.at /\ b.at < s + SlobUnits(pg.mem, s)
    <3>1. PICK u \in Nat : u = SlobUnits(pg.mem, s)
      BY <1>5, <1>6
    <3>2. s \in Nat /\ d + r.units <= u
      BY <1>5, <1>6, <3>1
    <3>3. s <= s + d /\ s + d < s + u
      BY <1>1, <1>7, <3>2
    <3> QED BY <1>8, <3>1, <3>3
  <2>2. ASSUME NEW t \in Starts(C), t <= b.at, b.at < t + SlobUnits(pg.mem, t) PROVE t = s
    <3>1. PICK u \in Nat : u = SlobUnits(pg.mem, s)
      BY <1>5, <1>6
    <3>2. PICK v \in Nat : v = SlobUnits(pg.mem, t)
      BY <1>6
    <3>3. s \in Nat /\ t \in Nat /\ EndsAt(C, s, s + u) /\ EndsAt(C, t, t + v) /\ C \in SUBSET Cells
      BY <1>5, <1>6, <3>1, <3>2 DEF Account
    <3>4. b.at \in Nat /\ s <= b.at /\ b.at < s + u /\ t <= b.at /\ b.at < t + v
      BY <1>7, <1>8, <2>1, <2>2, <3>1, <3>2, <3>3
    <3>5. CASE s < t
      <4>1. s + u \in Nat
        BY <3>3
      <4>2. s + u < t
        BY <1>5, <3>3, <3>5, <4>1, PiecesDisjoint
      <4> QED BY <3>3, <3>4, <4>2
    <3>6. CASE t < s
      <4>1. t + v \in Nat
        BY <3>3
      <4>2. t + v < s
        BY <1>5, <3>3, <3>6, <4>1, PiecesDisjoint
      <4> QED BY <3>3, <3>4, <4>2
    <3> QED BY <3>3, <3>5, <3>6
  <2>3. FreeBlocks(pg) = Starts(C)
    BY FreeBlocksAre
  <2> QED BY <1>5, <2>1, <2>2, <2>3 DEF Origin
<1>10. Left(pg, s, r.units, r.align, r.offset) = Min(LeftoversIn(pg, r))
  <2>1. LeftoversIn(pg, r) \in SUBSET Nat
    BY LeftoversAre
  <2>2. PICK x : x = Left(pg, s, r.units, r.align, r.offset)
    OBVIOUS
  <2>3. x \in LeftoversIn(pg, r) /\ \A y \in LeftoversIn(pg, r) : x <= y
    BY <1>5, <2>2 DEF LeftoversIn
  <2>4. Min(LeftoversIn(pg, r)) \in LeftoversIn(pg, r) /\ Min(LeftoversIn(pg, r)) <= x
    BY <2>1, <2>3, MinIs
  <2>5. x <= Min(LeftoversIn(pg, r)) /\ x \in Nat /\ Min(LeftoversIn(pg, r)) \in Nat
    BY <2>1, <2>3, <2>4
  <2> QED BY <2>2, <2>4, <2>5
<1>11. b.at # None
  <2>1. s \in Nat
    BY <1>5, <1>6
  <2> QED BY <1>7, <1>8, <2>1 DEF None
<1> QED BY <1>9, <1>10, <1>11

\* Nobody else ends a processor's search.
LEMMA SearchEnds ==
  ASSUME SlobInv, [Next]_vars, NEW c \in Cpus, call[c].at = "search", call'[c].at # "search"
  PROVE  Search(c)
<1>1. call \in [Cpus -> CallType]
  BY DEF SlobInv, Shapes
<1>2. ASSUME NEW d \in Cpus, d # c, NEW q, call' = [call EXCEPT ![d] = q] PROVE FALSE
  BY <1>1, <1>2
<1>3. ASSUME NEW d \in Cpus, call[d].at # "search", NEW q, call' = [call EXCEPT ![d] = q] PROVE FALSE
  BY <1>2, <1>3
<1>4. ASSUME NEW d \in Cpus, Search(d) PROVE Search(c)
  <2>1. \E q : call' = [call EXCEPT ![d] = q]
    BY <1>4 DEF Search, Obtain
  <2> QED BY <1>2, <1>4, <2>1
<1>5. ASSUME NEW d \in Cpus, Malloc(d) \/ Grow(d) \/ Count(d) \/ InitPage(d) \/ Release(d) \/ Uncount(d)
      PROVE  FALSE
  <2>1. call[d].at # "search" /\ \E q : call' = [call EXCEPT ![d] = q]
    BY <1>5 DEF Malloc, Grow, Count, InitPage, Release, Uncount, Obtain
  <2> QED BY <1>3, <2>1
<1>6. ASSUME NEW d \in Cpus, Free(d) PROVE FALSE
  <2>1. call[d].at # "search" /\ (call' = call \/ \E q : call' = [call EXCEPT ![d] = q])
    BY <1>6 DEF Free, FreeSmall, FreeWhole
  <2> QED BY <1>3, <2>1
<1>7. ~ UNCHANGED vars
  BY DEF vars
<1> QED BY <1>4, <1>5, <1>6, <1>7 DEF Next

(* slob_alloc chooses a page and then a block in it, and what it takes is  *)
(* the best fit of all free blocks on the list, where the alignment of the *)
(* header is that of the object; it asks for a new page only if none fits. *)
THEOREM SlobFitsBest == Spec => BestFit
<1> DEFINE Best(c) ==
      Searched(c) /\ call[c].req.offset % call[c].req.align = 0 => TakesBest(c)
<1>1. SlobInv /\ [Next]_vars => \A c \in Cpus : Best(c)
  <2> SUFFICES ASSUME SlobInv, [Next]_vars, NEW c \in Cpus,
                      call[c].at = "search", call'[c].at # "search",
                      call[c].req.offset % call[c].req.align = 0
               PROVE  LET r == call[c].req
                      IN IF Leftovers(r) = {} THEN call'[c].at = "grow"
                         ELSE \E b \in blocks' \ blocks :
                                Left(page[b.page], Origin(b), r.units, r.align, r.offset) = Min(Leftovers(r))
    BY Zenon DEF Searched, TakesBest
  <2>1. Search(c) /\ call \in [Cpus -> CallType] /\ CallOK(c)
    BY SearchEnds DEF SlobInv, Shapes
  <2>2. PICK r \in Requests : r = call[c].req
    BY <2>1 DEF CallOK
  <2>3. PICK p : p = BestPage(free_slob[ListOf(r.units)], r)
    OBVIOUS
  <2>4. PICK found : found = IF p = NoPage THEN [at |-> None]
                             ELSE PageAlloc(page[p], r.units, r.align, r.offset)
    OBVIOUS
  <2>5. IF found.at = None THEN call' = [call EXCEPT ![c].at = "grow"]
        ELSE /\ blocks' = blocks \cup {[page |-> p, at |-> found.at, req |-> r]}
             /\ call' = [call EXCEPT ![c] = Quiet]
    BY <2>1, <2>2, <2>3, <2>4, Zenon DEF Search, Obtain
  <2>6. CASE p = NoPage
    <3>1. Leftovers(r) = {}
      BY <2>2, <2>3, <2>6, BestOfAll
    <3>2. call' = [call EXCEPT ![c].at = "grow"]
      BY <2>4, <2>5, <2>6
    <3> QED BY <2>1, <2>2, <3>1, <3>2 DEF CallType
  <2>7. CASE p # NoPage
    <3>1. /\ p \in Pages /\ ListsOf(p) # {} /\ Leftovers(r) # {} /\ LeftoversIn(page[p], r) # {}
          /\ Min(LeftoversIn(page[p], r)) = Min(Leftovers(r))
      BY <2>2, <2>3, <2>7, BestOfAll
    <3>2. Account(page[p], FreeIn(BlocksOf(p)))
      BY <3>1 DEF SlobInv, PageOK, Settled
    <3>3. found = PageAlloc(page[p], r.units, r.align, r.offset)
      BY <2>4, <2>7
    <3>4. PICK b : b = [page |-> p, at |-> found.at, req |-> r]
      OBVIOUS
    <3>5. /\ found.at # None
          /\ Left(page[b.page], Origin(b), r.units, r.align, r.offset) = Min(Leftovers(r))
      <4>1. b.page = p /\ b.at = found.at
        BY <3>4
      <4>2. b.at = PageAlloc(page[p], r.units, r.align, r.offset).at /\ page[b.page] = page[p]
        BY <3>3, <4>1
      <4> QED BY <3>1, <3>2, <4>1, <4>2, CutFrom
    <3>6. b \in blocks' \ blocks
      <4>1. (UNCHANGED blocks /\ call' = [call EXCEPT ![c].at = "grow"]) \/ GrantedTo(c)
        BY <2>1, SearchStep
      <4>2. blocks' = blocks \cup {b}
        BY <2>5, <3>4, <3>5
      <4>3. ~ (call' = [call EXCEPT ![c].at = "grow"])
        BY <2>1, <2>5, <3>5, <3>4, QuietOK DEF CallType
      <4>4. PICK x : x \notin blocks /\ blocks' = blocks \cup {x}
        BY <4>1, <4>3 DEF GrantedTo
      <4> QED BY <4>2, <4>4
    <3> QED BY <2>2, <3>1, <3>5, <3>6
  <2> QED BY <2>6, <2>7
<1>2. [][\A c \in Cpus : Best(c)]_vars => BestFit
  BY DEF BestFit
<1> QED BY <1>1, <1>2, SlobInvariant, PTL DEF Spec
=============================================================================
