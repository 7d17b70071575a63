----------------------------- MODULE FiniteSums -----------------------------
(***************************************************************************)
(* The library's sum of a function over a finite set, which is a recursion *)
(* over the set's subsets: that it is defined, that the order in which it  *)
(* takes the elements makes no difference, and how it changes.             *)
(***************************************************************************)
EXTENDS Integers, Functions, FiniteSetTheorems, WellFoundedInduction, TLAPS

LEMMA NatLeast ==
  ASSUME NEW S \in SUBSET Nat, S # {}
  PROVE  \E x \in S : \A y \in S : ~ (y < x)
<1>1. PICK x \in S : \A y \in S : ~ (<<y, x>> \in OpToRel(<, Nat))
  BY NatLessThanWellFounded, WFMin
<1>2. \A y \in S : y < x => <<y, x>> \in OpToRel(<, Nat)
  BY DEF OpToRel
<1> QED BY <1>1, <1>2
-----------------------------------------------------------------------------
(* Sums over finite sets.  The library's sum takes the elements of a set in *)
(* an order of its own: no order makes a difference.                        *)

Some(s) == CHOOSE x \in s : TRUE
Body(f, g, s) == IF s = {} THEN 0 ELSE f[Some(s)] + g[s \ {Some(s)}]
Sums(f, S) == CHOOSE g : g = [s \in SUBSET S |-> Body(f, g, s)]

LEMMA SumUnfold == \A f, S : SumFunctionOnSet(f, S) = Sums(f, S)[S]
BY DEF SumFunctionOnSet, FoldFunctionOnSet, MapThenFoldSet, Sums, Body, Some

LEMMA SomeIn == \A s : s # {} => Some(s) \in s
BY DEF Some

LEMMA CardLess ==
  ASSUME NEW s, IsFiniteSet(s), NEW x \in s
  PROVE  /\ IsFiniteSet(s \ {x}) /\ Cardinality(s) \in Nat /\ Cardinality(s \ {x}) \in Nat
         /\ Cardinality(s \ {x}) = Cardinality(s) - 1
BY FS_RemoveElement, FS_CardinalityType

\* The recursion of the sum over the subsets of a finite set is one.
LEMMA SumsDefined ==
  ASSUME NEW f, NEW S, IsFiniteSet(S)
  PROVE  /\ Sums(f, S) = [s \in SUBSET S |-> Body(f, Sums(f, S), s)]
         /\ \A s \in SUBSET S : Sums(f, S)[s] = Body(f, Sums(f, S), s)
<1> DEFINE Upto(g, n) == \A s \in SUBSET S : Cardinality(s) <= n => g[s] = Body(f, g, s)
           Bad == {n \in Nat : ~ \E g : g = [s \in SUBSET S |-> g[s]] /\ Upto(g, n)}
<1>1. \A s \in SUBSET S : IsFiniteSet(s) /\ Cardinality(s) \in Nat /\ Cardinality(s) <= Cardinality(S)
  BY FS_Subset, FS_CardinalityType
<1>2. Bad = {}
  <2> SUFFICES ASSUME Bad # {} PROVE FALSE
    OBVIOUS
  <2>1. PICK m \in Bad : \A k \in Bad : ~ (k < m)
    <3>1. Bad \in SUBSET Nat
      OBVIOUS
    <3> HIDE DEF Bad
    <3> QED BY <3>1, NatLeast
  <2>2. m # 0
    <3> DEFINE g == [s \in SUBSET S |-> 0]
    <3>1. ASSUME NEW s \in SUBSET S, Cardinality(s) <= 0 PROVE s = {}
      <4>1. Cardinality(s) = 0
        BY <1>1, <3>1
      <4> QED BY <4>1, <1>1, FS_EmptySet
    <3>2. Upto(g, 0)
      BY <3>1 DEF Body
    <3> QED BY <3>2
  <2>3. m - 1 \in Nat /\ m - 1 \notin Bad
    <3>1. m \in Nat
      BY <2>1
    <3> HIDE DEF Bad
    <3> QED BY <3>1, <2>1, <2>2
  <2>4. PICK g : g = [s \in SUBSET S |-> g[s]] /\ Upto(g, m - 1)
    BY <2>3
  <2> DEFINE h == [s \in SUBSET S |-> Body(f, g, s)]
  <2>5. ASSUME NEW s \in SUBSET S, Cardinality(s) <= m PROVE h[s] = Body(f, h, s)
    <3>1. CASE s = {}
      BY <3>1 DEF Body
    <3>2. CASE s # {}
      <4>1. Some(s) \in s /\ s \ {Some(s)} \in SUBSET S
        BY <3>2, SomeIn
      <4>2. Cardinality(s \ {Some(s)}) <= m - 1
        BY <4>1, <1>1, <2>5, CardLess
      <4>3. g[s \ {Some(s)}] = Body(f, g, s \ {Some(s)})
        BY <4>1, <4>2, <2>4
      <4>4. h[s \ {Some(s)}] = g[s \ {Some(s)}]
        BY <4>1, <4>3
      <4>5. h[s] = Body(f, g, s)
        OBVIOUS
      <4> HIDE DEF h
      <4> QED BY <3>2, <4>4, <4>5 DEF Body
    <3> QED BY <3>1, <3>2
  <2>6. h = [s \in SUBSET S |-> h[s]] /\ Upto(h, m)
    <3>1. h = [s \in SUBSET S |-> h[s]]
      OBVIOUS
    <3> HIDE DEF h
    <3> QED BY <3>1, <2>5
  <2> QED BY <2>1, <2>6
<1>3. Cardinality(S) \in Nat
  BY FS_CardinalityType
<1>4. PICK g : g = [s \in SUBSET S |-> g[s]] /\ Upto(g, Cardinality(S))
  BY <1>2, <1>3
<1>5. g = [s \in SUBSET S |-> Body(f, g, s)]
  BY <1>1, <1>4
<1>6. Sums(f, S) = [s \in SUBSET S |-> Body(f, Sums(f, S), s)]
  BY <1>5 DEF Sums
<1> QED BY <1>6

LEMMA SumsDefinedAt ==
  \A f, S : IsFiniteSet(S) => \A s \in SUBSET S : Sums(f, S)[s] = Body(f, Sums(f, S), s)
BY SumsDefined

\* What is summed: integers, equal wherever the sets meet.
LEMMA SumsAgree ==
  ASSUME NEW f, NEW S, IsFiniteSet(S), NEW g, NEW R, IsFiniteSet(R),
         NEW T \in SUBSET S, T \in SUBSET R, \A x \in T : f[x] = g[x]
  PROVE  Sums(f, S)[T] = Sums(g, R)[T]
<1> DEFINE Bad == {n \in Nat : \E s \in SUBSET T :
                     Cardinality(s) = n /\ Sums(f, S)[s] # Sums(g, R)[s]}
<1>1. \A s \in SUBSET T : IsFiniteSet(s) /\ Cardinality(s) \in Nat
  BY FS_Subset, FS_CardinalityType
<1>2. Bad = {}
  <2> SUFFICES ASSUME Bad # {} PROVE FALSE
    OBVIOUS
  <2>1. PICK m \in Bad : \A k \in Bad : ~ (k < m)
    <3>1. Bad \in SUBSET Nat
      OBVIOUS
    <3> HIDE DEF Bad
    <3> QED BY <3>1, NatLeast
  <2>2. PICK s \in SUBSET T : Cardinality(s) = m /\ Sums(f, S)[s] # Sums(g, R)[s]
    BY <2>1
  <2>3. Sums(f, S)[s] = Body(f, Sums(f, S), s) /\ Sums(g, R)[s] = Body(g, Sums(g, R), s)
    <3>1. \A t \in SUBSET S : Sums(f, S)[t] = Body(f, Sums(f, S), t)
      BY SumsDefinedAt
    <3>3. \A t \in SUBSET R : Sums(g, R)[t] = Body(g, Sums(g, R), t)
      BY SumsDefinedAt
    <3>2. s \in SUBSET S /\ s \in SUBSET R
      OBVIOUS
    <3> QED BY <3>1, <3>2, <3>3
  <2>4. s # {}
    BY <2>2, <2>3 DEF Body
  <2>5. Some(s) \in s /\ f[Some(s)] = g[Some(s)]
    BY <2>4, SomeIn
  <2> DEFINE r == s \ {Some(s)}
  <2>6. r \in SUBSET T /\ Cardinality(r) \in Nat /\ Cardinality(r) < m
    BY <2>2, <2>5, <1>1, CardLess
  <2>7. Sums(f, S)[r] = Sums(g, R)[r]
    BY <2>1, <2>6
  <2> QED BY <2>2, <2>3, <2>4, <2>5, <2>7 DEF Body
<1> QED BY <1>1, <1>2

LEMMA SumSame ==
  ASSUME NEW S, IsFiniteSet(S), NEW f, NEW g, \A x \in S : f[x] = g[x]
  PROVE  SumFunctionOnSet(f, S) = SumFunctionOnSet(g, S)
<1>1. S \in SUBSET S
  OBVIOUS
<1> QED BY <1>1, SumsAgree, SumUnfold

LEMMA SumEmpty == \A f : SumFunctionOnSet(f, {}) = 0
<1> TAKE f
<1>1. Sums(f, {})[{}] = Body(f, Sums(f, {}), {})
  <2>1. IsFiniteSet({})
    BY FS_EmptySet
  <2>2. \A t \in SUBSET {} : Sums(f, {})[t] = Body(f, Sums(f, {}), t)
    BY <2>1, SumsDefined
  <2> QED BY <2>2
<1> QED BY <1>1, SumUnfold DEF Body

LEMMA SumsExchange ==
  ASSUME NEW f, NEW S, IsFiniteSet(S), \A x \in S : f[x] \in Int
  PROVE  \A s \in SUBSET S : /\ Sums(f, S)[s] \in Int
                            /\ \A x \in s : Sums(f, S)[s] = f[x] + Sums(f, S)[s \ {x}]
<1> DEFINE G == Sums(f, S)
           Good(s) == G[s] \in Int /\ \A x \in s : G[s] = f[x] + G[s \ {x}]
           Bad == {n \in Nat : \E s \in SUBSET S : Cardinality(s) = n /\ ~ Good(s)}
<1>1. \A s \in SUBSET S : IsFiniteSet(s) /\ Cardinality(s) \in Nat
  BY FS_Subset, FS_CardinalityType
<1>2. \A s \in SUBSET S : G[s] = IF s = {} THEN 0 ELSE f[Some(s)] + G[s \ {Some(s)}]
  <2>1. \A s \in SUBSET S : G[s] = Body(f, G, s)
    BY SumsDefined
  <2> QED BY <2>1 DEF Body
<1> HIDE DEF G
<1>3. Bad = {}
  <2> SUFFICES ASSUME Bad # {} PROVE FALSE
    OBVIOUS
  <2>1. PICK m \in Bad : \A k \in Bad : ~ (k < m)
    <3>1. Bad \in SUBSET Nat
      OBVIOUS
    <3> HIDE DEF Bad
    <3> QED BY <3>1, NatLeast
  <2>2. PICK s \in SUBSET S : Cardinality(s) = m /\ ~ Good(s)
    BY <2>1
  <2>3. s # {}
    <3>1. s = {} => G[s] = 0
      BY <1>2
    <3> QED BY <2>2, <3>1
  <2>4. PICK c \in s : G[s] = f[c] + G[s \ {c}]
    BY <1>2, <2>3, SomeIn
  <2>5. ASSUME NEW x \in s PROVE Good(s \ {x}) /\ s \ {x} \in SUBSET S
    <3>1. s \ {x} \in SUBSET S /\ Cardinality(s \ {x}) \in Nat /\ Cardinality(s \ {x}) < m
      BY <1>1, <2>2, CardLess
    <3> QED BY <2>1, <3>1
  <2>6. G[s] \in Int
    <3>1. G[s \ {c}] \in Int /\ f[c] \in Int
      BY <2>5
    <3> QED BY <3>1, <2>4
  <2>7. ASSUME NEW x \in s PROVE G[s] = f[x] + G[s \ {x}]
    <3>1. CASE x = c
      BY <3>1, <2>4
    <3>2. CASE x # c
      <4>1. x \in s \ {c} /\ c \in s \ {x} /\ (s \ {c}) \ {x} = (s \ {x}) \ {c}
        BY <3>2
      <4>2. G[s \ {c}] = f[x] + G[(s \ {c}) \ {x}] /\ G[s \ {x}] = f[c] + G[(s \ {c}) \ {x}]
        BY <4>1, <2>5
      <4>3. G[s \ {x}] \in Int /\ G[s \ {c}] \in Int /\ f[x] \in Int /\ f[c] \in Int
        BY <2>5
      <4>4. G[(s \ {c}) \ {x}] \in Int
        <5>1. (s \ {c}) \ {x} \in SUBSET S /\ Cardinality((s \ {c}) \ {x}) < m
              /\ Cardinality((s \ {c}) \ {x}) \in Nat
          <6>1. Cardinality(s \ {c}) < m /\ IsFiniteSet(s \ {c}) /\ Cardinality(s \ {c}) \in Nat
            BY <1>1, <2>2, CardLess
          <6>2. Cardinality((s \ {c}) \ {x}) = Cardinality(s \ {c}) - 1
            BY <6>1, <4>1, CardLess
          <6> QED BY <6>1, <6>2, <1>1
        <5> QED BY <2>1, <5>1
      <4> QED BY <4>2, <4>3, <4>4, <2>4
    <3> QED BY <3>1, <3>2
  <2> QED BY <2>2, <2>6, <2>7
<1>4. ASSUME NEW s \in SUBSET S PROVE Good(s)
  BY <1>1, <1>3
<1> QED BY <1>4 DEF G

LEMMA SumRemove ==
  ASSUME NEW S, IsFiniteSet(S), NEW f, \A x \in S : f[x] \in Int
  PROVE  /\ SumFunctionOnSet(f, S) \in Int
         /\ \A x \in S : SumFunctionOnSet(f, S) = f[x] + SumFunctionOnSet(f, S \ {x})
<1>1. S \in SUBSET S
  OBVIOUS
<1>2. SumFunctionOnSet(f, S) \in Int
  BY <1>1, SumsExchange, SumUnfold
<1>3. ASSUME NEW x \in S PROVE SumFunctionOnSet(f, S) = f[x] + SumFunctionOnSet(f, S \ {x})
  <2>1. Sums(f, S)[S] = f[x] + Sums(f, S)[S \ {x}]
    BY <1>1, SumsExchange
  <2>2. IsFiniteSet(S \ {x}) /\ S \ {x} \in SUBSET S /\ S \ {x} \in SUBSET (S \ {x})
    BY CardLess
  <2>3. Sums(f, S)[S \ {x}] = Sums(f, S \ {x})[S \ {x}]
    BY <2>2, SumsAgree
  <2> QED BY <2>1, <2>3, SumUnfold
<1> QED BY <1>2, <1>3

LEMMA SumNat ==
  ASSUME NEW S, IsFiniteSet(S), NEW f, \A x \in S : f[x] \in Nat
  PROVE  SumFunctionOnSet(f, S) \in Nat
<1> DEFINE Bad == {n \in Nat : \E s \in SUBSET S :
                     Cardinality(s) = n /\ SumFunctionOnSet(f, s) \notin Nat}
<1>1. \A s \in SUBSET S : IsFiniteSet(s) /\ Cardinality(s) \in Nat
  BY FS_Subset, FS_CardinalityType
<1>2. Bad = {}
  <2> SUFFICES ASSUME Bad # {} PROVE FALSE
    OBVIOUS
  <2>1. PICK m \in Bad : \A k \in Bad : ~ (k < m)
    <3>1. Bad \in SUBSET Nat
      OBVIOUS
    <3> HIDE DEF Bad
    <3> QED BY <3>1, NatLeast
  <2>2. PICK s \in SUBSET S : Cardinality(s) = m /\ SumFunctionOnSet(f, s) \notin Nat
    BY <2>1
  <2>3. PICK x : x \in s
    BY <2>2, SumEmpty
  <2>4. s \ {x} \in SUBSET S /\ Cardinality(s \ {x}) \in Nat /\ Cardinality(s \ {x}) < m
    BY <1>1, <2>2, <2>3, CardLess
  <2>5. SumFunctionOnSet(f, s \ {x}) \in Nat
    BY <2>1, <2>4
  <2>6. SumFunctionOnSet(f, s) = f[x] + SumFunctionOnSet(f, s \ {x})
    <3>1. IsFiniteSet(s) /\ \A y \in s : f[y] \in Int
      BY <1>1
    <3> QED BY <3>1, <2>3, SumRemove
  <2> QED BY <2>2, <2>3, <2>5, <2>6
<1> QED BY <1>1, <1>2

\* The sum of a function that is changed at one place, and of zeros.
LEMMA SumChange ==
  ASSUME NEW S, IsFiniteSet(S), NEW f, NEW g, NEW x \in S,
         \A y \in S : f[y] \in Int /\ g[y] \in Int,
         \A y \in S \ {x} : g[y] = f[y]
  PROVE  SumFunctionOnSet(g, S) = SumFunctionOnSet(f, S) - f[x] + g[x]
<1>1. /\ SumFunctionOnSet(f, S) = f[x] + SumFunctionOnSet(f, S \ {x})
      /\ SumFunctionOnSet(g, S) = g[x] + SumFunctionOnSet(g, S \ {x})
  BY SumRemove
<1>2. IsFiniteSet(S \ {x})
  BY CardLess
<1>3. SumFunctionOnSet(f, S \ {x}) = SumFunctionOnSet(g, S \ {x})
  BY <1>2, SumSame
<1>4. SumFunctionOnSet(f, S \ {x}) \in Int /\ f[x] \in Int /\ g[x] \in Int
  <2>1. \A y \in S \ {x} : f[y] \in Int
    OBVIOUS
  <2> QED BY <2>1, <1>2, SumRemove
<1> QED BY <1>1, <1>3, <1>4

LEMMA SumZero ==
  ASSUME NEW S, IsFiniteSet(S), NEW f, \A x \in S : f[x] = 0
  PROVE  SumFunctionOnSet(f, S) = 0
<1> DEFINE Bad == {n \in Nat : \E s \in SUBSET S :
                     Cardinality(s) = n /\ SumFunctionOnSet(f, s) # 0}
<1>1. \A s \in SUBSET S : IsFiniteSet(s) /\ Cardinality(s) \in Nat
  BY FS_Subset, FS_CardinalityType
<1>2. Bad = {}
  <2> SUFFICES ASSUME Bad # {} PROVE FALSE
    OBVIOUS
  <2>1. PICK m \in Bad : \A k \in Bad : ~ (k < m)
    <3>1. Bad \in SUBSET Nat
      OBVIOUS
    <3> HIDE DEF Bad
    <3> QED BY <3>1, NatLeast
  <2>2. PICK s \in SUBSET S : Cardinality(s) = m /\ SumFunctionOnSet(f, s) # 0
    BY <2>1
  <2>3. PICK x : x \in s
    BY <2>2, SumEmpty
  <2>4. s \ {x} \in SUBSET S /\ Cardinality(s \ {x}) \in Nat /\ Cardinality(s \ {x}) < m
    BY <1>1, <2>2, <2>3, CardLess
  <2>5. SumFunctionOnSet(f, s \ {x}) = 0
    BY <2>1, <2>4
  <2>6. SumFunctionOnSet(f, s) = f[x] + SumFunctionOnSet(f, s \ {x})
    <3>1. IsFiniteSet(s) /\ \A y \in s : f[y] \in Int
      BY <1>1
    <3> QED BY <3>1, <2>3, SumRemove
  <2> QED BY <2>2, <2>3, <2>5, <2>6
<1> QED BY <1>1, <1>2

LEMMA SumPlus ==
  ASSUME NEW S, IsFiniteSet(S), NEW f, NEW g, NEW h,
         \A x \in S : f[x] \in Int /\ g[x] \in Int /\ h[x] = f[x] + g[x]
  PROVE  SumFunctionOnSet(h, S) = SumFunctionOnSet(f, S) + SumFunctionOnSet(g, S)
<1> DEFINE Good(s) == SumFunctionOnSet(h, s) = SumFunctionOnSet(f, s) + SumFunctionOnSet(g, s)
           Bad == {n \in Nat : \E s \in SUBSET S : Cardinality(s) = n /\ ~ Good(s)}
<1>1. \A s \in SUBSET S : IsFiniteSet(s) /\ Cardinality(s) \in Nat
  BY FS_Subset, FS_CardinalityType
<1>2. Bad = {}
  <2> SUFFICES ASSUME Bad # {} PROVE FALSE
    OBVIOUS
  <2>1. PICK m \in Bad : \A k \in Bad : ~ (k < m)
    <3>1. Bad \in SUBSET Nat
      OBVIOUS
    <3> HIDE DEF Bad
    <3> QED BY <3>1, NatLeast
  <2>2. PICK s \in SUBSET S : Cardinality(s) = m /\ ~ Good(s)
    BY <2>1
  <2>3. PICK x : x \in s
    <3>1. Good({})
      BY SumEmpty
    <3> QED BY <3>1, <2>2
  <2> DEFINE r == s \ {x}
  <2>4. r \in SUBSET S /\ Cardinality(r) \in Nat /\ Cardinality(r) < m /\ IsFiniteSet(r)
    BY <1>1, <2>2, <2>3, CardLess
  <2>5. Good(r)
    BY <2>1, <2>4
  <2>6. IsFiniteSet(s) /\ \A y \in s : f[y] \in Int /\ g[y] \in Int /\ h[y] \in Int
    BY <1>1
  <2>7. /\ SumFunctionOnSet(f, s) = f[x] + SumFunctionOnSet(f, r)
        /\ SumFunctionOnSet(g, s) = g[x] + SumFunctionOnSet(g, r)
        /\ SumFunctionOnSet(h, s) = h[x] + SumFunctionOnSet(h, r)
    BY <2>3, <2>6, SumRemove
  <2>8. SumFunctionOnSet(f, r) \in Int /\ SumFunctionOnSet(g, r) \in Int
    <3>1. \A y \in r : f[y] \in Int /\ g[y] \in Int
      BY <2>6
    <3> QED BY <3>1, <2>4, SumRemove
  <2>9. f[x] \in Int /\ g[x] \in Int /\ h[x] = f[x] + g[x]
    BY <2>3
  <2> HIDE DEF r
  <2>10. Good(s)
    BY <2>5, <2>7, <2>8, <2>9
  <2> QED BY <2>2, <2>10
<1> QED BY <1>1, <1>2

\* A larger set has no smaller sum.
LEMMA SumMonotone ==
  ASSUME NEW S, IsFiniteSet(S), NEW f, \A x \in S : f[x] \in Nat, NEW R \in SUBSET S
  PROVE  SumFunctionOnSet(f, R) <= SumFunctionOnSet(f, S)
<1> DEFINE Sum(T) == SumFunctionOnSet(f, T)
           Bad == {n \in Nat : \E T \in SUBSET S :
                     R \subseteq T /\ Cardinality(T) = n /\ ~ Sum(R) <= Sum(T)}
<1>1. \A T \in SUBSET S : /\ IsFiniteSet(T) /\ Cardinality(T) \in Nat /\ Sum(T) \in Nat
                           /\ \A x \in T : Sum(T) = f[x] + Sum(T \ {x})
  <2> SUFFICES ASSUME NEW T \in SUBSET S
               PROVE  /\ IsFiniteSet(T) /\ Cardinality(T) \in Nat /\ Sum(T) \in Nat
                      /\ \A x \in T : Sum(T) = f[x] + Sum(T \ {x})
    OBVIOUS
  <2>1. IsFiniteSet(T) /\ Cardinality(T) \in Nat
    BY FS_Subset, FS_CardinalityType
  <2>2. \A x \in T : f[x] \in Nat
    OBVIOUS
  <2>3. \A x \in T : f[x] \in Int
    OBVIOUS
  <2> QED BY <2>1, <2>2, <2>3, SumNat, SumRemove
<1> HIDE DEF Sum
<1>2. Bad = {}
  <2> SUFFICES ASSUME Bad # {} PROVE FALSE
    OBVIOUS
  <2>1. PICK m \in Bad : \A k \in Bad : ~ (k < m)
    <3>1. Bad \in SUBSET Nat
      OBVIOUS
    <3> HIDE DEF Bad
    <3> QED BY <3>1, NatLeast
  <2>2. PICK T \in SUBSET S : R \subseteq T /\ Cardinality(T) = m /\ ~ Sum(R) <= Sum(T)
    BY <2>1
  <2>3. PICK x \in T : x \notin R
    <3>1. T # R
      BY <2>2, <1>1
    <3> QED BY <2>2, <3>1
  <2>4. /\ T \ {x} \in SUBSET S /\ R \subseteq T \ {x}
        /\ Cardinality(T \ {x}) \in Nat /\ Cardinality(T \ {x}) < m
    BY <1>1, <2>2, <2>3, CardLess
  <2>5. Sum(R) <= Sum(T \ {x})
    BY <2>1, <2>4
  <2>6. Sum(T) = f[x] + Sum(T \ {x}) /\ f[x] \in Nat /\ Sum(T) \in Nat /\ Sum(T \ {x}) \in Nat
    BY <1>1, <2>3, <2>4
  <2> QED BY <1>1, <2>2, <2>5, <2>6
<1>3. S \in SUBSET S /\ R \subseteq S /\ Cardinality(S) \in Nat
  BY <1>1
<1> QED BY <1>2, <1>3 DEF Sum
=============================================================================
