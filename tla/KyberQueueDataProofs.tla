----------------------- MODULE KyberQueueDataProofs -----------------------
(***************************************************************************)
(* What a queue keeps for Kyber.  The tuning loses no sample, strands none *)
(* and keeps every depth in its limits, for any number of CPUs and domains, *)
(* any latencies and any targets, and a percentile is where its definition *)
(* says.  The set-up and removal leave nothing behind and misuse nothing,  *)
(* for any number of domains, hardware queues and requests, whichever of   *)
(* the allocations fails.                                                  *)
(***************************************************************************)
EXTENDS KyberLatencyHistory, KyberLifecycle, FiniteSums, SequenceTheorems

-----------------------------------------------------------------------------
(* Histograms                                                              *)

Histogram == [Buckets -> Nat]

LEMMA BucketsFinite == IsFiniteSet(Buckets) /\ 0 \in Buckets /\ Buckets \subseteq Nat
<1>1. LastBucket \in Int
  BY DEF LastBucket, GoodBuckets
<1>2. IsFiniteSet(Buckets)
  BY <1>1, FS_Interval DEF Buckets
<1> QED BY <1>2 DEF Buckets, LastBucket, GoodBuckets

LEMMA SamplesSum ==
  ASSUME NEW b \in Histogram
  PROVE  /\ Samples(b) = SumFunctionOnSet(b, Buckets) /\ Samples(b) \in Nat
         /\ \A k \in Buckets : b[k] <= Samples(b)
         /\ Samples(b) = 0 <=> b = Empty
<1>1. Samples(b) = SumFunctionOnSet(b, Buckets)
  BY DEF Samples, SumFunction, Histogram
<1>2. \A k \in Buckets : b[k] \in Nat /\ b[k] \in Int
  BY DEF Histogram
<1>3. Samples(b) \in Nat
  BY <1>1, <1>2, SumNat, BucketsFinite
<1>4. ASSUME NEW k \in Buckets PROVE b[k] <= Samples(b)
  <2>1. IsFiniteSet(Buckets \ {k}) /\ \A j \in Buckets \ {k} : b[j] \in Nat
    BY <1>2, BucketsFinite, CardLess
  <2>2. SumFunctionOnSet(b, Buckets \ {k}) \in Nat
    BY <2>1, SumNat
  <2>3. Samples(b) = b[k] + SumFunctionOnSet(b, Buckets \ {k})
    BY <1>1, <1>2, SumRemove, BucketsFinite
  <2> QED BY <2>2, <2>3, <1>2
<1>5. ASSUME Samples(b) = 0 PROVE b = Empty
  <2>1. \A k \in Buckets : b[k] = 0
    BY <1>2, <1>4, <1>5
  <2> QED BY <2>1 DEF Histogram, Empty
<1>6. ASSUME b = Empty PROVE Samples(b) = 0
  <2>1. \A k \in Buckets : b[k] = 0
    BY <1>6 DEF Empty
  <2> QED BY <2>1, <1>1, SumZero, BucketsFinite
<1> QED BY <1>1, <1>3, <1>4, <1>5, <1>6

LEMMA EmptyHistogram == Empty \in Histogram /\ Samples(Empty) = 0
<1>1. Empty \in Histogram
  BY DEF Empty, Histogram
<1> QED BY <1>1, SamplesSum

LEMMA SamplesRecorded ==
  ASSUME NEW b \in Histogram, NEW k \in Buckets
  PROVE  /\ [b EXCEPT ![k] = @ + 1] \in Histogram
         /\ Samples([b EXCEPT ![k] = @ + 1]) = Samples(b) + 1
<1> DEFINE c == [b EXCEPT ![k] = @ + 1]
<1>1. c \in Histogram /\ c[k] = b[k] + 1 /\ \A j \in Buckets \ {k} : c[j] = b[j]
  BY DEF Histogram
<1> HIDE DEF c
<1>2. \A j \in Buckets : b[j] \in Int /\ c[j] \in Int
  BY <1>1 DEF Histogram
<1>3. SumFunctionOnSet(c, Buckets) = SumFunctionOnSet(b, Buckets) - b[k] + c[k]
  <2>1. \A j \in Buckets \ {k} : c[j] = b[j]
    BY <1>1
  <2>2. IsFiniteSet(Buckets)
    BY BucketsFinite
  <2>3. \A j \in Buckets : b[j] \in Int
    BY <1>2
  <2>4. \A j \in Buckets : c[j] \in Int
    BY <1>2
  <2> QED BY <2>1, <2>2, <2>3, <2>4, SumChange
<1>4. Samples(c) = Samples(b) + 1
  BY <1>1, <1>2, <1>3, SamplesSum
<1> QED BY <1>1, <1>4 DEF c

LEMMA SamplesFlushed ==
  ASSUME NEW b \in Histogram, NEW c \in Histogram
  PROVE  /\ [k \in Buckets |-> b[k] + c[k]] \in Histogram
         /\ Samples([k \in Buckets |-> b[k] + c[k]]) = Samples(b) + Samples(c)
<1> DEFINE s == [k \in Buckets |-> b[k] + c[k]]
<1>1. s \in Histogram /\ \A k \in Buckets : s[k] = b[k] + c[k] /\ b[k] \in Int /\ c[k] \in Int
  BY DEF Histogram
<1> HIDE DEF s
<1>2. SumFunctionOnSet(s, Buckets) = SumFunctionOnSet(b, Buckets) + SumFunctionOnSet(c, Buckets)
  BY <1>1, SumPlus, BucketsFinite
<1>3. Samples(s) = Samples(b) + Samples(c)
  BY <1>1, <1>2, SamplesSum
<1> QED BY <1>1, <1>3 DEF s

LEMMA UpToSteps ==
  ASSUME NEW b \in Histogram
  PROVE  /\ UpTo(b, -1) = 0 /\ UpTo(b, LastBucket) = Samples(b)
         /\ \A k \in Buckets : UpTo(b, k) = UpTo(b, k - 1) + b[k]
         /\ \A k \in -1 .. LastBucket : UpTo(b, k) \in Nat
<1>1. UpTo(b, -1) = 0
  <2>1. 0 .. -1 = {}
    OBVIOUS
  <2> QED BY <2>1, SumEmpty DEF UpTo
<1>2. UpTo(b, LastBucket) = Samples(b)
  BY SamplesSum DEF UpTo, Buckets
<1>3. ASSUME NEW k \in -1 .. LastBucket
      PROVE  IsFiniteSet(0 .. k) /\ \A j \in 0 .. k : b[j] \in Nat /\ b[j] \in Int
  <2>1. IsFiniteSet(0 .. k)
    BY FS_Interval
  <2>2. \A j \in 0 .. k : j \in Buckets
    BY DEF Buckets, LastBucket, GoodBuckets
  <2> QED BY <2>1, <2>2 DEF Histogram
<1>4. ASSUME NEW k \in -1 .. LastBucket PROVE UpTo(b, k) \in Nat
  BY <1>3, SumNat DEF UpTo
<1>5. ASSUME NEW k \in Buckets PROVE UpTo(b, k) = UpTo(b, k - 1) + b[k]
  <2>1. k \in -1 .. LastBucket /\ k - 1 \in -1 .. LastBucket /\ k \in 0 .. k /\ (0 .. k) \ {k} = 0 .. k - 1
    BY DEF Buckets, LastBucket, GoodBuckets
  <2>2. UpTo(b, k) = b[k] + SumFunctionOnSet(b, (0 .. k) \ {k})
    BY <2>1, <1>3, SumRemove DEF UpTo
  <2>3. UpTo(b, k - 1) \in Nat /\ b[k] \in Nat
    BY <2>1, <1>4 DEF Histogram
  <2>4. UpTo(b, k) = b[k] + UpTo(b, k - 1)
    BY <2>1, <2>2 DEF UpTo
  <2> QED BY <2>3, <2>4
<1> QED BY <1>1, <1>2, <1>4, <1>5

\* The loop of calculate_percentile from bucket k on: where it stops.
Stops(b, k, left, j) ==
  /\ j \in k .. LastBucket
  /\ j = LastBucket \/ UpTo(b, j) - UpTo(b, k - 1) >= left
  /\ \A i \in k .. j - 1 : UpTo(b, i) - UpTo(b, k - 1) < left

ScanBody(b, f, at) ==
  IF at[1] = LastBucket \/ b[at[1]] >= at[2] THEN at[1] ELSE f[<<at[1] + 1, at[2] - b[at[1]]>>]
ScanOf(b) == CHOOSE f : f = [at \in Buckets \X (0 .. Samples(b)) |-> ScanBody(b, f, at)]

LEMMA PercentileScan ==
  \A b, p : Percentile(b, p) = ScanOf(b)[<<0, (Samples(b) * p + 99) \div 100>>]
BY DEF Percentile, ScanOf, ScanBody

LEMMA StopsSteps ==
  ASSUME NEW b \in Histogram, NEW k \in Buckets, NEW left \in Nat
  PROVE  /\ k = LastBucket \/ b[k] >= left => \A j : Stops(b, k, left, j) <=> j = k
         /\ ~ (k = LastBucket \/ b[k] >= left) =>
              /\ k + 1 \in Buckets /\ left - b[k] \in Nat /\ left - b[k] <= left
              /\ \A j : Stops(b, k, left, j) <=> Stops(b, k + 1, left - b[k], j)
<1>1. LastBucket \in Nat /\ k \in 0 .. LastBucket /\ b[k] \in Nat
  BY DEF LastBucket, GoodBuckets, Buckets, Histogram
<1>2. /\ \A j \in -1 .. LastBucket : UpTo(b, j) \in Nat
      /\ \A j \in 0 .. LastBucket : UpTo(b, j) = UpTo(b, j - 1) + b[j]
  BY UpToSteps DEF Buckets
<1>3. UpTo(b, k) \in Nat /\ UpTo(b, k - 1) \in Nat /\ UpTo(b, k) - UpTo(b, k - 1) = b[k]
  <2>1. k \in -1 .. LastBucket /\ k - 1 \in -1 .. LastBucket
    BY <1>1
  <2>2. UpTo(b, k) = UpTo(b, k - 1) + b[k]
    BY <1>1, <1>2
  <2>3. UpTo(b, k) \in Nat /\ UpTo(b, k - 1) \in Nat
    BY <2>1, <1>2
  <2> QED BY <2>2, <2>3, <1>1
<1>4. ASSUME k = LastBucket \/ b[k] >= left, NEW j PROVE Stops(b, k, left, j) <=> j = k
  <2>1. Stops(b, k, left, k)
    BY <1>1, <1>3, <1>4 DEF Stops
  <2>2. ASSUME Stops(b, k, left, j), j # k PROVE FALSE
    <3>1. j \in k .. LastBucket /\ k \in k .. j - 1
      BY <2>2, <1>1 DEF Stops
    <3>2. b[k] < left
      BY <3>1, <2>2, <1>3 DEF Stops
    <3>3. k # LastBucket
      BY <3>1, <2>2, <1>1
    <3> QED BY <3>2, <3>3, <1>1, <1>4
  <2> QED BY <2>1, <2>2
<1>5. ASSUME ~ (k = LastBucket \/ b[k] >= left)
      PROVE  /\ k + 1 \in Buckets /\ left - b[k] \in Nat /\ left - b[k] <= left
             /\ \A j : Stops(b, k, left, j) <=> Stops(b, k + 1, left - b[k], j)
  <2>1. k + 1 \in Buckets /\ left - b[k] \in Nat /\ left - b[k] <= left /\ (k + 1) - 1 = k
    BY <1>1, <1>5 DEF Buckets
  <2>2. \A i \in k .. LastBucket :
          /\ UpTo(b, i) - UpTo(b, k) < left - b[k] <=> UpTo(b, i) - UpTo(b, k - 1) < left
          /\ UpTo(b, i) - UpTo(b, k) >= left - b[k] <=> UpTo(b, i) - UpTo(b, k - 1) >= left
    <3> TAKE i \in k .. LastBucket
    <3>1. UpTo(b, i) \in Nat
      BY <1>1, <1>2
    <3> HIDE DEF UpTo
    <3> QED BY <3>1, <1>1, <1>3
  <2>3. ASSUME NEW j, Stops(b, k, left, j) PROVE Stops(b, k + 1, left - b[k], j)
    <3>1. j \in k .. LastBucket
      BY <2>3 DEF Stops
    <3>2. j # k
      BY <2>3, <1>1, <1>3, <1>5 DEF Stops
    <3>3. j \in k + 1 .. LastBucket
      BY <3>1, <3>2, <1>1
    <3>4. j = LastBucket \/ UpTo(b, j) - UpTo(b, k) >= left - b[k]
      BY <3>1, <2>2, <2>3 DEF Stops
    <3>5. \A i \in k + 1 .. j - 1 : UpTo(b, i) - UpTo(b, k) < left - b[k]
      <4> TAKE i \in k + 1 .. j - 1
      <4>1. i \in k .. LastBucket /\ i \in k .. j - 1
        BY <3>1, <1>1
      <4> QED BY <4>1, <2>2, <2>3 DEF Stops
    <3> QED BY <3>3, <3>4, <3>5, <2>1 DEF Stops
  <2>4. ASSUME NEW j, Stops(b, k + 1, left - b[k], j) PROVE Stops(b, k, left, j)
    <3>1. j \in k + 1 .. LastBucket /\ j \in k .. LastBucket
      BY <2>4, <1>1 DEF Stops
    <3>2. j = LastBucket \/ UpTo(b, j) - UpTo(b, k - 1) >= left
      BY <3>1, <2>1, <2>2, <2>4 DEF Stops
    <3>3. ASSUME NEW i \in k .. j - 1 PROVE UpTo(b, i) - UpTo(b, k - 1) < left
      <4>1. CASE i = k
        BY <4>1, <1>1, <1>3, <1>5
      <4>2. CASE i # k
        <5>1. i \in k + 1 .. j - 1 /\ i \in k .. LastBucket
          BY <4>2, <3>1, <1>1
        <5>2. UpTo(b, i) - UpTo(b, k) < left - b[k]
          BY <5>1, <2>1, <2>4 DEF Stops
        <5> QED BY <5>1, <5>2, <2>2
      <4> QED BY <4>1, <4>2
    <3> QED BY <3>1, <3>2, <3>3 DEF Stops
  <2> QED BY <2>1, <2>3, <2>4
<1> QED BY <1>4, <1>5

LEMMA StopsSomewhere ==
  ASSUME NEW b \in Histogram, NEW k \in Buckets, NEW left \in Nat
  PROVE  \E j : Stops(b, k, left, j)
<1> DEFINE S == {j \in k .. LastBucket : j = LastBucket \/ UpTo(b, j) - UpTo(b, k - 1) >= left}
<1>1. LastBucket \in Nat /\ k \in 0 .. LastBucket
  BY DEF LastBucket, GoodBuckets, Buckets
<1>2. S \in SUBSET Nat /\ S # {}
  <2>1. LastBucket \in S
    BY <1>1
  <2>2. S \in SUBSET Nat
    BY <1>1
  <2> QED BY <2>1, <2>2
<1>3. PICK j \in S : \A i \in S : ~ (i < j)
  <2> HIDE DEF S
  <2> QED BY <1>2, NatLeast
<1>4. \A i \in -1 .. LastBucket : UpTo(b, i) \in Nat
  BY UpToSteps
<1>5. ASSUME NEW i \in k .. j - 1 PROVE UpTo(b, i) - UpTo(b, k - 1) < left
  <2>1. j \in k .. LastBucket
    BY <1>3
  <2>2. i \in k .. LastBucket /\ i < j /\ i \in -1 .. LastBucket /\ k - 1 \in -1 .. LastBucket
    BY <1>1, <2>1
  <2>3. i \notin S
    BY <1>3, <2>2
  <2>4. ~ (UpTo(b, i) - UpTo(b, k - 1) >= left)
    BY <2>2, <2>3
  <2>5. UpTo(b, i) \in Nat /\ UpTo(b, k - 1) \in Nat
    BY <1>4, <2>2
  <2> HIDE DEF UpTo
  <2> QED BY <2>4, <2>5
<1>6. Stops(b, k, left, j)
  BY <1>3, <1>5 DEF Stops
<1> QED BY <1>6

LEMMA ScanDefined ==
  ASSUME NEW b \in Histogram
  PROVE  \A k \in Buckets : \A left \in 0 .. Samples(b) :
           ScanOf(b)[<<k, left>>] = ScanBody(b, ScanOf(b), <<k, left>>)
<1> DEFINE N == Samples(b)
           At(k, left) == CHOOSE j : Stops(b, k, left, j)
           f == [at \in Buckets \X (0 .. N) |-> At(at[1], at[2])]
<1>1. N \in Nat
  BY SamplesSum
<1> HIDE DEF N
<1>2. \A k \in Buckets : \A left \in 0 .. N : f[<<k, left>>] = At(k, left)
  <2> HIDE DEF At
  <2> QED OBVIOUS
<1>3. ASSUME NEW at \in Buckets \X (0 .. N)
      PROVE  f[at] = ScanBody(b, f, at)
  <2>1. PICK k \in Buckets, left \in 0 .. N : at = <<k, left>> /\ at[1] = k /\ at[2] = left
    OBVIOUS
  <2>2. left \in Nat
    BY <1>1
  <2>3. f[at] = At(k, left)
    <3> HIDE DEF f, At
    <3> QED BY <1>2, <2>1
  <2>4. CASE k = LastBucket \/ b[k] >= left
    <3>1. \A j : Stops(b, k, left, j) <=> j = k
      BY <2>2, <2>4, StopsSteps
    <3>2. At(k, left) = k
      BY <3>1
    <3> HIDE DEF f, At
    <3> QED BY <3>2, <2>1, <2>3, <2>4 DEF ScanBody
  <2>5. CASE ~ (k = LastBucket \/ b[k] >= left)
    <3>1. /\ k + 1 \in Buckets /\ left - b[k] \in Nat /\ left - b[k] <= left
          /\ \A j : Stops(b, k, left, j) <=> Stops(b, k + 1, left - b[k], j)
      BY <2>2, <2>5, StopsSteps
    <3>2. At(k, left) = At(k + 1, left - b[k])
      BY <3>1
    <3>3. left - b[k] \in 0 .. N
      <4>1. left <= N
        BY <1>1
      <4> QED BY <3>1, <4>1, <1>1, <2>2
    <3>4. f[<<k + 1, left - b[k]>>] = At(k + 1, left - b[k])
      <4> HIDE DEF f, At
      <4> QED BY <1>2, <3>1, <3>3
    <3> HIDE DEF f, At
    <3> QED BY <3>2, <3>4, <2>1, <2>3, <2>5 DEF ScanBody
  <2> QED BY <2>4, <2>5
<1>4. f = [at \in Buckets \X (0 .. N) |-> ScanBody(b, f, at)]
  <2>1. f = [at \in Buckets \X (0 .. N) |-> f[at]]
    <3> HIDE DEF At
    <3> QED OBVIOUS
  <2> HIDE DEF f
  <2> QED BY <2>1, <1>3
<1>5. ScanOf(b) = [at \in Buckets \X (0 .. N) |-> ScanBody(b, ScanOf(b), at)]
  <2> HIDE DEF f
  <2> QED BY <1>4 DEF ScanOf, N
<1>6. \A k \in Buckets : \A left \in 0 .. N : <<k, left>> \in Buckets \X (0 .. N)
  OBVIOUS
<1> QED BY <1>5, <1>6 DEF N

LEMMA ScanStops ==
  ASSUME NEW b \in Histogram, NEW k \in Buckets, NEW left \in 0 .. Samples(b)
  PROVE  Stops(b, k, left, ScanOf(b)[<<k, left>>])
<1> DEFINE N == Samples(b)
           Good(j) == \A l \in 0 .. N : Stops(b, j, l, ScanOf(b)[<<j, l>>])
           Bad == {n \in Nat : \E j \in Buckets : LastBucket - j = n /\ ~ Good(j)}
<1>1. N \in Nat /\ LastBucket \in Nat /\ \A j \in Buckets : LastBucket - j \in Nat /\ j \in Nat
  BY SamplesSum DEF Buckets, LastBucket, GoodBuckets
<1>2. Bad = {}
  <2> SUFFICES ASSUME Bad # {} PROVE FALSE
    OBVIOUS
  <2>1. PICK m \in Bad : \A n \in Bad : ~ (n < m)
    <3>1. Bad \in SUBSET Nat
      OBVIOUS
    <3> HIDE DEF Bad
    <3> QED BY <3>1, NatLeast
  <2>2. PICK j \in Buckets : LastBucket - j = m /\ ~ Good(j)
    BY <2>1
  <2>3. PICK l \in 0 .. N : ~ Stops(b, j, l, ScanOf(b)[<<j, l>>])
    BY <2>2
  <2>4. ScanOf(b)[<<j, l>>] = ScanBody(b, ScanOf(b), <<j, l>>) /\ l \in Nat /\ l <= N
    BY ScanDefined, <1>1
  <2>5. CASE j = LastBucket \/ b[j] >= l
    <3>1. ScanOf(b)[<<j, l>>] = j
      BY <2>4, <2>5 DEF ScanBody
    <3>2. Stops(b, j, l, j)
      BY <2>4, <2>5, StopsSteps
    <3> QED BY <3>1, <3>2, <2>3
  <2>6. CASE ~ (j = LastBucket \/ b[j] >= l)
    <3>1. /\ j + 1 \in Buckets /\ l - b[j] \in Nat /\ l - b[j] <= l
          /\ \A x : Stops(b, j, l, x) <=> Stops(b, j + 1, l - b[j], x)
      BY <2>4, <2>6, StopsSteps
    <3>2. ScanOf(b)[<<j, l>>] = ScanOf(b)[<<j + 1, l - b[j]>>]
      BY <2>4, <2>6 DEF ScanBody
    <3>3. LastBucket - (j + 1) \in Nat /\ LastBucket - (j + 1) < m
      <4>1. j \in Nat /\ LastBucket - (j + 1) \in Nat
        BY <3>1, <1>1
      <4> QED BY <4>1, <2>2, <1>1
    <3>4. Good(j + 1)
      BY <3>1, <3>3, <2>1
    <3>5. l - b[j] \in 0 .. N
      BY <3>1, <2>4, <1>1
    <3>6. Stops(b, j + 1, l - b[j], ScanOf(b)[<<j + 1, l - b[j]>>])
      BY <3>4, <3>5
    <3> QED BY <3>1, <3>2, <3>6, <2>3
  <2> QED BY <2>5, <2>6
<1>3. Good(k)
  BY <1>1, <1>2
<1> QED BY <1>3

\* calculate_percentile's loop finds the bucket its definition says, for every
\* histogram with a sample in it and every percentage that is asked for.
THEOREM PercentileRight ==
  ASSUME NEW b \in Histogram, Samples(b) # 0, NEW p \in 1 .. 100
  PROVE  Percentile(b, p) \in Buckets /\ IsPercentile(b, p)
<1> DEFINE N == Samples(b)
           M == N * p
           T == (M + 99) \div 100
           j == Percentile(b, p)
<1>1. N \in Nat /\ N >= 1
  BY SamplesSum
<1>2. M \in Nat /\ 1 <= M /\ M <= 100 * N
  <2>1. p \in Nat /\ N * 1 <= N * p /\ N * p <= N * 100
    BY <1>1
  <2> QED BY <2>1, <1>1
<1> HIDE DEF N, M
<1>3. T \in Nat /\ 1 <= T /\ T <= N /\ M <= 100 * T /\ 100 * (T - 1) < M
  BY <1>1, <1>2
<1> HIDE DEF T
<1>4. j = ScanOf(b)[<<0, T>>]
  BY PercentileScan DEF T, M, N
<1>5. T \in 0 .. Samples(b) /\ 0 \in Buckets
  BY <1>1, <1>3, BucketsFinite DEF N
<1>6. Stops(b, 0, T, j)
  BY <1>4, <1>5, ScanStops
<1> HIDE DEF j
<1>7. LastBucket \in Nat /\ Buckets = 0 .. LastBucket
  BY DEF LastBucket, GoodBuckets, Buckets
<1>8. j \in 0 .. LastBucket
  BY <1>6 DEF Stops
<1>9. UpTo(b, -1) = 0 /\ UpTo(b, LastBucket) = N /\ \A k \in -1 .. LastBucket : UpTo(b, k) \in Nat
  BY UpToSteps DEF N
<1>10. \A i \in 0 .. j - 1 : UpTo(b, i) < T
  <2> TAKE i \in 0 .. j - 1
  <2>1. UpTo(b, i) \in Nat
    BY <1>7, <1>8, <1>9
  <2>2. UpTo(b, i) - UpTo(b, -1) < T
    BY <1>6 DEF Stops
  <2> QED BY <2>1, <2>2, <1>9
<1>11. UpTo(b, j) >= T
  <2>1. UpTo(b, j) \in Nat
    BY <1>7, <1>8, <1>9
  <2>2. j = LastBucket \/ UpTo(b, j) - UpTo(b, -1) >= T
    BY <1>6 DEF Stops
  <2> QED BY <2>1, <2>2, <1>1, <1>3, <1>9
<1>12. UpTo(b, j - 1) < T
  <2>1. CASE j = 0
    BY <2>1, <1>3, <1>9
  <2>2. CASE j # 0
    <3>1. j - 1 \in 0 .. j - 1
      BY <2>2, <1>7, <1>8
    <3> QED BY <3>1, <1>10
  <2> QED BY <2>1, <2>2
<1>13. UpTo(b, j) \in Nat /\ UpTo(b, j - 1) \in Nat
  <2>1. j \in -1 .. LastBucket /\ j - 1 \in -1 .. LastBucket
    BY <1>7, <1>8
  <2> QED BY <2>1, <1>9
<1>14. 100 * UpTo(b, j) >= M /\ 100 * UpTo(b, j - 1) < M
  <2> HIDE DEF UpTo
  <2> QED BY <1>2, <1>3, <1>11, <1>12, <1>13
<1>15. M = p * Samples(b)
  <2>1. N * p = p * N
    BY <1>1
  <2> QED BY <2>1 DEF M, N
<1> QED BY <1>7, <1>8, <1>14, <1>15 DEF IsPercentile, j

LEMMA MaxMinTwo ==
  \A a, b \in Int : /\ Max({a, b}) = IF a >= b THEN a ELSE b
                   /\ Min({a, b}) = IF a <= b THEN a ELSE b
<1> TAKE a, b \in Int
<1>1. Max({a, b}) = IF a >= b THEN a ELSE b
  <2> DEFINE m == IF a >= b THEN a ELSE b
  <2>1. m \in {a, b} /\ \A y \in {a, b} : m >= y
    OBVIOUS
  <2>2. \A x \in {a, b} : (\A y \in {a, b} : x >= y) => x = m
    OBVIOUS
  <2> HIDE DEF m
  <2>3. Max({a, b}) = m
    BY <2>1, <2>2 DEF Max
  <2> QED BY <2>3 DEF m
<1>2. Min({a, b}) = IF a <= b THEN a ELSE b
  <2> DEFINE m == IF a <= b THEN a ELSE b
  <2>1. m \in {a, b} /\ \A y \in {a, b} : m =< y
    OBVIOUS
  <2>2. \A x \in {a, b} : (\A y \in {a, b} : x =< y) => x = m
    OBVIOUS
  <2> HIDE DEF m
  <2>3. Min({a, b}) = m
    BY <2>1, <2>2 DEF Min
  <2> QED BY <2>3 DEF m
<1> QED BY <1>1, <1>2

LEMMA Divided ==
  ASSUME NEW n \in Nat, NEW d \in Nat \ {0}
  PROVE  /\ n \div d \in Nat /\ d * (n \div d) <= n /\ n < d * (n \div d) + d
OBVIOUS

LEMMA Remainder ==
  ASSUME NEW n \in Nat, NEW d \in Nat \ {0}
  PROVE  n % d \in 0 .. d - 1 /\ (n < d => n % d = n)
OBVIOUS

\* A quotient and a remainder that fit are the quotient and the remainder.
LEMMA DivisionUnique ==
  ASSUME NEW n \in Nat, NEW d \in Nat \ {0}, NEW q \in Nat, NEW r \in 0 .. d - 1,
         n = d * q + r
  PROVE  n \div d = q /\ n % d = r
<1> DEFINE p == n \div d
<1>1. p \in Nat /\ d * p <= n /\ n < d * p + d
  BY Divided
<1> HIDE DEF p
<1>2. p <= q
  <2>1. SUFFICES ASSUME p >= q + 1 PROVE FALSE
    BY <1>1
  <2>2. d * p >= d * (q + 1)
    BY <1>1, <2>1
  <2>3. d * (q + 1) = d * q + d /\ d * q \in Nat /\ d * p \in Nat
    BY <1>1
  <2> QED BY <1>1, <2>2, <2>3
<1>3. q <= p
  <2>1. SUFFICES ASSUME q >= p + 1 PROVE FALSE
    BY <1>1
  <2>2. d * q >= d * (p + 1)
    BY <1>1, <2>1
  <2>3. d * (p + 1) = d * p + d /\ d * q \in Nat /\ d * p \in Nat
    BY <1>1
  <2> QED BY <1>1, <2>2, <2>3
<1>4. p = q
  BY <1>1, <1>2, <1>3
<1>5. n % d = n - d * p
  BY DEF p
<1> QED BY <1>4, <1>5, <1>1 DEF p

LEMMA QuarterIs ==
  ASSUME NEW target \in Nat
  PROVE  Quarter(target) \in Nat \ {0}
<1>1. target \div 4 \in Nat
  OBVIOUS
<1> QED BY <1>1, MaxMinTwo DEF Quarter, GoodBuckets

\* The bucket of a latency, in terms of its quotient.
LEMMA BucketIs ==
  ASSUME NEW target \in Nat, NEW latency \in Nat \ {0},
         NEW q, q = (latency - 1) \div Quarter(target)
  PROVE  /\ q \in Nat /\ q % UIntRange \in Nat
         /\ Quarter(target) * q <= latency - 1
         /\ latency - 1 < Quarter(target) * q + Quarter(target)
         /\ BucketOf(target, latency) = IF q % UIntRange <= 7 THEN q % UIntRange ELSE 7
<1> DEFINE c == q % UIntRange
<1>1. latency - 1 \in Nat /\ Quarter(target) \in Nat \ {0}
  BY QuarterIs
<1>2. /\ q \in Nat /\ Quarter(target) * q <= latency - 1
      /\ latency - 1 < Quarter(target) * q + Quarter(target)
  BY <1>1, Divided
<1>3. LastBucket = 7
  BY DEF LastBucket, GoodBuckets
<1>4. c \in Nat
  BY <1>2, <1>3, UIntAssumption, Remainder
<1>5. BucketOf(target, latency) = Min({c, 7})
  BY <1>3 DEF BucketOf
<1> HIDE DEF c
<1>6. Min({c, 7}) = IF c <= 7 THEN c ELSE 7
  <2>1. c \in Int /\ 7 \in Int
    BY <1>4
  <2> QED BY <2>1, MaxMinTwo
<1> QED BY <1>2, <1>4, <1>5, <1>6 DEF c

LEMMA BucketOfIn ==
  ASSUME NEW target \in Nat, NEW latency \in Nat
  PROVE  BucketOf(target, latency) \in Buckets
<1>1. CASE latency = 0
  BY <1>1 DEF BucketOf, Buckets, LastBucket, GoodBuckets
<1>2. CASE latency # 0
  <2> DEFINE q == (latency - 1) \div Quarter(target)
             c == q % UIntRange
  <2>1. c \in Nat /\ BucketOf(target, latency) = IF c <= 7 THEN c ELSE 7
    BY <1>2, BucketIs
  <2> HIDE DEF c
  <2> QED BY <2>1 DEF Buckets, LastBucket, GoodBuckets
<1> QED BY <1>1, <1>2

\* add_latency_sample puts a latency into the bucket that the table above
\* KYBER_LATENCY_BUCKETS gives it, for every target that has quarters, as long
\* as the quotient fits into an unsigned int.
THEOREM BucketsAsTabled ==
  ASSUME NEW target \in Nat, target % 4 = 0, target > 0,
         NEW latency \in Nat, latency <= UIntRange * Quarter(target)
  PROVE  AsTabled(target, latency)
<1> DEFINE divisor == Quarter(target)
           q == (latency - 1) \div divisor
           k == BucketOf(target, latency)
<1>1. divisor \in Nat \ {0} /\ target = 4 * divisor
  <2> DEFINE e == target \div 4
  <2>1. e \in Nat \ {0} /\ target = 4 * e
    OBVIOUS
  <2>2. divisor = Max({e, 1})
    BY DEF Quarter, GoodBuckets
  <2> HIDE DEF e
  <2>3. Max({e, 1}) = e
    BY <2>1, MaxMinTwo
  <2> QED BY <2>1, <2>2, <2>3
<1>2. latency <= UIntRange * divisor
  OBVIOUS
<1>3. latency = 0 => k = 0
  BY DEF BucketOf
<1>4. LastBucket = 7
  BY DEF LastBucket, GoodBuckets
<1>5. CASE latency = 0
  <2>1. k = 0
    BY <1>3, <1>5
  <2>2. 4 * latency <= (0 + 1) * target
    BY <1>5
  <2> HIDE DEF k
  <2>3. /\ k < LastBucket => 4 * latency <= (k + 1) * target
        /\ k > 0 => 4 * latency > k * target
    BY <2>1, <2>2
  <2> QED BY <2>3 DEF AsTabled, k
<1>6. CASE latency > 0
  <2>1. /\ q \in Nat /\ divisor * q <= latency - 1 /\ latency - 1 < divisor * q + divisor
        /\ k = IF q % UIntRange <= 7 THEN q % UIntRange ELSE 7
    <3>1. latency \in Nat \ {0} /\ q = (latency - 1) \div Quarter(target)
      BY <1>6
    <3> HIDE DEF q
    <3> QED BY <3>1, BucketIs, Zenon
  <2> HIDE DEF q, k, divisor
  <2>2. q < UIntRange
    <3>1. SUFFICES ASSUME q >= UIntRange PROVE FALSE
      BY <2>1, UIntAssumption
    <3>2. divisor * q >= divisor * UIntRange
      BY <3>1, <2>1, <1>1, UIntAssumption
    <3>3. UIntRange * divisor = divisor * UIntRange /\ divisor * UIntRange \in Nat /\ divisor * q \in Nat
      BY <2>1, <1>1, UIntAssumption
    <3> QED BY <3>2, <3>3, <2>1, <1>2
  <2>3. q % UIntRange = q
    BY <2>1, <2>2, UIntAssumption, Remainder
  <2>4. k = IF q <= 7 THEN q ELSE 7
    BY <2>1, <2>3
  <2>5. ASSUME k < LastBucket PROVE 4 * latency <= (k + 1) * target
    <3>1. k = q /\ k \in 0 .. 6
      BY <2>1, <2>4, <2>5, <1>4
    <3>2. latency <= divisor * k + divisor
      <4>1. divisor * q \in Nat
        BY <2>1, <1>1
      <4>2. latency <= divisor * q + divisor
        BY <4>1, <2>1, <1>1
      <4> QED BY <4>2, <3>1
    <3>3. divisor * k + divisor = (k + 1) * divisor
      BY <3>1, <1>1
    <3>4. 4 * ((k + 1) * divisor) = (k + 1) * target
      BY <3>1, <1>1
    <3>5. (k + 1) * divisor \in Nat
      BY <3>1, <1>1
    <3> QED BY <3>2, <3>3, <3>4, <3>5
  <2>6. ASSUME k > 0 PROVE 4 * latency > k * target
    <3>1. k \in 1 .. 7 /\ k <= q
      BY <2>1, <2>4, <2>6
    <3>2. divisor * k <= divisor * q
      BY <3>1, <2>1, <1>1
    <3>3. k * target = 4 * (divisor * k) /\ divisor * k \in Nat /\ divisor * q \in Nat
      BY <3>1, <2>1, <1>1
    <3> QED BY <3>2, <3>3, <2>1
  <2> QED BY <2>5, <2>6 DEF AsTabled, k
<1> QED BY <1>5, <1>6

\* Beyond that the table does not hold: a latency counts as one that is shorter
\* by UIntRange quarters of the target, however bad it is.
THEOREM BucketsWrap ==
  ASSUME NEW target \in Nat, NEW latency \in Nat \ {0}
  PROVE  BucketOf(target, latency + UIntRange * Quarter(target)) = BucketOf(target, latency)
<1> DEFINE w == Quarter(target)
           longer == latency + UIntRange * w
           q == (latency - 1) \div w
           p == (longer - 1) \div w
           r == latency - 1 - w * q
           c == q \div UIntRange
<1>1. w \in Nat \ {0} /\ UIntRange \in Nat \ {0}
  BY QuarterIs, UIntAssumption DEF LastBucket, GoodBuckets
<1>2. UIntRange * w \in Nat
  BY <1>1
<1>3. longer \in Nat \ {0}
  BY <1>2
<1>4. /\ q \in Nat /\ w * q <= latency - 1 /\ latency - 1 < w * q + w
      /\ BucketOf(target, latency) = IF q % UIntRange <= 7 THEN q % UIntRange ELSE 7
  BY BucketIs
<1>5. BucketOf(target, longer) = IF p % UIntRange <= 7 THEN p % UIntRange ELSE 7
  BY <1>3, BucketIs
<1> HIDE DEF w
<1>6. p = q + UIntRange
  <2> HIDE DEF q
  <2>1. r \in 0 .. w - 1 /\ q + UIntRange \in Nat /\ longer - 1 \in Nat
    BY <1>1, <1>2, <1>4
  <2>2. longer - 1 = w * (q + UIntRange) + r
    BY <1>1, <1>4
  <2> HIDE DEF r, longer
  <2> QED BY <1>1, <2>1, <2>2, DivisionUnique DEF p
<1>7. (q + UIntRange) % UIntRange = q % UIntRange
  <2> HIDE DEF q
  <2>1. c \in Nat /\ UIntRange * c <= q /\ q < UIntRange * c + UIntRange
    BY <1>1, <1>4, Divided
  <2> DEFINE s == q - UIntRange * c
  <2> HIDE DEF c
  <2>2. s \in 0 .. UIntRange - 1 /\ q = UIntRange * c + s
    BY <1>1, <1>4, <2>1
  <2>3. q + UIntRange = UIntRange * (c + 1) + s /\ c + 1 \in Nat /\ q + UIntRange \in Nat
    BY <1>1, <1>4, <2>1, <2>2
  <2> HIDE DEF s
  <2>4. q % UIntRange = s
    BY <1>1, <1>4, <2>1, <2>2, DivisionUnique
  <2>5. (q + UIntRange) % UIntRange = s
    BY <1>1, <2>2, <2>3, DivisionUnique
  <2> QED BY <2>4, <2>5
<1> HIDE DEF p, q
<1> QED BY <1>4, <1>5, <1>6, <1>7 DEF longer, w
-----------------------------------------------------------------------------
(* Where a histogram is: on its CPU, in the order the timer function takes *)
(* them, and in the sums.                                                  *)

DomainHistograms == [Domains -> [Types -> Histogram]]
CpuHistograms == [Cpus -> DomainHistograms]
PositionOf(cpu, d, t) == 2 * (cpu * NumDomains + d) + t

LEMMA Sizes ==
  /\ NumCpus \in Nat \ {0} /\ NumDomains \in Nat \ {0} /\ IsFiniteSet(Cpus) /\ 0 \in Cpus
  /\ Cpus \subseteq Nat /\ Domains \subseteq Nat /\ Slots \in Nat \ {0}
<1>1. NumCpus \in Nat \ {0} /\ NumDomains \in Nat \ {0}
  BY LatencyAssumption
<1>2. NumCpus - 1 \in Int
  BY <1>1
<1>3. IsFiniteSet(Cpus)
  BY <1>2, FS_Interval DEF Cpus
<1>4. NumCpus * NumDomains \in Nat \ {0}
  BY <1>1
<1>5. Slots \in Nat \ {0}
  BY <1>4 DEF Slots
<1> QED BY <1>1, <1>3, <1>5 DEF Cpus, Domains

LEMMA DividedIs ==
  ASSUME NEW n \in Nat, NEW d \in Nat \ {0}, NEW x \in Nat, d * x <= n, n < d * x + d
  PROVE  n \div d = x
<1> DEFINE y == n \div d
<1>1. y \in Nat /\ d * y <= n /\ n < d * y + d
  BY Divided
<1> HIDE DEF y
<1>2. d * x \in Nat /\ d * y \in Nat
  BY <1>1
<1>3. ASSUME x < y PROVE FALSE
  <2>1. d * (x + 1) <= d * y /\ d * (x + 1) = d * x + d
    BY <1>1, <1>3
  <2> QED BY <2>1, <1>1, <1>2
<1>4. ASSUME y < x PROVE FALSE
  <2>1. d * (y + 1) <= d * x /\ d * (y + 1) = d * y + d
    BY <1>1, <1>4
  <2> QED BY <2>1, <1>1, <1>2
<1>5. x = y
  BY <1>1, <1>3, <1>4
<1> QED BY <1>5 DEF y

LEMMA PositionParts ==
  ASSUME NEW cpu \in Cpus, NEW d \in Domains, NEW t \in Types
  PROVE  LET p == PositionOf(cpu, d, t)
         IN /\ p \in 0 .. Slots - 1
            /\ p % 2 = t /\ (p \div 2) % NumDomains = d /\ p \div (2 * NumDomains) = cpu
<1> DEFINE q == cpu * NumDomains + d
           p == 2 * q + t
<1>1. /\ NumCpus \in Nat \ {0} /\ NumDomains \in Nat \ {0} /\ cpu \in Nat /\ d \in Nat
      /\ cpu <= NumCpus - 1 /\ d <= NumDomains - 1 /\ t \in {0, 1}
  BY Sizes DEF Cpus, Domains, Types, Total, IO
<1>2. cpu * NumDomains \in Nat /\ cpu * NumDomains = NumDomains * cpu
  BY <1>1
<1>3. q \in Nat
  BY <1>1, <1>2
<1>4. q < NumCpus * NumDomains
  <2>1. cpu * NumDomains + NumDomains = (cpu + 1) * NumDomains
    BY <1>1
  <2>2. (cpu + 1) * NumDomains <= NumCpus * NumDomains
    BY <1>1
  <2>3. NumCpus * NumDomains \in Nat /\ (cpu + 1) * NumDomains \in Nat
    BY <1>1
  <2> QED BY <2>1, <2>2, <2>3, <1>1, <1>2
<1>5. q \div NumDomains = cpu
  BY <1>1, <1>2, <1>3, DividedIs
<1>6. q % NumDomains = d
  <2>1. q % NumDomains = q - NumDomains * (q \div NumDomains)
    <3> HIDE DEF q
    <3> QED BY <1>1, <1>3
  <2> QED BY <2>1, <1>1, <1>2, <1>5
<1>7. NumCpus * NumDomains \in Nat
  BY <1>1
<1>8. p \in 0 .. Slots - 1
  <2> HIDE DEF q
  <2> QED BY <1>1, <1>3, <1>4, <1>7 DEF Slots
<1>9. p % 2 = t /\ p \div 2 = q
  <2> HIDE DEF q
  <2> QED BY <1>1, <1>3
<1>10. p \div (2 * NumDomains) = cpu
  <2>1. (2 * NumDomains) * cpu = 2 * (cpu * NumDomains)
    BY <1>1
  <2>2. p \in Nat /\ 2 * NumDomains \in Nat \ {0}
    BY <1>1, <1>3
  <2>3. (2 * NumDomains) * cpu <= p /\ p < (2 * NumDomains) * cpu + 2 * NumDomains
    BY <2>1, <1>1, <1>2
  <2> HIDE DEF p
  <2> QED BY <2>2, <2>3, <1>1, DividedIs
<1> HIDE DEF q
<1> QED BY <1>6, <1>8, <1>9, <1>10 DEF PositionOf, q

LEMMA PositionSplits ==
  ASSUME NEW p \in 0 .. Slots - 1
  PROVE  /\ p % 2 \in Types /\ (p \div 2) % NumDomains \in Domains
         /\ p \div (2 * NumDomains) \in Cpus
         /\ p = PositionOf(p \div (2 * NumDomains), (p \div 2) % NumDomains, p % 2)
<1> DEFINE q == p \div 2
           c == q \div NumDomains
           d == q % NumDomains
<1>1. NumCpus \in Nat \ {0} /\ NumDomains \in Nat \ {0} /\ Slots \in Nat \ {0}
  BY Sizes
<1>2. p \in Nat /\ p < Slots
  BY <1>1
<1>3. p % 2 \in {0, 1} /\ q \in Nat /\ p = 2 * q + (p % 2)
  BY <1>2
<1>4. NumCpus * NumDomains \in Nat
  BY <1>1
<1>5. q < NumCpus * NumDomains
  <2> HIDE DEF q
  <2> QED BY <1>2, <1>3, <1>4 DEF Slots
<1> HIDE DEF q
<1>6. c \in Nat /\ NumDomains * c <= q /\ q < NumDomains * c + NumDomains
  BY <1>1, <1>3, Divided
<1>7. d = q - NumDomains * c /\ d \in Domains
  <2>1. q % NumDomains = q - NumDomains * (q \div NumDomains) /\ q % NumDomains \in 0 .. NumDomains - 1
    BY <1>1, <1>3
  <2> QED BY <2>1 DEF Domains
<1> HIDE DEF c, d
<1>8. c \in Cpus
  <2>1. ASSUME c >= NumCpus PROVE FALSE
    <3>1. NumDomains * NumCpus <= NumDomains * c /\ NumDomains * NumCpus = NumCpus * NumDomains
      BY <2>1, <1>1, <1>6
    <3>2. NumDomains * c \in Nat
      BY <1>1, <1>6
    <3> QED BY <3>1, <3>2, <1>3, <1>4, <1>5, <1>6
  <2> QED BY <2>1, <1>1, <1>6 DEF Cpus
<1>9. p = PositionOf(c, d, p % 2)
  <2>1. c * NumDomains = NumDomains * c /\ NumDomains * c \in Nat
    BY <1>1, <1>6
  <2>2. c * NumDomains + d = q
    BY <2>1, <1>3, <1>7
  <2> QED BY <2>2, <1>3 DEF PositionOf
<1>10. p % 2 \in Types
  BY <1>3 DEF Types, Total, IO
<1>11. p \div (2 * NumDomains) = c
  BY <1>8, <1>7, <1>9, <1>10, PositionParts
<1> QED BY <1>7, <1>8, <1>9, <1>10, <1>11 DEF d, q

LEMMA TypesAre == Types = {0, 1} /\ Total = 0 /\ IO = 1 /\ Total \in Types /\ IO \in Types
BY DEF Types, Total, IO

Plus(cb, cpu, d, t, k) == [cb EXCEPT ![cpu][d][t][k] = @ + 1]
Clear(cb, cpu, d, t) == [cb EXCEPT ![cpu][d][t] = Empty]
SameBut(new, cb, cpu, d, t) ==
  \A c \in Cpus, e \in Domains, u \in Types : <<c, e, u>> # <<cpu, d, t>> => new[c][e][u] = cb[c][e][u]

LEMMA OneMore ==
  ASSUME NEW cb \in CpuHistograms, NEW cpu \in Cpus, NEW d \in Domains, NEW t \in Types,
         NEW k \in Buckets
  PROVE  /\ Plus(cb, cpu, d, t, k) \in CpuHistograms
         /\ Samples(Plus(cb, cpu, d, t, k)[cpu][d][t]) = Samples(cb[cpu][d][t]) + 1
         /\ SameBut(Plus(cb, cpu, d, t, k), cb, cpu, d, t)
<1> DEFINE h == [cb[cpu][d][t] EXCEPT ![k] = @ + 1]
           new == Plus(cb, cpu, d, t, k)
<1>1. cb[cpu] \in DomainHistograms /\ cb[cpu][d] \in [Types -> Histogram] /\ cb[cpu][d][t] \in Histogram
  BY DEF CpuHistograms, DomainHistograms
<1>2. h \in Histogram /\ Samples(h) = Samples(cb[cpu][d][t]) + 1
  BY <1>1, SamplesRecorded
<1>3. new = [cb EXCEPT ![cpu] = [cb[cpu] EXCEPT ![d] = [cb[cpu][d] EXCEPT ![t] = h]]]
  BY DEF h, Plus
<1> HIDE DEF h, new
<1>4. [cb[cpu][d] EXCEPT ![t] = h] \in [Types -> Histogram]
  BY <1>1, <1>2
<1>5. [cb[cpu] EXCEPT ![d] = [cb[cpu][d] EXCEPT ![t] = h]] \in DomainHistograms
  BY <1>1, <1>4 DEF DomainHistograms
<1>6. new \in CpuHistograms
  BY <1>3, <1>5 DEF CpuHistograms
<1>7. DOMAIN cb = Cpus /\ DOMAIN cb[cpu] = Domains /\ DOMAIN cb[cpu][d] = Types
  BY <1>1 DEF CpuHistograms, DomainHistograms
<1>8. new[cpu][d][t] = h
  BY <1>3, <1>7
<1>9. \A c \in Cpus, e \in Domains, u \in Types :
        <<c, e, u>> # <<cpu, d, t>> => new[c][e][u] = cb[c][e][u]
  <2> SUFFICES ASSUME NEW c \in Cpus, NEW e \in Domains, NEW u \in Types,
                      <<c, e, u>> # <<cpu, d, t>>
               PROVE  new[c][e][u] = cb[c][e][u]
    OBVIOUS
  <2>1. c # cpu \/ e # d \/ u # t
    OBVIOUS
  <2>2. CASE c # cpu
    BY <2>2, <1>3, <1>7
  <2>3. CASE c = cpu /\ e # d
    BY <2>3, <1>3, <1>7
  <2>4. CASE c = cpu /\ e = d /\ u # t
    BY <2>4, <1>3, <1>7
  <2> QED BY <2>1, <2>2, <2>3, <2>4
<1>10. Samples(new[cpu][d][t]) = Samples(cb[cpu][d][t]) + 1
  BY <1>2, <1>8
<1>11. SameBut(new, cb, cpu, d, t)
  BY <1>9 DEF SameBut
<1> QED BY <1>6, <1>10, <1>11 DEF new

LEMMA Cleared ==
  ASSUME NEW cb \in CpuHistograms, NEW cpu \in Cpus, NEW d \in Domains, NEW t \in Types
  PROVE  /\ Clear(cb, cpu, d, t) \in CpuHistograms
         /\ Clear(cb, cpu, d, t)[cpu][d][t] = Empty
         /\ SameBut(Clear(cb, cpu, d, t), cb, cpu, d, t)
<1> DEFINE new == Clear(cb, cpu, d, t)
<1>1. cb[cpu] \in DomainHistograms /\ cb[cpu][d] \in [Types -> Histogram]
  BY DEF CpuHistograms, DomainHistograms
<1>2. Empty \in Histogram
  BY EmptyHistogram
<1>3. new = [cb EXCEPT ![cpu] = [cb[cpu] EXCEPT ![d] = [cb[cpu][d] EXCEPT ![t] = Empty]]]
  BY DEF Clear
<1> HIDE DEF new
<1>4. [cb[cpu][d] EXCEPT ![t] = Empty] \in [Types -> Histogram]
  BY <1>1, <1>2
<1>5. [cb[cpu] EXCEPT ![d] = [cb[cpu][d] EXCEPT ![t] = Empty]] \in DomainHistograms
  BY <1>1, <1>4 DEF DomainHistograms
<1>6. new \in CpuHistograms
  BY <1>3, <1>5 DEF CpuHistograms
<1>7. DOMAIN cb = Cpus /\ DOMAIN cb[cpu] = Domains /\ DOMAIN cb[cpu][d] = Types
  BY <1>1 DEF CpuHistograms, DomainHistograms
<1>8. new[cpu][d][t] = Empty
  BY <1>3, <1>7
<1>9. \A c \in Cpus, e \in Domains, u \in Types :
        <<c, e, u>> # <<cpu, d, t>> => new[c][e][u] = cb[c][e][u]
  <2> SUFFICES ASSUME NEW c \in Cpus, NEW e \in Domains, NEW u \in Types,
                      <<c, e, u>> # <<cpu, d, t>>
               PROVE  new[c][e][u] = cb[c][e][u]
    OBVIOUS
  <2>1. c # cpu \/ e # d \/ u # t
    OBVIOUS
  <2>2. CASE c # cpu
    BY <2>2, <1>3, <1>7
  <2>3. CASE c = cpu /\ e # d
    BY <2>3, <1>3, <1>7
  <2>4. CASE c = cpu /\ e = d /\ u # t
    BY <2>4, <1>3, <1>7
  <2> QED BY <2>1, <2>2, <2>3, <2>4
<1>10. SameBut(new, cb, cpu, d, t)
  BY <1>9 DEF SameBut
<1> QED BY <1>6, <1>8, <1>10 DEF new

\* What waits to be evaluated, and how it changes with one CPU's histogram
\* and with the sum.
WaitingOf(b, cb, d, t) ==
  Samples(b[d][t]) + SumFunctionOnSet([cpu \in Cpus |-> Samples(cb[cpu][d][t])], Cpus)

LEMMA WaitingIs == \A d, t : Waiting(d, t) = WaitingOf(buckets, cpuBuckets, d, t)
BY DEF Waiting, WaitingOf, SumFunction

LEMMA WaitingSame ==
  ASSUME NEW b, NEW c, NEW cb, NEW cc, NEW d, NEW t, c[d][t] = b[d][t],
         \A cpu \in Cpus : cc[cpu][d][t] = cb[cpu][d][t]
  PROVE  WaitingOf(c, cc, d, t) = WaitingOf(b, cb, d, t)
<1>1. [cpu \in Cpus |-> Samples(cc[cpu][d][t])] = [cpu \in Cpus |-> Samples(cb[cpu][d][t])]
  OBVIOUS
<1> QED BY <1>1 DEF WaitingOf

LEMMA WaitingChanges ==
  ASSUME NEW b \in DomainHistograms, NEW c \in DomainHistograms,
         NEW cb \in CpuHistograms, NEW cc \in CpuHistograms,
         NEW d \in Domains, NEW t \in Types, NEW cpu \in Cpus,
         \A o \in Cpus \ {cpu} : cc[o][d][t] = cb[o][d][t]
  PROVE  /\ WaitingOf(b, cb, d, t) \in Nat /\ WaitingOf(c, cc, d, t) \in Nat
         /\ Samples(b[d][t]) \in Nat /\ Samples(c[d][t]) \in Nat
         /\ Samples(cb[cpu][d][t]) \in Nat /\ Samples(cc[cpu][d][t]) \in Nat
         /\ WaitingOf(c, cc, d, t) - Samples(c[d][t]) - Samples(cc[cpu][d][t])
              = WaitingOf(b, cb, d, t) - Samples(b[d][t]) - Samples(cb[cpu][d][t])
<1> DEFINE f == [o \in Cpus |-> Samples(cb[o][d][t])]
           g == [o \in Cpus |-> Samples(cc[o][d][t])]
<1>1. /\ b[d][t] \in Histogram /\ c[d][t] \in Histogram
      /\ \A o \in Cpus : cb[o][d][t] \in Histogram /\ cc[o][d][t] \in Histogram
  BY DEF CpuHistograms, DomainHistograms
<1>2. \A o \in Cpus : f[o] \in Nat /\ g[o] \in Nat
  BY <1>1, SamplesSum
<1>3. \A o \in Cpus \ {cpu} : g[o] = f[o]
  OBVIOUS
<1>4. f[cpu] = Samples(cb[cpu][d][t]) /\ g[cpu] = Samples(cc[cpu][d][t])
  OBVIOUS
<1>5. Samples(b[d][t]) \in Nat /\ Samples(c[d][t]) \in Nat
  BY <1>1, SamplesSum
<1>6. /\ WaitingOf(b, cb, d, t) = Samples(b[d][t]) + SumFunctionOnSet(f, Cpus)
      /\ WaitingOf(c, cc, d, t) = Samples(c[d][t]) + SumFunctionOnSet(g, Cpus)
  BY DEF WaitingOf
<1> HIDE DEF f, g
<1>7. SumFunctionOnSet(f, Cpus) \in Nat /\ SumFunctionOnSet(g, Cpus) \in Nat
  BY <1>2, Sizes, SumNat
<1>8. SumFunctionOnSet(g, Cpus) = SumFunctionOnSet(f, Cpus) - f[cpu] + g[cpu]
  <2>1. \A o \in Cpus : f[o] \in Int
    BY <1>2
  <2>2. \A o \in Cpus : g[o] \in Int
    BY <1>2
  <2>3. IsFiniteSet(Cpus)
    BY Sizes
  <2> QED BY <2>1, <2>2, <2>3, <1>3, SumChange
<1> QED BY <1>2, <1>4, <1>5, <1>6, <1>7, <1>8
-----------------------------------------------------------------------------
(* The invariant: the types, with the completions a function, and that no  *)
(* sample is stranded.                                                     *)

Timeouts == 0 .. HZ \cup {Unset}
Completion == Domains \X Nat \X Nat
CompletionTypes == completing \in [Cpus -> {<<>>} \cup Completion]
TuneTypes ==
  /\ latencyTimeout \in [Domains -> Timeouts]
  /\ domainP99 \in [Domains -> Buckets \cup {Unset}]
  /\ depth \in [Domains -> Nat] /\ \A d \in Domains : depth[d] \in 1 .. MaxDepth[d]
OtherTypes ==
  /\ latencyTargets \in [Domains -> Nat]
  /\ timer \in 0 .. TimerDelay \cup {Unset}
  /\ position \in 0 .. Slots \cup {Unset}
HistogramTypes == cpuBuckets \in CpuHistograms /\ buckets \in DomainHistograms

LatTypes == CompletionTypes /\ TuneTypes /\ OtherTypes /\ HistogramTypes

LEMMA TypesInParts == LatTypes => TypeOK
<1> SUFFICES ASSUME LatTypes PROVE TypeOK
  OBVIOUS
<1>1. \A cpu \in Cpus : completing[cpu] = <<>> \/ completing[cpu] \in Domains \X Nat \X Nat
  BY DEF LatTypes, CompletionTypes, Completion
<1> QED BY <1>1 DEF LatTypes, TuneTypes, OtherTypes, HistogramTypes, TypeOK, CpuHistograms,
                    DomainHistograms, Histogram, Timeouts

LEMMA CompletionIs ==
  \A x \in Completion : /\ x # <<>> /\ x[1] \in Domains /\ x[2] \in Nat /\ x[3] \in Nat
BY DEF Completion

LEMMA CalculateIs ==
  ASSUME NEW b \in Histogram, NEW timeout \in Timeouts, NEW percentile \in 1 .. 100
  PROVE  LET r == Calculate(b, timeout, percentile)
         IN /\ r.p \in Buckets \cup {Unset} /\ r.timeout \in Timeouts
            /\ r.left \in {b, Empty} /\ r.left \in Histogram
            /\ r.p # Unset => b # Empty /\ r.left = Empty
<1>1. HZ \in Nat \ {0} /\ Unset \in Timeouts /\ HZ \in Timeouts
  BY LatencyAssumption DEF Timeouts
<1>2. Samples(b) # 0 => Percentile(b, percentile) \in Buckets /\ b # Empty
  BY PercentileRight, SamplesSum
<1>3. Empty \in Histogram
  BY EmptyHistogram
<1> QED BY <1>1, <1>2, <1>3 DEF Calculate

LEMMA ScaledIs ==
  ASSUME NEW d \in Domains, TuneTypes, NEW p \in Buckets
  PROVE  /\ Scaled(d, p) \in 1 .. MaxDepth[d]
         /\ p >= GoodBuckets => Scaled(d, p) >= depth[d]
<1> DEFINE m == MaxDepth[d]
           x == depth[d]
           y == (x * (p + 1)) \div 4
<1>1. m \in Nat \ {0} /\ x \in 1 .. m /\ p \in Nat
  BY LatencyAssumption DEF TuneTypes, Buckets, LastBucket, GoodBuckets
<1>2. x * (p + 1) \in Nat /\ (p >= 4 => x * (p + 1) >= x * 4)
  BY <1>1
<1>3. y \in Nat /\ (p >= 4 => y >= x)
  BY <1>1, <1>2
<1>4. Scaled(d, p) = Max({1, Min({m, y})})
  BY DEF Scaled, GoodBuckets
<1> HIDE DEF y, x, m
<1>5. Min({m, y}) = IF m <= y THEN m ELSE y
  <2>1. m \in Int /\ y \in Int
    BY <1>1, <1>3
  <2> QED BY <2>1, MaxMinTwo
<1> DEFINE z == Min({m, y})
<1>6. z \in Nat /\ z <= m /\ (p >= 4 => z >= x)
  BY <1>1, <1>3, <1>5
<1> HIDE DEF z
<1>7. Max({1, z}) = IF 1 >= z THEN 1 ELSE z
  <2>1. 1 \in Int /\ z \in Int
    BY <1>6
  <2> QED BY <2>1, MaxMinTwo
<1>8. Scaled(d, p) = IF 1 >= z THEN 1 ELSE z
  BY <1>4, <1>7 DEF z
<1> QED BY <1>1, <1>6, <1>8 DEF GoodBuckets, x, m

LEMMA LatencyStart == Init => LatTypes /\ NoStrandedSample
<1> SUFFICES ASSUME Init PROVE LatTypes /\ NoStrandedSample
  OBVIOUS
<1>1. Empty \in Histogram /\ Samples(Empty) = 0
  BY EmptyHistogram
<1>2. MaxDepth \in [Domains -> Nat \ {0}] /\ Target \in [Domains -> Nat]
  BY LatencyAssumption
<1>3. HistogramTypes
  BY <1>1 DEF Init, HistogramTypes, CpuHistograms, DomainHistograms
<1>4. TuneTypes
  BY <1>2 DEF Init, TuneTypes, Timeouts
<1>5. OtherTypes
  BY <1>2 DEF Init, OtherTypes
<1>6. CompletionTypes
  BY DEF Init, CompletionTypes
<1>7. \A cpu \in Cpus, d \in Domains, t \in Types : cpuBuckets[cpu][d][t] = Empty
  BY DEF Init
<1>8. NoStrandedSample
  BY <1>1, <1>7 DEF NoStrandedSample
<1> QED BY <1>3, <1>4, <1>5, <1>6, <1>8 DEF LatTypes

LatInv == LatTypes /\ NoStrandedSample

\* completed_request: what its two steps record, and where.
LEMMA TotalRecords ==
  ASSUME LatTypes, NEW cpu \in Cpus, NEW d \in Domains, CompleteTotal(cpu, d)
  PROVE  \E k \in Buckets :
           /\ cpuBuckets' = Plus(cpuBuckets, cpu, d, Total, k)
           /\ CompletionTypes' /\ completing[cpu] = <<>>
           /\ completing'[cpu] \in Completion /\ completing'[cpu][1] = d
           /\ \A c \in Cpus \ {cpu} : completing'[c] = completing[c]
           /\ UNCHANGED <<latencyTargets, buckets, latencyTimeout, domainP99, depth, timer, position>>
<1>1. PICK latency \in Latencies[d] :
        /\ cpuBuckets' =
             [cpuBuckets EXCEPT ![cpu][d][Total][BucketOf(latencyTargets[d], latency[1])] = @ + 1]
        /\ completing' = [completing EXCEPT ![cpu] = <<d, latency[2], latencyTargets[d]>>]
  BY DEF CompleteTotal
<1>10. cpuBuckets' = Plus(cpuBuckets, cpu, d, Total, BucketOf(latencyTargets[d], latency[1]))
  BY <1>1 DEF Plus
<1>2. latency \in Nat \X Nat
  BY LatencyAssumption
<1>3. latency[1] \in Nat /\ latency[2] \in Nat /\ latencyTargets[d] \in Nat
  BY <1>2 DEF LatTypes, OtherTypes
<1>4. BucketOf(latencyTargets[d], latency[1]) \in Buckets
  BY <1>3, BucketOfIn
<1> DEFINE x == <<d, latency[2], latencyTargets[d]>>
<1>5. x \in Completion /\ x[1] = d
  BY <1>3 DEF Completion
<1>6. completing' = [completing EXCEPT ![cpu] = x]
  BY <1>1
<1> HIDE DEF x
<1>7. completing \in [Cpus -> {<<>>} \cup Completion]
  BY DEF LatTypes, CompletionTypes
<1>8. /\ CompletionTypes' /\ completing'[cpu] \in Completion /\ completing'[cpu][1] = d
      /\ \A c \in Cpus \ {cpu} : completing'[c] = completing[c]
  BY <1>5, <1>6, <1>7 DEF CompletionTypes
<1>9. /\ completing[cpu] = <<>>
      /\ UNCHANGED <<latencyTargets, buckets, latencyTimeout, domainP99, depth, timer, position>>
  BY DEF CompleteTotal, tuneVars
<1> QED BY <1>10, <1>4, <1>8, <1>9

LEMMA IORecords ==
  ASSUME LatTypes, NEW cpu \in Cpus, CompleteIO(cpu)
  PROVE  \E d \in Domains, k \in Buckets :
           /\ cpuBuckets' = Plus(cpuBuckets, cpu, d, IO, k)
           /\ CompletionTypes' /\ completing[cpu] # <<>> /\ completing[cpu][1] = d
           /\ completing'[cpu] = <<>>
           /\ \A c \in Cpus \ {cpu} : completing'[c] = completing[c]
           /\ timer' # Unset /\ timer' \in 0 .. TimerDelay
           /\ UNCHANGED <<latencyTargets, buckets, latencyTimeout, domainP99, depth, position>>
<1> DEFINE d == completing[cpu][1]
           k == BucketOf(completing[cpu][3], completing[cpu][2])
<1>1. /\ cpuBuckets' = Plus(cpuBuckets, cpu, d, IO, k)
      /\ completing[cpu] # <<>> /\ completing' = [completing EXCEPT ![cpu] = <<>>]
      /\ timer' = IF timer = Unset THEN TimerDelay ELSE timer
      /\ UNCHANGED <<latencyTargets, buckets, latencyTimeout, domainP99, depth, position>>
  BY DEF CompleteIO, tuneVars, Plus
<1>2. completing \in [Cpus -> {<<>>} \cup Completion]
  BY DEF LatTypes, CompletionTypes
<1>3. completing[cpu] \in Completion
  BY <1>1, <1>2
<1>4. d \in Domains /\ k \in Buckets
  BY <1>3, CompletionIs, BucketOfIn
<1> HIDE DEF d, k
<1>5. /\ CompletionTypes' /\ completing'[cpu] = <<>>
      /\ \A c \in Cpus \ {cpu} : completing'[c] = completing[c]
  BY <1>1, <1>2 DEF CompletionTypes
<1>6. timer' # Unset /\ timer' \in 0 .. TimerDelay
  <2>1. TimerDelay \in Nat \ {0}
    BY LatencyAssumption
  <2>2. timer \in 0 .. TimerDelay \cup {Unset}
    BY DEF LatTypes, OtherTypes
  <2> QED BY <2>1, <2>2, <1>1 DEF Unset
<1> QED BY <1>1, <1>4, <1>5, <1>6 DEF d

LEMMA TotalStep ==
  ASSUME LatInv, NEW cpu \in Cpus, NEW d \in Domains, CompleteTotal(cpu, d)
  PROVE  LatInv'
<1>1. PICK k \in Buckets :
        /\ cpuBuckets' = Plus(cpuBuckets, cpu, d, Total, k)
        /\ CompletionTypes' /\ completing'[cpu] \in Completion
        /\ \A c \in Cpus \ {cpu} : completing'[c] = completing[c]
        /\ UNCHANGED <<latencyTargets, buckets, latencyTimeout, domainP99, depth, timer, position>>
  BY TotalRecords DEF LatInv
<1>2. cpuBuckets \in CpuHistograms /\ buckets \in DomainHistograms /\ TuneTypes /\ OtherTypes
  BY DEF LatInv, LatTypes, HistogramTypes
<1>3. /\ cpuBuckets' \in CpuHistograms
      /\ \A c \in Cpus, e \in Domains, u \in Types :
           <<c, e, u>> # <<cpu, d, Total>> => cpuBuckets'[c][e][u] = cpuBuckets[c][e][u]
  <2> DEFINE new == Plus(cpuBuckets, cpu, d, Total, k)
  <2>1. new \in CpuHistograms
    BY <1>2, TypesAre, OneMore
  <2>2. SameBut(new, cpuBuckets, cpu, d, Total)
    BY <1>2, TypesAre, OneMore
  <2>3. cpuBuckets' = new
    BY <1>1
  <2> HIDE DEF new
  <2> QED BY <2>1, <2>2, <2>3 DEF SameBut
<1>4. LatTypes'
  <2>1. TuneTypes' /\ OtherTypes'
    BY <1>1, <1>2 DEF TuneTypes, OtherTypes
  <2> QED BY <2>1, <1>1, <1>2, <1>3 DEF LatTypes, HistogramTypes
<1>5. ASSUME NEW c \in Cpus, NEW e \in Domains, NEW u \in Types,
             Samples(cpuBuckets'[c][e][u]) > 0
      PROVE  timer' # Unset \/ completing'[c] # <<>> \/ position' \in 0 .. 2 * (c * NumDomains + e) + u
  <2>1. CASE c = cpu
    BY <2>1, <1>1, CompletionIs
  <2>2. CASE c # cpu
    <3>1. cpuBuckets'[c][e][u] = cpuBuckets[c][e][u]
      BY <2>2, <1>3
    <3>2. completing'[c] = completing[c]
      BY <2>2, <1>1
    <3> QED BY <3>1, <3>2, <1>1, <1>5 DEF LatInv, NoStrandedSample
  <2> QED BY <2>1, <2>2
<1> QED BY <1>4, <1>5 DEF LatInv, NoStrandedSample

LEMMA IOStep ==
  ASSUME LatInv, NEW cpu \in Cpus, CompleteIO(cpu)
  PROVE  LatInv'
<1>1. PICK d \in Domains, k \in Buckets :
        /\ cpuBuckets' = Plus(cpuBuckets, cpu, d, IO, k)
        /\ CompletionTypes'
        /\ timer' # Unset /\ timer' \in 0 .. TimerDelay
        /\ UNCHANGED <<latencyTargets, buckets, latencyTimeout, domainP99, depth, position>>
  BY IORecords DEF LatInv
<1>2. cpuBuckets \in CpuHistograms /\ buckets \in DomainHistograms /\ TuneTypes /\ OtherTypes
  BY DEF LatInv, LatTypes, HistogramTypes
<1>3. cpuBuckets' \in CpuHistograms
  BY <1>1, <1>2, TypesAre, OneMore
<1>4. TuneTypes' /\ OtherTypes'
  BY <1>1, <1>2 DEF TuneTypes, OtherTypes
<1>5. LatTypes'
  BY <1>1, <1>2, <1>3, <1>4 DEF LatTypes, HistogramTypes
<1>6. NoStrandedSample'
  BY <1>1 DEF NoStrandedSample
<1> QED BY <1>5, <1>6 DEF LatInv

\* The steps that touch no histogram.
LEMMA QuietSteps ==
  ASSUME LatInv, Tick \/ TimerFires \/ (\E d \in Domains : StoreTarget(d)) \/ UNCHANGED latencyVars
  PROVE  /\ LatInv'
         /\ UNCHANGED <<cpuBuckets, buckets, completing, domainP99, depth>>
         /\ ~ (position = Slots /\ position' = Unset)
<1>1. UNCHANGED <<cpuBuckets, buckets, completing, domainP99, depth>>
  BY DEF Tick, TimerFires, StoreTarget, sampleVars, tuneVars, latencyVars
<1>2. TuneTypes /\ OtherTypes /\ CompletionTypes /\ HistogramTypes
  BY DEF LatInv, LatTypes
<1>3. HistogramTypes' /\ CompletionTypes'
  BY <1>1, <1>2 DEF HistogramTypes, CompletionTypes
<1>4. Slots \in Nat \ {0} /\ NumDomains \in Nat \ {0} /\ TimerDelay \in Nat
  BY Sizes, LatencyAssumption
<1>5. \A left : (left \in Timeouts => Later(left) \in Timeouts)
              /\ (left \in 0 .. TimerDelay \cup {Unset} /\ left # 0 =>
                    Later(left) \in 0 .. TimerDelay \cup {Unset} /\ (left # Unset => Later(left) # Unset))
  <2>1. HZ \in Nat
    BY LatencyAssumption
  <2> QED BY <2>1, <1>4 DEF Later, Timeouts, Unset
<1>6. timer \in 0 .. TimerDelay \cup {Unset} /\ latencyTimeout \in [Domains -> Timeouts]
  BY <1>2 DEF OtherTypes, TuneTypes
<1>7. CASE Tick
  <2>1. /\ timer # 0 /\ timer' = Later(timer)
        /\ latencyTimeout' = [d \in Domains |-> Later(latencyTimeout[d])]
        /\ UNCHANGED <<latencyTargets, position>>
    BY <1>7 DEF Tick
  <2>2. latencyTimeout' \in [Domains -> Timeouts]
    BY <2>1, <1>5, <1>6
  <2>3. TuneTypes'
    BY <2>2, <1>1, <1>2 DEF TuneTypes
  <2>4. timer' \in 0 .. TimerDelay \cup {Unset} /\ (timer # Unset => timer' # Unset)
    BY <2>1, <1>5, <1>6
  <2>5. OtherTypes'
    BY <2>1, <2>4, <1>2 DEF OtherTypes
  <2>6. NoStrandedSample'
    BY <2>1, <2>4, <1>1 DEF LatInv, NoStrandedSample
  <2>7. ~ (position = Slots /\ position' = Unset)
    BY <2>1, <1>4 DEF Unset
  <2> QED BY <2>3, <2>5, <2>6, <2>7, <1>1, <1>3 DEF LatInv, LatTypes
<1>8. CASE TimerFires
  <2>1. /\ position = Unset /\ timer' = Unset /\ position' = 0
        /\ UNCHANGED <<latencyTargets, latencyTimeout>>
    BY <1>8 DEF TimerFires, tuneVars
  <2>2. TuneTypes'
    BY <2>1, <1>1, <1>2 DEF TuneTypes
  <2>3. OtherTypes'
    BY <2>1, <1>2, <1>4 DEF OtherTypes
  <2>4. ASSUME NEW c \in Cpus, NEW e \in Domains, NEW u \in Types
        PROVE  0 \in 0 .. 2 * (c * NumDomains + e) + u
    <3>1. PositionOf(c, e, u) \in 0 .. Slots - 1
      BY PositionParts
    <3> QED BY <3>1, <1>4 DEF PositionOf
  <2>5. NoStrandedSample'
    BY <2>1, <2>4 DEF NoStrandedSample
  <2>6. ~ (position = Slots /\ position' = Unset)
    BY <2>1, <1>4 DEF Unset
  <2> QED BY <2>2, <2>3, <2>5, <2>6, <1>1, <1>3 DEF LatInv, LatTypes
<1>9. CASE (\E d \in Domains : StoreTarget(d)) \/ UNCHANGED latencyVars
  <2>1. /\ latencyTargets' \in [Domains -> Nat]
        /\ UNCHANGED <<latencyTimeout, timer, position>>
    <3>1. latencyTargets \in [Domains -> Nat] /\ \A d \in Domains : \A n \in NewTargets[d] : n \in Nat
      BY LatencyAssumption, <1>2 DEF OtherTypes
    <3> QED BY <3>1, <1>9 DEF StoreTarget, latencyVars, tuneVars
  <2>2. TuneTypes' /\ OtherTypes'
    BY <2>1, <1>1, <1>2 DEF TuneTypes, OtherTypes
  <2>3. NoStrandedSample'
    BY <2>1, <1>1 DEF LatInv, NoStrandedSample
  <2>4. ~ (position = Slots /\ position' = Unset)
    BY <2>1, <1>4 DEF Unset
  <2> QED BY <2>2, <2>3, <2>4, <1>1, <1>3 DEF LatInv, LatTypes
<1> QED BY <1>7, <1>8, <1>9

\* What the timer function takes, and where from.
LEMMA FlushTakes ==
  ASSUME LatTypes, Flush
  PROVE  \E cpu \in Cpus, d \in Domains, t \in Types :
           /\ position = PositionOf(cpu, d, t)
           /\ cpuBuckets' = Clear(cpuBuckets, cpu, d, t)
           /\ buckets' \in DomainHistograms
           /\ Samples(buckets'[d][t]) = Samples(buckets[d][t]) + Samples(cpuBuckets[cpu][d][t])
           /\ \A e \in Domains, u \in Types :
                <<e, u>> # <<d, t>> => buckets'[e][u] = buckets[e][u]
           /\ position' = position + 1 /\ position \in 0 .. Slots - 1
           /\ UNCHANGED <<latencyTargets, completing, latencyTimeout, domainP99, depth, timer>>
<1> DEFINE t == position % 2
           d == (position \div 2) % NumDomains
           cpu == position \div (2 * NumDomains)
           h == [k \in Buckets |-> buckets[d][t][k] + cpuBuckets[cpu][d][t][k]]
<1>1. /\ position \in 0 .. Slots - 1
      /\ buckets' = [buckets EXCEPT ![d][t] = [k \in Buckets |-> @[k] + cpuBuckets[cpu][d][t][k]]]
      /\ cpuBuckets' = [cpuBuckets EXCEPT ![cpu][d][t] = Empty]
      /\ position' = position + 1
      /\ UNCHANGED <<latencyTargets, completing, latencyTimeout, domainP99, depth, timer>>
  BY DEF Flush, tuneVars
<1>2. t \in Types /\ d \in Domains /\ cpu \in Cpus /\ position = PositionOf(cpu, d, t)
  BY <1>1, PositionSplits
<1>3. buckets' = [buckets EXCEPT ![d] = [buckets[d] EXCEPT ![t] = h]]
  BY <1>1
<1>4. cpuBuckets' = Clear(cpuBuckets, cpu, d, t)
  BY <1>1 DEF Clear
<1> HIDE DEF t, d, cpu
<1>5. buckets \in DomainHistograms /\ cpuBuckets \in CpuHistograms
  BY DEF LatTypes, HistogramTypes
<1>6. buckets[d] \in [Types -> Histogram] /\ buckets[d][t] \in Histogram /\ cpuBuckets[cpu][d][t] \in Histogram
  BY <1>2, <1>5 DEF CpuHistograms, DomainHistograms
<1>7. h \in Histogram /\ Samples(h) = Samples(buckets[d][t]) + Samples(cpuBuckets[cpu][d][t])
  BY <1>6, SamplesFlushed
<1> HIDE DEF h
<1>8. buckets' \in DomainHistograms
  <2>1. [buckets[d] EXCEPT ![t] = h] \in [Types -> Histogram]
    BY <1>6, <1>7
  <2> QED BY <2>1, <1>2, <1>3, <1>5 DEF DomainHistograms
<1>9. DOMAIN buckets = Domains /\ DOMAIN buckets[d] = Types
  BY <1>5, <1>6 DEF DomainHistograms
<1>10. buckets'[d][t] = h
  BY <1>2, <1>3, <1>9
<1>11. ASSUME NEW e \in Domains, NEW u \in Types, <<e, u>> # <<d, t>>
       PROVE  buckets'[e][u] = buckets[e][u]
  <2>1. CASE e # d
    BY <2>1, <1>3, <1>9
  <2>2. CASE e = d /\ u # t
    BY <2>2, <1>2, <1>3, <1>9
  <2> QED BY <2>1, <2>2, <1>11
<1>12. Samples(buckets'[d][t]) = Samples(buckets[d][t]) + Samples(cpuBuckets[cpu][d][t])
  BY <1>7, <1>10
<1> QED BY <1>1, <1>2, <1>4, <1>8, <1>11, <1>12

LEMMA FlushStep ==
  ASSUME LatInv, Flush
  PROVE  LatInv'
<1>1. PICK cpu \in Cpus, d \in Domains, t \in Types :
        /\ position = PositionOf(cpu, d, t)
        /\ cpuBuckets' = Clear(cpuBuckets, cpu, d, t)
        /\ buckets' \in DomainHistograms
        /\ position' = position + 1 /\ position \in 0 .. Slots - 1
        /\ UNCHANGED <<latencyTargets, completing, latencyTimeout, domainP99, depth, timer>>
  BY FlushTakes DEF LatInv
<1>2. cpuBuckets \in CpuHistograms /\ TuneTypes /\ OtherTypes /\ CompletionTypes
  BY DEF LatInv, LatTypes, HistogramTypes
<1> DEFINE new == Clear(cpuBuckets, cpu, d, t)
<1>3. new \in CpuHistograms /\ new[cpu][d][t] = Empty
  BY <1>2, Cleared
<1>4. SameBut(new, cpuBuckets, cpu, d, t)
  BY <1>2, Cleared
<1>5. cpuBuckets' = new
  BY <1>1
<1> HIDE DEF new
<1>6. TuneTypes' /\ CompletionTypes'
  BY <1>1, <1>2 DEF TuneTypes, CompletionTypes
<1>7. OtherTypes'
  <2>1. position' \in 0 .. Slots
    BY <1>1, Sizes
  <2> QED BY <2>1, <1>1, <1>2 DEF OtherTypes
<1>8. LatTypes'
  BY <1>1, <1>3, <1>5, <1>6, <1>7 DEF LatTypes, HistogramTypes
<1>9. ASSUME NEW c \in Cpus, NEW e \in Domains, NEW u \in Types,
             Samples(cpuBuckets'[c][e][u]) > 0
      PROVE  timer' # Unset \/ completing'[c] # <<>> \/ position' \in 0 .. 2 * (c * NumDomains + e) + u
  <2>1. <<c, e, u>> # <<cpu, d, t>>
    BY <1>3, <1>5, <1>9, EmptyHistogram
  <2>2. cpuBuckets'[c][e][u] = cpuBuckets[c][e][u]
    BY <2>1, <1>4, <1>5 DEF SameBut
  <2>3. timer # Unset \/ completing[c] # <<>> \/ position \in 0 .. PositionOf(c, e, u)
    BY <2>2, <1>9 DEF LatInv, NoStrandedSample, PositionOf
  <2>4. position # PositionOf(c, e, u)
    BY <2>1, <1>1, PositionParts
  <2>5. PositionOf(c, e, u) \in 0 .. Slots - 1
    BY PositionParts
  <2>6. position \in 0 .. PositionOf(c, e, u) => position + 1 \in 0 .. PositionOf(c, e, u)
    BY <2>4, <2>5, Sizes
  <2> QED BY <2>3, <2>6, <1>1 DEF PositionOf
<1> QED BY <1>8, <1>9 DEF LatInv, NoStrandedSample

\* What the rest of it does with each domain.
LEMMA AdjustTunes ==
  ASSUME LatTypes, Adjust
  PROVE  /\ position = Slots /\ position' = Unset
         /\ UNCHANGED <<latencyTargets, cpuBuckets, completing, timer>>
         /\ TuneTypes' /\ buckets' \in DomainHistograms
         /\ \A d \in Domains, t \in Types : buckets'[d][t] \in {buckets[d][t], Empty}
         /\ \E bad \in BOOLEAN : \A d \in Domains :
              \E q \in Buckets \cup {Unset} :
                /\ q # Unset => buckets[d][Total] # Empty /\ buckets'[d][Total] = Empty
                /\ domainP99'[d] = IF bad THEN Unset ELSE IF q # Unset THEN q ELSE domainP99[d]
                /\ ~ bad => depth'[d] >= depth[d]
                /\ q = Unset /\ domainP99[d] = Unset => depth'[d] = depth[d]
<1> DEFINE io == [d \in Domains |-> Calculate(buckets[d][IO], latencyTimeout[d], 90)]
           total == [d \in Domains |-> Calculate(buckets[d][Total], io[d].timeout, 99)]
           bad == \E d \in Domains : io[d].p >= GoodBuckets
           p99 == [d \in Domains |-> IF bad /\ total[d].p = Unset THEN domainP99[d] ELSE total[d].p]
<1>1. /\ position = Slots /\ position' = Unset
      /\ UNCHANGED <<latencyTargets, cpuBuckets, completing, timer>>
      /\ buckets' = [d \in Domains |-> [t \in Types |-> IF t = Total THEN total[d].left ELSE io[d].left]]
      /\ latencyTimeout' = [d \in Domains |-> total[d].timeout]
      /\ domainP99' = [d \in Domains |->
           IF bad THEN Unset ELSE IF total[d].p # Unset THEN total[d].p ELSE domainP99[d]]
      /\ depth' = [d \in Domains |->
           IF p99[d] # Unset /\ (bad \/ p99[d] >= GoodBuckets) THEN Scaled(d, p99[d]) ELSE depth[d]]
  BY DEF Adjust
<1>2. /\ buckets \in DomainHistograms /\ TuneTypes
      /\ \A d \in Domains : latencyTimeout[d] \in Timeouts
      /\ \A d \in Domains : domainP99[d] \in Buckets \cup {Unset}
  BY DEF LatTypes, HistogramTypes, TuneTypes
<1>3. \A d \in Domains, t \in Types : buckets[d][t] \in Histogram
  BY <1>2 DEF DomainHistograms
<1>4. ASSUME NEW d \in Domains
      PROVE  /\ io[d].timeout \in Timeouts /\ io[d].left \in {buckets[d][IO], Empty}
             /\ io[d].left \in Histogram
  <2>1. buckets[d][IO] \in Histogram /\ latencyTimeout[d] \in Timeouts /\ 90 \in 1 .. 100
    BY <1>2, <1>3, TypesAre
  <2> QED BY <2>1, CalculateIs
<1>5. ASSUME NEW d \in Domains
      PROVE  /\ total[d].p \in Buckets \cup {Unset} /\ total[d].timeout \in Timeouts
             /\ total[d].left \in {buckets[d][Total], Empty} /\ total[d].left \in Histogram
             /\ total[d].p # Unset => buckets[d][Total] # Empty /\ total[d].left = Empty
  <2>1. buckets[d][Total] \in Histogram /\ io[d].timeout \in Timeouts /\ 99 \in 1 .. 100
    BY <1>3, <1>4, TypesAre
  <2> HIDE DEF io
  <2> QED BY <2>1, CalculateIs
<1>6. bad \in BOOLEAN
  OBVIOUS
<1> HIDE DEF io, total, bad
<1>7. \A d \in Domains : p99[d] \in Buckets \cup {Unset} /\ (~ bad => p99[d] = total[d].p)
                        /\ (total[d].p = Unset /\ domainP99[d] = Unset => p99[d] = Unset)
  BY <1>2, <1>5
<1> HIDE DEF p99
<1>8. ASSUME NEW d \in Domains
      PROVE  /\ depth'[d] \in 1 .. MaxDepth[d] /\ depth'[d] \in Nat
             /\ ~ bad => depth'[d] >= depth[d]
             /\ p99[d] = Unset => depth'[d] = depth[d]
  <2>1. depth[d] \in Nat /\ depth[d] \in 1 .. MaxDepth[d] /\ MaxDepth[d] \in Nat
    BY <1>2, LatencyAssumption DEF TuneTypes
  <2>2. depth'[d] = IF p99[d] # Unset /\ (bad \/ p99[d] >= GoodBuckets) THEN Scaled(d, p99[d]) ELSE depth[d]
    BY <1>1
  <2>3. CASE p99[d] # Unset /\ (bad \/ p99[d] >= GoodBuckets)
    <3>1. p99[d] \in Buckets
      BY <2>3, <1>7
    <3>2. Scaled(d, p99[d]) \in 1 .. MaxDepth[d] /\ (p99[d] >= GoodBuckets => Scaled(d, p99[d]) >= depth[d])
      BY <3>1, <1>2, ScaledIs
    <3> QED BY <3>2, <2>1, <2>2, <2>3
  <2>4. CASE ~ (p99[d] # Unset /\ (bad \/ p99[d] >= GoodBuckets))
    BY <2>1, <2>2, <2>4
  <2> QED BY <2>3, <2>4
<1>9. TuneTypes'
  <2>1. latencyTimeout' \in [Domains -> Timeouts]
    BY <1>1, <1>5
  <2>2. domainP99' \in [Domains -> Buckets \cup {Unset}]
    BY <1>1, <1>2, <1>5
  <2>3. depth' = [d \in Domains |-> depth'[d]]
    BY <1>1
  <2>4. depth' \in [Domains -> Nat]
    BY <2>3, <1>8
  <2> QED BY <2>1, <2>2, <2>4, <1>8 DEF TuneTypes
<1>10. ASSUME NEW d \in Domains, NEW t \in Types
       PROVE  /\ buckets'[d][t] = IF t = Total THEN total[d].left ELSE io[d].left
              /\ buckets'[d][t] \in {buckets[d][t], Empty}
  <2>1. buckets'[d][t] = IF t = Total THEN total[d].left ELSE io[d].left
    BY <1>1
  <2>2. t = Total \/ t = IO
    BY TypesAre
  <2> QED BY <2>1, <2>2, <1>4, <1>5
<1>11. buckets' \in DomainHistograms
  BY <1>1, <1>4, <1>5 DEF DomainHistograms
<1>12. \A d \in Domains :
         \E q \in Buckets \cup {Unset} :
           /\ q # Unset => buckets[d][Total] # Empty /\ buckets'[d][Total] = Empty
           /\ domainP99'[d] = IF bad THEN Unset ELSE IF q # Unset THEN q ELSE domainP99[d]
           /\ ~ bad => depth'[d] >= depth[d]
           /\ q = Unset /\ domainP99[d] = Unset => depth'[d] = depth[d]
  <2> TAKE d \in Domains
  <2>1. total[d].p # Unset => buckets[d][Total] # Empty /\ buckets'[d][Total] = Empty
    BY <1>5, <1>10, TypesAre
  <2>2. domainP99'[d] = IF bad THEN Unset ELSE IF total[d].p # Unset THEN total[d].p ELSE domainP99[d]
    BY <1>1
  <2>3. total[d].p \in Buckets \cup {Unset}
    BY <1>5
  <2> QED BY <2>1, <2>2, <2>3, <1>7, <1>8
<1> QED BY <1>1, <1>6, <1>9, <1>10, <1>11, <1>12

LEMMA AdjustStep ==
  ASSUME LatInv, Adjust
  PROVE  LatInv'
<1>1. /\ position = Slots /\ position' = Unset
      /\ UNCHANGED <<latencyTargets, cpuBuckets, completing, timer>>
      /\ TuneTypes' /\ buckets' \in DomainHistograms
  BY AdjustTunes DEF LatInv
<1>2. OtherTypes /\ CompletionTypes /\ HistogramTypes
  BY DEF LatInv, LatTypes
<1>3. LatTypes'
  BY <1>1, <1>2 DEF LatTypes, OtherTypes, CompletionTypes, HistogramTypes
<1>4. ASSUME NEW c \in Cpus, NEW e \in Domains, NEW u \in Types,
             Samples(cpuBuckets'[c][e][u]) > 0
      PROVE  timer' # Unset \/ completing'[c] # <<>> \/ position' \in 0 .. 2 * (c * NumDomains + e) + u
  <2>1. timer # Unset \/ completing[c] # <<>> \/ position \in 0 .. PositionOf(c, e, u)
    BY <1>1, <1>4 DEF LatInv, NoStrandedSample, PositionOf
  <2>2. position \notin 0 .. PositionOf(c, e, u)
    <3>1. PositionOf(c, e, u) \in 0 .. Slots - 1
      BY PositionParts
    <3> QED BY <3>1, <1>1, Sizes
  <2> QED BY <2>1, <2>2, <1>1
<1> QED BY <1>3, <1>4 DEF LatInv, NoStrandedSample

LEMMA LatencyStep == LatInv /\ [Next]_latencyVars => LatInv'
<1> SUFFICES ASSUME LatInv, [Next]_latencyVars PROVE LatInv'
  OBVIOUS
<1>1. CASE \E cpu \in Cpus : CompleteIO(cpu) \/ \E d \in Domains : CompleteTotal(cpu, d)
  BY <1>1, IOStep, TotalStep
<1>2. CASE Tick \/ TimerFires \/ (\E d \in Domains : StoreTarget(d)) \/ UNCHANGED latencyVars
  BY <1>2, QuietSteps
<1>3. CASE Flush
  BY <1>3, FlushStep
<1>4. CASE Adjust
  BY <1>4, AdjustStep
<1> QED BY <1>1, <1>2, <1>3, <1>4 DEF Next

\* Spec keeps the invariant.
THEOREM LatencyInvariant == Spec => []LatInv
<1>1. Init => LatInv
  BY LatencyStart DEF LatInv
<1> QED BY <1>1, LatencyStep, PTL DEF Spec

\* Every variable of the tuning keeps its type, and each domain's depth stays
\* between 1 and its maximum, whatever the latencies and targets are.
THEOREM LatencyTyped == Spec => []TypeOK
<1>1. LatInv => TypeOK
  BY TypesInParts DEF LatInv
<1> QED BY <1>1, LatencyInvariant, PTL

\* No sample is stranded on its CPU: the timer is pending, or the function
\* still comes to its histogram, or the completion goes on to start the timer.
THEOREM LatencyStrandsNone == Spec => []NoStrandedSample
<1>1. LatInv => NoStrandedSample
  BY DEF LatInv
<1> QED BY <1>1, LatencyInvariant, PTL
-----------------------------------------------------------------------------
(* With the history: what is owed, and what was learnt since it was used.  *)

KnownIsFresh == \A d \in Domains : domainP99[d] # Unset => fresh[d]

HistInv == LatInv /\ SamplesAccounted /\ KnownIsFresh

LEMMA HistoryStart == HistoryInit => HistInv
<1> SUFFICES ASSUME HistoryInit PROVE HistInv
  OBVIOUS
<1>1. LatInv
  BY LatencyStart DEF HistoryInit, LatInv
<1>2. ASSUME NEW d \in Domains, NEW t \in Types PROVE owed[d][t] = Waiting(d, t)
  <2>1. owed[d][t] = 0 /\ buckets[d][t] = Empty
    BY DEF HistoryInit, Init
  <2>2. \A cpu \in Cpus : cpuBuckets[cpu][d][t] = Empty
    BY DEF HistoryInit, Init
  <2> DEFINE f == [cpu \in Cpus |-> Samples(cpuBuckets[cpu][d][t])]
  <2>3. \A cpu \in Cpus : f[cpu] = 0
    BY <2>2, EmptyHistogram
  <2>4. Waiting(d, t) = Samples(buckets[d][t]) + SumFunctionOnSet(f, Cpus)
    BY WaitingIs DEF WaitingOf
  <2> HIDE DEF f
  <2>5. SumFunctionOnSet(f, Cpus) = 0
    BY <2>3, Sizes, SumZero
  <2> QED BY <2>1, <2>4, <2>5, EmptyHistogram
<1>3. KnownIsFresh
  BY DEF HistoryInit, Init, KnownIsFresh
<1> QED BY <1>1, <1>2, <1>3 DEF HistInv, SamplesAccounted

\* What waits changes by what a step consumes or records, one domain and type
\* at a time.
Accounts(d, t) ==
  WaitingOf(buckets, cpuBuckets, d, t)' =
    IF Consumed(d, t) THEN WaitingOf(buckets, cpuBuckets, d, t) - Samples(buckets[d][t])
    ELSE IF Recorded(d, t) THEN WaitingOf(buckets, cpuBuckets, d, t) + 1
    ELSE WaitingOf(buckets, cpuBuckets, d, t)

LEMMA TotalOwes ==
  ASSUME LatInv, NEW cpu \in Cpus, NEW d \in Domains, CompleteTotal(cpu, d),
         NEW e \in Domains, NEW u \in Types
  PROVE  Accounts(e, u) /\ UNCHANGED <<depth, domainP99>>
<1>1. PICK k \in Buckets :
        /\ cpuBuckets' = Plus(cpuBuckets, cpu, d, Total, k)
        /\ completing[cpu] = <<>> /\ completing'[cpu] \in Completion /\ completing'[cpu][1] = d
        /\ \A c \in Cpus \ {cpu} : completing'[c] = completing[c]
        /\ UNCHANGED <<buckets, domainP99, depth, position>>
  BY TotalRecords DEF LatInv
<1>2. cpuBuckets \in CpuHistograms /\ buckets \in DomainHistograms
  BY DEF LatInv, LatTypes, HistogramTypes
<1>3. ~ Consumed(e, u)
  BY <1>1, Sizes DEF Consumed, Evaluates, Unset
<1>4. Total \in Types /\ completing'[cpu] # <<>>
  BY <1>1, TypesAre, CompletionIs
<1>5. Recorded(e, u) <=> e = d /\ u = Total
  <2>1. Recorded(e, u) <=>
          (IF u = Total THEN completing'[cpu] # <<>> /\ completing'[cpu][1] = e
           ELSE completing[cpu] # <<>> /\ completing[cpu][1] = e)
    BY <1>1, <1>4 DEF Recorded
  <2> QED BY <2>1, <1>1, <1>4
<1> DEFINE new == Plus(cpuBuckets, cpu, d, Total, k)
<1>6. new \in CpuHistograms /\ Samples(new[cpu][d][Total]) = Samples(cpuBuckets[cpu][d][Total]) + 1
  BY <1>2, <1>4, OneMore
<1>7. SameBut(new, cpuBuckets, cpu, d, Total)
  BY <1>2, <1>4, OneMore
<1> HIDE DEF new
<1>8. /\ WaitingOf(buckets, cpuBuckets, e, u) \in Nat /\ WaitingOf(buckets, new, e, u) \in Nat
      /\ Samples(buckets[e][u]) \in Nat
      /\ Samples(cpuBuckets[cpu][e][u]) \in Nat /\ Samples(new[cpu][e][u]) \in Nat
      /\ WaitingOf(buckets, new, e, u) - Samples(buckets[e][u]) - Samples(new[cpu][e][u])
           = WaitingOf(buckets, cpuBuckets, e, u) - Samples(buckets[e][u]) - Samples(cpuBuckets[cpu][e][u])
  <2>1. \A o \in Cpus \ {cpu} : new[o][e][u] = cpuBuckets[o][e][u]
    BY <1>7 DEF SameBut
  <2> QED BY <2>1, <1>2, <1>6, WaitingChanges
<1>9. Samples(new[cpu][e][u]) =
        IF e = d /\ u = Total THEN Samples(cpuBuckets[cpu][e][u]) + 1 ELSE Samples(cpuBuckets[cpu][e][u])
  <2>1. CASE e = d /\ u = Total
    BY <2>1, <1>6
  <2>2. CASE ~ (e = d /\ u = Total)
    BY <2>2, <1>7 DEF SameBut
  <2> QED BY <2>1, <2>2
<1>10. WaitingOf(buckets, new, e, u) =
         IF e = d /\ u = Total THEN WaitingOf(buckets, cpuBuckets, e, u) + 1
         ELSE WaitingOf(buckets, cpuBuckets, e, u)
  BY <1>8, <1>9
<1>11. WaitingOf(buckets, cpuBuckets, e, u)' = WaitingOf(buckets, new, e, u)
  BY <1>1 DEF new
<1> QED BY <1>1, <1>3, <1>5, <1>10, <1>11 DEF Accounts

LEMMA IOOwes ==
  ASSUME LatInv, NEW cpu \in Cpus, CompleteIO(cpu), NEW e \in Domains, NEW u \in Types
  PROVE  Accounts(e, u) /\ UNCHANGED <<depth, domainP99>>
<1>1. PICK d \in Domains, k \in Buckets :
        /\ cpuBuckets' = Plus(cpuBuckets, cpu, d, IO, k)
        /\ completing[cpu] # <<>> /\ completing[cpu][1] = d /\ completing'[cpu] = <<>>
        /\ \A c \in Cpus \ {cpu} : completing'[c] = completing[c]
        /\ UNCHANGED <<buckets, domainP99, depth, position>>
  BY IORecords DEF LatInv
<1>2. cpuBuckets \in CpuHistograms /\ buckets \in DomainHistograms
  BY DEF LatInv, LatTypes, HistogramTypes
<1>3. ~ Consumed(e, u)
  BY <1>1, Sizes DEF Consumed, Evaluates, Unset
<1>4. IO \in Types /\ IO # Total /\ (u = IO \/ u = Total)
  BY TypesAre
<1>5. Recorded(e, u) <=> e = d /\ u = IO
  <2>1. Recorded(e, u) <=>
          (IF u = Total THEN completing'[cpu] # <<>> /\ completing'[cpu][1] = e
           ELSE completing[cpu] # <<>> /\ completing[cpu][1] = e)
    BY <1>1, <1>4 DEF Recorded
  <2> QED BY <2>1, <1>1, <1>4
<1> DEFINE new == Plus(cpuBuckets, cpu, d, IO, k)
<1>6. new \in CpuHistograms /\ Samples(new[cpu][d][IO]) = Samples(cpuBuckets[cpu][d][IO]) + 1
  BY <1>2, <1>4, OneMore
<1>7. SameBut(new, cpuBuckets, cpu, d, IO)
  BY <1>2, <1>4, OneMore
<1> HIDE DEF new
<1>8. /\ WaitingOf(buckets, cpuBuckets, e, u) \in Nat /\ WaitingOf(buckets, new, e, u) \in Nat
      /\ Samples(buckets[e][u]) \in Nat
      /\ Samples(cpuBuckets[cpu][e][u]) \in Nat /\ Samples(new[cpu][e][u]) \in Nat
      /\ WaitingOf(buckets, new, e, u) - Samples(buckets[e][u]) - Samples(new[cpu][e][u])
           = WaitingOf(buckets, cpuBuckets, e, u) - Samples(buckets[e][u]) - Samples(cpuBuckets[cpu][e][u])
  <2>1. \A o \in Cpus \ {cpu} : new[o][e][u] = cpuBuckets[o][e][u]
    BY <1>7 DEF SameBut
  <2> QED BY <2>1, <1>2, <1>6, WaitingChanges
<1>9. Samples(new[cpu][e][u]) =
        IF e = d /\ u = IO THEN Samples(cpuBuckets[cpu][e][u]) + 1 ELSE Samples(cpuBuckets[cpu][e][u])
  <2>1. CASE e = d /\ u = IO
    BY <2>1, <1>6
  <2>2. CASE ~ (e = d /\ u = IO)
    BY <2>2, <1>7 DEF SameBut
  <2> QED BY <2>1, <2>2
<1>10. WaitingOf(buckets, new, e, u) =
         IF e = d /\ u = IO THEN WaitingOf(buckets, cpuBuckets, e, u) + 1
         ELSE WaitingOf(buckets, cpuBuckets, e, u)
  BY <1>8, <1>9
<1>11. WaitingOf(buckets, cpuBuckets, e, u)' = WaitingOf(buckets, new, e, u)
  BY <1>1 DEF new
<1> QED BY <1>1, <1>3, <1>5, <1>10, <1>11 DEF Accounts

\* Taking a histogram only moves its samples into the sum.
LEMMA FlushOwes ==
  ASSUME LatInv, Flush, NEW e \in Domains, NEW u \in Types
  PROVE  Accounts(e, u) /\ UNCHANGED <<depth, domainP99>>
<1>1. PICK cpu \in Cpus, d \in Domains, t \in Types :
        /\ cpuBuckets' = Clear(cpuBuckets, cpu, d, t)
        /\ buckets' \in DomainHistograms
        /\ Samples(buckets'[d][t]) = Samples(buckets[d][t]) + Samples(cpuBuckets[cpu][d][t])
        /\ \A x \in Domains, y \in Types :
             <<x, y>> # <<d, t>> => buckets'[x][y] = buckets[x][y]
        /\ position \in 0 .. Slots - 1
        /\ UNCHANGED <<completing, domainP99, depth>>
  BY FlushTakes DEF LatInv
<1>2. cpuBuckets \in CpuHistograms /\ buckets \in DomainHistograms
  BY DEF LatInv, LatTypes, HistogramTypes
<1>3. ~ Consumed(e, u)
  BY <1>1, Sizes DEF Consumed, Evaluates
<1>4. ~ Recorded(e, u)
  BY <1>1 DEF Recorded
<1> DEFINE new == Clear(cpuBuckets, cpu, d, t)
           sum == buckets'
<1>5. new \in CpuHistograms /\ new[cpu][d][t] = Empty
  BY <1>2, Cleared
<1>6. SameBut(new, cpuBuckets, cpu, d, t)
  BY <1>2, Cleared
<1>7. /\ sum \in DomainHistograms
      /\ Samples(sum[d][t]) = Samples(buckets[d][t]) + Samples(cpuBuckets[cpu][d][t])
      /\ <<e, u>> # <<d, t>> => sum[e][u] = buckets[e][u]
  BY <1>1
<1>8. WaitingOf(buckets, cpuBuckets, e, u)' = WaitingOf(sum, new, e, u)
  BY <1>1
<1> HIDE DEF new, sum
<1>9. /\ WaitingOf(buckets, cpuBuckets, e, u) \in Nat /\ WaitingOf(sum, new, e, u) \in Nat
      /\ Samples(buckets[e][u]) \in Nat /\ Samples(sum[e][u]) \in Nat
      /\ Samples(cpuBuckets[cpu][e][u]) \in Nat /\ Samples(new[cpu][e][u]) \in Nat
      /\ WaitingOf(sum, new, e, u) - Samples(sum[e][u]) - Samples(new[cpu][e][u])
           = WaitingOf(buckets, cpuBuckets, e, u) - Samples(buckets[e][u]) - Samples(cpuBuckets[cpu][e][u])
  <2>1. \A o \in Cpus \ {cpu} : new[o][e][u] = cpuBuckets[o][e][u]
    BY <1>6 DEF SameBut
  <2> QED BY <2>1, <1>2, <1>5, <1>7, WaitingChanges
<1>10. Samples(sum[e][u]) + Samples(new[cpu][e][u])
         = Samples(buckets[e][u]) + Samples(cpuBuckets[cpu][e][u])
  <2>1. CASE e = d /\ u = t
    BY <2>1, <1>5, <1>7, <1>9, EmptyHistogram
  <2>2. CASE ~ (e = d /\ u = t)
    <3>1. sum[e][u] = buckets[e][u]
      BY <2>2, <1>7
    <3>2. new[cpu][e][u] = cpuBuckets[cpu][e][u]
      BY <2>2, <1>6 DEF SameBut
    <3> QED BY <3>1, <3>2
  <2> QED BY <2>1, <2>2
<1>11. WaitingOf(sum, new, e, u) = WaitingOf(buckets, cpuBuckets, e, u)
  BY <1>9, <1>10
<1> QED BY <1>1, <1>3, <1>4, <1>8, <1>11 DEF Accounts

\* A histogram is evaluated as a whole or left as it is.
LEMMA AdjustOwes ==
  ASSUME LatInv, Adjust, NEW e \in Domains, NEW u \in Types
  PROVE  Accounts(e, u)
<1>1. /\ position = Slots /\ position' = Unset
      /\ UNCHANGED <<cpuBuckets, completing>>
      /\ buckets' \in DomainHistograms
      /\ buckets'[e][u] \in {buckets[e][u], Empty}
  BY AdjustTunes DEF LatInv
<1>2. cpuBuckets \in CpuHistograms /\ buckets \in DomainHistograms
  BY DEF LatInv, LatTypes, HistogramTypes
<1>3. Consumed(e, u) <=> buckets[e][u] # Empty /\ buckets'[e][u] = Empty
  BY <1>1 DEF Consumed, Evaluates
<1>4. ~ Recorded(e, u)
  BY <1>1 DEF Recorded
<1> DEFINE sum == buckets'
<1>5. WaitingOf(buckets, cpuBuckets, e, u)' = WaitingOf(sum, cpuBuckets, e, u)
  BY <1>1
<1>6. /\ sum \in DomainHistograms /\ sum[e][u] \in {buckets[e][u], Empty}
      /\ Consumed(e, u) <=> buckets[e][u] # Empty /\ sum[e][u] = Empty
  BY <1>1, <1>3
<1> HIDE DEF sum
<1>7. PICK cpu \in Cpus : TRUE
  BY LatencyAssumption DEF Cpus
<1>8. /\ WaitingOf(buckets, cpuBuckets, e, u) \in Nat /\ WaitingOf(sum, cpuBuckets, e, u) \in Nat
      /\ Samples(buckets[e][u]) \in Nat /\ Samples(sum[e][u]) \in Nat
      /\ Samples(cpuBuckets[cpu][e][u]) \in Nat
      /\ WaitingOf(sum, cpuBuckets, e, u) - Samples(sum[e][u]) - Samples(cpuBuckets[cpu][e][u])
           = WaitingOf(buckets, cpuBuckets, e, u) - Samples(buckets[e][u]) - Samples(cpuBuckets[cpu][e][u])
  BY <1>2, <1>6, WaitingChanges
<1>9. WaitingOf(sum, cpuBuckets, e, u) =
        IF Consumed(e, u) THEN WaitingOf(buckets, cpuBuckets, e, u) - Samples(buckets[e][u])
        ELSE WaitingOf(buckets, cpuBuckets, e, u)
  <2>1. CASE sum[e][u] = buckets[e][u]
    <3>1. ~ Consumed(e, u)
      BY <2>1, <1>6
    <3> QED BY <3>1, <2>1, <1>8
  <2>2. CASE sum[e][u] # buckets[e][u]
    <3>1. Consumed(e, u) /\ Samples(sum[e][u]) = 0
      BY <2>2, <1>6, EmptyHistogram
    <3> QED BY <3>1, <1>8
  <2> QED BY <2>1, <2>2
<1> QED BY <1>4, <1>5, <1>9 DEF Accounts

LEMMA QuietOwes ==
  ASSUME UNCHANGED <<cpuBuckets, buckets, completing, domainP99, depth>>,
         ~ (position = Slots /\ position' = Unset), NEW e \in Domains, NEW u \in Types
  PROVE  Accounts(e, u)
<1>1. ~ Consumed(e, u) /\ ~ Recorded(e, u)
  BY DEF Consumed, Evaluates, Recorded
<1>2. WaitingOf(buckets, cpuBuckets, e, u)' = WaitingOf(buckets, cpuBuckets, e, u)
  OBVIOUS
<1> QED BY <1>1, <1>2 DEF Accounts

\* What is learnt and used: a domain's depth shrinks only on a percentile that
\* is new, and the step that may shrink a depth forgets the percentiles.
Learns(d) ==
  /\ depth[d] \in Nat /\ depth'[d] \in Nat
  /\ depth'[d] < depth[d] => domainP99[d] # Unset \/ Consumed(d, Total)
  /\ domainP99'[d] # Unset =>
       ~ depth'[d] < depth[d] /\ (domainP99[d] # Unset \/ Consumed(d, Total))

LEMMA AdjustLearns ==
  ASSUME LatInv, Adjust, NEW d \in Domains
  PROVE  Learns(d)
<1>1. position = Slots /\ position' = Unset /\ TuneTypes /\ TuneTypes'
  BY AdjustTunes DEF LatInv, LatTypes
<1>2. depth[d] \in Nat /\ depth'[d] \in Nat
  BY <1>1 DEF TuneTypes
<1>3. PICK bad \in BOOLEAN : \E q \in Buckets \cup {Unset} :
        /\ q # Unset => buckets[d][Total] # Empty /\ buckets'[d][Total] = Empty
        /\ domainP99'[d] = IF bad THEN Unset ELSE IF q # Unset THEN q ELSE domainP99[d]
        /\ ~ bad => depth'[d] >= depth[d]
        /\ q = Unset /\ domainP99[d] = Unset => depth'[d] = depth[d]
  BY AdjustTunes DEF LatInv
<1>4. PICK q \in Buckets \cup {Unset} :
        /\ q # Unset => buckets[d][Total] # Empty /\ buckets'[d][Total] = Empty
        /\ domainP99'[d] = IF bad THEN Unset ELSE IF q # Unset THEN q ELSE domainP99[d]
        /\ ~ bad => depth'[d] >= depth[d]
        /\ q = Unset /\ domainP99[d] = Unset => depth'[d] = depth[d]
  BY <1>3
<1>5. q # Unset => Consumed(d, Total)
  BY <1>1, <1>4 DEF Consumed, Evaluates
<1>6. depth'[d] < depth[d] => bad /\ (domainP99[d] # Unset \/ Consumed(d, Total))
  BY <1>2, <1>4, <1>5
<1>7. domainP99'[d] # Unset => ~ bad /\ (domainP99[d] # Unset \/ Consumed(d, Total))
  BY <1>4, <1>5
<1> QED BY <1>2, <1>6, <1>7 DEF Learns

LEMMA OthersLearn ==
  ASSUME LatInv, UNCHANGED <<depth, domainP99>>, NEW d \in Domains
  PROVE  Learns(d)
<1>1. depth[d] \in Nat
  BY DEF LatInv, LatTypes, TuneTypes
<1> QED BY <1>1 DEF Learns

LEMMA StepAccounts ==
  ASSUME LatInv, [Next]_latencyVars, NEW d \in Domains
  PROVE  Learns(d) /\ \A t \in Types : Accounts(d, t)
<1>1. CASE \E cpu \in Cpus : CompleteIO(cpu) \/ \E e \in Domains : CompleteTotal(cpu, e)
  <2>1. \A t \in Types : Accounts(d, t) /\ UNCHANGED <<depth, domainP99>>
    BY <1>1, IOOwes, TotalOwes
  <2>2. UNCHANGED <<depth, domainP99>>
    BY <2>1, TypesAre
  <2> QED BY <2>1, <2>2, OthersLearn
<1>2. CASE Tick \/ TimerFires \/ (\E e \in Domains : StoreTarget(e)) \/ UNCHANGED latencyVars
  <2>1. /\ UNCHANGED <<cpuBuckets, buckets, completing, domainP99, depth>>
        /\ ~ (position = Slots /\ position' = Unset)
    BY <1>2, QuietSteps
  <2>2. \A t \in Types : Accounts(d, t)
    BY <2>1, QuietOwes
  <2> QED BY <2>1, <2>2, OthersLearn
<1>3. CASE Flush
  <2>1. \A t \in Types : Accounts(d, t) /\ UNCHANGED <<depth, domainP99>>
    BY <1>3, FlushOwes
  <2>2. UNCHANGED <<depth, domainP99>>
    BY <2>1, TypesAre
  <2> QED BY <2>1, <2>2, OthersLearn
<1>4. CASE Adjust
  BY <1>4, AdjustOwes, AdjustLearns
<1> QED BY <1>1, <1>2, <1>3, <1>4 DEF Next

LEMMA HistoryStep == HistInv /\ [HistoryNext]_<<latencyVars, historyVars>> => HistInv'
<1> SUFFICES ASSUME HistInv, [HistoryNext]_<<latencyVars, historyVars>> PROVE HistInv'
  OBVIOUS
<1>1. [Next]_latencyVars
  BY DEF HistoryNext
<1>2. LatInv'
  BY <1>1, LatencyStep DEF HistInv
<1>3. CASE HistoryNext
  <2>1. ASSUME NEW d \in Domains, NEW t \in Types
        PROVE  owed'[d][t] = WaitingOf(buckets, cpuBuckets, d, t)'
    <3>1. owed'[d][t] = IF Consumed(d, t) THEN owed[d][t] - Samples(buckets[d][t])
                        ELSE IF Recorded(d, t) THEN owed[d][t] + 1 ELSE owed[d][t]
      BY <1>3 DEF HistoryNext
    <3>2. owed[d][t] = WaitingOf(buckets, cpuBuckets, d, t)
      BY WaitingIs DEF HistInv, SamplesAccounted
    <3>3. Accounts(d, t)
      BY <1>1, StepAccounts DEF HistInv
    <3> QED BY <3>1, <3>2, <3>3 DEF Accounts
  <2>2. SamplesAccounted'
    <3>1. \A d, t : Waiting(d, t)' = WaitingOf(buckets, cpuBuckets, d, t)'
      BY WaitingIs DEF Waiting, WaitingOf, SumFunction
    <3> QED BY <2>1, <3>1 DEF SamplesAccounted
  <2>3. KnownIsFresh'
    <3> SUFFICES ASSUME NEW d \in Domains, domainP99'[d] # Unset PROVE fresh'[d]
      BY DEF KnownIsFresh
    <3>1. Learns(d)
      BY <1>1, StepAccounts DEF HistInv
    <3>2. fresh'[d] = IF depth'[d] < depth[d] THEN FALSE ELSE fresh[d] \/ Consumed(d, Total)
      BY <1>3 DEF HistoryNext
    <3>3. ~ depth'[d] < depth[d] /\ (domainP99[d] # Unset \/ Consumed(d, Total))
      BY <3>1 DEF Learns
    <3>4. domainP99[d] # Unset => fresh[d]
      BY DEF HistInv, KnownIsFresh
    <3> QED BY <3>2, <3>3, <3>4
  <2> QED BY <1>2, <2>2, <2>3 DEF HistInv
<1>4. CASE UNCHANGED <<latencyVars, historyVars>>
  <2>1. UNCHANGED <<cpuBuckets, buckets, domainP99, owed, fresh>>
    BY <1>4 DEF latencyVars, sampleVars, tuneVars, historyVars
  <2>2. SamplesAccounted' /\ KnownIsFresh'
    BY <2>1 DEF HistInv, SamplesAccounted, KnownIsFresh, Waiting
  <2> QED BY <1>2, <2>2 DEF HistInv
<1> QED BY <1>3, <1>4

LEMMA HistoryInvariant == HistorySpec => []HistInv
BY HistoryStart, HistoryStep, PTL DEF HistorySpec

\* However completions on all CPUs and the timer function interleave, every
\* sample is in exactly one histogram from completed_request to the
\* evaluation that uses it.
THEOREM HistoryAccounted == HistorySpec => []SamplesAccounted
<1>1. HistInv => SamplesAccounted
  BY DEF HistInv
<1> QED BY <1>1, HistoryInvariant, PTL

\* kyber_timer_fn throttles a domain only on a percentile that no throttling
\* used before.
THEOREM HistoryThrottles == HistorySpec => ThrottledOnNewData
<1> DEFINE Step == \A d \in Domains :
             depth'[d] < depth[d] => fresh[d] \/ Consumed(d, Total)
<1>1. HistInv /\ [HistoryNext]_<<latencyVars, historyVars>> => [Step]_<<latencyVars, historyVars>>
  <2> SUFFICES ASSUME HistInv, HistoryNext, NEW d \in Domains, depth'[d] < depth[d]
               PROVE  fresh[d] \/ Consumed(d, Total)
    OBVIOUS
  <2>1. Learns(d)
    BY StepAccounts DEF HistInv, HistoryNext
  <2>2. domainP99[d] # Unset \/ Consumed(d, Total)
    BY <2>1 DEF Learns
  <2> QED BY <2>2 DEF HistInv, KnownIsFresh
<1> QED BY <1>1, HistoryInvariant, PTL DEF HistorySpec, ThrottledOnNewData
-----------------------------------------------------------------------------
(***************************************************************************)
(* Set-up and removal                                                      *)
(***************************************************************************)

\* What a series of allocations has made after n of them, and what a series
\* of frees has left before its n-th.
Made(s, n) == {s[k] : k \in 1 .. n}
Left(s, n) == {s[k] : k \in n .. Len(s)}

Shared == ToSet(QueueObjects)
Own(hs) == UNION {ToSet(HctxObjects(h)) : h \in hs}
Before(h) == 1 .. h - 1

\* What is allocated at each place of the switch, and which hardware queues
\* are up.
Places ==
  /\ caller = "absent" => live = {} /\ schedData = {}
  /\ caller = "init_sched" =>
       place \in 1 .. Len(QueueObjects) + 1 /\ schedData = {} /\ live = Made(QueueObjects, place - 1)
  /\ caller = "undo_sched" =>
       place \in 0 .. Len(QueueObjects) /\ schedData = {} /\ live = Made(QueueObjects, place)
  /\ caller = "init_hctx" =>
       /\ place \in 1 .. Len(HctxObjects(hctx)) + 1
       /\ schedData = Before(hctx)
       /\ live = Shared \cup Own(Before(hctx)) \cup Made(HctxObjects(hctx), place - 1)
  /\ caller = "undo_hctx" =>
       /\ place \in 0 .. Len(HctxObjects(hctx))
       /\ schedData = Before(hctx)
       /\ live = Shared \cup Own(Before(hctx)) \cup Made(HctxObjects(hctx), place)
  /\ caller \in {"installed", "freeze"} => live = Everything /\ schedData = Hctxs
  /\ caller = "exit_hctx" =>
       /\ schedData \subseteq hctx .. NumHctxs
       /\ place \in 1 .. Len(HctxFrees(hctx)) + 1
       /\ hctx \notin schedData => place = 1
       /\ live = Shared \cup Own(schedData \ {hctx})
                   \cup (IF hctx \in schedData THEN Left(HctxFrees(hctx), place) ELSE {})
  /\ caller = "del_timer" => live = Shared /\ schedData = {}
  /\ caller = "exit_sched" =>
       /\ place \in 1 .. Len(QueueFrees) + 1
       /\ schedData = {}
       /\ live = {<<"eq">>} \cup Left(QueueFrees, place)

\* Who runs beside the switch, and at which of its places.
Beside ==
  /\ inflight \in Nat /\ unfinished \in Nat
  /\ inflight > 0 \/ unfinished > 0 => caller \in {"installed", "freeze"}
  /\ pending \/ handler # "idle" => caller \in {"installed", "freeze", "exit_hctx", "del_timer"}

LifeInv ==
  /\ caller \in Callers /\ hctx \in Hctxs
  /\ pending \in BOOLEAN /\ handler \in {"idle", "summing", "resizing"}
  /\ Places /\ Beside
  /\ ~ misused
-----------------------------------------------------------------------------
\* The objects, by their places in the series.

QueueObject(k) ==
  IF k = 1 THEN <<"eq">> ELSE IF k = 2 THEN <<"kqd">> ELSE IF k = 3 THEN <<"cpu_latency">>
  ELSE <<"domain_tokens", k - 3>>

HctxObject(h, k) ==
  IF k = 1 THEN <<"khd", h>> ELSE IF k = 2 THEN <<"kcqs", h>> ELSE <<"kcq_map", h, k - 2>>

LEMMA Concat ==
  \A S : \A a, b \in Seq(S) :
    /\ Len(a \o b) = Len(a) + Len(b)
    /\ DOMAIN (a \o b) = 1 .. Len(a) + Len(b)
    /\ \A k \in 1 .. Len(a) + Len(b) : (a \o b)[k] = IF k <= Len(a) THEN a[k] ELSE b[k - Len(a)]
<1> SUFFICES ASSUME NEW S, NEW a \in Seq(S), NEW b \in Seq(S)
             PROVE  /\ Len(a \o b) = Len(a) + Len(b)
                    /\ DOMAIN (a \o b) = 1 .. Len(a) + Len(b)
                    /\ \A k \in 1 .. Len(a) + Len(b) :
                         (a \o b)[k] = IF k <= Len(a) THEN a[k] ELSE b[k - Len(a)]
  OBVIOUS
<1>1. a \o b \in Seq(S) /\ Len(a \o b) = Len(a) + Len(b)
  BY ConcatProperties
<1>2. \A k \in 1 .. Len(a) + Len(b) :
        (a \o b)[k] = IF k <= Len(a) THEN a[k] ELSE b[k - Len(a)]
  BY ConcatProperties
<1>3. DOMAIN (a \o b) = 1 .. Len(a \o b)
  BY <1>1, LenProperties
<1> QED BY <1>1, <1>2, <1>3

LEMMA QueueSeries ==
  /\ Len(QueueObjects) = NumTokens + 3
  /\ \A k \in 1 .. NumTokens + 3 : QueueObjects[k] = QueueObject(k)
  /\ DOMAIN QueueObjects = 1 .. NumTokens + 3
<1> DEFINE S == {<<"eq">>, <<"kqd">>, <<"cpu_latency">>}
                  \cup {<<"domain_tokens", d>> : d \in 1 .. NumTokens}
           a == <<<<"eq">>, <<"kqd">>, <<"cpu_latency">>>>
<1>1. NumTokens \in Nat \ {0}
  BY LifecycleAssumption
<1>2. Tokens \in Seq(S) /\ Len(Tokens) = NumTokens
  BY <1>1 DEF Tokens
<1>3. a \in Seq(S) /\ Len(a) = 3 /\ a[1] = <<"eq">> /\ a[2] = <<"kqd">> /\ a[3] = <<"cpu_latency">>
  OBVIOUS
<1> HIDE DEF S, a
<1>4. /\ Len(a \o Tokens) = 3 + NumTokens /\ DOMAIN (a \o Tokens) = 1 .. 3 + NumTokens
      /\ \A k \in 1 .. 3 + NumTokens :
           (a \o Tokens)[k] = IF k <= 3 THEN a[k] ELSE Tokens[k - 3]
  <2>1. /\ Len(a \o Tokens) = Len(a) + Len(Tokens)
        /\ DOMAIN (a \o Tokens) = 1 .. Len(a) + Len(Tokens)
        /\ \A k \in 1 .. Len(a) + Len(Tokens) :
             (a \o Tokens)[k] = IF k <= Len(a) THEN a[k] ELSE Tokens[k - Len(a)]
    BY <1>2, <1>3, Concat, Zenon
  <2> QED BY <2>1, <1>2, <1>3
<1>5. QueueObjects = a \o Tokens
  BY DEF QueueObjects, a
<1>6. DOMAIN QueueObjects = 1 .. NumTokens + 3
  BY <1>1, <1>4, <1>5
<1>7. ASSUME NEW k \in 1 .. NumTokens + 3 PROVE QueueObjects[k] = QueueObject(k)
  <2>1. QueueObjects[k] = IF k <= 3 THEN a[k] ELSE Tokens[k - 3]
    BY <1>1, <1>4, <1>5
  <2>2. k > 3 => Tokens[k - 3] = <<"domain_tokens", k - 3>>
    BY <1>1 DEF Tokens
  <2>3. k <= 3 => k \in {1, 2, 3}
    BY <1>1
  <2> QED BY <2>1, <2>2, <2>3, <1>1, <1>3 DEF QueueObject
<1> QED BY <1>1, <1>4, <1>5, <1>6, <1>7

LEMMA HctxSeries ==
  ASSUME NEW h
  PROVE  /\ Len(HctxObjects(h)) = NumTokens + 2
         /\ \A k \in 1 .. NumTokens + 2 : HctxObjects(h)[k] = HctxObject(h, k)
         /\ DOMAIN HctxObjects(h) = 1 .. NumTokens + 2
<1> DEFINE S == {<<"khd", h>>, <<"kcqs", h>>} \cup {<<"kcq_map", h, d>> : d \in 1 .. NumTokens}
           a == <<<<"khd", h>>, <<"kcqs", h>>>>
<1>1. NumTokens \in Nat \ {0}
  BY LifecycleAssumption
<1>2. Maps(h) \in Seq(S) /\ Len(Maps(h)) = NumTokens
  BY <1>1 DEF Maps
<1>3. a \in Seq(S) /\ Len(a) = 2 /\ a[1] = <<"khd", h>> /\ a[2] = <<"kcqs", h>>
  OBVIOUS
<1> HIDE DEF S, a
<1>4. /\ Len(a \o Maps(h)) = 2 + NumTokens /\ DOMAIN (a \o Maps(h)) = 1 .. 2 + NumTokens
      /\ \A k \in 1 .. 2 + NumTokens :
           (a \o Maps(h))[k] = IF k <= 2 THEN a[k] ELSE Maps(h)[k - 2]
  <2>1. /\ Len(a \o Maps(h)) = Len(a) + Len(Maps(h))
        /\ DOMAIN (a \o Maps(h)) = 1 .. Len(a) + Len(Maps(h))
        /\ \A k \in 1 .. Len(a) + Len(Maps(h)) :
             (a \o Maps(h))[k] = IF k <= Len(a) THEN a[k] ELSE Maps(h)[k - Len(a)]
    BY <1>2, <1>3, Concat, Zenon
  <2> QED BY <2>1, <1>2, <1>3
<1>5. HctxObjects(h) = a \o Maps(h)
  BY DEF HctxObjects, a
<1>6. DOMAIN HctxObjects(h) = 1 .. NumTokens + 2
  BY <1>1, <1>4, <1>5
<1>7. ASSUME NEW k \in 1 .. NumTokens + 2 PROVE HctxObjects(h)[k] = HctxObject(h, k)
  <2>1. HctxObjects(h)[k] = IF k <= 2 THEN a[k] ELSE Maps(h)[k - 2]
    BY <1>1, <1>4, <1>5
  <2>2. k > 2 => Maps(h)[k - 2] = <<"kcq_map", h, k - 2>>
    BY <1>1 DEF Maps
  <2>3. k <= 2 => k \in {1, 2}
    BY <1>1
  <2>4. CASE k = 1
    BY <2>1, <2>4, <1>3 DEF HctxObject
  <2>5. CASE k = 2
    BY <2>1, <2>5, <1>3 DEF HctxObject
  <2>6. CASE k > 2
    <3>1. ~ (k <= 2) /\ k # 1 /\ k # 2
      BY <2>6, <1>1
    <3> QED BY <2>1, <2>2, <2>6, <3>1 DEF HctxObject
  <2> QED BY <2>3, <2>4, <2>5, <2>6, <1>1
<1>8. Len(HctxObjects(h)) = NumTokens + 2
  BY <1>1, <1>4, <1>5
<1> QED BY <1>6, <1>7, <1>8

LEMMA FreeSeries ==
  /\ Len(QueueFrees) = NumTokens + 2
  /\ DOMAIN QueueFrees = 1 .. NumTokens + 2
  /\ \A k \in 1 .. NumTokens : QueueFrees[k] = QueueObject(k + 3)
  /\ QueueFrees[NumTokens + 1] = QueueObject(3)
  /\ QueueFrees[NumTokens + 2] = QueueObject(2)
<1> DEFINE S == {<<"kqd">>, <<"cpu_latency">>} \cup {<<"domain_tokens", d>> : d \in 1 .. NumTokens}
           b == <<<<"cpu_latency">>, <<"kqd">>>>
<1>1. NumTokens \in Nat \ {0}
  BY LifecycleAssumption
<1>2. Tokens \in Seq(S) /\ Len(Tokens) = NumTokens
  BY <1>1 DEF Tokens
<1>3. b \in Seq(S) /\ Len(b) = 2 /\ b[1] = <<"cpu_latency">> /\ b[2] = <<"kqd">>
  OBVIOUS
<1> HIDE DEF S, b
<1>4. /\ Len(Tokens \o b) = NumTokens + 2 /\ DOMAIN (Tokens \o b) = 1 .. NumTokens + 2
      /\ \A k \in 1 .. NumTokens + 2 :
           (Tokens \o b)[k] = IF k <= NumTokens THEN Tokens[k] ELSE b[k - NumTokens]
  <2>1. /\ Len(Tokens \o b) = Len(Tokens) + Len(b)
        /\ DOMAIN (Tokens \o b) = 1 .. Len(Tokens) + Len(b)
        /\ \A k \in 1 .. Len(Tokens) + Len(b) :
             (Tokens \o b)[k] = IF k <= Len(Tokens) THEN Tokens[k] ELSE b[k - Len(Tokens)]
    BY <1>2, <1>3, Concat, Zenon
  <2> QED BY <2>1, <1>2, <1>3
<1>5. QueueFrees = Tokens \o b
  BY DEF QueueFrees, b
<1>6. DOMAIN QueueFrees = 1 .. NumTokens + 2
  BY <1>1, <1>4, <1>5
<1>7. \A k \in 1 .. NumTokens : QueueFrees[k] = QueueObject(k + 3)
  <2> TAKE k \in 1 .. NumTokens
  <2>1. QueueFrees[k] = Tokens[k] /\ Tokens[k] = <<"domain_tokens", k>>
    BY <1>1, <1>4, <1>5 DEF Tokens
  <2>2. k + 3 # 1 /\ k + 3 # 2 /\ k + 3 # 3 /\ (k + 3) - 3 = k
    BY <1>1
  <2> QED BY <2>1, <2>2 DEF QueueObject
<1>8. QueueFrees[NumTokens + 1] = b[1] /\ QueueFrees[NumTokens + 2] = b[2]
  <2>1. /\ NumTokens + 1 \in 1 .. NumTokens + 2 /\ ~ (NumTokens + 1 <= NumTokens)
        /\ NumTokens + 2 \in 1 .. NumTokens + 2 /\ ~ (NumTokens + 2 <= NumTokens)
        /\ (NumTokens + 1) - NumTokens = 1 /\ (NumTokens + 2) - NumTokens = 2
    BY <1>1
  <2> QED BY <2>1, <1>4, <1>5
<1>9. QueueFrees[NumTokens + 1] = QueueObject(3) /\ QueueFrees[NumTokens + 2] = QueueObject(2)
  BY <1>3, <1>8 DEF QueueObject
<1> QED BY <1>4, <1>5, <1>6, <1>7, <1>9

LEMMA HctxFreeSeries ==
  ASSUME NEW h
  PROVE  /\ Len(HctxFrees(h)) = NumTokens + 2
         /\ DOMAIN HctxFrees(h) = 1 .. NumTokens + 2
         /\ \A k \in 1 .. NumTokens : HctxFrees(h)[k] = HctxObject(h, k + 2)
         /\ HctxFrees(h)[NumTokens + 1] = HctxObject(h, 2)
         /\ HctxFrees(h)[NumTokens + 2] = HctxObject(h, 1)
<1> DEFINE S == {<<"khd", h>>, <<"kcqs", h>>} \cup {<<"kcq_map", h, d>> : d \in 1 .. NumTokens}
           b == <<<<"kcqs", h>>, <<"khd", h>>>>
<1>1. NumTokens \in Nat \ {0}
  BY LifecycleAssumption
<1>2. Maps(h) \in Seq(S) /\ Len(Maps(h)) = NumTokens
  BY <1>1 DEF Maps
<1>3. b \in Seq(S) /\ Len(b) = 2 /\ b[1] = <<"kcqs", h>> /\ b[2] = <<"khd", h>>
  OBVIOUS
<1> HIDE DEF S, b
<1>4. /\ Len(Maps(h) \o b) = NumTokens + 2 /\ DOMAIN (Maps(h) \o b) = 1 .. NumTokens + 2
      /\ \A k \in 1 .. NumTokens + 2 :
           (Maps(h) \o b)[k] = IF k <= NumTokens THEN Maps(h)[k] ELSE b[k - NumTokens]
  <2>1. /\ Len(Maps(h) \o b) = Len(Maps(h)) + Len(b)
        /\ DOMAIN (Maps(h) \o b) = 1 .. Len(Maps(h)) + Len(b)
        /\ \A k \in 1 .. Len(Maps(h)) + Len(b) :
             (Maps(h) \o b)[k] = IF k <= Len(Maps(h)) THEN Maps(h)[k] ELSE b[k - Len(Maps(h))]
    BY <1>2, <1>3, Concat, Zenon
  <2> QED BY <2>1, <1>2, <1>3
<1>5. HctxFrees(h) = Maps(h) \o b
  BY DEF HctxFrees, b
<1>6. DOMAIN HctxFrees(h) = 1 .. NumTokens + 2
  BY <1>1, <1>4, <1>5
<1>7. \A k \in 1 .. NumTokens : HctxFrees(h)[k] = HctxObject(h, k + 2)
  <2> TAKE k \in 1 .. NumTokens
  <2>1. HctxFrees(h)[k] = Maps(h)[k] /\ Maps(h)[k] = <<"kcq_map", h, k>>
    BY <1>1, <1>4, <1>5 DEF Maps
  <2>2. k + 2 # 1 /\ k + 2 # 2 /\ (k + 2) - 2 = k
    BY <1>1
  <2> QED BY <2>1, <2>2 DEF HctxObject
<1>8. HctxFrees(h)[NumTokens + 1] = b[1] /\ HctxFrees(h)[NumTokens + 2] = b[2]
  <2>1. /\ NumTokens + 1 \in 1 .. NumTokens + 2 /\ ~ (NumTokens + 1 <= NumTokens)
        /\ NumTokens + 2 \in 1 .. NumTokens + 2 /\ ~ (NumTokens + 2 <= NumTokens)
        /\ (NumTokens + 1) - NumTokens = 1 /\ (NumTokens + 2) - NumTokens = 2
    BY <1>1
  <2> QED BY <2>1, <1>4, <1>5
<1>9. HctxFrees(h)[NumTokens + 1] = HctxObject(h, 2) /\ HctxFrees(h)[NumTokens + 2] = HctxObject(h, 1)
  BY <1>3, <1>8 DEF HctxObject
<1> QED BY <1>4, <1>5, <1>6, <1>7, <1>9

LEMMA Different ==
  /\ \A j, k \in 1 .. NumTokens + 3 : QueueObject(j) = QueueObject(k) => j = k
  /\ \A g, h : \A j, k \in 1 .. NumTokens + 2 :
       HctxObject(g, j) = HctxObject(h, k) => g = h /\ j = k
  /\ \A j \in 1 .. NumTokens + 3 : \A h : \A k \in 1 .. NumTokens + 2 :
       QueueObject(j) # HctxObject(h, k)
<1>1. NumTokens \in Nat
  BY LifecycleAssumption
<1>2. \A j, k \in 1 .. NumTokens + 3 : QueueObject(j) = QueueObject(k) => j = k
  BY <1>1 DEF QueueObject
<1>3. \A g, h : \A j, k \in 1 .. NumTokens + 2 :
       HctxObject(g, j) = HctxObject(h, k) => g = h /\ j = k
  BY <1>1 DEF HctxObject
<1>4. \A j \in 1 .. NumTokens + 3 : \A h : \A k \in 1 .. NumTokens + 2 :
       QueueObject(j) # HctxObject(h, k)
  BY <1>1 DEF QueueObject, HctxObject
<1> QED BY <1>2, <1>3, <1>4
-----------------------------------------------------------------------------
\* A series of different objects, made and taken back one by one.

Series(s) ==
  /\ Len(s) \in Nat /\ DOMAIN s = 1 .. Len(s)
  /\ \A j, k \in 1 .. Len(s) : s[j] = s[k] => j = k

LEMMA MadeSteps ==
  ASSUME NEW s, Series(s)
  PROVE  /\ Made(s, 0) = {} /\ Made(s, Len(s)) = ToSet(s)
         /\ \A n \in 1 .. Len(s) :
              /\ Made(s, n) = Made(s, n - 1) \cup {s[n]} /\ s[n] \notin Made(s, n - 1)
              /\ Made(s, n - 1) = Made(s, n) \ {s[n]} /\ s[n] \in Made(s, n)
         /\ \A n \in 0 .. Len(s) : Made(s, n) \subseteq ToSet(s)
<1>1. Made(s, 0) = {}
  BY DEF Made
<1>2. Made(s, Len(s)) = ToSet(s)
  BY DEF Made, ToSet, Series
<1>3. ASSUME NEW n \in 1 .. Len(s)
      PROVE  Made(s, n) = Made(s, n - 1) \cup {s[n]} /\ s[n] \notin Made(s, n - 1)
  <2>1. Len(s) \in Nat /\ n - 1 \in Nat
    BY DEF Series
  <2>2. \A k : k \in 1 .. n <=> k \in 1 .. n - 1 \/ k = n
    BY <2>1
  <2>3. Made(s, n) = Made(s, n - 1) \cup {s[n]}
    BY <2>2 DEF Made
  <2>4. \A k \in 1 .. n - 1 : k # n /\ k \in 1 .. Len(s)
    BY <2>1
  <2> QED BY <2>3, <2>4 DEF Made, Series
<1>4. \A n \in 0 .. Len(s) : Made(s, n) \subseteq ToSet(s)
  <2> TAKE n \in 0 .. Len(s)
  <2>1. \A k \in 1 .. n : k \in DOMAIN s
    BY DEF Series
  <2> QED BY <2>1 DEF Made, ToSet
<1> QED BY <1>1, <1>2, <1>3, <1>4

LEMMA LeftSteps ==
  ASSUME NEW s, Series(s)
  PROVE  /\ Left(s, 1) = ToSet(s) /\ Left(s, Len(s) + 1) = {}
         /\ \A n \in 1 .. Len(s) : /\ Left(s, n + 1) = Left(s, n) \ {s[n]}
                                   /\ s[n] \in Left(s, n) /\ s[Len(s)] \in Left(s, n)
         /\ \A n \in 1 .. Len(s) + 1 : Left(s, n) \subseteq ToSet(s)
<1>1. Left(s, 1) = ToSet(s)
  BY DEF Left, ToSet, Series
<1>2. Left(s, Len(s) + 1) = {}
  BY DEF Left, Series
<1>3. ASSUME NEW n \in 1 .. Len(s)
      PROVE  Left(s, n + 1) = Left(s, n) \ {s[n]} /\ s[n] \in Left(s, n) /\ s[Len(s)] \in Left(s, n)
  <2>1. Len(s) \in Nat
    BY DEF Series
  <2>2. \A k : k \in n .. Len(s) <=> k \in n + 1 .. Len(s) \/ k = n
    BY <2>1
  <2>3. Left(s, n) = Left(s, n + 1) \cup {s[n]}
    BY <2>2 DEF Left
  <2>4. \A k \in n + 1 .. Len(s) : k # n /\ k \in 1 .. Len(s)
    BY <2>1
  <2>5. s[n] \notin Left(s, n + 1)
    BY <2>4 DEF Left, Series
  <2>6. Len(s) \in n .. Len(s)
    BY <2>1
  <2> QED BY <2>3, <2>5, <2>6 DEF Left
<1>4. \A n \in 1 .. Len(s) + 1 : Left(s, n) \subseteq ToSet(s)
  <2> TAKE n \in 1 .. Len(s) + 1
  <2>1. \A k \in n .. Len(s) : k \in DOMAIN s
    BY DEF Series
  <2> QED BY <2>1 DEF Left, ToSet
<1> QED BY <1>1, <1>2, <1>3, <1>4

LEMMA QueueObjectsSeries ==
  /\ Series(QueueObjects) /\ Series(QueueFrees)
  /\ Shared = {<<"eq">>} \cup ToSet(QueueFrees) /\ <<"eq">> \notin ToSet(QueueFrees)
  /\ QueueFrees[Len(QueueFrees)] = <<"kqd">>
  /\ {<<"kqd">>, <<"cpu_latency">>} \subseteq Shared /\ ToSet(Tokens) \subseteq Shared
<1>1. NumTokens \in Nat \ {0}
  BY LifecycleAssumption
<1>2. Series(QueueObjects)
  BY <1>1, QueueSeries, Different DEF Series
<1> DEFINE P(k) == IF k <= NumTokens THEN k + 3 ELSE IF k = NumTokens + 1 THEN 3 ELSE 2
<1>3. \A k \in 1 .. NumTokens + 2 :
        /\ P(k) \in 2 .. NumTokens + 3
        /\ \A j \in 1 .. NumTokens + 2 : P(j) = P(k) => j = k
  BY <1>1
<1>4. \A k \in 1 .. NumTokens + 2 : QueueFrees[k] = QueueObject(P(k))
  <2> TAKE k \in 1 .. NumTokens + 2
  <2>1. CASE k \in 1 .. NumTokens
    BY <2>1, FreeSeries, <1>1
  <2>2. CASE k = NumTokens + 1
    BY <2>2, FreeSeries, <1>1
  <2>3. CASE k = NumTokens + 2
    BY <2>3, FreeSeries, <1>1
  <2> QED BY <2>1, <2>2, <2>3, <1>1
<1>5. \A k \in 2 .. NumTokens + 3 : \E j \in 1 .. NumTokens + 2 : P(j) = k
  <2> TAKE k \in 2 .. NumTokens + 3
  <2>1. CASE k = 2
    <3>1. P(NumTokens + 2) = k /\ NumTokens + 2 \in 1 .. NumTokens + 2
      BY <2>1, <1>1
    <3> QED BY <3>1
  <2>2. CASE k = 3
    <3>1. P(NumTokens + 1) = k /\ NumTokens + 1 \in 1 .. NumTokens + 2
      BY <2>2, <1>1
    <3> QED BY <3>1
  <2>3. CASE k > 3
    <3>1. P(k - 3) = k /\ k - 3 \in 1 .. NumTokens + 2
      BY <2>3, <1>1
    <3> QED BY <3>1
  <2> QED BY <2>1, <2>2, <2>3, <1>1
<1> HIDE DEF P
<1>6. Series(QueueFrees)
  <2>1. \A k \in 1 .. NumTokens + 2 : P(k) \in 1 .. NumTokens + 3
    BY <1>1, <1>3
  <2>2. \A j, k \in 1 .. NumTokens + 2 : QueueFrees[j] = QueueFrees[k] => j = k
    BY <1>3, <1>4, <2>1, Different
  <2>3. Len(QueueFrees) = NumTokens + 2 /\ DOMAIN QueueFrees = 1 .. NumTokens + 2
    BY FreeSeries
  <2> QED BY <2>2, <2>3, <1>1 DEF Series
<1>7. /\ ToSet(QueueFrees) = {QueueObject(k) : k \in 2 .. NumTokens + 3}
      /\ Shared = {QueueObject(k) : k \in 1 .. NumTokens + 3}
  <2>1. ToSet(QueueFrees) = {QueueObject(P(k)) : k \in 1 .. NumTokens + 2}
    BY <1>4, FreeSeries DEF ToSet
  <2>2. ToSet(QueueFrees) = {QueueObject(k) : k \in 2 .. NumTokens + 3}
    BY <2>1, <1>3, <1>5
  <2>3. Shared = {QueueObject(k) : k \in 1 .. NumTokens + 3}
    BY QueueSeries DEF ToSet, Shared
  <2> QED BY <2>2, <2>3
<1>8. QueueObject(1) = <<"eq">> /\ QueueObject(2) = <<"kqd">> /\ QueueObject(3) = <<"cpu_latency">>
  BY DEF QueueObject
<1>9. Shared = {<<"eq">>} \cup ToSet(QueueFrees)
  <2>1. \A k : k \in 1 .. NumTokens + 3 <=> k = 1 \/ k \in 2 .. NumTokens + 3
    BY <1>1
  <2> QED BY <2>1, <1>7, <1>8
<1>10. <<"eq">> \notin ToSet(QueueFrees)
  <2>1. \A k \in 2 .. NumTokens + 3 : k # 1 /\ k \in 1 .. NumTokens + 3
    BY <1>1
  <2>2. 1 \in 1 .. NumTokens + 3
    BY <1>1
  <2> QED BY <2>1, <2>2, <1>7, <1>8, Different
<1>11. QueueFrees[Len(QueueFrees)] = <<"kqd">>
  BY FreeSeries, <1>8
<1>12. {<<"kqd">>, <<"cpu_latency">>} \subseteq Shared
  <2>1. 2 \in 1 .. NumTokens + 3 /\ 3 \in 1 .. NumTokens + 3
    BY <1>1
  <2> QED BY <2>1, <1>7, <1>8
<1>13. ToSet(Tokens) \subseteq Shared
  <2>1. ASSUME NEW d \in 1 .. NumTokens PROVE <<"domain_tokens", d>> \in Shared
    <3>1. d + 3 \in 1 .. NumTokens + 3 /\ (d + 3) - 3 = d /\ d + 3 # 1 /\ d + 3 # 2 /\ d + 3 # 3
      BY <1>1
    <3>2. QueueObject(d + 3) = <<"domain_tokens", d>>
      BY <3>1 DEF QueueObject
    <3> QED BY <3>1, <3>2, <1>7
  <2>2. ToSet(Tokens) = {<<"domain_tokens", d>> : d \in 1 .. NumTokens}
    BY DEF ToSet, Tokens
  <2> QED BY <2>1, <2>2
<1> QED BY <1>2, <1>6, <1>9, <1>10, <1>11, <1>12, <1>13

LEMMA HctxObjectsSeries ==
  ASSUME NEW h
  PROVE  /\ Series(HctxObjects(h)) /\ Series(HctxFrees(h))
         /\ ToSet(HctxFrees(h)) = ToSet(HctxObjects(h))
         /\ HctxFrees(h)[Len(HctxFrees(h))] = <<"khd", h>>
         /\ <<"khd", h>> \in ToSet(HctxObjects(h))
         /\ ToSet(HctxObjects(h)) \cap Shared = {}
         /\ \A g : g # h => ToSet(HctxObjects(g)) \cap ToSet(HctxObjects(h)) = {}
<1>1. NumTokens \in Nat \ {0}
  BY LifecycleAssumption
<1>2. \A j, k \in 1 .. NumTokens + 2 : HctxObject(h, j) = HctxObject(h, k) => j = k
  BY Different
<1>3. Series(HctxObjects(h))
  BY <1>1, <1>2, HctxSeries DEF Series
<1> DEFINE P(k) == IF k <= NumTokens THEN k + 2 ELSE IF k = NumTokens + 1 THEN 2 ELSE 1
<1>4. \A k \in 1 .. NumTokens + 2 :
        /\ P(k) \in 1 .. NumTokens + 2
        /\ \A j \in 1 .. NumTokens + 2 : P(j) = P(k) => j = k
  BY <1>1
<1>5. \A k \in 1 .. NumTokens + 2 : HctxFrees(h)[k] = HctxObject(h, P(k))
  <2> TAKE k \in 1 .. NumTokens + 2
  <2>1. CASE k \in 1 .. NumTokens
    BY <2>1, HctxFreeSeries, <1>1
  <2>2. CASE k = NumTokens + 1
    BY <2>2, HctxFreeSeries, <1>1
  <2>3. CASE k = NumTokens + 2
    BY <2>3, HctxFreeSeries, <1>1
  <2> QED BY <2>1, <2>2, <2>3, <1>1
<1>6. \A k \in 1 .. NumTokens + 2 : \E j \in 1 .. NumTokens + 2 : P(j) = k
  <2> TAKE k \in 1 .. NumTokens + 2
  <2>1. CASE k = 1
    <3>1. P(NumTokens + 2) = k /\ NumTokens + 2 \in 1 .. NumTokens + 2
      BY <2>1, <1>1
    <3> QED BY <3>1
  <2>2. CASE k = 2
    <3>1. P(NumTokens + 1) = k /\ NumTokens + 1 \in 1 .. NumTokens + 2
      BY <2>2, <1>1
    <3> QED BY <3>1
  <2>3. CASE k > 2
    <3>1. P(k - 2) = k /\ k - 2 \in 1 .. NumTokens + 2
      BY <2>3, <1>1
    <3> QED BY <3>1
  <2> QED BY <2>1, <2>2, <2>3, <1>1
<1> HIDE DEF P
<1>7. Series(HctxFrees(h))
  <2>1. \A j, k \in 1 .. NumTokens + 2 : HctxFrees(h)[j] = HctxFrees(h)[k] => j = k
    BY <1>4, <1>5, <1>2
  <2>2. Len(HctxFrees(h)) = NumTokens + 2 /\ DOMAIN HctxFrees(h) = 1 .. NumTokens + 2
    BY HctxFreeSeries
  <2> QED BY <2>1, <2>2, <1>1 DEF Series
<1>8. \A g : ToSet(HctxObjects(g)) = {HctxObject(g, k) : k \in 1 .. NumTokens + 2}
  BY HctxSeries DEF ToSet
<1>9. ToSet(HctxFrees(h)) = ToSet(HctxObjects(h))
  <2>1. ToSet(HctxFrees(h)) = {HctxObject(h, P(k)) : k \in 1 .. NumTokens + 2}
    BY <1>5, HctxFreeSeries DEF ToSet
  <2> QED BY <2>1, <1>4, <1>6, <1>8
<1>10. HctxFrees(h)[Len(HctxFrees(h))] = <<"khd", h>>
  BY HctxFreeSeries DEF HctxObject
<1>11. <<"khd", h>> \in ToSet(HctxObjects(h))
  <2>1. HctxObject(h, 1) = <<"khd", h>> /\ 1 \in 1 .. NumTokens + 2
    BY <1>1 DEF HctxObject
  <2> QED BY <2>1, <1>8
<1>12. Shared = {QueueObject(k) : k \in 1 .. NumTokens + 3}
  BY QueueSeries DEF ToSet, Shared
<1>13. ToSet(HctxObjects(h)) \cap Shared = {}
  BY <1>8, <1>12, Different
<1>14. \A g : g # h => ToSet(HctxObjects(g)) \cap ToSet(HctxObjects(h)) = {}
  BY <1>8, Different
<1> QED BY <1>3, <1>7, <1>9, <1>10, <1>11, <1>13, <1>14

LEMMA OwnSteps ==
  /\ Everything = Shared \cup Own(Hctxs)
  /\ Own({}) = {}
  /\ \A hs, h : Own(hs \cup {h}) = Own(hs) \cup ToSet(HctxObjects(h))
  /\ \A hs, h : Shared \cup Own(hs) =
       Shared \cup Own(hs \ {h}) \cup (IF h \in hs THEN Left(HctxFrees(h), 1) ELSE {})
  /\ \A hs : Own(hs) \cap Shared = {}
  /\ \A hs, h : h \notin hs => Own(hs) \cap ToSet(HctxObjects(h)) = {}
  /\ \A h \in Hctxs : ToSet(HctxObjects(h)) \subseteq Everything
<1>1. Everything = Shared \cup Own(Hctxs)
  BY DEF Everything, Shared, Own
<1>2. Own({}) = {}
  BY DEF Own
<1>3. \A hs, h : Own(hs \cup {h}) = Own(hs) \cup ToSet(HctxObjects(h))
  BY DEF Own
<1>4. \A h : Left(HctxFrees(h), 1) = ToSet(HctxObjects(h))
  BY HctxObjectsSeries, LeftSteps
<1>5. \A hs, h : Shared \cup Own(hs) =
       Shared \cup Own(hs \ {h}) \cup (IF h \in hs THEN Left(HctxFrees(h), 1) ELSE {})
  <2> TAKE hs, h
  <2>1. CASE h \in hs
    <3>1. hs = (hs \ {h}) \cup {h}
      BY <2>1
    <3>2. Own(hs) = Own(hs \ {h}) \cup ToSet(HctxObjects(h))
      BY <3>1, <1>3
    <3> QED BY <3>2, <2>1, <1>4
  <2>2. CASE h \notin hs
    <3>1. hs = hs \ {h}
      BY <2>2
    <3> QED BY <3>1, <2>2
  <2> QED BY <2>1, <2>2
<1>6. \A hs : Own(hs) \cap Shared = {}
  <2> SUFFICES ASSUME NEW hs, NEW o \in Own(hs), o \in Shared
               PROVE  FALSE
    OBVIOUS
  <2>1. PICK g \in hs : o \in ToSet(HctxObjects(g))
    BY DEF Own
  <2> QED BY <2>1, HctxObjectsSeries
<1>7. \A hs, h : h \notin hs => Own(hs) \cap ToSet(HctxObjects(h)) = {}
  <2> SUFFICES ASSUME NEW hs, NEW h, h \notin hs, NEW o \in Own(hs), o \in ToSet(HctxObjects(h))
               PROVE  FALSE
    OBVIOUS
  <2>1. PICK g \in hs : o \in ToSet(HctxObjects(g))
    BY DEF Own
  <2> QED BY <2>1, HctxObjectsSeries
<1>8. \A h \in Hctxs : ToSet(HctxObjects(h)) \subseteq Everything
  BY DEF Everything
<1> QED BY <1>1, <1>2, <1>3, <1>5, <1>6, <1>7, <1>8
-----------------------------------------------------------------------------
\* The invariant, first for the thread that switches.

LEMMA LifeStart == LifecycleInit => LifeInv
<1>1. 1 \in Hctxs
  BY LifecycleAssumption DEF Hctxs
<1> SUFFICES ASSUME LifecycleInit PROVE LifeInv
  OBVIOUS
<1>2. caller = "absent" /\ live = {} /\ schedData = {}
  BY DEF LifecycleInit
<1>3. Places
  BY <1>2 DEF Places
<1>4. Beside
  BY DEF LifecycleInit, Beside
<1> QED BY <1>1, <1>3, <1>4 DEF LifecycleInit, LifeInv, Callers

LEMMA QueueDataSteps ==
  ASSUME LifeInv, Switch \/ AllocQueueData \/ UndoQueueData
  PROVE  LifeInv'
<1>1. 1 \in Hctxs /\ NumHctxs \in Nat \ {0}
  BY LifecycleAssumption DEF Hctxs
<1>2. /\ Series(QueueObjects) /\ Made(QueueObjects, 0) = {} /\ Made(QueueObjects, Len(QueueObjects)) = Shared
      /\ \A n \in 1 .. Len(QueueObjects) :
           /\ Made(QueueObjects, n) = Made(QueueObjects, n - 1) \cup {QueueObjects[n]}
           /\ Made(QueueObjects, n - 1) = Made(QueueObjects, n) \ {QueueObjects[n]}
           /\ QueueObjects[n] \in Made(QueueObjects, n)
  BY QueueObjectsSeries, MadeSteps DEF Shared
<1>3. Len(QueueObjects) \in Nat
  BY <1>2 DEF Series
<1>4. ~ misused /\ pending \in BOOLEAN /\ handler \in {"idle", "summing", "resizing"}
  BY DEF LifeInv
<1>5. CASE Switch
  <2>1. caller = "absent" /\ caller' = "init_sched" /\ place' = 1 /\ hctx' = 1
    BY <1>5 DEF Switch, Enter
  <2>2. live' = {} /\ schedData' = {}
    BY <1>5, <2>1 DEF Switch, LifeInv, Places
  <2>3. Places'
    BY <2>1, <2>2, <1>2, <1>3 DEF Places
  <2>4. Beside'
    BY <2>1, <1>5 DEF LifeInv, Beside, Switch, requestVars, timerVars
  <2> QED BY <2>1, <2>3, <2>4, <1>1, <1>4, <1>5 DEF LifeInv, Switch, timerVars, Callers
<1>6. CASE AllocQueueData
  <2>1. /\ caller = "init_sched" /\ place \in 1 .. Len(QueueObjects) + 1 /\ schedData = {}
        /\ live = Made(QueueObjects, place - 1)
    BY <1>6 DEF AllocQueueData, LifeInv, Places
  <2>2. /\ inflight = 0 /\ unfinished = 0 /\ pending = FALSE /\ handler = "idle"
        /\ UNCHANGED <<schedData, failing, inflight, unfinished, pending, handler>>
    BY <1>6, <2>1, <1>4 DEF AllocQueueData, LifeInv, Beside, requestVars, timerVars
  <2>3. \/ /\ place = Len(QueueObjects) + 1 /\ caller' = "init_hctx" /\ hctx' = 1 /\ place' = 1
           /\ UNCHANGED <<live, misused>>
        \/ /\ place \in 1 .. Len(QueueObjects) /\ caller' = "init_sched" /\ hctx' = 1 /\ place' = place + 1
           /\ live' = live \cup {QueueObjects[place]} /\ UNCHANGED misused
        \/ /\ place \in 1 .. Len(QueueObjects) /\ caller' = "undo_sched" /\ hctx' = 1 /\ place' = place - 1
           /\ UNCHANGED <<live, misused>>
    BY <1>6, <2>1, <1>3 DEF AllocQueueData, Enter, Allocate
  <2>4. Places'
    <3>1. CASE caller' = "init_hctx"
      <4>1. live' = Shared /\ schedData' = {} /\ place' = 1 /\ hctx' = 1
        BY <3>1, <2>1, <2>2, <2>3, <1>2, <1>3
      <4>2. Made(HctxObjects(1), 0) = {}
        BY HctxObjectsSeries, MadeSteps
      <4>4. Before(1) = {}
        BY DEF Before
      <4>5. Own(Before(1)) = {}
        BY <4>4, OwnSteps
      <4>3. Len(HctxObjects(1)) \in Nat
        BY HctxObjectsSeries DEF Series
      <4> QED BY <3>1, <4>1, <4>2, <4>3, <4>4, <4>5 DEF Places
    <3>2. CASE caller' = "init_sched"
      BY <3>2, <2>1, <2>2, <2>3, <1>2, <1>3 DEF Places
    <3>3. CASE caller' = "undo_sched"
      BY <3>3, <2>1, <2>2, <2>3, <1>2, <1>3 DEF Places
    <3> QED BY <3>1, <3>2, <3>3, <2>3
  <2>5. Beside'
    BY <2>2 DEF Beside
  <2> QED BY <2>2, <2>3, <2>4, <2>5, <1>1, <1>4 DEF LifeInv, Callers
<1>7. CASE UndoQueueData
  <2>1. /\ caller = "undo_sched" /\ place \in 0 .. Len(QueueObjects) /\ schedData = {}
        /\ live = Made(QueueObjects, place)
    BY <1>7 DEF UndoQueueData, LifeInv, Places
  <2>2. /\ inflight = 0 /\ unfinished = 0 /\ pending = FALSE /\ handler = "idle"
        /\ UNCHANGED <<schedData, failing, inflight, unfinished, pending, handler>>
    BY <1>7, <2>1, <1>4 DEF UndoQueueData, LifeInv, Beside, requestVars, timerVars
  <2>3. \/ place = 0 /\ caller' = "absent" /\ hctx' = 1 /\ place' = 1 /\ UNCHANGED <<live, misused>>
        \/ /\ place \in 1 .. Len(QueueObjects) /\ caller' = "undo_sched" /\ hctx' = 1 /\ place' = place - 1
           /\ live' = live \ {QueueObjects[place]}
           /\ misused' = (misused \/ ~ {QueueObjects[place]} \subseteq live)
    BY <1>7, <2>1, <1>3 DEF UndoQueueData, Enter, Free, Use
  <2>4. Places'
    <3>1. CASE place = 0 /\ caller' = "absent" /\ UNCHANGED live
      BY <3>1, <2>1, <2>2, <1>2 DEF Places
    <3>2. CASE place \in 1 .. Len(QueueObjects) /\ caller' = "undo_sched"
      <4>1. place' = place - 1 /\ live' = live \ {QueueObjects[place]}
        BY <3>2, <2>3, <1>3
      <4>2. live' = Made(QueueObjects, place')
        BY <3>2, <4>1, <2>1, <1>2
      <4>3. place' \in 0 .. Len(QueueObjects) /\ schedData' = {}
        BY <3>2, <4>1, <2>1, <2>2, <1>3
      <4> QED BY <3>2, <4>2, <4>3 DEF Places
    <3> QED BY <3>1, <3>2, <2>3
  <2>5. Beside' /\ ~ misused'
    BY <2>1, <2>2, <2>3, <1>2, <1>4 DEF Beside
  <2> QED BY <2>2, <2>3, <2>4, <2>5, <1>1, <1>4 DEF LifeInv, Callers
<1> QED BY <1>5, <1>6, <1>7

\* What init_hctx and exit_hctx find and leave for one hardware queue.
LEMMA HctxSteps ==
  ASSUME NEW h \in Hctxs, NEW own, own \cap ToSet(HctxObjects(h)) = {}
  PROVE  /\ Len(HctxObjects(h)) \in Nat /\ Len(HctxFrees(h)) \in Nat
         /\ Made(HctxObjects(h), 0) = {}
         /\ Made(HctxObjects(h), Len(HctxObjects(h))) = ToSet(HctxObjects(h))
         /\ \A n \in 1 .. Len(HctxObjects(h)) :
              /\ Made(HctxObjects(h), n) = Made(HctxObjects(h), n - 1) \cup {HctxObjects(h)[n]}
              /\ (Shared \cup own \cup Made(HctxObjects(h), n)) \ {HctxObjects(h)[n]}
                   = Shared \cup own \cup Made(HctxObjects(h), n - 1)
              /\ HctxObjects(h)[n] \in Made(HctxObjects(h), n)
         /\ Left(HctxFrees(h), Len(HctxFrees(h)) + 1) = {}
         /\ \A n \in 1 .. Len(HctxFrees(h)) :
              /\ (Shared \cup own \cup Left(HctxFrees(h), n)) \ {HctxFrees(h)[n]}
                   = Shared \cup own \cup Left(HctxFrees(h), n + 1)
              /\ HctxFrees(h)[n] \in Left(HctxFrees(h), n)
              /\ <<"khd", h>> \in Left(HctxFrees(h), n)
<1>1. Series(HctxObjects(h)) /\ Series(HctxFrees(h))
  BY HctxObjectsSeries
<1>2. /\ Made(HctxObjects(h), 0) = {}
      /\ Made(HctxObjects(h), Len(HctxObjects(h))) = ToSet(HctxObjects(h))
      /\ Left(HctxFrees(h), Len(HctxFrees(h)) + 1) = {}
  BY <1>1, MadeSteps, LeftSteps
<1>3. ToSet(HctxObjects(h)) \cap Shared = {}
  BY HctxObjectsSeries
<1>4. ASSUME NEW n \in 1 .. Len(HctxObjects(h))
      PROVE  /\ Made(HctxObjects(h), n) = Made(HctxObjects(h), n - 1) \cup {HctxObjects(h)[n]}
             /\ (Shared \cup own \cup Made(HctxObjects(h), n)) \ {HctxObjects(h)[n]}
                  = Shared \cup own \cup Made(HctxObjects(h), n - 1)
             /\ HctxObjects(h)[n] \in Made(HctxObjects(h), n)
  <2>1. /\ Made(HctxObjects(h), n) = Made(HctxObjects(h), n - 1) \cup {HctxObjects(h)[n]}
        /\ Made(HctxObjects(h), n - 1) = Made(HctxObjects(h), n) \ {HctxObjects(h)[n]}
        /\ HctxObjects(h)[n] \in Made(HctxObjects(h), n)
    BY <1>1, MadeSteps
  <2>2. HctxObjects(h)[n] \in ToSet(HctxObjects(h))
    BY <1>1 DEF ToSet, Series
  <2> QED BY <2>1, <2>2, <1>3
<1>5. ASSUME NEW n \in 1 .. Len(HctxFrees(h))
      PROVE  /\ (Shared \cup own \cup Left(HctxFrees(h), n)) \ {HctxFrees(h)[n]}
                  = Shared \cup own \cup Left(HctxFrees(h), n + 1)
             /\ HctxFrees(h)[n] \in Left(HctxFrees(h), n)
             /\ <<"khd", h>> \in Left(HctxFrees(h), n)
  <2>1. /\ Left(HctxFrees(h), n + 1) = Left(HctxFrees(h), n) \ {HctxFrees(h)[n]}
        /\ HctxFrees(h)[n] \in Left(HctxFrees(h), n)
        /\ HctxFrees(h)[Len(HctxFrees(h))] \in Left(HctxFrees(h), n)
    BY <1>1, LeftSteps
  <2>2. HctxFrees(h)[n] \in ToSet(HctxObjects(h))
    <3>1. HctxFrees(h)[n] \in ToSet(HctxFrees(h))
      BY <1>1 DEF ToSet, Series
    <3> QED BY <3>1, HctxObjectsSeries
  <2>3. HctxFrees(h)[Len(HctxFrees(h))] = <<"khd", h>>
    BY HctxObjectsSeries
  <2> QED BY <2>1, <2>2, <2>3, <1>3
<1> QED BY <1>1, <1>2, <1>4, <1>5 DEF Series

LEMMA HctxDataSteps ==
  ASSUME LifeInv, AllocHctxData \/ UndoHctxData
  PROVE  LifeInv'
<1> DEFINE objects == HctxObjects(hctx)
           own == Own(Before(hctx))
<1>1. NumHctxs \in Nat \ {0} /\ hctx \in 1 .. NumHctxs /\ 1 \in Hctxs /\ hctx \in Hctxs
  BY LifecycleAssumption DEF Hctxs, LifeInv
<1>2. caller \in {"init_hctx", "undo_hctx"}
  BY DEF AllocHctxData, UndoHctxData
<1>3. ~ misused /\ pending = FALSE /\ handler = "idle" /\ inflight = 0 /\ unfinished = 0
  BY <1>2 DEF LifeInv, Beside
<1>4. hctx \notin Before(hctx)
  BY <1>1 DEF Before
<1>5. own \cap ToSet(objects) = {}
  BY <1>4, OwnSteps
<1>6. /\ Len(objects) \in Nat /\ Made(objects, 0) = {} /\ Made(objects, Len(objects)) = ToSet(objects)
      /\ \A n \in 1 .. Len(objects) :
           /\ Made(objects, n) = Made(objects, n - 1) \cup {objects[n]}
           /\ (Shared \cup own \cup Made(objects, n)) \ {objects[n]}
                = Shared \cup own \cup Made(objects, n - 1)
           /\ objects[n] \in Made(objects, n)
  BY <1>1, <1>5, HctxSteps
<1>7. Len(HctxObjects(hctx)) = Len(objects)
  OBVIOUS
<1>8. CASE AllocHctxData
  <2>1. /\ caller = "init_hctx" /\ place \in 1 .. Len(objects) + 1 /\ schedData = Before(hctx)
        /\ live = Shared \cup own \cup Made(objects, place - 1)
    BY <1>8 DEF AllocHctxData, LifeInv, Places
  <2>2. UNCHANGED <<inflight, unfinished, pending, handler>>
    BY <1>8 DEF AllocHctxData, requestVars, timerVars
  <2>3. Beside'
    BY <2>2, <1>3 DEF Beside
  <2>4. CASE place = Len(objects) + 1
    <3>1. /\ schedData' = schedData \cup {hctx} /\ live' = live
          /\ IF hctx = NumHctxs THEN Enter("installed", 1, 1) ELSE Enter("init_hctx", hctx + 1, 1)
          /\ Use({<<"kqd">>, <<"khd", hctx>>})
      BY <2>4, <1>6, <1>8 DEF AllocHctxData
    <3>2. live' = Shared \cup Own(Before(hctx) \cup {hctx})
      <4>1. place - 1 = Len(objects)
        BY <2>4, <1>6
      <4>2. Own(Before(hctx) \cup {hctx}) = own \cup ToSet(objects)
        BY OwnSteps
      <4>3. Made(objects, place - 1) = ToSet(objects)
        BY <4>1, <1>6
      <4> HIDE DEF own, objects
      <4> QED BY <4>2, <4>3, <3>1, <2>1
    <3>3. ~ misused'
      <4>1. <<"kqd">> \in Shared
        BY QueueObjectsSeries
      <4>2. <<"khd", hctx>> \in ToSet(objects)
        BY HctxObjectsSeries
      <4>3. place - 1 = Len(objects)
        BY <2>4, <1>6
      <4> QED BY <4>1, <4>2, <4>3, <3>1, <2>1, <1>3, <1>6 DEF Use
    <3>4. CASE hctx = NumHctxs
      <4>1. Before(hctx) \cup {hctx} = Hctxs
        BY <3>4, <1>1 DEF Before, Hctxs
      <4>2. live' = Everything /\ schedData' = Hctxs
        BY <4>1, <3>1, <3>2, <2>1, OwnSteps
      <4>3. caller' = "installed" /\ hctx' = 1
        BY <3>1, <3>4 DEF Enter
      <4>4. Places'
        BY <4>2, <4>3 DEF Places
      <4> QED BY <4>3, <4>4, <3>3, <2>2, <2>3, <1>1, <1>3 DEF LifeInv, Callers
    <3>5. CASE hctx # NumHctxs
      <4>1. Before(hctx) \cup {hctx} = Before(hctx + 1) /\ hctx + 1 \in Hctxs
        BY <3>5, <1>1 DEF Before, Hctxs
      <4>2. caller' = "init_hctx" /\ hctx' = hctx + 1 /\ place' = 1
        BY <3>1, <3>5 DEF Enter
      <4>3. live' = Shared \cup Own(Before(hctx')) /\ schedData' = Before(hctx')
        BY <4>1, <4>2, <3>1, <3>2, <2>1
      <4>4. Len(HctxObjects(hctx')) \in Nat /\ Made(HctxObjects(hctx'), 0) = {}
        BY HctxObjectsSeries, MadeSteps DEF Series
      <4>5. Places'
        BY <4>2, <4>3, <4>4 DEF Places
      <4> QED BY <4>1, <4>2, <4>5, <3>3, <2>2, <2>3, <1>3 DEF LifeInv, Callers
    <3> QED BY <3>4, <3>5
  <2>5. CASE place \in 1 .. Len(objects)
    <3>1. /\ schedData' = schedData /\ hctx' = hctx
          /\ \/ live' = live \cup {objects[place]} /\ misused' = misused /\ caller' = "init_hctx" /\ place' = place + 1
             \/ live' = live /\ misused' = misused /\ caller' = "undo_hctx" /\ place' = place - 1
      BY <2>5, <1>6, <1>8 DEF AllocHctxData, Enter, Allocate
    <3>2. ASSUME caller' = "init_hctx" PROVE Places'
      <4>1. place' = place + 1 /\ live' = live \cup {objects[place]}
        BY <3>1, <3>2
      <4>2. live' = Shared \cup own \cup Made(objects, place' - 1)
        <5>1. place' - 1 = place /\ place \in Int
          BY <4>1, <2>5
        <5> QED BY <5>1, <4>1, <2>1, <2>5, <1>6
      <4>3. place' \in 1 .. Len(objects) + 1
        BY <4>1, <2>5, <1>6
      <4> QED BY <4>2, <4>3, <3>1, <3>2, <2>1 DEF Places
    <3>3. ASSUME caller' = "undo_hctx" PROVE Places'
      <4>1. place' = place - 1 /\ live' = live
        BY <3>1, <3>3
      <4>2. place' \in 0 .. Len(objects)
        BY <4>1, <2>5, <1>6
      <4> QED BY <4>1, <4>2, <3>1, <3>3, <2>1 DEF Places
    <3>4. Places'
      BY <3>1, <3>2, <3>3
    <3> QED BY <3>1, <3>4, <2>2, <2>3, <1>1, <1>3 DEF LifeInv, Callers
  <2> QED BY <2>1, <2>4, <2>5, <1>6
<1>9. CASE UndoHctxData
  <2>1. /\ caller = "undo_hctx" /\ place \in 0 .. Len(objects) /\ schedData = Before(hctx)
        /\ live = Shared \cup own \cup Made(objects, place)
    BY <1>9 DEF UndoHctxData, LifeInv, Places
  <2>2. UNCHANGED <<schedData, inflight, unfinished, pending, handler>>
    BY <1>9 DEF UndoHctxData, requestVars, timerVars
  <2>3. Beside'
    BY <2>2, <1>3 DEF Beside
  <2>4. CASE place = 0
    <3>1. caller' = "exit_hctx" /\ hctx' = 1 /\ place' = 1 /\ live' = live /\ misused' = misused
      BY <2>4, <1>9 DEF UndoHctxData, Enter
    <3>2. schedData' \subseteq 1 .. NumHctxs
      BY <2>1, <2>2, <1>1 DEF Before
    <3>3. live' = Shared \cup Own(schedData')
      BY <3>1, <2>1, <2>2, <2>4, <1>6
    <3>4. live' = Shared \cup Own(schedData' \ {1})
                    \cup (IF 1 \in schedData' THEN Left(HctxFrees(1), 1) ELSE {})
      BY <3>3, OwnSteps
    <3>5. Len(HctxFrees(1)) \in Nat
      BY HctxObjectsSeries DEF Series
    <3>6. Places'
      BY <3>1, <3>2, <3>4, <3>5 DEF Places
    <3> QED BY <3>1, <3>6, <2>2, <2>3, <1>1, <1>3 DEF LifeInv, Callers
  <2>5. CASE place \in 1 .. Len(objects)
    <3>1. /\ caller' = "undo_hctx" /\ hctx' = hctx /\ place' = place - 1 /\ live' = live \ {objects[place]}
          /\ misused' = (misused \/ ~ {objects[place]} \subseteq live)
      BY <2>5, <1>9 DEF UndoHctxData, Enter, Free, Use
    <3>2. live' = Shared \cup own \cup Made(objects, place') /\ ~ misused'
      BY <3>1, <2>1, <2>5, <1>3, <1>6
    <3>3. place' \in 0 .. Len(objects)
      BY <3>1, <2>5, <1>6
    <3>4. Places'
      BY <3>1, <3>2, <3>3, <2>1, <2>2 DEF Places
    <3> QED BY <3>1, <3>2, <3>4, <2>2, <2>3, <1>1, <1>3 DEF LifeInv, Callers
  <2> QED BY <2>1, <2>4, <2>5, <1>6
<1> QED BY <1>8, <1>9

LEMMA ExitHctxStep ==
  ASSUME LifeInv, ExitHctx
  PROVE  LifeInv'
<1> DEFINE frees == HctxFrees(hctx)
           own == Own(schedData \ {hctx})
<1>1. NumHctxs \in Nat \ {0} /\ hctx \in 1 .. NumHctxs /\ 1 \in Hctxs /\ hctx \in Hctxs
  BY LifecycleAssumption DEF Hctxs, LifeInv
<1>2. /\ caller = "exit_hctx" /\ schedData \subseteq hctx .. NumHctxs
      /\ place \in 1 .. Len(frees) + 1 /\ (hctx \notin schedData => place = 1)
      /\ live = Shared \cup own \cup (IF hctx \in schedData THEN Left(frees, place) ELSE {})
  BY DEF ExitHctx, LifeInv, Places
<1>3. ~ misused /\ pending \in BOOLEAN /\ handler \in {"idle", "summing", "resizing"}
  BY DEF LifeInv
<1>4. inflight = 0 /\ unfinished = 0 /\ UNCHANGED <<inflight, unfinished, pending, handler>>
  BY <1>2 DEF ExitHctx, LifeInv, Beside, requestVars, timerVars
<1>5. own \cap ToSet(HctxObjects(hctx)) = {}
  BY OwnSteps
<1>6. /\ Len(frees) \in Nat /\ Left(frees, Len(frees) + 1) = {}
      /\ \A n \in 1 .. Len(frees) :
           /\ (Shared \cup own \cup Left(frees, n)) \ {frees[n]} = Shared \cup own \cup Left(frees, n + 1)
           /\ frees[n] \in Left(frees, n) /\ <<"khd", hctx>> \in Left(frees, n)
  BY <1>1, <1>5, HctxSteps
\* On to the next hardware queue, or past the last one.
<1>7. ASSUME NextHctx, schedData' \subseteq hctx + 1 .. NumHctxs,
             live' = Shared \cup Own(schedData'), misused' = misused
      PROVE  LifeInv'
  <2>1. CASE hctx = NumHctxs
    <3>1. caller' = "del_timer" /\ hctx' = 1
      BY <1>7, <2>1 DEF NextHctx, Enter
    <3>2. schedData' = {}
      BY <1>1, <1>7, <2>1
    <3>3. live' = Shared
      BY <1>7, <3>2, OwnSteps
    <3>4. Places'
      BY <3>1, <3>2, <3>3 DEF Places
    <3>5. Beside'
      BY <3>1, <1>4 DEF Beside
    <3> QED BY <3>1, <3>4, <3>5, <1>1, <1>3, <1>4, <1>7 DEF LifeInv, Callers
  <2>2. CASE hctx # NumHctxs
    <3>1. caller' = "exit_hctx" /\ hctx' = hctx + 1 /\ place' = 1
      BY <1>7, <2>2 DEF NextHctx, Enter
    <3>2. hctx + 1 \in Hctxs
      BY <2>2, <1>1 DEF Hctxs
    <3>3. live' = Shared \cup Own(schedData' \ {hctx'})
                    \cup (IF hctx' \in schedData' THEN Left(HctxFrees(hctx'), 1) ELSE {})
      BY <1>7, OwnSteps
    <3>4. Len(HctxFrees(hctx')) \in Nat
      BY HctxObjectsSeries DEF Series
    <3>5. Places'
      BY <3>1, <3>3, <3>4, <1>7 DEF Places
    <3>6. Beside'
      BY <3>1, <1>4 DEF Beside
    <3> QED BY <3>1, <3>2, <3>5, <3>6, <1>3, <1>4, <1>7 DEF LifeInv, Callers
  <2> QED BY <2>1, <2>2
<1>8. CASE hctx \notin schedData
  <2>1. NextHctx /\ live' = live /\ schedData' = schedData /\ misused' = misused
    BY <1>8 DEF ExitHctx
  <2>2. schedData' \subseteq hctx + 1 .. NumHctxs
    BY <2>1, <1>1, <1>2, <1>8
  <2>3. schedData = schedData \ {hctx}
    BY <1>8
  <2>4. live' = Shared \cup Own(schedData')
    BY <2>1, <2>3, <1>2, <1>8
  <2> QED BY <2>1, <2>2, <2>4, <1>7
<1>9. CASE hctx \in schedData /\ place = Len(frees) + 1
  <2>1. NextHctx /\ live' = live /\ schedData' = schedData \ {hctx} /\ misused' = misused
    BY <1>9, <1>6 DEF ExitHctx
  <2>2. schedData' \subseteq hctx + 1 .. NumHctxs
    BY <2>1, <1>1, <1>2
  <2>3. live' = Shared \cup Own(schedData')
    <3>1. Left(frees, place) = {}
      BY <1>6, <1>9
    <3> QED BY <3>1, <2>1, <1>2
  <2> QED BY <2>1, <2>2, <2>3, <1>7
<1>10. CASE hctx \in schedData /\ place \in 1 .. Len(frees)
  <2>1. /\ caller' = "exit_hctx" /\ hctx' = hctx /\ place' = place + 1 /\ schedData' = schedData
        /\ live' = live \ {frees[place]}
        /\ misused' = (misused \/ ~ {frees[place], <<"khd", hctx>>} \subseteq live)
    BY <1>10, <1>6 DEF ExitHctx, Enter, Use
  <2>2. live = Shared \cup own \cup Left(frees, place)
    BY <1>2, <1>10
  <2>3. frees[place] \in Left(frees, place) /\ <<"khd", hctx>> \in Left(frees, place)
    BY <1>6, <1>10
  <2>4. ~ misused'
    BY <2>1, <2>2, <2>3, <1>3
  <2>5. live' = Shared \cup own \cup Left(frees, place')
    BY <2>1, <2>2, <1>6, <1>10
  <2>6. place' \in 1 .. Len(frees) + 1
    BY <2>1, <1>6, <1>10
  <2>7. Places'
    BY <2>1, <2>5, <2>6, <1>2, <1>10 DEF Places
  <2>8. Beside'
    BY <2>1, <1>4 DEF Beside
  <2> QED BY <2>1, <2>4, <2>7, <2>8, <1>1, <1>3, <1>4 DEF LifeInv, Callers
<1> QED BY <1>2, <1>6, <1>8, <1>9, <1>10

LEMMA LeaveSteps ==
  ASSUME LifeInv, Freeze \/ Frozen \/ DeleteTimer \/ ExitSched
  PROVE  LifeInv'
<1>1. NumHctxs \in Nat \ {0} /\ 1 \in Hctxs
  BY LifecycleAssumption DEF Hctxs
<1>2. ~ misused /\ pending \in BOOLEAN /\ handler \in {"idle", "summing", "resizing"}
      /\ inflight \in Nat /\ unfinished \in Nat
  BY DEF LifeInv, Beside
<1>3. /\ Len(QueueFrees) \in Nat /\ Left(QueueFrees, 1) = ToSet(QueueFrees)
      /\ Left(QueueFrees, Len(QueueFrees) + 1) = {}
      /\ \A n \in 1 .. Len(QueueFrees) :
           /\ Left(QueueFrees, n + 1) = Left(QueueFrees, n) \ {QueueFrees[n]}
           /\ QueueFrees[n] \in Left(QueueFrees, n) /\ <<"kqd">> \in Left(QueueFrees, n)
           /\ QueueFrees[n] # <<"eq">>
  <2>1. Series(QueueFrees) /\ QueueFrees[Len(QueueFrees)] = <<"kqd">> /\ <<"eq">> \notin ToSet(QueueFrees)
    BY QueueObjectsSeries
  <2>2. \A n \in 1 .. Len(QueueFrees) : QueueFrees[n] \in ToSet(QueueFrees)
    BY <2>1 DEF Series, ToSet
  <2>3. Len(QueueFrees) \in Nat
    BY <2>1 DEF Series
  <2> QED BY <2>1, <2>2, <2>3, LeftSteps
<1>4. CASE Freeze
  <2>1. /\ caller = "installed" /\ caller' = "freeze" /\ hctx' = 1
        /\ UNCHANGED <<live, schedData, inflight, unfinished, pending, handler, misused>>
    BY <1>4 DEF Freeze, Enter, requestVars, timerVars
  <2>2. Places'
    BY <2>1 DEF LifeInv, Places
  <2>3. Beside'
    BY <2>1, <1>2 DEF Beside
  <2> QED BY <2>1, <2>2, <2>3, <1>1, <1>2 DEF LifeInv, Callers
<1>5. CASE Frozen
  <2>1. /\ caller = "freeze" /\ caller' = "exit_hctx" /\ hctx' = 1 /\ place' = 1
        /\ inflight = 0 /\ unfinished = 0
        /\ UNCHANGED <<live, schedData, inflight, unfinished, pending, handler, misused>>
    BY <1>5 DEF Frozen, Enter, requestVars, timerVars
  <2>2. live = Shared \cup Own(Hctxs) /\ schedData = Hctxs
    BY <2>1, OwnSteps DEF LifeInv, Places
  <2>3. live' = Shared \cup Own(schedData' \ {hctx'})
                  \cup (IF hctx' \in schedData' THEN Left(HctxFrees(hctx'), 1) ELSE {})
    BY <2>1, <2>2, OwnSteps
  <2>4. Len(HctxFrees(hctx')) \in Nat
    BY HctxObjectsSeries DEF Series
  <2>5. schedData' \subseteq hctx' .. NumHctxs
    BY <2>1, <2>2 DEF Hctxs
  <2>6. hctx' \in schedData' \/ place' = 1
    BY <2>1
  <2>7. Places'
    BY <2>1, <2>3, <2>4, <2>5 DEF Places
  <2>8. Beside'
    BY <2>1 DEF Beside
  <2> QED BY <2>1, <2>7, <2>8, <1>1, <1>2 DEF LifeInv, Callers
<1>6. CASE DeleteTimer
  <2>1. /\ caller = "del_timer" /\ caller' = "exit_sched" /\ hctx' = 1 /\ place' = 1
        /\ pending' = FALSE /\ handler = "idle"
        /\ misused' = (misused \/ ~ {<<"kqd">>} \subseteq live)
        /\ UNCHANGED <<live, schedData, inflight, unfinished, handler>>
    BY <1>6 DEF DeleteTimer, Enter, Use, requestVars
  <2>2. live = Shared /\ schedData = {}
    BY <2>1 DEF LifeInv, Places
  <2>3. inflight = 0 /\ unfinished = 0
    BY <2>1 DEF LifeInv, Beside
  <2>4. ~ misused'
    BY <2>1, <2>2, <1>2, QueueObjectsSeries
  <2>5. live' = {<<"eq">>} \cup Left(QueueFrees, place')
    BY <2>1, <2>2, <1>3, QueueObjectsSeries
  <2>6. place' \in 1 .. Len(QueueFrees) + 1
    BY <2>1, <1>3
  <2>7. Places'
    BY <2>1, <2>2, <2>5, <2>6 DEF Places
  <2>8. Beside'
    BY <2>1, <2>3 DEF Beside
  <2> QED BY <2>1, <2>4, <2>7, <2>8, <1>1, <1>2 DEF LifeInv, Callers
<1>7. CASE ExitSched
  <2>1. /\ caller = "exit_sched" /\ place \in 1 .. Len(QueueFrees) + 1 /\ schedData = {}
        /\ live = {<<"eq">>} \cup Left(QueueFrees, place)
    BY <1>7 DEF ExitSched, LifeInv, Places
  <2>2. /\ inflight = 0 /\ unfinished = 0 /\ pending = FALSE /\ handler = "idle"
        /\ UNCHANGED <<schedData, inflight, unfinished, pending, handler>>
    BY <1>7, <2>1, <1>2 DEF ExitSched, LifeInv, Beside, requestVars, timerVars
  <2>3. Beside'
    BY <2>2 DEF Beside
  <2>4. CASE place = Len(QueueFrees) + 1
    <3>1. /\ caller' = "absent" /\ hctx' = 1 /\ live' = live \ {<<"eq">>}
          /\ misused' = (misused \/ ~ {<<"eq">>} \subseteq live)
      BY <2>4, <1>3, <1>7 DEF ExitSched, Enter, Free, Use
    <3>2. live = {<<"eq">>}
      BY <2>1, <2>4, <1>3
    <3>3. Places'
      BY <3>1, <3>2, <2>1, <2>2 DEF Places
    <3> QED BY <3>1, <3>2, <3>3, <2>2, <2>3, <1>1, <1>2 DEF LifeInv, Callers
  <2>5. CASE place \in 1 .. Len(QueueFrees)
    <3>1. /\ caller' = "exit_sched" /\ hctx' = 1 /\ place' = place + 1 /\ live' = live \ {QueueFrees[place]}
          /\ misused' = (misused \/ ~ {QueueFrees[place], <<"kqd">>} \subseteq live)
      BY <2>5, <1>3, <1>7 DEF ExitSched, Enter, Use
    <3>2. live' = {<<"eq">>} \cup Left(QueueFrees, place')
      <4>1. Left(QueueFrees, place') = Left(QueueFrees, place) \ {QueueFrees[place]} /\ QueueFrees[place] # <<"eq">>
        BY <3>1, <2>5, <1>3
      <4> QED BY <4>1, <3>1, <2>1
    <3>3. ~ misused'
      BY <3>1, <2>1, <2>5, <1>2, <1>3
    <3>4. place' \in 1 .. Len(QueueFrees) + 1
      BY <3>1, <2>5, <1>3
    <3>5. Places'
      BY <3>1, <3>2, <3>4, <2>1, <2>2 DEF Places
    <3> QED BY <3>1, <3>3, <3>5, <2>2, <2>3, <1>1, <1>2 DEF LifeInv, Callers
  <2> QED BY <2>1, <2>4, <2>5, <1>3
<1> QED BY <1>4, <1>5, <1>6, <1>7

\* What runs beside the switch only uses what all of its places share.
LEMMA BesideSteps ==
  ASSUME LifeInv,
         \/ \E h \in Hctxs : Dispatch(h)
         \/ Completed \/ Finished \/ TimerRuns \/ Sum \/ Resize
  PROVE  LifeInv'
<1>1. /\ UNCHANGED <<live, schedData, caller, hctx, place>>
      /\ ~ misused /\ hctx \in Hctxs /\ caller \in Callers
      /\ pending \in BOOLEAN /\ handler \in {"idle", "summing", "resizing"}
      /\ inflight \in Nat /\ unfinished \in Nat
  BY DEF LifeInv, Beside, Dispatch, Completed, Finished, TimerRuns, Sum, Resize, switchVars
<1>2. Places'
  <2>1. Places
    BY DEF LifeInv
  <2> QED BY <2>1, <1>1 DEF Places
<1>3. caller \in {"installed", "freeze", "exit_hctx", "del_timer"}
  BY <1>1 DEF LifeInv, Beside, Dispatch, Completed, Finished, TimerRuns, Sum, Resize
<1>4. Shared \subseteq live
  BY <1>3, OwnSteps DEF LifeInv, Places
<1>5. {<<"kqd">>, <<"cpu_latency">>} \subseteq live /\ ToSet(Tokens) \subseteq live
  BY <1>4, QueueObjectsSeries
<1>6. ~ misused'
  <2>1. ASSUME NEW h \in Hctxs, Dispatch(h) PROVE ~ misused'
    <3>1. caller = "installed" /\ Use({<<"kqd">>} \cup ToSet(Tokens) \cup ToSet(HctxObjects(h)))
      BY <2>1 DEF Dispatch
    <3>2. live = Everything
      BY <3>1 DEF LifeInv, Places
    <3>3. ToSet(HctxObjects(h)) \subseteq live
      BY <3>2, OwnSteps
    <3> QED BY <3>1, <3>3, <1>1, <1>5 DEF Use
  <2>2. CASE Completed \/ Finished \/ TimerRuns \/ Sum \/ Resize
    BY <2>2, <1>1, <1>5 DEF Use, Completed, Finished, TimerRuns, Sum, Resize
  <2> QED BY <2>1, <2>2
<1>7. Beside'
  <2>1. CASE \E h \in Hctxs : Dispatch(h)
    <3>1. caller = "installed" /\ inflight' = inflight + 1 /\ unfinished' = unfinished
      BY <2>1 DEF Dispatch
    <3> QED BY <3>1, <1>1 DEF Beside
  <2>2. CASE Completed
    <3>1. inflight > 0 /\ inflight' = inflight - 1 /\ unfinished' = unfinished + 1
      BY <2>2 DEF Completed
    <3>2. caller \in {"installed", "freeze"}
      BY <3>1 DEF LifeInv, Beside
    <3> QED BY <3>1, <3>2, <1>1 DEF Beside
  <2>3. CASE Finished
    <3>1. unfinished > 0 /\ unfinished' = unfinished - 1 /\ inflight' = inflight
      BY <2>3 DEF Finished
    <3>2. caller \in {"installed", "freeze"}
      BY <3>1 DEF LifeInv, Beside
    <3> QED BY <3>1, <3>2, <1>1 DEF Beside
  <2>4. CASE TimerRuns \/ Sum \/ Resize
    <3>1. inflight' = inflight /\ unfinished' = unfinished
      BY <2>4 DEF TimerRuns, Sum, Resize, requestVars
    <3>2. inflight > 0 \/ unfinished > 0 => caller \in {"installed", "freeze"}
      BY DEF LifeInv, Beside
    <3> QED BY <3>1, <3>2, <1>1, <1>3 DEF Beside
  <2> QED BY <2>1, <2>2, <2>3, <2>4
<1>8. pending' \in BOOLEAN /\ handler' \in {"idle", "summing", "resizing"}
  BY <1>1 DEF Dispatch, Completed, Finished, TimerRuns, Sum, Resize, timerVars
<1> QED BY <1>1, <1>2, <1>6, <1>7, <1>8 DEF LifeInv

LEMMA LifeStep == LifeInv /\ [LifecycleNext]_lifecycleVars => LifeInv'
<1> SUFFICES ASSUME LifeInv, [LifecycleNext]_lifecycleVars PROVE LifeInv'
  OBVIOUS
<1>1. CASE UNCHANGED lifecycleVars
  <2>1. UNCHANGED <<live, schedData, caller, hctx, place, inflight, unfinished, pending, handler, misused>>
    BY <1>1 DEF lifecycleVars, switchVars, requestVars, timerVars
  <2>2. Places' /\ Beside'
    <3>1. Places /\ Beside
      BY DEF LifeInv
    <3> QED BY <3>1, <2>1 DEF Places, Beside
  <2> QED BY <2>1, <2>2 DEF LifeInv
<1>2. CASE LifecycleNext
  BY <1>2, QueueDataSteps, HctxDataSteps, ExitHctxStep, LeaveSteps, BesideSteps DEF LifecycleNext, SwitchStep
<1> QED BY <1>1, <1>2

\* Spec keeps the invariant: what is allocated follows from where the switch
\* is, and nobody runs beside it where that is not enough for him.
THEOREM LifecycleInvariant == LifecycleSpec => []LifeInv
<1> QED BY LifeStart, LifeStep, PTL DEF LifecycleSpec

\* Whichever allocations of init_sched and init_hctx fail, for any number of
\* domains and hardware queues, a queue without Kyber has nothing of it left
\* allocated and a queue with it has all of it.
THEOREM SetUpAllOrNothing == LifecycleSpec => []AllOrNothing
<1>1. LifeInv => AllOrNothing
  BY DEF LifeInv, Places, AllOrNothing
<1> QED BY <1>1, LifecycleInvariant, PTL

\* No object is used or freed that is not allocated: by the labels and loops
\* that take an allocation back, by exit_sched and exit_hctx, by requests
\* and their completions, or by the timer function.
THEOREM SetUpMisusesNothing == LifecycleSpec => []NothingMisused
<1>1. LifeInv => NothingMisused
  BY DEF LifeInv, NothingMisused
<1> QED BY <1>1, LifecycleInvariant, PTL
=============================================================================
