--------------------------- MODULE KyberHistogram ---------------------------
(***************************************************************************)
(* The latency histograms of Kyber: which bucket a latency falls into, and *)
(* in which bucket a percentile lies.                                      *)
(***************************************************************************)
EXTENDS Integers, FiniteSetsExt, Functions

CONSTANT UIntRange   \* how many values an unsigned int has: 2^32

GoodBuckets == 4             \* also the buckets per target latency
LastBucket == 2 * GoodBuckets - 1
Buckets == 0 .. LastBucket
Empty == [k \in Buckets |-> 0]

ASSUME UIntAssumption == UIntRange \in Nat /\ UIntRange > LastBucket

Samples(b) == SumFunction(b)

\* The divisor of add_latency_sample: the width of a bucket.
Quarter(target) == Max({target \div GoodBuckets, 1})

\* add_latency_sample: the bucket a latency falls into.  min_t makes an unsigned
\* int of the 64-bit quotient before it takes the minimum.
BucketOf(target, latency) ==
  IF latency > 0
  THEN Min({((latency - 1) \div Quarter(target)) % UIntRange, LastBucket})
  ELSE 0

\* The loop of calculate_percentile: the bucket in which the given share of
\* the samples is reached.  The scan is at a bucket with some samples to go.
Percentile(b, percentile) ==
  LET scan[at \in Buckets \X (0 .. Samples(b))] ==
        IF at[1] = LastBucket \/ b[at[1]] >= at[2] THEN at[1]
        ELSE scan[<<at[1] + 1, at[2] - b[at[1]]>>]
  IN scan[<<0, (Samples(b) * percentile + 99) \div 100>>]
-----------------------------------------------------------------------------
\* The table above KYBER_LATENCY_BUCKETS: bucket k, except the last, holds the
\* latencies above k quarters of the target and up to k + 1 quarters, and the
\* first also holds 0.  For targets that are no multiple of four, the quarter
\* is rounded down; latencies beyond UIntRange quarters start at bucket 0 again.
AsTabled(target, latency) ==
  LET k == BucketOf(target, latency)
  IN /\ k < LastBucket => 4 * latency <= (k + 1) * target
     /\ k > 0 => 4 * latency > k * target

UpTo(b, k) == SumFunctionOnSet(b, 0 .. k)

\* calculate_percentile finds the least bucket up to which the histogram holds
\* at least the given percentage of the samples.
IsPercentile(b, percentile) ==
  LET k == Percentile(b, percentile)
  IN /\ 100 * UpTo(b, k) >= percentile * Samples(b)
     /\ 100 * UpTo(b, k - 1) < percentile * Samples(b)
=============================================================================
