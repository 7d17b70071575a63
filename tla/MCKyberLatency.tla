--------------------------- MODULE MCKyberLatency ---------------------------
(* Domain 0 stays within its target; domain 1 exceeds its target until an  *)
(* administrator sets a larger one.                                        *)
EXTENDS KyberLatencyHistory, TLC

MCMaxDepth == 0 :> 3 @@ 1 :> 1
MCTarget == 0 :> 4 @@ 1 :> 8
MCNewTargets == 0 :> {} @@ 1 :> {16}
MCLatencies == 0 :> {<<3, 1>>} @@ 1 :> {<<12, 9>>}

\* The arithmetic of the histograms against its definition: enough samples for
\* the 90th percentile to leave some out, in a low, a good and the last bucket.
ASSUME PercentilesRight ==
  \A x, y, z \in 0 .. 12 :
    LET b == 0 :> x @@ 3 :> y @@ 7 :> z @@ Empty
    IN x + y + z > 0 => IsPercentile(b, 90) /\ IsPercentile(b, 99)

ASSUME BucketsRight ==
  \A target \in {4, 8, 40}, latency \in 0 .. 200 :
    /\ latency <= UIntRange * Quarter(target) => AsTabled(target, latency)
    /\ latency > 0 => BucketOf(target, latency + UIntRange * Quarter(target)) = BucketOf(target, latency)
=============================================================================
