---------------------------- MODULE KyberLatency ----------------------------
(***************************************************************************)
(* How Kyber tunes itself.  Completed requests add their latencies to      *)
(* per-CPU histograms; a timer sums these, computes a percentile of each   *)
(* domain when it has enough samples, and resizes the domains' tokens.     *)
(*                                                                         *)
(* completed_request adds two samples, and the timer function, on another  *)
(* CPU, takes the histograms one after the other: each is a step of its    *)
(* own.  The rest of the timer function touches only what it alone writes. *)
(*                                                                         *)
(* Deadlines are kept as the time that is left, so jiffies never wraps.    *)
(***************************************************************************)
EXTENDS KyberHistogram

CONSTANTS
  NumCpus,
  NumDomains,   \* KYBER_OTHER: the domains whose latency is measured
  MaxDepth,     \* kyber_depth
  MinSamples,   \* 500 samples are enough without waiting
  HZ,           \* jiffies in a second
  TimerDelay,   \* HZ / 10
  Target,       \* kyber_latency_targets
  NewTargets,   \* by domain, the targets an administrator may choose
  Latencies,    \* by domain, the pairs of a total and an I/O latency that occur
  MaxSamples    \* bound: no more requests complete while this many samples
                \* of the total latency are waiting to be evaluated

Cpus == 0 .. NumCpus - 1
Domains == 0 .. NumDomains - 1
Total == 0
IO == 1
Types == {Total, IO}
ASSUME LatencyAssumption ==
  /\ NumCpus \in Nat \ {0} /\ NumDomains \in Nat \ {0}
  /\ MaxDepth \in [Domains -> Nat \ {0}]
  /\ MinSamples \in Nat \ {0} /\ HZ \in Nat \ {0} /\ TimerDelay \in Nat \ {0}
  /\ Target \in [Domains -> Nat]
  /\ NewTargets \in [Domains -> SUBSET Nat]
  /\ Latencies \in [Domains -> SUBSET (Nat \X Nat)]
  /\ \A d \in Domains : \A p \in Latencies[d] : p[2] <= p[1]

VARIABLES
  latencyTargets,  \* kqd->latency_targets
  cpuBuckets,      \* cpu_latency->buckets
  buckets,         \* kqd->latency_buckets
  latencyTimeout,  \* kqd->latency_timeout: time left, or Unset for 0
  domainP99,       \* kqd->domain_p99
  depth,           \* the depth of kqd->domain_tokens
  timer,           \* time until kqd->timer expires, or Unset
  completing,      \* on each CPU, the I/O sample completed_request still has to
                   \* add, and the target it has read
  position         \* the next histogram kyber_timer_fn takes, or Unset

sampleVars == <<cpuBuckets, buckets, completing>>
tuneVars == <<latencyTimeout, domainP99, depth>>
latencyVars == <<latencyTargets, sampleVars, tuneVars, timer, position>>

Unset == -1
Slots == NumCpus * NumDomains * 2

Init ==
  /\ latencyTargets = Target
  /\ cpuBuckets = [cpu \in Cpus |-> [d \in Domains |-> [t \in Types |-> Empty]]]
  /\ buckets = [d \in Domains |-> [t \in Types |-> Empty]]
  /\ latencyTimeout = [d \in Domains |-> Unset]
  /\ domainP99 = [d \in Domains |-> Unset]
  /\ depth = MaxDepth
  /\ timer = Unset
  /\ completing = [cpu \in Cpus |-> <<>>]
  /\ position = Unset
-----------------------------------------------------------------------------
(* Recording *)

Waiting(d, t) ==
  Samples(buckets[d][t]) + SumFunction([cpu \in Cpus |-> Samples(cpuBuckets[cpu][d][t])])

\* completed_request, up to the sample of the total latency.
CompleteTotal(cpu, d) ==
  /\ completing[cpu] = <<>>
  /\ SumFunction([o \in Domains |-> Waiting(o, Total)]) < MaxSamples
  /\ \E latency \in Latencies[d] :
       /\ cpuBuckets' =
            [cpuBuckets EXCEPT ![cpu][d][Total][BucketOf(latencyTargets[d], latency[1])] = @ + 1]
       /\ completing' = [completing EXCEPT ![cpu] = <<d, latency[2], latencyTargets[d]>>]
  /\ UNCHANGED <<latencyTargets, buckets, tuneVars, timer, position>>

\* Mutant: the timer is not started again while its function runs.
CompleteIOUntimed(cpu) ==
  LET d == completing[cpu][1]
      latency == completing[cpu][2]
      target == completing[cpu][3]
  IN /\ completing[cpu] # <<>>
     /\ cpuBuckets' = [cpuBuckets EXCEPT ![cpu][d][IO][BucketOf(target, latency)] = @ + 1]
     /\ completing' = [completing EXCEPT ![cpu] = <<>>]
     /\ timer' = IF timer = Unset /\ position = Unset THEN TimerDelay ELSE timer
     /\ UNCHANGED <<latencyTargets, buckets, tuneVars, position>>

\* The rest of it: the sample of the I/O latency, and the timer is started
\* unless it is pending already.
CompleteIO(cpu) ==
  LET d == completing[cpu][1]
      latency == completing[cpu][2]
      target == completing[cpu][3]
  IN /\ completing[cpu] # <<>>
     /\ cpuBuckets' = [cpuBuckets EXCEPT ![cpu][d][IO][BucketOf(target, latency)] = @ + 1]
     /\ completing' = [completing EXCEPT ![cpu] = <<>>]
     /\ timer' = IF timer = Unset THEN TimerDelay ELSE timer
     /\ UNCHANGED <<latencyTargets, buckets, tuneVars, position>>

Later(left) == IF left > 0 THEN left - 1 ELSE left

\* A jiffy passes.  An expired timer does not wait for the next one.
Tick ==
  /\ timer # 0
  /\ timer # Unset \/ \E d \in Domains : latencyTimeout[d] > 0
  /\ timer' = Later(timer)
  /\ latencyTimeout' = [d \in Domains |-> Later(latencyTimeout[d])]
  /\ UNCHANGED <<latencyTargets, sampleVars, domainP99, depth, position>>

\* kyber_*_lat_store: the samples recorded so far stay where they are.
StoreTarget(d) ==
  /\ \E nsec \in NewTargets[d] : latencyTargets' = [latencyTargets EXCEPT ![d] = nsec]
  /\ UNCHANGED <<sampleVars, tuneVars, timer, position>>
-----------------------------------------------------------------------------
(* Evaluating: kyber_timer_fn *)

TimerFires ==
  /\ timer = 0
  /\ position = Unset
  /\ timer' = Unset
  /\ position' = 0
  /\ UNCHANGED <<latencyTargets, sampleVars, tuneVars>>

\* Mutant: the sum starts afresh on each CPU.
FlushOverwriting ==
  LET t == position % 2
      d == (position \div 2) % NumDomains
      cpu == position \div (2 * NumDomains)
  IN /\ position \in 0 .. Slots - 1
     /\ buckets' = [buckets EXCEPT ![d][t] = cpuBuckets[cpu][d][t]]
     /\ cpuBuckets' = [cpuBuckets EXCEPT ![cpu][d][t] = Empty]
     /\ position' = position + 1
     /\ UNCHANGED <<latencyTargets, completing, tuneVars, timer>>

\* flush_latency_buckets, for the next CPU, domain and type.
Flush ==
  LET t == position % 2
      d == (position \div 2) % NumDomains
      cpu == position \div (2 * NumDomains)
  IN /\ position \in 0 .. Slots - 1
     /\ buckets' = [buckets EXCEPT ![d][t] = [k \in Buckets |-> @[k] + cpuBuckets[cpu][d][t][k]]]
     /\ cpuBuckets' = [cpuBuckets EXCEPT ![cpu][d][t] = Empty]
     /\ position' = position + 1
     /\ UNCHANGED <<latencyTargets, completing, tuneVars, timer>>

\* calculate_percentile: its result, and what it leaves of the histogram and
\* of the deadline.
Calculate(b, timeout, percentile) ==
  IF Samples(b) = 0
  THEN [p |-> Unset, timeout |-> timeout, left |-> b]
  ELSE IF Samples(b) < MinSamples /\ timeout # 0
  THEN [p |-> Unset, timeout |-> IF timeout = Unset THEN HZ ELSE timeout, left |-> b]
  ELSE [p |-> Percentile(b, percentile), timeout |-> Unset, left |-> Empty]

\* Mutant: the scaled depth has no lower limit.
ScaledToZero(d, p99) ==
  Min({MaxDepth[d], (depth[d] * (p99 + 1)) \div GoodBuckets})

\* kyber_resize_domain, for a depth scaled with the latency.
Scaled(d, p99) ==
  Max({1, Min({MaxDepth[d], (depth[d] * (p99 + 1)) \div GoodBuckets})})

\* Mutant: a percentile is remembered although it has been used.
AdjustRemembering ==
  LET io == [d \in Domains |-> Calculate(buckets[d][IO], latencyTimeout[d], 90)]
      total == [d \in Domains |-> Calculate(buckets[d][Total], io[d].timeout, 99)]
      bad == \E d \in Domains : io[d].p >= GoodBuckets
      p99 == [d \in Domains |-> IF bad /\ total[d].p = Unset THEN domainP99[d] ELSE total[d].p]
  IN /\ position = Slots
     /\ position' = Unset
     /\ buckets' = [d \in Domains |-> [t \in Types |-> IF t = Total THEN total[d].left ELSE io[d].left]]
     /\ latencyTimeout' = [d \in Domains |-> total[d].timeout]
     /\ domainP99' = [d \in Domains |-> IF total[d].p # Unset THEN total[d].p ELSE domainP99[d]]
     /\ depth' = [d \in Domains |->
          IF p99[d] # Unset /\ (bad \/ p99[d] >= GoodBuckets) THEN Scaled(d, p99[d]) ELSE depth[d]]
     /\ UNCHANGED <<latencyTargets, cpuBuckets, completing, timer>>

\* The rest of kyber_timer_fn.
Adjust ==
  LET io == [d \in Domains |-> Calculate(buckets[d][IO], latencyTimeout[d], 90)]
      total == [d \in Domains |-> Calculate(buckets[d][Total], io[d].timeout, 99)]
      bad == \E d \in Domains : io[d].p >= GoodBuckets
      p99 == [d \in Domains |-> IF bad /\ total[d].p = Unset THEN domainP99[d] ELSE total[d].p]
  IN /\ position = Slots
     /\ position' = Unset
     /\ buckets' = [d \in Domains |-> [t \in Types |-> IF t = Total THEN total[d].left ELSE io[d].left]]
     /\ latencyTimeout' = [d \in Domains |-> total[d].timeout]
     /\ domainP99' = [d \in Domains |->
          IF bad THEN Unset ELSE IF total[d].p # Unset THEN total[d].p ELSE domainP99[d]]
     /\ depth' = [d \in Domains |->
          IF p99[d] # Unset /\ (bad \/ p99[d] >= GoodBuckets) THEN Scaled(d, p99[d]) ELSE depth[d]]
     /\ UNCHANGED <<latencyTargets, cpuBuckets, completing, timer>>
-----------------------------------------------------------------------------
Next ==
  \/ \E cpu \in Cpus : CompleteIO(cpu) \/ \E d \in Domains : CompleteTotal(cpu, d)
  \/ Tick
  \/ \E d \in Domains : StoreTarget(d)
  \/ TimerFires \/ Flush \/ Adjust

\* Time passes and the timer function runs to its end.
Spec == Init /\ [][Next]_latencyVars
          /\ WF_latencyVars(Tick) /\ WF_latencyVars(TimerFires \/ Flush \/ Adjust)
          /\ \A cpu \in Cpus : WF_latencyVars(CompleteIO(cpu))
-----------------------------------------------------------------------------
(* Properties *)

\* Every variable has its type, and each depth stays between 1 and its maximum.
TypeOK ==
  /\ latencyTargets \in [Domains -> Nat]
  /\ cpuBuckets \in [Cpus -> [Domains -> [Types -> [Buckets -> Nat]]]]
  /\ buckets \in [Domains -> [Types -> [Buckets -> Nat]]]
  /\ latencyTimeout \in [Domains -> 0 .. HZ \cup {Unset}]
  /\ domainP99 \in [Domains -> Buckets \cup {Unset}]
  /\ depth \in [Domains -> Nat] /\ \A d \in Domains : depth[d] \in 1 .. MaxDepth[d]
  /\ timer \in 0 .. TimerDelay \cup {Unset}
  /\ \A cpu \in Cpus : completing[cpu] = <<>> \/ completing[cpu] \in Domains \X Nat \X Nat
  /\ position \in 0 .. Slots \cup {Unset}

\* A sample is not stranded on its CPU: the timer is pending, or the function
\* has not come to its histogram yet, or the completion that will start the
\* timer is still running.  Completions race the timer function for this.
NoStrandedSample ==
  \A cpu \in Cpus, d \in Domains, t \in Types :
    Samples(cpuBuckets[cpu][d][t]) > 0 =>
      \/ timer # Unset
      \/ completing[cpu] # <<>>
      \/ position \in 0 .. 2 * (cpu * NumDomains + d) + t
=============================================================================
