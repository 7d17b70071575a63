------------------------ MODULE KyberLatencyHistory -------------------------
(***************************************************************************)
(* Kyber's tuning with history variables that follow the samples: how many *)
(* were recorded and not evaluated yet, and whether what was learnt from   *)
(* them has been used to throttle.                                         *)
(***************************************************************************)
EXTENDS KyberLatency

VARIABLES
  owed,     \* samples recorded and not evaluated yet
  fresh     \* a percentile of the total latency that no throttling has used

historyVars == <<owed, fresh>>

HistoryInit ==
  /\ Init
  /\ owed = [d \in Domains |-> [t \in Types |-> 0]]
  /\ fresh = [d \in Domains |-> FALSE]

Evaluates == position = Slots /\ position' = Unset
Consumed(d, t) == Evaluates /\ buckets[d][t] # Empty /\ buckets'[d][t] = Empty
Recorded(d, t) ==
  \E cpu \in Cpus :
    LET pending == IF t = Total THEN completing'[cpu] ELSE completing[cpu]
    IN completing'[cpu] # completing[cpu] /\ pending # <<>> /\ pending[1] = d

HistoryNext ==
  /\ Next
  /\ owed' = [d \in Domains |-> [t \in Types |->
       IF Consumed(d, t) THEN owed[d][t] - Samples(buckets[d][t])
       ELSE IF Recorded(d, t) THEN owed[d][t] + 1 ELSE owed[d][t]]]
  /\ fresh' = [d \in Domains |->
       IF depth'[d] < depth[d] THEN FALSE ELSE fresh[d] \/ Consumed(d, Total)]

HistorySpec == HistoryInit /\ [][HistoryNext]_<<latencyVars, historyVars>>

\* However completions and the timer function interleave, every sample is
\* evaluated once: what was recorded is in some histogram until then.
SamplesAccounted == \A d \in Domains, t \in Types : owed[d][t] = Waiting(d, t)

\* "Once we do, we don't want to throttle again until we get more data": a
\* domain's depth shrinks only on a percentile that no throttling used before.
ThrottledOnNewData ==
  [][\A d \in Domains :
       depth'[d] < depth[d] => fresh[d] \/ Consumed(d, Total)]_<<latencyVars, historyVars>>
=============================================================================
