----------------------------- MODULE KyberTurns -----------------------------
(***************************************************************************)
(* Kyber's dispatcher as seen from outside: the promise it keeps to each   *)
(* submitter, and, with a history variable, how long a domain waits for    *)
(* its turn.                                                               *)
(***************************************************************************)
EXTENDS KyberDispatch, SequencesExt

VARIABLE passed   \* requests of other domains dispatched while a domain waited

\* The requests of software queue c in s, in their order.
OfCtx(c, s) ==
  LET kept[i \in 0 .. Len(s)] ==
        IF i = 0 THEN <<>>
        ELSE IF CtxOf[s[i]] = c THEN Append(kept[i - 1], s[i]) ELSE kept[i - 1]
  IN kept[Len(s)]

Stream ==
  [c \in Ctxs |-> [d \in Domains |-> OfCtx(c, rqs[HctxOf[c]][d]) \o rqList[c][d]]]
Inflight == {r \in Requests : stage[r] = "inflight"}

Promise == INSTANCE KyberStreams WITH stream <- Stream, inflight <- Inflight

\* Each submitter's requests of a domain are dispatched in the order it gave
\* them, flushed or not, and never more of them than there are tokens.
ImplementsStreams == Promise!StreamSpec
-----------------------------------------------------------------------------
Leaves(h, from, to) == At(h, from) /\ ~ At(h, from)' /\ ~ At(h, to)'

\* The dispatcher found no token for its domain.
Throttled(h) == Leaves(h, "check", "retry") \/ Leaves(h, "retry", "hold")

\* One batch of each of the other domains.
OthersTurns(d) == SumFunctionOnSet(BatchSize, Domains \ {d})

\* A request more has passed the domains that wait; beyond what NoDomainStarved
\* allows it is not counted how many.
Count(h) ==
  [d \in Domains |->
     IF d = curDomain[h] \/ ~ Pending(h, d) THEN 0
     ELSE IF passed[h][d] > OthersTurns(d) THEN passed[h][d]
     ELSE passed[h][d] + 1]

TurnInit == Init /\ passed = [h \in Hctxs |-> [d \in Domains |-> 0]]

TurnNext ==
  /\ Next
  /\ passed' =
       [h \in Hctxs |->
          IF Leaves(h, "take", "take") THEN Count(h)
          ELSE IF Throttled(h) THEN [passed[h] EXCEPT ![curDomain[h]] = 0]
          ELSE passed[h]]

TurnSpec == TurnInit /\ [][TurnNext]_<<vars, passed>> /\ Fairness

\* A domain with a request waiting and a token to be had is never passed over
\* by more than one batch of each of the others, whatever arrives meanwhile.
NoDomainStarved ==
  \A h \in Hctxs, d \in Domains : passed[h][d] <= OthersTurns(d)
=============================================================================
