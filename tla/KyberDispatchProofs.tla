------------------------ MODULE KyberDispatchProofs -------------------------
(***************************************************************************)
(* Kyber's dispatchers keep their books for every number of hardware       *)
(* queues, software queues, requests, domains and tokens, whatever the     *)
(* timer makes of the depths: every request is found, every token has one  *)
(* owner, no hardware queue sleeps while nobody is left to wake it, no     *)
(* domain is passed over for longer than one round of batches, and the     *)
(* requests of a software queue keep their order (KyberStreams).           *)
(***************************************************************************)
EXTENDS KyberTurns, FiniteSums, SequenceTheorems, TLAPS

-----------------------------------------------------------------------------
(* The inductive invariant, in the order in which its parts are proved.    *)

\* A dispatcher that looks for a request may still add one to its batch; its
\* count of visited domains starts from nothing; it sees the bits it is to
\* flush until it has flushed them.
Visiting == {"visit", "check", "retry", "hold", "flush", "take"}
DispatcherSound ==
  \A h \in Hctxs :
    /\ call[h].at \in Visiting => batching[h] < BatchSize[curDomain[h]]
    /\ call[h].at \in {"idle", "loop"} => call[h].visits = 0

\* Where it goes on from, there is something for it to take.
WorkAhead ==
  \A h \in Hctxs :
    LET d == curDomain[h]
    IN /\ call[h].at \in {"check", "retry", "hold"} => rqs[h][d] # <<>> \/ Busy(h, d) # {}
       /\ At(h, "flush") => call[h].flush # {} /\ call[h].flush \subseteq Busy(h, d)

Lists == WorkAhead /\ RequestsFindable

\* A request that was never dispatched remembers no token.
FreshForgets == \A r \in Requests : stage[r] = "prepared" => token[r] = NoToken

Owned == FreshForgets /\ TokensOwned

\* How far back in the circle of domains d lies, seen from the one visited,
\* and the domains a dispatcher has given up in this call.
Behind(h, d) == IF d <= curDomain[h] THEN curDomain[h] - d ELSE curDomain[h] - d + NumDomains
Covered(h) == {d \in Domains : Behind(h, d) \in 1 .. call[h].visits - 1}

\* A hardware queue is on the wait queue only for domains it has requests of,
\* and no longer when it has a token; what it has given up it waits for, if it
\* has not been asked to run again.
WaitsAt(h) ==
  /\ \A d \in onWait[h] : Pending(h, d)
  /\ call[h].at \in {"flush", "take"} => curDomain[h] \notin onWait[h]
  /\ At(h, "retry") /\ h \notin run => curDomain[h] \in onWait[h]
  /\ call[h].at \in {"visit", "check", "retry"} /\ h \notin run =>
       \A d \in Covered(h) : Pending(h, d) => d \in onWait[h]
  /\ ~ Active(h) => \A d \in Domains : Pending(h, d) <=> d \in onWait[h]

Waits == \A h \in Hctxs : WaitsAt(h)

\* A hardware queue has let go of a domain if it waits for it and will not
\* look at it again by itself: it rests, or has passed it in this call.
LetGo(h, d) ==
  /\ h \notin run /\ d \in onWait[h]
  /\ \/ At(h, "idle")
     \/ call[h].at \in {"visit", "check", "retry"} /\ d \in Covered(h)
     \/ At(h, "check") /\ d = curDomain[h]

\* Then a token will be freed, or is being freed, or somebody else is awake.
Relief(d) ==
  \/ used[d] # {}
  \/ \E r \in Requests : stage[r] \in {"waking", "rewaking"} /\ DomainOf[r] = d
  \/ \E h \in Hctxs : Pending(h, d) /\ ~ LetGo(h, d)
SomebodyWakes == \A d \in Domains : (\E h \in Hctxs : LetGo(h, d)) => Relief(d)

KyberInv == TypeOK /\ DispatcherSound /\ Lists /\ Owned /\ Waits /\ SomebodyWakes

-----------------------------------------------------------------------------
(* Lists without repetition.                                               *)

LEMMA AppendOnce ==
  ASSUME NEW S, NEW s \in Seq(S), NEW e \in S, IsInjective(s), e \notin Range(s)
  PROVE  /\ IsInjective(Append(s, e)) /\ Range(Append(s, e)) = Range(s) \cup {e}
         /\ Append(s, e) \in Seq(S) /\ Append(s, e) # <<>>
<1>1. IsInjective(Append(s, e))
  BY DEF IsInjective, Range
<1>2. Range(Append(s, e)) = Range(s) \cup {e}
  BY DEF Range
<1>3. Append(s, e) \in Seq(S) /\ Append(s, e) # <<>>
  BY AppendProperties
<1> QED BY <1>1, <1>2, <1>3

LEMMA ConcatOnce ==
  ASSUME NEW S, NEW s \in Seq(S), NEW t \in Seq(S),
         IsInjective(s), IsInjective(t), Range(s) \cap Range(t) = {}
  PROVE  /\ IsInjective(s \o t) /\ Range(s \o t) = Range(s) \cup Range(t)
         /\ s \o t \in Seq(S) /\ (t # <<>> => s \o t # <<>>) /\ (s # <<>> => s \o t # <<>>)
<1>1. /\ s \o t \in Seq(S) /\ Len(s \o t) = Len(s) + Len(t)
      /\ \A i \in 1 .. Len(s) + Len(t) : (s \o t)[i] = IF i <= Len(s) THEN s[i] ELSE t[i - Len(s)]
  BY ConcatProperties
<1>2. /\ DOMAIN (s \o t) = 1 .. Len(s) + Len(t) /\ DOMAIN s = 1 .. Len(s) /\ DOMAIN t = 1 .. Len(t)
      /\ Len(s) \in Nat /\ Len(t) \in Nat
  BY <1>1, LenProperties
<1>3. ASSUME NEW i \in 1 .. Len(s) + Len(t), NEW j \in 1 .. Len(s) + Len(t), (s \o t)[i] = (s \o t)[j]
      PROVE  i = j
  <2>1. CASE i <= Len(s) /\ j <= Len(s)
    BY <1>1, <1>2, <1>3, <2>1 DEF IsInjective
  <2>2. CASE i > Len(s) /\ j > Len(s)
    <3>1. i - Len(s) \in DOMAIN t /\ j - Len(s) \in DOMAIN t /\ t[i - Len(s)] = t[j - Len(s)]
      BY <1>1, <1>2, <1>3, <2>2
    <3>2. i - Len(s) = j - Len(s)
      BY <3>1 DEF IsInjective
    <3> QED BY <3>2, <1>2
  <2>3. CASE i <= Len(s) /\ j > Len(s)
    <3>1. s[i] \in Range(s) /\ t[j - Len(s)] \in Range(t) /\ s[i] = t[j - Len(s)]
      BY <1>1, <1>2, <1>3, <2>3 DEF Range
    <3> QED BY <3>1
  <2>4. CASE i > Len(s) /\ j <= Len(s)
    <3>1. t[i - Len(s)] \in Range(t) /\ s[j] \in Range(s) /\ s[j] = t[i - Len(s)]
      BY <1>1, <1>2, <1>3, <2>4 DEF Range
    <3> QED BY <3>1
  <2> QED BY <2>1, <2>2, <2>3, <2>4, <1>2
<1>4. IsInjective(s \o t)
  BY <1>2, <1>3 DEF IsInjective
<1>5. Range(s \o t) = Range(s) \cup Range(t)
  BY RangeConcatenation
<1> QED BY <1>1, <1>4, <1>5, ConcatEqualIffEmpty, EmptySeq, ConcatSimplifications

LEMMA PrependOnce ==
  ASSUME NEW S, NEW s \in Seq(S), NEW e \in S, IsInjective(s), e \notin Range(s)
  PROVE  /\ IsInjective(<<e>> \o s) /\ Range(<<e>> \o s) = Range(s) \cup {e}
         /\ <<e>> \o s \in Seq(S) /\ <<e>> \o s # <<>>
<1>1. <<e>> \in Seq(S) /\ IsInjective(<<e>>) /\ Range(<<e>>) = {e} /\ <<e>> # <<>>
  BY DEF IsInjective, Range
<1>2. Range(<<e>>) \cap Range(s) = {}
  BY <1>1
<1> DEFINE t == <<e>>
<1>3. t \in Seq(S) /\ IsInjective(t) /\ Range(t) = {e} /\ t # <<>> /\ Range(t) \cap Range(s) = {}
  BY <1>1, <1>2
<1> HIDE DEF t
<1>4. /\ IsInjective(t \o s) /\ Range(t \o s) = Range(t) \cup Range(s)
      /\ t \o s \in Seq(S) /\ t \o s # <<>>
  BY <1>3, ConcatOnce
<1>5. /\ IsInjective(t \o s) /\ Range(t \o s) = Range(s) \cup {e}
      /\ t \o s \in Seq(S) /\ t \o s # <<>>
  BY <1>3, <1>4
<1> QED BY <1>5 DEF t

LEMMA TailOnce ==
  ASSUME NEW S, NEW s \in Seq(S), s # <<>>, IsInjective(s)
  PROVE  /\ IsInjective(Tail(s)) /\ Range(Tail(s)) = Range(s) \ {Head(s)}
         /\ Tail(s) \in Seq(S) /\ Head(s) \in Range(s) /\ Head(s) \in S
<1>1. /\ Head(s) = s[1] /\ Tail(s) \in Seq(S) /\ Len(Tail(s)) = Len(s) - 1
      /\ \A i \in 1 .. Len(Tail(s)) : Tail(s)[i] = s[i + 1]
      /\ Len(s) \in Nat /\ Len(s) # 0 /\ Head(s) \in S
  BY HeadTailProperties, EmptySeq
<1>2. DOMAIN s = 1 .. Len(s) /\ DOMAIN Tail(s) = 1 .. Len(s) - 1
  BY <1>1, LenProperties
<1>3. IsInjective(Tail(s))
  BY <1>1, <1>2 DEF IsInjective
<1>4. ASSUME NEW x \in Range(Tail(s)) PROVE x \in Range(s) \ {Head(s)}
  <2>1. PICK i \in 1 .. Len(s) - 1 : x = s[i + 1]
    BY <1>1, <1>2 DEF Range
  <2>2. i + 1 \in DOMAIN s /\ 1 \in DOMAIN s /\ i + 1 # 1
    BY <1>1, <1>2
  <2> QED BY <1>1, <2>1, <2>2 DEF Range, IsInjective
<1>5. ASSUME NEW x \in Range(s) \ {Head(s)} PROVE x \in Range(Tail(s))
  <2>1. PICK i \in 1 .. Len(s) : x = s[i]
    BY <1>2 DEF Range
  <2>2. i - 1 \in 1 .. Len(s) - 1 /\ Tail(s)[i - 1] = s[i]
    <3>1. i # 1
      BY <1>1, <2>1
    <3>2. i - 1 \in 1 .. Len(s) - 1 /\ (i - 1) + 1 = i
      BY <3>1, <1>1
    <3> QED BY <3>2, <1>1
  <2> QED BY <2>1, <2>2, <1>2 DEF Range
<1>6. Head(s) \in Range(s)
  BY <1>1, <1>2 DEF Range
<1> QED BY <1>1, <1>3, <1>4, <1>5, <1>6

LEMMA EmptyOnce == IsInjective(<<>>) /\ Range(<<>>) = {}
BY DEF IsInjective, Range

-----------------------------------------------------------------------------
(* Types, and what a dispatcher's locals say.                              *)

LEMMA TypeInit == ASSUME Init PROVE TypeOK /\ DispatcherSound
<1>1. QueueTypes /\ TokenTypes /\ RequestTypes
  BY KyberAssumption DEF Init, QueueTypes, TokenTypes, RequestTypes, Domains, Stages, Tokens
<1>2. CallTypes /\ DispatcherSound
  BY KyberAssumption DEF Init, CallTypes, DispatcherSound, Idle, Domains, Positions, NoToken,
     Holds, At, Visiting
<1> QED BY <1>1, <1>2 DEF TypeOK

LEMMA RequestPlace ==
  ASSUME NEW r \in Requests
  PROVE  CtxOf[r] \in Ctxs /\ DomainOf[r] \in Domains /\ HctxOf[CtxOf[r]] \in Hctxs
BY KyberAssumption

LEMMA NextDomainType == ASSUME NEW d \in Domains PROVE NextDomain(d) \in Domains
BY KyberAssumption DEF NextDomain, Domains

RequestStep(r) ==
  \/ Prepare(r) \/ (\E atHead \in BOOLEAN : Insert(r, atHead))
  \/ Finish(r) \/ Requeue(r) \/ Wake(r)

LEMMA TypeRequests ==
  ASSUME TypeOK, DispatcherSound, NEW r \in Requests, RequestStep(r)
  PROVE  TypeOK' /\ DispatcherSound'
<1>1. CallTypes' /\ DispatcherSound'
  <2>1. call' = call /\ curDomain' = curDomain /\ batching' = batching
    BY DEF RequestStep, Prepare, Insert, Finish, Requeue, Wake, batchVars
  <2> QED BY <2>1 DEF TypeOK, CallTypes, DispatcherSound, Holds, At
<1>2. QueueTypes'
  <2>1. ASSUME NEW atHead \in BOOLEAN, Insert(r, atHead)
        PROVE  QueueTypes'
    <3> DEFINE was == rqList[CtxOf[r]][DomainOf[r]]
               is == IF atHead THEN <<r>> \o was ELSE Append(was, r)
    <3>1. was \in Seq(Requests)
      BY RequestPlace DEF TypeOK, QueueTypes
    <3>2. <<r>> \o was \in Seq(Requests) /\ Append(was, r) \in Seq(Requests)
      BY <3>1, ConcatProperties, AppendProperties
    <3>3. is \in Seq(Requests)
      BY <3>2
    <3>4. rqList' = [rqList EXCEPT ![CtxOf[r]][DomainOf[r]] = is]
      BY <2>1 DEF Insert
    <3> HIDE DEF is
    <3> QED BY <3>3, <3>4, <2>1, RequestPlace DEF Insert, TypeOK, QueueTypes
  <2>2. CASE Prepare(r) \/ Finish(r) \/ Requeue(r) \/ Wake(r)
    BY <2>2 DEF Prepare, Finish, Requeue, Wake, queueVars, TypeOK, QueueTypes
  <2> QED BY <2>1, <2>2 DEF RequestStep
<1>3. TokenTypes'
  <2>1. depth' = depth
    BY DEF RequestStep, Prepare, Insert, Finish, Requeue, Wake, tokenVars
  <2>2. used' \in [Domains -> SUBSET Nat] /\ \A d \in Domains : used'[d] \subseteq Tokens(d)
    BY RequestPlace DEF RequestStep, Prepare, Insert, Finish, Requeue, Wake, tokenVars, TypeOK, TokenTypes
  <2>3. run' \subseteq Hctxs
    BY RequestPlace DEF RequestStep, Prepare, Insert, Finish, Requeue, Wake, TypeOK, TokenTypes
  <2>4. onWait' \in [Hctxs -> SUBSET Domains]
    <3>1. CASE Wake(r)
      BY <3>1 DEF Wake, TypeOK, TokenTypes
    <3>2. CASE ~ Wake(r)
      BY <3>2 DEF RequestStep, Prepare, Insert, Finish, Requeue, tokenVars, TypeOK, TokenTypes
    <3> QED BY <3>1, <3>2
  <2> QED BY <2>1, <2>2, <2>3, <2>4 DEF TypeOK, TokenTypes
<1>4. RequestTypes'
  BY DEF RequestStep, Prepare, Insert, Finish, Requeue, Wake, Woken, requestVars, TypeOK, RequestTypes,
     Stages, NoToken
<1> QED BY <1>1, <1>2, <1>3, <1>4 DEF TypeOK

LEMMA TypeCalls ==
  ASSUME TypeOK, DispatcherSound, NEW h \in Hctxs, DispatcherStep(h)
  PROVE  CallTypes' /\ DispatcherSound'
<1> DEFINE Call == [at : Positions, visits : 0 .. NumDomains,
                    nr : Nat \cup {NoToken}, flush : SUBSET Ctxs]
<1>1. /\ curDomain[h] \in Domains /\ batching[h] \in Nat /\ call[h] \in Call
      /\ NumDomains \in Nat \ {0} /\ \A d \in Domains : BatchSize[d] \in Nat \ {0}
      /\ batching[h] <= BatchSize[curDomain[h]]
      /\ call[h].nr # NoToken <=> call[h].at \in {"hold", "flush", "take"}
  BY KyberAssumption DEF TypeOK, CallTypes, Holds, At
<1>2. ASSUME NEW c \in Call, NEW d \in Domains, NEW b \in Nat,
             call' = [call EXCEPT ![h] = c],
             curDomain' = [curDomain EXCEPT ![h] = d], batching' = [batching EXCEPT ![h] = b],
             b <= BatchSize[d], c.at \in Visiting => b < BatchSize[d],
             c.nr # NoToken <=> c.at \in {"hold", "flush", "take"},
             c.at \in {"idle", "loop"} => c.visits = 0
      PROVE  CallTypes' /\ DispatcherSound'
  BY <1>2 DEF TypeOK, CallTypes, DispatcherSound, Holds, At
<1>3. ASSUME NEW c \in Call, call' = [call EXCEPT ![h] = c], UNCHANGED batchVars,
             c.at \in Visiting => batching[h] < BatchSize[curDomain[h]],
             c.nr # NoToken <=> c.at \in {"hold", "flush", "take"},
             c.at \in {"idle", "loop"} => c.visits = 0
      PROVE  CallTypes' /\ DispatcherSound'
  <2>1. /\ curDomain' = [curDomain EXCEPT ![h] = curDomain[h]]
        /\ batching' = [batching EXCEPT ![h] = batching[h]]
    BY <1>3 DEF batchVars, TypeOK, CallTypes
  <2> QED BY <2>1, <1>1, <1>2, <1>3
<1>4. Idle \in Call /\ [Idle EXCEPT !.at = "visit"] \in Call /\ [Idle EXCEPT !.at = "loop"] \in Call
  BY <1>1 DEF Idle, NoToken, Positions
<1>5. ASSUME NextVisit(h), call[h].at \in {"loop", "visit", "check", "retry"}
      PROVE  CallTypes' /\ DispatcherSound'
  <2>1. CASE call[h].visits = NumDomains
    BY <1>3, <1>4, <1>5, <2>1 DEF NextVisit, Idle, NoToken, Visiting
  <2>2. CASE call[h].visits # NumDomains
    <3> DEFINE c == [call[h] EXCEPT !.at = "visit", !.visits = @ + 1]
    <3>1. /\ call' = [call EXCEPT ![h] = c] /\ batching' = [batching EXCEPT ![h] = 0]
          /\ curDomain' = [curDomain EXCEPT ![h] = NextDomain(curDomain[h])]
      BY <1>5, <2>2 DEF NextVisit
    <3>2. c \in Call /\ c.at = "visit" /\ c.nr = call[h].nr
      <4>1. call[h].visits + 1 \in 0 .. NumDomains
        BY <1>1, <2>2
      <4> QED BY <1>1, <4>1 DEF Positions
    <3>3. NextDomain(curDomain[h]) \in Domains
      BY <1>1, NextDomainType
    <3> DEFINE d == NextDomain(curDomain[h])
    <3>4. 0 < BatchSize[d] /\ 0 <= BatchSize[d] /\ 0 \in Nat /\ d \in Domains /\ call[h].nr = NoToken
      BY <1>1, <1>5, <3>3
    <3>5. c.at \notin {"idle", "loop", "hold", "flush", "take"} /\ c.nr = NoToken
      BY <3>2, <3>4
    <3> HIDE DEF c, Call, d
    <3> QED BY <1>2, <3>1, <3>2, <3>4, <3>5 DEF d
  <2> QED BY <2>1, <2>2
<1>6. ASSUME NEW p \in {"check", "retry"}, Goto(h, p), UNCHANGED batchVars,
             call[h].at \in {"visit", "check"}
      PROVE  CallTypes' /\ DispatcherSound'
  BY <1>6 DEF Goto, TypeOK, CallTypes, DispatcherSound, Visiting, Holds, At, Positions, batchVars
<1>7. ASSUME NEW d, d \in Domains, GetToken(h, d), call[h].at \in {"visit", "retry"}
      PROVE  CallTypes' /\ DispatcherSound'
  BY <1>7 DEF GetToken, FreeTokens, TypeOK, CallTypes, TokenTypes, DispatcherSound, Visiting, Holds, At,
     Positions, NoToken, batchVars
<1>8. CASE Run(h)
  BY <1>8 DEF Run, Goto, TypeOK, CallTypes, DispatcherSound, Visiting, Holds, At, Positions, batchVars
<1>9. CASE Dispatch(h)
  <2>1. CASE ~ HasWork(h)
    <3> DEFINE c == [call[h] EXCEPT !.at = "idle"]
    <3>1. c \in Call /\ c.at = "idle" /\ c.nr = NoToken /\ c.visits = 0
      BY <1>1, <1>9 DEF Dispatch, At, DispatcherSound, Positions
    <3>2. call' = [call EXCEPT ![h] = c] /\ UNCHANGED batchVars
      BY <1>9, <2>1 DEF Dispatch, Goto
    <3> HIDE DEF c, Call
    <3> QED BY <1>3, <3>1, <3>2 DEF Visiting
  <2>2. CASE HasWork(h) /\ batching[h] < BatchSize[curDomain[h]]
    <3> DEFINE c == [Idle EXCEPT !.at = "visit"]
    <3>1. c \in Call /\ c.at = "visit" /\ c.nr = NoToken
      BY <1>4 DEF Idle
    <3>2. call' = [call EXCEPT ![h] = c] /\ UNCHANGED batchVars
      BY <1>9, <2>2 DEF Dispatch
    <3> HIDE DEF c
    <3> QED BY <1>3, <2>2, <3>1, <3>2
  <2>3. CASE HasWork(h) /\ ~ batching[h] < BatchSize[curDomain[h]]
    BY <1>9, <2>3, <1>5 DEF Dispatch, At
  <2> QED BY <2>1, <2>2, <2>3
<1>10. CASE Visit(h)
  BY <1>10, <1>1, <1>5, <1>6, <1>7 DEF Visit, At
<1>11. CASE AddToWaitQueue(h)
  BY <1>11, <1>5, <1>6 DEF AddToWaitQueue, At
<1>12. CASE Retry(h)
  BY <1>12, <1>1, <1>5, <1>7 DEF Retry, At
<1>13. CASE LeaveWaitQueue(h)
  <2>1. PICK c : /\ call' = [call EXCEPT ![h] = c]
                 /\ \/ c = [call[h] EXCEPT !.at = "take"]
                    \/ c = [call[h] EXCEPT !.at = "flush", !.flush = Busy(h, curDomain[h])]
    BY <1>13 DEF LeaveWaitQueue
  <2>2. c \in Call /\ c.at \in {"flush", "take"} /\ c.nr = call[h].nr
    BY <1>1, <2>1 DEF Busy, Kcqs, Positions
  <2> QED BY <1>1, <1>3, <1>13, <2>1, <2>2 DEF LeaveWaitQueue, At, DispatcherSound, Visiting
<1>14. CASE FlushKcq(h)
  <2>1. PICK k \in call[h].flush :
             call' = [call EXCEPT ![h].flush = @ \ {k}, ![h].at = IF call[h].flush = {k} THEN "take" ELSE @]
    BY <1>14 DEF FlushKcq
  <2> DEFINE c == [call[h] EXCEPT !.flush = @ \ {k}, !.at = IF call[h].flush = {k} THEN "take" ELSE @]
  <2>2. c \in Call /\ c.at \in {"flush", "take"} /\ c.nr = call[h].nr
    BY <1>1, <1>14 DEF FlushKcq, At, Positions
  <2>3. call' = [call EXCEPT ![h] = c] /\ UNCHANGED batchVars
    BY <1>14, <2>1 DEF FlushKcq
  <2>4. batching[h] < BatchSize[curDomain[h]] /\ call[h].nr # NoToken
    BY <1>1, <1>14 DEF FlushKcq, At, DispatcherSound, Visiting
  <2> HIDE DEF c, Call
  <2> QED BY <1>3, <2>2, <2>3, <2>4
<1>15. CASE Take(h)
  <2>1. /\ call' = [call EXCEPT ![h] = [Idle EXCEPT !.at = "loop"]]
        /\ curDomain' = [curDomain EXCEPT ![h] = curDomain[h]]
        /\ batching' = [batching EXCEPT ![h] = batching[h] + 1]
    BY <1>15 DEF Take, TypeOK, CallTypes
  <2>2. batching[h] < BatchSize[curDomain[h]]
    BY <1>15 DEF Take, At, DispatcherSound, Visiting
  <2>3. batching[h] + 1 \in Nat /\ batching[h] + 1 <= BatchSize[curDomain[h]]
    BY <1>1, <2>2
  <2> DEFINE c == [Idle EXCEPT !.at = "loop"]
  <2>4. c \in Call /\ c.at = "loop" /\ c.nr = NoToken /\ c.visits = 0
    BY <1>4 DEF Idle
  <2> HIDE DEF c
  <2> QED BY <1>1, <1>2, <2>1, <2>3, <2>4 DEF Visiting, c
<1> QED BY <1>8, <1>9, <1>10, <1>11, <1>12, <1>13, <1>14, <1>15 DEF DispatcherStep

LEMMA TypeDispatcher ==
  ASSUME TypeOK, DispatcherSound, NEW h \in Hctxs, DispatcherStep(h)
  PROVE  TypeOK' /\ DispatcherSound'
<1> USE DEF DispatcherStep, Run, Dispatch, Visit, AddToWaitQueue, Retry, LeaveWaitQueue
<1>1. curDomain[h] \in Domains
  BY DEF TypeOK, CallTypes
<1>2. QueueTypes'
  <2>1. CASE FlushKcq(h)
    <3>1. PICK c \in call[h].flush :
             /\ rqs' = [rqs EXCEPT ![h][curDomain[h]] = @ \o rqList[c][curDomain[h]]]
             /\ rqList' = [rqList EXCEPT ![c][curDomain[h]] = <<>>]
             /\ kcqMap' = [kcqMap EXCEPT ![curDomain[h]] = @ \ {c}]
      BY <2>1 DEF FlushKcq
    <3>2. c \in Ctxs
      BY DEF TypeOK, CallTypes
    <3> DEFINE q == rqs[h][curDomain[h]] \o rqList[c][curDomain[h]]
    <3>3. q \in Seq(Requests)
      BY <1>1, <3>2, ConcatProperties DEF TypeOK, QueueTypes
    <3>4. rqs' = [rqs EXCEPT ![h][curDomain[h]] = q]
      BY <3>1
    <3> HIDE DEF q
    <3> QED BY <1>1, <3>1, <3>2, <3>3, <3>4 DEF TypeOK, QueueTypes
  <2>2. CASE Take(h)
    <3> DEFINE q == Tail(rqs[h][curDomain[h]])
    <3>1. q \in Seq(Requests)
      BY <1>1, <2>2, HeadTailProperties DEF Take, TypeOK, QueueTypes
    <3>2. rqs' = [rqs EXCEPT ![h][curDomain[h]] = q] /\ UNCHANGED <<rqList, kcqMap>>
      BY <2>2 DEF Take
    <3> HIDE DEF q
    <3> QED BY <1>1, <3>1, <3>2 DEF TypeOK, QueueTypes
  <2>3. CASE ~ FlushKcq(h) /\ ~ Take(h)
    BY <2>3 DEF queueVars, TypeOK, QueueTypes
  <2> QED BY <2>1, <2>2, <2>3
<1>3. RequestTypes'
  <2>1. CASE Take(h)
    BY <2>1 DEF Take, TypeOK, CallTypes, RequestTypes, Stages
  <2>2. CASE ~ Take(h)
    BY <2>2 DEF FlushKcq, requestVars, TypeOK, RequestTypes
  <2> QED BY <2>1, <2>2
<1>4. TokenTypes'
  <2>1. depth' = depth
    BY DEF tokenVars, GetToken, FlushKcq, Take
  <2>2. run' \subseteq Hctxs
    BY DEF FlushKcq, Take, TypeOK, TokenTypes
  <2>3. onWait' \in [Hctxs -> SUBSET Domains]
    <3>1. onWait \in [Hctxs -> SUBSET Domains]
      BY DEF TypeOK, TokenTypes
    <3>2. \/ onWait' = onWait
          \/ \E w \in SUBSET Domains : onWait' = [onWait EXCEPT ![h] = w]
      BY <1>1, <3>1 DEF tokenVars, GetToken, FlushKcq, Take
    <3> QED BY <3>1, <3>2
  <2>4. used' = used \/ \E n \in FreeTokens(curDomain[h]) : used' = [used EXCEPT ![curDomain[h]] = @ \cup {n}]
    BY DEF tokenVars, GetToken, FlushKcq, Take
  <2>5. \A n \in FreeTokens(curDomain[h]) : n \in Tokens(curDomain[h]) /\ n \in Nat
    BY <1>1, KyberAssumption DEF FreeTokens, Tokens, TypeOK, TokenTypes
  <2>6. used' \in [Domains -> SUBSET Nat] /\ \A d \in Domains : used'[d] \subseteq Tokens(d)
    <3>1. used \in [Domains -> SUBSET Nat] /\ \A d \in Domains : used[d] \subseteq Tokens(d)
      BY DEF TypeOK, TokenTypes
    <3> QED BY <1>1, <2>4, <2>5, <3>1
  <2> QED BY <2>1, <2>2, <2>3, <2>6 DEF TypeOK, TokenTypes
<1> QED BY <1>2, <1>3, <1>4, TypeCalls DEF TypeOK

LEMMA TypeResize ==
  ASSUME TypeOK, DispatcherSound, NEW d \in Domains, Resize(d)
  PROVE  TypeOK' /\ DispatcherSound'
<1>1. TokenTypes'
  BY KyberAssumption DEF Resize, TypeOK, TokenTypes
<1> QED BY <1>1 DEF Resize, TypeOK, QueueTypes, RequestTypes, CallTypes, DispatcherSound, Holds, At,
      queueVars, batchVars, requestVars

LEMMA TypeUnchanged == ASSUME TypeOK, DispatcherSound, UNCHANGED vars PROVE TypeOK' /\ DispatcherSound'
BY DEF TypeOK, QueueTypes, TokenTypes, RequestTypes, CallTypes, DispatcherSound, Holds, At,
   vars, queueVars, batchVars, tokenVars, requestVars

LEMMA TypeStep == TypeOK /\ DispatcherSound /\ [Next]_vars => TypeOK' /\ DispatcherSound'
BY TypeRequests, TypeDispatcher, TypeResize, TypeUnchanged DEF Next, RequestStep

\* Every variable of the Kyber dispatcher keeps its type, no batch exceeds its
\* domain's size, and a dispatcher holds a token exactly between getting it and
\* passing it on.
THEOREM DispatchTyped == Spec => []TypeOK
<1>1. Init => TypeOK /\ DispatcherSound
  BY TypeInit
<1>2. TypeOK /\ DispatcherSound /\ [Next]_vars => (TypeOK /\ DispatcherSound)'
  BY TypeStep
<1> QED BY <1>1, <1>2, PTL DEF Spec

-----------------------------------------------------------------------------
(* The lists, and the map that leads to them.                              *)

LEMMA ListsInit == ASSUME Init PROVE Lists
<1>1. WorkAhead /\ AlwaysGetsRequest
  BY DEF Init, WorkAhead, AlwaysGetsRequest, At, Idle
<1>2. MapExact /\ QueuedHere /\ QueuedOnce /\ NoneLost
  BY EmptyOnce, KyberAssumption DEF Init, MapExact, QueuedHere, QueuedOnce, NoneLost
<1> QED BY <1>1, <1>2 DEF Lists, RequestsFindable

\* A request that is in no list before and after may change as it likes.
LEMMA ListsElsewhere ==
  ASSUME TypeOK, Lists, NEW r \in Requests, Prepare(r) \/ Finish(r) \/ Requeue(r) \/ Wake(r)
  PROVE  Lists'
<1>1. UNCHANGED <<rqList, kcqMap, rqs, curDomain, call>>
  BY DEF Prepare, Finish, Requeue, Wake, queueVars, batchVars
<1>2. \A s \in Requests : stage[s] = "inserted" <=> stage'[s] = "inserted"
  BY DEF Prepare, Finish, Requeue, Wake, Woken, TypeOK, RequestTypes, Stages
<1>3. WorkAhead' /\ AlwaysGetsRequest' /\ MapExact' /\ QueuedOnce'
  BY <1>1 DEF Lists, RequestsFindable, WorkAhead, AlwaysGetsRequest, MapExact, QueuedOnce, At, Busy
<1>4. QueuedHere'
  <2>1. /\ \A c \in Ctxs, d \in Domains : Range(rqList[c][d]) \subseteq Requests
        /\ \A h \in Hctxs, d \in Domains : Range(rqs[h][d]) \subseteq Requests
    BY RangeOfSeq DEF TypeOK, QueueTypes
  <2> QED BY <1>1, <1>2, <2>1 DEF Lists, RequestsFindable, QueuedHere
<1>5. NoneLost'
  BY <1>1, <1>2 DEF Lists, RequestsFindable, NoneLost
<1> QED BY <1>3, <1>4, <1>5 DEF Lists, RequestsFindable

LEMMA ListsInsert ==
  ASSUME TypeOK, Lists, NEW r \in Requests, NEW atHead \in BOOLEAN, Insert(r, atHead)
  PROVE  Lists'
<1> DEFINE c == CtxOf[r]
           d == DomainOf[r]
           was == rqList[c][d]
           is == IF atHead THEN <<r>> \o was ELSE Append(was, r)
<1>1. c \in Ctxs /\ d \in Domains /\ HctxOf[c] \in Hctxs
  BY RequestPlace
<1>2. /\ \A q \in Ctxs, e \in Domains : r \notin Range(rqList[q][e])
      /\ \A h \in Hctxs, e \in Domains : r \notin Range(rqs[h][e])
  BY DEF Insert, Lists, RequestsFindable, QueuedHere
<1>3. was \in Seq(Requests) /\ IsInjective(was)
  BY <1>1 DEF TypeOK, QueueTypes, Lists, RequestsFindable, QueuedOnce
<1>4. IsInjective(is) /\ Range(is) = Range(was) \cup {r} /\ is # <<>>
  BY <1>1, <1>2, <1>3, AppendOnce, PrependOnce
<1>5. /\ rqList' = [rqList EXCEPT ![c][d] = is] /\ kcqMap' = [kcqMap EXCEPT ![d] = @ \cup {c}]
      /\ rqs' = rqs /\ curDomain' = curDomain /\ call' = call
      /\ stage' = [stage EXCEPT ![r] = "inserted"]
  BY DEF Insert, batchVars
<1> HIDE DEF is
<1>6. /\ \A q \in Ctxs, e \in Domains : rqList'[q][e] = IF q = c /\ e = d THEN is ELSE rqList[q][e]
      /\ \A e \in Domains : kcqMap'[e] = IF e = d THEN kcqMap[e] \cup {c} ELSE kcqMap[e]
      /\ \A s \in Requests : stage'[s] = IF s = r THEN "inserted" ELSE stage[s]
  BY <1>1, <1>5 DEF TypeOK, QueueTypes, RequestTypes
<1> HIDE DEF c, d, was
<1>7. WorkAhead'
  BY <1>1, <1>5, <1>6 DEF Lists, WorkAhead, Busy, Kcqs, TypeOK, CallTypes, At
<1>8. AlwaysGetsRequest' /\ MapExact'
  <2>1. AlwaysGetsRequest'
    BY <1>5 DEF Lists, RequestsFindable, AlwaysGetsRequest, At
  <2>2. MapExact'
    <3>1. ASSUME NEW q \in Ctxs, NEW e \in Domains
          PROVE  q \in kcqMap'[e] <=> rqList'[q][e] # <<>>
      <4>1. q \in kcqMap[e] <=> rqList[q][e] # <<>>
        BY DEF Lists, RequestsFindable, MapExact
      <4> QED BY <1>4, <1>6, <4>1
    <3> QED BY <3>1 DEF MapExact
  <2> QED BY <2>1, <2>2
<1>9. QueuedHere'
  <2>1. \A q \in Ctxs, e \in Domains : Range(rqList[q][e]) \subseteq Requests
    BY RangeOfSeq DEF TypeOK, QueueTypes
  <2>2. \A h \in Hctxs, e \in Domains : Range(rqs[h][e]) \subseteq Requests
    BY RangeOfSeq DEF TypeOK, QueueTypes
  <2> QED BY <1>1, <1>4, <1>5, <1>6, <2>1, <2>2 DEF Lists, RequestsFindable, QueuedHere, c, d, was
<1>10. QueuedOnce'
  <2>1. ASSUME NEW q \in Ctxs, NEW e \in Domains
        PROVE  IsInjective(rqList'[q][e]) /\ Range(rqList'[q][e]) \cap Range(rqs'[HctxOf[q]][e]) = {}
    <3>1. IsInjective(rqList[q][e]) /\ Range(rqList[q][e]) \cap Range(rqs[HctxOf[q]][e]) = {}
      BY DEF Lists, RequestsFindable, QueuedOnce
    <3>2. r \notin Range(rqs[HctxOf[q]][e])
      BY <1>2, KyberAssumption
    <3> QED BY <1>4, <1>5, <1>6, <3>1, <3>2 DEF was
  <2> QED BY <1>5, <2>1 DEF Lists, RequestsFindable, QueuedOnce
<1>11. NoneLost'
  BY <1>1, <1>4, <1>5, <1>6, RequestPlace DEF Lists, RequestsFindable, NoneLost, c, d, was
<1> QED BY <1>7, <1>8, <1>9, <1>10, <1>11 DEF Lists, RequestsFindable

\* A dispatcher between its first look at the map and the flush.
LEMMA ListsLocked ==
  ASSUME TypeOK, Lists, NEW h \in Hctxs,
         Run(h) \/ Dispatch(h) \/ Visit(h) \/ AddToWaitQueue(h) \/ Retry(h) \/ LeaveWaitQueue(h)
  PROVE  Lists'
<1> USE DEF Run, Dispatch, Visit, AddToWaitQueue, Retry, LeaveWaitQueue
<1>1. UNCHANGED <<rqList, kcqMap, rqs, stage>>
  BY DEF queueVars, requestVars
<1>2. MapExact' /\ QueuedHere' /\ QueuedOnce' /\ NoneLost'
  <2>1. MapExact' /\ QueuedOnce'
    BY <1>1 DEF Lists, RequestsFindable, MapExact, QueuedOnce
  <2>2. QueuedHere'
    BY <1>1 DEF Lists, RequestsFindable, QueuedHere
  <2>3. NoneLost'
    BY <1>1 DEF Lists, RequestsFindable, NoneLost
  <2> QED BY <2>1, <2>2, <2>3
<1>3. call \in [Hctxs -> [at : Positions, visits : 0 .. NumDomains,
                          nr : Nat \cup {NoToken}, flush : SUBSET Ctxs]]
      /\ curDomain \in [Hctxs -> Domains]
  BY DEF TypeOK, CallTypes
<1>4. \A g \in Hctxs : g # h => call'[g] = call[g] /\ curDomain'[g] = curDomain[g]
  BY <1>3 DEF Goto, NextVisit, GetToken, batchVars
<1>5. LET d == curDomain'[h]
      IN /\ call'[h].at \in {"check", "retry", "hold"} => rqs[h][d] # <<>> \/ Busy(h, d) # {}
         /\ call'[h].at = "flush" => call'[h].flush # {} /\ call'[h].flush \subseteq Busy(h, d)
         /\ call'[h].at = "take" => rqs[h][d] # <<>>
  <2>1. CASE Run(h)
    BY <1>3, <2>1 DEF Goto
  <2>2. CASE Dispatch(h)
    BY <1>3, <2>2 DEF Goto, NextVisit, Idle
  <2>3. CASE Visit(h)
    BY <1>3, <2>3 DEF Goto, NextVisit, Idle, GetToken, batchVars
  <2>4. CASE AddToWaitQueue(h)
    BY <1>3, <2>4 DEF Goto, NextVisit, Idle, batchVars, Lists, WorkAhead, At
  <2>5. CASE Retry(h)
    BY <1>3, <2>5 DEF Goto, NextVisit, Idle, GetToken, batchVars, Lists, WorkAhead, At
  <2>6. CASE LeaveWaitQueue(h)
    BY <1>3, <2>6 DEF batchVars, Lists, WorkAhead, At
  <2> QED BY <2>1, <2>2, <2>3, <2>4, <2>5, <2>6
<1>6. WorkAhead' /\ AlwaysGetsRequest'
  BY <1>1, <1>4, <1>5 DEF Lists, RequestsFindable, WorkAhead, AlwaysGetsRequest, At, Busy
<1> QED BY <1>2, <1>6 DEF Lists, RequestsFindable

LEMMA ListsFlush ==
  ASSUME TypeOK, Lists, NEW h \in Hctxs, FlushKcq(h)
  PROVE  Lists'
<1> DEFINE d == curDomain[h]
<1>1. PICK c \in call[h].flush :
         /\ rqs' = [rqs EXCEPT ![h][d] = @ \o rqList[c][d]]
         /\ rqList' = [rqList EXCEPT ![c][d] = <<>>]
         /\ kcqMap' = [kcqMap EXCEPT ![d] = @ \ {c}]
         /\ call' = [call EXCEPT ![h].flush = @ \ {c}, ![h].at = IF call[h].flush = {c} THEN "take" ELSE @]
  BY DEF FlushKcq
<1>2. d \in Domains /\ At(h, "flush") /\ UNCHANGED <<curDomain, stage>>
  BY DEF FlushKcq, batchVars, requestVars, TypeOK, CallTypes
<1>3. c \in Ctxs /\ HctxOf[c] = h /\ c \in kcqMap[d]
  BY <1>1, <1>2 DEF Lists, WorkAhead, Busy, Kcqs
<1> DEFINE q == rqs[h][d] \o rqList[c][d]
<1>4. /\ rqs[h][d] \in Seq(Requests) /\ rqList[c][d] \in Seq(Requests) /\ rqList[c][d] # <<>>
      /\ IsInjective(rqs[h][d]) /\ IsInjective(rqList[c][d])
      /\ Range(rqs[h][d]) \cap Range(rqList[c][d]) = {}
  <2>1. rqs[h][d] \in Seq(Requests) /\ rqList[c][d] \in Seq(Requests)
    BY <1>2, <1>3 DEF TypeOK, QueueTypes
  <2>2. rqList[c][d] # <<>>
    BY <1>2, <1>3 DEF Lists, RequestsFindable, MapExact
  <2>3. /\ IsInjective(rqs[h][d]) /\ IsInjective(rqList[c][d])
        /\ Range(rqs[h][d]) \cap Range(rqList[c][d]) = {}
    BY <1>2, <1>3 DEF Lists, RequestsFindable, QueuedOnce
  <2> QED BY <2>1, <2>2, <2>3
<1>5. IsInjective(q) /\ Range(q) = Range(rqs[h][d]) \cup Range(rqList[c][d]) /\ q # <<>>
  BY <1>4, ConcatOnce
<1>6. rqs' = [rqs EXCEPT ![h][d] = q]
  BY <1>1
<1> HIDE DEF q, d
<1>7. /\ \A k \in Ctxs, e \in Domains : rqList'[k][e] = IF k = c /\ e = d THEN <<>> ELSE rqList[k][e]
      /\ \A g \in Hctxs, e \in Domains : rqs'[g][e] = IF g = h /\ e = d THEN q ELSE rqs[g][e]
      /\ \A e \in Domains : kcqMap'[e] = IF e = d THEN kcqMap[e] \ {c} ELSE kcqMap[e]
  <2>1. /\ rqList \in [Ctxs -> [Domains -> Seq(Requests)]]
        /\ kcqMap \in [Domains -> SUBSET Ctxs]
        /\ rqs \in [Hctxs -> [Domains -> Seq(Requests)]]
    BY DEF TypeOK, QueueTypes
  <2>2. \A k \in Ctxs, e \in Domains : rqList'[k][e] = IF k = c /\ e = d THEN <<>> ELSE rqList[k][e]
    BY <1>1, <1>2, <1>3, <2>1
  <2>3. \A g \in Hctxs, e \in Domains : rqs'[g][e] = IF g = h /\ e = d THEN q ELSE rqs[g][e]
    BY <1>2, <1>6, <2>1
  <2>4. \A e \in Domains : kcqMap'[e] = IF e = d THEN kcqMap[e] \ {c} ELSE kcqMap[e]
    BY <1>1, <1>2, <2>1
  <2> QED BY <2>2, <2>3, <2>4
<1>8. /\ \A g \in Hctxs : g # h => call'[g] = call[g]
      /\ call'[h].flush = call[h].flush \ {c}
      /\ call'[h].at = IF call[h].flush = {c} THEN "take" ELSE "flush"
  BY <1>1, <1>2 DEF TypeOK, CallTypes, At
<1>9. WorkAhead'
  <2>1. ASSUME NEW g \in Hctxs, g # h
        PROVE  /\ Busy(g, curDomain[g])' = Busy(g, curDomain[g])
               /\ rqs'[g][curDomain[g]] = rqs[g][curDomain[g]]
    <3>1. curDomain[g] \in Domains
      BY DEF TypeOK, CallTypes
    <3>2. curDomain'[g] = curDomain[g] /\ c \notin Kcqs(g)
      BY <1>2, <1>3, <2>1 DEF Kcqs
    <3>3. \A k \in Kcqs(g) : k \in kcqMap'[curDomain[g]] <=> k \in kcqMap[curDomain[g]]
      BY <1>7, <3>1, <3>2
    <3> QED BY <1>7, <2>1, <3>1, <3>2, <3>3 DEF Busy, Kcqs
  <2>2. Busy(h, d)' = Busy(h, d) \ {c}
    BY <1>2, <1>3, <1>7 DEF Busy, Kcqs, d
  <2>3. call[h].flush \subseteq Busy(h, d)
    BY <1>2 DEF Lists, WorkAhead, d
  <2>4. ASSUME NEW g \in Hctxs
        PROVE  /\ call'[g].at \in {"check", "retry", "hold"} =>
                    rqs'[g][curDomain'[g]] # <<>> \/ Busy(g, curDomain[g])' # {}
               /\ call'[g].at = "flush" =>
                    call'[g].flush # {} /\ call'[g].flush \subseteq Busy(g, curDomain[g])'
    <3>1. CASE g = h
      <4>1. call'[h].at \in {"flush", "take"}
            /\ (call'[h].at = "flush" => call'[h].flush # {} /\ call'[h].flush \subseteq Busy(h, d) \ {c})
        <5>1. c \in call[h].flush /\ (call[h].flush # {c} => call[h].flush \ {c} # {})
          BY <1>1
        <5>2. call[h].flush \ {c} \subseteq Busy(h, d) \ {c}
          BY <2>3
        <5> QED BY <1>8, <5>1, <5>2
      <4>2. Busy(h, curDomain[h])' = Busy(h, d)'
        BY <1>2 DEF d
      <4> QED BY <2>2, <3>1, <4>1, <4>2
    <3>2. CASE g # h
      <4>1. /\ call[g].at \in {"check", "retry", "hold"} => rqs[g][curDomain[g]] # <<>> \/ Busy(g, curDomain[g]) # {}
            /\ call[g].at = "flush" => call[g].flush # {} /\ call[g].flush \subseteq Busy(g, curDomain[g])
        BY DEF Lists, WorkAhead, At
      <4> QED BY <1>2, <1>8, <2>1, <3>2, <4>1
    <3> QED BY <3>1, <3>2
  <2> QED BY <2>4 DEF WorkAhead, At
<1>10. AlwaysGetsRequest'
  BY <1>2, <1>5, <1>7, <1>8 DEF Lists, RequestsFindable, AlwaysGetsRequest, At, d, TypeOK, CallTypes
<1>11. MapExact'
  <2>1. ASSUME NEW k \in Ctxs, NEW e \in Domains
        PROVE  k \in kcqMap'[e] <=> rqList'[k][e] # <<>>
    <3>1. k \in kcqMap[e] <=> rqList[k][e] # <<>>
      BY DEF Lists, RequestsFindable, MapExact
    <3> QED BY <1>7, <3>1
  <2> QED BY <2>1 DEF MapExact
<1>12. QueuedHere'
  <2>1. ASSUME NEW e \in Domains, NEW k \in Ctxs, NEW r \in Range(rqList'[k][e])
        PROVE  stage[r] = "inserted" /\ DomainOf[r] = e /\ CtxOf[r] = k
    BY <1>7, EmptyOnce DEF Lists, RequestsFindable, QueuedHere
  <2>2. ASSUME NEW e \in Domains, NEW g \in Hctxs, NEW r \in Range(rqs'[g][e])
        PROVE  stage[r] = "inserted" /\ DomainOf[r] = e /\ HctxOf[CtxOf[r]] = g
    BY <1>2, <1>3, <1>5, <1>7 DEF Lists, RequestsFindable, QueuedHere
  <2> QED BY <1>2, <2>1, <2>2 DEF QueuedHere
<1>13. QueuedOnce'
  <2>1. ASSUME NEW e \in Domains, NEW k \in Ctxs
        PROVE  IsInjective(rqList'[k][e]) /\ Range(rqList'[k][e]) \cap Range(rqs'[HctxOf[k]][e]) = {}
    <3>1. HctxOf[k] \in Hctxs
      BY KyberAssumption
    <3>2. IsInjective(rqList[k][e]) /\ Range(rqList[k][e]) \cap Range(rqs[HctxOf[k]][e]) = {}
      BY DEF Lists, RequestsFindable, QueuedOnce
    <3>3. k # c => Range(rqList[k][e]) \cap Range(rqList[c][d]) = {}
      BY <1>2, <1>3 DEF Lists, RequestsFindable, QueuedHere
    <3> QED BY <1>5, <1>7, <3>1, <3>2, <3>3, EmptyOnce
  <2>2. ASSUME NEW e \in Domains, NEW g \in Hctxs
        PROVE  IsInjective(rqs'[g][e])
    BY <1>5, <1>7 DEF Lists, RequestsFindable, QueuedOnce
  <2> QED BY <2>1, <2>2 DEF QueuedOnce
<1>14. NoneLost'
  <2>1. ASSUME NEW r \in Requests, stage[r] = "inserted"
        PROVE  r \in Range(rqList'[CtxOf[r]][DomainOf[r]]) \cup Range(rqs'[HctxOf[CtxOf[r]]][DomainOf[r]])
    BY <1>3, <1>5, <1>7, <2>1, RequestPlace DEF Lists, RequestsFindable, NoneLost
  <2> QED BY <1>2, <2>1 DEF NoneLost
<1> QED BY <1>9, <1>10, <1>11, <1>12, <1>13, <1>14 DEF Lists, RequestsFindable

LEMMA ListsTake ==
  ASSUME TypeOK, Lists, NEW h \in Hctxs, Take(h)
  PROVE  Lists'
<1> DEFINE d == curDomain[h]
           r == Head(rqs[h][d])
           q == Tail(rqs[h][d])
<1>1. /\ d \in Domains /\ rqs[h][d] # <<>>
      /\ rqs[h][d] \in Seq(Requests) /\ IsInjective(rqs[h][d])
  BY DEF Take, TypeOK, CallTypes, QueueTypes, Lists, RequestsFindable, QueuedOnce
<1>2. /\ IsInjective(q) /\ Range(q) = Range(rqs[h][d]) \ {r}
      /\ r \in Range(rqs[h][d]) /\ r \in Requests
  BY <1>1, TailOnce
<1>3. DomainOf[r] = d /\ HctxOf[CtxOf[r]] = h /\ r \notin Range(rqList[CtxOf[r]][d])
  <2>1. DomainOf[r] = d /\ HctxOf[CtxOf[r]] = h
    BY <1>1, <1>2 DEF Lists, RequestsFindable, QueuedHere
  <2>2. CtxOf[r] \in Ctxs
    BY <1>2, RequestPlace
  <2>3. Range(rqList[CtxOf[r]][d]) \cap Range(rqs[h][d]) = {}
    BY <1>1, <2>1, <2>2 DEF Lists, RequestsFindable, QueuedOnce
  <2> QED BY <1>2, <2>1, <2>3
<1>4. /\ rqs' = [rqs EXCEPT ![h][d] = q] /\ stage' = [stage EXCEPT ![r] = "inflight"]
      /\ UNCHANGED <<rqList, kcqMap, curDomain>>
  BY DEF Take
<1>5. call' = [call EXCEPT ![h] = [Idle EXCEPT !.at = "loop"]]
  BY DEF Take
<1> HIDE DEF q, r, d
<1>6. /\ \A g \in Hctxs, e \in Domains : rqs'[g][e] = IF g = h /\ e = d THEN q ELSE rqs[g][e]
      /\ \A s \in Requests : stage'[s] = IF s = r THEN "inflight" ELSE stage[s]
  BY <1>1, <1>4 DEF TypeOK, QueueTypes, RequestTypes
<1>7. \A g \in Hctxs : IF g = h THEN call'[g].at = "loop" ELSE call'[g] = call[g]
  BY <1>5 DEF TypeOK, CallTypes, Idle
<1>8. WorkAhead' /\ AlwaysGetsRequest' /\ MapExact'
  <2>1. WorkAhead'
    BY <1>4, <1>6, <1>7 DEF Lists, WorkAhead, At, Busy, TypeOK, CallTypes
  <2>2. AlwaysGetsRequest'
    BY <1>4, <1>6, <1>7 DEF Lists, RequestsFindable, AlwaysGetsRequest, At, TypeOK, CallTypes
  <2>3. MapExact'
    BY <1>4 DEF Lists, RequestsFindable, MapExact
  <2> QED BY <2>1, <2>2, <2>3
<1>9. QueuedHere'
  <2>1. \A k \in Ctxs, e \in Domains : Range(rqList[k][e]) \subseteq Requests \ {r}
    <3>1. \A k \in Ctxs, e \in Domains : Range(rqList[k][e]) \subseteq Requests
      BY RangeOfSeq DEF TypeOK, QueueTypes
    <3> QED BY <1>2, <1>3, <3>1 DEF Lists, RequestsFindable, QueuedHere
  <2>2. \A g \in Hctxs, e \in Domains : Range(rqs'[g][e]) \subseteq Requests \ {r}
    <3>1. \A g \in Hctxs, e \in Domains : Range(rqs[g][e]) \subseteq Requests
      BY RangeOfSeq DEF TypeOK, QueueTypes
    <3> QED BY <1>2, <1>3, <1>6, <3>1 DEF Lists, RequestsFindable, QueuedHere
  <2>3. ASSUME NEW e \in Domains, NEW k \in Ctxs, NEW s \in Range(rqList'[k][e])
        PROVE  stage'[s] = "inserted" /\ DomainOf[s] = e /\ CtxOf[s] = k
    BY <1>4, <1>6, <2>1 DEF Lists, RequestsFindable, QueuedHere
  <2>4. ASSUME NEW e \in Domains, NEW g \in Hctxs, NEW s \in Range(rqs'[g][e])
        PROVE  stage'[s] = "inserted" /\ DomainOf[s] = e /\ HctxOf[CtxOf[s]] = g
    BY <1>2, <1>6, <2>2 DEF Lists, RequestsFindable, QueuedHere
  <2> QED BY <2>3, <2>4 DEF QueuedHere
<1>10. QueuedOnce'
  <2>1. ASSUME NEW e \in Domains, NEW k \in Ctxs
        PROVE  IsInjective(rqList'[k][e]) /\ Range(rqList'[k][e]) \cap Range(rqs'[HctxOf[k]][e]) = {}
    <3>1. HctxOf[k] \in Hctxs
      BY KyberAssumption
    <3>2. IsInjective(rqList[k][e]) /\ Range(rqList[k][e]) \cap Range(rqs[HctxOf[k]][e]) = {}
      BY DEF Lists, RequestsFindable, QueuedOnce
    <3> QED BY <1>2, <1>4, <1>6, <3>1, <3>2
  <2>2. ASSUME NEW e \in Domains, NEW g \in Hctxs
        PROVE  IsInjective(rqs'[g][e])
    BY <1>2, <1>6 DEF Lists, RequestsFindable, QueuedOnce
  <2> QED BY <2>1, <2>2 DEF QueuedOnce
<1>11. NoneLost'
  <2>1. ASSUME NEW s \in Requests, stage'[s] = "inserted"
        PROVE  s \in Range(rqList'[CtxOf[s]][DomainOf[s]]) \cup Range(rqs'[HctxOf[CtxOf[s]]][DomainOf[s]])
    BY <1>2, <1>4, <1>6, <2>1, RequestPlace DEF Lists, RequestsFindable, NoneLost
  <2> QED BY <2>1 DEF NoneLost
<1> QED BY <1>8, <1>9, <1>10, <1>11 DEF Lists, RequestsFindable

LEMMA ListsUnchanged ==
  ASSUME Lists, UNCHANGED <<queueVars, curDomain, call, stage>>
  PROVE  Lists'
<1> USE DEF queueVars, Lists, RequestsFindable
<1>1. WorkAhead' /\ AlwaysGetsRequest'
  BY DEF WorkAhead, AlwaysGetsRequest, At, Busy
<1>2. MapExact' /\ QueuedOnce'
  BY DEF MapExact, QueuedOnce
<1>3. QueuedHere' /\ NoneLost'
  BY DEF QueuedHere, NoneLost
<1> QED BY <1>1, <1>2, <1>3

LEMMA ListsStep == TypeOK /\ Lists /\ [Next]_vars => Lists'
<1> SUFFICES ASSUME TypeOK, Lists, [Next]_vars PROVE Lists'
  OBVIOUS
<1>1. ASSUME NEW r \in Requests, RequestStep(r) PROVE Lists'
  BY <1>1, ListsElsewhere, ListsInsert DEF RequestStep
<1>2. ASSUME NEW d \in Domains, Resize(d) PROVE Lists'
  BY <1>2, ListsUnchanged DEF Resize, batchVars, requestVars
<1>3. ASSUME NEW h \in Hctxs, DispatcherStep(h) PROVE Lists'
  BY <1>3, ListsLocked, ListsFlush, ListsTake DEF DispatcherStep
<1>4. CASE UNCHANGED vars
  BY <1>4, ListsUnchanged DEF vars, batchVars, requestVars
<1> QED BY <1>1, <1>2, <1>3, <1>4 DEF Next, RequestStep

\* Every inserted request can be found: it is in one list, no other, the map
\* leads to that list, and a dispatcher that is led there finds a request,
\* although requests keep arriving while it flushes.
THEOREM DispatchFindable == Spec => []RequestsFindable
<1>1. Init => TypeOK /\ DispatcherSound /\ Lists
  BY TypeInit, ListsInit
<1>2. TypeOK /\ DispatcherSound /\ Lists /\ [Next]_vars => (TypeOK /\ DispatcherSound /\ Lists)'
  BY TypeStep, ListsStep
<1>3. Lists => RequestsFindable
  BY DEF Lists
<1> QED BY <1>1, <1>2, <1>3, PTL DEF Spec

-----------------------------------------------------------------------------
(* The tokens and their owners.                                            *)

LEMMA OwnedInit == ASSUME Init PROVE Owned
<1>1. \A d \in Domains : Owners(d) = {} /\ Holders(d) = {} /\ used[d] = {}
  BY DEF Init, Owners, Holders, Holds, At, Idle
<1> QED BY <1>1 DEF Owned, FreshForgets, TokensOwned, Init

LEMMA OwnedSame ==
  ASSUME TokensOwned, used' = used,
         \A r \in Requests : /\ stage'[r] = "inflight" <=> stage[r] = "inflight"
                             /\ stage[r] = "inflight" => token'[r] = token[r],
         \A h \in Hctxs : /\ Holds(h)' <=> Holds(h)
                          /\ Holds(h) => call'[h].nr = call[h].nr /\ curDomain'[h] = curDomain[h]
  PROVE  TokensOwned'
<1>1. ASSUME NEW d \in Domains
      PROVE  /\ Owners(d)' = Owners(d) /\ \A r \in Owners(d) : token'[r] = token[r]
             /\ Holders(d)' = Holders(d) /\ \A h \in Holders(d) : call'[h].nr = call[h].nr
  BY DEF Owners, Holders
<1>2. ASSUME NEW d \in Domains
      PROVE  /\ used'[d] = {token'[r] : r \in Owners(d)'} \cup {call'[h].nr : h \in Holders(d)'}
             /\ \A r, s \in Owners(d)' : token'[r] = token'[s] => r = s
             /\ \A h, g \in Holders(d)' : call'[h].nr = call'[g].nr => h = g
             /\ \A r \in Owners(d)', h \in Holders(d)' : token'[r] # call'[h].nr
  BY <1>1 DEF TokensOwned
<1> QED BY <1>2 DEF TokensOwned

\* A request in flight gives its token up.
LEMMA OwnedGiven ==
  ASSUME TypeOK, TokensOwned, NEW r \in Requests, stage[r] = "inflight",
         used' = [used EXCEPT ![DomainOf[r]] = @ \ {token[r]}],
         NEW t, t # "inflight", stage' = [stage EXCEPT ![r] = t],
         UNCHANGED <<token, call, curDomain>>
  PROVE  TokensOwned'
<1>1. /\ \A d \in Domains : used'[d] = IF d = DomainOf[r] THEN used[d] \ {token[r]} ELSE used[d]
      /\ \A s \in Requests : stage'[s] = IF s = r THEN t ELSE stage[s]
  BY DEF TypeOK, TokenTypes, RequestTypes
<1>2. ASSUME NEW d \in Domains
      PROVE  /\ Owners(d)' = Owners(d) \ {r} /\ Holders(d)' = Holders(d)
             /\ r \in Owners(d) <=> d = DomainOf[r]
  BY <1>1 DEF Owners, Holders, Holds, At
<1>3. ASSUME NEW d \in Domains
      PROVE  used'[d] = {token[s] : s \in Owners(d)'} \cup {call[h].nr : h \in Holders(d)'}
  <2>1. /\ used[d] = {token[s] : s \in Owners(d)} \cup {call[h].nr : h \in Holders(d)}
        /\ \A q, s \in Owners(d) : token[q] = token[s] => q = s
        /\ \A s \in Owners(d), h \in Holders(d) : token[s] # call[h].nr
    BY DEF TokensOwned
  <2>2. CASE d = DomainOf[r]
    <3>1. used'[d] = used[d] \ {token[r]} /\ r \in Owners(d)
      BY <1>1, <1>2, <2>2
    <3>2. {token[s] : s \in Owners(d) \ {r}} = {token[s] : s \in Owners(d)} \ {token[r]}
      BY <2>1, <3>1
    <3>3. token[r] \notin {call[h].nr : h \in Holders(d)}
      BY <2>1, <3>1
    <3> QED BY <1>2, <2>1, <3>1, <3>2, <3>3
  <2>3. CASE d # DomainOf[r]
    <3>1. used'[d] = used[d] /\ Owners(d)' = Owners(d) /\ Holders(d)' = Holders(d)
      BY <1>1, <1>2, <2>3
    <3> QED BY <2>1, <3>1
  <2> QED BY <2>2, <2>3
<1>4. ASSUME NEW d \in Domains
      PROVE  /\ \A q, s \in Owners(d)' : token[q] = token[s] => q = s
             /\ \A h, g \in Holders(d)' : call[h].nr = call[g].nr => h = g
             /\ \A s \in Owners(d)', h \in Holders(d)' : token[s] # call[h].nr
  BY <1>2 DEF TokensOwned
<1> QED BY <1>3, <1>4 DEF TokensOwned

LEMMA OwnedRequests ==
  ASSUME TypeOK, Owned, NEW r \in Requests, RequestStep(r)
  PROVE  Owned'
<1>1. UNCHANGED <<call, curDomain>>
  BY DEF RequestStep, Prepare, Insert, Finish, Requeue, Wake, batchVars
<1>2. FreshForgets'
  BY DEF RequestStep, Prepare, Insert, Finish, Requeue, Wake, Woken, Owned, FreshForgets, TypeOK, RequestTypes
<1>3. stage[r] = "inflight" => token[r] # NoToken
  <2>1. stage[r] = "inflight" => token[r] \in used[DomainOf[r]]
    BY RequestPlace DEF Owned, TokensOwned, Owners
  <2> QED BY <2>1, RequestPlace DEF TypeOK, TokenTypes, NoToken
<1>4. CASE stage[r] = "inflight"
  <2>1. PICK t \in {"waking", "rewaking"} :
          /\ used' = [used EXCEPT ![DomainOf[r]] = @ \ {token[r]}]
          /\ stage' = [stage EXCEPT ![r] = t] /\ token' = token
    BY <1>3, <1>4 DEF RequestStep, Prepare, Insert, Finish, Requeue, Wake
  <2> QED BY <1>1, <1>2, <1>4, <2>1, OwnedGiven DEF Owned
<1>5. CASE stage[r] # "inflight"
  <2>1. used' = used
    BY <1>5 DEF RequestStep, Prepare, Insert, Finish, Requeue, Wake, tokenVars, Owned, FreshForgets
  <2>2. \A s \in Requests : /\ stage'[s] = "inflight" <=> stage[s] = "inflight"
                            /\ stage[s] = "inflight" => token'[s] = token[s]
    BY <1>5 DEF RequestStep, Prepare, Insert, Finish, Requeue, Wake, Woken, TypeOK, RequestTypes
  <2>3. \A h \in Hctxs : Holds(h)' <=> Holds(h)
    BY <1>1 DEF Holds, At
  <2> QED BY <1>1, <1>2, <2>1, <2>2, <2>3, OwnedSame DEF Owned
<1> QED BY <1>4, <1>5

\* A dispatcher gets a token that is free.
LEMMA OwnedGot ==
  ASSUME TypeOK, Owned, NEW h \in Hctxs, ~ Holds(h), GetToken(h, curDomain[h]), UNCHANGED requestVars
  PROVE  Owned'
<1> DEFINE d == curDomain[h]
<1>1. PICK n \in FreeTokens(d) :
        /\ used' = [used EXCEPT ![d] = @ \cup {n}]
        /\ call' = [call EXCEPT ![h].at = "hold", ![h].nr = n]
  BY DEF GetToken
<1>2. d \in Domains /\ n \notin used[d] /\ UNCHANGED <<curDomain, token, stage>>
  BY <1>1 DEF FreeTokens, GetToken, batchVars, requestVars, TypeOK, CallTypes
<1> HIDE DEF d
<1>3. /\ \A e \in Domains : used'[e] = IF e = d THEN used[d] \cup {n} ELSE used[e]
      /\ \A g \in Hctxs : g # h => call'[g] = call[g]
      /\ call'[h].at = "hold" /\ call'[h].nr = n
  BY <1>1, <1>2 DEF TypeOK, TokenTypes, CallTypes
<1>4. ASSUME NEW e \in Domains
      PROVE  /\ Owners(e)' = Owners(e)
             /\ Holders(e)' = IF e = d THEN Holders(e) \cup {h} ELSE Holders(e)
             /\ h \notin Holders(e)
  BY <1>2, <1>3 DEF Owners, Holders, Holds, At, d
<1>5. ASSUME NEW e \in Domains
      PROVE  used'[e] = {token[r] : r \in Owners(e)'} \cup {call'[g].nr : g \in Holders(e)'}
  <2>1. used[e] = {token[r] : r \in Owners(e)} \cup {call[g].nr : g \in Holders(e)}
    BY DEF Owned, TokensOwned
  <2>2. \A g \in Holders(e) : g \in Hctxs /\ call'[g].nr = call[g].nr
    BY <1>3, <1>4 DEF Holders
  <2> QED BY <1>3, <1>4, <2>1, <2>2
<1>6. ASSUME NEW e \in Domains
      PROVE  /\ \A r, s \in Owners(e)' : token[r] = token[s] => r = s
             /\ \A g, i \in Holders(e)' : call'[g].nr = call'[i].nr => g = i
             /\ \A r \in Owners(e)', g \in Holders(e)' : token[r] # call'[g].nr
  <2>1. /\ \A r \in Owners(e) : token[r] \in used[e]
        /\ \A g \in Holders(e) : call[g].nr \in used[e]
        /\ \A r, s \in Owners(e) : token[r] = token[s] => r = s
        /\ \A g, i \in Holders(e) : call[g].nr = call[i].nr => g = i
        /\ \A r \in Owners(e), g \in Holders(e) : token[r] # call[g].nr
    BY DEF Owned, TokensOwned
  <2>2. \A g \in Holders(e) : g \in Hctxs /\ call'[g].nr = call[g].nr
    BY <1>3, <1>4 DEF Holders
  <2> QED BY <1>2, <1>3, <1>4, <2>1, <2>2
<1>7. TokensOwned'
  BY <1>2, <1>5, <1>6 DEF TokensOwned
<1> QED BY <1>2, <1>7 DEF Owned, FreshForgets

\* A dispatcher passes its token on to the request it takes.
LEMMA OwnedTaken ==
  ASSUME TypeOK, Lists, Owned, NEW h \in Hctxs, Take(h)
  PROVE  Owned'
<1> DEFINE d == curDomain[h]
           r == Head(rqs[h][d])
<1>1. d \in Domains /\ r \in Range(rqs[h][d]) /\ r \in Requests
  BY TailOnce DEF Take, TypeOK, CallTypes, QueueTypes, Lists, RequestsFindable, QueuedOnce
<1>2. stage[r] = "inserted" /\ DomainOf[r] = d
  BY <1>1 DEF Lists, RequestsFindable, QueuedHere
<1>3. /\ token' = [token EXCEPT ![r] = call[h].nr] /\ stage' = [stage EXCEPT ![r] = "inflight"]
      /\ call' = [call EXCEPT ![h] = [Idle EXCEPT !.at = "loop"]]
      /\ UNCHANGED <<used, curDomain>> /\ At(h, "take")
  BY DEF Take, tokenVars
<1> HIDE DEF d, r
<1>4. /\ \A s \in Requests : stage'[s] = IF s = r THEN "inflight" ELSE stage[s]
      /\ \A s \in Requests : token'[s] = IF s = r THEN call[h].nr ELSE token[s]
      /\ \A g \in Hctxs : g # h => call'[g] = call[g]
      /\ call'[h].at = "loop"
  BY <1>1, <1>3 DEF TypeOK, RequestTypes, CallTypes, Idle
<1>5. ASSUME NEW e \in Domains
      PROVE  /\ Owners(e)' = IF e = d THEN Owners(e) \cup {r} ELSE Owners(e)
             /\ Holders(e)' = Holders(e) \ {h}
             /\ h \in Holders(e) <=> e = d
             /\ r \notin Owners(e)
  BY <1>1, <1>2, <1>3, <1>4 DEF Owners, Holders, Holds, At, d
<1>6. ASSUME NEW e \in Domains
      PROVE  /\ \A s \in Owners(e) : token'[s] = token[s]
             /\ \A g \in Holders(e) \ {h} : call'[g].nr = call[g].nr
             /\ token'[r] = call[h].nr
  BY <1>1, <1>4, <1>5 DEF Owners, Holders
<1>7. ASSUME NEW e \in Domains
      PROVE  used'[e] = {token'[s] : s \in Owners(e)'} \cup {call'[g].nr : g \in Holders(e)'}
  <2>1. used[e] = {token[s] : s \in Owners(e)} \cup {call[g].nr : g \in Holders(e)}
    BY DEF Owned, TokensOwned
  <2> QED BY <1>3, <1>5, <1>6, <2>1
<1>8. ASSUME NEW e \in Domains
      PROVE  /\ \A q, s \in Owners(e)' : token'[q] = token'[s] => q = s
             /\ \A g, i \in Holders(e)' : call'[g].nr = call'[i].nr => g = i
             /\ \A s \in Owners(e)', g \in Holders(e)' : token'[s] # call'[g].nr
  <2>1. /\ \A q, s \in Owners(e) : token[q] = token[s] => q = s
        /\ \A g, i \in Holders(e) : call[g].nr = call[i].nr => g = i
        /\ \A s \in Owners(e), g \in Holders(e) : token[s] # call[g].nr
    BY DEF Owned, TokensOwned
  <2> QED BY <1>5, <1>6, <2>1
<1>9. TokensOwned'
  BY <1>7, <1>8 DEF TokensOwned
<1> QED BY <1>4, <1>9 DEF Owned, FreshForgets

\* Any other step of a dispatcher leaves every token where it is.
LEMMA OwnedDispatcher ==
  ASSUME TypeOK, Lists, Owned, NEW h \in Hctxs, DispatcherStep(h)
  PROVE  Owned'
<1>1. CASE Take(h)
  BY <1>1, OwnedTaken
<1>2. CASE GetToken(h, curDomain[h]) /\ UNCHANGED requestVars /\ ~ Holds(h)
  BY <1>2, OwnedGot
<1>3. ASSUME UNCHANGED <<used, token, stage>>,
             \A g \in Hctxs : g # h => call'[g] = call[g] /\ curDomain'[g] = curDomain[g],
             call'[h].at \in {"hold", "flush", "take"} <=> call[h].at \in {"hold", "flush", "take"},
             call[h].at \in {"hold", "flush", "take"} =>
               call'[h].nr = call[h].nr /\ curDomain'[h] = curDomain[h]
      PROVE  Owned'
  <2>1. \A g \in Hctxs : /\ Holds(g)' <=> Holds(g)
                         /\ Holds(g) => call'[g].nr = call[g].nr /\ curDomain'[g] = curDomain[g]
    BY <1>3 DEF Holds, At
  <2>2. TokensOwned'
    BY <1>3, <2>1, OwnedSame DEF Owned
  <2> QED BY <1>3, <2>2 DEF Owned, FreshForgets
<1>4. call \in [Hctxs -> [at : Positions, visits : 0 .. NumDomains,
                          nr : Nat \cup {NoToken}, flush : SUBSET Ctxs]]
      /\ curDomain \in [Hctxs -> Domains]
  BY DEF TypeOK, CallTypes
<1>5. CASE Run(h)
  BY <1>3, <1>4, <1>5 DEF Run, Goto, At, batchVars, tokenVars, requestVars
<1>6. CASE Dispatch(h)
  BY <1>3, <1>4, <1>6 DEF Dispatch, Goto, At, NextVisit, Idle, batchVars, tokenVars, requestVars
<1>7. CASE Visit(h)
  BY <1>2, <1>3, <1>4, <1>7 DEF Visit, Goto, At, Holds, NextVisit, Idle, batchVars, tokenVars, requestVars
<1>8. CASE AddToWaitQueue(h)
  BY <1>3, <1>4, <1>8 DEF AddToWaitQueue, Goto, At, NextVisit, Idle, batchVars, tokenVars, requestVars
<1>9. CASE Retry(h)
  BY <1>2, <1>3, <1>4, <1>9 DEF Retry, At, Holds, NextVisit, Idle, batchVars, tokenVars, requestVars
<1>10. CASE LeaveWaitQueue(h)
  BY <1>3, <1>4, <1>10 DEF LeaveWaitQueue, At, batchVars, requestVars
<1>11. CASE FlushKcq(h)
  BY <1>3, <1>4, <1>11 DEF FlushKcq, At, batchVars, tokenVars, requestVars
<1> QED BY <1>1, <1>5, <1>6, <1>7, <1>8, <1>9, <1>10, <1>11 DEF DispatcherStep

LEMMA OwnedStep == TypeOK /\ Lists /\ Owned /\ [Next]_vars => Owned'
<1> SUFFICES ASSUME TypeOK, Lists, Owned, [Next]_vars PROVE Owned'
  OBVIOUS
<1>1. ASSUME UNCHANGED <<used, token, stage, call, curDomain>> PROVE Owned'
  <2>1. \A g \in Hctxs : Holds(g)' <=> Holds(g)
    BY <1>1 DEF Holds, At
  <2>2. TokensOwned'
    BY <1>1, <2>1, OwnedSame DEF Owned
  <2> QED BY <1>1, <2>2 DEF Owned, FreshForgets
<1>2. ASSUME NEW d \in Domains, Resize(d) PROVE Owned'
  BY <1>1, <1>2 DEF Resize, batchVars, requestVars
<1>3. CASE UNCHANGED vars
  BY <1>1, <1>3 DEF vars, batchVars, tokenVars, requestVars
<1> QED BY <1>2, <1>3, OwnedRequests, OwnedDispatcher DEF Next, RequestStep

\* A token is in use exactly while one request in flight, or one dispatcher
\* about to send a request, holds it: none leaks, none is given out twice, and
\* a completion never clears a token that belongs to somebody else.
THEOREM DispatchTokens == Spec => []TokensOwned
<1>1. Init => TypeOK /\ DispatcherSound /\ Lists /\ Owned
  BY TypeInit, ListsInit, OwnedInit
<1>2. TypeOK /\ DispatcherSound /\ Lists /\ Owned /\ [Next]_vars
        => (TypeOK /\ DispatcherSound /\ Lists /\ Owned)'
  BY TypeStep, ListsStep, OwnedStep
<1>3. Owned => TokensOwned
  BY DEF Owned
<1> QED BY <1>1, <1>2, <1>3, PTL DEF Spec

-----------------------------------------------------------------------------
(* Waiting.                                                                *)

\* What the map shows is what the lists hold.
LEMMA PendingSeen ==
  ASSUME TypeOK, Lists, NEW h \in Hctxs, NEW d \in Domains
  PROVE  Pending(h, d) <=> rqs[h][d] # <<>> \/ Busy(h, d) # {}
<1>1. \A c \in Kcqs(h) : c \in kcqMap[d] <=> rqList[c][d] # <<>>
  BY DEF Kcqs, Lists, RequestsFindable, MapExact
<1> QED BY <1>1 DEF Pending, Busy, Kcqs

\* A step around the circle covers the domain it leaves.
LEMMA CoveredNext ==
  ASSUME TypeOK, NEW h \in Hctxs
  PROVE  /\ curDomain[h] \notin Covered(h)
         /\ call[h].visits <= 1 => Covered(h) = {}
         /\ call[h].visits = NumDomains => Domains \subseteq Covered(h) \cup {curDomain[h]}
<1>1. curDomain[h] \in 0 .. NumDomains - 1 /\ call[h].visits \in 0 .. NumDomains /\ NumDomains \in Nat \ {0}
  BY KyberAssumption DEF TypeOK, CallTypes, Domains
<1>2. curDomain[h] \notin Covered(h)
  BY <1>1 DEF Covered, Behind
<1>3. call[h].visits <= 1 => Covered(h) = {}
  <2>1. ASSUME call[h].visits <= 1, NEW d \in Domains PROVE ~ (Behind(h, d) \in 1 .. call[h].visits - 1)
    BY <1>1, <2>1 DEF Domains, Behind
  <2> QED BY <2>1 DEF Covered
<1>4. ASSUME call[h].visits = NumDomains, NEW d \in Domains, d # curDomain[h]
      PROVE  d \in Covered(h)
  BY <1>1, <1>4 DEF Covered, Behind, Domains
<1> QED BY <1>2, <1>3, <1>4

LEMMA CoveredStep ==
  ASSUME TypeOK, NEW h \in Hctxs, NextVisit(h), call[h].visits # NumDomains
  PROVE  Covered(h)' \subseteq Covered(h) \cup {curDomain[h]}
<1>1. curDomain[h] \in 0 .. NumDomains - 1 /\ call[h].visits \in 0 .. NumDomains /\ NumDomains \in Nat \ {0}
  BY KyberAssumption DEF TypeOK, CallTypes, Domains
<1>2. /\ curDomain'[h] = IF curDomain[h] = NumDomains - 1 THEN 0 ELSE curDomain[h] + 1
      /\ call'[h].visits = call[h].visits + 1
  BY DEF NextVisit, NextDomain, TypeOK, CallTypes
<1>3. ASSUME NEW d \in Domains, d \in Covered(h)', d # curDomain[h]
      PROVE  d \in Covered(h)
  <2>1. Behind(h, d)' \in 1 .. call[h].visits
    BY <1>1, <1>2, <1>3 DEF Covered
  <2>2. Behind(h, d) = Behind(h, d)' - 1 /\ Behind(h, d) # 0
    BY <1>1, <1>2, <1>3, <2>1 DEF Behind, Domains
  <2> QED BY <1>1, <2>1, <2>2 DEF Covered
<1> QED BY <1>3 DEF Covered

LEMMA WaitsInit == ASSUME Init PROVE Waits
<1>1. ASSUME NEW h \in Hctxs
      PROVE  /\ onWait[h] = {} /\ call[h].at = "idle"
             /\ \A d \in Domains : ~ Pending(h, d)
  BY DEF Init, Idle, Pending, Kcqs
<1> QED BY <1>1 DEF Waits, WaitsAt, At

\* A hardware queue nobody touches, except that it may be asked to run.
LEMMA WaitsSame ==
  ASSUME NEW g \in Hctxs, WaitsAt(g), onWait[g] \subseteq Domains,
         onWait'[g] = onWait[g], call'[g] = call[g], curDomain'[g] = curDomain[g], g \in run => g \in run',
         \A d \in Domains : Pending(g, d)' <=> Pending(g, d)
  PROVE  WaitsAt(g)'
<1>1. Covered(g)' = Covered(g) /\ Covered(g) \subseteq Domains
  BY DEF Covered, Behind
<1>2. ~ Active(g)' => ~ Active(g)
  BY DEF Active, At
<1> QED BY <1>1, <1>2 DEF WaitsAt, At

LEMMA PendingSame ==
  ASSUME UNCHANGED <<rqList, rqs>>, NEW h \in Hctxs, NEW d \in Domains
  PROVE  Pending(h, d)' <=> Pending(h, d)
BY DEF Pending, Kcqs

LEMMA PendingInsert ==
  ASSUME TypeOK, NEW r \in Requests, NEW atHead \in BOOLEAN, Insert(r, atHead),
         NEW h \in Hctxs, NEW d \in Domains
  PROVE  /\ Pending(h, d) => Pending(h, d)'
         /\ h # HctxOf[CtxOf[r]] => (Pending(h, d)' <=> Pending(h, d))
<1> DEFINE was == rqList[CtxOf[r]][DomainOf[r]]
           is == IF atHead THEN <<r>> \o was ELSE Append(was, r)
<1>1. CtxOf[r] \in Ctxs /\ DomainOf[r] \in Domains /\ was \in Seq(Requests)
  BY RequestPlace DEF TypeOK, QueueTypes
<1>2. is # <<>>
  <2>1. Append(was, r) # <<>>
    BY <1>1, AppendProperties
  <2>2. <<r>> \o was # <<>>
    BY <1>1, ConcatProperties, EmptySeq
  <2> QED BY <2>1, <2>2
<1>3. rqs' = rqs /\ rqList' = [rqList EXCEPT ![CtxOf[r]][DomainOf[r]] = is]
  BY DEF Insert
<1> HIDE DEF was, is
<1>4. \A c \in Ctxs : rqList'[c][d] = IF c = CtxOf[r] /\ d = DomainOf[r] THEN is ELSE rqList[c][d]
  BY <1>1, <1>3 DEF TypeOK, QueueTypes
<1> QED BY <1>1, <1>2, <1>3, <1>4 DEF Pending, Kcqs

LEMMA PendingFlush ==
  ASSUME TypeOK, Lists, NEW h \in Hctxs, FlushKcq(h), NEW g \in Hctxs, NEW d \in Domains
  PROVE  Pending(g, d)' <=> Pending(g, d)
<1>1. PICK c \in call[h].flush :
         /\ rqs' = [rqs EXCEPT ![h][curDomain[h]] = @ \o rqList[c][curDomain[h]]]
         /\ rqList' = [rqList EXCEPT ![c][curDomain[h]] = <<>>]
  BY DEF FlushKcq
<1>2. curDomain[h] \in Domains /\ At(h, "flush")
  BY DEF FlushKcq, TypeOK, CallTypes
<1>3. c \in Kcqs(h) /\ c \in Ctxs /\ HctxOf[c] = h /\ c \in kcqMap[curDomain[h]]
  BY <1>1, <1>2 DEF Lists, WorkAhead, Busy, Kcqs
<1>4. rqList[c][curDomain[h]] # <<>>
  BY <1>2, <1>3 DEF Lists, RequestsFindable, MapExact
<1> DEFINE q == rqs[h][curDomain[h]] \o rqList[c][curDomain[h]]
<1>5. q # <<>>
  <2>1. rqs[h][curDomain[h]] \in Seq(Requests) /\ rqList[c][curDomain[h]] \in Seq(Requests)
    BY <1>2, <1>3 DEF TypeOK, QueueTypes
  <2> QED BY <1>4, <2>1, ConcatProperties, EmptySeq
<1>6. rqs' = [rqs EXCEPT ![h][curDomain[h]] = q]
  BY <1>1
<1> HIDE DEF q
<1>7. /\ \A k \in Ctxs : rqList'[k][d] = IF k = c /\ d = curDomain[h] THEN <<>> ELSE rqList[k][d]
      /\ rqs'[g][d] = IF g = h /\ d = curDomain[h] THEN q ELSE rqs[g][d]
  <2>1. \A k \in Ctxs : rqList'[k][d] = IF k = c /\ d = curDomain[h] THEN <<>> ELSE rqList[k][d]
    BY <1>1, <1>2, <1>3 DEF TypeOK, QueueTypes
  <2>2. rqs'[g][d] = IF g = h /\ d = curDomain[h] THEN q ELSE rqs[g][d]
    BY <1>2, <1>6 DEF TypeOK, QueueTypes
  <2> QED BY <2>1, <2>2
<1>8. CASE g = h /\ d = curDomain[h]
  BY <1>3, <1>4, <1>5, <1>7, <1>8 DEF Pending
<1>9. CASE g # h
  <2>1. c \notin Kcqs(g) /\ Kcqs(g) \subseteq Ctxs
    BY <1>3, <1>9 DEF Kcqs
  <2> QED BY <1>7, <1>9, <2>1 DEF Pending, Kcqs
<1>10. CASE d # curDomain[h]
  BY <1>7, <1>10 DEF Pending, Kcqs
<1> QED BY <1>8, <1>9, <1>10

LEMMA PendingTake ==
  ASSUME TypeOK, NEW h \in Hctxs, Take(h), NEW g \in Hctxs, NEW d \in Domains, g # h \/ d # curDomain[h]
  PROVE  Pending(g, d)' <=> Pending(g, d)
<1>1. curDomain[h] \in Domains
  BY DEF TypeOK, CallTypes
<1>2. rqs'[g][d] = rqs[g][d] /\ rqList' = rqList
  BY <1>1 DEF Take, TypeOK, QueueTypes
<1> QED BY <1>2 DEF Pending, Kcqs

\* What the dispatcher h leaves behind when it goes on from the domain it
\* visits, having no requests of it, or waiting for it already.
LEMMA WaitsNext ==
  ASSUME TypeOK, DispatcherSound, Lists, NEW h \in Hctxs, WaitsAt(h), NextVisit(h),
         call[h].at \in {"visit", "check", "retry"},
         h \in run \/ (Pending(h, curDomain[h]) => curDomain[h] \in onWait[h]),
         UNCHANGED <<rqList, rqs, onWait, run>>
  PROVE  WaitsAt(h)'
<1>1. \A d \in Domains : Pending(h, d)' <=> Pending(h, d)
  BY PendingSame
<1>2. onWait[h] \subseteq Domains /\ curDomain[h] \in Domains
  BY DEF TypeOK, TokenTypes, CallTypes
<1>3. \A d \in Covered(h) \cup {curDomain[h]} : Pending(h, d) => d \in onWait[h] \/ h \in run
  BY DEF WaitsAt
<1>4. Covered(h) \subseteq Domains
  BY DEF Covered
<1>5. CASE call[h].visits = NumDomains
  <2>1. call'[h].at = "idle"
    BY <1>5 DEF NextVisit, Idle, TypeOK, CallTypes
  <2>2. \A d \in Domains : Pending(h, d) => d \in onWait[h] \/ h \in run
    BY <1>3, <1>5, CoveredNext
  <2> QED BY <1>1, <1>2, <2>1, <2>2 DEF WaitsAt, Active, At
<1>6. CASE call[h].visits # NumDomains
  <2>1. call'[h].at = "visit"
    BY <1>6 DEF NextVisit, TypeOK, CallTypes
  <2>2. \A d \in Covered(h)' : d \in Domains /\ (Pending(h, d) => d \in onWait[h] \/ h \in run)
    BY <1>2, <1>3, <1>4, <1>6, CoveredStep
  <2> QED BY <1>1, <1>2, <2>1, <2>2 DEF WaitsAt, Active, At
<1> QED BY <1>5, <1>6

LEMMA WaitsRequests ==
  ASSUME TypeOK, Waits, NEW r \in Requests, RequestStep(r)
  PROVE  Waits'
<1>1. UNCHANGED <<call, curDomain>> /\ \A g \in Hctxs : onWait[g] \subseteq Domains /\ WaitsAt(g)
  BY DEF RequestStep, Prepare, Insert, Finish, Requeue, Wake, batchVars, TypeOK, TokenTypes, Waits
<1>2. CASE Prepare(r) \/ Finish(r) \/ Requeue(r)
  <2>1. UNCHANGED <<rqList, rqs, onWait, run>>
    BY <1>2 DEF Prepare, Finish, Requeue, queueVars, tokenVars
  <2> QED BY <1>1, <2>1, PendingSame, WaitsSame DEF Waits
<1>3. ASSUME NEW atHead \in BOOLEAN, Insert(r, atHead), NEW g \in Hctxs
      PROVE  WaitsAt(g)'
  <2>1. UNCHANGED <<onWait>> /\ run' = run \cup {HctxOf[CtxOf[r]]}
    BY <1>3 DEF Insert, tokenVars
  <2>2. CASE g = HctxOf[CtxOf[r]]
    <3>1. \A d \in Domains : Pending(g, d) => Pending(g, d)'
      BY <1>3, PendingInsert
    <3> QED BY <1>1, <2>1, <2>2, <3>1 DEF WaitsAt, Active, At
  <2>3. CASE g # HctxOf[CtxOf[r]]
    <3>1. \A d \in Domains : Pending(g, d)' <=> Pending(g, d)
      BY <1>3, <2>3, PendingInsert
    <3> QED BY <1>1, <2>1, <3>1, WaitsSame
  <2> QED BY <2>2, <2>3
<1>4. CASE Wake(r)
  <2>1. UNCHANGED <<rqList, rqs>>
    BY <1>4 DEF Wake, queueVars
  <2>2. CASE UNCHANGED <<onWait, run>>
    BY <1>1, <2>1, <2>2, PendingSame, WaitsSame DEF Waits
  <2>3. ASSUME NEW h \in Hctxs, onWait' = [onWait EXCEPT ![h] = @ \ {DomainOf[r]}], run' = run \cup {h},
               NEW g \in Hctxs
        PROVE  WaitsAt(g)'
    <3>1. \A d \in Domains : Pending(g, d)' <=> Pending(g, d)
      BY <2>1, PendingSame
    <3>2. CASE g = h
      <4>1. onWait'[h] = onWait[h] \ {DomainOf[r]}
        BY <2>3 DEF TypeOK, TokenTypes
      <4>2. call'[h].at \in {"flush", "take"} => curDomain'[h] \notin onWait'[h]
        BY <1>1, <4>1 DEF WaitsAt
      <4>3. h \in run' /\ \A d \in onWait'[h] : Pending(h, d)'
        BY <1>1, <2>3, <3>1, <3>2, <4>1 DEF WaitsAt
      <4> QED BY <3>2, <4>2, <4>3 DEF WaitsAt, Active
    <3>3. CASE g # h
      <4>1. onWait'[g] = onWait[g]
        BY <2>3, <3>3 DEF TypeOK, TokenTypes
      <4> QED BY <1>1, <2>3, <3>1, <4>1, WaitsSame
    <3> QED BY <3>2, <3>3
  <2> QED BY <1>4, <2>2, <2>3 DEF Wake, Waits
<1> QED BY <1>2, <1>3, <1>4 DEF RequestStep, Waits

\* The other hardware queues do not notice what a dispatcher does.
LEMMA WaitsOthers ==
  ASSUME TypeOK, Lists, NEW h \in Hctxs, DispatcherStep(h), NEW g \in Hctxs, g # h
  PROVE  /\ onWait'[g] = onWait[g] /\ call'[g] = call[g] /\ curDomain'[g] = curDomain[g]
         /\ g \in run' <=> g \in run
         /\ \A d \in Domains : Pending(g, d)' <=> Pending(g, d)
<1> USE DEF DispatcherStep, Run, Dispatch, Visit, AddToWaitQueue, Retry, LeaveWaitQueue
<1>1. onWait'[g] = onWait[g]
  <2>1. onWait \in [Hctxs -> SUBSET Domains]
    BY DEF TypeOK, TokenTypes
  <2> QED BY <2>1 DEF GetToken, FlushKcq, Take, tokenVars
<1>2. call'[g] = call[g]
  <2>1. call \in [Hctxs -> [at : Positions, visits : 0 .. NumDomains,
                            nr : Nat \cup {NoToken}, flush : SUBSET Ctxs]]
    BY DEF TypeOK, CallTypes
  <2> QED BY <2>1 DEF Goto, NextVisit, GetToken, FlushKcq, Take
<1>3. curDomain'[g] = curDomain[g]
  <2>1. curDomain \in [Hctxs -> Domains]
    BY DEF TypeOK, CallTypes
  <2> QED BY <2>1 DEF NextVisit, GetToken, FlushKcq, Take, batchVars
<1>4. g \in run' <=> g \in run
  BY DEF FlushKcq, Take
<1>5. \A d \in Domains : Pending(g, d)' <=> Pending(g, d)
  <2>1. CASE FlushKcq(h)
    BY <2>1, PendingFlush
  <2>2. CASE Take(h)
    BY <2>2, PendingTake
  <2>3. CASE ~ FlushKcq(h) /\ ~ Take(h)
    <3>1. UNCHANGED <<rqList, rqs>>
      BY <2>3 DEF queueVars
    <3> QED BY <3>1, PendingSame
  <2> QED BY <2>1, <2>2, <2>3
<1> QED BY <1>1, <1>2, <1>3, <1>4, <1>5

LEMMA WaitsDispatcher ==
  ASSUME TypeOK, DispatcherSound, Lists, Waits, NEW h \in Hctxs, DispatcherStep(h)
  PROVE  Waits'
<1> DEFINE d == curDomain[h]
<1>1. /\ d \in Domains /\ WaitsAt(h) /\ onWait[h] \subseteq Domains /\ Covered(h) \subseteq Domains
      /\ \A e \in Domains : Pending(h, e) <=> rqs[h][e] # <<>> \/ Busy(h, e) # {}
  BY PendingSeen DEF TypeOK, TokenTypes, CallTypes, Waits, Covered
<1>2. call \in [Hctxs -> [at : Positions, visits : 0 .. NumDomains,
                          nr : Nat \cup {NoToken}, flush : SUBSET Ctxs]]
  BY DEF TypeOK, CallTypes
<1>3. onWait \in [Hctxs -> SUBSET Domains] /\ curDomain \in [Hctxs -> Domains]
  BY DEF TypeOK, TokenTypes, CallTypes
<1>4. ASSUME UNCHANGED <<rqList, rqs>> PROVE \A e \in Domains : Pending(h, e)' <=> Pending(h, e)
  BY <1>4, PendingSame
<1>5. ASSUME call'[h].at \in {"loop", "hold"}, \A e \in onWait'[h] : Pending(h, e)'
      PROVE  WaitsAt(h)'
  BY <1>5 DEF WaitsAt, Active, At
<1> SUFFICES WaitsAt(h)'
  BY WaitsOthers, WaitsSame DEF Waits, TypeOK, TokenTypes
<1>6. CASE Run(h)
  <2>1. call'[h].at = "loop" /\ UNCHANGED <<rqList, rqs, onWait>>
    BY <1>2, <1>6 DEF Run, Goto, queueVars, tokenVars
  <2> QED BY <1>1, <1>4, <1>5, <2>1 DEF WaitsAt
<1>7. CASE Dispatch(h)
  <2>1. UNCHANGED <<rqList, rqs, onWait, run>>
    BY <1>7 DEF Dispatch, queueVars, tokenVars
  <2>2. CASE ~ HasWork(h)
    <3>1. call'[h].at = "idle"
      BY <1>2, <1>7, <2>2 DEF Dispatch, Goto
    <3>2. \A e \in Domains : ~ Pending(h, e)
      BY <1>1, <2>2 DEF HasWork
    <3>3. onWait'[h] = {} /\ \A e \in Domains : ~ Pending(h, e)'
      BY <1>1, <1>4, <2>1, <3>2 DEF WaitsAt
    <3> QED BY <3>1, <3>3 DEF WaitsAt, At
  <2>3. CASE HasWork(h)
    <3>1. call'[h].at = "visit" /\ call'[h].visits <= 1
      <4>1. CASE batching[h] < BatchSize[curDomain[h]]
        BY <1>2, <1>7, <2>3, <4>1 DEF Dispatch, Idle
      <4>2. CASE ~ batching[h] < BatchSize[curDomain[h]]
        <5>1. NextVisit(h) /\ call[h].visits = 0 /\ NumDomains # 0
          BY <1>7, <2>3, <4>2, KyberAssumption DEF Dispatch, At, DispatcherSound
        <5> QED BY <1>2, <5>1 DEF NextVisit
      <4> QED BY <4>1, <4>2
    <3>2. Covered(h)' = {}
      <4>1. call'[h].visits \in 0 .. NumDomains /\ NumDomains \in Nat
        BY TypeDispatcher, KyberAssumption DEF TypeOK, CallTypes
      <4>2. 1 .. call'[h].visits - 1 = {}
        BY <3>1, <4>1
      <4> QED BY <4>2 DEF Covered
    <3>3. \A e \in onWait'[h] : Pending(h, e)'
      BY <1>1, <1>4, <2>1 DEF WaitsAt
    <3> QED BY <3>1, <3>2, <3>3 DEF WaitsAt, Active, At
  <2> QED BY <2>2, <2>3
<1>8. CASE Visit(h)
  <2>1. UNCHANGED <<rqList, rqs, onWait, run>> /\ call[h].at = "visit"
    BY <1>8 DEF Visit, GetToken, queueVars, tokenVars, At
  <2>2. CASE NextVisit(h) /\ ~ Pending(h, d)
    BY <1>1, <2>1, <2>2, WaitsNext
  <2>3. CASE Goto(h, "check") /\ UNCHANGED batchVars
    <3>1. call'[h].at = "check" /\ Covered(h)' = Covered(h)
      BY <1>2, <2>3 DEF Goto, batchVars, Covered, Behind
    <3> QED BY <1>1, <1>4, <2>1, <3>1 DEF WaitsAt, Active, At
  <2>4. CASE GetToken(h, d)
    <3>1. call'[h].at = "hold"
      BY <1>2, <2>4 DEF GetToken
    <3> QED BY <1>1, <1>4, <1>5, <2>1, <3>1 DEF WaitsAt
  <2> QED BY <1>1, <1>8, <2>2, <2>3, <2>4 DEF Visit
<1>9. CASE AddToWaitQueue(h)
  <2>1. UNCHANGED <<rqList, rqs, run>> /\ call[h].at = "check" /\ Pending(h, d)
    BY <1>1, <1>9 DEF AddToWaitQueue, queueVars, At, Lists, WorkAhead
  <2>2. CASE d \in onWait[h]
    BY <1>1, <1>9, <2>1, <2>2, WaitsNext DEF AddToWaitQueue, tokenVars
  <2>3. CASE d \notin onWait[h]
    <3>1. call'[h].at = "retry" /\ Covered(h)' = Covered(h) /\ curDomain'[h] = d
      BY <1>2, <1>9, <2>3 DEF AddToWaitQueue, Goto, batchVars, Covered, Behind
    <3>2. onWait'[h] = onWait[h] \cup {d}
      BY <1>3, <1>9, <2>3 DEF AddToWaitQueue
    <3>3. \A e \in onWait'[h] : Pending(h, e)'
      BY <1>1, <1>4, <2>1, <3>2 DEF WaitsAt
    <3>4. h \notin run => \A e \in Covered(h) : Pending(h, e)' => e \in onWait'[h]
      BY <1>1, <1>4, <2>1, <3>2 DEF WaitsAt
    <3> QED BY <2>1, <3>1, <3>2, <3>3, <3>4 DEF WaitsAt, Active, At
  <2> QED BY <2>2, <2>3
<1>10. CASE Retry(h)
  <2>1. UNCHANGED <<rqList, rqs, onWait, run>> /\ call[h].at = "retry"
    BY <1>10 DEF Retry, GetToken, queueVars, tokenVars, At
  <2>2. h \in run \/ d \in onWait[h]
    BY <1>1, <2>1 DEF WaitsAt, At
  <2>3. CASE NextVisit(h)
    BY <1>1, <2>1, <2>2, <2>3, WaitsNext
  <2>4. CASE GetToken(h, d)
    <3>1. call'[h].at = "hold"
      BY <1>2, <2>4 DEF GetToken
    <3> QED BY <1>1, <1>4, <1>5, <2>1, <3>1 DEF WaitsAt
  <2> QED BY <1>10, <2>3, <2>4 DEF Retry
<1>11. CASE LeaveWaitQueue(h)
  <2>1. UNCHANGED <<rqList, rqs, run, curDomain>> /\ onWait'[h] = onWait[h] \ {d}
    BY <1>3, <1>11 DEF LeaveWaitQueue, queueVars, batchVars
  <2>2. call'[h].at \in {"flush", "take"}
    BY <1>2, <1>11 DEF LeaveWaitQueue
  <2>3. \A e \in onWait'[h] : Pending(h, e)'
    BY <1>1, <1>4, <2>1 DEF WaitsAt
  <2> QED BY <2>1, <2>2, <2>3 DEF WaitsAt, Active, At
<1>12. CASE FlushKcq(h)
  <2>1. UNCHANGED <<onWait, curDomain>> /\ call[h].at = "flush" /\ call'[h].at \in {"flush", "take"}
    BY <1>2, <1>12 DEF FlushKcq, At, batchVars, tokenVars
  <2>2. \A e \in Domains : Pending(h, e)' <=> Pending(h, e)
    BY <1>12, PendingFlush
  <2> QED BY <1>1, <2>1, <2>2 DEF WaitsAt, Active, At
<1>13. CASE Take(h)
  <2>1. UNCHANGED <<onWait, curDomain>> /\ call[h].at = "take" /\ call'[h].at = "loop"
    BY <1>2, <1>13 DEF Take, At, Idle, tokenVars
  <2>2. \A e \in Domains \ {d} : Pending(h, e)' <=> Pending(h, e)
    BY <1>13, PendingTake
  <2>3. d \notin onWait[h]
    BY <1>1, <2>1 DEF WaitsAt
  <2> QED BY <1>1, <1>5, <2>1, <2>2, <2>3 DEF WaitsAt
<1> QED BY <1>6, <1>7, <1>8, <1>9, <1>10, <1>11, <1>12, <1>13 DEF DispatcherStep

LEMMA WaitsStep == TypeOK /\ DispatcherSound /\ Lists /\ Waits /\ [Next]_vars => Waits'
<1> SUFFICES ASSUME TypeOK, DispatcherSound, Lists, Waits, [Next]_vars PROVE Waits'
  OBVIOUS
<1>1. ASSUME UNCHANGED <<rqList, rqs, onWait, run, call, curDomain>> PROVE Waits'
  <2>1. \A g \in Hctxs : WaitsAt(g) /\ onWait[g] \subseteq Domains
    BY DEF Waits, TypeOK, TokenTypes
  <2> QED BY <1>1, <2>1, PendingSame, WaitsSame DEF Waits
<1>2. ASSUME NEW e \in Domains, Resize(e) PROVE Waits'
  BY <1>1, <1>2 DEF Resize, queueVars, batchVars
<1>3. CASE UNCHANGED vars
  BY <1>1, <1>3 DEF vars, queueVars, batchVars, tokenVars
<1> QED BY <1>2, <1>3, WaitsRequests, WaitsDispatcher DEF Next, RequestStep

\* A hardware queue at rest is on the wait queues of exactly the domains it has
\* requests of: a wake-up can restart it, and one without requests is free.
THEOREM DispatchRest == Spec => []RestsOnlyThrottled
<1>1. Init => TypeOK /\ DispatcherSound /\ Lists /\ Waits
  BY TypeInit, ListsInit, WaitsInit
<1>2. TypeOK /\ DispatcherSound /\ Lists /\ Waits /\ [Next]_vars
        => (TypeOK /\ DispatcherSound /\ Lists /\ Waits)'
  BY TypeStep, ListsStep, WaitsStep
<1>3. Waits => RestsOnlyThrottled
  BY DEF Waits, WaitsAt, RestsOnlyThrottled
<1> QED BY <1>1, <1>2, <1>3, PTL DEF Spec

-----------------------------------------------------------------------------
(* No wake-up is lost.                                                     *)

LEMMA SomebodyInit == ASSUME Init PROVE SomebodyWakes
BY DEF Init, SomebodyWakes, LetGo

\* Nobody lets go of d, and nothing that could wake a sleeper goes away.
LEMMA SomebodyStill ==
  ASSUME NEW d \in Domains, (\E h \in Hctxs : LetGo(h, d)) => Relief(d),
         used[d] # {} => used'[d] # {},
         \A r \in Requests : stage[r] \in {"waking", "rewaking"} => stage'[r] \in {"waking", "rewaking"},
         \A h \in Hctxs : LetGo(h, d)' => LetGo(h, d),
         \A h \in Hctxs : Pending(h, d) /\ ~ LetGo(h, d) => Pending(h, d)'
  PROVE  (\E h \in Hctxs : LetGo(h, d)') => Relief(d)'
BY DEF Relief

\* A hardware queue that is only asked to run lets go of nothing more.
LEMMA LetGoLess ==
  ASSUME NEW g \in Hctxs, NEW d \in Domains,
         call'[g] = call[g], curDomain'[g] = curDomain[g], g \in run => g \in run',
         d \in onWait'[g] => d \in onWait[g]
  PROVE  LetGo(g, d)' => LetGo(g, d)
<1>1. Covered(g)' = Covered(g)
  BY DEF Covered, Behind
<1> QED BY <1>1 DEF LetGo, At

LEMMA SomebodyRequests ==
  ASSUME TypeOK, Owned, Waits, SomebodyWakes, NEW r \in Requests, RequestStep(r)
  PROVE  SomebodyWakes'
<1>1. UNCHANGED <<call, curDomain>>
  BY DEF RequestStep, Prepare, Insert, Finish, Requeue, Wake, batchVars
<1> SUFFICES ASSUME NEW d \in Domains
             PROVE  (\E h \in Hctxs : LetGo(h, d)') => Relief(d)'
  BY DEF SomebodyWakes
<1>2. (\E h \in Hctxs : LetGo(h, d)) => Relief(d)
  BY DEF SomebodyWakes
<1>3. CASE Prepare(r)
  <2>1. UNCHANGED <<rqList, rqs, onWait, used, run>>
    BY <1>3 DEF Prepare, queueVars, tokenVars
  <2>2. \A s \in Requests : stage[s] \in {"waking", "rewaking"} => stage'[s] \in {"waking", "rewaking"}
    BY <1>3 DEF Prepare, TypeOK, RequestTypes
  <2> QED BY <1>1, <1>2, <2>1, <2>2, SomebodyStill, LetGoLess, PendingSame
<1>4. ASSUME NEW atHead \in BOOLEAN, Insert(r, atHead)
      PROVE  (\E h \in Hctxs : LetGo(h, d)') => Relief(d)'
  <2>1. UNCHANGED <<onWait, used>> /\ run \subseteq run'
    BY <1>4 DEF Insert, tokenVars
  <2>2. \A s \in Requests : stage[s] \in {"waking", "rewaking"} => stage'[s] \in {"waking", "rewaking"}
    BY <1>4 DEF Insert, TypeOK, RequestTypes
  <2> QED BY <1>1, <1>2, <1>4, <2>1, <2>2, SomebodyStill, LetGoLess, PendingInsert
<1>5. CASE Finish(r) \/ Requeue(r)
  <2>1. UNCHANGED <<rqList, rqs, onWait, run>>
    BY <1>5 DEF Finish, Requeue, queueVars
  <2>2. \A s \in Requests : stage[s] \in {"waking", "rewaking"} => stage'[s] \in {"waking", "rewaking"}
    BY <1>5 DEF Finish, Requeue, TypeOK, RequestTypes
  <2>3. CASE stage'[r] \in {"waking", "rewaking"} /\ DomainOf[r] = d
    BY <2>3 DEF Relief
  <2>4. CASE ~ (stage'[r] \in {"waking", "rewaking"} /\ DomainOf[r] = d)
    <3>1. used'[d] = used[d]
      BY <1>5, <2>4, RequestPlace DEF Finish, Requeue, TypeOK, TokenTypes, RequestTypes
    <3> QED BY <1>1, <1>2, <2>1, <2>2, <3>1, SomebodyStill, LetGoLess, PendingSame
  <2> QED BY <2>3, <2>4
<1>6. CASE Wake(r)
  <2>1. UNCHANGED <<rqList, rqs, used>>
    BY <1>6 DEF Wake, queueVars
  <2>2. \A s \in Requests : s # r => stage'[s] = stage[s]
    BY <1>6 DEF Wake, TypeOK, RequestTypes
  <2>3. \A g \in Hctxs : LetGo(g, d)' => LetGo(g, d)
    <3>1. run \subseteq run' /\ \A g \in Hctxs : onWait'[g] \subseteq onWait[g]
      BY <1>6 DEF Wake, TypeOK, TokenTypes
    <3> QED BY <1>1, <3>1, LetGoLess
  <2>4. CASE DomainOf[r] # d
    <3>1. (\E s \in Requests : stage[s] \in {"waking", "rewaking"} /\ DomainOf[s] = d)
            => \E s \in Requests : stage'[s] \in {"waking", "rewaking"} /\ DomainOf[s] = d
      BY <2>2, <2>4
    <3> QED BY <1>2, <2>1, <2>3, <3>1, PendingSame DEF Relief
  <2>5. CASE DomainOf[r] = d
    <3>1. CASE \A h \in Hctxs : d \notin onWait[h]
      BY <2>3, <3>1 DEF LetGo
    <3>2. CASE \E h \in Hctxs : d \in onWait[h]
      <4>1. PICK h \in Hctxs : d \in onWait[h] /\ h \in run'
        BY <1>6, <2>5, <3>2 DEF Wake
      <4>2. Pending(h, d)' /\ ~ LetGo(h, d)'
        BY <2>1, <4>1, PendingSame DEF Waits, WaitsAt, LetGo
      <4> QED BY <4>2 DEF Relief
    <3> QED BY <3>1, <3>2
  <2> QED BY <2>4, <2>5
<1> QED BY <1>3, <1>4, <1>5, <1>6 DEF RequestStep

\* Going on, a dispatcher lets go of the domain it visited, and of no other.
LEMMA LetGoNext ==
  ASSUME TypeOK, DispatcherSound, NEW h \in Hctxs, NextVisit(h), UNCHANGED <<onWait, run>>,
         call[h].at \in {"visit", "check", "retry"}, NEW e \in Domains, LetGo(h, e)', e # curDomain[h]
  PROVE  LetGo(h, e)
<1>1. h \notin run /\ e \in onWait[h]
  BY DEF LetGo
<1>2. CASE call[h].visits = NumDomains
  BY <1>1, <1>2, CoveredNext DEF LetGo
<1>3. CASE call[h].visits # NumDomains
  <2>1. call'[h].at = "visit"
    BY <1>3 DEF NextVisit, TypeOK, CallTypes
  <2>2. e \in Covered(h)
    BY <1>3, <2>1, CoveredStep DEF LetGo, At
  <2> QED BY <1>1, <2>2 DEF LetGo
<1> QED BY <1>2, <1>3

\* Without a free token of a domain, all its tokens are in use.
LEMMA NoneFree ==
  ASSUME TypeOK, NEW d \in Domains, FreeTokens(d) = {}
  PROVE  used[d] # {}
<1>1. depth[d] \in Nat /\ depth[d] >= 1
  BY KyberAssumption DEF TypeOK, TokenTypes
<1>2. 0 \in 0 .. depth[d] - 1
  BY <1>1
<1> QED BY <1>2 DEF FreeTokens

LEMMA SomebodyDispatcher ==
  ASSUME TypeOK, DispatcherSound, Lists, Owned, Waits, SomebodyWakes, NEW h \in Hctxs, DispatcherStep(h)
  PROVE  SomebodyWakes'
<1> DEFINE d == curDomain[h]
<1> SUFFICES ASSUME NEW e \in Domains
             PROVE  (\E g \in Hctxs : LetGo(g, e)') => Relief(e)'
  BY DEF SomebodyWakes
<1>1. call \in [Hctxs -> [at : Positions, visits : 0 .. NumDomains,
                          nr : Nat \cup {NoToken}, flush : SUBSET Ctxs]]
      /\ onWait \in [Hctxs -> SUBSET Domains] /\ d \in Domains /\ WaitsAt(h)
  BY DEF TypeOK, TokenTypes, CallTypes, Waits
<1>2. /\ used[e] # {} => used'[e] # {}
      /\ \A r \in Requests : stage[r] \in {"waking", "rewaking"} => stage'[r] \in {"waking", "rewaking"}
      /\ \A g \in Hctxs : g # h => (LetGo(g, e)' => LetGo(g, e))
      /\ \A g \in Hctxs : g # h => (Pending(g, e)' <=> Pending(g, e))
  <2>1. used[e] # {} => used'[e] # {}
    <3>1. used' = used \/ \E n \in FreeTokens(d) : used' = [used EXCEPT ![d] = @ \cup {n}]
      BY DEF DispatcherStep, Run, Dispatch, Visit, AddToWaitQueue, Retry, LeaveWaitQueue, FlushKcq, Take,
         GetToken, tokenVars
    <3>2. used \in [Domains -> SUBSET Nat]
      BY DEF TypeOK, TokenTypes
    <3> QED BY <1>1, <3>1, <3>2
  <2>2. ASSUME NEW r \in Requests, stage[r] \in {"waking", "rewaking"}
        PROVE  stage'[r] \in {"waking", "rewaking"}
    <3>1. CASE Take(h)
      <4> DEFINE q == Head(rqs[h][d])
      <4>1. q \in Range(rqs[h][d]) /\ q \in Requests
        BY <1>1, <3>1, TailOnce DEF Take, TypeOK, QueueTypes, Lists, RequestsFindable, QueuedOnce
      <4>2. stage[q] = "inserted" /\ stage' = [stage EXCEPT ![q] = "inflight"]
        BY <1>1, <3>1, <4>1 DEF Take, Lists, RequestsFindable, QueuedHere
      <4> QED BY <2>2, <4>1, <4>2 DEF TypeOK, RequestTypes
    <3>2. CASE ~ Take(h)
      BY <2>2, <3>2 DEF DispatcherStep, Run, Dispatch, Visit, AddToWaitQueue, Retry, LeaveWaitQueue, FlushKcq,
         requestVars
    <3> QED BY <3>1, <3>2
  <2> QED BY <2>1, <2>2, WaitsOthers, LetGoLess
<1>3. ASSUME LetGo(h, e)' => LetGo(h, e), Pending(h, e) /\ ~ LetGo(h, e) => Pending(h, e)'
      PROVE  (\E g \in Hctxs : LetGo(g, e)') => Relief(e)'
  BY <1>2, <1>3, SomebodyStill DEF SomebodyWakes
<1>4. CASE used[e] # {}
  BY <1>2, <1>4 DEF Relief
<1>5. ASSUME UNCHANGED <<rqList, rqs>> PROVE Pending(h, e)' <=> Pending(h, e)
  BY <1>5, PendingSame
<1>6. ASSUME call'[h].at \in {"loop", "hold", "flush", "take"} PROVE ~ LetGo(h, e)'
  BY <1>6 DEF LetGo, At
<1>7. CASE Run(h)
  BY <1>1, <1>3, <1>5, <1>6, <1>7 DEF Run, Goto, queueVars
<1>8. CASE Dispatch(h)
  <2>1. UNCHANGED <<rqList, rqs, onWait, run>>
    BY <1>8 DEF Dispatch, queueVars, tokenVars
  <2>2. CASE ~ HasWork(h)
    <3>1. ~ Pending(h, e)
      BY <2>2, PendingSeen DEF HasWork
    <3>2. e \notin onWait'[h]
      BY <1>1, <2>1, <3>1 DEF WaitsAt
    <3> QED BY <1>3, <3>1, <3>2 DEF LetGo
  <2>3. CASE HasWork(h)
    <3>1. call'[h].at = "visit" /\ call'[h].visits <= 1
      <4>1. CASE batching[h] < BatchSize[curDomain[h]]
        BY <1>1, <1>8, <2>3, <4>1 DEF Dispatch, Idle
      <4>2. CASE ~ batching[h] < BatchSize[curDomain[h]]
        <5>1. NextVisit(h) /\ call[h].visits = 0 /\ NumDomains # 0
          BY <1>8, <2>3, <4>2, KyberAssumption DEF Dispatch, At, DispatcherSound
        <5> QED BY <1>1, <5>1 DEF NextVisit
      <4> QED BY <4>1, <4>2
    <3>2. Covered(h)' = {}
      <4>1. call'[h].visits \in 0 .. NumDomains /\ NumDomains \in Nat
        BY TypeDispatcher, KyberAssumption DEF TypeOK, CallTypes
      <4>2. 1 .. call'[h].visits - 1 = {}
        BY <3>1, <4>1
      <4> QED BY <4>2 DEF Covered
    <3>3. ~ LetGo(h, e)'
      BY <3>1, <3>2 DEF LetGo, At
    <3> QED BY <1>3, <1>5, <2>1, <3>3
  <2> QED BY <2>2, <2>3
<1>9. CASE Visit(h)
  <2>1. UNCHANGED <<rqList, rqs, onWait, run>> /\ call[h].at = "visit"
    BY <1>9 DEF Visit, GetToken, queueVars, tokenVars, At
  <2>2. CASE NextVisit(h) /\ ~ Pending(h, d)
    <3>1. LetGo(h, e)' => e # d
      BY <1>1, <2>1, <2>2 DEF LetGo, WaitsAt
    <3> QED BY <1>3, <1>5, <2>1, <2>2, <3>1, LetGoNext
  <2>3. CASE Goto(h, "check") /\ UNCHANGED batchVars /\ FreeTokens(d) = {}
    <3>1. call'[h].at = "check" /\ Covered(h)' = Covered(h) /\ curDomain'[h] = d
      BY <1>1, <2>3 DEF Goto, batchVars, Covered, Behind
    <3>2. CASE e = d
      BY <1>4, <2>3, <3>2, NoneFree
    <3>3. CASE e # d
      BY <1>3, <1>5, <2>1, <3>1, <3>3 DEF LetGo, At
    <3> QED BY <3>2, <3>3
  <2>4. CASE GetToken(h, d)
    BY <1>1, <1>3, <1>5, <1>6, <2>1, <2>4 DEF GetToken
  <2> QED BY <1>1, <1>9, <2>2, <2>3, <2>4, PendingSeen DEF Visit
<1>10. CASE AddToWaitQueue(h)
  <2>1. UNCHANGED <<rqList, rqs, run>> /\ call[h].at = "check"
    BY <1>10 DEF AddToWaitQueue, queueVars, At
  <2>2. CASE d \in onWait[h]
    <3>1. NextVisit(h) /\ UNCHANGED onWait
      BY <1>10, <2>2 DEF AddToWaitQueue, tokenVars
    <3>2. LetGo(h, e)' => LetGo(h, e)
      <4>1. CASE e = d
        BY <2>1, <2>2, <3>1, <4>1 DEF LetGo, At
      <4>2. CASE e # d
        BY <2>1, <3>1, <4>2, LetGoNext
      <4> QED BY <4>1, <4>2
    <3> QED BY <1>3, <1>5, <2>1, <3>2
  <2>3. CASE d \notin onWait[h]
    <3>1. call'[h].at = "retry" /\ Covered(h)' = Covered(h) /\ curDomain'[h] = d
      BY <1>1, <1>10, <2>3 DEF AddToWaitQueue, Goto, batchVars, Covered, Behind
    <3>2. onWait'[h] = onWait[h] \cup {d} /\ d \notin Covered(h)
      BY <1>1, <1>10, <2>3, CoveredNext DEF AddToWaitQueue
    <3>3. LetGo(h, e)' => LetGo(h, e)
      BY <2>1, <3>1, <3>2 DEF LetGo, At
    <3> QED BY <1>3, <1>5, <2>1, <3>3
  <2> QED BY <2>2, <2>3
<1>11. CASE Retry(h)
  <2>1. UNCHANGED <<rqList, rqs, onWait, run>> /\ call[h].at = "retry"
    BY <1>11 DEF Retry, GetToken, queueVars, tokenVars, At
  <2>2. CASE NextVisit(h) /\ FreeTokens(d) = {}
    <3>1. CASE e = d
      BY <1>4, <2>2, <3>1, NoneFree
    <3>2. CASE e # d
      BY <1>3, <1>5, <2>1, <2>2, <3>2, LetGoNext
    <3> QED BY <3>1, <3>2
  <2>3. CASE GetToken(h, d)
    BY <1>1, <1>3, <1>5, <1>6, <2>1, <2>3 DEF GetToken
  <2> QED BY <1>11, <2>2, <2>3 DEF Retry
<1>12. CASE LeaveWaitQueue(h)
  BY <1>1, <1>3, <1>5, <1>6, <1>12 DEF LeaveWaitQueue, queueVars
<1>13. CASE FlushKcq(h)
  <2>1. call'[h].at \in {"flush", "take"}
    BY <1>1, <1>13 DEF FlushKcq, At
  <2> QED BY <1>3, <1>6, <1>13, <2>1, PendingFlush
<1>14. CASE Take(h)
  <2>1. call'[h].at = "loop" /\ call[h].at = "take"
    BY <1>1, <1>14 DEF Take, At, Idle
  <2>2. CASE e = d
    <3>1. call[h].nr \in used[d]
      BY <1>1, <2>1 DEF Owned, TokensOwned, Holders, Holds, At
    <3> QED BY <1>4, <2>2, <3>1
  <2>3. CASE e # d
    BY <1>3, <1>6, <1>14, <2>1, <2>3, PendingTake
  <2> QED BY <2>2, <2>3
<1> QED BY <1>7, <1>8, <1>9, <1>10, <1>11, <1>12, <1>13, <1>14 DEF DispatcherStep

LEMMA SomebodyStep ==
  TypeOK /\ DispatcherSound /\ Lists /\ Owned /\ Waits /\ SomebodyWakes /\ [Next]_vars => SomebodyWakes'
<1> SUFFICES ASSUME TypeOK, DispatcherSound, Lists, Owned, Waits, SomebodyWakes, [Next]_vars
             PROVE  SomebodyWakes'
  OBVIOUS
<1>1. ASSUME UNCHANGED <<rqList, rqs, onWait, run, call, curDomain, used, stage>> PROVE SomebodyWakes'
  BY <1>1, SomebodyStill, LetGoLess, PendingSame DEF SomebodyWakes
<1>2. ASSUME NEW e \in Domains, Resize(e) PROVE SomebodyWakes'
  BY <1>1, <1>2 DEF Resize, queueVars, batchVars, requestVars
<1>3. CASE UNCHANGED vars
  BY <1>1, <1>3 DEF vars, queueVars, batchVars, tokenVars, requestVars
<1> QED BY <1>2, <1>3, SomebodyRequests, SomebodyDispatcher DEF Next, RequestStep

LEMMA KyberStart == Init => KyberInv
BY TypeInit, ListsInit, OwnedInit, WaitsInit, SomebodyInit DEF KyberInv

LEMMA KyberStep == KyberInv /\ [Next]_vars => KyberInv'
BY TypeStep, ListsStep, OwnedStep, WaitsStep, SomebodyStep DEF KyberInv

\* The parts hold together in every state that can be reached.
THEOREM DispatchInvariant == Spec => []KyberInv
BY KyberStart, KyberStep, PTL DEF Spec

\* No wake-up is lost: while a hardware queue sleeps for a token of a domain,
\* one is in use and will be cleared, or a wake-up is on its way, or it was
\* given to a hardware queue that still has to act on it.
THEOREM DispatchNoLostWakeup == Spec => []NoLostWakeup
<1>1. KyberInv => NoLostWakeup
  <2> SUFFICES ASSUME KyberInv, NEW d \in Domains, NEW h \in Hctxs,
                      ~ Active(h), d \in onWait[h], Pending(h, d)
               PROVE  \/ used[d] # {}
                      \/ \E r \in Requests : stage[r] \in {"waking", "rewaking"} /\ DomainOf[r] = d
                      \/ \E g \in Hctxs : Active(g) /\ Pending(g, d)
    BY DEF NoLostWakeup
  <2>1. LetGo(h, d)
    BY DEF LetGo, Active
  <2>2. \A g \in Hctxs : Pending(g, d) /\ ~ LetGo(g, d) => Active(g)
    BY DEF KyberInv, Waits, WaitsAt, LetGo, Active
  <2> QED BY <2>1, <2>2 DEF KyberInv, SomebodyWakes, Relief
<1> QED BY <1>1, DispatchInvariant, PTL

LEMMA TokenSet ==
  ASSUME NEW d \in Domains
  PROVE  IsFiniteSet(Tokens(d)) /\ Cardinality(Tokens(d)) = MaxDepth[d] /\ MaxDepth[d] \in Nat \ {0}
<1> DEFINE last == MaxDepth[d] - 1
<1>1. MaxDepth[d] \in Nat \ {0}
  BY KyberAssumption
<1>2. last \in Int /\ ~ (0 > last) /\ last - 0 + 1 = MaxDepth[d]
  BY <1>1
<1> HIDE DEF last
<1>3. IsFiniteSet(0 .. last) /\ Cardinality(0 .. last) = MaxDepth[d]
  BY <1>2, FS_Interval
<1> QED BY <1>1, <1>3 DEF Tokens, last

\* Owners have tokens of their own, other than one a dispatcher holds.
LEMMA OwnersLimited ==
  ASSUME TypeOK, Owned, NEW d \in Domains
  PROVE  /\ IsFiniteSet(Owners(d)) /\ Cardinality(Owners(d)) \in Nat
         /\ Cardinality(Owners(d)) <= MaxDepth[d]
         /\ Holders(d) # {} => Cardinality(Owners(d)) < MaxDepth[d]
<1>1. TokensOwned /\ used[d] \subseteq Tokens(d)
  BY DEF Owned, TypeOK, TokenTypes
<1>2. ASSUME NEW T \in SUBSET Tokens(d), \A r \in Owners(d) : token[r] \in T
      PROVE  IsFiniteSet(Owners(d)) /\ Cardinality(Owners(d)) <= Cardinality(T)
  <2> DEFINE f == [r \in Owners(d) |-> token[r]]
  <2>1. f \in Injection(Owners(d), T)
    <3>1. \A r, s \in Owners(d) : token[r] = token[s] => r = s
      BY <1>1 DEF TokensOwned
    <3> QED BY <1>2, <3>1 DEF Injection, IsInjective
  <2>2. IsFiniteSet(T)
    BY TokenSet, FS_Subset
  <2> QED BY <2>1, <2>2, FS_Injection
<1>3. \A r \in Owners(d) : token[r] \in Tokens(d)
  BY <1>1 DEF TokensOwned
<1>4. IsFiniteSet(Owners(d)) /\ Cardinality(Owners(d)) <= MaxDepth[d]
  BY <1>2, <1>3, TokenSet
<1>5. ASSUME NEW h \in Holders(d)
      PROVE  Cardinality(Owners(d)) < MaxDepth[d]
  <2> DEFINE n == call[h].nr
  <2>1. n \in Tokens(d) /\ \A r \in Owners(d) : token[r] # n
    BY <1>1 DEF TokensOwned
  <2>2. Cardinality(Owners(d)) <= Cardinality(Tokens(d) \ {n})
    BY <1>2, <1>3, <2>1
  <2>3. Cardinality(Tokens(d) \ {n}) = MaxDepth[d] - 1
    BY <2>1, TokenSet, CardLess
  <2> QED BY <1>4, <2>2, <2>3, TokenSet, FS_CardinalityType
<1> QED BY <1>4, <1>5, FS_CardinalityType

\* However the timer moves the depths and however often requests come back,
\* a domain never has more requests in flight than it has tokens.
THEOREM DispatchLimit ==
  Spec => [](\A d \in Domains : IsFiniteSet(Owners(d)) /\ Cardinality(Owners(d)) <= MaxDepth[d])
<1>1. KyberInv => \A d \in Domains : IsFiniteSet(Owners(d)) /\ Cardinality(Owners(d)) <= MaxDepth[d]
  BY OwnersLimited DEF KyberInv
<1> QED BY <1>1, DispatchInvariant, PTL

-----------------------------------------------------------------------------
(* How long a domain waits for its turn: the domains that had theirs since *)
(* its own, and what they may have taken.                                  *)

Since(h, d) == {e \in Domains : Behind(h, e) \in 1 .. Behind(h, d) - 1}
Allowed(S) == SumFunctionOnSet(BatchSize, S)

\* What a domain has seen passing it: nothing if it has no request; as much as
\* those after it may take; and nothing since it has taken something itself.
TurnsAt(h) ==
  \A d \in Domains :
    /\ passed[h][d] > 0 => Pending(h, d)
    /\ d = curDomain[h] => passed[h][d] <= Allowed(Domains \ {d})
    /\ d # curDomain[h] => passed[h][d] <= Allowed(Since(h, d)) + batching[h]
    /\ d = curDomain[h] /\ batching[h] > 0 => passed[h][d] = 0
PassedType == passed \in [Hctxs -> [Domains -> Nat]]

TurnsInv == KyberInv /\ PassedType /\ \A h \in Hctxs : TurnsAt(h)

LEMMA DomainsFinite ==
  /\ IsFiniteSet(Domains) /\ NumDomains \in Nat \ {0} /\ Domains \subseteq Nat
  /\ \A d \in Domains : d < NumDomains
<1>1. NumDomains \in Nat \ {0}
  BY KyberAssumption
<1> DEFINE n == NumDomains - 1
<1>2. n \in Int /\ 0 \in Int
  BY <1>1
<1>3. Domains = 0 .. n
  BY DEF Domains
<1>4. Domains \subseteq Nat /\ \A d \in Domains : d < NumDomains
  BY <1>1 DEF Domains
<1> HIDE DEF n
<1>5. IsFiniteSet(Domains)
  BY <1>2, <1>3, FS_Interval
<1> QED BY <1>1, <1>4, <1>5

LEMMA AllowedSums ==
  ASSUME NEW S \in SUBSET Domains
  PROVE  /\ Allowed(S) \in Nat
         /\ \A x \in S : Allowed(S) = BatchSize[x] + Allowed(S \ {x})
         /\ \A R \in SUBSET S : Allowed(R) <= Allowed(S)
<1>1. IsFiniteSet(S)
  BY DomainsFinite, FS_Subset
<1>2. \A x \in S : BatchSize[x] \in Nat
  BY KyberAssumption
<1>3. \A x \in S : BatchSize[x] \in Int
  BY <1>2
<1> QED BY <1>1, <1>2, <1>3, SumNat, SumRemove, SumMonotone DEF Allowed

\* One more domain has had its turn.
LEMMA AllowedMore ==
  ASSUME NEW S \in SUBSET Domains, NEW x \in Domains, x \notin S
  PROVE  Allowed(S \cup {x}) = Allowed(S) + BatchSize[x]
<1>1. S \cup {x} \in SUBSET Domains /\ (S \cup {x}) \ {x} = S
  OBVIOUS
<1>2. Allowed(S \cup {x}) = BatchSize[x] + Allowed(S)
  BY <1>1, AllowedSums
<1>3. Allowed(S) \in Nat /\ BatchSize[x] \in Nat
  BY AllowedSums, KyberAssumption
<1> QED BY <1>2, <1>3

LEMMA StarvationBound ==
  ASSUME TurnsInv, NEW h \in Hctxs, NEW d \in Domains
  PROVE  passed[h][d] <= Allowed(Domains \ {d})
<1>1. /\ curDomain[h] \in Domains /\ batching[h] \in Nat
      /\ batching[h] <= BatchSize[curDomain[h]] /\ passed[h][d] \in Nat
      /\ BatchSize[curDomain[h]] \in Nat
  BY KyberAssumption DEF TurnsInv, KyberInv, TypeOK, CallTypes, PassedType
<1>2. CASE d = curDomain[h]
  BY <1>2 DEF TurnsInv, TurnsAt
<1>3. CASE d # curDomain[h]
  <2>1. passed[h][d] <= Allowed(Since(h, d)) + batching[h]
    BY <1>3 DEF TurnsInv, TurnsAt
  <2>2. /\ Since(h, d) \in SUBSET Domains /\ curDomain[h] \notin Since(h, d)
        /\ Since(h, d) \cup {curDomain[h]} \in SUBSET (Domains \ {d})
    <3>1. Behind(h, curDomain[h]) = 0 /\ Behind(h, d) \in Nat
      <4>1. /\ d \in Nat /\ curDomain[h] \in Nat /\ NumDomains \in Nat
            /\ d < NumDomains /\ curDomain[h] < NumDomains
        BY <1>1, DomainsFinite
      <4> QED BY <4>1 DEF Behind
    <3> QED BY <1>1, <1>3, <3>1 DEF Since
  <2>3. Allowed(Since(h, d) \cup {curDomain[h]}) = Allowed(Since(h, d)) + BatchSize[curDomain[h]]
    BY <1>1, <2>2, AllowedMore
  <2>4. Allowed(Since(h, d) \cup {curDomain[h]}) <= Allowed(Domains \ {d})
    <3>1. Domains \ {d} \in SUBSET Domains
      OBVIOUS
    <3> QED BY <2>2, <3>1, AllowedSums
  <2>5. /\ Allowed(Since(h, d)) \in Nat /\ Allowed(Domains \ {d}) \in Nat
        /\ Allowed(Since(h, d) \cup {curDomain[h]}) \in Nat
    BY <1>1, <2>2, AllowedSums
  <2> QED BY <1>1, <2>1, <2>3, <2>4, <2>5
<1> QED BY <1>2, <1>3

\* What one hardware queue has counted, if its dispatcher stays at its domain
\* and takes nothing.
LEMMA TurnsKept ==
  ASSUME TurnsInv, PassedType', NEW h \in Hctxs,
         curDomain'[h] = curDomain[h], batching'[h] = batching[h],
         \A d \in Domains : passed'[h][d] = passed[h][d] \/ passed'[h][d] = 0,
         \A d \in Domains : Pending(h, d) => Pending(h, d)'
  PROVE  TurnsAt(h)'
<1>1. curDomain[h] \in Domains /\ batching[h] \in Nat /\ TurnsAt(h)
  BY DEF TurnsInv, KyberInv, TypeOK, CallTypes
<1>2. ASSUME NEW d \in Domains
      PROVE  /\ passed'[h][d] > 0 => Pending(h, d)'
             /\ d = curDomain'[h] => passed'[h][d] <= Allowed(Domains \ {d})'
             /\ d # curDomain'[h] => passed'[h][d] <= Allowed(Since(h, d))' + batching'[h]
             /\ d = curDomain'[h] /\ batching'[h] > 0 => passed'[h][d] = 0
  <2>1. /\ passed[h][d] > 0 => Pending(h, d)
        /\ d = curDomain[h] => passed[h][d] <= Allowed(Domains \ {d})
        /\ d # curDomain[h] => passed[h][d] <= Allowed(Since(h, d)) + batching[h]
        /\ d = curDomain[h] /\ batching[h] > 0 => passed[h][d] = 0
    BY <1>1 DEF TurnsAt
  <2>2. Allowed(Domains \ {d})' = Allowed(Domains \ {d}) /\ Allowed(Since(h, d))' = Allowed(Since(h, d))
    BY DEF Allowed, Since, Behind
  <2>3. Allowed(Domains \ {d}) \in Nat /\ Allowed(Since(h, d)) \in Nat
    <3>1. Domains \ {d} \in SUBSET Domains /\ Since(h, d) \in SUBSET Domains
      BY DEF Since
    <3> QED BY <3>1, AllowedSums
  <2>4. passed'[h][d] \in Nat /\ passed[h][d] \in Nat
    BY DEF TurnsInv, PassedType
  <2>5. CASE passed'[h][d] = passed[h][d]
    BY <2>1, <2>2, <2>5
  <2>6. CASE passed'[h][d] = 0
    BY <1>1, <2>2, <2>3, <2>6
  <2> QED BY <2>5, <2>6
<1> QED BY <1>2 DEF TurnsAt

\* Going on to the next domain, when the one that is left has been served, or
\* has nothing, or waits for a token.
LEMMA TurnsMoved ==
  ASSUME TurnsInv, PassedType', NEW h \in Hctxs,
         curDomain'[h] = NextDomain(curDomain[h]), batching'[h] = 0,
         \A d \in Domains : passed'[h][d] = passed[h][d] \/ passed'[h][d] = 0,
         passed'[h][curDomain[h]] = 0,
         \A d \in Domains : Pending(h, d) => Pending(h, d)'
  PROVE  TurnsAt(h)'
<1>1. /\ curDomain[h] \in Domains /\ batching[h] \in Nat /\ TurnsAt(h)
      /\ batching[h] <= BatchSize[curDomain[h]] /\ BatchSize[curDomain[h]] \in Nat
  BY KyberAssumption DEF TurnsInv, KyberInv, TypeOK, CallTypes
<1>2. /\ NumDomains \in Nat \ {0} /\ curDomain[h] \in 0 .. NumDomains - 1
      /\ curDomain'[h] = IF curDomain[h] = NumDomains - 1 THEN 0 ELSE curDomain[h] + 1
  BY <1>1, DomainsFinite DEF NextDomain, Domains
<1>3. ASSUME NEW d \in Domains
      PROVE  /\ passed'[h][d] > 0 => Pending(h, d)'
             /\ d = curDomain'[h] => passed'[h][d] <= Allowed(Domains \ {d})'
             /\ d # curDomain'[h] => passed'[h][d] <= Allowed(Since(h, d))' + batching'[h]
             /\ d = curDomain'[h] /\ batching'[h] > 0 => passed'[h][d] = 0
  <2>1. /\ passed[h][d] > 0 => Pending(h, d)
        /\ passed[h][d] <= Allowed(Domains \ {d})
        /\ d # curDomain[h] => passed[h][d] <= Allowed(Since(h, d)) + batching[h]
    BY <1>1, StarvationBound DEF TurnsAt
  <2>2. passed'[h][d] \in Nat /\ passed[h][d] \in Nat
    BY DEF TurnsInv, PassedType
  <2>3. Allowed(Domains \ {d})' = Allowed(Domains \ {d}) /\ Allowed(Domains \ {d}) \in Nat
    <3>1. Domains \ {d} \in SUBSET Domains
      OBVIOUS
    <3> QED BY <3>1, AllowedSums DEF Allowed
  <2> DEFINE after == {e \in Domains : Behind(h, e)' \in 1 .. Behind(h, d)' - 1}
  <2>4. Allowed(Since(h, d))' = Allowed(after) /\ Allowed(after) \in Nat
    <3>1. after \in SUBSET Domains
      OBVIOUS
    <3>2. Since(h, d)' = after
      BY DEF Since
    <3> QED BY <3>1, <3>2, AllowedSums DEF Allowed
  <2>5. ASSUME d # curDomain[h], d # curDomain'[h]
        PROVE  passed[h][d] <= Allowed(after)
    <3>1. \A e \in Domains : e \in 0 .. NumDomains - 1
      BY DEF Domains
    <3>2. ASSUME NEW e \in Domains, e # curDomain'[h]
          PROVE  Behind(h, e)' = Behind(h, e) + 1 /\ Behind(h, e) \in Nat
      BY <1>2, <3>1, <3>2 DEF Behind
    <3>3. ASSUME NEW e \in Domains, e = curDomain'[h]
          PROVE  Behind(h, e)' = 0 /\ Behind(h, e) = NumDomains - 1
      <4>1. Behind(h, e)' = 0
        BY <3>1, <3>3 DEF Behind
      <4>2. CASE curDomain[h] = NumDomains - 1
        BY <1>2, <3>3, <4>1, <4>2 DEF Behind
      <4>3. CASE curDomain[h] # NumDomains - 1
        BY <1>2, <3>3, <4>1, <4>3 DEF Behind
      <4> QED BY <4>2, <4>3
    <3>4. Behind(h, curDomain[h]) = 0 /\ Behind(h, d) # 0 /\ Behind(h, d) <= NumDomains - 1
      BY <1>2, <2>5, <3>1 DEF Behind
    <3>5. ASSUME NEW e \in Domains
          PROVE  e \in after <=> e \in Since(h, d) \cup {curDomain[h]}
      <4>1. Behind(h, d)' = Behind(h, d) + 1 /\ Behind(h, d) \in Nat
        BY <2>5, <3>2
      <4>2. CASE e = curDomain'[h]
        <5>1. Behind(h, e)' = 0 /\ e \notin after
          BY <4>2, <3>3
        <5>2. e \notin Since(h, d)
          BY <4>1, <4>2, <3>3, <3>4, <1>2 DEF Since
        <5>3. e # curDomain[h]
          BY <1>2, <2>5, <4>2, <3>1
        <5> QED BY <5>1, <5>2, <5>3
      <4>3. CASE e # curDomain'[h]
        <5>1. Behind(h, e)' = Behind(h, e) + 1 /\ Behind(h, e) \in Nat
          BY <4>3, <3>2
        <5>2. e \in after <=> Behind(h, e) <= Behind(h, d) - 1
          BY <4>1, <5>1
        <5>3. e = curDomain[h] <=> Behind(h, e) = 0
          BY <1>2, <3>1 DEF Behind
        <5> QED BY <4>1, <5>1, <5>2, <5>3, <3>4 DEF Since
      <4> QED BY <4>2, <4>3
    <3>6. after = Since(h, d) \cup {curDomain[h]}
      BY <3>5, <1>1 DEF Since
    <3>7. Since(h, d) \in SUBSET Domains /\ curDomain[h] \notin Since(h, d)
      BY <3>4 DEF Since
    <3>8. Allowed(after) = Allowed(Since(h, d)) + BatchSize[curDomain[h]]
      BY <1>1, <3>6, <3>7, AllowedMore
    <3>9. Allowed(Since(h, d)) \in Nat
      BY <3>7, AllowedSums
    <3> QED BY <1>1, <2>1, <2>2, <2>5, <3>8, <3>9
  <2> HIDE DEF after
  <2>6. CASE passed'[h][d] = 0
    BY <2>3, <2>4, <2>6
  <2>7. CASE passed'[h][d] = passed[h][d] /\ passed'[h][d] # 0
    <3>1. d # curDomain[h]
      BY <2>7
    <3> QED BY <3>1, <2>1, <2>2, <2>3, <2>4, <2>5, <2>7
  <2> QED BY <2>6, <2>7
<1> QED BY <1>3 DEF TurnsAt

\* A request is taken: every other domain that has some sees it pass.
LEMMA TurnsTaken ==
  ASSUME TurnsInv, PassedType', NEW h \in Hctxs, Take(h), passed'[h] = Count(h)
  PROVE  TurnsAt(h)'
<1>1. curDomain[h] \in Domains /\ batching[h] \in Nat /\ TurnsAt(h) /\ TypeOK
  BY DEF TurnsInv, KyberInv, TypeOK, CallTypes
<1>2. curDomain'[h] = curDomain[h] /\ batching'[h] = batching[h] + 1
  BY <1>1 DEF Take, TypeOK, CallTypes
<1>3. ASSUME NEW d \in Domains
      PROVE  /\ passed'[h][d] > 0 => Pending(h, d)'
             /\ d = curDomain'[h] => passed'[h][d] <= Allowed(Domains \ {d})'
             /\ d # curDomain'[h] => passed'[h][d] <= Allowed(Since(h, d))' + batching'[h]
             /\ d = curDomain'[h] /\ batching'[h] > 0 => passed'[h][d] = 0
  <2>1. d # curDomain[h] => passed[h][d] <= Allowed(Since(h, d)) + batching[h]
    BY <1>1 DEF TurnsAt
  <2>3. passed'[h][d] \in Nat /\ passed[h][d] \in Nat
    BY DEF TurnsInv, PassedType
  <2>2. IF d = curDomain[h] \/ ~ Pending(h, d) THEN passed'[h][d] = 0
        ELSE passed'[h][d] <= passed[h][d] + 1
    BY <2>3 DEF Count
  <2>4. Allowed(Domains \ {d})' = Allowed(Domains \ {d}) /\ Allowed(Since(h, d))' = Allowed(Since(h, d))
    BY <1>2 DEF Allowed, Since, Behind
  <2>5. Allowed(Domains \ {d}) \in Nat /\ Allowed(Since(h, d)) \in Nat
    <3>1. Domains \ {d} \in SUBSET Domains /\ Since(h, d) \in SUBSET Domains
      BY DEF Since
    <3> QED BY <3>1, AllowedSums
  <2>6. CASE d = curDomain[h] \/ ~ Pending(h, d)
    BY <1>1, <1>2, <2>2, <2>4, <2>5, <2>6
  <2>7. CASE d # curDomain[h] /\ Pending(h, d)
    <3>1. Pending(h, d)'
      BY <1>1, <2>7, PendingTake
    <3> QED BY <1>1, <1>2, <2>1, <2>2, <2>3, <2>4, <2>5, <2>7, <3>1
  <2> QED BY <2>6, <2>7
<1> QED BY <1>3 DEF TurnsAt

\* A request that waits still waits after a step, unless it is taken.
LEMMA PendingStays ==
  ASSUME TypeOK, Lists, Next, NEW h \in Hctxs, NEW d \in Domains, Pending(h, d)
  PROVE  Pending(h, d)' \/ (Take(h) /\ d = curDomain[h])
<1>1. CASE \E r \in Requests : RequestStep(r)
  <2>1. PICK r \in Requests : RequestStep(r)
    BY <1>1
  <2>2. CASE \E atHead \in BOOLEAN : Insert(r, atHead)
    BY <2>2, PendingInsert
  <2>3. CASE Prepare(r) \/ Finish(r) \/ Requeue(r) \/ Wake(r)
    <3>1. UNCHANGED <<rqList, rqs>>
      BY <2>3 DEF Prepare, Finish, Requeue, Wake, queueVars
    <3> QED BY <3>1, PendingSame
  <2> QED BY <2>1, <2>2, <2>3 DEF RequestStep
<1>2. CASE \E e \in Domains : Resize(e)
  <2>1. UNCHANGED <<rqList, rqs>>
    BY <1>2 DEF Resize, queueVars
  <2> QED BY <2>1, PendingSame
<1>3. CASE \E g \in Hctxs : DispatcherStep(g)
  <2>1. PICK g \in Hctxs : DispatcherStep(g)
    BY <1>3
  <2>2. CASE FlushKcq(g)
    BY <2>2, PendingFlush
  <2>3. CASE Take(g)
    BY <2>3, PendingTake
  <2>4. CASE ~ FlushKcq(g) /\ ~ Take(g)
    <3>1. UNCHANGED <<rqList, rqs>>
      BY <2>1, <2>4 DEF DispatcherStep, Run, Dispatch, Visit, AddToWaitQueue, Retry, LeaveWaitQueue, queueVars
    <3> QED BY <3>1, PendingSame
  <2> QED BY <2>2, <2>3, <2>4
<1> QED BY <1>1, <1>2, <1>3 DEF Next, RequestStep

\* The history of one hardware queue, whose dispatcher may be the one to step.
Counts(h) ==
  passed'[h] = IF Leaves(h, "take", "take") THEN Count(h)
               ELSE IF Throttled(h) THEN [passed[h] EXCEPT ![curDomain[h]] = 0]
               ELSE passed[h]

LEMMA CountsType ==
  ASSUME TypeOK, PassedType, NEW h \in Hctxs, Counts(h)
  PROVE  passed'[h] \in [Domains -> Nat]
<1>1. passed[h] \in [Domains -> Nat]
  BY DEF PassedType
<1>2. Count(h) \in [Domains -> Nat]
  BY <1>1 DEF Count
<1>3. [passed[h] EXCEPT ![curDomain[h]] = 0] \in [Domains -> Nat]
  BY <1>1
<1> QED BY <1>1, <1>2, <1>3 DEF Counts

LEMMA TurnsOthers ==
  ASSUME TurnsInv, PassedType', NEW h \in Hctxs, Next, Counts(h), ~ DispatcherStep(h)
  PROVE  TurnsAt(h)'
<1>1. TypeOK /\ Lists
  BY DEF TurnsInv, KyberInv
<1>2. call'[h] = call[h] /\ curDomain'[h] = curDomain[h] /\ batching'[h] = batching[h]
  <2>1. CASE \E r \in Requests : RequestStep(r)
    BY <2>1 DEF RequestStep, Prepare, Insert, Finish, Requeue, Wake, batchVars
  <2>2. CASE \E e \in Domains : Resize(e)
    BY <2>2 DEF Resize, batchVars
  <2>3. CASE \E g \in Hctxs : DispatcherStep(g)
    <3>1. PICK g \in Hctxs : DispatcherStep(g) /\ g # h
      BY <2>3
    <3>2. batching \in [Hctxs -> Nat]
      BY <1>1 DEF TypeOK, CallTypes
    <3>3. batching'[h] = batching[h]
      BY <3>1, <3>2 DEF DispatcherStep, Run, Dispatch, Visit, AddToWaitQueue, Retry, LeaveWaitQueue,
            NextVisit, GetToken, FlushKcq, Take, batchVars
    <3> QED BY <1>1, <3>1, <3>3, WaitsOthers
  <2> QED BY <2>1, <2>2, <2>3 DEF Next, RequestStep
<1>3. passed'[h] = passed[h]
  BY <1>2 DEF Counts, Throttled, Leaves, At
<1>4. ~ Take(h)
  BY DEF DispatcherStep
<1>5. \A d \in Domains : Pending(h, d) => Pending(h, d)'
  BY <1>1, <1>4, PendingStays
<1> QED BY <1>2, <1>3, <1>5, TurnsKept

\* Giving a domain up, to go on with the next one or to rest.
LEMMA TurnsNext ==
  ASSUME TurnsInv, PassedType', NEW h \in Hctxs, Next, Counts(h), NextVisit(h),
         call[h].at \in {"loop", "visit", "check", "retry"},
         At(h, "loop") => batching[h] > 0,
         At(h, "visit") => ~ Pending(h, curDomain[h])
  PROVE  TurnsAt(h)'
<1> DEFINE d == curDomain[h]
<1>1. TypeOK /\ Lists /\ d \in Domains /\ TurnsAt(h) /\ passed[h] \in [Domains -> Nat]
  BY DEF TurnsInv, KyberInv, TypeOK, CallTypes, PassedType
<1>2. \A e \in Domains : Pending(h, e) => Pending(h, e)'
  <2>1. ~ Take(h)
    BY DEF Take, At
  <2> QED BY <1>1, <2>1, PendingStays
<1>3. call'[h].at \in {"visit", "idle"}
  BY <1>1 DEF NextVisit, Idle, TypeOK, CallTypes
<1>4. /\ ~ Leaves(h, "take", "take")
      /\ call[h].at \in {"check", "retry"} => Throttled(h)
  BY <1>3 DEF Leaves, Throttled, At
<1>5. \A e \in Domains : passed'[h][e] = passed[h][e] \/ passed'[h][e] = 0
  BY <1>1, <1>4 DEF Counts
<1>6. passed'[h][d] = 0
  <2>1. CASE call[h].at \in {"check", "retry"}
    BY <1>1, <1>4, <2>1 DEF Counts
  <2>2. CASE call[h].at \in {"loop", "visit"}
    <3>1. /\ passed[h][d] > 0 => Pending(h, d)
          /\ batching[h] > 0 => passed[h][d] = 0
          /\ passed[h][d] \in Nat
      BY <1>1 DEF TurnsAt
    <3>2. passed[h][d] = 0
      BY <2>2, <3>1 DEF At
    <3> QED BY <1>1, <1>5, <3>2
  <2> QED BY <2>1, <2>2
<1>7. CASE call[h].visits = NumDomains
  <2>1. curDomain'[h] = d /\ batching'[h] = batching[h]
    BY <1>7 DEF NextVisit, batchVars
  <2> QED BY <1>2, <1>5, <2>1, TurnsKept
<1>8. CASE call[h].visits # NumDomains
  <2>1. curDomain'[h] = NextDomain(d) /\ batching'[h] = 0
    BY <1>8, <1>1 DEF NextVisit, TypeOK, CallTypes
  <2> QED BY <1>2, <1>5, <1>6, <2>1, TurnsMoved
<1> QED BY <1>7, <1>8

LEMMA TurnsOwn ==
  ASSUME TurnsInv, PassedType', NEW h \in Hctxs, Counts(h), DispatcherStep(h)
  PROVE  TurnsAt(h)'
<1> DEFINE d == curDomain[h]
<1>1. /\ TypeOK /\ Lists /\ DispatcherSound /\ d \in Domains /\ passed[h] \in [Domains -> Nat]
      /\ batching[h] \in Nat /\ BatchSize[d] \in Nat \ {0}
      /\ Pending(h, d) <=> rqs[h][d] # <<>> \/ Busy(h, d) # {}
  BY KyberAssumption, PendingSeen DEF TurnsInv, KyberInv, TypeOK, CallTypes, PassedType
<1>2. Next
  BY DEF Next
<1>3. CASE Take(h)
  <2>1. call'[h].at = "loop" /\ call[h].at = "take"
    BY <1>1, <1>3 DEF Take, Idle, At, TypeOK, CallTypes
  <2>2. passed'[h] = Count(h)
    BY <2>1 DEF Counts, Leaves, At
  <2> QED BY <1>3, <2>2, TurnsTaken
<1>4. ASSUME UNCHANGED batchVars, ~ At(h, "take")
      PROVE  TurnsAt(h)'
  <2>1. \A e \in Domains : passed'[h][e] = passed[h][e] \/ passed'[h][e] = 0
    BY <1>1, <1>4 DEF Counts, Leaves
  <2>2. \A e \in Domains : Pending(h, e) => Pending(h, e)'
    BY <1>1, <1>2, <1>4, PendingStays DEF Take
  <2> QED BY <1>4, <2>1, <2>2, TurnsKept DEF batchVars
<1>5. CASE Run(h) \/ LeaveWaitQueue(h) \/ FlushKcq(h)
  BY <1>4, <1>5 DEF Run, LeaveWaitQueue, FlushKcq, At
<1>6. CASE Dispatch(h)
  <2>1. At(h, "loop") /\ (UNCHANGED batchVars \/ (batching[h] > 0 /\ NextVisit(h)))
    BY <1>1, <1>6 DEF Dispatch
  <2> QED BY <1>2, <1>4, <2>1, TurnsNext DEF At
<1>7. CASE Visit(h)
  <2>1. At(h, "visit") /\ (UNCHANGED batchVars \/ (~ Pending(h, d) /\ NextVisit(h)))
    BY <1>1, <1>7 DEF Visit, GetToken
  <2> QED BY <1>2, <1>4, <2>1, TurnsNext DEF At
<1>8. CASE AddToWaitQueue(h) \/ Retry(h)
  <2>1. (At(h, "check") \/ At(h, "retry")) /\ (UNCHANGED batchVars \/ NextVisit(h))
    BY <1>8 DEF AddToWaitQueue, Retry, GetToken
  <2> QED BY <1>2, <1>4, <2>1, TurnsNext DEF At
<1> QED BY <1>3, <1>5, <1>6, <1>7, <1>8 DEF DispatcherStep

LEMMA TurnsInit == ASSUME TurnInit PROVE TurnsInv
<1>1. KyberInv
  BY KyberStart DEF TurnInit
<1>2. PassedType /\ \A h \in Hctxs, d \in Domains : passed[h][d] = 0
  BY DEF TurnInit, PassedType
<1>3. ASSUME NEW h \in Hctxs PROVE TurnsAt(h)
  <2>1. batching[h] = 0
    BY DEF TurnInit, Init
  <2>2. \A d \in Domains : Allowed(Domains \ {d}) \in Nat /\ Allowed(Since(h, d)) \in Nat
    <3>1. \A d \in Domains : Domains \ {d} \in SUBSET Domains /\ Since(h, d) \in SUBSET Domains
      BY DEF Since
    <3> QED BY <3>1, AllowedSums
  <2>3. ASSUME NEW d \in Domains
        PROVE  /\ passed[h][d] = 0 /\ 0 <= Allowed(Domains \ {d})
               /\ 0 <= Allowed(Since(h, d)) + batching[h]
    <3> DEFINE a == Allowed(Domains \ {d})
               b == Allowed(Since(h, d))
    <3>1. a \in Nat /\ b \in Nat
      BY <2>2
    <3> HIDE DEF a, b
    <3>2. 0 <= a /\ 0 <= b + batching[h]
      BY <2>1, <3>1
    <3> QED BY <1>2, <3>2 DEF a, b
  <2>4. \A d \in Domains : ~ passed[h][d] > 0
    BY <1>2
  <2> QED BY <2>3, <2>4 DEF TurnsAt
<1> QED BY <1>1, <1>2, <1>3 DEF TurnsInv

LEMMA TurnsStep == TurnsInv /\ [TurnNext]_<<vars, passed>> => TurnsInv'
<1> SUFFICES ASSUME TurnsInv, [TurnNext]_<<vars, passed>> PROVE TurnsInv'
  OBVIOUS
<1>1. KyberInv'
  BY KyberStep DEF TurnsInv, TurnNext
<1>2. CASE TurnNext
  <2>1. Next /\ \A h \in Hctxs : Counts(h)
    BY <1>2 DEF TurnNext, Counts
  <2>2. PassedType'
    <3>1. \A h \in Hctxs : passed'[h] \in [Domains -> Nat]
      BY <2>1, CountsType DEF TurnsInv, KyberInv
    <3>2. \E f : passed' = [h \in Hctxs |-> f[h]]
      <4> DEFINE f == [h \in Hctxs |->
                         IF Leaves(h, "take", "take") THEN Count(h)
                         ELSE IF Throttled(h) THEN [passed[h] EXCEPT ![curDomain[h]] = 0]
                         ELSE passed[h]]
      <4>1. passed' = [h \in Hctxs |-> f[h]]
        BY <1>2 DEF TurnNext
      <4> HIDE DEF f
      <4> QED BY <4>1
    <3> QED BY <3>1, <3>2 DEF PassedType
  <2>3. \A h \in Hctxs : TurnsAt(h)'
    BY <2>1, <2>2, TurnsOwn, TurnsOthers
  <2> QED BY <1>1, <2>2, <2>3 DEF TurnsInv
<1>3. CASE UNCHANGED <<vars, passed>>
  <2>1. PassedType'
    BY <1>3 DEF TurnsInv, PassedType
  <2>2. ASSUME NEW h \in Hctxs PROVE TurnsAt(h)'
    <3>1. curDomain'[h] = curDomain[h] /\ batching'[h] = batching[h] /\ passed' = passed
      BY <1>3 DEF vars, batchVars
    <3>2. \A d \in Domains : Pending(h, d) => Pending(h, d)'
      BY <1>3, PendingSame DEF vars, queueVars
    <3> QED BY <2>1, <3>1, <3>2, TurnsKept
  <2> QED BY <1>1, <2>1, <2>2 DEF TurnsInv
<1> QED BY <1>2, <1>3

\* Whatever arrives meanwhile, a domain with a request waiting and a token to
\* be had is passed over by at most one batch of each of the others.
THEOREM DispatchStarvesNone == TurnSpec => []NoDomainStarved
<1>1. TurnsInv => NoDomainStarved
  BY StarvationBound DEF NoDomainStarved, OthersTurns, Allowed
<1> QED BY <1>1, TurnsInit, TurnsStep, PTL DEF TurnSpec

-----------------------------------------------------------------------------
(* Picking out the requests of one software queue.                         *)

\* A set of sequences that has the empty one, and with a sequence every one
\* that is one element longer, has them all.
LEMMA SequencesGrow ==
  ASSUME NEW S, NEW T, <<>> \in T, \A s \in Seq(S), e \in S : s \in T => Append(s, e) \in T
  PROVE  Seq(S) \subseteq T
<1> DEFINE Bad == {n \in Nat : \E s \in Seq(S) : Len(s) = n /\ s \notin T}
<1>1. Bad = {}
  <2> SUFFICES ASSUME Bad # {} PROVE FALSE
    OBVIOUS
  <2>1. PICK m \in Bad : \A k \in Bad : ~ (k < m)
    <3>1. Bad \in SUBSET Nat
      OBVIOUS
    <3> HIDE DEF Bad
    <3> QED BY <3>1, NatLeast
  <2>2. PICK s \in Seq(S) : Len(s) = m /\ s \notin T
    BY <2>1
  <2>3. PICK t \in Seq(S), e \in S : s = Append(t, e)
    BY <2>2, SequenceEmptyOrAppend
  <2>4. Len(t) \in Nat /\ Len(t) < m
    BY <2>2, <2>3, AppendProperties, LenProperties
  <2>5. t \in T
    BY <2>1, <2>4
  <2> QED BY <2>2, <2>3, <2>5
<1> QED BY <1>1, LenProperties

LEMMA RangeAppend ==
  ASSUME NEW S, NEW s \in Seq(S), NEW e \in S
  PROVE  Append(s, e) \in Seq(S) /\ Range(Append(s, e)) = Range(s) \cup {e}
<1>1. Append(s, e) \in Seq(S)
  BY AppendProperties
<1>2. Range(Append(s, e)) = Range(s) \cup {e}
  <2> DEFINE o == <<e>>
  <2>1. Append(s, e) = s \o o /\ o \in Seq(S) /\ Range(o) = {e}
    BY AppendIsConcat DEF Range
  <2> HIDE DEF o
  <2> QED BY <2>1, RangeConcatenation
<1> QED BY <1>1, <1>2

LEMMA AppendConcat ==
  ASSUME NEW S, NEW s \in Seq(S), NEW t \in Seq(S), NEW e \in S
  PROVE  Append(s \o t, e) = s \o Append(t, e) /\ s \o t \in Seq(S)
<1> DEFINE w == s \o t
           o == <<e>>
<1>1. w \in Seq(S) /\ o \in Seq(S)
  BY ConcatProperties
<1>2. w \o o = s \o (t \o o)
  <2> HIDE DEF o
  <2> QED BY <1>1, ConcatAssociative
<1>3. Append(t, e) = t \o o
  BY AppendIsConcat
<1>4. Append(w, e) = w \o o
  <2> HIDE DEF w
  <2> QED BY <1>1, AppendIsConcat
<1> HIDE DEF o
<1> QED BY <1>1, <1>2, <1>3, <1>4

\* Taking a sequence apart where it was put together.
LEMMA ConcatParts ==
  ASSUME NEW S, NEW s \in Seq(S), NEW t \in Seq(S)
  PROVE  SubSeq(s \o t, 1, Len(s)) = s /\ SubSeq(s \o t, Len(s) + 1, Len(s \o t)) = t
BY SubSeqOfConcat1, SubSeqOfConcat2, ConcatProperties, LenProperties, SubSeqFull

LEMMA PrefixedHead ==
  ASSUME NEW S, NEW e \in S, NEW s \in Seq(S), NEW t \in Seq(S)
  PROVE  /\ (<<e>> \o s) \o t # <<>> /\ Head((<<e>> \o s) \o t) = e
         /\ Tail((<<e>> \o s) \o t) = s \o t
OBVIOUS

\* The recursion of OfCtx.
Kept(f, c, s, i) ==
  IF i = 0 THEN <<>> ELSE IF CtxOf[s[i]] = c THEN Append(f[i - 1], s[i]) ELSE f[i - 1]
Keeps(f, c, s) == \A i \in 0 .. Len(s) : f[i] = Kept(f, c, s, i)
Keeper(c, s) == CHOOSE f : f = [i \in 0 .. Len(s) |-> Kept(f, c, s, i)]

LEMMA OfCtxUnfold == \A c, s : OfCtx(c, s) = Keeper(c, s)[Len(s)]
BY DEF OfCtx, Keeper, Kept

LEMMA KeptLonger ==
  ASSUME NEW S, NEW s \in Seq(S), NEW e \in S, NEW f, NEW c
  PROVE  Keeps(f, c, Append(s, e)) <=>
           /\ Keeps(f, c, s)
           /\ f[Len(s) + 1] = IF CtxOf[e] = c THEN Append(f[Len(s)], e) ELSE f[Len(s)]
<1>1. /\ Len(Append(s, e)) = Len(s) + 1 /\ Len(s) \in Nat
      /\ \A i \in 1 .. Len(s) : Append(s, e)[i] = s[i]
      /\ Append(s, e)[Len(s) + 1] = e
  BY AppendProperties, LenProperties
<1>2. \A i \in 0 .. Len(s) : Kept(f, c, Append(s, e), i) = Kept(f, c, s, i)
  BY <1>1 DEF Kept
<1>3. Kept(f, c, Append(s, e), Len(s) + 1) = IF CtxOf[e] = c THEN Append(f[Len(s)], e) ELSE f[Len(s)]
  BY <1>1 DEF Kept
<1>4. \A i : i \in 0 .. Len(s) + 1 <=> i \in 0 .. Len(s) \/ i = Len(s) + 1
  BY <1>1
<1> QED BY <1>1, <1>2, <1>3, <1>4 DEF Keeps

LEMMA KeeperKeeps == ASSUME NEW S, NEW c, NEW s \in Seq(S) PROVE Keeps(Keeper(c, s), c, s)
<1> DEFINE T == {t \in Seq(S) : \E f : Keeps(f, c, t)}
<1>1. <<>> \in T
  <2>1. Keeps([i \in {0} |-> <<>>], c, <<>>)
    BY DEF Keeps, Kept
  <2> QED BY <2>1
<1>2. ASSUME NEW t \in Seq(S), NEW e \in S, t \in T PROVE Append(t, e) \in T
  <2>1. PICK f : Keeps(f, c, t)
    BY <1>2
  <2> DEFINE g == [i \in 0 .. Len(t) + 1 |->
                     IF i <= Len(t) THEN f[i]
                     ELSE IF CtxOf[e] = c THEN Append(f[Len(t)], e) ELSE f[Len(t)]]
  <2>2. Len(t) \in Nat
    BY LenProperties
  <2>3. /\ \A i \in 0 .. Len(t) : g[i] = f[i]
        /\ g[Len(t) + 1] = IF CtxOf[e] = c THEN Append(f[Len(t)], e) ELSE f[Len(t)]
    BY <2>2
  <2> HIDE DEF g
  <2>4. Keeps(g, c, t)
    BY <2>1, <2>2, <2>3 DEF Keeps, Kept
  <2>5. Keeps(g, c, Append(t, e))
    BY <2>2, <2>3, <2>4, KeptLonger
  <2> QED BY <2>5, AppendProperties
<1>3. Seq(S) \subseteq T
  <2> HIDE DEF T
  <2> QED BY <1>1, <1>2, SequencesGrow
<1>4. PICK f : Keeps(f, c, s)
  BY <1>3
<1> DEFINE g == [i \in 0 .. Len(s) |-> f[i]]
<1>5. \A i \in 0 .. Len(s) : Kept(g, c, s, i) = Kept(f, c, s, i)
  BY LenProperties DEF Kept
<1>6. g = [i \in 0 .. Len(s) |-> Kept(g, c, s, i)]
  <2>1. \A i \in 0 .. Len(s) : f[i] = Kept(g, c, s, i)
    BY <1>4, <1>5 DEF Keeps
  <2>2. g = [i \in 0 .. Len(s) |-> f[i]]
    OBVIOUS
  <2> HIDE DEF g
  <2> QED BY <2>1, <2>2
<1>7. Keeper(c, s) = [i \in 0 .. Len(s) |-> Kept(Keeper(c, s), c, s, i)]
  <2> HIDE DEF g
  <2> QED BY <1>6 DEF Keeper
<1> QED BY <1>7 DEF Keeps

LEMMA KeptUnique ==
  ASSUME NEW S, NEW c, NEW s \in Seq(S), NEW f, NEW g, Keeps(f, c, s), Keeps(g, c, s)
  PROVE  f[Len(s)] = g[Len(s)]
<1> DEFINE T == {t \in Seq(S) : Keeps(f, c, t) /\ Keeps(g, c, t) => f[Len(t)] = g[Len(t)]}
<1>1. <<>> \in T
  BY DEF Keeps, Kept
<1>2. ASSUME NEW t \in Seq(S), NEW e \in S, t \in T PROVE Append(t, e) \in T
  <2>1. Len(Append(t, e)) = Len(t) + 1 /\ Append(t, e) \in Seq(S)
    BY AppendProperties
  <2> QED BY <1>2, <2>1, KeptLonger
<1>3. Seq(S) \subseteq T
  <2> HIDE DEF T
  <2> QED BY <1>1, <1>2, SequencesGrow
<1> QED BY <1>3

LEMMA OfCtxAppend ==
  ASSUME NEW S, NEW c, NEW s \in Seq(S), NEW e \in S
  PROVE  OfCtx(c, Append(s, e)) = IF CtxOf[e] = c THEN Append(OfCtx(c, s), e) ELSE OfCtx(c, s)
<1> DEFINE f == Keeper(c, Append(s, e))
<1>1. Append(s, e) \in Seq(S) /\ Len(Append(s, e)) = Len(s) + 1
  BY AppendProperties
<1>2. Keeps(f, c, Append(s, e)) /\ Keeps(Keeper(c, s), c, s)
  BY <1>1, KeeperKeeps
<1> HIDE DEF f
<1>3. /\ Keeps(f, c, s)
      /\ f[Len(s) + 1] = IF CtxOf[e] = c THEN Append(f[Len(s)], e) ELSE f[Len(s)]
  BY <1>2, KeptLonger
<1>4. f[Len(s)] = Keeper(c, s)[Len(s)]
  BY <1>2, <1>3, KeptUnique
<1>5. OfCtx(c, Append(s, e)) = f[Len(s) + 1] /\ OfCtx(c, s) = f[Len(s)]
  BY <1>1, <1>4, OfCtxUnfold DEF f
<1> QED BY <1>3, <1>5

LEMMA OfCtxEmpty == \A c : OfCtx(c, <<>>) = <<>>
<1> TAKE c
<1>1. <<>> \in Seq({}) /\ Len(<<>>) = 0
  BY EmptySeq
<1>2. Keeps(Keeper(c, <<>>), c, <<>>)
  BY <1>1, KeeperKeeps
<1> QED BY <1>1, <1>2, OfCtxUnfold DEF Keeps, Kept

\* It has the requests of that software queue and no others.
LEMMA OfCtxRange ==
  ASSUME NEW S, NEW c, NEW s \in Seq(S)
  PROVE  /\ OfCtx(c, s) \in Seq(S)
         /\ \A r \in Range(OfCtx(c, s)) : r \in Range(s) /\ CtxOf[r] = c
<1> DEFINE T == {t \in Seq(S) : /\ OfCtx(c, t) \in Seq(S)
                                /\ \A r \in Range(OfCtx(c, t)) : r \in Range(t) /\ CtxOf[r] = c}
<1>1. <<>> \in T
  BY OfCtxEmpty, EmptySeq, EmptyOnce
<1>2. ASSUME NEW t \in Seq(S), NEW e \in S, t \in T PROVE Append(t, e) \in T
  <2>1. \A u \in Seq(S) : Append(u, e) \in Seq(S) /\ Range(Append(u, e)) = Range(u) \cup {e}
    BY RangeAppend
  <2>2. OfCtx(c, Append(t, e)) = IF CtxOf[e] = c THEN Append(OfCtx(c, t), e) ELSE OfCtx(c, t)
    BY OfCtxAppend
  <2>3. Append(t, e) \in Seq(S) /\ OfCtx(c, Append(t, e)) \in Seq(S)
    BY <1>2, <2>1, <2>2
  <2>4. ASSUME NEW r \in Range(OfCtx(c, Append(t, e)))
        PROVE  r \in Range(Append(t, e)) /\ CtxOf[r] = c
    <3>1. r \in Range(OfCtx(c, t)) \/ (r = e /\ CtxOf[e] = c)
      BY <1>2, <2>1, <2>2, <2>4
    <3> QED BY <1>2, <2>1, <3>1
  <2> QED BY <2>3, <2>4
<1>3. Seq(S) \subseteq T
  <2> HIDE DEF T
  <2> QED BY <1>1, <1>2, SequencesGrow
<1> QED BY <1>3

LEMMA OfCtxConcat ==
  ASSUME NEW S, NEW c, NEW s \in Seq(S), NEW t \in Seq(S)
  PROVE  OfCtx(c, s \o t) = OfCtx(c, s) \o OfCtx(c, t)
<1> DEFINE T == {u \in Seq(S) : OfCtx(c, s \o u) = OfCtx(c, s) \o OfCtx(c, u)}
<1>1. <<>> \in T
  <2>1. OfCtx(c, s) \in Seq(S)
    BY OfCtxRange
  <2> QED BY <2>1, OfCtxEmpty, EmptySeq, ConcatEmptySeq
<1>2. ASSUME NEW u \in Seq(S), NEW e \in S, u \in T PROVE Append(u, e) \in T
  <2>0. \A v, w \in Seq(S) : Append(v \o w, e) = v \o Append(w, e) /\ v \o w \in Seq(S)
    BY AppendConcat
  <2>1. OfCtx(c, s) \in Seq(S) /\ OfCtx(c, u) \in Seq(S)
    BY OfCtxRange
  <2>2. /\ OfCtx(c, Append(s \o u, e)) =
             IF CtxOf[e] = c THEN Append(OfCtx(c, s \o u), e) ELSE OfCtx(c, s \o u)
        /\ OfCtx(c, Append(u, e)) = IF CtxOf[e] = c THEN Append(OfCtx(c, u), e) ELSE OfCtx(c, u)
    <3> DEFINE w == s \o u
    <3>1. w \in Seq(S)
      BY <2>0
    <3> HIDE DEF w
    <3>2. OfCtx(c, Append(w, e)) = IF CtxOf[e] = c THEN Append(OfCtx(c, w), e) ELSE OfCtx(c, w)
      BY <3>1, OfCtxAppend
    <3>3. OfCtx(c, Append(u, e)) = IF CtxOf[e] = c THEN Append(OfCtx(c, u), e) ELSE OfCtx(c, u)
      BY OfCtxAppend
    <3> QED BY <3>2, <3>3 DEF w
  <2>3. OfCtx(c, s \o u) = OfCtx(c, s) \o OfCtx(c, u)
    BY <1>2
  <2>4. s \o Append(u, e) = Append(s \o u, e) /\ Append(u, e) \in Seq(S)
    BY <2>0, AppendProperties
  <2>5. OfCtx(c, s \o Append(u, e)) = OfCtx(c, s) \o OfCtx(c, Append(u, e))
    <3>1. OfCtx(c, s \o Append(u, e)) =
            IF CtxOf[e] = c THEN Append(OfCtx(c, s) \o OfCtx(c, u), e)
            ELSE OfCtx(c, s) \o OfCtx(c, u)
      BY <2>2, <2>3, <2>4
    <3>2. Append(OfCtx(c, s) \o OfCtx(c, u), e) = OfCtx(c, s) \o Append(OfCtx(c, u), e)
      BY <2>0, <2>1
    <3> QED BY <3>1, <3>2, <2>2
  <2> QED BY <2>4, <2>5
<1>3. Seq(S) \subseteq T
  <2> HIDE DEF T
  <2> QED BY <1>1, <1>2, SequencesGrow
<1> QED BY <1>3

\* Where all requests are of one software queue, it picks all or none.
LEMMA OfCtxUniform ==
  ASSUME NEW S, NEW c, NEW b, \A r \in S : CtxOf[r] = b, NEW s \in Seq(S)
  PROVE  OfCtx(c, s) = IF c = b THEN s ELSE <<>>
<1> DEFINE T == {t \in Seq(S) : OfCtx(c, t) = IF c = b THEN t ELSE <<>>}
<1>1. <<>> \in T
  BY OfCtxEmpty, EmptySeq
<1>2. ASSUME NEW t \in Seq(S), NEW e \in S, t \in T PROVE Append(t, e) \in T
  BY <1>2, OfCtxAppend, AppendProperties
<1>3. Seq(S) \subseteq T
  <2> HIDE DEF T
  <2> QED BY <1>1, <1>2, SequencesGrow
<1> QED BY <1>3

LEMMA OfCtxHead ==
  ASSUME NEW S, NEW s \in Seq(S), s # <<>>, NEW k
  PROVE  OfCtx(k, s) = IF k = CtxOf[Head(s)] THEN <<Head(s)>> \o OfCtx(k, Tail(s)) ELSE OfCtx(k, Tail(s))
<1> DEFINE r == Head(s)
           o == <<r>>
           t == Tail(s)
<1>1. r \in S /\ t \in Seq(S) /\ o \in Seq(S) /\ s = o \o t
  BY HeadTailProperties
<1>2. OfCtx(k, o) = IF k = CtxOf[r] THEN o ELSE <<>>
  <2> DEFINE R == {r}
  <2>1. o \in Seq(R) /\ \A e \in R : CtxOf[e] = CtxOf[r]
    OBVIOUS
  <2> HIDE DEF o, R, r
  <2> QED BY <2>1, OfCtxUniform
<1>3. OfCtx(k, t) \in Seq(S)
  BY <1>1, OfCtxRange
<1> HIDE DEF o, r, t
<1>4. OfCtx(k, s) = OfCtx(k, o) \o OfCtx(k, t)
  BY <1>1, OfCtxConcat
<1>5. OfCtx(k, s) = IF k = CtxOf[r] THEN o \o OfCtx(k, t) ELSE OfCtx(k, t)
  BY <1>2, <1>3, <1>4, ConcatEmptySeq
<1> QED BY <1>5 DEF o, r, t

-----------------------------------------------------------------------------
(* The streams of KyberStreams.                                            *)

\* A list of a software queue has requests of no other.
LEMMA ListsOf ==
  ASSUME TypeOK, Lists, NEW c \in Ctxs, NEW d \in Domains
  PROVE  /\ rqList[c][d] \in Seq(Requests) /\ rqs[HctxOf[c]][d] \in Seq(Requests)
         /\ \A k : OfCtx(k, rqList[c][d]) = IF k = c THEN rqList[c][d] ELSE <<>>
         /\ OfCtx(c, rqs[HctxOf[c]][d]) \in Seq(Requests)
         /\ Stream[c][d] = OfCtx(c, rqs[HctxOf[c]][d]) \o rqList[c][d]
         /\ Stream[c][d] \in Seq(Requests)
<1>1. rqList[c][d] \in Seq(Requests) /\ rqs[HctxOf[c]][d] \in Seq(Requests)
  BY KyberAssumption DEF TypeOK, QueueTypes
<1>2. \A k : OfCtx(k, rqList[c][d]) = IF k = c THEN rqList[c][d] ELSE <<>>
  <2> DEFINE S == Range(rqList[c][d])
  <2>1. rqList[c][d] \in Seq(S)
    BY <1>1, SeqOfRange
  <2>2. \A r \in S : CtxOf[r] = c
    BY DEF Lists, RequestsFindable, QueuedHere
  <2> HIDE DEF S
  <2> QED BY <2>1, <2>2, OfCtxUniform
<1>3. OfCtx(c, rqs[HctxOf[c]][d]) \in Seq(Requests)
  BY <1>1, OfCtxRange
<1>4. Stream[c][d] = OfCtx(c, rqs[HctxOf[c]][d]) \o rqList[c][d]
  BY DEF Stream
<1> QED BY <1>1, <1>2, <1>3, <1>4, ConcatProperties

\* What waits in a stream was inserted and is not in flight.
LEMMA StreamInserted ==
  ASSUME TypeOK, Lists, NEW c \in Ctxs, NEW d \in Domains, NEW r \in Range(Stream[c][d])
  PROVE  stage[r] = "inserted" /\ DomainOf[r] = d /\ CtxOf[r] = c
<1> DEFINE a == OfCtx(c, rqs[HctxOf[c]][d])
           b == rqList[c][d]
<1>1. a \in Seq(Requests) /\ b \in Seq(Requests) /\ Stream[c][d] = a \o b
  BY ListsOf
<1>2. HctxOf[c] \in Hctxs /\ rqs[HctxOf[c]][d] \in Seq(Requests)
  BY KyberAssumption, ListsOf
<1>3. ASSUME r \in Range(a) PROVE r \in Range(rqs[HctxOf[c]][d]) /\ CtxOf[r] = c
  BY <1>2, <1>3, OfCtxRange
<1> HIDE DEF a
<1>4. r \in Range(a) \/ r \in Range(b)
  BY <1>1, RangeConcatenation
<1> QED BY <1>2, <1>3, <1>4 DEF Lists, RequestsFindable, QueuedHere

LEMMA StreamChange ==
  ASSUME NEW c \in Ctxs, NEW d \in Domains, NEW s, Stream'[c][d] = s,
         \A k \in Ctxs, e \in Domains : k # c \/ e # d => Stream'[k][e] = Stream[k][e]
  PROVE  Stream' = [Stream EXCEPT ![c][d] = s]
<1> DEFINE f == Stream
           g == Stream'
<1>1. /\ f = [k \in Ctxs |-> [e \in Domains |-> f[k][e]]]
      /\ g = [k \in Ctxs |-> [e \in Domains |-> g[k][e]]]
  BY DEF Stream
<1>2. /\ g[c][d] = s
      /\ \A k \in Ctxs, e \in Domains : k # c \/ e # d => g[k][e] = f[k][e]
  OBVIOUS
<1> HIDE DEF f, g
<1>3. \A k \in Ctxs : k # c => g[k] = f[k]
  <2> SUFFICES ASSUME NEW k \in Ctxs, k # c PROVE g[k] = f[k]
    OBVIOUS
  <2>1. g[k] = [e \in Domains |-> g[k][e]] /\ f[k] = [e \in Domains |-> f[k][e]]
    BY <1>1
  <2> QED BY <1>2, <2>1
<1>4. g[c] = [f[c] EXCEPT ![d] = s]
  <2>1. g[c] = [e \in Domains |-> g[c][e]] /\ f[c] = [e \in Domains |-> f[c][e]]
    BY <1>1
  <2> QED BY <1>2, <2>1
<1>5. g = [f EXCEPT ![c][d] = s]
  BY <1>1, <1>3, <1>4
<1> QED BY <1>5 DEF f, g

LEMMA StreamSame ==
  ASSUME \A c \in Ctxs, d \in Domains : Stream'[c][d] = Stream[c][d]
  PROVE  Stream' = Stream
BY DEF Stream

LEMMA StreamUnchanged == ASSUME UNCHANGED <<rqList, rqs>> PROVE Stream' = Stream
BY DEF Stream

\* A step that leaves the lists alone may at most take a request out of flight.
LEMMA StreamRequests ==
  ASSUME TypeOK, Lists, NEW r \in Requests,
         Prepare(r) \/ Finish(r) \/ Requeue(r) \/ Wake(r)
  PROVE  (UNCHANGED <<Stream, Inflight>>) \/ Promise!Complete(r)
<1>1. Stream' = Stream
  <2>1. UNCHANGED <<rqList, rqs>>
    BY DEF Prepare, Finish, Requeue, Wake, queueVars
  <2> QED BY <2>1, StreamUnchanged
<1>2. PICK s : s # "inflight" /\ stage' = [stage EXCEPT ![r] = s]
  BY DEF Prepare, Finish, Requeue, Wake, Woken
<1>3. stage \in [Requests -> Stages]
  BY DEF TypeOK, RequestTypes
<1>4. Inflight' = Inflight \ {r}
  BY <1>2, <1>3 DEF Inflight
<1>5. CASE r \in Inflight
  BY <1>1, <1>4, <1>5 DEF Promise!Complete
<1>6. CASE r \notin Inflight
  BY <1>1, <1>4, <1>6
<1> QED BY <1>5, <1>6

\* An inserted request joins its stream at the end, or in front of the part
\* that was not flushed.
LEMMA StreamInsert ==
  ASSUME TypeOK, TypeOK', Lists, Lists', NEW r \in Requests, NEW atHead \in BOOLEAN, Insert(r, atHead)
  PROVE  Promise!Submit(r) \/ Promise!SubmitUrgent(r)
<1> DEFINE c == CtxOf[r]
           d == DomainOf[r]
           a == OfCtx(c, rqs[HctxOf[c]][d])
           b == rqList[c][d]
<1>1. c \in Ctxs /\ d \in Domains
  BY RequestPlace
<1>2. a \in Seq(Requests) /\ b \in Seq(Requests) /\ Stream[c][d] = a \o b
  BY <1>1, ListsOf
<1>3. /\ rqs' = rqs
      /\ \A k \in Ctxs, e \in Domains :
           rqList'[k][e] = IF k # c \/ e # d THEN rqList[k][e] ELSE IF atHead THEN <<r>> \o b ELSE Append(b, r)
  BY <1>1 DEF Insert, TypeOK, QueueTypes
<1>4. ASSUME NEW s, Stream'[c][d] = s PROVE Stream' = [Stream EXCEPT ![c][d] = s]
  <2>1. \A k \in Ctxs, e \in Domains : k # c \/ e # d => Stream'[k][e] = Stream[k][e]
    BY <1>3 DEF Stream
  <2> QED BY <1>1, <1>4, <2>1, StreamChange
<1>5. Inflight' = Inflight /\ r \notin Inflight /\ ~ Promise!Waiting(r)
  <2>1. stage[r] # "inflight" /\ stage[r] # "inserted" /\ stage' = [stage EXCEPT ![r] = "inserted"]
    BY DEF Insert
  <2>2. Inflight' = Inflight /\ r \notin Inflight
    BY <2>1 DEF Inflight, TypeOK, RequestTypes
  <2>3. r \notin Range(Stream[c][d])
    BY <1>1, <2>1, StreamInserted
  <2> QED BY <2>2, <2>3 DEF Promise!Waiting, Range
<1>6. Stream'[c][d] = a \o rqList'[c][d]
  BY <1>1, <1>3 DEF Stream
<1> HIDE DEF a, b
<1>7. CASE ~ atHead
  <2>1. Stream'[c][d] = a \o Append(b, r)
    BY <1>1, <1>3, <1>6, <1>7
  <2>2. Stream'[c][d] = Append(Stream[c][d], r)
    BY <1>2, <2>1, AppendConcat
  <2> QED BY <1>4, <1>5, <2>2 DEF Promise!Submit
<1>8. CASE atHead /\ b = <<>>
  <2>1. rqList'[c][d] = Append(b, r)
    <3>1. <<r>> \o <<>> = Append(<<>>, r)
      OBVIOUS
    <3> QED BY <1>1, <1>3, <1>8, <3>1
  <2>2. Stream'[c][d] = Append(Stream[c][d], r)
    BY <1>2, <1>6, <2>1, AppendConcat
  <2> QED BY <1>4, <1>5, <2>2 DEF Promise!Submit
<1>9. CASE atHead /\ b # <<>>
  <2> DEFINE i == Len(a) + 1
  <2>1. i \in 1 .. Len(Stream[c][d])
    <3>1. Len(a) \in Nat /\ Len(b) \in Nat /\ Len(b) # 0 /\ Len(Stream[c][d]) = Len(a) + Len(b)
      BY <1>2, <1>9, ConcatProperties, LenProperties, EmptySeq
    <3> QED BY <3>1
  <2>2. Stream'[c][d] = Promise!InsertAt(Stream[c][d], i, r)
    <3>1. Stream'[c][d] = a \o (<<r>> \o b)
      BY <1>1, <1>3, <1>6, <1>9
    <3>2. SubSeq(a \o b, 1, Len(a)) = a /\ SubSeq(a \o b, Len(a) + 1, Len(a \o b)) = b
      BY <1>2, ConcatParts
    <3>3. Promise!InsertAt(a \o b, i, r) = a \o <<r>> \o b
      <4>1. i - 1 = Len(a)
        BY <1>2, LenProperties
      <4>2. Promise!InsertAt(a \o b, i, r) = SubSeq(a \o b, 1, i - 1) \o <<r>> \o SubSeq(a \o b, i, Len(a \o b))
        BY DEF Promise!InsertAt
      <4> QED BY <3>2, <4>1, <4>2
    <3>4. a \o <<r>> \o b = a \o (<<r>> \o b)
      <4> DEFINE o == <<r>>
      <4>1. o \in Seq(Requests)
        OBVIOUS
      <4> HIDE DEF o
      <4> QED BY <4>1, <1>2, ConcatAssociative
    <3> QED BY <1>2, <3>1, <3>3, <3>4
  <2> HIDE DEF i
  <2> QED BY <1>4, <1>5, <2>1, <2>2 DEF Promise!SubmitUrgent
<1> QED BY <1>7, <1>8, <1>9

\* Flushing moves requests from one part of the streams to the other.
LEMMA StreamFlush ==
  ASSUME TypeOK, Lists, NEW h \in Hctxs, FlushKcq(h)
  PROVE  UNCHANGED <<Stream, Inflight>>
<1> DEFINE d == curDomain[h]
<1>1. PICK c \in call[h].flush :
         /\ rqs' = [rqs EXCEPT ![h][d] = @ \o rqList[c][d]]
         /\ rqList' = [rqList EXCEPT ![c][d] = <<>>]
  BY DEF FlushKcq
<1>2. d \in Domains /\ At(h, "flush") /\ stage' = stage
  BY DEF FlushKcq, requestVars, TypeOK, CallTypes
<1>3. c \in Ctxs /\ HctxOf[c] = h
  BY <1>1, <1>2 DEF Lists, WorkAhead, Busy, Kcqs
<1> DEFINE s == rqs[h][d]
           t == rqList[c][d]
<1>4. s \in Seq(Requests) /\ t \in Seq(Requests) /\ \A k : OfCtx(k, t) = IF k = c THEN t ELSE <<>>
  BY <1>2, <1>3, ListsOf
<1>5. /\ \A g \in Hctxs, e \in Domains : rqs'[g][e] = IF g = h /\ e = d THEN s \o t ELSE rqs[g][e]
      /\ \A k \in Ctxs, e \in Domains : rqList'[k][e] = IF k = c /\ e = d THEN <<>> ELSE rqList[k][e]
  BY <1>1, <1>2, <1>3 DEF TypeOK, QueueTypes
<1> HIDE DEF s, t
<1>6. ASSUME NEW k \in Ctxs, NEW e \in Domains
      PROVE  Stream'[k][e] = Stream[k][e]
  <2>1. Stream[k][e] = OfCtx(k, rqs[HctxOf[k]][e]) \o rqList[k][e]
    BY ListsOf
  <2>2. Stream'[k][e] = OfCtx(k, rqs'[HctxOf[k]][e]) \o rqList'[k][e]
    BY DEF Stream
  <2>3. HctxOf[k] \in Hctxs
    BY KyberAssumption
  <2>4. CASE e # d \/ HctxOf[k] # h
    BY <1>3, <1>5, <2>1, <2>2, <2>3, <2>4
  <2>5. CASE e = d /\ HctxOf[k] = h
    <3>1. OfCtx(k, s \o t) = OfCtx(k, s) \o OfCtx(k, t) /\ OfCtx(k, s) \in Seq(Requests)
      <4>1. OfCtx(k, s \o t) = OfCtx(k, s) \o OfCtx(k, t)
        BY <1>4, OfCtxConcat
      <4>2. OfCtx(k, s) \in Seq(Requests)
        BY <1>4, OfCtxRange
      <4> QED BY <4>1, <4>2
    <3>2. /\ Stream'[k][e] = (OfCtx(k, s) \o OfCtx(k, t)) \o rqList'[k][e]
          /\ Stream[k][e] = OfCtx(k, s) \o rqList[k][e]
      BY <1>5, <2>1, <2>2, <2>3, <2>5, <3>1 DEF s
    <3>3. CASE k = c
      <4>1. Stream'[k][e] = (OfCtx(k, s) \o t) \o <<>> /\ Stream[k][e] = OfCtx(k, s) \o t
        BY <1>3, <1>4, <1>5, <2>5, <3>2, <3>3 DEF t
      <4> QED BY <1>4, <3>1, <4>1, ConcatProperties, ConcatEmptySeq
    <3>4. CASE k # c
      <4>1. OfCtx(k, t) = <<>> /\ rqList'[k][e] = rqList[k][e]
        BY <1>4, <1>5, <3>4
      <4>2. OfCtx(k, s) \o OfCtx(k, t) = OfCtx(k, s)
        BY <3>1, <4>1, ConcatEmptySeq
      <4> QED BY <3>2, <4>1, <4>2
    <3> QED BY <3>3, <3>4
  <2> QED BY <2>4, <2>5
<1>7. Stream' = Stream
  BY <1>6, StreamSame
<1> QED BY <1>2, <1>7 DEF Inflight

\* A request that is dispatched is the first of its stream.
LEMMA StreamTake ==
  ASSUME TypeOK, Lists, Owned, NEW h \in Hctxs, Take(h)
  PROVE  \E c \in Ctxs, d \in Domains : Promise!Start(c, d)
<1> DEFINE d == curDomain[h]
           s == rqs[h][d]
           r == Head(s)
           c == CtxOf[r]
<1>1. d \in Domains /\ s \in Seq(Requests) /\ s # <<>> /\ IsInjective(s) /\ At(h, "take")
  BY DEF Take, TypeOK, CallTypes, QueueTypes, Lists, RequestsFindable, QueuedOnce
<1>2. r \in Requests /\ r \in Range(s) /\ Tail(s) \in Seq(Requests)
  BY <1>1, TailOnce
<1>3. c \in Ctxs /\ HctxOf[c] = h /\ DomainOf[r] = d
  BY <1>1, <1>2, RequestPlace DEF Lists, RequestsFindable, QueuedHere
<1>4. /\ rqList' = rqList
      /\ \A g \in Hctxs, e \in Domains : rqs'[g][e] = IF g = h /\ e = d THEN Tail(s) ELSE rqs[g][e]
  BY <1>1 DEF Take, TypeOK, QueueTypes
<1>5. Inflight' = Inflight \cup {r}
  <2>1. stage' = [stage EXCEPT ![r] = "inflight"] /\ stage \in [Requests -> Stages]
    BY DEF Take, TypeOK, RequestTypes
  <2> QED BY <1>2, <2>1 DEF Inflight
<1>6. \A k : OfCtx(k, s) = IF k = c THEN <<r>> \o OfCtx(k, Tail(s)) ELSE OfCtx(k, Tail(s))
  BY <1>1, OfCtxHead
<1>7. /\ OfCtx(c, Tail(s)) \in Seq(Requests) /\ rqList[c][d] \in Seq(Requests)
      /\ Stream[c][d] = (<<r>> \o OfCtx(c, Tail(s))) \o rqList[c][d]
      /\ Stream'[c][d] = OfCtx(c, Tail(s)) \o rqList[c][d]
  <2>1. OfCtx(c, Tail(s)) \in Seq(Requests) /\ rqList[c][d] \in Seq(Requests)
    <3>1. OfCtx(c, Tail(s)) \in Seq(Requests)
      BY <1>2, OfCtxRange
    <3>2. rqList[c][d] \in Seq(Requests)
      BY <1>1, <1>3, ListsOf
    <3> QED BY <3>1, <3>2
  <2>2. Stream[c][d] = OfCtx(c, s) \o rqList[c][d]
    BY <1>1, <1>3, ListsOf
  <2>3. Stream'[c][d] = OfCtx(c, rqs'[HctxOf[c]][d]) \o rqList'[c][d]
    BY <1>1, <1>3 DEF Stream
  <2> QED BY <1>1, <1>3, <1>4, <1>6, <2>1, <2>2, <2>3
<1>8. Stream[c][d] # <<>> /\ Head(Stream[c][d]) = r /\ Tail(Stream[c][d]) = Stream'[c][d]
  <2> DEFINE a == OfCtx(c, Tail(s))
             b == rqList[c][d]
  <2>1. /\ a \in Seq(Requests) /\ b \in Seq(Requests) /\ r \in Requests
        /\ Stream[c][d] = (<<r>> \o a) \o b /\ Stream'[c][d] = a \o b
    BY <1>2, <1>7
  <2> HIDE DEF a, b, c, r
  <2> QED BY <2>1, PrefixedHead
<1>9. \A k \in Ctxs, e \in Domains : k # c \/ e # d => Stream'[k][e] = Stream[k][e]
  <2> SUFFICES ASSUME NEW k \in Ctxs, NEW e \in Domains, k # c \/ e # d
               PROVE  Stream'[k][e] = Stream[k][e]
    OBVIOUS
  <2>1. /\ Stream[k][e] = OfCtx(k, rqs[HctxOf[k]][e]) \o rqList[k][e]
        /\ Stream'[k][e] = OfCtx(k, rqs'[HctxOf[k]][e]) \o rqList'[k][e]
    BY DEF Stream
  <2>2. OfCtx(k, rqs'[HctxOf[k]][e]) = OfCtx(k, rqs[HctxOf[k]][e])
    <3>1. HctxOf[k] \in Hctxs
      BY KyberAssumption
    <3> QED BY <1>4, <1>6, <3>1
  <2> QED BY <1>4, <2>1, <2>2
<1>10. Stream' = [Stream EXCEPT ![c][d] = Tail(Stream[c][d])]
  <2> DEFINE q == Tail(Stream[c][d])
  <2>1. c \in Ctxs /\ d \in Domains /\ Stream'[c][d] = q
    BY <1>1, <1>3, <1>8
  <2> HIDE DEF c, d, q
  <2>2. Stream' = [Stream EXCEPT ![c][d] = q]
    BY <2>1, <1>9, StreamChange
  <2> QED BY <2>2 DEF q
<1>11. Cardinality({q \in Inflight : DomainOf[q] = d}) < MaxDepth[d]
  <2>1. {q \in Inflight : DomainOf[q] = d} = Owners(d)
    BY DEF Inflight, Owners
  <2>2. h \in Holders(d)
    BY <1>1 DEF Holders, Holds
  <2> QED BY <1>1, <2>1, <2>2, OwnersLimited
<1>12. Promise!Start(c, d)
  <2> HIDE DEF c, d, r
  <2>1. Promise!Cardinality({q \in Inflight : DomainOf[q] = d}) < MaxDepth[d]
    BY <1>11 DEF Promise!Cardinality, Cardinality
  <2> QED BY <1>5, <1>8, <1>10, <2>1 DEF Promise!Start
<1> QED BY <1>1, <1>3, <1>12

LEMMA StreamStep ==
  KyberInv /\ KyberInv' /\ [Next]_vars => [Promise!StreamNext]_(Promise!streamVars)
<1> SUFFICES ASSUME KyberInv, KyberInv', [Next]_vars
             PROVE  Promise!StreamNext \/ UNCHANGED <<Stream, Inflight>>
  BY DEF Promise!streamVars
<1>1. TypeOK /\ Lists /\ Owned /\ TypeOK' /\ Lists'
  BY DEF KyberInv
<1>2. ASSUME NEW r \in Requests, RequestStep(r)
      PROVE  Promise!StreamNext \/ UNCHANGED <<Stream, Inflight>>
  <2>1. ASSUME NEW atHead \in BOOLEAN, Insert(r, atHead)
        PROVE  Promise!StreamNext
    <3>1. Promise!Submit(r) \/ Promise!SubmitUrgent(r)
      BY <1>1, <2>1, StreamInsert
    <3> QED BY <3>1 DEF Promise!StreamNext
  <2>2. CASE Prepare(r) \/ Finish(r) \/ Requeue(r) \/ Wake(r)
    <3>1. (UNCHANGED <<Stream, Inflight>>) \/ Promise!Complete(r)
      BY <1>1, <2>2, StreamRequests
    <3> QED BY <3>1 DEF Promise!StreamNext
  <2> QED BY <1>2, <2>1, <2>2 DEF RequestStep
<1>3. ASSUME UNCHANGED <<rqList, rqs, stage>> PROVE UNCHANGED <<Stream, Inflight>>
  BY <1>3, StreamUnchanged DEF Inflight
<1>4. ASSUME NEW h \in Hctxs, DispatcherStep(h)
      PROVE  Promise!StreamNext \/ UNCHANGED <<Stream, Inflight>>
  <2>1. CASE FlushKcq(h)
    BY <1>1, <2>1, StreamFlush
  <2>2. CASE Take(h)
    <3>1. \E c \in Ctxs, d \in Domains : Promise!Start(c, d)
      BY <1>1, <2>2, StreamTake
    <3> QED BY <3>1 DEF Promise!StreamNext
  <2>3. CASE ~ FlushKcq(h) /\ ~ Take(h)
    <3>1. UNCHANGED <<rqList, rqs, stage>>
      BY <1>4, <2>3 DEF DispatcherStep, Run, Dispatch, Visit, AddToWaitQueue, Retry, LeaveWaitQueue,
            queueVars, requestVars
    <3> QED BY <3>1, <1>3
  <2> QED BY <2>1, <2>2, <2>3
<1>5. ASSUME NEW d \in Domains, Resize(d) PROVE UNCHANGED <<Stream, Inflight>>
  <2>1. UNCHANGED <<rqList, rqs, stage>>
    BY <1>5 DEF Resize, queueVars, requestVars
  <2> QED BY <2>1, <1>3
<1>6. CASE UNCHANGED vars
  <2>1. UNCHANGED <<rqList, rqs, stage>>
    BY <1>6 DEF vars, queueVars, requestVars
  <2> QED BY <2>1, <1>3
<1> QED BY <1>2, <1>4, <1>5, <1>6 DEF Next, RequestStep

LEMMA StreamStart == Init => Promise!StreamInit
<1> SUFFICES ASSUME Init PROVE Promise!StreamInit
  OBVIOUS
<1>1. ASSUME NEW c \in Ctxs, NEW d \in Domains
      PROVE  OfCtx(c, rqs[HctxOf[c]][d]) \o rqList[c][d] = <<>>
  <2>1. rqs[HctxOf[c]][d] = <<>> /\ rqList[c][d] = <<>>
    BY KyberAssumption DEF Init
  <2>2. <<>> \o <<>> = <<>>
    OBVIOUS
  <2> QED BY <2>1, <2>2, OfCtxEmpty
<1>2. Stream = [c \in Ctxs |-> [d \in Domains |-> <<>>]]
  BY <1>1 DEF Stream
<1>3. Inflight = {}
  BY DEF Init, Inflight
<1> QED BY <1>2, <1>3 DEF Promise!StreamInit

\* Kyber implements KyberStreams: whatever is inserted while the software
\* queues are flushed, the requests of each of them in a domain are dispatched
\* in the order in which it was given them, and never more at a time than the
\* domain has tokens.
THEOREM DispatchStreams == TurnSpec => ImplementsStreams
<1>1. TurnInit => Promise!StreamInit
  BY StreamStart DEF TurnInit
<1>2. TurnsInv /\ TurnsInv' /\ [TurnNext]_<<vars, passed>> => [Promise!StreamNext]_(Promise!streamVars)
  <2>1. [TurnNext]_<<vars, passed>> => [Next]_vars
    BY DEF TurnNext
  <2> QED BY <2>1, StreamStep DEF TurnsInv
<1> QED BY <1>1, <1>2, TurnsInit, TurnsStep, PTL DEF TurnSpec, ImplementsStreams, Promise!StreamSpec
=============================================================================
