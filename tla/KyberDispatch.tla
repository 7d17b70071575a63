--------------------------- MODULE KyberDispatch ---------------------------
(***************************************************************************)
(* The Kyber I/O scheduler of project1-kyber.c: requests wait in the       *)
(* per-CPU queues (kcqs) of a hardware queue (hctx), are flushed to the    *)
(* hardware queue's own lists (rqs), and are dispatched when their domain  *)
(* still has a token.  Tokens are shared by all hardware queues, so the    *)
(* ones that find none sleep on a wait queue and are woken when a request  *)
(* finishes.                                                               *)
(*                                                                         *)
(* Concurrency.  dispatch_request holds khd->lock, so each hardware queue  *)
(* has one dispatcher; it is interleaved with the dispatchers of the other *)
(* hardware queues, with insertions (atomic under kcq->lock), and with the *)
(* completions, which take neither lock.  A dispatcher stops between any   *)
(* two accesses to state that others change: the token bitmap, the link    *)
(* of its wait entry, and each kcq.                                        *)
(*                                                                         *)
(* External, and modelled from how the code uses it: the token bitmap and  *)
(* its wait queues (sbitmap_queue), which wake one sleeper for each token  *)
(* cleared, as for depths below 16; and blk-mq, which runs a hardware      *)
(* queue after an insertion and calls dispatch_request until it returns    *)
(* NULL.                                                                   *)
(***************************************************************************)
EXTENDS Integers, Sequences, Functions

CONSTANTS
  Hctxs,       \* the hardware queues
  Ctxs,        \* index_hw of the software queues: the kcqs
  Requests,    \* the request structures, reused after they finish
  Requeued,    \* bound: the requests among them that may be requeued
  NumDomains,  \* KYBER_NUM_DOMAINS
  BatchSize,   \* kyber_batch_size
  MaxDepth,    \* kyber_depth
  HctxOf,      \* the hardware queue a software queue belongs to
  CtxOf,       \* rq->mq_ctx
  DomainOf     \* kyber_sched_domain(rq->cmd_flags)

Domains == 0 .. NumDomains - 1

ASSUME KyberAssumption ==
  /\ NumDomains \in Nat \ {0}
  /\ Ctxs \subseteq Nat
  /\ Requeued \subseteq Requests
  /\ BatchSize \in [Domains -> Nat \ {0}]
  /\ MaxDepth \in [Domains -> Nat \ {0}]
  /\ HctxOf \in [Ctxs -> Hctxs]
  /\ CtxOf \in [Requests -> Ctxs]
  /\ DomainOf \in [Requests -> Domains]

VARIABLES
  rqList,      \* kcq->rq_list: the requests each software queue holds
  kcqMap,      \* khd->kcq_map: the software queues marked busy, by domain
  rqs,         \* khd->rqs: the requests flushed to a hardware queue
  curDomain,   \* khd->cur_domain
  batching,    \* khd->batching
  onWait,      \* domains whose khd->domain_wait entry is on a wait queue
  used,        \* the bits set in each sbitmap of kqd->domain_tokens
  depth,       \* the depth of each sbitmap of kqd->domain_tokens
  token,       \* rq->elv.priv[0]
  stage,       \* where each request is in its life
  call,        \* each hardware queue's dispatcher: its locals and position
  run          \* hardware queues blk-mq has been asked to run

queueVars == <<rqList, kcqMap, rqs>>
batchVars == <<curDomain, batching>>
tokenVars == <<used, depth, onWait>>
requestVars == <<token, stage>>
vars == <<queueVars, batchVars, tokenVars, requestVars, call, run>>

NoToken == -1
Stages == {"free", "prepared", "inserted", "inflight", "waking", "rewaking", "requeued"}
Positions == {"idle", "loop", "visit", "check", "retry", "hold", "flush", "take"}

Tokens(d) == 0 .. MaxDepth[d] - 1
Kcqs(h) == {c \in Ctxs : HctxOf[c] = h}
Busy(h, d) == {c \in Kcqs(h) : c \in kcqMap[d]}
FreeTokens(d) == {n \in 0 .. depth[d] - 1 : n \notin used[d]}
NextDomain(d) == IF d = NumDomains - 1 THEN 0 ELSE d + 1
HasWork(h) == \E d \in Domains : rqs[h][d] # <<>> \/ Busy(h, d) # {}

Idle == [at |-> "idle", visits |-> 0, nr |-> NoToken, flush |-> {}]

Init ==
  /\ rqList = [c \in Ctxs |-> [d \in Domains |-> <<>>]]
  /\ kcqMap = [d \in Domains |-> {}]
  /\ rqs = [h \in Hctxs |-> [d \in Domains |-> <<>>]]
  /\ curDomain = [h \in Hctxs |-> 0]
  /\ batching = [h \in Hctxs |-> 0]
  /\ onWait = [h \in Hctxs |-> {}]
  /\ used = [d \in Domains |-> {}]
  /\ depth = MaxDepth
  /\ token = [r \in Requests |-> NoToken]
  /\ stage = [r \in Requests |-> "free"]
  /\ call = [h \in Hctxs |-> Idle]
  /\ run = {}
-----------------------------------------------------------------------------
(* Requests *)

\* Mutant: a reused request keeps the token of its previous life.
PrepareKeepingToken(r) ==
  /\ stage[r] = "free"
  /\ stage' = [stage EXCEPT ![r] = "prepared"]
  /\ UNCHANGED <<queueVars, batchVars, tokenVars, token, call, run>>

Prepare(r) ==
  /\ stage[r] = "free"
  /\ stage' = [stage EXCEPT ![r] = "prepared"]
  /\ token' = [token EXCEPT ![r] = NoToken]
  /\ UNCHANGED <<queueVars, batchVars, tokenVars, call, run>>

\* One iteration of insert_requests, under kcq->lock; blk-mq then asks for
\* the hardware queue to be run.
Insert(r, atHead) ==
  LET c == CtxOf[r]
      d == DomainOf[r]
  IN /\ stage[r] \in {"prepared", "requeued"}
     /\ stage' = [stage EXCEPT ![r] = "inserted"]
     /\ rqList' = [rqList EXCEPT ![c][d] = IF atHead THEN <<r>> \o @ ELSE Append(@, r)]
     /\ kcqMap' = [kcqMap EXCEPT ![d] = @ \cup {c}]
     /\ run' = run \cup {HctxOf[c]}
     /\ UNCHANGED <<rqs, batchVars, tokenVars, token, call>>

\* The device completed the request, or it was freed before it was inserted
\* (its bio was merged elsewhere): the token it remembers, if any, is cleared.
Finish(r) ==
  /\ stage[r] \in {"prepared", "inflight"}
  /\ IF token[r] # NoToken
     THEN /\ used' = [used EXCEPT ![DomainOf[r]] = @ \ {token[r]}]
          /\ stage' = [stage EXCEPT ![r] = "waking"]
     ELSE /\ stage' = [stage EXCEPT ![r] = "free"]
          /\ UNCHANGED used
  /\ UNCHANGED <<queueVars, batchVars, depth, onWait, token, call, run>>

\* The device could not take the request, or lost it: requeue_request is
\* finish_request too.  The request keeps the number of the token it gave up,
\* and is inserted again without being prepared.
Requeue(r) ==
  /\ stage[r] = "inflight" /\ r \in Requeued
  /\ used' = [used EXCEPT ![DomainOf[r]] = @ \ {token[r]}]
  /\ stage' = [stage EXCEPT ![r] = "rewaking"]
  /\ UNCHANGED <<queueVars, batchVars, depth, onWait, token, call, run>>

Woken(s) == IF s = "waking" THEN "free" ELSE "requeued"

\* Mutant: the wait entry is unlinked but its hardware queue is not run.
WakeWithoutRun(r) ==
  LET d == DomainOf[r]
      sleepers == {h \in Hctxs : d \in onWait[h]}
  IN /\ stage[r] \in {"waking", "rewaking"}
     /\ stage' = [stage EXCEPT ![r] = Woken(@)]
     /\ IF sleepers # {}
        THEN \E h \in sleepers : onWait' = [onWait EXCEPT ![h] = @ \ {d}]
        ELSE UNCHANGED onWait
     /\ UNCHANGED <<queueVars, batchVars, used, depth, token, call, run>>

\* kyber_domain_wake, called by sbitmap_queue_clear once the bit is clear:
\* the wait entry is unlinked and its hardware queue is run.
Wake(r) ==
  LET d == DomainOf[r]
      sleepers == {h \in Hctxs : d \in onWait[h]}
  IN /\ stage[r] \in {"waking", "rewaking"}
     /\ stage' = [stage EXCEPT ![r] = Woken(@)]
     /\ IF sleepers # {}
        THEN \E h \in sleepers : /\ onWait' = [onWait EXCEPT ![h] = @ \ {d}]
                                 /\ run' = run \cup {h}
        ELSE UNCHANGED <<onWait, run>>
     /\ UNCHANGED <<queueVars, batchVars, used, depth, token, call>>

\* Mutant: the depth is not clamped to at least 1.
ResizeUnclamped(d) ==
  /\ \E n \in 0 .. MaxDepth[d] : n # depth[d] /\ depth' = [depth EXCEPT ![d] = n]
  /\ UNCHANGED <<queueVars, batchVars, used, onWait, requestVars, call, run>>

\* kyber_resize_domain: the timer changes the depth; the bits stay, and
\* nobody is woken.
Resize(d) ==
  /\ \E n \in 1 .. MaxDepth[d] : n # depth[d] /\ depth' = [depth EXCEPT ![d] = n]
  /\ UNCHANGED <<queueVars, batchVars, used, onWait, requestVars, call, run>>
-----------------------------------------------------------------------------
(* Dispatching *)

At(h, position) == call[h].at = position
Goto(h, position) == call' = [call EXCEPT ![h].at = position]

\* kyber_dispatch_cur_domain returned NULL: go on with the next domain,
\* starting a new batch, or give up after a full circle.
NextVisit(h) ==
  IF call[h].visits = NumDomains
  THEN /\ call' = [call EXCEPT ![h] = Idle]
       /\ UNCHANGED batchVars
  ELSE /\ call' = [call EXCEPT ![h].at = "visit", ![h].visits = @ + 1]
       /\ curDomain' = [curDomain EXCEPT ![h] = NextDomain(@)]
       /\ batching' = [batching EXCEPT ![h] = 0]

\* blk-mq starts a run of the hardware queue.
Run(h) ==
  /\ At(h, "idle")
  /\ h \in run
  /\ run' = run \ {h}
  /\ Goto(h, "loop")
  /\ UNCHANGED <<queueVars, batchVars, tokenVars, requestVars>>

\* Mutant: one request more than the batch size.
DispatchOneMore(h) ==
  /\ At(h, "loop")
  /\ IF ~ HasWork(h)
     THEN /\ Goto(h, "idle")
          /\ UNCHANGED batchVars
     ELSE IF batching[h] <= BatchSize[curDomain[h]]
     THEN /\ call' = [call EXCEPT ![h] = [Idle EXCEPT !.at = "visit"]]
          /\ UNCHANGED batchVars
     ELSE NextVisit(h)
  /\ UNCHANGED <<queueVars, tokenVars, requestVars, run>>

\* blk-mq calls dispatch_request while has_work says so; a dispatcher that is
\* no longer entitled to a batch starts with the next domain.
Dispatch(h) ==
  /\ At(h, "loop")
  /\ IF ~ HasWork(h)
     THEN /\ Goto(h, "idle")
          /\ UNCHANGED batchVars
     ELSE IF batching[h] < BatchSize[curDomain[h]]
     THEN /\ call' = [call EXCEPT ![h] = [Idle EXCEPT !.at = "visit"]]
          /\ UNCHANGED batchVars
     ELSE NextVisit(h)
  /\ UNCHANGED <<queueVars, tokenVars, requestVars, run>>

\* A successful __sbitmap_queue_get.
GetToken(h, d) ==
  \E n \in FreeTokens(d) :
    /\ used' = [used EXCEPT ![d] = @ \cup {n}]
    /\ call' = [call EXCEPT ![h].at = "hold", ![h].nr = n]
    /\ UNCHANGED <<depth, onWait, batchVars>>

\* kyber_dispatch_cur_domain up to its first attempt to get a token.
Visit(h) ==
  LET d == curDomain[h]
  IN /\ At(h, "visit")
     /\ IF rqs[h][d] = <<>> /\ Busy(h, d) = {}
        THEN NextVisit(h) /\ UNCHANGED tokenVars
        ELSE IF FreeTokens(d) = {}
        THEN Goto(h, "check") /\ UNCHANGED <<tokenVars, batchVars>>
        ELSE GetToken(h, d)
     /\ UNCHANGED <<queueVars, requestVars, run>>

\* Mutant: no second attempt once the entry is on the wait queue.
AddToWaitQueueAndLeave(h) ==
  LET d == curDomain[h]
  IN /\ At(h, "check")
     /\ onWait' = [onWait EXCEPT ![h] = @ \cup {d}]
     /\ NextVisit(h)
     /\ UNCHANGED <<queueVars, used, depth, requestVars, run>>

\* No token: sleep on the wait queue, unless the entry is there already.
AddToWaitQueue(h) ==
  LET d == curDomain[h]
  IN /\ At(h, "check")
     /\ IF d \in onWait[h]
        THEN NextVisit(h) /\ UNCHANGED tokenVars
        ELSE /\ onWait' = [onWait EXCEPT ![h] = @ \cup {d}]
             /\ Goto(h, "retry")
             /\ UNCHANGED <<used, depth, batchVars>>
     /\ UNCHANGED <<queueVars, requestVars, run>>

\* A token may have been freed before the entry was on the wait queue.
Retry(h) ==
  LET d == curDomain[h]
  IN /\ At(h, "retry")
     /\ IF FreeTokens(d) = {}
        THEN NextVisit(h) /\ UNCHANGED tokenVars
        ELSE GetToken(h, d)
     /\ UNCHANGED <<queueVars, requestVars, run>>

\* Mutant: a dispatcher that gets a token stays on the wait queue.
StayOnWaitQueue(h) ==
  LET d == curDomain[h]
  IN /\ At(h, "hold")
     /\ call' = IF rqs[h][d] # <<>>
                THEN [call EXCEPT ![h].at = "take"]
                ELSE [call EXCEPT ![h].at = "flush", ![h].flush = Busy(h, d)]
     /\ UNCHANGED <<queueVars, batchVars, tokenVars, requestVars, run>>

\* With a token: leave the wait queue, then flush the kcqs if need be.
LeaveWaitQueue(h) ==
  LET d == curDomain[h]
  IN /\ At(h, "hold")
     /\ onWait' = [onWait EXCEPT ![h] = @ \ {d}]
     /\ call' = IF rqs[h][d] # <<>>
                THEN [call EXCEPT ![h].at = "take"]
                ELSE [call EXCEPT ![h].at = "flush", ![h].flush = Busy(h, d)]
     /\ UNCHANGED <<queueVars, batchVars, used, depth, requestVars, run>>

\* Mutant: all the bits are cleared with the first kcq.
FlushKcqClearingAll(h) ==
  LET d == curDomain[h]
  IN /\ At(h, "flush")
     /\ \E c \in call[h].flush :
          /\ \A o \in call[h].flush : c <= o
          /\ rqs' = [rqs EXCEPT ![h][d] = @ \o rqList[c][d]]
          /\ rqList' = [rqList EXCEPT ![c][d] = <<>>]
          /\ kcqMap' = [kcqMap EXCEPT ![d] = @ \ Kcqs(h)]
          /\ call' = [call EXCEPT ![h].flush = @ \ {c},
                                  ![h].at = IF call[h].flush = {c} THEN "take" ELSE @]
     /\ UNCHANGED <<batchVars, tokenVars, requestVars, run>>

\* flush_busy_kcq, under kcq->lock, for the next bit set in the map.
FlushKcq(h) ==
  LET d == curDomain[h]
  IN /\ At(h, "flush")
     /\ \E c \in call[h].flush :
          /\ \A o \in call[h].flush : c <= o
          /\ rqs' = [rqs EXCEPT ![h][d] = @ \o rqList[c][d]]
          /\ rqList' = [rqList EXCEPT ![c][d] = <<>>]
          /\ kcqMap' = [kcqMap EXCEPT ![d] = @ \ {c}]
          /\ call' = [call EXCEPT ![h].flush = @ \ {c},
                                  ![h].at = IF call[h].flush = {c} THEN "take" ELSE @]
     /\ UNCHANGED <<batchVars, tokenVars, requestVars, run>>

\* Mutant: the last request of the list is taken.
TakeNewest(h) ==
  LET d == curDomain[h]
      n == Len(rqs[h][d])
      r == rqs[h][d][n]
  IN /\ At(h, "take")
     /\ n > 0
     /\ rqs' = [rqs EXCEPT ![h][d] = SubSeq(@, 1, n - 1)]
     /\ batching' = [batching EXCEPT ![h] = @ + 1]
     /\ token' = [token EXCEPT ![r] = call[h].nr]
     /\ stage' = [stage EXCEPT ![r] = "inflight"]
     /\ call' = [call EXCEPT ![h] = [Idle EXCEPT !.at = "loop"]]
     /\ UNCHANGED <<rqList, kcqMap, curDomain, tokenVars, run>>

\* Mutant: the request does not count towards the batch.
TakeUncounted(h) ==
  LET d == curDomain[h]
      r == Head(rqs[h][d])
  IN /\ At(h, "take")
     /\ rqs[h][d] # <<>>
     /\ rqs' = [rqs EXCEPT ![h][d] = Tail(@)]
     /\ token' = [token EXCEPT ![r] = call[h].nr]
     /\ stage' = [stage EXCEPT ![r] = "inflight"]
     /\ call' = [call EXCEPT ![h] = [Idle EXCEPT !.at = "loop"]]
     /\ UNCHANGED <<rqList, kcqMap, batchVars, tokenVars, run>>

\* The first request of the list gets the token and is returned to blk-mq.
Take(h) ==
  LET d == curDomain[h]
      r == Head(rqs[h][d])
  IN /\ At(h, "take")
     /\ rqs[h][d] # <<>>
     /\ rqs' = [rqs EXCEPT ![h][d] = Tail(@)]
     /\ batching' = [batching EXCEPT ![h] = @ + 1]
     /\ token' = [token EXCEPT ![r] = call[h].nr]
     /\ stage' = [stage EXCEPT ![r] = "inflight"]
     /\ call' = [call EXCEPT ![h] = [Idle EXCEPT !.at = "loop"]]
     /\ UNCHANGED <<rqList, kcqMap, curDomain, tokenVars, run>>
-----------------------------------------------------------------------------
DispatcherStep(h) ==
  \/ Run(h) \/ Dispatch(h) \/ Visit(h) \/ AddToWaitQueue(h) \/ Retry(h)
  \/ LeaveWaitQueue(h) \/ FlushKcq(h) \/ Take(h)

Next ==
  \/ \E r \in Requests : \/ Prepare(r)
                         \/ \E atHead \in BOOLEAN : Insert(r, atHead)
                         \/ Finish(r) \/ Requeue(r)
                         \/ Wake(r)
  \/ \E d \in Domains : Resize(d)
  \/ \E h \in Hctxs : DispatcherStep(h)

\* The device deals with what it was given, the completion runs to its end, a
\* requeued request is inserted again, and a hardware queue that was asked to
\* run runs.
Fairness ==
  /\ \A r \in Requests :
       /\ WF_vars(stage[r] = "inflight" /\ (Finish(r) \/ Requeue(r)))
       /\ WF_vars(Wake(r))
       /\ WF_vars(stage[r] = "requeued" /\ \E atHead \in BOOLEAN : Insert(r, atHead))
  /\ \A h \in Hctxs : WF_vars(DispatcherStep(h))

Spec == Init /\ [][Next]_vars /\ Fairness
-----------------------------------------------------------------------------
(* Properties *)

Holds(h) == At(h, "hold") \/ At(h, "flush") \/ At(h, "take")
Pending(h, d) == rqs[h][d] # <<>> \/ \E c \in Kcqs(h) : rqList[c][d] # <<>>
Active(h) == h \in run \/ ~ At(h, "idle")

QueueTypes ==
  /\ rqList \in [Ctxs -> [Domains -> Seq(Requests)]]
  /\ kcqMap \in [Domains -> SUBSET Ctxs]
  /\ rqs \in [Hctxs -> [Domains -> Seq(Requests)]]

TokenTypes ==
  /\ used \in [Domains -> SUBSET Nat] /\ \A d \in Domains : used[d] \subseteq Tokens(d)
  /\ depth \in [Domains -> Nat] /\ \A d \in Domains : depth[d] \in 1 .. MaxDepth[d]
  /\ onWait \in [Hctxs -> SUBSET Domains]
  /\ run \subseteq Hctxs

RequestTypes ==
  /\ token \in [Requests -> Nat \cup {NoToken}]
  /\ stage \in [Requests -> Stages]

CallTypes ==
  /\ curDomain \in [Hctxs -> Domains]
  /\ batching \in [Hctxs -> Nat]
  /\ call \in [Hctxs -> [at : Positions, visits : 0 .. NumDomains,
                         nr : Nat \cup {NoToken}, flush : SUBSET Ctxs]]
  /\ \A h \in Hctxs : /\ batching[h] <= BatchSize[curDomain[h]]
                      /\ Holds(h) <=> call[h].nr # NoToken

\* Every variable has its type; a batch never exceeds its domain's size, and a
\* dispatcher holds a token exactly between getting it and passing it on.
TypeOK == QueueTypes /\ TokenTypes /\ RequestTypes /\ CallTypes

Owners(d) == {r \in Requests : stage[r] = "inflight" /\ DomainOf[r] = d}
Holders(d) == {h \in Hctxs : Holds(h) /\ curDomain[h] = d}

\* A token is in use exactly while one request in flight, or one dispatcher
\* about to send a request, holds it: none leaks, none is given out twice,
\* and finish_request never clears a token that belongs to somebody else.
TokensOwned ==
  \A d \in Domains :
    /\ used[d] = {token[r] : r \in Owners(d)} \cup {call[h].nr : h \in Holders(d)}
    /\ \A r, s \in Owners(d) : token[r] = token[s] => r = s
    /\ \A h, g \in Holders(d) : call[h].nr = call[g].nr => h = g
    /\ \A r \in Owners(d), h \in Holders(d) : token[r] # call[h].nr

\* "If we observed any bit set in the kcq_map, we will always get a request"
\* (kyber_dispatch_cur_domain): the list is not empty when its first entry is
\* taken, although requests keep arriving during the flush.
AlwaysGetsRequest ==
  \A h \in Hctxs : At(h, "take") => rqs[h][curDomain[h]] # <<>>

\* Under kcq->lock the map and the lists say the same, so no request is left
\* in a kcq that no dispatcher looks at.
MapExact ==
  \A c \in Ctxs, d \in Domains : c \in kcqMap[d] <=> rqList[c][d] # <<>>

\* A list holds only requests that were inserted and not yet dispatched, of its
\* domain and its software or hardware queue.
QueuedHere ==
  \A d \in Domains :
    /\ \A c \in Ctxs : \A r \in Range(rqList[c][d]) :
         stage[r] = "inserted" /\ DomainOf[r] = d /\ CtxOf[r] = c
    /\ \A h \in Hctxs : \A r \in Range(rqs[h][d]) :
         stage[r] = "inserted" /\ DomainOf[r] = d /\ HctxOf[CtxOf[r]] = h

\* No request is in two lists, or twice in one.
QueuedOnce ==
  \A d \in Domains :
    /\ \A c \in Ctxs : IsInjective(rqList[c][d])
    /\ \A h \in Hctxs : IsInjective(rqs[h][d])
    /\ \A c \in Ctxs : Range(rqList[c][d]) \cap Range(rqs[HctxOf[c]][d]) = {}

\* A request that was inserted is in a list until it is dispatched.
NoneLost ==
  \A r \in Requests : stage[r] = "inserted" =>
    r \in Range(rqList[CtxOf[r]][DomainOf[r]]) \cup Range(rqs[HctxOf[CtxOf[r]]][DomainOf[r]])

\* So an inserted request can always be found: it is in one list, the map leads
\* to that list, and whoever is led there finds it.
RequestsFindable == AlwaysGetsRequest /\ MapExact /\ QueuedHere /\ QueuedOnce /\ NoneLost

\* A hardware queue at rest sleeps on the wait queues of the domains it has
\* requests of, where a wake-up is the only thing that can restart it, and on
\* no other: one without requests is free to be taken down.
RestsOnlyThrottled ==
  \A h \in Hctxs : ~ Active(h) => \A d \in Domains : Pending(h, d) <=> d \in onWait[h]

\* No wake-up is lost: while a hardware queue sleeps for a token, a token of
\* the domain is in use and will be cleared, or a wake-up is on its way, or it
\* was given to a hardware queue that still has to act on it.
NoLostWakeup ==
  \A d \in Domains :
    (\E h \in Hctxs : ~ Active(h) /\ d \in onWait[h] /\ Pending(h, d)) =>
      \/ used[d] # {}
      \/ \E r \in Requests : stage[r] \in {"waking", "rewaking"} /\ DomainOf[r] = d
      \/ \E h \in Hctxs : Active(h) /\ Pending(h, d)

\* Every domain with requests waiting anywhere gets one dispatched: however
\* requests of the others flood its hardware queue, and however hardware queues
\* that compete for its tokens are woken.
DomainServed ==
  \A d \in Domains :
    (\E h \in Hctxs : Pending(h, d)) ~> (\E h \in Hctxs : At(h, "take") /\ curDomain[h] = d)
=============================================================================
