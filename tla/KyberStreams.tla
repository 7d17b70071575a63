---------------------------- MODULE KyberStreams ----------------------------
(***************************************************************************)
(* What Kyber promises to the rest of the block layer: the requests that a *)
(* software queue submits for one domain form a stream.  A request joins   *)
(* it at the end, or is moved in front of others if it is urgent, and the  *)
(* requests leave it one at a time from its front.  No more requests of a  *)
(* domain are in flight, on the whole device, than the domain has tokens.  *)
(***************************************************************************)
EXTENDS Integers, Sequences, FiniteSets, SequencesExt

CONSTANTS Ctxs, Requests, Domains, MaxDepth, CtxOf, DomainOf

VARIABLES
  stream,    \* the requests a software queue has waiting in each domain
  inflight   \* the requests the device is working on

streamVars == <<stream, inflight>>

StreamInit ==
  /\ stream = [c \in Ctxs |-> [d \in Domains |-> <<>>]]
  /\ inflight = {}

Waiting(r) == \E i \in DOMAIN stream[CtxOf[r]][DomainOf[r]] : stream[CtxOf[r]][DomainOf[r]][i] = r

Submit(r) ==
  /\ ~ Waiting(r) /\ r \notin inflight
  /\ stream' = [stream EXCEPT ![CtxOf[r]][DomainOf[r]] = Append(@, r)]
  /\ UNCHANGED inflight

SubmitUrgent(r) ==
  /\ ~ Waiting(r) /\ r \notin inflight
  /\ \E i \in 1 .. Len(stream[CtxOf[r]][DomainOf[r]]) :
       stream' = [stream EXCEPT ![CtxOf[r]][DomainOf[r]] = InsertAt(@, i, r)]
  /\ UNCHANGED inflight

Start(c, d) ==
  /\ stream[c][d] # <<>>
  /\ Cardinality({r \in inflight : DomainOf[r] = d}) < MaxDepth[d]
  /\ inflight' = inflight \cup {Head(stream[c][d])}
  /\ stream' = [stream EXCEPT ![c][d] = Tail(@)]

Complete(r) ==
  /\ r \in inflight
  /\ inflight' = inflight \ {r}
  /\ UNCHANGED stream

StreamNext ==
  \/ \E r \in Requests : Submit(r) \/ SubmitUrgent(r) \/ Complete(r)
  \/ \E c \in Ctxs, d \in Domains : Start(c, d)

StreamSpec == StreamInit /\ [][StreamNext]_streamVars
=============================================================================
