-------------------------------- MODULE Heap --------------------------------
(***************************************************************************)
(* What an allocator promises: a block that is granted has the size and    *)
(* the alignment that were asked for, lies within one page and shares no   *)
(* unit with a block that is live; and only its owner ends a block's life. *)
(***************************************************************************)
EXTENDS Integers

CONSTANTS Cpus, Pages, PageUnits, Requests, NoRequest

VARIABLES
  live,     \* the blocks in use
  asked     \* what each processor is asking for

Extent(b) == {<<b.page, c>> : c \in b.at .. b.at + b.req.units - 1}

heapVars == <<live, asked>>

HeapInit == live = {} /\ asked = [c \in Cpus |-> NoRequest]

Ask(c) ==
  /\ asked[c] = NoRequest
  /\ \E r \in Requests : asked' = [asked EXCEPT ![c] = r]
  /\ UNCHANGED live

Grant(c) ==
  LET r == asked[c]
  IN /\ r # NoRequest
     /\ \E p \in Pages, at \in 0 .. PageUnits - r.units :
          LET b == [page |-> p, at |-> at, req |-> r]
          IN /\ (at + r.offset) % r.align = 0
             /\ \A other \in live : Extent(b) \cap Extent(other) = {}
             /\ live' = live \cup {b}
     /\ asked' = [asked EXCEPT ![c] = NoRequest]

\* NULL
Refuse(c) ==
  /\ asked[c] # NoRequest
  /\ asked' = [asked EXCEPT ![c] = NoRequest]
  /\ UNCHANGED live

Give(b) == live' = live \ {b} /\ UNCHANGED asked

HeapNext ==
  \/ \E c \in Cpus : Ask(c) \/ Grant(c) \/ Refuse(c)
  \/ \E b \in live : Give(b)

HeapSpec == HeapInit /\ [][HeapNext]_heapVars
=============================================================================
