--------------------------- MODULE KyberLifecycle ---------------------------
(***************************************************************************)
(* How a queue comes by Kyber and loses it again: init_sched and exit_sched *)
(* for what the whole queue shares, init_hctx and exit_hctx for what each  *)
(* hardware queue has of its own.  Each is a series of allocations, any of *)
(* which may fail, with the labels and loops that take back what was done. *)
(*                                                                         *)
(* One thread switches elevators.  Requests, their completions and the     *)
(* timer function run beside it and use what it allocates and frees.       *)
(*                                                                         *)
(* External, and modelled from how the code relies on it: the block layer  *)
(* lets no request in and waits for the last one before it changes the     *)
(* elevator, calls exit_hctx for the hardware queues that have their       *)
(* sched_data, and then exit_sched; del_timer_sync takes the timer back    *)
(* and waits for its function to end.                                      *)
(***************************************************************************)
EXTENDS Integers, Sequences, SequencesExt

CONSTANTS
  NumHctxs,     \* the hardware queues are initialised in this order
  NumTokens,    \* KYBER_NUM_DOMAINS: each domain has its tokens
  MaxRequests   \* bound: how many requests are in flight at a time

Hctxs == 1 .. NumHctxs

ASSUME LifecycleAssumption ==
  /\ NumHctxs \in Nat \ {0} /\ NumTokens \in Nat \ {0} /\ MaxRequests \in Nat

VARIABLES
  live,        \* the allocated objects
  schedData,   \* the hardware queues whose hctx->sched_data is set
  caller,      \* what the switching thread is in
  hctx,        \* and for which hardware queue
  place,       \* how far it has come
  failing,     \* init_hctx has failed: the elevator is given up
  inflight,    \* requests with a token that have not completed
  unfinished,  \* requests completed that finish_request has yet to see
  pending,     \* kqd->timer: is it pending
  handler,     \* where kyber_timer_fn stands
  misused      \* an object was used, or freed, that was not allocated

switchVars == <<schedData, caller, hctx, failing>>
requestVars == <<inflight, unfinished>>
timerVars == <<pending, handler>>
lifecycleVars == <<live, switchVars, place, requestVars, timerVars, misused>>

Tokens == [d \in 1 .. NumTokens |-> <<"domain_tokens", d>>]
Maps(h) == [d \in 1 .. NumTokens |-> <<"kcq_map", h, d>>]

\* In the order of their allocation.
QueueObjects == <<<<"eq">>, <<"kqd">>, <<"cpu_latency">>>> \o Tokens
HctxObjects(h) == <<<<"khd", h>>, <<"kcqs", h>>>> \o Maps(h)

\* In the order of exit_sched and exit_hctx; the elevator_queue is the block
\* layer's to free.
QueueFrees == Tokens \o <<<<"cpu_latency">>, <<"kqd">>>>
HctxFrees(h) == Maps(h) \o <<<<"kcqs", h>>, <<"khd", h>>>>

Everything == ToSet(QueueObjects) \cup UNION {ToSet(HctxObjects(h)) : h \in Hctxs}

Callers == {"absent", "init_sched", "undo_sched", "init_hctx", "undo_hctx", "installed",
            "freeze", "exit_hctx", "del_timer", "exit_sched"}

LifecycleInit ==
  /\ live = {} /\ schedData = {}
  /\ caller = "absent" /\ hctx = 1 /\ place = 1 /\ failing = FALSE
  /\ inflight = 0 /\ unfinished = 0
  /\ pending = FALSE /\ handler = "idle"
  /\ misused = FALSE

\* These objects are read or written.
Use(objects) == misused' = (misused \/ ~ objects \subseteq live)

Allocate(o) == live' = live \cup {o} /\ UNCHANGED misused
Free(o) == Use({o}) /\ live' = live \ {o}

Enter(fn, h, at) == caller' = fn /\ hctx' = h /\ place' = at
-----------------------------------------------------------------------------
(* init_sched and init_hctx *)

Switch ==
  /\ caller = "absent"
  /\ Enter("init_sched", 1, 1)
  /\ failing' = FALSE
  /\ UNCHANGED <<live, schedData, requestVars, timerVars, misused>>

\* init_sched and kyber_queue_data_alloc: the next allocation, or the return.
AllocQueueData ==
  /\ caller = "init_sched"
  /\ IF place > Len(QueueObjects)
     THEN /\ Enter("init_hctx", 1, 1)
          /\ UNCHANGED <<live, misused>>
     ELSE \/ Allocate(QueueObjects[place]) /\ Enter("init_sched", 1, place + 1)
          \/ Enter("undo_sched", 1, place - 1) /\ UNCHANGED <<live, misused>>
  /\ UNCHANGED <<schedData, failing, requestVars, timerVars>>

\* Mutants: the loop stops before the first domain's tokens, or does not
\* count down.
UndoQueueDataShort ==
  /\ caller = "undo_sched"
  /\ IF place = 0
     THEN Enter("absent", 1, 1) /\ UNCHANGED <<live, misused>>
     ELSE IF place = 4 THEN Enter("undo_sched", 1, place - 1) /\ UNCHANGED <<live, misused>>
     ELSE Free(QueueObjects[place]) /\ Enter("undo_sched", 1, place - 1)
  /\ UNCHANGED <<schedData, failing, requestVars, timerVars>>

UndoQueueDataStuck ==
  /\ caller = "undo_sched"
  /\ IF place = 0
     THEN Enter("absent", 1, 1) /\ UNCHANGED <<live, misused>>
     ELSE IF place > 3 THEN UNCHANGED <<caller, hctx, place, live, misused>>
     ELSE Free(QueueObjects[place]) /\ Enter("undo_sched", 1, place - 1)
  /\ UNCHANGED <<schedData, failing, requestVars, timerVars>>

\* while (--i >= 0) over the tokens, then err_buckets and err_kqd, and
\* init_sched puts the elevator_queue.
UndoQueueData ==
  /\ caller = "undo_sched"
  /\ IF place = 0
     THEN Enter("absent", 1, 1) /\ UNCHANGED <<live, misused>>
     ELSE Free(QueueObjects[place]) /\ Enter("undo_sched", 1, place - 1)
  /\ UNCHANGED <<schedData, failing, requestVars, timerVars>>

\* init_hctx: the next allocation; at the end kqd->async_depth is read and
\* the hardware queue gets its sched_data.
AllocHctxData ==
  /\ caller = "init_hctx"
  /\ IF place > Len(HctxObjects(hctx))
     THEN /\ schedData' = schedData \cup {hctx}
          /\ IF hctx = NumHctxs THEN Enter("installed", 1, 1) ELSE Enter("init_hctx", hctx + 1, 1)
          /\ Use({<<"kqd">>, <<"khd", hctx>>})
          /\ UNCHANGED live
     ELSE /\ \/ Allocate(HctxObjects(hctx)[place]) /\ Enter("init_hctx", hctx, place + 1)
             \/ Enter("undo_hctx", hctx, place - 1) /\ UNCHANGED <<live, misused>>
          /\ UNCHANGED schedData
  /\ UNCHANGED <<failing, requestVars, timerVars>>

\* while (--i >= 0) over the maps, then err_kcqs and err_khd.  The hardware
\* queues before this one are up, and the block layer takes them down.
UndoHctxData ==
  /\ caller = "undo_hctx"
  /\ IF place = 0
     THEN /\ Enter("exit_hctx", 1, 1) /\ failing' = TRUE
          /\ UNCHANGED <<live, misused>>
     ELSE /\ Free(HctxObjects(hctx)[place]) /\ Enter("undo_hctx", hctx, place - 1)
          /\ UNCHANGED failing
  /\ UNCHANGED <<schedData, requestVars, timerVars>>
-----------------------------------------------------------------------------
(* Leaving Kyber: no request is let in, and the last one is waited for.    *)

Freeze ==
  /\ caller = "installed"
  /\ Enter("freeze", 1, 1)
  /\ UNCHANGED <<live, schedData, failing, requestVars, timerVars, misused>>

Frozen ==
  /\ caller = "freeze"
  /\ inflight = 0 /\ unfinished = 0
  /\ Enter("exit_hctx", 1, 1)
  /\ UNCHANGED <<live, schedData, failing, requestVars, timerVars, misused>>

NextHctx == IF hctx = NumHctxs THEN Enter("del_timer", 1, 1) ELSE Enter("exit_hctx", hctx + 1, 1)

\* exit_hctx: the maps, the kcqs and then the struct they are found through.
ExitHctx ==
  /\ caller = "exit_hctx"
  /\ IF hctx \notin schedData
     THEN NextHctx /\ UNCHANGED <<live, schedData, misused>>
     ELSE IF place > Len(HctxFrees(hctx))
     THEN NextHctx /\ schedData' = schedData \ {hctx} /\ UNCHANGED <<live, misused>>
     ELSE /\ live' = live \ {HctxFrees(hctx)[place]}
          /\ Use({HctxFrees(hctx)[place], <<"khd", hctx>>})
          /\ Enter("exit_hctx", hctx, place + 1)
          /\ UNCHANGED schedData
  /\ UNCHANGED <<failing, requestVars, timerVars>>

\* Mutant: del_timer does not wait for the function.
DeleteTimerOnly ==
  /\ caller = "del_timer"
  /\ Use({<<"kqd">>})
  /\ pending' = FALSE
  /\ Enter("exit_sched", 1, 1)
  /\ UNCHANGED <<live, schedData, failing, requestVars, handler>>

\* exit_sched, up to del_timer_sync.
DeleteTimer ==
  /\ caller = "del_timer"
  /\ handler = "idle"
  /\ Use({<<"kqd">>})
  /\ pending' = FALSE
  /\ Enter("exit_sched", 1, 1)
  /\ UNCHANGED <<live, schedData, failing, requestVars, handler>>

\* The rest of exit_sched: the tokens, the histograms and kqd itself.
ExitSched ==
  /\ caller = "exit_sched"
  /\ IF place > Len(QueueFrees)
     THEN Enter("absent", 1, 1) /\ Free(<<"eq">>)
     ELSE /\ live' = live \ {QueueFrees[place]}
          /\ Use({QueueFrees[place], <<"kqd">>})
          /\ Enter("exit_sched", 1, place + 1)
  /\ UNCHANGED <<schedData, failing, requestVars, timerVars>>
-----------------------------------------------------------------------------
(* Requests and the timer *)

\* A request is inserted and dispatched by some hardware queue.
Dispatch(h) ==
  /\ caller = "installed"
  /\ inflight + unfinished < MaxRequests
  /\ inflight' = inflight + 1
  /\ Use({<<"kqd">>} \cup ToSet(Tokens) \cup ToSet(HctxObjects(h)))
  /\ UNCHANGED <<live, switchVars, place, unfinished, timerVars>>

\* completed_request: the samples are recorded and the timer is started, but
\* not for a request of the domain KYBER_OTHER.
Completed ==
  /\ inflight > 0
  /\ inflight' = inflight - 1 /\ unfinished' = unfinished + 1
  /\ \/ pending' = TRUE /\ Use({<<"kqd">>, <<"cpu_latency">>})
     \/ UNCHANGED <<pending, misused>>
  /\ UNCHANGED <<live, switchVars, place, handler>>

\* finish_request: the token is given back.
Finished ==
  /\ unfinished > 0
  /\ unfinished' = unfinished - 1
  /\ Use({<<"kqd">>} \cup ToSet(Tokens))
  /\ UNCHANGED <<live, switchVars, place, inflight, timerVars>>

\* kyber_timer_fn sums the histograms ...
TimerRuns ==
  /\ pending /\ handler = "idle"
  /\ pending' = FALSE /\ handler' = "summing"
  /\ UNCHANGED <<live, switchVars, place, requestVars, misused>>

Sum ==
  /\ handler = "summing" /\ handler' = "resizing"
  /\ Use({<<"kqd">>, <<"cpu_latency">>})
  /\ UNCHANGED <<live, switchVars, place, requestVars, pending>>

\* ... and resizes the domains' tokens.
Resize ==
  /\ handler = "resizing" /\ handler' = "idle"
  /\ Use({<<"kqd">>} \cup ToSet(Tokens))
  /\ UNCHANGED <<live, switchVars, place, requestVars, pending>>
-----------------------------------------------------------------------------
SwitchStep ==
  \/ AllocQueueData \/ UndoQueueData \/ AllocHctxData \/ UndoHctxData
  \/ Frozen \/ ExitHctx \/ DeleteTimer \/ ExitSched

LifecycleNext ==
  \/ Switch \/ Freeze \/ SwitchStep
  \/ \E h \in Hctxs : Dispatch(h)
  \/ Completed \/ Finished
  \/ TimerRuns \/ Sum \/ Resize

\* The switching thread goes on when it can, the device completes what it was
\* given and a timer function runs to its end.
Fairness ==
  /\ WF_lifecycleVars(SwitchStep)
  /\ WF_lifecycleVars(Completed) /\ WF_lifecycleVars(Finished)
  /\ WF_lifecycleVars(Sum) /\ WF_lifecycleVars(Resize)

LifecycleSpec == LifecycleInit /\ [][LifecycleNext]_lifecycleVars /\ Fairness
-----------------------------------------------------------------------------
(* Properties *)

\* Whichever allocation fails, for whichever hardware queue: without Kyber
\* nothing of it is left allocated, and with it all of it is.
AllOrNothing ==
  /\ caller \in Callers
  /\ caller = "absent" => live = {} /\ schedData = {}
  /\ caller = "installed" => live = Everything /\ schedData = Hctxs

\* Nothing is used before it is allocated or after it is freed, or freed
\* twice: neither by the paths that take things back, nor by completions and
\* the timer function, which know nothing of the switch.
NothingMisused == ~ misused

\* A switch ends, one way or the other: the wait for the timer function and
\* the loops that take things back do not go on for ever.
SwitchEnds == caller \notin {"absent", "installed"} ~> caller \in {"absent", "installed"}
=============================================================================
