------------------------------ MODULE RunQueue ------------------------------
(***************************************************************************)
(* The run queue both schedulers share (schedule_rr.c and schedule_sjf.c   *)
(* carry the same code): a circular doubly linked list threaded through    *)
(* the tasks' own next/prev pointers, entered at rq->head, with a counter  *)
(* rq->nr_running.  A task that is not queued has NULL pointers; cpu.c     *)
(* tests current->next against NULL to learn whether current is queued.    *)
(***************************************************************************)
EXTENDS Integers, FiniteSets

CONSTANTS
  Task,      \* every task_struct that may ever be linked
  SeedTask,  \* the task initschedule() seeds the queue with; rq->head forever
  Null       \* the NULL pointer

ASSUME QueueAssumption ==
  /\ SeedTask \in Task
  /\ Null \notin Task
  /\ IsFiniteSet(Task)

VARIABLES
  next, prev,   \* the link fields of every task_struct
  nr_running    \* rq->nr_running

queueVars == <<next, prev, nr_running>>

Pointer == Task \cup {Null}

QueueTypeOK ==
  /\ next \in [Task -> Pointer]
  /\ prev \in [Task -> Pointer]
  /\ nr_running \in Int

Queued(p) == next[p] # Null

QueuedTasks == {p \in Task : Queued(p)}

-----------------------------------------------------------------------------

(* initschedule(): the seed is linked to itself.                           *)
InitSchedule ==
  /\ next = [p \in Task |-> IF p = SeedTask THEN SeedTask ELSE Null]
  /\ prev = [p \in Task |-> IF p = SeedTask THEN SeedTask ELSE Null]
  /\ nr_running = 1

(* Slips the code could have had, as mutants of the operations below.      *)
InsertAtTail(p) ==
  /\ next' = [next EXCEPT ![p] = SeedTask, ![prev[SeedTask]] = p]
  /\ prev' = [prev EXCEPT ![p] = prev[SeedTask], ![SeedTask] = p]
  /\ nr_running' = nr_running + 1

UnlinkForwardOnly(p) ==
  /\ next' = [next EXCEPT ![prev[p]] = next[p], ![p] = Null]
  /\ prev' = [prev EXCEPT ![p] = Null]
  /\ nr_running' = nr_running - 1

(* wake_up_new_task() and activate_task(): the same five assignments, which *)
(* put p right behind the head, in front of everybody already queued.      *)
InsertAfterHead(p) ==
  /\ next' = [next EXCEPT ![p] = next[SeedTask], ![SeedTask] = p]
  /\ prev' = [prev EXCEPT ![p] = SeedTask, ![next[SeedTask]] = p]
  /\ nr_running' = nr_running + 1

(* deactivate_task(): unlink p and clear its pointers.  That p is linked is *)
(* the caller's business: p->prev is dereferenced unconditionally.          *)
Unlink(p) ==
  /\ next' = [next EXCEPT ![prev[p]] = next[p], ![p] = Null]
  /\ prev' = [prev EXCEPT ![next[p]] = prev[p], ![p] = Null]
  /\ nr_running' = nr_running - 1

-----------------------------------------------------------------------------

(* The queue under its weakest client: tasks that are off the queue may be *)
(* inserted, queued tasks other than the head unlinked, and the head only  *)
(* once it is alone (init exits only when it has no children left).        *)
Insert(p) ==
  /\ Queued(SeedTask)
  /\ ~Queued(p)
  /\ InsertAfterHead(p)

Remove(p) ==
  /\ Queued(p)
  /\ p = SeedTask => next[SeedTask] = SeedTask
  /\ Unlink(p)

QueueNext == \E p \in Task : Insert(p) \/ Remove(p)

QueueSpec == InitSchedule /\ [][QueueNext]_queueVars

-----------------------------------------------------------------------------

(* next and prev are inverse to each other on the queued tasks, and a task *)
(* has either both links or none.                                          *)
LinksInverse ==
  \A p \in Task :
    /\ next[p] = Null <=> prev[p] = Null
    /\ next[p] # Null => prev[next[p]] = p
    /\ prev[p] # Null => next[prev[p]] = p

(* The head leaves last: while anything is queued, the head is.            *)
HeadQueued == QueuedTasks # {} => Queued(SeedTask)

(* nr_running, on which schedule() and the main loop branch, is the number *)
(* of tasks that are linked.                                               *)
CountExact == nr_running = Cardinality(QueuedTasks)

(* There is one ring: whoever follows next from the head and misses nobody *)
(* on the way has seen every queued task.  (Inverse links alone would allow *)
(* a second ring, and the head to leave a queue that is not empty.)        *)
OneRing ==
  \A S \in SUBSET QueuedTasks :
    SeedTask \in S /\ (\A p \in S : next[p] \in S) => S = QueuedTasks

(* The conjunction every operation relies on when it follows a pointer: the *)
(* inductive invariant of QueueSpec.                                       *)
RingLinks == LinksInverse /\ HeadQueued /\ CountExact /\ OneRing
=============================================================================
