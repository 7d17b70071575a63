----------------------------- MODULE VirtualCPU -----------------------------
(***************************************************************************)
(* The virtual machine of project_2/Scheduler_VM/cpu.c without its         *)
(* scheduling policy: one loop that runs a cycle of the current task, then *)
(* looks at the two "interrupts" (the schedule tick and the IO event) and, *)
(* when current asked for it, calls schedule().  schedule() itself is the  *)
(* policy's: a module that EXTENDS this one supplies the step at pc =      *)
(* "schedule" out of Switch, SwitchNothing and Fault.                      *)
(*                                                                         *)
(* The machine is single threaded.  What is hard about it is the number of *)
(* things one pass of the loop may do, in this order: end or work the      *)
(* current task, put it to sleep, fork children, tick, wake sleepers,      *)
(* reschedule.  Each is a step here.                                       *)
(***************************************************************************)
EXTENDS RunQueue, Sequences

CONSTANTS
  N,            \* number of NEWPROCESS commands of a profile
  Profiles,     \* the profiles readProfile() may be given
  EndTime,      \* endtime, in clock ticks
  Horizon,      \* the clock saturates here: every time of a profile has passed
  TickLen,      \* clock ticks per schedule tick, MS_TO_TICKS(HZ_TO_MS)
  IoDelays,     \* results of MS_TO_TICKS(rand() % 1000 + 50)
  WaitDelays    \* results of MS_TO_TICKS(rand() % (...) + 5) in context_switch

(* Processes are numbered by the order of their NEWPROCESS commands, which *)
(* is the order of each parent's list of children still to be spawned.     *)
Process == 1 .. N
InitTask == 0
Idle == N + 1
NoTime == -1     \* kill_time and work_duration of a task that has none
Unset == -1      \* intTimer and intWaitTimer when not running

ThreadType == {"INIT", "INTERACTIVE", "NONINTERACTIVE"}

ThreadInfo == [parent : Task, thread_type : ThreadType \ {"INIT"},
               spawn_time : Nat, kill_time : Nat \cup {NoTime},
               work_duration : Nat \cup {NoTime}]

ASSUME MachineAssumption ==
  /\ N \in Nat
  /\ Task = 0 .. N
  /\ SeedTask = InitTask
  /\ Null \notin 0 .. N + 1
  /\ EndTime \in Nat /\ Horizon \in Nat /\ EndTime <= Horizon
  /\ TickLen \in Nat \ {0}
  /\ IoDelays \subseteq Nat \ {0} /\ IoDelays # {}
  /\ WaitDelays \subseteq Nat \ {0} /\ WaitDelays # {}

(* readProfile() gives every process a parent named before it (the task    *)
(* whose SPAWN block it stands in, or init).                               *)
ASSUME ProfileAssumption ==
  /\ Profiles \subseteq [Process -> ThreadInfo]
  /\ \A p \in Profiles, t \in Process :
       /\ p[t].parent < t
       /\ p[t].spawn_time <= Horizon
       /\ p[t].kill_time <= Horizon

VARIABLES
  pc,               \* where the loop of runcpu() stands
  ret,              \* where the call of schedule() in progress returns to
  current,          \* the task on the CPU; Idle between a death and schedule()
  thread_info,      \* the static part of each task's thread_info
  life,             \* is the task_struct not yet created, live or freed
  kill, children, work_duration,      \* the rest of thread_info
  need_reschedule,  \* task_struct field of every task and of idle
  intwaitlist,      \* tasks sleeping on IO, in list order
  timer, intTimer, intWaitTimer, clocktick

taskVars == <<thread_info, life, kill, children, work_duration>>
timerVars == <<timer, intTimer, intWaitTimer, clocktick>>
cpuVars == <<pc, ret, current, taskVars, need_reschedule, intwaitlist,
             timerVars, queueVars>>

PC == {"schedule", "cycle", "work", "sleep", "arm", "spawn", "spawn_init",
       "tick", "io", "wake", "check", "end", "halt", "fault"}

VirtualCPUTypeOK ==
  /\ QueueTypeOK
  /\ pc \in PC
  /\ ret \in {"cycle", "io", "end"}
  /\ current \in Task \cup {Idle}
  /\ thread_info \in [Task -> [parent : Pointer, thread_type : ThreadType,
                               spawn_time : Nat,
                               kill_time : Nat \cup {NoTime},
                               work_duration : Nat \cup {NoTime}]]
  /\ life \in [Task -> {"unborn", "live", "freed"}]
  /\ kill \in [Task -> BOOLEAN]
  /\ children \in [Task -> Int]
  /\ work_duration \in [Task -> Nat \cup {NoTime}]
  /\ need_reschedule \in [Task \cup {Idle} -> BOOLEAN]
  /\ intwaitlist \in Seq(Task)
  /\ timer \in 1 .. TickLen
  /\ intTimer \in (Nat \ {0}) \cup {Unset}
  /\ intWaitTimer \in Nat \cup {Unset}
  /\ clocktick \in 0 .. Horizon

-----------------------------------------------------------------------------
(* Reading the machine.                                                    *)

Live(t) == life[t] = "live"

Type(t) == thread_info[t].thread_type

Parent(t) == thread_info[t].parent

Passed(time) == clocktick >= time

(* Mutant: the parent's exit signal does not reach the child.              *)
EndingAlone(t) ==
  \/ kill[t]
  \/ thread_info[t].kill_time # NoTime /\ Passed(thread_info[t].kill_time)
  \/ work_duration[t] = 0

(* The condition of taskEnd(): an exit signal for task t, from whichever   *)
(* of its four sources.                                                    *)
Ending(t) ==
  \/ kill[t]
  \/ Parent(t) # Null /\ kill[Parent(t)]
  \/ thread_info[t].kill_time # NoTime /\ Passed(thread_info[t].kill_time)
  \/ work_duration[t] = 0

(* The children of p that spawnChildren(p) would fork now.                 *)
Due(p) ==
  {c \in Process : Parent(c) = p /\ life[c] = "unborn"
                     /\ Passed(thread_info[c].spawn_time)}

(* clocktick++; past Horizon the count is of no consequence, because it is *)
(* only ever compared with times up to Horizon.                            *)
Advance == clocktick' = IF clocktick < Horizon THEN clocktick + 1 ELSE clocktick

(* Dereferencing NULL or freed memory: the program's behaviour ends here.  *)
Fault ==
  /\ pc' = "fault"
  /\ UNCHANGED <<ret, current, taskVars, need_reschedule, intwaitlist,
                 timerVars, queueVars>>

-----------------------------------------------------------------------------
(* main(): __init_sched(), readProfile(), then the first call of schedule. *)

InitInfo == [parent |-> Null, thread_type |-> "INIT", spawn_time |-> 0,
             kill_time |-> NoTime, work_duration |-> NoTime]

CpuInit ==
  /\ InitSchedule
  /\ pc = "schedule"
  /\ ret = "cycle"
  /\ current = Idle
  /\ \E p \in Profiles :
       thread_info = [t \in Task |-> IF t = InitTask THEN InitInfo ELSE p[t]]
  /\ life = [t \in Task |-> IF t = InitTask THEN "live" ELSE "unborn"]
  /\ kill = [t \in Task |-> FALSE]
  /\ children = [t \in Task |-> 0]
  /\ work_duration = [t \in Task |-> thread_info[t].work_duration]
  /\ need_reschedule = [t \in Task \cup {Idle} |-> FALSE]
  /\ intwaitlist = <<>>
  /\ timer = TickLen
  /\ intTimer = Unset
  /\ intWaitTimer = Unset
  /\ clocktick = 0

-----------------------------------------------------------------------------
(* What schedule() is made of.                                             *)

(* Mutant: the request is not taken back.                                  *)
SwitchKeepingRequest(t) ==
  /\ current' = t
  /\ IF Type(t) = "INTERACTIVE" THEN intWaitTimer' \in WaitDelays
                                ELSE UNCHANGED intWaitTimer
  /\ pc' = ret
  /\ UNCHANGED <<ret, need_reschedule, taskVars, intwaitlist, timer, intTimer,
                 clocktick, queueVars>>

(* current->need_reschedule = 0; ...; context_switch(t).  Only switching   *)
(* to an interactive task draws a new intWaitTimer, the one such timer     *)
(* there is.                                                               *)
Switch(t) ==
  /\ need_reschedule' = [need_reschedule EXCEPT ![current] = FALSE]
  /\ current' = t
  /\ IF Type(t) = "INTERACTIVE" THEN intWaitTimer' \in WaitDelays
                                ELSE UNCHANGED intWaitTimer
  /\ pc' = ret
  /\ UNCHANGED <<ret, taskVars, intwaitlist, timer, intTimer, clocktick,
                 queueVars>>

-----------------------------------------------------------------------------
(* cycle()                                                                 *)

(* Mutant: idle is not put in place of the dead task.                      *)
ExitInPlace ==
  IF ~Queued(current)
  THEN Fault
  ELSE
    /\ Unlink(current)
    /\ life' = [life EXCEPT ![current] = "freed"]
    /\ children' = IF Parent(current) = Null THEN children
                   ELSE [children EXCEPT ![Parent(current)] = @ - 1]
    /\ kill' = [kill EXCEPT ![current] = TRUE]
    /\ pc' = "tick"
    /\ UNCHANGED <<ret, current, thread_info, work_duration, need_reschedule,
                   intwaitlist, timerVars>>

(* deactivate_task(current); killtask(&current).  Idle takes the place of  *)
(* the dead task and asks for schedule() if anybody is left to run.        *)
Exit ==
  IF ~Queued(current)
  THEN Fault
  ELSE
    /\ Unlink(current)
    /\ life' = [life EXCEPT ![current] = "freed"]
    /\ children' = IF Parent(current) = Null THEN children
                   ELSE [children EXCEPT ![Parent(current)] = @ - 1]
    /\ kill' = [kill EXCEPT ![current] = TRUE]
    /\ need_reschedule' =
         [need_reschedule EXCEPT ![Idle] = @ \/ nr_running' # 0]
    /\ current' = Idle
    /\ pc' = "tick"
    /\ UNCHANGED <<ret, thread_info, work_duration, intwaitlist, timerVars>>

(* Mutant: children are not waited for.                                    *)
CheckEndOrphaning ==
  /\ pc = "cycle"
  /\ IF Ending(current)
     THEN Exit
     ELSE /\ pc' = "work"
          /\ UNCHANGED <<ret, current, thread_info, life, kill, children,
                         work_duration, need_reschedule, intwaitlist,
                         timerVars, queueVars>>

(* taskEnd() at the head of the cycle.  A task told to end that still has  *)
(* children is only marked, and goes on working.                           *)
CheckEnd ==
  /\ pc = "cycle"
  /\ IF Ending(current) /\ children[current] = 0
     THEN Exit
     ELSE /\ kill' = [kill EXCEPT ![current] = @ \/ Ending(current)]
          /\ pc' = "work"
          /\ UNCHANGED <<ret, current, thread_info, life, children,
                         work_duration, need_reschedule, intwaitlist,
                         timerVars, queueVars>>

(* One tick of work; a task whose work is now done meets taskEnd() again,  *)
(* with work_duration = 0 for a reason to end.  (init has no work to do:   *)
(* its work_duration stays NoTime, as that of every endless task.)         *)
Work ==
  /\ pc = "work"
  /\ LET left == IF work_duration[current] > 0 THEN work_duration[current] - 1
                                               ELSE work_duration[current]
     IN IF left = 0 /\ children[current] = 0
        THEN Exit
        ELSE /\ work_duration' = [work_duration EXCEPT ![current] = left]
             /\ kill' = [kill EXCEPT ![current] = @ \/ left = 0]
             /\ pc' = IF Type(current) = "INTERACTIVE" THEN "sleep" ELSE "arm"
             /\ UNCHANGED <<ret, current, thread_info, life, children,
                            need_reschedule, intwaitlist, timerVars, queueVars>>

(* Mutants: a sleeper that stays on the run queue, or that does not ask to *)
(* be rescheduled.                                                         *)
SleepQueued ==
  /\ pc = "sleep"
  /\ intWaitTimer' = IF intWaitTimer > 0 THEN intWaitTimer - 1 ELSE Unset
  /\ intwaitlist' = IF intWaitTimer = 1 THEN Append(intwaitlist, current)
                                        ELSE intwaitlist
  /\ need_reschedule' = [need_reschedule EXCEPT ![current] = @ \/ intWaitTimer = 1]
  /\ pc' = "arm"
  /\ UNCHANGED <<ret, current, taskVars, timer, intTimer, clocktick, queueVars>>

SleepSilently ==
  /\ pc = "sleep"
  /\ IF intWaitTimer # 1
     THEN /\ intWaitTimer' = IF intWaitTimer > 0 THEN intWaitTimer - 1 ELSE Unset
          /\ UNCHANGED <<intwaitlist, queueVars>>
          /\ pc' = "arm"
     ELSE IF ~Queued(current)
     THEN pc' = "fault" /\ UNCHANGED <<intWaitTimer, intwaitlist, queueVars>>
     ELSE /\ intWaitTimer' = Unset
          /\ intwaitlist' = Append(intwaitlist, current)
          /\ Unlink(current)
          /\ pc' = "arm"
  /\ UNCHANGED <<ret, current, taskVars, need_reschedule, timer, intTimer,
                 clocktick>>

(* An interactive task counts down to its next wait for IO and goes to     *)
(* sleep on expiry: to the end of the wait list, off the run queue.        *)
Sleep ==
  /\ pc = "sleep"
  /\ LET left == IF intWaitTimer > 0 THEN intWaitTimer - 1 ELSE intWaitTimer
     IN IF left # 0
        THEN /\ intWaitTimer' = left
             /\ pc' = "arm"
             /\ UNCHANGED <<ret, current, taskVars, need_reschedule,
                            intwaitlist, timer, intTimer, clocktick, queueVars>>
        ELSE IF ~Queued(current)
        THEN Fault
        ELSE /\ intWaitTimer' = Unset
             /\ intwaitlist' = Append(intwaitlist, current)
             /\ Unlink(current)
             /\ need_reschedule' = [need_reschedule EXCEPT ![current] = TRUE]
             /\ pc' = "arm"
             /\ UNCHANGED <<ret, current, taskVars, timer, intTimer, clocktick>>

(* Start the IO event's timer unless it is already running.                *)
Arm ==
  /\ pc = "arm"
  /\ IF intTimer = Unset THEN intTimer' \in IoDelays ELSE UNCHANGED intTimer
  /\ pc' = "spawn"
  /\ UNCHANGED <<ret, current, taskVars, need_reschedule, intwaitlist, timer,
                 intWaitTimer, clocktick, queueVars>>

(* Mutant: the parent's count of children is not kept.                     *)
ForkUncounted(c, p) ==
  /\ life' = [life EXCEPT ![c] = "live"]
  /\ kill' = [kill EXCEPT ![c] = FALSE]
  /\ children' = [children EXCEPT ![c] = 0]
  /\ InsertAfterHead(c)
  /\ need_reschedule' = [need_reschedule EXCEPT ![current] = TRUE]
  /\ UNCHANGED <<ret, current, thread_info, work_duration, intwaitlist, timerVars>>

(* forktask(): create child c of p and queue it.                           *)
Fork(c, p) ==
  /\ life' = [life EXCEPT ![c] = "live"]
  /\ kill' = [kill EXCEPT ![c] = FALSE]
  /\ children' = [children EXCEPT ![c] = 0, ![p] = @ + 1]
  /\ InsertAfterHead(c)
  /\ need_reschedule' = [need_reschedule EXCEPT ![current] = TRUE]
  /\ UNCHANGED <<ret, current, thread_info, work_duration, intwaitlist, timerVars>>

(* spawnChildren(p): the children that are due, in the order of the list.  *)
SpawnChildren(p, here, then) ==
  /\ pc = here
  /\ \/ \E c \in Due(p) :
          /\ \A d \in Due(p) : c <= d
          /\ Fork(c, p)
          /\ pc' = here
     \/ /\ Due(p) = {}
        /\ pc' = then
        /\ UNCHANGED <<ret, current, taskVars, need_reschedule, intwaitlist,
                       timerVars, queueVars>>

Spawn ==
  \/ SpawnChildren(current, "spawn", "spawn_init")
  \/ SpawnChildren(InitTask, "spawn_init", "tick")

-----------------------------------------------------------------------------
(* interrupt()                                                             *)

OnQueue(t) == t # Idle /\ Queued(t)

(* Mutant: the tick timer is not set anew.                                 *)
TickOnce ==
  /\ pc = "tick"
  /\ timer' = IF timer > 0 THEN timer - 1 ELSE timer
  /\ IF timer <= 1 /\ OnQueue(current) THEN pc' = "schedule" /\ ret' = "io"
                                       ELSE pc' = "io" /\ UNCHANGED ret
  /\ UNCHANGED <<current, taskVars, need_reschedule, intwaitlist, intTimer,
                 intWaitTimer, clocktick, queueVars>>

(* The schedule tick: schedule() is called at once, but only for a task    *)
(* that is still on the run queue.                                         *)
Tick ==
  /\ pc = "tick"
  /\ IF timer > 1
     THEN /\ timer' = timer - 1
          /\ pc' = "io"
          /\ UNCHANGED ret
     ELSE /\ timer' = TickLen
          /\ IF OnQueue(current) THEN pc' = "schedule" /\ ret' = "io"
                                 ELSE pc' = "io" /\ UNCHANGED ret
  /\ UNCHANGED <<current, taskVars, need_reschedule, intwaitlist, intTimer,
                 intWaitTimer, clocktick, queueVars>>

IoEvent ==
  /\ pc = "io"
  /\ LET left == IF intTimer > 0 THEN intTimer - 1 ELSE intTimer
     IN IF left = 0 THEN intTimer' = Unset /\ pc' = "wake"
                    ELSE intTimer' = left /\ pc' = "check"
  /\ UNCHANGED <<ret, current, taskVars, need_reschedule, intwaitlist, timer,
                 intWaitTimer, clocktick, queueVars>>

(* Mutant: only the first sleeper is woken.                                *)
WakeFirst ==
  /\ pc = "wake"
  /\ IF intwaitlist # <<>>
     THEN /\ InsertAfterHead(Head(intwaitlist))
          /\ intwaitlist' = Tail(intwaitlist)
     ELSE UNCHANGED <<intwaitlist, queueVars>>
  /\ need_reschedule' = [need_reschedule EXCEPT ![current] = TRUE]
  /\ pc' = "check"
  /\ UNCHANGED <<ret, current, taskVars, timerVars>>

(* Every sleeper is activated, from the head of the wait list; then the    *)
(* task on the CPU, which may be a different one since the tick, is asked  *)
(* to reschedule.                                                          *)
Wake ==
  /\ pc = "wake"
  /\ IF intwaitlist # <<>>
     THEN /\ InsertAfterHead(Head(intwaitlist))
          /\ intwaitlist' = Tail(intwaitlist)
          /\ UNCHANGED <<pc, need_reschedule>>
     ELSE /\ need_reschedule' = [need_reschedule EXCEPT ![current] = TRUE]
          /\ pc' = "check"
          /\ UNCHANGED <<intwaitlist, queueVars>>
  /\ UNCHANGED <<ret, current, taskVars, timerVars>>

-----------------------------------------------------------------------------
(* runcpu()                                                                *)

Check ==
  /\ pc = "check"
  /\ Advance
  /\ IF need_reschedule[current] THEN pc' = "schedule" /\ ret' = "end"
                                 ELSE pc' = "end" /\ UNCHANGED ret
  /\ UNCHANGED <<current, taskVars, need_reschedule, intwaitlist, timer,
                 intTimer, intWaitTimer, queueVars>>

(* Mutant: the end of the simulation is never signalled.                   *)
EndCycleSilently ==
  /\ pc = "end"
  /\ pc' = IF nr_running # 0 THEN "cycle" ELSE "halt"
  /\ UNCHANGED <<ret, current, taskVars, need_reschedule, intwaitlist,
                 timerVars, queueVars>>

(* END_CYCLE: past endtime init is told to end, and through Ending its     *)
(* whole family; the loop runs while anything is queued.  After init's own *)
(* end its freed kill flag is read here; whatever is read, the loop ends.  *)
EndCycle ==
  /\ pc = "end"
  /\ kill' = [kill EXCEPT ![InitTask] = @ \/ Passed(EndTime)]
  /\ pc' = IF nr_running # 0 THEN "cycle" ELSE "halt"
  /\ UNCHANGED <<ret, current, thread_info, life, children, work_duration,
                 need_reschedule, intwaitlist, timerVars, queueVars>>

CpuStep ==
  \/ CheckEnd \/ Work \/ Sleep \/ Arm \/ Spawn
  \/ Tick \/ IoEvent \/ Wake \/ Check \/ EndCycle

-----------------------------------------------------------------------------
(* Properties of the machine that no policy may break.                     *)

(* cpu.c uses the run queue as RunQueue demands: nobody is activated who   *)
(* is already queued (the wait list and the spawn lists never name such a  *)
(* task), nobody is deactivated who is not, and the head leaves last.      *)
RunQueueContract == InitSchedule /\ [][QueueNext]_queueVars

Sleeping == {intwaitlist[i] : i \in DOMAIN intwaitlist}

(* A live task is in exactly one place: linked into the run queue, or on   *)
(* the wait list, and there once.  Sleep, Wake, Exit and Fork each move a  *)
(* task with several assignments in two data structures.                   *)
TaskPlaced ==
  /\ \A t \in Task : Live(t) <=> (Queued(t) \/ t \in Sleeping)
  /\ \A t \in Sleeping : ~Queued(t)
  /\ \A i, j \in DOMAIN intwaitlist :
       intwaitlist[i] = intwaitlist[j] => i = j

LiveChildren(p) == {c \in Process : Parent(c) = p /\ Live(c)}

(* thread_info->parent never dangles: taskEnd() reads parent->kill and     *)
(* killtask() writes parent->children, so a parent must outlive its        *)
(* children.  That rests on the children counter being exact.              *)
FamilyIntact ==
  /\ \A t \in Process : Live(t) => Live(Parent(t))
  /\ \A p \in Task : Live(p) => children[p] = Cardinality(LiveChildren(p))

(* Nobody sleeps without an IO event to come: the one shared intTimer is   *)
(* running whenever somebody is on the wait list, except while the event   *)
(* is being served and before Arm in the cycle somebody fell asleep in.    *)
SleeperWillWake ==
  intwaitlist # <<>> => intTimer > 0 \/ pc \in {"wake", "arm"}

(* A request to reschedule is never left standing on a task: at the head   *)
(* of a cycle no live task carries one (it would cost that task its next   *)
(* turn), whichever of tick, fork, sleep and IO event came together.       *)
NoStaleRequest ==
  pc = "cycle" => \A t \in Task \cup {Idle} : need_reschedule[t] =>
                       t # Idle /\ ~Live(t)

(* A cycle is run for a task that is on the run queue; never for idle,     *)
(* which has no thread type and whose kill_time was never set.             *)
CurrentRunnable ==
  pc \in {"cycle", "work", "sleep"} => current # Idle /\ Queued(current)

(* Memory is only misused, if at all, once init is gone and the machine is *)
(* about to stop: an IO event that coincides with init's end still calls   *)
(* schedule().                                                             *)
FaultOnlyAtTheEnd == pc = "fault" => nr_running = 0

(* Both: whatever the policy chooses, only tasks that can run do, and they *)
(* touch no memory that is gone.                                           *)
MachineSound == CurrentRunnable /\ FaultOnlyAtTheEnd

(* The machine shuts down: past endtime the exit signal reaches every task *)
(* of the family, sleepers included, and they end leaves first, init last. *)
(* A run that dies with tasks left does not count as one that ends.        *)
ShutsDown == <>(pc \in {"halt", "fault"} /\ nr_running = 0)

Status(t) ==
  CASE life[t] = "unborn" -> "unborn"
    [] life[t] = "freed" -> "gone"
    [] life[t] = "live" -> IF Queued(t) THEN "ready" ELSE "asleep"

Processes == INSTANCE ProcessTree WITH
  Root <- SeedTask,
  Nobody <- Null,
  parent <- [t \in Task |-> Parent(t)],
  status <- [t \in Task |-> Status(t)],
  running <- IF current = Idle THEN Null ELSE current

(* The machine implements the process tree.                                *)
ImplementsProcessTree == Processes!Tree
=============================================================================
