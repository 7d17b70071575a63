---------------------------- MODULE ShortestJob -----------------------------
(***************************************************************************)
(* The virtual machine under the shortest-job policy of schedule_sjf.c.    *)
(*                                                                         *)
(* Times are in jiffies, and exp_burst (a double in the code) is in fixed  *)
(* point with Scale units to the jiffy; the policy's own update divides by *)
(* three, so a power of three as Scale keeps the first updates exact.      *)
(* start_cpu_time is only ever read for the current task, as the start of  *)
(* its run: what is kept is how long that run has lasted.                  *)
(* What get_standard_goodness() computes, (1 + burst)/(1 + least burst),   *)
(* is 1 for the tasks with the least burst and above 1 for the others, and *)
(* 0 for a task it has not yet looked at: of a stale sd_goodness only      *)
(* whether it is at most 1 can matter, and that is what is kept.           *)
(* init's burst is never looked at, and none is kept.                      *)
(***************************************************************************)
EXTENDS VirtualCPU, RunQueueOrder

CONSTANTS
  Scale,   \* units of exp_burst in a jiffy
  MaxRun   \* bound: an uninterrupted run is counted up to this many jiffies

ASSUME JobAssumption == Scale \in Nat \ {0} /\ MaxRun \in Nat \ {0}

VARIABLES
  on_cpu,          \* jiffies since current (a process) was switched in:
                   \* sched_clock() - current->start_cpu_time
  exp_burst,       \* expected burst of each process
  sd_goodness_low  \* its sd_goodness, as last computed, is at most 1

burstVars == <<on_cpu, exp_burst, sd_goodness_low>>
jobVars == <<cpuVars, burstVars>>

JobInit ==
  /\ CpuInit
  /\ on_cpu = 0
  /\ exp_burst = [t \in Process |-> 0]
  /\ sd_goodness_low = [t \in Process |-> TRUE]

-----------------------------------------------------------------------------

(* The queued tasks after the head, in the order the searches visit them.  *)
Others == 2 .. nr_running

(* Mutant: the weights of the average are mixed up.                        *)
BurstDifference ==
  IF current \in Process
  THEN [exp_burst EXCEPT ![current] = (2 * Scale * on_cpu - @) \div 3]
  ELSE exp_burst

(* exp_burst after the update at the head of schedule(), made for the task *)
(* that leaves the CPU: (prev_run + A * exp_burst) / (1 + A), with A = 0.5.*)
Burst ==
  IF current \in Process
  THEN [exp_burst EXCEPT ![current] = (2 * Scale * on_cpu + @) \div 3]
  ELSE exp_burst

(* get_min_exp_burst(): the first task with the least expected burst.      *)
MinBurst(burst) ==
  Walk[CHOOSE i \in Others :
         \A j \in Others : \/ burst[Walk[i]] < burst[Walk[j]]
                           \/ burst[Walk[i]] = burst[Walk[j]] /\ i <= j]

(* get_standard_goodness(): the search is seeded with the sd_goodness the  *)
(* first task was given by an earlier search; only if that is above 1 can  *)
(* any task computed now beat it, and then the least burst wins.           *)
StandardGoodness(burst) ==
  IF sd_goodness_low[Walk[2]] THEN Walk[2] ELSE MinBurst(burst)

(* schedule().  The task that stays on the CPU keeps its start_cpu_time    *)
(* ("in case same process"); with init alone none is recorded, nor needed. *)
JobSchedule ==
  /\ pc = "schedule"
  /\ exp_burst' = Burst
  /\ IF nr_running = 1
     THEN /\ Switch(SeedTask)
          /\ on_cpu' = 0
          /\ UNCHANGED sd_goodness_low
     ELSE IF ~Live(SeedTask)
     THEN Fault /\ UNCHANGED <<on_cpu, sd_goodness_low>>
     ELSE LET chosen == StandardGoodness(Burst)
              least == Burst[MinBurst(Burst)]
          IN /\ sd_goodness_low' =
                  [t \in Process |-> IF Queued(t) THEN Burst[t] = least
                                                  ELSE sd_goodness_low[t]]
             /\ on_cpu' = IF chosen = current THEN on_cpu ELSE 0
             /\ Switch(chosen)

(* Everything else leaves the policy's data alone, but for jiffies, which  *)
(* interrupt() counts up at each schedule tick.  sched_fork() zeroes what  *)
(* JobInit has already zeroed for a task not yet born.                     *)
Step ==
  /\ CpuStep
  /\ on_cpu' = IF pc = "tick" /\ timer = 1 /\ current \in Process /\ on_cpu < MaxRun
               THEN on_cpu + 1 ELSE on_cpu
  /\ UNCHANGED <<exp_burst, sd_goodness_low>>

JobNext == Step \/ JobSchedule

JobSpec == JobInit /\ [][JobNext]_jobVars /\ WF_jobVars(JobNext)

JobTypeOK ==
  /\ VirtualCPUTypeOK
  /\ on_cpu \in 0 .. MaxRun
  /\ exp_burst \in [Process -> Nat]
  /\ sd_goodness_low \in [Process -> BOOLEAN]

-----------------------------------------------------------------------------

(* "chooses process with min standard goodness": the process chosen among  *)
(* several has the least expected burst.                                   *)
ShortestFirst ==
  [][JobSchedule /\ pc' # "fault" /\ nr_running > 1 =>
       \A t \in Process : Queued(t) => exp_burst'[current'] <= exp_burst'[t]]_jobVars
=============================================================================
