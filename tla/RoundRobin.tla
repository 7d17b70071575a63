----------------------------- MODULE RoundRobin -----------------------------
(***************************************************************************)
(* The virtual machine under the round-robin policy of schedule_rr.c.  The *)
(* policy keeps one pointer, the static local nxt of schedule(): the task  *)
(* whose turn comes after the current one's.                               *)
(***************************************************************************)
EXTENDS VirtualCPU

VARIABLE nxt

vars == <<cpuVars, nxt>>

Init == CpuInit /\ nxt = Null

-----------------------------------------------------------------------------

(* Mutant: every turn starts again at the front of the queue.               *)
ScheduleFront ==
  /\ pc = "schedule"
  /\ nxt' = next[SeedTask]
  /\ IF nr_running = 0 THEN Fault ELSE Switch(next[SeedTask])

(* schedule(): alone in the queue, the head runs; otherwise nxt runs and   *)
(* the pointer advances, past the head.  Nothing else in the program       *)
(* writes nxt, so it may by now point to a task that sleeps (whose next is *)
(* NULL) or that has been freed.                                           *)
Schedule ==
  /\ pc = "schedule"
  /\ IF nr_running = 1
     THEN Switch(SeedTask) /\ nxt' = next[SeedTask]
     ELSE IF nxt = Null \/ (nxt # Null /\ ~Live(nxt))
     THEN Fault /\ UNCHANGED nxt
     ELSE /\ nxt' = IF next[nxt] = SeedTask THEN next[SeedTask] ELSE next[nxt]
          /\ Switch(nxt)

Next == (CpuStep /\ UNCHANGED nxt) \/ Schedule

(* The loop of runcpu() is one thread that never blocks: a step that can   *)
(* be taken is taken.                                                      *)
Spec == Init /\ [][Next]_vars /\ WF_vars(Next)

TypeOK == VirtualCPUTypeOK /\ nxt \in Pointer

-----------------------------------------------------------------------------

(* "Gets the next task in the queue": the task schedule() switches to is   *)
(* on the run queue.                                                       *)
SwitchesToQueued ==
  [][Schedule /\ pc' # "fault" => Queued(current')]_vars

NobodySleeps == \A t \in Process : thread_info[t].thread_type # "INTERACTIVE"

(* The turn pointer names a queued task where schedule() takes it.         *)
TurnTakenSound ==
  pc = "schedule" /\ nr_running > 1 => nxt # Null /\ Queued(nxt)

(* While nobody sleeps, the turn pointer names a queued task whenever      *)
(* schedule() may use it, and only queued tasks run: the machine does not  *)
(* touch memory it has freed before init is gone.                          *)
TurnsSound == NobodySleeps => TurnTakenSound /\ MachineSound

(* The machine shuts down, everybody's end included, unless schedule()     *)
(* once takes a turn pointer that is at a sleeper or at a task that has    *)
(* ended: such a run may die with tasks left.  (TurnsSound: where nobody   *)
(* sleeps that cannot be.)                                                 *)
ShutsDownInTurn == []TurnTakenSound => ShutsDown
=============================================================================
