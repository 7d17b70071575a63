---------------------------- MODULE ProcessTree -----------------------------
(***************************************************************************)
(* What the virtual machine promises its processes, whatever the policy:   *)
(* a process is born once, to a parent that is alive; only a process that  *)
(* is ready is put on the CPU; only the process on the CPU can go to sleep *)
(* or end, it ends only when no child of its is alive, and what has ended  *)
(* never comes back.                                                       *)
(***************************************************************************)
CONSTANTS Task, Root, Nobody

VARIABLES
  parent,   \* whose child each task is; Root has Nobody
  status,   \* "unborn", "ready", "asleep" or "gone"
  running   \* the task on the CPU, or Nobody

treeVars == <<parent, status, running>>

Alive(t) == status[t] \in {"ready", "asleep"}

Move(t, s) == status' = [status EXCEPT ![t] = s]

Begin ==
  /\ parent \in [Task -> Task \cup {Nobody}]
  /\ status = [t \in Task |-> IF t = Root THEN "ready" ELSE "unborn"]
  /\ running = Nobody

Born(t) ==
  /\ status[t] = "unborn"
  /\ parent[t] # Nobody /\ Alive(parent[t])
  /\ Move(t, "ready")
  /\ UNCHANGED <<parent, running>>

Dispatch(t) ==
  /\ status[t] = "ready"
  /\ running' = t
  /\ UNCHANGED <<parent, status>>

FallAsleep(t) ==
  /\ running = t
  /\ status[t] = "ready"
  /\ Move(t, "asleep")
  /\ UNCHANGED <<parent, running>>

WakeUp(t) ==
  /\ status[t] = "asleep"
  /\ Move(t, "ready")
  /\ UNCHANGED <<parent, running>>

End(t) ==
  /\ running = t
  /\ status[t] = "ready"
  /\ \A c \in Task : parent[c] = t => ~Alive(c)
  /\ Move(t, "gone")
  /\ running' = Nobody
  /\ UNCHANGED parent

TreeNext ==
  \E t \in Task : Born(t) \/ Dispatch(t) \/ FallAsleep(t) \/ WakeUp(t) \/ End(t)

Tree == Begin /\ [][TreeNext]_treeVars
=============================================================================
