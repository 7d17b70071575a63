-------------------------- MODULE RoundRobinTurns ---------------------------
(***************************************************************************)
(* Round robin with a history variable: for every queued task, how often   *)
(* each other task has been switched to while it waited for its turn.  A   *)
(* tick and a request in the same pass of the loop call schedule() twice:  *)
(* that makes two turns, though the first comes to nothing.                *)
(***************************************************************************)
EXTENDS RoundRobin

VARIABLE turns   \* turns[t][u]: turns of u since t was queued or had its own

turnVars == <<vars, turns>>

NoTurns == [u \in Task |-> 0]

TurnInit == Init /\ turns = [t \in Task |-> NoTurns]

TurnNext ==
  /\ Next
  /\ turns' = [t \in Task |->
       IF pc # "schedule" \/ pc' = "fault"
       THEN IF Queued(t) THEN turns[t] ELSE NoTurns
       ELSE IF Queued(t) /\ t # current'
       THEN [turns[t] EXCEPT ![current'] = @ + 1] ELSE NoTurns]

TurnSpec == TurnInit /\ [][TurnNext]_turnVars /\ WF_turnVars(TurnNext)

(* Round robin among tasks that do not sleep: while one waits, nobody gets *)
(* two turns, whoever is born or ends meanwhile.  A sleeper can overtake:  *)
(* it is woken to the front of the queue, and if the turn pointer is at    *)
(* the end it gets its next turn before those who stand behind it.  It     *)
(* cannot do so twice, so nobody starves.                                  *)
OvertakenOnce ==
  \A t \in Process, u \in Task : turns[t][u] <= IF NobodySleeps THEN 1 ELSE 2
=============================================================================
