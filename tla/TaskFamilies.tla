---------------------------- MODULE TaskFamilies ----------------------------
(***************************************************************************)
(* What the lists of the virtual machine stand for, without pointers: who  *)
(* is still to be born to whom, in the order of the profile, and who is    *)
(* asleep, in the order of falling asleep.                                 *)
(***************************************************************************)
EXTENDS SequencesExt

CONSTANT Task

VARIABLES
  unborn,    \* for each task, its children in the profile that are not born
  sleepers   \* the tasks that wait for the IO event

familyVars == <<unborn, sleepers>>

Listed(t) == \E p \in Task : \E i \in DOMAIN unborn[p] : unborn[p][i] = t
Sleeping(t) == \E i \in DOMAIN sleepers : sleepers[i] = t

Begin == unborn = [p \in Task |-> <<>>] /\ sleepers = <<>>

\* The profile names one more child of p.
Declare(p, t) ==
  /\ ~ Listed(t)
  /\ unborn' = [unborn EXCEPT ![p] = Append(@, t)]
  /\ UNCHANGED sleepers

\* A child is born, or the profile was refused: it leaves its place in the
\* list, and nobody else moves.
Leave(p, i) ==
  /\ unborn' = [unborn EXCEPT ![p] = RemoveAt(@, i)]
  /\ UNCHANGED sleepers

FallAsleep(t) ==
  /\ ~ Sleeping(t) /\ ~ Listed(t)
  /\ sleepers' = Append(sleepers, t)
  /\ UNCHANGED unborn

\* The event wakes whoever has slept longest, one after the other.
WakeNext ==
  /\ sleepers # <<>>
  /\ sleepers' = Tail(sleepers)
  /\ UNCHANGED unborn

FamilyNext ==
  \/ \E p, t \in Task : Declare(p, t)
  \/ \E p \in Task : \E i \in DOMAIN unborn[p] : Leave(p, i)
  \/ \E t \in Task : FallAsleep(t)
  \/ WakeNext

Families == Begin /\ [][FamilyNext]_familyVars
=============================================================================
