--------------------------- MODULE SchedulerProofs ---------------------------
(***************************************************************************)
(* What holds of the virtual machine for every number of processes, every  *)
(* profile and every choice of delays.  The bookkeeping is sound whatever  *)
(* the scheduling policy, where a policy is any rule that, at              *)
(* pc = "schedule", either faults or switches to some task that is alive;  *)
(* then the round-robin machine and the shortest-job machine are shown to  *)
(* follow such a policy, and what each adds is proved of it.               *)
(***************************************************************************)
EXTENDS RoundRobinTurns, ShortestJob, RunQueueProofs

-----------------------------------------------------------------------------
(* The virtual machine                                                     *)

(* The family is a tree rooted at init.                                    *)
Rooted ==
  /\ Parent(InitTask) = Null
  /\ Type(InitTask) = "INIT"
  /\ \A t \in Process : Parent(t) \in Task /\ Parent(t) < t

(* Everything about who exists and where it is; init never sleeps.         *)
Store ==
  Rooted /\ FamilyIntact /\ TaskPlaced /\ InitTask \notin Sleeping /\ QueueInv

(* What is on the CPU is alive; where it is idle, schedule() is on its way *)
(* or the machine is about to stop.                                        *)
OnCpu ==
  /\ current # Idle => Live(current)
  /\ pc \in {"cycle", "work", "sleep", "arm", "spawn", "spawn_init"} => current # Idle
  /\ pc = "sleep" => Type(current) = "INTERACTIVE"
  /\ current = Idle => \/ pc \in {"schedule", "fault"}
                       \/ nr_running = 0
                       \/ pc \in {"tick", "io", "wake", "check"} /\ need_reschedule[Idle]

(* Requests to reschedule stand on current, or on what has been freed.     *)
Requests ==
  /\ \A t \in Task \cup {Idle} :
       need_reschedule[t] => t = current \/ (t # Idle /\ life[t] = "freed")
  /\ pc \in {"cycle", "end"} => ~need_reschedule[current]

MachineInv ==
  VirtualCPUTypeOK /\ Store /\ OnCpu /\ Requests /\ SleeperWillWake

(* All that the machine relies on of schedule().                           *)
PolicyStep ==
  /\ pc = "schedule"
  /\ Fault \/ \E t \in Task : Live(t) /\ Switch(t)

-----------------------------------------------------------------------------
(* The family tree.                                                        *)

LEMMA FiniteChildren ==
  ASSUME NEW p
  PROVE  IsFiniteSet(LiveChildren(p))
<1>1. IsFiniteSet(Process)
  BY FS_Interval, MachineAssumption DEF Process
<1>2. LiveChildren(p) \in SUBSET Process
  BY DEF LiveChildren
<1> QED BY <1>1, <1>2, FS_Subset

(* While any process lives, one lives whose parent is init.                *)
LEMMA EldestLive ==
  ASSUME Rooted, FamilyIntact, NEW t \in Process, Live(t)
  PROVE  LiveChildren(InitTask) # {} /\ Live(InitTask)
<1> DEFINE L == {c \in Process : Live(c)}
<1>1. N \in Nat /\ L \in SUBSET Nat /\ L # {}
  BY MachineAssumption DEF Process
<1>2. PICK m \in L : \A y \in L : ~ (y < m)
  <2> HIDE DEF L
  <2> QED BY <1>1, NatMinimum
<1>3. m \in Process /\ Live(m) /\ Parent(m) < m /\ Parent(m) \in 0 .. N /\ Live(Parent(m))
  BY MachineAssumption DEF Rooted, FamilyIntact
<1>4. Parent(m) \notin L
  BY <1>2, <1>3
<1>5. Parent(m) = InitTask
  BY <1>3, <1>4, <1>1 DEF Process, InitTask
<1> QED BY <1>3, <1>5 DEF LiveChildren

(* While any task lives, init does, and is queued; and if nothing is       *)
(* queued nothing lives.                                                   *)
LEMMA RootQueued ==
  ASSUME Store, VirtualCPUTypeOK, NEW t \in Task, Live(t)
  PROVE  Live(InitTask) /\ Queued(InitTask) /\ nr_running # 0
<1>1. Live(InitTask)
  BY EldestLive, MachineAssumption DEF Store, Process, InitTask
<1>2. InitTask \in Task
  BY MachineAssumption DEF InitTask
<1>3. Queued(InitTask)
  BY <1>1, <1>2 DEF Store, TaskPlaced
<1>4. IsFiniteSet(QueuedTasks) /\ QueuedTasks # {}
  BY <1>2, <1>3, FS_Subset, QueueAssumption DEF QueuedTasks
<1> QED BY <1>1, <1>3, <1>4, FS_EmptySet
        DEF Store, QueueInv, RingLinks, CountExact

-----------------------------------------------------------------------------
(* What the operations do to Store.                                        *)

(* Steps that neither create, end, queue nor move a task.                  *)
LEMMA StoreFrame ==
  ASSUME Store, UNCHANGED <<thread_info, life, children, intwaitlist, queueVars>>
  PROVE  Store'
<1>1. UNCHANGED <<Rooted, FamilyIntact>>
  BY DEF Rooted, FamilyIntact, LiveChildren, Live, Parent, Type
<1>2. UNCHANGED <<TaskPlaced, Sleeping>>
  BY DEF TaskPlaced, Sleeping, Live, Queued, queueVars
<1>3. UNCHANGED QueueInv
  BY DEF QueueInv, QueueTypeOK, RingLinks, LinksInverse, HeadQueued, CountExact,
         OneRing, QueuedTasks, Queued, queueVars
<1> QED BY <1>1, <1>2, <1>3 DEF Store

(* The end of current: unlinked, freed, and no longer its parent's child.  *)
LEMMA ExitKeepsStore ==
  ASSUME VirtualCPUTypeOK, Store, current \in Task, Live(current), Queued(current),
         children[current] = 0, Exit
  PROVE  Store' /\ Remove(current)
<1> DEFINE p == Parent(current)
<1>1. /\ Unlink(current)
      /\ life' = [life EXCEPT ![current] = "freed"]
      /\ children' = IF p = Null THEN children ELSE [children EXCEPT ![p] = @ - 1]
      /\ UNCHANGED <<thread_info, intwaitlist>>
  BY DEF Exit
<1>2. LiveChildren(current) = {}
  <2>1. IsFiniteSet(LiveChildren(current))
    BY FiniteChildren
  <2> QED BY <2>1, FS_EmptySet DEF Store, FamilyIntact
<1>3. current = SeedTask => QueuedTasks = {SeedTask}
  <2> SUFFICES ASSUME current = SeedTask, NEW q \in QueuedTasks PROVE q = SeedTask
    BY QueueAssumption DEF QueuedTasks
  <2>1. q \in Task /\ Live(q)
    BY DEF QueuedTasks, Store, TaskPlaced
  <2>2. q \notin Process
    BY <2>1, <1>2, EldestLive, MachineAssumption DEF Store
  <2> QED BY <2>1, <2>2, MachineAssumption DEF Process, InitTask
<1>4. Remove(current)
  BY <1>1, <1>3, HeadAlone DEF Remove, Store
<1>5. QueueInv' /\ QueuedTasks' = QueuedTasks \ {current}
  BY <1>4, RemoveKeepsLinks DEF Store
<1>6. \A t \in Task : /\ Live(t)' <=> Live(t) /\ t # current
                      /\ Queued(t)' <=> Queued(t) /\ t # current
  BY <1>1, <1>5 DEF Live, QueuedTasks, Queued, VirtualCPUTypeOK
<1>7. Sleeping' = Sleeping /\ current \notin Sleeping
  BY <1>1 DEF Sleeping, Store, TaskPlaced
<1>8. TaskPlaced'
  <2>1. UNCHANGED intwaitlist
    BY <1>1
  <2>2. Sleeping \subseteq Task
    BY DEF Sleeping, VirtualCPUTypeOK
  <2> QED BY <2>1, <2>2, <1>6, <1>7 DEF TaskPlaced, Store
<1>9. Rooted'
  BY <1>1 DEF Store, Rooted, Parent, Type
<1>10. FamilyIntact'
  <2>1. \A t \in Task : Parent(t)' = Parent(t)
    BY <1>1 DEF Parent
  <2>2. Process \subseteq Task
    BY MachineAssumption DEF Process
  <2>3. ASSUME NEW t \in Process, Live(t)' PROVE Live(Parent(t))'
    <3>1. Live(t) /\ t # current /\ Live(Parent(t)) /\ Parent(t) \in Task
      BY <2>2, <2>3, <1>6 DEF Store, FamilyIntact, Rooted
    <3>2. Parent(t) # current
      BY <3>1, <1>2 DEF LiveChildren
    <3> QED BY <3>1, <3>2, <2>1, <2>2, <1>6
  <2>4. ASSUME NEW q \in Task, Live(q)'
        PROVE  children'[q] = Cardinality(LiveChildren(q)')
    <3>1. Live(q) /\ children[q] = Cardinality(LiveChildren(q))
      BY <2>4, <1>6 DEF Store, FamilyIntact
    <3>2. LiveChildren(q)' = LiveChildren(q) \ {current}
      BY <2>1, <2>2, <1>6 DEF LiveChildren
    <3>3. IsFiniteSet(LiveChildren(q))
      BY FiniteChildren
    <3>4. Cardinality(LiveChildren(q)') =
            IF current \in LiveChildren(q) THEN Cardinality(LiveChildren(q)) - 1
                                           ELSE Cardinality(LiveChildren(q))
      BY <3>2, <3>3, FS_RemoveElement
    <3>5. current \in LiveChildren(q) <=> p = q
      <4>1. current \in Process \/ current = InitTask
        BY MachineAssumption DEF Process, InitTask
      <4> QED BY <4>1, QueueAssumption DEF LiveChildren, Store, Rooted
    <3>6. children'[q] = IF p = q THEN children[q] - 1 ELSE children[q]
      BY <1>1, QueueAssumption DEF VirtualCPUTypeOK
    <3> QED BY <3>1, <3>4, <3>5, <3>6
  <2> QED BY <2>3, <2>4 DEF FamilyIntact
<1> QED BY <1>4, <1>5, <1>7, <1>8, <1>9, <1>10 DEF Store

(* The birth of c, a child of the live task p.                             *)
LEMMA ForkKeepsStore ==
  ASSUME VirtualCPUTypeOK, Store, NEW p \in Task, Live(p),
         NEW c \in Due(p), Fork(c, p)
  PROVE  Store' /\ Insert(c)
<1>1. /\ InsertAfterHead(c)
      /\ life' = [life EXCEPT ![c] = "live"]
      /\ children' = [children EXCEPT ![c] = 0, ![p] = @ + 1]
      /\ UNCHANGED <<thread_info, intwaitlist>>
  BY DEF Fork
<1>2. c \in Process /\ c \in Task /\ Parent(c) = p /\ life[c] = "unborn"
  BY MachineAssumption DEF Due, Process
<1>3. ~Queued(c) /\ c \notin Sleeping /\ ~Live(c)
  BY <1>2 DEF Store, TaskPlaced, Live
<1>4. Insert(c)
  BY <1>1, <1>3, RootQueued, MachineAssumption DEF Insert
<1>5. QueueInv' /\ QueuedTasks' = QueuedTasks \cup {c}
  BY <1>2, <1>4, InsertKeepsLinks DEF Store
<1>6. \A t \in Task : /\ Live(t)' <=> Live(t) \/ t = c
                      /\ Queued(t)' <=> Queued(t) \/ t = c
  BY <1>1, <1>2, <1>5 DEF Live, QueuedTasks, Queued, VirtualCPUTypeOK
<1>7. Sleeping' = Sleeping
  BY <1>1 DEF Sleeping
<1>8. TaskPlaced'
  <2>1. UNCHANGED intwaitlist
    BY <1>1
  <2>2. Sleeping \subseteq Task
    BY DEF Sleeping, VirtualCPUTypeOK
  <2> QED BY <2>1, <2>2, <1>3, <1>6, <1>7 DEF TaskPlaced, Store
<1>9. Rooted'
  BY <1>1 DEF Store, Rooted, Parent, Type
<1>10. FamilyIntact'
  <2>1. \A t \in Task : Parent(t)' = Parent(t)
    BY <1>1 DEF Parent
  <2>2. Process \subseteq Task
    BY MachineAssumption DEF Process
  <2>3. ASSUME NEW t \in Process, Live(t)' PROVE Live(Parent(t))'
    BY <2>1, <2>2, <2>3, <1>2, <1>6 DEF Store, FamilyIntact, Rooted
  <2>4. ASSUME NEW q \in Task, Live(q)'
        PROVE  children'[q] = Cardinality(LiveChildren(q)')
    <3>1. LiveChildren(q)' = LiveChildren(q) \cup (IF q = p THEN {c} ELSE {})
      BY <2>1, <2>2, <1>2, <1>6 DEF LiveChildren
    <3>2. IsFiniteSet(LiveChildren(q)) /\ c \notin LiveChildren(q)
      BY <1>3, FiniteChildren DEF LiveChildren
    <3>3. Cardinality(LiveChildren(q)') =
            IF q = p THEN Cardinality(LiveChildren(q)) + 1
                     ELSE Cardinality(LiveChildren(q))
      <4>1. CASE q = p
        BY <4>1, <3>1, <3>2, FS_AddElement
      <4>2. CASE q # p
        BY <4>2, <3>1
      <4> QED BY <4>1, <4>2
    <3>4. CASE q = c
      <4>1. LiveChildren(q)' = {}
        <5> SUFFICES ASSUME NEW d \in LiveChildren(q)' PROVE FALSE
          OBVIOUS
        <5>1. d \in Process /\ d \in Task /\ Parent(d) = c /\ (Live(d) \/ d = c)
          BY <3>4, <2>1, <2>2, <1>6 DEF LiveChildren
        <5>2. d # c
          BY <5>1, MachineAssumption DEF Store, Rooted, Process
        <5> QED BY <5>1, <5>2, <1>3 DEF Store, FamilyIntact
      <4>2. children'[q] = 0
        <5>1. c # p
          BY <1>2, MachineAssumption DEF Store, Rooted, Process
        <5> QED BY <5>1, <3>4, <1>1 DEF VirtualCPUTypeOK
      <4> QED BY <4>1, <4>2, FS_EmptySet
    <3>5. CASE q # c
      <4>1. Live(q) /\ children[q] = Cardinality(LiveChildren(q))
        BY <3>5, <2>4, <1>6 DEF Store, FamilyIntact
      <4>2. children'[q] = IF q = p THEN children[q] + 1 ELSE children[q]
        BY <3>5, <1>1 DEF VirtualCPUTypeOK
      <4> QED BY <4>1, <4>2, <3>3
    <3> QED BY <3>4, <3>5
  <2> QED BY <2>3, <2>4 DEF FamilyIntact
<1> QED BY <1>4, <1>5, <1>7, <1>8, <1>9, <1>10 DEF Store

(* current falls asleep: off the run queue, onto the wait list.            *)
LEMMA SleepKeepsStore ==
  ASSUME VirtualCPUTypeOK, Store, current \in Task, Live(current), Queued(current),
         current # InitTask, Unlink(current),
         intwaitlist' = Append(intwaitlist, current),
         UNCHANGED <<thread_info, life, children>>
  PROVE  Store' /\ Remove(current)
<1>1. Remove(current)
  BY MachineAssumption DEF Remove
<1>2. QueueInv' /\ QueuedTasks' = QueuedTasks \ {current}
  BY <1>1, RemoveKeepsLinks DEF Store
<1>3. UNCHANGED <<Rooted, FamilyIntact>>
  BY DEF Rooted, FamilyIntact, LiveChildren, Live, Parent, Type
<1>4. /\ intwaitlist \in Seq(Task)
      /\ DOMAIN intwaitlist' = 1 .. Len(intwaitlist) + 1
      /\ \A i \in 1 .. Len(intwaitlist) : intwaitlist'[i] = intwaitlist[i]
      /\ intwaitlist'[Len(intwaitlist) + 1] = current
  BY DEF VirtualCPUTypeOK
<1>5. Sleeping' = Sleeping \cup {current} /\ Sleeping \subseteq Task
  BY <1>4 DEF Sleeping
<1>6. \A t \in Task : /\ Live(t)' <=> Live(t)
                      /\ Queued(t)' <=> Queued(t) /\ t # current
  BY <1>2 DEF Live, QueuedTasks, Queued
<1>7. \A i, j \in DOMAIN intwaitlist' : intwaitlist'[i] = intwaitlist'[j] => i = j
  BY <1>4 DEF Store, TaskPlaced, Sleeping
<1>8. TaskPlaced'
  BY <1>5, <1>6, <1>7 DEF TaskPlaced, Store
<1> QED BY <1>1, <1>2, <1>3, <1>5, <1>8 DEF Store

(* The first sleeper is woken: off the wait list, onto the run queue.      *)
LEMMA WakeKeepsStore ==
  ASSUME VirtualCPUTypeOK, Store, intwaitlist # <<>>,
         InsertAfterHead(Head(intwaitlist)), intwaitlist' = Tail(intwaitlist),
         UNCHANGED <<thread_info, life, children>>
  PROVE  /\ Store'
         /\ Head(intwaitlist) \in Task
         /\ Insert(Head(intwaitlist))
<1> DEFINE t == Head(intwaitlist)
<1>1. /\ intwaitlist \in Seq(Task)
      /\ Len(intwaitlist) \in Nat \ {0}
      /\ DOMAIN intwaitlist = 1 .. Len(intwaitlist)
      /\ t = intwaitlist[1]
      /\ DOMAIN intwaitlist' = 1 .. Len(intwaitlist) - 1
      /\ \A i \in 1 .. Len(intwaitlist) - 1 : intwaitlist'[i] = intwaitlist[i + 1]
  BY DEF VirtualCPUTypeOK
<1>2. t \in Task /\ t \in Sleeping /\ ~Queued(t) /\ Live(t)
  BY <1>1 DEF Sleeping, Store, TaskPlaced
<1>3. Insert(t)
  BY <1>2, RootQueued, MachineAssumption DEF Insert
<1>4. QueueInv' /\ QueuedTasks' = QueuedTasks \cup {t}
  BY <1>2, <1>3, InsertKeepsLinks DEF Store
<1>5. UNCHANGED <<Rooted, FamilyIntact>>
  BY DEF Rooted, FamilyIntact, LiveChildren, Live, Parent, Type
<1>6. \A i, j \in DOMAIN intwaitlist : intwaitlist[i] = intwaitlist[j] => i = j
  BY DEF Store, TaskPlaced
<1>7. Sleeping' = Sleeping \ {t} /\ Sleeping \subseteq Task
  <2>1. ASSUME NEW s \in Sleeping' PROVE s \in Sleeping \ {t}
    <3>1. PICK i \in 1 .. Len(intwaitlist) - 1 : s = intwaitlist[i + 1]
      BY <1>1, <2>1 DEF Sleeping
    <3>2. i + 1 \in DOMAIN intwaitlist /\ 1 \in DOMAIN intwaitlist /\ i + 1 # 1
      BY <1>1
    <3> QED BY <3>1, <3>2, <1>1, <1>6 DEF Sleeping
  <2>2. ASSUME NEW s \in Sleeping \ {t} PROVE s \in Sleeping'
    <3>1. PICK i \in 1 .. Len(intwaitlist) : s = intwaitlist[i]
      BY <1>1, <2>2 DEF Sleeping
    <3>2. i - 1 \in 1 .. Len(intwaitlist) - 1
      BY <3>1, <2>2, <1>1
    <3>3. intwaitlist'[i - 1] = s
      BY <3>1, <3>2, <1>1
    <3> QED BY <3>2, <3>3, <1>1 DEF Sleeping
  <2>3. Sleeping \subseteq Task
    BY <1>1 DEF Sleeping
  <2> QED BY <2>1, <2>2, <2>3
<1>8. \A s \in Task : /\ Live(s)' <=> Live(s)
                      /\ Queued(s)' <=> Queued(s) \/ s = t
  BY <1>2, <1>4 DEF Live, QueuedTasks, Queued
<1>9. \A i, j \in DOMAIN intwaitlist' : intwaitlist'[i] = intwaitlist'[j] => i = j
  <2> SUFFICES ASSUME NEW i \in 1 .. Len(intwaitlist) - 1,
                      NEW j \in 1 .. Len(intwaitlist) - 1,
                      intwaitlist'[i] = intwaitlist'[j]
               PROVE  i = j
    BY <1>1
  <2>1. i + 1 \in DOMAIN intwaitlist /\ j + 1 \in DOMAIN intwaitlist
    BY <1>1
  <2>2. i + 1 = j + 1
    BY <2>1, <1>1, <1>6
  <2> QED BY <2>2
<1>10. TaskPlaced'
  BY <1>2, <1>7, <1>8, <1>9 DEF TaskPlaced, Store
<1> QED BY <1>2, <1>3, <1>4, <1>5, <1>7, <1>10 DEF Store

-----------------------------------------------------------------------------
(* One step of the machine.                                                *)

(* The steps that change the store, each with the queue operation it       *)
(* performs; all others leave it as it is.                                 *)
LEMMA StepKeepsStore ==
  ASSUME MachineInv, CpuStep \/ PolicyStep
  PROVE  Store' /\ [QueueNext]_queueVars
<1> DEFINE Still == UNCHANGED <<thread_info, life, children, intwaitlist, queueVars>>
           Goal == Store' /\ [QueueNext]_queueVars
<1> SUFFICES Goal
  OBVIOUS
<1>1. Still => Goal
  BY StoreFrame DEF MachineInv
<1>2. ASSUME NEW p \in Task, Insert(p) \/ Remove(p), Store' PROVE Goal
  BY <1>2 DEF QueueNext
<1>3. current # Idle => current \in Task /\ Live(current)
  BY DEF MachineInv, VirtualCPUTypeOK, OnCpu
<1> HIDE DEF Goal
<1>4. Fault => Goal
  BY <1>1 DEF Fault, taskVars
<1>5. ASSUME Exit, current # Idle, children[current] = 0 PROVE Goal
  <2>1. CASE Queued(current)
    BY <2>1, <1>2, <1>3, <1>5, ExitKeepsStore DEF MachineInv
  <2>2. CASE ~Queued(current)
    BY <2>2, <1>4, <1>5 DEF Exit
  <2> QED BY <2>1, <2>2
<1>6. CASE CheckEnd
  <2>1. current # Idle
    BY <1>6 DEF CheckEnd, MachineInv, OnCpu
  <2>2. CASE Ending(current) /\ children[current] = 0
    BY <2>1, <2>2, <1>5, <1>6 DEF CheckEnd
  <2>3. CASE ~(Ending(current) /\ children[current] = 0)
    BY <2>3, <1>1, <1>6 DEF CheckEnd
  <2> QED BY <2>2, <2>3
<1>7. CASE Work
  <2>1. current # Idle
    BY <1>7 DEF Work, MachineInv, OnCpu
  <2>2. CASE Exit /\ children[current] = 0
    BY <2>1, <2>2, <1>5
  <2>3. CASE Still
    BY <2>3, <1>1
  <2> QED BY <2>2, <2>3, <1>7 DEF Work
<1>8. CASE Sleep
  <2>1. current # Idle /\ current # InitTask
    BY <1>8 DEF Sleep, MachineInv, OnCpu, Store, Rooted
  <2>2. CASE Still \/ Fault
    BY <2>2, <1>1, <1>4
  <2>3. CASE /\ Queued(current) /\ Unlink(current)
             /\ intwaitlist' = Append(intwaitlist, current)
             /\ UNCHANGED taskVars
    <3>1. UNCHANGED <<thread_info, life, children>>
      BY <2>3 DEF taskVars
    <3> QED BY <2>1, <2>3, <3>1, <1>2, <1>3, SleepKeepsStore DEF MachineInv
  <2> QED BY <2>2, <2>3, <1>8 DEF Sleep, taskVars
<1>9. CASE Spawn
  <2>1. InitTask \in Task /\ Live(InitTask) /\ current \in Task /\ Live(current)
    <3>1. current # Idle
      BY <1>9 DEF Spawn, SpawnChildren, MachineInv, OnCpu
    <3> QED BY <3>1, <1>3, RootQueued, MachineAssumption DEF MachineInv, InitTask
  <2>2. ASSUME NEW p \in Task, Live(p), NEW c \in Due(p), Fork(c, p) PROVE Goal
    <3>1. c \in Task
      BY MachineAssumption DEF Due, Process
    <3> QED BY <2>2, <3>1, <1>2, ForkKeepsStore DEF MachineInv
  <2>3. UNCHANGED <<taskVars, intwaitlist, queueVars>> => Goal
    BY <1>1 DEF taskVars
  <2> QED BY <2>1, <2>2, <2>3, <1>9 DEF Spawn, SpawnChildren
<1>10. CASE Wake
  <2>1. CASE intwaitlist # <<>>
    <3>1. UNCHANGED <<thread_info, life, children>>
      BY <1>10 DEF Wake, taskVars
    <3> QED BY <2>1, <3>1, <1>2, <1>10, WakeKeepsStore DEF Wake, MachineInv
  <2>2. CASE intwaitlist = <<>>
    BY <2>2, <1>1, <1>10 DEF Wake, taskVars
  <2> QED BY <2>1, <2>2
<1>11. CASE Arm \/ Tick \/ IoEvent \/ Check \/ EndCycle
  BY <1>1, <1>11 DEF Arm, Tick, IoEvent, Check, EndCycle, taskVars
<1>12. CASE PolicyStep
  BY <1>1, <1>4, <1>12 DEF PolicyStep, Switch, taskVars
<1> QED BY <1>6, <1>7, <1>8, <1>9, <1>10, <1>11, <1>12 DEF CpuStep

LEMMA StepKeepsTypes ==
  ASSUME MachineInv, CpuStep \/ PolicyStep
  PROVE  VirtualCPUTypeOK'
<1> USE DEF taskVars, timerVars
<1>1. QueueTypeOK'
  BY StepKeepsStore DEF Store, QueueInv
<1>2. VirtualCPUTypeOK
  BY DEF MachineInv
<1>3. InitTask \in Task /\ Idle \notin Task /\ Process \subseteq Task
  BY MachineAssumption DEF InitTask, Idle, Process
<1>4. current # Idle => current \in Task
  BY <1>2 DEF VirtualCPUTypeOK
<1>5. ASSUME Fault PROVE VirtualCPUTypeOK'
  BY <1>1, <1>2, <1>5 DEF Fault, VirtualCPUTypeOK, PC
<1>6. ASSUME Exit, current # Idle PROVE VirtualCPUTypeOK'
  <2>1. CASE Queued(current)
    <3>1. /\ life' \in [Task -> {"unborn", "live", "freed"}]
          /\ children' \in [Task -> Int]
          /\ kill' \in [Task -> BOOLEAN]
          /\ need_reschedule' \in [Task \cup {Idle} -> BOOLEAN]
          /\ current' = Idle /\ pc' = "tick"
          /\ UNCHANGED <<ret, thread_info, work_duration, intwaitlist, timerVars>>
      <4>1. /\ life' = [life EXCEPT ![current] = "freed"]
            /\ children' = IF Parent(current) = Null THEN children
                            ELSE [children EXCEPT ![Parent(current)] = @ - 1]
            /\ kill' = [kill EXCEPT ![current] = TRUE]
            /\ need_reschedule' =
                 [need_reschedule EXCEPT ![Idle] = @ \/ nr_running' # 0]
            /\ current' = Idle /\ pc' = "tick"
            /\ UNCHANGED <<ret, thread_info, work_duration, intwaitlist, timerVars>>
        BY <2>1, <1>6 DEF Exit
      <4>2. life' \in [Task -> {"unborn", "live", "freed"}]
        BY <4>1, <1>2 DEF VirtualCPUTypeOK
      <4>3. children' \in [Task -> Int]
        <5>1. Parent(current) = Null \/ Parent(current) \in Task
          BY <1>2, <1>4, <1>6 DEF VirtualCPUTypeOK, Parent, Pointer
        <5>2. children \in [Task -> Int]
          BY <1>2 DEF VirtualCPUTypeOK
        <5> QED BY <4>1, <5>1, <5>2
      <4>4. kill' \in [Task -> BOOLEAN]
        BY <4>1, <1>2 DEF VirtualCPUTypeOK
      <4>5. need_reschedule' \in [Task \cup {Idle} -> BOOLEAN]
        BY <4>1, <1>2 DEF VirtualCPUTypeOK
      <4> QED BY <4>1, <4>2, <4>3, <4>4, <4>5
    <3> QED BY <3>1, <1>1, <1>2 DEF VirtualCPUTypeOK, PC
  <2>2. CASE ~Queued(current)
    BY <2>2, <1>5, <1>6 DEF Exit
  <2> QED BY <2>1, <2>2
<1>7. CASE CheckEnd
  <2>1. current # Idle
    BY <1>7 DEF CheckEnd, MachineInv, OnCpu
  <2>2. CASE Exit
    BY <2>1, <2>2, <1>6
  <2>3. CASE ~Exit
    <3>1. kill' \in [Task -> BOOLEAN]
      <4>1. kill' = [kill EXCEPT ![current] = @ \/ Ending(current)]
        BY <1>7, <2>3 DEF CheckEnd
      <4> QED BY <4>1, <1>2 DEF VirtualCPUTypeOK
    <3> QED BY <2>3, <3>1, <1>1, <1>2, <1>7 DEF CheckEnd, VirtualCPUTypeOK, PC
  <2> QED BY <2>2, <2>3
<1>8. CASE Work
  <2>1. current # Idle
    BY <1>8 DEF Work, MachineInv, OnCpu
  <2>2. CASE Exit
    BY <2>1, <2>2, <1>6
  <2>3. CASE ~Exit
    <3> DEFINE left == IF work_duration[current] > 0 THEN work_duration[current] - 1
                                                     ELSE work_duration[current]
    <3>1. /\ work_duration' = [work_duration EXCEPT ![current] = left]
          /\ kill' = [kill EXCEPT ![current] = @ \/ left = 0]
          /\ pc' \in {"sleep", "arm"}
          /\ UNCHANGED <<ret, current, thread_info, life, children,
                         need_reschedule, intwaitlist, timerVars>>
      BY <2>3, <1>8 DEF Work
    <3>2. work_duration[current] \in Nat \cup {NoTime}
      BY <2>1, <1>2, <1>4 DEF VirtualCPUTypeOK
    <3>3. left \in Nat \cup {NoTime}
      BY <3>2 DEF NoTime
    <3>4. work_duration' \in [Task -> Nat \cup {NoTime}]
      BY <3>1, <3>3, <1>2 DEF VirtualCPUTypeOK
    <3>5. kill' \in [Task -> BOOLEAN]
      BY <3>1, <1>2 DEF VirtualCPUTypeOK
    <3> HIDE DEF left
    <3> QED BY <3>1, <3>4, <3>5, <1>1, <1>2 DEF VirtualCPUTypeOK, PC
  <2> QED BY <2>2, <2>3
<1>9. CASE Sleep
  <2>1. current # Idle
    BY <1>9 DEF Sleep, MachineInv, OnCpu
  <2>2. CASE Fault
    BY <2>2, <1>5
  <2>3. CASE ~Fault
    <3>1. /\ pc' = "arm"
          /\ UNCHANGED <<ret, current, taskVars, timer, intTimer, clocktick>>
      BY <2>3, <1>9 DEF Sleep
    <3>2. intWaitTimer' \in Nat \cup {Unset}
      BY <2>3, <1>2, <1>9 DEF Sleep, VirtualCPUTypeOK, Unset
    <3>3. intwaitlist' \in Seq(Task)
      <4>1. \/ intwaitlist' = intwaitlist
            \/ intwaitlist' = Append(intwaitlist, current)
        BY <2>3, <1>9 DEF Sleep
      <4>2. intwaitlist \in Seq(Task) /\ current \in Task
        BY <2>1, <1>2, <1>4 DEF VirtualCPUTypeOK
      <4> QED BY <4>1, <4>2
    <3>4. need_reschedule' \in [Task \cup {Idle} -> BOOLEAN]
      BY <2>3, <1>2, <1>9 DEF Sleep, VirtualCPUTypeOK
    <3> QED BY <3>1, <3>2, <3>3, <3>4, <1>1, <1>2 DEF VirtualCPUTypeOK, PC
  <2> QED BY <2>2, <2>3
<1>10. CASE Arm
  <2>1. intTimer' \in (Nat \ {0}) \cup {Unset}
    BY MachineAssumption, <1>2, <1>10 DEF Arm, VirtualCPUTypeOK
  <2>2. pc' \in PC
    BY <1>10 DEF Arm, PC
  <2>3. UNCHANGED <<ret, current, taskVars, need_reschedule, intwaitlist, timer,
                    intWaitTimer, clocktick>>
    BY <1>10 DEF Arm
  <2> QED BY <2>1, <2>2, <2>3, <1>1, <1>2 DEF VirtualCPUTypeOK
<1>11. CASE Spawn
  <2>1. ASSUME NEW p \in Task, NEW c \in Due(p), Fork(c, p), pc' \in PC
        PROVE  VirtualCPUTypeOK'
    <3>1. c \in Task /\ UNCHANGED <<ret, current, thread_info, work_duration,
                                    intwaitlist, timerVars>>
      BY <2>1, <1>3 DEF Fork, Due
    <3>2. life' \in [Task -> {"unborn", "live", "freed"}]
      BY <2>1, <1>2 DEF Fork, VirtualCPUTypeOK
    <3>3. children' \in [Task -> Int]
      <4>1. children \in [Task -> Int]
        BY <1>2 DEF VirtualCPUTypeOK
      <4>2. c # p
        BY <3>1, MachineAssumption DEF Due, MachineInv, Store, Rooted
      <4>3. children' = [q \in Task |-> IF q = p THEN children[p] + 1
                                       ELSE IF q = c THEN 0 ELSE children[q]]
        BY <2>1, <4>1, <4>2 DEF Fork
      <4> QED BY <4>1, <4>3
    <3>5. kill' \in [Task -> BOOLEAN]
      BY <2>1, <1>2 DEF Fork, VirtualCPUTypeOK
    <3>4. need_reschedule' \in [Task \cup {Idle} -> BOOLEAN]
      BY <2>1, <1>2 DEF Fork, VirtualCPUTypeOK
    <3> QED BY <2>1, <3>1, <3>2, <3>3, <3>4, <3>5, <1>1, <1>2
        DEF VirtualCPUTypeOK
  <2>2. UNCHANGED <<ret, current, taskVars, need_reschedule, intwaitlist, timerVars>>
        /\ pc' \in PC => VirtualCPUTypeOK'
    BY <1>1, <1>2 DEF VirtualCPUTypeOK
  <2>3. current # Idle
    BY <1>11 DEF Spawn, SpawnChildren, MachineInv, OnCpu
  <2>4. {"spawn", "spawn_init", "tick"} \subseteq PC
    BY DEF PC
  <2> QED BY <2>1, <2>2, <2>3, <2>4, <1>3, <1>4, <1>11 DEF Spawn, SpawnChildren
<1>12. CASE Tick
  <2>1. timer' \in 1 .. TickLen
    BY MachineAssumption, <1>2, <1>12 DEF Tick, VirtualCPUTypeOK
  <2>2. pc' \in PC /\ ret' \in {"cycle", "io", "end"}
    BY <1>2, <1>12 DEF Tick, VirtualCPUTypeOK, PC
  <2>3. UNCHANGED <<current, taskVars, need_reschedule, intwaitlist, intTimer,
                    intWaitTimer, clocktick>>
    BY <1>12 DEF Tick
  <2> QED BY <2>1, <2>2, <2>3, <1>1, <1>2 DEF VirtualCPUTypeOK
<1>13. CASE IoEvent
  <2>1. intTimer' \in (Nat \ {0}) \cup {Unset}
    BY <1>2, <1>13 DEF IoEvent, VirtualCPUTypeOK, Unset
  <2>2. pc' \in PC
    BY <1>13 DEF IoEvent, PC
  <2>3. UNCHANGED <<ret, current, taskVars, need_reschedule, intwaitlist, timer,
                    intWaitTimer, clocktick>>
    BY <1>13 DEF IoEvent
  <2> QED BY <2>1, <2>2, <2>3, <1>1, <1>2 DEF VirtualCPUTypeOK
<1>14. CASE Wake
  <2>1. intwaitlist' \in Seq(Task)
    <3>1. intwaitlist \in Seq(Task)
      BY <1>2 DEF VirtualCPUTypeOK
    <3>2. \/ intwaitlist' = intwaitlist
          \/ intwaitlist # <<>> /\ intwaitlist' = Tail(intwaitlist)
      BY <1>14 DEF Wake
    <3> QED BY <3>1, <3>2, HeadTailProperties
  <2>2. need_reschedule' \in [Task \cup {Idle} -> BOOLEAN]
    BY <1>2, <1>14 DEF Wake, VirtualCPUTypeOK
  <2>3. pc' \in PC /\ UNCHANGED <<ret, current, taskVars, timerVars>>
    BY <1>2, <1>14 DEF Wake, VirtualCPUTypeOK, PC
  <2> QED BY <2>1, <2>2, <2>3, <1>1, <1>2 DEF VirtualCPUTypeOK
<1>15. CASE Check
  <2>1. clocktick' \in 0 .. Horizon
    BY MachineAssumption, <1>2, <1>15 DEF Check, Advance, VirtualCPUTypeOK
  <2>2. pc' \in PC /\ ret' \in {"cycle", "io", "end"}
    BY <1>2, <1>15 DEF Check, VirtualCPUTypeOK, PC
  <2>3. UNCHANGED <<current, taskVars, need_reschedule, intwaitlist, timer,
                    intTimer, intWaitTimer>>
    BY <1>15 DEF Check
  <2> QED BY <2>1, <2>2, <2>3, <1>1, <1>2 DEF VirtualCPUTypeOK
<1>16. CASE EndCycle
  <2>1. kill' \in [Task -> BOOLEAN]
    BY <1>2, <1>3, <1>16 DEF EndCycle, VirtualCPUTypeOK, Passed
  <2>2. pc' \in PC
    BY <1>16 DEF EndCycle, PC
  <2>3. UNCHANGED <<ret, current, thread_info, life, children, work_duration,
                    need_reschedule, intwaitlist, timerVars>>
    BY <1>16 DEF EndCycle
  <2> QED BY <2>1, <2>2, <2>3, <1>1, <1>2 DEF VirtualCPUTypeOK
<1>17. CASE PolicyStep
  <2>1. CASE Fault
    BY <2>1, <1>5
  <2>2. ASSUME NEW t \in Task, Switch(t) PROVE VirtualCPUTypeOK'
    <3>1. intWaitTimer' \in Nat \cup {Unset}
      BY MachineAssumption, <2>2, <1>2 DEF Switch, VirtualCPUTypeOK
    <3>2. need_reschedule' \in [Task \cup {Idle} -> BOOLEAN]
      BY <2>2, <1>2 DEF Switch, VirtualCPUTypeOK
    <3>3. pc' \in PC /\ current' \in Task
      BY <2>2, <1>2 DEF Switch, VirtualCPUTypeOK, PC
    <3>4. UNCHANGED <<ret, taskVars, intwaitlist, timer, intTimer, clocktick>>
      BY <2>2 DEF Switch
    <3> QED BY <3>1, <3>2, <3>3, <3>4, <1>1, <1>2 DEF VirtualCPUTypeOK
  <2> QED BY <2>1, <2>2, <1>17 DEF PolicyStep
<1> QED BY <1>7, <1>8, <1>9, <1>10, <1>11, <1>12, <1>13, <1>14, <1>15, <1>16, <1>17
        DEF CpuStep

(* Nobody is left on the wait list of a machine whose run queue is empty.  *)
LEMMA NobodyLeft ==
  ASSUME Store, VirtualCPUTypeOK, intwaitlist # <<>>
  PROVE  nr_running # 0
<1>1. 1 \in DOMAIN intwaitlist /\ intwaitlist[1] \in Task
  BY DEF VirtualCPUTypeOK
<1>2. Live(intwaitlist[1])
  BY <1>1 DEF Store, TaskPlaced, Sleeping
<1> QED BY <1>1, <1>2, RootQueued

Control == OnCpu /\ Requests /\ SleeperWillWake

(* The end of a task: idle comes onto the CPU and asks for schedule().     *)
LEMMA ExitKeepsControl ==
  ASSUME MachineInv, current \in Task, pc \in {"cycle", "work"}, Exit
  PROVE  Control'
<1> USE DEF MachineInv, VirtualCPUTypeOK
<1>1. CASE ~Queued(current)
  <2>1. Fault /\ pc \notin {"wake", "arm"}
    BY <1>1 DEF Exit
  <2> QED BY <2>1 DEF Fault, Control, OnCpu, Requests, SleeperWillWake,
                      taskVars, timerVars, queueVars, Live, Type
<1>2. CASE Queued(current)
  <2>1. /\ life' = [life EXCEPT ![current] = "freed"]
        /\ need_reschedule' =
             [need_reschedule EXCEPT ![Idle] = @ \/ nr_running' # 0]
        /\ current' = Idle
        /\ pc' = "tick"
        /\ UNCHANGED <<intwaitlist, intTimer>>
    BY <1>2 DEF Exit, timerVars
  <2>2. OnCpu'
    BY <2>1 DEF OnCpu
  <2>3. Requests'
    BY <2>1 DEF Requests
  <2>4. SleeperWillWake'
    BY <2>1 DEF SleeperWillWake
  <2> QED BY <2>2, <2>3, <2>4 DEF Control
<1> QED BY <1>1, <1>2

LEMMA StepKeepsControl ==
  ASSUME MachineInv, CpuStep \/ PolicyStep
  PROVE  Control'
<1> USE DEF MachineInv, VirtualCPUTypeOK
<1>1. Idle \notin Task /\ InitTask \in Task
  BY MachineAssumption DEF Idle, InitTask
<1>2. ASSUME Fault, pc \notin {"wake", "arm"} PROVE Control'
  BY <1>2 DEF Fault, Control, OnCpu, Requests, SleeperWillWake,
              taskVars, timerVars, queueVars, Live, Type
<1>3. CASE CheckEnd
  <2>1. current # Idle
    BY <1>3 DEF CheckEnd, OnCpu
  <2>2. CASE Exit
    BY <2>1, <2>2, <1>3, ExitKeepsControl DEF CheckEnd
  <2>3. CASE ~Exit
    BY <2>1, <2>3, <1>3
       DEF CheckEnd, Control, OnCpu, Requests, SleeperWillWake, Live, timerVars
  <2> QED BY <2>2, <2>3
<1>4. CASE Work
  <2>1. current # Idle
    BY <1>4 DEF Work, OnCpu
  <2>2. CASE Exit
    BY <2>1, <2>2, <1>4, ExitKeepsControl DEF Work
  <2>3. CASE ~Exit
    BY <2>1, <2>3, <1>4
       DEF Work, Control, OnCpu, Requests, SleeperWillWake, Live, Type, timerVars
  <2> QED BY <2>2, <2>3
<1>5. CASE Sleep
  <2>1. current # Idle
    BY <1>5 DEF Sleep, OnCpu
  <2>2. CASE Fault
    BY <2>2, <1>2, <1>5 DEF Sleep
  <2>3. CASE ~Fault
    <3>1. /\ pc' = "arm"
          /\ UNCHANGED <<current, life>>
          /\ \/ UNCHANGED need_reschedule
             \/ need_reschedule' = [need_reschedule EXCEPT ![current] = TRUE]
      BY <2>3, <1>5 DEF Sleep, taskVars
    <3> QED BY <2>1, <3>1 DEF Control, OnCpu, Requests, SleeperWillWake, Live
  <2> QED BY <2>2, <2>3
<1>6. CASE Arm
  <2>1. intTimer' > 0
    <3>1. \A d \in IoDelays : d \in Nat /\ d > 0
      BY MachineAssumption
    <3>2. intTimer \in (Nat \ {0}) \cup {-1}
      BY DEF Unset
    <3>3. CASE intTimer = -1
      BY <3>1, <3>3, <1>6 DEF Arm, Unset
    <3>4. CASE intTimer # -1
      BY <3>2, <3>4, <1>6 DEF Arm, Unset
    <3> QED BY <3>3, <3>4
  <2>2. current # Idle /\ pc' = "spawn" /\ UNCHANGED <<current, life, need_reschedule>>
    BY <1>6 DEF Arm, OnCpu, taskVars
  <2> QED BY <2>1, <2>2 DEF Control, OnCpu, Requests, SleeperWillWake, Live
<1>7. CASE Spawn
  <2>1. current # Idle /\ current \in Task
    BY <1>7 DEF Spawn, SpawnChildren, OnCpu
  <2>2. ASSUME NEW p \in Task, NEW c \in Due(p), Fork(c, p),
               pc' = pc, pc \in {"spawn", "spawn_init"}
        PROVE  Control'
    <3>1. /\ c \in Task /\ ~Live(c) /\ c # current /\ life[c] = "unborn"
      BY <2>1, MachineAssumption DEF Due, Process, OnCpu, Live
    <3>2. /\ life' = [life EXCEPT ![c] = "live"]
          /\ need_reschedule' = [need_reschedule EXCEPT ![current] = TRUE]
          /\ UNCHANGED <<current, intwaitlist, intTimer>>
      BY <2>2 DEF Fork, timerVars
    <3> QED BY <2>1, <2>2, <3>1, <3>2
            DEF Control, OnCpu, Requests, SleeperWillWake, Live
  <2>3. ASSUME UNCHANGED <<current, taskVars, need_reschedule, intwaitlist, timerVars>>,
               pc' \in {"spawn_init", "tick"}, pc \in {"spawn", "spawn_init"}
        PROVE  Control'
    BY <2>1, <2>3
       DEF Control, OnCpu, Requests, SleeperWillWake, Live, taskVars, timerVars
  <2> QED BY <2>1, <2>2, <2>3, <1>1, <1>7 DEF Spawn, SpawnChildren
<1>8. CASE Tick
  BY <1>8 DEF Tick, OnQueue, Control, OnCpu, Requests, SleeperWillWake, Live,
              taskVars, queueVars
<1>9. CASE IoEvent
  BY <1>9 DEF IoEvent, Control, OnCpu, Requests, SleeperWillWake, Live,
              taskVars, queueVars, Unset
<1>10. CASE Wake
  <2>1. CASE intwaitlist # <<>>
    <3>1. nr_running # 0
      BY <2>1, NobodyLeft
    <3>2. UNCHANGED <<pc, need_reschedule, current, life>>
      BY <2>1, <1>10 DEF Wake, taskVars
    <3> QED BY <3>1, <3>2, <1>10 DEF Wake, Control, OnCpu, Requests, SleeperWillWake, Live
  <2>2. CASE intwaitlist = <<>>
    BY <2>2, <1>10 DEF Wake, Control, OnCpu, Requests, SleeperWillWake, Live,
                       taskVars, queueVars
  <2> QED BY <2>1, <2>2
<1>11. CASE Check
  BY <1>11 DEF Check, Control, OnCpu, Requests, SleeperWillWake, Live,
               taskVars, queueVars
<1>12. CASE EndCycle
  BY <1>12 DEF EndCycle, Control, OnCpu, Requests, SleeperWillWake, Live,
               timerVars, queueVars
<1>13. CASE PolicyStep
  <2>1. CASE Fault
    BY <2>1, <1>2, <1>13 DEF PolicyStep
  <2>2. ASSUME NEW t \in Task, Live(t), Switch(t), pc = "schedule" PROVE Control'
    <3>1. /\ need_reschedule' = [need_reschedule EXCEPT ![current] = FALSE]
          /\ current' = t
          /\ pc' \in {"cycle", "io", "end"}
          /\ UNCHANGED <<life, intwaitlist, intTimer>>
      BY <2>2 DEF Switch, taskVars
    <3>2. OnCpu'
      BY <2>2, <3>1, <1>1 DEF OnCpu, Live
    <3>3. Requests'
      BY <2>2, <3>1, <1>1 DEF Requests, Live
    <3>4. SleeperWillWake'
      BY <2>2, <3>1 DEF SleeperWillWake
    <3> QED BY <3>2, <3>3, <3>4 DEF Control
  <2> QED BY <2>1, <2>2, <1>13 DEF PolicyStep
<1> QED BY <1>3, <1>4, <1>5, <1>6, <1>7, <1>8, <1>9, <1>10, <1>11, <1>12, <1>13
        DEF CpuStep

-----------------------------------------------------------------------------
(* MachineInv is inductive, and every step respects the queue's contract.  *)

LEMMA MachineStart == CpuInit => MachineInv
<1> SUFFICES ASSUME CpuInit PROVE MachineInv
  OBVIOUS
<1> USE DEF CpuInit
<1>1. /\ Task = 0 .. N /\ N \in Nat /\ InitTask = 0 /\ SeedTask = 0
      /\ Idle \notin Task /\ Process = 1 .. N /\ Null \notin Task
  BY MachineAssumption DEF InitTask, Idle, Process
<1>2. PICK p \in Profiles :
        thread_info = [t \in Task |-> IF t = InitTask THEN InitInfo ELSE p[t]]
  OBVIOUS
<1>3. p \in [Process -> ThreadInfo] /\ \A t \in Process : p[t].parent < t
  BY ProfileAssumption
<1>4. \A t \in Task \ {InitTask} : t \in Process /\ thread_info[t] = p[t]
  BY <1>1, <1>2
<1>5. thread_info[InitTask] = InitInfo
  BY <1>1, <1>2
<1>6. thread_info \in [Task -> [parent : Pointer, thread_type : ThreadType,
                               spawn_time : Nat,
                               kill_time : Nat \cup {NoTime},
                               work_duration : Nat \cup {NoTime}]]
  <2> DEFINE Info == [parent : Pointer, thread_type : ThreadType,
                      spawn_time : Nat, kill_time : Nat \cup {NoTime},
                      work_duration : Nat \cup {NoTime}]
  <2>1. InitInfo \in Info
    BY DEF InitInfo, Pointer, ThreadType
  <2>2. ThreadInfo \subseteq Info
    BY DEF ThreadInfo, Pointer
  <2>3. \A t \in Task : thread_info[t] \in Info
    <3> HIDE DEF Info
    <3> QED BY <1>3, <1>4, <1>5, <2>1, <2>2
  <2>4. thread_info = [t \in Task |-> thread_info[t]]
    BY <1>2
  <2> QED BY <2>3, <2>4
<1>7. QueueInv /\ nr_running = 1
  BY InitialLinks DEF InitSchedule
<1>8. VirtualCPUTypeOK
  <2>1. work_duration \in [Task -> Nat \cup {NoTime}]
    BY <1>6
  <2>2. timer \in 1 .. TickLen /\ clocktick \in 0 .. Horizon
    BY MachineAssumption
  <2> QED BY <2>1, <2>2, <1>6, <1>7
          DEF VirtualCPUTypeOK, QueueInv, PC, Unset
<1>9. Rooted
  BY <1>1, <1>3, <1>4, <1>5 DEF Rooted, Parent, Type, InitInfo, ThreadInfo
<1>10. \A t \in Process : ~Live(t)
  BY <1>1 DEF Live
<1>11. FamilyIntact
  <2>1. \A q \in Task : LiveChildren(q) = {}
    BY <1>10 DEF LiveChildren
  <2> QED BY <2>1, <1>10, FS_EmptySet DEF FamilyIntact
<1>12. Sleeping = {}
  BY DEF Sleeping
<1>13. TaskPlaced
  BY <1>1, <1>12 DEF TaskPlaced, InitSchedule, Live, Queued
<1>14. OnCpu /\ Requests /\ SleeperWillWake
  BY <1>1 DEF OnCpu, Requests, SleeperWillWake
<1> QED BY <1>7, <1>8, <1>9, <1>11, <1>12, <1>13, <1>14 DEF MachineInv, Store

LEMMA MachineStep ==
  ASSUME MachineInv, CpuStep \/ PolicyStep
  PROVE  MachineInv' /\ [QueueNext]_queueVars
BY StepKeepsTypes, StepKeepsStore, StepKeepsControl DEF MachineInv, Control

LEMMA MachineStutter ==
  ASSUME MachineInv, UNCHANGED cpuVars
  PROVE  MachineInv' /\ [QueueNext]_queueVars
<1>1. UNCHANGED <<thread_info, life, children, intwaitlist, queueVars>>
  BY DEF cpuVars, taskVars
<1>2. Store'
  BY <1>1, StoreFrame DEF MachineInv
<1>3. VirtualCPUTypeOK'
  BY DEF MachineInv, VirtualCPUTypeOK, QueueTypeOK, cpuVars, taskVars,
         timerVars, queueVars
<1>4. Control'
  BY DEF MachineInv, Control, OnCpu, Requests, SleeperWillWake, Live, Type,
         cpuVars, taskVars, timerVars, queueVars
<1> QED BY <1>1, <1>2, <1>3, <1>4 DEF MachineInv, Control

(* What the invariant says to the reader.                                  *)
LEMMA NoRequestStands == MachineInv => NoStaleRequest
BY MachineAssumption
   DEF MachineInv, Requests, OnCpu, VirtualCPUTypeOK, NoStaleRequest, Live, Idle
-----------------------------------------------------------------------------
(* A policy that only ever chooses queued tasks.                           *)

QueuedPolicyStep ==
  /\ pc = "schedule"
  /\ \/ Fault /\ nr_running = 0
     \/ \E t \in Task : Live(t) /\ Queued(t) /\ Switch(t)

(* Under such a policy a task that has left the queue while on the CPU is  *)
(* replaced before it is run again: it has asked for schedule().           *)
Runs ==
  /\ CurrentRunnable
  /\ FaultOnlyAtTheEnd
  /\ pc = "end" /\ nr_running # 0 => current # Idle /\ Queued(current)
  /\ pc \in {"arm", "spawn", "spawn_init", "tick", "io", "wake", "check"} /\ current # Idle
       => Queued(current) \/ need_reschedule[current]

LEMMA RunsStart == CpuInit => Runs
BY DEF CpuInit, Runs, CurrentRunnable, FaultOnlyAtTheEnd

LEMMA RunsStep ==
  ASSUME MachineInv, Runs, CpuStep \/ QueuedPolicyStep
  PROVE  Runs'
<1> USE DEF Runs, CurrentRunnable, FaultOnlyAtTheEnd, MachineInv
<1>1. Idle \notin Task /\ InitTask \in Task
  BY MachineAssumption DEF Idle, InitTask
<1>2. need_reschedule \in [Task \cup {Idle} -> BOOLEAN] /\ current \in Task \cup {Idle}
  BY DEF VirtualCPUTypeOK
<1>3. ASSUME Exit, pc \in {"cycle", "work"} PROVE Runs'
  BY <1>3 DEF Exit
<1>4. ASSUME UNCHANGED <<current, next, nr_running>>,
             need_reschedule[current] => need_reschedule'[current],
             \/ pc \in {"cycle", "work", "sleep"} /\ pc' \in {"work", "sleep", "arm"}
             \/ /\ pc \in {"arm", "spawn", "spawn_init", "tick", "io", "wake"}
                /\ pc' \in {"spawn", "spawn_init", "tick", "io", "wake", "check", "schedule"}
      PROVE  Runs'
  BY <1>4 DEF Queued
<1>5. CASE CheckEnd
  <2>1. CASE Exit
    BY <2>1, <1>3, <1>5 DEF CheckEnd
  <2>2. CASE ~Exit
    BY <2>2, <1>4, <1>5 DEF CheckEnd, queueVars
  <2> QED BY <2>1, <2>2
<1>6. CASE Work
  <2>1. CASE Exit
    BY <2>1, <1>3, <1>6 DEF Work
  <2>2. CASE ~Exit
    BY <2>2, <1>4, <1>6 DEF Work, queueVars
  <2> QED BY <2>1, <2>2
<1>7. CASE Sleep
  <2>1. pc = "sleep" /\ current # Idle /\ Queued(current)
    BY <1>7 DEF Sleep
  <2>2. /\ pc' = "arm"
        /\ UNCHANGED current
        /\ \/ UNCHANGED queueVars
           \/ need_reschedule' = [need_reschedule EXCEPT ![current] = TRUE]
    BY <1>7, <2>1 DEF Sleep
  <2> QED BY <2>1, <2>2, <1>2 DEF queueVars, Queued
<1>8. CASE Arm
  BY <1>4, <1>8 DEF Arm, queueVars
<1>9. CASE Spawn
  <2>1. ASSUME NEW p, NEW c, Fork(c, p), pc \in {"spawn", "spawn_init"}, pc' = pc
        PROVE  Runs'
    BY <2>1, <1>2 DEF Fork
  <2> QED BY <2>1, <1>4, <1>9 DEF Spawn, SpawnChildren, queueVars
<1>10. CASE Tick \/ IoEvent
  BY <1>4, <1>10 DEF Tick, IoEvent, queueVars
<1>11. CASE Wake
  <2>1. CASE intwaitlist # <<>>
    <3>1. \A q \in Task : Queued(q) => Queued(q)'
      <4>1. UNCHANGED <<thread_info, life, children>>
        BY <2>1, <1>11 DEF Wake, taskVars
      <4>2. Head(intwaitlist) \in Task /\ Insert(Head(intwaitlist))
        BY <2>1, <4>1, <1>11, WakeKeepsStore DEF Wake
      <4> QED BY <4>2, InsertKeepsLinks DEF QueuedTasks, Store
    <3> QED BY <2>1, <3>1, <1>2, <1>11 DEF Wake, taskVars
  <2>2. CASE intwaitlist = <<>>
    BY <2>2, <1>2, <1>4, <1>11 DEF Wake, queueVars
  <2> QED BY <2>1, <2>2
<1>12. CASE Check
  BY <1>12 DEF Check, queueVars, Queued, OnCpu
<1>13. CASE EndCycle
  BY <1>13 DEF EndCycle, queueVars, Queued
<1>14. CASE QueuedPolicyStep
  <2>1. CASE Fault /\ nr_running = 0
    BY <2>1 DEF Fault, queueVars
  <2>2. ASSUME NEW t \in Task, Live(t), Queued(t), Switch(t) PROVE Runs'
    <3>1. current' = t /\ pc' \in {"cycle", "io", "end"} /\ UNCHANGED queueVars
      BY <2>2 DEF Switch, VirtualCPUTypeOK
    <3> QED BY <2>2, <3>1, <1>1 DEF queueVars, Queued
  <2> QED BY <2>1, <2>2, <1>14 DEF QueuedPolicyStep
<1> QED BY <1>5, <1>6, <1>7, <1>8, <1>9, <1>10, <1>11, <1>12, <1>13, <1>14
        DEF CpuStep

(* Under such a policy the machine implements the process tree.            *)
LEMMA TreeStart == CpuInit => Processes!Begin
<1> SUFFICES ASSUME CpuInit PROVE Processes!Begin
  OBVIOUS
<1>1. VirtualCPUTypeOK
  BY MachineStart DEF MachineInv
<1>2. [t \in Task |-> Parent(t)] \in [Task -> Task \cup {Null}]
  BY <1>1 DEF VirtualCPUTypeOK, Parent, Pointer
<1>3. ASSUME NEW t \in Task
      PROVE  Status(t) = IF t = SeedTask THEN "ready" ELSE "unborn"
  <2>1. life[t] = (IF t = SeedTask THEN "live" ELSE "unborn")
    BY MachineAssumption DEF CpuInit
  <2>2. t = SeedTask => Queued(t)
    BY QueueAssumption DEF CpuInit, InitSchedule, Queued
  <2> QED BY <2>1, <2>2 DEF Status
<1>4. current = Idle
  BY DEF CpuInit
<1> QED BY <1>2, <1>3, <1>4 DEF Processes!Begin

(* Where a step leaves the queue, the births and the deaths alone.         *)
LEMMA TreeFrame ==
  ASSUME UNCHANGED <<thread_info, life, next, current>>
  PROVE  UNCHANGED Processes!treeVars
BY DEF Processes!treeVars, Parent, Status, Queued

LEMMA ExitEnds ==
  ASSUME MachineInv, current \in Task, Live(current), Queued(current),
         children[current] = 0, Exit
  PROVE  Processes!End(current)
<1>1. Store' /\ Remove(current)
  BY ExitKeepsStore DEF MachineInv
<1>2. QueuedTasks' = QueuedTasks \ {current}
  BY <1>1, RemoveKeepsLinks DEF MachineInv, Store
<1>3. /\ life' = [life EXCEPT ![current] = "freed"]
      /\ current' = Idle
      /\ UNCHANGED thread_info
  BY DEF Exit
<1>4. current # Idle /\ InitTask \in Task
  BY MachineAssumption DEF Idle, InitTask
<1>5. \A t \in Task : Status(t)' = IF t = current THEN "gone" ELSE Status(t)
  <2>1. \A t \in Task : life'[t] = IF t = current THEN "freed" ELSE life[t]
    BY <1>3 DEF MachineInv, VirtualCPUTypeOK
  <2>2. \A t \in Task : Queued(t)' <=> Queued(t) /\ t # current
    BY <1>2 DEF QueuedTasks
  <2>3. \A t \in Task : life[t] \in {"unborn", "live", "freed"}
    BY DEF MachineInv, VirtualCPUTypeOK
  <2> QED BY <2>1, <2>2, <2>3 DEF Status
<1>6. LiveChildren(current) = {}
  <2>1. IsFiniteSet(LiveChildren(current))
    BY FiniteChildren
  <2> QED BY <2>1, FS_EmptySet DEF MachineInv, Store, FamilyIntact
<1>7. ASSUME NEW c \in Task, Parent(c) = current PROVE Status(c) \notin {"ready", "asleep"}
  <2>1. c \in Process
    BY <1>4, <1>7, QueueAssumption, MachineAssumption
       DEF MachineInv, Store, Rooted, Process, InitTask
  <2>2. ~Live(c) /\ life[c] \in {"unborn", "freed"}
    BY <2>1, <1>6, <1>7 DEF LiveChildren, Live, MachineInv, VirtualCPUTypeOK
  <2> QED BY <2>2 DEF Status
<1>8. Status(current) = "ready"
  BY DEF Status, Live
<1>9. UNCHANGED [t \in Task |-> Parent(t)]
  BY <1>3 DEF Parent
<1> QED BY <1>3, <1>4, <1>5, <1>7, <1>8, <1>9
        DEF Processes!End, Processes!Move, Processes!Alive

LEMMA ForkBears ==
  ASSUME MachineInv, NEW p \in Task, Live(p), NEW c \in Due(p), Fork(c, p)
  PROVE  c \in Task /\ Processes!Born(c)
<1>1. Insert(c) /\ c \in Task /\ Parent(c) = p /\ life[c] = "unborn"
  BY ForkKeepsStore, MachineAssumption DEF MachineInv, Due, Process
<1>2. QueuedTasks' = QueuedTasks \cup {c}
  BY <1>1, InsertKeepsLinks DEF MachineInv, Store
<1>3. /\ life' = [life EXCEPT ![c] = "live"]
      /\ UNCHANGED <<current, thread_info>>
  BY DEF Fork
<1>4. \A t \in Task : Status(t)' = IF t = c THEN "ready" ELSE Status(t)
  <2>1. \A t \in Task : life'[t] = IF t = c THEN "live" ELSE life[t]
    BY <1>1, <1>3 DEF MachineInv, VirtualCPUTypeOK
  <2>2. \A t \in Task : Queued(t)' <=> Queued(t) \/ t = c
    BY <1>1, <1>2 DEF QueuedTasks
  <2>3. \A t \in Task : life[t] \in {"unborn", "live", "freed"}
    BY DEF MachineInv, VirtualCPUTypeOK
  <2> QED BY <2>1, <2>2, <2>3 DEF Status
<1>5. Status(c) = "unborn" /\ Status(p) \in {"ready", "asleep"} /\ p # Null
  BY <1>1, QueueAssumption DEF Status, Live
<1>6. UNCHANGED [t \in Task |-> Parent(t)]
  BY <1>3 DEF Parent
<1> QED BY <1>1, <1>3, <1>4, <1>5, <1>6
        DEF Processes!Born, Processes!Move, Processes!Alive

LEMMA SleepFalls ==
  ASSUME MachineInv, current \in Task, Live(current), Queued(current),
         current # InitTask, Unlink(current),
         UNCHANGED <<thread_info, life, current>>
  PROVE  Processes!FallAsleep(current)
<1>1. Remove(current)
  BY MachineAssumption DEF Remove
<1>2. QueuedTasks' = QueuedTasks \ {current}
  BY <1>1, RemoveKeepsLinks DEF MachineInv, Store
<1>3. \A t \in Task : Status(t)' = IF t = current THEN "asleep" ELSE Status(t)
  <2>1. \A t \in Task : Queued(t)' <=> Queued(t) /\ t # current
    BY <1>2 DEF QueuedTasks
  <2>2. \A t \in Task : life[t] \in {"unborn", "live", "freed"}
    BY DEF MachineInv, VirtualCPUTypeOK
  <2> QED BY <2>1, <2>2 DEF Status, Live
<1>4. Status(current) = "ready" /\ current # Idle
  BY MachineAssumption DEF Status, Live, Idle
<1>5. UNCHANGED [t \in Task |-> Parent(t)]
  BY DEF Parent
<1> QED BY <1>3, <1>4, <1>5 DEF Processes!FallAsleep, Processes!Move

LEMMA WakeWakes ==
  ASSUME MachineInv, intwaitlist # <<>>,
         InsertAfterHead(Head(intwaitlist)), intwaitlist' = Tail(intwaitlist),
         UNCHANGED <<thread_info, life, children, current>>
  PROVE  Head(intwaitlist) \in Task /\ Processes!WakeUp(Head(intwaitlist))
<1> DEFINE w == Head(intwaitlist)
<1>1. w \in Task /\ Insert(w) /\ w \in Sleeping
  <2>1. w \in Task /\ Insert(w)
    BY WakeKeepsStore DEF MachineInv
  <2>2. w = intwaitlist[1] /\ 1 \in DOMAIN intwaitlist
    BY DEF MachineInv, VirtualCPUTypeOK
  <2> QED BY <2>1, <2>2 DEF Sleeping
<1> HIDE DEF w
<1>2. QueuedTasks' = QueuedTasks \cup {w}
  BY <1>1, InsertKeepsLinks DEF MachineInv, Store
<1>3. Live(w) /\ ~Queued(w)
  BY <1>1 DEF MachineInv, Store, TaskPlaced
<1>4. \A t \in Task : Status(t)' = IF t = w THEN "ready" ELSE Status(t)
  <2>1. \A t \in Task : Queued(t)' <=> Queued(t) \/ t = w
    BY <1>1, <1>2 DEF QueuedTasks
  <2>2. \A t \in Task : life[t] \in {"unborn", "live", "freed"}
    BY DEF MachineInv, VirtualCPUTypeOK
  <2> QED BY <2>1, <2>2, <1>3 DEF Status, Live
<1>5. Status(w) = "asleep"
  BY <1>3 DEF Status, Live
<1>6. UNCHANGED [t \in Task |-> Parent(t)]
  BY DEF Parent
<1>7. Processes!WakeUp(w)
  BY <1>1, <1>4, <1>5, <1>6 DEF Processes!WakeUp, Processes!Move
<1> QED BY <1>1, <1>7 DEF w

LEMMA TreeStep ==
  ASSUME MachineInv, Runs, CpuStep \/ QueuedPolicyStep
  PROVE  [Processes!TreeNext]_(Processes!treeVars)
<1> DEFINE Goal == [Processes!TreeNext]_(Processes!treeVars)
           Still == UNCHANGED <<thread_info, life, next, current>>
<1> SUFFICES Goal
  OBVIOUS
<1>1. Still => Goal
  BY TreeFrame
<1>2. ASSUME NEW t \in Task,
             \/ Processes!Born(t) \/ Processes!Dispatch(t) \/ Processes!FallAsleep(t)
             \/ Processes!WakeUp(t) \/ Processes!End(t)
      PROVE  Goal
  BY <1>2 DEF Processes!TreeNext
<1>3. current # Idle => current \in Task /\ Live(current)
  BY DEF MachineInv, VirtualCPUTypeOK, OnCpu
<1>4. pc \in {"cycle", "work", "sleep"} => current # Idle /\ Queued(current)
  BY DEF Runs, CurrentRunnable
<1> HIDE DEF Goal
<1>5. Fault => Goal
  BY <1>1 DEF Fault, taskVars, queueVars
<1>6. CASE CheckEnd
  <2>1. CASE Exit /\ children[current] = 0
    BY <2>1, <1>2, <1>3, <1>4, <1>6, ExitEnds DEF CheckEnd
  <2>2. CASE Still
    BY <2>2, <1>1
  <2> QED BY <2>1, <2>2, <1>6 DEF CheckEnd, queueVars
<1>7. CASE Work
  <2>1. CASE Exit /\ children[current] = 0
    BY <2>1, <1>2, <1>3, <1>4, <1>7, ExitEnds DEF Work
  <2>2. CASE Still
    BY <2>2, <1>1
  <2> QED BY <2>1, <2>2, <1>7 DEF Work, queueVars
<1>8. CASE Sleep
  <2>1. current # Idle /\ Queued(current) /\ current # InitTask
    BY <1>4, <1>8 DEF Sleep, MachineInv, OnCpu, Store, Rooted
  <2>2. CASE Still
    BY <2>2, <1>1
  <2>3. CASE Unlink(current) /\ UNCHANGED <<thread_info, life, current>>
    BY <2>1, <2>3, <1>2, <1>3, SleepFalls
  <2> QED BY <2>1, <2>2, <2>3, <1>8 DEF Sleep, taskVars, queueVars
<1>9. CASE Spawn
  <2>1. InitTask \in Task /\ Live(InitTask) /\ current \in Task /\ Live(current)
    <3>1. current # Idle
      BY <1>9 DEF Spawn, SpawnChildren, MachineInv, OnCpu
    <3> QED BY <3>1, <1>3, RootQueued, MachineAssumption DEF MachineInv, InitTask
  <2>2. ASSUME NEW p \in Task, Live(p), NEW c \in Due(p), Fork(c, p) PROVE Goal
    BY <2>2, <1>2, ForkBears
  <2>3. UNCHANGED <<current, taskVars, queueVars>> => Goal
    BY <1>1 DEF taskVars, queueVars
  <2> QED BY <2>1, <2>2, <2>3, <1>9 DEF Spawn, SpawnChildren
<1>10. CASE Wake
  <2>1. CASE intwaitlist # <<>>
    <3>1. UNCHANGED <<thread_info, life, children, current>>
      BY <1>10 DEF Wake, taskVars
    <3> QED BY <2>1, <3>1, <1>2, <1>10, WakeWakes DEF Wake
  <2>2. CASE intwaitlist = <<>>
    BY <2>2, <1>1, <1>10 DEF Wake, taskVars, queueVars
  <2> QED BY <2>1, <2>2
<1>11. CASE Arm \/ Tick \/ IoEvent \/ Check \/ EndCycle
  BY <1>1, <1>11 DEF Arm, Tick, IoEvent, Check, EndCycle, taskVars, queueVars
<1>12. CASE QueuedPolicyStep
  <2>1. ASSUME NEW t \in Task, Live(t), Queued(t), Switch(t) PROVE Goal
    <3>1. UNCHANGED <<thread_info, life, next>> /\ current' = t /\ t # Idle
      BY <2>1, MachineAssumption DEF Switch, taskVars, queueVars, Idle
    <3>2. Status(t) = "ready"
      BY <2>1 DEF Status, Live
    <3>3. \A q \in Task : Status(q)' = Status(q) /\ Parent(q)' = Parent(q)
      BY <3>1 DEF Status, Queued, Parent
    <3>4. Processes!Dispatch(t)
      BY <3>1, <3>2, <3>3 DEF Processes!Dispatch
    <3> QED BY <3>4, <1>2
  <2> QED BY <2>1, <1>5, <1>12 DEF QueuedPolicyStep
<1> QED BY <1>6, <1>7, <1>8, <1>9, <1>10, <1>11, <1>12 DEF CpuStep

-----------------------------------------------------------------------------
(* The round-robin machine                                                 *)


(* The policy asks no more of the machine, and gives it no less, than a    *)
(* fault or a switch to a task that is alive.                              *)
LEMMA ScheduleIsPolicy ==
  ASSUME MachineInv, nxt \in Pointer, Schedule
  PROVE  PolicyStep /\ nxt' \in Pointer
<1> USE DEF MachineInv, VirtualCPUTypeOK, QueueTypeOK
<1>1. SeedTask \in Task /\ pc = "schedule"
  BY QueueAssumption DEF Schedule
<1>2. CASE nr_running = 1
  <2>1. SeedTask \in QueuedTasks
    <3>1. QueuedTasks # {}
      <4>1. Cardinality(QueuedTasks) = 1
        BY <1>2 DEF Store, QueueInv, RingLinks, CountExact
      <4>2. Cardinality({}) = 0 /\ 0 # 1
        BY FS_EmptySet
      <4> QED BY <4>1, <4>2, Zenon
    <3> QED BY <1>1, <3>1 DEF Store, QueueInv, RingLinks, HeadQueued, QueuedTasks
  <2>2. Live(SeedTask)
    BY <1>1, <2>1 DEF QueuedTasks, Store, TaskPlaced
  <2>3. Switch(SeedTask) /\ nxt' = next[SeedTask]
    BY <1>2 DEF Schedule
  <2> QED BY <1>1, <2>2, <2>3 DEF PolicyStep
<1>3. CASE nr_running # 1 /\ (nxt = Null \/ ~Live(nxt))
  <2>1. Fault /\ UNCHANGED nxt
    BY <1>3 DEF Schedule
  <2> QED BY <1>1, <2>1 DEF PolicyStep
<1>4. CASE nr_running # 1 /\ nxt # Null /\ Live(nxt)
  <2>1. nxt \in Task
    BY <1>4 DEF Pointer
  <2>2. /\ nxt' = IF next[nxt] = SeedTask THEN next[SeedTask] ELSE next[nxt]
        /\ Switch(nxt)
    BY <1>4 DEF Schedule
  <2> QED BY <1>1, <1>4, <2>1, <2>2 DEF PolicyStep
<1> QED BY <1>2, <1>3, <1>4

Inv == MachineInv /\ nxt \in Pointer

LEMMA InvStart == Init => Inv
BY MachineStart DEF Init, Inv, Pointer

LEMMA InvStep == Inv /\ [Next]_vars => Inv' /\ [QueueNext]_queueVars
<1> SUFFICES ASSUME Inv, [Next]_vars PROVE Inv' /\ [QueueNext]_queueVars
  OBVIOUS
<1>1. CASE CpuStep /\ UNCHANGED nxt
  BY <1>1, MachineStep DEF Inv
<1>2. CASE Schedule
  BY <1>2, ScheduleIsPolicy, MachineStep DEF Inv
<1>3. CASE UNCHANGED vars
  BY <1>3, MachineStutter DEF Inv, vars
<1> QED BY <1>1, <1>2, <1>3 DEF Next

LEMMA InvAlways == Spec => []Inv
BY InvStart, InvStep, PTL DEF Spec

-----------------------------------------------------------------------------
(* The turn pointer while nobody sleeps.                                   *)

(* Only the end of the task nxt points to could leave it dangling, and     *)
(* nxt points to the task on the CPU only if that is alone beside init     *)
(* (then schedule() will not follow nxt) or has just forked (then it is    *)
(* rescheduled before it may end).                                         *)
TurnInv ==
  /\ Runs
  /\ intwaitlist = <<>>
  /\ nr_running >= 2 => nxt \in QueuedTasks
  /\ nr_running = 1 /\ current # Idle => nxt = SeedTask
  /\ nxt = current /\ current # SeedTask =>
       nr_running <= 2 \/ (pc \notin {"cycle", "work"} /\ need_reschedule[current])

(* schedule() moves the pointer to the neighbour of the task it switches   *)
(* to: to that task itself only if there is no other beside the head.      *)
LEMMA ScheduleTurns ==
  ASSUME Inv, TurnInv, Schedule
  PROVE  QueuedPolicyStep /\ TurnInv'
<1> USE DEF Inv, MachineInv, VirtualCPUTypeOK, QueueTypeOK
<1>1. SeedTask \in Task /\ SeedTask # Idle /\ Idle \notin Task /\ pc = "schedule"
  BY QueueAssumption, MachineAssumption DEF Schedule, Idle
<1>2. QueueInv /\ nr_running = Cardinality(QueuedTasks) /\ IsFiniteSet(QueuedTasks)
  BY FS_Subset, QueueAssumption DEF Store, QueueInv, RingLinks, CountExact, QueuedTasks
<1>3. \A q \in QueuedTasks : q \in Task /\ Queued(q) /\ Live(q) /\ q # Null
  BY QueueAssumption DEF QueuedTasks, Store, TaskPlaced
<1>4. nr_running \in Nat /\ (nr_running # 0 => SeedTask \in QueuedTasks)
  <2>1. nr_running \in Nat
    BY <1>2, FS_CardinalityType
  <2>2. QueuedTasks = {} => nr_running = 0
    BY <1>2, FS_EmptySet
  <2> QED BY <1>1, <2>1, <2>2 DEF Store, QueueInv, RingLinks, HeadQueued, QueuedTasks
<1>5. ASSUME NEW t \in QueuedTasks, Switch(t), nr_running # 0,
             nr_running >= 2 => nxt' \in QueuedTasks,
             nr_running = 1 => nxt' = SeedTask,
             nxt' = t /\ t # SeedTask => nr_running <= 2
      PROVE  QueuedPolicyStep /\ TurnInv'
  <2>1. QueuedPolicyStep
    BY <1>1, <1>3, <1>5 DEF QueuedPolicyStep
  <2>2. Runs'
    BY <2>1, RunsStep DEF TurnInv
  <2>3. current' = t /\ UNCHANGED <<queueVars, intwaitlist>>
    BY <1>5 DEF Switch
  <2>4. QueuedTasks' = QueuedTasks /\ nr_running' = nr_running
    BY <2>3 DEF QueuedTasks, Queued, queueVars
  <2> QED BY <1>5, <2>1, <2>2, <2>3, <2>4 DEF TurnInv
<1>6. CASE nr_running = 1
  <2>1. Switch(SeedTask) /\ nxt' = next[SeedTask]
    BY <1>6 DEF Schedule
  <2>2. QueuedTasks = {SeedTask}
    <3>1. PICK x : QueuedTasks = {x}
      BY <1>2, <1>6, FS_Singleton
    <3> QED BY <3>1, <1>4, <1>6
  <2>3. next[SeedTask] = SeedTask
    BY <2>2, <1>2, <1>3, HeadAlone
  <2> QED BY <2>1, <2>2, <2>3, <1>5, <1>6
<1>7. CASE nr_running = 0
  <2>1. ~Live(nxt) \/ nxt = Null
    BY <1>7, RootQueued DEF Pointer
  <2>2. Fault /\ UNCHANGED nxt
    BY <1>7, <2>1 DEF Schedule
  <2>3. QueuedPolicyStep
    BY <1>1, <1>7, <2>2 DEF QueuedPolicyStep
  <2>4. Runs'
    BY <2>3, RunsStep DEF TurnInv
  <2>5. nr_running' = 0 /\ UNCHANGED intwaitlist
    BY <1>7, <2>2 DEF Fault, queueVars
  <2> QED BY <2>3, <2>4, <2>5 DEF TurnInv
<1>8. CASE nr_running >= 2
  <2>1. nxt \in QueuedTasks
    BY <1>8 DEF TurnInv
  <2>2. /\ nxt' = IF next[nxt] = SeedTask THEN next[SeedTask] ELSE next[nxt]
        /\ Switch(nxt)
    BY <2>1, <1>3, <1>8 DEF Schedule
  <2>3. /\ \A q \in QueuedTasks : next[q] \in QueuedTasks /\ prev[next[q]] = q
        /\ SeedTask \in QueuedTasks
    BY <1>2, <1>3, <1>4, <1>8, QueueNeighbours
  <2>4. nxt' \in QueuedTasks
    BY <2>1, <2>2, <2>3
  <2>5. ASSUME nxt' = nxt, nxt # SeedTask PROVE nr_running <= 2
    <3>1. CASE next[nxt] = SeedTask
      <4>1. next[SeedTask] = nxt
        BY <3>1, <2>2, <2>5
      <4> DEFINE S == {SeedTask, nxt}
      <4>2. S \in SUBSET QueuedTasks /\ SeedTask \in S /\ \A q \in S : next[q] \in S
        BY <3>1, <4>1, <2>1, <2>3
      <4>3. S = QueuedTasks
        <5> HIDE DEF S
        <5> QED BY <4>2, <1>2 DEF QueueInv, RingLinks, OneRing
      <4>4. Cardinality(S) = 2
        <5>1. Cardinality({SeedTask}) = 1 /\ IsFiniteSet({SeedTask})
          BY FS_Singleton
        <5>2. nxt \notin {SeedTask}
          BY <2>5
        <5>3. Cardinality({SeedTask} \cup {nxt}) = 1 + 1
          BY <5>1, <5>2, FS_AddElement
        <5>4. S = {SeedTask} \cup {nxt}
          OBVIOUS
        <5> HIDE DEF S
        <5>5. Cardinality(S) = 1 + 1
          BY <5>3, <5>4, Zenon
        <5>6. 1 + 1 = 2
          OBVIOUS
        <5> QED BY <5>5, <5>6, Zenon
      <4> HIDE DEF S
      <4> QED BY <4>3, <4>4, <1>2
    <3>2. CASE next[nxt] # SeedTask
      <4>1. next[nxt] = nxt
        BY <3>2, <2>2, <2>5
      <4> DEFINE S == QueuedTasks \ {nxt}
      <4>2. SeedTask \in S /\ S \in SUBSET QueuedTasks /\ nxt \notin S
        BY <2>3, <2>5
      <4>3. \A q \in S : next[q] \in S
        BY <4>1, <2>1, <2>3
      <4>4. S = QueuedTasks
        <5> HIDE DEF S
        <5> QED BY <4>2, <4>3, <1>2 DEF QueueInv, RingLinks, OneRing
      <4> QED BY <4>2, <4>4, <2>1
    <3> QED BY <3>1, <3>2
  <2> QED BY <2>1, <2>2, <2>4, <2>5, <1>5, <1>8
<1> QED BY <1>4, <1>6, <1>7, <1>8

LEMMA CpuTurns ==
  ASSUME Inv, NobodySleeps, TurnInv, CpuStep, UNCHANGED nxt
  PROVE  TurnInv'
<1> USE DEF Inv, MachineInv
<1>1. Runs'
  BY RunsStep DEF TurnInv
<1>2. Idle \notin Task /\ InitTask \in Task /\ SeedTask = InitTask /\ InitTask # Idle
  BY MachineAssumption DEF Idle, InitTask
<1>3. /\ need_reschedule \in [Task \cup {Idle} -> BOOLEAN]
      /\ current \in Task \cup {Idle} /\ nr_running \in Int
  BY DEF VirtualCPUTypeOK, QueueTypeOK
<1>4. current # Idle => Queued(SeedTask) /\ nr_running >= 1
  <2> SUFFICES ASSUME current # Idle PROVE Queued(SeedTask) /\ nr_running >= 1
    OBVIOUS
  <2>1. Queued(InitTask) /\ nr_running # 0
    BY <1>3, RootQueued DEF OnCpu
  <2>2. nr_running \in Nat
    <3>1. IsFiniteSet(QueuedTasks)
      BY FS_Subset, QueueAssumption DEF QueuedTasks
    <3> QED BY <3>1, FS_CardinalityType DEF Store, QueueInv, RingLinks, CountExact
  <2> QED BY <2>1, <2>2, <1>2
(* Nobody falls asleep, and nobody is there to be woken.                   *)
<1>5. ~Sleep
  <2> SUFFICES ASSUME Sleep PROVE FALSE
    OBVIOUS
  <2>1. current # Idle /\ Type(current) = "INTERACTIVE" /\ current # InitTask
    BY DEF Sleep, OnCpu, Store, Rooted
  <2>2. current \in Process
    BY <2>1, <1>3, MachineAssumption DEF Process, InitTask
  <2> QED BY <2>1, <2>2 DEF NobodySleeps, Type
<1>6. UNCHANGED intwaitlist
  <2>1. intwaitlist = <<>>
    BY DEF TurnInv
  <2> QED BY <2>1, <1>5 DEF CpuStep, CheckEnd, Exit, Fault, Work, Arm, Spawn, SpawnChildren,
                      Fork, Tick, IoEvent, Wake, Check, EndCycle
<1>7. ASSUME UNCHANGED <<current, queueVars>>,
             need_reschedule[current] => need_reschedule'[current],
             pc' \in {"cycle", "work"} => pc \in {"cycle", "work"} \/ ~need_reschedule[current]
      PROVE  TurnInv'
  <2>1. QueuedTasks' = QueuedTasks /\ nr_running' = nr_running
    BY <1>7 DEF QueuedTasks, Queued, queueVars
  <2> QED BY <1>1, <1>6, <1>7, <2>1 DEF TurnInv
<1>8. ASSUME Exit, pc \in {"cycle", "work"}, children[current] = 0 PROVE TurnInv'
  <2>1. current \in Task /\ Live(current) /\ Queued(current) /\ current # Idle
    BY <1>3, <1>8 DEF OnCpu, TurnInv, Runs, CurrentRunnable
  <2>2. Remove(current) /\ Store'
    BY <2>1, <1>8, ExitKeepsStore
  <2>3. QueuedTasks' = QueuedTasks \ {current} /\ nr_running' = nr_running - 1
    BY <2>1, <2>2, RemoveKeepsLinks DEF Remove, Unlink, Store
  <2>4. current' = Idle /\ nxt # Idle
    BY <2>1, <1>2, <1>8, MachineAssumption DEF Exit, Pointer, Idle
  <2>5. current = SeedTask => nr_running' = 0
    <3> SUFFICES ASSUME current = SeedTask PROVE nr_running' = 0
      OBVIOUS
    <3>1. QueuedTasks = {SeedTask}
      BY <2>1, <2>2, HeadAlone DEF Remove, Store
    <3>2. nr_running = 1
      BY <3>1, FS_Singleton DEF Store, QueueInv, RingLinks, CountExact
    <3> QED BY <3>2, <2>3
  <2>6. nr_running' >= 2 => nxt' \in QueuedTasks'
    <3> SUFFICES ASSUME nr_running' >= 2 PROVE nxt \in QueuedTasks \ {current}
      BY <2>3
    <3>1. nr_running > 2 /\ current # SeedTask
      BY <2>3, <2>5, <1>3
    <3>2. nxt \in QueuedTasks
      BY <3>1, <1>3 DEF TurnInv
    <3>3. nxt # current
      BY <3>1, <1>3, <1>8 DEF TurnInv
    <3> QED BY <3>2, <3>3
  <2> QED BY <1>1, <1>6, <2>4, <2>6 DEF TurnInv
<1>9. CASE CheckEnd
  <2>1. CASE Exit /\ children[current] = 0
    BY <2>1, <1>8, <1>9 DEF CheckEnd
  <2>2. CASE ~(Exit /\ children[current] = 0)
    BY <2>2, <1>7, <1>9 DEF CheckEnd
  <2> QED BY <2>1, <2>2
<1>10. CASE Work
  <2>1. CASE Exit /\ children[current] = 0
    BY <2>1, <1>8, <1>10 DEF Work
  <2>2. CASE ~(Exit /\ children[current] = 0)
    BY <2>2, <1>7, <1>10 DEF Work
  <2> QED BY <2>1, <2>2
<1>11. CASE Spawn
  <2>1. current # Idle /\ InitTask \in Task /\ Live(InitTask) /\ current \in Task /\ Live(current)
    <3>1. current # Idle
      BY <1>11 DEF Spawn, SpawnChildren, OnCpu
    <3>2. current \in Task /\ Live(current)
      BY <3>1, <1>3 DEF OnCpu
    <3> QED BY <3>1, <3>2, <1>2, RootQueued
  <2>2. ASSUME NEW p \in Task, Live(p), NEW c \in Due(p), Fork(c, p),
               pc \in {"spawn", "spawn_init"}, pc' = pc
        PROVE  TurnInv'
    <3>1. Insert(c) /\ c \in Task
      BY <2>2, ForkKeepsStore, MachineAssumption DEF Due, Process
    <3>2. QueuedTasks' = QueuedTasks \cup {c} /\ nr_running' = nr_running + 1
      BY <3>1, InsertKeepsLinks DEF Insert, InsertAfterHead, Store
    <3>3. current' = current /\ need_reschedule'[current]
      BY <2>2, <1>3 DEF Fork
    <3>4. nxt \in QueuedTasks
      <4>1. CASE nr_running >= 2
        BY <4>1 DEF TurnInv
      <4>2. CASE nr_running = 1
        BY <4>2, <2>1, <1>2, <1>4 DEF TurnInv, QueuedTasks
      <4> QED BY <4>1, <4>2, <2>1, <1>3, <1>4
    <3> QED BY <1>1, <1>3, <1>4, <1>6, <2>1, <2>2, <3>2, <3>3, <3>4 DEF TurnInv
  <2>3. ASSUME UNCHANGED <<current, need_reschedule, queueVars>>,
               pc' \in {"spawn_init", "tick"}
        PROVE  TurnInv'
    BY <2>3, <1>7
  <2> QED BY <2>1, <2>2, <2>3, <1>11 DEF Spawn, SpawnChildren
<1>12. CASE Arm \/ Tick \/ IoEvent \/ Check
  BY <1>7, <1>12 DEF Arm, Tick, IoEvent, Check
<1>13. CASE Wake
  <2>1. intwaitlist = <<>>
    BY DEF TurnInv
  <2> QED BY <2>1, <1>3, <1>7, <1>13 DEF Wake
<1>14. CASE EndCycle
  BY <1>7, <1>14 DEF EndCycle, Requests
<1> QED BY <1>5, <1>9, <1>10, <1>11, <1>12, <1>13, <1>14 DEF CpuStep

LEMMA TurnStart == Init => TurnInv
<1> SUFFICES ASSUME Init PROVE TurnInv
  OBVIOUS
<1>1. Runs
  BY RunsStart DEF Init
<1> QED BY <1>1, QueueAssumption DEF Init, CpuInit, InitSchedule, TurnInv

LEMMA TurnStep ==
  Inv /\ (NobodySleeps => TurnInv) /\ [Next]_vars => (NobodySleeps => TurnInv)'
<1> SUFFICES ASSUME Inv, NobodySleeps => TurnInv, [Next]_vars, NobodySleeps'
             PROVE  TurnInv'
  OBVIOUS
<1>1. UNCHANGED thread_info
  BY DEF Next, Schedule, Switch, Fault, CpuStep, CheckEnd, Exit, Work, Sleep, Arm, Spawn,
         SpawnChildren, Fork, Tick, IoEvent, Wake, Check, EndCycle,
         vars, cpuVars, taskVars
<1>2. NobodySleeps /\ TurnInv
  BY <1>1 DEF NobodySleeps
<1>3. CASE CpuStep /\ UNCHANGED nxt
  BY <1>2, <1>3, CpuTurns
<1>4. CASE Schedule
  BY <1>2, <1>4, ScheduleTurns
<1>5. CASE UNCHANGED vars
  BY <1>2, <1>5
     DEF TurnInv, Runs, CurrentRunnable, FaultOnlyAtTheEnd, QueuedTasks, Queued,
         vars, cpuVars, taskVars, timerVars, queueVars
<1> QED BY <1>3, <1>4, <1>5 DEF Next

-----------------------------------------------------------------------------

(* Type correctness, for every constant: no counter of the loop leaves its *)
(* range, the IO timer is never seen at zero, the turn pointer never names *)
(* idle.                                                                   *)
THEOREM TypeCorrect == Spec => []TypeOK
<1>1. Inv => TypeOK
  BY DEF Inv, MachineInv, TypeOK
<1> QED BY <1>1, InvAlways, PTL

(* A live task is linked into the run queue or on the wait list, never in  *)
(* both and never lost, whatever sleeps, wakes, forks and ends in the same *)
(* pass of the loop.                                                       *)
THEOREM EveryTaskPlaced == Spec => []TaskPlaced
<1>1. Inv => TaskPlaced
  BY DEF Inv, MachineInv, Store
<1> QED BY <1>1, InvAlways, PTL

(* A parent outlives its children, and its counter, on which taskEnd()     *)
(* decides, is their number: the parent pointer never dangles.             *)
THEOREM ParentsOutlive == Spec => []FamilyIntact
<1>1. Inv => FamilyIntact
  BY DEF Inv, MachineInv, Store
<1> QED BY <1>1, InvAlways, PTL

(* Nobody is put to sleep without a running IO timer to wake it.           *)
THEOREM NoSleepForever == Spec => []SleeperWillWake
<1>1. Inv => SleeperWillWake
  BY DEF Inv, MachineInv
<1> QED BY <1>1, InvAlways, PTL

(* No request to reschedule survives to the next cycle.                    *)
THEOREM RequestsServed == Spec => []NoStaleRequest
<1>1. Inv => NoStaleRequest
  BY NoRequestStands DEF Inv
<1> QED BY <1>1, InvAlways, PTL

(* The machine uses the run queue only as the queue demands, so that the   *)
(* queue's own theorem, QueueLinksSound, is about the queue in the machine. *)
THEOREM QueueUsedAsDemanded == Spec => RunQueueContract
<1>1. Init => InitSchedule
  BY DEF Init, CpuInit
<1>2. Inv /\ [Next]_vars => [QueueNext]_queueVars
  BY InvStep
<1> QED BY <1>1, <1>2, InvAlways, PTL DEF Spec, RunQueueContract

(* While nobody sleeps, the static turn pointer, which no other function   *)
(* knows of, never dangles when schedule() follows it, though the tasks it *)
(* names fork, end and are freed; only queued tasks run, and no memory is  *)
(* misused before init is gone.                                            *)
THEOREM TurnsStaySound == Spec => []TurnsSound
<1>1. Inv /\ (NobodySleeps => TurnInv) => TurnsSound
  BY QueueAssumption
     DEF Inv, MachineInv, VirtualCPUTypeOK, QueueTypeOK, TurnInv, TurnsSound, TurnTakenSound, Runs,
         MachineSound, QueuedTasks
<1>2. Init => (NobodySleeps => TurnInv)
  BY TurnStart
<1> QED BY <1>1, <1>2, InvAlways, TurnStep, PTL DEF Spec

(* The run queue in the machine is the task order of the abstract queue.   *)
THEOREM QueueKeepsOrder == Spec => ImplementsTaskOrder
<1>1. RunQueueContract => QueueSpec
  BY DEF RunQueueContract, QueueSpec
<1> QED BY <1>1, QueueUsedAsDemanded, QueueIsTaskOrder

-----------------------------------------------------------------------------
(* How long one waits for one's turn.                                      *)

(* Where a queued task stands, counted from the head.                      *)
Place(q) == CHOOSE i \in 1 .. nr_running : Walk[i] = q

Ahead(q, r) == Place(q) < Place(r)

LEMMA PlaceIs ==
  ASSUME RingWalk
  PROVE  /\ \A q \in QueuedTasks : Place(q) \in 1 .. nr_running /\ Walk[Place(q)] = q
         /\ \A i \in 1 .. nr_running : Place(Walk[i]) = i
         /\ Place(SeedTask) = 1
<1>1. \A q \in QueuedTasks : \E i \in 1 .. nr_running : Walk[i] = q
  BY DEF RingWalk
<1>2. \A q \in QueuedTasks : Place(q) \in 1 .. nr_running /\ Walk[Place(q)] = q
  BY <1>1 DEF Place
<1>3. \A i \in 1 .. nr_running : Place(Walk[i]) = i
  <2> TAKE i \in 1 .. nr_running
  <2>1. Walk[i] \in QueuedTasks
    BY DEF RingWalk
  <2>2. Place(Walk[i]) \in 1 .. nr_running /\ Walk[Place(Walk[i])] = Walk[i]
    BY <1>2, <2>1
  <2> QED BY <2>2 DEF RingWalk
<1>4. Place(SeedTask) = 1
  <2>1. 1 \in 1 .. nr_running /\ Walk[1] = SeedTask
    BY DEF RingWalk
  <2> QED BY <1>3, <2>1
<1> QED BY <1>2, <1>3, <1>4

LEMMA PlaceOnWalk ==
  RingWalk => \A i \in 1 .. nr_running : \A q : q = Walk[i] => Place(q) = i
BY PlaceIs

LEMMA PlaceOnNextWalk ==
  RingWalk' => (\A i \in 1 .. nr_running : \A q : q = Walk[i] => Place(q) = i)'
BY PlaceOnWalk, PTL

(* schedule() goes from place to place; behind the last comes the head.    *)
LEMMA PlacesOf ==
  ASSUME QueueInv, Queued(SeedTask)
  PROVE  /\ \A q \in QueuedTasks : Place(q) \in 1 .. nr_running
         /\ \A q, r \in QueuedTasks : Place(q) = Place(r) => q = r
         /\ Place(SeedTask) = 1
         /\ \A q \in QueuedTasks : next[q] # SeedTask => Place(next[q]) = Place(q) + 1
         /\ \A q \in QueuedTasks : next[q] = SeedTask => Place(q) = nr_running
<1>1. RingWalk
  BY RingIsWalk
<1>2. /\ \A q \in QueuedTasks : Place(q) \in 1 .. nr_running /\ Walk[Place(q)] = q
      /\ \A i \in 1 .. nr_running : Place(Walk[i]) = i
      /\ Place(SeedTask) = 1
  BY <1>1, PlaceIs
<1>3. nr_running \in Nat \ {0}
  BY <1>1 DEF RingWalk
<1>4. ASSUME NEW q \in QueuedTasks, Place(q) # nr_running
      PROVE  next[q] # SeedTask /\ Place(next[q]) = Place(q) + 1
  <2>1. Place(q) \in 1 .. nr_running - 1 /\ Place(q) + 1 \in 1 .. nr_running
    BY <1>2, <1>3, <1>4
  <2>2. Walk[Place(q) + 1] = next[q]
    BY <1>1, <1>2, <2>1 DEF RingWalk
  <2>3. Place(next[q]) = Place(q) + 1
    BY <1>2, <2>1, <2>2
  <2>4. Place(q) + 1 # 1
    BY <2>1
  <2> QED BY <1>2, <2>3, <2>4
<1>5. ASSUME NEW q \in QueuedTasks, Place(q) = nr_running
      PROVE  next[q] = SeedTask
  BY <1>1, <1>2, <1>5 DEF RingWalk
<1> QED BY <1>2, <1>4, <1>5

LEMMA PlaceFrame ==
  ASSUME UNCHANGED queueVars
  PROVE  \A q : Place(q)' = Place(q)
<1>1. Walk' = Walk /\ nr_running' = nr_running
  BY HopIs, WalkPrimed DEF queueVars, Walk
<1> QED BY <1>1 DEF Place

(* Whoever is queued stands in front of everybody but the head.            *)
LEMMA PlacesInsert ==
  ASSUME QueueInv, NEW p \in Task, Insert(p)
  PROVE  /\ \A q \in QueuedTasks \ {SeedTask} : Place(q)' = Place(q) + 1
         /\ Place(p)' = 2
<1>1. RingWalk
  BY RingIsWalk DEF Insert
<1>2. /\ QueueInv' /\ QueuedTasks' = QueuedTasks \cup {p} /\ nr_running' = nr_running + 1
      /\ p \notin QueuedTasks /\ SeedTask \in QueuedTasks
  BY InsertKeepsLinks, QueueAssumption DEF Insert, InsertAfterHead, QueuedTasks
<1>3. RingWalk'
  <2>1. Queued(SeedTask)'
    BY <1>2, QueueAssumption DEF QueuedTasks
  <2> QED BY <1>2, <2>1, RingIsWalk, PTL
<1>4. /\ nr_running \in Nat /\ nr_running >= 1
      /\ Walk \in Seq(QueuedTasks) /\ Len(Walk) = nr_running
      /\ Walk[1] = SeedTask
  BY <1>1 DEF RingWalk
<1>5. Walk' = <<SeedTask, p>> \o Tail(Walk)
  BY InsertEnters DEF Order!Enter
<1>6. /\ Tail(Walk) \in Seq(QueuedTasks) /\ Len(Tail(Walk)) = nr_running - 1
      /\ \A i \in 1 .. nr_running - 1 : Tail(Walk)[i] = Walk[i + 1]
  BY <1>4
<1>7. Walk'[2] = p /\ \A i \in 2 .. nr_running : Walk'[i + 1] = Walk[i]
  <2>1. Walk'[2] = p
    BY <1>4, <1>5, <1>6
  <2>2. ASSUME NEW i \in 2 .. nr_running PROVE Walk'[i + 1] = Walk[i]
    <3>1. i - 1 \in 1 .. nr_running - 1 /\ (i - 1) + 1 = i /\ (i + 1) - 2 = i - 1
      BY <1>4
    <3>2. Walk'[i + 1] = Tail(Walk)[i - 1]
      BY <1>4, <1>5, <1>6, <3>1
    <3> QED BY <1>6, <3>1, <3>2
  <2> QED BY <2>1, <2>2
<1>8. \A i \in 1 .. nr_running + 1 : \A q : q = Walk'[i] => Place(q)' = i
  <2>1. (\A i \in 1 .. nr_running : \A q : q = Walk[i] => Place(q) = i)'
    BY <1>3, PlaceOnNextWalk
  <2> QED BY <1>2, <2>1
<1>9. Place(p)' = 2
  <2>1. 2 \in 1 .. nr_running + 1
    BY <1>4
  <2> QED BY <1>7, <1>8, <2>1
<1>10. ASSUME NEW q \in QueuedTasks \ {SeedTask} PROVE Place(q)' = Place(q) + 1
  <2>1. Place(q) \in 2 .. nr_running /\ Walk[Place(q)] = q
    BY <1>1, <1>4, PlaceIs
  <2>2. Walk'[Place(q) + 1] = q /\ Place(q) + 1 \in 1 .. nr_running + 1
    BY <1>4, <1>7, <2>1
  <2> QED BY <1>8, <2>2
<1> QED BY <1>9, <1>10

(* Whoever leaves the queue leaves the others in their order.              *)
LEMMA PlacesRemove ==
  ASSUME QueueInv, NEW p \in Task, Remove(p)
  PROVE  \A q, r \in QueuedTasks \ {p} : Place(q)' < Place(r)' <=> Place(q) < Place(r)
<1>1. p \in QueuedTasks /\ Queued(SeedTask)
  BY DEF Remove, QueuedTasks, QueueInv, RingLinks, HeadQueued
<1>2. RingWalk
  BY <1>1, RingIsWalk
<1>3. /\ QueueInv' /\ QueuedTasks' = QueuedTasks \ {p} /\ nr_running' = nr_running - 1
  BY RemoveKeepsLinks DEF Remove, Unlink
<1>4. /\ nr_running \in Nat /\ nr_running >= 1
      /\ Walk \in Seq(QueuedTasks) /\ Len(Walk) = nr_running
      /\ DOMAIN Walk = 1 .. nr_running
  BY <1>2 DEF RingWalk
<1>5. PICK k \in 1 .. nr_running : Walk[k] = p /\ Walk' = Order!RemoveAt(Walk, k)
  BY <1>4, RemoveLeaves DEF Order!Leave
<1>6. Walk' = [i \in 1 .. nr_running - 1 |-> IF i < k THEN Walk[i] ELSE Walk[i + 1]]
  BY <1>4, <1>5, RemoveAtIs
<1>7. CASE QueuedTasks \ {p} = {}
  BY <1>7
<1>8. CASE QueuedTasks \ {p} # {}
  <2>1. RingWalk'
    <3>1. Queued(SeedTask)'
      BY <1>3, <1>8 DEF QueueInv, RingLinks, HeadQueued
    <3> QED BY <1>3, <3>1, RingIsWalk, PTL
  <2>2. \A i \in 1 .. nr_running - 1 : \A q : q = Walk'[i] => Place(q)' = i
    <3>1. (\A i \in 1 .. nr_running : \A q : q = Walk[i] => Place(q) = i)'
      BY <2>1, PlaceOnNextWalk
    <3> QED BY <1>3, <3>1
  <2>3. ASSUME NEW q \in QueuedTasks \ {p}
        PROVE  /\ Place(q) \in Nat /\ Place(q) # k
               /\ Place(q)' = IF Place(q) < k THEN Place(q) ELSE Place(q) - 1
    <3>1. Place(q) \in 1 .. nr_running /\ Walk[Place(q)] = q
      BY <1>2, PlaceIs
    <3>2. Place(q) # k
      BY <1>5, <3>1
    <3>3. CASE Place(q) < k
      <4>1. Place(q) \in 1 .. nr_running - 1
        BY <1>4, <3>1, <3>3
      <4>2. Walk'[Place(q)] = q
        BY <1>6, <3>1, <3>3, <4>1
      <4> QED BY <2>2, <3>1, <3>2, <3>3, <4>1, <4>2
    <3>4. CASE ~ (Place(q) < k)
      <4>1. /\ Place(q) - 1 \in 1 .. nr_running - 1
            /\ ~ (Place(q) - 1 < k) /\ (Place(q) - 1) + 1 = Place(q)
        BY <1>4, <1>5, <3>1, <3>2, <3>4
      <4>2. Walk'[Place(q) - 1] = q
        BY <1>6, <3>1, <4>1
      <4> QED BY <2>2, <3>1, <3>2, <3>4, <4>1, <4>2
    <3> QED BY <3>3, <3>4
  <2> QED BY <1>5, <2>3
<1> QED BY <1>7, <1>8

(* How often one task may be passed by another.                            *)
Most == IF NobodySleeps THEN 1 ELSE 2

(* t against the pointer, which goes down the queue and starts again       *)
(* behind the head.  Where the pointer has passed t, t waits for the next  *)
(* lap: u has had one turn at most, and if it did the pointer has passed u *)
(* too, later than t unless there are sleepers.  Where it has not, t gets  *)
(* its turn in this lap, and so may u if it stands between them: u must    *)
(* have a turn left.                                                       *)
LapOf(t, u) ==
  IF Ahead(t, nxt)
  THEN /\ turns[t][u] <= 1
       /\ turns[t][u] # 0 /\ Queued(u) /\ u # SeedTask =>
            Ahead(u, nxt) /\ (NobodySleeps => Ahead(t, u))
  ELSE Queued(u) /\ ~Ahead(u, nxt) /\ Ahead(u, t) => turns[t][u] < Most

(* The stale pointer: a task that is on the wait list.                     *)
Asleep(t) == t \in Task /\ Live(t) /\ ~Queued(t)

(* The count for one pair.  While the pointer names the head, or somebody  *)
(* asleep, everybody queued has only just been queued.                     *)
Row(t, u) ==
  /\ turns[t][u] <= Most
  /\ NobodySleeps /\ life[u] = "unborn" => turns[t][u] = 0
  /\ Queued(t) /\ (nxt = SeedTask \/ Asleep(nxt)) => turns[t][u] = 0
  /\ Queued(t) /\ nxt \in QueuedTasks \ {SeedTask} => LapOf(t, u)

Rows ==
  /\ turns \in [Task -> [Task -> Nat]]
  /\ \A t \in Process, u \in Task : Row(t, u)

(* The pointer names the task on the CPU only if that is alone beside      *)
(* init, or will be rescheduled before it can fall asleep.                 *)
Bay ==
  nxt = current /\ nxt \in QueuedTasks \ {SeedTask} =>
    \/ nr_running <= 2 \/ pc = "wake"
    \/ pc \notin {"cycle", "work", "sleep"} /\ need_reschedule[current]

(* What every step but that of schedule() does to the counts.              *)
Kept ==
  /\ turns' \in [Task -> [Task -> Nat]]
  /\ \A t \in Task : /\ turns'[t] = turns[t] \/ turns'[t] = NoTurns
                     /\ Queued(t) => turns'[t] = turns[t]

LEMMA KeptElsewhere ==
  ASSUME turns \in [Task -> [Task -> Nat]],
         turns' = [t \in Task |-> IF Queued(t) THEN turns[t] ELSE NoTurns]
  PROVE  Kept
<1>1. NoTurns \in [Task -> Nat]
  BY DEF NoTurns
<1>2. ASSUME NEW t \in Task
      PROVE  (IF Queued(t) THEN turns[t] ELSE NoTurns) \in [Task -> Nat]
  <2>1. turns[t] \in [Task -> Nat]
    OBVIOUS
  <2> QED BY <1>1, <2>1
<1>3. turns' \in [Task -> [Task -> Nat]]
  BY <1>2
<1>4. \A t \in Task : turns'[t] = IF Queued(t) THEN turns[t] ELSE NoTurns
  OBVIOUS
<1> QED BY <1>3, <1>4 DEF Kept

(* Nobody moves.                                                           *)
LEMMA RowsFrame ==
  ASSUME Rows, Kept, UNCHANGED <<queueVars, nxt, thread_info, life>>
  PROVE  Rows'
<1>1. \A q : Place(q)' = Place(q)
  BY PlaceFrame DEF queueVars
<1>2. /\ NobodySleeps' = NobodySleeps /\ QueuedTasks' = QueuedTasks
      /\ \A q : Queued(q)' = Queued(q) /\ Live(q)' = Live(q) /\ Asleep(q)' = Asleep(q)
  BY DEF NobodySleeps, QueuedTasks, Queued, Live, Asleep, queueVars
<1>3. \A q, r : Ahead(q, r)' = Ahead(q, r)
  BY <1>1 DEF Ahead
<1>4. Process \subseteq Task
  BY MachineAssumption DEF Process
<1>5. ASSUME NEW t \in Process, NEW u \in Task PROVE Row(t, u)'
  <2>1. Row(t, u) /\ turns[t][u] \in Nat
    BY <1>4 DEF Rows
  <2>2. turns'[t][u] = turns[t][u] \/ (turns'[t][u] = 0 /\ ~Queued(t))
    BY <1>4 DEF Kept, NoTurns
  <2>3. Most' = Most /\ Most \in {1, 2}
    BY <1>2 DEF Most
  <2>4. Queued(t) => (LapOf(t, u)' <=> LapOf(t, u))
    BY <1>2, <1>3, <2>2, <2>3 DEF LapOf
  <2> QED BY <1>2, <2>1, <2>2, <2>3, <2>4 DEF Row
<1> QED BY <1>5 DEF Rows, Kept

(* Where anybody is queued, the head is.                                   *)
LEMMA HeadPlaced ==
  ASSUME QueueInv, NEW t \in Task, Queued(t)
  PROVE  Queued(SeedTask) /\ SeedTask \in QueuedTasks
BY QueueAssumption DEF QueueInv, RingLinks, HeadQueued, QueuedTasks

(* Somebody leaves the queue; if it is the one the pointer names, it is    *)
(* gone for good or nobody is left beside the head.                        *)
LEMMA RowsRemove ==
  ASSUME QueueInv, Rows, Kept, NEW x \in Task, Remove(x), UNCHANGED <<nxt, thread_info>>,
         \A q \in Task \ {x} : life'[q] = life[q], life'[x] # "unborn",
         nxt = x => ~Live(nxt)' \/ QueuedTasks' \subseteq {SeedTask}
  PROVE  Rows'
<1>1. QueueInv' /\ QueuedTasks' = QueuedTasks \ {x}
  BY RemoveKeepsLinks
<1>2. \A q, r \in QueuedTasks \ {x} : Ahead(q, r)' <=> Ahead(q, r)
  BY PlacesRemove DEF Ahead
<1>3. NobodySleeps' = NobodySleeps
  BY DEF NobodySleeps
<1>4. Process \subseteq Task /\ SeedTask \notin Process
  BY MachineAssumption DEF Process, InitTask
<1>5. \A q \in Task : /\ Queued(q)' <=> Queued(q) /\ q # x
                      /\ q \in QueuedTasks <=> Queued(q)
                      /\ q # x => (Live(q)' <=> Live(q))
  BY <1>1 DEF QueuedTasks, Live
<1>6. ASSUME NEW t \in Process, NEW u \in Task PROVE Row(t, u)'
  <2>1. Row(t, u) /\ turns[t][u] \in Nat
    BY <1>4 DEF Rows
  <2>2. turns'[t][u] = turns[t][u] \/ (turns'[t][u] = 0 /\ ~Queued(t))
    BY <1>4 DEF Kept, NoTurns
  <2>3. Most' = Most /\ Most \in {1, 2}
    BY <1>3 DEF Most
  <2>4. NobodySleeps' /\ life'[u] = "unborn" => turns'[t][u] = 0
    BY <1>3, <2>1, <2>2 DEF Row
  <2>5. Queued(t)' => turns'[t][u] = turns[t][u] /\ Queued(t) /\ t # x /\ t \in Task
    BY <1>4, <1>5, <2>2
  <2>6. Queued(t)' /\ (nxt' = SeedTask \/ Asleep(nxt)') => turns'[t][u] = 0
    <3> SUFFICES ASSUME Queued(t)', nxt = SeedTask \/ Asleep(nxt)' PROVE turns'[t][u] = 0
      OBVIOUS
    <3>1. CASE nxt = SeedTask
      BY <2>1, <2>5, <3>1 DEF Row
    <3>2. CASE Asleep(nxt)'
      <4>1. nxt \in Task /\ Live(nxt)' /\ ~Queued(nxt)'
        BY <3>2 DEF Asleep
      <4>2. nxt # x
        BY <1>1, <1>4, <1>5, <4>1
      <4>3. Asleep(nxt)
        BY <1>5, <4>1, <4>2 DEF Asleep
      <4> QED BY <2>1, <2>5, <4>3 DEF Row
    <3> QED BY <3>1, <3>2
  <2>7. ASSUME Queued(t)', nxt' \in QueuedTasks' \ {SeedTask} PROVE LapOf(t, u)'
    <3>1. nxt \in QueuedTasks \ {x} /\ t \in QueuedTasks \ {x} /\ nxt # SeedTask /\ nxt \in Task
      BY <1>1, <1>5, <2>5, <2>7 DEF QueuedTasks
    <3>2. LapOf(t, u)
      BY <2>1, <2>5, <2>7, <3>1 DEF Row
    <3>3. Ahead(t, nxt)' <=> Ahead(t, nxt)
      BY <1>2, <3>1
    <3>4. Queued(u)' => /\ Queued(u)
                        /\ Ahead(u, nxt)' <=> Ahead(u, nxt)
                        /\ Ahead(u, t)' <=> Ahead(u, t)
                        /\ Ahead(t, u)' <=> Ahead(t, u)
      BY <1>2, <1>5, <3>1
    <3>5. turns'[t][u] = turns[t][u]
      BY <2>5, <2>7
    <3> QED BY <1>3, <2>3, <3>2, <3>3, <3>4, <3>5 DEF LapOf
  <2> QED BY <2>1, <2>2, <2>3, <2>4, <2>6, <2>7 DEF Row
<1> QED BY <1>6 DEF Rows, Kept

(* Somebody is queued behind the head, in front of all others: born, so    *)
(* that it had no turns, or woken, so that there are sleepers.             *)
LEMMA RowsInsert ==
  ASSUME QueueInv, Rows, Kept, NEW p \in Task, Insert(p), UNCHANGED <<nxt, thread_info>>,
         turns'[p] = NoTurns,
         \A q \in Task \ {p} : life'[q] = life[q], life'[p] # "unborn",
         NobodySleeps => life[p] = "unborn",
         ~Live(p) => nxt # p
  PROVE  Rows'
<1>1. /\ QueueInv' /\ QueuedTasks' = QueuedTasks \cup {p}
      /\ p \notin QueuedTasks /\ SeedTask \in QueuedTasks /\ SeedTask \in Task /\ p # SeedTask
  BY InsertKeepsLinks, QueueAssumption DEF Insert, QueuedTasks
<1>2. /\ \A q \in QueuedTasks \ {SeedTask} : Place(q)' = Place(q) + 1
      /\ Place(p)' = 2
  BY PlacesInsert
<1>3. /\ \A q \in QueuedTasks : Place(q) \in Nat
      /\ \A q \in QueuedTasks \ {SeedTask} : Place(q) \in Nat /\ Place(q) >= 2
      /\ Place(SeedTask) = 1
  <2>1. Queued(SeedTask)
    BY DEF Insert
  <2>2. /\ \A q \in QueuedTasks : Place(q) \in 1 .. nr_running
        /\ \A q, r \in QueuedTasks : Place(q) = Place(r) => q = r
        /\ Place(SeedTask) = 1
    BY <2>1, PlacesOf
  <2> QED BY <1>1, <2>2 DEF QueueInv, QueueTypeOK
<1>4. Place(SeedTask)' = 1
  <2>1. Queued(SeedTask)'
    BY <1>1 DEF QueuedTasks
  <2>2. QueueInv /\ Queued(SeedTask) => Place(SeedTask) = 1
    BY PlacesOf
  <2>3. (QueueInv /\ Queued(SeedTask) => Place(SeedTask) = 1)'
    <3>1. RingWalk'
      BY <1>1, <2>1, RingIsWalk, PTL
    <3>2. (\A i \in 1 .. nr_running : \A q : q = Walk[i] => Place(q) = i)'
      BY <3>1, PlaceOnNextWalk
    <3>3. Walk'[1] = SeedTask /\ 1 \in 1 .. nr_running'
      BY <3>1 DEF RingWalk
    <3> QED BY <3>2, <3>3
  <2> QED BY <1>1, <2>1, <2>3
<1>5. \A q, r \in QueuedTasks \ {SeedTask} : Ahead(q, r)' <=> Ahead(q, r)
  BY <1>2, <1>3 DEF Ahead
<1>6. NobodySleeps' = NobodySleeps
  BY DEF NobodySleeps
<1>7. Process \subseteq Task /\ SeedTask \notin Process
  BY MachineAssumption DEF Process, InitTask
<1>8. \A q \in Task : /\ Queued(q)' <=> Queued(q) \/ q = p
                      /\ q \in QueuedTasks <=> Queued(q)
                      /\ q # p => (Live(q)' <=> Live(q))
  BY <1>1 DEF QueuedTasks, Live
<1>9. ASSUME NEW t \in Process, NEW u \in Task PROVE Row(t, u)'
  <2>1. Row(t, u) /\ turns[t][u] \in Nat
    BY <1>7 DEF Rows
  <2>2. turns'[t][u] = turns[t][u] \/ (turns'[t][u] = 0 /\ ~Queued(t))
    BY <1>7 DEF Kept, NoTurns
  <2>3. Most' = Most /\ Most \in {1, 2}
    BY <1>6 DEF Most
  <2>4. NobodySleeps' /\ life'[u] = "unborn" => turns'[t][u] = 0
    BY <1>6, <2>1, <2>2 DEF Row
  <2>5. CASE turns'[t][u] = 0
    BY <2>3, <2>5 DEF Row, LapOf
  <2>6. CASE turns'[t][u] # 0
    <3>1. turns'[t][u] = turns[t][u] /\ t # p /\ t \in Task
      BY <1>7, <2>2, <2>6 DEF NoTurns
    <3>2. Queued(t)' => Queued(t)
      BY <1>8, <3>1
    <3>3. Queued(t)' => nxt # SeedTask /\ ~Asleep(nxt)
      BY <2>1, <2>6, <3>1, <3>2 DEF Row
    <3>4. ASSUME Queued(t)' PROVE nxt' # SeedTask /\ ~Asleep(nxt)'
      <4> SUFFICES ASSUME Asleep(nxt)' PROVE FALSE
        BY <3>3, <3>4
      <4>1. nxt \in Task /\ Live(nxt)' /\ ~Queued(nxt)'
        BY DEF Asleep
      <4>2. nxt # p /\ Live(nxt) /\ ~Queued(nxt)
        BY <1>8, <4>1
      <4> QED BY <3>3, <3>4, <4>1, <4>2 DEF Asleep
    <3>5. ASSUME Queued(t)', nxt' \in QueuedTasks' \ {SeedTask} PROVE LapOf(t, u)'
      <4>1. nxt \in QueuedTasks' /\ nxt # SeedTask /\ Queued(t) /\ t \in QueuedTasks \ {SeedTask}
        BY <1>7, <1>8, <3>1, <3>2, <3>5
      <4>2. nxt \in QueuedTasks \ {SeedTask}
        <5> SUFFICES ASSUME nxt = p PROVE FALSE
          BY <1>1, <4>1
        <5>1. ~Live(p)
          BY <1>1, <1>8, <3>3, <3>5 DEF Asleep
        <5> QED BY <1>1, <4>1, <5>1
      <4>3. LapOf(t, u)
        BY <2>1, <4>1, <4>2 DEF Row
      <4>4. Ahead(t, nxt)' <=> Ahead(t, nxt)
        BY <1>5, <4>1, <4>2
      <4>5. CASE u = SeedTask
        <5>1. ~Ahead(u, nxt)' => FALSE
          BY <1>2, <1>3, <1>4, <4>2, <4>5 DEF Ahead
        <5> QED BY <1>6, <2>3, <3>1, <4>3, <4>4, <4>5, <5>1 DEF LapOf
      <4>6. CASE u = p
        <5>1. Ahead(u, nxt)'
          BY <1>2, <1>3, <4>2, <4>6 DEF Ahead
        <5>2. ~NobodySleeps
          BY <2>1, <2>6, <3>1, <4>6 DEF Row
        <5> QED BY <1>6, <2>3, <3>1, <4>3, <4>4, <4>6, <5>1, <5>2 DEF LapOf
      <4>7. CASE u # SeedTask /\ u # p
        <5>1. Queued(u)' <=> Queued(u)
          BY <1>8, <4>7
        <5>2. Queued(u) => /\ Ahead(u, nxt)' <=> Ahead(u, nxt)
                           /\ Ahead(u, t)' <=> Ahead(u, t)
                           /\ Ahead(t, u)' <=> Ahead(t, u)
          BY <1>5, <1>8, <4>1, <4>2, <4>7
        <5> QED BY <1>6, <2>3, <3>1, <4>3, <4>4, <5>1, <5>2 DEF LapOf
      <4> QED BY <4>5, <4>6, <4>7
    <3> QED BY <2>1, <2>3, <2>4, <3>1, <3>4, <3>5 DEF Row
  <2> QED BY <2>5, <2>6
<1> QED BY <1>9 DEF Rows, Kept

(* The step of schedule() itself.  The pointer's task u gets a turn more:  *)
(* no harm to t while the pointer passes from place to place, because u    *)
(* had one left; and when the pointer starts again behind the head, nobody *)
(* in front of t had a turn since t's own, or just one if there are        *)
(* sleepers.                                                               *)
LEMMA RowsSchedule ==
  ASSUME Inv, Rows, Schedule, UNCHANGED thread_info,
         turns' = [t \in Task |->
           IF pc # "schedule" \/ pc' = "fault"
           THEN IF Queued(t) THEN turns[t] ELSE NoTurns
           ELSE IF Queued(t) /\ t # current'
           THEN [turns[t] EXCEPT ![current'] = @ + 1] ELSE NoTurns]
  PROVE  Rows'
<1> USE DEF Inv, MachineInv, VirtualCPUTypeOK, QueueTypeOK
<1>1. SeedTask \in Task /\ Process \subseteq Task /\ SeedTask \notin Process /\ pc = "schedule"
  BY QueueAssumption, MachineAssumption DEF Schedule, Process, InitTask
<1>2. /\ QueueInv /\ IsFiniteSet(QueuedTasks)
      /\ nr_running = Cardinality(QueuedTasks) /\ nr_running \in Nat
  <2>1. QueueInv /\ IsFiniteSet(QueuedTasks) /\ nr_running = Cardinality(QueuedTasks)
    BY FS_Subset, QueueAssumption DEF Store, QueueInv, RingLinks, CountExact, QueuedTasks
  <2> QED BY <2>1, FS_CardinalityType
<1>3. NobodySleeps' = NobodySleeps /\ Most' = Most /\ Most \in {1, 2}
  BY DEF NobodySleeps, Most
<1>4. ASSUME Fault, UNCHANGED nxt PROVE Rows'
  <2>1. Kept
    <3>1. turns' = [t \in Task |-> IF Queued(t) THEN turns[t] ELSE NoTurns]
      BY <1>4 DEF Fault
    <3> QED BY <3>1, KeptElsewhere DEF Rows
  <2> QED BY <1>4, <2>1, RowsFrame DEF Fault, queueVars, taskVars
<1>5. ASSUME NEW c \in Task, Live(c), Switch(c),
             \A t \in Process, u \in Task : Queued(t) /\ t # c => Row(t, u)'
      PROVE  Rows'
  <2>1. current' = c /\ pc' # "fault"
    BY <1>5 DEF Switch
  <2>2. \A t \in Task : turns'[t] = IF Queued(t) /\ t # c THEN [turns[t] EXCEPT ![c] = @ + 1]
                                    ELSE NoTurns
    BY <1>1, <2>1
  <2>3. turns' \in [Task -> [Task -> Nat]]
    <3>1. turns' = [t \in Task |-> turns'[t]]
      OBVIOUS
    <3>2. NoTurns \in [Task -> Nat]
      BY DEF NoTurns
    <3>3. ASSUME NEW t \in Task PROVE [turns[t] EXCEPT ![c] = @ + 1] \in [Task -> Nat]
      <4>1. PICK f \in [Task -> Nat] : f = turns[t]
        BY DEF Rows
      <4>2. f[c] + 1 \in Nat
        OBVIOUS
      <4>3. [f EXCEPT ![c] = f[c] + 1] \in [Task -> Nat]
        BY <4>2
      <4> QED BY <4>1, <4>3
    <3>4. ASSUME NEW t \in Task PROVE turns'[t] \in [Task -> Nat]
      <4>1. CASE Queued(t) /\ t # c
        <5>1. turns'[t] = [turns[t] EXCEPT ![c] = @ + 1]
          BY <2>2, <4>1
        <5>2. [turns[t] EXCEPT ![c] = @ + 1] \in [Task -> Nat]
          BY <3>3
        <5> QED BY <5>1, <5>2
      <4>2. CASE ~(Queued(t) /\ t # c)
        <5>1. turns'[t] = NoTurns
          BY <2>2, <4>2, Zenon
        <5> QED BY <3>2, <5>1, Zenon
      <4> QED BY <4>1, <4>2
    <3> QED BY <3>1, <3>4, Zenon
  <2>4. ASSUME NEW t \in Process, NEW u \in Task, ~(Queued(t) /\ t # c) PROVE Row(t, u)'
    <3>1. turns'[t][u] = 0
      BY <1>1, <2>2, <2>4 DEF NoTurns
    <3> QED BY <1>3, <3>1 DEF Row, LapOf
  <2> QED BY <1>5, <2>3, <2>4 DEF Rows
<1>6. CASE nr_running = 1
  <2>1. Switch(SeedTask)
    BY <1>6 DEF Schedule
  <2>2. QueuedTasks = {SeedTask}
    <3>1. PICK x : QueuedTasks = {x}
      BY <1>2, <1>6, FS_Singleton
    <3>2. SeedTask \in QueuedTasks
      BY <1>1, <3>1 DEF Store, QueueInv, RingLinks, HeadQueued, QueuedTasks
    <3> QED BY <3>1, <3>2
  <2>3. Live(SeedTask)
    BY <1>1, <2>2 DEF QueuedTasks, Store, TaskPlaced
  <2>4. \A t \in Process : ~Queued(t)
    BY <1>1, <2>2 DEF QueuedTasks
  <2> QED BY <1>1, <1>5, <2>1, <2>3, <2>4
<1>7. CASE nr_running # 1 /\ (nxt = Null \/ ~Live(nxt))
  <2>1. Fault /\ UNCHANGED nxt
    BY <1>7 DEF Schedule
  <2> QED BY <1>4, <2>1
<1>8. CASE nr_running # 1 /\ nxt # Null /\ Live(nxt)
  <2>1. nxt \in Task
    BY <1>8 DEF Pointer
  <2>2. /\ nxt' = IF next[nxt] = SeedTask THEN next[SeedTask] ELSE next[nxt]
        /\ Switch(nxt)
    BY <1>8 DEF Schedule
  <2>3. current' = nxt /\ pc' # "fault" /\ UNCHANGED <<queueVars, life>>
    BY <2>2 DEF Switch, taskVars
  <2>4. \A q, r : Ahead(q, r)' <=> Ahead(q, r)
    <3>1. \A q : Place(q)' = Place(q)
      BY <2>3, PlaceFrame
    <3> QED BY <3>1 DEF Ahead
  <2>5. /\ QueuedTasks' = QueuedTasks
        /\ \A q : Queued(q)' = Queued(q) /\ Live(q)' = Live(q)
    BY <2>3 DEF QueuedTasks, Queued, Live, queueVars
  <2>6. ASSUME NEW t \in Process, NEW u \in Task, Queued(t), t # nxt
        PROVE  /\ turns[t][u] \in Nat /\ turns'[t][u] \in Nat
               /\ turns'[t][u] = IF u = nxt THEN turns[t][u] + 1 ELSE turns[t][u]
               /\ Row(t, u) /\ t \in QueuedTasks /\ Queued(SeedTask) /\ SeedTask \in QueuedTasks
    <3>1. t \in Task
      BY <1>1
    <3>2. turns'[t] = [turns[t] EXCEPT ![nxt] = @ + 1] /\ turns[t] \in [Task -> Nat]
      BY <1>1, <2>3, <2>6, <3>1 DEF Rows
    <3>3. turns[t][u] \in Nat
      BY <3>2
    <3>4. turns'[t][u] = IF u = nxt THEN turns[t][u] + 1 ELSE turns[t][u]
      BY <2>1, <3>2
    <3>5. turns[t][u] + 1 \in Nat
      BY <3>3
    <3>6. Row(t, u) /\ t \in QueuedTasks /\ Queued(SeedTask) /\ SeedTask \in QueuedTasks
      BY <1>2, <2>6, <3>1, HeadPlaced DEF Rows, QueuedTasks
    <3> QED BY <3>3, <3>4, <3>5, <3>6
  <2>7. CASE ~Queued(nxt)
    <3>1. nxt' = Null
      BY <1>1, <2>2, <2>7, QueueAssumption DEF Queued
    <3>2. ASSUME NEW t \in Process, NEW u \in Task, Queued(t), t # nxt PROVE Row(t, u)'
      <4>1. turns[t][u] = 0
        BY <1>8, <2>1, <2>6, <2>7, <3>2 DEF Row, Asleep
      <4>2. turns'[t][u] <= 1 /\ (u # nxt => turns'[t][u] = 0)
        <5>1. turns'[t][u] = IF u = nxt THEN 0 + 1 ELSE 0
          BY <2>6, <3>2, <4>1
        <5> QED BY <5>1
      <4>3. life'[u] = "unborn" => turns'[t][u] = 0
        BY <1>8, <2>3, <4>2 DEF Live
      <4>4. nxt' \notin Task /\ nxt' # SeedTask /\ nxt' \notin QueuedTasks'
        BY <1>1, <2>5, <3>1, QueueAssumption DEF QueuedTasks
      <4>5. turns'[t][u] \in Nat
        BY <2>6, <3>2
      <4> QED BY <1>3, <4>2, <4>3, <4>4, <4>5 DEF Row, Asleep
    <3> QED BY <1>5, <1>8, <2>1, <2>2, <3>2
  <2>8. CASE Queued(nxt)
    <3>1. nxt \in QueuedTasks /\ Queued(SeedTask) /\ SeedTask \in QueuedTasks
      BY <1>2, <2>1, <2>8, HeadPlaced DEF QueuedTasks
    <3>2. /\ \A q \in QueuedTasks : Place(q) \in 1 .. nr_running
          /\ \A q, r \in QueuedTasks : Place(q) = Place(r) => q = r
          /\ Place(SeedTask) = 1
          /\ \A q \in QueuedTasks : next[q] # SeedTask => Place(next[q]) = Place(q) + 1
          /\ \A q \in QueuedTasks : next[q] = SeedTask => Place(q) = nr_running
      BY <1>2, <3>1, PlacesOf
    <3>3. \A q \in QueuedTasks : next[q] \in QueuedTasks
      BY <1>2, QueueNeighbours DEF QueuedTasks
    <3>4. nr_running >= 2 /\ next[SeedTask] # SeedTask
      BY <1>2, <1>8, <3>1, <3>2
    <3>5. PICK s : s = nxt'
      OBVIOUS
    <3>6. /\ s \in QueuedTasks \ {SeedTask}
          /\ \/ Place(s) = Place(nxt) + 1
             \/ Place(s) = 2 /\ Place(nxt) = nr_running
      BY <2>2, <3>1, <3>2, <3>3, <3>4, <3>5
    <3>7. \A q \in QueuedTasks : /\ Place(q) \in Nat /\ 1 <= Place(q) /\ Place(q) <= nr_running
                                 /\ q # SeedTask => 2 <= Place(q)
      <4> SUFFICES ASSUME NEW q \in QueuedTasks
                   PROVE  /\ Place(q) \in Nat /\ 1 <= Place(q) /\ Place(q) <= nr_running
                          /\ q # SeedTask => 2 <= Place(q)
        OBVIOUS
      <4>1. Place(q) \in 1 .. nr_running /\ nr_running \in Nat
        BY <1>2, <3>2
      <4>2. q # SeedTask => Place(q) # 1
        BY <3>1, <3>2
      <4> QED BY <4>1, <4>2
    <3>8. ASSUME NEW t \in Process, NEW u \in Task, Queued(t), t # nxt PROVE Row(t, u)'
      <4>1. /\ turns[t][u] \in Nat /\ turns'[t][u] \in Nat
            /\ turns'[t][u] = IF u = nxt THEN turns[t][u] + 1 ELSE turns[t][u]
            /\ Row(t, u) /\ t \in QueuedTasks /\ t # SeedTask
        BY <1>1, <2>6, <3>8
      <4>2. life'[u] = "unborn" => life[u] = "unborn" /\ u # nxt
        BY <1>8, <2>3 DEF Live
      <4>3. nxt' # SeedTask /\ ~Asleep(nxt)'
        BY <2>5, <3>5, <3>6 DEF Asleep, QueuedTasks
      <4>4. /\ Place(t) \in Nat /\ Place(t) >= 2 /\ Place(t) <= nr_running
            /\ Place(nxt) \in Nat /\ Place(nxt) <= nr_running /\ Place(nxt) # Place(t)
            /\ Place(s) \in Nat
        <5>1. /\ Place(t) \in Nat /\ 2 <= Place(t) /\ Place(t) <= nr_running
              /\ Place(nxt) \in Nat /\ Place(nxt) <= nr_running /\ Place(s) \in Nat
          BY <3>1, <3>6, <3>7, <4>1
        <5>2. Place(nxt) # Place(t)
          BY <3>1, <3>2, <3>8, <4>1
        <5> QED BY <5>1, <5>2
      <4>5. Queued(u) => u \in QueuedTasks /\ Place(u) \in Nat /\ Place(u) <= nr_running
                         /\ Place(u) >= 1 /\ (Place(u) = Place(nxt) => u = nxt)
                         /\ (Place(u) = 1 => u = SeedTask)
        <5> SUFFICES ASSUME u \in QueuedTasks
                     PROVE  /\ Place(u) \in Nat /\ Place(u) <= nr_running /\ Place(u) >= 1
                            /\ (Place(u) = Place(nxt) => u = nxt)
                            /\ (Place(u) = 1 => u = SeedTask)
          BY DEF QueuedTasks
        <5>1. Place(u) = Place(nxt) => u = nxt
          BY <3>1, <3>2
        <5>2. Place(u) \in Nat /\ Place(u) <= nr_running /\ 1 <= Place(u)
          BY <3>7
        <5>3. u # SeedTask => 2 <= Place(u)
          BY <3>7
        <5> QED BY <5>1, <5>2, <5>3
      <4>6. /\ Ahead(t, nxt)' <=> Place(t) < Place(s)
            /\ Ahead(u, nxt)' <=> Place(u) < Place(s)
            /\ Ahead(t, u)' <=> Place(t) < Place(u)
            /\ Ahead(u, t)' <=> Place(u) < Place(t)
        BY <2>4, <3>5 DEF Ahead
      <4>7. CASE nxt = SeedTask
        <5>1. turns[t][u] = 0
          BY <3>8, <4>1, <4>7 DEF Row
        <5>2. Place(nxt) = 1 /\ Place(s) = 2
          BY <3>2, <3>4, <3>6, <4>7
        <5>3. turns'[t][u] <= 1 /\ turns'[t][u] \in Nat /\ (u # nxt => turns'[t][u] = 0)
          BY <4>1, <5>1
        <5>4. LapOf(t, u)'
          BY <1>3, <2>5, <4>4, <4>5, <4>6, <4>7, <5>2, <5>3 DEF LapOf
        <5> QED BY <1>3, <4>2, <4>3, <5>3, <5>4 DEF Row
      <4>8. CASE nxt # SeedTask
        <5>1. LapOf(t, u) /\ turns[t][u] <= Most
          BY <3>1, <3>8, <4>1, <4>8 DEF Row
        <5>2. CASE Place(t) < Place(nxt)
          <6>1. /\ turns[t][u] <= 1
                /\ turns[t][u] # 0 /\ Queued(u) /\ u # SeedTask =>
                     Place(u) < Place(nxt) /\ (NobodySleeps => Place(t) < Place(u))
            BY <5>1, <5>2 DEF LapOf, Ahead
          <6>2. turns'[t][u] <= 1 /\ turns'[t][u] \in Nat
            <7>1. CASE u = nxt
              <8>1. turns[t][u] = 0
                BY <2>8, <4>4, <4>8, <6>1, <7>1
              <8>2. turns'[t][u] = 0 + 1
                BY <4>1, <7>1, <8>1
              <8> QED BY <4>1, <8>2
            <7>2. CASE u # nxt
              BY <4>1, <6>1, <7>2
            <7> QED BY <7>1, <7>2
          <6>3. CASE Place(s) = Place(nxt) + 1
            <7>1. turns'[t][u] # 0 /\ Queued(u) /\ u # SeedTask =>
                     Place(u) < Place(s) /\ (NobodySleeps => Place(t) < Place(u))
              <8> SUFFICES ASSUME turns'[t][u] # 0, Queued(u), u # SeedTask
                           PROVE  Place(u) < Place(s) /\ (NobodySleeps => Place(t) < Place(u))
                OBVIOUS
              <8>1. Place(nxt) < Place(s)
                BY <4>4, <6>3
              <8>2. CASE u = nxt
                BY <5>2, <8>1, <8>2
              <8>3. CASE u # nxt
                <9>1. turns[t][u] # 0
                  BY <4>1, <8>3
                <9>2. Place(u) < Place(nxt) /\ (NobodySleeps => Place(t) < Place(u))
                  BY <6>1, <9>1
                <9>3. Place(u) \in Nat /\ Place(nxt) \in Nat /\ Place(s) \in Nat
                  BY <4>4, <4>5
                <9> QED BY <8>1, <9>2, <9>3
              <8> QED BY <8>2, <8>3
            <7>2. Ahead(t, nxt)'
              BY <4>4, <4>6, <5>2, <6>3
            <7>3. turns'[t][u] # 0 /\ Queued(u)' /\ u # SeedTask =>
                     Ahead(u, nxt)' /\ (NobodySleeps => Ahead(t, u)')
              BY <2>5, <4>6, <7>1
            <7>4. LapOf(t, u)'
              BY <1>3, <6>2, <7>2, <7>3 DEF LapOf
            <7>5. NobodySleeps' /\ life'[u] = "unborn" => turns'[t][u] = 0
              BY <1>3, <4>1, <4>2 DEF Row
            <7> QED BY <1>3, <4>3, <6>2, <7>4, <7>5 DEF Row
          <6>4. CASE Place(s) = 2 /\ Place(nxt) = nr_running
            <7>1. Queued(u) /\ ~(Place(u) < Place(s)) /\ Place(u) < Place(t) => turns'[t][u] < Most
              <8> SUFFICES ASSUME Queued(u), ~(Place(u) < 2), Place(u) < Place(t)
                           PROVE  turns'[t][u] < Most
                BY <6>4
              <8>1. u # nxt /\ u # SeedTask
                BY <3>2, <4>4, <5>2
              <8>2. turns'[t][u] = turns[t][u]
                BY <4>1, <8>1
              <8>3. NobodySleeps => turns[t][u] = 0
                BY <4>4, <4>5, <6>1, <8>1
              <8> QED BY <4>1, <6>1, <8>2, <8>3 DEF Most
            <7>2. ~(Place(t) < Place(s))
              BY <4>4, <6>4
            <7> QED BY <1>3, <2>5, <4>1, <4>2, <4>3, <4>6, <6>2, <7>1, <7>2 DEF Row, LapOf
          <6> QED BY <3>6, <6>3, <6>4
        <5>3. CASE ~(Place(t) < Place(nxt))
          <6>1. Queued(u) /\ ~(Place(u) < Place(nxt)) /\ Place(u) < Place(t) => turns[t][u] < Most
            BY <5>1, <5>3 DEF LapOf, Ahead
          <6>2. Place(s) = Place(nxt) + 1
            BY <3>6, <4>4, <5>3
          <6>3. turns'[t][u] <= Most /\ turns'[t][u] \in Nat
            <7>1. CASE u = nxt
              <8>1. Place(u) = Place(nxt) /\ Queued(u) /\ Place(u) < Place(t)
                BY <2>8, <4>4, <5>3, <7>1
              <8>2. turns[t][u] < Most
                BY <4>4, <6>1, <7>1, <8>1
              <8>3. turns'[t][u] = turns[t][u] + 1
                BY <4>1, <7>1
              <8>4. turns[t][u] \in Nat /\ Most \in Nat
                BY <1>3, <4>1
              <8>5. turns[t][u] + 1 <= Most
                BY <8>2, <8>4
              <8> QED BY <4>1, <8>3, <8>5
            <7>2. CASE u # nxt
              <8>1. turns'[t][u] = turns[t][u]
                BY <4>1, <7>2
              <8> QED BY <4>1, <5>1, <8>1
            <7> QED BY <7>1, <7>2
          <6>4. ~(Place(t) < Place(s))
            BY <4>4, <5>3, <6>2
          <6>5. Queued(u) /\ ~(Place(u) < Place(s)) /\ Place(u) < Place(t) => turns'[t][u] < Most
            BY <4>1, <4>4, <4>5, <6>1, <6>2
          <6> QED BY <1>3, <2>5, <4>1, <4>2, <4>3, <4>6, <6>3, <6>4, <6>5 DEF Row, LapOf
        <5> QED BY <5>2, <5>3
      <4> QED BY <4>7, <4>8
    <3> QED BY <1>5, <1>8, <2>1, <2>2, <3>8
  <2> QED BY <2>7, <2>8
<1> QED BY <1>6, <1>7, <1>8

(* The pointer never names a task before its birth.                        *)
Born == nxt \in Task => life[nxt] # "unborn"

(* The steps of the machine, by what they do to the queue.                 *)
LEMMA CpuKeepsRows ==
  ASSUME Inv, NobodySleeps => TurnInv, Rows, Born, Bay, CpuStep, UNCHANGED nxt,
         turns' = [t \in Task |-> IF Queued(t) THEN turns[t] ELSE NoTurns]
  PROVE  Rows' /\ Born'
<1> USE DEF Inv, MachineInv
<1>1. /\ Idle \notin Task /\ InitTask \in Task /\ SeedTask = InitTask
      /\ current \in Task \cup {Idle} /\ life \in [Task -> {"unborn", "live", "freed"}]
  BY MachineAssumption DEF Idle, InitTask, VirtualCPUTypeOK
<1>2. Kept
  BY KeptElsewhere DEF Rows
<1>3. QueueInv
  BY DEF Store
<1>4. ASSUME UNCHANGED <<queueVars, thread_info, life>> PROVE Rows' /\ Born'
  BY <1>2, <1>4, RowsFrame DEF Born
<1>5. Fault => Rows' /\ Born'
  BY <1>4 DEF Fault, taskVars
<1>6. ASSUME Exit, current # Idle, children[current] = 0 PROVE Rows' /\ Born'
  <2>1. current \in Task /\ Live(current)
    BY <1>1, <1>6 DEF OnCpu
  <2>2. CASE Queued(current)
    <3>1. Remove(current)
      BY <1>6, <2>1, <2>2, ExitKeepsStore
    <3>2. life' = [life EXCEPT ![current] = "freed"] /\ UNCHANGED thread_info
      BY <1>6, <2>2 DEF Exit
    <3>3. (\A q \in Task \ {current} : life'[q] = life[q]) /\ life'[current] = "freed"
      BY <1>1, <2>1, <3>2
    <3>4. nxt = current => ~Live(nxt)'
      BY <3>3 DEF Live
    <3>5. Born'
      BY <3>3 DEF Born
    <3> QED BY <1>2, <1>3, <2>1, <3>1, <3>2, <3>3, <3>4, <3>5, RowsRemove
  <2>3. CASE ~Queued(current)
    BY <1>5, <1>6, <2>3 DEF Exit
  <2> QED BY <2>2, <2>3
<1>7. CASE CheckEnd
  <2>1. current # Idle
    BY <1>7 DEF CheckEnd, OnCpu
  <2>2. CASE Ending(current) /\ children[current] = 0
    BY <1>6, <1>7, <2>1, <2>2 DEF CheckEnd
  <2>3. CASE ~(Ending(current) /\ children[current] = 0)
    BY <1>4, <1>7, <2>3 DEF CheckEnd
  <2> QED BY <2>2, <2>3
<1>8. CASE Work
  <2>1. current # Idle
    BY <1>8 DEF Work, OnCpu
  <2>2. CASE Exit /\ children[current] = 0
    BY <1>6, <2>1, <2>2
  <2>3. CASE UNCHANGED <<queueVars, thread_info, life>>
    BY <1>4, <2>3
  <2> QED BY <1>8, <2>2, <2>3 DEF Work
<1>9. CASE Sleep
  <2>1. pc = "sleep" /\ current # Idle /\ current # InitTask
    BY <1>9 DEF Sleep, OnCpu, Store, Rooted
  <2>2. CASE Fault \/ UNCHANGED <<queueVars, taskVars>>
    BY <1>4, <1>5, <2>2 DEF taskVars
  <2>3. CASE /\ Queued(current) /\ Unlink(current) /\ UNCHANGED taskVars
             /\ intwaitlist' = Append(intwaitlist, current)
    <3>1. current \in Task /\ Live(current) /\ life[current] # "unborn"
      BY <1>1, <2>1 DEF OnCpu, Live
    <3>2. UNCHANGED <<thread_info, life, children>>
      BY <2>3 DEF taskVars
    <3>3. Remove(current)
      BY <2>1, <2>3, <3>1, <3>2, SleepKeepsStore
    <3>4. ASSUME nxt = current PROVE QueuedTasks' \subseteq {SeedTask}
      <4>1. current \in QueuedTasks \ {SeedTask} /\ nr_running <= 2
        BY <1>1, <2>1, <2>3, <3>1, <3>4 DEF Bay, QueuedTasks
      <4>2. QueuedTasks' = QueuedTasks \ {current} /\ SeedTask \in QueuedTasks
        BY <1>3, <2>3, <3>1, <3>3, RemoveKeepsLinks, HeadPlaced
      <4>3. IsFiniteSet(QueuedTasks) /\ nr_running = Cardinality(QueuedTasks)
        BY <1>3, FS_Subset, QueueAssumption DEF QueueInv, RingLinks, CountExact, QueuedTasks
      <4>4. IsFiniteSet(QueuedTasks \ {current})
            /\ Cardinality(QueuedTasks \ {current}) = nr_running - 1
        BY <4>1, <4>3, FS_RemoveElement
      <4>5. ASSUME NEW q \in QueuedTasks', q # SeedTask PROVE FALSE
        <5> DEFINE R == QueuedTasks \ {current}
        <5>1. IsFiniteSet(R) /\ Cardinality(R) = nr_running - 1
          BY <4>4
        <5>2. q \in R /\ SeedTask \in R \ {q}
          BY <4>1, <4>2, <4>5
        <5>3. IsFiniteSet(R \ {q}) /\ Cardinality(R \ {q}) = Cardinality(R) - 1
          BY <5>1, <5>2, FS_RemoveElement
        <5>4. Cardinality(R \ {q}) \in Nat /\ Cardinality(R \ {q}) # 0
          BY <5>2, <5>3, FS_CardinalityType, FS_EmptySet
        <5>5. nr_running \in Nat
          BY <4>3, FS_CardinalityType
        <5> HIDE DEF R
        <5> QED BY <4>1, <5>1, <5>3, <5>4, <5>5
      <4> QED BY <4>5
    <3>5. Born'
      BY <3>2 DEF Born
    <3> QED BY <1>2, <1>3, <3>1, <3>2, <3>3, <3>4, <3>5, RowsRemove
  <2> QED BY <1>9, <2>2, <2>3 DEF Sleep
<1>10. CASE Spawn
  <2>1. pc # "schedule" /\ current \in Task /\ Live(current) /\ Live(InitTask)
    <3>1. current # Idle /\ pc # "schedule"
      BY <1>10 DEF Spawn, SpawnChildren, OnCpu
    <3>2. current \in Task /\ Live(current)
      BY <1>1, <3>1 DEF OnCpu
    <3> QED BY <3>1, <3>2, RootQueued
  <2>2. ASSUME NEW p \in Task, Live(p), NEW c \in Due(p), Fork(c, p) PROVE Rows' /\ Born'
    <3>1. Insert(c)
      BY <2>2, ForkKeepsStore
    <3>2. c \in Task /\ life[c] = "unborn"
      BY MachineAssumption DEF Due, Process
    <3>3. life' = [life EXCEPT ![c] = "live"] /\ UNCHANGED thread_info
      BY <2>2 DEF Fork
    <3>4. (\A q \in Task \ {c} : life'[q] = life[q]) /\ life'[c] = "live"
      BY <1>1, <3>2, <3>3
    <3>5. nxt # c
      BY <3>2 DEF Born
    <3>6. turns'[c] = NoTurns
      BY <3>1, <3>2 DEF Insert
    <3>7. Born'
      BY <3>4 DEF Born
    <3> QED BY <1>2, <1>3, <3>1, <3>2, <3>3, <3>4, <3>5, <3>6, <3>7, RowsInsert
  <2>3. UNCHANGED <<taskVars, queueVars>> => Rows' /\ Born'
    BY <1>4 DEF taskVars
  <2> QED BY <1>1, <1>10, <2>1, <2>2, <2>3 DEF Spawn, SpawnChildren
<1>11. CASE Wake
  <2>1. UNCHANGED taskVars
    BY <1>11 DEF Wake
  <2>2. CASE intwaitlist # <<>>
    <3>0. PICK w : w = Head(intwaitlist)
      OBVIOUS
    <3>1. UNCHANGED <<thread_info, life, children>>
      BY <2>1 DEF taskVars
    <3>2. w \in Task /\ Insert(w) /\ Live(w)
      <4>1. Store' /\ w \in Task /\ Insert(w)
        BY <1>11, <2>2, <3>0, <3>1, WakeKeepsStore DEF Wake
      <4>2. Queued(w)'
        BY <1>3, <4>1, InsertKeepsLinks DEF QueuedTasks
      <4>3. Live(w)'
        BY <4>1, <4>2 DEF Store, TaskPlaced
      <4> QED BY <3>1, <4>1, <4>3 DEF Live
    <3>3. ~NobodySleeps
      BY <2>2 DEF TurnInv
    <3>4. turns'[w] = NoTurns
      BY <3>2 DEF Insert
    <3>5. Born'
      BY <3>1 DEF Born
    <3> QED BY <1>2, <1>3, <3>1, <3>2, <3>3, <3>4, <3>5, RowsInsert DEF Live
  <2>3. CASE intwaitlist = <<>>
    BY <1>4, <1>11, <2>1, <2>3 DEF Wake, taskVars
  <2> QED BY <2>2, <2>3
<1>12. CASE Arm \/ Tick \/ IoEvent \/ Check \/ EndCycle
  BY <1>4, <1>12 DEF Arm, Tick, IoEvent, Check, EndCycle, taskVars
<1> QED BY <1>7, <1>8, <1>9, <1>10, <1>11, <1>12 DEF CpuStep

LEMMA CpuKeepsBay ==
  ASSUME Inv, Bay, CpuStep, UNCHANGED nxt
  PROVE  Bay'
<1> USE DEF Inv, MachineInv
<1>1. /\ Idle \notin Task /\ nxt # Idle /\ SeedTask = InitTask
      /\ current \in Task \cup {Idle} /\ need_reschedule \in [Task \cup {Idle} -> BOOLEAN]
  BY MachineAssumption DEF Idle, InitTask, VirtualCPUTypeOK, Pointer
<1>2. ASSUME nxt' # current' \/ nxt' \notin QueuedTasks' PROVE Bay'
  BY <1>2 DEF Bay
<1>3. ASSUME UNCHANGED <<current, queueVars>>,
             need_reschedule[current] => need_reschedule'[current],
             pc' \in {"cycle", "work", "sleep"} =>
               pc \in {"cycle", "work", "sleep"} \/ ~need_reschedule[current],
             pc = "wake" => pc' = "wake" \/ (need_reschedule'[current] /\ pc' = "check")
      PROVE  Bay'
  <2>1. QueuedTasks' = QueuedTasks /\ nr_running' = nr_running
    BY <1>3 DEF QueuedTasks, Queued, queueVars
  <2> QED BY <1>3, <2>1 DEF Bay
<1>4. ASSUME Exit, pc \in {"cycle", "work"} PROVE Bay'
  <2>1. CASE ~Queued(current)
    BY <1>3, <1>4, <2>1 DEF Exit, Fault
  <2>2. CASE Queued(current)
    BY <1>1, <1>2, <1>4, <2>2 DEF Exit
  <2> QED BY <2>1, <2>2
<1>5. CASE CheckEnd
  <2>1. CASE Exit
    BY <1>4, <1>5, <2>1 DEF CheckEnd
  <2>2. CASE ~Exit
    BY <1>3, <1>5, <2>2 DEF CheckEnd
  <2> QED BY <2>1, <2>2
<1>6. CASE Work
  <2>1. CASE Exit
    BY <1>4, <1>6, <2>1 DEF Work
  <2>2. CASE ~Exit
    BY <1>3, <1>6, <2>2 DEF Work
  <2> QED BY <2>1, <2>2
<1>7. CASE Sleep
  <2>1. pc = "sleep" /\ current # Idle /\ current # InitTask
    BY <1>7 DEF Sleep, OnCpu, Store, Rooted
  <2>2. CASE Fault \/ (pc' = "arm" /\ UNCHANGED <<current, need_reschedule, queueVars>>)
    BY <1>3, <2>1, <2>2 DEF Fault
  <2>3. CASE /\ Queued(current) /\ Unlink(current) /\ UNCHANGED <<current, taskVars>>
             /\ intwaitlist' = Append(intwaitlist, current)
    <3>1. current \in Task /\ Live(current)
      BY <1>1, <2>1 DEF OnCpu
    <3>2. Remove(current)
      BY <2>1, <2>3, <3>1, SleepKeepsStore DEF taskVars
    <3>3. QueuedTasks' = QueuedTasks \ {current}
      BY <3>1, <3>2, RemoveKeepsLinks DEF Store
    <3> QED BY <1>2, <2>3, <3>3
  <2> QED BY <1>7, <2>2, <2>3 DEF Sleep
<1>8. CASE Spawn
  <2>1. current \in Task /\ pc \in {"spawn", "spawn_init"}
    BY <1>1, <1>8 DEF Spawn, SpawnChildren, OnCpu
  <2>2. ASSUME NEW p, NEW c, Fork(c, p), pc' = pc PROVE Bay'
    <3>1. current' = current /\ need_reschedule'[current]
      BY <1>1, <2>1, <2>2 DEF Fork
    <3> QED BY <2>1, <2>2, <3>1 DEF Bay
  <2>3. ASSUME pc' \in {"spawn_init", "tick"}, UNCHANGED <<current, need_reschedule, queueVars>>
        PROVE  Bay'
    BY <1>3, <2>1, <2>3
  <2> QED BY <1>8, <2>1, <2>2, <2>3 DEF Spawn, SpawnChildren
<1>9. CASE Wake
  <2>1. CASE intwaitlist # <<>>
    BY <1>9, <2>1 DEF Wake, Bay
  <2>2. CASE intwaitlist = <<>>
    <3>1. current' = current /\ need_reschedule'[current] /\ pc' = "check"
      BY <1>1, <1>9, <2>2 DEF Wake
    <3> QED BY <3>1 DEF Bay
  <2> QED BY <2>1, <2>2
<1>10. CASE Arm \/ Tick \/ IoEvent \/ Check
  BY <1>3, <1>10 DEF Arm, Tick, IoEvent, Check
<1>11. CASE EndCycle
  BY <1>3, <1>11 DEF EndCycle, Requests
<1> QED BY <1>5, <1>6, <1>7, <1>8, <1>9, <1>10, <1>11 DEF CpuStep

LEMMA ScheduleKeepsBay ==
  ASSUME Inv, Born, Bay, Schedule
  PROVE  Bay' /\ Born'
<1> USE DEF Inv, MachineInv, VirtualCPUTypeOK, QueueTypeOK
<1>1. SeedTask \in Task /\ Null \notin Task /\ pc = "schedule"
  BY QueueAssumption DEF Schedule
<1>2. /\ QueueInv /\ IsFiniteSet(QueuedTasks)
      /\ nr_running = Cardinality(QueuedTasks) /\ nr_running \in Nat
  <2>1. QueueInv /\ IsFiniteSet(QueuedTasks) /\ nr_running = Cardinality(QueuedTasks)
    BY FS_Subset, QueueAssumption DEF Store, QueueInv, RingLinks, CountExact, QueuedTasks
  <2> QED BY <2>1, FS_CardinalityType
<1>3. \A q \in QueuedTasks : q \in Task /\ life[q] # "unborn"
  BY DEF QueuedTasks, Store, TaskPlaced, Live
<1>4. ASSUME Fault, UNCHANGED nxt PROVE Bay' /\ Born'
  <2>1. /\ QueuedTasks' = QueuedTasks /\ nr_running' = nr_running
        /\ UNCHANGED <<life, current, need_reschedule>>
    BY <1>4 DEF Fault, QueuedTasks, Queued, queueVars, taskVars
  <2> QED BY <1>1, <1>4, <2>1 DEF Fault, Bay, Born
<1>5. ASSUME NEW c, Switch(c), nxt' \in Pointer, nxt' \in Task => Queued(nxt'),
             nxt' = c /\ c # SeedTask => nr_running <= 2 \/ ~Queued(c)
      PROVE  Bay' /\ Born'
  <2>1. QueuedTasks' = QueuedTasks /\ nr_running' = nr_running /\ UNCHANGED life /\ current' = c
    BY <1>5 DEF Switch, QueuedTasks, Queued, queueVars, taskVars
  <2>2. Born'
    BY <1>3, <1>5, <2>1 DEF Born, QueuedTasks
  <2>3. Bay'
    BY <1>5, <2>1 DEF Bay, QueuedTasks
  <2> QED BY <2>2, <2>3
<1>6. CASE nr_running = 1
  <2>1. Switch(SeedTask) /\ nxt' = next[SeedTask]
    BY <1>6 DEF Schedule
  <2>2. SeedTask \in QueuedTasks
    <3>1. PICK x : QueuedTasks = {x}
      BY <1>2, <1>6, FS_Singleton
    <3> QED BY <1>1, <3>1 DEF Store, QueueInv, RingLinks, HeadQueued, QueuedTasks
  <2>3. next[SeedTask] \in QueuedTasks
    BY <1>1, <1>2, <2>2, QueueNeighbours DEF QueuedTasks
  <2> QED BY <1>3, <1>5, <1>6, <2>1, <2>3 DEF QueuedTasks, Pointer
<1>7. CASE nr_running # 1 /\ (nxt = Null \/ ~Live(nxt))
  <2>1. Fault /\ UNCHANGED nxt
    BY <1>7 DEF Schedule
  <2> QED BY <1>4, <2>1
<1>8. CASE nr_running # 1 /\ nxt # Null /\ Live(nxt)
  <2>1. nxt \in Task
    BY <1>8 DEF Pointer
  <2>2. /\ nxt' = IF next[nxt] = SeedTask THEN next[SeedTask] ELSE next[nxt]
        /\ Switch(nxt)
    BY <1>8 DEF Schedule
  <2>3. CASE ~Queued(nxt)
    <3>1. nxt' = Null
      BY <1>1, <2>2, <2>3 DEF Queued
    <3> QED BY <1>1, <1>5, <2>2, <2>3, <3>1 DEF Pointer
  <2>4. CASE Queued(nxt)
    <3>1. nxt \in QueuedTasks /\ Queued(SeedTask) /\ SeedTask \in QueuedTasks
      BY <1>2, <2>1, <2>4, HeadPlaced DEF QueuedTasks
    <3>2. /\ \A q \in QueuedTasks : Place(q) \in 1 .. nr_running
          /\ Place(SeedTask) = 1
          /\ \A q \in QueuedTasks : next[q] # SeedTask => Place(next[q]) = Place(q) + 1
          /\ \A q \in QueuedTasks : next[q] = SeedTask => Place(q) = nr_running
      BY <1>2, <3>1, PlacesOf
    <3>3. \A q \in QueuedTasks : next[q] \in QueuedTasks
      BY <1>2, <1>3, QueueNeighbours DEF QueuedTasks
    <3>4. nxt' \in QueuedTasks
      BY <2>2, <3>1, <3>3
    <3>5. ASSUME nxt' = nxt, nxt # SeedTask PROVE nr_running <= 2
      <4>1. CASE next[nxt] = SeedTask
        <5>1. next[SeedTask] = nxt
          BY <2>2, <3>5, <4>1
        <5>2. Place(nxt) = 1 + 1 /\ Place(nxt) = nr_running
          BY <3>1, <3>2, <3>5, <4>1, <5>1
        <5> QED BY <1>2, <5>2
      <4>2. CASE next[nxt] # SeedTask
        <5>1. next[nxt] = nxt
          BY <2>2, <3>5, <4>2
        <5>2. Place(nxt) = Place(nxt) + 1 /\ Place(nxt) \in 1 .. nr_running
          BY <3>1, <3>2, <4>2, <5>1
        <5> QED BY <1>2, <5>2
      <4> QED BY <4>1, <4>2
    <3> QED BY <1>3, <1>5, <2>2, <3>4, <3>5 DEF QueuedTasks, Pointer
  <2> QED BY <2>3, <2>4
<1> QED BY <1>6, <1>7, <1>8

(* The inductive invariant.                                                *)
TurnsInv == Inv /\ (NobodySleeps => TurnInv) /\ Rows /\ Born /\ Bay

LEMMA TurnsStart == TurnInit => TurnsInv
<1> SUFFICES ASSUME TurnInit PROVE TurnsInv
  OBVIOUS
<1>1. Inv /\ TurnInv
  BY InvStart, TurnStart DEF TurnInit
<1>2. nxt = Null /\ Null \notin Task /\ SeedTask \in Task
  BY QueueAssumption DEF TurnInit, Init
<1>3. Process \subseteq Task
  BY MachineAssumption DEF Process
<1>4. turns \in [Task -> [Task -> Nat]] /\ \A t, u \in Task : turns[t][u] = 0
  BY DEF TurnInit, NoTurns
<1>5. Most \in {1, 2}
  BY DEF Most
<1>6. Rows
  BY <1>2, <1>3, <1>4, <1>5 DEF Rows, Row, Asleep, QueuedTasks
<1>7. Born /\ Bay
  BY <1>2 DEF Born, Bay, QueuedTasks
<1> QED BY <1>1, <1>6, <1>7 DEF TurnsInv

LEMMA TurnsStep == TurnsInv /\ [TurnNext]_turnVars => TurnsInv'
<1> SUFFICES ASSUME TurnsInv, [TurnNext]_turnVars PROVE TurnsInv'
  OBVIOUS
<1>1. Inv' /\ (NobodySleeps => TurnInv)'
  <2>1. [Next]_vars
    BY DEF TurnNext, turnVars
  <2> QED BY <2>1, InvStep, TurnStep DEF TurnsInv
<1>2. CASE TurnNext /\ CpuStep /\ UNCHANGED nxt
  <2>1. pc # "schedule"
    BY <1>2 DEF CpuStep, CheckEnd, Work, Sleep, Arm, Spawn, SpawnChildren,
                Tick, IoEvent, Wake, Check, EndCycle
  <2>2. turns' = [t \in Task |-> IF Queued(t) THEN turns[t] ELSE NoTurns]
    BY <1>2, <2>1 DEF TurnNext
  <2> QED BY <1>1, <1>2, <2>2, CpuKeepsRows, CpuKeepsBay DEF TurnsInv
<1>3. CASE TurnNext /\ Schedule
  <2>1. UNCHANGED thread_info
    BY <1>3 DEF Schedule, Switch, Fault, taskVars
  <2>2. Rows'
    BY <1>3, <2>1, RowsSchedule DEF TurnsInv, TurnNext
  <2> QED BY <1>1, <1>3, <2>2, ScheduleKeepsBay DEF TurnsInv
<1>4. CASE UNCHANGED turnVars
  <2>1. UNCHANGED <<queueVars, nxt, thread_info, life, turns, current, pc, need_reschedule>>
    BY <1>4 DEF turnVars, vars, cpuVars, taskVars
  <2>2. Kept
    BY <2>1 DEF TurnsInv, Rows, Kept
  <2>3. Rows'
    BY <2>1, <2>2, RowsFrame DEF TurnsInv
  <2>4. Born' /\ Bay'
    BY <2>1 DEF TurnsInv, Born, Bay, QueuedTasks, Queued, queueVars
  <2> QED BY <1>1, <2>3, <2>4 DEF TurnsInv
<1> QED BY <1>2, <1>3, <1>4 DEF TurnNext, Next

(* While a process waits in the queue for its turn, nobody is switched to  *)
(* twice if nobody ever sleeps, and nobody three times otherwise, whatever *)
(* is born, ends, sleeps and wakes meanwhile: the round robin of           *)
(* schedule_rr.c starves nobody, though a sleeper is queued in front of    *)
(* all others and the pointer may be left naming it.                       *)
THEOREM NobodyOvertakenTwice == TurnSpec => []OvertakenOnce
<1>1. TurnsInv => OvertakenOnce
  BY DEF TurnsInv, Rows, Row, Most, OvertakenOnce
<1> QED BY <1>1, TurnsStart, TurnsStep, PTL DEF TurnSpec

-----------------------------------------------------------------------------
(* The shortest-job machine.  Its policy need not choose well for any of   *)
(* this (it does not: ShortestFirst fails), only choose a task that is     *)
(* queued; that it does is a fact about the walks its two searches make    *)
(* along next.                                                             *)


JobTypes ==
  /\ on_cpu \in 0 .. MaxRun
  /\ exp_burst \in [Process -> Nat]
  /\ sd_goodness_low \in [Process -> BOOLEAN]

JobInv == MachineInv /\ Runs /\ JobTypes

LEMMA BurstIsNat ==
  ASSUME JobTypes
  PROVE  Burst \in [Process -> Nat]
<1>1. CASE current \in Process
  <2>1. exp_burst[current] \in Nat /\ on_cpu \in Nat /\ Scale \in Nat
    BY <1>1, JobAssumption DEF JobTypes
  <2>2. \A a, b \in Nat : 2 * a * b \in Nat
    OBVIOUS
  <2>3. \A x, y \in Nat : (x + y) \div 3 \in Nat
    OBVIOUS
  <2>4. (2 * Scale * on_cpu + exp_burst[current]) \div 3 \in Nat
    BY <2>1, <2>2, <2>3
  <2> QED BY <1>1, <2>4 DEF Burst, JobTypes
<1>2. CASE current \notin Process
  BY <1>2 DEF Burst, JobTypes
<1> QED BY <1>1, <1>2

(* get_min_exp_burst() finds the least expected burst of the queued tasks  *)
(* other than the head.                                                    *)
LEMMA MinBurstIsLeast ==
  ASSUME RingWalk, nr_running # 1, NEW burst \in [Process -> Nat]
  PROVE  /\ MinBurst(burst) \in QueuedTasks
         /\ MinBurst(burst) \in Process
         /\ \A q \in QueuedTasks \ {SeedTask} : burst[MinBurst(burst)] <= burst[q]
<1>1. /\ nr_running \in Nat /\ 2 \in Others /\ Others \in SUBSET Nat
      /\ \A i \in Others : i \in 1 .. nr_running /\ i # 1 /\ 1 \in 1 .. nr_running
  BY DEF RingWalk, Others
<1>2. \A i \in Others : Walk[i] \in QueuedTasks /\ Walk[i] \in Process
  <2> SUFFICES ASSUME NEW i \in Others PROVE Walk[i] \in QueuedTasks /\ Walk[i] \in Process
    OBVIOUS
  <2>1. Walk[i] \in QueuedTasks /\ Walk[i] # SeedTask
    BY <1>1 DEF RingWalk
  <2> QED BY <2>1, MachineAssumption DEF QueuedTasks, Process, InitTask
<1> DEFINE B(i) == burst[Walk[i]]
           First(i) == \A j \in Others : B(i) < B(j) \/ (B(i) = B(j) /\ i <= j)
<1>3. \A i \in Others : B(i) \in Nat
  BY <1>2
<1>4. \E i \in Others : First(i)
  <2> DEFINE V == {v \in Nat : \E i \in Others : v = B(i)}
  <2>1. PICK v \in V : \A w \in V : ~ (w < v)
    <3>1. V \in SUBSET Nat /\ V # {}
      BY <1>1, <1>3
    <3> HIDE DEF V
    <3> QED BY <3>1, NatMinimum
  <2> DEFINE I == {i \in Others : v = B(i)}
  <2>2. PICK i \in I : \A j \in I : ~ (j < i)
    <3>1. I \in SUBSET Nat /\ I # {}
      BY <1>1, <2>1
    <3> HIDE DEF I
    <3> QED BY <3>1, NatMinimum
  <2>3. ASSUME NEW j \in Others PROVE B(i) < B(j) \/ (B(i) = B(j) /\ i <= j)
    <3>1. B(j) \in V /\ B(j) \in Nat /\ v \in Nat /\ i \in Nat /\ j \in Nat /\ v = B(i)
      BY <1>1, <1>3, <2>1, <2>2
    <3>2. ~ (B(j) < v) /\ (B(j) = v => ~ (j < i))
      BY <3>1, <2>1, <2>2
    <3> HIDE DEF B, V, I
    <3> QED BY <3>1, <3>2
  <2> QED BY <2>2, <2>3
<1> DEFINE k == CHOOSE i \in Others : First(i)
<1>5. k \in Others /\ First(k)
  <2> HIDE DEF First
  <2> QED BY <1>4
<1>6. MinBurst(burst) = Walk[k]
  BY DEF MinBurst
<1>7. ASSUME NEW q \in QueuedTasks \ {SeedTask} PROVE B(k) <= burst[q]
  <2>1. PICK i \in 1 .. nr_running : q = Walk[i]
    BY DEF RingWalk
  <2>2. i \in Others
    BY <2>1, <1>1 DEF RingWalk, Others
  <2>3. B(i) \in Nat /\ B(k) \in Nat
    BY <2>2, <1>3, <1>5
  <2>4. B(k) < B(i) \/ B(k) = B(i)
    BY <2>2, <1>5
  <2> HIDE DEF k
  <2> QED BY <2>1, <2>3, <2>4
<1> HIDE DEF k
<1> QED BY <1>2, <1>5, <1>6, <1>7

(* schedule() switches to a queued task, and faults only on an empty queue. *)
LEMMA JobScheduleIsPolicy ==
  ASSUME JobInv, JobSchedule
  PROVE  QueuedPolicyStep /\ JobTypes'
<1> USE DEF JobInv, MachineInv, VirtualCPUTypeOK, QueueTypeOK
<1>1. SeedTask \in Task /\ pc = "schedule" /\ exp_burst' = Burst /\ Burst \in [Process -> Nat]
  BY QueueAssumption, BurstIsNat DEF JobSchedule
<1>2. Queued(SeedTask) <=> Live(SeedTask)
  BY <1>1, MachineAssumption DEF Store, TaskPlaced
<1>3. QueueInv /\ (nr_running # 0 => Queued(SeedTask))
  <2>1. QueuedTasks = {} => nr_running = 0
    BY FS_EmptySet DEF Store, QueueInv, RingLinks, CountExact
  <2> QED BY <2>1 DEF Store, QueueInv, RingLinks, HeadQueued
<1>4. CASE nr_running = 1
  <2>1. Switch(SeedTask) /\ on_cpu' = 0 /\ UNCHANGED sd_goodness_low
    BY <1>4 DEF JobSchedule
  <2>2. JobTypes'
    BY <2>1, <1>1, JobAssumption DEF JobTypes
  <2> QED BY <2>1, <2>2, <1>1, <1>2, <1>3, <1>4 DEF QueuedPolicyStep
<1>5. CASE nr_running # 1 /\ ~Live(SeedTask)
  <2>1. Fault /\ UNCHANGED <<on_cpu, sd_goodness_low>>
    BY <1>5 DEF JobSchedule
  <2>2. JobTypes'
    BY <2>1, <1>1 DEF JobTypes
  <2> QED BY <2>1, <2>2, <1>1, <1>2, <1>3, <1>5 DEF QueuedPolicyStep
<1>6. CASE nr_running # 1 /\ Live(SeedTask)
  <2> DEFINE chosen == StandardGoodness(Burst)
             least == Burst[MinBurst(Burst)]
  <2>1. /\ sd_goodness_low' = [t \in Process |-> IF Queued(t) THEN Burst[t] = least
                                                  ELSE sd_goodness_low[t]]
        /\ on_cpu' = IF chosen = current THEN on_cpu ELSE 0
        /\ Switch(chosen)
    BY <1>6, Zenon DEF JobSchedule
  <2>2. RingWalk
    BY <1>2, <1>3, <1>6, RingIsWalk
  <2>3. chosen \in QueuedTasks
    <3>1. Walk[2] \in QueuedTasks
      BY <1>6, <2>2 DEF RingWalk
    <3>2. MinBurst(Burst) \in QueuedTasks
      BY <1>1, <1>6, <2>2, MinBurstIsLeast
    <3> QED BY <3>1, <3>2 DEF StandardGoodness
  <2> HIDE DEF chosen, least
  <2>4. chosen \in Task /\ Queued(chosen) /\ Live(chosen)
    BY <2>3 DEF QueuedTasks, Store, TaskPlaced
  <2>5. JobTypes'
    <3>1. on_cpu' \in 0 .. MaxRun
      BY <2>1, JobAssumption DEF JobTypes
    <3>2. sd_goodness_low' \in [Process -> BOOLEAN]
      BY <2>1 DEF JobTypes
    <3> QED BY <3>1, <3>2, <1>1 DEF JobTypes
  <2> QED BY <2>1, <2>4, <2>5, <1>1 DEF QueuedPolicyStep
<1> QED BY <1>4, <1>5, <1>6

LEMMA QueuedIsPolicy == QueuedPolicyStep => PolicyStep
BY DEF QueuedPolicyStep, PolicyStep

LEMMA JobStart == JobInit => JobInv
<1> SUFFICES ASSUME JobInit PROVE JobInv
  OBVIOUS
<1>1. MachineInv /\ Runs
  BY MachineStart, RunsStart DEF JobInit
<1>2. JobTypes
  BY JobAssumption DEF JobInit, JobTypes
<1> QED BY <1>1, <1>2 DEF JobInv

LEMMA JobStep ==
  JobInv /\ [JobNext]_jobVars =>
    /\ JobInv'
    /\ [QueueNext]_queueVars
    /\ [Processes!TreeNext]_(Processes!treeVars)
<1> SUFFICES ASSUME JobInv, [JobNext]_jobVars
             PROVE  /\ JobInv'
                    /\ [QueueNext]_queueVars
                    /\ [Processes!TreeNext]_(Processes!treeVars)
  OBVIOUS
<1>1. ASSUME CpuStep \/ QueuedPolicyStep, JobTypes'
      PROVE  /\ JobInv'
             /\ [QueueNext]_queueVars
             /\ [Processes!TreeNext]_(Processes!treeVars)
  BY <1>1, QueuedIsPolicy, MachineStep, RunsStep, TreeStep DEF JobInv
<1>2. CASE Step
  <2>1. JobTypes'
    BY <1>2, JobAssumption DEF Step, JobInv, JobTypes
  <2> QED BY <2>1, <1>1, <1>2 DEF Step
<1>3. CASE JobSchedule
  BY <1>1, <1>3, JobScheduleIsPolicy
<1>4. CASE UNCHANGED jobVars
  <2>1. MachineInv' /\ [QueueNext]_queueVars
    BY <1>4, MachineStutter DEF JobInv, jobVars
  <2>2. Runs'
    BY <1>4 DEF JobInv, Runs, CurrentRunnable, FaultOnlyAtTheEnd, Queued, jobVars,
                cpuVars, taskVars, timerVars, queueVars
  <2>3. JobTypes'
    BY <1>4 DEF JobInv, JobTypes, jobVars, burstVars
  <2>4. UNCHANGED Processes!treeVars
    BY <1>4, TreeFrame DEF jobVars, cpuVars, taskVars, queueVars
  <2> QED BY <2>1, <2>2, <2>3, <2>4 DEF JobInv
<1> QED BY <1>2, <1>3, <1>4 DEF JobNext

LEMMA JobAlways == JobSpec => []JobInv
BY JobStart, JobStep, PTL DEF JobSpec

-----------------------------------------------------------------------------

(* Type correctness, for every constant: bursts and runs stay natural, and *)
(* the machine's own counters in their ranges.                             *)
THEOREM JobsTyped == JobSpec => []JobTypeOK
<1>1. JobInv => JobTypeOK
  BY DEF JobInv, JobTypes, MachineInv, JobTypeOK
<1> QED BY <1>1, JobAlways, PTL

(* A cycle is only run for a task that is on the run queue, and the only   *)
(* misuse of memory is the call of schedule() after init's end.            *)
THEOREM JobsMachineSound == JobSpec => []MachineSound
<1>1. JobInv => MachineSound
  BY DEF JobInv, Runs, MachineSound
<1> QED BY <1>1, JobAlways, PTL

(* The bookkeeping proved above of the round-robin machine holds here too: *)
(* tasks in one place, families intact, sleepers to be woken, no request   *)
(* left standing.                                                          *)
THEOREM JobsBookkeeping ==
  JobSpec => [](TaskPlaced /\ FamilyIntact /\ SleeperWillWake /\ NoStaleRequest)
<1>1. JobInv => TaskPlaced /\ FamilyIntact /\ SleeperWillWake /\ NoStaleRequest
  BY NoRequestStands DEF JobInv, MachineInv, Store
<1> QED BY <1>1, JobAlways, PTL

(* The machine implements the process tree: a process is born once, to a   *)
(* live parent, is put on the CPU only while ready, ends only there and    *)
(* only when no child of its is alive, and never comes back.               *)
THEOREM JobsAreProcessTree == JobSpec => ImplementsProcessTree
<1>1. JobInit => Processes!Begin
  BY TreeStart DEF JobInit
<1>2. JobInv /\ [JobNext]_jobVars => [Processes!TreeNext]_(Processes!treeVars)
  BY JobStep
<1> QED BY <1>1, <1>2, JobAlways, PTL DEF JobSpec, ImplementsProcessTree, Processes!Tree

(* The run queue in the machine is the task order of the abstract queue.   *)
THEOREM JobsQueueIsTaskOrder == JobSpec => ImplementsTaskOrder
<1>1. JobInit => InitSchedule
  BY DEF JobInit, CpuInit
<1>2. JobInv /\ [JobNext]_jobVars => [QueueNext]_queueVars
  BY JobStep
<1>3. JobSpec => QueueSpec
  BY <1>1, <1>2, JobAlways, PTL DEF JobSpec, QueueSpec
<1> QED BY <1>3, QueueIsTaskOrder
=============================================================================
