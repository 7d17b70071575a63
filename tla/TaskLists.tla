----------------------------- MODULE TaskLists ------------------------------
(***************************************************************************)
(* The memory of the virtual machine: every structure it allocates, the    *)
(* run queue's links, and the list.h lists that thread through the rest -- *)
(* for each thread_info the children still to be born, and the IO wait     *)
(* list.  A profile is read and refused, or read and run to its end.       *)
(*                                                                         *)
(* When children are due, tasks end and the IO event fires is left open,   *)
(* and so is which queued task the shortest-job policy prefers; the turns  *)
(* of the round-robin policy are its pointer's, which nothing else looks   *)
(* after.  A profile that follows a null pointer, or is run with a process *)
(* that has no name, is left out: ProfileParser says which those are.      *)
(***************************************************************************)
EXTENDS RunQueueOrder

INSTANCE LinkedList WITH NoNode <- Null

CONSTANT Idle   \* the idle task, which is never queued

ASSUME IdleAssumption == Idle \notin Task

Process == Task \ {SeedTask}

VARIABLES
  policy,     \* the file schedule() is in: schedule_rr or schedule_sjf
  mode,       \* what the program is doing (Modes)
  link,       \* the list_heads: node -> [next, prev]
  live,       \* the allocated objects
  misused,    \* the objects used or freed while not allocated
  parent,     \* thread_info->parent
  children,   \* thread_info->children: those born and not gone
  named,      \* whose processName is set
  made,       \* the processes of the profile, as they are read
  top,        \* readProfile's top, the process whose SPAWN is open
  newtask,    \* and newtask
  current,    \* current
  need_reschedule,  \* current's flag; at first, main's call of schedule()
  nxt,        \* schedule()'s static nxt, which only round robin reads
  walks       \* the walks under way, innermost first: list head and place

profileVars == <<parent, named, made, top, newtask>>
taskVars == <<children, current, need_reschedule, nxt, policy>>
vars == <<mode, link, live, misused, profileVars, taskVars, walks, queueVars>>

\* What belongs to no task: the run queue, the open profile, and the strings
\* nobody points to any more, of TYPE commands and of names that a second NAME
\* replaced (one or more).
Rq == <<"rq", Idle>>
Profile == <<"file", Idle>>
Strings == {"type", "replaced"} \X {Idle}

Object == ({"info", "name", "task", "spare", "wait"} \X (Task \cup {Idle}))
            \cup {Rq, Profile} \cup Strings

\* What createTask and createInfo allocate for init and idle.  The
\* thread_info that createTask allocates is replaced, and never freed.
Created(t) == {<<"task", t>>, <<"spare", t>>}
Own(t) == {<<"info", t>>, <<"name", t>>}

\* The list_heads: the head and the entry in a thread_info, the entry in a
\* struct waitlist and the global head.
SpawnList(t) == <<"list", t>>
Clist(t) == <<"clist", t>>
WaitNode(t) == <<"wait", t>>
IntWaitList == <<"intwaitlist", Idle>>
Node == ({"list", "clist", "wait"} \X Task) \cup {IntWaitList}

ASSUME NodeAssumption == Null \notin Node

\* The allocated objects that hold some nodes.
Holding(nodes) ==
  {IF n[1] = "wait" THEN n ELSE <<"info", n[2]>> : n \in nodes \ {IntWaitList}}

Around(n) == {n, link[n].next, link[n].prev}

Use(objects) == misused' = misused \cup (objects \ live)

Init ==
  /\ InitSchedule
  /\ policy \in {"schedule_rr", "schedule_sjf"}
  /\ mode = "reading"
  /\ link = [n \in Node |-> IF n \in {SpawnList(SeedTask), IntWaitList}
                            THEN [next |-> n, prev |-> n]
                            ELSE [next |-> Null, prev |-> Null]]
  /\ live = (UNION {Created(t) \cup Own(t) : t \in {SeedTask, Idle}}) \cup {Rq, Profile}
  /\ misused = {}
  /\ parent = [t \in Task |-> Null]
  /\ children = [t \in Task |-> 0]
  /\ named = {SeedTask}
  /\ made = {}
  /\ top = SeedTask /\ newtask = Null
  /\ current = Idle /\ need_reschedule = FALSE /\ nxt = Null
  /\ walks = <<>>
-----------------------------------------------------------------------------
(* readProfile *)

\* NEWPROCESS
NewProcess(t) ==
  /\ mode = "reading"
  /\ t \in Process \ made
  /\ made' = made \cup {t}
  /\ newtask' = t
  /\ parent' = [parent EXCEPT ![t] = top]
  /\ live' = live \cup {<<"info", t>>}
  /\ link' = ListAddTail(InitListHead(link, SpawnList(t)), Clist(t), SpawnList(top))
  /\ Use(Holding(Around(SpawnList(top))))
  /\ UNCHANGED <<mode, named, top, taskVars, walks, queueVars>>

\* NAME.  A name read before is lost.
Name ==
  /\ mode = "reading"
  /\ newtask # Null
  /\ named' = named \cup {newtask}
  /\ live' = live \cup {<<"name", newtask>>}
                  \cup (IF newtask \in named THEN {<<"replaced", Idle>>} ELSE {})
  /\ UNCHANGED <<mode, link, misused, parent, made, top, newtask, taskVars, walks, queueVars>>

\* TYPE.  The string is compared, and lost.
TypeCommand ==
  /\ mode = "reading"
  /\ live' = live \cup {<<"type", Idle>>}
  /\ UNCHANGED <<mode, link, misused, profileVars, taskVars, walks, queueVars>>

\* SPAWN and ENDSPAWN
OpenSpawn ==
  /\ mode = "reading"
  /\ newtask # Null
  /\ top' = newtask
  /\ UNCHANGED <<mode, link, live, misused, parent, named, made, newtask, taskVars, walks, queueVars>>

EndSpawn ==
  /\ mode = "reading"
  /\ top # SeedTask
  /\ top' = parent[top] /\ newtask' = top
  /\ UNCHANGED <<mode, link, live, misused, parent, named, made, taskVars, walks, queueVars>>

WalkOf(head) == [head |-> head, at |-> link[head].next]

\* The profile is refused: badshutdowncpu.  At a command it stays open; it is
\* not if it was never found, or is at its end with brackets that do not match.
Refuse ==
  /\ mode = "reading"
  /\ mode' = "cleaning"
  /\ walks' = <<WalkOf(SpawnList(SeedTask))>>
  /\ live' \in {live, live \ {Profile}}
  /\ UNCHANGED <<link, misused, profileVars, taskVars, queueVars>>

\* All brackets are closed: main calls schedule().
Accept ==
  /\ mode = "reading"
  /\ top = SeedTask /\ made \subseteq named
  /\ mode' = "running"
  /\ live' = live \ {Profile}
  /\ need_reschedule' = TRUE
  /\ UNCHANGED <<link, misused, profileVars, children, current, nxt, policy, walks, queueVars>>
-----------------------------------------------------------------------------
(* The machine, between two cycles *)

\* The task_structs whose links inserting or unlinking t touches.
Neighbours(t) == {<<"task", x>> : x \in {t, next[t], prev[t]} \ {Null}}
FrontTasks == {<<"task", x>> : x \in {SeedTask, next[SeedTask]}}

\* What is read is NULL, or one of these, which are freed: what the program does
\* from there on says nothing.
Fault(objects) ==
  /\ mode' = "fault"
  /\ Use(objects)
  /\ UNCHANGED <<link, live, profileVars, taskVars, walks, queueVars>>

\* context_switch(t)
Switch(t) ==
  /\ current' = t
  /\ need_reschedule' = FALSE
  /\ UNCHANGED <<mode, link, live, profileVars, children, policy, walks, queueVars>>

\* Round robin with several tasks, or with none, takes the task nxt points to;
\* that may be asleep, or freed.
NextTurn ==
  /\ nr_running # 1
  /\ IF nxt # Null /\ <<"task", nxt>> \in live
     THEN /\ nxt' = IF next[nxt] = SeedTask THEN next[SeedTask] ELSE next[nxt]
          /\ Use({<<"task", nxt>>} \cup Own(nxt))
          /\ Switch(nxt)
     ELSE Fault({<<"task", nxt>>} \ {<<"task", Null>>})

\* The shortest-job policy looks through the queue from its head.
BestJob ==
  /\ nr_running # 1
  /\ \/ \E t \in Process :
          /\ Queued(t)
          /\ Use(Own(t) \cup {<<"task", x>> : x \in {y \in Task : Queued(y)}})
          /\ Switch(t)
          /\ UNCHANGED nxt
     \/ nr_running = 0 /\ Fault({<<"task", SeedTask>>})

Alone ==
  /\ nr_running = 1
  /\ nxt' = IF policy = "schedule_rr" THEN next[SeedTask] ELSE nxt
  /\ Use({<<"task", SeedTask>>} \cup Own(SeedTask))
  /\ Switch(SeedTask)

\* schedule(): at a schedule tick, or because current asked for it.
Schedule ==
  /\ mode = "running"
  /\ need_reschedule \/ (current \in Task /\ Queued(current))
  /\ \/ Alone
     \/ policy = "schedule_rr" /\ NextTurn
     \/ policy = "schedule_sjf" /\ BestJob

\* The head of a cycle: no call of schedule() is due.
InCycle == mode = "running" /\ ~ need_reschedule

\* The current task goes to sleep.
Sleep ==
  /\ InCycle
  /\ current \in Process /\ Queued(current)
  /\ live' = live \cup {WaitNode(current)}
  /\ link' = ListAddTail(InitListHead(link, WaitNode(current)), WaitNode(current), IntWaitList)
  /\ Unlink(current)
  /\ Use(Neighbours(current) \cup Holding(Around(IntWaitList)))
  /\ need_reschedule' = TRUE
  /\ UNCHANGED <<mode, profileVars, children, current, nxt, policy, walks>>

\* A task that was switched in asleep goes to sleep again, or ends:
\* deactivate_task follows its NULL links.
AsleepOnCpu ==
  /\ InCycle
  /\ current \in Process /\ ~ Queued(current)
  /\ Fault({})

\* spawnChildren(current) begins, or the event fires; then each entry's turn.
BeginWalk(doing, list) ==
  /\ mode = "running"
  /\ mode' = doing
  /\ walks' = <<WalkOf(list)>>
  /\ Use(Holding({list}))
  /\ UNCHANGED <<link, live, profileVars, taskVars, queueVars>>

SpawnChildren == current \in Task /\ BeginWalk("spawning", SpawnList(current))
IoEvent == BeginWalk("waking", IntWaitList)

walk == walks[1]
AtEnd == walk.at = walk.head
Onward == walks' = <<[walk EXCEPT !.at = link[@].next]>>

\* Mutants: the entry stays in the list; the node is freed before its next is
\* read; it is not freed.
ForkChildKeeping ==
  /\ mode = "spawning" /\ ~ AtEnd
  /\ LET t == walk.at[2]
         p == parent[t]
     IN /\ live' = live \cup Created(t)
        /\ children' = [children EXCEPT ![p] = @ + 1]
        /\ need_reschedule' = TRUE
        /\ InsertAfterHead(t)
        /\ Use(Own(t) \cup Own(p) \cup FrontTasks \cup Holding(Around(walk.at)))
  /\ Onward
  /\ UNCHANGED <<mode, link, profileVars, current, nxt, policy>>

\* spawnChildren: the child is due and forktask makes a task of it.  It leaves
\* the list once the walk has gone on.
ForkChild ==
  /\ mode = "spawning" /\ ~ AtEnd
  /\ LET t == walk.at[2]
         p == parent[t]
     IN /\ live' = live \cup Created(t)
        /\ children' = [children EXCEPT ![p] = @ + 1]
        /\ need_reschedule' = TRUE
        /\ InsertAfterHead(t)
        /\ Use(Own(t) \cup Own(p) \cup FrontTasks \cup Holding(Around(walk.at)))
  /\ Onward
  /\ link' = ListDel(link, walk.at)
  /\ UNCHANGED <<mode, profileVars, current, nxt, policy>>

\* It is not due yet.
SkipChild ==
  /\ mode = "spawning" /\ ~ AtEnd
  /\ Onward
  /\ Use(Holding({walk.at}))
  /\ UNCHANGED <<mode, link, live, profileVars, taskVars, queueVars>>

\* After current's children those of init, which a walk from init itself has
\* seen already.
EndSpawning ==
  /\ mode = "spawning" /\ AtEnd
  /\ IF walk.head = SpawnList(SeedTask)
     THEN mode' = "running" /\ walks' = <<>>
     ELSE mode' = mode /\ walks' = <<WalkOf(SpawnList(SeedTask))>>
  /\ UNCHANGED <<link, live, misused, profileVars, taskVars, queueVars>>

WakeNextFreeing ==
  /\ mode = "waking" /\ ~ AtEnd
  /\ InsertAfterHead(walk.at[2])
  /\ live' = live \ {walk.at}
  /\ misused' = misused \cup ((FrontTasks \cup Holding(Around(walk.at))) \ live')
  /\ Onward
  /\ link' = ListDel(link, walk.at)
  /\ UNCHANGED <<mode, profileVars, taskVars>>

\* interrupt: activate_task, then the node is unlinked and freed.
WakeNext ==
  /\ mode = "waking" /\ ~ AtEnd
  /\ InsertAfterHead(walk.at[2])
  /\ live' = live \ {walk.at}
  /\ Use(FrontTasks \cup Holding(Around(walk.at)))
  /\ Onward
  /\ link' = ListDel(link, walk.at)
  /\ UNCHANGED <<mode, profileVars, taskVars>>

EndWaking ==
  /\ mode = "waking" /\ AtEnd
  /\ mode' = "running" /\ walks' = <<>>
  /\ need_reschedule' = TRUE
  /\ UNCHANGED <<link, live, misused, profileVars, children, current, nxt, policy, queueVars>>

\* taskEnd lets a task without children end, and killtask frees it.
Exit ==
  /\ InCycle
  /\ current \in Task /\ Queued(current)
  /\ children[current] = 0
  /\ LET p == parent[current]
         mine == Own(current) \cup {<<"task", current>>}
     IN /\ children' = IF p = Null THEN children ELSE [children EXCEPT ![p] = @ - 1]
        /\ Use(mine \cup Neighbours(current) \cup (IF p = Null THEN {} ELSE {<<"info", p>>}))
        /\ live' = live \ mine
  /\ Unlink(current)
  /\ current' = Idle
  /\ need_reschedule' = (nr_running' # 0)
  /\ UNCHANGED <<mode, link, profileVars, nxt, policy, walks>>

\* END_CYCLE looks at init, which is gone, before the loop sees that it ends.
EndCycle ==
  /\ InCycle /\ nr_running = 0
  /\ mode' = "closing"
  /\ Use({<<"task", SeedTask>>, <<"info", SeedTask>>})
  /\ UNCHANGED <<link, live, profileVars, taskVars, walks, queueVars>>
-----------------------------------------------------------------------------
(* cleanuptask, badshutdowncpu and shutdowncpu *)

\* Mutant: the entry is unlinked, and its next cleared, before the walk reads
\* it.
CleanChildAfterDelete ==
  /\ mode = "cleaning"
  /\ ~ AtEnd /\ walk.at # Null
  /\ link' = ListDel(link, walk.at)
  /\ Use(Holding(Around(walk.at)))
  /\ walks' = <<[head |-> SpawnList(walk.at[2]), at |-> link'[SpawnList(walk.at[2])].next],
                [walk EXCEPT !.at = link'[@].next]>> \o Tail(walks)
  /\ UNCHANGED <<mode, live, profileVars, taskVars, queueVars>>

\* The next child leaves the list, and its own children are cleaned up first.
CleanChild ==
  /\ mode = "cleaning"
  /\ ~ AtEnd /\ walk.at # Null
  /\ link' = ListDel(link, walk.at)
  /\ Use(Holding(Around(walk.at)))
  /\ walks' = <<[head |-> SpawnList(walk.at[2]), at |-> link'[SpawnList(walk.at[2])].next],
                [walk EXCEPT !.at = link[@].next]>> \o Tail(walks)
  /\ UNCHANGED <<mode, live, profileVars, taskVars, queueVars>>

\* Its children are done, and it is freed.  A name that was never read is
\* whatever malloc left there: NULL, or a pointer that free is given.
FreeChild ==
  /\ mode = "cleaning"
  /\ AtEnd \/ walk.at = Null
  /\ Len(walks) > 1
  /\ LET t == walk.head[2]
     IN /\ \/ Use(Own(t))
           \/ t \notin named /\ Use({<<"info", t>>})
        /\ live' = live \ Own(t)
  /\ walks' = Tail(walks)
  /\ UNCHANGED <<mode, link, profileVars, taskVars, queueVars>>

\* badshutdowncpu frees init.
FreeInit ==
  /\ mode = "cleaning"
  /\ AtEnd \/ walk.at = Null
  /\ Len(walks) = 1
  /\ Use(Own(SeedTask) \cup {<<"task", SeedTask>>})
  /\ live' = live \ (Own(SeedTask) \cup {<<"task", SeedTask>>})
  /\ mode' = "failing" /\ walks' = <<>>
  /\ UNCHANGED <<link, profileVars, taskVars, queueVars>>

\* shutdowncpu frees idle; rq stays allocated.
ShutDown ==
  /\ \/ mode = "closing" /\ mode' = "ended"
     \/ mode = "failing" /\ mode' = "failed"
  /\ Use(Own(Idle) \cup {<<"task", Idle>>})
  /\ live' = live \ (Own(Idle) \cup {<<"task", Idle>>})
  /\ UNCHANGED <<link, profileVars, taskVars, walks, queueVars>>
-----------------------------------------------------------------------------
Next ==
  \/ \E t \in Process : NewProcess(t)
  \/ Name \/ TypeCommand \/ OpenSpawn \/ EndSpawn \/ Refuse \/ Accept
  \/ Schedule \/ Sleep \/ AsleepOnCpu \/ Exit \/ EndCycle
  \/ SpawnChildren \/ ForkChild \/ SkipChild \/ EndSpawning
  \/ IoEvent \/ WakeNext \/ EndWaking
  \/ CleanChild \/ FreeChild \/ FreeInit \/ ShutDown

Spec == Init /\ [][Next]_vars
-----------------------------------------------------------------------------
(* Properties *)

\* The tasks of a list's entries; a process not yet read has no list.
TasksOf(head) ==
  IF link[head].next = Null THEN <<>>
  ELSE LET entries == Entries(link, head) IN [k \in DOMAIN entries |-> entries[k][2]]

Family == INSTANCE TaskFamilies WITH
  unborn <- [t \in Task |-> TasksOf(SpawnList(t))],
  sleepers <- TasksOf(IntWaitList)

\* The linked lists hold who is unborn and who is asleep, in order: whatever
\* is taken out of a list while it is walked over, nobody is lost from it, is
\* in it twice or changes places.
ImplementsFamilies == Family!Families

\* The task_struct that schedule() reads although it is freed, if it does.
ReadByPolicy == <<"task", IF policy = "schedule_rr" THEN nxt ELSE SeedTask>>

\* Nothing is freed twice, and nothing is used that is not allocated, the
\* structures that hold a neighbour's links included, but for three cases: the
\* loop takes a last look at init as it ends; a refused process that never had
\* a name has it freed; and schedule() reads the task its policy starts from,
\* which ends the run.  The shortest-job policy does so only with nobody left,
\* round robin also when its pointer is at a task that has ended.
FreedOnce ==
  \A o \in misused :
    \/ o \in {"task", "info"} \X {SeedTask} /\ mode \in {"closing", "ended"}
    \/ o \in {"name"} \X (made \ named) /\ mode \in {"cleaning", "failing", "failed"}
    \/ /\ o = ReadByPolicy /\ mode = "fault"
       /\ policy = "schedule_rr" \/ nr_running = 0

\* What is left at the end: rq, the string of every TYPE and of every name that
\* was replaced, and for every task_struct the thread_info that createTask
\* allocated for it.  Otherwise a refused profile leaves nothing but its open
\* file, however deep its processes are nested, and a completed run leaves the
\* processes that were never born.
NothingLeft ==
  LET born == {t \in Task : <<"spare", t>> \in live}
      unborn == UNION {Own(t) : t \in made \ born}
      spares == {"spare"} \X (born \cup {Idle})
  IN /\ mode = "failed" =>
          live \ ({Profile} \cup Strings) = {Rq} \cup ({"spare"} \X {SeedTask, Idle})
     /\ mode = "ended" => live \ Strings = {Rq} \cup spares \cup unborn
=============================================================================
