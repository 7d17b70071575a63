--------------------------- MODULE ProfileParser ----------------------------
(***************************************************************************)
(* readProfile() of cpuinit.c as a function from the commands of a profile *)
(* to the processes it describes.  A command is a record of its name and   *)
(* its value; reading words and numbers is left out.  The parser obeys     *)
(* each command as it comes: NEWPROCESS hangs a process under top, the     *)
(* spawner of the block it stands in, and the commands that follow are     *)
(* about newtask.                                                          *)
(***************************************************************************)
EXTENDS Integers, Sequences, SequencesExt

NoTask == 0
InitTask == 1      \* init->thread_info; the processes follow, in order
Garbage == "what malloc() left"

Options == {"CYCLE_TIME", "SEED", "ENDTIME"}
Attributes == {"SPAWNTIME", "NAME", "TYPE", "KILLTIME", "NICE", "WORKDURATION"}
Brackets == {"NEWPROCESS", "ENDPROCESS", "SPAWN", "ENDSPAWN"}
ThreadTypes == {"INTERACTIVE", "NONINTERACTIVE"}

NewTask(parent) ==
  [parent |-> parent, KILLTIME |-> -1, WORKDURATION |-> -1, NICE |-> 0,
   SPAWNTIME |-> Garbage, NAME |-> Garbage, TYPE |-> Garbage]

Start ==
  [task |-> <<NewTask(NoTask)>>, top |-> InitTask, newtask |-> NoTask, children |-> 0,
   option |-> [o \in Options |-> 0], outcome |-> "reading"]

\* A null pointer is followed.
Fault(s) == [s EXCEPT !.outcome = "fault"]

\* What an attribute is set to: a nice value out of range is none, and a type
\* that is not known is not stored.
Stored(old, cmd) ==
  CASE cmd.name = "NICE" -> IF cmd.value \in -19 .. 20 THEN cmd.value ELSE 0
    [] cmd.name = "TYPE" -> IF cmd.value \in ThreadTypes THEN cmd.value ELSE old
    [] OTHER -> cmd.value

NewProcess(s) ==
  IF s.top = NoTask THEN Fault(s)
  ELSE [s EXCEPT !.task = Append(@, NewTask(s.top)), !.newtask = Len(s.task) + 1]

Spawn(s) ==
  IF s.newtask = NoTask THEN Fault(s)
  ELSE [s EXCEPT !.children = @ + 1, !.top = s.newtask]

\* What comes after the block is about its spawner again.
EndSpawn(s) ==
  IF s.top = NoTask THEN Fault(s)
  ELSE [s EXCEPT !.children = @ - 1, !.top = s.task[s.top].parent, !.newtask = s.top]

Obey(s, cmd) ==
  IF s.outcome # "reading" THEN s
  ELSE CASE cmd.name \in Options -> [s EXCEPT !.option[cmd.name] = cmd.value]
         [] cmd.name \in Attributes ->
              IF s.newtask = NoTask THEN Fault(s)
              ELSE [s EXCEPT !.task[s.newtask][cmd.name] = Stored(@, cmd)]
         [] cmd.name = "NEWPROCESS" -> NewProcess(s)
         [] cmd.name = "ENDPROCESS" -> [s EXCEPT !.newtask = NoTask]
         [] cmd.name = "SPAWN" -> Spawn(s)
         [] cmd.name = "ENDSPAWN" -> EndSpawn(s)
         [] OTHER -> [s EXCEPT !.outcome = "refused"]

\* A command is obeyed when the first character of what follows it has been
\* read: the last command of a file never is, unless it has a value.
Obeyed(commands) ==
  IF commands # <<>> /\ Last(commands).name \in Brackets THEN Front(commands) ELSE commands

ReadProfile(commands) ==
  LET s == FoldLeft(Obey, Start, Obeyed(commands))
  IN IF s.outcome # "reading" THEN s
     ELSE [s EXCEPT !.outcome = IF s.children # 0 THEN "refused" ELSE "accepted"]

\* The processes it describes, numbered from 1, with init as number 0.
Processes(s) == [i \in 1 .. Len(s.task) - 1 |-> [s.task[i + 1] EXCEPT !.parent = @ - 1]]
-----------------------------------------------------------------------------
(* Well-formed profiles, to compare it with: each process of a tree is     *)
(* written with the processes it spawns inside it.                         *)

Command(name) == [name |-> name, value |-> "none"]
Setting(name, value) == [name |-> name, value |-> value]
If(condition, command) == IF condition THEN <<command>> ELSE <<>>

\* The work is given after the SPAWN block, to show that it is the spawner's.
Written(profile) ==
  LET text[i \in DOMAIN profile \cup {0}] ==
        LET kids == SetToSortSeq({k \in DOMAIN profile : profile[k].parent = i}, <)
            inner == FlattenSeq([k \in DOMAIN kids |-> text[kids[k]]])
            p == profile[i]
        IN IF i = 0 THEN inner
           ELSE <<Command("NEWPROCESS"), Setting("TYPE", p.thread_type),
                  Setting("SPAWNTIME", p.spawn_time)>>
                \o If(p.kill_time # -1, Setting("KILLTIME", p.kill_time))
                \o (IF kids = <<>> THEN <<>>
                    ELSE <<Command("SPAWN")>> \o inner \o <<Command("ENDSPAWN")>>)
                \o If(p.work_duration # -1, Setting("WORKDURATION", p.work_duration))
                \o <<Command("ENDPROCESS")>>
  IN text[0]

Describes(task, p) ==
  /\ task.TYPE = p.thread_type /\ task.SPAWNTIME = p.spawn_time
  /\ task.KILLTIME = p.kill_time /\ task.WORKDURATION = p.work_duration

\* Read back, it is the same tree; the numbers are those of the text.
ReadsBack(profile) ==
  LET s == ReadProfile(Written(profile))
      read == Processes(s)
  IN /\ s.outcome = "accepted"
     /\ \E number \in [DOMAIN profile -> DOMAIN read] :
          \A i \in DOMAIN profile :
            /\ \A j \in DOMAIN profile : number[i] = number[j] => i = j
            /\ Describes(read[number[i]], profile[i])
            /\ read[number[i]].parent =
                 IF profile[i].parent = 0 THEN 0 ELSE number[profile[i].parent]
            /\ read[number[i]].parent < number[i]

\* Without one of its SPAWN or ENDSPAWN commands it is not accepted.
RefusedWithout(commands) ==
  \A i \in DOMAIN commands :
    commands[i].name \in {"SPAWN", "ENDSPAWN"}
      => ReadProfile(RemoveAt(commands, i)).outcome # "accepted"
=============================================================================
