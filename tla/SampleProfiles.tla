--------------------------- MODULE SampleProfiles ---------------------------
(***************************************************************************)
(* Profiles for TLC, in the style of the *.conf files: a process is given  *)
(* as its parent, type, spawn time, kill time and work.  One model tick is *)
(* five milliseconds, so a schedule tick is two and the shortest IO delay, *)
(* 50 ms, is ten; endtime and the times below keep the order of magnitude  *)
(* to the schedule tick that the .conf files have.                         *)
(***************************************************************************)
EXTENDS Integers, Sequences

LOCAL Proc(parent, type, spawn, killtime, work) ==
  [parent |-> parent, thread_type |-> type, spawn_time |-> spawn,
   kill_time |-> killtime, work_duration |-> work]

LOCAL Forever == -1
LOCAL Never == -1
LOCAL Io == "INTERACTIVE"
LOCAL Cpu == "NONINTERACTIVE"

(* simple.conf, 5.conf: one worker and one interactive process, with or    *)
(* without a kill time; the second may be spawned late.                    *)
Pair == { <<Proc(0, t, 0, k, w), Proc(0, Io, s, Never, Forever)>> :
            t \in {Io, Cpu}, k \in {Never, 7}, w \in {3, 6}, s \in {0, 3} }

(* complex.conf: a spawner with a child, which ends before it or after.    *)
Spawner == { <<Proc(0, t, 0, Never, w), Proc(1, u, 2, Never, Forever)>> :
               t \in {Io, Cpu}, u \in {Io, Cpu}, w \in {3, 6} }

(* Three generations, the eldest to be killed.                             *)
Generations == { <<Proc(0, Io, 0, 5, Forever), Proc(1, u, 1, Never, Forever),
                   Proc(2, Cpu, 2, Never, w)>> : u \in {Io, Cpu}, w \in {2, 9} }

(* 2.conf: several processes spawned together, in competition.             *)
Crowd == { <<Proc(0, t, 0, Never, 4), Proc(0, Io, 0, Never, 6),
             Proc(0, Cpu, 2, Never, 4)>> : t \in {Io, Cpu} }

(* 1.conf, 3.conf: nobody ever sleeps.                                     *)
Workers == { <<Proc(0, Cpu, 0, Never, w), Proc(0, Cpu, 1, k, 5),
               Proc(p, Cpu, 2, Never, Forever)>> :
               w \in {3, 8}, k \in {Never, 7}, p \in {0, 1, 2} }

(* What the runs combine them to.                                          *)
Pairs == Pair \cup Spawner
Families == Generations \cup Crowd \cup Workers

(* A pair, and a third process whose time comes as the run ends.           *)
Latecomer == Proc(0, Cpu, 16, Never, Forever)
PairsAndFamilies == {Append(p, Latecomer) : p \in Pairs} \cup Families
BusyPairs == {p \in Pair : p[1].work_duration = 6} \cup Spawner
-----------------------------------------------------------------------------
(* They are profiles the parser builds: each is what readProfile() makes   *)
(* of its text, and none is accepted if a block is left open.              *)
LOCAL Parser == INSTANCE ProfileParser

SampleProfilesRead ==
  \A p \in PairsAndFamilies :
    Parser!ReadsBack(p) /\ Parser!RefusedWithout(Parser!Written(p))

\* A surplus pair the wrong way round passes; a command about a process where
\* there is none follows NULL; the last command of a file is not obeyed.
SurplusRead ==
  LET C(name) == Parser!Command(name)
      Outcome(commands) == Parser!ReadProfile(commands).outcome
      proc == <<C("NEWPROCESS"), C("ENDPROCESS")>>
  IN /\ Outcome(<<C("ENDSPAWN"), C("SPAWN")>> \o proc) = "accepted"
     /\ Outcome(<<C("ENDSPAWN")>> \o proc) = "fault"
     /\ Outcome(proc \o <<Parser!Setting("NICE", 3)>>) = "fault"
     /\ Outcome(<<C("NEWPROCESS"), C("SPAWN")>> \o proc \o <<C("ENDSPAWN")>>) = "refused"

ASSUME ProfilesRead == SampleProfilesRead /\ SurplusRead
=============================================================================
