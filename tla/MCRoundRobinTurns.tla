------------------------- MODULE MCRoundRobinTurns --------------------------
(* The round-robin machine, with its record of turns, on sample profiles.  *)
EXTENDS RoundRobinTurns, SampleProfiles

MCTask == 0 .. N
=============================================================================
