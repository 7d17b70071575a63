---------------------------- MODULE MCRoundRobin ----------------------------
(* The round-robin machine on the sample profiles.                         *)
EXTENDS RoundRobin, SampleProfiles

MCTask == 0 .. N
=============================================================================
