--------------------------- MODULE MCShortestJob ----------------------------
(* The shortest-job machine on sample profiles.                            *)
EXTENDS ShortestJob, SampleProfiles

MCTask == 0 .. N
=============================================================================
