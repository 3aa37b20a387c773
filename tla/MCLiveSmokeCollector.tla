------------------------ MODULE MCLiveSmokeCollector ------------------------
(* Small instances of LiveSmokeCollector for TLC. *)
EXTENDS LiveSmokeCollector

MCMatches == [q \in Request |-> Record]
MCLimitOf == [q \in Request |-> 2]
=============================================================================
