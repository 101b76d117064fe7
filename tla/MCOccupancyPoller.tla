-------------------------- MODULE MCOccupancyPoller --------------------------
(* Instances of OccupancyPoller for TLC. *)
EXTENDS OccupancyPoller

MCDistances == {0, 1}
=============================================================================
