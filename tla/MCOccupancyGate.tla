--------------------------- MODULE MCOccupancyGate ---------------------------
(* Instances of OccupancyGate for TLC. *)
EXTENDS OccupancyGate
=============================================================================
