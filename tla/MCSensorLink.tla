---------------------------- MODULE MCSensorLink ----------------------------
(* Instances of SensorLink for TLC. *)
EXTENDS SensorLink
=============================================================================
