---------------------------- MODULE MCDisplayMgr ----------------------------
(* Instances of DisplayMgr for TLC. *)
EXTENDS DisplayMgr
=============================================================================
