---------------------------- MODULE MCPhotoCache ----------------------------
(* Instances of PhotoCache for TLC. *)
EXTENDS PhotoCache
=============================================================================
