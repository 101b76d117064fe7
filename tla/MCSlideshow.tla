---------------------------- MODULE MCSlideshow ----------------------------
(* Instances of Slideshow for TLC. *)
EXTENDS Slideshow

MCAnnounceTimeouts == {5, 10}
=============================================================================
