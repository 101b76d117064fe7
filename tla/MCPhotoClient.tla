--------------------------- MODULE MCPhotoClient ---------------------------
(* Instances of PhotoClient for TLC. *)
EXTENDS PhotoClient, TLC

CONSTANTS s1, s2
MCSizes == {s1, s2}
MCDefaultLook == [size |-> s2, qr |-> FALSE]

FdSymmetry == Permutations(Fds)
=============================================================================
