------------------------------ MODULE PhotoTape ------------------------------
(***************************************************************************)
(* What photo-provider's cache promises its consumer (cache.h): an endless *)
(* tape of photos with a play head.  Photos are recorded at the end and    *)
(* never change; GetPhoto moves the head one photo forward, GetPrevPhoto   *)
(* one back, and each hands out the photo under the head.  Only photos     *)
(* behind the head may be forgotten, oldest first.  A change of the client *)
(* configuration erases the whole tape.                                    *)
(*                                                                         *)
(* The threads, the ring and the condition variable are in PhotoCache,     *)
(* which implements this specification.                                    *)
(***************************************************************************)
EXTENDS Integers

CONSTANTS Photos,    \* the photos that may be on the tape
          NoPhoto    \* the answer of a call that returns an error

VARIABLES tape,      \* position |-> photo; its domain is an interval
          end,       \* the position the next photo is recorded at
          at,        \* the position of the play head, -1 before the first photo
          reply      \* the answer of the last call

vars == <<tape, end, at, reply>>

EmptyTape == [p \in {} |-> NoPhoto]

Init == tape = EmptyTape /\ end = 0 /\ at = -1 /\ reply = NoPhoto

\* A photo arrives; the oldest photo may be forgotten for it, unless it is the
\* one under the play head or lies ahead of it.
Record(photo) ==
  \E forgotten \in SUBSET {p \in DOMAIN tape : p < at /\ p - 1 \notin DOMAIN tape} :
    /\ tape' = [p \in (DOMAIN tape \ forgotten) \cup {end} |->
                  IF p = end THEN photo ELSE tape[p]]
    /\ end' = end + 1
    /\ UNCHANGED <<at, reply>>

\* The head moves to position p and the photo there is handed out (or its
\* descriptor could not be duplicated, and the caller gets an error).
MoveTo(p) ==
  /\ p \in DOMAIN tape
  /\ at' = p
  /\ reply' \in {tape[p], NoPhoto}
  /\ UNCHANGED <<tape, end>>

Refuse == reply' = NoPhoto /\ UNCHANGED <<tape, end, at>>

Erase == tape' = EmptyTape /\ end' = 0 /\ at' = -1 /\ UNCHANGED reply

Next ==
  \/ \E photo \in Photos : Record(photo)
  \/ MoveTo(at + 1)
  \/ MoveTo(at - 1)
  \/ Refuse
  \/ Erase

Spec == Init /\ [][Next]_vars
=============================================================================
