-------------------------- MODULE FramebufferLease --------------------------
(***************************************************************************)
(* What display-mgr promises its clients (README.md, Lease semantics): the *)
(* framebuffer is lent to one client at a time.  It is lent again to the   *)
(* lessee, or to somebody else once it is back; it does not come back      *)
(* before its lessee has laid it down, and it never passes straight from   *)
(* one to the other.  Each start of the daemon makes a framebuffer nobody  *)
(* has; who has an older one may go on drawing to it.                      *)
(*                                                                         *)
(* The bus, its calls and time-outs, deaths and crashes are in DisplayMgr, *)
(* which implements this specification.                                    *)
(***************************************************************************)
EXTENDS Integers

CONSTANTS Clients, Nobody

VARIABLES fb,        \* the framebuffer there is to lend, or 0
          lessee,    \* the client it is lent to, or Nobody
          drawsTo    \* the framebuffer each client has, or 0

vars == <<fb, lessee, drawsTo>>

Init == fb = 0 /\ lessee = Nobody /\ drawsTo = [c \in Clients |-> 0]

\* A new framebuffer, or none any more.
Open ==
  /\ fb = 0
  /\ fb' \in Nat \ {0} /\ \A c \in Clients : drawsTo[c] # fb'
  /\ UNCHANGED <<lessee, drawsTo>>

Close == fb # 0 /\ fb' = 0 /\ lessee' = Nobody /\ UNCHANGED drawsTo

\* The client may no longer wait for it.
Lend(c) ==
  /\ fb # 0 /\ lessee \in {Nobody, c}
  /\ lessee' = c
  /\ drawsTo' \in {drawsTo, [drawsTo EXCEPT ![c] = fb]}
  /\ UNCHANGED fb

LayDown(c) == drawsTo' = [drawsTo EXCEPT ![c] = 0] /\ UNCHANGED <<fb, lessee>>

GetBack(c) ==
  /\ lessee = c /\ drawsTo[c] # fb
  /\ lessee' = Nobody
  /\ UNCHANGED <<fb, drawsTo>>

Next == Open \/ Close \/ \E c \in Clients : Lend(c) \/ LayDown(c) \/ GetBack(c)

Spec == Init /\ [][Next]_vars

-----------------------------------------------------------------------------
\* Every variable stays in its range.
TypeOK ==
  /\ fb \in Nat /\ lessee \in Clients \cup {Nobody}
  /\ drawsTo \in [Clients -> Nat]

\* The framebuffer is with nobody but the lessee ...
WithLessee == fb # 0 => \A c \in Clients : drawsTo[c] = fb => lessee = c

\* ... and so no two clients draw to one framebuffer, new or old.
OneEach ==
  \A c, d \in Clients : drawsTo[c] = drawsTo[d] /\ drawsTo[c] # 0 => c = d
=============================================================================
