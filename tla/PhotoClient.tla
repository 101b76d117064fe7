----------------------------- MODULE PhotoClient -----------------------------
(***************************************************************************)
(* ambience's slideshow and photo-provider together: the worker thread of  *)
(* slideshow.c asks for a photo with a blocking D-Bus call, photo-provider *)
(* serves the calls one after the other, and other clients, of which there *)
(* may be any number, call the same methods.                               *)
(*                                                                         *)
(* The call times out after the 25 s of the bus, GetPhoto in the provider  *)
(* only after 30 s: a call given up is still served, its answer dropped,   *)
(* and the photo it moved to is not seen.  What ambience fails to take out *)
(* of an answer (slideshow.c:108-132, 146-150) is lost in the same way: it *)
(* is as if the call had been given up just before.                        *)
(*                                                                         *)
(* The calls of one connection arrive in order, those of different ones in *)
(* any; hence only ambience's own are queued here.  A call of a provider   *)
(* that is not on the bus fails at once and changes nothing.               *)
(***************************************************************************)
EXTENDS PhotoProvider, Sequences

CONSTANTS MaxQueued,         \* bound: ambience's calls at the provider
          MaxLost            \* bound: moves lost between two photos shown

ASSUME ClientAssumption == MaxQueued \in Nat /\ MaxLost \in Nat

VARIABLES
  ambience,      \* the slideshow's worker: "resting" on a photo or "calling"
  calls,         \* its calls the provider has not answered, oldest first
  serving,       \* whose pop the dispatch thread is in
  screen,        \* position of the photo last shown, -1 if of an erased tape
  lost           \* history: moves since then that showed ambience no photo

clientVars == <<ambience, calls, serving, screen, lost>>
systemVars == <<providerVars, clientVars>>

Methods == {"GetPhoto", "GetPrevPhoto"}

ClientInit ==
  /\ ProviderInit
  /\ ambience = "resting" /\ calls = <<>> /\ serving = "nobody"
  /\ screen = -1 /\ lost = 0

-----------------------------------------------------------------------------
\* The worker of the slideshow.

\* After the transition time, or when the user asks for the next or the
\* previous photo.
Ask(method) ==
  /\ ambience = "resting" /\ Len(calls) < MaxQueued
  /\ calls' = Append(calls, method)
  /\ ambience' = "calling"
  /\ UNCHANGED <<providerVars, serving, screen, lost>>

\* The bus times out, or the connection is lost: the fallback is shown.
GiveUp ==
  /\ ambience = "calling"
  /\ ambience' = "resting"
  /\ UNCHANGED <<providerVars, calls, serving, screen, lost>>

-----------------------------------------------------------------------------
\* The provider's dispatch thread.

PositionOf(photo) == CHOOSE p \in Held : buf[Slot(p)] = photo

MoveLost ==
  /\ lost' = lost + (IF cursor' # cursor THEN 1 ELSE 0)
  /\ lost' <= MaxLost
  /\ UNCHANGED screen

\* An answer is for the call the worker waits in only if it gave up none after.
Awaited == ambience = "calling" /\ Len(calls) = 1

Answer ==
  /\ calls' = Tail(calls) /\ serving' = "nobody"
  /\ ambience' = IF Awaited THEN "resting" ELSE ambience
  /\ IF Awaited /\ reply' # NoFd
     THEN screen' = PositionOf(reply') /\ lost' = 0
     ELSE MoveLost

ServeAmbience ==
  /\ Deliver
  /\ calls # <<>> /\ serving \in {"nobody", "ambience"}
  /\ IF Head(calls) = "GetPhoto" THEN GetPhoto ELSE GetPrevPhoto
  /\ \/ caller' = "idle" /\ Answer
     \/ /\ caller' # "idle" /\ serving' = "ambience"
        /\ UNCHANGED <<ambience, calls, screen, lost>>

ServeOther ==
  /\ Deliver
  /\ serving \in {"nobody", "other"}
  /\ serving' = IF caller' = "idle" THEN "nobody" ELSE "other"
  /\ MoveLost
  /\ UNCHANGED <<ambience, calls>>

\* The setters, whoever calls them; the flush leaves no photo to step from.
SetOrStart ==
  /\ Session
  /\ IF session = "invalidate" THEN screen' = -1 /\ lost' = 0
     ELSE UNCHANGED <<screen, lost>>
  /\ UNCHANGED <<ambience, calls, serving>>

ClientNext ==
  \/ \E method \in Methods : Ask(method)
  \/ GiveUp
  \/ ServeAmbience \/ ServeOther \/ SetOrStart
  \/ (Quit \/ ProviderWorker \/ ProviderTerminated) /\ UNCHANGED clientVars

ClientSpec == ClientInit /\ [][ClientNext]_systemVars

-----------------------------------------------------------------------------
\* Correctness.

\* Every variable stays in its range, and the pop the dispatch thread is in is
\* somebody's.
ClientTypeOK ==
  /\ ProviderTypeOK
  /\ ambience \in {"resting", "calling"}
  /\ calls \in Seq(Methods) /\ Len(calls) <= MaxQueued
  /\ ambience = "calling" => calls # <<>>
  /\ serving \in {"nobody", "ambience", "other"}
  /\ (serving # "nobody") <=> (caller \in {"popWaiting", "popWoken"})
  /\ serving = "ambience" => calls # <<>>
  /\ screen \in -1 .. (MaxPhotos - 1) /\ lost \in 0 .. MaxLost

\* The worker gets the photo it asked for.
Shown == ambience = "calling" /\ ambience' = "resting" /\ Len(calls') < Len(calls)
           /\ reply' # NoFd

Direction == IF calls[Len(calls)] = "GetPhoto" THEN 1 ELSE -1

\* Ambience README.md "next" and "prev", cache.h:39 "prev then next is
\* symmetric": the photo shown is the next after, or the one before, the photo
\* on the screen, and misses it by no more than one photo for each move that
\* ambience did not see: calls it gave up and that were served late, photos it
\* was not given, moves of other clients.
StepsInOrder ==
  [][Shown => PositionOf(reply') - screen - Direction \in (-lost) .. lost]_systemVars
=============================================================================
