--------------------------- MODULE SlideshowProofs ---------------------------
(***************************************************************************)
(* Proofs about Slideshow, for every set of texts and announcement         *)
(* timeouts and every bound on the presses.                                *)
(***************************************************************************)
EXTENDS Slideshow, TLAPS

(***************************************************************************)
(* The inductive invariant.  A stop request lives only while the main      *)
(* thread is in slideshow_stop, the worker exists exactly while running is *)
(* set, a press is either still to be read, or has a post on the way, or   *)
(* on the semaphore, and a pending announcement has its string.            *)
(***************************************************************************)
MainInStep ==
  /\ main \in {"post", "stopPost", "stopJoin"} => running
  /\ stopRequested => main \in {"stopPost", "stopJoin"}
  /\ worker = "none" <=> ~running

PressHasPost ==
  unserved > 0 => \/ worker \in {"drain", "take", "exited"}
                  \/ sem > 0
                  \/ main = "post"

AnnouncementHeld == pending => announcement = "set"

SlideshowInv ==
  /\ TypeOK /\ MainInStep /\ CleanWhenStopped /\ PressHasPost
  /\ AnnouncementStable /\ AnnouncementHeld

LEMMA SlideshowInit == Init => SlideshowInv
<1> SUFFICES ASSUME Init PROVE SlideshowInv
  OBVIOUS
<1>1. TypeOK
  <2>1. sem \in Nat /\ skip \in Int /\ unserved \in Nat
    BY DEF Init
  <2> QED BY <2>1, ZenonT(60) DEF Init, TypeOK, WorkerStates, MainStates
<1>2. MainInStep /\ CleanWhenStopped
  BY DEF Init, MainInStep, CleanWhenStopped
<1>3. PressHasPost
  BY DEF Init, PressHasPost
<1>4. AnnouncementStable /\ AnnouncementHeld
  BY DEF Init, AnnouncementStable, AnnouncementHeld
<1> QED
  BY <1>1, <1>2, <1>3, <1>4 DEF SlideshowInv

LEMMA SlideshowTypes == TypeOK /\ [Next]_vars => TypeOK'
<1> SUFFICES ASSUME TypeOK, [Next]_vars PROVE TypeOK'
  OBVIOUS
<1> USE DEF TypeOK, WorkerStates, MainStates, shared, local, display, announce
<1>1. CASE Drain
  BY <1>1 DEF Drain
<1>2. CASE TakeSkip
  BY <1>2 DEF TakeSkip
<1>3. ASSUME NEW t \in Texts \cup {NoText}, FetchOk(t) PROVE TypeOK'
  BY <1>3 DEF FetchOk
<1>4. CASE FetchFail
  BY <1>4 DEF FetchFail
<1>5. CASE RenderMeta
  BY <1>5 DEF RenderMeta
<1>6. ASSUME NEW ok \in BOOLEAN, Decode(ok) PROVE TypeOK'
  BY <1>6 DEF Decode
<1>7. CASE CheckAnnouncement
  BY <1>7 DEF CheckAnnouncement
<1>8. CASE AnnouncementDrawn
  <2>1. pending' \in BOOLEAN
    BY <1>8 DEF AnnouncementDrawn
  <2> QED
    BY <1>8, <2>1 DEF AnnouncementDrawn
<1>9. CASE Blit
  BY <1>9 DEF Blit
<1>10. CASE RenderFallback
  BY <1>10 DEF RenderFallback
<1>11. CASE WaitPosted
  BY <1>11 DEF WaitPosted
<1>12. CASE WaitTimeout
  BY <1>12 DEF WaitTimeout
<1>13. CASE Start
  BY <1>13 DEF Start
<1>14. ASSUME NEW step \in {1, -1}, Press(step) PROVE TypeOK'
  BY <1>14 DEF Press
<1>15. CASE PressPost
  BY <1>15 DEF PressPost
<1>16. CASE Stop
  BY <1>16 DEF Stop
<1>17. CASE StopPost
  BY <1>17 DEF StopPost
<1>18. CASE StopJoined
  <2>1. running' \in BOOLEAN /\ stopRequested' \in BOOLEAN
    BY <1>18 DEF StopJoined
  <2>2. /\ sem' \in Nat /\ skip' \in Int /\ unserved' \in Nat
        /\ eink' \in Texts \cup {NoText}
    BY <1>18 DEF StopJoined
  <2> QED
    BY <1>18, <2>1, <2>2 DEF StopJoined
<1>19. CASE Quit
  BY <1>19 DEF Quit
<1>20. CASE Freed
  BY <1>20 DEF Freed
<1>21. ASSUME NEW timeout \in AnnounceTimeouts, AnnounceRefused(timeout) PROVE TypeOK'
  BY <1>21 DEF AnnounceRefused
<1>22. ASSUME NEW timeout \in AnnounceTimeouts, AnnounceAccepted(timeout) PROVE TypeOK'
  BY <1>22 DEF AnnounceAccepted
<1>23. CASE AnnouncePublish
  BY <1>23 DEF AnnouncePublish
<1>24. CASE UNCHANGED vars
  BY <1>24 DEF vars
<1> HIDE DEF TypeOK, WorkerStates, MainStates, shared, local, display, announce
<1> QED
  BY <1>1, <1>2, <1>3, <1>4, <1>5, <1>6, <1>7, <1>8, <1>9, <1>10, <1>11,
     <1>12, <1>13, <1>14, <1>15, <1>16, <1>17, <1>18, <1>19, <1>20, <1>21,
     <1>22, <1>23, <1>24 DEF Next, Worker, Main, Terminated

LEMMA SlideshowStep == SlideshowInv /\ [Next]_vars => SlideshowInv'
<1> SUFFICES ASSUME SlideshowInv, [Next]_vars,
                    TypeOK, MainInStep, CleanWhenStopped, PressHasPost,
                    AnnouncementStable, AnnouncementHeld, TypeOK'
             PROVE  /\ MainInStep' /\ CleanWhenStopped' /\ PressHasPost'
                    /\ AnnouncementStable' /\ AnnouncementHeld'
  BY SlideshowTypes DEF SlideshowInv
<1> DEFINE Preserved == /\ MainInStep' /\ CleanWhenStopped' /\ PressHasPost'
                        /\ AnnouncementStable' /\ AnnouncementHeld'
<1> USE DEF TypeOK, WorkerStates, MainStates, MainInStep, CleanWhenStopped,
            PressHasPost, AnnouncementStable, AnnouncementHeld,
            shared, local, display, announce
<1>1. CASE Drain
  BY <1>1 DEF Drain
<1>2. CASE TakeSkip
  BY <1>2 DEF TakeSkip
<1>3. ASSUME NEW t \in Texts \cup {NoText}, FetchOk(t) PROVE Preserved
  BY <1>3 DEF FetchOk
<1>4. CASE FetchFail
  BY <1>4 DEF FetchFail
<1>5. CASE RenderMeta
  BY <1>5 DEF RenderMeta
<1>6. ASSUME NEW ok \in BOOLEAN, Decode(ok) PROVE Preserved
  BY <1>6 DEF Decode
<1>7. CASE CheckAnnouncement
  BY <1>7 DEF CheckAnnouncement
<1>8. CASE AnnouncementDrawn
  BY <1>8 DEF AnnouncementDrawn
<1>9. CASE Blit
  BY <1>9 DEF Blit
<1>10. CASE RenderFallback
  BY <1>10 DEF RenderFallback
<1>11. CASE WaitPosted
  BY <1>11 DEF WaitPosted
<1>12. CASE WaitTimeout
  BY <1>12 DEF WaitTimeout
<1>13. CASE Start
  BY <1>13 DEF Start
<1>14. ASSUME NEW step \in {1, -1}, Press(step) PROVE Preserved
  BY <1>14 DEF Press
<1>15. CASE PressPost
  BY <1>15 DEF PressPost
<1>16. CASE Stop
  BY <1>16 DEF Stop
<1>17. CASE StopPost
  BY <1>17 DEF StopPost
<1>18. CASE StopJoined
  BY <1>18 DEF StopJoined
<1>19. CASE Quit
  BY <1>19 DEF Quit
<1>20. CASE Freed
  BY <1>20 DEF Freed
<1>21. ASSUME NEW timeout \in AnnounceTimeouts, AnnounceRefused(timeout) PROVE Preserved
  BY <1>21 DEF AnnounceRefused
<1>22. ASSUME NEW timeout \in AnnounceTimeouts, AnnounceAccepted(timeout) PROVE Preserved
  BY <1>22 DEF AnnounceAccepted
<1>23. CASE AnnouncePublish
  BY <1>23 DEF AnnouncePublish
<1>24. CASE UNCHANGED vars
  BY <1>24 DEF vars
<1> HIDE DEF TypeOK, WorkerStates, MainStates, MainInStep, CleanWhenStopped,
             PressHasPost, AnnouncementStable, AnnouncementHeld,
             shared, local, display, announce
<1> QED
  BY <1>1, <1>2, <1>3, <1>4, <1>5, <1>6, <1>7, <1>8, <1>9, <1>10, <1>11,
     <1>12, <1>13, <1>14, <1>15, <1>16, <1>17, <1>18, <1>19, <1>20, <1>21,
     <1>22, <1>23, <1>24 DEF Next, Worker, Main, Terminated

LEMMA SlideshowInvariant == Spec => []SlideshowInv
BY SlideshowInit, SlideshowStep, PTL DEF Spec

\* Every step of either thread keeps every variable in its range.
THEOREM SlideshowTypeCorrect == Spec => []TypeOK
<1>1. SlideshowInv => TypeOK
  BY DEF SlideshowInv
<1> QED BY <1>1, SlideshowInvariant, PTL

\* Whatever raced with a stop, nothing of it outlives the stop.
THEOREM StopIsClean == Spec => []CleanWhenStopped
<1>1. SlideshowInv => CleanWhenStopped
  BY DEF SlideshowInv
<1> QED BY <1>1, SlideshowInvariant, PTL

\* The order of drain and read leaves no press without a post to wake for it.
THEOREM NoPressLost == Spec => []NoPressSleptOver
<1>1. SlideshowInv => NoPressSleptOver
  BY DEF SlideshowInv, PressHasPost, NoPressSleptOver
<1> QED BY <1>1, SlideshowInvariant, PTL

\* The announcement's string is never freed or written while it is drawn.
THEOREM AnnouncementNeverTorn == Spec => []AnnouncementStable
<1>1. SlideshowInv => AnnouncementStable
  BY DEF SlideshowInv
<1> QED BY <1>1, SlideshowInvariant, PTL
-----------------------------------------------------------------------------
(***************************************************************************)
(* What eink_meta believes to have drawn is on the e-ink display, or that  *)
(* is blank; it is the text of the last photo that has one, but for the    *)
(* photo just fetched, whose text is still to be drawn.                    *)
(***************************************************************************)
EinkBelieved ==
  /\ lastText # NoText => eink \in {lastText, NoText}
  /\ IF worker = "meta" /\ text # NoText
     THEN latest = text
     ELSE eink \in {latest, NoText} /\ lastText \in {latest, NoText}

LEMMA EinkStep == SlideshowInv /\ EinkBelieved /\ [Next]_vars => EinkBelieved'
<1> SUFFICES ASSUME SlideshowInv, EinkBelieved, [Next]_vars PROVE EinkBelieved'
  OBVIOUS
<1> USE DEF EinkBelieved, local, display
<1>1. ASSUME UNCHANGED <<eink, lastText, latest, text>>,
             worker' = "meta" <=> worker = "meta"
      PROVE  EinkBelieved'
  BY <1>1
<1>2. CASE RenderMeta
  BY <1>2 DEF RenderMeta
<1>3. CASE StopJoined \/ Freed
  BY <1>3 DEF StopJoined, Freed
<1>4. ASSUME NEW t \in Texts \cup {NoText}, FetchOk(t) PROVE EinkBelieved'
  BY <1>4 DEF FetchOk
<1>5. CASE Drain \/ TakeSkip \/ FetchFail \/ (\E ok \in BOOLEAN : Decode(ok))
  BY <1>1, <1>5 DEF Drain, TakeSkip, FetchFail, Decode
<1>6. CASE CheckAnnouncement \/ AnnouncementDrawn \/ Blit \/ RenderFallback
           \/ WaitPosted \/ WaitTimeout
  BY <1>1, <1>6 DEF CheckAnnouncement, AnnouncementDrawn, Blit, RenderFallback,
     WaitPosted, WaitTimeout
<1>7. CASE Start
  <2>1. worker = "none" /\ worker' = "drain"
    BY <1>7 DEF Start, SlideshowInv, CleanWhenStopped
  <2>2. UNCHANGED <<eink, lastText, latest, text>>
    BY <1>7 DEF Start
  <2> QED BY <1>1, <2>1, <2>2
<1>8. CASE (\E step \in {1, -1} : Press(step)) \/ PressPost \/ Stop \/ StopPost
           \/ Quit \/ AnnouncePublish
           \/ \E timeout \in AnnounceTimeouts :
                AnnounceRefused(timeout) \/ AnnounceAccepted(timeout)
  BY <1>1, <1>8 DEF Press, PressPost, Stop, StopPost, Quit, AnnouncePublish,
     AnnounceRefused, AnnounceAccepted
<1>9. CASE UNCHANGED vars
  BY <1>1, <1>9 DEF vars
<1> HIDE DEF EinkBelieved
<1> QED
  BY <1>2, <1>3, <1>4, <1>5, <1>6, <1>7, <1>8, <1>9 DEF Next, Worker, Main, Terminated

\* For every set of texts, and however stops and starts clear and redraw it: the
\* e-ink display shows the text of the last photo that has one, or is blank.
THEOREM EinkOfLatestHolds == Spec => []EinkOfLatest
<1>1. Init => EinkBelieved
  BY DEF Init, EinkBelieved
<1>2. EinkBelieved => EinkOfLatest
  BY DEF EinkBelieved, EinkOfLatest
<1> QED BY <1>1, <1>2, EinkStep, SlideshowInvariant, PTL DEF Spec

-----------------------------------------------------------------------------
\* How many steps the worker is at most from reading skip_count.
Before == [none |-> 0, exited |-> 0, take |-> 1, drain |-> 2, wait |-> 3,
           blit |-> 4, noPhoto |-> 4, badPhoto |-> 4, drawing |-> 5, overlay |-> 6,
           decode |-> 7, meta |-> 8, fetch |-> 9]

\* A press gets nearer to being served with each step of the worker, and no step
\* of the main thread puts it off: only a stop makes the worker exit, and it
\* forgets the press.
PressAdvances ==
  [][unserved > 0 => \/ unserved' = 0
                     \/ UNCHANGED worker
                     \/ Worker /\ Before[worker'] < Before[worker]]_vars

LEMMA WorkerAdvances ==
  ASSUME TypeOK, Worker
  PROVE  unserved' = 0 \/ Before[worker'] < Before[worker]
<1> USE DEF Before
<1>1. CASE Drain \/ TakeSkip \/ FetchFail \/ RenderMeta
  BY <1>1 DEF Drain, TakeSkip, FetchFail, RenderMeta
<1>2. ASSUME NEW t \in Texts \cup {NoText}, FetchOk(t)
      PROVE  Before[worker'] < Before[worker]
  BY <1>2 DEF FetchOk
<1>3. ASSUME NEW ok \in BOOLEAN, Decode(ok) PROVE Before[worker'] < Before[worker]
  BY <1>3 DEF Decode
<1>4. CASE CheckAnnouncement \/ AnnouncementDrawn \/ Blit
  BY <1>4 DEF CheckAnnouncement, AnnouncementDrawn, Blit
<1>5. CASE RenderFallback \/ WaitPosted \/ WaitTimeout
  BY <1>5 DEF RenderFallback, WaitPosted, WaitTimeout
<1> HIDE DEF Before
<1> QED BY <1>1, <1>2, <1>3, <1>4, <1>5 DEF Worker

LEMMA MainLeavesWorker ==
  ASSUME SlideshowInv, Main, unserved > 0
  PROVE  unserved' = 0 \/ UNCHANGED worker
<1>1. CASE Start
  BY <1>1 DEF Start, SlideshowInv, CleanWhenStopped
<1>2. CASE StopJoined
  BY <1>2 DEF StopJoined
<1>3. CASE (\E step \in {1, -1} : Press(step)) \/ PressPost \/ Stop \/ StopPost
           \/ Quit \/ Freed \/ AnnouncePublish
           \/ \E timeout \in AnnounceTimeouts :
                AnnounceRefused(timeout) \/ AnnounceAccepted(timeout)
  BY <1>3 DEF Press, PressPost, Stop, StopPost, Quit, Freed, AnnouncePublish,
     AnnounceRefused, AnnounceAccepted
<1> QED BY <1>1, <1>2, <1>3 DEF Main

\* For every number of presses: a press is read after at most nine steps of the
\* worker, or forgotten by a stop; what PressServed needs besides a worker that
\* is scheduled (slideshow.c:194-221).
THEOREM PressAdvancesHolds == Spec => PressAdvances
<1>1. SlideshowInv /\ [Next]_vars =>
        [unserved > 0 => \/ unserved' = 0
                         \/ UNCHANGED worker
                         \/ Worker /\ Before[worker'] < Before[worker]]_vars
  <2> SUFFICES ASSUME SlideshowInv, Next, unserved > 0
               PROVE  \/ unserved' = 0
                      \/ UNCHANGED worker
                      \/ Worker /\ Before[worker'] < Before[worker]
    OBVIOUS
  <2>1. CASE Worker
    BY <2>1, WorkerAdvances DEF SlideshowInv
  <2>2. CASE Main
    BY <2>2, MainLeavesWorker
  <2>3. CASE Terminated
    BY <2>3 DEF Terminated, vars
  <2> QED BY <2>1, <2>2, <2>3 DEF Next
<1> QED BY <1>1, SlideshowInvariant, PTL DEF Spec, PressAdvances
=============================================================================
