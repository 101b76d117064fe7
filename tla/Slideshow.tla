------------------------------ MODULE Slideshow ------------------------------
(***************************************************************************)
(* ambience/slideshow.c, with the parts of ambience/main.c and eink_meta.c *)
(* it calls back into: the worker thread that fetches, draws and waits,    *)
(* and the main thread, which dispatches D-Bus calls and starts, stops and *)
(* nudges the worker.  They share                                          *)
(*   - wake_sem, posted by stop, next and prev;                            *)
(*   - stop_requested, a plain bool, and skip_count, an atomic;            *)
(*   - the pending announcement, drawn over the next photo.                *)
(*                                                                         *)
(* photo-provider is external here: a fetch returns a photo or fails, at   *)
(* the latest when the D-Bus call times out.  Of a photo only the text its *)
(* metadata puts on the e-ink display matters (NoText if it has none that  *)
(* can be parsed).                                                         *)
(***************************************************************************)
EXTENDS Integers

CONSTANTS Texts, NoText,      \* e-ink texts; none, and the blank display
          HasFallback,        \* a fallback image is configured and decodes
          AnnounceTimeouts,   \* the timeouts Announce is called with
          MaxPosts            \* bound: presses not yet served

ASSUME SlideshowAssumption ==
  /\ NoText \notin Texts
  /\ HasFallback \in BOOLEAN
  /\ AnnounceTimeouts \subseteq Nat
  /\ MaxPosts \in Nat

VARIABLES
  running,        \* worker_running
  sem,            \* wake_sem
  stopRequested, skip,
  worker,         \* where the worker thread is
  method, text,   \* its locals: what it fetches, and the photo's e-ink text
  main,           \* where the main thread is
  quitting,       \* the dispatch loop has ended
  screen,         \* what the framebuffer shows
  eink, lastText, \* the e-ink display, and what eink_meta believes it shows
  pending,        \* announcement_pending
  announcement,   \* the announcement's string: "none", "set" or "freed"
  answer,         \* the answer to the last Announce
  latest,         \* history: the text of the last photo fetched that has one
  unserved        \* history: presses since skip_count was last read

local == <<method, text>>
shared == <<sem, stopRequested, skip>>
display == <<screen, eink, lastText, latest>>
announce == <<pending, announcement, answer>>
vars == <<running, shared, worker, local, main, quitting, display, announce,
          unserved>>

WorkerStates == {"none", "drain", "take", "fetch", "meta", "decode", "overlay",
                 "drawing", "blit", "noPhoto", "badPhoto", "wait", "exited"}
MainStates == {"idle", "post", "stopPost", "stopJoin", "replaceText", "freed"}

\* The e-ink display keeps what a process that was killed has left on it.
Init ==
  /\ running = FALSE /\ sem = 0 /\ stopRequested = FALSE /\ skip = 0
  /\ worker = "none" /\ method = "GetPhoto" /\ text = NoText
  /\ main = "idle" /\ quitting = FALSE
  /\ screen = (IF HasFallback THEN "fallback" ELSE "blank")
  /\ eink \in Texts \cup {NoText} /\ latest = eink /\ lastText = NoText
  /\ pending = FALSE /\ announcement = "none" /\ answer = "none"
  /\ unserved = 0

-----------------------------------------------------------------------------
\* The worker thread.

Drain ==
  /\ worker = "drain"
  /\ sem' = 0
  /\ worker' = "take"
  /\ UNCHANGED <<running, stopRequested, skip, local, main, quitting, display,
                 announce, unserved>>

\* Mutant: one press is served, though all posts were drained.
TakeOneSkip ==
  /\ worker = "take"
  /\ method' = IF skip < 0 THEN "GetPrevPhoto" ELSE "GetPhoto"
  /\ skip' = (IF skip < 0 THEN skip + 1 ELSE IF skip > 0 THEN skip - 1 ELSE 0)
  /\ unserved' = IF unserved > 0 THEN unserved - 1 ELSE 0
  /\ worker' = "fetch"
  /\ UNCHANGED <<running, sem, stopRequested, text, main, quitting,
                 display, announce>>

TakeSkip ==
  /\ worker = "take"
  /\ method' = IF skip < 0 THEN "GetPrevPhoto" ELSE "GetPhoto"
  /\ skip' = 0 /\ unserved' = 0
  /\ worker' = "fetch"
  /\ UNCHANGED <<running, sem, stopRequested, text, main, quitting,
                 display, announce>>

FetchOk(t) ==
  /\ worker = "fetch"
  /\ text' = t
  /\ latest' = IF t = NoText THEN latest ELSE t
  /\ worker' = "meta"
  /\ UNCHANGED <<running, shared, method, main, quitting, screen, eink, lastText,
                 announce, unserved>>

FetchFail ==
  /\ worker = "fetch"
  /\ worker' = "noPhoto"
  /\ UNCHANGED <<running, shared, local, main, quitting, display, announce,
                 unserved>>

\* Mutant: only a blank display is drawn on.
RenderMetaIfBlank ==
  /\ worker = "meta"
  /\ eink' = IF eink = NoText THEN text ELSE eink
  /\ lastText' = IF text = NoText THEN lastText ELSE text
  /\ worker' = "decode"
  /\ UNCHANGED <<running, shared, local, main, quitting, screen, latest, announce,
                 unserved>>

\* eink_meta_render redraws only what it believes to be new, and nothing if the
\* metadata cannot be parsed.
RenderMeta ==
  /\ worker = "meta"
  /\ eink' = IF text \in {lastText, NoText} THEN eink ELSE text
  /\ lastText' = IF text = NoText THEN lastText ELSE text
  /\ worker' = "decode"
  /\ UNCHANGED <<running, shared, local, main, quitting, screen, latest, announce,
                 unserved>>

\* jpeg_load_fd, which may fail.
Decode(ok) ==
  /\ worker = "decode"
  /\ worker' = IF ok THEN "overlay" ELSE "badPhoto"
  /\ UNCHANGED <<running, shared, local, main, quitting, display,
                 announce, unserved>>

\* Mutant: the announcement is given back before it is drawn.
CheckAndClear ==
  /\ worker = "overlay"
  /\ worker' = IF pending THEN "drawing" ELSE "blit"
  /\ pending' = FALSE
  /\ UNCHANGED <<running, shared, local, main, quitting, display, announcement,
                 answer, unserved>>

\* on_overlay draws the announcement if one is pending, ...
CheckAnnouncement ==
  /\ worker = "overlay"
  /\ worker' = IF pending THEN "drawing" ELSE "blit"
  /\ UNCHANGED <<running, shared, local, main, quitting, display, announce,
                 unserved>>

\* ... and only then gives its string back to the main thread.
AnnouncementDrawn ==
  /\ worker = "drawing"
  /\ pending' = FALSE
  /\ worker' = "blit"
  /\ UNCHANGED <<running, shared, local, main, quitting, display, announcement,
                 answer, unserved>>

\* The photo goes to the screen.
Blit ==
  /\ worker = "blit"
  /\ screen' = "photo"
  /\ worker' = "wait"
  /\ UNCHANGED <<running, shared, local, main, quitting, eink, lastText,
                 latest, announce, unserved>>

\* The fallback image goes there if it could not be decoded, or none came at all.
RenderFallback ==
  /\ worker \in {"noPhoto", "badPhoto"}
  /\ screen' = IF HasFallback THEN "fallback" ELSE screen
  /\ worker' = "wait"
  /\ UNCHANGED <<running, shared, local, main, quitting, eink, lastText,
                 latest, announce, unserved>>

\* Mutant: every post is taken for a stop.
WaitPostedStops ==
  /\ worker = "wait" /\ sem > 0
  /\ sem' = sem - 1
  /\ worker' = "exited"
  /\ UNCHANGED <<running, stopRequested, skip, local, main, quitting, display,
                 announce, unserved>>

\* Mutant: the semaphore is taken without a post.
WaitUnposted ==
  /\ worker = "wait"
  /\ sem' = sem - 1
  /\ worker' = IF stopRequested THEN "exited" ELSE "drain"
  /\ UNCHANGED <<running, stopRequested, skip, local, main, quitting, display,
                 announce, unserved>>

\* wait_or_stop: a post ends the wait, and tells a stop from a press ...
WaitPosted ==
  /\ worker = "wait" /\ sem > 0
  /\ sem' = sem - 1
  /\ worker' = IF stopRequested THEN "exited" ELSE "drain"
  /\ UNCHANGED <<running, stopRequested, skip, local, main, quitting, display,
                 announce, unserved>>

\* ... a timeout always goes on to the next photo.
WaitTimeout ==
  /\ worker = "wait" /\ sem = 0
  /\ worker' = "drain"
  /\ UNCHANGED <<running, shared, local, main, quitting, display, announce,
                 unserved>>

Worker ==
  \/ Drain \/ TakeSkip
  \/ \E t \in Texts \cup {NoText} : FetchOk(t)
  \/ FetchFail \/ RenderMeta
  \/ \E ok \in BOOLEAN : Decode(ok)
  \/ CheckAnnouncement \/ AnnouncementDrawn \/ Blit \/ RenderFallback
  \/ WaitPosted \/ WaitTimeout

-----------------------------------------------------------------------------
\* The main thread.

Start ==
  /\ main = "idle" /\ ~quitting /\ ~running
  /\ running' = TRUE
  /\ worker' = "drain"
  /\ UNCHANGED <<shared, local, main, quitting, display, announce, unserved>>

\* slideshow_next (step is 1) and slideshow_prev (-1): count, then post.
Press(step) ==
  /\ main = "idle" /\ ~quitting /\ running
  /\ unserved < MaxPosts /\ sem < MaxPosts
  /\ skip' = skip + step /\ unserved' = unserved + 1
  /\ main' = "post"
  /\ UNCHANGED <<running, sem, stopRequested, worker, local, quitting, display,
                 announce>>

PressPost ==
  /\ main = "post"
  /\ sem' = sem + 1
  /\ main' = "idle"
  /\ UNCHANGED <<running, stopRequested, skip, worker, local, quitting, display,
                 announce, unserved>>

\* slideshow_stop, also the first thing slideshow_free does.
Stop ==
  /\ main = "idle" /\ running
  /\ stopRequested' = TRUE
  /\ main' = "stopPost"
  /\ UNCHANGED <<running, sem, skip, worker, local, quitting, display, announce,
                 unserved>>

StopPost ==
  /\ main = "stopPost"
  /\ sem' = sem + 1
  /\ main' = "stopJoin"
  /\ UNCHANGED <<running, stopRequested, skip, worker, local, quitting, display,
                 announce, unserved>>

\* Mutant: leftover posts are not drained.
StopJoinedUndrained ==
  /\ main = "stopJoin" /\ worker = "exited"
  /\ running' = FALSE /\ stopRequested' = FALSE
  /\ skip' = 0 /\ unserved' = 0
  /\ eink' = NoText
  /\ worker' = "none" /\ main' = "idle"
  /\ UNCHANGED <<sem, local, quitting, screen, lastText, latest, announce>>

StopJoined ==
  /\ main = "stopJoin" /\ worker = "exited"
  /\ running' = FALSE /\ stopRequested' = FALSE
  /\ sem' = 0 /\ skip' = 0 /\ unserved' = 0
  /\ eink' = NoText
  /\ worker' = "none" /\ main' = "idle"
  /\ UNCHANGED <<local, quitting, screen, lastText, latest, announce>>

Quit ==
  /\ main = "idle" /\ ~quitting
  /\ quitting' = TRUE
  /\ UNCHANGED <<running, shared, worker, local, main, display, announce,
                 unserved>>

\* slideshow_free clears the e-ink display once more.
Freed ==
  /\ main = "idle" /\ quitting /\ ~running
  /\ eink' = NoText
  /\ main' = "freed"
  /\ UNCHANGED <<running, shared, worker, local, quitting, screen, lastText, latest,
                 announce, unserved>>

\* on_announce_requested_cb: the timeout is checked before anything else.
InvalidTimeout(timeout) == timeout <= 5 \/ timeout >= 30

AnnounceRefused(timeout) ==
  /\ main = "idle" /\ ~quitting
  /\ InvalidTimeout(timeout) \/ pending
  /\ answer' = IF InvalidTimeout(timeout) THEN "EINVAL" ELSE "EBUSY"
  /\ UNCHANGED <<running, shared, worker, local, main, quitting, display,
                 pending, announcement, unserved>>

\* The old string is freed, then the new one is stored and published.
AnnounceAccepted(timeout) ==
  /\ main = "idle" /\ ~quitting
  /\ ~InvalidTimeout(timeout) /\ ~pending
  /\ announcement' = "freed"
  /\ main' = "replaceText"
  /\ UNCHANGED <<running, shared, worker, local, quitting, display, pending,
                 answer, unserved>>

AnnouncePublish ==
  /\ main = "replaceText"
  /\ announcement' = "set" /\ pending' = TRUE /\ answer' = "ok"
  /\ main' = "idle"
  /\ UNCHANGED <<running, shared, worker, local, quitting, display, unserved>>

Main ==
  \/ Start
  \/ \E step \in {1, -1} : Press(step)
  \/ PressPost
  \/ Stop \/ StopPost \/ StopJoined
  \/ Quit \/ Freed
  \/ \E timeout \in AnnounceTimeouts :
       AnnounceRefused(timeout) \/ AnnounceAccepted(timeout)
  \/ AnnouncePublish

Terminated == main = "freed" /\ UNCHANGED vars

Next == Worker \/ Main \/ Terminated

Spec == Init /\ [][Next]_vars

\* The worker is scheduled and its D-Bus call returns; once in the middle of a
\* call the main thread finishes it, except where it blocks on the join.
Fairness ==
  /\ WF_vars(Worker)
  /\ WF_vars(PressPost \/ StopPost \/ StopJoined \/ AnnouncePublish)

FairSpec == Spec /\ Fairness

-----------------------------------------------------------------------------
\* Correctness.

\* Every variable stays in its range.
TypeOK ==
  /\ running \in BOOLEAN /\ stopRequested \in BOOLEAN /\ quitting \in BOOLEAN
  /\ sem \in Nat /\ skip \in Int /\ unserved \in Nat
  /\ worker \in WorkerStates /\ main \in MainStates
  /\ method \in {"GetPhoto", "GetPrevPhoto"}
  /\ text \in Texts \cup {NoText}
  /\ screen \in {"blank", "fallback", "photo"}
  /\ {eink, lastText, latest} \subseteq Texts \cup {NoText}
  /\ pending \in BOOLEAN /\ announcement \in {"none", "set", "freed"}
  /\ answer \in {"none", "ok", "EINVAL", "EBUSY"}

\* The next start begins clean (slideshow.c:373-374): whatever presses and posts
\* raced with the stop, no thread, post, press or stop request outlives it.
CleanWhenStopped ==
  ~running => /\ worker = "none"
              /\ sem = 0 /\ skip = 0 /\ unserved = 0 /\ ~stopRequested

\* A press is never slept over: draining the semaphore before reading
\* skip_count leaves a post behind for every press that was not read.
NoPressSleptOver ==
  worker = "wait" /\ unserved > 0 => sem > 0 \/ main = "post"

\* The worker never draws an announcement whose string the main thread is
\* replacing: announcement_pending hands the string back and forth.
AnnouncementStable ==
  /\ worker = "drawing" => pending /\ announcement = "set"
  /\ main = "replaceText" => ~pending

\* Every press is served by a later fetch, or forgotten by a stop.
PressServed == (unserved > 0) ~> (unserved = 0)

\* slideshow.h:42: slideshow_stop stops the worker if it is running, and so
\* returns; slideshow.c:31-33 argue that its post cannot be missed.
StopReturns == (main = "stopJoin") ~> (main = "idle")

\* eink_meta.h:11 "render city + year to the eink": outside eink_meta_render the
\* e-ink display shows the text of the last photo fetched that has one, or is
\* blank.  That is the photo being drawn, unless its metadata is empty or cannot
\* be parsed: then the text of an earlier one stays (eink_meta.c:46-50), but of
\* none before the last that had one, whatever stops have cleared in between.
EinkOfLatest == worker # "meta" => eink \in {latest, NoText}
=============================================================================
