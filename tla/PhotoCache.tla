----------------------------- MODULE PhotoCache -----------------------------
(***************************************************************************)
(* photo-provider/cache.c: the ring of photos behind GetPhoto and          *)
(* GetPrevPhoto.  Two threads share it under one mutex and one condition   *)
(* variable:                                                               *)
(*   - the worker fetches photos from the www session, without the mutex,  *)
(*     and places each in the ring;                                        *)
(*   - the dispatch thread (the D-Bus loop) pops photos forward, steps     *)
(*     back, invalidates the ring when the session re-registers, and       *)
(*     frees the cache.                                                    *)
(* A step is what one thread does while it holds the mutex, or one         *)
(* blocking operation outside it.                                          *)
(*                                                                         *)
(* A photo is the memfd that holds it; metadata travels with it and is     *)
(* left out, as is dump_to_disk.  MaxPhotos and MaxGeneration bound the    *)
(* environment: how many photos the server has for one registration, and   *)
(* how often the configuration changes.                                    *)
(***************************************************************************)
EXTENDS Integers

CONSTANTS HistoryDepth, CacheDepth,   \* struct pp_cache_params
          Fds, NoFd,                  \* memfds; -1 in the code
          MaxPhotos, MaxGeneration    \* bounds of the environment

ASSUME CacheAssumption ==
  /\ HistoryDepth \in Nat
  /\ CacheDepth \in Nat
  /\ NoFd \notin Fds
  /\ MaxPhotos \in Nat
  /\ MaxGeneration \in Nat

PrefetchDepth == IF CacheDepth = 0 THEN 1 ELSE CacheDepth
\* Mutant: the slot of the current photo is forgotten.
BufCapNoCurrent == HistoryDepth + PrefetchDepth
BufCap == HistoryDepth + 1 + PrefetchDepth

VARIABLES
  buf, head, cursor, tail,   \* the ring
  generation, shutdown,
  worker,      \* where the worker thread is
  gen, fd,     \* its locals
  caller,      \* where the dispatch thread is
  reply,       \* the photo its last pop returned, NoFd for -1
  open,        \* the memfds open in the process on the cache's behalf
  shown        \* history variable: the furthest position popped since a flush

ring == <<buf, head, cursor, tail>>
vars == <<buf, head, cursor, tail, generation, shutdown, worker, gen, fd,
          caller, reply, open, shown>>

WorkerStates == {"check", "waiting", "fetching", "fetched", "sleeping", "done"}
CallerStates == {"idle", "popWaiting", "popWoken", "joining", "freed"}

Slot(pos) == pos % BufCap
Held == head .. (tail - 1)
HeldFds == {buf[Slot(p)] : p \in Held}

Init ==
  /\ buf = [s \in 0 .. (BufCap - 1) |-> NoFd]
  /\ head = 0 /\ cursor = -1 /\ tail = 0
  /\ generation = 0 /\ shutdown = FALSE
  /\ worker = "check" /\ gen = 0 /\ fd = NoFd
  /\ caller = "idle" /\ reply = NoFd
  /\ open = {} /\ shown = -1

-----------------------------------------------------------------------------
\* Helpers of the code.

ShouldFetch ==
  /\ tail - cursor - 1 < PrefetchDepth
  /\ tail - head < BufCap \/ head < cursor

\* Mutant: no broadcast where the worker may be waiting.
NoWake == worker' = worker

\* pthread_cond_broadcast, seen from each thread.
WakeWorker == worker' = IF worker = "waiting" THEN "check" ELSE worker
WakeCaller == caller' = IF caller = "popWaiting" THEN "popWoken" ELSE caller

Flush ==
  /\ buf' = [s \in 0 .. (BufCap - 1) |->
               IF \E p \in Held : Slot(p) = s THEN NoFd ELSE buf[s]]
  /\ open' = open \ HeldFds
  /\ head' = 0 /\ tail' = 0 /\ cursor' = -1
  /\ shown' = -1

-----------------------------------------------------------------------------
\* The worker thread.

WorkerWait ==
  /\ worker = "check" /\ ~shutdown /\ ~ShouldFetch
  /\ worker' = "waiting"
  /\ UNCHANGED <<ring, generation, shutdown, gen, fd, caller, reply, open, shown>>

WorkerStartFetch ==
  /\ worker = "check" /\ ~shutdown /\ ShouldFetch
  /\ gen' = generation
  /\ worker' = "fetching"
  /\ UNCHANGED <<ring, generation, shutdown, fd, caller, reply, open, shown>>

\* pp_www_session_fetch_next returns a photo in a new memfd.
WorkerFetchOk(new) ==
  /\ worker = "fetching" /\ tail < MaxPhotos /\ new \notin open
  /\ fd' = new
  /\ open' = open \cup {new}
  /\ worker' = "fetched"
  /\ UNCHANGED <<ring, generation, shutdown, gen, caller, reply, shown>>

\* It fails: the worker sleeps two seconds before it looks at the ring again.
WorkerFetchFail ==
  /\ worker = "fetching"
  /\ worker' = "sleeping"
  /\ UNCHANGED <<ring, generation, shutdown, gen, fd, caller, reply, open, shown>>

WorkerRetry ==
  /\ worker = "sleeping"
  /\ worker' = "check"
  /\ UNCHANGED <<ring, generation, shutdown, gen, fd, caller, reply, open, shown>>

\* Mutant: the discarded photo is not closed.
LeakFetched == UNCHANGED open /\ fd' = NoFd /\ worker' = "check"

\* The photo in hand is closed and the loop starts over.
CloseFetched ==
  /\ open' = open \ {fd}
  /\ fd' = NoFd
  /\ worker' = "check"

\* Mutant: the generation is not compared.
ShutdownOnly == shutdown

Stale == gen # generation \/ shutdown

WorkerDiscard ==
  /\ worker = "fetched" /\ Stale
  /\ CloseFetched
  /\ UNCHANGED <<ring, generation, shutdown, gen, caller, reply, shown>>

\* Mutant: the eviction loop does not stop at the cursor.
EvictPastCursor == IF tail - head < BufCap THEN head ELSE tail - BufCap + 1

\* Mutant: the eviction loop starts only beyond a full ring.
EvictTooLate ==
  IF tail - head <= BufCap \/ head >= cursor THEN head
  ELSE IF tail - BufCap + 1 <= cursor THEN tail - BufCap + 1 ELSE cursor

\* The first position the eviction loop leaves in the ring, and what it closes.
HeadAfterEviction ==
  IF tail - head < BufCap \/ head >= cursor THEN head
  ELSE IF tail - BufCap + 1 <= cursor THEN tail - BufCap + 1 ELSE cursor
Evicted == head .. (HeadAfterEviction - 1)
EvictedFds == {buf[Slot(p)] : p \in Evicted}
BufAfterEviction ==
  [s \in 0 .. (BufCap - 1) |-> IF \E p \in Evicted : Slot(p) = s THEN NoFd ELSE buf[s]]
Full == tail - HeadAfterEviction >= BufCap

WorkerPlace ==
  /\ worker = "fetched" /\ ~Stale /\ ~Full
  /\ buf' = [BufAfterEviction EXCEPT ![Slot(tail)] = fd]
  /\ open' = open \ EvictedFds
  /\ head' = HeadAfterEviction
  /\ tail' = tail + 1
  /\ fd' = NoFd
  /\ worker' = "check"
  /\ WakeCaller
  /\ UNCHANGED <<cursor, generation, shutdown, gen, reply, shown>>

\* The cursor moved back during the fetch and nothing could be evicted.
WorkerDrop ==
  /\ worker = "fetched" /\ ~Stale /\ Full
  /\ buf' = BufAfterEviction
  /\ open' = (open \ EvictedFds) \ {fd}
  /\ head' = HeadAfterEviction
  /\ fd' = NoFd
  /\ worker' = "check"
  /\ UNCHANGED <<cursor, tail, generation, shutdown, gen, caller, reply, shown>>

WorkerExit ==
  /\ worker = "check" /\ shutdown
  /\ Flush
  /\ worker' = "done"
  /\ UNCHANGED <<generation, shutdown, gen, fd, caller, reply>>

WorkerSpuriousWakeup ==
  /\ worker = "waiting"
  /\ worker' = "check"
  /\ UNCHANGED <<ring, generation, shutdown, gen, fd, caller, reply, open, shown>>

Worker ==
  \/ WorkerWait \/ WorkerStartFetch
  \/ \E new \in Fds : WorkerFetchOk(new)
  \/ WorkerFetchFail \/ WorkerRetry
  \/ WorkerDiscard \/ WorkerPlace \/ WorkerDrop
  \/ WorkerExit

-----------------------------------------------------------------------------
\* The dispatch thread.

Invalidate ==
  /\ caller = "idle" /\ generation < MaxGeneration
  /\ Flush
  /\ generation' = generation + 1
  /\ WakeWorker
  /\ UNCHANGED <<shutdown, gen, fd, caller, reply>>

\* Where pp_cache_pop holds the mutex: on entry and after a wakeup.
InPop == caller \in {"idle", "popWoken"}

\* Mutant: the entry is looked up before the cursor moves.
PopTakeBeforeMove(ok) ==
  /\ InPop /\ cursor + 1 < tail
  /\ cursor' = cursor + 1
  /\ reply' = IF ok THEN buf[Slot(cursor)] ELSE NoFd
  /\ shown' = IF cursor + 1 > shown THEN cursor + 1 ELSE shown
  /\ caller' = "idle"
  /\ WakeWorker
  /\ UNCHANGED <<buf, head, tail, generation, shutdown, gen, fd, open>>

\* ok is FALSE when dup() of the photo's descriptor fails: the cursor has
\* already moved by then.
PopTake(ok) ==
  /\ InPop /\ cursor + 1 < tail
  /\ cursor' = cursor + 1
  /\ reply' = IF ok THEN buf[Slot(cursor + 1)] ELSE NoFd
  /\ shown' = IF cursor + 1 > shown THEN cursor + 1 ELSE shown
  /\ caller' = "idle"
  /\ WakeWorker
  /\ UNCHANGED <<buf, head, tail, generation, shutdown, gen, fd, open>>

PopWait ==
  /\ InPop /\ cursor + 1 >= tail
  /\ caller' = "popWaiting"
  /\ UNCHANGED <<ring, generation, shutdown, worker, gen, fd, reply, open, shown>>

\* The deadline may pass before or together with a wakeup.
PopTimeout ==
  /\ caller \in {"popWaiting", "popWoken"}
  /\ caller' = "idle" /\ reply' = NoFd
  /\ UNCHANGED <<ring, generation, shutdown, worker, gen, fd, open, shown>>

CallerSpuriousWakeup ==
  /\ caller = "popWaiting"
  /\ caller' = "popWoken"
  /\ UNCHANGED <<ring, generation, shutdown, worker, gen, fd, reply, open, shown>>

PopPrev(ok) ==
  /\ caller = "idle" /\ cursor > head
  /\ cursor' = cursor - 1
  /\ reply' = IF ok THEN buf[Slot(cursor - 1)] ELSE NoFd
  /\ UNCHANGED <<buf, head, tail, generation, shutdown, worker, gen, fd,
                 caller, open, shown>>

PopPrevRefused ==
  /\ caller = "idle" /\ cursor <= head
  /\ reply' = NoFd
  /\ UNCHANGED <<ring, generation, shutdown, worker, gen, fd, caller, open, shown>>

FreeStart ==
  /\ caller = "idle"
  /\ shutdown' = TRUE
  /\ caller' = "joining"
  /\ WakeWorker
  /\ UNCHANGED <<ring, generation, gen, fd, reply, open, shown>>

FreeJoined ==
  /\ caller = "joining" /\ worker = "done"
  /\ caller' = "freed"
  /\ UNCHANGED <<ring, generation, shutdown, worker, gen, fd, reply, open, shown>>

Caller ==
  \/ Invalidate
  \/ \E ok \in BOOLEAN : PopTake(ok)
  \/ PopWait \/ PopTimeout
  \/ \E ok \in BOOLEAN : PopPrev(ok)
  \/ PopPrevRefused
  \/ FreeStart \/ FreeJoined

Spurious == WorkerSpuriousWakeup \/ CallerSpuriousWakeup

\* After pp_cache_free nothing runs: the only state the system may stop in.
Terminated == caller = "freed" /\ UNCHANGED vars

Next == Worker \/ Caller \/ Spurious \/ Terminated

Spec == Init /\ [][Next]_vars

\* The worker is never starved by the scheduler: a runnable step is taken in
\* the end, a fetch returns because curl has a timeout, and the two seconds'
\* sleep ends.  Of the dispatch thread only two things are assumed: the wait of
\* a pop ends (its deadline passes), and the join returns once the worker is
\* done.  Which D-Bus calls arrive, and whether any does, is left open.
Fairness ==
  /\ WF_vars(Worker)
  /\ WF_vars(PopTimeout)
  /\ WF_vars(FreeJoined)

FairSpec == Spec /\ Fairness

-----------------------------------------------------------------------------
\* Correctness.

\* Every variable stays in its range, for the ring as an array of descriptors.
TypeOK ==
  /\ buf \in [0 .. (BufCap - 1) -> Fds \cup {NoFd}]
  /\ head \in Nat /\ tail \in Nat /\ cursor \in Nat \cup {-1}
  /\ generation \in Nat /\ gen \in Nat /\ shutdown \in BOOLEAN
  /\ worker \in WorkerStates /\ caller \in CallerStates
  /\ fd \in Fds \cup {NoFd} /\ reply \in Fds \cup {NoFd}
  /\ open \subseteq Fds
  /\ shown \in Nat \cup {-1}

\* The three ranges the comment on struct pp_cache draws, [head, cursor),
\* cursor and (cursor, tail), fit in the ring at every step: the worker never
\* overwrites a slot that is in use and never evicts the photo the consumer is
\* looking at, and the cursor never leaves what the ring holds.
RingShape ==
  /\ tail - head <= BufCap
  /\ \/ cursor = -1 /\ head = 0
     \/ head <= cursor /\ cursor < tail
  /\ cursor <= shown

\* Every open memfd is in exactly one place, a slot of the ring or the worker's
\* hand, and every held slot has an open one: whatever the interleaving of
\* fetch, eviction, flush and exit, no descriptor is leaked, closed twice or
\* handed out after it was closed.
FdsAccounted ==
  /\ \A s \in 0 .. (BufCap - 1) :
       (buf[s] # NoFd) <=> (\E p \in Held : Slot(p) = s)
  /\ \A s, t \in 0 .. (BufCap - 1) : s # t /\ buf[s] # NoFd => buf[s] # buf[t]
  /\ (fd # NoFd) <=> (worker = "fetched")
  /\ fd # NoFd => fd \notin HeldFds
  /\ open = HeldFds \cup ({fd} \ {NoFd})

\* A thread asleep on the condition variable has nothing to do: no broadcast
\* is missing where a step of the other thread makes its predicate true.  (A
\* step back by pop_prev does not broadcast and need not.)
NoLostWakeup ==
  /\ worker = "waiting" => ~shutdown /\ ~ShouldFetch
  /\ caller = "popWaiting" => cursor + 1 >= tail

\* However far back the user stepped while a fetch was in flight, the
\* HistoryDepth photos before the newest one shown are not evicted.
HistoryRetained == head = 0 \/ head <= shown - HistoryDepth

\* Nor does stepping back make the worker run ahead: it never holds more than
\* PrefetchDepth photos (and the one in flight) beyond the newest one shown.
LookaheadBounded == tail <= shown + 1 + PrefetchDepth

\* Neither end of the ring is overrun, by the eviction or by the look-ahead.
RingInBounds == RingShape /\ LookaheadBounded

\* pp_cache_free returns: a shutdown during any step of the worker ends it.
ShutdownCompletes == shutdown ~> (caller = "freed" /\ open = {})

\* A consumer that leaves the cache alone lets the worker come to rest, with
\* the ring filled or the server failing: it never fetches photos only to drop
\* them for want of room, over and over.
WorkerSettles ==
  <>[][UNCHANGED <<cursor, generation, shutdown>>]_vars
    => []<>(worker \in {"waiting", "sleeping", "done"})

\* The ring implements the tape: photos are delivered in the order they were
\* fetched, none skipped or repeated; a step back returns the photo shown
\* before, the step forward after it the same photo again ("prev then next is
\* symmetric", cache.h:39); what may still be shown is not evicted.
Tape == INSTANCE PhotoTape WITH
  Photos <- Fds, NoPhoto <- NoFd,
  tape <- [p \in Held |-> buf[Slot(p)]], end <- tail, at <- cursor
ImplementsTape == Tape!Spec
=============================================================================
