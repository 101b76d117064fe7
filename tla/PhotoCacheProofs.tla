-------------------------- MODULE PhotoCacheProofs --------------------------
(***************************************************************************)
(* Proofs about PhotoCache, for every depth of history and prefetch, every *)
(* set of memfds and every bound of the environment.                       *)
(***************************************************************************)
EXTENDS PhotoCache, TLAPS

LEMMA CapPositive == /\ PrefetchDepth \in Nat /\ PrefetchDepth >= 1
                     /\ BufCap \in Nat /\ BufCap >= 2
                     /\ BufCap = HistoryDepth + 1 + PrefetchDepth
                     /\ HistoryDepth \in Nat
BY CacheAssumption DEF PrefetchDepth, BufCap

LEMMA SlotRange == ASSUME NEW p \in Int PROVE Slot(p) \in 0 .. (BufCap - 1)
BY CapPositive DEF Slot

LEMMA ModDifference ==
  ASSUME NEW n \in Nat, n > 0, NEW k \in Int, n * k > 0, n * k < n
  PROVE  FALSE
<1>1. CASE k <= 0
  <2>1. n * k <= 0
    BY <1>1, Z3
  <2> QED BY <2>1
<1>2. CASE k >= 1
  <2>1. n * k >= n
    BY <1>2, Z3
  <2> QED BY <2>1
<1> QED BY <1>1, <1>2

LEMMA DivMod ==
  ASSUME NEW n \in Nat, n > 0, NEW x \in Int
  PROVE  x = n * (x \div n) + (x % n) /\ x \div n \in Int /\ x % n \in Int
<1>1. x = n * (x \div n) + (x % n)
  OBVIOUS
<1>2. x \div n \in Int /\ x % n \in Int
  OBVIOUS
<1> QED BY <1>1, <1>2

LEMMA SlotInjective ==
  ASSUME NEW p \in Int, NEW q \in Int, p < q, q - p < BufCap
  PROVE  Slot(p) # Slot(q)
<1> DEFINE n == BufCap  dp == p \div n  dq == q \div n
<1>2. SUFFICES ASSUME Slot(p) = Slot(q) PROVE FALSE
  OBVIOUS
<1>3. p % n = q % n
  BY <1>2 DEF Slot
<1>4. p % n \in Int /\ n \in Nat /\ n > 0 /\ dp \in Int /\ dq \in Int
  BY CapPositive, DivMod
<1>5. p = n * dp + (p % n) /\ q = n * dq + (q % n)
  BY <1>4, DivMod
<1>9. q - p < n
  OBVIOUS
<1> HIDE DEF n, dp, dq
<1>6. q - p = n * dq - n * dp
  BY <1>3, <1>4, <1>5
<1>7. n * dq - n * dp = n * (dq - dp)
  BY <1>4, Z3
<1>8. n * (dq - dp) > 0 /\ n * (dq - dp) < n
  BY <1>6, <1>7, <1>9
<1> QED
  BY <1>4, <1>8, ModDifference

-----------------------------------------------------------------------------
\* Every step of the system keeps every variable in its range.
THEOREM TypeCorrect == Spec => []TypeOK
<1>1. Init => TypeOK
  <2> SUFFICES ASSUME Init PROVE TypeOK
    OBVIOUS
  <2>1. buf \in [0 .. (BufCap - 1) -> Fds \cup {NoFd}]
    BY DEF Init
  <2> QED BY <2>1 DEF Init, TypeOK, WorkerStates, CallerStates
<1>2. TypeOK /\ [Next]_vars => TypeOK'
  <2> SUFFICES ASSUME TypeOK, [Next]_vars PROVE TypeOK'
    OBVIOUS
  <2> USE DEF TypeOK, WorkerStates, CallerStates
  <2>1. CASE WorkerWait
    BY <2>1 DEF WorkerWait, ring
  <2>2. CASE WorkerStartFetch
    BY <2>2 DEF WorkerStartFetch, ring
  <2>3. ASSUME NEW new \in Fds, WorkerFetchOk(new) PROVE TypeOK'
    BY <2>3 DEF WorkerFetchOk, ring
  <2>4. CASE WorkerFetchFail
    BY <2>4 DEF WorkerFetchFail, ring
  <2>5. CASE WorkerRetry
    BY <2>5 DEF WorkerRetry, ring
  <2>6. CASE WorkerDiscard
    BY <2>6 DEF WorkerDiscard, CloseFetched, ring
  <2>7. HeadAfterEviction \in Nat
    BY CapPositive DEF HeadAfterEviction
  <2>8. BufAfterEviction \in [0 .. (BufCap - 1) -> Fds \cup {NoFd}]
    BY DEF BufAfterEviction
  <2>9. CASE WorkerPlace
    <3>1. buf' \in [0 .. (BufCap - 1) -> Fds \cup {NoFd}]
      BY <2>8, <2>9 DEF WorkerPlace
    <3> QED BY <2>7, <2>9, <3>1 DEF WorkerPlace, WakeCaller
  <2>10. CASE WorkerDrop
    BY <2>7, <2>8, <2>10 DEF WorkerDrop
  <2>11. ASSUME Flush
         PROVE  /\ buf' \in [0 .. (BufCap - 1) -> Fds \cup {NoFd}]
                /\ open' \subseteq Fds /\ head' \in Nat /\ tail' \in Nat
                /\ cursor' = -1 /\ shown' = -1
    BY <2>11 DEF Flush
  <2>12. CASE WorkerExit
    BY <2>11, <2>12 DEF WorkerExit
  <2>13. CASE WorkerSpuriousWakeup
    BY <2>13 DEF WorkerSpuriousWakeup, ring
  <2>14. CASE Invalidate
    BY <2>11, <2>14 DEF Invalidate, WakeWorker
  <2>15. ASSUME NEW ok \in BOOLEAN, PopTake(ok) PROVE TypeOK'
    <3>1. buf[Slot(cursor + 1)] \in Fds \cup {NoFd}
      BY SlotRange
    <3> QED BY <2>15, <3>1 DEF PopTake, WakeWorker
  <2>16. CASE PopWait
    BY <2>16 DEF PopWait, ring
  <2>17. CASE PopTimeout
    BY <2>17 DEF PopTimeout, ring
  <2>18. CASE CallerSpuriousWakeup
    BY <2>18 DEF CallerSpuriousWakeup, ring
  <2>19. ASSUME NEW ok \in BOOLEAN, PopPrev(ok) PROVE TypeOK'
    <3>1. buf[Slot(cursor - 1)] \in Fds \cup {NoFd}
      BY SlotRange
    <3> QED BY <2>19, <3>1 DEF PopPrev
  <2>20. CASE PopPrevRefused
    BY <2>20 DEF PopPrevRefused, ring
  <2>21. CASE FreeStart
    BY <2>21 DEF FreeStart, WakeWorker, ring
  <2>22. CASE FreeJoined
    BY <2>22 DEF FreeJoined, ring
  <2>23. CASE UNCHANGED vars
    BY <2>23 DEF vars
  <2> HIDE DEF TypeOK, WorkerStates, CallerStates
  <2> QED
    BY <2>1, <2>2, <2>3, <2>4, <2>5, <2>6, <2>9, <2>10, <2>12, <2>13, <2>14, <2>15,
       <2>16, <2>17, <2>18, <2>19, <2>20, <2>21, <2>22, <2>23
       DEF Next, Worker, Caller, Spurious, Terminated
<1> QED BY <1>1, <1>2, PTL DEF Spec

-----------------------------------------------------------------------------
(***************************************************************************)
(* The positions of the ring.  RingShape, HistoryRetained and              *)
(* LookaheadBounded are not inductive: placing a photo keeps them only     *)
(* because of what the worker saw when it began the fetch, before it let   *)
(* go of the mutex.  FetchJustified says what is left of that: the cursor  *)
(* may have moved back since, but the newest photo shown has not.          *)
(***************************************************************************)
FetchJustified ==
  /\ gen <= generation
  /\ worker \in {"fetching", "fetched"} /\ gen = generation
       => tail <= shown + PrefetchDepth

Positions == RingShape /\ HistoryRetained /\ LookaheadBounded /\ FetchJustified

\* Eviction takes at most the oldest photo, and never the current one.
LEMMA EvictsOldest ==
  ASSUME TypeOK, RingShape
  PROVE  /\ HeadAfterEviction \in Nat
         /\ \/ HeadAfterEviction = head
            \/ /\ HeadAfterEviction = head + 1
               /\ tail - head = BufCap /\ head < cursor
         /\ Full => HeadAfterEviction = head
  BY CapPositive DEF TypeOK, RingShape, HeadAfterEviction, Full

\* The last test of should_fetch_locked (cache.c:120) always succeeds: a ring
\* that is full and short of prefetched photos has history to evict.
THEOREM RoomWhenShort ==
  ASSUME TypeOK, RingShape, tail - cursor - 1 < PrefetchDepth, tail - head >= BufCap
  PROVE  head < cursor
  BY CapPositive DEF TypeOK, RingShape

LEMMA PositionsStep == TypeOK /\ Positions /\ [Next]_vars => Positions'
<1> SUFFICES ASSUME TypeOK, Positions, [Next]_vars PROVE Positions'
  OBVIOUS
<1> USE CapPositive DEF TypeOK, Positions, RingShape, HistoryRetained,
        LookaheadBounded, FetchJustified
<1>1. CASE WorkerWait
  BY <1>1 DEF WorkerWait, ring
<1>2. CASE WorkerStartFetch
  BY <1>2 DEF WorkerStartFetch, ShouldFetch, ring
<1>3. ASSUME NEW new \in Fds, WorkerFetchOk(new) PROVE Positions'
  BY <1>3 DEF WorkerFetchOk, ring
<1>4. CASE WorkerFetchFail
  BY <1>4 DEF WorkerFetchFail, ring
<1>5. CASE WorkerRetry
  BY <1>5 DEF WorkerRetry, ring
<1>6. CASE WorkerDiscard
  BY <1>6 DEF WorkerDiscard, CloseFetched, ring
<1>7. CASE WorkerPlace
  <2>1. /\ head' = HeadAfterEviction /\ tail' = tail + 1 /\ worker' = "check"
        /\ UNCHANGED <<cursor, generation, gen, shown>>
    BY <1>7 DEF WorkerPlace
  <2>2. /\ worker = "fetched" /\ gen = generation /\ ~Full
    BY <1>7 DEF WorkerPlace, Stale
  <2>3. tail - HeadAfterEviction < BufCap
    BY <2>2, EvictsOldest DEF Full
  <2> QED BY <2>1, <2>2, <2>3, EvictsOldest
<1>8. CASE WorkerDrop
  BY <1>8, EvictsOldest DEF WorkerDrop
<1>9. CASE WorkerExit
  BY <1>9 DEF WorkerExit, Flush
<1>10. CASE WorkerSpuriousWakeup
  BY <1>10 DEF WorkerSpuriousWakeup, ring
<1>11. CASE Invalidate
  BY <1>11 DEF Invalidate, Flush, WakeWorker
<1>12. ASSUME NEW ok \in BOOLEAN, PopTake(ok) PROVE Positions'
  BY <1>12 DEF PopTake, WakeWorker
<1>13. CASE PopWait
  BY <1>13 DEF PopWait, ring
<1>14. CASE PopTimeout
  BY <1>14 DEF PopTimeout, ring
<1>15. CASE CallerSpuriousWakeup
  BY <1>15 DEF CallerSpuriousWakeup, ring
<1>16. ASSUME NEW ok \in BOOLEAN, PopPrev(ok) PROVE Positions'
  <2>1. /\ cursor > head /\ cursor' = cursor - 1
        /\ UNCHANGED <<head, tail, generation, worker, gen, shown>>
    BY <1>16 DEF PopPrev
  <2> QED BY <2>1
<1>17. CASE PopPrevRefused
  BY <1>17 DEF PopPrevRefused, ring
<1>18. CASE FreeStart
  BY <1>18 DEF FreeStart, WakeWorker, ring
<1>19. CASE FreeJoined
  BY <1>19 DEF FreeJoined, ring
<1>20. CASE UNCHANGED vars
  BY <1>20 DEF vars
<1> HIDE DEF TypeOK, Positions, RingShape, HistoryRetained, LookaheadBounded,
        FetchJustified
<1> QED
  BY <1>1, <1>2, <1>3, <1>4, <1>5, <1>6, <1>7, <1>8, <1>9, <1>10, <1>11, <1>12,
     <1>13, <1>14, <1>15, <1>16, <1>17, <1>18, <1>19, <1>20
     DEF Next, Worker, Caller, Spurious, Terminated

LEMMA PositionsInvariant == Spec => []Positions
<1>1. Init => Positions
  BY CapPositive DEF Init, Positions, RingShape, HistoryRetained, LookaheadBounded,
                     FetchJustified
<1> QED BY <1>1, TypeCorrect, PositionsStep, PTL DEF Spec

\* The history, the current photo and the prefetched photos always fit the ring.
THEOREM RingShapeHolds == Spec => []RingShape
<1>1. Positions => RingShape
  BY DEF Positions
<1> QED BY <1>1, PositionsInvariant, PTL

\* The photos that prev may go back to survive any overlap of fetch and steps.
THEOREM HistoryRetainedHolds == Spec => []HistoryRetained
<1>1. Positions => HistoryRetained
  BY DEF Positions
<1> QED BY <1>1, PositionsInvariant, PTL

\* The worker's lookahead past the newest photo shown is bounded.
THEOREM LookaheadBoundedHolds == Spec => []LookaheadBounded
<1>1. Positions => LookaheadBounded
  BY DEF Positions
<1> QED BY <1>1, PositionsInvariant, PTL

\* So neither the eviction nor the look-ahead ever overruns the ring.
THEOREM RingInBoundsHolds == Spec => []RingInBounds
<1>1. RingShape /\ LookaheadBounded => RingInBounds
  BY DEF RingInBounds
<1> QED BY <1>1, RingShapeHolds, LookaheadBoundedHolds, PTL

-----------------------------------------------------------------------------
\* No broadcast is missing: pop_prev may do without one because a step back
\* never gives a resting worker something to fetch (RoomWhenShort).
LEMMA WakeupStep == TypeOK /\ RingShape /\ NoLostWakeup /\ [Next]_vars => NoLostWakeup'
<1> SUFFICES ASSUME TypeOK, RingShape, NoLostWakeup, [Next]_vars PROVE NoLostWakeup'
  OBVIOUS
<1> USE CapPositive DEF TypeOK, NoLostWakeup, ShouldFetch, WorkerStates, CallerStates
<1>1. CASE WorkerWait
  BY <1>1 DEF WorkerWait, ring
<1>2. CASE WorkerStartFetch
  BY <1>2 DEF WorkerStartFetch, ring
<1>3. ASSUME NEW new \in Fds, WorkerFetchOk(new) PROVE NoLostWakeup'
  BY <1>3 DEF WorkerFetchOk, ring
<1>4. CASE WorkerFetchFail
  BY <1>4 DEF WorkerFetchFail, ring
<1>5. CASE WorkerRetry
  BY <1>5 DEF WorkerRetry, ring
<1>6. CASE WorkerDiscard
  BY <1>6 DEF WorkerDiscard, CloseFetched, ring
<1>7. CASE WorkerPlace
  BY <1>7 DEF WorkerPlace, WakeCaller
<1>8. CASE WorkerDrop
  BY <1>8 DEF WorkerDrop
<1>9. CASE WorkerExit
  BY <1>9 DEF WorkerExit, Flush
<1>10. CASE WorkerSpuriousWakeup
  BY <1>10 DEF WorkerSpuriousWakeup, ring
<1>11. CASE Invalidate
  BY <1>11 DEF Invalidate, WakeWorker
<1>12. ASSUME NEW ok \in BOOLEAN, PopTake(ok) PROVE NoLostWakeup'
  BY <1>12 DEF PopTake, WakeWorker
<1>13. CASE PopWait
  BY <1>13 DEF PopWait, ring
<1>14. CASE PopTimeout
  BY <1>14 DEF PopTimeout, ring
<1>15. CASE CallerSpuriousWakeup
  BY <1>15 DEF CallerSpuriousWakeup, ring
<1>16. ASSUME NEW ok \in BOOLEAN, PopPrev(ok) PROVE NoLostWakeup'
  <2>1. /\ cursor' = cursor - 1 /\ caller = "idle"
        /\ UNCHANGED <<head, tail, shutdown, worker, caller>>
    BY <1>16 DEF PopPrev
  <2>2. ~ShouldFetch => tail - cursor - 1 >= PrefetchDepth
    BY RoomWhenShort
  <2> QED BY <2>1, <2>2
<1>17. CASE PopPrevRefused
  BY <1>17 DEF PopPrevRefused, ring
<1>18. CASE FreeStart
  BY <1>18 DEF FreeStart, WakeWorker, ring
<1>19. CASE FreeJoined
  BY <1>19 DEF FreeJoined, ring
<1>20. CASE UNCHANGED vars
  BY <1>20 DEF vars
<1> HIDE DEF TypeOK, NoLostWakeup, ShouldFetch, WorkerStates, CallerStates
<1> QED
  BY <1>1, <1>2, <1>3, <1>4, <1>5, <1>6, <1>7, <1>8, <1>9, <1>10, <1>11, <1>12,
     <1>13, <1>14, <1>15, <1>16, <1>17, <1>18, <1>19, <1>20
     DEF Next, Worker, Caller, Spurious, Terminated

\* Neither thread sleeps while there is something for it to do.
THEOREM NoLostWakeupHolds == Spec => []NoLostWakeup
<1>1. Init => NoLostWakeup
  BY DEF Init, NoLostWakeup
<1> QED BY <1>1, TypeCorrect, RingShapeHolds, WakeupStep, PTL DEF Spec

-----------------------------------------------------------------------------
(***************************************************************************)
(* The descriptors.  The arithmetic of the ring is used once, here: two    *)
(* positions less than BufCap apart never share a slot.                    *)
(***************************************************************************)
LEMMA HeldApart ==
  ASSUME TypeOK, RingShape, NEW p \in Held, NEW q \in Held, p # q
  PROVE  Slot(p) # Slot(q)
<1>1. p \in Int /\ q \in Int /\ p - q < BufCap /\ q - p < BufCap /\ (p < q \/ q < p)
  BY CapPositive DEF TypeOK, RingShape, Held
<1> QED BY <1>1, SlotInjective

LEMMA TailFree ==
  ASSUME TypeOK, RingShape, tail - head < BufCap, NEW p \in Held
  PROVE  Slot(p) # Slot(tail)
<1>1. p \in Int /\ tail \in Int /\ p < tail /\ tail - p < BufCap
  BY CapPositive DEF TypeOK, Held
<1> QED BY <1>1, SlotInjective

\* A step that touches neither the ring's contents nor the worker's hand.
LEMMA FdsUntouched ==
  ASSUME FdsAccounted, UNCHANGED <<buf, head, tail, open, fd>>,
         (worker' = "fetched") <=> (worker = "fetched")
  PROVE  FdsAccounted'
  BY DEF FdsAccounted, Held, HeldFds

LEMMA FdsFlushed ==
  ASSUME TypeOK, FdsAccounted, Flush, fd' = fd,
         (worker' = "fetched") <=> (worker = "fetched")
  PROVE  FdsAccounted'
<1>1. \A s \in 0 .. (BufCap - 1) : buf'[s] = NoFd
  BY DEF Flush, FdsAccounted
<1>2. Held' = {}
  BY DEF Flush, Held
<1>3. HeldFds' = {}
  BY <1>2 DEF HeldFds
<1>4. open' = {fd} \ {NoFd}
  BY DEF Flush, FdsAccounted
<1> QED BY <1>1, <1>2, <1>3, <1>4 DEF FdsAccounted

\* The positions eviction keeps, and what their slots hold.
Kept == HeadAfterEviction .. (tail - 1)

LEMMA EvictionSplits ==
  ASSUME TypeOK, RingShape
  PROVE  /\ Held = Evicted \cup Kept
         /\ Evicted \cap Kept = {}
         /\ Kept \subseteq Int
BY EvictsOldest, CapPositive DEF Held, Evicted, Kept, TypeOK, RingShape

LEMMA EvictionFrees ==
  ASSUME TypeOK, RingShape, FdsAccounted
  PROVE  /\ \A s \in 0 .. (BufCap - 1) :
              /\ BufAfterEviction[s] \in {buf[s], NoFd}
              /\ BufAfterEviction[s] # NoFd <=> \E p \in Kept : Slot(p) = s
         /\ \A p \in Kept : BufAfterEviction[Slot(p)] = buf[Slot(p)]
         /\ HeldFds \ EvictedFds = {buf[Slot(p)] : p \in Kept}
<1>1. ASSUME NEW p \in Kept, NEW q \in Evicted PROVE Slot(p) # Slot(q)
  BY EvictionSplits, HeldApart
<1>2. ASSUME NEW p \in Held PROVE Slot(p) \in 0 .. (BufCap - 1) /\ buf[Slot(p)] # NoFd
  <2>1. p \in Int
    BY DEF Held, TypeOK
  <2>2. Slot(p) \in 0 .. (BufCap - 1)
    BY <2>1, SlotRange
  <2> QED BY <2>2 DEF FdsAccounted
<1>3. \A s \in 0 .. (BufCap - 1) :
        BufAfterEviction[s] = IF \E p \in Evicted : Slot(p) = s THEN NoFd ELSE buf[s]
  BY DEF BufAfterEviction
<1>4. ASSUME NEW s \in 0 .. (BufCap - 1)
      PROVE  BufAfterEviction[s] # NoFd <=> \E p \in Kept : Slot(p) = s
  <2>1. buf[s] # NoFd <=> \E p \in Held : Slot(p) = s
    BY DEF FdsAccounted
  <2>2. buf[s] # NoFd <=> (\E p \in Evicted : Slot(p) = s) \/ (\E p \in Kept : Slot(p) = s)
    BY <2>1, EvictionSplits
  <2> QED BY <1>1, <1>3, <2>2
<1>5. \A p \in Kept : BufAfterEviction[Slot(p)] = buf[Slot(p)]
  BY <1>1, <1>2, <1>3, EvictionSplits
<1>6. ASSUME NEW p \in Kept, NEW q \in Evicted PROVE buf[Slot(p)] # buf[Slot(q)]
  <2>1. p \in Held /\ q \in Held
    BY EvictionSplits
  <2> QED BY <1>1, <1>2, <2>1 DEF FdsAccounted
<1>7. HeldFds = EvictedFds \cup {buf[Slot(p)] : p \in Kept}
  BY EvictionSplits DEF HeldFds, EvictedFds
<1>8. HeldFds \ EvictedFds = {buf[Slot(p)] : p \in Kept}
  BY <1>6, <1>7 DEF EvictedFds
<1> QED BY <1>3, <1>4, <1>5, <1>8

\* After a photo is placed the ring holds what eviction kept, and the photo.
LEMMA PlacedContents ==
  ASSUME TypeOK, RingShape, FdsAccounted, WorkerPlace
  PROVE  /\ Held' = Kept \cup {tail} /\ tail \notin Kept
         /\ \A p \in Kept : Slot(p) # Slot(tail)
         /\ buf'[Slot(tail)] = fd
         /\ \A s \in 0 .. (BufCap - 1) : s # Slot(tail) => buf'[s] = BufAfterEviction[s]
         /\ \A p \in Kept : buf'[Slot(p)] = buf[Slot(p)]
<1>1. /\ head' = HeadAfterEviction /\ tail' = tail + 1
      /\ buf' = [BufAfterEviction EXCEPT ![Slot(tail)] = fd]
  BY DEF WorkerPlace
<1>2. Held' = Kept \cup {tail} /\ tail \notin Kept
  BY <1>1, EvictsOldest DEF Held, Kept, TypeOK, RingShape
<1>3. Slot(tail) \in 0 .. (BufCap - 1) /\ DOMAIN BufAfterEviction = 0 .. (BufCap - 1)
  BY SlotRange DEF TypeOK, BufAfterEviction
<1>4. ASSUME NEW p \in Kept
      PROVE  Slot(p) # Slot(tail) /\ Slot(p) \in 0 .. (BufCap - 1)
  <2>1. tail - HeadAfterEviction < BufCap
    BY EvictsOldest, CapPositive DEF WorkerPlace, Full, TypeOK
  <2>2. p \in Int /\ tail \in Int /\ p < tail /\ tail - p < BufCap
    BY <2>1, EvictsOldest, CapPositive DEF Kept, TypeOK
  <2> QED BY <2>2, SlotInjective, SlotRange
<1>5. /\ buf'[Slot(tail)] = fd
      /\ \A s \in 0 .. (BufCap - 1) : s # Slot(tail) => buf'[s] = BufAfterEviction[s]
  BY <1>1, <1>3
<1>6. ASSUME NEW p \in Kept PROVE buf'[Slot(p)] = buf[Slot(p)]
  BY <1>4, <1>5, EvictionFrees
<1> QED BY <1>2, <1>4, <1>5, <1>6

LEMMA FdsPlaced ==
  ASSUME TypeOK, RingShape, FdsAccounted, WorkerPlace PROVE FdsAccounted'
<1>1. /\ fd \in Fds /\ fd # NoFd /\ fd \notin HeldFds
      /\ fd' = NoFd /\ worker' = "check"
      /\ open' = open \ EvictedFds
  BY CacheAssumption DEF WorkerPlace, FdsAccounted, TypeOK
<1>2. ASSUME NEW s \in 0 .. (BufCap - 1)
      PROVE  buf'[s] # NoFd <=> \E p \in Held' : Slot(p)' = s
  <2>1. \A p \in Int : Slot(p)' = Slot(p)
    BY DEF Slot, BufCap
  <2>2. Held' \subseteq Int
    BY PlacedContents, EvictionSplits DEF TypeOK
  <2> QED BY <1>1, <2>1, <2>2, PlacedContents, EvictionFrees
<1>3. ASSUME NEW s \in 0 .. (BufCap - 1), NEW t \in 0 .. (BufCap - 1),
             s # t, buf'[s] # NoFd
      PROVE  buf'[s] # buf'[t]
  <2>1. \A u \in 0 .. (BufCap - 1) : buf[u] # NoFd => buf[u] \in HeldFds
    BY DEF FdsAccounted, HeldFds
  <2>2. \A u \in 0 .. (BufCap - 1) : buf[u] # fd
    BY <1>1, <2>1
  <2>3. \A u, v \in 0 .. (BufCap - 1) : u # v /\ buf[u] # NoFd => buf[u] # buf[v]
    BY DEF FdsAccounted
  <2>4. CASE s = Slot(tail)
    BY <1>1, <1>3, <2>2, <2>4, PlacedContents, EvictionFrees
  <2>5. CASE s # Slot(tail)
    BY <1>1, <1>3, <2>2, <2>3, <2>5, PlacedContents, EvictionFrees
  <2> QED BY <2>4, <2>5
<1>4. HeldFds' = (HeldFds \ EvictedFds) \cup {fd}
  <2>1. HeldFds' = {buf'[Slot(p)] : p \in Kept \cup {tail}}
    BY PlacedContents DEF HeldFds, Slot, BufCap
  <2> QED BY <2>1, PlacedContents, EvictionFrees
<1>5. open' = HeldFds' \cup ({fd'} \ {NoFd})
  <2>1. open = HeldFds \cup {fd}
    BY <1>1 DEF FdsAccounted
  <2>2. EvictedFds \subseteq HeldFds
    BY EvictionSplits DEF EvictedFds, HeldFds
  <2> QED BY <1>1, <1>4, <2>1, <2>2
<1> QED BY <1>1, <1>2, <1>3, <1>5 DEF FdsAccounted, PrefetchDepth, BufCap

LEMMA DropKeepsRing ==
  ASSUME TypeOK, RingShape, Full
  PROVE  HeadAfterEviction = head /\ BufAfterEviction = buf /\ EvictedFds = {}
<1>1. HeadAfterEviction = head /\ Evicted = {}
  BY EvictsOldest DEF Evicted, TypeOK
<1>2. BufAfterEviction = [s \in 0 .. (BufCap - 1) |-> buf[s]]
  BY <1>1 DEF BufAfterEviction
<1>3. BufAfterEviction = buf
  BY <1>2 DEF TypeOK
<1> QED BY <1>1, <1>3 DEF EvictedFds

LEMMA FdsReleased ==
  ASSUME FdsAccounted, worker = "fetched", UNCHANGED <<buf, head, tail>>,
         open' = open \ {fd}, fd' = NoFd, worker' = "check"
  PROVE  FdsAccounted'
<1>1. HeldFds' = HeldFds /\ Held' = Held
  BY DEF HeldFds, Held
<1>2. open' = HeldFds
  BY DEF FdsAccounted
<1> QED BY <1>1, <1>2 DEF FdsAccounted

LEMMA FdsStep == TypeOK /\ RingShape /\ FdsAccounted /\ [Next]_vars => FdsAccounted'
<1> SUFFICES ASSUME TypeOK, RingShape, FdsAccounted, [Next]_vars PROVE FdsAccounted'
  OBVIOUS
<1>1. CASE WorkerWait
  BY <1>1, FdsUntouched DEF WorkerWait, ring
<1>2. CASE WorkerStartFetch
  BY <1>2, FdsUntouched DEF WorkerStartFetch, ring
<1>3. ASSUME NEW new \in Fds, WorkerFetchOk(new) PROVE FdsAccounted'
  <2>1. HeldFds' = HeldFds /\ Held' = Held /\ buf' = buf
    BY <1>3 DEF WorkerFetchOk, ring, HeldFds, Held
  <2>2. fd = NoFd /\ open = HeldFds
    BY <1>3 DEF WorkerFetchOk, FdsAccounted
  <2>3. new # NoFd /\ fd' = new /\ new \notin HeldFds /\ open' = open \cup {new}
        /\ worker' = "fetched"
    BY <1>3, <2>2, CacheAssumption DEF WorkerFetchOk
  <2> QED BY <2>1, <2>2, <2>3 DEF FdsAccounted
<1>4. CASE WorkerFetchFail
  BY <1>4, FdsUntouched DEF WorkerFetchFail, ring
<1>5. CASE WorkerRetry
  BY <1>5, FdsUntouched DEF WorkerRetry, ring
<1>6. CASE WorkerDiscard
  BY <1>6, FdsReleased DEF WorkerDiscard, CloseFetched, ring
<1>7. CASE WorkerPlace
  BY <1>7, FdsPlaced
<1>8. CASE WorkerDrop
  <2>1. UNCHANGED <<buf, head, tail>> /\ open' = open \ {fd}
    BY <1>8, DropKeepsRing DEF WorkerDrop
  <2> QED BY <1>8, <2>1, FdsReleased DEF WorkerDrop
<1>9. CASE WorkerExit
  BY <1>9, FdsFlushed DEF WorkerExit
<1>10. CASE WorkerSpuriousWakeup
  BY <1>10, FdsUntouched DEF WorkerSpuriousWakeup, ring
<1>11. CASE Invalidate
  BY <1>11, FdsFlushed DEF Invalidate, WakeWorker
<1>12. ASSUME NEW ok \in BOOLEAN, PopTake(ok) PROVE FdsAccounted'
  BY <1>12, FdsUntouched DEF PopTake, WakeWorker
<1>13. CASE PopWait
  BY <1>13, FdsUntouched DEF PopWait, ring
<1>14. CASE PopTimeout
  BY <1>14, FdsUntouched DEF PopTimeout, ring
<1>15. CASE CallerSpuriousWakeup
  BY <1>15, FdsUntouched DEF CallerSpuriousWakeup, ring
<1>16. ASSUME NEW ok \in BOOLEAN, PopPrev(ok) PROVE FdsAccounted'
  BY <1>16, FdsUntouched DEF PopPrev
<1>17. CASE PopPrevRefused
  BY <1>17, FdsUntouched DEF PopPrevRefused, ring
<1>18. CASE FreeStart
  BY <1>18, FdsUntouched DEF FreeStart, WakeWorker, ring
<1>19. CASE FreeJoined
  BY <1>19, FdsUntouched DEF FreeJoined, ring
<1>20. CASE UNCHANGED vars
  BY <1>20, FdsUntouched DEF vars
<1> QED
  BY <1>1, <1>2, <1>3, <1>4, <1>5, <1>6, <1>7, <1>8, <1>9, <1>10, <1>11, <1>12,
     <1>13, <1>14, <1>15, <1>16, <1>17, <1>18, <1>19, <1>20
     DEF Next, Worker, Caller, Spurious, Terminated

\* No memfd is leaked, closed twice or handed out closed.
THEOREM FdsAccountedHolds == Spec => []FdsAccounted
<1>1. Init => FdsAccounted
  BY DEF Init, FdsAccounted, Held, HeldFds
<1> QED BY <1>1, TypeCorrect, RingShapeHolds, FdsStep, PTL DEF Spec

-----------------------------------------------------------------------------
(***************************************************************************)
(* The refinement.  Under the mapping of PhotoCache a step of the ring is  *)
(* a step of the tape, or changes nothing the consumer can see.            *)
(***************************************************************************)
TapeMap == [p \in Held |-> buf[Slot(p)]]

LEMMA TapeUntouched ==
  ASSUME UNCHANGED <<buf, head, tail>> PROVE TapeMap' = TapeMap
  BY DEF TapeMap, Held, Slot, BufCap, PrefetchDepth

LEMMA TapeErased == ASSUME Flush PROVE TapeMap' = Tape!EmptyTape
<1>1. Held' = {}
  BY DEF Flush, Held
<1> QED BY <1>1 DEF TapeMap, Tape!EmptyTape

\* The photo placed is recorded at the end; what was evicted was the oldest
\* position, and it was behind the cursor.
LEMMA PlaceRecords ==
  ASSUME TypeOK, RingShape, FdsAccounted, WorkerPlace PROVE Tape!Record(fd)
<1>1. TapeMap' = [p \in Kept \cup {tail} |-> IF p = tail THEN fd ELSE buf[Slot(p)]]
  BY PlacedContents DEF TapeMap, Slot, BufCap, PrefetchDepth
<1>2. Kept = DOMAIN TapeMap \ Evicted /\ Evicted \subseteq DOMAIN TapeMap
  BY EvictionSplits DEF TapeMap
<1>3. TapeMap' = [p \in (DOMAIN TapeMap \ Evicted) \cup {tail} |->
                    IF p = tail THEN fd ELSE TapeMap[p]]
  BY <1>1, <1>2 DEF TapeMap
<1>4. Evicted \in SUBSET {p \in DOMAIN TapeMap : p < cursor /\ p - 1 \notin DOMAIN TapeMap}
  BY <1>2, EvictsOldest DEF Evicted, TapeMap, Held, TypeOK, RingShape
<1> QED BY <1>3, <1>4 DEF WorkerPlace, Tape!Record, TapeMap

LEMMA TapeStutters ==
  ASSUME UNCHANGED <<buf, head, cursor, tail, reply>> PROVE UNCHANGED Tape!vars
  BY TapeUntouched DEF Tape!vars, TapeMap

LEMMA TapeMoves ==
  ASSUME NEW p \in Held, NEW ok \in BOOLEAN, UNCHANGED <<buf, head, tail>>,
         cursor' = p, reply' = IF ok THEN buf[Slot(p)] ELSE NoFd
  PROVE  Tape!MoveTo(p)
<1>1. DOMAIN TapeMap = Held /\ TapeMap[p] = buf[Slot(p)]
  BY DEF TapeMap
<1>2. reply' \in {buf[Slot(p)], NoFd}
  OBVIOUS
<1> QED BY <1>1, <1>2, TapeUntouched DEF Tape!MoveTo, TapeMap

LEMMA TapeStep ==
  ASSUME TypeOK, RingShape, FdsAccounted, [Next]_vars PROVE [Tape!Next]_(Tape!vars)
<1> USE DEF Tape!Next
<1>1. CASE WorkerWait
  BY <1>1, TapeStutters DEF WorkerWait, ring
<1>2. CASE WorkerStartFetch
  BY <1>2, TapeStutters DEF WorkerStartFetch, ring
<1>3. ASSUME NEW new \in Fds, WorkerFetchOk(new) PROVE UNCHANGED Tape!vars
  BY <1>3, TapeStutters DEF WorkerFetchOk, ring
<1>4. CASE WorkerFetchFail
  BY <1>4, TapeStutters DEF WorkerFetchFail, ring
<1>5. CASE WorkerRetry
  BY <1>5, TapeStutters DEF WorkerRetry, ring
<1>6. CASE WorkerDiscard
  BY <1>6, TapeStutters DEF WorkerDiscard, ring
<1>7. CASE WorkerPlace
  <2>1. fd \in Fds
    BY <1>7 DEF WorkerPlace, FdsAccounted, TypeOK
  <2> QED BY <1>7, <2>1, PlaceRecords
<1>8. CASE WorkerDrop
  BY <1>8, DropKeepsRing, TapeStutters DEF WorkerDrop
<1>9. CASE WorkerExit
  BY <1>9, TapeErased DEF WorkerExit, Flush, Tape!Erase, TapeMap
<1>10. CASE WorkerSpuriousWakeup
  BY <1>10, TapeStutters DEF WorkerSpuriousWakeup, ring
<1>11. CASE Invalidate
  BY <1>11, TapeErased DEF Invalidate, Flush, Tape!Erase, TapeMap
<1>12. ASSUME NEW ok \in BOOLEAN, PopTake(ok) PROVE Tape!MoveTo(cursor + 1)
  <2>1. cursor + 1 \in Held
    BY <1>12 DEF PopTake, Held, TypeOK, RingShape
  <2> QED BY <1>12, <2>1, TapeMoves DEF PopTake
<1>13. CASE PopWait
  BY <1>13, TapeStutters DEF PopWait, ring
<1>14. CASE PopTimeout
  BY <1>14, TapeUntouched DEF PopTimeout, ring, Tape!Refuse, TapeMap
<1>15. CASE CallerSpuriousWakeup
  BY <1>15, TapeStutters DEF CallerSpuriousWakeup, ring
<1>16. ASSUME NEW ok \in BOOLEAN, PopPrev(ok) PROVE Tape!MoveTo(cursor - 1)
  <2>1. cursor - 1 \in Held
    BY <1>16 DEF PopPrev, Held, TypeOK, RingShape
  <2> QED BY <1>16, <2>1, TapeMoves DEF PopPrev
<1>17. CASE PopPrevRefused
  BY <1>17, TapeUntouched DEF PopPrevRefused, ring, Tape!Refuse, TapeMap
<1>18. CASE FreeStart
  BY <1>18, TapeStutters DEF FreeStart, ring
<1>19. CASE FreeJoined
  BY <1>19, TapeStutters DEF FreeJoined, ring
<1>20. CASE UNCHANGED vars
  BY <1>20, TapeStutters DEF vars
<1> QED
  BY <1>1, <1>2, <1>3, <1>4, <1>5, <1>6, <1>7, <1>8, <1>9, <1>10, <1>11, <1>12,
     <1>13, <1>14, <1>15, <1>16, <1>17, <1>18, <1>19, <1>20
     DEF Next, Worker, Caller, Spurious, Terminated

\* The ring, its two threads and their condition variable implement the tape:
\* in order, no photo skipped or repeated, prev and next symmetric.
THEOREM TapeImplemented == Spec => ImplementsTape
<1>1. Init => Tape!Init
  BY DEF Init, Held, Tape!Init, Tape!EmptyTape
<1>2. TypeOK /\ RingShape /\ FdsAccounted /\ [Next]_vars => [Tape!Next]_(Tape!vars)
  BY TapeStep
<1> QED
  BY <1>1, <1>2, TypeCorrect, RingShapeHolds, FdsAccountedHolds, PTL
     DEF Spec, ImplementsTape, Tape!Spec

-----------------------------------------------------------------------------
\* The shutdown.  How many steps the worker is at most from its end.
ToExit == [done |-> 0, check |-> 1, fetched |-> 2, sleeping |-> 2, fetching |-> 3,
           waiting |-> 4]

\* Once it has begun, each step of the worker brings it nearer to its end, and
\* nothing else touches it: no wait and no further fetch begins.
ShutdownAdvances ==
  [][shutdown => shutdown' /\ \/ UNCHANGED worker
                              \/ Worker /\ ToExit[worker'] < ToExit[worker]]_vars

\* From then on nobody calls, and the worker leaves the ring empty.
Ended ==
  /\ shutdown => caller \in {"joining", "freed"}
  /\ caller = "freed" => worker = "done"
  /\ worker = "done" => shutdown /\ head = 0 /\ tail = 0

LEMMA EndedStep == Ended /\ [Next]_vars => Ended'
<1> SUFFICES ASSUME Ended, [Next]_vars PROVE Ended'
  OBVIOUS
<1> USE DEF Ended, ring
<1>1. CASE WorkerWait \/ WorkerStartFetch \/ (\E new \in Fds : WorkerFetchOk(new))
           \/ WorkerFetchFail \/ WorkerRetry \/ WorkerSpuriousWakeup
  BY <1>1 DEF WorkerWait, WorkerStartFetch, WorkerFetchOk, WorkerFetchFail,
     WorkerRetry, WorkerSpuriousWakeup
<1>2. CASE WorkerDiscard
  BY <1>2 DEF WorkerDiscard, CloseFetched
<1>3. CASE WorkerPlace
  BY <1>3 DEF WorkerPlace, Stale, WakeCaller
<1>4. CASE WorkerDrop
  BY <1>4 DEF WorkerDrop
<1>5. CASE WorkerExit
  BY <1>5 DEF WorkerExit, Flush
<1>6. CASE Invalidate
  BY <1>6 DEF Invalidate, Flush, WakeWorker
<1>7. ASSUME NEW ok \in BOOLEAN, PopTake(ok) PROVE Ended'
  BY <1>7 DEF PopTake, InPop, WakeWorker
<1>8. CASE PopWait \/ PopTimeout \/ PopPrevRefused \/ CallerSpuriousWakeup
  BY <1>8 DEF PopWait, InPop, PopTimeout, PopPrevRefused, CallerSpuriousWakeup
<1>9. ASSUME NEW ok \in BOOLEAN, PopPrev(ok) PROVE Ended'
  BY <1>9 DEF PopPrev
<1>10. CASE FreeStart
  BY <1>10 DEF FreeStart, WakeWorker
<1>11. CASE FreeJoined
  BY <1>11 DEF FreeJoined
<1>12. CASE UNCHANGED vars
  BY <1>12 DEF vars
<1> HIDE DEF Ended
<1> QED
  BY <1>1, <1>2, <1>3, <1>4, <1>5, <1>6, <1>7, <1>8, <1>9, <1>10, <1>11, <1>12
     DEF Next, Worker, Caller, Spurious, Terminated

LEMMA EndedInvariant == Spec => []Ended
<1>1. Init => Ended
  BY DEF Init, Ended
<1> QED BY <1>1, EndedStep, PTL DEF Spec

\* pp_cache_free leaves no descriptor open, whatever the worker held or was
\* fetching when it was called (cache.c:210-223).
NothingLeft == caller = "freed" => open = {} /\ worker = "done"

THEOREM FreeLeavesNothing == Spec => []NothingLeft
<1>1. Ended /\ FdsAccounted => NothingLeft
  BY DEF Ended, FdsAccounted, NothingLeft, Held, HeldFds
<1> QED BY <1>1, EndedInvariant, FdsAccountedHolds, PTL

LEMMA WorkerNearsExit ==
  ASSUME TypeOK, shutdown, Worker
  PROVE  ToExit[worker'] < ToExit[worker] /\ shutdown'
<1> USE DEF ToExit, ring
<1>1. CASE WorkerWait \/ WorkerStartFetch
  BY <1>1 DEF WorkerWait, WorkerStartFetch
<1>2. ASSUME NEW new \in Fds, WorkerFetchOk(new)
      PROVE  ToExit[worker'] < ToExit[worker] /\ shutdown'
  BY <1>2 DEF WorkerFetchOk
<1>3. CASE WorkerFetchFail
  BY <1>3 DEF WorkerFetchFail
<1>7. CASE WorkerRetry
  BY <1>7 DEF WorkerRetry
<1>4. CASE WorkerDiscard
  BY <1>4 DEF WorkerDiscard, CloseFetched
<1>5. CASE WorkerPlace \/ WorkerDrop
  BY <1>5 DEF WorkerPlace, WorkerDrop, Stale
<1>6. CASE WorkerExit
  BY <1>6 DEF WorkerExit
<1> HIDE DEF ToExit
<1> QED BY <1>1, <1>2, <1>3, <1>4, <1>5, <1>6, <1>7 DEF Worker

LEMMA CallerLeavesWorker ==
  ASSUME Ended, NoLostWakeup, shutdown, Caller \/ Spurious
  PROVE  UNCHANGED worker /\ shutdown'
<1>1. caller \in {"joining", "freed"} /\ worker # "waiting"
  BY DEF Ended, NoLostWakeup
<1>2. CASE FreeJoined
  BY <1>2 DEF FreeJoined
<1>3. CASE Invalidate \/ PopWait \/ PopTimeout \/ PopPrevRefused \/ FreeStart
           \/ (\E ok \in BOOLEAN : PopTake(ok)) \/ (\E ok \in BOOLEAN : PopPrev(ok))
  BY <1>1, <1>3 DEF Invalidate, PopWait, InPop, PopTimeout, PopPrevRefused, FreeStart,
     PopTake, PopPrev
<1>4. CASE Spurious
  BY <1>1, <1>4 DEF Spurious, WorkerSpuriousWakeup, CallerSpuriousWakeup
<1> QED BY <1>2, <1>3, <1>4 DEF Caller

\* For all depths: once pp_cache_free has set the flag the worker ends within
\* three steps, be it in a fetch or in its sleep; what ShutdownCompletes needs
\* besides a worker that is scheduled and a fetch that returns.
THEOREM ShutdownAdvancesHolds == Spec => ShutdownAdvances
<1>1. TypeOK /\ Ended /\ NoLostWakeup /\ [Next]_vars =>
        [shutdown => shutdown' /\ \/ UNCHANGED worker
                                  \/ Worker /\ ToExit[worker'] < ToExit[worker]]_vars
  <2> SUFFICES ASSUME TypeOK, Ended, NoLostWakeup, shutdown, Next
               PROVE  shutdown' /\ \/ UNCHANGED worker
                                   \/ Worker /\ ToExit[worker'] < ToExit[worker]
    OBVIOUS
  <2>1. CASE Worker
    BY <2>1, WorkerNearsExit
  <2>2. CASE Caller \/ Spurious
    BY <2>2, CallerLeavesWorker
  <2>3. CASE Terminated
    BY <2>3 DEF Terminated, vars
  <2> QED BY <2>1, <2>2, <2>3 DEF Next
<1> QED
  BY <1>1, TypeCorrect, EndedInvariant, NoLostWakeupHolds, PTL
     DEF Spec, ShutdownAdvances
=============================================================================
