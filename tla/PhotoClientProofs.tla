-------------------------- MODULE PhotoClientProofs --------------------------
(***************************************************************************)
(* Proofs about PhotoProvider and PhotoClient.                             *)
(*                                                                         *)
(* The provider only restricts when the steps of the cache are taken, so   *)
(* what PhotoCacheProofs proves of the cache holds in it; the freshness of *)
(* the ring and the rendering of what is delivered are proved from that.   *)
(* The clients only decide which calls there are to serve, so the          *)
(* provider's theorems hold among them.  The order of the photos on the    *)
(* screen follows from how far the provider's cursor can be from the photo *)
(* last shown: Drift.                                                      *)
(***************************************************************************)
EXTENDS PhotoClient, PhotoCacheProofs, SequenceTheorems

-----------------------------------------------------------------------------
\* The provider uses the cache.

LEMMA ProviderStepIsCacheStep == [ProviderNext]_providerVars => [Next]_vars
<1> SUFFICES ASSUME [ProviderNext]_providerVars PROVE Next \/ UNCHANGED vars
  OBVIOUS
<1> USE DEF Next, Worker, Caller, Spurious
<1>1. CASE Session
  <2>1. CASE InvalidateCache
    BY <2>1 DEF InvalidateCache
  <2>2. CASE ~InvalidateCache
    <3>1. UNCHANGED vars
      BY <1>1, <2>2 DEF Session, SetTargetSize, SetEmbedQr, RegisterOk, RegisterFail,
                        PushEmbedQr, PushTargetSize, InstallId
    <3> QED BY <3>1
  <2> QED BY <2>1, <2>2
<1>2. CASE Deliver
  BY <1>2 DEF Deliver, GetPhoto, GetPrevPhoto
<1>3. CASE Quit
  BY <1>3 DEF Quit
<1>4. CASE BeginFetch
  BY <1>4 DEF BeginFetch
<1>5. CASE SnapshotId
  BY <1>5 DEF SnapshotId
<1>6. ASSUME NEW new \in Fds, FetchOk(new) PROVE Next
  BY <1>6 DEF FetchOk
<1>7. CASE FetchFail
  BY <1>7 DEF FetchFail
<1>8. CASE WorkerElsewhere
  BY <1>8 DEF WorkerElsewhere
<1>9. CASE UNCHANGED providerVars
  BY <1>9 DEF providerVars
<1>10. CASE ProviderTerminated
  BY <1>10 DEF ProviderTerminated, providerVars
<1> QED
  BY <1>1, <1>2, <1>3, <1>4, <1>5, <1>6, <1>7, <1>8, <1>9, <1>10
     DEF ProviderNext, ProviderWorker

\* Everything proved of the cache on its own holds inside the provider.
THEOREM ProviderUsesCache == ProviderSpec => Spec
<1>1. ProviderInit => Init
  BY DEF ProviderInit
<1> QED BY <1>1, ProviderStepIsCacheStep, PTL DEF ProviderSpec, Spec

-----------------------------------------------------------------------------
(***************************************************************************)
(* RingFresh is not inductive: a photo placed now was asked for earlier,   *)
(* with an id read after the generation was.  FetchFresh says that a fetch *)
(* whose generation is still the current one uses the installed id.        *)
(***************************************************************************)
FetchFresh ==
  session # "invalidate" /\ gen = generation =>
    /\ worker = "fetching" /\ fetchId # NoClient => fetchId = clientId
    /\ worker = "fetched" => photoClient[fd] = clientId

Fresh == RingFresh /\ FetchFresh

\* The part of the type invariant that the argument needs.
ClientsTyped == photoClient \in [Fds -> Int]

LEMMA ClientsTypedStep ==
  ASSUME ClientsTyped, fetchId \in Int, clientId \in Int, newId \in Int,
         [ProviderNext]_providerVars
  PROVE  ClientsTyped' /\ fetchId' \in Int /\ clientId' \in Int /\ newId' \in Int
<1> USE DEF ClientsTyped, NoClient, sessionVars, photoVars
<1>1. CASE Session
  BY <1>1 DEF Session, SetTargetSize, SetEmbedQr, RegisterOk, RegisterFail,
              PushEmbedQr, PushTargetSize, InstallId, InvalidateCache
<1>2. CASE Deliver
  BY <1>2 DEF Deliver, GetPhoto, GetPrevPhoto
<1>3. CASE Quit
  BY <1>3 DEF Quit
<1>4. CASE BeginFetch
  BY <1>4 DEF BeginFetch
<1>5. CASE SnapshotId
  BY <1>5 DEF SnapshotId
<1>6. ASSUME NEW new \in Fds, FetchOk(new)
      PROVE  ClientsTyped' /\ fetchId' \in Int /\ clientId' \in Int /\ newId' \in Int
  BY <1>6 DEF FetchOk, Remembered
<1>7. CASE FetchFail
  BY <1>7 DEF FetchFail
<1>8. CASE WorkerElsewhere
  BY <1>8 DEF WorkerElsewhere
<1>9. CASE UNCHANGED providerVars
  BY <1>9 DEF providerVars
<1>10. CASE ProviderTerminated
  BY <1>10 DEF ProviderTerminated, providerVars
<1> HIDE DEF ClientsTyped, NoClient, sessionVars, photoVars
<1> QED
  BY <1>1, <1>2, <1>3, <1>4, <1>5, <1>6, <1>7, <1>8, <1>9, <1>10
     DEF ProviderNext, ProviderWorker

\* Steps that leave the ring's contents, the session's id and the fetch alone.
LEMMA FreshUntouched ==
  ASSUME Fresh,
         UNCHANGED <<buf, head, tail, clientId, photoClient, gen, generation, fd>>,
         session' # "invalidate" => session # "invalidate",
         worker' = "fetched" => worker = "fetched",
         worker' = "fetching" /\ fetchId' # NoClient
           => worker = "fetching" /\ fetchId' = fetchId
  PROVE  Fresh'
<1>1. Held' = Held
  BY DEF Held
<1>2. \A p \in Held : Slot(p)' = Slot(p)
  BY DEF Slot, BufCap
<1> QED BY <1>1, <1>2 DEF Fresh, RingFresh, FetchFresh

\* An empty ring is fresh, and so is a fetch whose generation has passed.
LEMMA FreshFlushed ==
  ASSUME Flush, (worker' \notin {"fetching", "fetched"}) \/ gen' # generation'
  PROVE  Fresh'
<1>1. Held' = {}
  BY DEF Flush, Held
<1> QED BY <1>1 DEF Fresh, RingFresh, FetchFresh

LEMMA FreshStep ==
  TypeOK /\ Positions /\ FdsAccounted /\ ClientsTyped /\ Fresh
    /\ [ProviderNext]_providerVars => Fresh'
<1> SUFFICES ASSUME TypeOK, Positions, FdsAccounted, ClientsTyped, Fresh,
                    [ProviderNext]_providerVars
             PROVE  Fresh'
  OBVIOUS
<1> USE DEF sessionVars, photoVars
<1>1. CASE InstallId
  BY <1>1 DEF InstallId, Fresh, RingFresh, FetchFresh
<1>2. CASE InvalidateCache
  <2>1. Flush /\ generation' = generation + 1 /\ gen' = gen
    BY <1>2 DEF InvalidateCache, Invalidate
  <2>2. gen' # generation'
    BY <2>1 DEF Positions, FetchJustified, TypeOK
  <2> QED BY <2>1, <2>2, FreshFlushed
<1>3. CASE Session /\ ~InstallId /\ ~InvalidateCache
  BY <1>3, FreshUntouched
     DEF Session, SetTargetSize, SetEmbedQr, RegisterOk, RegisterFail, PushEmbedQr,
         PushTargetSize, CanDispatch, vars
<1>4. CASE Deliver
  BY <1>4, FreshUntouched
     DEF Deliver, GetPhoto, GetPrevPhoto, PopTake, PopPrev, PopWait, PopTimeout,
         PopPrevRefused, CallerSpuriousWakeup, WakeWorker, ring
<1>5. CASE Quit
  BY <1>5, FreshUntouched DEF Quit, FreeStart, FreeJoined, WakeWorker, ring
<1>6. CASE BeginFetch
  BY <1>6, FreshUntouched DEF BeginFetch, WorkerStartFetch, ring, Fresh, RingFresh,
     FetchFresh, Held, Slot, BufCap
<1>7. CASE SnapshotId
  BY <1>7 DEF SnapshotId, vars, Fresh, RingFresh, FetchFresh, Held, Slot, BufCap
<1>8. ASSUME NEW new \in Fds, FetchOk(new) PROVE Fresh'
  <2>1. /\ worker = "fetching" /\ worker' = "fetched" /\ fetchId # NoClient /\ fd' = new
        /\ UNCHANGED <<buf, head, tail, gen, generation, session, clientId>>
        /\ new \notin open
        /\ photoClient' = [Remembered(photoClient, NoClient) EXCEPT ![new] = fetchId]
    BY <1>8 DEF FetchOk, WorkerFetchOk, ring
  <2>2. Held' = Held /\ \A p \in Held : Slot(p)' = Slot(p)
    BY <2>1 DEF Held, Slot, BufCap
  <2>3. ASSUME NEW p \in Held PROVE photoClient'[buf[Slot(p)]] = photoClient[buf[Slot(p)]]
    <3>1. buf[Slot(p)] # new /\ buf[Slot(p)] \in open
      BY <2>1 DEF FdsAccounted, HeldFds
    <3>2. buf[Slot(p)] \in Fds
      BY <3>1 DEF TypeOK
    <3> QED BY <2>1, <3>1, <3>2 DEF Remembered
  <2>4. photoClient'[new] = fetchId
    BY <2>1 DEF Remembered
  <2> QED BY <2>1, <2>2, <2>3, <2>4 DEF Fresh, RingFresh, FetchFresh
<1>9. CASE FetchFail
  BY <1>9, FreshUntouched DEF FetchFail, WorkerFetchFail, ring
<1>10. CASE WorkerElsewhere
  <2>1. UNCHANGED <<session, clientId, photoClient, fetchId>>
    BY <1>10 DEF WorkerElsewhere
  <2>2. CASE WorkerWait \/ WorkerRetry \/ WorkerDiscard \/ WorkerSpuriousWakeup
    <3>1. /\ UNCHANGED <<buf, head, tail, gen, generation>>
          /\ worker' \in {"waiting", "check"}
      BY <2>2 DEF WorkerWait, WorkerRetry, WorkerDiscard, CloseFetched,
                  WorkerSpuriousWakeup, ring
    <3>2. Held' = Held /\ \A p \in Held : Slot(p)' = Slot(p)
      BY <3>1 DEF Held, Slot, BufCap
    <3> QED BY <2>1, <3>1, <3>2 DEF Fresh, RingFresh, FetchFresh
  <2>3. CASE WorkerPlace
    <3>1. /\ worker = "fetched" /\ gen = generation /\ worker' = "check"
      BY <2>3 DEF WorkerPlace, Stale
    <3>2. \A p \in Held' : Slot(p)' = Slot(p)
      BY DEF Slot, BufCap
    <3>3. \A p \in Held' : buf'[Slot(p)] = fd \/ (p \in Held /\ buf'[Slot(p)] = buf[Slot(p)])
      BY <2>3, PlacedContents, EvictionSplits DEF Positions
    <3> QED BY <2>1, <3>1, <3>2, <3>3 DEF Fresh, RingFresh, FetchFresh
  <2>4. CASE WorkerDrop
    <3>1. UNCHANGED <<buf, head, tail>> /\ worker' = "check"
      BY <2>4, DropKeepsRing DEF WorkerDrop, Positions
    <3>2. Held' = Held /\ \A p \in Held : Slot(p)' = Slot(p)
      BY <3>1 DEF Held, Slot, BufCap
    <3> QED BY <2>1, <3>1, <3>2 DEF Fresh, RingFresh, FetchFresh
  <2>5. CASE WorkerExit
    BY <2>5, FreshFlushed DEF WorkerExit
  <2> QED BY <1>10, <2>2, <2>3, <2>4, <2>5 DEF WorkerElsewhere
<1>11. CASE UNCHANGED providerVars
  BY <1>11, FreshUntouched DEF providerVars, vars
<1>12. CASE ProviderTerminated
  BY <1>12, FreshUntouched DEF ProviderTerminated, providerVars, vars
<1> HIDE DEF sessionVars, photoVars
<1> QED
  BY <1>1, <1>2, <1>3, <1>4, <1>5, <1>6, <1>7, <1>8, <1>9, <1>10, <1>11, <1>12
     DEF ProviderNext, ProviderWorker

\* Whatever the overlap of fetches and setters, and whichever HTTP requests
\* fail: outside the setter that is replacing it, the ring holds photos of the
\* installed client id only.
THEOREM RingFreshHolds == ProviderSpec => []RingFresh
<1> DEFINE Typed == ClientsTyped /\ fetchId \in Int /\ clientId \in Int /\ newId \in Int
<1>1. ProviderInit => Typed
  BY DEF ProviderInit, ClientsTyped, NoClient
<1>2. Typed /\ [ProviderNext]_providerVars => Typed'
  BY ClientsTypedStep
<1>3. ProviderSpec => []Typed
  BY <1>1, <1>2, PTL DEF ProviderSpec
<1>4. ProviderSpec => [](TypeOK /\ Positions /\ FdsAccounted)
  BY ProviderUsesCache, TypeCorrect, PositionsInvariant, FdsAccountedHolds, PTL
<1>5. ProviderInit => Fresh
  BY DEF ProviderInit, Init, Fresh, RingFresh, FetchFresh, Held
<1>6. TypeOK /\ Positions /\ FdsAccounted /\ Typed /\ Fresh
        /\ [ProviderNext]_providerVars => Fresh'
  BY FreshStep
<1>7. Fresh => RingFresh
  BY DEF Fresh
<1> QED BY <1>3, <1>4, <1>5, <1>6, <1>7, PTL DEF ProviderSpec

-----------------------------------------------------------------------------
\* Every step of the session and of the worker keeps every variable in its
\* range, whichever requests fail.
LEMMA ProviderTypeStep ==
  ASSUME ProviderTypeOK, TypeOK', [ProviderNext]_providerVars
  PROVE  ProviderTypeOK'
<1> USE SessionAssumption
    DEF ProviderTypeOK, NoClient, sessionVars, photoVars, SessionSteps, ClientIds
<1>1. ASSUME NEW s \in Sizes, SetTargetSize(s) PROVE ProviderTypeOK'
  BY <1>1 DEF SetTargetSize
<1>2. ASSUME NEW v \in BOOLEAN, SetEmbedQr(v) PROVE ProviderTypeOK'
  BY <1>2 DEF SetEmbedQr
<1>3. CASE RegisterOk
  <2>1. newId + 1 \in 0 .. MaxRegistrations
    BY <1>3 DEF RegisterOk
  <2> QED BY <1>3, <2>1 DEF RegisterOk
<1>4. CASE RegisterFail
  BY <1>4 DEF RegisterFail
<1>5. ASSUME NEW ok \in BOOLEAN, PushEmbedQr(ok) PROVE ProviderTypeOK'
  <2>1. looks' \in [ClientIds -> Looks]
    BY <1>5 DEF PushEmbedQr, Looks
  <2>2. unsynced' \in BOOLEAN
    BY <1>5 DEF PushEmbedQr
  <2> QED BY <1>5, <2>1, <2>2 DEF PushEmbedQr
<1>6. ASSUME NEW ok \in BOOLEAN, PushTargetSize(ok) PROVE ProviderTypeOK'
  <2>1. looks' \in [ClientIds -> Looks]
    BY <1>6 DEF PushTargetSize, Looks
  <2>2. unsynced' \in BOOLEAN
    BY <1>6 DEF PushTargetSize
  <2> QED BY <1>6, <2>1, <2>2 DEF PushTargetSize
<1>7. CASE InstallId
  BY <1>7 DEF InstallId
<1>8. CASE InvalidateCache
  BY <1>8 DEF InvalidateCache
<1>9. CASE Deliver \/ Quit
  BY <1>9 DEF Deliver, Quit
<1>10. CASE BeginFetch \/ SnapshotId \/ FetchFail \/ WorkerElsewhere
  BY <1>10 DEF BeginFetch, SnapshotId, FetchFail, WorkerElsewhere
<1>11. ASSUME NEW new \in Fds, FetchOk(new) PROVE ProviderTypeOK'
  <2>1. photoClient' \in [Fds -> 0 .. MaxRegistrations]
    <3>1. Remembered(photoClient, NoClient) \in [Fds -> 0 .. MaxRegistrations]
      BY DEF Remembered
    <3> QED BY <1>11, <3>1 DEF FetchOk
  <2>2. photoLook' \in [Fds -> Looks]
    <3>1. looks[fetchId] \in Looks /\ DefaultLook \in Looks
      BY <1>11 DEF FetchOk, Looks
    <3> QED BY <1>11, <3>1 DEF FetchOk, Remembered
  <2>3. fetchId' \in 0 .. MaxRegistrations
    BY <1>11 DEF FetchOk
  <2> QED BY <1>11, <2>1, <2>2, <2>3 DEF FetchOk
<1>12. CASE UNCHANGED providerVars
  BY <1>12 DEF providerVars
<1> HIDE DEF ProviderTypeOK, NoClient, sessionVars, photoVars, SessionSteps, ClientIds
<1> QED
  BY <1>1, <1>2, <1>3, <1>4, <1>5, <1>6, <1>7, <1>8, <1>9, <1>10, <1>11, <1>12
     DEF ProviderNext, ProviderWorker, Session, ProviderTerminated

THEOREM ProviderTypeCorrect == ProviderSpec => []ProviderTypeOK
<1>1. ProviderInit /\ TypeOK => ProviderTypeOK
  <2> SUFFICES ASSUME ProviderInit, TypeOK PROVE ProviderTypeOK
    OBVIOUS
  <2>1. looks \in [ClientIds -> Looks] /\ photoLook \in [Fds -> Looks]
    BY SessionAssumption DEF ProviderInit, Looks
  <2>2. photoClient \in [Fds -> 0 .. MaxRegistrations]
    BY SessionAssumption DEF ProviderInit, NoClient
  <2>3. /\ clientId \in 0 .. MaxRegistrations /\ newId \in 0 .. MaxRegistrations
        /\ fetchId \in 0 .. MaxRegistrations
    BY SessionAssumption DEF ProviderInit, NoClient
  <2>4. started \in BOOLEAN /\ unsynced \in BOOLEAN /\ qr \in BOOLEAN /\ size \in Sizes
    BY SessionAssumption DEF ProviderInit
  <2>5. session \in SessionSteps /\ returned \in {0, -1}
    BY DEF ProviderInit, SessionSteps
  <2> QED BY <2>1, <2>2, <2>3, <2>4, <2>5 DEF ProviderTypeOK
<1>2. ProviderSpec => []TypeOK
  BY ProviderUsesCache, TypeCorrect, PTL
<1>3. ProviderTypeOK /\ TypeOK' /\ [ProviderNext]_providerVars => ProviderTypeOK'
  BY ProviderTypeStep
<1> QED BY <1>1, <1>2, <1>3, PTL DEF ProviderSpec

-----------------------------------------------------------------------------
(***************************************************************************)
(* What a photo looks like.  The server's look of a client changes only    *)
(* while the session is between registering it and installing it, and a    *)
(* photo is asked for with an installed one: hence photos keep the look of *)
(* their client, and if every request has succeeded the installed client   *)
(* has the session's settings.                                             *)
(***************************************************************************)
IdsInOrder ==
  /\ fetchId <= clientId /\ clientId <= newId
  /\ session \in {"pushQr", "pushSize", "install"} => clientId < newId
  /\ session = "invalidate" => clientId = newId

PhotosLookLikeClient ==
  \A f \in open : /\ photoClient[f] \in 1 .. clientId
                  /\ photoLook[f] = looks[photoClient[f]]

Synced ==
  ~unsynced =>
    /\ session = "pushSize" => looks[newId].qr = qr
    /\ session = "install" => looks[newId] = Settings
    /\ session = "invalidate" => clientId # NoClient /\ looks[clientId] = Settings
    /\ session = "idle" /\ started => clientId # NoClient /\ looks[clientId] = Settings

Rendering == IdsInOrder /\ PhotosLookLikeClient /\ Synced

\* Steps that leave the session alone and open no descriptor.
LEMMA RenderingUntouched ==
  ASSUME Rendering, UNCHANGED <<sessionVars, photoVars>>, open' \subseteq open,
         fetchId' <= clientId
  PROVE  Rendering'
BY DEF Rendering, IdsInOrder, PhotosLookLikeClient, Synced, Settings, sessionVars, photoVars

LEMMA RenderingStep ==
  ASSUME ProviderTypeOK, Rendering, [ProviderNext]_providerVars
  PROVE  Rendering'
<1>1. /\ clientId \in 0 .. MaxRegistrations /\ newId \in 0 .. MaxRegistrations
      /\ fetchId \in 0 .. MaxRegistrations /\ MaxRegistrations \in Nat
      /\ looks \in [ClientIds -> Looks] /\ unsynced \in BOOLEAN
      /\ photoClient \in [Fds -> 0 .. MaxRegistrations] /\ photoLook \in [Fds -> Looks]
  BY SessionAssumption DEF ProviderTypeOK
<1>2. CASE \/ \E s \in Sizes : SetTargetSize(s)
           \/ \E v \in BOOLEAN : SetEmbedQr(v)
           \/ RegisterFail
  BY <1>1, <1>2 DEF SetTargetSize, SetEmbedQr, RegisterFail, CanDispatch, vars,
     photoVars, Rendering, IdsInOrder, PhotosLookLikeClient, Synced, Settings
<1>3. CASE RegisterOk
  BY <1>1, <1>3 DEF RegisterOk, vars, photoVars, Rendering, IdsInOrder,
     PhotosLookLikeClient, Synced, Settings
<1>4. ASSUME NEW ok \in BOOLEAN, PushEmbedQr(ok) \/ PushTargetSize(ok) PROVE Rendering'
  <2>1. \A id \in 1 .. clientId : looks'[id] = looks[id]
    BY <1>1, <1>4 DEF PushEmbedQr, PushTargetSize, Rendering, IdsInOrder, ClientIds
  <2>2. PhotosLookLikeClient'
    BY <1>4, <2>1 DEF PushEmbedQr, PushTargetSize, vars, photoVars, Rendering,
       PhotosLookLikeClient
  <2>3. IdsInOrder'
    BY <1>4 DEF PushEmbedQr, PushTargetSize, Rendering, IdsInOrder
  <2>4. newId \in ClientIds /\ looks[newId] \in [size : Sizes, qr : BOOLEAN]
    BY <1>1, <1>4 DEF PushEmbedQr, PushTargetSize, Rendering, IdsInOrder, ClientIds, Looks
  <2>5. CASE PushEmbedQr(ok)
    <3>1. ok => looks'[newId].qr = qr
      BY <1>1, <2>4, <2>5 DEF PushEmbedQr, Looks
    <3> QED BY <2>2, <2>3, <2>5, <3>1 DEF PushEmbedQr, Rendering, Synced
  <2>6. CASE PushTargetSize(ok)
    <3>1. ok => looks' = [looks EXCEPT ![newId] = [@ EXCEPT !.size = size]]
      BY <2>6 DEF PushTargetSize
    <3>2. ok /\ looks[newId].qr = qr => looks'[newId] = Settings
      BY <1>1, <2>4, <3>1 DEF Settings
    <3>3. /\ session = "pushSize" /\ session' = "install" /\ UNCHANGED <<newId, size, qr>>
          /\ ~unsynced' => ok /\ ~unsynced
      BY <1>1, <2>6 DEF PushTargetSize
    <3>4. ~unsynced' => looks'[newId'] = Settings'
      BY <3>2, <3>3 DEF Rendering, Synced, Settings
    <3> QED BY <2>2, <2>3, <3>3, <3>4 DEF Rendering, Synced
  <2> QED BY <1>4, <2>5, <2>6
<1>5. CASE InstallId
  <2>1. IdsInOrder'
    BY <1>1, <1>5 DEF InstallId, Rendering, IdsInOrder
  <2>2. PhotosLookLikeClient'
    BY <1>1, <1>5 DEF InstallId, vars, photoVars, Rendering, IdsInOrder,
       PhotosLookLikeClient
  <2>3. newId # NoClient
    BY <1>1, <1>5 DEF InstallId, Rendering, IdsInOrder, NoClient
  <2> QED BY <1>5, <2>1, <2>2, <2>3 DEF InstallId, Rendering, Synced, Settings
<1>6. CASE InvalidateCache
  BY <1>1, <1>6 DEF InvalidateCache, Invalidate, Flush, photoVars, Rendering,
     IdsInOrder, PhotosLookLikeClient, Synced, Settings
<1>7. CASE Deliver \/ Quit
  <2>1. UNCHANGED <<sessionVars, photoVars, fetchId>>
    BY <1>7 DEF Deliver, Quit
  <2>2. open' = open
    BY <1>7 DEF Deliver, GetPhoto, GetPrevPhoto, PopTake, PopPrev, PopWait, PopTimeout,
       PopPrevRefused, CallerSpuriousWakeup, Quit, FreeStart, FreeJoined
  <2>3. fetchId' <= clientId
    BY <2>1 DEF Rendering, IdsInOrder
  <2> QED BY <2>1, <2>2, <2>3, RenderingUntouched
<1>8. CASE BeginFetch \/ SnapshotId \/ FetchFail
  <2>1. UNCHANGED <<sessionVars, photoVars>> /\ fetchId' \in {NoClient, clientId}
    BY <1>8 DEF BeginFetch, SnapshotId, FetchFail
  <2>2. open' = open
    BY <1>8 DEF BeginFetch, WorkerStartFetch, SnapshotId, FetchFail, WorkerFetchFail, vars
  <2>3. fetchId' <= clientId
    BY <1>1, <2>1 DEF NoClient
  <2> QED BY <2>1, <2>2, <2>3, RenderingUntouched
<1>9. ASSUME NEW new \in Fds, FetchOk(new) PROVE Rendering'
  <2>1. /\ UNCHANGED sessionVars /\ fetchId' = NoClient /\ fetchId # NoClient
        /\ new \notin open /\ open' = open \cup {new}
        /\ photoClient' = [Remembered(photoClient, NoClient) EXCEPT ![new] = fetchId]
        /\ photoLook' = [Remembered(photoLook, DefaultLook) EXCEPT ![new] = looks[fetchId]]
    BY <1>9 DEF FetchOk, WorkerFetchOk
  <2>2. fetchId \in 1 .. clientId
    BY <1>1, <2>1 DEF Rendering, IdsInOrder, NoClient
  <2>3. photoClient'[new] = fetchId /\ photoLook'[new] = looks[fetchId]
    BY <2>1 DEF Remembered
  <2>4. \A f \in open : f \in Fds
    BY DEF ProviderTypeOK, TypeOK
  <2>5. \A f \in open : photoClient'[f] = photoClient[f] /\ photoLook'[f] = photoLook[f]
    BY <2>1, <2>4 DEF Remembered
  <2>6. PhotosLookLikeClient'
    BY <2>1, <2>2, <2>3, <2>5 DEF Rendering, PhotosLookLikeClient, sessionVars
  <2>7. IdsInOrder'
    BY <1>1, <2>1 DEF Rendering, IdsInOrder, sessionVars, NoClient
  <2> QED BY <2>1, <2>6, <2>7 DEF Rendering, Synced, Settings, sessionVars
<1>10. CASE WorkerElsewhere
  <2>1. UNCHANGED <<sessionVars, photoVars, fetchId>>
    BY <1>10 DEF WorkerElsewhere
  <2>2. open' \subseteq open
    BY <1>10 DEF WorkerElsewhere, WorkerWait, WorkerRetry, WorkerDiscard, CloseFetched,
       WorkerPlace, WorkerDrop, WorkerExit, Flush, WorkerSpuriousWakeup
  <2>3. fetchId' <= clientId
    BY <2>1 DEF Rendering, IdsInOrder
  <2> QED BY <2>1, <2>2, <2>3, RenderingUntouched
<1>11. CASE UNCHANGED providerVars
  <2>1. UNCHANGED <<sessionVars, photoVars, fetchId>> /\ open' = open
    BY <1>11 DEF providerVars, vars
  <2>2. fetchId' <= clientId
    BY <2>1 DEF Rendering, IdsInOrder
  <2> QED BY <2>1, <2>2, RenderingUntouched
<1> QED
  BY <1>2, <1>3, <1>4, <1>5, <1>6, <1>7, <1>8, <1>9, <1>10, <1>11
     DEF ProviderNext, ProviderWorker, Session, ProviderTerminated

\* What a pop that moves the cursor hands out.
LEMMA DeliveredFromRing ==
  ASSUME TypeOK, Positions, [ProviderNext]_providerVars, Delivered
  PROVE  session = "idle" /\ started /\ cursor' \in Held
<1>1. CASE Session
  BY <1>1 DEF Session, SetTargetSize, SetEmbedQr, RegisterOk, RegisterFail, PushEmbedQr,
     PushTargetSize, InstallId, InvalidateCache, Invalidate, Flush, vars, Delivered
<1>2. CASE Deliver
  <2>1. session = "idle" /\ started
    BY <1>2 DEF Deliver
  <2>2. CASE \E ok \in BOOLEAN : PopTake(ok)
    BY <2>1, <2>2 DEF PopTake, Held, TypeOK, Positions, RingShape
  <2>3. CASE \E ok \in BOOLEAN : PopPrev(ok)
    BY <2>1, <2>3 DEF PopPrev, Held, TypeOK, Positions, RingShape
  <2>4. CASE PopWait \/ PopTimeout \/ CallerSpuriousWakeup \/ PopPrevRefused
    BY <2>4 DEF PopWait, PopTimeout, CallerSpuriousWakeup, PopPrevRefused, ring, Delivered
  <2> QED BY <1>2, <2>2, <2>3, <2>4 DEF Deliver, GetPhoto, GetPrevPhoto
<1>3. CASE Quit
  BY <1>3 DEF Quit, FreeStart, FreeJoined, ring, Delivered
<1>4. CASE ProviderWorker
  <2>1. cursor' \in {cursor, -1}
    BY <1>4 DEF ProviderWorker, BeginFetch, WorkerStartFetch, SnapshotId, FetchOk,
       WorkerFetchOk, FetchFail, WorkerFetchFail, WorkerElsewhere, WorkerWait, WorkerRetry,
       WorkerDiscard, WorkerPlace, WorkerDrop, WorkerExit, Flush, WorkerSpuriousWakeup,
       ring, vars
  <2> QED BY <2>1 DEF Delivered
<1>5. CASE UNCHANGED providerVars
  BY <1>5 DEF providerVars, vars, Delivered
<1> QED BY <1>1, <1>2, <1>3, <1>4, <1>5 DEF ProviderNext, ProviderTerminated

\* However fetches and setters overlap: if every request of the registration
\* has succeeded, every photo handed out is rendered as the session is set.
THEOREM DeliversSettingsHolds == ProviderSpec => DeliversSettings
<1>1. ProviderSpec => [](TypeOK /\ Positions /\ FdsAccounted)
  BY ProviderUsesCache, TypeCorrect, PositionsInvariant, FdsAccountedHolds, PTL
<1>2. ProviderInit => Rendering
  BY SessionAssumption DEF ProviderInit, Init, Rendering, IdsInOrder,
     PhotosLookLikeClient, Synced, NoClient
<1>3. ProviderTypeOK /\ Rendering /\ [ProviderNext]_providerVars => Rendering'
  BY RenderingStep
<1>4. ASSUME TypeOK, Positions, FdsAccounted, RingFresh, Rendering,
             [ProviderNext]_providerVars, Delivered, ~unsynced
      PROVE  LookDelivered = Settings
  <2>1. session = "idle" /\ started /\ cursor' \in Held
    BY <1>4, DeliveredFromRing
  <2> DEFINE photo == buf[Slot(cursor')]
  <2>2. photo \in open /\ photoClient[photo] = clientId
    BY <1>4, <2>1 DEF FdsAccounted, HeldFds, RingFresh
  <2>3. photoLook[photo] = looks[clientId] /\ looks[clientId] = Settings
    BY <1>4, <2>1, <2>2 DEF Rendering, PhotosLookLikeClient, Synced
  <2> QED BY <2>3 DEF LookDelivered
<1>5. TypeOK /\ Positions /\ FdsAccounted /\ RingFresh /\ Rendering
        /\ [ProviderNext]_providerVars
        => [Delivered /\ ~unsynced => LookDelivered = Settings]_providerVars
  BY <1>4
<1> QED BY <1>1, <1>2, <1>3, <1>5, ProviderTypeCorrect, RingFreshHolds, PTL
        DEF ProviderSpec, DeliversSettings
-----------------------------------------------------------------------------
\* The clients use the provider.

\* A step of the clients is a step of the provider or leaves it alone.
LEMMA ClientStepIsProviderStep ==
  [ClientNext]_systemVars => [ProviderNext]_providerVars
<1> SUFFICES ASSUME [ClientNext]_systemVars
             PROVE  ProviderNext \/ UNCHANGED providerVars
  OBVIOUS
<1>1. CASE \E method \in Methods : Ask(method)
  BY <1>1 DEF Ask
<1>2. CASE GiveUp
  BY <1>2 DEF GiveUp
<1>3. CASE ServeAmbience \/ ServeOther
  BY <1>3 DEF ServeAmbience, ServeOther, ProviderNext
<1>4. CASE SetOrStart
  BY <1>4 DEF SetOrStart, ProviderNext
<1>5. CASE Quit \/ ProviderWorker \/ ProviderTerminated
  BY <1>5 DEF ProviderNext
<1>6. CASE UNCHANGED systemVars
  BY <1>6 DEF systemVars
<1> QED BY <1>1, <1>2, <1>3, <1>4, <1>5, <1>6 DEF ClientNext

\* Everything proved of the provider holds with any clients.
THEOREM ClientUsesProvider == ClientSpec => ProviderSpec
<1>1. ClientInit => ProviderInit
  BY DEF ClientInit
<1> QED BY <1>1, ClientStepIsProviderStep, PTL DEF ClientSpec, ProviderSpec

\* Whoever calls what and gives up when, no photo of an older registration is
\* left in the ring.
THEOREM ClientRingFresh == ClientSpec => []RingFresh
BY ClientUsesProvider, RingFreshHolds, PTL

\* And unless a request of the registration failed, every photo anybody is given
\* is rendered as the session is set.
THEOREM ClientDeliversSettings == ClientSpec => DeliversSettings
BY ClientUsesProvider, DeliversSettingsHolds, PTL

\* Under calls given up and calls served late, the provider still plays the tape
\* it promises, keeps its history and lets no thread sleep through work.
THEOREM ClientPlaysTape ==
  ClientSpec => ImplementsTape /\ []HistoryRetained /\ []NoLostWakeup
BY ClientUsesProvider, ProviderUsesCache, TapeImplemented, HistoryRetainedHolds,
   NoLostWakeupHolds, PTL

-----------------------------------------------------------------------------
\* How far the provider has moved from what ambience shows.  Once the provider
\* is shutting down the worker thread erases the tape, but nothing is served.
Apart(c, s, n) == c - s <= n /\ s - c <= n

Drift ==
  /\ screen \in Int /\ lost \in Nat /\ calls \in Seq(Methods)
  /\ shutdown => caller \in {"joining", "freed"}
  /\ ~shutdown => Apart(cursor, screen, lost)

LEMMA PositionUnique ==
  ASSUME TypeOK, RingShape, FdsAccounted, NEW p \in Held
  PROVE  PositionOf(buf[Slot(p)]) = p
<1>1. ASSUME NEW q \in Held, buf[Slot(q)] = buf[Slot(p)] PROVE q = p
  <2>1. Slot(p) \in 0 .. (BufCap - 1) /\ Slot(q) \in 0 .. (BufCap - 1)
    BY SlotRange DEF Held, TypeOK
  <2>2. buf[Slot(q)] # NoFd
    BY <2>1 DEF FdsAccounted
  <2>3. Slot(p) = Slot(q)
    BY <1>1, <2>1, <2>2 DEF FdsAccounted
  <2> QED BY <2>3, HeldApart
<1> QED BY <1>1 DEF PositionOf

\* What a method that returns has done.
Stepped(by) ==
  /\ cursor' = cursor + by
  /\ cursor' \in Held
  /\ reply' # NoFd => reply' = buf[Slot(cursor')]

LEMMA GetPhotoSteps ==
  ASSUME TypeOK, RingShape, GetPhoto
  PROVE  /\ caller \in {"idle", "popWaiting", "popWoken"}
         /\ UNCHANGED shutdown
         /\ \/ Stepped(1)
            \/ cursor' = cursor /\ (caller' = "idle" => reply' = NoFd)
<1> USE DEF InPop
<1>1. ASSUME NEW ok \in BOOLEAN, PopTake(ok) PROVE Stepped(1)
  <2>1. cursor + 1 \in Held
    BY <1>1 DEF PopTake, Held, TypeOK, RingShape
  <2>2. cursor' = cursor + 1 /\ buf' = buf /\ reply' \in {buf[Slot(cursor + 1)], NoFd}
    BY <1>1 DEF PopTake
  <2> QED BY <2>1, <2>2 DEF Stepped
<1>2. CASE PopWait \/ PopTimeout \/ CallerSpuriousWakeup
  BY <1>2 DEF PopWait, PopTimeout, CallerSpuriousWakeup, ring
<1> QED BY <1>1, <1>2 DEF GetPhoto, PopTake

LEMMA GetPrevPhotoSteps ==
  ASSUME TypeOK, RingShape, GetPrevPhoto
  PROVE  /\ caller = "idle" /\ caller' = "idle"
         /\ UNCHANGED shutdown
         /\ Stepped(-1) \/ (cursor' = cursor /\ reply' = NoFd)
<1>1. ASSUME NEW ok \in BOOLEAN, PopPrev(ok) PROVE Stepped(-1)
  <2>1. cursor - 1 \in Held
    BY <1>1 DEF PopPrev, Held, TypeOK, RingShape
  <2>2. cursor' = cursor - 1 /\ reply' \in {buf[Slot(cursor - 1)], NoFd}
    BY <1>1 DEF PopPrev
  <2>3. cursor' = cursor + (-1)
    BY <2>2 DEF TypeOK
  <2> QED BY <2>1, <2>2, <2>3 DEF Stepped
<1>2. CASE PopPrevRefused
  BY <1>2 DEF PopPrevRefused, ring
<1> QED BY <1>1, <1>2 DEF GetPrevPhoto, PopPrev

InOrder == Shown => PositionOf(reply') - screen - Direction \in (-lost) .. lost

\* The arithmetic of the distance.
LEMMA NoneApart ==
  \A c \in Int : Apart(c, c, 0)
BY DEF Apart

LEMMA OneStepApart ==
  \A c, s, n \in Int :
    Apart(c, s, n) => Apart(c + 1, s, n + 1) /\ Apart(c - 1, s, n + 1) /\ Apart(c, s, n + 1)
BY DEF Apart

\* A move nobody shows changes the distance by one, and is counted.
LEMMA LostMoveKeepsDrift ==
  ASSUME TypeOK, Drift, MoveLost, calls' \in Seq(Methods), UNCHANGED shutdown,
         shutdown' => caller' \in {"joining", "freed"},
         cursor' \in {cursor, cursor + 1, cursor - 1}
  PROVE  Drift'
<1>1. screen' = screen /\ screen \in Int /\ cursor \in Int /\ cursor' \in Int
  BY DEF Drift, MoveLost, TypeOK
<1>2. lost \in Nat /\ lost' \in {lost, lost + 1} /\ (cursor' # cursor => lost' = lost + 1)
  BY DEF Drift, MoveLost
<1>3. ASSUME Apart(cursor, screen, lost)
      PROVE  Apart(cursor', screen', lost')
  <2>1. /\ Apart(cursor, screen, lost + 1)
        /\ Apart(cursor + 1, screen, lost + 1) /\ Apart(cursor - 1, screen, lost + 1)
    BY <1>1, <1>2, <1>3, OneStepApart
  <2>2. CASE cursor' = cursor /\ lost' = lost
    BY <1>1, <1>3, <2>2
  <2>3. CASE lost' = lost + 1
    BY <1>1, <2>1, <2>3
  <2> QED BY <1>2, <2>2, <2>3
<1> QED BY <1>1, <1>2, <1>3 DEF Drift

LEMMA DriftStep ==
  ASSUME TypeOK, RingShape, FdsAccounted, Drift, [ClientNext]_systemVars
  PROVE  Drift' /\ InOrder
<1>1. ASSUME NEW method \in Methods, Ask(method) PROVE Drift' /\ InOrder
  <2>1. calls' \in Seq(Methods)
    BY <1>1 DEF Ask, Drift
  <2> QED BY <1>1, <2>1 DEF Ask, Drift, InOrder, Shown, providerVars, vars, ring
<1>2. CASE GiveUp
  BY <1>2 DEF GiveUp, Drift, InOrder, Shown, providerVars, vars
<1>3. CASE ServeAmbience
  <2>1. /\ calls # <<>> /\ Head(calls) \in Methods /\ Tail(calls) \in Seq(Methods)
        /\ Head(calls) = calls[1]
    BY <1>3 DEF ServeAmbience, Drift
  <2>2. /\ caller \in {"idle", "popWaiting", "popWoken"} /\ UNCHANGED shutdown
        /\ \/ Stepped(IF Head(calls) = "GetPhoto" THEN 1 ELSE -1)
           \/ cursor' = cursor /\ (caller' = "idle" => reply' = NoFd)
    BY <1>3, GetPhotoSteps, GetPrevPhotoSteps DEF ServeAmbience
  <2>3. ~shutdown /\ Apart(cursor, screen, lost)
    BY <2>2 DEF Drift
  <2>4. cursor' \in {cursor, cursor + 1, cursor - 1}
    BY <2>2 DEF Stepped, TypeOK
  <2>5. CASE caller' # "idle"
    <3>1. UNCHANGED <<ambience, calls, screen, lost>>
      BY <1>3, <2>5 DEF ServeAmbience, Answer
    <3>2. cursor' = cursor
      BY <1>3, <2>5 DEF ServeAmbience, GetPhoto, GetPrevPhoto, PopTake, PopWait, PopTimeout,
                        CallerSpuriousWakeup, PopPrev, PopPrevRefused, ring
    <3> QED BY <2>2, <2>3, <3>1, <3>2 DEF Drift, InOrder, Shown
  <2>6. CASE caller' = "idle" /\ Answer
    <3>1. CASE Awaited /\ reply' # NoFd
      <4>1. Stepped(IF Head(calls) = "GetPhoto" THEN 1 ELSE -1)
        BY <2>2, <2>6, <3>1
      <4>2. PositionOf(reply') = cursor'
        BY <3>1, <4>1, PositionUnique DEF Stepped
      <4>3. Direction = IF Head(calls) = "GetPhoto" THEN 1 ELSE -1
        BY <2>1, <3>1 DEF Direction, Awaited
      <4>4. PositionOf(reply') - screen - Direction \in (-lost) .. lost
        BY <2>3, <4>1, <4>2, <4>3 DEF Stepped, Drift, TypeOK, Apart
      <4>5. screen' = cursor' /\ lost' = 0 /\ calls' = Tail(calls)
        BY <2>6, <3>1, <4>2 DEF Answer
      <4>6. cursor' \in Int
        BY <2>4 DEF TypeOK
      <4>7. Apart(cursor', screen', lost')
        BY <4>5, <4>6, NoneApart
      <4>8. Drift'
        BY <2>1, <2>2, <2>3, <4>5, <4>6, <4>7 DEF Drift
      <4> QED BY <4>4, <4>8 DEF InOrder
    <3>2. CASE ~(Awaited /\ reply' # NoFd)
      <4>1. MoveLost /\ calls' = Tail(calls)
        BY <2>6, <3>2 DEF Answer
      <4>2. Drift'
        BY <2>1, <2>2, <2>3, <2>4, <4>1, LostMoveKeepsDrift
      <4>3. ~Shown
        BY <2>6, <3>2 DEF Answer, Shown
      <4> QED BY <4>2, <4>3 DEF InOrder
    <3> QED BY <3>1, <3>2
  <2> QED BY <1>3, <2>5, <2>6 DEF ServeAmbience
<1>4. CASE ServeOther
  <2>1. /\ caller \in {"idle", "popWaiting", "popWoken"} /\ UNCHANGED shutdown
        /\ cursor' \in {cursor, cursor + 1, cursor - 1}
    BY <1>4, GetPhotoSteps, GetPrevPhotoSteps DEF ServeOther, Deliver, Stepped, TypeOK
  <2>2. MoveLost /\ UNCHANGED <<ambience, calls>>
    BY <1>4 DEF ServeOther
  <2>3. ~shutdown /\ calls' \in Seq(Methods)
    BY <2>1, <2>2 DEF Drift
  <2>4. Drift'
    BY <2>1, <2>2, <2>3, LostMoveKeepsDrift
  <2> QED BY <2>2, <2>4 DEF InOrder, Shown
<1>5. CASE SetOrStart
  <2>1. UNCHANGED <<ambience, calls>>
    BY <1>5 DEF SetOrStart
  <2>2. CASE session = "invalidate"
    <3>1. InvalidateCache
      BY <1>5, <2>2 DEF SetOrStart, Session, SetTargetSize, SetEmbedQr, CanDispatch,
                        RegisterOk, RegisterFail, PushEmbedQr, PushTargetSize, InstallId
    <3>2. cursor' = -1 /\ screen' = -1 /\ lost' = 0 /\ UNCHANGED <<shutdown, caller>>
      BY <1>5, <2>2, <3>1 DEF SetOrStart, InvalidateCache, Invalidate, Flush
    <3> QED BY <2>1, <3>2, NoneApart DEF Drift, InOrder, Shown
  <2>3. CASE session # "invalidate"
    <3>1. UNCHANGED vars
      BY <1>5, <2>3 DEF SetOrStart, Session, SetTargetSize, SetEmbedQr, RegisterOk,
                        RegisterFail, PushEmbedQr, PushTargetSize, InstallId,
                        InvalidateCache
    <3>2. UNCHANGED <<screen, lost>>
      BY <1>5, <2>3 DEF SetOrStart
    <3> QED BY <2>1, <3>1, <3>2 DEF Drift, InOrder, Shown, vars
  <2> QED BY <2>2, <2>3
<1>6. CASE (Quit \/ ProviderWorker \/ ProviderTerminated) /\ UNCHANGED clientVars
  <2>1. UNCHANGED <<ambience, calls, screen, lost>>
    BY <1>6 DEF clientVars
  <2>2. /\ UNCHANGED <<shutdown, caller>> \/ caller' \in {"joining", "freed", "popWoken"}
        /\ shutdown' => shutdown \/ caller' = "joining"
        /\ shutdown /\ caller \in {"joining", "freed"} => caller' \in {"joining", "freed"}
        /\ shutdown => shutdown'
        /\ ~shutdown => cursor' = cursor \/ shutdown'
    <3>1. CASE Quit
      BY <3>1 DEF Quit, FreeStart, FreeJoined, ring
    <3>2. CASE ProviderTerminated
      BY <3>2 DEF ProviderTerminated, providerVars, vars
    <3>3. CASE WorkerElsewhere
      BY <3>3 DEF WorkerElsewhere, WorkerWait, WorkerRetry, WorkerDiscard, WorkerPlace,
                  WakeCaller, WorkerDrop, WorkerExit, WorkerSpuriousWakeup, ring
    <3>4. CASE BeginFetch \/ SnapshotId \/ FetchFail \/ (\E new \in Fds : FetchOk(new))
      BY <3>4 DEF BeginFetch, SnapshotId, FetchFail, FetchOk, WorkerStartFetch,
                  WorkerFetchFail, WorkerFetchOk, ring, vars
    <3> QED BY <1>6, <3>1, <3>2, <3>3, <3>4 DEF ProviderWorker
  <2> QED BY <2>1, <2>2 DEF Drift, InOrder, Shown
<1>7. CASE UNCHANGED systemVars
  BY <1>7 DEF systemVars, clientVars, providerVars, vars, Drift, InOrder, Shown
<1> QED BY <1>1, <1>2, <1>3, <1>4, <1>5, <1>6, <1>7 DEF ClientNext

\* For every ring, every number of clients and whatever times out: what
\* ambience shows after a step is the next photo, or the previous one, give or
\* take one for each move it did not see.
THEOREM StepsInOrderHolds == ClientSpec => StepsInOrder
<1>1. ClientSpec => [](TypeOK /\ RingShape /\ FdsAccounted)
  BY ClientUsesProvider, ProviderUsesCache, TypeCorrect, RingShapeHolds,
     FdsAccountedHolds, PTL
<1>2. ClientInit => Drift
  BY DEF ClientInit, ProviderInit, Init, Drift, Apart
<1>3. TypeOK /\ RingShape /\ FdsAccounted /\ Drift /\ [ClientNext]_systemVars
        => Drift' /\ InOrder
  BY DriftStep
<1>4. InOrder => [Shown => PositionOf(reply') - screen - Direction
                             \in (-lost) .. lost]_systemVars
  BY DEF InOrder
<1> QED BY <1>1, <1>2, <1>3, <1>4, PTL DEF ClientSpec, StepsInOrder

-----------------------------------------------------------------------------
\* The types of the clients.  A position is one of the tape, of which the worker
\* thread takes no more than there is.
TapeLasts == tail <= MaxPhotos /\ (worker = "fetched" => tail < MaxPhotos)

LEMMA TapeLastsStep ==
  ASSUME TypeOK, TapeLasts, [Next]_vars
  PROVE  TapeLasts'
<1> USE CacheAssumption DEF TapeLasts, TypeOK
<1>1. CASE Worker
  <2>1. CASE WorkerPlace
    BY <2>1 DEF WorkerPlace
  <2>2. CASE WorkerExit
    BY <2>2 DEF WorkerExit, Flush
  <2>3. CASE \E new \in Fds : WorkerFetchOk(new)
    BY <2>3 DEF WorkerFetchOk, ring
  <2>4. CASE WorkerWait \/ WorkerStartFetch \/ WorkerFetchFail \/ WorkerRetry
    BY <2>4 DEF WorkerWait, WorkerStartFetch, WorkerFetchFail, WorkerRetry, ring
  <2>5. CASE WorkerDiscard \/ WorkerDrop
    BY <2>5 DEF WorkerDiscard, WorkerDrop, CloseFetched, ring
  <2> QED BY <1>1, <2>1, <2>2, <2>3, <2>4, <2>5 DEF Worker
<1>2. CASE Caller
  <2>1. CASE Invalidate
    BY <2>1 DEF Invalidate, Flush, WakeWorker
  <2>2. CASE \E ok \in BOOLEAN : PopTake(ok) \/ PopPrev(ok)
    BY <2>2 DEF PopTake, PopPrev, WakeWorker
  <2>3. CASE PopWait \/ PopTimeout \/ PopPrevRefused \/ FreeStart \/ FreeJoined
    BY <2>3 DEF PopWait, PopTimeout, PopPrevRefused, FreeStart, FreeJoined, WakeWorker,
                ring
  <2> QED BY <1>2, <2>1, <2>2, <2>3 DEF Caller
<1>3. CASE Spurious
  BY <1>3 DEF Spurious, WorkerSpuriousWakeup, CallerSpuriousWakeup, ring
<1>4. CASE UNCHANGED vars \/ Terminated
  BY <1>4 DEF vars, Terminated
<1> QED BY <1>1, <1>2, <1>3, <1>4 DEF Next

\* Whoever is in a pop is served, and whoever calls has asked.
ClientTyped ==
  /\ ambience \in {"resting", "calling"}
  /\ Len(calls) <= MaxQueued
  /\ ambience = "calling" => calls # <<>>
  /\ serving \in {"nobody", "ambience", "other"}
  /\ (serving # "nobody") <=> (caller \in {"popWaiting", "popWoken"})
  /\ serving = "ambience" => calls # <<>>
  /\ screen \in -1 .. (MaxPhotos - 1) /\ lost <= MaxLost

\* Where the dispatch thread is after a method.
LEMMA MethodReturns ==
  ASSUME GetPhoto \/ GetPrevPhoto
  PROVE  /\ caller \in {"idle", "popWaiting", "popWoken"}
         /\ caller' \in {"idle", "popWaiting", "popWoken"}
         /\ tail' = tail /\ head' = head
BY DEF GetPhoto, GetPrevPhoto, PopTake, PopWait, PopTimeout, CallerSpuriousWakeup,
       PopPrev, PopPrevRefused, InPop, ring

LEMMA ClientTypedStep ==
  ASSUME TypeOK, RingShape, FdsAccounted, TapeLasts, Drift, Drift', ClientTyped,
         [ClientNext]_systemVars
  PROVE  ClientTyped'
<1> USE CacheAssumption, ClientAssumption DEF ClientTyped
<1>0. /\ calls \in Seq(Methods) /\ Len(calls) \in Nat /\ lost \in Nat
      /\ calls = <<>> <=> Len(calls) = 0
  BY EmptySeq DEF Drift
<1>1. ASSUME NEW method \in Methods, Ask(method) PROVE ClientTyped'
  <2>1. /\ Append(calls, method) # <<>> /\ Len(Append(calls, method)) = Len(calls) + 1
    BY <1>0, AppendProperties
  <2>2. Len(calls') <= MaxQueued /\ calls' # <<>>
    BY <1>0, <1>1, <2>1 DEF Ask
  <2> QED BY <1>1, <2>2 DEF Ask, providerVars, vars
<1>2. CASE GiveUp
  BY <1>2 DEF GiveUp, providerVars, vars
<1>3. CASE ServeAmbience
  <2>1. /\ caller \in {"idle", "popWaiting", "popWoken"}
        /\ caller' \in {"idle", "popWaiting", "popWoken"}
        /\ tail' = tail /\ head' = head /\ calls # <<>>
    BY <1>3, MethodReturns DEF ServeAmbience
  <2>2. CASE caller' # "idle"
    <3>1. serving' = "ambience" /\ UNCHANGED <<ambience, calls, screen, lost>>
      BY <1>3, <2>2 DEF ServeAmbience
    <3> QED BY <2>1, <2>2, <3>1
  <2>3. CASE caller' = "idle" /\ Answer
    <3>1. serving' = "nobody" /\ calls' = Tail(calls)
      BY <2>3 DEF Answer
    <3>2. Len(calls') = Len(calls) - 1 /\ Len(calls) >= 1
      BY <1>0, <2>1, <3>1
    <3>3. ambience' \in {"resting", "calling"}
      BY <2>3 DEF Answer
    <3>4. ambience' = "calling" => calls' # <<>>
      <4>1. ambience' = "calling" => Len(calls) # 1
        BY <2>3 DEF Answer, Awaited
      <4>2. calls' = <<>> => Len(calls') = 0
        OBVIOUS
      <4> QED BY <1>0, <3>2, <4>1, <4>2
    <3>5. screen' \in -1 .. (MaxPhotos - 1) /\ lost' <= MaxLost
      <4>1. CASE Awaited /\ reply' # NoFd
        <5>1. Stepped(1) \/ Stepped(-1)
          BY <1>3, <2>3, <4>1, GetPhotoSteps, GetPrevPhotoSteps DEF ServeAmbience
        <5>2. cursor' \in Held /\ reply' = buf[Slot(cursor')]
          BY <4>1, <5>1 DEF Stepped
        <5>3. screen' = cursor' /\ lost' = 0
          BY <2>3, <4>1, <5>2, PositionUnique DEF Answer
        <5>4. cursor' \in 0 .. (MaxPhotos - 1)
          BY <5>2 DEF Held, TapeLasts, TypeOK
        <5> QED BY <5>3, <5>4
      <4>2. CASE ~(Awaited /\ reply' # NoFd)
        <5>1. lost' <= MaxLost /\ screen' = screen
          BY <2>3, <4>2 DEF Answer, MoveLost
        <5> QED BY <5>1
      <4> QED BY <4>1, <4>2
    <3>6. Len(calls') <= MaxQueued
      BY <1>0, <3>2
    <3> QED BY <2>1, <2>3, <3>1, <3>3, <3>4, <3>5, <3>6
  <2> QED BY <1>3, <2>2, <2>3 DEF ServeAmbience
<1>4. CASE ServeOther
  <2>1. /\ caller \in {"idle", "popWaiting", "popWoken"}
        /\ caller' \in {"idle", "popWaiting", "popWoken"}
    BY <1>4, MethodReturns DEF ServeOther, Deliver
  <2>2. /\ serving' = IF caller' = "idle" THEN "nobody" ELSE "other"
        /\ lost' <= MaxLost /\ UNCHANGED <<screen, ambience, calls>>
    BY <1>4 DEF ServeOther, MoveLost
  <2> QED BY <2>1, <2>2
<1>5. CASE SetOrStart
  <2>1. UNCHANGED <<ambience, calls, serving>> /\ caller' = caller
    BY <1>5 DEF SetOrStart, Session, SetTargetSize, SetEmbedQr, RegisterOk, RegisterFail,
                PushEmbedQr, PushTargetSize, InstallId, InvalidateCache, Invalidate, vars
  <2>2. screen' \in -1 .. (MaxPhotos - 1) /\ lost' <= MaxLost
    BY <1>5 DEF SetOrStart
  <2> QED BY <2>1, <2>2
<1>6. CASE (Quit \/ ProviderWorker \/ ProviderTerminated) /\ UNCHANGED clientVars
  <2>1. UNCHANGED <<ambience, calls, serving, screen, lost>>
    BY <1>6 DEF clientVars
  <2>2. (caller' \in {"popWaiting", "popWoken"}) <=> (caller \in {"popWaiting", "popWoken"})
    <3>1. CASE Quit
      BY <3>1 DEF Quit, FreeStart, FreeJoined
    <3>2. CASE ProviderTerminated
      BY <3>2 DEF ProviderTerminated, providerVars, vars
    <3>3. CASE WorkerElsewhere
      BY <3>3 DEF WorkerElsewhere, WorkerWait, WorkerRetry, WorkerDiscard, WorkerPlace,
                  WakeCaller, WorkerDrop, WorkerExit, WorkerSpuriousWakeup
    <3>4. CASE BeginFetch \/ SnapshotId \/ FetchFail \/ (\E new \in Fds : FetchOk(new))
      BY <3>4 DEF BeginFetch, SnapshotId, FetchFail, FetchOk, WorkerStartFetch,
                  WorkerFetchFail, WorkerFetchOk, vars
    <3> QED BY <1>6, <3>1, <3>2, <3>3, <3>4 DEF ProviderWorker
  <2> QED BY <2>1, <2>2
<1>7. CASE UNCHANGED systemVars
  BY <1>7 DEF systemVars, clientVars, providerVars, vars
<1> HIDE DEF ClientTyped
<1> QED BY <1>1, <1>2, <1>3, <1>4, <1>5, <1>6, <1>7 DEF ClientNext

\* Every variable stays in its range, for every ring, tape and number of calls
\* that wait: the dispatch thread is in a pop exactly while somebody is served,
\* and the worker of the slideshow waits only for a call it has made.
THEOREM ClientTypeCorrect == ClientSpec => []ClientTypeOK
<1>1. ClientSpec => [](TypeOK /\ RingShape /\ FdsAccounted)
  BY ClientUsesProvider, ProviderUsesCache, TypeCorrect, RingShapeHolds,
     FdsAccountedHolds, PTL
<1>2. ClientSpec => []ProviderTypeOK
  BY ClientUsesProvider, ProviderTypeCorrect, PTL
<1>3. ClientInit => Drift /\ TapeLasts /\ ClientTyped
  <2>1. ClientInit => Drift
    BY DEF ClientInit, ProviderInit, Init, Drift, Apart
  <2>2. ClientInit => TapeLasts /\ ClientTyped
    BY CacheAssumption, ClientAssumption
       DEF ClientInit, ProviderInit, Init, TapeLasts, ClientTyped
  <2> QED BY <2>1, <2>2
<1>4. TypeOK /\ RingShape /\ FdsAccounted /\ Drift /\ [ClientNext]_systemVars => Drift'
  BY DriftStep
<1>5. TypeOK /\ TapeLasts /\ [ClientNext]_systemVars => TapeLasts'
  BY TapeLastsStep, ClientStepIsProviderStep, ProviderStepIsCacheStep
<1>6. TypeOK /\ RingShape /\ FdsAccounted /\ TapeLasts /\ Drift /\ Drift' /\ ClientTyped
        /\ [ClientNext]_systemVars => ClientTyped'
  BY ClientTypedStep
<1>7. ProviderTypeOK /\ Drift /\ ClientTyped => ClientTypeOK
  BY DEF Drift, ClientTyped, ClientTypeOK
<1> QED BY <1>1, <1>2, <1>3, <1>4, <1>5, <1>6, <1>7, PTL DEF ClientSpec
=============================================================================
