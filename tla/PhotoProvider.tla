---------------------------- MODULE PhotoProvider ----------------------------
(***************************************************************************)
(* photo-provider as a whole: the cache of PhotoCache, the www session     *)
(* (www_session.c) that feeds it, and the D-Bus methods (dbus.c) that      *)
(* drive both.                                                             *)
(*                                                                         *)
(* The session registers with the wwwslide server and pushes the target    *)
(* size and the QR flag to the client id it got.  A setter does this again *)
(* on the dispatch thread, one HTTP request after the other, while the     *)
(* worker thread may be anywhere in a fetch: it takes the generation from  *)
(* the cache first and the client id from the session a little later, and  *)
(* the setter installs the new id first and bumps the generation later.    *)
(*                                                                         *)
(* The server is external: a new client has the default look until it is   *)
(* configured, and a photo is rendered with the look its client has.       *)
(***************************************************************************)
EXTENDS PhotoCache

CONSTANTS Sizes,             \* the target sizes the setters accept
          InitSize, InitQr,  \* from the configuration file
          DefaultLook,       \* how the server renders for an unconfigured client
          MaxRegistrations,  \* bound: registrations the server grants
          RegisterMayFail, PushMayFail   \* which HTTP failures happen

ASSUME SessionAssumption ==
  /\ InitSize \in Sizes
  /\ InitQr \in BOOLEAN
  /\ DefaultLook \in [size : Sizes, qr : BOOLEAN]
  /\ MaxRegistrations \in Nat /\ MaxRegistrations <= MaxGeneration
  /\ RegisterMayFail \in BOOLEAN /\ PushMayFail \in BOOLEAN

Looks == [size : Sizes, qr : BOOLEAN]
ClientIds == 1 .. MaxRegistrations
NoClient == 0                \* the empty client_id

VARIABLES
  size, qr,      \* the session's target size and QR flag
  clientId,      \* the installed client_id
  session,       \* the step of reregister the dispatch thread is at
  newId,         \* its local
  started,       \* pp_www_session_start has returned 0
  fetchId,       \* the worker's snapshot of the client_id
  looks,         \* server: client id |-> how it renders for that client
  photoClient,   \* history: the client id each memfd's photo was fetched with
  photoLook,     \* and how it was rendered
  returned,      \* what the last setter returned: 0 or -1
  unsynced       \* history: a request of the last registration failed

sessionVars == <<size, qr, clientId, session, newId, started, looks, returned, unsynced>>
photoVars == <<photoClient, photoLook>>
providerVars == <<vars, sessionVars, photoVars, fetchId>>

SessionSteps == {"idle", "register", "pushQr", "pushSize", "install",
                 "invalidate", "failed"}

Settings == [size |-> size, qr |-> qr]

\* pp_www_session_start has been called and is about to register.
ProviderInit ==
  /\ Init
  /\ size = InitSize /\ qr = InitQr
  /\ clientId = NoClient /\ newId = NoClient /\ fetchId = NoClient
  /\ session = "register" /\ started = FALSE
  /\ looks = [id \in ClientIds |-> DefaultLook]
  /\ photoClient = [f \in Fds |-> NoClient]
  /\ photoLook = [f \in Fds |-> DefaultLook]
  /\ returned = 0 /\ unsynced = FALSE

-----------------------------------------------------------------------------
\* The dispatch thread in the session.

\* It handles one D-Bus call at a time, and none before the start has succeeded.
CanDispatch == started /\ session = "idle" /\ caller = "idle" /\ ~shutdown

\* A setter stores the value and re-registers if it changed.
SetTargetSize(s) ==
  /\ CanDispatch
  /\ size' = s
  /\ session' = IF s = size THEN "idle" ELSE "register"
  /\ returned' = IF s = size THEN 0 ELSE returned
  /\ UNCHANGED <<vars, qr, clientId, newId, started, looks, unsynced, photoVars, fetchId>>

\* Mutant: the flag is stored, but the server is not told.
StoreEmbedQr(v) ==
  /\ CanDispatch
  /\ qr' = v
  /\ returned' = 0
  /\ UNCHANGED <<vars, size, clientId, session, newId, started, looks, unsynced,
                 photoVars, fetchId>>

SetEmbedQr(v) ==
  /\ CanDispatch
  /\ qr' = v
  /\ session' = IF v = qr THEN "idle" ELSE "register"
  /\ returned' = IF v = qr THEN 0 ELSE returned
  /\ UNCHANGED <<vars, size, clientId, newId, started, looks, unsynced, photoVars, fetchId>>

RegisterOk ==
  /\ session = "register" /\ newId < MaxRegistrations
  /\ newId' = newId + 1
  /\ session' = "pushQr"
  /\ unsynced' = FALSE
  /\ UNCHANGED <<vars, size, qr, clientId, started, looks, returned, photoVars, fetchId>>

\* The setter returns -1; at startup main frees the cache and exits.
RegisterFail ==
  /\ session = "register" /\ RegisterMayFail
  /\ session' = IF started THEN "idle" ELSE "failed"
  /\ returned' = -1 /\ unsynced' = TRUE
  /\ UNCHANGED <<vars, size, qr, clientId, newId, started, looks, photoVars, fetchId>>

\* The result of either push is ignored.
PushEmbedQr(ok) ==
  /\ session = "pushQr" /\ (ok \/ PushMayFail)
  /\ looks' = IF ok THEN [looks EXCEPT ![newId].qr = qr] ELSE looks
  /\ unsynced' = (unsynced \/ ~ok)
  /\ session' = "pushSize"
  /\ UNCHANGED <<vars, size, qr, clientId, newId, started, returned, photoVars, fetchId>>

PushTargetSize(ok) ==
  /\ session = "pushSize" /\ (ok \/ PushMayFail)
  /\ looks' = IF ok THEN [looks EXCEPT ![newId].size = size] ELSE looks
  /\ unsynced' = (unsynced \/ ~ok)
  /\ session' = "install"
  /\ UNCHANGED <<vars, size, qr, clientId, newId, started, returned, photoVars, fetchId>>

InstallId ==
  /\ session = "install"
  /\ clientId' = newId
  /\ session' = "invalidate"
  /\ UNCHANGED <<vars, size, qr, newId, started, looks, returned, unsynced, photoVars,
                 fetchId>>

\* on_invalidate flushes the cache, and the setter returns 0.
InvalidateCache ==
  /\ session = "invalidate"
  /\ Invalidate
  /\ session' = "idle"
  /\ started' = TRUE
  /\ returned' = 0
  /\ UNCHANGED <<size, qr, clientId, newId, looks, unsynced, photoVars, fetchId>>

Session ==
  \/ \E s \in Sizes : SetTargetSize(s)
  \/ \E v \in BOOLEAN : SetEmbedQr(v)
  \/ RegisterOk \/ RegisterFail
  \/ \E ok \in BOOLEAN : PushEmbedQr(ok)
  \/ \E ok \in BOOLEAN : PushTargetSize(ok)
  \/ InstallId \/ InvalidateCache

GetPhoto ==
  \/ \E ok \in BOOLEAN : PopTake(ok)
  \/ PopWait \/ PopTimeout \/ CallerSpuriousWakeup

GetPrevPhoto ==
  \/ \E ok \in BOOLEAN : PopPrev(ok)
  \/ PopPrevRefused

Deliver ==
  /\ started /\ session = "idle"
  /\ GetPhoto \/ GetPrevPhoto
  /\ UNCHANGED <<sessionVars, photoVars, fetchId>>

\* main frees the cache when it is told to quit or the start failed.
Quit ==
  /\ session \in {"idle", "failed"}
  /\ FreeStart \/ FreeJoined
  /\ UNCHANGED <<sessionVars, photoVars, fetchId>>

-----------------------------------------------------------------------------
\* The worker thread in the session: pp_www_session_fetch_next.

BeginFetch ==
  /\ WorkerStartFetch
  /\ fetchId' = NoClient
  /\ UNCHANGED <<sessionVars, photoVars>>

SnapshotId ==
  /\ worker = "fetching" /\ fetchId = NoClient /\ clientId # NoClient
  /\ fetchId' = clientId
  /\ UNCHANGED <<vars, sessionVars, photoVars>>

\* The history of a photo ends with its descriptor.
Remembered(history, nothing) ==
  [f \in Fds |-> IF f \in open THEN history[f] ELSE nothing]

\* The photo and its metadata arrive.
FetchOk(new) ==
  /\ fetchId # NoClient
  /\ WorkerFetchOk(new)
  /\ photoClient' = [Remembered(photoClient, NoClient) EXCEPT ![new] = fetchId]
  /\ photoLook' = [Remembered(photoLook, DefaultLook) EXCEPT ![new] = looks[fetchId]]
  /\ fetchId' = NoClient
  /\ UNCHANGED sessionVars

\* A request failed, or there is no client id yet.
FetchFail ==
  /\ fetchId # NoClient \/ clientId = NoClient
  /\ WorkerFetchFail
  /\ fetchId' = NoClient
  /\ UNCHANGED <<sessionVars, photoVars>>

WorkerElsewhere ==
  /\ \/ WorkerWait \/ WorkerRetry \/ WorkerDiscard \/ WorkerPlace \/ WorkerDrop
     \/ WorkerExit \/ WorkerSpuriousWakeup
  /\ UNCHANGED <<sessionVars, photoVars, fetchId>>

ProviderWorker ==
  \/ BeginFetch \/ SnapshotId
  \/ \E new \in Fds : FetchOk(new)
  \/ FetchFail \/ WorkerElsewhere

ProviderTerminated == caller = "freed" /\ UNCHANGED providerVars

ProviderNext == Session \/ Deliver \/ Quit \/ ProviderWorker \/ ProviderTerminated

ProviderSpec == ProviderInit /\ [][ProviderNext]_providerVars

-----------------------------------------------------------------------------
\* Correctness.

\* Every variable of the session stays in its range.
ProviderTypeOK ==
  /\ TypeOK
  /\ size \in Sizes /\ qr \in BOOLEAN /\ started \in BOOLEAN
  /\ clientId \in 0 .. MaxRegistrations /\ newId \in 0 .. MaxRegistrations
  /\ fetchId \in 0 .. MaxRegistrations
  /\ session \in SessionSteps
  /\ looks \in [ClientIds -> Looks]
  /\ photoClient \in [Fds -> 0 .. MaxRegistrations]
  /\ photoLook \in [Fds -> Looks]
  /\ returned \in {0, -1} /\ unsynced \in BOOLEAN

\* Outside the moment between installing an id and flushing the cache, during
\* which no photo can be asked for, every photo in the ring was fetched with
\* the installed client id: whatever the overlap of a fetch and a setter, a
\* photo of an older registration is never left to be shown.
RingFresh ==
  session # "invalidate" =>
    \A p \in Held : photoClient[buf[Slot(p)]] = clientId

\* GetPhoto or GetPrevPhoto hands out a photo.
Delivered == cursor' \notin {cursor, -1}
LookDelivered == photoLook[buf[Slot(cursor')]]

\* Once every request of a registration has succeeded, whatever fetches and
\* other setters it overlapped with, a photo handed out is rendered with the
\* settings the session holds.
DeliversSettings ==
  [][Delivered /\ ~unsynced => LookDelivered = Settings]_providerVars

\* README.md:3 "any change triggers a fresh server-side registration and flushes
\* the cache", www_session.h:37-38 "Return 0 on success (including "no
\* change")": after a setter that returned 0, photos are rendered with its
\* settings.
DeliversAccepted ==
  [][Delivered /\ returned = 0 => LookDelivered = Settings]_providerVars
=============================================================================
