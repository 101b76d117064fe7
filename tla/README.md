# Verification of homeboard

Homeboard V2 is a picture frame: a set of small C daemons that talk over D-Bus
and draw straight to the display. This directory holds TLA+ models of the
daemons' concurrent and stateful parts, the TLC configurations that check them,
and proofs, checked by TLAPS, that the most important properties hold for every
value of the parameters.

To check a model: `tlc -config PhotoCache.cfg MCPhotoCache.tla`. To check
proofs: `tlapm PhotoCacheProofs.tla`. `PROJECT.json` lists every run with its
properties, every mutant (a plausible bug of the code, defined next to the
definition it breaks and marked `Mutant:`), the source lines behind every
definition, the hazards, the findings and the theorems.

## The system

| part | state | operations | threads and interaction |
| --- | --- | --- | --- |
| `photo-provider` cache (`cache.c`) | ring of memfds with head, cursor, tail; generation; shutdown | pop next, pop previous, invalidate, free; the worker's fetch and place | worker thread and D-Bus dispatch thread, one mutex, one condition variable; fetches are made without the mutex |
| `photo-provider` session (`www_session.c`, `dbus.c`) | client id, target size, QR flag | register at start, SetTargetSize, SetEmbedQr, fetch | the worker reads the client id under a lock of its own; setters run on the dispatch thread and flush the cache |
| `ambience` slideshow (`slideshow.c`, parts of `main.c`, `eink_meta.c`) | semaphore, skip count, stop flag, pending announcement, what screen and e-ink show | start, stop, next, prev, announce; fetch, draw, wait | worker thread and main thread; the worker calls photo-provider over D-Bus |
| `ambience` display gate (`display.c`, `dbus.c`) | last report, latch of a forced off, what was last asked of the display | occupancy report, sensor lost, force on, force off | the main thread; blocks in calls to display-mgr while messages queue up |
| `display-mgr` (`main.c`, `dbus.c`, `drm.c`) and `lib/drm_mgr` | lease holder, display on, state at startup | AcquireLease, ReleaseLease, On, Off, Status; a client's mapping | one daemon, many clients; a client's death is noticed by the bus |
| sensor link (`ld2410s_uart/session.c`, `transport.c`) | ring of commands, one-answer slot, both sides' waits | a call (enable, command, end), send, receive | caller and reader threads; lock-free ring one way, slot with condition variable the other; a lossy serial line |
| occupancy poller (`occupancy-sensor-ld2410s/main.c`, `ld2410s.c`, `ld2410s_uart.c`) | occupancy, distance and vacancy count of the last reports, hysteresis, what was announced, day of the last calibration | decode a report, poll and announce, set parameters, calibrate, shut down | reader thread writes three atomics, which the poller thread samples and the main thread tests before a calibration; both are joined at the end |
| `dbus-mqtt-bridge` (`main.c`, `mqtt.c`, `dbus_client.c`) | both connections, when the next reconnection is due, signals that sd-bus has read and not dispatched | forward signals as retained state, forward commands as calls, reconnect, quit | one thread, poll loop over both connections; blocks in the calls it makes |
| `lib/eink`, `lib/jpeg_render`, `lib/rpigpio`, tools | device registers, pixels | draw, decode, read pins | single-threaded |

A presence detected by the sensor is signalled by the poller. ambience's gate
calls `Display.On`, then starts the slideshow. The slideshow takes
the framebuffer lease from display-mgr, and its worker asks photo-provider for a
photo, draws it with an announcement if one is pending, writes its place and
year to the e-ink display and waits. An empty room reverses all this. The
bridge exposes the state and the commands over MQTT.

What is hard here: two threads in cache, slideshow and sensor link that give up
their locks around slow operations; a generation and a client id that change in
one order and are read in the other; a semaphore and counters that are drained,
posted and read separately; blocking calls that time out at one end and are
served at the other; caches of another daemon's state (`requested_state`,
`g_display_on`, `last_text`); clients and daemons that die and restart; failing
requests in the middle of an operation; a loop that polls descriptors while
messages already lie in the process; a broker that takes a broken connection for
a live one.

What makes each part correct: the cache loses and leaks no photo, keeps the
promised history and never lets a thread sleep through work; the session never
shows photos of an old configuration; ambience moves through the photos in
order, whichever of its calls time out; the slideshow serves each press, and
stops when told; the poller announces what lasts, and only that, and has the
sensor calibrated only in an empty room; the gate makes the display follow the last report that counts; the
lease is exclusive and comes free; a call to the sensor gets its own answer; what
the broker retains is the newest state, and it knows whether a bridge is there.

## Modules

### PhotoTape, PhotoCache (photo-provider/cache.c)

`PhotoTape` is what a client is promised: photos come in the order they were
fetched, none skipped or repeated, a step back and forward again returns the
same photo, and what may be shown is not forgotten. `PhotoCache` is the code:
`Worker` has a step for each stretch of the worker between two releases of the
mutex (check, wait, fetch, place or close, sleep), the dispatch thread one
for each of its calls and for each awakening of a pop. Waiting on the condition
variable is a state; `WakeWorker` and its caller's counterpart model the broadcasts, and
spurious wakeups are possible at any time. `open` is the set of descriptors open
on the cache's behalf, `shown` a history variable. `ImplementsTape` instantiates
`PhotoTape` with the held range of the ring as the tape.

### PhotoProvider (www_session.c, dbus.c, main.c)

EXTENDS `PhotoCache` and puts the session on top: a registration is a sequence
of HTTP requests on the dispatch thread, each of which may fail, while the
worker may be between its reading of the generation and of the client id. The
server, external, knows for each client id how it renders. `DeliversSettings`
relates what is handed out to the settings of the session over all of this.

### PhotoClient (slideshow.c and photo-provider together)

EXTENDS `PhotoProvider` with the client it has: ambience's worker blocks in
GetPhoto or GetPrevPhoto and gives up after the 25 s of the bus, while the
provider's pop waits for 30 s, so that a call given up is still served and its
answer dropped. `calls` is what ambience has under way; other clients' calls
interleave (`ServeOther`), and the setters may flush the ring meanwhile.
`screen` is the position of the photo last shown, `lost` counts the moves since
then that ambience did not see: `StepsInOrder` bounds by it how far the photo
shown may be from the one asked for. Every step is one of `ProviderSpec`, so
what is proved of the provider and the cache holds here.

### Slideshow (ambience/slideshow.c, main.c, eink_meta.c)

The worker's loop, step by step: drain the semaphore, take the skip count,
fetch, e-ink text, decode, overlay, blit, wait. The main thread starts, stops
(set the flag, post, join, clear), counts and posts presses, and hands
announcements over through `announcement_pending`. photo-provider is a
nondeterministic fetch here.
The e-ink display starts with whatever a killed process left on it; the history
`latest` is the text of the last photo fetched that has one.

### OccupancyGate (ambience/display.c, dbus.c, dbus_helpers.c)

The dispatch thread as a state machine that takes the oldest message of its
inbox, or waits for the answer of a Display call. The calls queue up at
display-mgr and are served in order, also those that the gate no longer awaits.
display-mgr may restart, and others may set the panel (`meddled` remembers it).

### FramebufferLease, DisplayMgr (display-mgr, lib/drm_mgr)

`FramebufferLease` is what clients are promised (display-mgr's README.md, Lease
semantics), without a bus: there is one framebuffer to lend, a lessee, and what
each client draws to; the framebuffer comes back only from a client that has
laid it down, and a new one is one nobody has. `DisplayMgr` is the code, and
`ImplementsLease` instantiates the promise with the daemon's holder, the number
of its start and the clients' buffers.

Clients acquire, map and release; calls of theirs wait in the daemon's inbox,
time out, or outlive their sender. The end of a tracked client is a message as
well. The daemon can crash and start again, with a new framebuffer; a number
tells the framebuffers apart, so a client that still draws to an old one is no
conflict. Switches of the panel may fail.

### SensorLink (ld2410s_uart/session.c, transport.c)

A call sends Enable, the command and End, each cleared for, enqueued,
published and waited for in separate steps. `spsc_enqueue` and `spsc_dequeue`
are each split where they touch the shared indices, so `RingKeepsFrames` is
about the order of slot and index. The sensor and the line answer late, with an
error, garbled or never.

### OccupancyPoller (occupancy-sensor-ld2410s/main.c, ld2410s.c, ld2410s_uart.c)

The reader thread stores occupancy, distance and vacancy count in a step each,
as `decode_report` and `on_uart_report` do; the poller thread loads the pin, the
occupancy and the distance in a step each and judges the sample in `Decide`,
hysteresis and first announcement included; the main thread applies parameters,
tests whether a calibration is due, and makes its calls. A call is abstracted
from `SensorLink`: three frames, each obeyed or not and answered or not, and a
sensor in its configuration mode reports nothing. `samples` and `emptyRun` are
histories for the properties. Shutdown joins the poller, then the reader.

### MqttBridge (dbus-mqtt-bridge)

`phase` says where the one thread is: in its loop, or in a blocking call. A
message of the bus is first on `wire`, where poll sees it; a call that reads on
in search of its reply moves the others to `rqueue`, where poll does not. Once
poll reports the descriptor, `ProcessBus` dispatches one message at a time, first
those of `rqueue`, in the phase "dispatching", until both are empty; services,
broker and network go on meanwhile. `socket` is what
libmosquitto believes of the connection, `linked` what it is, and `session` and
`ghost` what the broker knows of it, so that either end may notice a break
late. `TryConnect` is `try_connect` with its throttle, and is part of every
step that calls it. `truth` is what the services last announced; `missed`
remembers the topics whose last announcement was lost with a connection or a
process, which a QoS 0 message may be. Services, broker, network and
libmosquitto are external.

## Runs

| run | what it asks | bounds |
| --- | --- | --- |
| `PhotoCache` | ring bounds, descriptors, lost wakeups, history, refinement of the tape, shutdown, no endless fetch-and-drop | history 2, prefetch 1: four slots, and six photos wrap the ring; one invalidation; five memfds, one more than slots |
| `PhotoClient` | no stale photo in the ring, what is delivered has the settings in force, ambience moves in order | two sizes, two registrations, three photos through a ring of two slots, three memfds, two calls of ambience at the provider, one lost move; any request to the server may fail |
| `PhotoProvider_retry` | violation: a setter's retry after a failure | two sizes, two registrations, four photos |
| `Slideshow` | types, clean stop, presses never slept over and always served, announcements never torn, no outdated e-ink text | two texts and none, two unserved presses, valid and invalid announcement times |
| `Slideshow_stop` | violation: a stop that is never noticed | as above, smaller |
| `OccupancyGate` | types, the slideshow follows the last report, the latch holds, the panel follows | three messages, three calls waiting |
| `DisplayMgr` | types, exclusive lease, refinement of the lending, dead holders noticed and freed, Status agrees with the panel | three clients, two messages, two starts of the daemon |
| `SensorLink` | types, ring, configuration mode closed, answers in step, every call ends | one command, ring of two, two calls |
| `SensorLink_stray` | violation: a stray answer is taken for the present one | as above |
| `OccupancyPoller` | types, only lasting changes are announced, what lasts is, calibration only in an empty room, a forced one happens | two distances, delay of one sample, one sample to become occupied and two to become vacant, two empty reports for a calibration, one parameter, one day |
| `MqttBridge` | types, retained state is the newest, state/bridge is true, the connection comes back | one topic, three messages between service and broker, one call waiting |
| `MqttBridge_queued` | violation: a signal that came during a call stays in the process | as above, one message |

Why these bounds are enough. In the cache, positions matter only by their
differences, which the ring bounds; four slots leave room for every relation of
head, cursor and tail, and the photos suffice to fill and wrap the ring while
the cursor is anywhere; two generations are what an old and a new need. Two presses
exceed what the worker takes in one turn. Three messages are one in handling,
one overtaken and one that overtakes. Three clients are a holder, one who is
refused and one late; two starts of the daemon are before and after a crash. A
call of three frames overflows a ring of two, and a second call meets the late
answers of the first. In `PhotoClient` one call is awaited while another, given
up, is still at the provider; a ring of two slots already evicts, wraps and
refuses steps back, and the larger ring is checked by `PhotoCache` and both are
covered by the proofs. The poller's two directions have thresholds of one and
of two samples, so a change is both immediate and interrupted while it is
counted; the code's thresholds only count further. A hysteresis of 0 is in the
run and acts as 1. Two empty reports let somebody come in between, and one day
makes the daily calibration and the forced one meet. The bridge treats its topics alike and keeps nothing per
topic; three messages are one published, one queued during a call and one after
it. `MaxUnderWay`, `MaxInbox`, `MaxCalls`, `MaxPosts`, `MaxBuffers`,
`MaxFrames`, `MaxPhotos`, `MaxGeneration`, `MaxRegistrations`, `MaxQueued` and
`MaxLost` are the bounds
of the environment; each is a constant named as such, and only TLC needs it to
be small. The proofs need none of them to be.

Symmetry is used for the memfds in `PhotoClient`, where only safety is checked. `CHECK_DEADLOCK FALSE` stands in the configurations of `DisplayMgr`,
whose clients may all have gone and whose starts are then used up,
and of `SensorLink`, where nobody makes a further call once the bound is reached.
In the other models an explicit `Terminated` step, or the environment, keeps
the system going, so TLC also checks that nothing else gets stuck.

### Fairness

- `PhotoCache`: the worker is scheduled; a fetch ends because curl has a
  timeout; a pop's wait has a deadline; the join returns when the worker is
  done. That a D-Bus call arrives is not assumed.
- `Slideshow`: the worker is scheduled, its D-Bus call returns within the bus's
  timeout, and a main thread that is in the middle of a call completes it. That
  anyone presses, starts or stops is not assumed.
- `DisplayMgr`: the daemon keeps reading its bus. Clients need not do anything.
- `SensorLink`: both threads run, and waits time out. The sensor and the line
  need not do anything.
- `MqttBridge`: the loop polls at least once a second, and each of its turns
  serves the bus, then the broker, then the connection (main.c:184-204). Commands
  make it block in between, so each of the three is strongly fair: whenever the
  loop comes round again and again, so does each part of it. A call ends
  because of the bus's timeout, the throttle because of the clock; ambience and
  the broker serve what they are sent. `Reconnects` and `ReflectsSlideshow`
  assume, in their left-hand side, that the network stays up, that the bridge is
  not stopped, and that `phase` is "running" again and again: the code dispatches
  until the bus has nothing more, and services that never pause would keep it there.
- `OccupancyPoller`: the three threads run, and a call ends because its waits
  time out. The sensor need not report, the pin need not change, nobody need
  quit. `AnnouncesLevel` assumes on its left that pin and reports settle;
  `ForcedCalibrates` that the sensor goes on reporting an empty room and that in
  the end no frame fails, which is what the code's retry needs.
- `PhotoClient`, `PhotoProvider` and `OccupancyGate` check safety only and
  assume none.

## Findings

Each is a run that TLC finds violated, with the quoted promise in
`PROJECT.json`.

1. `Slideshow_stop` (slideshow.c:198): the drain at the top of the loop may eat
   the stop's only post, and neither it nor the time-out path of the wait looks
   at `stop_requested`; the join waits for ever.
2. `PhotoProvider_retry` (www_session.c:246): a setter stores its value before
   the registration that may fail, so the retry sees no change and returns 0.
3. `SensorLink_stray` (session.c:99): the wait ends with the wrong answer, which
   the comments say is discarded.
4. `MqttBridge_queued` (dbus-mqtt-bridge/main.c:192): a signal that arrives
   during a command's blocking call is dispatched only when the bus sends
   something else; after a `force_off` the retained `slideshow_active` may stay
   "true".

### Known deviations

Seen while modelling; they show in a single call, or a property for them would
only restate the code, so no run is spent on them. The models keep the code's behaviour.

- A refused GetPrevPhoto renders the fallback image (slideshow.c:216) over the
  picture that slideshow.h:51-52 says stays.
- display-mgr reads the state it restores at the end (main.c:30) after
  `drm_create_framebuffer` (main.c:25) has lit the panel, so it restores "on".
- The bridge never reopens its D-Bus connection (dbus-mqtt-bridge/main.c:192-195;
  its README.md:22 says it does, "implicitly"). It does not publish again, after a
  reconnection, what it could not (README.md:126 has it forwarded once "MQTT is
  back"; the model's `missed`), and waits a fixed 30 s (mqtt.c:13), not 2 s to 30 s.
- With an empty `mqtt_client_id` (mqtt.c:100) every connection has an id of its
  own, and the will of a broken one may come after the new one's "online". The
  model has the configured id.
- One press may move two photos: the press is counted (slideshow.c:385) before
  it is posted, and a worker between the two serves it and is woken again.
- A next and a prev that meet give a skip of 0, and the worker, woken, goes
  forward.
- `jpeg_load_fd` closes the descriptor it is given (jpeg_loader.h:15-16) and
  slideshow.c:213 closes it again.
- Empty or unreadable metadata makes `eink_meta_render` return at once
  (eink_meta.c:46-50; slideshow.c:135 passes "" for none): the new photo is drawn
  while the e-ink display keeps an earlier photo's text. A process that was
  killed leaves its last text there too, and nothing clears it at the start.
  `EinkOfLatest` says only that no text older than the last readable one shows.
- `eink_meta_clear` (eink_meta.c:39) clears the display but not `last_text`:
  the same text is then not drawn again.
- The announce range check refuses 5 and 30 (ambience/main.c:60), which its
  message calls valid.
- With a history depth of 0, GetPrevPhoto still works when the worker has
  not yet evicted (cache.c:262).
- The results of the pushes are ignored (www_session.c:159-160): a registration whose
  settings did not arrive counts as good. `DeliversSettings` excludes it by `unsynced`;
  with `PushMayFail = TRUE` it violates `DeliversAccepted`, as :246 does in the run.
- A failed mode-set is dropped (display-mgr/dbus.c:24) and `g_display_on` is
  then wrong. `StatusIsPanel` excludes it by `faulted`.
- `session_free` (session.c:142-143) reads `s->debug` after freeing `s`;
  `ld2410s_init` (ld2410s.c:110-113) leaks `s` when it gets no callback.
- `display_init` callocs its state, so `requested_state` (display.c:112) starts
  as "off was asked for", not as unknown: the first vacant report makes no call,
  although display-mgr lit the panel when it started. `OccupancyGate` starts
  with the panel in either state and `meddled` set.
- After a failed Display call nothing retries until the next message that counts.
- A timed-out GetPhoto is served late and a photo is skipped, or repeated after
  a GetPrevPhoto (`StepsInOrder` says by how much).
- The memfd's file offset is shared by the provider and every client it was
  sent to.
- SIGTERM between the test of `g_quit` and the unbounded `sd_bus_wait`
  (ambience/dbus.c:170) is noticed with the next message only.
- `connect_worker_bus`: after a failed reopen `worker_bus` is null, later calls
  give -EINVAL, not the -ENOTCONN that is looked for, and it is never opened again.
- If SetTargetSize times out in `push_initial_config`, SetEmbedQr is not sent
  until photo-provider restarts.
- A pin that cannot be read (-1 in a bool, ld2410s.c:55) counts as occupied. The
  calibration's gate ignores the pin, and its count goes stale when reports stop.
- If the sensor misses the End of the last call of `apply_sensor_params` it
  stays in its configuration mode, mute, and nothing retries; `ForcedCalibrates`
  excludes it by asking for continued reports. If only the answer to Calibrate
  is lost, the sensor is calibrated again each second.
- Occupancy of one report and distance of another can be announced together;
  `AnnouncesLevel` shows that this is corrected.
- ambience's main.c:175 path after a failed D-Bus start releases a null handle.

## Proofs

All theorems are about the specifications the runs check, for every value of
the constants that meets the modules' assumptions, and so for rings of any size,
any set of clients or topics, queues of any length and no bound on the
environment. Nothing else is assumed. Every safety property that a passing run
checks, invariant or action property, is proved, and so are both refinements.

- `PhotoCacheProofs`. `TypeCorrect` by one step per action. `RingShape`,
  `HistoryRetained` and `LookaheadBounded` are not inductive: placing a photo keeps them only
  because of what the worker saw before it released the mutex. `FetchJustified`
  (`tail <= shown + PrefetchDepth` while a fetch of the current generation is
  under way) is what remains of it; `Positions`, the four together, is
  inductive, using `EvictsOldest` (eviction takes at most one photo and never
  the current one). `NoLostWakeupHolds` follows from types and ring shape.
  `FdsAccountedHolds` rests on lemmas about the slots: `SlotInjective`
  (positions less than a ring apart have different slots, from facts about
  `%`), what an eviction frees and keeps, and what a placement overwrites.
  `TapeImplemented` shows the step simulation: each action maps to a step of
  `PhotoTape` or leaves it unchanged. `RoomWhenShort` is the reason that
  `should_fetch` and the eviction agree. `FreeLeavesNothing`: with `Ended` (after
  the shutdown nobody calls, and the worker leaves the ring empty) the accounting
  of the descriptors says that none is left.
- `PhotoClientProofs` begins with the session. `ProviderUsesCache`: every
  behaviour of the provider is one of the cache, so the cache's theorems hold of
  it. `RingFreshHolds`: the generation is read before the client id and bumped
  after the id is installed; `FetchFresh` says that a fetch whose generation is
  still current used the installed id, which makes `RingFresh` inductive.
  `DeliversSettingsHolds` adds `Rendering`: client ids are handed out in order, a
  photo looks as the server renders for the id it was fetched with, and while the
  session is at rest and no push has failed, the server renders for the installed
  id as the session is set. `ProviderTypeCorrect` is by one step per action.
  Then ambience: `ClientUsesProvider` maps every step to a step of `ProviderSpec`
  or a stutter, so `ClientRingFresh`, `ClientDeliversSettings` and
  `ClientPlaysTape` are corollaries. `StepsInOrderHolds` rests on `Drift`: until
  the shutdown, cursor and screen are at most `lost` apart. The distance is the
  operator `Apart`, with lemmas for how one move changes it. `ClientTypeCorrect`
  is more than ranges, as positions on the screen are bounded by the tape:
  `TapeLasts` bounds what is recorded, `Drift` ties the screen to it, and
  `ClientTyped` says that the dispatch thread is in a pop exactly while it serves
  somebody. The runs leave this invariant out; only the theorem states it.
- `SlideshowProofs`. `SlideshowInv` adds what ties the two threads together: a
  press not yet read has a post on the semaphore or on its way
  (`PressHasPost`), the flag is set only during a stop, the worker exists
  exactly while `running` is set, a pending announcement has its string.
  `EinkOfLatestHolds` rests on `EinkBelieved`: what `last_text` says has been
  drawn or cleared since, and only the photo just fetched may be newer.
- `DisplayMgrProofs`. `LeaseIsExclusive` rests on the order of the bus: a client
  with a buffer has nothing on its way (`NothingUnderWay`), so no late release
  of its own can take the lease away; the call it waits for is its last
  (`AwaitedIsLast`); only the holder has the current buffer (`HolderHasIt`).
  The same invariant carries `LeaseImplemented`, the step simulation of
  `FramebufferLease`: that the daemon gets the framebuffer back only from a
  client that has laid it down (`CameBack`) is `NothingUnderWay` for the message
  it takes. `LendingGivesOneEach` is about the abstract specification alone and shows
  that it promises enough. `DeadHolderIsNoticed` follows the notice through the
  inbox. `StatusTellsThePanel` needs the types only.
- `OccupancyGateProofs`. Inbox and queue of calls have any length. `Blocked`
  says what holds while the dispatch thread is in a call; `OnTheirWay` says that
  only the last call waiting at display-mgr can be an awaited one, that it is
  what the gate asked for, and that all others were abandoned before it.
  `LastReportServed`, `ForcedOffHolds` and `PanelFollowsGate` follow at rest.
- `SensorLinkProofs`. For every size of the ring. `RingInv` describes the cells
  between tail and head, the one being written and the one being sent, with
  lemmas about positions modulo the size; `ClosingInv` that the last frame under
  way is an End unless one was missed; and `Lockstep` that, as long as no
  wait has timed out, at most one frame or answer is between caller and sensor,
  the caller's own. From them `RingKeepsFramesHolds`, `ConfigClosedHolds` and
  `AnswersInStepHolds`.
- `OccupancyPollerProofs`. For every delay, hysteresis and number of reports.
  `Unopened` (no thread before the lines are open) makes the types inductive;
  `Counted` ties the vacancy count to the reports received, at most one behind,
  and gives `CalibratesOnlyVacantHolds`; `PendingSampled` (what is pending was
  sampled as often as it is counted) gives `AnnouncesOnlyStableHolds`.
  `EverySampleCountsHolds` is the other direction, step by step: a sample that
  differs from what is announced leaves one less to wait for.
- `MqttBridgeProofs`. For every set of topics. The types need `HasMore`: who is
  dispatching has something to dispatch. `BridgeSpeaksTrue` rests on
  `Conversation`, the order of the packets of one connection: first "connect"
  (`ConnectFirst`); "subscribe" before "online", and both only in an accepted
  session (`ListensFirst`); "offline" and "disconnect" last, and only from a
  process that has ended (`FarewellLast`); with what either side knows of the
  other (`Accepted`, `Settled`). A bridge state that is true now would not stay
  so without it: an "online" still on its way would make it false when it comes.
  `RetainedStateIsNewest` is proved for each topic by itself (`Right`): what the
  bus has last of it is what its service announced last, whether or not
  something was lost; only then may a later announcement mend what an earlier
  one has lost. Its lemmas say what adding, taking and moving messages does to the last
  one about a topic (`SaysAdded`, `SaysTaken`, `SaysRelabelled`).

Only model-checked: the liveness properties (`ShutdownCompletes`,
`WorkerSettles`, `PressServed`, `DeadHolderFreed`, `CallsEnd`, `AnnouncesLevel`,
`ForcedCalibrates`, `Reconnects`), since the proof system has no rules for
fairness and ENABLED. Of five of them what the code contributes is proved, for
all values, as an action property that says that a measure only falls:

| liveness, model-checked | theorem | what falls |
| --- | --- | --- |
| `ShutdownCompletes` | `ShutdownAdvancesHolds` | the worker's steps to its end, at most three |
| `PressServed` | `PressAdvancesHolds` | the worker's steps to its reading of `skip_count`, at most nine |
| `DeadHolderFreed` | `NoticeAdvancesHolds` | the place of the notice in the inbox |
| `CallsEnd` | `CallShortensHolds` | the caller's steps left, at most fifteen |
| `AnnouncesLevel` | `EverySampleCountsHolds` | the samples still missing, of the start-up delay or of the hysteresis, as long as they agree |

What remains of these for TLC is that fairness makes the thread take its steps.

## Not modelled

- `lib/eink`: SPI commands and drawing in one thread. Its one hard point is what
  the panel does with a command sent while it is still busy, after the wait of
  500 ms has run out, and that is the controller's behaviour, which no code here
  defines.
- `lib/jpeg_render`, `lib/rpigpio` and their tools: decoding, drawing and
  register access, single-threaded and without a protocol; success and failure
  of decoding is a choice in `Slideshow`, a pin's level one in `OccupancyPoller`.
- Command-line tools and test programs: a single call each, and part of the
  environment in the models of the services.
- Configuration loaders, build files and scripts.
- Inside the modelled parts: byte contents and file offsets of photos, the dump
  to disk, metadata other than the e-ink text, logging, start-up and shutdown
  of the sensor link, the sensor commands no service sends, several outputs in
  display-mgr (they are one panel), the loss of the bridge's D-Bus connection,
  payloads of its messages beyond one bit.

## Plan

Done, in this order: `PhotoTape`, `PhotoCache`, `PhotoProvider`, `Slideshow`,
`OccupancyGate`, `DisplayMgr`, `SensorLink`, `MqttBridge`, `OccupancyPoller`,
`PhotoClient`, `FramebufferLease`, and the proofs above.

Left:

1. Measures for the other liveness properties: `Reconnects` (the steps of a
   connection's set-up) and `ForcedCalibrates`.
2. An abstract specification of the bridge, a mirror of the services' states that
   may lag and may lose, with `RetainedIsNewest` as its consequence.
3. The slideshow's stop composed with `PhotoClient`: how long a stop waits for a
   fetch that the provider holds up.
4. Parameter values of the sensor in `OccupancyPoller`, and with them what a
   restart in the middle of `apply_sensor_params` leaves behind.
