--------------------------- MODULE OccupancyPoller ---------------------------
(***************************************************************************)
(* The occupancy service, occupancy-sensor-ld2410s: what the reader thread *)
(* of the serial link reports, and the level of a GPIO pin, are sampled    *)
(* once a second by the poller thread, which announces changes that last;  *)
(* the main thread configures the sensor, has it calibrated when the room  *)
(* is empty, and shuts the others down.                                    *)
(*                                                                         *)
(* The threads share three atomics, each stored and loaded on its own:     *)
(* occupancy and distance of the last report, and how many reports of an   *)
(* empty room came in a row.                                               *)
(*                                                                         *)
(* A call to the sensor is abstracted from SensorLink to its three frames: *)
(* each may be obeyed or not, and seem to the caller to be or not.  In its *)
(* configuration mode the sensor reports nothing.                          *)
(***************************************************************************)
EXTENDS Integers, Sequences

CONSTANTS Distances,
          StartupDelay, HysteresisOccupied, HysteresisVacant,  \* configuration
          VacantReports,   \* VACANT_REPORTS_ROOM_EMPTY_THRESHOLD
          NumParams,       \* keys of the table in apply_sensor_params
          Days             \* values of tm_yday

ASSUME PollerAssumption ==
  /\ Distances \subseteq Nat /\ 0 \in Distances
  /\ StartupDelay \in Nat /\ HysteresisOccupied \in Nat /\ HysteresisVacant \in Nat
  /\ VacantReports \in Nat \ {0} /\ NumParams \in Nat
  /\ Days \subseteq Nat

Never == -1                \* last_cal_yday at the start
AtLeastOne(n) == IF n = 0 THEN 1 ELSE n
Threshold(occ) == AtLeastOne(IF occ THEN HysteresisOccupied ELSE HysteresisVacant)
Window == IF Threshold(TRUE) > Threshold(FALSE) THEN Threshold(TRUE) ELSE Threshold(FALSE)
UpTo(n, max) == IF n > max THEN max ELSE n
Silence == [occupied |-> FALSE, distance |-> 0]
Pairs == [occupied : BOOLEAN, distance : Distances]

VARIABLES
  hasUart, hasGpio,           \* enable_uart; sensor_report_gpio is not -1
  pin,                        \* the pin reads as non-zero
  uartOccupied, uartDistance, \* the atomics of struct LD2410S
  vacancy,                    \* last_vacancy_count, up to VacantReports
  reader, report,             \* the reader thread in decode_report, and its local
  poller, occ,                \* the poller thread, and its local occupied
  first, announced,           \* emitted_first, last_emitted_*
  pending,                    \* pending_state and pending_count, up to Window
  ticks,                      \* up to StartupDelay
  main, purpose, left, today, \* the main thread: where, in which call, parameters
                              \* left to compare, tm_yday of this turn
  lastCal, forced,            \* last_cal_yday, calibration_force
  config,                     \* the sensor is in its configuration mode
  samples,                    \* history: the last Window samples, newest first
  emptyRun                    \* history: reports of an empty room received in a row

uart == <<uartOccupied, uartDistance, vacancy>>
readerVars == <<reader, report, emptyRun>>
pollerVars == <<poller, occ, first, announced, pending, ticks, samples>>
mainVars == <<main, purpose, left, today, lastCal, forced, config>>
setup == <<hasUart, hasGpio>>
vars == <<setup, pin, uart, readerVars, pollerVars, mainVars>>

ReaderSteps == {"none", "idle", "storeOccupied", "storeDistance", "count"}
PollerSteps == {"none", "sleep", "loadOccupied", "decide"}
CallSteps == {"enable", "command", "end"}
MainSteps == CallSteps \cup {"open", "spawn", "params", "loop", "sleep", "joinPoller",
                             "joinReader", "closed"}

Init ==
  /\ hasUart \in BOOLEAN /\ hasGpio \in BOOLEAN /\ pin \in {FALSE, hasGpio}
  /\ uartOccupied = FALSE /\ uartDistance = 0 /\ vacancy = 0
  /\ reader = "none" /\ report = Silence /\ emptyRun = 0
  /\ poller = "none" /\ occ = FALSE /\ first = TRUE /\ announced = Silence
  /\ pending = [state |-> FALSE, count |-> 0] /\ ticks = 0 /\ samples = <<>>
  /\ main = "open" /\ purpose = "params" /\ left = 0 /\ today = Never
  /\ lastCal = Never /\ forced \in BOOLEAN /\ config = FALSE

-----------------------------------------------------------------------------
\* The reader thread: decode_report, and on_uart_report which it calls.

\* The pin goes its own way.  An error of rpigpio_read, -1, becomes true.
PinChanges ==
  /\ hasGpio
  /\ pin' = ~pin
  /\ UNCHANGED <<setup, uart, readerVars, pollerVars, mainVars>>

Receive(r) ==
  /\ reader = "idle" /\ ~config
  /\ report' = r
  /\ emptyRun' = IF r.occupied THEN 0 ELSE UpTo(emptyRun + 1, VacantReports)
  /\ reader' = "storeOccupied"
  /\ UNCHANGED <<setup, pin, uart, pollerVars, mainVars>>

StoreOccupied ==
  /\ reader = "storeOccupied"
  /\ uartOccupied' = report.occupied
  /\ reader' = "storeDistance"
  /\ UNCHANGED <<setup, pin, uartDistance, vacancy, report, emptyRun, pollerVars,
                 mainVars>>

StoreDistance ==
  /\ reader = "storeDistance"
  /\ uartDistance' = report.distance
  /\ reader' = "count"
  /\ UNCHANGED <<setup, pin, uartOccupied, vacancy, report, emptyRun, pollerVars,
                 mainVars>>

\* Mutant: a report of presence does not end the count.
CountOnly ==
  /\ reader = "count"
  /\ vacancy' = IF report.occupied THEN vacancy ELSE UpTo(vacancy + 1, VacantReports)
  /\ reader' = "idle" /\ report' = Silence
  /\ UNCHANGED <<setup, pin, uartOccupied, uartDistance, emptyRun, pollerVars, mainVars>>

Count ==
  /\ reader = "count"
  /\ vacancy' = IF report.occupied THEN 0 ELSE UpTo(vacancy + 1, VacantReports)
  /\ reader' = "idle" /\ report' = Silence
  /\ UNCHANGED <<setup, pin, uartOccupied, uartDistance, emptyRun, pollerVars, mainVars>>

Reader == StoreOccupied \/ StoreDistance \/ Count

-----------------------------------------------------------------------------
\* The poller thread.

Stopping == main \in {"joinPoller", "joinReader", "closed"}

\* A turn of the loop begins with the pin, ...
LoadPin ==
  /\ poller = "sleep" /\ ~Stopping
  /\ occ' = pin
  /\ poller' = "loadOccupied"
  /\ UNCHANGED <<setup, pin, uart, readerVars, first, announced, pending, ticks,
                 samples, mainVars>>

LoadOccupied ==
  /\ poller = "loadOccupied"
  /\ occ' = (occ \/ uartOccupied)
  /\ poller' = "decide"
  /\ UNCHANGED <<setup, pin, uart, readerVars, first, announced, pending, ticks,
                 samples, mainVars>>

\* Mutant: the count goes on over a change of mind.
PendingNeverReset == [state |-> occ, count |-> UpTo(pending.count + 1, Window)]

PendingNow ==
  IF occ = pending.state
  THEN [pending EXCEPT !.count = UpTo(@ + 1, Window)]
  ELSE [state |-> occ, count |-> 1]

\* Mutant: a new distance waits for a new occupancy.
ToAnnounceFlips == occ # announced.occupied /\ PendingNow.count >= Threshold(occ)

\* There is something to announce: an occupancy that has lasted, or another
\* distance while none is waiting to.
ToAnnounce ==
  \/ occ # announced.occupied /\ PendingNow.count >= Threshold(occ)
  \/ occ = announced.occupied /\ uartDistance # announced.distance

\* ... then the distance is loaded, and the sample judged.  The first one after
\* the delay is announced whatever it is.
Decide ==
  /\ poller = "decide"
  /\ ticks' = UpTo(ticks + 1, StartupDelay)
  /\ samples' = SubSeq(<<occ>> \o samples, 1, UpTo(Len(samples) + 1, Window))
  /\ IF first
     THEN IF ticks >= StartupDelay
          THEN /\ first' = FALSE
               /\ announced' = [occupied |-> occ, distance |-> uartDistance]
               /\ pending' = [state |-> occ, count |-> 1]
          ELSE UNCHANGED <<first, announced, pending>>
     ELSE /\ pending' = PendingNow
          /\ announced' = IF ToAnnounce
                          THEN [occupied |-> occ, distance |-> uartDistance]
                          ELSE announced
          /\ UNCHANGED first
  /\ occ' = FALSE
  /\ poller' = "sleep"
  /\ UNCHANGED <<setup, pin, uart, readerVars, mainVars>>

PollerExits ==
  /\ poller = "sleep" /\ Stopping
  /\ poller' = "none"
  /\ UNCHANGED <<setup, pin, uart, readerVars, occ, first, announced, pending, ticks,
                 samples, mainVars>>

Poller == LoadPin \/ LoadOccupied \/ Decide \/ PollerExits

-----------------------------------------------------------------------------
\* The main thread: start.

\* ld2410s_init: pin and serial line are opened and the reader started; with
\* nothing to monitor, or if one of them fails, the service exits.
Open(ok) ==
  /\ main = "open"
  /\ ok => hasUart \/ hasGpio
  /\ main' = IF ok THEN "spawn" ELSE "closed"
  /\ reader' = IF ok /\ hasUart THEN "idle" ELSE "none"
  /\ UNCHANGED <<setup, pin, uart, report, emptyRun, pollerVars, purpose, left, today,
                 lastCal, forced, config>>

\* Of the parameters the configuration file, read once more, may be missing.
Spawn(ok) ==
  /\ main = "spawn"
  /\ poller' = IF ok THEN "sleep" ELSE "none"
  /\ main' \in IF ~ok THEN {"joinReader"} ELSE IF hasUart THEN {"enable", "loop"}
               ELSE {"loop"}
  /\ left' = IF main' = "enable" THEN NumParams ELSE 0
  /\ purpose' = IF main' = "enable" THEN "params" ELSE "calibrate"
  /\ UNCHANGED <<setup, pin, uart, readerVars, occ, first, announced, pending, ticks,
                 samples, today, lastCal, forced, config>>

\* apply_sensor_params: after the call that reads the parameters, each of them
\* is found to be as configured or is set by a call of its own.
NextParam(differs) ==
  /\ main = "params"
  /\ left' = IF left = 0 THEN 0 ELSE left - 1
  /\ main' = IF left = 0 THEN "loop" ELSE IF differs THEN "enable" ELSE "params"
  /\ purpose' = IF left = 0 THEN "calibrate" ELSE "params"
  /\ UNCHANGED <<setup, pin, uart, readerVars, pollerVars, today, lastCal, forced, config>>

-----------------------------------------------------------------------------
\* The main thread: session_cmd.

\* The sensor obeys the Enable frame or not, and the caller takes it for
\* answered or not.
EnableFrame(obeyed, ok) ==
  /\ main = "enable"
  /\ config' = (config \/ obeyed)
  /\ main' = IF ok THEN "command" ELSE "end"
  /\ UNCHANGED <<setup, pin, uart, readerVars, pollerVars, purpose, left, today,
                 lastCal, forced>>

\* Mutant: the wish is forgotten even if the sensor did not answer.
CommandForgets(ok) ==
  /\ main = "command"
  /\ main' = "end"
  /\ lastCal' = IF ok /\ purpose = "calibrate" THEN today ELSE lastCal
  /\ forced' = (forced /\ purpose # "calibrate")
  /\ UNCHANGED <<setup, pin, uart, readerVars, pollerVars, purpose, left, today, config>>

\* A calibration that seems to be answered is done for today.
CommandFrame(ok) ==
  /\ main = "command"
  /\ main' = "end"
  /\ lastCal' = IF ok /\ purpose = "calibrate" THEN today ELSE lastCal
  /\ forced' = (forced /\ ~(ok /\ purpose = "calibrate"))
  /\ UNCHANGED <<setup, pin, uart, readerVars, pollerVars, purpose, left, today, config>>

EndFrame(obeyed) ==
  /\ main = "end"
  /\ config' = (config /\ ~obeyed)
  /\ main' = IF purpose = "params" THEN "params" ELSE "sleep"
  /\ today' = Never
  /\ UNCHANGED <<setup, pin, uart, readerVars, pollerVars, purpose, left, lastCal, forced>>

FrameFails ==
  \/ \E obeyed, ok \in BOOLEAN : EnableFrame(obeyed, ok) /\ ~(obeyed /\ ok)
  \/ CommandFrame(FALSE) \/ EndFrame(FALSE)

Call ==
  \/ \E obeyed, ok \in BOOLEAN : EnableFrame(obeyed, ok)
  \/ \E ok \in BOOLEAN : CommandFrame(ok)
  \/ \E obeyed \in BOOLEAN : EndFrame(obeyed)

-----------------------------------------------------------------------------
\* The main thread: its loop.

Due(hour3, yday) == (hour3 /\ yday # lastCal) \/ forced

RoomEmpty == vacancy >= VacantReports

\* ld2410s_start_calibration: without the serial line it pretends success.
Turn(hour3, yday) ==
  /\ main = "loop"
  /\ IF Due(hour3, yday) /\ hasUart /\ RoomEmpty
     THEN main' = "enable" /\ today' = yday
     ELSE main' = "sleep" /\ today' = Never
  /\ IF Due(hour3, yday) /\ ~hasUart
     THEN lastCal' = yday /\ forced' = FALSE
     ELSE UNCHANGED <<lastCal, forced>>
  /\ UNCHANGED <<setup, pin, uart, readerVars, pollerVars, purpose, left, config>>

WakeUp ==
  /\ main = "sleep"
  /\ main' = "loop"
  /\ UNCHANGED <<setup, pin, uart, readerVars, pollerVars, purpose, left, today,
                 lastCal, forced, config>>

\* The loop ends: ld2410s_free stops and joins the poller, ...
Quit ==
  /\ main = "loop"
  /\ main' = "joinPoller"
  /\ UNCHANGED <<setup, pin, uart, readerVars, pollerVars, purpose, left, today,
                 lastCal, forced, config>>

\* Mutant: the poller is not waited for.
PollerNotJoined ==
  /\ main = "joinPoller"
  /\ main' = "joinReader"
  /\ UNCHANGED <<setup, pin, uart, readerVars, pollerVars, purpose, left, today,
                 lastCal, forced, config>>

PollerJoined ==
  /\ main = "joinPoller" /\ poller = "none"
  /\ main' = "joinReader"
  /\ UNCHANGED <<setup, pin, uart, readerVars, pollerVars, purpose, left, today,
                 lastCal, forced, config>>

\* ... then the reader, which has finished its report, and closes both lines.
ReaderJoined ==
  /\ main = "joinReader" /\ reader \in {"idle", "none"}
  /\ reader' = "none" /\ main' = "closed"
  /\ UNCHANGED <<setup, pin, uart, report, emptyRun, pollerVars, purpose, left, today,
                 lastCal, forced, config>>

Main ==
  \/ \E ok \in BOOLEAN : Open(ok) \/ Spawn(ok)
  \/ \E differs \in BOOLEAN : NextParam(differs)
  \/ Call
  \/ \E hour3 \in BOOLEAN, yday \in Days : Turn(hour3, yday)
  \/ WakeUp \/ PollerJoined \/ ReaderJoined

Terminated == main = "closed" /\ UNCHANGED vars

Next ==
  \/ PinChanges
  \/ \E r \in Pairs : Receive(r)
  \/ Reader \/ Poller \/ Main \/ Quit \/ Terminated

Spec == Init /\ [][Next]_vars

\* The three threads run; a call ends because its waits time out.  The sensor
\* need not report, the pin need not change, and nobody need quit.
FairSpec == Spec /\ WF_vars(Reader) /\ WF_vars(Poller) /\ WF_vars(Main)
-----------------------------------------------------------------------------
\* Correctness.

\* Every variable stays in its range, and no thread outlives what it uses:
\* ld2410s_free and the close of the bus come after both joins.
TypeOK ==
  /\ hasUart \in BOOLEAN /\ hasGpio \in BOOLEAN /\ pin \in BOOLEAN
  /\ uartOccupied \in BOOLEAN /\ uartDistance \in Distances
  /\ vacancy \in 0 .. VacantReports /\ emptyRun \in 0 .. VacantReports
  /\ reader \in ReaderSteps /\ report \in Pairs
  /\ poller \in PollerSteps /\ occ \in BOOLEAN
  /\ first \in BOOLEAN /\ announced \in Pairs
  /\ pending \in [state : BOOLEAN, count : 0 .. Window]
  /\ ticks \in 0 .. StartupDelay
  /\ samples \in Seq(BOOLEAN) /\ Len(samples) <= Window
  /\ main \in MainSteps /\ purpose \in {"params", "calibrate"}
  /\ left \in 0 .. NumParams /\ today \in Days \cup {Never}
  /\ lastCal \in Days \cup {Never} /\ forced \in BOOLEAN /\ config \in BOOLEAN
  /\ main \in {"joinReader", "closed"} => poller = "none"
  /\ main = "closed" => reader = "none"

\* "consecutive occupied reads required before an occupied event is emitted"
\* (config.json:14, 17): after the first announcement the occupancy changes only
\* when as many samples in a row as configured for that direction agree.
AnnouncesOnlyStable ==
  [][~first /\ announced'.occupied # announced.occupied
       => /\ Len(samples') >= Threshold(announced'.occupied)
          /\ \A k \in 1 .. Threshold(announced'.occupied) :
               samples'[k] = announced'.occupied]_vars

Level == [occupied |-> pin \/ uartOccupied, distance |-> uartDistance]

\* What lasts is announced: once pin and reports no longer change, the last
\* announcement is in the end what they say, even if the poller loaded half of
\* an old and half of a new report, or met the change while it was counting.
AnnouncesLevel ==
  <>[][UNCHANGED <<pin, uartOccupied, uartDistance>>]_vars
    => <>[](poller = "none" \/ announced = Level)

\* README.md:134-135 "only after the UART has reported >=30 consecutive vacant
\* samples": a calibration begins only when that many reports in a row were of
\* an empty room, but for the one report the reader thread has not counted yet.
CalibratesOnlyVacant ==
  [][main = "loop" /\ main' = "enable"
       => \/ emptyRun = VacantReports /\ ~uartOccupied
          \/ reader # "idle" /\ report.occupied]_vars

\* "Will force calibration as soon as the room is empty (if UART is enabled)"
\* (main.c:182): it is tried again until one has succeeded, provided that in the
\* end the sensor keeps reporting an empty room and no more frames of a call fail.
ForcedCalibrates ==
  /\ <>[][~FrameFails]_vars
  /\ []<><<\E r \in Pairs : Receive(r)>>_vars
  /\ <>[](emptyRun > 0)
  /\ forced
  => <>((~forced /\ lastCal # Never) \/ Stopping)
=============================================================================
