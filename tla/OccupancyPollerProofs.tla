------------------------ MODULE OccupancyPollerProofs ------------------------
(***************************************************************************)
(* Proofs about OccupancyPoller, for every delay, hysteresis and number of *)
(* reports: no thread outlives what it uses, a calibration begins only in  *)
(* an empty room, the occupancy announced is one that has lasted, and one  *)
(* that lasts comes nearer to its announcement with every sample.          *)
(***************************************************************************)
EXTENDS OccupancyPoller, SequenceTheorems, TLAPS

-----------------------------------------------------------------------------
\* The bounded counters.

LEMMA UpToFacts ==
  ASSUME NEW n \in Nat, NEW max \in Nat
  PROVE  /\ UpTo(n, max) \in 0 .. max
         /\ n <= max => UpTo(n, max) = n
         /\ n > max => UpTo(n, max) = max
BY DEF UpTo

LEMMA CountsUp ==
  ASSUME NEW max \in Nat \ {0}, NEW n \in 0 .. max
  PROVE  /\ UpTo(n + 1, max) \in 1 .. max
         /\ n = max => UpTo(n + 1, max) = max
BY DEF UpTo

LEMMA ThresholdFacts ==
  /\ Window \in Nat \ {0}
  /\ \A occupied \in BOOLEAN : Threshold(occupied) \in 1 .. Window
<1>1. AtLeastOne(HysteresisOccupied) \in Nat \ {0} /\ AtLeastOne(HysteresisVacant) \in Nat \ {0}
  BY PollerAssumption DEF AtLeastOne
<1>2. /\ Threshold(TRUE) = AtLeastOne(HysteresisOccupied)
      /\ Threshold(FALSE) = AtLeastOne(HysteresisVacant)
  BY DEF Threshold
<1>3. \A m, n \in Nat \ {0} : LET w == IF m > n THEN m ELSE n
                              IN  w \in Nat \ {0} /\ m \in 1 .. w /\ n \in 1 .. w
  OBVIOUS
<1>4. /\ Window \in Nat \ {0}
      /\ Threshold(TRUE) \in 1 .. Window /\ Threshold(FALSE) \in 1 .. Window
  BY <1>1, <1>2, <1>3 DEF Window
<1> QED BY <1>4

LEMMA SilenceIsPair == Silence \in Pairs
BY PollerAssumption DEF Silence, Pairs

LEMMA PairFields == \A r \in Pairs : r.occupied \in BOOLEAN /\ r.distance \in Distances
BY DEF Pairs

LEMMA MakePair ==
  ASSUME NEW o \in BOOLEAN, NEW d \in Distances
  PROVE  /\ [occupied |-> o, distance |-> d] \in Pairs
         /\ [occupied |-> o, distance |-> d].occupied = o
BY DEF Pairs

-----------------------------------------------------------------------------
\* The last samples.

Older == SubSeq(<<occ>> \o samples, 1, UpTo(Len(samples) + 1, Window))

LEMMA OlderFacts ==
  ASSUME occ \in BOOLEAN, samples \in Seq(BOOLEAN), Len(samples) <= Window
  PROVE  /\ Older \in Seq(BOOLEAN) /\ Len(Older) = UpTo(Len(samples) + 1, Window)
         /\ Len(Older) \in 1 .. Window /\ Len(samples) \in 0 .. Window
         /\ Older[1] = occ
         /\ \A k \in 1 .. Len(samples) : k + 1 <= Len(Older) => Older[k + 1] = samples[k]
<1> DEFINE all == <<occ>> \o samples
           n == UpTo(Len(samples) + 1, Window)
<1>1. <<occ>> \in Seq(BOOLEAN) /\ Len(<<occ>>) = 1 /\ <<occ>>[1] = occ
  OBVIOUS
<1>2. Len(samples) \in 0 .. Window
  BY ThresholdFacts
<1>3. n \in 1 .. Window /\ n <= Len(samples) + 1
  BY <1>2, ThresholdFacts DEF UpTo
<1>4. /\ all \in Seq(BOOLEAN) /\ Len(all) = Len(samples) + 1 /\ all[1] = occ
      /\ \A k \in 1 .. Len(samples) : all[k + 1] = samples[k]
  BY <1>1, <1>2, ConcatProperties
<1>5. /\ Older = SubSeq(all, 1, n) /\ Older \in Seq(BOOLEAN) /\ Len(Older) = n
      /\ \A k \in 1 .. n : Older[k] = all[k]
  <2>1. Older = SubSeq(all, 1, n)
    BY DEF Older
  <2> HIDE DEF all, n
  <2> QED BY <2>1, <1>2, <1>3, <1>4, SubSeqProperties
<1> HIDE DEF all
<1> QED BY <1>2, <1>3, <1>4, <1>5

-----------------------------------------------------------------------------
\* The types.

LEMMA NextPending ==
  ASSUME TypeOK
  PROVE  /\ PendingNow \in [state : BOOLEAN, count : 0 .. Window]
         /\ [state |-> occ, count |-> 1] \in [state : BOOLEAN, count : 0 .. Window]
<1>1. UpTo(pending.count + 1, Window) \in 1 .. Window /\ 1 \in 0 .. Window
  BY ThresholdFacts, CountsUp DEF TypeOK
<1> QED BY <1>1 DEF PendingNow, TypeOK

LEMMA DecideTypes == TypeOK /\ Decide => TypeOK'
<1> SUFFICES ASSUME TypeOK, Decide PROVE TypeOK'
  OBVIOUS
<1>1. samples' = Older /\ Older \in Seq(BOOLEAN) /\ Len(Older) <= Window
  <2>1. samples' = Older
    BY DEF Decide, Older
  <2>2. Older \in Seq(BOOLEAN) /\ Len(Older) \in 1 .. Window
    BY OlderFacts DEF TypeOK
  <2> QED BY <2>1, <2>2, ThresholdFacts
<1>2. ticks' \in 0 .. StartupDelay
  BY UpToFacts, PollerAssumption DEF Decide, TypeOK
<1>3. [occupied |-> occ, distance |-> uartDistance] \in Pairs
  BY MakePair DEF TypeOK
<1>4. announced' \in Pairs
  BY <1>3 DEF Decide, TypeOK
<1>5. pending' \in [state : BOOLEAN, count : 0 .. Window]
  BY NextPending DEF Decide, TypeOK
<1>6. first' \in BOOLEAN
  BY DEF Decide, TypeOK
<1>7. poller = "decide" /\ poller' = "sleep" /\ occ' = FALSE
      /\ UNCHANGED <<setup, pin, uart, readerVars, mainVars>>
  BY DEF Decide
<1> QED
  BY <1>1, <1>2, <1>4, <1>5, <1>6, <1>7
     DEF TypeOK, setup, uart, readerVars, mainVars, PollerSteps

\* A service that cannot open its lines exits before it has any thread.
Unopened == main = "open" => poller = "none" /\ reader = "none"

LEMMA PollerTypes == TypeOK /\ Unopened /\ [Next]_vars => TypeOK'
<1> SUFFICES ASSUME TypeOK, Unopened, [Next]_vars PROVE TypeOK'
  OBVIOUS
<1> USE DEF setup, uart, readerVars, pollerVars, mainVars, ReaderSteps, PollerSteps,
            CallSteps, MainSteps
<1>1. CASE PinChanges
  BY <1>1 DEF PinChanges, TypeOK
<1>2. ASSUME NEW r \in Pairs, Receive(r) PROVE TypeOK'
  <2>1. emptyRun' \in 0 .. VacantReports
    BY <1>2, CountsUp, PollerAssumption DEF Receive, TypeOK
  <2> QED BY <1>2, <2>1 DEF Receive, TypeOK
<1>3. CASE StoreOccupied
  BY <1>3, PairFields DEF StoreOccupied, TypeOK
<1>4. CASE StoreDistance
  BY <1>4, PairFields DEF StoreDistance, TypeOK
<1>5. CASE Count
  <2>1. vacancy' \in 0 .. VacantReports
    BY <1>5, CountsUp, PollerAssumption DEF Count, TypeOK
  <2> QED BY <1>5, <2>1, SilenceIsPair DEF Count, TypeOK
<1>6. CASE LoadPin
  BY <1>6 DEF LoadPin, Stopping, TypeOK
<1>7. CASE LoadOccupied
  BY <1>7 DEF LoadOccupied, TypeOK
<1>8. CASE Decide
  BY <1>8, DecideTypes
<1>9. CASE PollerExits
  BY <1>9 DEF PollerExits, TypeOK
<1>10. ASSUME NEW ok \in BOOLEAN, Open(ok) PROVE TypeOK'
  <2>1. main' \in {"spawn", "closed"} /\ reader' \in {"idle", "none"}
        /\ (main' = "closed" => reader' = "none")
    BY <1>10 DEF Open
  <2>2. poller' = "none"
    BY <1>10 DEF Open, Unopened
  <2> QED BY <1>10, <2>1, <2>2 DEF Open, TypeOK
<1>11. ASSUME NEW ok \in BOOLEAN, Spawn(ok) PROVE TypeOK'
  <2>1. /\ main' \in {"joinReader", "enable", "loop"} /\ poller' \in {"sleep", "none"}
        /\ (main' = "joinReader" => poller' = "none")
    BY <1>11 DEF Spawn
  <2>2. left' \in 0 .. NumParams /\ purpose' \in {"params", "calibrate"}
    BY <1>11, PollerAssumption DEF Spawn
  <2> QED BY <1>11, <2>1, <2>2 DEF Spawn, TypeOK
<1>12. ASSUME NEW differs \in BOOLEAN, NextParam(differs) PROVE TypeOK'
  <2>1. left' \in 0 .. NumParams
    BY <1>12, PollerAssumption DEF NextParam, TypeOK
  <2>2. main' \in {"loop", "enable", "params"} /\ purpose' \in {"params", "calibrate"}
    BY <1>12 DEF NextParam
  <2> QED BY <1>12, <2>1, <2>2 DEF NextParam, TypeOK
<1>13. ASSUME NEW obeyed \in BOOLEAN, NEW ok \in BOOLEAN, EnableFrame(obeyed, ok)
       PROVE TypeOK'
  BY <1>13 DEF EnableFrame, TypeOK
<1>14. ASSUME NEW ok \in BOOLEAN, CommandFrame(ok) PROVE TypeOK'
  BY <1>14 DEF CommandFrame, TypeOK
<1>15. ASSUME NEW obeyed \in BOOLEAN, EndFrame(obeyed) PROVE TypeOK'
  BY <1>15 DEF EndFrame, TypeOK
<1>16. ASSUME NEW hour3 \in BOOLEAN, NEW yday \in Days, Turn(hour3, yday) PROVE TypeOK'
  <2>1. main' \in {"enable", "sleep"} /\ today' \in Days \cup {Never}
    BY <1>16 DEF Turn
  <2>2. lastCal' \in Days \cup {Never} /\ forced' \in BOOLEAN
    BY <1>16 DEF Turn, TypeOK
  <2> QED BY <1>16, <2>1, <2>2 DEF Turn, TypeOK
<1>17. CASE WakeUp \/ Quit
  BY <1>17 DEF WakeUp, Quit, TypeOK
<1>18. CASE PollerJoined
  BY <1>18 DEF PollerJoined, TypeOK
<1>19. CASE ReaderJoined
  BY <1>19 DEF ReaderJoined, TypeOK
<1>20. CASE UNCHANGED vars
  BY <1>20 DEF vars, TypeOK
<1> HIDE DEF setup, uart, readerVars, pollerVars, mainVars, ReaderSteps, PollerSteps,
             CallSteps, MainSteps
<1> QED
  BY <1>1, <1>2, <1>3, <1>4, <1>5, <1>6, <1>7, <1>8, <1>9, <1>10, <1>11, <1>12, <1>13,
     <1>14, <1>15, <1>16, <1>17, <1>18, <1>19, <1>20
     DEF Next, Reader, Poller, Main, Call, Terminated

LEMMA UnopenedStep == Unopened /\ [Next]_vars => Unopened'
<1> SUFFICES ASSUME Unopened, [Next]_vars PROVE Unopened'
  OBVIOUS
<1>1. CASE Reader \/ \E r \in Pairs : Receive(r)
  BY <1>1 DEF Reader, StoreOccupied, StoreDistance, Count, Receive, pollerVars, mainVars,
     Unopened
<1>2. CASE Poller
  BY <1>2 DEF Poller, LoadPin, LoadOccupied, Decide, PollerExits, readerVars, mainVars,
     Unopened
<1>3. CASE Main \/ Quit
  BY <1>3 DEF Main, Open, Spawn, NextParam, Call, EnableFrame, CommandFrame, EndFrame,
     Turn, WakeUp, Quit, PollerJoined, ReaderJoined, Unopened
<1>4. CASE PinChanges \/ UNCHANGED vars
  BY <1>4 DEF PinChanges, vars, readerVars, pollerVars, mainVars, Unopened
<1> QED BY <1>1, <1>2, <1>3, <1>4 DEF Next, Terminated

LEMMA PollerInvariant == Spec => [](TypeOK /\ Unopened)
<1>1. Init => TypeOK /\ Unopened
  <2> SUFFICES ASSUME Init PROVE TypeOK /\ Unopened
    OBVIOUS
  <2>1. samples \in Seq(BOOLEAN) /\ Len(samples) <= Window
    BY ThresholdFacts DEF Init
  <2>2. pending \in [state : BOOLEAN, count : 0 .. Window]
    BY ThresholdFacts DEF Init
  <2>3. /\ hasUart \in BOOLEAN /\ hasGpio \in BOOLEAN /\ pin \in BOOLEAN
        /\ uartOccupied \in BOOLEAN /\ forced \in BOOLEAN /\ config \in BOOLEAN
        /\ occ \in BOOLEAN /\ first \in BOOLEAN
    BY DEF Init
  <2>4. /\ vacancy \in 0 .. VacantReports /\ emptyRun \in 0 .. VacantReports
        /\ ticks \in 0 .. StartupDelay /\ left \in 0 .. NumParams
        /\ uartDistance \in Distances
    BY PollerAssumption DEF Init
  <2>5. report \in Pairs /\ announced \in Pairs
    BY SilenceIsPair DEF Init
  <2>6. Unopened /\ main = "open" /\ reader = "none" /\ poller = "none"
        /\ purpose = "params" /\ today = Never /\ lastCal = Never
    BY DEF Init, Unopened
  <2> QED
    BY <2>1, <2>2, <2>3, <2>4, <2>5, <2>6
       DEF TypeOK, ReaderSteps, PollerSteps, CallSteps, MainSteps
<1> QED BY <1>1, PollerTypes, UnopenedStep, PTL DEF Spec

\* Every step of the three threads keeps every variable in its range; poller
\* and reader have ended before the line and the bus are closed.
THEOREM PollerTypeCorrect == Spec => []TypeOK
BY PollerInvariant, PTL

-----------------------------------------------------------------------------
(***************************************************************************)
(* The count of empty reports follows the reports by at most one, and      *)
(* while it is not zero the sensor says the room is empty, or has a report *)
(* on its way that says otherwise.                                         *)
(***************************************************************************)
Counted ==
  IF reader \in {"idle", "none"}
  THEN vacancy = emptyRun /\ (vacancy > 0 => ~uartOccupied)
  ELSE /\ emptyRun = IF report.occupied THEN 0 ELSE UpTo(vacancy + 1, VacantReports)
       /\ vacancy > 0 => ~uartOccupied \/ report.occupied
       /\ reader # "storeOccupied" => uartOccupied = report.occupied

LEMMA CountedStep == TypeOK /\ Unopened /\ Counted /\ [Next]_vars => Counted'
<1> SUFFICES ASSUME TypeOK, Unopened, Counted, [Next]_vars PROVE Counted'
  OBVIOUS
<1> USE DEF uart, readerVars
<1>0. uartOccupied \in BOOLEAN /\ report.occupied \in BOOLEAN
  BY PairFields DEF TypeOK
<1>1. ASSUME UNCHANGED <<uart, readerVars>> PROVE Counted'
  BY <1>1 DEF Counted
<1>2. ASSUME NEW r \in Pairs, Receive(r) PROVE Counted'
  BY <1>2 DEF Receive, Counted
<1>3. CASE StoreOccupied
  BY <1>0, <1>3 DEF StoreOccupied, Counted
<1>4. CASE StoreDistance
  BY <1>0, <1>4 DEF StoreDistance, Counted
<1>5. CASE Count
  BY <1>0, <1>5 DEF Count, Counted
<1>6. ASSUME NEW ok \in BOOLEAN, Open(ok) \/ ReaderJoined PROVE Counted'
  BY <1>6 DEF Open, ReaderJoined, Unopened, Counted
<1>7. CASE Poller
  BY <1>1, <1>7 DEF Poller, LoadPin, LoadOccupied, Decide, PollerExits
<1>8. ASSUME NEW ok \in BOOLEAN, NEW obeyed \in BOOLEAN,
             \/ Spawn(ok) \/ NextParam(ok) \/ EnableFrame(obeyed, ok)
             \/ CommandFrame(ok) \/ EndFrame(obeyed)
             \/ \E yday \in Days : Turn(ok, yday)
      PROVE  Counted'
  BY <1>1, <1>8 DEF Spawn, NextParam, EnableFrame, CommandFrame, EndFrame, Turn
<1>9. CASE PinChanges \/ WakeUp \/ Quit \/ PollerJoined \/ UNCHANGED vars
  BY <1>1, <1>9 DEF PinChanges, WakeUp, Quit, PollerJoined, vars
<1> HIDE DEF uart, readerVars
<1> QED
  BY <1>2, <1>3, <1>4, <1>5, <1>6, <1>7, <1>8, <1>9 DEF Next, Reader, Main, Call, Terminated

\* Only a turn of the loop begins a calibration.
LEMMA CalibrationBegins ==
  ASSUME [Next]_vars, main = "loop", main' = "enable"
  PROVE  RoomEmpty
<1>1. ASSUME NEW hour3 \in BOOLEAN, NEW yday \in Days, Turn(hour3, yday) PROVE RoomEmpty
  BY <1>1 DEF Turn
<1>2. CASE Poller \/ Reader \/ PinChanges \/ (\E r \in Pairs : Receive(r)) \/ UNCHANGED vars
  BY <1>2 DEF Poller, LoadPin, LoadOccupied, Decide, PollerExits, Reader, StoreOccupied,
     StoreDistance, Count, PinChanges, Receive, vars, mainVars
<1>3. CASE Main \/ Quit
  BY <1>1, <1>3 DEF Main, Open, Spawn, NextParam, Call, EnableFrame, CommandFrame, EndFrame,
     WakeUp, Quit, PollerJoined, ReaderJoined
<1> QED BY <1>2, <1>3 DEF Next, Terminated

\* For every number of reports asked for: a calibration begins only when that
\* many in a row were of an empty room, whatever the reader does meanwhile.
THEOREM CalibratesOnlyVacantHolds == Spec => CalibratesOnlyVacant
<1>1. Init => Counted
  BY DEF Init, Counted
<1>2. ASSUME TypeOK, Counted, [Next]_vars, main = "loop", main' = "enable"
      PROVE  \/ emptyRun = VacantReports /\ ~uartOccupied
             \/ reader # "idle" /\ report.occupied
  <2>1. vacancy = VacantReports /\ vacancy > 0
    BY <1>2, CalibrationBegins, PollerAssumption DEF RoomEmpty, TypeOK
  <2>2. UpTo(vacancy + 1, VacantReports) = VacantReports
    BY <2>1, CountsUp, PollerAssumption
  <2> QED BY <1>2, <2>1, <2>2 DEF Counted
<1>3. TypeOK /\ Counted /\ [Next]_vars =>
        [main = "loop" /\ main' = "enable"
           => \/ emptyRun = VacantReports /\ ~uartOccupied
              \/ reader # "idle" /\ report.occupied]_vars
  BY <1>2
<1> QED
  BY <1>1, <1>3, CountedStep, PollerInvariant, PTL DEF Spec, CalibratesOnlyVacant

-----------------------------------------------------------------------------
(***************************************************************************)
(* What is pending has been sampled as often as it is counted.             *)
(***************************************************************************)
Lasting(count, state, list) ==
  count <= Len(list) /\ \A k \in 1 .. count : list[k] = state
PendingSampled ==
  Lasting(pending.count, pending.state, samples) /\ (first => pending.count = 0)

LEMMA PendingSampledNow ==
  ASSUME TypeOK, PendingSampled
  PROVE  /\ Lasting(PendingNow.count, PendingNow.state, Older)
         /\ Lasting(1, occ, Older)
         /\ PendingNow.state = occ /\ PendingNow.count \in 1 .. Window
<1>1. /\ Older \in Seq(BOOLEAN) /\ Len(Older) = UpTo(Len(samples) + 1, Window)
      /\ Len(Older) \in 1 .. Window /\ Len(samples) \in 0 .. Window
      /\ Older[1] = occ
      /\ \A k \in 1 .. Len(samples) : k + 1 <= Len(Older) => Older[k + 1] = samples[k]
  BY OlderFacts DEF TypeOK
<1>2. Lasting(1, occ, Older)
  BY <1>1 DEF Lasting
<1>3. pending.count \in 0 .. Window /\ Window \in Nat \ {0}
  BY ThresholdFacts DEF TypeOK
<1>4. CASE occ # pending.state
  <2>1. PendingNow = [state |-> occ, count |-> 1]
    BY <1>4 DEF PendingNow
  <2>2. PendingNow.state = occ /\ PendingNow.count = 1
    BY <2>1
  <2> QED BY <1>2, <1>3, <2>2
<1>5. CASE occ = pending.state
  <2> DEFINE n == UpTo(pending.count + 1, Window)
  <2>1. PendingNow = [pending EXCEPT !.count = n]
    BY <1>5 DEF PendingNow
  <2>2. PendingNow.state = occ /\ PendingNow.count = n
    BY <1>5, <2>1 DEF TypeOK
  <2>3. n \in 1 .. Window /\ n <= pending.count + 1
    BY <1>3 DEF UpTo
  <2>4. n <= Len(Older)
    BY <1>1, <1>3 DEF UpTo, PendingSampled, Lasting
  <2> HIDE DEF n
  <2>5. ASSUME NEW k \in 1 .. n PROVE Older[k] = occ
    <3>1. CASE k = 1
      BY <1>1, <3>1
    <3>2. CASE k # 1
      <4>1. /\ k - 1 \in 1 .. pending.count /\ k - 1 \in 1 .. Len(samples)
            /\ (k - 1) + 1 = k /\ k <= Len(Older)
        BY <1>1, <1>3, <2>3, <2>4, <3>2 DEF PendingSampled, Lasting
      <4>2. samples[k - 1] = occ
        BY <1>5, <4>1 DEF PendingSampled, Lasting
      <4> QED BY <1>1, <4>1, <4>2
    <3> QED BY <3>1, <3>2
  <2> QED BY <1>2, <2>2, <2>3, <2>4, <2>5 DEF Lasting
<1> QED BY <1>4, <1>5

LEMMA PendingSampledStep == TypeOK /\ PendingSampled /\ [Next]_vars => PendingSampled'
<1> SUFFICES ASSUME TypeOK, PendingSampled, [Next]_vars PROVE PendingSampled'
  OBVIOUS
<1>1. ASSUME UNCHANGED <<pending, samples, first>> PROVE PendingSampled'
  BY <1>1 DEF PendingSampled
<1>2. CASE Decide
  <2>1. samples' = Older
    BY <1>2 DEF Decide, Older
  <2>2. CASE first /\ ~first'
    <3>1. pending' = [state |-> occ, count |-> 1]
      BY <1>2, <2>2 DEF Decide
    <3>2. pending'.state = occ /\ pending'.count = 1
      BY <3>1
    <3> QED BY <2>1, <2>2, <3>2, PendingSampledNow DEF PendingSampled
  <2>3. CASE first /\ first'
    <3>1. pending' = pending
      BY <1>2, <2>3 DEF Decide
    <3>2. pending'.count = 0
      BY <2>3, <3>1 DEF PendingSampled
    <3>3. Len(Older) \in 1 .. Window
      BY OlderFacts DEF TypeOK
    <3>4. Lasting(0, pending'.state, Older)
      BY <3>3, ThresholdFacts DEF Lasting
    <3> QED BY <2>1, <3>2, <3>4 DEF PendingSampled
  <2>4. CASE ~first
    <3>1. pending' = PendingNow /\ first' = first
      BY <1>2, <2>4 DEF Decide
    <3> QED BY <2>1, <2>4, <3>1, PendingSampledNow DEF PendingSampled
  <2> QED BY <2>2, <2>3, <2>4
<1>3. CASE LoadPin \/ LoadOccupied \/ PollerExits
  BY <1>1, <1>3 DEF LoadPin, LoadOccupied, PollerExits
<1>4. ASSUME NEW ok \in BOOLEAN, Spawn(ok) PROVE PendingSampled'
  BY <1>1, <1>4 DEF Spawn
<1>5. CASE PinChanges \/ (\E r \in Pairs : Receive(r)) \/ Reader \/ UNCHANGED vars
  BY <1>1, <1>5 DEF PinChanges, Receive, Reader, StoreOccupied, StoreDistance, Count,
     vars, pollerVars
<1>6. ASSUME Main \/ Quit, \A ok \in BOOLEAN : ~Spawn(ok) PROVE PendingSampled'
  BY <1>1, <1>6 DEF Main, Open, NextParam, Call, EnableFrame, CommandFrame, EndFrame,
     Turn, WakeUp, Quit, PollerJoined, ReaderJoined, pollerVars
<1> QED BY <1>2, <1>3, <1>4, <1>5, <1>6 DEF Next, Poller, Terminated

\* Only a decision of the poller announces, or counts.
LEMMA OnlyDecideCounts ==
  ASSUME [Next]_vars, ~Decide
  PROVE  UNCHANGED <<first, announced, pending, ticks>>
<1>1. CASE LoadPin \/ LoadOccupied \/ PollerExits
  BY <1>1 DEF LoadPin, LoadOccupied, PollerExits
<1>2. CASE PinChanges \/ (\E r \in Pairs : Receive(r)) \/ Reader \/ UNCHANGED vars
  BY <1>2 DEF PinChanges, Receive, Reader, StoreOccupied, StoreDistance, Count,
     vars, pollerVars
<1>3. CASE Main \/ Quit
  BY <1>3 DEF Main, Open, Spawn, NextParam, Call, EnableFrame, CommandFrame, EndFrame,
     Turn, WakeUp, Quit, PollerJoined, ReaderJoined, pollerVars
<1> QED BY <1>1, <1>2, <1>3 DEF Next, Poller, Terminated

\* For every delay and hysteresis: an occupancy is announced, but for the first
\* one, only after as many samples in a row as configured for its direction.
THEOREM AnnouncesOnlyStableHolds == Spec => AnnouncesOnlyStable
<1>1. Init => PendingSampled
  BY ThresholdFacts DEF Init, PendingSampled, Lasting
<1>2. ASSUME TypeOK, PendingSampled, [Next]_vars,
             ~first, announced'.occupied # announced.occupied
      PROVE  /\ Len(samples') >= Threshold(announced'.occupied)
             /\ \A k \in 1 .. Threshold(announced'.occupied) :
                  samples'[k] = announced'.occupied
  <2>1. Decide /\ samples' = Older
    BY <1>2, OnlyDecideCounts DEF Decide, Older
  <2>2. ToAnnounce /\ announced' = [occupied |-> occ, distance |-> uartDistance]
    BY <1>2, <2>1 DEF Decide
  <2>3. announced'.occupied = occ
    BY <2>2
  <2>4. PendingNow.count >= Threshold(occ)
    BY <1>2, <2>2, <2>3 DEF ToAnnounce
  <2>5. /\ Lasting(PendingNow.count, PendingNow.state, Older)
        /\ PendingNow.state = occ /\ PendingNow.count \in 1 .. Window
    BY <1>2, PendingSampledNow
  <2>6. Threshold(occ) \in 1 .. Window /\ Window \in Nat
    BY <1>2, ThresholdFacts DEF TypeOK
  <2>7. Len(Older) \in 1 .. Window
    BY <1>2, OlderFacts DEF TypeOK
  <2>8. /\ Len(Older) >= Threshold(occ)
        /\ \A k \in 1 .. Threshold(occ) : Older[k] = occ
    BY <2>4, <2>5, <2>6, <2>7 DEF Lasting
  <2> QED BY <2>1, <2>3, <2>8
<1>3. TypeOK /\ PendingSampled /\ [Next]_vars =>
        [~first /\ announced'.occupied # announced.occupied
           => /\ Len(samples') >= Threshold(announced'.occupied)
              /\ \A k \in 1 .. Threshold(announced'.occupied) :
                   samples'[k] = announced'.occupied]_vars
  BY <1>2
<1> QED
  BY <1>1, <1>3, PendingSampledStep, PollerTypeCorrect, PTL DEF Spec, AnnouncesOnlyStable

-----------------------------------------------------------------------------
(***************************************************************************)
(* How many more samples an occupancy must last to be announced.           *)
(***************************************************************************)
Missing(p, occupied) ==
  IF p.state = occupied THEN Threshold(occupied) - p.count ELSE Threshold(occupied)

AnnouncedSample == announced' = [occupied |-> occ, distance |-> uartDistance]

\* Every decision brings the announcement nearer to what it has sampled: the
\* delay runs out, or sample and announcement agree after it, or one sample less
\* is missing, and some still are.  Nothing else touches the count.
EverySampleCounts ==
  [][IF ~Decide THEN UNCHANGED <<first, announced, pending, ticks>>
     ELSE IF first
          THEN \/ first' /\ ticks < StartupDelay /\ ticks' = ticks + 1
               \/ ~first' /\ AnnouncedSample
          ELSE /\ ~first'
               /\ \/ AnnouncedSample
                  \/ /\ occ # announced.occupied /\ UNCHANGED announced
                     /\ 0 < Missing(pending', occ)
                     /\ Missing(pending', occ) < Missing(pending, occ)]_vars

LEMMA MissingDrops ==
  ASSUME TypeOK, PendingNow.count < Threshold(occ)
  PROVE  0 < Missing(PendingNow, occ) /\ Missing(PendingNow, occ) < Missing(pending, occ)
<1>1. Threshold(occ) \in 1 .. Window /\ Window \in Nat \ {0} /\ pending.count \in 0 .. Window
  BY ThresholdFacts DEF TypeOK
<1>2. CASE occ = pending.state
  <2> DEFINE n == UpTo(pending.count + 1, Window)
  <2>1. PendingNow = [pending EXCEPT !.count = n]
    BY <1>2 DEF PendingNow
  <2>2. PendingNow.state = occ /\ PendingNow.count = n
    BY <1>2, <2>1 DEF TypeOK
  <2>3. n = pending.count + 1
    BY <1>1, <2>2 DEF UpTo
  <2> HIDE DEF n
  <2> QED BY <1>1, <1>2, <2>2, <2>3 DEF Missing
<1>3. CASE occ # pending.state
  <2>1. PendingNow = [state |-> occ, count |-> 1]
    BY <1>3 DEF PendingNow
  <2>2. PendingNow.state = occ /\ PendingNow.count = 1
    BY <2>1
  <2> QED BY <1>1, <1>3, <2>2 DEF Missing
<1> QED BY <1>2, <1>3

\* What lasts is announced after at most as many samples as are configured,
\* whatever the other threads do meanwhile: what AnnouncesLevel needs besides
\* levels that last and a poller that runs (ld2410s.c:61-96).
THEOREM EverySampleCountsHolds == Spec => EverySampleCounts
<1>1. ASSUME TypeOK, Decide, first
      PROVE  \/ first' /\ ticks < StartupDelay /\ ticks' = ticks + 1
             \/ ~first' /\ AnnouncedSample
  <2>1. CASE ticks >= StartupDelay
    BY <1>1, <2>1 DEF Decide, AnnouncedSample
  <2>2. CASE ~(ticks >= StartupDelay)
    <3>1. first' = first /\ ticks' = UpTo(ticks + 1, StartupDelay)
      BY <1>1, <2>2 DEF Decide
    <3>2. ticks < StartupDelay /\ UpTo(ticks + 1, StartupDelay) = ticks + 1
      BY <1>1, <2>2, PollerAssumption DEF TypeOK, UpTo
    <3> QED BY <1>1, <3>1, <3>2
  <2> QED BY <2>1, <2>2
<1>2. ASSUME TypeOK, Decide, ~first
      PROVE  /\ ~first'
             /\ \/ AnnouncedSample
                \/ /\ occ # announced.occupied /\ UNCHANGED announced
                   /\ 0 < Missing(pending', occ)
                   /\ Missing(pending', occ) < Missing(pending, occ)
  <2>1. first' = first /\ pending' = PendingNow
    BY <1>2 DEF Decide
  <2>2. CASE ToAnnounce
    BY <1>2, <2>1, <2>2 DEF Decide, AnnouncedSample
  <2>3. CASE ~ToAnnounce /\ occ = announced.occupied
    <3>1. announced' = announced /\ announced.distance = uartDistance
      BY <1>2, <2>3 DEF Decide, ToAnnounce
    <3>2. announced = [occupied |-> announced.occupied, distance |-> announced.distance]
      BY <1>2 DEF TypeOK, Pairs
    <3> QED BY <1>2, <2>1, <2>3, <3>1, <3>2 DEF AnnouncedSample
  <2>4. CASE ~ToAnnounce /\ occ # announced.occupied
    <3>1. announced' = announced
      BY <1>2, <2>4 DEF Decide
    <3>2. PendingNow.count \in Int /\ Threshold(occ) \in Int
      BY <1>2, NextPending, ThresholdFacts DEF TypeOK
    <3>3. PendingNow.count < Threshold(occ)
      BY <2>4, <3>2 DEF ToAnnounce
    <3> QED BY <1>2, <2>1, <2>4, <3>1, <3>3, MissingDrops
  <2> QED BY <2>2, <2>3, <2>4
<1>3. TypeOK /\ [Next]_vars =>
        [IF ~Decide THEN UNCHANGED <<first, announced, pending, ticks>>
         ELSE IF first
              THEN \/ first' /\ ticks < StartupDelay /\ ticks' = ticks + 1
                   \/ ~first' /\ AnnouncedSample
              ELSE /\ ~first'
                   /\ \/ AnnouncedSample
                      \/ /\ occ # announced.occupied /\ UNCHANGED announced
                         /\ 0 < Missing(pending', occ)
                         /\ Missing(pending', occ) < Missing(pending, occ)]_vars
  BY <1>1, <1>2, OnlyDecideCounts
<1> QED BY <1>3, PollerTypeCorrect, PTL DEF Spec, EverySampleCounts
=============================================================================
