------------------------- MODULE OccupancyGateProofs -------------------------
(***************************************************************************)
(* Proofs about OccupancyGate, for inboxes and queues of calls of any      *)
(* length: the gate, the slideshow and the panel agree whenever the        *)
(* dispatch thread is between two messages.  The arguments are over what   *)
(* holds while it is blocked in a call (Blocked), and over which calls may *)
(* still be on their way to display-mgr (OnTheirWay).                      *)
(***************************************************************************)
EXTENDS OccupancyGate, SequenceTheorems, TLAPS

-----------------------------------------------------------------------------
\* What the steps do to the calls on their way.

LEMMA AbandonedFacts ==
  ASSUME calls \in Seq(Calls)
  PROVE  /\ Abandoned \in Seq(Calls) /\ Len(Abandoned) = Len(calls)
         /\ \A k \in 1 .. Len(calls) : ~Abandoned[k].awaited
         /\ calls = <<>> => Abandoned = <<>>
<1>1. DOMAIN calls = 1 .. Len(calls) /\ Len(calls) \in Nat
  OBVIOUS
<1>2. \A k \in DOMAIN calls : calls[k] \in Calls
  OBVIOUS
<1>3. \A k \in DOMAIN calls : /\ [calls[k] EXCEPT !.awaited = FALSE] \in Calls
                              /\ [calls[k] EXCEPT !.awaited = FALSE].awaited = FALSE
  BY <1>2 DEF Calls
<1>4. Abandoned \in [1 .. Len(calls) -> Calls]
  BY <1>1, <1>3 DEF Abandoned
<1>5. Abandoned \in Seq(Calls) /\ Len(Abandoned) = Len(calls)
  BY <1>1, <1>4, LenProperties, SeqDef
<1>6. calls = <<>> => Abandoned = <<>>
  BY <1>5, EmptySeq
<1> QED BY <1>1, <1>3, <1>5, <1>6 DEF Abandoned

LEMMA CallAppended ==
  ASSUME calls \in Seq(Calls), NEW on \in BOOLEAN
  PROVE  LET s == Append(calls, [on |-> on, awaited |-> TRUE])
         IN  /\ s \in Seq(Calls) /\ Len(s) = Len(calls) + 1 /\ Len(calls) \in Nat
             /\ s[Len(calls) + 1] = [on |-> on, awaited |-> TRUE]
             /\ \A k \in 1 .. Len(calls) : s[k] = calls[k]
<1>1. [on |-> on, awaited |-> TRUE] \in Calls
  BY DEF Calls
<1> QED BY <1>1, AppendProperties

LEMMA CallServed ==
  ASSUME calls \in Seq(Calls), calls # <<>>
  PROVE  /\ Tail(calls) \in Seq(Calls) /\ Head(calls) = calls[1] /\ calls[1] \in Calls
         /\ Len(calls) \in Nat /\ Len(calls) >= 1 /\ Len(Tail(calls)) = Len(calls) - 1
         /\ \A k \in 1 .. (Len(calls) - 1) : Tail(calls)[k] = calls[k + 1]
         /\ Len(calls) = 1 => Tail(calls) = <<>>
<1>1. /\ Tail(calls) \in Seq(Calls) /\ Head(calls) = calls[1]
      /\ Len(Tail(calls)) = Len(calls) - 1
      /\ \A k \in 1 .. (Len(calls) - 1) : Tail(calls)[k] = calls[k + 1]
  BY HeadTailProperties
<1>2. Len(calls) \in Nat /\ Len(calls) >= 1
  BY EmptySeq
<1>3. calls[1] \in Calls
  BY <1>2
<1>4. ASSUME Len(calls) = 1 PROVE Tail(calls) = <<>>
  <2>1. Len(Tail(calls)) = 0
    BY <1>1, <1>4
  <2> QED BY <1>1, <2>1, EmptySeq
<1> QED BY <1>1, <1>2, <1>3, <1>4

LEMMA InboxTail ==
  ASSUME inbox \in Seq(Messages), inbox # <<>>
  PROVE  Tail(inbox) \in Seq(Messages) /\ Head(inbox) \in Messages
BY HeadTailProperties

-----------------------------------------------------------------------------
\* The types.

LEMMA UpdateTypes ==
  ASSUME TypeOK, NEW occ \in BOOLEAN, Update(occ)
  PROVE  calls' \in Seq(Calls) /\ call' \in {"none", "On", "Off", "done"}
BY CallAppended DEF TypeOK, Update, Method

LEMMA GateTypes == TypeOK /\ [Next]_vars => TypeOK'
<1> SUFFICES ASSUME TypeOK, [Next]_vars PROVE TypeOK'
  OBVIOUS
<1> USE DEF gate
<1>1. ASSUME NEW msg \in Messages, Arrive(msg) PROVE TypeOK'
  BY <1>1, AppendProperties DEF Arrive, TypeOK
<1>2. CASE ServeCall
  <2>1. calls' \in Seq(Calls) /\ panel' \in BOOLEAN
    BY <1>2, CallServed DEF ServeCall, TypeOK, Calls
  <2> QED BY <1>2, <2>1 DEF ServeCall, TypeOK
<1>3. CASE RestartDisplayMgr \/ \E on \in BOOLEAN : SomeoneElseSets(on)
  <2>1. panel' \in BOOLEAN /\ meddled' \in BOOLEAN
    BY <1>3 DEF RestartDisplayMgr, SomeoneElseSets
  <2>2. calls' = <<>> \/ calls' = calls
    BY <1>3 DEF RestartDisplayMgr, SomeoneElseSets
  <2>3. calls' \in Seq(Calls)
    BY <2>2, EmptySeq DEF TypeOK
  <2> QED BY <1>3, <2>1, <2>3 DEF RestartDisplayMgr, SomeoneElseSets, TypeOK
<1>4. ASSUME NEW msg \in Reports, HandleReport(msg) PROVE TypeOK'
  <2>1. inbox' \in Seq(Messages)
    BY <1>4, InboxTail DEF HandleReport, Dispatching, TypeOK
  <2>2. CASE Suppressed(msg)
    BY <1>4, <2>1, <2>2 DEF HandleReport, TypeOK
  <2>3. CASE ~Suppressed(msg)
    <3>1. calls' \in Seq(Calls) /\ call' \in {"none", "On", "Off", "done"}
      BY <1>4, <2>3, UpdateTypes DEF HandleReport
    <3>2. latched' \in BOOLEAN /\ occupied' \in BOOLEAN
      BY <1>4, <2>3 DEF HandleReport, TypeOK
    <3> QED BY <1>4, <2>1, <2>3, <3>1, <3>2 DEF HandleReport, TypeOK
  <2> QED BY <2>2, <2>3
<1>5. CASE HandleSensorDown
  <2>1. inbox' \in Seq(Messages)
    BY <1>5, InboxTail DEF HandleSensorDown, Dispatching, TypeOK
  <2>2. calls' \in Seq(Calls) /\ call' \in {"none", "On", "Off", "done"}
    BY <1>5, UpdateTypes DEF HandleSensorDown
  <2> QED BY <1>5, <2>1, <2>2 DEF HandleSensorDown, TypeOK
<1>6. CASE HandleSensorUp
  BY <1>6, InboxTail DEF HandleSensorUp, Dispatching, TypeOK
<1>7. ASSUME NEW on \in BOOLEAN, HandleForce(on) PROVE TypeOK'
  <2>1. inbox' \in Seq(Messages)
    BY <1>7, InboxTail DEF HandleForce, Dispatching, TypeOK
  <2>2. calls' \in Seq(Calls) /\ call' \in {"none", "On", "Off", "done"}
    BY <1>7, UpdateTypes DEF HandleForce
  <2>3. latched' \in BOOLEAN /\ occupied' \in BOOLEAN
    BY <1>7 DEF HandleForce
  <2> QED BY <1>7, <2>1, <2>2, <2>3 DEF HandleForce, TypeOK
<1>8. CASE CallFails
  BY <1>8, AbandonedFacts DEF CallFails, TypeOK
<1>9. CASE CallReturns
  BY <1>9 DEF CallReturns, TypeOK
<1>10. CASE Free
  BY <1>10, CallAppended DEF Free, TypeOK
<1>11. CASE Freed
  BY <1>11, AbandonedFacts DEF Freed, TypeOK
<1>12. CASE UNCHANGED vars
  BY <1>12 DEF vars, TypeOK
<1> HIDE DEF gate
<1> QED
  BY <1>1, <1>2, <1>3, <1>4, <1>5, <1>6, <1>7, <1>8, <1>9, <1>10, <1>11, <1>12
     DEF Next, Environment, Dispatch

\* Every step of the gate and of the other ends keeps every variable in its
\* range.
THEOREM GateTypeCorrect == Spec => []TypeOK
<1>1. Init => TypeOK
  <2> SUFFICES ASSUME Init PROVE TypeOK
    OBVIOUS
  <2>1. inbox \in Seq(Messages) /\ calls \in Seq(Calls)
    BY DEF Init
  <2>2. occupied \in BOOLEAN /\ latched \in BOOLEAN /\ running \in BOOLEAN
        /\ meddled \in BOOLEAN /\ panel \in BOOLEAN
    BY DEF Init
  <2> QED BY <2>1, <2>2 DEF Init, TypeOK
<1> QED BY <1>1, GateTypes, PTL DEF Spec

-----------------------------------------------------------------------------
(***************************************************************************)
(* What is asked of the display while the gate waits is what it recorded;  *)
(* and when it is at rest with a known state, nothing is on its way.       *)
(***************************************************************************)
Blocked ==
  phase = "running" => (call = "On" => occupied) /\ (call = "Off" => ~occupied)

OnTheirWay ==
  phase = "running" =>
    /\ \A k \in 1 .. Len(calls) :
         calls[k].awaited => k = Len(calls) /\ call = Method(calls[k].on)
    /\ call = "done" => calls = <<>> /\ (~meddled => panel = occupied)
    /\ AtRest /\ requested # -1 => calls = <<>> /\ (~meddled => panel = (requested = 1))

GateInv == Blocked /\ LatchHolds /\ ServesLastReport /\ OnTheirWay

\* A step of the gate that handles a message: occ is what is recorded.
LEMMA UpdateKeeps ==
  ASSUME TypeOK, GateInv, Dispatching, NEW occ \in BOOLEAN, occupied' = occ,
         latched' => ~occ, Update(occ),
         UNCHANGED <<requested, phase, running, panel, meddled>>
  PROVE  GateInv'
<1>1. AtRest /\ phase = "running" /\ call = "none" /\ calls \in Seq(Calls)
  BY DEF Dispatching, AtRest, TypeOK
<1>2. CASE Matches(occ)
  <2>1. UNCHANGED <<call, calls>> /\ requested = (IF occ THEN 1 ELSE 0) /\ requested # -1
    BY <1>2 DEF Update, Matches
  <2>2. occupied = occ
    BY <1>1, <2>1 DEF GateInv, ServesLastReport, TypeOK
  <2> QED BY <1>1, <2>1, <2>2
          DEF GateInv, Blocked, LatchHolds, ServesLastReport, OnTheirWay, AtRest
<1>3. CASE ~Matches(occ)
  <2>1. /\ call' = Method(occ)
        /\ calls' = Append(calls, [on |-> occ, awaited |-> TRUE])
    BY <1>3 DEF Update
  <2>2. Blocked' /\ LatchHolds' /\ ServesLastReport'
    BY <1>1, <2>1 DEF GateInv, Blocked, LatchHolds, ServesLastReport, AtRest, Method
  <2>3. \A k \in 1 .. Len(calls) : ~calls[k].awaited
    BY <1>1 DEF GateInv, OnTheirWay, Method
  <2>4. ASSUME NEW k \in 1 .. Len(calls'), calls'[k].awaited
        PROVE  k = Len(calls') /\ call' = Method(calls'[k].on)
    <3>1. k \in 1 .. Len(calls) \/ k = Len(calls) + 1
      BY <1>1, <2>1, CallAppended
    <3> QED BY <1>1, <2>1, <2>3, <2>4, <3>1, CallAppended
  <2>5. OnTheirWay'
    BY <1>1, <2>1, <2>4 DEF OnTheirWay, AtRest, Method
  <2> QED BY <2>2, <2>5 DEF GateInv
<1> QED BY <1>2, <1>3

LEMMA GateStep == TypeOK /\ GateInv /\ [Next]_vars => GateInv'
<1> SUFFICES ASSUME TypeOK, GateInv, [Next]_vars PROVE GateInv'
  OBVIOUS
<1> USE DEF gate
<1>1. ASSUME NEW msg \in Messages, Arrive(msg) PROVE GateInv'
  BY <1>1 DEF Arrive, GateInv, Blocked, LatchHolds, ServesLastReport, OnTheirWay, AtRest
<1>2. CASE ServeCall
  <2>1. /\ calls # <<>> /\ calls' = Tail(calls) /\ panel' = Head(calls).on /\ ~meddled'
        /\ call' = IF Head(calls).awaited THEN "done" ELSE call
        /\ UNCHANGED <<gate, phase, running>>
    BY <1>2 DEF ServeCall
  <2>2. /\ Head(calls) = calls[1] /\ 1 \in 1 .. Len(calls) /\ Len(calls') = Len(calls) - 1
        /\ Len(calls) \in Nat /\ \A k \in 1 .. Len(calls') : calls'[k] = calls[k + 1]
        /\ Len(calls) = 1 => calls' = <<>>
        /\ calls[1].on \in BOOLEAN
    BY <2>1, CallServed DEF TypeOK, Calls
  <2>3. Blocked' /\ LatchHolds'
    BY <2>1 DEF GateInv, Blocked, LatchHolds
  <2>4. CASE phase # "running"
    BY <2>1, <2>3, <2>4 DEF GateInv, ServesLastReport, OnTheirWay, AtRest
  <2>5. CASE phase = "running" /\ Head(calls).awaited
    <3>1. Len(calls) = 1 /\ call = Method(calls[1].on)
      BY <2>2, <2>5 DEF GateInv, OnTheirWay
    <3>2. calls[1].on = occupied
      BY <2>2, <2>5, <3>1 DEF GateInv, Blocked, Method, TypeOK
    <3>3. calls' = <<>> /\ Len(calls') = 0 /\ call' = "done" /\ panel' = occupied'
      BY <2>1, <2>2, <2>5, <3>1, <3>2 DEF gate
    <3>4. OnTheirWay' /\ ServesLastReport'
      BY <3>3 DEF OnTheirWay, ServesLastReport, AtRest
    <3> QED BY <2>3, <3>4 DEF GateInv
  <2>6. CASE phase = "running" /\ ~Head(calls).awaited
    <3>1. ASSUME NEW k \in 1 .. Len(calls'), calls'[k].awaited
          PROVE  k = Len(calls') /\ call' = Method(calls'[k].on)
      <4>1. k + 1 \in 1 .. Len(calls) /\ calls[k + 1].awaited
        BY <2>2, <3>1
      <4>2. k + 1 = Len(calls) /\ call = Method(calls[k + 1].on)
        BY <2>6, <4>1 DEF GateInv, OnTheirWay
      <4>3. calls'[k] = calls[k + 1] /\ k = Len(calls')
        BY <2>2, <3>1, <4>2
      <4> QED BY <2>1, <2>6, <4>2, <4>3
    <3>2. call' = call /\ call' # "done" /\ (AtRest' => requested' = -1)
      BY <2>1, <2>6 DEF GateInv, OnTheirWay, AtRest, gate
    <3>3. OnTheirWay' /\ ServesLastReport'
      BY <3>1, <3>2 DEF OnTheirWay, ServesLastReport
    <3> QED BY <2>3, <3>3 DEF GateInv
  <2> QED BY <2>4, <2>5, <2>6
<1>3. CASE RestartDisplayMgr
  <2>1. Len(calls') = 0
    BY <1>3 DEF RestartDisplayMgr
  <2> QED BY <1>3, <2>1 DEF RestartDisplayMgr, GateInv, Blocked, LatchHolds,
             ServesLastReport, OnTheirWay, AtRest
<1>4. CASE \E on \in BOOLEAN : SomeoneElseSets(on)
  BY <1>4 DEF SomeoneElseSets, GateInv, Blocked, LatchHolds, ServesLastReport,
     OnTheirWay, AtRest
<1>5. ASSUME NEW msg \in Reports, HandleReport(msg) PROVE GateInv'
  <2>1. CASE Suppressed(msg)
    BY <1>5, <2>1 DEF HandleReport, GateInv, Blocked, LatchHolds, ServesLastReport,
       OnTheirWay, AtRest
  <2>2. CASE ~Suppressed(msg)
    <3> DEFINE occ == msg = "occupied"
    <3>1. /\ Dispatching /\ occupied' = occ /\ latched' = (latched /\ occ) /\ Update(occ)
          /\ UNCHANGED <<requested, phase, running, panel, meddled>>
      BY <1>5, <2>2 DEF HandleReport
    <3>2. latched' => ~occ
      BY <2>2, <3>1 DEF Suppressed
    <3>3. occ \in BOOLEAN
      OBVIOUS
    <3> HIDE DEF occ
    <3> QED BY <3>1, <3>2, <3>3, UpdateKeeps
  <2> QED BY <2>1, <2>2
<1>6. CASE HandleSensorDown
  BY <1>6, UpdateKeeps DEF HandleSensorDown
<1>7. CASE HandleSensorUp
  BY <1>7 DEF HandleSensorUp, GateInv, Blocked, LatchHolds, ServesLastReport,
     OnTheirWay, AtRest
<1>8. ASSUME NEW on \in BOOLEAN, HandleForce(on) PROVE GateInv'
  BY <1>8, UpdateKeeps DEF HandleForce
<1>9. CASE CallFails
  <2>1. \A k \in 1 .. Len(calls') : ~calls'[k].awaited
    BY <1>9, AbandonedFacts DEF CallFails, TypeOK
  <2> QED BY <1>9, <2>1 DEF CallFails, GateInv, Blocked, LatchHolds, ServesLastReport,
             OnTheirWay, AtRest
<1>10. CASE CallReturns
  <2>1. phase = "running" /\ call = "done" /\ calls = <<>> /\ calls' = <<>>
    BY <1>10 DEF CallReturns, GateInv, OnTheirWay
  <2>2. requested' = 1 <=> occupied
    BY <1>10 DEF CallReturns
  <2>3. OnTheirWay'
    BY <1>10, <2>1, <2>2 DEF CallReturns, GateInv, OnTheirWay, TypeOK
  <2>4. Blocked' /\ LatchHolds' /\ ServesLastReport'
    BY <1>10 DEF CallReturns, GateInv, Blocked, LatchHolds, ServesLastReport
  <2> QED BY <2>3, <2>4 DEF GateInv
<1>11. CASE Free
  BY <1>11 DEF Free, GateInv, Blocked, LatchHolds, ServesLastReport, OnTheirWay, AtRest
<1>12. CASE Freed
  BY <1>12 DEF Freed, GateInv, Blocked, LatchHolds, ServesLastReport, OnTheirWay, AtRest
<1>13. CASE UNCHANGED vars
  BY <1>13 DEF vars, GateInv, Blocked, LatchHolds, ServesLastReport, OnTheirWay, AtRest
<1> HIDE DEF gate
<1> QED
  BY <1>1, <1>2, <1>3, <1>4, <1>5, <1>6, <1>7, <1>8, <1>9, <1>10, <1>11, <1>12, <1>13
     DEF Next, Environment, Dispatch

LEMMA GateInvariant == Spec => []GateInv
<1>1. Init => GateInv
  <2> SUFFICES ASSUME Init PROVE GateInv
    OBVIOUS
  <2>1. Len(calls) = 0
    BY DEF Init
  <2>2. OnTheirWay
    BY <2>1 DEF Init, OnTheirWay
  <2>3. ServesLastReport
    BY DEF Init, ServesLastReport
  <2> QED BY <2>2, <2>3 DEF Init, GateInv, Blocked, LatchHolds
<1> QED BY <1>1, GateTypeCorrect, GateStep, PTL DEF Spec

\* For queues of any length: between two messages the slideshow runs exactly as
\* the last message that counted says, or the last call to display-mgr failed.
THEOREM LastReportServed == Spec => []ServesLastReport
<1>1. GateInv => ServesLastReport
  BY DEF GateInv
<1> QED BY <1>1, GateInvariant, PTL

\* Whatever reports were under way when it came, a forced off holds.
THEOREM ForcedOffHolds == Spec => []LatchHolds
<1>1. GateInv => LatchHolds
  BY DEF GateInv
<1> QED BY <1>1, GateInvariant, PTL

\* A call that timed out and is served late never has the last word.
THEOREM PanelFollowsGate == Spec => []PanelFollows
<1>1. GateInv => PanelFollows
  BY DEF GateInv, OnTheirWay, PanelFollows, AtRest
<1> QED BY <1>1, GateInvariant, PTL
=============================================================================
