---------------------------- MODULE OccupancyGate ----------------------------
(***************************************************************************)
(* ambience/display.c: the gate that turns occupancy reports and manual    *)
(* overrides into Display.On / Display.Off calls, and these into starts    *)
(* and stops of the slideshow (the callbacks of ambience/main.c).          *)
(*                                                                         *)
(* The dispatch thread takes one message of the bus at a time and blocks   *)
(* in each call to display-mgr; what arrives meanwhile waits in the inbox. *)
(* A call may fail or time out, and display-mgr may serve it all the same, *)
(* later.                                                                  *)
(*                                                                         *)
(* External: the occupancy sensor, the callers of the Force methods, and   *)
(* display-mgr, which serves calls in order, may restart (which lights the *)
(* panel) and obeys other clients (display-ctrl) as well.                  *)
(***************************************************************************)
EXTENDS Integers, Sequences

CONSTANTS MaxInbox,   \* bound: messages waiting for the dispatch thread
          MaxCalls    \* bound: calls waiting at display-mgr

ASSUME GateAssumption == MaxInbox \in Nat /\ MaxCalls \in Nat

VARIABLES
  inbox,              \* the bus messages ambience has not handled yet
  occupied, latched,  \* last_occupancy_report.occupied, force_off_latched
  requested,          \* requested_state: 1, 0, or -1 for unknown
  call,               \* the Display method it is blocked in, or "none"
  phase,              \* "running", "freeing" or "freed"
  running,            \* the slideshow's worker is running
  calls,              \* the calls waiting at display-mgr
  panel,              \* the panel is lit
  meddled             \* history: the panel was last set by someone else

gate == <<occupied, latched, requested>>
vars == <<inbox, gate, call, phase, running, calls, panel, meddled>>

Reports == {"occupied", "vacant"}
Messages == Reports \cup {"sensorDown", "sensorUp", "forceOn", "forceOff"}
Calls == [on : BOOLEAN, awaited : BOOLEAN]
Method(on) == IF on THEN "On" ELSE "Off"

\* display_init leaves requested_state 0; how the panel is then is unknown.
Init ==
  /\ inbox = <<>> /\ calls = <<>>
  /\ occupied = FALSE /\ latched = FALSE /\ requested = 0
  /\ call = "none" /\ phase = "running" /\ running = FALSE
  /\ panel \in BOOLEAN /\ meddled = TRUE

-----------------------------------------------------------------------------
\* The other ends of the bus.

Arrive(msg) ==
  /\ Len(inbox) < MaxInbox
  /\ inbox' = Append(inbox, msg)
  /\ UNCHANGED <<gate, call, phase, running, calls, panel, meddled>>

\* display-mgr serves the oldest call; the gate may have stopped waiting.
ServeCall ==
  /\ calls # <<>>
  /\ panel' = Head(calls).on /\ meddled' = FALSE
  /\ calls' = Tail(calls)
  /\ call' = IF Head(calls).awaited THEN "done" ELSE call
  /\ UNCHANGED <<inbox, gate, phase, running>>

\* A restart loses the calls and lights the panel.
RestartDisplayMgr ==
  /\ calls' = <<>>
  /\ panel' = TRUE /\ meddled' = TRUE
  /\ UNCHANGED <<inbox, gate, call, phase, running>>

SomeoneElseSets(on) ==
  /\ panel' = on /\ meddled' = TRUE
  /\ UNCHANGED <<inbox, gate, call, phase, running, calls>>

-----------------------------------------------------------------------------
\* The dispatch thread.

Dispatching == phase = "running" /\ call = "none" /\ inbox # <<>>

Matches(occ) == requested = (IF occ THEN 1 ELSE 0)

\* update_display_state, up to the call.
Update(occ) ==
  IF Matches(occ)
  THEN UNCHANGED <<call, calls>>
  ELSE /\ Len(calls) < MaxCalls
       /\ call' = Method(occ)
       /\ calls' = Append(calls, [on |-> occ, awaited |-> TRUE])

\* Mutant: the last report is tested instead of this one.
SuppressedByLast(msg) == latched /\ msg \in Reports /\ occupied

\* An occupied=true report is not even recorded while the latch is set.
Suppressed(msg) == latched /\ msg = "occupied"

HandleReport(msg) ==
  /\ Dispatching /\ Head(inbox) = msg
  /\ inbox' = Tail(inbox)
  /\ IF Suppressed(msg)
     THEN UNCHANGED <<gate, call, calls>>
     ELSE /\ occupied' = (msg = "occupied")
          /\ latched' = (latched /\ msg = "occupied")
          /\ Update(msg = "occupied")
          /\ UNCHANGED requested
  /\ UNCHANGED <<phase, running, panel, meddled>>

\* The occupancy service left the bus; its return changes nothing.
HandleSensorDown ==
  /\ Dispatching /\ Head(inbox) = "sensorDown"
  /\ inbox' = Tail(inbox)
  /\ occupied' = FALSE /\ latched' = FALSE
  /\ Update(FALSE)
  /\ UNCHANGED <<requested, phase, running, panel, meddled>>

HandleSensorUp ==
  /\ Dispatching /\ Head(inbox) = "sensorUp"
  /\ inbox' = Tail(inbox)
  /\ UNCHANGED <<gate, call, phase, running, calls, panel, meddled>>

\* ForceSlideshowOn and ForceSlideshowOff.
HandleForce(on) ==
  /\ Dispatching /\ Head(inbox) = IF on THEN "forceOn" ELSE "forceOff"
  /\ inbox' = Tail(inbox)
  /\ occupied' = on /\ latched' = ~on
  /\ Update(on)
  /\ UNCHANGED <<requested, phase, running, panel, meddled>>

\* A call still on its way stays there, its answer for nobody.
Abandoned == [k \in DOMAIN calls |-> [calls[k] EXCEPT !.awaited = FALSE]]

\* Mutant: a failed call leaves the requested state as it was.
CallFailsUnnoticed ==
  /\ phase = "running" /\ call \in {"On", "Off"}
  /\ calls' = Abandoned
  /\ call' = "none"
  /\ UNCHANGED <<inbox, gate, phase, running, panel, meddled>>

\* The call fails or times out.
CallFails ==
  /\ phase = "running" /\ call \in {"On", "Off"}
  /\ requested' = -1
  /\ calls' = Abandoned
  /\ call' = "none"
  /\ UNCHANGED <<inbox, occupied, latched, phase, running, panel, meddled>>

\* Mutant: the state is stepped instead of set.
CallReturnsStepped ==
  /\ phase = "running" /\ call = "done"
  /\ requested' = requested + (IF occupied THEN 1 ELSE -1)
  /\ running' = occupied
  /\ call' = "none"
  /\ UNCHANGED <<inbox, occupied, latched, phase, calls, panel, meddled>>

\* It succeeds: the callback starts or stops the slideshow.
CallReturns ==
  /\ phase = "running" /\ call = "done"
  /\ requested' = IF occupied THEN 1 ELSE 0
  /\ running' = occupied
  /\ call' = "none"
  /\ UNCHANGED <<inbox, occupied, latched, phase, calls, panel, meddled>>

\* The loop has ended: slideshow_free, and the last call of display_free.
Free ==
  /\ phase = "running" /\ call = "none" /\ Len(calls) < MaxCalls
  /\ phase' = "freeing"
  /\ running' = FALSE
  /\ call' = "Off"
  /\ calls' = Append(calls, [on |-> FALSE, awaited |-> TRUE])
  /\ UNCHANGED <<inbox, gate, panel, meddled>>

Freed ==
  /\ phase = "freeing"
  /\ phase' = "freed" /\ call' = "none"
  /\ calls' = Abandoned
  /\ UNCHANGED <<inbox, gate, running, panel, meddled>>

Environment ==
  \/ \E msg \in Messages : Arrive(msg)
  \/ ServeCall \/ RestartDisplayMgr
  \/ \E on \in BOOLEAN : SomeoneElseSets(on)

Dispatch ==
  \/ \E msg \in Reports : HandleReport(msg)
  \/ HandleSensorDown \/ HandleSensorUp
  \/ \E on \in BOOLEAN : HandleForce(on)
  \/ CallFails \/ CallReturns

Next == Environment \/ Dispatch \/ Free \/ Freed

Spec == Init /\ [][Next]_vars

-----------------------------------------------------------------------------
\* Correctness.

\* Every variable stays in its range.
TypeOK ==
  /\ inbox \in Seq(Messages) /\ calls \in Seq(Calls)
  /\ occupied \in BOOLEAN /\ latched \in BOOLEAN /\ requested \in {-1, 0, 1}
  /\ call \in {"none", "On", "Off", "done"}
  /\ phase \in {"running", "freeing", "freed"}
  /\ running \in BOOLEAN /\ panel \in BOOLEAN /\ meddled \in BOOLEAN

AtRest == phase = "running" /\ call = "none"

\* Between two messages the slideshow runs exactly if the last message that
\* counted says so, unless the last call to display-mgr has failed; then
\* requested_state is -1 and the next message calls again.
ServesLastReport ==
  AtRest => \/ requested = -1
            \/ requested = (IF occupied THEN 1 ELSE 0) /\ running = occupied

\* A forced off holds (ambience/README.md, ForceSlideshowOff): until a vacant
\* report, the loss of the sensor or a forced on, nothing asks for the display,
\* whatever reports were under way.
LatchHolds == latched => ~occupied /\ call # "On"

\* The display does what the gate believes, if nobody else set it: a call that
\* timed out and is served late is always overtaken by the next one.
PanelFollows ==
  AtRest /\ requested # -1 /\ ~meddled => panel = (requested = 1)
=============================================================================
