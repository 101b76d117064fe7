----------------------------- MODULE DisplayMgr -----------------------------
(***************************************************************************)
(* display-mgr, the daemon that owns the display: it lends the framebuffer *)
(* to one client at a time (dbus.c) and turns the panel on and off (drm.c).*)
(* With it, the library its clients use, lib/drm_mgr/drm_mgr.c: a client   *)
(* asks for the lease, maps the buffer it gets, and gives both back.       *)
(*                                                                         *)
(* A client is a connection to the bus, whose unique name is never used    *)
(* again.  Its process may end at any time, and with it its mapping and    *)
(* then its connection.  The bus delivers in order, and tells the daemon   *)
(* of the end of a connection it tracks.  A call may time out at the       *)
(* client and is served all the same.  The daemon may crash and start      *)
(* again, which makes a new buffer; the old one lives on where it is       *)
(* mapped.                                                                 *)
(***************************************************************************)
EXTENDS Integers, Sequences

CONSTANTS Clients, NoClient,
          MaxInbox,      \* bound: calls waiting for the daemon
          MaxBuffers     \* bound: starts of the daemon

ASSUME DisplayMgrAssumption ==
  /\ NoClient \notin Clients
  /\ MaxInbox \in Nat /\ MaxBuffers \in Nat

VARIABLES
  phase,          \* the daemon: "down", "running", or "restored" (its loop
                  \* has ended and the panel is as display-mgr leaves it)
  inbox,          \* the calls and notices on their way to it
  holder,         \* the client g_lease_track holds, or NoClient
  displayOn,      \* g_display_on
  onAtStartup,    \* display_on_at_startup
  current,        \* the framebuffer: the number of this start of the daemon
  state,          \* what each client is doing
  buffer,         \* the framebuffer whose descriptor it has, or 0
  panel,          \* the panel is lit
  faulted         \* history: the last switch of the panel failed

lease == <<inbox, holder, state, buffer>>
power == <<displayOn, onAtStartup, panel, faulted>>
vars == <<phase, current, lease, power>>

ClientStates == {"idle", "acquiring", "granted", "holding", "releasing", "gone"}
Messages == [kind : {"acquire", "release", "gone"}, from : Clients,
             awaited : BOOLEAN]

Init ==
  /\ phase = "down" /\ current = 0
  /\ inbox = <<>> /\ holder = NoClient
  /\ state = [c \in Clients |-> "idle"] /\ buffer = [c \in Clients |-> 0]
  /\ displayOn = FALSE /\ onAtStartup = FALSE
  /\ panel \in BOOLEAN /\ faulted = FALSE

-----------------------------------------------------------------------------
\* A client, through drm_mgr.

Send(c, kind) ==
  /\ Len(inbox) < MaxInbox
  /\ inbox' = Append(inbox, [kind |-> kind, from |-> c, awaited |-> TRUE])

\* Its caller no longer waits for the answer.
GiveUp(c) ==
  [k \in DOMAIN inbox |->
     [inbox[k] EXCEPT !.awaited = @ /\ inbox[k].from # c]]

AcquireFb(c) ==
  /\ state[c] = "idle" /\ phase # "down"
  /\ Send(c, "acquire")
  /\ state' = [state EXCEPT ![c] = "acquiring"]
  /\ UNCHANGED <<phase, current, holder, buffer, power>>

\* The reply is read and the buffer mapped, ...
MapFb(c) ==
  /\ state[c] = "granted"
  /\ state' = [state EXCEPT ![c] = "holding"]
  /\ UNCHANGED <<phase, current, inbox, holder, buffer, power>>

\* ... or not, and then the lease is not given back.
MapFbFails(c) ==
  /\ state[c] = "granted"
  /\ state' = [state EXCEPT ![c] = "idle"]
  /\ buffer' = [buffer EXCEPT ![c] = 0]
  /\ UNCHANGED <<phase, current, inbox, holder, power>>

\* Mutant: the buffer is unmapped only when the answer is there.
ReleaseBeforeUnmap(c) ==
  /\ state[c] = "holding" /\ phase # "down"
  /\ state' = [state EXCEPT ![c] = "releasing"] /\ Send(c, "release")
  /\ UNCHANGED <<phase, current, holder, buffer, power>>

\* The buffer is unmapped before the lease is given back.
ReleaseFb(c) ==
  /\ state[c] = "holding"
  /\ buffer' = [buffer EXCEPT ![c] = 0]
  /\ IF phase = "down"
     THEN state' = [state EXCEPT ![c] = "idle"] /\ UNCHANGED inbox
     ELSE state' = [state EXCEPT ![c] = "releasing"] /\ Send(c, "release")
  /\ UNCHANGED <<phase, current, holder, power>>

CallTimesOut(c) ==
  /\ state[c] \in {"acquiring", "releasing"}
  /\ state' = [state EXCEPT ![c] = "idle"]
  /\ inbox' = GiveUp(c)
  /\ UNCHANGED <<phase, current, holder, buffer, power>>

\* drm_mgr_free, or the end of the process.  The bus tells the daemon if it
\* tracks the client.
Leave(c) ==
  /\ state[c] # "gone"
  /\ state' = [state EXCEPT ![c] = "gone"]
  /\ buffer' = [buffer EXCEPT ![c] = 0]
  /\ inbox' = IF holder = c
              THEN Append(GiveUp(c),
                          [kind |-> "gone", from |-> c, awaited |-> FALSE])
              ELSE GiveUp(c)
  /\ UNCHANGED <<phase, current, holder, power>>

Client(c) ==
  \/ AcquireFb(c) \/ MapFb(c) \/ MapFbFails(c) \/ ReleaseFb(c)
  \/ CallTimesOut(c) \/ Leave(c)

-----------------------------------------------------------------------------
\* The daemon: leases.

Receive(kind, c) ==
  /\ phase = "running" /\ inbox # <<>>
  /\ Head(inbox).kind = kind /\ Head(inbox).from = c
  /\ inbox' = Tail(inbox)

\* The answer reaches the client unless it has stopped waiting.
Answer(c, next) ==
  state' = IF Head(inbox).awaited THEN [state EXCEPT ![c] = next] ELSE state

\* Mutant: a client that has gone meanwhile is tracked all the same.
TrackAnyone(c) == TRUE

\* sd_bus_track_add_sender fails if the client has gone meanwhile.
Trackable(c) == state[c] # "gone"

\* Mutant: the lease is kept under the sender's pid, which may be unknown.
GrantLeaseToPid(c) ==
  /\ Receive("acquire", c)
  /\ holder = c \/ (holder = NoClient /\ Trackable(c))
  /\ holder' = 0
  /\ Answer(c, "granted")
  /\ buffer' = IF Head(inbox).awaited
               THEN [buffer EXCEPT ![c] = current] ELSE buffer
  /\ UNCHANGED <<phase, current, power>>

\* The lease goes to the holder once more, or to whoever can be tracked.
GrantLease(c) ==
  /\ Receive("acquire", c)
  /\ holder = c \/ (holder = NoClient /\ Trackable(c))
  /\ holder' = c
  /\ Answer(c, "granted")
  /\ buffer' = IF Head(inbox).awaited
               THEN [buffer EXCEPT ![c] = current] ELSE buffer
  /\ UNCHANGED <<phase, current, power>>

\* Someone else holds the lease, or the sender cannot be tracked.
RefuseLease(c) ==
  /\ Receive("acquire", c)
  /\ holder # c
  /\ Answer(c, "idle")
  /\ UNCHANGED <<phase, current, holder, buffer, power>>

\* Mutant: whoever asks, the lease is given up.
ReleaseAnyLease(c) ==
  /\ Receive("release", c)
  /\ holder' = NoClient
  /\ Answer(c, "idle")
  /\ UNCHANGED <<phase, current, buffer, power>>

\* Refused to anyone but the holder.
ReleaseLease(c) ==
  /\ Receive("release", c)
  /\ holder' = IF holder = c THEN NoClient ELSE holder
  /\ Answer(c, "idle")
  /\ UNCHANGED <<phase, current, buffer, power>>

\* on_lease_track_drop: the tracked client left the bus.
LeaseTrackDrop(c) ==
  /\ Receive("gone", c)
  /\ holder' = IF holder = c THEN NoClient ELSE holder
  /\ UNCHANGED <<phase, current, state, buffer, power>>

-----------------------------------------------------------------------------
\* The daemon: the panel.  drmModeSetCrtc may fail (ok is FALSE).

\* set_display_on, for On and Off.
SetDisplayOn(on, ok) ==
  /\ phase = "running" /\ displayOn # on
  /\ panel' = IF ok THEN on ELSE panel
  /\ displayOn' = on /\ faulted' = ~ok
  /\ UNCHANGED <<phase, current, lease, onAtStartup>>

\* drm_create_framebuffer lights the panel of an output that has a mode, be it
\* blanked or not, and the descriptor of the buffer is there to be lent.
CreateFramebuffer(ok) ==
  /\ current < MaxBuffers /\ current' = current + 1
  /\ panel' = (panel \/ ok) /\ faulted' = ~ok

\* Mutant: the display is taken to be off at first.
StartAssumingOff(ok) ==
  /\ phase = "down" /\ phase' = "running"
  /\ CreateFramebuffer(ok)
  /\ onAtStartup' \in {panel', TRUE} /\ displayOn' = FALSE
  /\ UNCHANGED lease

\* Only then is the state of the panel read, twice.  A blanked panel counts as
\* on if a buffer is attached.
Start(ok) ==
  /\ phase = "down" /\ phase' = "running"
  /\ CreateFramebuffer(ok)
  /\ onAtStartup' \in {panel', TRUE} /\ displayOn' = onAtStartup'
  /\ UNCHANGED lease

\* Or the output has no mode, or the daemon does not get its name on the bus;
\* a buffer it has made by then is gone again.
StartFails(lit) ==
  /\ phase = "down" /\ panel' = lit
  /\ UNCHANGED <<phase, current, lease, displayOn, onAtStartup, faulted>>

\* The loop has ended.
Restore(ok) ==
  /\ phase = "running"
  /\ phase' = "restored"
  /\ panel' = IF ok THEN onAtStartup ELSE panel
  /\ faulted' = ~ok
  /\ UNCHANGED <<current, lease, displayOn, onAtStartup>>

\* dbus_free and drm_free, or a crash: the lease and the calls are gone, and
\* without a framebuffer the console decides what the panel does.
Down(lit) ==
  /\ phase # "down"
  /\ phase' = "down"
  /\ inbox' = <<>> /\ holder' = NoClient
  /\ state' = [c \in Clients |->
                 IF state[c] \in {"acquiring", "releasing"}
                 THEN "idle" ELSE state[c]]
  /\ panel' = lit
  /\ UNCHANGED <<current, buffer, displayOn, onAtStartup, faulted>>

Lease(c) ==
  GrantLease(c) \/ RefuseLease(c) \/ ReleaseLease(c) \/ LeaseTrackDrop(c)

Power ==
  \E ok \in BOOLEAN :
    \/ Start(ok) \/ StartFails(ok) \/ Restore(ok) \/ Down(ok)
    \/ \E on \in BOOLEAN : SetDisplayOn(on, ok)

Next == Power \/ \E c \in Clients : Client(c) \/ Lease(c)

Spec == Init /\ [][Next]_vars

\* The daemon keeps taking messages from its bus.
FairSpec == Spec /\ WF_vars(\E c \in Clients : Lease(c))

-----------------------------------------------------------------------------
\* Correctness.

\* Every variable stays in its range.
TypeOK ==
  /\ phase \in {"down", "running", "restored"} /\ current \in Nat
  /\ inbox \in Seq(Messages) /\ holder \in Clients \cup {NoClient}
  /\ state \in [Clients -> ClientStates] /\ buffer \in [Clients -> Nat]
  /\ displayOn \in BOOLEAN /\ onAtStartup \in BOOLEAN
  /\ panel \in BOOLEAN /\ faulted \in BOOLEAN

\* "Only one client may hold the lease at a time" (README.md, Lease semantics):
\* no two clients have the same framebuffer, whatever calls of theirs were
\* served late, whatever restart lies between.
Exclusive ==
  \A c, d \in Clients : buffer[c] = buffer[d] /\ buffer[c] # 0 => c = d

\* "When that name drops off the bus ... the lease clears automatically": as
\* long as a client that has gone holds the lease, the notice is on its way.
DeadHolderNoticed ==
  phase # "down" /\ holder # NoClient /\ state[holder] = "gone" =>
    \E k \in DOMAIN inbox : inbox[k].kind = "gone" /\ inbox[k].from = holder

\* ... and so the lease comes free.
DeadHolderFreed ==
  \A c \in Clients :
    (holder = c /\ state[c] = "gone") ~> (holder # c \/ phase = "restored")

\* The whole protocol of calls, deaths and restarts is the lending of one
\* framebuffer at a time (README.md, Lease semantics): the daemon takes it for
\* returned only from a client that has unmapped it, and lends it to the next
\* only after that.
Lending == INSTANCE FramebufferLease WITH
  Nobody <- NoClient, fb <- IF phase = "down" THEN 0 ELSE current,
  lessee <- holder, drawsTo <- buffer

ImplementsLease == Lending!Spec

\* Status tells the truth about the panel, as long as no switch fails.
StatusIsPanel == phase = "running" /\ ~faulted => displayOn = panel
=============================================================================
