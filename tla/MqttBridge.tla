----------------------------- MODULE MqttBridge -----------------------------
(***************************************************************************)
(* dbus-mqtt-bridge: signals of the homeboard's services become retained   *)
(* messages at an MQTT broker, and messages from there become D-Bus calls. *)
(*                                                                         *)
(* One thread polls both connections.  While it is blocked in a call, what *)
(* the bus sends is read in search of the reply and kept in the process,   *)
(* where poll does not see it.  The MQTT connection may break at any time, *)
(* noticed by either end much later; the bridge then reconnects, not more  *)
(* often than every 30 seconds, and what it published meanwhile is lost.   *)
(*                                                                         *)
(* External: the services, of which only what they announce matters; the   *)
(* broker, with a last will for each connection and one connection for     *)
(* each client id; libmosquitto, which sends in order and queues nothing   *)
(* without a connection; and the network.                                  *)
(***************************************************************************)
EXTENDS Integers, Sequences

CONSTANTS Topics, Active,    \* state/..., of which state/slideshow_active
          MaxUnderWay,       \* bound: signals between service and broker
          MaxCalls           \* bound: calls waiting at ambience

ASSUME MqttBridgeAssumption ==
  /\ Active \in Topics
  /\ MaxUnderWay \in Nat /\ MaxCalls \in Nat

VARIABLES
  phase,          \* "down", "running", "dispatching" what the bus has sent, or
                  \* "calling": blocked in a D-Bus call
  wire,           \* what the bus has for the bridge, unread
  rqueue,         \* what sd-bus has read, but not dispatched
  requests,       \* the calls waiting at ambience
  truth,          \* what the services have last announced, or would have
  socket,         \* the bridge's view: "none", "connecting" or "connected"
  due,            \* next_reconnect_ts has passed
  linked,         \* the TCP connection works
  out, in,        \* the packets on it
  session,        \* the broker has accepted this connection
  subscribed,     \* ... and its subscription to cmd/#
  ghost,          \* the broker takes a broken connection for a live one
  retained,       \* what the broker has retained for each topic
  bridgeState,    \* ... and for state/bridge
  network,        \* the broker can be reached
  missed          \* history: the topics whose last announcement was lost

bus == <<wire, rqueue, requests, truth>>
connection == <<socket, due, linked, out, in>>
broker == <<session, subscribed, ghost, retained, bridgeState>>
vars == <<phase, bus, connection, broker, network, missed>>

Signal(topic, value) == [kind |-> "signal", topic |-> topic, value |-> value]
Reply(kind) == [kind |-> kind, topic |-> Active, value |-> FALSE]
BusMessages == [kind : {"signal", "reply", "late"}, topic : Topics, value : BOOLEAN]

\* Mutant: a signal goes on unconverted.
PublishSignal(topic, value) == Signal(topic, value)

Publish(topic, value) == [kind |-> "state", topic |-> topic, value |-> value]
Control(kind) == [kind |-> kind, topic |-> Active, value |-> FALSE]
Packets == [kind : {"connect", "subscribe", "online", "offline", "disconnect", "state"},
            topic : Topics, value : BOOLEAN]

\* force_on, force_off, and all those that change nothing that is announced.
Commands == {"on", "off", "other"}
Incoming == Commands \cup {"malformed", "connack", "refused"}
\* What becomes of the reply: it is waited for, ignored, or has no receiver.
Requests == [command : Commands, answer : {"reply", "late", "none"}]

\* The topics that messages of a kind are about, ...
About(messages, kind) == {messages[k].topic : k \in {j \in DOMAIN messages :
                                                     messages[j].kind = kind}}
\* ... signals to be dispatched, and publications on their way to the broker.
Undispatched == About(rqueue, "signal") \cup About(wire, "signal")
Unsent == About(out, "state")

Init ==
  /\ phase = "down" /\ wire = <<>> /\ rqueue = <<>> /\ requests = <<>>
  /\ truth \in [Topics -> BOOLEAN]
  /\ socket = "none" /\ due = TRUE /\ linked = FALSE /\ out = <<>> /\ in = <<>>
  /\ session = FALSE /\ subscribed = FALSE /\ ghost = FALSE
  /\ retained \in [Topics -> BOOLEAN] /\ bridgeState = "offline"
  /\ network = "ok"
  /\ missed = {t \in Topics : retained[t] # truth[t]}

-----------------------------------------------------------------------------
\* The services.

\* A bound on the surroundings.
HasRoom == Len(wire) + Len(rqueue) + Len(out) < MaxUnderWay

\* A service announces a new state of its own accord.
Announce(topic) ==
  /\ HasRoom
  /\ truth' = [truth EXCEPT ![topic] = ~truth[topic]]
  /\ IF phase = "down"
     THEN wire' = wire /\ missed' = missed \cup {topic}
     ELSE wire' = Append(wire, Signal(topic, ~truth[topic])) /\ missed' = missed
  /\ UNCHANGED <<phase, rqueue, requests, connection, broker, network>>

\* ambience serves a call: if the slideshow starts or stops with it, it says so
\* before it replies.
ServeRequest ==
  /\ requests # <<>>
  /\ requests' = Tail(requests)
  /\ truth' = [truth EXCEPT ![Active] =
                 CASE Head(requests).command = "on" -> TRUE
                   [] Head(requests).command = "off" -> FALSE
                   [] OTHER -> truth[Active]]
  /\ LET announced == IF truth' = truth THEN <<>>
                      ELSE <<Signal(Active, truth'[Active])>>
         answered == IF Head(requests).answer = "none" THEN <<>>
                     ELSE <<Reply(Head(requests).answer)>>
     IN  IF phase = "down"
         THEN wire' = wire /\ missed' = missed \cup About(announced, "signal")
         ELSE wire' = wire \o announced \o answered /\ missed' = missed
  /\ UNCHANGED <<phase, rqueue, connection, broker, network>>

-----------------------------------------------------------------------------
\* The bridge: connections.

\* A connection ends; what is on its way is lost, and the broker does not know
\* yet.
Sever ==
  /\ in' = <<>>
  /\ session' = FALSE /\ subscribed' = FALSE /\ ghost' = (ghost \/ session)
  /\ UNCHANGED <<retained, bridgeState>>

\* try_connect: mosquitto_connect blocks until there is a connection, or none.
TryConnect(mayTry) ==
  /\ Sever
  /\ due' = FALSE
  /\ IF mayTry /\ network # "gone"
     THEN socket' = "connecting" /\ linked' = TRUE /\ out' = <<Control("connect")>>
     ELSE socket' = "none" /\ linked' = FALSE /\ out' = <<>>

Answering(answer) ==
  [k \in DOMAIN requests |->
     IF requests[k].answer = "reply" \/ answer = "none"
     THEN [requests[k] EXCEPT !.answer = answer] ELSE requests[k]]

\* main: rc_dbus_init, and rc_mqtt_init with its first attempt.
Start ==
  /\ phase = "down"
  /\ phase' = "running" /\ wire' = <<>> /\ rqueue' = <<>>
  /\ TryConnect(TRUE)
  /\ missed' = missed \cup Unsent
  /\ UNCHANGED <<requests, truth, network>>

ThrottleEnds ==
  /\ phase # "down" /\ ~due
  /\ due' = TRUE
  /\ UNCHANGED <<phase, bus, socket, linked, out, in, broker, network, missed>>

\* Mutant: a connection that was given up is not tried again.
ReconnectOnce ==
  /\ phase = "running" /\ socket # "none" /\ ~linked
  /\ TryConnect(due)
  /\ missed' = missed \cup Unsent
  /\ UNCHANGED <<phase, bus, network>>

\* rc_mqtt_loop_read, _write or _misc finds that the connection has ended, or
\* that there is none.
Reconnect ==
  /\ phase = "running"
  /\ IF socket = "none" THEN due ELSE ~linked
  /\ TryConnect(due)
  /\ missed' = missed \cup Unsent
  /\ UNCHANGED <<phase, bus, network>>

\* g_quit: the will is not needed, "offline" is published.
Free ==
  /\ phase = "running"
  /\ phase' = "down" /\ socket' = "none" /\ in' = <<>>
  /\ wire' = <<>> /\ rqueue' = <<>> /\ requests' = Answering("none")
  /\ out' = IF linked THEN out \o <<Control("offline"), Control("disconnect")>>
            ELSE out
  /\ missed' = missed \cup Undispatched
  /\ UNCHANGED <<truth, due, linked, broker, network>>

\* The process ends without that, perhaps in the middle of a call.
Crash ==
  /\ phase # "down"
  /\ phase' = "down" /\ socket' = "none" /\ linked' = FALSE /\ out' = <<>>
  /\ wire' = <<>> /\ rqueue' = <<>> /\ requests' = Answering("none")
  /\ Sever
  /\ missed' = missed \cup Undispatched \cup Unsent
  /\ UNCHANGED <<truth, due, network>>

-----------------------------------------------------------------------------
\* The bridge: the loop of main.

\* Without a connection libmosquitto refuses to publish.
Send(packets) == out' = IF socket # "none" /\ linked THEN out \o packets ELSE out

\* Mutant: what came in during a call is dispatched after what came later.
NextMessageUnread(message) ==
  IF wire # <<>>
  THEN message = Head(wire) /\ wire' = Tail(wire) /\ rqueue' = rqueue
  ELSE message = Head(rqueue) /\ rqueue' = Tail(rqueue) /\ wire' = wire

\* What sd-bus has read comes before what it has not.
NextMessage(message) ==
  IF rqueue # <<>>
  THEN message = Head(rqueue) /\ rqueue' = Tail(rqueue) /\ wire' = wire
  ELSE message = Head(wire) /\ wire' = Tail(wire) /\ rqueue' = rqueue

\* poll finds the bus readable, and messages are dispatched until there are none.
\* A reply that nobody waits for has no handler.
ProcessBus(message) ==
  /\ \/ phase = "running" /\ wire # <<>>
     \/ phase = "dispatching"
  /\ NextMessage(message)
  /\ phase' = IF rqueue' = <<>> /\ wire' = <<>> THEN "running" ELSE "dispatching"
  /\ IF message.kind # "signal" THEN UNCHANGED <<out, missed>>
     ELSE /\ Send(<<Publish(message.topic, message.value)>>)
          /\ missed' = IF socket # "none" /\ linked THEN missed \ {message.topic}
                       ELSE missed \cup {message.topic}
  /\ UNCHANGED <<requests, truth, socket, due, linked, in, broker, network>>

Read(packet) ==
  /\ phase = "running" /\ linked /\ in # <<>> /\ Head(in) = packet

\* Mutant: the bridge says it is there before it listens.
OnConnectOnlineFirst == <<Control("online"), Control("subscribe")>>

OnConnect == <<Control("subscribe"), Control("online")>>

ReadConnack ==
  /\ Read("connack")
  /\ in' = Tail(in) /\ socket' = "connected"
  /\ Send(OnConnect)
  /\ UNCHANGED <<phase, bus, due, linked, broker, network, missed>>

ReadRefused ==
  /\ Read("refused")
  /\ TryConnect(due)
  /\ missed' = missed \cup Unsent
  /\ UNCHANGED <<phase, bus, network>>

\* An unknown topic or a payload that does not parse.
DropCommand ==
  /\ Read("malformed")
  /\ in' = Tail(in)
  /\ UNCHANGED <<phase, bus, socket, due, linked, out, broker, network, missed>>

\* on_cmd: a blocking call.
ForwardCommand(command) ==
  /\ Read(command)
  /\ in' = Tail(in)
  /\ requests' = Append(requests, [command |-> command, answer |-> "reply"])
  /\ phase' = "calling"
  /\ UNCHANGED <<wire, rqueue, truth, socket, due, linked, out, broker, network,
                 missed>>

\* sd_bus_call reads up to the reply, and keeps the rest for sd_bus_process.
CallReads ==
  /\ phase = "calling" /\ wire # <<>>
  /\ wire' = Tail(wire)
  /\ IF Head(wire).kind = "reply"
     THEN phase' = "running" /\ rqueue' = rqueue
     ELSE phase' = phase /\ rqueue' = Append(rqueue, Head(wire))
  /\ UNCHANGED <<requests, truth, connection, broker, network, missed>>

\* The newest call is the one that is waited for, if it is not served yet.
IsAwaited == requests # <<>> /\ requests[Len(requests)].answer = "reply"
Withdrawn == IF IsAwaited THEN SubSeq(requests, 1, Len(requests) - 1) ELSE requests

\* The call times out, or there is no such service.
CallFails(delivered) ==
  /\ phase = "calling"
  /\ phase' = "running"
  /\ requests' = IF delivered THEN Answering("late") ELSE Withdrawn
  /\ wire' = [k \in DOMAIN wire |-> IF wire[k].kind = "reply"
                                    THEN Reply("late") ELSE wire[k]]
  /\ UNCHANGED <<rqueue, truth, connection, broker, network, missed>>

-----------------------------------------------------------------------------
\* The broker and the network.

Take(kind) ==
  /\ linked /\ network # "gone" /\ out # <<>> /\ Head(out).kind = kind

\* A client's new connection ends its old one, whose will is published.
AcceptConnect ==
  /\ Take("connect") /\ network = "ok"
  /\ out' = Tail(out) /\ in' = Append(in, "connack")
  /\ session' = TRUE /\ ghost' = FALSE
  /\ bridgeState' = IF ghost THEN "offline" ELSE bridgeState
  /\ UNCHANGED <<phase, bus, socket, due, linked, subscribed, retained, network,
                 missed>>

RefuseConnect ==
  /\ Take("connect") /\ network = "refusing"
  /\ out' = <<>> /\ in' = Append(in, "refused")
  /\ missed' = missed \cup Unsent
  /\ UNCHANGED <<phase, bus, socket, due, linked, broker, network>>

TakePacket ==
  /\ \E kind \in {"subscribe", "online", "offline", "state"} : Take(kind)
  /\ out' = Tail(out)
  /\ LET p == Head(out) IN
     /\ subscribed' = (session /\ (subscribed \/ p.kind = "subscribe"))
     /\ bridgeState' = IF session /\ p.kind \in {"online", "offline"} THEN p.kind
                       ELSE bridgeState
     /\ retained' = IF session /\ p.kind = "state"
                    THEN [retained EXCEPT ![p.topic] = p.value] ELSE retained
     /\ missed' = IF ~session /\ p.kind = "state" THEN missed \cup {p.topic}
                  ELSE missed
  /\ UNCHANGED <<phase, bus, socket, due, linked, in, session, ghost, network>>

TakeDisconnect ==
  /\ Take("disconnect")
  /\ out' = <<>> /\ linked' = FALSE /\ session' = FALSE /\ subscribed' = FALSE
  /\ UNCHANGED <<phase, bus, socket, due, in, ghost, retained, bridgeState,
                 network, missed>>

Takes == AcceptConnect \/ RefuseConnect \/ TakePacket \/ TakeDisconnect

\* Somebody publishes a command.
SendCommand(command) ==
  /\ session /\ subscribed /\ in = <<>> /\ Len(requests) < MaxCalls /\ HasRoom
  /\ in' = <<command>>
  /\ UNCHANGED <<phase, bus, socket, due, linked, out, broker, network, missed>>

\* The keepalive of a broken connection runs out: its will is published.
NoticeGhost ==
  /\ ghost
  /\ ghost' = FALSE /\ bridgeState' = "offline"
  /\ UNCHANGED <<phase, bus, connection, session, subscribed, retained, network,
                 missed>>

NetworkChanges ==
  /\ network' \in {"ok", "refusing", "gone"} \ {network}
  /\ UNCHANGED <<phase, bus, connection, broker, missed>>

LinkBreaks ==
  /\ linked /\ network = "gone"
  /\ linked' = FALSE /\ out' = <<>>
  /\ Sever
  /\ missed' = missed \cup Unsent
  /\ UNCHANGED <<phase, bus, socket, due, network>>

-----------------------------------------------------------------------------
ReadMqtt ==
  \/ ReadConnack \/ ReadRefused \/ DropCommand
  \/ \E command \in Commands : ForwardCommand(command)

Dispatch == \E message \in BusMessages : ProcessBus(message)

EndCall == CallReads \/ \E delivered \in BOOLEAN : CallFails(delivered)

Bridge ==
  \/ Start \/ ThrottleEnds \/ Reconnect \/ Free \/ Crash \/ Dispatch \/ ReadMqtt
  \/ EndCall

Surroundings ==
  \/ \E topic \in Topics : Announce(topic)
  \/ ServeRequest \/ Takes \/ NoticeGhost \/ NetworkChanges \/ LinkBreaks
  \/ \E command \in Commands \cup {"malformed"} : SendCommand(command)

Next == Bridge \/ Surroundings

Spec == Init /\ [][Next]_vars

\* The loop polls at least once a second and each turn serves the bus, then the
\* broker, then the connection, between calls that time out; the throttle's 30
\* seconds pass; ambience and the broker serve what they are sent.
Fairness ==
  /\ SF_vars(Dispatch) /\ SF_vars(ReadMqtt) /\ SF_vars(Reconnect)
  /\ WF_vars(EndCall) /\ WF_vars(ThrottleEnds)
  /\ WF_vars(ServeRequest) /\ WF_vars(Takes)

FairSpec == Spec /\ Fairness

-----------------------------------------------------------------------------
\* Correctness.

\* Every variable stays in its range.
TypeOK ==
  /\ phase \in {"down", "running", "dispatching", "calling"}
  /\ wire \in Seq(BusMessages) /\ rqueue \in Seq(BusMessages)
  /\ requests \in Seq(Requests) /\ truth \in [Topics -> BOOLEAN]
  /\ socket \in {"none", "connecting", "connected"}
  /\ due \in BOOLEAN /\ linked \in BOOLEAN
  /\ out \in Seq(Packets) /\ in \in Seq(Incoming)
  /\ session \in BOOLEAN /\ subscribed \in BOOLEAN /\ ghost \in BOOLEAN
  /\ retained \in [Topics -> BOOLEAN] /\ bridgeState \in {"online", "offline"}
  /\ network \in {"ok", "refusing", "gone"}
  /\ missed \subseteq Topics

\* The last message of a kind about a topic says so; there is none.
Says(messages, kind, topic, value) ==
  \E k \in DOMAIN messages :
    /\ messages[k].kind = kind /\ messages[k].topic = topic
    /\ messages[k].value = value
    /\ \A j \in DOMAIN messages :
         j > k => ~(messages[j].kind = kind /\ messages[j].topic = topic)
Silent(messages, kind, topic) == topic \notin About(messages, kind)

\* What the broker gets last of a topic, or else has.
IsNewest(topic, value) ==
  \/ Says(wire, "signal", topic, value)
  \/ /\ Silent(wire, "signal", topic)
     /\ \/ Says(rqueue, "signal", topic, value)
        \/ /\ Silent(rqueue, "signal", topic)
           /\ \/ Says(out, "state", topic, value)
              \/ Silent(out, "state", topic) /\ retained[topic] = value

\* "late-joining clients get current state" (README.md:71-73): once all that is
\* under way has arrived, the state retained for a topic is the service's,
\* unless its last announcement was lost with a connection or a process.
RetainedIsNewest == \A t \in Topics \ missed : IsNewest(t, truth[t])

\* README.md:23 and 70: whoever reads "online" has a bridge that listens, or
\* one whose end the broker has still to notice; without a connection it says
\* "offline", and with one that has settled it does not.
BridgeStateTrue ==
  /\ bridgeState = "online" => subscribed \/ ghost
  /\ ~session /\ ~ghost => bridgeState = "offline"
  /\ socket = "connected" /\ linked /\ out = <<>> => bridgeState = "online"

\* "Auto-reconnects" (README.md:22): a broker that can be reached from now on
\* gets its connection back, again and again, if the bus is not so busy that the
\* dispatching of its messages never ends.
Reconnects ==
  <>[](network = "ok" /\ phase # "down") /\ []<>(phase = "running") => []<>session

\* README.md:73, state/slideshow_active "reflects whether the ambience screen is
\* currently on and the slideshow is running": with a broker that can be reached
\* and a bridge that runs, it does so again and again, unless the last
\* announcement was lost.
ReflectsSlideshow ==
  <>[](network = "ok" /\ phase # "down") /\ []<>(phase = "running") =>
    []<>(retained[Active] = truth[Active] \/ Active \in missed)
=============================================================================
