----------------------------- MODULE SensorLink -----------------------------
(***************************************************************************)
(* occupancy-sensor-ld2410s/ld2410s_uart: session.c turns the serial line  *)
(* to the sensor into blocking calls, transport.c sends what is queued and *)
(* reads what comes back.                                                  *)
(*                                                                         *)
(* A call brackets its command between Enable and End.  Each of the three  *)
(* is put into a ring the reader thread takes it from; the reader sends    *)
(* the next one when the last was answered or has timed out, and deposits  *)
(* every answer in a slot with room for one, where the caller waits for    *)
(* it, but not for ever.                                                   *)
(*                                                                         *)
(* External: the sensor, which answers in order, late or never, and a line *)
(* that loses and garbles frames.  Both timeouts are two seconds but start *)
(* at different moments; either may come first.                            *)
(***************************************************************************)
EXTENDS Integers, Sequences

CONSTANTS Commands, Enable, End,
          QueueSize,     \* TRANSPORT_QUEUE_SIZE
          MaxFrames      \* bound: frames put into the ring

Frames == Commands \cup {Enable, End}

ASSUME SensorLinkAssumption ==
  /\ Enable \notin Commands /\ End \notin Commands /\ Enable # End
  /\ QueueSize \in Nat \ {0} /\ MaxFrames \in Nat

VARIABLES
  step,           \* what the caller's thread does in send_and_wait
  stage, command, \* for which of the three frames, for which command
  ok,             \* ret is 0
  slot,           \* resp_pending, resp_cmd, resp_status
  queue, head, tail,
  taken,          \* the frame read from queue[tail], until tail has moved
  waiting,        \* waiting_for_response
  toSensor, fromSensor,
  config,         \* the sensor is in its configuration mode
  slipped,        \* history: a wait has timed out
  missedEnd,      \* history: an End is lost since the last call began
  queued          \* history: the frames published and not yet taken

call == <<step, stage, command, ok>>
ring == <<queue, head, tail, taken>>
line == <<toSensor, fromSensor>>
history == <<slipped, missedEnd, queued>>
vars == <<call, slot, ring, waiting, line, config, history>>

Steps == {"idle", "clear", "enqueue", "publish", "wait", "sleep"}
Stages == {"enable", "command", "end"}

Frame == CASE stage = "enable" -> Enable [] stage = "command" -> command
           [] stage = "end" -> End

Init ==
  /\ step = "idle" /\ stage = "enable" /\ ok = FALSE
  /\ command \in Commands
  /\ slot = [pending |-> FALSE, of |-> Enable, status |-> TRUE]
  /\ queue = [k \in 0 .. (QueueSize - 1) |-> Enable]
  /\ head = 0 /\ tail = 0 /\ taken = <<>> /\ waiting = FALSE
  /\ toSensor = <<>> /\ fromSensor = <<>> /\ config = FALSE
  /\ slipped = FALSE /\ missedEnd = FALSE /\ queued = <<>>

-----------------------------------------------------------------------------
\* The caller: session_cmd, three times send_and_wait.

Call(c) ==
  /\ step = "idle" /\ head + 3 <= MaxFrames
  /\ command' = c /\ stage' = "enable" /\ step' = "clear" /\ ok' = FALSE
  /\ missedEnd' = FALSE
  /\ UNCHANGED <<slot, ring, waiting, line, config, slipped, queued>>

\* Mutant: after a failure the configuration mode is not closed.
DoneNoEnd(success) ==
  /\ ok' = (success /\ (stage # "end" \/ ok))
  /\ IF success /\ stage # "end"
     THEN step' = "clear" /\ stage' = IF stage = "enable" THEN "command" ELSE "end"
     ELSE step' = "idle" /\ stage' = stage
  /\ UNCHANGED command

\* One frame is done with.  End follows a failure too, and decides nothing.
Done(success) ==
  /\ ok' = IF stage = "end" THEN ok ELSE success
  /\ IF stage = "end"
     THEN step' = "idle" /\ stage' = stage
     ELSE /\ step' = "clear"
          /\ stage' = IF stage = "enable" /\ success THEN "command" ELSE "end"
  /\ UNCHANGED command

ClearSlot ==
  /\ step = "clear"
  /\ slot' = [slot EXCEPT !.pending = FALSE]
  /\ step' = "enqueue"
  /\ UNCHANGED <<stage, command, ok, ring, waiting, line, config, history>>

\* Mutant: one frame too many is let in.
RoomForOneMore == head - tail <= QueueSize

Room == head - tail < QueueSize

\* spsc_enqueue writes the slot before it moves the head, ...
WriteFrame ==
  /\ step = "enqueue" /\ Room
  /\ queue' = [queue EXCEPT ![head % QueueSize] = Frame]
  /\ step' = "publish"
  /\ UNCHANGED <<stage, command, ok, slot, head, tail, taken, waiting, line,
                 config, history>>

\* ... or refuses.
QueueFull ==
  /\ step = "enqueue" /\ ~Room
  /\ Done(FALSE)
  /\ missedEnd' = (missedEnd \/ stage = "end")
  /\ UNCHANGED <<slot, ring, waiting, line, config, slipped, queued>>

PublishFrame ==
  /\ step = "publish"
  /\ head' = head + 1
  /\ queued' = Append(queued, Frame)
  /\ step' = "wait"
  /\ UNCHANGED <<stage, command, ok, slot, queue, tail, taken, waiting, line,
                 config, slipped, missedEnd>>

FallAsleep ==
  /\ step = "wait" /\ ~slot.pending
  /\ step' = "sleep"
  /\ UNCHANGED <<stage, command, ok, slot, ring, waiting, line, config, history>>

\* Whatever lies in the slot is taken for the answer.
TakeAnswer ==
  /\ step \in {"wait", "sleep"} /\ slot.pending
  /\ slot' = [slot EXCEPT !.pending = FALSE]
  /\ Done(slot.status)
  /\ UNCHANGED <<ring, waiting, line, config, history>>

\* Mutant: the wait ends only with an answer.
WaitTimeoutIgnored ==
  /\ step = "sleep" /\ slot.pending
  /\ Done(FALSE)
  /\ slipped' = TRUE
  /\ UNCHANGED <<slot, ring, waiting, line, config, missedEnd, queued>>

\* pthread_cond_timedwait says ETIMEDOUT, even if an answer has just come.
WaitTimeout ==
  /\ step = "sleep"
  /\ Done(FALSE)
  /\ slipped' = TRUE
  /\ UNCHANGED <<slot, ring, waiting, line, config, missedEnd, queued>>

Caller ==
  ClearSlot \/ WriteFrame \/ QueueFull \/ PublishFrame \/ FallAsleep \/ TakeAnswer
    \/ WaitTimeout

-----------------------------------------------------------------------------
\* The reader thread.

\* waiting_for_response is over: the answer is late.
ReaderTimeout ==
  /\ waiting /\ taken = <<>>
  /\ waiting' = FALSE
  /\ UNCHANGED <<call, slot, ring, line, config, history>>

\* Mutant: the ring is read although it is empty.
ReadFrameUnchecked ==
  /\ ~waiting /\ taken = <<>>
  /\ taken' = <<queue[tail % QueueSize]>>
  /\ UNCHANGED <<call, slot, queue, head, tail, waiting, line, config, history>>

\* spsc_dequeue copies the frame, ...
ReadFrame ==
  /\ ~waiting /\ taken = <<>> /\ tail # head
  /\ taken' = <<queue[tail % QueueSize]>>
  /\ UNCHANGED <<call, slot, queue, head, tail, waiting, line, config, history>>

\* ... then moves the tail; the copy is sent.
FrameSent ==
  /\ taken # <<>>
  /\ taken' = <<>> /\ tail' = tail + 1 /\ waiting' = TRUE
  /\ toSensor' = toSensor \o taken
  /\ queued' = SubSeq(queued, 2, Len(queued))
  /\ UNCHANGED <<call, slot, queue, head, fromSensor, config, slipped, missedEnd>>

\* Mutant: the bytes stay in the buffer, and are parsed again.
ReceiveAnswerTwice ==
  /\ taken = <<>> /\ fromSensor # <<>>
  /\ slot' = [pending |-> TRUE, of |-> Head(fromSensor).of,
              status |-> Head(fromSensor).status]
  /\ waiting' = FALSE
  /\ UNCHANGED <<call, ring, line, config, history>>

\* on_cmd_response, for whatever comes in; it ends the reader's wait.
ReceiveAnswer ==
  /\ taken = <<>> /\ fromSensor # <<>>
  /\ slot' = [pending |-> TRUE, of |-> Head(fromSensor).of,
              status |-> Head(fromSensor).status]
  /\ fromSensor' = Tail(fromSensor)
  /\ waiting' = FALSE
  /\ UNCHANGED <<call, ring, toSensor, config, history>>

\* The frame has lost its header or is too short: it ends the wait all the same.
ReceiveGarbled ==
  /\ taken = <<>> /\ fromSensor # <<>>
  /\ fromSensor' = Tail(fromSensor)
  /\ waiting' = FALSE
  /\ UNCHANGED <<call, slot, ring, toSensor, config, history>>

Reader ==
  ReaderTimeout \/ ReadFrame \/ FrameSent \/ ReceiveAnswer \/ ReceiveGarbled

-----------------------------------------------------------------------------
\* The sensor and the line.

\* The sensor obeys a frame, and answers (status is TRUE for success) or not.
Obey(frame) ==
  /\ toSensor # <<>> /\ Head(toSensor) = frame
  /\ toSensor' = Tail(toSensor)
  /\ config' = (frame = Enable \/ (config /\ frame # End))

SensorAnswers(frame, status) ==
  /\ Obey(frame)
  /\ status => config' \/ frame = End
  /\ fromSensor' = Append(fromSensor, [of |-> frame, status |-> status])
  /\ UNCHANGED <<call, slot, ring, waiting, history>>

SensorSilent(frame) ==
  /\ Obey(frame)
  /\ UNCHANGED <<call, slot, ring, waiting, fromSensor, history>>

LineLoses ==
  /\ toSensor # <<>>
  /\ toSensor' = Tail(toSensor)
  /\ missedEnd' = (missedEnd \/ Head(toSensor) = End)
  /\ UNCHANGED <<call, slot, ring, waiting, fromSensor, config, slipped, queued>>

Sensor ==
  \/ \E frame \in Frames :
       SensorSilent(frame) \/ \E status \in BOOLEAN : SensorAnswers(frame, status)
  \/ LineLoses

Next == (\E c \in Commands : Call(c)) \/ Caller \/ Reader \/ Sensor

Spec == Init /\ [][Next]_vars

\* Both threads run, and the caller's wait times out.
FairSpec == Spec /\ WF_vars(Caller) /\ WF_vars(Reader)

-----------------------------------------------------------------------------
\* Correctness.

\* Every variable stays in its range.
TypeOK ==
  /\ step \in Steps /\ stage \in Stages /\ command \in Commands
  /\ ok \in BOOLEAN
  /\ slot \in [pending : BOOLEAN, of : Frames, status : BOOLEAN]
  /\ queue \in [0 .. (QueueSize - 1) -> Frames]
  /\ head \in Nat /\ tail \in 0 .. head
  /\ taken \in {<<>>} \cup {<<f>> : f \in Frames} /\ waiting \in BOOLEAN
  /\ toSensor \in Seq(Frames)
  /\ fromSensor \in Seq([of : Frames, status : BOOLEAN])
  /\ config \in BOOLEAN /\ slipped \in BOOLEAN /\ missedEnd \in BOOLEAN
  /\ queued \in Seq(Frames)

\* The lockless ring keeps what was put into it, in order, until it is taken:
\* the caller never writes where the reader still reads (transport.c:93-111).
RingKeepsFrames ==
  /\ Len(queued) = head - tail
  /\ \A k \in 1 .. Len(queued) : queue[(tail + k - 1) % QueueSize] = queued[k]

\* "Always try to close config mode, even on failure" (session.c:165): between
\* calls, with nothing under way, the sensor is not left in configuration mode,
\* in which it reports no occupancy, unless an End itself was lost.
ConfigClosed ==
  step = "idle" /\ head = tail /\ toSensor = <<>> /\ ~missedEnd => ~config

\* As long as no wait has timed out, what the caller finds in the slot is the
\* answer to its own frame, although nothing compares the two.
AnswersInStep ==
  ~slipped /\ step \in {"wait", "sleep"} /\ slot.pending => slot.of = Frame

\* Every call comes to an end, with a dead sensor too.
CallsEnd == (step # "idle") ~> (step = "idle")

\* session.c:23-24 "waiter loops and discards ones that don't match its expected
\* resp_cmd": a frame counts as answered only by an answer to it.
OwnAnswerOnly ==
  [][slot.pending /\ ~slot'.pending /\ step # "clear" => slot.of = Frame]_vars
=============================================================================
