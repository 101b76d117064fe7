--------------------------- MODULE SensorLinkProofs ---------------------------
(***************************************************************************)
(* Proofs about SensorLink, for rings of any size and any set of commands, *)
(* however late, lost or garbled the answers are.                          *)
(***************************************************************************)
EXTENDS SensorLink, SequenceTheorems, TLAPS

-----------------------------------------------------------------------------
\* Numbers less than n apart have different remainders.

LEMMA MultipleTooFar ==
  ASSUME NEW n \in Nat, n > 0, NEW k \in Int, n * k > 0, n * k < n
  PROVE  FALSE
<1>1. CASE k <= 0
  <2>1. n * k <= 0
    BY <1>1, Z3
  <2> QED BY <2>1
<1>2. CASE k >= 1
  <2>1. n * k >= n
    BY <1>2, Z3
  <2> QED BY <2>1
<1> QED BY <1>1, <1>2

LEMMA Division ==
  ASSUME NEW n \in Nat, n > 0, NEW x \in Int
  PROVE  x = n * (x \div n) + (x % n) /\ x \div n \in Int /\ x % n \in 0 .. (n - 1)
<1>1. x = n * (x \div n) + (x % n)
  OBVIOUS
<1>2. x \div n \in Int /\ x % n \in 0 .. (n - 1)
  OBVIOUS
<1> QED BY <1>1, <1>2

LEMMA CellsApart ==
  ASSUME NEW p \in Int, NEW q \in Int, p < q, q - p < QueueSize
  PROVE  p % QueueSize # q % QueueSize
<1> DEFINE n == QueueSize  dp == p \div n  dq == q \div n
<1>1. SUFFICES ASSUME p % n = q % n PROVE FALSE
  OBVIOUS
<1>2. n \in Nat /\ n > 0
  BY SensorLinkAssumption
<1>3. p % n \in Int /\ dp \in Int /\ dq \in Int
  BY <1>2, Division
<1>4. p = n * dp + (p % n) /\ q = n * dq + (q % n)
  BY <1>2, Division
<1>5. q - p < n
  OBVIOUS
<1> HIDE DEF n, dp, dq
<1>6. q - p = n * dq - n * dp
  BY <1>1, <1>2, <1>3, <1>4
<1>7. n * dq - n * dp = n * (dq - dp)
  BY <1>2, <1>3, Z3
<1>8. n * (dq - dp) > 0 /\ n * (dq - dp) < n
  BY <1>5, <1>6, <1>7
<1> QED BY <1>2, <1>3, <1>8, MultipleTooFar

-----------------------------------------------------------------------------
\* What the steps do to the sequences.

LEMMA FrameIsFrame == TypeOK => Frame \in Frames
BY DEF TypeOK, Stages, Frame, Frames

LEMMA Appended ==
  ASSUME NEW S, NEW s \in Seq(S), NEW x \in S
  PROVE  /\ Append(s, x) \in Seq(S) /\ Len(s) \in Nat /\ Len(Append(s, x)) = Len(s) + 1
         /\ \A k \in 1 .. Len(s) : Append(s, x)[k] = s[k]
         /\ Append(s, x)[Len(s) + 1] = x
         /\ s = <<>> => Append(s, x) = <<x>>
<1>1. s = <<>> => Append(s, x) = <<x>>
  OBVIOUS
<1> QED BY <1>1, AppendProperties, LenProperties

LEMMA Removed ==
  ASSUME NEW S, NEW s \in Seq(S), s # <<>>
  PROVE  /\ Tail(s) \in Seq(S) /\ Len(s) \in Nat /\ Len(s) >= 1
         /\ Len(Tail(s)) = Len(s) - 1 /\ Head(s) = s[1] /\ s[1] \in S
         /\ \A k \in 1 .. (Len(s) - 1) : Tail(s)[k] = s[k + 1]
         /\ SubSeq(s, 2, Len(s)) = Tail(s)
<1>1. Tail(s) \in Seq(S) /\ Len(Tail(s)) = Len(s) - 1
      /\ \A k \in 1 .. Len(Tail(s)) : Tail(s)[k] = s[k + 1]
  BY HeadTailProperties
<1>2. Len(s) \in Nat /\ Len(s) >= 1
  BY EmptySeq
<1>3. SubSeq(s, 2, Len(s)) = Tail(s)
  BY TailIsSubSeq
<1>4. s[1] \in S
  BY <1>2, ElementOfSeq
<1>5. Head(s) = s[1]
  OBVIOUS
<1> QED BY <1>1, <1>2, <1>3, <1>4, <1>5

LEMMA OneElement ==
  ASSUME NEW x
  PROVE  /\ Head(<<x>>) = x /\ Tail(<<x>>) = <<>> /\ <<x>>[1] = x
         /\ <<>> \o <<x>> = <<x>> /\ Append(<<>>, x) = <<x>>
OBVIOUS

LEMMA EmptyIffNoLength ==
  ASSUME NEW S, NEW s \in Seq(S)
  PROVE  s = <<>> <=> Len(s) = 0
BY EmptySeq

-----------------------------------------------------------------------------
(***************************************************************************)
(* The ring.  Between the write of a frame and its publication nothing     *)
(* else is written; the frame being sent is still in its cell.             *)
(***************************************************************************)
RingInv ==
  /\ RingKeepsFrames
  /\ head - tail <= QueueSize
  /\ taken # <<>> => queued # <<>> /\ taken = <<queued[1]>>
  /\ step = "publish" => head - tail < QueueSize /\ queue[head % QueueSize] = Frame

\* Steps that leave the ring alone, and the frame of the call too while it is
\* being put there.
LEMMA RingUntouched ==
  ASSUME RingInv, UNCHANGED <<ring, queued>>,
         step' = "publish" => step = "publish" /\ UNCHANGED <<stage, command>>
  PROVE  RingInv'
BY DEF RingInv, RingKeepsFrames, ring, Frame

LEMMA DoneTypes ==
  ASSUME TypeOK, NEW success \in BOOLEAN, Done(success)
  PROVE  /\ step' \in {"idle", "clear"} /\ stage' \in Stages /\ command' = command
         /\ ok' \in BOOLEAN
<1>1. ok' \in BOOLEAN
  BY DEF Done, TypeOK
<1> QED BY <1>1 DEF Done, TypeOK, Stages

LEMMA LinkTypes == TypeOK /\ RingInv /\ [Next]_vars => TypeOK'
<1> SUFFICES ASSUME TypeOK, RingInv, [Next]_vars PROVE TypeOK'
  OBVIOUS
<1> USE DEF call, ring, line, history, Steps
<1>1. ASSUME NEW c \in Commands, Call(c) PROVE TypeOK'
  BY <1>1 DEF Call, TypeOK, Stages
<1>2. CASE ClearSlot
  <2>1. slot' \in [pending : BOOLEAN, of : Frames, status : BOOLEAN]
    BY <1>2 DEF ClearSlot, TypeOK
  <2> QED BY <1>2, <2>1 DEF ClearSlot, TypeOK
<1>3. CASE WriteFrame
  <2>1. queue' \in [0 .. (QueueSize - 1) -> Frames]
    BY <1>3, FrameIsFrame DEF WriteFrame, TypeOK
  <2> QED BY <1>3, <2>1 DEF WriteFrame, TypeOK
<1>4. CASE QueueFull
  <2>1. missedEnd' \in BOOLEAN
    BY <1>4 DEF QueueFull, TypeOK
  <2> QED BY <1>4, <2>1, DoneTypes DEF QueueFull, TypeOK
<1>5. CASE PublishFrame
  <2>1. queued' \in Seq(Frames)
    BY <1>5, FrameIsFrame, Appended DEF PublishFrame, TypeOK
  <2>2. head' \in Nat /\ tail' \in 0 .. head'
    BY <1>5 DEF PublishFrame, TypeOK
  <2> QED BY <1>5, <2>1, <2>2 DEF PublishFrame, TypeOK
<1>6. CASE FallAsleep
  BY <1>6 DEF FallAsleep, TypeOK
<1>7. CASE TakeAnswer
  <2>1. slot.status \in BOOLEAN
        /\ slot' \in [pending : BOOLEAN, of : Frames, status : BOOLEAN]
    BY <1>7 DEF TakeAnswer, TypeOK
  <2> QED BY <1>7, <2>1, DoneTypes DEF TakeAnswer, TypeOK
<1>8. CASE WaitTimeout
  <2>1. slipped' \in BOOLEAN
    BY <1>8 DEF WaitTimeout
  <2> QED BY <1>8, <2>1, DoneTypes DEF WaitTimeout, TypeOK
<1>9. CASE ReaderTimeout
  BY <1>9 DEF ReaderTimeout, TypeOK
<1>10. CASE ReadFrame
  <2>1. tail % QueueSize \in 0 .. (QueueSize - 1)
    BY SensorLinkAssumption, Division DEF TypeOK
  <2>2. queue[tail % QueueSize] \in Frames
    BY <2>1 DEF TypeOK
  <2>3. taken' \in {<<>>} \cup {<<f>> : f \in Frames}
    BY <1>10, <2>2 DEF ReadFrame
  <2> QED BY <1>10, <2>3 DEF ReadFrame, TypeOK
<1>11. CASE FrameSent
  <2>1. queued # <<>> /\ queued \in Seq(Frames) /\ taken = <<queued[1]>>
    BY <1>11 DEF FrameSent, RingInv, TypeOK
  <2>2. queued' \in Seq(Frames) /\ Len(queued) >= 1 /\ queued[1] \in Frames
    BY <1>11, <2>1, Removed DEF FrameSent
  <2>3. toSensor' \in Seq(Frames)
    <3>1. toSensor' = Append(toSensor, queued[1])
      BY <1>11, <2>1, <2>2, AppendIsConcat DEF FrameSent, TypeOK
    <3> QED BY <2>2, <3>1, AppendProperties DEF TypeOK
  <2>4. tail' \in 0 .. head'
    BY <1>11, <2>2 DEF FrameSent, RingInv, RingKeepsFrames, TypeOK
  <2> QED BY <1>11, <2>2, <2>3, <2>4 DEF FrameSent, TypeOK
<1>12. CASE ReceiveAnswer
  <2>1. /\ fromSensor' \in Seq([of : Frames, status : BOOLEAN])
        /\ Head(fromSensor) \in [of : Frames, status : BOOLEAN]
    BY <1>12, HeadTailProperties DEF ReceiveAnswer, TypeOK
  <2>2. slot' \in [pending : BOOLEAN, of : Frames, status : BOOLEAN]
    BY <1>12, <2>1 DEF ReceiveAnswer
  <2> QED BY <1>12, <2>1, <2>2 DEF ReceiveAnswer, TypeOK
<1>13. CASE ReceiveGarbled
  <2>1. fromSensor' \in Seq([of : Frames, status : BOOLEAN])
    BY <1>13, HeadTailProperties DEF ReceiveGarbled, TypeOK
  <2> QED BY <1>13, <2>1 DEF ReceiveGarbled, TypeOK
<1>14. ASSUME NEW frame \in Frames, NEW status \in BOOLEAN,
              SensorSilent(frame) \/ SensorAnswers(frame, status)
       PROVE  TypeOK'
  <2>1. toSensor' \in Seq(Frames)
    BY <1>14, HeadTailProperties DEF SensorSilent, SensorAnswers, Obey, TypeOK
  <2>2. config' \in BOOLEAN
    BY <1>14 DEF SensorSilent, SensorAnswers, Obey
  <2>3. [of |-> frame, status |-> status] \in [of : Frames, status : BOOLEAN]
    OBVIOUS
  <2>4. fromSensor' \in {fromSensor, Append(fromSensor, [of |-> frame, status |-> status])}
    BY <1>14 DEF SensorSilent, SensorAnswers
  <2>5. fromSensor' \in Seq([of : Frames, status : BOOLEAN])
    <3> DEFINE Answers == [of : Frames, status : BOOLEAN]
               answer == [of |-> frame, status |-> status]
    <3>1. fromSensor \in Seq(Answers) /\ answer \in Answers
      BY <2>3 DEF TypeOK
    <3>2. fromSensor' \in {fromSensor, Append(fromSensor, answer)}
      BY <2>4
    <3> HIDE DEF Answers, answer
    <3>3. fromSensor' \in Seq(Answers)
      BY <3>1, <3>2, AppendProperties
    <3> QED BY <3>3 DEF Answers
  <2> QED BY <1>14, <2>1, <2>2, <2>5 DEF SensorSilent, SensorAnswers, TypeOK
<1>15. CASE LineLoses
  <2>1. toSensor' \in Seq(Frames)
    BY <1>15, HeadTailProperties DEF LineLoses, TypeOK
  <2>2. missedEnd' \in BOOLEAN
    BY <1>15 DEF LineLoses, TypeOK
  <2> QED BY <1>15, <2>1, <2>2 DEF LineLoses, TypeOK
<1>16. CASE UNCHANGED vars
  BY <1>16 DEF vars, TypeOK
<1> HIDE DEF call, ring, line, history, Steps
<1> QED
  BY <1>1, <1>2, <1>3, <1>4, <1>5, <1>6, <1>7, <1>8, <1>9, <1>10, <1>11, <1>12, <1>13,
     <1>14, <1>15, <1>16
     DEF Next, Caller, Reader, Sensor

LEMMA RingStep == TypeOK /\ RingInv /\ [Next]_vars => RingInv'
<1> SUFFICES ASSUME TypeOK, RingInv, [Next]_vars PROVE RingInv'
  OBVIOUS
<1> USE DEF call, ring, line, history
<1>0. /\ head \in Nat /\ tail \in Nat /\ tail <= head /\ QueueSize \in Nat /\ QueueSize > 0
      /\ queued \in Seq(Frames) /\ Len(queued) \in Nat
      /\ queue \in [0 .. (QueueSize - 1) -> Frames]
  BY SensorLinkAssumption DEF TypeOK
<1>1. CASE \/ \E c \in Commands : Call(c)
           \/ ClearSlot \/ QueueFull \/ FallAsleep \/ TakeAnswer \/ WaitTimeout
  BY <1>1, RingUntouched DEF Call, ClearSlot, QueueFull, FallAsleep, TakeAnswer,
     WaitTimeout, Done
<1>2. CASE WriteFrame
  <2>1. /\ head - tail < QueueSize /\ step' = "publish"
        /\ queue' = [queue EXCEPT ![head % QueueSize] = Frame]
        /\ UNCHANGED <<head, tail, taken, queued, stage, command>>
    BY <1>2 DEF WriteFrame, Room
  <2>2. head % QueueSize \in 0 .. (QueueSize - 1)
    BY <1>0, Division
  <2>3. queue'[head' % QueueSize] = Frame'
    BY <1>0, <2>1, <2>2 DEF Frame
  <2>4. ASSUME NEW k \in 1 .. Len(queued)
        PROVE  queue'[(tail + k - 1) % QueueSize] = queued[k]
    <3>1. tail + k - 1 \in Int /\ tail + k - 1 < head /\ head - (tail + k - 1) < QueueSize
      BY <1>0, <2>1 DEF RingInv, RingKeepsFrames
    <3>2. (tail + k - 1) % QueueSize # head % QueueSize
      BY <1>0, <3>1, CellsApart
    <3>3. (tail + k - 1) % QueueSize \in 0 .. (QueueSize - 1)
      BY <1>0, <3>1, Division
    <3> QED BY <1>0, <2>1, <2>2, <3>2, <3>3 DEF RingInv, RingKeepsFrames
  <2>5. RingKeepsFrames'
    BY <2>1, <2>4 DEF RingInv, RingKeepsFrames
  <2> QED BY <2>1, <2>3, <2>5 DEF RingInv
<1>3. CASE PublishFrame
  <2>1. /\ step = "publish" /\ step' = "wait" /\ head' = head + 1
        /\ queued' = Append(queued, Frame) /\ UNCHANGED <<queue, tail, taken>>
    BY <1>3 DEF PublishFrame
  <2>2. /\ Len(queued') = Len(queued) + 1 /\ queued'[Len(queued) + 1] = Frame
        /\ \A k \in 1 .. Len(queued) : queued'[k] = queued[k]
    BY <2>1, FrameIsFrame, Appended, <1>0
  <2>3. Len(queued) = head - tail /\ head - tail < QueueSize
        /\ queue[head % QueueSize] = Frame
    BY <2>1 DEF RingInv, RingKeepsFrames
  <2>4. ASSUME NEW k \in 1 .. Len(queued')
        PROVE  queue'[(tail' + k - 1) % QueueSize] = queued'[k]
    <3>1. CASE k \in 1 .. Len(queued)
      BY <2>1, <2>2, <3>1 DEF RingInv, RingKeepsFrames
    <3>2. CASE k = Len(queued) + 1
      <4>1. tail + k - 1 = head
        BY <1>0, <2>3, <3>2
      <4> QED BY <2>1, <2>2, <2>3, <3>2, <4>1
    <3> QED BY <1>0, <2>2, <3>1, <3>2
  <2>5. Len(queued') = head' - tail' /\ head' - tail' <= QueueSize
    BY <1>0, <2>1, <2>2, <2>3
  <2>6. taken' # <<>> => queued' # <<>> /\ taken' = <<queued'[1]>>
    <3>1. queued' # <<>>
      BY <1>0, <2>1, FrameIsFrame, AppendProperties
    <3>2. queued # <<>> => queued'[1] = queued[1]
      BY <1>0, <2>2, EmptySeq
    <3> QED BY <2>1, <3>1, <3>2 DEF RingInv
  <2> QED BY <2>1, <2>4, <2>5, <2>6 DEF RingInv, RingKeepsFrames
<1>4. CASE ReadFrame
  <2>1. /\ taken' = <<queue[tail % QueueSize]>> /\ tail # head
        /\ UNCHANGED <<queue, head, tail, queued, step, stage, command>>
    BY <1>4 DEF ReadFrame
  <2>2. Len(queued) >= 1
    BY <1>0, <2>1 DEF RingInv, RingKeepsFrames
  <2>3. queue[(tail + 1 - 1) % QueueSize] = queued[1]
    BY <2>2, <1>0 DEF RingInv, RingKeepsFrames
  <2>4. tail + 1 - 1 = tail
    BY <1>0
  <2>5. queued # <<>> /\ taken' = <<queued[1]>>
    BY <1>0, <2>1, <2>2, <2>3, <2>4, EmptyIffNoLength
  <2> QED BY <2>1, <2>5 DEF RingInv, RingKeepsFrames, Frame
<1>5. CASE FrameSent
  <2>1. /\ queued # <<>> /\ queued' = Tail(queued) /\ taken' = <<>> /\ tail' = tail + 1
        /\ UNCHANGED <<queue, head, step, stage, command>>
    BY <1>0, <1>5, Removed DEF FrameSent, RingInv
  <2>2. /\ Len(queued') = Len(queued) - 1 /\ Len(queued) >= 1
        /\ \A k \in 1 .. (Len(queued) - 1) : queued'[k] = queued[k + 1]
    BY <1>0, <2>1, Removed
  <2>3. ASSUME NEW k \in 1 .. Len(queued')
        PROVE  queue'[(tail' + k - 1) % QueueSize] = queued'[k]
    <3>1. k + 1 \in 1 .. Len(queued) /\ queued'[k] = queued[k + 1]
      BY <1>0, <2>2
    <3>2. tail' + k - 1 = tail + (k + 1) - 1
      BY <1>0, <2>1, <2>2
    <3>3. queue[(tail + (k + 1) - 1) % QueueSize] = queued[k + 1]
      BY <3>1 DEF RingInv, RingKeepsFrames
    <3> QED BY <2>1, <3>1, <3>2, <3>3
  <2>4. Len(queued') = head' - tail' /\ head' - tail' <= QueueSize
        /\ (head - tail < QueueSize => head' - tail' < QueueSize)
    BY <1>0, <2>1, <2>2 DEF RingInv, RingKeepsFrames
  <2> QED BY <2>1, <2>3, <2>4 DEF RingInv, RingKeepsFrames, Frame
<1>6. CASE ReaderTimeout \/ ReceiveAnswer \/ ReceiveGarbled \/ Sensor
  BY <1>6, RingUntouched DEF ReaderTimeout, ReceiveAnswer, ReceiveGarbled, Sensor,
     SensorSilent, SensorAnswers, LineLoses
<1>7. CASE UNCHANGED vars
  BY <1>7, RingUntouched DEF vars
<1> HIDE DEF call, ring, line, history
<1> QED
  BY <1>1, <1>2, <1>3, <1>4, <1>5, <1>6, <1>7 DEF Next, Caller, Reader

LEMMA RingInvariant == Spec => [](TypeOK /\ RingInv)
<1>1. Init => TypeOK /\ RingInv
  <2> SUFFICES ASSUME Init PROVE TypeOK /\ RingInv
    OBVIOUS
  <2>1. /\ queued = <<>> /\ Len(queued) = 0 /\ queued \in Seq(Frames)
        /\ toSensor \in Seq(Frames) /\ fromSensor \in Seq([of : Frames, status : BOOLEAN])
    BY DEF Init
  <2>2. RingInv
    BY <2>1, SensorLinkAssumption DEF Init, RingInv, RingKeepsFrames
  <2>3. slot \in [pending : BOOLEAN, of : Frames, status : BOOLEAN]
        /\ queue \in [0 .. (QueueSize - 1) -> Frames]
    BY DEF Init, Frames
  <2>4. config \in BOOLEAN /\ slipped \in BOOLEAN /\ missedEnd \in BOOLEAN
        /\ ok \in BOOLEAN /\ waiting \in BOOLEAN
    BY DEF Init
  <2>5. TypeOK
    BY <2>1, <2>3, <2>4 DEF Init, TypeOK, Steps, Stages
  <2> QED BY <2>2, <2>5
<1> QED BY <1>1, LinkTypes, RingStep, PTL DEF Spec

\* Every step of either thread, the sensor and the line keeps every variable in
\* its range.
THEOREM LinkTypeCorrect == Spec => []TypeOK
BY RingInvariant, PTL

\* For a ring of any size, and without a lock: no frame is overwritten before it
\* is taken, none is taken twice or out of order.
THEOREM RingKeepsFramesHolds == Spec => []RingKeepsFrames
<1>1. RingInv => RingKeepsFrames
  BY DEF RingInv
<1> QED BY <1>1, RingInvariant, PTL

-----------------------------------------------------------------------------
(***************************************************************************)
(* The configuration mode is closed because the last frame under way is an *)
(* End, unless one was lost: when it is gone, the sensor has obeyed it.    *)
(***************************************************************************)
Closing ==
  /\ queued # <<>> => queued[Len(queued)] = End
  /\ queued = <<>> /\ toSensor # <<>> => toSensor[Len(toSensor)] = End
  /\ queued = <<>> /\ toSensor = <<>> => ~config

EndOut == step = "idle" \/ (stage = "end" /\ step \in {"wait", "sleep"})
ClosingInv == ~missedEnd /\ EndOut => Closing

LEMMA ClosingUntouched ==
  ASSUME ClosingInv, UNCHANGED <<toSensor, queued, config>>, missedEnd' \/ ~missedEnd,
         EndOut' => EndOut \/ missedEnd'
  PROVE  ClosingInv'
BY DEF ClosingInv, Closing

\* What reaches the sensor is obeyed or lost.
LEMMA ClosingDelivered ==
  ASSUME TypeOK, Closing, toSensor # <<>>, toSensor' = Tail(toSensor), queued' = queued,
         Head(toSensor) = End => ~config'
  PROVE  Closing'
<1>1. /\ Len(toSensor) \in Nat /\ Len(toSensor) >= 1 /\ Head(toSensor) = toSensor[1]
      /\ Len(toSensor') = Len(toSensor) - 1 /\ toSensor' \in Seq(Frames)
      /\ \A k \in 1 .. (Len(toSensor) - 1) : toSensor'[k] = toSensor[k + 1]
  BY Removed DEF TypeOK
<1>2. ASSUME queued = <<>>, toSensor' # <<>> PROVE toSensor'[Len(toSensor')] = End
  <2>1. Len(toSensor') \in 1 .. (Len(toSensor) - 1) /\ Len(toSensor') + 1 = Len(toSensor)
    BY <1>1, <1>2, EmptySeq
  <2>2. toSensor'[Len(toSensor')] = toSensor[Len(toSensor)]
    BY <1>1, <2>1
  <2> QED BY <1>2, <2>2 DEF Closing
<1>3. ASSUME queued = <<>>, toSensor' = <<>> PROVE ~config'
  <2>0. Len(toSensor') = 0
    <3>1. Len(toSensor') = Len(<<>>)
      BY <1>3, Zenon
    <3> QED BY <3>1
  <2>1. Len(toSensor) = 1
    <3>1. Len(toSensor) - 1 = 0
      BY <1>1, <2>0
    <3> QED BY <1>1, <3>1
  <2> QED BY <1>1, <1>3, <2>1 DEF Closing
<1> QED BY <1>2, <1>3 DEF Closing

LEMMA ClosingStep == TypeOK /\ RingInv /\ ClosingInv /\ [Next]_vars => ClosingInv'
<1> SUFFICES ASSUME TypeOK, RingInv, ClosingInv, [Next]_vars PROVE ClosingInv'
  OBVIOUS
<1> USE DEF call, ring, line, history
<1>1. CASE \/ \E c \in Commands : Call(c)
           \/ ClearSlot \/ WriteFrame \/ FallAsleep
  BY <1>1, ClosingUntouched DEF Call, ClearSlot, WriteFrame, FallAsleep, EndOut,
     ClosingInv
<1>2. CASE QueueFull \/ TakeAnswer \/ WaitTimeout
  <2>1. UNCHANGED <<toSensor, queued, config>>
    BY <1>2 DEF QueueFull, TakeAnswer, WaitTimeout
  <2>3. missedEnd' \/ ~missedEnd
    <3>0. missedEnd \in BOOLEAN
      BY DEF TypeOK
    <3>1. CASE QueueFull
      <4>1. missedEnd' = (missedEnd \/ stage = "end")
        BY <3>1 DEF QueueFull
      <4> QED BY <3>0, <4>1
    <3>2. CASE TakeAnswer \/ WaitTimeout
      <4>1. missedEnd' = missedEnd
        BY <3>2 DEF TakeAnswer, WaitTimeout
      <4> QED BY <3>0, <4>1
    <3> QED BY <1>2, <3>1, <3>2
  <2>2. EndOut' => EndOut \/ missedEnd'
    BY <1>2 DEF QueueFull, TakeAnswer, WaitTimeout, Done, EndOut
  <2> QED BY <2>1, <2>2, <2>3, ClosingUntouched
<1>3. CASE PublishFrame
  <2>1. queued' = Append(queued, Frame) /\ stage' = stage /\ step' = "wait"
    BY <1>3 DEF PublishFrame
  <2>2. ASSUME stage = "end" PROVE Closing'
    <3>1. Frame = End
      BY <2>2 DEF Frame
    <3>2. queued \in Seq(Frames) /\ Frame \in Frames
      BY FrameIsFrame DEF TypeOK
    <3>3. queued' # <<>> /\ queued'[Len(queued')] = End
      BY <2>1, <3>1, <3>2, AppendProperties
    <3> QED BY <3>3 DEF Closing
  <2> QED BY <2>1, <2>2 DEF ClosingInv, EndOut
<1>4. CASE FrameSent
  <2>1. /\ taken = <<queued[1]>> /\ queued # <<>> /\ toSensor' = toSensor \o taken
        /\ queued' = Tail(queued) /\ queued \in Seq(Frames) /\ toSensor \in Seq(Frames)
        /\ UNCHANGED <<step, stage, missedEnd, config>>
    BY <1>4, Removed DEF FrameSent, RingInv, TypeOK
  <2>2. /\ Len(queued) \in Nat /\ Len(queued) >= 1 /\ Len(queued') = Len(queued) - 1
        /\ queued' \in Seq(Frames) /\ queued[1] \in Frames
        /\ \A k \in 1 .. (Len(queued) - 1) : queued'[k] = queued[k + 1]
    BY <2>1, Removed
  <2>3. toSensor' = Append(toSensor, queued[1])
    BY <2>1, <2>2, AppendIsConcat
  <2>4. toSensor' # <<>> /\ toSensor'[Len(toSensor')] = queued[1]
    BY <2>1, <2>2, <2>3, AppendProperties
  <2>5. ASSUME Closing PROVE Closing'
    <3>1. CASE Len(queued) = 1
      BY <2>1, <2>2, <2>4, <2>5, <3>1, EmptyIffNoLength DEF Closing
    <3>2. CASE Len(queued) > 1
      <4>1. Len(queued') \in 1 .. (Len(queued) - 1) /\ Len(queued') + 1 = Len(queued)
        BY <2>2, <3>2
      <4>2. queued'[Len(queued')] = End
        BY <2>1, <2>2, <2>5, <4>1 DEF Closing
      <4>3. queued' # <<>>
        BY <2>2, <4>1, EmptyIffNoLength
      <4> QED BY <4>2, <4>3 DEF Closing
    <3> QED BY <2>2, <3>1, <3>2
  <2> QED BY <2>1, <2>5 DEF ClosingInv, EndOut
<1>5. CASE ReaderTimeout \/ ReadFrame \/ ReceiveAnswer \/ ReceiveGarbled
  BY <1>5, ClosingUntouched DEF ReaderTimeout, ReadFrame, ReceiveAnswer, ReceiveGarbled,
     EndOut
<1>6. CASE Sensor
  <2>1. /\ toSensor # <<>> /\ toSensor' = Tail(toSensor)
        /\ UNCHANGED <<step, stage, queued>> /\ (missedEnd' \/ ~missedEnd)
        /\ ~missedEnd' => (Head(toSensor) = End => ~config')
    <3>1. CASE LineLoses
      BY <3>1 DEF LineLoses
    <3>2. CASE \E frame \in Frames : SensorSilent(frame)
                 \/ \E status \in BOOLEAN : SensorAnswers(frame, status)
      <4>1. PICK frame \in Frames : Obey(frame) /\ UNCHANGED <<step, stage, history>>
        BY <3>2 DEF SensorSilent, SensorAnswers
      <4>2. frame = End => ~config'
        BY <4>1, SensorLinkAssumption DEF Obey
      <4> QED BY <4>1, <4>2 DEF Obey
    <3> QED BY <1>6, <3>1, <3>2 DEF Sensor
  <2> QED BY <2>1, ClosingDelivered DEF ClosingInv, EndOut
<1>7. CASE UNCHANGED vars
  BY <1>7, ClosingUntouched DEF vars, EndOut
<1> HIDE DEF call, ring, line, history
<1> QED
  BY <1>1, <1>2, <1>3, <1>4, <1>5, <1>6, <1>7 DEF Next, Caller, Reader

\* However the call ended, the sensor is out of its configuration mode once the
\* line has come to rest, unless an End itself was lost.
THEOREM ConfigClosedHolds == Spec => []ConfigClosed
<1>1. Init => ClosingInv
  BY DEF Init, ClosingInv, Closing
<1>2. TypeOK /\ RingInv /\ ClosingInv => ConfigClosed
  <2> SUFFICES ASSUME TypeOK, RingInv, ClosingInv, step = "idle", head = tail,
                      toSensor = <<>>, ~missedEnd
               PROVE  ~config
    BY DEF ConfigClosed
  <2>1. Len(queued) = 0 /\ queued \in Seq(Frames)
    BY DEF TypeOK, RingInv, RingKeepsFrames
  <2>2. queued = <<>>
    BY <2>1, EmptyIffNoLength
  <2> QED BY <2>2 DEF ClosingInv, EndOut, Closing
<1> QED BY <1>1, <1>2, RingInvariant, ClosingStep, PTL DEF Spec

-----------------------------------------------------------------------------
(***************************************************************************)
(* As long as no wait has timed out there is one frame at a time, in the   *)
(* ring, on the line, answered or lost; and none between two waits.        *)
(***************************************************************************)
Waiting == step \in {"wait", "sleep"}
Nowhere == queued = <<>> /\ toSensor = <<>> /\ fromSensor = <<>> /\ ~slot.pending

OneFrame ==
  \/ Nowhere
  \/ queued = <<Frame>> /\ toSensor = <<>> /\ fromSensor = <<>> /\ ~slot.pending
  \/ queued = <<>> /\ toSensor = <<Frame>> /\ fromSensor = <<>> /\ ~slot.pending
  \/ /\ queued = <<>> /\ toSensor = <<>> /\ ~slot.pending
     /\ \E status \in BOOLEAN : fromSensor = <<[of |-> Frame, status |-> status]>>
  \/ queued = <<>> /\ toSensor = <<>> /\ fromSensor = <<>> /\ slot.pending /\ slot.of = Frame

Lockstep == ~slipped => OneFrame /\ (~Waiting => Nowhere)

LEMMA LockstepUntouched ==
  ASSUME Lockstep, UNCHANGED <<slot, toSensor, fromSensor, queued, slipped>>,
         Waiting' => Waiting /\ UNCHANGED <<stage, command>>,
         ~Waiting' => ~Waiting
  PROVE  Lockstep'
BY DEF Lockstep, OneFrame, Nowhere, Frame

LEMMA LockstepStep == TypeOK /\ RingInv /\ Lockstep /\ [Next]_vars => Lockstep'
<1> SUFFICES ASSUME TypeOK, RingInv, Lockstep, [Next]_vars PROVE Lockstep'
  OBVIOUS
<1> USE DEF call, ring, line, history
<1>1. CASE \/ \E c \in Commands : Call(c)
           \/ WriteFrame \/ QueueFull \/ FallAsleep
  BY <1>1, LockstepUntouched DEF Call, WriteFrame, QueueFull, FallAsleep, Done, Waiting
<1>2. CASE ClearSlot
  <2>1. ~slot'.pending
    BY <1>2 DEF ClearSlot, TypeOK
  <2> QED BY <1>2, <2>1 DEF ClearSlot, Lockstep, OneFrame, Nowhere, Waiting
<1>3. CASE PublishFrame
  <2>1. /\ ~Waiting /\ Waiting' /\ queued' = Append(queued, Frame) /\ Frame' = Frame
        /\ UNCHANGED <<slot, toSensor, fromSensor, slipped>>
    BY <1>3 DEF PublishFrame, Waiting, Frame
  <2>2. queued = <<>> => queued' = <<Frame>>
    BY <2>1
  <2> QED BY <2>1, <2>2 DEF Lockstep, OneFrame, Nowhere
<1>4. CASE TakeAnswer
  <2>1. Waiting /\ ~Waiting' /\ slot.pending /\ ~slot'.pending
        /\ UNCHANGED <<toSensor, fromSensor, queued, slipped>>
    BY <1>4 DEF TakeAnswer, Done, Waiting, TypeOK
  <2> QED BY <2>1 DEF Lockstep, OneFrame, Nowhere
<1>5. CASE WaitTimeout
  BY <1>5 DEF WaitTimeout, Lockstep
<1>6. CASE ReaderTimeout \/ ReadFrame
  BY <1>6, LockstepUntouched DEF ReaderTimeout, ReadFrame, Waiting
<1>7. CASE FrameSent
  <2>1. /\ taken = <<queued[1]>> /\ queued # <<>> /\ toSensor' = toSensor \o taken
        /\ queued' = Tail(queued) /\ Frame' = Frame /\ Waiting' = Waiting
        /\ UNCHANGED <<slot, fromSensor, slipped>>
    BY <1>7, Removed DEF FrameSent, RingInv, TypeOK, Frame, Waiting
  <2>2. ASSUME ~slipped PROVE Waiting /\ queued = <<Frame>> /\ toSensor = <<>>
                              /\ fromSensor = <<>> /\ ~slot.pending
    BY <2>1, <2>2 DEF Lockstep, OneFrame, Nowhere
  <2>3. ASSUME ~slipped PROVE queued' = <<>> /\ toSensor' = <<Frame>>
    BY <2>1, <2>2, <2>3, OneElement
  <2> QED BY <2>1, <2>2, <2>3 DEF Lockstep, OneFrame
<1>8. CASE ReceiveAnswer \/ ReceiveGarbled
  <2>1. /\ fromSensor # <<>> /\ fromSensor' = Tail(fromSensor)
        /\ Frame' = Frame /\ Waiting' = Waiting
        /\ UNCHANGED <<queued, toSensor, slipped>>
        /\ slot' = slot \/ (slot'.pending /\ slot'.of = Head(fromSensor).of)
    <3>1. CASE ReceiveGarbled
      BY <3>1 DEF ReceiveGarbled, Frame, Waiting
    <3>2. CASE ReceiveAnswer
      <4>1. slot' = [pending |-> TRUE, of |-> Head(fromSensor).of,
                     status |-> Head(fromSensor).status]
        BY <3>2 DEF ReceiveAnswer
      <4>2. slot'.pending /\ slot'.of = Head(fromSensor).of
        BY <4>1
      <4> QED BY <3>2, <4>2 DEF ReceiveAnswer, Frame, Waiting
    <3> QED BY <1>8, <3>1, <3>2
  <2>2. ASSUME ~slipped
        PROVE  /\ Waiting /\ queued = <<>> /\ toSensor = <<>> /\ ~slot.pending
               /\ fromSensor' = <<>> /\ Head(fromSensor).of = Frame
    <3>1. /\ Waiting /\ queued = <<>> /\ toSensor = <<>> /\ ~slot.pending
          /\ \E status \in BOOLEAN : fromSensor = <<[of |-> Frame, status |-> status]>>
      BY <2>1, <2>2 DEF Lockstep, OneFrame, Nowhere
    <3>2. PICK status \in BOOLEAN : fromSensor = <<[of |-> Frame, status |-> status]>>
      BY <3>1
    <3>3. Head(fromSensor) = [of |-> Frame, status |-> status] /\ Tail(fromSensor) = <<>>
      BY <3>2, OneElement
    <3> QED BY <2>1, <3>1, <3>3
  <2> QED BY <2>1, <2>2 DEF Lockstep, OneFrame, Nowhere
<1>9. ASSUME NEW frame \in Frames, NEW status \in BOOLEAN,
             SensorSilent(frame) \/ SensorAnswers(frame, status)
      PROVE  Lockstep'
  <2>1. /\ toSensor # <<>> /\ frame = Head(toSensor) /\ toSensor' = Tail(toSensor)
        /\ Frame' = Frame /\ Waiting' = Waiting
        /\ UNCHANGED <<queued, slot, slipped>>
        /\ fromSensor' \in
             {fromSensor, Append(fromSensor, [of |-> frame, status |-> status])}
    BY <1>9 DEF SensorSilent, SensorAnswers, Obey, Frame, Waiting
  <2>2. ASSUME ~slipped
        PROVE  /\ Waiting /\ queued = <<>> /\ toSensor' = <<>> /\ ~slot.pending
               /\ frame = Frame /\ fromSensor = <<>>
    <3>1. /\ Waiting /\ queued = <<>> /\ toSensor = <<Frame>> /\ ~slot.pending
          /\ fromSensor = <<>>
      BY <2>1, <2>2 DEF Lockstep, OneFrame, Nowhere
    <3> QED BY <2>1, <3>1, OneElement
  <2>3. ASSUME ~slipped
        PROVE  fromSensor' \in {<<>>, <<[of |-> Frame, status |-> status]>>}
    BY <2>1, <2>2, <2>3, OneElement
  <2> QED BY <2>1, <2>2, <2>3 DEF Lockstep, OneFrame, Nowhere
<1>10. CASE LineLoses
  <2>1. /\ toSensor # <<>> /\ toSensor' = Tail(toSensor)
        /\ Frame' = Frame /\ Waiting' = Waiting
        /\ UNCHANGED <<queued, slot, fromSensor, slipped>>
    BY <1>10 DEF LineLoses, Frame, Waiting
  <2>2. ASSUME ~slipped
        PROVE  /\ Waiting /\ queued = <<>> /\ toSensor' = <<>> /\ ~slot.pending
               /\ fromSensor = <<>>
    <3>1. /\ Waiting /\ queued = <<>> /\ toSensor = <<Frame>> /\ ~slot.pending
          /\ fromSensor = <<>>
      BY <2>1, <2>2 DEF Lockstep, OneFrame, Nowhere
    <3> QED BY <2>1, <3>1, OneElement
  <2> QED BY <2>1, <2>2 DEF Lockstep, OneFrame, Nowhere
<1>11. CASE UNCHANGED vars
  BY <1>11, LockstepUntouched DEF vars, Waiting
<1> HIDE DEF call, ring, line, history
<1> QED
  BY <1>1, <1>2, <1>3, <1>4, <1>5, <1>6, <1>7, <1>8, <1>9, <1>10, <1>11
     DEF Next, Caller, Reader, Sensor

\* Nothing compares an answer with the frame it is for, and nothing has to as
\* long as no wait has timed out, for rings of any size.
THEOREM AnswersInStepHolds == Spec => []AnswersInStep
<1>1. Init => Lockstep
  BY DEF Init, Lockstep, OneFrame, Nowhere
<1>2. Lockstep => AnswersInStep
  BY DEF Lockstep, OneFrame, Nowhere, AnswersInStep
<1> QED BY <1>1, <1>2, RingInvariant, LockstepStep, PTL DEF Spec

-----------------------------------------------------------------------------
\* How many steps a call may still take: five for each frame that is left.

FramesLeft == CASE stage = "enable" -> 2 [] stage = "command" -> 1 [] OTHER -> 0
StepsLeft ==
  CASE step = "clear" -> 5 [] step = "enqueue" -> 4 [] step = "publish" -> 3
    [] step = "wait" -> 2 [] step = "sleep" -> 1 [] OTHER -> 0
CallRank == IF step = "idle" THEN 0 ELSE 5 * FramesLeft + StepsLeft

\* A call only gets shorter: each step of the caller brings it nearer to its end,
\* and neither the reader nor the sensor takes it back.
CallShortens ==
  [][\/ \E c \in Commands : Call(c)
     \/ Caller /\ CallRank' < CallRank /\ CallRank <= 15
     \/ UNCHANGED CallRank]_vars

LEMMA RankDrops ==
  ASSUME TypeOK, Caller
  PROVE  CallRank' < CallRank /\ CallRank <= 15
<1> USE DEF TypeOK, Steps, Stages, CallRank, FramesLeft, StepsLeft
<1>1. CASE ClearSlot
  BY <1>1 DEF ClearSlot
<1>2. CASE WriteFrame
  BY <1>2 DEF WriteFrame
<1>3. CASE PublishFrame
  BY <1>3 DEF PublishFrame
<1>4. CASE FallAsleep
  BY <1>4 DEF FallAsleep
<1>5. ASSUME NEW success, Done(success), step # "idle"
      PROVE  CallRank' < CallRank /\ CallRank <= 15
  <2>1. CASE stage = "end"
    BY <1>5, <2>1 DEF Done
  <2>2. CASE stage # "end"
    BY <1>5, <2>2 DEF Done
  <2> QED BY <2>1, <2>2
<1>6. CASE QueueFull
  BY <1>5, <1>6 DEF QueueFull
<1>7. CASE TakeAnswer
  BY <1>5, <1>7 DEF TakeAnswer
<1>8. CASE WaitTimeout
  BY <1>5, <1>8 DEF WaitTimeout
<1> HIDE DEF TypeOK, CallRank
<1> QED BY <1>1, <1>2, <1>3, <1>4, <1>6, <1>7, <1>8 DEF Caller

\* A call takes at most fifteen steps of its thread, for every size of the ring
\* and whatever the reader and the sensor do: what CallsEnd needs besides a
\* thread that runs and waits that time out (session.c:157-171).
THEOREM CallShortensHolds == Spec => CallShortens
<1>1. TypeOK /\ [Next]_vars =>
        [\/ \E c \in Commands : Call(c)
         \/ Caller /\ CallRank' < CallRank /\ CallRank <= 15
         \/ UNCHANGED CallRank]_vars
  <2> SUFFICES ASSUME TypeOK, Next
               PROVE  \/ \E c \in Commands : Call(c)
                      \/ Caller /\ CallRank' < CallRank /\ CallRank <= 15
                      \/ UNCHANGED CallRank
    OBVIOUS
  <2>1. CASE Caller
    BY <2>1, RankDrops
  <2>2. CASE Reader \/ Sensor
    <3>1. UNCHANGED call
      BY <2>2 DEF Reader, Sensor, ReaderTimeout, ReadFrame, FrameSent, ReceiveAnswer,
                  ReceiveGarbled, SensorSilent, SensorAnswers, LineLoses
    <3> QED BY <3>1 DEF call, CallRank, FramesLeft, StepsLeft
  <2> QED BY <2>1, <2>2 DEF Next
<1> QED BY <1>1, LinkTypeCorrect, PTL DEF Spec, CallShortens
=============================================================================
