-------------------------- MODULE DisplayMgrProofs --------------------------
(***************************************************************************)
(* Proofs about DisplayMgr, for every set of clients and every bound.      *)
(*                                                                         *)
(* That no two clients have the framebuffer rests on the order of the bus: *)
(* a client that has it has no call under way, so no late release of its   *)
(* own can take the lease from it, and the call it waits for is its last.  *)
(***************************************************************************)
EXTENDS DisplayMgr, SequenceTheorems, TLAPS

HasBuffer == {"granted", "holding"}

\* A buffer is in the hands of a client that was granted it, at this or an
\* earlier start of the daemon.
BufferGranted ==
  \A c \in Clients : /\ buffer[c] # 0 => state[c] \in HasBuffer
                     /\ buffer[c] <= current

\* The current buffer is only with the holder.
HolderHasIt ==
  phase # "down" => /\ current > 0
                    /\ \A c \in Clients : buffer[c] = current => holder = c

\* Nothing from a client that has the buffer is on its way.
NothingUnderWay ==
  \A k \in DOMAIN inbox : buffer[inbox[k].from] = 0

\* A call somebody waits for fits its state, and is the last from there.
AwaitedIsLast ==
  \A k \in DOMAIN inbox : inbox[k].awaited =>
    /\ \/ inbox[k].kind = "acquire" /\ state[inbox[k].from] = "acquiring"
       \/ inbox[k].kind = "release" /\ state[inbox[k].from] = "releasing"
    /\ \A j \in DOMAIN inbox : j > k => inbox[j].from # inbox[k].from

\* A notice that a client has gone is true.
NoticeIsTrue ==
  \A k \in DOMAIN inbox :
    inbox[k].kind = "gone" => state[inbox[k].from] = "gone"

DownIsEmpty == phase = "down" => inbox = <<>> /\ holder = NoClient

LeaseInv ==
  /\ TypeOK /\ BufferGranted /\ HolderHasIt /\ NothingUnderWay
  /\ AwaitedIsLast /\ NoticeIsTrue /\ DownIsEmpty

-----------------------------------------------------------------------------
\* What the steps do to the inbox.

LEMMA GiveUpFacts ==
  ASSUME TypeOK, NEW c \in Clients
  PROVE  /\ GiveUp(c) \in Seq(Messages)
         /\ DOMAIN GiveUp(c) = DOMAIN inbox /\ Len(GiveUp(c)) = Len(inbox)
         /\ \A k \in DOMAIN inbox :
              /\ GiveUp(c)[k].kind = inbox[k].kind
              /\ GiveUp(c)[k].from = inbox[k].from
              /\ GiveUp(c)[k].awaited => inbox[k].awaited /\ inbox[k].from # c
<1>1. inbox \in Seq(Messages) /\ DOMAIN inbox = 1 .. Len(inbox) /\ Len(inbox) \in Nat
  BY DEF TypeOK
<1>2. \A k \in DOMAIN inbox : inbox[k] \in Messages
  BY <1>1
<1>3. \A k \in DOMAIN inbox :
        [inbox[k] EXCEPT !.awaited = @ /\ inbox[k].from # c] \in Messages
  BY <1>2 DEF Messages
<1>4. GiveUp(c) \in [1 .. Len(inbox) -> Messages]
  BY <1>1, <1>3 DEF GiveUp
<1>5. GiveUp(c) \in Seq(Messages) /\ Len(GiveUp(c)) = Len(inbox)
  BY <1>1, <1>4, LenProperties, SeqDef
<1> QED
  BY <1>1, <1>2, <1>4, <1>5 DEF GiveUp, Messages

LEMMA TailFacts ==
  ASSUME TypeOK, inbox # <<>>
  PROVE  /\ Tail(inbox) \in Seq(Messages)
         /\ Head(inbox) = inbox[1] /\ inbox[1] \in Messages /\ 1 \in DOMAIN inbox
         /\ Len(inbox) \in Nat /\ Len(Tail(inbox)) = Len(inbox) - 1
         /\ DOMAIN inbox = 1 .. Len(inbox)
         /\ DOMAIN Tail(inbox) = 1 .. (Len(inbox) - 1)
         /\ \A k \in DOMAIN Tail(inbox) :
              k + 1 \in DOMAIN inbox /\ Tail(inbox)[k] = inbox[k + 1]
BY HeadTailProperties DEF TypeOK

LEMMA AppendFacts ==
  ASSUME NEW s \in Seq(Messages), NEW msg \in Messages
  PROVE  /\ Append(s, msg) \in Seq(Messages)
         /\ Len(s) \in Nat /\ DOMAIN s = 1 .. Len(s)
         /\ DOMAIN Append(s, msg) = 1 .. (Len(s) + 1)
         /\ Append(s, msg)[Len(s) + 1] = msg
         /\ \A k \in DOMAIN s : Append(s, msg)[k] = s[k]
BY AppendProperties

-----------------------------------------------------------------------------
\* The invariant holds at first ...

LEMMA LeaseInit == Init => LeaseInv /\ Exclusive /\ DeadHolderNoticed
<1> SUFFICES ASSUME Init PROVE LeaseInv /\ Exclusive /\ DeadHolderNoticed
  OBVIOUS
<1>1. inbox = <<>> /\ DOMAIN inbox = {} /\ inbox \in Seq(Messages)
  BY DEF Init
<1>2. TypeOK
  BY <1>1 DEF Init, TypeOK, ClientStates
<1>3. BufferGranted /\ HolderHasIt /\ Exclusive /\ DownIsEmpty
  BY DEF Init, BufferGranted, HolderHasIt, Exclusive, DownIsEmpty
<1>4. NothingUnderWay /\ AwaitedIsLast /\ NoticeIsTrue
  BY <1>1 DEF NothingUnderWay, AwaitedIsLast, NoticeIsTrue
<1>5. DeadHolderNoticed
  BY DEF Init, DeadHolderNoticed
<1> QED
  BY <1>2, <1>3, <1>4, <1>5 DEF LeaseInv

\* ... and every step keeps the types ...

LEMMA SendTypes ==
  ASSUME TypeOK, NEW c \in Clients, NEW kind \in {"acquire", "release"}, Send(c, kind)
  PROVE  inbox' \in Seq(Messages)
BY AppendProperties DEF TypeOK, Send, Messages

LEMMA ReceiveTypes ==
  ASSUME TypeOK, NEW c \in Clients, NEW kind, Receive(kind, c)
  PROVE  inbox' \in Seq(Messages)
BY TailFacts DEF Receive

LEMMA DisplayMgrTypes == TypeOK /\ [Next]_vars => TypeOK'
<1> SUFFICES ASSUME TypeOK, [Next]_vars PROVE TypeOK'
  OBVIOUS
<1> USE DEF TypeOK, ClientStates, lease, power
<1>1. ASSUME NEW c \in Clients, AcquireFb(c) PROVE TypeOK'
  BY <1>1, SendTypes DEF AcquireFb
<1>2. ASSUME NEW c \in Clients, MapFb(c) PROVE TypeOK'
  BY <1>2 DEF MapFb
<1>3. ASSUME NEW c \in Clients, MapFbFails(c) PROVE TypeOK'
  BY <1>3 DEF MapFbFails
<1>4. ASSUME NEW c \in Clients, ReleaseFb(c) PROVE TypeOK'
  <2>1. inbox' \in Seq(Messages)
    BY <1>4, SendTypes DEF ReleaseFb
  <2> QED
    BY <1>4, <2>1 DEF ReleaseFb
<1>5. ASSUME NEW c \in Clients, CallTimesOut(c) PROVE TypeOK'
  <2>1. inbox' \in Seq(Messages)
    BY <1>5, GiveUpFacts DEF CallTimesOut
  <2> QED
    BY <1>5, <2>1 DEF CallTimesOut
<1>6. ASSUME NEW c \in Clients, Leave(c) PROVE TypeOK'
  <2>1. [kind |-> "gone", from |-> c, awaited |-> FALSE] \in Messages
    BY DEF Messages
  <2>2. inbox' \in Seq(Messages)
    BY <1>6, <2>1, GiveUpFacts, AppendProperties DEF Leave
  <2> QED
    BY <1>6, <2>2 DEF Leave
<1>7. ASSUME NEW c \in Clients, GrantLease(c) PROVE TypeOK'
  <2>1. inbox' \in Seq(Messages)
    BY <1>7, ReceiveTypes DEF GrantLease
  <2> QED
    BY <1>7, <2>1 DEF GrantLease, Answer
<1>8. ASSUME NEW c \in Clients, RefuseLease(c) PROVE TypeOK'
  <2>1. inbox' \in Seq(Messages)
    BY <1>8, ReceiveTypes DEF RefuseLease
  <2> QED
    BY <1>8, <2>1 DEF RefuseLease, Answer
<1>9. ASSUME NEW c \in Clients, ReleaseLease(c) PROVE TypeOK'
  <2>1. inbox' \in Seq(Messages)
    BY <1>9, ReceiveTypes DEF ReleaseLease
  <2> QED
    BY <1>9, <2>1 DEF ReleaseLease, Answer
<1>10. ASSUME NEW c \in Clients, LeaseTrackDrop(c) PROVE TypeOK'
  <2>1. inbox' \in Seq(Messages)
    BY <1>10, ReceiveTypes DEF LeaseTrackDrop
  <2> QED
    BY <1>10, <2>1 DEF LeaseTrackDrop
<1>11. ASSUME NEW ok \in BOOLEAN, Start(ok) PROVE TypeOK'
  <2>1. panel' \in BOOLEAN /\ faulted' \in BOOLEAN
    BY <1>11 DEF Start, CreateFramebuffer
  <2>2. displayOn' \in BOOLEAN /\ onAtStartup' \in BOOLEAN
    BY <1>11, <2>1 DEF Start
  <2>3. phase' \in {"down", "running", "restored"} /\ current' \in Nat
    BY <1>11 DEF Start, CreateFramebuffer
  <2>4. UNCHANGED lease
    BY <1>11 DEF Start
  <2> QED
    BY <2>1, <2>2, <2>3, <2>4
<1>12. ASSUME NEW ok \in BOOLEAN, StartFails(ok) PROVE TypeOK'
  BY <1>12 DEF StartFails
<1>13. ASSUME NEW ok \in BOOLEAN, Restore(ok) PROVE TypeOK'
  <2>1. panel' \in BOOLEAN /\ faulted' \in BOOLEAN
    BY <1>13 DEF Restore
  <2> QED
    BY <1>13, <2>1 DEF Restore
<1>14. ASSUME NEW ok \in BOOLEAN, Down(ok) PROVE TypeOK'
  <2>1. inbox' \in Seq(Messages)
    BY <1>14 DEF Down
  <2> QED
    BY <1>14, <2>1 DEF Down
<1>15. ASSUME NEW ok \in BOOLEAN, NEW on \in BOOLEAN, SetDisplayOn(on, ok)
       PROVE  TypeOK'
  <2>1. panel' \in BOOLEAN /\ displayOn' \in BOOLEAN /\ faulted' \in BOOLEAN
    BY <1>15 DEF SetDisplayOn
  <2> QED
    BY <1>15, <2>1 DEF SetDisplayOn
<1>16. CASE UNCHANGED vars
  BY <1>16 DEF vars
<1> HIDE DEF TypeOK, ClientStates, lease, power
<1> QED
  BY <1>1, <1>2, <1>3, <1>4, <1>5, <1>6, <1>7, <1>8, <1>9, <1>10, <1>11, <1>12,
     <1>13, <1>14, <1>15, <1>16
  DEF Next, Power, Client, Lease

\* ... and the rest of the invariant.

Rest ==
  /\ BufferGranted /\ Exclusive /\ HolderHasIt /\ NothingUnderWay
  /\ AwaitedIsLast /\ NoticeIsTrue /\ DownIsEmpty

LEMMA ClientKeepsRest ==
  ASSUME TypeOK, TypeOK', Rest, NEW c \in Clients, Client(c)
  PROVE  Rest'
<1> USE DEF Rest, HasBuffer
<1>0. /\ \A k \in DOMAIN inbox : inbox[k] \in Messages
      /\ buffer \in [Clients -> Nat] /\ state \in [Clients -> ClientStates]
      /\ current \in Nat
  BY DEF TypeOK
<1>1. CASE AcquireFb(c)
  <2> DEFINE msg == [kind |-> "acquire", from |-> c, awaited |-> TRUE]
  <2>0. msg \in Messages
    BY DEF Messages
  <2>1. /\ inbox' = Append(inbox, msg)
        /\ msg.kind = "acquire" /\ msg.from = c /\ msg.awaited
    BY <1>1 DEF AcquireFb, Send
  <2> HIDE DEF msg
  <2>2. inbox \in Seq(Messages)
    BY DEF TypeOK
  <2>3. /\ Len(inbox) \in Nat /\ DOMAIN inbox = 1 .. Len(inbox)
        /\ DOMAIN inbox' = 1 .. (Len(inbox) + 1)
        /\ inbox'[Len(inbox) + 1] = msg
        /\ \A k \in DOMAIN inbox : inbox'[k] = inbox[k]
    BY <2>0, <2>1, <2>2, AppendFacts
  <2>4. state[c] = "idle" /\ buffer[c] = 0 /\ phase # "down"
    BY <1>0, <1>1 DEF AcquireFb, BufferGranted
  <2>5. \A k \in DOMAIN inbox : inbox[k].awaited => inbox[k].from # c
    BY <2>4 DEF AwaitedIsLast
  <2>11. BufferGranted'
    BY <1>1, <1>0, <2>1, <2>3, <2>4, <2>5 DEF AcquireFb, BufferGranted
  <2>12. Exclusive'
    BY <1>1, <1>0, <2>1, <2>3, <2>4, <2>5 DEF AcquireFb, Exclusive
  <2>13. HolderHasIt'
    BY <1>1, <1>0, <2>1, <2>3, <2>4, <2>5 DEF AcquireFb, HolderHasIt
  <2>14. NothingUnderWay'
    BY <1>1, <1>0, <2>1, <2>3, <2>4, <2>5 DEF AcquireFb, NothingUnderWay
  <2>15. AwaitedIsLast'
    BY <1>1, <1>0, <2>1, <2>3, <2>4, <2>5 DEF AcquireFb, AwaitedIsLast
  <2>16. NoticeIsTrue'
    BY <1>1, <1>0, <2>1, <2>3, <2>4, <2>5 DEF AcquireFb, NoticeIsTrue
  <2>17. DownIsEmpty'
    BY <1>1, <1>0, <2>1, <2>3, <2>4, <2>5 DEF AcquireFb, DownIsEmpty
  <2> QED
    BY <2>11, <2>12, <2>13, <2>14, <2>15, <2>16, <2>17 DEF Rest
<1>2. CASE MapFb(c)
  <2>5. \A k \in DOMAIN inbox : inbox[k].awaited => inbox[k].from # c
    BY <1>2 DEF AwaitedIsLast, MapFb
  <2>11. BufferGranted'
    BY <1>2, <1>0, <2>5 DEF MapFb, BufferGranted
  <2>12. Exclusive'
    BY <1>2, <1>0, <2>5 DEF MapFb, Exclusive
  <2>13. HolderHasIt'
    BY <1>2, <1>0, <2>5 DEF MapFb, HolderHasIt
  <2>14. NothingUnderWay'
    BY <1>2, <1>0, <2>5 DEF MapFb, NothingUnderWay
  <2>15. AwaitedIsLast'
    BY <1>2, <1>0, <2>5 DEF MapFb, AwaitedIsLast
  <2>16. NoticeIsTrue'
    BY <1>2, <1>0, <2>5 DEF MapFb, NoticeIsTrue
  <2>17. DownIsEmpty'
    BY <1>2, <1>0, <2>5 DEF MapFb, DownIsEmpty
  <2> QED
    BY <2>11, <2>12, <2>13, <2>14, <2>15, <2>16, <2>17 DEF Rest
<1>3. CASE MapFbFails(c)
  <2>5. \A k \in DOMAIN inbox : inbox[k].awaited => inbox[k].from # c
    BY <1>3 DEF AwaitedIsLast, MapFbFails
  <2>11. BufferGranted'
    BY <1>3, <1>0, <2>5 DEF MapFbFails, BufferGranted
  <2>12. Exclusive'
    BY <1>3, <1>0, <2>5 DEF MapFbFails, Exclusive
  <2>13. HolderHasIt'
    BY <1>3, <1>0, <2>5 DEF MapFbFails, HolderHasIt
  <2>14. NothingUnderWay'
    BY <1>3, <1>0, <2>5 DEF MapFbFails, NothingUnderWay
  <2>15. AwaitedIsLast'
    BY <1>3, <1>0, <2>5 DEF MapFbFails, AwaitedIsLast
  <2>16. NoticeIsTrue'
    BY <1>3, <1>0, <2>5 DEF MapFbFails, NoticeIsTrue
  <2>17. DownIsEmpty'
    BY <1>3, <1>0, <2>5 DEF MapFbFails, DownIsEmpty
  <2> QED
    BY <2>11, <2>12, <2>13, <2>14, <2>15, <2>16, <2>17 DEF Rest
<1>4. CASE ReleaseFb(c) /\ phase = "down"
  <2>1. inbox' = <<>> /\ DOMAIN inbox' = {}
    BY <1>4 DEF ReleaseFb, DownIsEmpty
  <2>11. BufferGranted'
    BY <1>4, <1>0, <2>1 DEF ReleaseFb, BufferGranted
  <2>12. Exclusive'
    BY <1>4, <1>0, <2>1 DEF ReleaseFb, Exclusive
  <2>13. HolderHasIt'
    BY <1>4, <1>0, <2>1 DEF ReleaseFb, HolderHasIt
  <2>14. NothingUnderWay'
    BY <1>4, <1>0, <2>1 DEF ReleaseFb, NothingUnderWay
  <2>15. AwaitedIsLast'
    BY <1>4, <1>0, <2>1 DEF ReleaseFb, AwaitedIsLast
  <2>16. NoticeIsTrue'
    BY <1>4, <1>0, <2>1 DEF ReleaseFb, NoticeIsTrue
  <2>17. DownIsEmpty'
    BY <1>4, <1>0, <2>1 DEF ReleaseFb, DownIsEmpty
  <2> QED
    BY <2>11, <2>12, <2>13, <2>14, <2>15, <2>16, <2>17 DEF Rest
<1>5. CASE ReleaseFb(c) /\ phase # "down"
  <2> DEFINE msg == [kind |-> "release", from |-> c, awaited |-> TRUE]
  <2>0. msg \in Messages
    BY DEF Messages
  <2>1. /\ inbox' = Append(inbox, msg)
        /\ msg.kind = "release" /\ msg.from = c /\ msg.awaited
    BY <1>5 DEF ReleaseFb, Send
  <2> HIDE DEF msg
  <2>2. inbox \in Seq(Messages)
    BY DEF TypeOK
  <2>3. /\ Len(inbox) \in Nat /\ DOMAIN inbox = 1 .. Len(inbox)
        /\ DOMAIN inbox' = 1 .. (Len(inbox) + 1)
        /\ inbox'[Len(inbox) + 1] = msg
        /\ \A k \in DOMAIN inbox : inbox'[k] = inbox[k]
    BY <2>0, <2>1, <2>2, AppendFacts
  <2>4. /\ state[c] = "holding" /\ buffer' = [buffer EXCEPT ![c] = 0]
        /\ state' = [state EXCEPT ![c] = "releasing"]
    BY <1>0, <1>5 DEF ReleaseFb
  <2>5. \A k \in DOMAIN inbox : inbox[k].awaited => inbox[k].from # c
    BY <2>4 DEF AwaitedIsLast
  <2>11. BufferGranted'
    BY <1>5, <1>0, <2>1, <2>3, <2>4, <2>5 DEF ReleaseFb, BufferGranted
  <2>12. Exclusive'
    BY <1>5, <1>0, <2>1, <2>3, <2>4, <2>5 DEF ReleaseFb, Exclusive
  <2>13. HolderHasIt'
    BY <1>5, <1>0, <2>1, <2>3, <2>4, <2>5 DEF ReleaseFb, HolderHasIt
  <2>14. NothingUnderWay'
    BY <1>5, <1>0, <2>1, <2>3, <2>4, <2>5 DEF ReleaseFb, NothingUnderWay
  <2>15. AwaitedIsLast'
    BY <1>5, <1>0, <2>1, <2>3, <2>4, <2>5 DEF ReleaseFb, AwaitedIsLast
  <2>16. NoticeIsTrue'
    BY <1>5, <1>0, <2>1, <2>3, <2>4, <2>5 DEF ReleaseFb, NoticeIsTrue
  <2>17. DownIsEmpty'
    BY <1>5, <1>0, <2>1, <2>3, <2>4, <2>5 DEF ReleaseFb, DownIsEmpty
  <2> QED
    BY <2>11, <2>12, <2>13, <2>14, <2>15, <2>16, <2>17 DEF Rest
<1>6. CASE CallTimesOut(c)
  <2>1. inbox' = GiveUp(c)
    BY <1>6 DEF CallTimesOut
  <2>2. /\ DOMAIN GiveUp(c) = DOMAIN inbox /\ Len(GiveUp(c)) = Len(inbox)
        /\ GiveUp(c) \in Seq(Messages)
        /\ \A k \in DOMAIN inbox :
             /\ GiveUp(c)[k].kind = inbox[k].kind
             /\ GiveUp(c)[k].from = inbox[k].from
             /\ GiveUp(c)[k].awaited => inbox[k].awaited /\ inbox[k].from # c
    BY GiveUpFacts
  <2>11. BufferGranted'
    BY <1>6, <1>0, <2>1, <2>2 DEF CallTimesOut, BufferGranted
  <2>12. Exclusive'
    BY <1>6, <1>0, <2>1, <2>2 DEF CallTimesOut, Exclusive
  <2>13. HolderHasIt'
    BY <1>6, <1>0, <2>1, <2>2 DEF CallTimesOut, HolderHasIt
  <2>14. NothingUnderWay'
    BY <1>6, <1>0, <2>1, <2>2 DEF CallTimesOut, NothingUnderWay
  <2>15. AwaitedIsLast'
    BY <1>6, <1>0, <2>1, <2>2 DEF CallTimesOut, AwaitedIsLast
  <2>16. NoticeIsTrue'
    BY <1>6, <1>0, <2>1, <2>2 DEF CallTimesOut, NoticeIsTrue
  <2>17. DownIsEmpty'
    BY <1>6, <1>0, <2>1, <2>2 DEF CallTimesOut, DownIsEmpty
  <2> QED
    BY <2>11, <2>12, <2>13, <2>14, <2>15, <2>16, <2>17 DEF Rest
<1>7. CASE Leave(c) /\ holder # c
  <2>1. inbox' = GiveUp(c)
    BY <1>7 DEF Leave
  <2>2. /\ DOMAIN GiveUp(c) = DOMAIN inbox /\ Len(GiveUp(c)) = Len(inbox)
        /\ GiveUp(c) \in Seq(Messages)
        /\ \A k \in DOMAIN inbox :
             /\ GiveUp(c)[k].kind = inbox[k].kind
             /\ GiveUp(c)[k].from = inbox[k].from
             /\ GiveUp(c)[k].awaited => inbox[k].awaited /\ inbox[k].from # c
    BY GiveUpFacts
  <2>11. BufferGranted'
    BY <1>7, <1>0, <2>1, <2>2 DEF Leave, BufferGranted
  <2>12. Exclusive'
    BY <1>7, <1>0, <2>1, <2>2 DEF Leave, Exclusive
  <2>13. HolderHasIt'
    BY <1>7, <1>0, <2>1, <2>2 DEF Leave, HolderHasIt
  <2>14. NothingUnderWay'
    BY <1>7, <1>0, <2>1, <2>2 DEF Leave, NothingUnderWay
  <2>15. AwaitedIsLast'
    BY <1>7, <1>0, <2>1, <2>2 DEF Leave, AwaitedIsLast
  <2>16. NoticeIsTrue'
    BY <1>7, <1>0, <2>1, <2>2 DEF Leave, NoticeIsTrue
  <2>17. DownIsEmpty'
    BY <1>7, <1>0, <2>1, <2>2 DEF Leave, DownIsEmpty
  <2> QED
    BY <2>11, <2>12, <2>13, <2>14, <2>15, <2>16, <2>17 DEF Rest
<1>8. CASE Leave(c) /\ holder = c
  <2> DEFINE msg == [kind |-> "gone", from |-> c, awaited |-> FALSE]
  <2>0. msg \in Messages
    BY DEF Messages
  <2>1. /\ inbox' = Append(GiveUp(c), msg)
        /\ msg.kind = "gone" /\ msg.from = c /\ ~msg.awaited
    BY <1>8 DEF Leave
  <2> HIDE DEF msg
  <2>2. /\ DOMAIN GiveUp(c) = DOMAIN inbox /\ Len(GiveUp(c)) = Len(inbox)
        /\ GiveUp(c) \in Seq(Messages)
        /\ \A k \in DOMAIN inbox :
             /\ GiveUp(c)[k].kind = inbox[k].kind
             /\ GiveUp(c)[k].from = inbox[k].from
             /\ GiveUp(c)[k].awaited => inbox[k].awaited /\ inbox[k].from # c
    BY GiveUpFacts
  <2>3. /\ Len(inbox) \in Nat /\ DOMAIN inbox = 1 .. Len(inbox)
        /\ DOMAIN inbox' = 1 .. (Len(inbox) + 1)
        /\ inbox'[Len(inbox) + 1] = msg
        /\ \A k \in DOMAIN inbox : inbox'[k] = GiveUp(c)[k]
    BY <2>0, <2>1, <2>2, AppendFacts
  <2>11. BufferGranted'
    BY <1>8, <1>0, <2>1, <2>2, <2>3 DEF Leave, BufferGranted
  <2>12. Exclusive'
    BY <1>8, <1>0, <2>1, <2>2, <2>3 DEF Leave, Exclusive
  <2>13. HolderHasIt'
    BY <1>8, <1>0, <2>1, <2>2, <2>3 DEF Leave, HolderHasIt
  <2>14. NothingUnderWay'
    BY <1>8, <1>0, <2>1, <2>2, <2>3 DEF Leave, NothingUnderWay
  <2>15. AwaitedIsLast'
    BY <1>8, <1>0, <2>1, <2>2, <2>3 DEF Leave, AwaitedIsLast
  <2>16. NoticeIsTrue'
    BY <1>8, <1>0, <2>1, <2>2, <2>3 DEF Leave, NoticeIsTrue
  <2>17. DownIsEmpty'
    BY <1>8, DisplayMgrAssumption DEF Leave, DownIsEmpty
  <2> QED
    BY <2>11, <2>12, <2>13, <2>14, <2>15, <2>16, <2>17 DEF Rest
<1> QED
  BY <1>1, <1>2, <1>3, <1>4, <1>5, <1>6, <1>7, <1>8 DEF Client

LEMMA ReceiveFacts ==
  ASSUME TypeOK, NEW c \in Clients, NEW kind, Receive(kind, c)
  PROVE  /\ phase = "running" /\ inbox # <<>> /\ 1 \in DOMAIN inbox
         /\ Head(inbox) = inbox[1] /\ inbox[1].kind = kind /\ inbox[1].from = c
         /\ \A k \in DOMAIN inbox' :
              k + 1 \in DOMAIN inbox /\ k + 1 > 1 /\ inbox'[k] = inbox[k + 1]
         /\ \A k, j \in DOMAIN inbox' : j > k => j + 1 > k + 1
BY TailFacts DEF Receive

LEMMA LeaseKeepsRest ==
  ASSUME TypeOK, TypeOK', Rest, NEW c \in Clients, Lease(c)
  PROVE  Rest'
<1> USE DEF Rest, HasBuffer
<1>0. /\ \A k \in DOMAIN inbox : inbox[k] \in Messages
      /\ buffer \in [Clients -> Nat] /\ state \in [Clients -> ClientStates]
      /\ current \in Nat
  BY DEF TypeOK
<1>1. CASE GrantLease(c) /\ inbox[1].awaited
  <2>1. Receive("acquire", c)
    BY <1>1 DEF GrantLease
  <2>2. state' = [state EXCEPT ![c] = "granted"] /\ buffer' = [buffer EXCEPT ![c] = current]
    BY <1>1, <2>1, ReceiveFacts DEF GrantLease, Answer
  <2>3. /\ \A k \in DOMAIN inbox' : inbox'[k].from # c
        /\ state[c] \in {"acquiring", "releasing"} /\ buffer[c] = 0
    BY <1>0, <1>1, <2>1, ReceiveFacts DEF AwaitedIsLast, BufferGranted
  <2>4. BufferGranted'
    BY <1>1, <1>0, <2>1, <2>2, <2>3, ReceiveFacts
    DEF GrantLease, BufferGranted
  <2>5. Exclusive'
    BY <1>1, <1>0, <2>1, <2>2, <2>3, ReceiveFacts, DisplayMgrAssumption
    DEF GrantLease, HolderHasIt, Exclusive
  <2>6. HolderHasIt'
    BY <1>1, <1>0, <2>1, <2>2, <2>3, ReceiveFacts, DisplayMgrAssumption
    DEF GrantLease, HolderHasIt
  <2>7. NothingUnderWay'
    BY <1>1, <1>0, <2>1, <2>2, <2>3, ReceiveFacts
    DEF GrantLease, NothingUnderWay
  <2>8. AwaitedIsLast'
    BY <1>1, <1>0, <2>1, <2>2, <2>3, ReceiveFacts
    DEF GrantLease, AwaitedIsLast
  <2>9. NoticeIsTrue'
    BY <1>1, <1>0, <2>1, <2>2, <2>3, ReceiveFacts
    DEF GrantLease, NoticeIsTrue
  <2>10. DownIsEmpty'
    BY <1>1, <1>0, <2>1, <2>2, <2>3, ReceiveFacts
    DEF GrantLease, DownIsEmpty
  <2> QED
    BY <2>4, <2>5, <2>6, <2>7, <2>8, <2>9, <2>10 DEF Rest
<1>2. CASE GrantLease(c) /\ ~inbox[1].awaited
  <2>1. Receive("acquire", c)
    BY <1>2 DEF GrantLease
  <2>2. state' = state /\ buffer' = buffer
    BY <1>2, <2>1, ReceiveFacts DEF GrantLease, Answer
  <2>3. BufferGranted'
    BY <1>2, <1>0, <2>1, <2>2, ReceiveFacts
    DEF GrantLease, BufferGranted
  <2>4. Exclusive'
    BY <1>2, <1>0, <2>1, <2>2, ReceiveFacts, DisplayMgrAssumption
    DEF GrantLease, HolderHasIt, Exclusive
  <2>5. HolderHasIt'
    BY <1>2, <1>0, <2>1, <2>2, ReceiveFacts, DisplayMgrAssumption
    DEF GrantLease, HolderHasIt
  <2>6. NothingUnderWay'
    BY <1>2, <1>0, <2>1, <2>2, ReceiveFacts
    DEF GrantLease, NothingUnderWay
  <2>7. AwaitedIsLast'
    BY <1>2, <1>0, <2>1, <2>2, ReceiveFacts
    DEF GrantLease, AwaitedIsLast
  <2>8. NoticeIsTrue'
    BY <1>2, <1>0, <2>1, <2>2, ReceiveFacts
    DEF GrantLease, NoticeIsTrue
  <2>9. DownIsEmpty'
    BY <1>2, <1>0, <2>1, <2>2, ReceiveFacts
    DEF GrantLease, DownIsEmpty
  <2> QED
    BY <2>3, <2>4, <2>5, <2>6, <2>7, <2>8, <2>9 DEF Rest
<1>3. CASE RefuseLease(c) /\ inbox[1].awaited
  <2>1. Receive("acquire", c)
    BY <1>3 DEF RefuseLease
  <2>2. state' = [state EXCEPT ![c] = "idle"] /\ buffer' = buffer
    BY <1>3, <2>1, ReceiveFacts DEF RefuseLease, Answer
  <2>3. /\ \A k \in DOMAIN inbox' : inbox'[k].from # c
        /\ state[c] \in {"acquiring", "releasing"} /\ buffer[c] = 0
    BY <1>0, <1>3, <2>1, ReceiveFacts DEF AwaitedIsLast, BufferGranted
  <2>4. BufferGranted'
    BY <1>3, <1>0, <2>1, <2>2, <2>3, ReceiveFacts
    DEF RefuseLease, BufferGranted
  <2>5. Exclusive'
    BY <1>3, <1>0, <2>1, <2>2, <2>3, ReceiveFacts
    DEF RefuseLease, Exclusive
  <2>6. HolderHasIt'
    BY <1>3, <1>0, <2>1, <2>2, <2>3, ReceiveFacts
    DEF RefuseLease, HolderHasIt
  <2>7. NothingUnderWay'
    BY <1>3, <1>0, <2>1, <2>2, <2>3, ReceiveFacts
    DEF RefuseLease, NothingUnderWay
  <2>8. AwaitedIsLast'
    BY <1>3, <1>0, <2>1, <2>2, <2>3, ReceiveFacts
    DEF RefuseLease, AwaitedIsLast
  <2>9. NoticeIsTrue'
    BY <1>3, <1>0, <2>1, <2>2, <2>3, ReceiveFacts
    DEF RefuseLease, NoticeIsTrue
  <2>10. DownIsEmpty'
    BY <1>3, <1>0, <2>1, <2>2, <2>3, ReceiveFacts
    DEF RefuseLease, DownIsEmpty
  <2> QED
    BY <2>4, <2>5, <2>6, <2>7, <2>8, <2>9, <2>10 DEF Rest
<1>4. CASE RefuseLease(c) /\ ~inbox[1].awaited
  <2>1. Receive("acquire", c)
    BY <1>4 DEF RefuseLease
  <2>2. state' = state /\ buffer' = buffer
    BY <1>4, <2>1, ReceiveFacts DEF RefuseLease, Answer
  <2>3. BufferGranted'
    BY <1>4, <1>0, <2>1, <2>2, ReceiveFacts
    DEF RefuseLease, BufferGranted
  <2>4. Exclusive'
    BY <1>4, <1>0, <2>1, <2>2, ReceiveFacts
    DEF RefuseLease, Exclusive
  <2>5. HolderHasIt'
    BY <1>4, <1>0, <2>1, <2>2, ReceiveFacts
    DEF RefuseLease, HolderHasIt
  <2>6. NothingUnderWay'
    BY <1>4, <1>0, <2>1, <2>2, ReceiveFacts
    DEF RefuseLease, NothingUnderWay
  <2>7. AwaitedIsLast'
    BY <1>4, <1>0, <2>1, <2>2, ReceiveFacts
    DEF RefuseLease, AwaitedIsLast
  <2>8. NoticeIsTrue'
    BY <1>4, <1>0, <2>1, <2>2, ReceiveFacts
    DEF RefuseLease, NoticeIsTrue
  <2>9. DownIsEmpty'
    BY <1>4, <1>0, <2>1, <2>2, ReceiveFacts
    DEF RefuseLease, DownIsEmpty
  <2> QED
    BY <2>3, <2>4, <2>5, <2>6, <2>7, <2>8, <2>9 DEF Rest
<1>5. CASE ReleaseLease(c) /\ inbox[1].awaited
  <2>1. Receive("release", c)
    BY <1>5 DEF ReleaseLease
  <2>2. state' = [state EXCEPT ![c] = "idle"] /\ buffer' = buffer
    BY <1>5, <2>1, ReceiveFacts DEF ReleaseLease, Answer
  <2>3. /\ \A k \in DOMAIN inbox' : inbox'[k].from # c
        /\ state[c] \in {"acquiring", "releasing"} /\ buffer[c] = 0
    BY <1>0, <1>5, <2>1, ReceiveFacts DEF AwaitedIsLast, BufferGranted
  <2>4. BufferGranted'
    BY <1>5, <1>0, <2>1, <2>2, <2>3, ReceiveFacts
    DEF ReleaseLease, BufferGranted
  <2>5. Exclusive'
    BY <1>5, <1>0, <2>1, <2>2, <2>3, ReceiveFacts
    DEF ReleaseLease, Exclusive
  <2>6. HolderHasIt'
    BY <1>5, <1>0, <2>1, <2>2, <2>3, ReceiveFacts
    DEF ReleaseLease, HolderHasIt, NothingUnderWay
  <2>7. NothingUnderWay'
    BY <1>5, <1>0, <2>1, <2>2, <2>3, ReceiveFacts
    DEF ReleaseLease, NothingUnderWay
  <2>8. AwaitedIsLast'
    BY <1>5, <1>0, <2>1, <2>2, <2>3, ReceiveFacts
    DEF ReleaseLease, AwaitedIsLast
  <2>9. NoticeIsTrue'
    BY <1>5, <1>0, <2>1, <2>2, <2>3, ReceiveFacts
    DEF ReleaseLease, NoticeIsTrue
  <2>10. DownIsEmpty'
    BY <1>5, <1>0, <2>1, <2>2, <2>3, ReceiveFacts
    DEF ReleaseLease, DownIsEmpty
  <2> QED
    BY <2>4, <2>5, <2>6, <2>7, <2>8, <2>9, <2>10 DEF Rest
<1>6. CASE ReleaseLease(c) /\ ~inbox[1].awaited
  <2>1. Receive("release", c)
    BY <1>6 DEF ReleaseLease
  <2>2. state' = state /\ buffer' = buffer
    BY <1>6, <2>1, ReceiveFacts DEF ReleaseLease, Answer
  <2>3. BufferGranted'
    BY <1>6, <1>0, <2>1, <2>2, ReceiveFacts
    DEF ReleaseLease, BufferGranted
  <2>4. Exclusive'
    BY <1>6, <1>0, <2>1, <2>2, ReceiveFacts
    DEF ReleaseLease, Exclusive
  <2>5. HolderHasIt'
    BY <1>6, <1>0, <2>1, <2>2, ReceiveFacts
    DEF ReleaseLease, HolderHasIt, NothingUnderWay
  <2>6. NothingUnderWay'
    BY <1>6, <1>0, <2>1, <2>2, ReceiveFacts
    DEF ReleaseLease, NothingUnderWay
  <2>7. AwaitedIsLast'
    BY <1>6, <1>0, <2>1, <2>2, ReceiveFacts
    DEF ReleaseLease, AwaitedIsLast
  <2>8. NoticeIsTrue'
    BY <1>6, <1>0, <2>1, <2>2, ReceiveFacts
    DEF ReleaseLease, NoticeIsTrue
  <2>9. DownIsEmpty'
    BY <1>6, <1>0, <2>1, <2>2, ReceiveFacts
    DEF ReleaseLease, DownIsEmpty
  <2> QED
    BY <2>3, <2>4, <2>5, <2>6, <2>7, <2>8, <2>9 DEF Rest
<1>7. CASE LeaseTrackDrop(c)
  <2>1. Receive("gone", c) /\ state[c] = "gone" /\ buffer[c] = 0
    BY <1>0, <1>7, ReceiveFacts DEF LeaseTrackDrop, NoticeIsTrue, BufferGranted
  <2>2. BufferGranted'
    BY <1>7, <1>0, <2>1, ReceiveFacts
    DEF LeaseTrackDrop, BufferGranted
  <2>3. Exclusive'
    BY <1>7, <1>0, <2>1, ReceiveFacts
    DEF LeaseTrackDrop, Exclusive
  <2>4. HolderHasIt'
    BY <1>7, <1>0, <2>1, ReceiveFacts
    DEF LeaseTrackDrop, HolderHasIt, NothingUnderWay
  <2>5. NothingUnderWay'
    BY <1>7, <1>0, <2>1, ReceiveFacts
    DEF LeaseTrackDrop, NothingUnderWay
  <2>6. AwaitedIsLast'
    BY <1>7, <1>0, <2>1, ReceiveFacts
    DEF LeaseTrackDrop, AwaitedIsLast
  <2>7. NoticeIsTrue'
    BY <1>7, <1>0, <2>1, ReceiveFacts
    DEF LeaseTrackDrop, NoticeIsTrue
  <2>8. DownIsEmpty'
    BY <1>7, <1>0, <2>1, ReceiveFacts
    DEF LeaseTrackDrop, DownIsEmpty
  <2> QED
    BY <2>2, <2>3, <2>4, <2>5, <2>6, <2>7, <2>8 DEF Rest
<1> QED
  BY <1>1, <1>2, <1>3, <1>4, <1>5, <1>6, <1>7 DEF Lease

LEMMA PowerKeepsRest ==
  ASSUME TypeOK, TypeOK', Rest, NEW ok \in BOOLEAN,
         \/ Start(ok) \/ StartFails(ok) \/ Restore(ok) \/ Down(ok)
         \/ \E on \in BOOLEAN : SetDisplayOn(on, ok)
  PROVE  Rest'
<1> USE DEF Rest, HasBuffer, lease
<1>0. buffer \in [Clients -> Nat] /\ current \in Nat
  BY DEF TypeOK
<1>1. CASE Start(ok)
  <2>1. BufferGranted'
    BY <1>1, <1>0
    DEF Start, CreateFramebuffer, BufferGranted
  <2>2. Exclusive'
    BY <1>1, <1>0
    DEF Start, CreateFramebuffer, Exclusive
  <2>3. HolderHasIt'
    BY <1>1, <1>0
    DEF Start, CreateFramebuffer, HolderHasIt, BufferGranted
  <2>4. NothingUnderWay'
    BY <1>1, <1>0
    DEF Start, CreateFramebuffer, NothingUnderWay
  <2>5. AwaitedIsLast'
    BY <1>1, <1>0
    DEF Start, CreateFramebuffer, AwaitedIsLast
  <2>6. NoticeIsTrue'
    BY <1>1, <1>0
    DEF Start, CreateFramebuffer, NoticeIsTrue
  <2>7. DownIsEmpty'
    BY <1>1, <1>0
    DEF Start, CreateFramebuffer, DownIsEmpty
  <2> QED
    BY <2>1, <2>2, <2>3, <2>4, <2>5, <2>6, <2>7 DEF Rest
<1>2. CASE StartFails(ok)
  <2>1. BufferGranted'
    BY <1>2, <1>0
    DEF StartFails, BufferGranted
  <2>2. Exclusive'
    BY <1>2, <1>0
    DEF StartFails, Exclusive
  <2>3. HolderHasIt'
    BY <1>2, <1>0
    DEF StartFails, HolderHasIt
  <2>4. NothingUnderWay'
    BY <1>2, <1>0
    DEF StartFails, NothingUnderWay
  <2>5. AwaitedIsLast'
    BY <1>2, <1>0
    DEF StartFails, AwaitedIsLast
  <2>6. NoticeIsTrue'
    BY <1>2, <1>0
    DEF StartFails, NoticeIsTrue
  <2>7. DownIsEmpty'
    BY <1>2, <1>0
    DEF StartFails, DownIsEmpty
  <2> QED
    BY <2>1, <2>2, <2>3, <2>4, <2>5, <2>6, <2>7 DEF Rest
<1>3. CASE Restore(ok)
  <2>1. BufferGranted'
    BY <1>3, <1>0
    DEF Restore, BufferGranted
  <2>2. Exclusive'
    BY <1>3, <1>0
    DEF Restore, Exclusive
  <2>3. HolderHasIt'
    BY <1>3, <1>0
    DEF Restore, HolderHasIt
  <2>4. NothingUnderWay'
    BY <1>3, <1>0
    DEF Restore, NothingUnderWay
  <2>5. AwaitedIsLast'
    BY <1>3, <1>0
    DEF Restore, AwaitedIsLast
  <2>6. NoticeIsTrue'
    BY <1>3, <1>0
    DEF Restore, NoticeIsTrue
  <2>7. DownIsEmpty'
    BY <1>3, <1>0
    DEF Restore, DownIsEmpty
  <2> QED
    BY <2>1, <2>2, <2>3, <2>4, <2>5, <2>6, <2>7 DEF Rest
<1>4. CASE Down(ok)
  <2>1. inbox' = <<>> /\ DOMAIN inbox' = {}
    BY <1>4 DEF Down
  <2>2. BufferGranted'
    BY <1>4, <1>0, <2>1
    DEF Down, BufferGranted
  <2>3. Exclusive'
    BY <1>4, <1>0, <2>1
    DEF Down, Exclusive
  <2>4. HolderHasIt'
    BY <1>4, <1>0, <2>1
    DEF Down, HolderHasIt
  <2>5. NothingUnderWay'
    BY <1>4, <1>0, <2>1
    DEF Down, NothingUnderWay
  <2>6. AwaitedIsLast'
    BY <1>4, <1>0, <2>1
    DEF Down, AwaitedIsLast
  <2>7. NoticeIsTrue'
    BY <1>4, <1>0, <2>1
    DEF Down, NoticeIsTrue
  <2>8. DownIsEmpty'
    BY <1>4, <1>0, <2>1
    DEF Down, DownIsEmpty
  <2> QED
    BY <2>2, <2>3, <2>4, <2>5, <2>6, <2>7, <2>8 DEF Rest
<1>5. ASSUME NEW on \in BOOLEAN, SetDisplayOn(on, ok) PROVE Rest'
  <2>1. BufferGranted'
    BY <1>5, <1>0
    DEF SetDisplayOn, BufferGranted
  <2>2. Exclusive'
    BY <1>5, <1>0
    DEF SetDisplayOn, Exclusive
  <2>3. HolderHasIt'
    BY <1>5, <1>0
    DEF SetDisplayOn, HolderHasIt
  <2>4. NothingUnderWay'
    BY <1>5, <1>0
    DEF SetDisplayOn, NothingUnderWay
  <2>5. AwaitedIsLast'
    BY <1>5, <1>0
    DEF SetDisplayOn, AwaitedIsLast
  <2>6. NoticeIsTrue'
    BY <1>5, <1>0
    DEF SetDisplayOn, NoticeIsTrue
  <2>7. DownIsEmpty'
    BY <1>5, <1>0
    DEF SetDisplayOn, DownIsEmpty
  <2> QED
    BY <2>1, <2>2, <2>3, <2>4, <2>5, <2>6, <2>7 DEF Rest
<1> QED
  BY <1>1, <1>2, <1>3, <1>4, <1>5

LEMMA LeaseStep == LeaseInv /\ Exclusive /\ [Next]_vars => (LeaseInv /\ Exclusive)'
<1> SUFFICES ASSUME LeaseInv, Exclusive, [Next]_vars PROVE (LeaseInv /\ Exclusive)'
  OBVIOUS
<1>1. TypeOK /\ Rest /\ TypeOK'
  BY DisplayMgrTypes DEF LeaseInv, Rest
<1>2. Rest'
  <2>1. CASE Power
    BY <1>1, <2>1, PowerKeepsRest DEF Power
  <2>2. CASE \E c \in Clients : Client(c) \/ Lease(c)
    BY <1>1, <2>2, ClientKeepsRest, LeaseKeepsRest
  <2>3. CASE UNCHANGED vars
    BY <1>1, <2>3
    DEF vars, lease, Rest, BufferGranted, Exclusive, HolderHasIt, NothingUnderWay,
        AwaitedIsLast, NoticeIsTrue, DownIsEmpty
  <2> QED
    BY <2>1, <2>2, <2>3 DEF Next
<1> QED
  BY <1>1, <1>2 DEF LeaseInv, Rest

LEMMA ClientKeepsMessages ==
  ASSUME TypeOK, NEW c \in Clients, Client(c), NEW k \in DOMAIN inbox,
         inbox[k].kind = "gone"
  PROVE  /\ k \in DOMAIN inbox'
         /\ inbox'[k].kind = "gone" /\ inbox'[k].from = inbox[k].from
<1>1. inbox \in Seq(Messages)
  BY DEF TypeOK
<1>2. CASE UNCHANGED inbox
  BY <1>2
<1>3. CASE inbox' = GiveUp(c)
  BY <1>3, GiveUpFacts
<1>4. ASSUME NEW kind \in {"acquire", "release"}, Send(c, kind)
      PROVE  k \in DOMAIN inbox' /\ inbox'[k] = inbox[k]
  BY <1>1, <1>4, AppendFacts DEF Send, Messages
<1>5. CASE inbox' = Append(GiveUp(c), [kind |-> "gone", from |-> c, awaited |-> FALSE])
  <2> DEFINE msg == [kind |-> "gone", from |-> c, awaited |-> FALSE]
  <2>1. msg \in Messages /\ inbox' = Append(GiveUp(c), msg)
    BY <1>5 DEF Messages
  <2> HIDE DEF msg
  <2>2. k \in DOMAIN inbox' /\ inbox'[k] = GiveUp(c)[k]
    BY <2>1, GiveUpFacts, AppendFacts
  <2> QED
    BY <2>2, GiveUpFacts
<1> QED
  BY <1>2, <1>3, <1>4, <1>5
  DEF Client, AcquireFb, MapFb, MapFbFails, ReleaseFb, CallTimesOut, Leave

\* The notice of a dead holder stays in the inbox until it is taken.
LEMMA NoticeStep ==
  LeaseInv /\ DeadHolderNoticed /\ [Next]_vars => DeadHolderNoticed'
<1> SUFFICES ASSUME LeaseInv, DeadHolderNoticed, [Next]_vars,
                    phase' # "down", holder' # NoClient, state'[holder'] = "gone"
             PROVE  \E k \in DOMAIN inbox' :
                      inbox'[k].kind = "gone" /\ inbox'[k].from = holder'
  BY DEF DeadHolderNoticed
<1> DEFINE Noticed(s, c) == \E k \in DOMAIN s : s[k].kind = "gone" /\ s[k].from = c
<1>0. TypeOK /\ TypeOK'
  BY DisplayMgrTypes DEF LeaseInv
<1>1. phase # "down" /\ holder # NoClient /\ state[holder] = "gone" => Noticed(inbox, holder)
  BY DEF DeadHolderNoticed
<1>2. ASSUME UNCHANGED <<phase, lease>> PROVE Noticed(inbox', holder')
  BY <1>1, <1>2 DEF lease
<1>3. ASSUME NEW c \in Clients, Client(c) PROVE Noticed(inbox', holder')
  <2>1. phase = phase' /\ holder' = holder
    BY <1>3 DEF Client, AcquireFb, MapFb, MapFbFails, ReleaseFb, CallTimesOut, Leave
  <2>2. CASE state[holder] = "gone"
    <3>1. PICK k \in DOMAIN inbox : inbox[k].kind = "gone" /\ inbox[k].from = holder
      BY <1>1, <2>1, <2>2
    <3>2. k \in DOMAIN inbox' /\ inbox'[k].kind = "gone" /\ inbox'[k].from = holder
      BY <1>0, <1>3, <3>1, ClientKeepsMessages
    <3> QED
      BY <2>1, <3>2
  <2>3. CASE state[holder] # "gone"
    <3>1. holder = c /\ Leave(c)
      BY <1>0, <1>3, <2>1, <2>3
      DEF Client, AcquireFb, MapFb, MapFbFails, ReleaseFb, CallTimesOut, Leave, TypeOK
    <3> DEFINE msg == [kind |-> "gone", from |-> c, awaited |-> FALSE]
    <3>2. inbox' = Append(GiveUp(c), msg) /\ msg \in Messages
      BY <3>1 DEF Leave, Messages
    <3>3. Len(GiveUp(c)) + 1 \in DOMAIN inbox' /\ inbox'[Len(GiveUp(c)) + 1] = msg
      BY <1>0, <3>2, GiveUpFacts, AppendFacts
    <3> QED
      BY <2>1, <3>1, <3>3
  <2> QED
    BY <2>2, <2>3
<1>4. ASSUME NEW c \in Clients, Lease(c) PROVE Noticed(inbox', holder')
  <2>1. PICK kind : Receive(kind, c)
    BY <1>4 DEF Lease, GrantLease, RefuseLease, ReleaseLease, LeaseTrackDrop
  <2>2. state'[holder'] = "gone" => state[holder'] = "gone"
    BY <1>0, <1>4 DEF Lease, GrantLease, RefuseLease, ReleaseLease,
                      LeaseTrackDrop, Answer, TypeOK
  <2>3. holder' = holder
    BY <1>4, <2>2 DEF Lease, GrantLease, RefuseLease, ReleaseLease,
                      LeaseTrackDrop, Trackable
  <2>4. PICK k \in DOMAIN inbox : inbox[k].kind = "gone" /\ inbox[k].from = holder
    BY <1>0, <1>1, <2>1, <2>2, <2>3, ReceiveFacts
  <2>5. k # 1
    BY <1>0, <1>4, <2>1, <2>3, <2>4, ReceiveFacts
    DEF Lease, GrantLease, RefuseLease, ReleaseLease, LeaseTrackDrop, Receive
  <2>6. k - 1 \in DOMAIN inbox' /\ inbox'[k - 1] = inbox[k]
    BY <1>0, <2>1, <2>4, <2>5, TailFacts DEF Receive
  <2> QED
    BY <2>3, <2>4, <2>6
<1>5. ASSUME NEW ok \in BOOLEAN, Start(ok) PROVE Noticed(inbox', holder')
  BY <1>5 DEF Start, lease, LeaseInv, DownIsEmpty
<1>6. ASSUME NEW ok \in BOOLEAN, StartFails(ok) PROVE Noticed(inbox', holder')
  BY <1>2, <1>6 DEF StartFails
<1>7. ASSUME NEW ok \in BOOLEAN, Restore(ok) PROVE Noticed(inbox', holder')
  BY <1>1, <1>7 DEF Restore, lease
<1>8. ASSUME NEW ok \in BOOLEAN, Down(ok) PROVE Noticed(inbox', holder')
  BY <1>8 DEF Down
<1>9. ASSUME NEW on \in BOOLEAN, NEW ok \in BOOLEAN, SetDisplayOn(on, ok)
      PROVE  Noticed(inbox', holder')
  BY <1>2, <1>9 DEF SetDisplayOn
<1> QED
  BY <1>2, <1>3, <1>4, <1>5, <1>6, <1>7, <1>8, <1>9 DEF Next, Power, vars

\* Every step of the clients and the daemon keeps every variable in its range.
THEOREM DisplayMgrTypeCorrect == Spec => []TypeOK
<1>1. Init => TypeOK
  BY LeaseInit DEF LeaseInv
<1> QED
  BY <1>1, DisplayMgrTypes, PTL DEF Spec

\* No two clients ever have the same framebuffer, however many clients there
\* are and however often the daemon starts.
THEOREM LeaseIsExclusive == Spec => []Exclusive
<1>1. Init => LeaseInv /\ Exclusive
  BY LeaseInit
<1> QED
  BY <1>1, LeaseStep, PTL DEF Spec

\* A client that has gone never holds the lease for good: the notice of its end
\* is still to be taken.
THEOREM DeadHolderIsNoticed == Spec => []DeadHolderNoticed
<1>1. Init => LeaseInv /\ Exclusive /\ DeadHolderNoticed
  BY LeaseInit
<1> QED
  BY <1>1, LeaseStep, NoticeStep, PTL DEF Spec

\* The notice of a client's end only comes nearer: other steps leave it where it
\* is, each message taken moves it forward, and once it is taken itself the
\* client has no lease.
NoticeAdvances ==
  [][phase' # "down" =>
       \A k \in DOMAIN inbox : inbox[k].kind = "gone" =>
         IF \E c \in Clients : Lease(c)
         THEN IF k = 1 THEN holder' # inbox[k].from
              ELSE k - 1 \in DOMAIN inbox' /\ inbox'[k - 1] = inbox[k]
         ELSE /\ k \in DOMAIN inbox'
              /\ inbox'[k].kind = "gone" /\ inbox'[k].from = inbox[k].from]_vars

LEMMA NoticeOfLease ==
  ASSUME TypeOK, NEW c \in Clients, Lease(c), NEW k \in DOMAIN inbox,
         inbox[k].kind = "gone"
  PROVE  IF k = 1 THEN holder' # inbox[k].from
         ELSE k - 1 \in DOMAIN inbox' /\ inbox'[k - 1] = inbox[k]
<1>1. PICK kind : Receive(kind, c)
  BY DEF Lease, GrantLease, RefuseLease, ReleaseLease, LeaseTrackDrop
<1>2. CASE k = 1
  <2>1. inbox[1].from = c /\ kind = "gone"
    BY <1>1, <1>2, ReceiveFacts
  <2>2. LeaseTrackDrop(c)
    BY <1>1, <2>1 DEF Lease, GrantLease, RefuseLease, ReleaseLease, Receive
  <2>3. holder' # c
    BY <2>2, DisplayMgrAssumption DEF LeaseTrackDrop
  <2> QED BY <1>2, <2>1, <2>3
<1>3. CASE k # 1
  <2>1. inbox # <<>> /\ inbox' = Tail(inbox)
    BY <1>1 DEF Receive
  <2>2. k - 1 \in DOMAIN Tail(inbox) /\ Tail(inbox)[k - 1] = inbox[k]
    BY <1>3, <2>1, TailFacts
  <2> QED BY <1>3, <2>1, <2>2
<1> QED BY <1>2, <1>3

LEMMA NoticeOfOthers ==
  ASSUME TypeOK, Next, ~ \E c \in Clients : Lease(c), phase' # "down",
         NEW k \in DOMAIN inbox, inbox[k].kind = "gone"
  PROVE  /\ k \in DOMAIN inbox'
         /\ inbox'[k].kind = "gone" /\ inbox'[k].from = inbox[k].from
<1>1. CASE \E c \in Clients : Client(c)
  BY <1>1, ClientKeepsMessages
<1>2. CASE Power
  <2>1. UNCHANGED inbox
    BY <1>2 DEF Power, Start, StartFails, Restore, Down, SetDisplayOn, lease
  <2> QED BY <2>1
<1> QED BY <1>1, <1>2 DEF Next

\* For any number of clients and any length of the queue, nothing overtakes the
\* notice of a client's end or holds it up: what DeadHolderFreed needs besides a
\* daemon that goes on reading its bus.
THEOREM NoticeAdvancesHolds == Spec => NoticeAdvances
<1>1. TypeOK /\ [Next]_vars =>
        [phase' # "down" =>
           \A k \in DOMAIN inbox : inbox[k].kind = "gone" =>
             IF \E c \in Clients : Lease(c)
             THEN IF k = 1 THEN holder' # inbox[k].from
                  ELSE k - 1 \in DOMAIN inbox' /\ inbox'[k - 1] = inbox[k]
             ELSE /\ k \in DOMAIN inbox'
                  /\ inbox'[k].kind = "gone" /\ inbox'[k].from = inbox[k].from]_vars
  BY NoticeOfLease, NoticeOfOthers
<1> QED BY <1>1, DisplayMgrTypeCorrect, PTL DEF Spec, NoticeAdvances

-----------------------------------------------------------------------------
\* DisplayMgr implements FramebufferLease: each step lends, lays down, gives
\* back, opens or closes, or leaves the lending as it is.

LEMMA LendingStutters ==
  ASSUME UNCHANGED <<phase, current, holder, buffer>>
  PROVE  UNCHANGED Lending!vars
BY DEF Lending!vars

LEMMA LaidDown ==
  ASSUME NEW c \in Clients, buffer' = [buffer EXCEPT ![c] = 0],
         UNCHANGED <<phase, current, holder>>
  PROVE  Lending!LayDown(c)
BY DEF Lending!LayDown

\* What comes back comes from a client without the framebuffer.
LEMMA CameBack ==
  ASSUME LeaseInv, NEW c \in Clients, NEW kind, Receive(kind, c),
         holder' = IF holder = c THEN NoClient ELSE holder,
         UNCHANGED <<phase, current, buffer>>
  PROVE  Lending!GetBack(c) \/ UNCHANGED Lending!vars
<1>1. CASE holder = c
  <2>1. phase = "running" /\ 1 \in DOMAIN inbox /\ inbox[1].from = c
    BY ReceiveFacts DEF LeaseInv
  <2>2. buffer[c] = 0 /\ current > 0
    BY <2>1 DEF LeaseInv, NothingUnderWay, HolderHasIt
  <2> QED BY <1>1, <2>1, <2>2 DEF Lending!GetBack
<1>2. CASE holder # c
  BY <1>2, LendingStutters
<1> QED BY <1>1, <1>2

LEMMA LendingOfClient ==
  ASSUME NEW c \in Clients, Client(c)
  PROVE  Lending!LayDown(c) \/ UNCHANGED Lending!vars
<1>1. CASE AcquireFb(c) \/ MapFb(c) \/ CallTimesOut(c)
  BY <1>1, LendingStutters DEF AcquireFb, MapFb, CallTimesOut
<1>2. CASE MapFbFails(c) \/ ReleaseFb(c) \/ Leave(c)
  BY <1>2, LaidDown DEF MapFbFails, ReleaseFb, Leave
<1> QED BY <1>1, <1>2 DEF Client

LEMMA LendingOfLease ==
  ASSUME LeaseInv, NEW c \in Clients, Lease(c)
  PROVE  Lending!Lend(c) \/ Lending!GetBack(c) \/ UNCHANGED Lending!vars
<1>1. CASE GrantLease(c)
  <2>1. phase = "running" /\ current > 0
    BY <1>1 DEF GrantLease, Receive, LeaseInv, HolderHasIt
  <2>2. /\ holder \in {NoClient, c} /\ holder' = c
        /\ buffer' \in {buffer, [buffer EXCEPT ![c] = current]}
        /\ UNCHANGED <<phase, current>>
    BY <1>1 DEF GrantLease
  <2> QED BY <2>1, <2>2 DEF Lending!Lend
<1>2. CASE RefuseLease(c)
  BY <1>2, LendingStutters DEF RefuseLease
<1>3. CASE ReleaseLease(c)
  BY <1>3, CameBack DEF ReleaseLease
<1>4. CASE LeaseTrackDrop(c)
  BY <1>4, CameBack DEF LeaseTrackDrop
<1> QED BY <1>1, <1>2, <1>3, <1>4 DEF Lease

LEMMA LendingOfPower ==
  ASSUME LeaseInv, Power
  PROVE  Lending!Open \/ Lending!Close \/ UNCHANGED Lending!vars
<1>1. ASSUME NEW ok \in BOOLEAN, Start(ok) PROVE Lending!Open
  <2>1. /\ phase = "down" /\ phase' = "running" /\ current' = current + 1
        /\ UNCHANGED <<holder, buffer>>
    BY <1>1 DEF Start, CreateFramebuffer, lease
  <2>2. current \in Nat /\ \A c \in Clients : buffer[c] <= current /\ buffer[c] \in Nat
    BY DEF LeaseInv, TypeOK, BufferGranted
  <2>3. current + 1 \in Nat \ {0} /\ \A c \in Clients : buffer[c] # current + 1
    BY <2>2
  <2> QED BY <2>1, <2>3 DEF Lending!Open
<1>2. ASSUME NEW lit \in BOOLEAN, Down(lit) PROVE Lending!Close
  <2>1. /\ phase # "down" /\ phase' = "down" /\ holder' = NoClient
        /\ UNCHANGED <<current, buffer>>
    BY <1>2 DEF Down
  <2>2. current # 0
    BY <2>1 DEF LeaseInv, HolderHasIt
  <2> QED BY <2>1, <2>2 DEF Lending!Close
<1>3. ASSUME NEW ok \in BOOLEAN, Restore(ok) PROVE UNCHANGED Lending!vars
  <2>1. phase # "down" /\ phase' # "down" /\ UNCHANGED <<current, holder, buffer>>
    BY <1>3 DEF Restore, lease
  <2> QED BY <2>1 DEF Lending!vars
<1>4. ASSUME NEW ok \in BOOLEAN, StartFails(ok) \/ \E on \in BOOLEAN : SetDisplayOn(on, ok)
      PROVE  UNCHANGED Lending!vars
  BY <1>4, LendingStutters DEF StartFails, SetDisplayOn, lease
<1> QED BY <1>1, <1>2, <1>3, <1>4 DEF Power

LEMMA LendingStep ==
  ASSUME LeaseInv, [Next]_vars
  PROVE  [Lending!Next]_(Lending!vars)
<1>1. CASE Power
  BY <1>1, LendingOfPower DEF Lending!Next
<1>2. ASSUME NEW c \in Clients, Client(c) \/ Lease(c)
      PROVE  [Lending!Next]_(Lending!vars)
  BY <1>2, LendingOfClient, LendingOfLease DEF Lending!Next
<1>3. CASE UNCHANGED vars
  BY <1>3, LendingStutters DEF vars, lease
<1> QED BY <1>1, <1>2, <1>3 DEF Next

\* For any number of clients, calls and restarts, the daemon and its clients
\* lend one framebuffer at a time as FramebufferLease says: what is returned
\* was unmapped before, and a new framebuffer is one nobody has.
THEOREM LeaseImplemented == Spec => ImplementsLease
<1>1. Init => LeaseInv /\ Exclusive
  BY LeaseInit
<1>2. Init => Lending!Init
  BY DEF Init, Lending!Init
<1>3. LeaseInv /\ [Next]_vars => [Lending!Next]_(Lending!vars)
  BY LendingStep
<1> QED
  BY <1>1, <1>2, <1>3, LeaseStep, PTL DEF Spec, ImplementsLease, Lending!Spec

\* The promise is as much as a client needs.
LendingInv == Lending!TypeOK /\ Lending!WithLessee /\ Lending!OneEach

LEMMA LendingInvStep ==
  ASSUME LendingInv, [Lending!Next]_(Lending!vars)
  PROVE  LendingInv'
<1> DEFINE fb == IF phase = "down" THEN 0 ELSE current
<1> USE DEF LendingInv, Lending!TypeOK, Lending!WithLessee, Lending!OneEach
<1>1. CASE Lending!Open
  BY <1>1 DEF Lending!Open
<1>2. CASE Lending!Close
  BY <1>2 DEF Lending!Close
<1>3. ASSUME NEW c \in Clients, Lending!Lend(c) PROVE LendingInv'
  <2>1. \A d \in Clients : buffer[d] = fb => d = c
    BY <1>3, DisplayMgrAssumption DEF Lending!Lend
  <2>2. CASE buffer' = buffer
    BY <1>3, <2>1, <2>2 DEF Lending!Lend
  <2>3. CASE buffer' = [buffer EXCEPT ![c] = fb]
    BY <1>3, <2>1, <2>3 DEF Lending!Lend
  <2> QED BY <1>3, <2>2, <2>3 DEF Lending!Lend
<1>4. ASSUME NEW c \in Clients, Lending!LayDown(c) PROVE LendingInv'
  BY <1>4 DEF Lending!LayDown
<1>5. ASSUME NEW c \in Clients, Lending!GetBack(c) PROVE LendingInv'
  BY <1>5 DEF Lending!GetBack
<1>6. CASE UNCHANGED Lending!vars
  BY <1>6 DEF Lending!vars
<1> HIDE DEF LendingInv
<1> QED BY <1>1, <1>2, <1>3, <1>4, <1>5, <1>6 DEF Lending!Next

\* Whoever implements FramebufferLease, in this way or another, never has two
\* clients draw to one framebuffer.
THEOREM LendingGivesOneEach == Lending!Spec => []Lending!OneEach
<1>1. Lending!Init => LendingInv
  BY DEF Lending!Init, LendingInv, Lending!TypeOK, Lending!WithLessee, Lending!OneEach
<1>2. LendingInv => Lending!OneEach
  BY DEF LendingInv
<1> QED BY <1>1, <1>2, LendingInvStep, PTL DEF Lending!Spec

\* Status tells the truth, for any number of clients and restarts: only the two
\* switches and the start touch the panel while the daemon runs.
THEOREM StatusTellsThePanel == Spec => []StatusIsPanel
<1>1. Init => StatusIsPanel
  BY DEF Init, StatusIsPanel
<1>2. TypeOK /\ StatusIsPanel /\ [Next]_vars => StatusIsPanel'
  <2> SUFFICES ASSUME TypeOK, StatusIsPanel, [Next]_vars PROVE StatusIsPanel'
    OBVIOUS
  <2>1. ASSUME NEW c \in Clients, Client(c) \/ Lease(c) PROVE StatusIsPanel'
    <3>1. UNCHANGED <<phase, power>>
      BY <2>1 DEF Client, Lease, AcquireFb, MapFb, MapFbFails, ReleaseFb, CallTimesOut,
         Leave, GrantLease, RefuseLease, ReleaseLease, LeaseTrackDrop
    <3> QED BY <3>1 DEF StatusIsPanel, power
  <2>2. ASSUME NEW ok \in BOOLEAN, Start(ok) PROVE StatusIsPanel'
    BY <2>2 DEF Start, CreateFramebuffer, StatusIsPanel, TypeOK
  <2>3. ASSUME NEW ok \in BOOLEAN, NEW on \in BOOLEAN, SetDisplayOn(on, ok)
        PROVE  StatusIsPanel'
    BY <2>3 DEF SetDisplayOn, StatusIsPanel
  <2>4. ASSUME NEW ok \in BOOLEAN, StartFails(ok) \/ Restore(ok) \/ Down(ok)
        PROVE  StatusIsPanel'
    BY <2>4 DEF StartFails, Restore, Down, StatusIsPanel
  <2>5. CASE UNCHANGED vars
    BY <2>5 DEF vars, power, StatusIsPanel
  <2> QED BY <2>1, <2>2, <2>3, <2>4, <2>5 DEF Next, Power
<1> QED BY <1>1, <1>2, DisplayMgrTypeCorrect, PTL DEF Spec
=============================================================================
