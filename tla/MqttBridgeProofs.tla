--------------------------- MODULE MqttBridgeProofs ---------------------------
(***************************************************************************)
(* Proofs about MqttBridge, for any set of topics, queues of any length,   *)
(* and connections and processes that end at any moment.                   *)
(***************************************************************************)
EXTENDS MqttBridge, SequenceTheorems, TLAPS

-----------------------------------------------------------------------------
\* Queues.

LEMMA Items ==
  ASSUME NEW S, NEW s \in Seq(S)
  PROVE  /\ Len(s) \in Nat /\ DOMAIN s = 1 .. Len(s)
         /\ \A k \in 1 .. Len(s) : s[k] \in S
         /\ s = <<>> <=> Len(s) = 0
BY EmptySeq

LEMMA Taken ==
  ASSUME NEW S, NEW s \in Seq(S), s # <<>>
  PROVE  /\ Tail(s) \in Seq(S) /\ Head(s) \in S /\ Head(s) = s[1]
         /\ Len(s) \in Nat /\ Len(s) >= 1 /\ Len(Tail(s)) = Len(s) - 1
         /\ \A k \in 1 .. (Len(s) - 1) : Tail(s)[k] = s[k + 1]
<1>1. /\ Tail(s) \in Seq(S) /\ Head(s) = s[1] /\ Len(Tail(s)) = Len(s) - 1
      /\ \A k \in 1 .. (Len(s) - 1) : Tail(s)[k] = s[k + 1]
  BY HeadTailProperties
<1>2. Len(s) \in Nat /\ Len(s) >= 1
  BY EmptySeq
<1> QED BY <1>1, <1>2

LEMMA Added ==
  ASSUME NEW S, NEW s \in Seq(S), NEW m \in S
  PROVE  /\ Append(s, m) \in Seq(S) /\ Len(Append(s, m)) = Len(s) + 1
         /\ Len(s) \in Nat /\ Append(s, m) # <<>>
         /\ \A k \in 1 .. Len(s) : Append(s, m)[k] = s[k]
         /\ Append(s, m)[Len(s) + 1] = m
BY AppendProperties

LEMMA Concatenated ==
  ASSUME NEW S, NEW s \in Seq(S)
  PROVE  /\ s \o <<>> = s
         /\ \A m \in S : s \o <<m>> = Append(s, m)
         /\ \A m, n \in S : s \o <<m, n>> = Append(Append(s, m), n)
<1>1. s \o <<>> = s
  BY ConcatEmptySeq
<1>2. ASSUME NEW m \in S PROVE s \o <<m>> = Append(s, m)
  BY AppendIsConcat
<1>3. ASSUME NEW m \in S, NEW n \in S PROVE s \o <<m, n>> = Append(Append(s, m), n)
  <2>1. <<m>> \in Seq(S) /\ <<n>> \in Seq(S) /\ <<m, n>> = Append(<<m>>, n)
    OBVIOUS
  <2>2. <<m, n>> = <<m>> \o <<n>>
    BY <2>1, AppendIsConcat
  <2>3. Append(Append(s, m), n) = (s \o <<m>>) \o <<n>>
    BY AppendIsConcat, AppendProperties
  <2> QED BY <2>1, <2>2, <2>3, ConcatAssociative
<1> QED BY <1>1, <1>2, <1>3

LEMMA TwoAdded ==
  ASSUME NEW S, NEW s \in Seq(S), NEW m \in S, NEW n \in S
  PROVE  /\ Len(s) \in Nat /\ Len(s \o <<m, n>>) = Len(s) + 2
         /\ \A k \in 1 .. Len(s) : (s \o <<m, n>>)[k] = s[k]
         /\ (s \o <<m, n>>)[Len(s) + 1] = m /\ (s \o <<m, n>>)[Len(s) + 2] = n
<1> DEFINE a == Append(s, m)
<1>1. /\ a \in Seq(S) /\ Len(a) = Len(s) + 1 /\ Len(s) \in Nat
      /\ \A k \in 1 .. Len(s) : a[k] = s[k]
      /\ a[Len(s) + 1] = m
  BY Added
<1>2. s \o <<m, n>> = Append(a, n)
  BY Concatenated
<1> HIDE DEF a
<1>3. /\ Len(Append(a, n)) = Len(a) + 1
      /\ \A k \in 1 .. Len(a) : Append(a, n)[k] = a[k]
      /\ Append(a, n)[Len(a) + 1] = n
  BY <1>1, Added
<1> QED BY <1>1, <1>2, <1>3

-----------------------------------------------------------------------------
\* What queues say of a topic.

Concerns(message, kind, topic) == message.kind = kind /\ message.topic = topic

LEMMA SilentDef ==
  ASSUME NEW S, NEW s \in Seq(S), NEW kind, NEW topic
  PROVE  Silent(s, kind, topic) <=> \A k \in 1 .. Len(s) : ~Concerns(s[k], kind, topic)
BY Items DEF Silent, About, Concerns

LEMMA SaysDef ==
  ASSUME NEW S, NEW s \in Seq(S), NEW kind, NEW topic, NEW value
  PROVE  Says(s, kind, topic, value) <=>
           \E k \in 1 .. Len(s) :
             /\ Concerns(s[k], kind, topic) /\ s[k].value = value
             /\ \A j \in 1 .. Len(s) : j > k => ~Concerns(s[j], kind, topic)
BY Items DEF Says, Concerns

LEMMA Nothing ==
  ASSUME NEW kind, NEW topic, NEW value
  PROVE  Silent(<<>>, kind, topic) /\ ~Says(<<>>, kind, topic, value)
BY DEF Silent, Says, About

LEMMA SilentSays ==
  ASSUME NEW S, NEW s \in Seq(S), NEW kind, NEW topic, NEW value,
         Silent(s, kind, topic)
  PROVE  ~Says(s, kind, topic, value)
BY SaysDef, SilentDef

LEMMA SaysAdded ==
  ASSUME NEW S, NEW s \in Seq(S), NEW m \in S, NEW kind, NEW topic, NEW value
  PROVE  /\ Silent(Append(s, m), kind, topic)
              <=> ~Concerns(m, kind, topic) /\ Silent(s, kind, topic)
         /\ Says(Append(s, m), kind, topic, value)
              <=> IF Concerns(m, kind, topic) THEN m.value = value
                  ELSE Says(s, kind, topic, value)
<1> DEFINE a == Append(s, m)
           n == Len(s)
<1>1. /\ a \in Seq(S) /\ Len(a) = n + 1 /\ n \in Nat /\ a[n + 1] = m
      /\ \A k \in 1 .. n : a[k] = s[k]
  BY Added
<1> HIDE DEF a
<1>2. Silent(a, kind, topic) <=> ~Concerns(m, kind, topic) /\ Silent(s, kind, topic)
  <2>1. Silent(a, kind, topic) <=> \A k \in 1 .. (n + 1) : ~Concerns(a[k], kind, topic)
    BY <1>1, SilentDef
  <2>2. Silent(s, kind, topic) <=> \A k \in 1 .. n : ~Concerns(s[k], kind, topic)
    BY SilentDef
  <2> QED BY <1>1, <2>1, <2>2
<1>3. Says(a, kind, topic, value) <=>
        \E k \in 1 .. (n + 1) :
          /\ Concerns(a[k], kind, topic) /\ a[k].value = value
          /\ \A j \in 1 .. (n + 1) : j > k => ~Concerns(a[j], kind, topic)
  BY <1>1, SaysDef
<1>4. Says(s, kind, topic, value) <=>
        \E k \in 1 .. n :
          /\ Concerns(s[k], kind, topic) /\ s[k].value = value
          /\ \A j \in 1 .. n : j > k => ~Concerns(s[j], kind, topic)
  BY SaysDef
<1>5. CASE Concerns(m, kind, topic)
  <2>1. ASSUME Says(a, kind, topic, value) PROVE m.value = value
    <3>1. PICK k \in 1 .. (n + 1) :
            /\ Concerns(a[k], kind, topic) /\ a[k].value = value
            /\ \A j \in 1 .. (n + 1) : j > k => ~Concerns(a[j], kind, topic)
      BY <1>3, <2>1
    <3>2. k = n + 1
      BY <1>1, <1>5, <3>1
    <3> QED BY <1>1, <3>1, <3>2
  <2>2. ASSUME m.value = value PROVE Says(a, kind, topic, value)
    <3>1. /\ n + 1 \in 1 .. (n + 1)
          /\ Concerns(a[n + 1], kind, topic) /\ a[n + 1].value = value
          /\ \A j \in 1 .. (n + 1) : j > n + 1 => ~Concerns(a[j], kind, topic)
      BY <1>1, <1>5, <2>2
    <3> QED BY <1>3, <3>1
  <2> QED BY <1>2, <1>5, <2>1, <2>2 DEF a
<1>6. CASE ~Concerns(m, kind, topic)
  <2>1. ASSUME Says(a, kind, topic, value) PROVE Says(s, kind, topic, value)
    <3>1. PICK k \in 1 .. (n + 1) :
            /\ Concerns(a[k], kind, topic) /\ a[k].value = value
            /\ \A j \in 1 .. (n + 1) : j > k => ~Concerns(a[j], kind, topic)
      BY <1>3, <2>1
    <3>2. k \in 1 .. n
      BY <1>1, <1>6, <3>1
    <3>3. \A j \in 1 .. n : j > k => ~Concerns(s[j], kind, topic)
      BY <1>1, <3>1
    <3> QED BY <1>1, <1>4, <3>1, <3>2, <3>3
  <2>2. ASSUME Says(s, kind, topic, value) PROVE Says(a, kind, topic, value)
    <3>1. PICK k \in 1 .. n :
            /\ Concerns(s[k], kind, topic) /\ s[k].value = value
            /\ \A j \in 1 .. n : j > k => ~Concerns(s[j], kind, topic)
      BY <1>4, <2>2
    <3>2. k \in 1 .. (n + 1) /\ Concerns(a[k], kind, topic) /\ a[k].value = value
      BY <1>1, <3>1
    <3>3. \A j \in 1 .. (n + 1) : j > k => ~Concerns(a[j], kind, topic)
      BY <1>1, <1>6, <3>1
    <3> QED BY <1>3, <3>2, <3>3
  <2> QED BY <1>2, <1>6, <2>1, <2>2 DEF a
<1> QED BY <1>5, <1>6

LEMMA SaysTaken ==
  ASSUME NEW S, NEW s \in Seq(S), s # <<>>, NEW kind, NEW topic, NEW value
  PROVE  /\ Silent(s, kind, topic)
              <=> ~Concerns(Head(s), kind, topic) /\ Silent(Tail(s), kind, topic)
         /\ Says(s, kind, topic, value)
              <=> \/ Says(Tail(s), kind, topic, value)
                  \/ /\ Silent(Tail(s), kind, topic)
                     /\ Concerns(Head(s), kind, topic) /\ Head(s).value = value
<1> DEFINE r == Tail(s)
           n == Len(s)
<1>1. /\ r \in Seq(S) /\ Len(r) = n - 1 /\ n \in Nat /\ n >= 1 /\ Head(s) = s[1]
      /\ \A k \in 1 .. (n - 1) : r[k] = s[k + 1]
  BY Taken
<1> HIDE DEF r
<1>2. \A k \in 2 .. n : k - 1 \in 1 .. (n - 1) /\ s[k] = r[k - 1]
  BY <1>1
<1>3. Silent(s, kind, topic) <=> \A k \in 1 .. n : ~Concerns(s[k], kind, topic)
  BY SilentDef
<1>4. Silent(r, kind, topic) <=> \A k \in 1 .. (n - 1) : ~Concerns(r[k], kind, topic)
  BY <1>1, SilentDef
<1>5. Silent(s, kind, topic)
        <=> ~Concerns(Head(s), kind, topic) /\ Silent(r, kind, topic)
  <2>1. ASSUME Silent(s, kind, topic)
        PROVE  ~Concerns(Head(s), kind, topic) /\ Silent(r, kind, topic)
    BY <1>1, <1>3, <1>4, <2>1
  <2>2. ASSUME ~Concerns(Head(s), kind, topic), Silent(r, kind, topic)
        PROVE  Silent(s, kind, topic)
    <3>1. ASSUME NEW k \in 1 .. n PROVE ~Concerns(s[k], kind, topic)
      <4>1. CASE k = 1
        BY <1>1, <2>2, <4>1
      <4>2. CASE k # 1
        BY <1>1, <1>2, <1>4, <2>2, <4>2
      <4> QED BY <4>1, <4>2
    <3> QED BY <1>3, <3>1
  <2> QED BY <2>1, <2>2
<1>6. Says(s, kind, topic, value) <=>
        \E k \in 1 .. n :
          /\ Concerns(s[k], kind, topic) /\ s[k].value = value
          /\ \A j \in 1 .. n : j > k => ~Concerns(s[j], kind, topic)
  BY SaysDef
<1>7. Says(r, kind, topic, value) <=>
        \E k \in 1 .. (n - 1) :
          /\ Concerns(r[k], kind, topic) /\ r[k].value = value
          /\ \A j \in 1 .. (n - 1) : j > k => ~Concerns(r[j], kind, topic)
  BY <1>1, SaysDef
<1>8. ASSUME Says(s, kind, topic, value)
      PROVE  \/ Says(r, kind, topic, value)
             \/ /\ Silent(r, kind, topic)
                /\ Concerns(Head(s), kind, topic) /\ Head(s).value = value
  <2>1. PICK k \in 1 .. n :
          /\ Concerns(s[k], kind, topic) /\ s[k].value = value
          /\ \A j \in 1 .. n : j > k => ~Concerns(s[j], kind, topic)
    BY <1>6, <1>8
  <2>2. ASSUME NEW j \in 1 .. (n - 1), j + 1 > k PROVE ~Concerns(r[j], kind, topic)
    BY <1>1, <2>1, <2>2
  <2>3. CASE k = 1
    <3>1. Silent(r, kind, topic)
      BY <1>1, <1>4, <2>2, <2>3
    <3> QED BY <1>1, <2>1, <2>3, <3>1
  <2>4. CASE k # 1
    <3>1. /\ k - 1 \in 1 .. (n - 1)
          /\ Concerns(r[k - 1], kind, topic) /\ r[k - 1].value = value
      BY <1>1, <1>2, <2>1, <2>4
    <3>2. \A j \in 1 .. (n - 1) : j > k - 1 => ~Concerns(r[j], kind, topic)
      BY <1>1, <2>2
    <3> QED BY <1>7, <3>1, <3>2
  <2> QED BY <2>3, <2>4
<1>9. ASSUME Says(r, kind, topic, value) PROVE Says(s, kind, topic, value)
  <2>1. PICK k \in 1 .. (n - 1) :
          /\ Concerns(r[k], kind, topic) /\ r[k].value = value
          /\ \A j \in 1 .. (n - 1) : j > k => ~Concerns(r[j], kind, topic)
    BY <1>7, <1>9
  <2>2. k + 1 \in 1 .. n /\ Concerns(s[k + 1], kind, topic) /\ s[k + 1].value = value
    BY <1>1, <2>1
  <2>3. ASSUME NEW j \in 1 .. n, j > k + 1 PROVE ~Concerns(s[j], kind, topic)
    <3>1. j \in 2 .. n /\ j - 1 > k
      BY <1>1, <2>1, <2>3
    <3> QED BY <1>1, <1>2, <2>1, <3>1
  <2> QED BY <1>6, <2>2, <2>3
<1>10. ASSUME Silent(r, kind, topic), Concerns(Head(s), kind, topic), Head(s).value = value
       PROVE  Says(s, kind, topic, value)
  <2>1. ASSUME NEW j \in 1 .. n, j > 1 PROVE ~Concerns(s[j], kind, topic)
    BY <1>1, <1>2, <1>4, <1>10, <2>1
  <2> QED BY <1>1, <1>6, <1>10, <2>1
<1> QED BY <1>5, <1>8, <1>9, <1>10 DEF r

-----------------------------------------------------------------------------
\* Types.

\* What is sent is a message.
LEMMA Messages ==
  /\ \A topic \in Topics, value \in BOOLEAN :
       /\ Signal(topic, value) \in BusMessages
       /\ Publish(topic, value) \in Packets
  /\ Reply("reply") \in BusMessages /\ Reply("late") \in BusMessages
  /\ \A kind \in {"connect", "subscribe", "online", "offline"} : Control(kind) \in Packets
  /\ Control("disconnect") \in Packets
BY MqttBridgeAssumption
   DEF Signal, Publish, Reply, Control, BusMessages, Packets

LEMMA AboutItems ==
  ASSUME NEW S, NEW s \in Seq(S), NEW kind, \A m \in S : m.topic \in Topics
  PROVE  About(s, kind) \subseteq Topics
<1>1. \A k \in DOMAIN s : s[k].topic \in Topics
  BY Items
<1> QED BY <1>1 DEF About

LEMMA AboutTopics ==
  /\ \A kind : \A s \in Seq(BusMessages) : About(s, kind) \subseteq Topics
  /\ \A kind : \A s \in Seq(Packets) : About(s, kind) \subseteq Topics
<1>1. /\ \A m \in BusMessages : m.topic \in Topics
      /\ \A p \in Packets : p.topic \in Topics
  BY DEF BusMessages, Packets
<1>2. ASSUME NEW s \in Seq(BusMessages), NEW kind PROVE About(s, kind) \subseteq Topics
  BY <1>1, AboutItems
<1>3. ASSUME NEW s \in Seq(Packets), NEW kind PROVE About(s, kind) \subseteq Topics
  BY <1>1, AboutItems
<1> QED BY <1>2, <1>3

\* Whoever is answered otherwise, the calls stay the same.
LEMMA Answered ==
  ASSUME requests \in Seq(Requests), NEW answer \in {"reply", "late", "none"}
  PROVE  Answering(answer) \in Seq(Requests)
<1>1. /\ Len(requests) \in Nat /\ DOMAIN requests = 1 .. Len(requests)
      /\ \A k \in 1 .. Len(requests) : requests[k] \in Requests
  BY Items
<1>2. ASSUME NEW k \in 1 .. Len(requests)
      PROVE  (IF requests[k].answer = "reply" \/ answer = "none"
              THEN [requests[k] EXCEPT !.answer = answer] ELSE requests[k]) \in Requests
  BY <1>1 DEF Requests
<1> QED BY <1>1, <1>2 DEF Answering

\* A call that fails is withdrawn.
LEMMA WithdrawnType ==
  ASSUME requests \in Seq(Requests)
  PROVE  Withdrawn \in Seq(Requests)
<1>1. CASE IsAwaited
  <2>1. Len(requests) \in Nat /\ Len(requests) >= 1
    BY <1>1, Taken DEF IsAwaited
  <2> QED BY <1>1, <2>1, SubSeqProperties DEF Withdrawn
<1>2. CASE ~IsAwaited
  BY <1>2 DEF Withdrawn
<1> QED BY <1>1, <1>2

\* The reply that is under way will have no receiver.
Relabelled == [k \in DOMAIN wire |-> IF wire[k].kind = "reply"
                                     THEN Reply("late") ELSE wire[k]]

LEMMA RelabelledItems ==
  ASSUME wire \in Seq(BusMessages)
  PROVE  /\ Relabelled \in Seq(BusMessages) /\ Len(Relabelled) = Len(wire)
         /\ Len(wire) \in Nat
         /\ \A k \in 1 .. Len(wire) :
              Relabelled[k] = IF wire[k].kind = "reply" THEN Reply("late") ELSE wire[k]
<1>1. /\ Len(wire) \in Nat /\ DOMAIN wire = 1 .. Len(wire)
      /\ \A k \in 1 .. Len(wire) : wire[k] \in BusMessages
  BY Items
<1> QED BY <1>1, Messages DEF Relabelled

\* What a connection attempt leaves.
LEMMA Attempted ==
  ASSUME TypeOK, NEW mayTry, TryConnect(mayTry)
  PROVE  /\ socket' \in {"none", "connecting"} /\ due' = FALSE
         /\ linked' \in BOOLEAN /\ (linked' => socket' = "connecting")
         /\ out' \in Seq(Packets) /\ (out' = <<>> \/ out' = <<Control("connect")>>)
         /\ in' = <<>> /\ in' \in Seq(Incoming)
         /\ session' = FALSE /\ subscribed' = FALSE /\ ghost' \in BOOLEAN
         /\ (ghost' <=> ghost \/ session)
         /\ UNCHANGED <<retained, bridgeState>>
<1>1. /\ in' = <<>> /\ session' = FALSE /\ subscribed' = FALSE /\ due' = FALSE
      /\ ghost' = (ghost \/ session) /\ UNCHANGED <<retained, bridgeState>>
  BY DEF TryConnect, Sever
<1>2. ghost' \in BOOLEAN
  BY <1>1, Zenon DEF TypeOK
<1>3. in' \in Seq(Incoming)
  BY <1>1, EmptySeq
<1>4. Control("connect") \in Packets
  BY Messages
<1>5. CASE mayTry /\ network # "gone"
  <2>1. socket' = "connecting" /\ linked' = TRUE /\ out' = <<Control("connect")>>
    BY <1>5, Zenon DEF TryConnect
  <2>2. out' \in Seq(Packets)
    BY <1>4, <2>1
  <2> QED BY <1>1, <1>2, <1>3, <2>1, <2>2
<1>6. CASE ~(mayTry /\ network # "gone")
  <2>1. socket' = "none" /\ linked' = FALSE /\ out' = <<>>
    BY <1>6, Zenon DEF TryConnect
  <2>2. out' \in Seq(Packets)
    BY <2>1, EmptySeq
  <2> QED BY <1>1, <1>2, <1>3, <2>1, <2>2
<1> QED BY <1>5, <1>6

\* What the bridge sends, if it can.
LEMMA Sent ==
  ASSUME TypeOK, NEW packets \in Seq(Packets), Send(packets)
  PROVE  out' \in Seq(Packets)
<1>1. out \o packets \in Seq(Packets)
  BY ConcatProperties DEF TypeOK
<1> QED BY <1>1 DEF Send, TypeOK

\* What ambience says when it has served a call, and what it replies.
Announced == IF truth' = truth THEN <<>> ELSE <<Signal(Active, truth'[Active])>>
Answer == IF Head(requests).answer = "none" THEN <<>>
          ELSE <<Reply(Head(requests).answer)>>

LEMMA Served ==
  ASSUME TypeOK, ServeRequest
  PROVE  /\ Tail(requests) \in Seq(Requests) /\ truth' \in [Topics -> BOOLEAN]
         /\ Head(requests) \in Requests
         /\ \A t \in Topics \ {Active} : truth'[t] = truth[t]
         /\ Announced \in Seq(BusMessages) /\ Answer \in Seq(BusMessages)
         /\ wire \o Announced \in Seq(BusMessages)
         /\ wire \o Announced \o Answer \in Seq(BusMessages)
         /\ IF phase = "down"
            THEN wire' = wire /\ missed' = missed \cup About(Announced, "signal")
            ELSE wire' = wire \o Announced \o Answer /\ missed' = missed
<1>1. Head(requests) \in Requests /\ Tail(requests) \in Seq(Requests)
  BY Taken DEF ServeRequest, TypeOK
<1>2. truth' \in [Topics -> BOOLEAN] /\ \A t \in Topics \ {Active} : truth'[t] = truth[t]
  BY MqttBridgeAssumption DEF ServeRequest, TypeOK
<1>3. <<>> \in Seq(BusMessages)
  BY EmptySeq
<1>4. Announced \in Seq(BusMessages)
  <2>1. Signal(Active, truth'[Active]) \in BusMessages
    BY <1>2, Messages, MqttBridgeAssumption
  <2> QED BY <1>3, <2>1 DEF Announced
<1>5. Answer \in Seq(BusMessages)
  <2>1. Head(requests).answer \in {"reply", "late", "none"}
    BY <1>1 DEF Requests
  <2>2. Head(requests).answer # "none" => Reply(Head(requests).answer) \in BusMessages
    BY <2>1, Messages
  <2> QED BY <1>3, <2>2 DEF Answer
<1>6. /\ wire \o Announced \in Seq(BusMessages)
      /\ wire \o Announced \o Answer \in Seq(BusMessages)
  BY <1>4, <1>5, ConcatProperties DEF TypeOK
<1>7. IF phase = "down"
      THEN wire' = wire /\ missed' = missed \cup About(Announced, "signal")
      ELSE wire' = wire \o Announced \o Answer /\ missed' = missed
  BY Zenon DEF ServeRequest, Announced, Answer
<1> QED BY <1>1, <1>2, <1>4, <1>5, <1>6, <1>7

\* The bridge dispatches for as long as there is something to dispatch.
HasMore == phase = "dispatching" => rqueue # <<>> \/ wire # <<>>

LEMMA MoreStep ==
  ASSUME TypeOK, HasMore, [Next]_vars
  PROVE  HasMore'
<1> USE DEF HasMore
<1>1. ASSUME NEW topic \in Topics, Announce(topic) PROVE HasMore'
  <2>1. Append(wire, Signal(topic, ~truth[topic])) # <<>>
    <3>1. Signal(topic, ~truth[topic]) \in BusMessages
      BY Messages DEF TypeOK
    <3> QED BY <3>1, Added DEF TypeOK
  <2> QED BY <1>1, <2>1 DEF Announce
<1>2. CASE ServeRequest
  <2>1. wire # <<>> => wire \o Announced \o Answer # <<>>
    BY <1>2, Served, ConcatEqualIffEmpty DEF TypeOK
  <2> QED BY <1>2, <2>1, Served DEF ServeRequest
<1>3. ASSUME NEW message \in BusMessages, ProcessBus(message) PROVE HasMore'
  BY <1>3 DEF ProcessBus
<1>4. CASE Start \/ Free \/ Crash
  BY <1>4 DEF Start, Free, Crash
<1>5. CASE ReadMqtt
  BY <1>5 DEF ReadMqtt, ReadConnack, ReadRefused, DropCommand, ForwardCommand, bus
<1>6. CASE EndCall
  BY <1>6 DEF EndCall, CallReads, CallFails
<1>7. CASE ThrottleEnds \/ Reconnect
  BY <1>7 DEF ThrottleEnds, Reconnect, bus
<1>8. CASE Takes \/ NoticeGhost \/ NetworkChanges \/ LinkBreaks
  BY <1>8 DEF Takes, AcceptConnect, RefuseConnect, TakePacket, TakeDisconnect,
              NoticeGhost, NetworkChanges, LinkBreaks, bus
<1>9. ASSUME NEW command, SendCommand(command) PROVE HasMore'
  BY <1>9 DEF SendCommand, bus
<1>10. CASE UNCHANGED vars
  BY <1>10 DEF vars, bus
<1> HIDE DEF HasMore
<1> QED
  BY <1>1, <1>2, <1>3, <1>4, <1>5, <1>6, <1>7, <1>8, <1>9, <1>10
  DEF Next, Bridge, Surroundings, Dispatch

LEMMA TypeInit ==
  ASSUME Init
  PROVE  TypeOK
<1>1. /\ <<>> \in Seq(BusMessages) /\ <<>> \in Seq(Requests)
      /\ <<>> \in Seq(Packets) /\ <<>> \in Seq(Incoming)
  BY EmptySeq
<1> QED BY <1>1 DEF Init, TypeOK

LEMMA TypeStep ==
  ASSUME TypeOK, HasMore, [Next]_vars
  PROVE  TypeOK'
<1> USE DEF TypeOK
<1>e. /\ <<>> \in Seq(BusMessages) /\ <<>> \in Seq(Requests)
      /\ <<>> \in Seq(Packets) /\ <<>> \in Seq(Incoming)
  BY EmptySeq
<1>u. Undispatched \subseteq Topics /\ Unsent \subseteq Topics
  BY AboutTopics DEF Undispatched, Unsent
<1>1. ASSUME NEW topic \in Topics, Announce(topic) PROVE TypeOK'
  <2>1. Signal(topic, ~truth[topic]) \in BusMessages
    BY Messages
  <2>2. Append(wire, Signal(topic, ~truth[topic])) \in Seq(BusMessages)
    BY <2>1, Added
  <2>3. wire' \in Seq(BusMessages) /\ missed' \subseteq Topics
    BY <1>1, <2>2 DEF Announce
  <2>4. truth' \in [Topics -> BOOLEAN]
    BY <1>1 DEF Announce
  <2> QED BY <1>1, <2>3, <2>4 DEF Announce, connection, broker
<1>2. CASE ServeRequest
  <2>1. About(Announced, "signal") \subseteq Topics
    BY <1>2, Served, AboutTopics
  <2>2. wire' \in Seq(BusMessages) /\ missed' \subseteq Topics
    BY <1>2, <2>1, Served
  <2>3. requests' \in Seq(Requests) /\ truth' \in [Topics -> BOOLEAN]
    BY <1>2, Served DEF ServeRequest
  <2>4. UNCHANGED <<phase, rqueue, connection, broker, network>>
    BY <1>2 DEF ServeRequest
  <2> QED BY <2>2, <2>3, <2>4 DEF connection, broker
<1>3. CASE Start
  BY <1>3, <1>e, <1>u, Attempted DEF Start
<1>4. CASE ThrottleEnds
  BY <1>4 DEF ThrottleEnds, bus, broker
<1>5. CASE Reconnect
  BY <1>5, <1>u, Attempted DEF Reconnect, bus
<1>6. CASE Free
  <2>1. <<Control("offline"), Control("disconnect")>> \in Seq(Packets)
    BY Messages
  <2>2. out' \in Seq(Packets)
    BY <1>6, <2>1, ConcatProperties DEF Free
  <2> QED BY <1>6, <1>e, <1>u, <2>2, Answered DEF Free, broker
<1>7. CASE Crash
  <2>1. ghost' \in BOOLEAN
    BY <1>7, Zenon DEF Crash, Sever
  <2> QED BY <1>7, <1>e, <1>u, <2>1, Answered DEF Crash, Sever
<1>8. ASSUME NEW message \in BusMessages, ProcessBus(message) PROVE TypeOK'
  <2>1. wire' \in Seq(BusMessages) /\ rqueue' \in Seq(BusMessages)
    <3>1. wire # <<>> => Tail(wire) \in Seq(BusMessages)
      BY Taken
    <3>2. rqueue # <<>> => Tail(rqueue) \in Seq(BusMessages)
      BY Taken
    <3>3. rqueue # <<>> \/ wire # <<>>
      BY <1>8 DEF ProcessBus, HasMore
    <3> QED BY <1>8, <3>1, <3>2, <3>3 DEF ProcessBus, NextMessage
  <2>2. message.topic \in Topics /\ message.value \in BOOLEAN
    BY DEF BusMessages
  <2>3. out' \in Seq(Packets) /\ missed' \subseteq Topics
    <3>1. <<Publish(message.topic, message.value)>> \in Seq(Packets)
      BY <2>2, Messages
    <3> QED BY <1>8, <2>2, <3>1, Sent DEF ProcessBus
  <2> QED BY <1>8, <2>1, <2>3 DEF ProcessBus, broker
<1>9. CASE ReadConnack
  <2>1. Tail(in) \in Seq(Incoming)
    BY <1>9, Taken DEF ReadConnack, Read
  <2>2. OnConnect \in Seq(Packets)
    BY Messages DEF OnConnect
  <2>3. out' \in Seq(Packets)
    BY <1>9, <2>2, Sent DEF ReadConnack
  <2> QED BY <1>9, <2>1, <2>3 DEF ReadConnack, bus, broker
<1>10. CASE ReadRefused
  BY <1>10, <1>u, Attempted DEF ReadRefused, bus
<1>11. CASE DropCommand
  BY <1>11, Taken DEF DropCommand, Read, bus, broker
<1>12. ASSUME NEW command \in Commands, ForwardCommand(command) PROVE TypeOK'
  <2>1. [command |-> command, answer |-> "reply"] \in Requests
    BY DEF Requests
  <2>2. Append(requests, [command |-> command, answer |-> "reply"]) \in Seq(Requests)
    BY <2>1, Added
  <2>3. Tail(in) \in Seq(Incoming)
    BY <1>12, Taken DEF ForwardCommand, Read
  <2> QED BY <1>12, <2>2, <2>3 DEF ForwardCommand, broker
<1>13. CASE CallReads
  <2>1. Head(wire) \in BusMessages /\ Tail(wire) \in Seq(BusMessages)
    BY <1>13, Taken DEF CallReads
  <2>2. Append(rqueue, Head(wire)) \in Seq(BusMessages)
    BY <2>1, Added
  <2> QED BY <1>13, <2>1, <2>2 DEF CallReads, connection, broker
<1>14. ASSUME NEW delivered \in BOOLEAN, CallFails(delivered) PROVE TypeOK'
  <2>1. wire' \in Seq(BusMessages)
    BY <1>14, RelabelledItems DEF CallFails, Relabelled
  <2>2. requests' \in Seq(Requests)
    BY <1>14, Answered, WithdrawnType DEF CallFails
  <2> QED BY <1>14, <2>1, <2>2 DEF CallFails, connection, broker
<1>15. CASE AcceptConnect
  <2>1. Tail(out) \in Seq(Packets) /\ Append(in, "connack") \in Seq(Incoming)
    BY <1>15, Taken, Added DEF AcceptConnect, Take, Incoming
  <2> QED BY <1>15, <2>1 DEF AcceptConnect, bus
<1>16. CASE RefuseConnect
  <2>1. Append(in, "refused") \in Seq(Incoming)
    BY Added DEF Incoming
  <2> QED BY <1>16, <1>e, <1>u, <2>1 DEF RefuseConnect, bus, broker
<1>17. CASE TakePacket
  <2>1. Head(out) \in Packets /\ Tail(out) \in Seq(Packets)
    BY <1>17, Taken DEF TakePacket, Take
  <2>2. Head(out).topic \in Topics /\ Head(out).value \in BOOLEAN
    BY <2>1 DEF Packets
  <2>3. subscribed' \in BOOLEAN
    BY <1>17, Zenon DEF TakePacket
  <2>4. retained' \in [Topics -> BOOLEAN]
    BY <1>17, <2>2 DEF TakePacket
  <2>5. bridgeState' \in {"online", "offline"}
    BY <1>17 DEF TakePacket
  <2>6. missed' \subseteq Topics
    BY <1>17, <2>2 DEF TakePacket
  <2> QED BY <1>17, <2>1, <2>3, <2>4, <2>5, <2>6 DEF TakePacket, bus
<1>18. CASE TakeDisconnect
  BY <1>18, <1>e DEF TakeDisconnect, bus
<1>19. CASE NoticeGhost
  BY <1>19 DEF NoticeGhost, bus, connection
<1>20. CASE NetworkChanges
  BY <1>20 DEF NetworkChanges, bus, connection, broker
<1>21. CASE LinkBreaks
  <2>1. ghost' \in BOOLEAN
    BY <1>21, Zenon DEF LinkBreaks, Sever
  <2> QED BY <1>21, <1>e, <1>u, <2>1 DEF LinkBreaks, Sever, bus
<1>22. ASSUME NEW command \in Commands \cup {"malformed"}, SendCommand(command)
       PROVE  TypeOK'
  <2>1. <<command>> \in Seq(Incoming)
    BY DEF Incoming
  <2> QED BY <1>22, <2>1 DEF SendCommand, bus, broker
<1>23. CASE UNCHANGED vars
  BY <1>23 DEF vars, bus, connection, broker
<1> HIDE DEF TypeOK
<1> QED
  BY <1>1, <1>2, <1>3, <1>4, <1>5, <1>6, <1>7, <1>8, <1>9, <1>10, <1>11, <1>12, <1>13,
     <1>14, <1>15, <1>16, <1>17, <1>18, <1>19, <1>20, <1>21, <1>22, <1>23
  DEF Next, Bridge, Surroundings, Dispatch, ReadMqtt, EndCall, Takes

\* Every variable stays in its range: queues hold messages, calls and packets of
\* the kinds that main.c sends and reads.
THEOREM BridgeTypeCorrect == Spec => []TypeOK
<1>1. Init => TypeOK /\ HasMore
  BY TypeInit DEF Init, HasMore
<1> QED BY <1>1, TypeStep, MoreStep, PTL DEF Spec

-----------------------------------------------------------------------------
\* Connections.

\* Without a process nothing of it is left but what it had sent.
DownIsQuiet ==
  phase = "down" => wire = <<>> /\ rqueue = <<>> /\ socket = "none"

\* A connection begins with "connect", to which there is no answer yet, ...
ConnectFirst ==
  \A k \in 1 .. Len(out) : out[k].kind = "connect" =>
    k = 1 /\ ~session /\ in = <<>> /\ socket # "connected"

\* ... once accepted it subscribes before it says "online", ...
ListensFirst ==
  \A k \in 1 .. Len(out) :
    /\ out[k].kind \in {"subscribe", "online"} => session
    /\ out[k].kind = "online" =>
         subscribed \/ \E j \in 1 .. (k - 1) : out[j].kind = "subscribe"

\* ... and it ends, with the process, by "offline" and "disconnect".
FarewellLast ==
  \A k \in 1 .. Len(out) :
    /\ out[k].kind \in {"offline", "disconnect"} => phase = "down"
    /\ out[k].kind = "disconnect" =>
         /\ k = Len(out)
         /\ IF k = 1 THEN session => bridgeState = "offline"
            ELSE out[k - 1].kind = "offline"

\* The broker's view, and that of a bridge that runs, ...
Accepted ==
  /\ ghost => ~session
  /\ subscribed => session
  /\ phase # "down" => \A k \in 1 .. Len(in) : in[k] = "connack" => session
  /\ phase # "down" /\ linked => socket # "none"

\* ... which has said "online" once it takes itself for connected.
Settled ==
  socket = "connected" /\ linked =>
    /\ session
    /\ bridgeState = "online" \/ \E k \in 1 .. Len(out) : out[k].kind = "online"

Heard == bridgeState = "online" => subscribed \/ ghost

Conversation ==
  ConnectFirst /\ ListensFirst /\ FarewellLast /\ Accepted /\ Settled /\ Heard

LEMMA QuietStep ==
  ASSUME TypeOK, DownIsQuiet, [Next]_vars
  PROVE  DownIsQuiet'
<1> USE DEF DownIsQuiet
<1>1. ASSUME NEW topic \in Topics, Announce(topic) PROVE DownIsQuiet'
  BY <1>1 DEF Announce, connection
<1>2. CASE ServeRequest
  BY <1>2, Served DEF ServeRequest, connection
<1>3. CASE Start
  BY <1>3 DEF Start
<1>4. CASE ReadMqtt \/ Reconnect
  BY <1>4 DEF ReadMqtt, ReadConnack, ReadRefused, DropCommand, ForwardCommand, Read,
              Reconnect
<1>5. CASE Free \/ Crash
  BY <1>5 DEF Free, Crash
<1>6. ASSUME NEW message \in BusMessages, ProcessBus(message) PROVE DownIsQuiet'
  BY <1>6 DEF ProcessBus
<1>7. CASE EndCall
  BY <1>7 DEF EndCall, CallReads, CallFails
<1>8. CASE ThrottleEnds
  BY <1>8 DEF ThrottleEnds, bus
<1>9. CASE Takes \/ NoticeGhost \/ NetworkChanges \/ LinkBreaks
  BY <1>9 DEF Takes, AcceptConnect, RefuseConnect, TakePacket, TakeDisconnect,
              NoticeGhost, NetworkChanges, LinkBreaks, bus, connection
<1>10. ASSUME NEW command, SendCommand(command) PROVE DownIsQuiet'
  BY <1>10 DEF SendCommand, bus
<1>11. CASE UNCHANGED vars
  BY <1>11 DEF vars, bus, connection
<1> HIDE DEF DownIsQuiet
<1> QED
  BY <1>1, <1>2, <1>3, <1>4, <1>5, <1>6, <1>7, <1>8, <1>9, <1>10, <1>11
  DEF Next, Bridge, Surroundings, Dispatch

\* Steps that leave the connection alone, and the process running or not.
LEMMA ConversationKept ==
  ASSUME Conversation, UNCHANGED <<connection, broker>>, phase' = "down" <=> phase = "down"
  PROVE  Conversation'
BY DEF Conversation, ConnectFirst, ListensFirst, FarewellLast, Accepted, Settled, Heard,
       connection, broker

\* A connection attempt, which gives up the old connection.
LEMMA ConversationAttempted ==
  ASSUME TypeOK, Conversation, NEW mayTry, TryConnect(mayTry)
  PROVE  Conversation'
<1>1. /\ linked' => socket' = "connecting"
      /\ socket' # "connected" /\ in' = <<>> /\ session' = FALSE /\ subscribed' = FALSE
      /\ ghost' <=> ghost \/ session
      /\ bridgeState' = bridgeState
      /\ out' = <<>> \/ out' = <<Control("connect")>>
  BY Attempted
<1>2. Len(out') = 0 \/ (Len(out') = 1 /\ out'[1].kind = "connect")
  BY <1>1 DEF Control
<1>3. Len(in') = 0
  BY <1>1
<1>4. ConnectFirst' /\ ListensFirst' /\ FarewellLast'
  BY <1>1, <1>2 DEF ConnectFirst, ListensFirst, FarewellLast
<1>5. Accepted' /\ Settled'
  BY <1>1, <1>3 DEF Accepted, Settled
<1>6. Heard'
  BY <1>1 DEF Conversation, Accepted, Heard
<1> QED BY <1>4, <1>5, <1>6 DEF Conversation

\* A connection that ends, and nothing instead.
LEMMA ConversationSevered ==
  ASSUME TypeOK, Conversation, Sever, linked' = FALSE, out' = <<>>
  PROVE  Conversation'
<1>1. /\ in' = <<>> /\ session' = FALSE /\ subscribed' = FALSE
      /\ ghost' <=> ghost \/ session
      /\ bridgeState' = bridgeState
  BY DEF Sever
<1>2. Len(out') = 0 /\ Len(in') = 0
  BY <1>1
<1>3. ConnectFirst' /\ ListensFirst' /\ FarewellLast' /\ Accepted' /\ Settled'
  BY <1>1, <1>2 DEF ConnectFirst, ListensFirst, FarewellLast, Accepted, Settled
<1>4. Heard'
  BY <1>1 DEF Conversation, Accepted, Heard
<1> QED BY <1>3, <1>4 DEF Conversation

LEMMA ConversationFreed ==
  ASSUME TypeOK, Conversation, Free
  PROVE  Conversation'
<1> DEFINE n == Len(out)
<1>1. /\ phase = "running" /\ phase' = "down" /\ socket' = "none" /\ in' = <<>>
      /\ UNCHANGED <<linked, session, subscribed, ghost, bridgeState>>
  BY DEF Free, broker
<1>2. n \in Nat
  BY Items DEF TypeOK
<1>3. \/ out' = out
      \/ /\ Len(out') = n + 2
         /\ \A k \in 1 .. n : out'[k] = out[k]
         /\ out'[n + 1].kind = "offline" /\ out'[n + 2].kind = "disconnect"
  <2>1. CASE linked
    <3>1. Control("offline") \in Packets /\ Control("disconnect") \in Packets
      BY Messages
    <3>2. Control("offline").kind = "offline" /\ Control("disconnect").kind = "disconnect"
      BY DEF Control
    <3>3. out' = out \o <<Control("offline"), Control("disconnect")>>
      BY <2>1 DEF Free
    <3> QED BY <3>1, <3>2, <3>3, TwoAdded DEF TypeOK
  <2>2. CASE ~linked
    BY <2>2 DEF Free
  <2> QED BY <2>1, <2>2
<1>4. \A k \in 1 .. n : out[k].kind \notin {"offline", "disconnect"}
  BY <1>1 DEF Conversation, FarewellLast
<1>5. ConnectFirst'
  BY <1>1, <1>2, <1>3 DEF Conversation, ConnectFirst
<1>6. ListensFirst'
  BY <1>1, <1>2, <1>3 DEF Conversation, ListensFirst
<1>7. FarewellLast'
  BY <1>1, <1>2, <1>3, <1>4 DEF FarewellLast
<1>8. Accepted' /\ Settled' /\ Heard'
  BY <1>1 DEF Conversation, Accepted, Settled, Heard
<1> QED BY <1>5, <1>6, <1>7, <1>8 DEF Conversation

LEMMA ConversationDispatched ==
  ASSUME TypeOK, Conversation, NEW message \in BusMessages, ProcessBus(message)
  PROVE  Conversation'
<1> DEFINE n == Len(out)
<1>1. /\ phase # "down" /\ phase' # "down"
      /\ UNCHANGED <<socket, linked, in, session, subscribed, ghost, bridgeState>>
  BY DEF ProcessBus, broker
<1>2. n \in Nat
  BY Items DEF TypeOK
<1>3. \/ out' = out
      \/ /\ Len(out') = n + 1
         /\ \A k \in 1 .. n : out'[k] = out[k]
         /\ out'[n + 1].kind = "state"
  <2> DEFINE p == Publish(message.topic, message.value)
  <2>1. p \in Packets /\ p.kind = "state"
    BY Messages DEF BusMessages, Publish
  <2>2. out' = out \/ out' = out \o <<p>>
    BY DEF ProcessBus, Send
  <2> HIDE DEF p
  <2>3. out \o <<p>> = Append(out, p)
    BY <2>1, Concatenated DEF TypeOK
  <2> QED BY <2>1, <2>2, <2>3, Added DEF TypeOK
<1>4. ConnectFirst'
  BY <1>1, <1>2, <1>3 DEF Conversation, ConnectFirst
<1>5. ListensFirst'
  BY <1>1, <1>2, <1>3 DEF Conversation, ListensFirst
<1>6. FarewellLast'
  BY <1>1, <1>2, <1>3 DEF Conversation, FarewellLast
<1>7. Accepted' /\ Heard'
  BY <1>1 DEF Conversation, Accepted, Heard
<1>8. Settled'
  BY <1>1, <1>2, <1>3 DEF Conversation, Settled
<1> QED BY <1>4, <1>5, <1>6, <1>7, <1>8 DEF Conversation

\* What the bridge reads, it has no more to read.
LEMMA HasRead ==
  ASSUME TypeOK, NEW packet, Read(packet), in' = Tail(in)
  PROVE  /\ Len(in) \in Nat /\ Len(in) >= 1 /\ in[1] = packet /\ in # <<>>
         /\ Len(in') = Len(in) - 1
         /\ \A k \in 1 .. Len(in') : in'[k] = in[k + 1]
BY Taken DEF Read, TypeOK

LEMMA ConversationRead ==
  ASSUME TypeOK, Conversation, NEW packet, Read(packet), in' = Tail(in), phase' # "down",
         UNCHANGED <<socket, linked, out, broker>>
  PROVE  Conversation'
<1>1. phase # "down"
  BY DEF Read
<1>2. Accepted'
  BY <1>1, HasRead DEF Conversation, Accepted, broker
<1>3. \A k \in 1 .. Len(out) : out[k].kind # "connect"
  BY HasRead DEF Conversation, ConnectFirst
<1>4. ConnectFirst' /\ ListensFirst' /\ FarewellLast' /\ Settled' /\ Heard'
  BY <1>1, <1>3 DEF Conversation, ConnectFirst, ListensFirst, FarewellLast, Settled, Heard,
                    broker
<1> QED BY <1>2, <1>4 DEF Conversation

LEMMA ConversationConnected ==
  ASSUME TypeOK, Conversation, ReadConnack
  PROVE  Conversation'
<1> DEFINE n == Len(out)
<1>1. /\ phase = "running" /\ phase' = phase /\ linked /\ socket' = "connected"
      /\ Read("connack") /\ in' = Tail(in) /\ Send(OnConnect)
      /\ UNCHANGED <<linked, session, subscribed, ghost, bridgeState>>
  BY DEF ReadConnack, Read, bus, broker
<1>2. n \in Nat
  BY Items DEF TypeOK
<1>3. session
  BY <1>1, HasRead DEF Conversation, Accepted
<1>4. /\ Len(out') = n + 2
      /\ \A k \in 1 .. n : out'[k] = out[k]
      /\ out'[n + 1].kind = "subscribe" /\ out'[n + 2].kind = "online"
  <2>1. Control("subscribe") \in Packets /\ Control("online") \in Packets
    BY Messages
  <2>2. Control("subscribe").kind = "subscribe" /\ Control("online").kind = "online"
    BY DEF Control
  <2>3. socket # "none"
    BY <1>1 DEF Conversation, Accepted
  <2>4. out' = out \o <<Control("subscribe"), Control("online")>>
    BY <1>1, <2>3, Zenon DEF Send, OnConnect
  <2> QED BY <2>1, <2>2, <2>4, TwoAdded DEF TypeOK
<1>5. \A k \in 1 .. n : out[k].kind \notin {"connect", "offline", "disconnect"}
  BY <1>1, HasRead DEF Conversation, ConnectFirst, FarewellLast
<1>6. ConnectFirst'
  BY <1>2, <1>4, <1>5 DEF ConnectFirst
<1>7. ListensFirst'
  BY <1>1, <1>2, <1>3, <1>4 DEF Conversation, ListensFirst
<1>8. FarewellLast'
  BY <1>2, <1>4, <1>5 DEF FarewellLast
<1>9. Accepted'
  BY <1>1, <1>3 DEF Conversation, Accepted
<1>10. Settled'
  BY <1>1, <1>2, <1>3, <1>4 DEF Settled
<1>11. Heard'
  BY <1>1 DEF Conversation, Heard
<1> QED BY <1>6, <1>7, <1>8, <1>9, <1>10, <1>11 DEF Conversation

\* What the broker takes, it takes from the front.
LEMMA HasTaken ==
  ASSUME TypeOK, NEW kind, Take(kind), out' = Tail(out)
  PROVE  /\ Len(out) \in Nat /\ Len(out) >= 1 /\ Head(out) = out[1] /\ out[1].kind = kind
         /\ Len(out') = Len(out) - 1
         /\ \A k \in 1 .. Len(out') : out'[k] = out[k + 1]
BY Taken DEF Take, TypeOK

LEMMA ConversationAccepted ==
  ASSUME TypeOK, Conversation, AcceptConnect
  PROVE  Conversation'
<1> DEFINE n == Len(out)
<1>1. /\ n \in Nat /\ n >= 1 /\ out[1].kind = "connect" /\ Len(out') = n - 1
      /\ \A k \in 1 .. (n - 1) : out'[k] = out[k + 1]
  BY HasTaken DEF AcceptConnect
<1>2. /\ session' = TRUE /\ ghost' = FALSE /\ in' = Append(in, "connack")
      /\ bridgeState' = IF ghost THEN "offline" ELSE bridgeState
      /\ UNCHANGED <<phase, socket, linked, subscribed>>
  BY DEF AcceptConnect
<1>3. ~session /\ in = <<>> /\ socket # "connected" /\ ~subscribed
  BY <1>1 DEF Conversation, ConnectFirst, Accepted
<1>4. \A k \in 2 .. n : out[k].kind \notin {"connect", "subscribe", "online"}
  BY <1>1, <1>3 DEF Conversation, ConnectFirst, ListensFirst
<1>5. n >= 2 => out[2].kind # "disconnect"
  BY <1>1 DEF Conversation, FarewellLast
<1>6. ConnectFirst' /\ ListensFirst'
  BY <1>1, <1>4 DEF ConnectFirst, ListensFirst
<1>7. FarewellLast'
  BY <1>1, <1>2, <1>5 DEF Conversation, FarewellLast
<1>8. Accepted' /\ Settled'
  BY <1>2, <1>3 DEF Conversation, Accepted, Settled
<1>9. Heard'
  BY <1>2, <1>3 DEF Conversation, Heard
<1> QED BY <1>6, <1>7, <1>8, <1>9 DEF Conversation

LEMMA ConversationRefused ==
  ASSUME TypeOK, Conversation, RefuseConnect
  PROVE  Conversation'
<1>1. /\ Len(out) >= 1 /\ Len(out) \in Nat /\ out[1].kind = "connect"
      /\ out' = <<>> /\ in' = Append(in, "refused")
      /\ UNCHANGED <<phase, socket, linked, broker>>
  BY Taken DEF RefuseConnect, Take, TypeOK
<1>2. in = <<>> /\ socket # "connected"
  BY <1>1 DEF Conversation, ConnectFirst
<1>3. Len(out') = 0 /\ Len(in') = 1 /\ in'[1] = "refused"
  BY <1>1, <1>2
<1>4. ConnectFirst' /\ ListensFirst' /\ FarewellLast' /\ Settled'
  BY <1>1, <1>2, <1>3 DEF ConnectFirst, ListensFirst, FarewellLast, Settled
<1>5. Accepted' /\ Heard'
  BY <1>1, <1>3 DEF Conversation, Accepted, Heard, broker
<1> QED BY <1>4, <1>5 DEF Conversation

LEMMA ConversationTaken ==
  ASSUME TypeOK, DownIsQuiet, Conversation, TakePacket
  PROVE  Conversation'
<1> DEFINE n == Len(out)
           head == out[1].kind
<1>1. /\ n \in Nat /\ n >= 1 /\ head \in {"subscribe", "online", "offline", "state"}
      /\ Head(out) = out[1] /\ Len(out') = n - 1
      /\ \A k \in 1 .. (n - 1) : out'[k] = out[k + 1]
  BY HasTaken DEF TakePacket
<1>2. /\ subscribed' <=> session /\ (subscribed \/ head = "subscribe")
      /\ bridgeState' = IF session /\ head \in {"online", "offline"} THEN head
                        ELSE bridgeState
      /\ UNCHANGED <<phase, socket, linked, in, session, ghost>>
  BY <1>1 DEF TakePacket
<1> HIDE DEF n, head
<1>3. subscribed => subscribed'
  BY <1>2 DEF Conversation, Accepted
<1>4. /\ head \in {"subscribe", "online"} => session
      /\ head = "online" => subscribed
      /\ head = "offline" => phase = "down"
  BY <1>1 DEF Conversation, ListensFirst, FarewellLast, n, head
<1>5. ConnectFirst'
  BY <1>1, <1>2 DEF Conversation, ConnectFirst, n, head
<1>6. ListensFirst'
  <2> SUFFICES ASSUME NEW k \in 1 .. (n - 1)
               PROVE  /\ out'[k].kind \in {"subscribe", "online"} => session
                      /\ out'[k].kind = "online" =>
                           \/ subscribed'
                           \/ \E j \in 1 .. (k - 1) : out'[j].kind = "subscribe"
    BY <1>1, <1>2 DEF ListensFirst
  <2>1. /\ k + 1 \in 1 .. n /\ out'[k] = out[k + 1]
        /\ \A j \in 2 .. k : j - 1 \in 1 .. (k - 1) /\ out'[j - 1] = out[j]
    BY <1>1
  <2>2. /\ out[k + 1].kind \in {"subscribe", "online"} => session
        /\ out[k + 1].kind = "online" =>
             subscribed \/ \E j \in 1 .. k : out[j].kind = "subscribe"
    BY <1>1, <2>1 DEF Conversation, ListensFirst, n
  <2>3. ASSUME NEW j \in 1 .. k, out[j].kind = "subscribe", session
        PROVE  subscribed' \/ \E i \in 1 .. (k - 1) : out'[i].kind = "subscribe"
    <3>1. CASE j = 1
      BY <1>2, <2>3, <3>1 DEF head
    <3>2. CASE j # 1
      BY <2>1, <2>3, <3>2
    <3> QED BY <3>1, <3>2
  <2> QED BY <1>3, <2>1, <2>2, <2>3
<1>7. FarewellLast'
  <2> SUFFICES ASSUME NEW k \in 1 .. (n - 1)
               PROVE  /\ out'[k].kind \in {"offline", "disconnect"} => phase = "down"
                      /\ out'[k].kind = "disconnect" =>
                           /\ k = n - 1
                           /\ IF k = 1 THEN session => bridgeState' = "offline"
                              ELSE out'[k - 1].kind = "offline"
    BY <1>1, <1>2 DEF FarewellLast
  <2>1. /\ k + 1 \in 1 .. n /\ k + 1 # 1 /\ (k + 1) - 1 = k /\ out'[k] = out[k + 1]
        /\ k # 1 => out'[k - 1] = out[k]
    BY <1>1
  <2>2. /\ out[k + 1].kind \in {"offline", "disconnect"} => phase = "down"
        /\ out[k + 1].kind = "disconnect" => k + 1 = n /\ out[k].kind = "offline"
    BY <1>1, <2>1 DEF Conversation, FarewellLast, n
  <2>3. out[1].kind = "offline" /\ session => bridgeState' = "offline"
    BY <1>2 DEF head
  <2> QED BY <1>1, <2>1, <2>2, <2>3
<1>8. Accepted'
  <2>1. (ghost' => ~session') /\ (subscribed' => session')
    BY <1>2 DEF Conversation, Accepted
  <2>2. /\ phase' # "down" => \A k \in 1 .. Len(in') : in'[k] = "connack" => session'
        /\ phase' # "down" /\ linked' => socket' # "none"
    BY <1>2 DEF Conversation, Accepted
  <2> QED BY <2>1, <2>2 DEF Accepted
<1>9. Settled'
  <2> SUFFICES ASSUME socket = "connected", linked
               PROVE  /\ session
                      /\ \/ bridgeState' = "online"
                         \/ \E k \in 1 .. (n - 1) : out'[k].kind = "online"
    BY <1>1, <1>2 DEF Settled
  <2>1. session /\ head # "offline"
    BY <1>4 DEF Conversation, Settled, DownIsQuiet
  <2>2. CASE head = "online"
    BY <1>2, <2>1, <2>2
  <2>3. CASE head # "online"
    <3>1. bridgeState' = bridgeState
      BY <1>2, <2>1, <2>3
    <3>2. ASSUME NEW k \in 1 .. n, out[k].kind = "online"
          PROVE  k - 1 \in 1 .. (n - 1) /\ out'[k - 1].kind = "online"
      <4>1. k # 1
        BY <2>3, <3>2 DEF head
      <4> QED BY <1>1, <3>2, <4>1
    <3>3. bridgeState = "online" \/ \E k \in 1 .. n : out[k].kind = "online"
      BY DEF Conversation, Settled, n
    <3> QED BY <2>1, <3>1, <3>2, <3>3
  <2> QED BY <2>2, <2>3
<1>10. Heard'
  BY <1>2, <1>3, <1>4 DEF Conversation, Heard
<1> QED BY <1>5, <1>6, <1>7, <1>8, <1>9, <1>10 DEF Conversation

LEMMA ConversationEnded ==
  ASSUME TypeOK, Conversation, DownIsQuiet, TakeDisconnect
  PROVE  Conversation'
<1>1. /\ Len(out) >= 1 /\ Len(out) \in Nat /\ out[1].kind = "disconnect"
      /\ out' = <<>> /\ linked' = FALSE /\ session' = FALSE /\ subscribed' = FALSE
      /\ UNCHANGED <<phase, socket, in, ghost, bridgeState>>
  BY Taken DEF TakeDisconnect, Take, TypeOK
<1>2. phase = "down" /\ (session => bridgeState = "offline")
  BY <1>1 DEF Conversation, FarewellLast
<1>3. Len(out') = 0
  BY <1>1
<1>4. ConnectFirst' /\ ListensFirst' /\ FarewellLast'
  BY <1>3 DEF ConnectFirst, ListensFirst, FarewellLast
<1>5. Accepted' /\ Settled'
  BY <1>1, <1>2 DEF Accepted, Settled
<1>6. Heard'
  BY <1>1, <1>2 DEF Conversation, Accepted, Heard
<1> QED BY <1>4, <1>5, <1>6 DEF Conversation

LEMMA ConversationCommanded ==
  ASSUME TypeOK, Conversation, NEW command \in Commands \cup {"malformed"},
         SendCommand(command)
  PROVE  Conversation'
<1>1. /\ session /\ in' = <<command>> /\ command # "connack"
      /\ UNCHANGED <<phase, socket, linked, out, broker>>
  BY DEF SendCommand, Commands
<1>2. \A k \in 1 .. Len(out) : out[k].kind # "connect"
  BY <1>1 DEF Conversation, ConnectFirst
<1>3. ConnectFirst' /\ ListensFirst' /\ FarewellLast' /\ Settled' /\ Heard'
  BY <1>1, <1>2 DEF Conversation, ConnectFirst, ListensFirst, FarewellLast, Settled,
                    Heard, broker
<1>4. Accepted'
  BY <1>1 DEF Conversation, Accepted, broker
<1> QED BY <1>3, <1>4 DEF Conversation

LEMMA ConversationNoticed ==
  ASSUME TypeOK, Conversation, NoticeGhost
  PROVE  Conversation'
<1>1. /\ ghost /\ ghost' = FALSE /\ bridgeState' = "offline"
      /\ UNCHANGED <<phase, socket, linked, in, out, session, subscribed>>
  BY DEF NoticeGhost, connection
<1>2. ~session
  BY <1>1 DEF Conversation, Accepted
<1>3. ConnectFirst' /\ ListensFirst' /\ FarewellLast'
  BY <1>1, <1>2 DEF Conversation, ConnectFirst, ListensFirst, FarewellLast
<1>4. Accepted' /\ Settled' /\ Heard'
  BY <1>1, <1>2 DEF Conversation, Accepted, Settled, Heard
<1> QED BY <1>3, <1>4 DEF Conversation

LEMMA ConversationInit ==
  ASSUME Init
  PROVE  Conversation /\ DownIsQuiet
BY DEF Init, Conversation, ConnectFirst, ListensFirst, FarewellLast, Accepted, Settled,
       Heard, DownIsQuiet

LEMMA ConversationStep ==
  ASSUME TypeOK, DownIsQuiet, Conversation, [Next]_vars
  PROVE  Conversation'
<1>1. ASSUME NEW topic \in Topics, Announce(topic) PROVE Conversation'
  BY <1>1, ConversationKept DEF Announce
<1>2. CASE ServeRequest
  BY <1>2, ConversationKept DEF ServeRequest
<1>3. CASE Start \/ Reconnect \/ ReadRefused
  BY <1>3, ConversationAttempted DEF Start, Reconnect, ReadRefused
<1>4. CASE ThrottleEnds
  BY <1>4 DEF ThrottleEnds, Conversation, ConnectFirst, ListensFirst, FarewellLast,
              Accepted, Settled, Heard, broker
<1>5. CASE Crash
  BY <1>5, ConversationSevered DEF Crash
<1>6. CASE LinkBreaks
  BY <1>6, ConversationSevered DEF LinkBreaks
<1>7. ASSUME NEW message \in BusMessages, ProcessBus(message) PROVE Conversation'
  BY <1>7, ConversationDispatched
<1>8. CASE DropCommand
  <2>1. phase' # "down"
    BY <1>8 DEF DropCommand, Read
  <2> QED BY <1>8, <2>1, ConversationRead DEF DropCommand
<1>9. ASSUME NEW command \in Commands, ForwardCommand(command) PROVE Conversation'
  BY <1>9, ConversationRead DEF ForwardCommand
<1>10. CASE EndCall
  <2>1. UNCHANGED <<connection, broker>> /\ phase # "down" /\ phase' # "down"
    BY <1>10 DEF EndCall, CallReads, CallFails
  <2> QED BY <2>1, ConversationKept
<1>11. CASE NetworkChanges
  BY <1>11, ConversationKept DEF NetworkChanges
<1>12. CASE UNCHANGED vars
  BY <1>12, ConversationKept DEF vars
<1> QED
  BY <1>1, <1>2, <1>3, <1>4, <1>5, <1>6, <1>7, <1>8, <1>9, <1>10, <1>11, <1>12,
     ConversationFreed, ConversationConnected, ConversationAccepted,
     ConversationRefused, ConversationTaken, ConversationEnded,
     ConversationCommanded, ConversationNoticed
  DEF Next, Bridge, Surroundings, Dispatch, ReadMqtt, Takes

LEMMA BridgeSteps ==
  Spec => [](TypeOK /\ DownIsQuiet /\ Conversation)
<1>1. Init => TypeOK /\ HasMore /\ DownIsQuiet /\ Conversation
  BY TypeInit, ConversationInit DEF Init, HasMore
<1> QED BY <1>1, TypeStep, MoreStep, QuietStep, ConversationStep, PTL DEF Spec

\* Whoever reads "online" at state/bridge has a bridge that listens or whose end
\* the broker has still to notice, whatever connections and processes ended at
\* whatever moment: main.c subscribes before it says so, and its last will and
\* its farewell take it back.
THEOREM BridgeSpeaksTrue == Spec => []BridgeStateTrue
<1>1. ASSUME TypeOK, Conversation PROVE BridgeStateTrue
  <2>1. bridgeState = "online" => subscribed \/ ghost
    BY <1>1 DEF Conversation, Heard
  <2>2. ~session /\ ~ghost => bridgeState = "offline"
    BY <1>1, <2>1 DEF Conversation, Accepted, TypeOK
  <2>3. socket = "connected" /\ linked /\ out = <<>> => bridgeState = "online"
    BY <1>1 DEF Conversation, Settled
  <2> QED BY <2>1, <2>2, <2>3 DEF BridgeStateTrue
<1> QED BY <1>1, BridgeSteps, PTL

-----------------------------------------------------------------------------
\* What is announced, and what the broker retains.

LEMMA SaysTwoAdded ==
  ASSUME NEW S, NEW s \in Seq(S), NEW m \in S, NEW n \in S, NEW kind, NEW topic, NEW value,
         m.kind # kind, n.kind # kind
  PROVE  /\ Silent(s \o <<m, n>>, kind, topic) <=> Silent(s, kind, topic)
         /\ Says(s \o <<m, n>>, kind, topic, value) <=> Says(s, kind, topic, value)
<1> DEFINE a == Append(s, m)
<1>1. ~Concerns(m, kind, topic) /\ ~Concerns(n, kind, topic)
  BY DEF Concerns
<1>2. s \o <<m, n>> = Append(a, n) /\ a \in Seq(S)
  BY Concatenated, Added
<1>3. /\ Silent(a, kind, topic) <=> Silent(s, kind, topic)
      /\ Says(a, kind, topic, value) <=> Says(s, kind, topic, value)
  BY <1>1, SaysAdded
<1> HIDE DEF a
<1>4. /\ Silent(Append(a, n), kind, topic) <=> Silent(a, kind, topic)
      /\ Says(Append(a, n), kind, topic, value) <=> Says(a, kind, topic, value)
  BY <1>1, <1>2, SaysAdded
<1> QED BY <1>2, <1>3, <1>4

LEMMA SaysRelabelled ==
  ASSUME wire \in Seq(BusMessages), NEW topic, NEW value
  PROVE  /\ Silent(Relabelled, "signal", topic) <=> Silent(wire, "signal", topic)
         /\ Says(Relabelled, "signal", topic, value) <=> Says(wire, "signal", topic, value)
<1>1. /\ Relabelled \in Seq(BusMessages) /\ Len(Relabelled) = Len(wire)
      /\ \A k \in 1 .. Len(wire) :
           Relabelled[k] = IF wire[k].kind = "reply" THEN Reply("late") ELSE wire[k]
  BY RelabelledItems
<1>2. \A k \in 1 .. Len(wire) :
        /\ Concerns(Relabelled[k], "signal", topic) <=> Concerns(wire[k], "signal", topic)
        /\ Concerns(wire[k], "signal", topic) => Relabelled[k] = wire[k]
  BY <1>1 DEF Concerns, Reply
<1>3. Silent(Relabelled, "signal", topic) <=> Silent(wire, "signal", topic)
  BY <1>1, <1>2, SilentDef
<1>4. Says(Relabelled, "signal", topic, value) <=>
        \E k \in 1 .. Len(wire) :
          /\ Concerns(Relabelled[k], "signal", topic) /\ Relabelled[k].value = value
          /\ \A j \in 1 .. Len(wire) : j > k => ~Concerns(Relabelled[j], "signal", topic)
  BY <1>1, SaysDef
<1>5. Says(wire, "signal", topic, value) <=>
        \E k \in 1 .. Len(wire) :
          /\ Concerns(wire[k], "signal", topic) /\ wire[k].value = value
          /\ \A j \in 1 .. Len(wire) : j > k => ~Concerns(wire[j], "signal", topic)
  BY SaysDef
<1>6. Says(Relabelled, "signal", topic, value) <=> Says(wire, "signal", topic, value)
  BY <1>2, <1>4, <1>5
<1> QED BY <1>3, <1>6

\* Of a topic, the bus has last what its service has announced last, ...
Right(t) ==
  /\ \/ Says(wire, "signal", t, truth[t])
     \/ /\ Silent(wire, "signal", t)
        /\ Silent(rqueue, "signal", t) \/ Says(rqueue, "signal", t, truth[t])
  \* ... and the broker gets it last, or else has it, unless it was lost.
  /\ t \notin missed => IsNewest(t, truth[t])

LEMMA RightAnnounce ==
  ASSUME TypeOK, DownIsQuiet, NEW topic \in Topics, Announce(topic), NEW t \in Topics,
         Right(t)
  PROVE  Right(t)'
<1>1. /\ truth'[t] = IF t = topic THEN ~truth[t] ELSE truth[t]
      /\ UNCHANGED <<rqueue, out, retained>>
  BY DEF Announce, connection, broker, TypeOK
<1>2. CASE phase = "down"
  <2>1. /\ wire = <<>> /\ wire' = <<>> /\ rqueue = <<>> /\ missed' = missed \cup {topic}
    BY <1>2 DEF DownIsQuiet, Announce
  <2> QED BY <1>1, <2>1, Nothing DEF Right, IsNewest
<1>3. CASE phase # "down"
  <2> DEFINE m == Signal(topic, ~truth[topic])
  <2>1. wire' = Append(wire, m) /\ missed' = missed
    BY <1>3 DEF Announce
  <2>2. /\ m \in BusMessages /\ m.value = ~truth[topic]
        /\ Concerns(m, "signal", t) <=> t = topic
    BY Messages DEF Signal, Concerns, TypeOK
  <2> HIDE DEF m
  <2>3. /\ Silent(wire', "signal", t)
             <=> ~Concerns(m, "signal", t) /\ Silent(wire, "signal", t)
        /\ Says(wire', "signal", t, truth'[t])
             <=> IF Concerns(m, "signal", t) THEN m.value = truth'[t]
                 ELSE Says(wire, "signal", t, truth'[t])
    BY <2>1, <2>2, SaysAdded DEF TypeOK
  <2> QED BY <1>1, <2>1, <2>2, <2>3 DEF Right, IsNewest
<1> QED BY <1>2, <1>3

LEMMA RightKept ==
  ASSUME NEW t \in Topics, Right(t), UNCHANGED <<wire, rqueue, truth, out, retained>>,
         missed \subseteq missed'
  PROVE  Right(t)'
BY DEF Right, IsNewest

\* What is lost with a connection is known to be missed.
LEMMA RightLost ==
  ASSUME TypeOK, NEW t \in Topics, Right(t), UNCHANGED <<wire, rqueue, truth, retained>>,
         missed' = missed \cup Unsent, Silent(out', "state", t)
  PROVE  Right(t)'
<1>1. t \notin missed' => t \notin missed /\ Silent(out, "state", t)
  BY DEF Unsent, Silent
<1>2. Silent(out, "state", t) => ~Says(out, "state", t, truth[t])
  BY SilentSays DEF TypeOK
<1> QED BY <1>1, <1>2 DEF Right, IsNewest

LEMMA RightAttempted ==
  ASSUME TypeOK, NEW t \in Topics, Right(t), NEW mayTry, TryConnect(mayTry),
         missed' = missed \cup Unsent, UNCHANGED <<wire, rqueue, truth>>
  PROVE  Right(t)'
<1>1. (out' = <<>> \/ out' = <<Control("connect")>>) /\ retained' = retained
  BY Attempted
<1>2. Silent(out', "state", t)
  <2>1. CASE out' = <<>>
    BY <2>1, Nothing
  <2>2. CASE out' = <<Control("connect")>>
    <3>1. out' \in Seq(Packets) /\ Len(out') = 1 /\ out'[1].kind = "connect"
      BY <2>2, Messages DEF Control
    <3> QED BY <3>1, SilentDef DEF Concerns
  <2> QED BY <1>1, <2>1, <2>2
<1> QED BY <1>1, <1>2, RightLost

LEMMA RightStart ==
  ASSUME TypeOK, DownIsQuiet, NEW t \in Topics, Right(t), Start
  PROVE  Right(t)'
<1>1. UNCHANGED <<wire, rqueue, truth>> /\ missed' = missed \cup Unsent
  BY DEF Start, DownIsQuiet
<1> QED BY <1>1, RightAttempted DEF Start

LEMMA RightServed ==
  ASSUME TypeOK, DownIsQuiet, NEW t \in Topics, Right(t), ServeRequest
  PROVE  Right(t)'
<1> DEFINE m == Signal(Active, truth'[Active])
<1>1. /\ UNCHANGED <<rqueue, out, retained>>
      /\ t # Active => truth'[t] = truth[t]
      /\ m \in BusMessages /\ m.value = truth'[Active]
      /\ Concerns(m, "signal", t) <=> t = Active
  <2>1. UNCHANGED <<rqueue, out, retained>>
    BY DEF ServeRequest, connection, broker
  <2>2. m \in BusMessages /\ m.value = truth'[Active]
    BY Served, Messages, MqttBridgeAssumption DEF Signal
  <2>3. Concerns(m, "signal", t) <=> t = Active
    BY DEF Concerns, Signal
  <2> QED BY <2>1, <2>2, <2>3, Served
<1>2. Announced = IF truth' = truth THEN <<>> ELSE <<m>>
  BY DEF Announced
<1> HIDE DEF m
<1>3. CASE phase = "down"
  <2>1. wire = <<>> /\ rqueue = <<>> /\ wire' = <<>>
        /\ missed' = missed \cup About(Announced, "signal")
    BY <1>3, Served DEF DownIsQuiet
  <2>2. t = Active /\ truth'[t] # truth[t] => t \in missed'
    <3>1. SUFFICES ASSUME t = Active, truth'[t] # truth[t]
                   PROVE  ~Silent(Announced, "signal", t)
      BY <2>1 DEF Silent
    <3>2. Announced = <<m>>
      BY <1>2, <3>1
    <3>3. Announced \in Seq(BusMessages) /\ Len(Announced) = 1 /\ Announced[1] = m
      BY <3>2, Served
    <3> QED BY <1>1, <3>1, <3>3, SilentDef
  <2> QED BY <1>1, <2>1, <2>2, Nothing DEF Right, IsNewest
<1>4. CASE phase # "down"
  <2> DEFINE w == wire \o Announced
  <2>1. wire' = w \o Answer /\ missed' = missed /\ w \in Seq(BusMessages)
    BY <1>4, Served
  <2>2. /\ t = Active /\ truth' # truth => Says(w, "signal", t, truth'[t])
        /\ t # Active \/ truth' = truth =>
             /\ Silent(w, "signal", t) <=> Silent(wire, "signal", t)
             /\ Says(w, "signal", t, truth[t]) <=> Says(wire, "signal", t, truth[t])
    <3>1. CASE truth' = truth
      BY <1>2, <3>1, Concatenated DEF TypeOK
    <3>2. CASE truth' # truth
      <4>1. w = Append(wire, m)
        BY <1>1, <1>2, <3>2, Concatenated DEF TypeOK
      <4> HIDE DEF w
      <4> QED BY <1>1, <3>2, <4>1, SaysAdded DEF TypeOK
    <3> QED BY <3>1, <3>2
  <2>3. /\ Silent(wire', "signal", t) <=> Silent(w, "signal", t)
        /\ Says(wire', "signal", t, truth'[t]) <=> Says(w, "signal", t, truth'[t])
    <3> DEFINE r == Reply(Head(requests).answer)
    <3>1. Answer = <<>> \/ Answer = <<r>>
      BY DEF Answer
    <3>2. ~Concerns(r, "signal", t)
      <4>1. r.kind \in {"reply", "late", "none"}
        BY Served DEF Reply, Requests
      <4> QED BY <4>1 DEF Concerns
    <3>3. Answer = <<r>> => r \in BusMessages
      BY Served, Items
    <3> HIDE DEF r, w
    <3>4. CASE Answer = <<>>
      BY <2>1, <3>4, Concatenated
    <3>5. CASE Answer = <<r>>
      <4>1. wire' = Append(w, r)
        BY <2>1, <3>3, <3>5, Concatenated
      <4>2. w \in Seq(BusMessages) /\ r \in BusMessages
        BY <2>1, <3>3, <3>5
      <4>3. \A v : /\ Silent(Append(w, r), "signal", t) <=> Silent(w, "signal", t)
                   /\ Says(Append(w, r), "signal", t, v) <=> Says(w, "signal", t, v)
        BY <3>2, <4>2, SaysAdded
      <4> QED BY <4>1, <4>3
    <3> QED BY <3>1, <3>4, <3>5
  <2> HIDE DEF w
  <2> QED BY <1>1, <2>1, <2>2, <2>3 DEF Right, IsNewest
<1> QED BY <1>3, <1>4

LEMMA RightCrash ==
  ASSUME TypeOK, NEW t \in Topics, Right(t), Crash
  PROVE  Right(t)'
<1>1. /\ wire' = <<>> /\ rqueue' = <<>> /\ out' = <<>>
      /\ missed' = missed \cup Undispatched \cup Unsent
      /\ UNCHANGED <<truth, retained>>
  BY DEF Crash, Sever
<1>2. t \notin missed' => /\ t \notin missed
                          /\ Silent(wire, "signal", t) /\ Silent(rqueue, "signal", t)
                          /\ Silent(out, "state", t)
  BY <1>1 DEF Undispatched, Unsent, Silent
<1>3. /\ Silent(wire, "signal", t) => ~Says(wire, "signal", t, truth[t])
      /\ Silent(rqueue, "signal", t) => ~Says(rqueue, "signal", t, truth[t])
      /\ Silent(out, "state", t) => ~Says(out, "state", t, truth[t])
  BY SilentSays DEF TypeOK
<1> QED BY <1>1, <1>2, <1>3, Nothing DEF Right, IsNewest

LEMMA RightFree ==
  ASSUME TypeOK, NEW t \in Topics, Right(t), Free
  PROVE  Right(t)'
<1>1. /\ wire' = <<>> /\ rqueue' = <<>>
      /\ missed' = missed \cup Undispatched
      /\ UNCHANGED <<truth, retained>>
  BY DEF Free, broker
<1>2. t \notin missed' => /\ t \notin missed
                          /\ Silent(wire, "signal", t) /\ Silent(rqueue, "signal", t)
  BY <1>1 DEF Undispatched, Silent
<1>3. /\ Silent(wire, "signal", t) => ~Says(wire, "signal", t, truth[t])
      /\ Silent(rqueue, "signal", t) => ~Says(rqueue, "signal", t, truth[t])
  BY SilentSays DEF TypeOK
<1>4. /\ Silent(out', "state", t) <=> Silent(out, "state", t)
      /\ Says(out', "state", t, truth[t]) <=> Says(out, "state", t, truth[t])
  <2>1. CASE linked
    <3>1. out' = out \o <<Control("offline"), Control("disconnect")>>
      BY <2>1 DEF Free
    <3>2. Control("offline").kind # "state" /\ Control("disconnect").kind # "state"
      BY DEF Control
    <3> QED BY <3>1, <3>2, Messages, SaysTwoAdded DEF TypeOK
  <2>2. CASE ~linked
    BY <2>2 DEF Free
  <2> QED BY <2>1, <2>2
<1> QED BY <1>1, <1>2, <1>3, <1>4, Nothing DEF Right, IsNewest

LEMMA RightConnected ==
  ASSUME TypeOK, NEW t \in Topics, Right(t), ReadConnack
  PROVE  Right(t)'
<1> DEFINE a == Control("subscribe")
           b == Control("online")
<1>1. UNCHANGED <<wire, rqueue, truth, retained, missed>>
  BY DEF ReadConnack, bus, broker
<1>2. out' = out \/ out' = out \o <<a, b>>
  BY DEF ReadConnack, Send, OnConnect
<1>3. a.kind # "state" /\ b.kind # "state" /\ a \in Packets /\ b \in Packets
  BY Messages DEF Control
<1>4. out \in Seq(Packets)
  BY DEF TypeOK
<1> HIDE DEF a, b
<1>5. /\ Silent(out \o <<a, b>>, "state", t) <=> Silent(out, "state", t)
      /\ Says(out \o <<a, b>>, "state", t, truth[t]) <=> Says(out, "state", t, truth[t])
  BY <1>3, <1>4, SaysTwoAdded
<1>6. /\ Silent(out', "state", t) <=> Silent(out, "state", t)
      /\ Says(out', "state", t, truth[t]) <=> Says(out, "state", t, truth[t])
  BY <1>2, <1>5
<1> QED BY <1>1, <1>6 DEF Right, IsNewest

\* The first message of what is not dispatched, and what is left.
LEMMA RightDispatched ==
  ASSUME TypeOK, HasMore, NEW t \in Topics, Right(t),
         NEW message \in BusMessages, ProcessBus(message)
  PROVE  Right(t)'
<1> DEFINE about == Concerns(message, "signal", t)
           v == truth[t]
           p == Publish(message.topic, message.value)
<1>1. UNCHANGED <<truth, retained>>
  BY DEF ProcessBus, broker
<1>2. IF rqueue # <<>>
      THEN message = Head(rqueue) /\ rqueue' = Tail(rqueue) /\ wire' = wire
      ELSE wire # <<>> /\ message = Head(wire) /\ wire' = Tail(wire) /\ rqueue' = rqueue
  BY DEF ProcessBus, NextMessage, HasMore
<1>3. wire \in Seq(BusMessages) /\ rqueue \in Seq(BusMessages) /\ out \in Seq(Packets)
  BY DEF TypeOK
<1>4. CASE ~about
  <2>1. /\ Silent(rqueue', "signal", t) <=> Silent(rqueue, "signal", t)
        /\ Says(rqueue', "signal", t, v) <=> Says(rqueue, "signal", t, v)
    <3>1. CASE rqueue # <<>>
      <4>1. /\ Silent(rqueue, "signal", t) <=> Silent(Tail(rqueue), "signal", t)
            /\ Says(rqueue, "signal", t, v) <=> Says(Tail(rqueue), "signal", t, v)
        BY <1>2, <1>3, <1>4, <3>1, SaysTaken
      <4> QED BY <1>2, <3>1, <4>1
    <3>2. CASE rqueue = <<>>
      BY <1>2, <3>2
    <3> QED BY <3>1, <3>2
  <2>2. /\ Silent(wire', "signal", t) <=> Silent(wire, "signal", t)
        /\ Says(wire', "signal", t, v) <=> Says(wire, "signal", t, v)
    <3>1. CASE rqueue = <<>>
      <4>1. /\ Silent(wire, "signal", t) <=> Silent(Tail(wire), "signal", t)
            /\ Says(wire, "signal", t, v) <=> Says(Tail(wire), "signal", t, v)
        BY <1>2, <1>3, <1>4, <3>1, SaysTaken
      <4> QED BY <1>2, <3>1, <4>1
    <3>2. CASE rqueue # <<>>
      BY <1>2, <3>2
    <3> QED BY <3>1, <3>2
  <2>3. /\ Silent(out', "state", t) <=> Silent(out, "state", t)
        /\ Says(out', "state", t, v) <=> Says(out, "state", t, v)
        /\ t \notin missed' => t \notin missed
    <3>1. CASE message.kind # "signal"
      BY <3>1 DEF ProcessBus
    <3>2. CASE message.kind = "signal"
      <4>1. message.topic # t
        BY <1>4, <3>2 DEF Concerns
      <4>2. p \in Packets /\ ~Concerns(p, "state", t)
        BY <4>1, Messages DEF BusMessages, Publish, Concerns
      <4>3. /\ out' = out \/ out' = out \o <<p>>
            /\ t \notin missed' => t \notin missed
        BY <3>2, <4>1 DEF ProcessBus, Send
      <4> HIDE DEF p
      <4>4. out \o <<p>> = Append(out, p)
        BY <1>3, <4>2, Concatenated
      <4>5. /\ Silent(Append(out, p), "state", t) <=> Silent(out, "state", t)
            /\ Says(Append(out, p), "state", t, v) <=> Says(out, "state", t, v)
        BY <1>3, <4>2, SaysAdded
      <4> QED BY <4>3, <4>4, <4>5
    <3> QED BY <3>1, <3>2
  <2> QED BY <1>1, <2>1, <2>2, <2>3 DEF Right, IsNewest
<1>5. CASE about
  <2>1. message.kind = "signal" /\ message.topic = t
    BY <1>5 DEF Concerns
  <2>2. t \notin missed' => /\ ~Silent(out', "state", t)
                            /\ message.value = v => Says(out', "state", t, v)
    <3>1. SUFFICES ASSUME socket # "none" /\ linked
                   PROVE  /\ ~Silent(out', "state", t)
                          /\ message.value = v => Says(out', "state", t, v)
      BY <2>1 DEF ProcessBus
    <3>2. out' = out \o <<p>>
      BY <2>1, <3>1 DEF ProcessBus, Send
    <3>3. p \in Packets /\ Concerns(p, "state", t) /\ p.value = message.value
      BY <2>1, Messages DEF BusMessages, Publish, Concerns
    <3> HIDE DEF p
    <3>4. out' = Append(out, p)
      BY <1>3, <3>2, <3>3, Concatenated
    <3>5. /\ ~Silent(Append(out, p), "state", t)
          /\ p.value = v => Says(Append(out, p), "state", t, v)
      BY <1>3, <3>3, SaysAdded
    <3> QED BY <3>3, <3>4, <3>5
  <2>3. CASE rqueue # <<>>
    <3>1. /\ ~Silent(rqueue, "signal", t)
          /\ Says(rqueue, "signal", t, v)
               <=> \/ Says(Tail(rqueue), "signal", t, v)
                   \/ Silent(Tail(rqueue), "signal", t) /\ message.value = v
      BY <1>2, <1>3, <1>5, <2>3, SaysTaken
    <3>2. rqueue' = Tail(rqueue) /\ wire' = wire
      BY <1>2, <2>3
    <3> QED BY <1>1, <2>2, <3>1, <3>2 DEF Right, IsNewest
  <2>4. CASE rqueue = <<>>
    <3>1. /\ ~Silent(wire, "signal", t)
          /\ Says(wire, "signal", t, v)
               <=> \/ Says(Tail(wire), "signal", t, v)
                   \/ Silent(Tail(wire), "signal", t) /\ message.value = v
      BY <1>2, <1>3, <1>5, <2>4, SaysTaken
    <3>2. wire' = Tail(wire) /\ rqueue' = <<>>
      BY <1>2, <2>4
    <3> QED BY <1>1, <2>2, <3>1, <3>2, Nothing DEF Right, IsNewest
  <2> QED BY <2>3, <2>4
<1> QED BY <1>4, <1>5

LEMMA RightCallReads ==
  ASSUME TypeOK, NEW t \in Topics, Right(t), CallReads
  PROVE  Right(t)'
<1> DEFINE m == Head(wire)
           v == truth[t]
<1>1. /\ wire' = Tail(wire)
      /\ rqueue' = IF m.kind = "reply" THEN rqueue ELSE Append(rqueue, m)
      /\ UNCHANGED <<truth, out, retained, missed>>
  BY DEF CallReads, connection, broker
<1>2. wire \in Seq(BusMessages) /\ rqueue \in Seq(BusMessages) /\ wire # <<>>
  BY DEF TypeOK, CallReads
<1>3. m \in BusMessages /\ (Concerns(m, "signal", t) => m.kind # "reply")
  BY <1>2, Taken DEF Concerns
<1>4. /\ Silent(wire, "signal", t)
           <=> ~Concerns(m, "signal", t) /\ Silent(Tail(wire), "signal", t)
      /\ Says(wire, "signal", t, v)
           <=> \/ Says(Tail(wire), "signal", t, v)
               \/ /\ Silent(Tail(wire), "signal", t)
                  /\ Concerns(m, "signal", t) /\ m.value = v
  BY <1>2, SaysTaken
<1> HIDE DEF m
<1>5. /\ Silent(Append(rqueue, m), "signal", t)
           <=> ~Concerns(m, "signal", t) /\ Silent(rqueue, "signal", t)
      /\ Says(Append(rqueue, m), "signal", t, v)
           <=> IF Concerns(m, "signal", t) THEN m.value = v
               ELSE Says(rqueue, "signal", t, v)
  BY <1>2, <1>3, SaysAdded
<1>6. CASE Concerns(m, "signal", t)
  <2>1. rqueue' = Append(rqueue, m)
    BY <1>1, <1>3, <1>6
  <2> QED BY <1>1, <1>4, <1>5, <1>6, <2>1 DEF Right, IsNewest
<1>7. CASE ~Concerns(m, "signal", t)
  <2>1. /\ Silent(rqueue', "signal", t) <=> Silent(rqueue, "signal", t)
        /\ Says(rqueue', "signal", t, v) <=> Says(rqueue, "signal", t, v)
    BY <1>1, <1>5, <1>7
  <2> QED BY <1>1, <1>4, <1>7, <2>1 DEF Right, IsNewest
<1> QED BY <1>6, <1>7

LEMMA RightCallFails ==
  ASSUME TypeOK, NEW t \in Topics, Right(t), NEW delivered \in BOOLEAN,
         CallFails(delivered)
  PROVE  Right(t)'
<1>1. wire' = Relabelled /\ UNCHANGED <<rqueue, truth, out, retained, missed>>
  BY DEF CallFails, Relabelled, connection, broker
<1>2. /\ Silent(Relabelled, "signal", t) <=> Silent(wire, "signal", t)
      /\ Says(Relabelled, "signal", t, truth[t]) <=> Says(wire, "signal", t, truth[t])
  BY SaysRelabelled DEF TypeOK
<1>3. /\ Silent(wire', "signal", t) <=> Silent(wire, "signal", t)
      /\ Says(wire', "signal", t, truth[t]) <=> Says(wire, "signal", t, truth[t])
  BY <1>1, <1>2
<1> QED BY <1>1, <1>3 DEF Right, IsNewest

\* What the broker takes, a message or not.
LEMMA RightTaken ==
  ASSUME TypeOK, FarewellLast, NEW t \in Topics, Right(t), Takes
  PROVE  Right(t)'
<1> DEFINE p == Head(out)
           v == truth[t]
<1>1. UNCHANGED <<wire, rqueue, truth>> /\ out # <<>> /\ out \in Seq(Packets)
  BY DEF Takes, AcceptConnect, RefuseConnect, TakePacket, TakeDisconnect, Take, bus, TypeOK
<1>2. /\ Silent(out, "state", t)
           <=> ~Concerns(p, "state", t) /\ Silent(Tail(out), "state", t)
      /\ Says(out, "state", t, v)
           <=> \/ Says(Tail(out), "state", t, v)
               \/ /\ Silent(Tail(out), "state", t)
                  /\ Concerns(p, "state", t) /\ p.value = v
  BY <1>1, SaysTaken
<1>3. CASE RefuseConnect
  BY <1>3, Nothing, RightLost DEF RefuseConnect, bus, broker
<1>4. CASE AcceptConnect
  <2>1. out' = Tail(out) /\ p.kind = "connect" /\ UNCHANGED <<retained, missed>>
    BY <1>4 DEF AcceptConnect, Take
  <2>2. ~Concerns(p, "state", t)
    BY <2>1 DEF Concerns
  <2> QED BY <1>1, <1>2, <2>1, <2>2 DEF Right, IsNewest
<1>5. CASE TakePacket
  <2>1. /\ out' = Tail(out) /\ p \in Packets
        /\ retained' = IF session /\ p.kind = "state"
                       THEN [retained EXCEPT ![p.topic] = p.value] ELSE retained
        /\ missed' = IF ~session /\ p.kind = "state" THEN missed \cup {p.topic}
                     ELSE missed
    BY <1>1, <1>5, Taken DEF TakePacket
  <2>2. CASE Concerns(p, "state", t)
    <3>1. p.kind = "state" /\ p.topic = t
      BY <2>2 DEF Concerns
    <3>2. CASE session
      <4>1. retained'[t] = p.value /\ missed' = missed
        BY <2>1, <3>1, <3>2 DEF TypeOK
      <4> QED BY <1>1, <1>2, <2>1, <2>2, <4>1 DEF Right, IsNewest
    <3>3. CASE ~session
      <4>1. t \in missed'
        BY <2>1, <3>1, <3>3
      <4> QED BY <1>1, <4>1 DEF Right
    <3> QED BY <3>2, <3>3
  <2>3. CASE ~Concerns(p, "state", t)
    <3>1. retained'[t] = retained[t] /\ missed \subseteq missed'
      BY <2>1, <2>3 DEF Concerns, TypeOK
    <3> QED BY <1>1, <1>2, <2>1, <2>3, <3>1 DEF Right, IsNewest
  <2> QED BY <2>2, <2>3
<1>6. CASE TakeDisconnect
  <2>1. /\ out[1].kind = "disconnect" /\ out' = <<>> /\ UNCHANGED <<retained, missed>>
        /\ Len(out) \in Nat /\ Len(out) >= 1
    BY <1>1, <1>6, Taken DEF TakeDisconnect, Take
  <2>2. Len(out) = 1
    <3>1. 1 \in 1 .. Len(out)
      BY <2>1
    <3> QED BY <2>1, <3>1 DEF FarewellLast
  <2>3. Silent(out, "state", t)
    BY <1>1, <2>1, <2>2, SilentDef DEF Concerns
  <2>4. ~Says(out, "state", t, v)
    BY <1>1, <2>3, SilentSays
  <2> QED BY <1>1, <2>1, <2>3, <2>4, Nothing DEF Right, IsNewest
<1> QED BY <1>3, <1>4, <1>5, <1>6 DEF Takes

LEMMA RightInit ==
  ASSUME Init, NEW t \in Topics
  PROVE  Right(t)
<1>1. wire = <<>> /\ rqueue = <<>> /\ out = <<>> /\ (t \notin missed => retained[t] = truth[t])
  BY DEF Init
<1> QED BY <1>1, Nothing DEF Right, IsNewest

LEMMA RightStep ==
  ASSUME TypeOK, HasMore, DownIsQuiet, Conversation, [Next]_vars,
         NEW t \in Topics, Right(t)
  PROVE  Right(t)'
<1>1. CASE ReadMqtt
  <2>1. CASE ReadRefused
    BY <2>1, RightAttempted DEF ReadRefused, bus
  <2>2. CASE DropCommand
    BY <2>2, RightKept DEF DropCommand, bus, broker
  <2>3. ASSUME NEW command \in Commands, ForwardCommand(command) PROVE Right(t)'
    BY <2>3, RightKept DEF ForwardCommand, broker
  <2> QED BY <1>1, <2>1, <2>2, <2>3, RightConnected DEF ReadMqtt
<1>2. CASE Reconnect
  BY <1>2, RightAttempted DEF Reconnect, bus
<1>3. CASE LinkBreaks
  BY <1>3, Nothing, RightLost DEF LinkBreaks, Sever, bus
<1>4. CASE ThrottleEnds \/ NoticeGhost \/ NetworkChanges
  BY <1>4, RightKept DEF ThrottleEnds, NoticeGhost, NetworkChanges, bus, broker,
                         connection
<1>5. ASSUME NEW command, SendCommand(command) PROVE Right(t)'
  BY <1>5, RightKept DEF SendCommand, bus, broker
<1>6. CASE EndCall
  BY <1>6, RightCallReads, RightCallFails DEF EndCall
<1>7. CASE UNCHANGED vars
  BY <1>7, RightKept DEF vars, bus, broker, connection
<1>8. ASSUME NEW topic \in Topics, Announce(topic) PROVE Right(t)'
  BY <1>8, RightAnnounce
<1>9. CASE Dispatch
  BY <1>9, RightDispatched DEF Dispatch
<1>10. CASE Start \/ Free \/ Crash
  BY <1>10, RightStart, RightFree, RightCrash
<1>11. CASE ServeRequest \/ Takes
  BY <1>11, RightServed, RightTaken DEF Conversation
<1> QED
  BY <1>1, <1>2, <1>3, <1>4, <1>5, <1>6, <1>7, <1>8, <1>9, <1>10, <1>11
  DEF Next, Bridge, Surroundings

\* The retained state of a topic is its service's, once all that is under way has
\* arrived, unless its last announcement was lost with a connection or a process:
\* no signal overtakes another of its topic, on the bus, while a call reads ahead
\* of the dispatching, or on the way to the broker.
THEOREM RetainedStateIsNewest == Spec => []RetainedIsNewest
<1> DEFINE AllRight == \A t \in Topics : Right(t)
<1>1. Init => TypeOK /\ HasMore /\ DownIsQuiet /\ Conversation /\ AllRight
  BY TypeInit, ConversationInit, RightInit DEF Init, HasMore
<1>2. TypeOK /\ HasMore /\ DownIsQuiet /\ Conversation /\ AllRight /\ [Next]_vars
        => AllRight'
  BY RightStep
<1>3. AllRight => RetainedIsNewest
  BY DEF Right, RetainedIsNewest
<1> HIDE DEF AllRight
<1> QED
  BY <1>1, <1>2, <1>3, TypeStep, MoreStep, QuietStep, ConversationStep, PTL DEF Spec
=============================================================================
