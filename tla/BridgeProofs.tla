---------------------------- MODULE BridgeProofs ----------------------------
(***************************************************************************)
(* Proof that the bridge loses a packet it is owed only by a failed send   *)
(* or a death, and that the others get to Kafka in their order, for any    *)
(* packets, any number of them and of faults, with keyapi's consumer and   *)
(* views at work behind it; and of what these make of the device's row.    *)
(***************************************************************************)
EXTENDS DeviceSightings, SequenceTheorems, TLAPS

USE BridgeBounds

\* The packets that are beyond the broker's session, or of which a copy is gone.
Forwarded == lost \cup Range(inbox) \cup Range(unsent) \cup Range(raw)

\* An acknowledgement may be under way for every packet in flight: the client has
\* queued it.
QueuedFirst == \A j \in 1 .. inFlight : held[j] \in Forwarded

IInv == BridgeTypeOK /\ NothingLost /\ QueuedFirst

-----------------------------------------------------------------------------
\* The elements of a sequence that grows, shrinks at its head, or swaps its first two.
LEMMA RangeAppend ==
    ASSUME NEW S, NEW s \in Seq(S), NEW e \in S
    PROVE  Append(s, e) \in Seq(S) /\ Range(Append(s, e)) = Range(s) \cup {e}
<1>1. \A i \in 1 .. Len(s) : Append(s, e)[i] = s[i]
  OBVIOUS
<1>2. Append(s, e)[Len(s) + 1] = e /\ DOMAIN Append(s, e) = 1 .. Len(s) + 1
  OBVIOUS
<1>3. DOMAIN s = 1 .. Len(s) /\ Len(s) \in Nat
  OBVIOUS
<1>4. Range(s) \cup {e} \subseteq Range(Append(s, e))
  BY <1>1, <1>2, <1>3 DEF Range
<1>5. ASSUME NEW i \in 1 .. Len(s) + 1 PROVE Append(s, e)[i] \in Range(s) \cup {e}
  <2>1. i \in 1 .. Len(s) \/ i = Len(s) + 1
    BY <1>3
  <2> QED BY <2>1, <1>1, <1>2, <1>3 DEF Range
<1>6. Range(Append(s, e)) \subseteq Range(s) \cup {e}
  BY <1>2, <1>5 DEF Range
<1> QED BY <1>4, <1>6

\* What a sequence holds is its head and what its tail holds.
LEMMA RangeTail ==
    ASSUME NEW S, NEW s \in Seq(S), s # <<>>
    PROVE  /\ Head(s) \in S /\ Tail(s) \in Seq(S) /\ Len(Tail(s)) = Len(s) - 1
           /\ \A i \in 1 .. Len(s) - 1 : Tail(s)[i] = s[i + 1]
           /\ Range(s) = {Head(s)} \cup Range(Tail(s))
<1>1. /\ Head(s) \in S /\ Tail(s) \in Seq(S) /\ Len(Tail(s)) = Len(s) - 1 /\ Head(s) = s[1]
      /\ \A i \in 1 .. Len(s) - 1 : Tail(s)[i] = s[i + 1]
  OBVIOUS
<1>2. /\ DOMAIN s = 1 .. Len(s) /\ Len(s) \in Nat \ {0}
      /\ DOMAIN Tail(s) = 1 .. Len(s) - 1
  BY <1>1
<1>3. {Head(s)} \cup Range(Tail(s)) \subseteq Range(s)
  BY <1>1, <1>2 DEF Range
<1>4. ASSUME NEW i \in 1 .. Len(s) PROVE s[i] \in {Head(s)} \cup Range(Tail(s))
  <2>1. CASE i = 1
    BY <2>1, <1>1
  <2>2. CASE i # 1
    <3>1. i - 1 \in 1 .. Len(s) - 1 /\ Tail(s)[i - 1] = s[i]
      BY <2>2, <1>1, <1>2
    <3> QED BY <3>1, <1>2 DEF Range
  <2> QED BY <2>1, <2>2
<1>5. Range(s) \subseteq {Head(s)} \cup Range(Tail(s))
  BY <1>2, <1>4 DEF Range
<1> QED BY <1>1, <1>3, <1>5

\* The elements behind the first two, which Repeat leaves in their places.
LEMMA BehindFirstTwo ==
    ASSUME NEW S, NEW s \in Seq(S), NEW n \in Nat, n = Len(s), n > 1
    PROVE  /\ SubSeq(s, 3, n) \in Seq(S) /\ Len(SubSeq(s, 3, n)) = n - 2
           /\ \A i \in 1 .. n - 2 : SubSeq(s, 3, n)[i] = s[i + 2]
<1>1. \A i \in 3 .. n : s[i] \in S
  OBVIOUS
<1>2. /\ SubSeq(s, 3, n) \in Seq(S)
      /\ Len(SubSeq(s, 3, n)) = IF 3 <= n THEN n - 3 + 1 ELSE 0
      /\ \A i \in 1 .. n - 3 + 1 : SubSeq(s, 3, n)[i] = s[3 + i - 1]
  BY <1>1, SubSeqProperties
<1>3. n - 3 + 1 = n - 2 /\ (3 <= n \/ n - 2 = 0)
  OBVIOUS
<1>4. \A i \in 1 .. n - 2 : 3 + i - 1 = i + 2
  OBVIOUS
<1> QED BY <1>2, <1>3, <1>4

\* A sequence whose first two elements change places holds the same.
LEMMA RangeSwap ==
    ASSUME NEW S, NEW s \in Seq(S), Len(s) > 1
    PROVE  LET t == <<s[2], s[1]>> \o SubSeq(s, 3, Len(s))
           IN  t \in Seq(S) /\ Range(s) \subseteq Range(t)
<1> DEFINE t == <<s[2], s[1]>> \o SubSeq(s, 3, Len(s))
<1>1. s[1] \in S /\ s[2] \in S /\ Len(s) \in Nat
  OBVIOUS
<1>2. /\ SubSeq(s, 3, Len(s)) \in Seq(S) /\ Len(SubSeq(s, 3, Len(s))) = Len(s) - 2
      /\ \A i \in 1 .. Len(s) - 2 : SubSeq(s, 3, Len(s))[i] = s[i + 2]
  BY <1>1, BehindFirstTwo
<1>3. <<s[2], s[1]>> \in Seq(S) /\ Len(<<s[2], s[1]>>) = 2
  BY <1>1
<1>4. t \in Seq(S) /\ Len(t) = Len(s)
  BY <1>1, <1>2, <1>3
<1>5. t[1] = s[2] /\ t[2] = s[1]
  BY <1>1, <1>2, <1>3
<1>6. \A i \in 3 .. Len(s) : t[i] = s[i]
  BY <1>1, <1>2, <1>3
<1>7. DOMAIN s = 1 .. Len(s) /\ DOMAIN t = 1 .. Len(s)
  BY <1>4
<1> HIDE DEF t
<1>8. ASSUME NEW i \in 1 .. Len(s) PROVE s[i] \in Range(t)
  <2>1. i = 1 \/ i = 2 \/ i \in 3 .. Len(s)
    BY <1>1
  <2> QED BY <2>1, <1>1, <1>5, <1>6, <1>7 DEF Range
<1>9. Range(s) \subseteq Range(t)
  BY <1>7, <1>8 DEF Range
<1> QED BY <1>4, <1>9 DEF t

\* A sequence of numbers is one of more numbers.
LEMMA SeqGrows ==
    ASSUME NEW m \in Nat, NEW n \in Nat, m <= n, NEW s \in Seq(1 .. m)
    PROVE  s \in Seq(1 .. n)
<1>1. \A i \in 1 .. Len(s) : s[i] \in 1 .. n
  OBVIOUS
<1> QED BY <1>1

\* What the types say of the elements of the queues.
LEMMA TypeFacts ==
    ASSUME BridgeTypeOK
    PROVE  /\ Len(published) \in Nat /\ Len(held) \in Nat /\ inFlight \in Nat
           /\ inFlight <= Len(held) /\ 0 \in 0 .. Len(held)
           /\ \A j \in 1 .. Len(held) : held[j] \in Number /\ held[j] \in Range(held)
           /\ \A i \in Range(held) : \E j \in 1 .. Len(held) : i = held[j]
           /\ Range(inbox) \subseteq Number /\ Range(unsent) \subseteq Number
           /\ Range(held) \subseteq Number
  BY DEF BridgeTypeOK, Range

-----------------------------------------------------------------------------
\* Steps after which the queues hold no less: what they moved is in one of them.
LEMMA StepsForward ==
    ASSUME IInv, BridgeTypeOK',
           UNCHANGED <<published, held, inFlight>>,
           Forwarded \subseteq Forwarded'
    PROVE  IInv'
<1>1. Number' = Number
  BY DEF Number
<1>2. NothingLost'
  BY <1>1 DEF IInv, NothingLost, Forwarded
<1>3. QueuedFirst'
  BY DEF IInv, QueuedFirst
<1> QED BY <1>2, <1>3 DEF IInv

\* The broker and the network.
LEMMA BrokerSteps ==
    ASSUME IInv, Publish \/ Receive \/ Acknowledge \/ LoseLink
    PROVE  IInv'
<1> USE DEF IInv, process, broker
<1>1. CASE Publish
  <2> DEFINE i == Len(published) + 1
  <2>1. PICK p \in Packet : published' = Append(published, p)
    BY <1>1 DEF Publish
  <2>2. /\ published' \in Seq(Packet) /\ Len(published') = i /\ i \in Nat
        /\ i <= MaxPublished
    BY <1>1, <2>1 DEF Publish, BridgeTypeOK
  <2>3. Number' = Number \cup {i} /\ i \in Number'
    BY <2>2, TypeFacts DEF Number
  <2>4. \A s \in Seq(Number) : s \in Seq(Number')
    <3> TAKE s \in Seq(Number)
    <3> QED BY <2>2, TypeFacts, SeqGrows DEF Number
  <2>5. UNCHANGED <<session, inFlight, link, pc, inbox, unsent, raw, overtaken, faults>>
    BY <1>1 DEF Publish
  <2>6. CASE session
    <3>1. held' = Append(held, i) /\ lost' = lost
      BY <1>1, <2>6 DEF Publish
    <3>2. held \in Seq(Number')
      BY <2>4 DEF BridgeTypeOK
    <3>3. held' \in Seq(Number') /\ Range(held') = Range(held) \cup {i}
      BY <2>3, <3>1, <3>2, RangeAppend
    <3>4. Len(held') = Len(held) + 1 /\ \A j \in 1 .. Len(held) : held'[j] = held[j]
      BY <3>1, <3>2
    <3>5. BridgeTypeOK'
      BY <2>2, <2>3, <2>4, <2>5, <2>6, <3>1, <3>3, <3>4, TypeFacts DEF BridgeTypeOK
    <3>6. NothingLost'
      BY <2>3, <2>5, <3>1, <3>3 DEF NothingLost
    <3>7. QueuedFirst'
      BY <2>5, <3>1, <3>4, TypeFacts DEF QueuedFirst, Forwarded
    <3> QED BY <3>5, <3>6, <3>7
  <2>7. CASE ~session
    <3>1. held' = held /\ lost' = lost \cup {i}
      BY <1>1, <2>7 DEF Publish
    <3>2. BridgeTypeOK'
      BY <2>2, <2>3, <2>4, <2>5, <2>7, <3>1 DEF BridgeTypeOK
    <3>3. NothingLost'
      BY <2>3, <2>5, <3>1 DEF NothingLost
    <3>4. QueuedFirst'
      BY <2>5, <3>1 DEF QueuedFirst, Forwarded
    <3> QED BY <3>2, <3>3, <3>4
  <2> QED BY <2>6, <2>7
<1>2. CASE Receive
  <2>1. /\ UNCHANGED <<published, session, held, link, pc, unsent, raw, lost, overtaken, faults>>
        /\ inbox' = Append(inbox, held[inFlight + 1]) /\ inFlight' = inFlight + 1
        /\ inFlight < Len(held)
    BY <1>2 DEF Receive
  <2>2. Number' = Number
    BY <2>1 DEF Number
  <2>3. inFlight + 1 \in 1 .. Len(held) /\ held[inFlight + 1] \in Number
    BY <2>1, TypeFacts
  <2>4. inbox' \in Seq(Number) /\ Range(inbox') = Range(inbox) \cup {held[inFlight + 1]}
    BY <2>1, <2>3, RangeAppend DEF BridgeTypeOK
  <2>5. BridgeTypeOK'
    BY <2>1, <2>2, <2>3, <2>4 DEF BridgeTypeOK
  <2>6. NothingLost'
    BY <2>1, <2>2, <2>4 DEF NothingLost
  <2>7. QueuedFirst'
    <3>1. \A j \in 1 .. inFlight + 1 : j \in 1 .. inFlight \/ j = inFlight + 1
      BY TypeFacts
    <3> QED BY <2>1, <2>4, <3>1 DEF QueuedFirst, Forwarded
  <2> QED BY <2>5, <2>6, <2>7
<1>3. CASE Acknowledge
  <2>1. /\ UNCHANGED <<published, session, link, pc, inbox, unsent, raw, lost, overtaken, faults>>
        /\ held' = Tail(held) /\ inFlight' = inFlight - 1 /\ inFlight > 0
    BY <1>3 DEF Acknowledge
  <2>2. Number' = Number
    BY <2>1 DEF Number
  <2>3. held \in Seq(Number) /\ held # <<>>
    BY <2>1, TypeFacts DEF BridgeTypeOK
  <2>4. /\ Tail(held) \in Seq(Number) /\ Len(Tail(held)) = Len(held) - 1
        /\ \A i \in 1 .. Len(held) - 1 : Tail(held)[i] = held[i + 1]
        /\ Range(held) = {Head(held)} \cup Range(Tail(held)) /\ Head(held) = held[1]
    BY <2>3, RangeTail
  <2>5. BridgeTypeOK'
    <3>1. inFlight' \in 0 .. Len(held')
      BY <2>1, <2>4, TypeFacts
    <3>2. session \/ pc # "iterate"
      BY DEF BridgeTypeOK
    <3>3. ~session => Tail(held) = <<>>
      BY <2>3 DEF BridgeTypeOK
    <3> QED BY <2>1, <2>2, <2>4, <3>1, <3>2, <3>3 DEF BridgeTypeOK
  <2>6. held[1] \in Forwarded
    BY <2>1, TypeFacts DEF QueuedFirst
  <2>7. NothingLost'
    BY <2>1, <2>2, <2>4, <2>6 DEF NothingLost, Forwarded
  <2>8. QueuedFirst'
    <3>1. \A j \in 1 .. inFlight - 1 : j + 1 \in 1 .. inFlight /\ Tail(held)[j] = held[j + 1]
      BY <2>4, TypeFacts
    <3> QED BY <2>1, <3>1 DEF QueuedFirst, Forwarded
  <2> QED BY <2>5, <2>7, <2>8
<1>4. CASE LoseLink
  <2>1. /\ UNCHANGED <<published, session, held, pc, inbox, unsent, raw, lost, overtaken>>
        /\ link' = FALSE /\ inFlight' = 0 /\ faults' \in 0 .. MaxFaults
    BY <1>4 DEF LoseLink, Fault, BridgeTypeOK
  <2>2. BridgeTypeOK'
    <3>1. 0 \in 0 .. Len(held)
      BY TypeFacts
    <3> QED BY <2>1, <3>1 DEF BridgeTypeOK, Number
  <2>3. NothingLost'
    BY <2>1 DEF NothingLost, Number
  <2>4. QueuedFirst'
    BY <2>1 DEF QueuedFirst
  <2> QED BY <2>2, <2>3, <2>4
<1> QED BY <1>1, <1>2, <1>3, <1>4

\* The loop of the bridge.
LEMMA LoopSteps ==
    ASSUME IInv, Connect \/ Subscribe \/ Forward \/ Notice \/ SendRaises
    PROVE  IInv'
<1> USE DEF IInv, process, broker
<1>1. CASE Connect \/ Notice
  <2>1. BridgeTypeOK'
    BY <1>1 DEF Connect, Notice, BridgeTypeOK, Number
  <2> QED BY <1>1, <2>1, StepsForward DEF Connect, Notice, Forwarded
<1>2. CASE Subscribe
  <2>1. BridgeTypeOK'
    BY <1>2 DEF Subscribe, BridgeTypeOK, Number
  <2> QED BY <1>2, <2>1, StepsForward DEF Subscribe, Forwarded
<1>3. CASE Forward \/ SendRaises
  <2>1. inbox \in Seq(Number) /\ inbox # <<>> /\ inbox' = Tail(inbox)
    BY <1>3 DEF Forward, SendRaises, BridgeTypeOK
  <2>2. /\ Head(inbox) \in Number /\ Tail(inbox) \in Seq(Number)
        /\ Range(inbox) = {Head(inbox)} \cup Range(inbox')
    BY <2>1, RangeTail
  <2>3. CASE Forward
    <3>1. /\ unsent' = Append(unsent, Head(inbox))
          /\ UNCHANGED <<broker, link, pc, raw, lost, overtaken, faults>>
      BY <2>3 DEF Forward
    <3>2. unsent' \in Seq(Number) /\ Range(unsent') = Range(unsent) \cup {Head(inbox)}
      BY <2>2, <3>1, RangeAppend DEF BridgeTypeOK
    <3>3. BridgeTypeOK'
      BY <2>1, <2>2, <3>1, <3>2 DEF BridgeTypeOK, Number
    <3> QED BY <2>2, <3>1, <3>2, <3>3, StepsForward DEF Forwarded
  <2>4. CASE SendRaises
    <3>1. /\ lost' = lost \cup {Head(inbox)} /\ link' = FALSE /\ inFlight' = 0
          /\ pc' = "connect" /\ faults' \in 0 .. MaxFaults
          /\ UNCHANGED <<published, session, held, unsent, raw, overtaken>>
      BY <2>4 DEF SendRaises, Fault, BridgeTypeOK
    <3>2. BridgeTypeOK'
      <4>1. 0 \in 0 .. Len(held)
        BY TypeFacts
      <4> QED BY <2>1, <2>2, <3>1, <4>1 DEF BridgeTypeOK, Number
    <3>3. NothingLost'
      BY <2>2, <3>1 DEF NothingLost, Number
    <3>4. QueuedFirst'
      BY <3>1 DEF QueuedFirst
    <3> QED BY <3>2, <3>3, <3>4
  <2> QED BY <1>3, <2>3, <2>4
<1> QED BY <1>1, <1>2, <1>3

\* The Kafka producer, and the death of the process.
LEMMA ProducerSteps ==
    ASSUME IInv, Deliver \/ Repeat \/ Expire \/ Die
    PROVE  IInv'
<1> USE DEF IInv, process, broker
<1>0. raw \in Seq(Number) /\ unsent \in Seq(Number)
  BY DEF BridgeTypeOK
<1>1. CASE Deliver
  <2>1. /\ unsent # <<>> /\ raw' = Append(raw, Head(unsent)) /\ unsent' = Tail(unsent)
        /\ UNCHANGED <<published, session, held, inFlight, link, pc, inbox, lost, overtaken, faults>>
    BY <1>1 DEF Deliver
  <2>2. /\ Head(unsent) \in Number /\ unsent' \in Seq(Number)
        /\ Range(unsent) = {Head(unsent)} \cup Range(unsent')
    BY <1>0, <2>1, RangeTail
  <2>3. raw' \in Seq(Number) /\ Range(raw') = Range(raw) \cup {Head(unsent)}
    BY <1>0, <2>1, <2>2, RangeAppend
  <2>4. BridgeTypeOK'
    BY <2>1, <2>2, <2>3 DEF BridgeTypeOK, Number
  <2> QED BY <2>1, <2>2, <2>3, <2>4, StepsForward DEF Forwarded
<1>2. CASE Repeat
  <2>1. /\ unsent # <<>> /\ faults' \in 0 .. MaxFaults
        /\ UNCHANGED <<published, session, held, inFlight, link, pc, inbox, lost>>
    BY <1>2 DEF Repeat, Fault, BridgeTypeOK
  <2>2. Head(unsent) \in Number
    BY <1>0, <2>1, RangeTail
  <2>3. CASE raw' = Append(raw, Head(unsent)) /\ UNCHANGED <<unsent, overtaken>>
    <3>1. raw' \in Seq(Number) /\ Range(raw') = Range(raw) \cup {Head(unsent)}
      BY <1>0, <2>2, <2>3, RangeAppend
    <3>2. BridgeTypeOK'
      BY <2>1, <2>3, <3>1 DEF BridgeTypeOK, Number
    <3> QED BY <2>1, <2>3, <3>1, <3>2, StepsForward DEF Forwarded
  <2>4. CASE /\ Len(unsent) > 1
             /\ unsent' = <<unsent[2], unsent[1]>> \o SubSeq(unsent, 3, Len(unsent))
             /\ overtaken' = overtaken \cup {Head(unsent)}
             /\ UNCHANGED raw
    <3>1. unsent' \in Seq(Number) /\ Range(unsent) \subseteq Range(unsent')
      BY <1>0, <2>4, RangeSwap
    <3>2. BridgeTypeOK'
      BY <2>1, <2>2, <2>4, <3>1 DEF BridgeTypeOK, Number
    <3> QED BY <2>1, <2>4, <3>1, <3>2, StepsForward DEF Forwarded
  <2> QED BY <1>2, <2>3, <2>4 DEF Repeat
<1>3. CASE Expire
  <2>1. /\ unsent # <<>> /\ lost' = lost \cup {Head(unsent)} /\ unsent' = Tail(unsent)
        /\ faults' \in 0 .. MaxFaults
        /\ UNCHANGED <<published, session, held, inFlight, link, pc, inbox, raw, overtaken>>
    BY <1>3 DEF Expire, Fault, BridgeTypeOK
  <2>2. /\ Head(unsent) \in Number /\ unsent' \in Seq(Number)
        /\ Range(unsent) = {Head(unsent)} \cup Range(unsent')
    BY <1>0, <2>1, RangeTail
  <2>3. BridgeTypeOK'
    BY <2>1, <2>2 DEF BridgeTypeOK, Number
  <2> QED BY <2>1, <2>2, <2>3, StepsForward DEF Forwarded
<1>4. CASE Die
  <2>1. /\ link' = FALSE /\ inFlight' = 0 /\ pc' = "connect" /\ inbox' = <<>> /\ unsent' = <<>>
        /\ faults' \in 0 .. MaxFaults /\ UNCHANGED <<published, raw, overtaken>>
    BY <1>4 DEF Die, Fault, BridgeTypeOK
  <2>2. \/ /\ lost' = lost \cup Range(inbox) \cup Range(unsent)
           /\ UNCHANGED <<session, held>>
        \/ /\ lost' = lost \cup Range(inbox) \cup Range(unsent) \cup Range(held)
           /\ session' = FALSE /\ held' = <<>>
    BY <1>4 DEF Die
  <2>3. /\ Range(inbox) \subseteq Number /\ Range(unsent) \subseteq Number
        /\ Range(held) \subseteq Number /\ lost \subseteq Number
    BY TypeFacts DEF BridgeTypeOK
  <2>4. BridgeTypeOK'
    <3>1. lost' \subseteq Number
      BY <2>2, <2>3
    <3>2. /\ held' \in Seq(Number) /\ session' \in BOOLEAN /\ 0 \in 0 .. Len(held')
          /\ (~session' => held' = <<>>)
      <4>1. CASE UNCHANGED <<session, held>>
        <5>1. 0 \in 0 .. Len(held)
          BY TypeFacts
        <5> QED BY <4>1, <5>1 DEF BridgeTypeOK
      <4>2. CASE session' = FALSE /\ held' = <<>>
        <5>1. held' \in Seq(Number) /\ 0 \in 0 .. Len(held')
          BY <4>2
        <5>2. session' \in BOOLEAN
          BY <4>2
        <5> QED BY <4>2, <5>1, <5>2, Zenon
      <4>3. UNCHANGED <<session, held>> \/ (session' = FALSE /\ held' = <<>>)
        BY <2>2, Zenon
      <4> QED BY <4>1, <4>2, <4>3, Zenon
    <3>3. Number' = Number /\ published' \in Seq(Packet) /\ Len(published') <= MaxPublished
      BY <2>1 DEF Number, BridgeTypeOK
    <3>4. inbox' \in Seq(Number) /\ unsent' \in Seq(Number) /\ raw' \in Seq(Number)
      BY <1>0, <2>1
    <3>5. inFlight' \in 0 .. Len(held') /\ link' \in BOOLEAN /\ pc' \in {"connect", "subscribe", "iterate"}
      BY <2>1, <3>2
    <3>6. (pc' = "iterate" => session') /\ overtaken' \subseteq Number
      BY <2>1 DEF BridgeTypeOK
    <3> QED BY <2>1, <3>1, <3>2, <3>3, <3>4, <3>5, <3>6, Zenon DEF BridgeTypeOK
  <2>5. NothingLost'
    BY <2>1, <2>2 DEF NothingLost, Number
  <2>6. QueuedFirst'
    BY <2>1 DEF QueuedFirst
  <2> QED BY <2>4, <2>5, <2>6
<1> QED BY <1>1, <1>2, <1>3, <1>4

-----------------------------------------------------------------------------
\* Before the bridge connects for the first time nothing is anywhere.
LEMMA InitIInv == Init => IInv
<1> SUFFICES ASSUME BridgeInit PROVE IInv
  BY DEF Init
<1>1. Number = {} /\ 0 \in 0 .. Len(held)
  BY DEF BridgeInit, Number
<1>2. published \in Seq(Packet) /\ Len(published) <= MaxPublished
  BY DEF BridgeInit
<1>3. held \in Seq(Number) /\ inbox \in Seq(Number) /\ unsent \in Seq(Number) /\ raw \in Seq(Number)
  BY DEF BridgeInit
<1>4. lost \subseteq Number /\ overtaken \subseteq Number /\ faults \in 0 .. MaxFaults
  BY DEF BridgeInit
<1>5. BridgeTypeOK
  BY <1>1, <1>2, <1>3, <1>4 DEF BridgeInit, BridgeTypeOK
<1> QED BY <1>1, <1>5 DEF IInv, NothingLost, QueuedFirst, BridgeInit

\* What keyapi does leaves the bridge alone, but for the count of faults.
LEMMA StepIInv == ASSUME IInv, [Next]_vars PROVE IInv'
<1>1. CASE BridgeStep
  BY <1>1, BrokerSteps, LoopSteps, ProducerSteps DEF BridgeStep, BridgeNext
<1>2. CASE ~BridgeStep
  <2>1. /\ UNCHANGED <<published, session, held, inFlight, link, pc, inbox, unsent, raw, lost,
                       overtaken>>
        /\ faults' = faults \/ Fault
    BY <1>2 DEF Next, vars, bridgeVars, broker, process, Poll, GetOrCreate, FillIn, SkipSighting,
                Commit, RestartConsumer, PostDevice, DeleteDevice, PutDevice, SavePut, SaveFlag,
                Kill
  <2>2. faults' \in 0 .. MaxFaults
    BY <2>1 DEF IInv, BridgeTypeOK, Fault
  <2>3. BridgeTypeOK'
    BY <2>1, <2>2 DEF IInv, BridgeTypeOK, Number
  <2> QED BY <2>1, <2>3, StepsForward DEF Forwarded
<1> QED BY <1>1, <1>2

\* Every packet the broker took for the bridge is on its way or in Kafka, unless a
\* send that failed or the death of the process or of its container took a copy: no
\* connection that breaks, at any point, loses one (mqtt_handler.py:58-73).
THEOREM BridgeLosesNothing == Spec => []NothingLost
<1>1. IInv => NothingLost
  BY DEF IInv
<1> QED
  BY <1>1, InitIInv, StepIInv, PTL DEF Spec

-----------------------------------------------------------------------------
(***************************************************************************)
(* First copies keep their order.  Wherever a packet is on its way, each   *)
(* packet before it is ahead of it: in front of it in its queue, in one of *)
(* the queues behind, in Kafka, lost or overtaken.  So the one that moves  *)
(* on to the next queue finds all before it there.                         *)
(***************************************************************************)
Ahead(s, passed) ==
    \A n \in 1 .. Len(s) : \A i \in Nat \ {0} :
        i < s[n] => i \in passed \/ \E m \in 1 .. n : s[m] = i

Excused == lost \cup overtaken
Arrived == Excused \cup Range(raw)
Sending == Arrived \cup Range(unsent)

InOrder ==
    /\ Ahead(raw, Excused)
    /\ Ahead(unsent, Arrived)
    /\ Ahead(inbox, Sending)
    /\ Ahead(held, Sending \cup Range(inbox))

-----------------------------------------------------------------------------
\* A queue stays in order when more has passed, ...
LEMMA AheadGrows ==
    ASSUME NEW s, NEW passed, Ahead(s, passed), NEW more, passed \subseteq more
    PROVE  Ahead(s, more)
  BY DEF Ahead

\* ... when what comes last has all before it in the queue or ahead of it, ...
LEMMA AheadAppend ==
    ASSUME NEW S, NEW s \in Seq(S), NEW passed, Ahead(s, passed), NEW x \in S,
           \A i \in Nat \ {0} : i < x => i \in passed \cup Range(s)
    PROVE  Ahead(Append(s, x), passed)
<1>1. /\ Len(s) \in Nat /\ Len(Append(s, x)) = Len(s) + 1 /\ Append(s, x)[Len(s) + 1] = x
      /\ \A n \in 1 .. Len(s) : Append(s, x)[n] = s[n]
      /\ DOMAIN s = 1 .. Len(s)
  OBVIOUS
<1> SUFFICES ASSUME NEW n \in 1 .. Len(s) + 1, NEW i \in Nat \ {0},
                    i < Append(s, x)[n], i \notin passed
             PROVE  \E m \in 1 .. n : Append(s, x)[m] = i
  BY <1>1 DEF Ahead
<1>2. CASE n \in 1 .. Len(s)
  <2>1. PICK m \in 1 .. n : s[m] = i
    BY <1>1, <1>2 DEF Ahead
  <2> QED BY <1>1, <1>2, <2>1
<1>3. CASE n = Len(s) + 1
  <2>1. i \in Range(s)
    BY <1>1, <1>3
  <2>2. PICK m \in 1 .. Len(s) : s[m] = i
    BY <1>1, <2>1 DEF Range
  <2> QED BY <1>1, <1>3, <2>2
<1> QED BY <1>1, <1>2, <1>3

\* ... when its head has passed, which has nothing in front of it, ...
LEMMA AheadTail ==
    ASSUME NEW s \in Seq(Nat), NEW passed, Ahead(s, passed), s # <<>>
    PROVE  /\ \A i \in Nat \ {0} : i < Head(s) => i \in passed
           /\ Ahead(Tail(s), passed \cup {Head(s)})
<1>1. /\ Len(s) \in Nat /\ Head(s) = s[1] /\ s[1] \in Nat /\ 1 \in 1 .. Len(s)
      /\ Len(Tail(s)) = Len(s) - 1
      /\ \A n \in 1 .. Len(s) - 1 : Tail(s)[n] = s[n + 1]
  OBVIOUS
<1>2. ASSUME NEW i \in Nat \ {0}, i < Head(s) PROVE i \in passed
  <2>1. i \in passed \/ \E m \in 1 .. 1 : s[m] = i
    BY <1>1, <1>2 DEF Ahead
  <2>2. ASSUME NEW m \in 1 .. 1 PROVE s[m] # i
    <3>1. m = 1
      OBVIOUS
    <3> QED BY <1>1, <1>2, <3>1
  <2> QED BY <2>1, <2>2
<1>3. ASSUME NEW n \in 1 .. Len(s) - 1, NEW i \in Nat \ {0}, i < Tail(s)[n],
             i \notin passed \cup {Head(s)}
      PROVE  \E m \in 1 .. n : Tail(s)[m] = i
  <2>1. n + 1 \in 1 .. Len(s) /\ i < s[n + 1]
    BY <1>1, <1>3
  <2>2. PICK m \in 1 .. n + 1 : s[m] = i
    BY <1>3, <2>1 DEF Ahead
  <2>3. m # 1
    BY <1>1, <1>3, <2>2
  <2>4. m - 1 \in 1 .. n /\ m - 1 \in 1 .. Len(s) - 1 /\ (m - 1) + 1 = m
    BY <1>1, <2>1, <2>2, <2>3
  <2>5. Tail(s)[m - 1] = i
    BY <1>1, <2>2, <2>4
  <2> QED BY <2>4, <2>5
<1>4. Ahead(Tail(s), passed \cup {Head(s)})
  BY <1>1, <1>3 DEF Ahead
<1> QED BY <1>2, <1>4

\* ... and when its first two change places, if the first counts as overtaken.
LEMMA AheadSwap ==
    ASSUME NEW s \in Seq(Nat), NEW passed, Ahead(s, passed), Len(s) > 1
    PROVE  Ahead(<<s[2], s[1]>> \o SubSeq(s, 3, Len(s)), passed \cup {Head(s)})
<1> DEFINE t == <<s[2], s[1]>> \o SubSeq(s, 3, Len(s))
<1>1. /\ Len(s) \in Nat /\ s[1] \in Nat /\ s[2] \in Nat /\ Head(s) = s[1]
      /\ 1 \in 1 .. Len(s) /\ 2 \in 1 .. Len(s)
  OBVIOUS
<1>2. /\ SubSeq(s, 3, Len(s)) \in Seq(Nat) /\ Len(SubSeq(s, 3, Len(s))) = Len(s) - 2
      /\ \A i \in 1 .. Len(s) - 2 : SubSeq(s, 3, Len(s))[i] = s[i + 2]
  BY <1>1, BehindFirstTwo
<1>3. <<s[2], s[1]>> \in Seq(Nat) /\ Len(<<s[2], s[1]>>) = 2
  BY <1>1
<1>4. t \in Seq(Nat) /\ Len(t) = Len(s) /\ t[1] = s[2] /\ t[2] = s[1]
  BY <1>1, <1>2, <1>3
<1>5. \A i \in 3 .. Len(s) : t[i] = s[i]
  BY <1>1, <1>2, <1>3
<1> HIDE DEF t
<1>6. ASSUME NEW n \in 1 .. Len(s), NEW i \in Nat \ {0}, i < t[n], i \notin passed, i # s[1]
      PROVE  \E m \in 1 .. n : t[m] = i
  <2>1. ASSUME NEW k \in 1 .. 2, i < s[k] PROVE FALSE
    <3>1. k \in 1 .. Len(s)
      BY <1>1, <2>1
    <3>2. PICK m \in 1 .. k : s[m] = i
      BY <1>6, <2>1, <3>1 DEF Ahead
    <3>3. m = 1 \/ m = k
      <4>1. k = 1 \/ k = 2
        BY <2>1
      <4>2. m = 1 \/ m = 2
        BY <3>2, <4>1
      <4>3. m <= k
        BY <3>2, <4>1
      <4> QED BY <4>1, <4>2, <4>3
    <3> QED BY <1>1, <1>6, <2>1, <3>2, <3>3
  <2>2. CASE n = 1
    BY <1>4, <1>6, <2>1, <2>2
  <2>3. CASE n = 2
    BY <1>4, <1>6, <2>1, <2>3
  <2>4. CASE n \in 3 .. Len(s)
    <3>1. i < s[n]
      BY <1>5, <1>6, <2>4
    <3>2. PICK m \in 1 .. n : s[m] = i
      BY <1>6, <3>1 DEF Ahead
    <3>3. CASE m = 2
      BY <1>4, <2>4, <3>2, <3>3
    <3>4. CASE m \in 3 .. Len(s)
      BY <1>5, <3>2, <3>4
    <3>5. m # 1
      BY <1>6, <3>2
    <3> QED BY <1>1, <3>2, <3>3, <3>4, <3>5
  <2> QED BY <1>1, <2>2, <2>3, <2>4
<1>7. Ahead(t, passed \cup {Head(s)})
  BY <1>1, <1>4, <1>6 DEF Ahead
<1> QED BY <1>7 DEF t

-----------------------------------------------------------------------------
\* The queues hold numbers.
LEMMA QueueFacts ==
    ASSUME BridgeTypeOK
    PROVE  /\ \A x \in Number : x \in Nat
           /\ held \in Seq(Nat) /\ inbox \in Seq(Nat) /\ unsent \in Seq(Nat) /\ raw \in Seq(Nat)
<1>1. \A x \in Number : x \in Nat
  BY TypeFacts DEF Number
<1>2. ASSUME NEW s \in Seq(Number) PROVE s \in Seq(Nat)
  <2>1. \A j \in 1 .. Len(s) : s[j] \in Nat
    BY <1>1
  <2> QED BY <2>1
<1> QED BY <1>1, <1>2 DEF BridgeTypeOK

\* Steps that move no packet from queue to queue.
LEMMA OrderStays ==
    ASSUME InOrder, UNCHANGED <<raw, unsent, inbox>>, Excused \subseteq Excused',
           held' = held \/ Ahead(held', Sending \cup Range(inbox))
    PROVE  InOrder'
<1>1. /\ Arrived \subseteq Arrived' /\ Sending \subseteq Sending'
      /\ Sending \cup Range(inbox) \subseteq (Sending \cup Range(inbox))'
  BY DEF Arrived, Sending
<1>2. Ahead(raw, Excused') /\ Ahead(unsent, Arrived') /\ Ahead(inbox, Sending')
  BY <1>1, AheadGrows DEF InOrder
<1>3. Ahead(held', (Sending \cup Range(inbox))')
  <2>1. Ahead(held', Sending \cup Range(inbox))
    BY DEF InOrder
  <2> QED BY <1>1, <2>1, AheadGrows
<1> QED BY <1>2, <1>3 DEF InOrder

\* The broker: a packet that is published comes behind all others, one that is received
\* behind those in flight, and an acknowledged one has been queued.
LEMMA BrokerOrder ==
    ASSUME IInv, InOrder, Publish \/ Receive \/ Acknowledge \/ LoseLink
    PROVE  InOrder'
<1> USE DEF IInv, process, broker
<1>0. /\ \A x \in Number : x \in Nat
      /\ held \in Seq(Nat) /\ inbox \in Seq(Nat) /\ unsent \in Seq(Nat) /\ raw \in Seq(Nat)
      /\ inFlight \in Nat /\ Len(held) \in Nat /\ inFlight <= Len(held)
  BY QueueFacts, TypeFacts
<1>1. CASE Publish
  <2> DEFINE i == Len(published) + 1
  <2>1. UNCHANGED <<raw, unsent, inbox>> /\ Excused \subseteq Excused'
    BY <1>1 DEF Publish, Excused
  <2>2. CASE session
    <3>1. held' = Append(held, i) /\ i \in Nat
      BY <1>1, <2>2, TypeFacts DEF Publish
    <3>2. \A j \in Nat \ {0} : j < i => j \in Number
      BY TypeFacts DEF Number
    <3>3. \A j \in Nat \ {0} : j < i => j \in (Sending \cup Range(inbox)) \cup Range(held)
      BY <3>2 DEF NothingLost, Sending, Arrived, Excused
    <3>4. Ahead(held, Sending \cup Range(inbox))
      BY DEF InOrder
    <3> HIDE DEF i
    <3>5. Ahead(held', Sending \cup Range(inbox))
      BY <1>0, <3>1, <3>3, <3>4, AheadAppend
    <3> QED BY <2>1, <3>5, OrderStays
  <2>3. CASE ~session
    BY <1>1, <2>1, <2>3, OrderStays DEF Publish
  <2> QED BY <2>2, <2>3
<1>2. CASE Receive
  <2> DEFINE n == inFlight + 1
             x == held[n]
  <2>1. /\ UNCHANGED <<held, unsent, raw, lost, overtaken>>
        /\ inbox' = Append(inbox, x) /\ n \in 1 .. Len(held)
    BY <1>0, <1>2 DEF Receive
  <2>2. x \in Nat /\ Range(inbox') = Range(inbox) \cup {x}
    BY <1>0, <2>1, RangeAppend
  <2>3. ASSUME NEW i \in Nat \ {0}, i < x PROVE i \in Sending \cup Range(inbox)
    <3>1. CASE i \notin Sending \cup Range(inbox)
      <4>1. PICK m \in 1 .. n : held[m] = i
        BY <2>1, <2>3, <3>1 DEF InOrder, Ahead
      <4>2. m # n
        BY <2>2, <2>3, <4>1
      <4>3. m \in 1 .. inFlight
        BY <1>0, <4>1, <4>2
      <4> QED BY <4>1, <4>3 DEF QueuedFirst, Forwarded, Sending, Arrived, Excused
    <3> QED BY <3>1
  <2>4. /\ UNCHANGED <<Excused, Arrived, Sending>>
        /\ Sending \cup Range(inbox) \subseteq (Sending \cup Range(inbox))'
    BY <2>1, <2>2 DEF Excused, Arrived, Sending
  <2> HIDE DEF n, x
  <2>5. Ahead(inbox', Sending)
    BY <1>0, <2>1, <2>2, <2>3, AheadAppend DEF InOrder
  <2>6. Ahead(held, (Sending \cup Range(inbox))')
    BY <2>4, AheadGrows DEF InOrder
  <2> QED BY <2>1, <2>4, <2>5, <2>6 DEF InOrder
<1>3. CASE Acknowledge
  <2>1. /\ UNCHANGED <<unsent, raw, inbox, lost, overtaken>>
        /\ held' = Tail(held) /\ inFlight > 0 /\ held # <<>>
    BY <1>0, <1>3 DEF Acknowledge
  <2>2. Head(held) \in Sending \cup Range(inbox)
    <3>1. 1 \in 1 .. inFlight /\ Head(held) = held[1]
      BY <1>0, <2>1
    <3> QED BY <3>1 DEF QueuedFirst, Forwarded, Sending, Arrived, Excused
  <2>3. Ahead(Tail(held), (Sending \cup Range(inbox)) \cup {Head(held)})
    BY <1>0, <2>1, AheadTail DEF InOrder
  <2>4. (Sending \cup Range(inbox)) \cup {Head(held)} = Sending \cup Range(inbox)
    BY <2>2
  <2>5. Ahead(held', Sending \cup Range(inbox)) /\ Excused' = Excused
    BY <2>1, <2>3, <2>4 DEF Excused
  <2> QED BY <2>1, <2>5, OrderStays
<1>4. CASE LoseLink
  BY <1>4, OrderStays DEF LoseLink, Excused
<1> QED BY <1>1, <1>2, <1>3, <1>4

\* The loop takes the head of its queue, and the producer the head of its own.
LEMMA ProcessOrder ==
    ASSUME IInv, InOrder,
           \/ Connect \/ Subscribe \/ Forward \/ Notice \/ SendRaises
           \/ Deliver \/ Repeat \/ Expire \/ Die
    PROVE  InOrder'
<1> USE DEF IInv, process, broker
<1>0. held \in Seq(Nat) /\ inbox \in Seq(Nat) /\ unsent \in Seq(Nat) /\ raw \in Seq(Nat)
  BY QueueFacts
<1>a. /\ Ahead(raw, Excused) /\ Ahead(unsent, Arrived) /\ Ahead(inbox, Sending)
      /\ Ahead(held, Sending \cup Range(inbox))
  BY DEF InOrder
<1>1. CASE Connect \/ Subscribe \/ Notice
  BY <1>1, OrderStays DEF Connect, Subscribe, Notice, Excused
<1>2. CASE Forward
  <2>1. /\ inbox # <<>> /\ inbox' = Tail(inbox) /\ unsent' = Append(unsent, Head(inbox))
        /\ UNCHANGED <<held, raw, lost, overtaken>>
    BY <1>2 DEF Forward
  <2>2. Head(inbox) \in Nat /\ Range(inbox) = {Head(inbox)} \cup Range(inbox')
    BY <1>0, <2>1, RangeTail
  <2>3. Range(unsent') = Range(unsent) \cup {Head(inbox)}
    BY <1>0, <2>1, <2>2, RangeAppend
  <2>4. /\ UNCHANGED <<Excused, Arrived>> /\ Sending' = Sending \cup {Head(inbox)}
        /\ (Sending \cup Range(inbox))' = Sending \cup Range(inbox)
    BY <2>1, <2>2, <2>3 DEF Excused, Arrived, Sending
  <2>5. /\ \A i \in Nat \ {0} : i < Head(inbox) => i \in Arrived \cup Range(unsent)
        /\ Ahead(Tail(inbox), Sending \cup {Head(inbox)})
    BY <1>0, <1>a, <2>1, AheadTail DEF Sending
  <2>6. Ahead(unsent', Arrived)
    BY <1>0, <1>a, <2>1, <2>2, <2>5, AheadAppend
  <2> QED BY <1>a, <2>1, <2>4, <2>5, <2>6 DEF InOrder
<1>3. CASE SendRaises
  <2>1. /\ inbox # <<>> /\ inbox' = Tail(inbox) /\ lost' = lost \cup {Head(inbox)}
        /\ UNCHANGED <<held, raw, unsent, overtaken>>
    BY <1>3 DEF SendRaises
  <2>2. Range(inbox) = {Head(inbox)} \cup Range(inbox')
    BY <1>0, <2>1, RangeTail
  <2>3. /\ Excused \subseteq Excused' /\ Arrived \subseteq Arrived'
        /\ Sending' = Sending \cup {Head(inbox)}
        /\ (Sending \cup Range(inbox))' = Sending \cup Range(inbox)
    BY <2>1, <2>2 DEF Excused, Arrived, Sending
  <2>4. Ahead(raw, Excused') /\ Ahead(unsent, Arrived')
    BY <1>a, <2>3, AheadGrows
  <2>5. Ahead(Tail(inbox), Sending \cup {Head(inbox)})
    BY <1>0, <1>a, <2>1, AheadTail
  <2> QED BY <1>a, <2>1, <2>3, <2>4, <2>5 DEF InOrder
<1>4. CASE unsent # <<>> /\ raw' = Append(raw, Head(unsent)) /\ (Deliver \/ Repeat)
  <2>1. /\ UNCHANGED <<held, inbox, lost, overtaken>>
        /\ unsent' = unsent \/ unsent' = Tail(unsent)
    BY <1>0, <1>4 DEF Deliver, Repeat
  <2>2. Head(unsent) \in Nat /\ Range(unsent) = {Head(unsent)} \cup Range(Tail(unsent))
    BY <1>0, <1>4, RangeTail
  <2>3. Range(raw') = Range(raw) \cup {Head(unsent)}
    BY <1>0, <1>4, <2>2, RangeAppend
  <2>4. /\ Excused' = Excused /\ Arrived' = Arrived \cup {Head(unsent)} /\ Sending' = Sending
    BY <2>1, <2>2, <2>3 DEF Excused, Arrived, Sending
  <2>5. /\ \A i \in Nat \ {0} : i < Head(unsent) => i \in Excused \cup Range(raw)
        /\ Ahead(Tail(unsent), Arrived \cup {Head(unsent)})
    BY <1>0, <1>4, <1>a, AheadTail DEF Arrived
  <2>6. Ahead(raw', Excused)
    BY <1>0, <1>4, <1>a, <2>2, <2>5, AheadAppend
  <2>7. Ahead(unsent', Arrived')
    <3>1. Ahead(unsent, Arrived')
      BY <1>a, <2>4, AheadGrows
    <3> QED BY <2>1, <2>4, <2>5, <3>1
  <2> QED BY <1>a, <2>1, <2>4, <2>6, <2>7 DEF InOrder
<1>5. CASE /\ Len(unsent) > 1
           /\ unsent' = <<unsent[2], unsent[1]>> \o SubSeq(unsent, 3, Len(unsent))
           /\ overtaken' = overtaken \cup {Head(unsent)}
           /\ UNCHANGED <<raw, held, inbox, lost>>
  <2>1. Range(unsent) \subseteq Range(unsent')
    BY <1>0, <1>5, RangeSwap
  <2>2. /\ Excused \subseteq Excused' /\ Arrived' = Arrived \cup {Head(unsent)}
        /\ Sending \subseteq Sending'
        /\ Sending \cup Range(inbox) \subseteq (Sending \cup Range(inbox))'
    BY <1>5, <2>1 DEF Excused, Arrived, Sending
  <2>3. Ahead(unsent', Arrived')
    BY <1>0, <1>5, <1>a, <2>2, AheadSwap
  <2>4. /\ Ahead(raw, Excused') /\ Ahead(inbox, Sending')
        /\ Ahead(held, (Sending \cup Range(inbox))')
    BY <1>a, <2>2, AheadGrows
  <2> QED BY <1>5, <2>3, <2>4 DEF InOrder
<1>6. CASE Expire
  <2>1. /\ unsent # <<>> /\ unsent' = Tail(unsent) /\ lost' = lost \cup {Head(unsent)}
        /\ UNCHANGED <<held, inbox, raw, overtaken>>
    BY <1>6 DEF Expire
  <2>2. Range(unsent) = {Head(unsent)} \cup Range(unsent')
    BY <1>0, <2>1, RangeTail
  <2>3. /\ Excused \subseteq Excused' /\ Arrived' = Arrived \cup {Head(unsent)}
        /\ Sending' = Sending
    BY <2>1, <2>2 DEF Excused, Arrived, Sending
  <2>4. Ahead(raw, Excused')
    BY <1>a, <2>3, AheadGrows
  <2>5. Ahead(unsent', Arrived')
    BY <1>0, <1>a, <2>1, <2>3, AheadTail
  <2> QED BY <1>a, <2>1, <2>3, <2>4, <2>5 DEF InOrder
<1>7. CASE Die
  <2>1. /\ inbox' = <<>> /\ unsent' = <<>> /\ UNCHANGED <<raw, overtaken>>
        /\ lost \cup Range(inbox) \cup Range(unsent) \subseteq lost'
        /\ held' = held \/ held' = <<>>
    BY <1>7 DEF Die
  <2>2. /\ Excused \subseteq Excused'
        /\ Sending \cup Range(inbox) \subseteq (Sending \cup Range(inbox))'
    BY <2>1 DEF Excused, Arrived, Sending
  <2>3. \A passed : Ahead(<<>>, passed)
    BY DEF Ahead
  <2>4. Ahead(raw, Excused') /\ Ahead(held, (Sending \cup Range(inbox))')
    BY <1>a, <2>2, AheadGrows
  <2> QED BY <2>1, <2>3, <2>4 DEF InOrder
<1>8. Repeat => \/ unsent # <<>> /\ raw' = Append(raw, Head(unsent))
                \/ /\ Len(unsent) > 1
                   /\ unsent' = <<unsent[2], unsent[1]>> \o SubSeq(unsent, 3, Len(unsent))
                   /\ overtaken' = overtaken \cup {Head(unsent)}
                   /\ UNCHANGED <<raw, held, inbox, lost>>
  BY DEF Repeat
<1>9. Deliver => unsent # <<>> /\ raw' = Append(raw, Head(unsent))
  BY DEF Deliver
<1> QED BY <1>1, <1>2, <1>3, <1>4, <1>5, <1>6, <1>7, <1>8, <1>9

\* Every step keeps the order.
LEMMA StepInOrder ==
    ASSUME IInv, InOrder, [Next]_vars
    PROVE  InOrder'
<1>1. CASE BridgeStep
  BY <1>1, BrokerOrder, ProcessOrder DEF BridgeStep, BridgeNext
<1>2. CASE ~BridgeStep
  <2>1. UNCHANGED <<held, inbox, unsent, raw, lost, overtaken>>
    BY <1>2 DEF Next, vars, bridgeVars, broker, process, Poll, GetOrCreate, FillIn, SkipSighting,
                Commit, RestartConsumer, PostDevice, DeleteDevice, PutDevice, SavePut, SaveFlag,
                Kill
  <2> QED BY <2>1, OrderStays DEF Excused
<1> QED BY <1>1, <1>2

\* A packet gets to Kafka for the first time only behind all the broker took before it,
\* those aside of which a copy was lost or whose send was overtaken, however often a
\* broken connection makes the broker deliver again (mqtt_handler.py:58-73).
THEOREM BridgeKeepsOrder == Spec => []OrderIsKept
<1>1. Init => InOrder
  BY DEF Init, BridgeInit, InOrder, Ahead
<1>2. IInv /\ InOrder /\ [Next]_vars => InOrder'
  BY StepInOrder
<1>3. IInv /\ InOrder => OrderIsKept
  <2> SUFFICES ASSUME IInv, InOrder, NEW n \in DOMAIN raw, NEW i \in Number, i < raw[n],
                      i \notin lost \cup overtaken
               PROVE  \E m \in 1 .. n : raw[m] = i
    BY DEF OrderIsKept
  <2>1. raw \in Seq(Nat) /\ i \in Nat \ {0}
    BY QueueFacts, TypeFacts DEF IInv, Number
  <2> QED BY <2>1 DEF InOrder, Ahead, Excused
<1> QED
  BY <1>1, <1>2, <1>3, InitIInv, StepIInv, PTL DEF Spec

-----------------------------------------------------------------------------
(***************************************************************************)
(* The device's row.  While no write followed a read that was out of date, *)
(* the row is the promised one, or lacks the flag that the PUT between its *)
(* two writes is about to set.                                             *)
(***************************************************************************)
OffsetsOK ==
    /\ committed \in 0 .. handled /\ handled \in 0 .. polled /\ polled \in 0 .. Len(raw)
    /\ sighting # NoRow => handled < polled
    /\ settled \subseteq Number
    /\ served \in 0 .. MaxRequests

RowsOK ==
    /\ sighting \in Row \cup {NoRow, Deleted}
    /\ row \in Row \cup {NoRow} /\ promised \in Row \cup {NoRow}
    /\ req \in Request \cup {Idle}
    /\ raced \in BOOLEAN

\* Who still relies on a row that was read finds one.
RowIsThere ==
    /\ sighting \in Row => row # NoRow
    /\ HalfDone => row # NoRow /\ req.new.pinned # req.read.pinned
    /\ req # Idle /\ ~req.gone => row # NoRow

RowAsPromised ==
    ~raced => IF HalfDone THEN promised = req.new /\ row.at = req.new.at
              ELSE row = promised

RowInv == RowsOK /\ RowIsThere /\ RowAsPromised

-----------------------------------------------------------------------------
\* The topic and the numbers of the packets only grow.
LEMMA TopicGrows ==
    ASSUME IInv, [Next]_vars
    PROVE  Len(raw) \in Nat /\ Len(raw') \in Nat /\ Len(raw) <= Len(raw') /\ Number \subseteq Number'
<1>1. IInv'
  BY StepIInv
<1>2. raw \in Seq(Number) /\ raw' \in Seq(Number') /\ unsent \in Seq(Number)
  BY <1>1 DEF IInv, BridgeTypeOK
<1>3. raw' = raw \/ \E i : raw' = Append(raw, i)
  BY DEF Next, vars, bridgeVars, broker, process, BridgeStep, BridgeNext, Publish, Receive,
         Acknowledge, LoseLink, Connect, Subscribe, Forward, Notice, SendRaises, Deliver, Repeat,
         Expire, Die, Poll, GetOrCreate, FillIn, SkipSighting, Commit, RestartConsumer, PostDevice,
         DeleteDevice, PutDevice, SavePut, SaveFlag, Kill
<1>4. published' = published \/ \E p \in Packet : published' = Append(published, p)
  BY DEF Next, vars, bridgeVars, broker, process, BridgeStep, BridgeNext, Publish, Receive,
         Acknowledge, LoseLink, Connect, Subscribe, Forward, Notice, SendRaises, Deliver, Repeat,
         Expire, Die, Poll, GetOrCreate, FillIn, SkipSighting, Commit, RestartConsumer, PostDevice,
         DeleteDevice, PutDevice, SavePut, SaveFlag, Kill
<1>5. published \in Seq(Packet)
  BY DEF IInv, BridgeTypeOK
<1>6. Len(raw) \in Nat /\ Len(raw') \in Nat /\ Len(raw) <= Len(raw')
  BY <1>2, <1>3
<1>7. Len(published) \in Nat /\ Len(published') \in Nat /\ Len(published) <= Len(published')
  BY <1>4, <1>5
<1>8. Number \subseteq Number'
  BY <1>7 DEF Number
<1> QED BY <1>6, <1>8

\* The consumer's offsets stay within what it polled, and what it settled was published.
LEMMA StepOffsets ==
    ASSUME IInv, OffsetsOK, [Next]_vars
    PROVE  OffsetsOK'
<1> USE RequestsAssumption
<1>1. /\ Len(raw) \in Nat /\ Len(raw') \in Nat /\ Len(raw) <= Len(raw') /\ Number \subseteq Number'
      /\ raw \in Seq(Number)
  BY TopicGrows DEF IInv, BridgeTypeOK
<1>2. /\ committed \in Nat /\ handled \in Nat /\ polled \in Nat /\ served \in Nat
      /\ committed <= handled /\ handled <= polled /\ polled <= Len(raw) /\ served <= MaxRequests
  BY <1>1 DEF OffsetsOK
<1>3. CASE UNCHANGED <<polled, handled, committed, settled>> /\ (sighting = NoRow => sighting' = NoRow)
           /\ (served' = served \/ Serve)
  BY <1>1, <1>2, <1>3 DEF OffsetsOK, Serve
<1>4. CASE Poll
  BY <1>1, <1>2, <1>4 DEF Poll, OffsetsOK, history
<1>5. CASE GetOrCreate
  BY <1>1, <1>2, <1>5 DEF GetOrCreate, OffsetsOK
<1>6. CASE FillIn \/ SkipSighting
  <2>1. sighting # NoRow /\ sighting' = NoRow /\ handled' = handled + 1
        /\ settled' = settled \cup {raw[handled + 1]} /\ UNCHANGED <<polled, committed, served>>
    BY <1>6, MarksAssumption DEF FillIn, SkipSighting
  <2>2. handled < polled
    BY <2>1 DEF OffsetsOK
  <2>3. raw[handled + 1] \in Number
    BY <1>1, <1>2, <2>2
  <2> QED BY <1>1, <1>2, <2>1, <2>2, <2>3 DEF OffsetsOK
<1>7. CASE Commit \/ RestartConsumer
  BY <1>1, <1>2, <1>7 DEF Commit, RestartConsumer, OffsetsOK, history
<1> QED
  BY <1>3, <1>4, <1>5, <1>6, <1>7
  DEF Next, vars, BridgeStep, consumer, history, PostDevice, DeleteDevice, PutDevice, SavePut,
      SaveFlag, Kill

\* What a packet reports of the position.
LEMMA ReportType ==
    ASSUME IInv, OffsetsOK, sighting # NoRow
    PROVE  Report \in Position \cup {Nowhere}
<1>1. raw \in Seq(Number) /\ published \in Seq(Packet) /\ Len(raw) \in Nat /\ Len(published) \in Nat
  BY DEF IInv, BridgeTypeOK
<1>2. handled + 1 \in 1 .. Len(raw)
  BY <1>1 DEF OffsetsOK
<1>3. raw[handled + 1] \in 1 .. Len(published)
  BY <1>1, <1>2 DEF Number
<1>4. published[raw[handled + 1]] \in Packet
  BY <1>1, <1>3
<1> QED BY <1>4, PacketAssumption DEF Report

\* The consumer's steps: what it fills in is promised, unless it decided by a row that
\* was changed since.
LEMMA ConsumerRow ==
    ASSUME IInv, OffsetsOK, RowInv, GetOrCreate \/ FillIn \/ SkipSighting \/ RestartConsumer
    PROVE  RowInv'
<1> USE DEF keyapi, history, HalfDone, RowInv
<1>0. /\ NoRow \notin Row /\ Deleted \notin Row \cup {NoRow} /\ Idle \notin Request
      /\ Unset \in Row
  BY MarksAssumption DEF Unset, Row
<1>1. CASE GetOrCreate
  <2>1. /\ row' = IF row = NoRow THEN Unset ELSE row
        /\ promised' = IF row = NoRow THEN Unset ELSE promised
        /\ sighting' = row' /\ UNCHANGED <<req, raced>>
    BY <1>1 DEF GetOrCreate
  <2>2. RowsOK' /\ row' # NoRow
    BY <1>0, <2>1 DEF RowsOK
  <2>3. RowIsThere'
    BY <2>1, <2>2 DEF RowIsThere
  <2>4. RowAsPromised'
    BY <2>1 DEF RowAsPromised, RowIsThere
  <2> QED BY <2>2, <2>3, <2>4
<1>2. CASE FillIn
  <2>1. /\ sighting \in Row
        /\ row' = IF Report = Nowhere \/ sighting.pinned THEN row ELSE [row EXCEPT !.at = Report]
        /\ promised' = IF promised = NoRow \/ Report = Nowhere \/ promised.pinned THEN promised
                       ELSE [promised EXCEPT !.at = Report]
        /\ sighting' = NoRow /\ raced' = (raced \/ sighting.pinned # row.pinned \/ HalfDone)
        /\ req' = req
    BY <1>2 DEF FillIn
  <2>2. Report \in Position \cup {Nowhere} /\ row \in Row
    BY <1>0, <2>1, ReportType DEF RowsOK, RowIsThere
  <2>3. \A r \in Row : [r EXCEPT !.at = Report] \in Row
    BY <2>2 DEF Row
  <2>4. row' \in Row
    BY <2>1, <2>2, <2>3
  <2>5. promised' \in Row \cup {NoRow}
    BY <2>1, <2>3 DEF RowsOK
  <2>6. RowsOK'
    BY <2>1, <2>4, <2>5 DEF RowsOK
  <2>7. RowIsThere'
    BY <1>0, <2>1, <2>4 DEF RowIsThere
  <2>8. RowAsPromised'
    <3> SUFFICES ASSUME ~raced' PROVE ~HalfDone' /\ row' = promised'
      BY DEF RowAsPromised
    <3>1. ~raced /\ sighting.pinned = row.pinned /\ ~HalfDone
      BY <2>1 DEF RowsOK, Row
    <3>2. row = promised
      BY <3>1 DEF RowAsPromised
    <3> QED BY <1>0, <2>1, <2>2, <3>1, <3>2
  <2> QED BY <2>6, <2>7, <2>8
<1>3. CASE SkipSighting \/ RestartConsumer
  <2>1. sighting' = NoRow /\ UNCHANGED <<row, req, promised, raced>>
    BY <1>3 DEF SkipSighting, RestartConsumer
  <2> QED BY <1>0, <2>1 DEF RowsOK, RowIsThere, RowAsPromised
<1> QED BY <1>1, <1>2, <1>3

\* The views: a PUT gives the row it read back with what it sets, in two writes.
LEMMA ViewRow ==
    ASSUME RowInv, PostDevice \/ DeleteDevice \/ PutDevice \/ SavePut \/ SaveFlag \/ Kill
    PROVE  RowInv'
<1> USE DEF keyapi, consumer, history, HalfDone, RowInv
<1>0. /\ NoRow \notin Row /\ Deleted \notin Row \cup {NoRow} /\ Idle \notin Request
      /\ \A p \in Position \cup {Nowhere} : Set(p) \in Row
  BY MarksAssumption DEF Set, Row
<1>1. CASE PostDevice
  <2>1. /\ row = NoRow /\ row' \in Row /\ promised' = row' /\ raced' = FALSE
        /\ UNCHANGED <<sighting, req>>
    BY <1>0, <1>1 DEF PostDevice
  <2>2. RowsOK'
    BY <2>1 DEF RowsOK
  <2>3. RowIsThere' /\ RowAsPromised'
    BY <1>0, <2>1 DEF RowIsThere, RowAsPromised
  <2> QED BY <2>2, <2>3
<1>2. CASE DeleteDevice
  <2>1. /\ row' = NoRow /\ promised' = NoRow /\ raced' = FALSE
        /\ sighting' = IF sighting = NoRow THEN NoRow ELSE Deleted
        /\ req' = IF req = Idle \/ HalfDone THEN Idle ELSE [req EXCEPT !.gone = TRUE]
    BY <1>2 DEF DeleteDevice
  <2>2. req' = Idle \/ (req' \in Request /\ req'.gone /\ req'.pc = "save")
    <3>1. CASE req = Idle \/ HalfDone
      BY <2>1, <3>1
    <3>2. CASE ~(req = Idle \/ HalfDone)
      <4>1. req \in Request /\ req.pc = "save" /\ req' = [req EXCEPT !.gone = TRUE]
        BY <2>1, <3>2 DEF RowsOK, Request
      <4> QED BY <4>1 DEF Request
    <3> QED BY <3>1, <3>2
  <2>3. RowsOK'
    BY <2>1, <2>2 DEF RowsOK
  <2>4. RowIsThere' /\ RowAsPromised'
    BY <1>0, <2>1, <2>2 DEF RowIsThere, RowAsPromised
  <2> QED BY <2>3, <2>4
<1>3. CASE PutDevice
  <2>1. /\ req = Idle /\ row # NoRow /\ UNCHANGED <<row, sighting, promised, raced>>
    BY <1>3 DEF PutDevice
  <2>2. PICK new \in {Set(p) : p \in Position \cup {Nowhere}} \cup {row} :
            req' = [pc |-> "save", read |-> row, new |-> new, gone |-> FALSE]
    BY <1>3 DEF PutDevice
  <2>3. new \in Row /\ row \in Row
    BY <1>0, <2>1, <2>2 DEF RowsOK
  <2>4. req' \in Request /\ req'.pc = "save" /\ ~req'.gone
    BY <2>2, <2>3 DEF Request
  <2> QED BY <2>1, <2>4 DEF RowsOK, RowIsThere, RowAsPromised
<1>4. CASE SavePut
  <2>1. req \in Request /\ req.pc = "save" /\ sighting' = sighting /\ ~HalfDone
    BY <1>4 DEF SavePut, RowsOK
  <2>2. req.read \in Row /\ req.new \in Row
    BY <2>1 DEF Request
  <2>3. CASE req.gone /\ row # NoRow
    <3>1. req' = Idle /\ UNCHANGED <<row, promised, raced>>
      BY <1>4, <2>3 DEF SavePut
    <3> QED BY <2>1, <3>1 DEF RowsOK, RowIsThere, RowAsPromised
  <2>4. CASE ~(req.gone /\ row # NoRow)
    <3>1. /\ row' = [at |-> req.new.at, pinned |-> req.read.pinned]
          /\ promised' = IF req.new = req.read THEN promised ELSE req.new
          /\ raced' = (raced \/ row # req.read)
          /\ req' = IF req.new.pinned = req.read.pinned THEN Idle ELSE [req EXCEPT !.pc = "flag"]
      BY <1>4, <2>4 DEF SavePut
    <3>2. row' \in Row /\ row' # NoRow
      BY <1>0, <2>2, <3>1 DEF Row
    <3>3. \/ req' = Idle /\ req.new.pinned = req.read.pinned
          \/ /\ req' \in Request /\ req'.pc = "flag" /\ req'.new = req.new /\ req'.read = req.read
             /\ req.new.pinned # req.read.pinned
      BY <2>1, <3>1 DEF Request
    <3>4. RowsOK'
      BY <2>1, <2>2, <3>1, <3>2, <3>3 DEF RowsOK
    <3>5. RowIsThere'
      BY <3>2, <3>3 DEF RowIsThere
    <3>6. ASSUME ~raced' PROVE IF HalfDone' THEN promised' = req'.new /\ row'.at = req'.new.at
                               ELSE row' = promised'
      <4>1. ~raced /\ row = req.read /\ row = promised
        BY <2>1, <3>1, <3>6 DEF RowsOK, RowAsPromised
      <4>2. CASE req.new.pinned = req.read.pinned
        <5>1. row' = req.new
          BY <2>2, <3>1, <4>2 DEF Row
        <5> QED BY <3>1, <4>1, <4>2, <5>1
      <4>3. CASE req.new.pinned # req.read.pinned
        <5>1. HalfDone' /\ promised' = req.new /\ row'.at = req.new.at
          BY <1>0, <3>1, <3>3, <4>3
        <5> QED BY <3>3, <4>3, <5>1
      <4> QED BY <4>2, <4>3
    <3>7. RowAsPromised'
      BY <3>6 DEF RowAsPromised
    <3> QED BY <3>4, <3>5, <3>7
  <2> QED BY <2>3, <2>4
<1>5. CASE SaveFlag
  <2>1. /\ HalfDone /\ row' = [row EXCEPT !.pinned = req.new.pinned] /\ req' = Idle
        /\ UNCHANGED <<sighting, promised, raced>>
    BY <1>5 DEF SaveFlag
  <2>2. row \in Row /\ req.new \in Row
    BY <2>1 DEF RowsOK, RowIsThere, Request
  <2>3. row' \in Row /\ row' = [at |-> row.at, pinned |-> req.new.pinned]
    BY <2>1, <2>2 DEF Row
  <2>4. row.at = req.new.at => row' = req.new
    BY <2>2, <2>3 DEF Row
  <2>5. RowsOK'
    BY <2>1, <2>3 DEF RowsOK
  <2>6. RowIsThere'
    BY <1>0, <2>1, <2>3 DEF RowIsThere
  <2>7. RowAsPromised'
    BY <2>1, <2>4 DEF RowAsPromised
  <2> QED BY <2>5, <2>6, <2>7
<1>6. CASE Kill
  <2>1. req' = Idle /\ raced' = (raced \/ HalfDone) /\ UNCHANGED <<sighting, row, promised>>
    BY <1>6 DEF Kill
  <2> QED BY <2>1 DEF RowsOK, RowIsThere, RowAsPromised
<1> QED BY <1>1, <1>2, <1>3, <1>4, <1>5, <1>6

\* Every step keeps the row.
LEMMA StepRow ==
    ASSUME IInv, OffsetsOK, RowInv, [Next]_vars
    PROVE  RowInv'
<1>1. CASE UNCHANGED <<sighting, row, req, promised, raced>>
  BY <1>1 DEF RowInv, RowsOK, RowIsThere, RowAsPromised, HalfDone
<1> QED
  BY <1>1, ConsumerRow, ViewRow
  DEF Next, vars, BridgeStep, consumer, keyapi, history, Poll, Commit

\* "Position and identity fields are filled in from what the device reports until they
\* are set here" (views.py:652): whatever is redelivered and whoever asks meanwhile, the
\* row keyapi shows is what serving sightings and requests one by one makes of it, unless
\* one wrote by a read that was out of date or was left half done.
THEOREM PinnedPositionsStay == Spec => []PinnedTakesPrecedence
<1>1. Init => OffsetsOK /\ RowInv
  <2> SUFFICES ASSUME Init PROVE OffsetsOK /\ RowInv
    OBVIOUS
  <2>1. raw = <<>> /\ served = 0 /\ MaxRequests \in Nat
    BY RequestsAssumption DEF Init, BridgeInit
  <2>2. OffsetsOK
    BY <2>1 DEF Init, OffsetsOK
  <2> QED BY <2>2, MarksAssumption DEF Init, RowInv, RowsOK, RowIsThere, RowAsPromised, HalfDone
<1>2. IInv /\ OffsetsOK /\ RowInv /\ [Next]_vars => (OffsetsOK /\ RowInv)'
  BY StepOffsets, StepRow
<1>3. IInv /\ OffsetsOK /\ RowInv => PinnedTakesPrecedence
  BY DEF PinnedTakesPrecedence, TypeOK, IInv, OffsetsOK, RowInv, RowsOK, RowAsPromised
<1> QED
  BY <1>1, <1>2, <1>3, InitIInv, StepIInv, PTL DEF Spec
=============================================================================
