------------------------------- MODULE Bridge -------------------------------
(***************************************************************************)
(* bridge/mqtt_handler.py: the process that forwards the packets of an     *)
(* MQTT subscription to the raw Kafka topic.  Three parties hold packets:  *)
(* the MQTT broker, which keeps the session of the bridge's client id      *)
(* (QoS 1, no clean session) and delivers again what was not acknowledged; *)
(* the process, whose MQTT client acknowledges what it puts in its queue   *)
(* before the loop takes it, and whose Kafka producer sends in the         *)
(* background; and Kafka.  The loop never waits for the producer.          *)
(*                                                                         *)
(* Packets are numbered in the order the broker receives them.             *)
(***************************************************************************)
EXTENDS Naturals, Sequences, Functions

CONSTANTS
    Packet,        \* what the radios publish
    MaxPublished,  \* bound: packets published
    MaxFaults      \* bound: lost connections, failed or repeated sends, deaths

ASSUME BridgeBounds == MaxPublished \in Nat /\ MaxFaults \in Nat

VARIABLES
    published,   \* the packets published, in order
    session,     \* the broker has a session for the client id, with its subscription
    held,        \* the packets the session keeps until they are acknowledged
    inFlight,    \* how many of these were sent on this connection
    link,        \* the connection is up
    pc,          \* the loop: "connect", "subscribe" or "iterate"
    inbox,       \* the MQTT client's queue
    unsent,      \* what the Kafka producer has not delivered yet
    raw,         \* mesh.telemetry.raw.v1
    lost,        \* history: packets a copy of which is gone
    overtaken,   \* history: packets whose send was repeated after the next one's
    faults

broker == <<published, session, held, inFlight>>
process == <<link, pc, inbox, unsent>>
bridgeVars == <<broker, process, raw, lost, overtaken, faults>>

Number == 1 .. Len(published)

BridgeTypeOK ==
    /\ published \in Seq(Packet) /\ Len(published) <= MaxPublished
    /\ session \in BOOLEAN /\ link \in BOOLEAN
    /\ held \in Seq(Number) /\ inbox \in Seq(Number)
    /\ unsent \in Seq(Number) /\ raw \in Seq(Number)
    /\ inFlight \in 0 .. Len(held)
    /\ pc \in {"connect", "subscribe", "iterate"}
    /\ ~session => held = <<>>
    /\ pc = "iterate" => session
    /\ lost \subseteq Number /\ overtaken \subseteq Number
    /\ faults \in 0 .. MaxFaults

BridgeInit ==
    /\ published = <<>> /\ session = FALSE /\ held = <<>> /\ inFlight = 0
    /\ link = FALSE /\ pc = "connect" /\ inbox = <<>> /\ unsent = <<>>
    /\ raw = <<>> /\ lost = {} /\ overtaken = {} /\ faults = 0

Fault == faults < MaxFaults /\ faults' = faults + 1

-----------------------------------------------------------------------------
(* The MQTT broker. *)

\* A packet of a radio; without a session nobody is to have it.
Publish ==
    LET i == Len(published) + 1 IN
    /\ Len(published) < MaxPublished
    /\ \E p \in Packet : published' = Append(published, p)
    /\ held' = IF session THEN Append(held, i) ELSE held
    /\ lost' = IF session THEN lost ELSE lost \cup {i}
    /\ UNCHANGED <<session, inFlight, process, raw, overtaken, faults>>

\* The next packet of the session reaches the client, which queues it.
Receive ==
    /\ link /\ inFlight < Len(held)
    /\ inbox' = Append(inbox, held[inFlight + 1])
    /\ inFlight' = inFlight + 1
    /\ UNCHANGED <<published, session, held, link, pc, unsent, raw, lost, overtaken, faults>>

\* Its acknowledgement reaches the broker.
Acknowledge ==
    /\ link /\ inFlight > 0
    /\ held' = Tail(held)
    /\ inFlight' = inFlight - 1
    /\ UNCHANGED <<published, session, process, raw, lost, overtaken, faults>>

\* The connection breaks: the session keeps what is not acknowledged.
LoseLink ==
    /\ link /\ Fault
    /\ link' = FALSE /\ inFlight' = 0
    /\ UNCHANGED <<published, session, held, pc, inbox, unsent, raw, lost, overtaken>>

-----------------------------------------------------------------------------
(* bridge_mqtt_kafka *)

\* async with client: the client, and so its queue, is the one of before.
Connect ==
    /\ pc = "connect"
    /\ link' = TRUE /\ pc' = "subscribe"
    /\ UNCHANGED <<broker, inbox, unsent, raw, lost, overtaken, faults>>

Subscribe ==
    /\ pc = "subscribe" /\ link
    /\ session' = TRUE /\ pc' = "iterate"
    /\ UNCHANGED <<published, held, inFlight, link, inbox, unsent, raw, lost, overtaken, faults>>

\* The fault: the newest packet in the queue is forwarded first.
ForwardNewest ==
    /\ pc = "iterate" /\ inbox # <<>>
    /\ unsent' = Append(unsent, inbox[Len(inbox)])
    /\ inbox' = SubSeq(inbox, 1, Len(inbox) - 1)
    /\ UNCHANGED <<broker, link, pc, raw, lost, overtaken, faults>>

\* One message of client.messages: kafka_producer.send, whose future nobody reads.
Forward ==
    /\ pc = "iterate" /\ inbox # <<>>
    /\ unsent' = Append(unsent, Head(inbox))
    /\ inbox' = Tail(inbox)
    /\ UNCHANGED <<broker, link, pc, raw, lost, overtaken, faults>>

\* The fault: a new client, with an empty queue, for every connection.
NoticeRenewing ==
    /\ pc # "connect" /\ ~link
    /\ pc' = "connect" /\ inbox' = <<>>
    /\ UNCHANGED <<broker, link, unsent, raw, lost, overtaken, faults>>

\* MqttError: the loop sleeps and connects again.  It may first take what is queued.
Notice ==
    /\ pc # "connect" /\ ~link
    /\ pc' = "connect"
    /\ UNCHANGED <<broker, link, inbox, unsent, raw, lost, overtaken, faults>>

\* send raises (no metadata, no memory): the message is gone from the queue, and
\* leaving async with closes the connection.
SendRaises ==
    /\ pc = "iterate" /\ inbox # <<>> /\ Fault
    /\ lost' = lost \cup {Head(inbox)}
    /\ inbox' = Tail(inbox)
    /\ link' = FALSE /\ inFlight' = 0 /\ pc' = "connect"
    /\ UNCHANGED <<published, session, held, unsent, raw, overtaken>>

-----------------------------------------------------------------------------
(* The Kafka producer's thread. *)

Deliver ==
    /\ unsent # <<>>
    /\ raw' = Append(raw, Head(unsent))
    /\ unsent' = Tail(unsent)
    /\ UNCHANGED <<broker, link, pc, inbox, lost, overtaken, faults>>

\* A request that failed is repeated: the topic may have its record all the same,
\* and later records that were on their way may get there before it.
Repeat ==
    /\ unsent # <<>> /\ Fault
    /\ \/ /\ raw' = Append(raw, Head(unsent))
          /\ UNCHANGED <<unsent, overtaken>>
       \/ /\ Len(unsent) > 1
          /\ unsent' = <<unsent[2], unsent[1]>> \o SubSeq(unsent, 3, Len(unsent))
          /\ overtaken' = overtaken \cup {Head(unsent)}
          /\ UNCHANGED raw
    /\ UNCHANGED <<broker, link, pc, inbox, lost>>

\* Given up (delivery_timeout_ms): nothing but the future knows.
Expire ==
    /\ unsent # <<>> /\ Fault
    /\ lost' = lost \cup {Head(unsent)}
    /\ unsent' = Tail(unsent)
    /\ UNCHANGED <<broker, link, pc, inbox, raw, overtaken>>

\* The process dies with what it has not sent.  A container that is restarted keeps
\* its host name and so its client id; a new one's session is another.
Die ==
    /\ Fault
    /\ link' = FALSE /\ inFlight' = 0 /\ pc' = "connect"
    /\ inbox' = <<>> /\ unsent' = <<>>
    /\ \/ /\ lost' = lost \cup Range(inbox) \cup Range(unsent)
          /\ UNCHANGED <<session, held>>
       \/ /\ lost' = lost \cup Range(inbox) \cup Range(unsent) \cup Range(held)
          /\ session' = FALSE /\ held' = <<>>
    /\ UNCHANGED <<published, raw, overtaken>>

BridgeNext ==
    \/ Publish \/ Receive \/ Acknowledge \/ LoseLink
    \/ Connect \/ Subscribe \/ Forward \/ Notice \/ SendRaises
    \/ Deliver \/ Repeat \/ Expire \/ Die

\* The broker can be reached again and delivers, the loop runs, the producer's thread
\* sends.
BridgeFairness ==
    /\ WF_bridgeVars(Receive) /\ WF_bridgeVars(Connect) /\ WF_bridgeVars(Subscribe)
    /\ WF_bridgeVars(Forward) /\ WF_bridgeVars(Notice) /\ WF_bridgeVars(Deliver)

-----------------------------------------------------------------------------
(* Properties. *)

\* Until the broker has a session no packet is owed; from then on each is somewhere
\* between the broker and Kafka, or a failed send or a death took a copy of it
\* (mqtt_handler.py:67 acknowledges before Kafka has it).  A connection that breaks,
\* at whatever point, loses nothing.
NothingLost ==
    Number \subseteq lost \cup Range(held) \cup Range(inbox) \cup Range(unsent) \cup Range(raw)

\* Packets get to Kafka in the order the broker received them: redelivered after a
\* broken connection one comes again, never for the first time after a later one,
\* unless a copy of it was lost or a repeated send let others pass.
OrderIsKept ==
    \A n \in DOMAIN raw : \A i \in Number :
        i < raw[n] => \/ i \in lost \cup overtaken
                      \/ \E m \in 1 .. n : raw[m] = i
=============================================================================
