----------------------------- MODULE InfluxWriter -----------------------------
(***************************************************************************)
(* writer/influx_writer.py: the InfluxWriter process.  One consumer reads  *)
(* the decoded topic and, where it is deployed, the alarms topic; each     *)
(* poll's events become points (writer/point_builders.py), one write       *)
(* stores them, and the position on all topics is committed after it.      *)
(*                                                                         *)
(* An event is abstracted to its kind and to whether it carries a value    *)
(* that its builder turns into a field.                                    *)
(***************************************************************************)
EXTENDS Integers, Sequences, FiniteSets

CONSTANTS
    Topic,       \* the subscribed topics, one partition each
    Sent,        \* Sent[t]: the events producers may put on topic t
    MaxPoll,     \* INFLUXDB_WRITER__CONSUMER__N_MSGS
    MaxLog,      \* bound: events ever produced on a topic
    MaxFaults    \* bound: crashes plus failed InfluxDB or Kafka calls

Kinds == {"alarm", "telemetry", "position", "nodeinfo", "text", "routing", "other", "malformed"}
Event == [kind : Kinds, filled : BOOLEAN]

ASSUME SentAssumption == Sent \in [Topic -> SUBSET Event]
ASSUME BoundsAssumption ==
    /\ MaxPoll \in Nat \ {0}
    /\ MaxLog \in Nat
    /\ MaxFaults \in Nat

VARIABLES
    log,        \* the topics, by offset
    committed,  \* the offsets committed for influx-writer-group
    position,   \* the consumer's positions
    points,     \* the events the current poll made points of
    pc,         \* "poll", "write" or "commit"
    stored,     \* the events whose points InfluxDB holds
    unwritten,  \* history: events of a batch whose write failed
    faults      \* history: failures and crashes so far

consumer == <<committed, position>>
vars == <<log, consumer, points, pc, stored, unwritten, faults>>

-----------------------------------------------------------------------------
(* get_points and its builders: which events become points.  A malformed     *)
(* event makes json.loads or a builder raise, and is skipped.                *)

SkipPayloadKinds == {"text", "routing"}

HasPoints(e) ==
    \/ e.kind \in {"alarm", "nodeinfo"}
    \/ e.kind \in Kinds \ (SkipPayloadKinds \cup {"alarm", "nodeinfo", "malformed"}) /\ e.filled

Offsets == {o \in Topic \X (1..MaxLog) : o[2] <= Len(log[o[1]])}
Storable == {o \in Offsets : HasPoints(log[o[1]][o[2]])}
Committed == {o \in Offsets : o[2] <= committed[o[1]]}

TypeOK ==
    /\ log \in [Topic -> Seq(Event)]
    /\ \A t \in Topic : log[t] \in Seq(Sent[t]) /\ Len(log[t]) <= MaxLog
    /\ position \in [Topic -> Nat]
    /\ committed \in [Topic -> Nat]
    /\ \A t \in Topic : committed[t] <= position[t] /\ position[t] <= Len(log[t])
    /\ points \subseteq Storable
    /\ pc \in {"poll", "write", "commit"}
    /\ stored \subseteq Storable
    /\ unwritten \subseteq Storable
    /\ faults \in 0..MaxFaults

Init ==
    /\ log = [t \in Topic |-> <<>>]
    /\ committed = [t \in Topic |-> 0]
    /\ position = committed
    /\ points = {} /\ pc = "poll"
    /\ stored = {} /\ unwritten = {}
    /\ faults = 0

-----------------------------------------------------------------------------
Produce ==
    /\ \E t \in Topic :
          /\ Len(log[t]) < MaxLog
          /\ \E e \in Sent[t] : log' = [log EXCEPT ![t] = Append(@, e)]
    /\ UNCHANGED <<consumer, points, pc, stored, unwritten, faults>>

\* The offsets between the positions and reached.
Between(reached) ==
    {o \in Offsets : position[o[1]] < o[2] /\ o[2] <= reached[o[1]]}

\* The fault: auto-commit, which records the position before the write.
PollCommitting ==
    /\ pc = "poll"
    /\ \E reached \in [Topic -> 0..MaxLog] :
          /\ \A t \in Topic : position[t] <= reached[t] /\ reached[t] <= Len(log[t])
          /\ Cardinality(Between(reached)) \in 1..MaxPoll
          /\ position' = reached
          /\ points' = Between(reached) \cap Storable
    /\ committed' = position'
    /\ pc' = IF points' = {} THEN "poll" ELSE "write"
    /\ UNCHANGED <<log, stored, unwritten, faults>>

\* poll() returns up to max_records records of any topics, and the loop body
\* turns them into points.  A poll without points commits nothing.
Poll ==
    /\ pc = "poll"
    /\ \E reached \in [Topic -> 0..MaxLog] :
          /\ \A t \in Topic : position[t] <= reached[t] /\ reached[t] <= Len(log[t])
          /\ Cardinality(Between(reached)) \in 1..MaxPoll
          /\ position' = reached
          /\ points' = Between(reached) \cap Storable
    /\ pc' = IF points' = {} THEN "poll" ELSE "write"
    /\ UNCHANGED <<log, committed, stored, unwritten, faults>>

Write ==
    /\ pc = "write"
    /\ stored' = stored \cup points
    /\ pc' = "commit"
    /\ UNCHANGED <<log, consumer, points, unwritten, faults>>

\* The write raises; InfluxDB may have accepted some of the points before it
\* did.  "Write failed, retrying next poll": the points are gone from memory
\* and the next poll goes on from the position.
WriteFails ==
    /\ pc = "write"
    /\ faults < MaxFaults
    /\ \E accepted \in SUBSET points : stored' = stored \cup accepted
    /\ unwritten' = unwritten \cup points
    /\ points' = {} /\ pc' = "poll"
    /\ faults' = faults + 1
    /\ UNCHANGED <<log, consumer>>

\* kafka_consumer.commit(): the positions of all topics.
CommitOffsets ==
    /\ pc = "commit"
    /\ committed' = position
    /\ points' = {} /\ pc' = "poll"
    /\ UNCHANGED <<log, position, stored, unwritten, faults>>

\* commit() raises inside the same try, with or without effect at the broker.
CommitFails ==
    /\ pc = "commit"
    /\ faults < MaxFaults
    /\ committed' \in {committed, position}
    /\ points' = {} /\ pc' = "poll"
    /\ faults' = faults + 1
    /\ UNCHANGED <<log, position, stored, unwritten>>

\* The fault: auto_offset_reset "latest", for a group that never committed.
RestartLatest ==
    /\ faults < MaxFaults
    /\ position' = [t \in Topic |-> IF committed[t] = 0 THEN Len(log[t]) ELSE committed[t]]
    /\ points' = {} /\ pc' = "poll"
    /\ faults' = faults + 1
    /\ UNCHANGED <<log, committed, stored, unwritten>>

\* The process dies and is restarted: the group resumes at its offsets.
Restart ==
    /\ faults < MaxFaults
    /\ position' = committed
    /\ points' = {} /\ pc' = "poll"
    /\ faults' = faults + 1
    /\ UNCHANGED <<log, committed, stored, unwritten>>

Next ==
    \/ Produce
    \/ Poll \/ Write \/ WriteFails
    \/ CommitOffsets \/ CommitFails
    \/ Restart

\* The loop never stops and a broker that has records returns some.
Fairness == WF_vars(Poll) /\ WF_vars(Write) /\ WF_vars(CommitOffsets)

Spec == Init /\ [][Next]_vars /\ Fairness

-----------------------------------------------------------------------------
(* Safety. *)

\* Crashes and failed commits lose nothing.  An event behind the committed
\* offset that InfluxDB does not hold was in a batch whose write raised.
LossNeedsFailedWrite ==
    TypeOK /\ (Committed \cap Storable) \ stored \subseteq unwritten

\* What "Write failed, retrying next poll" promises: an event worth storing is
\* stored before the offset behind it is committed.  It does not hold: the poll
\* after a failed write reads on from the position, and its commit covers the
\* events of the failed batch.
CommittedAreStored == Committed \cap Storable \subseteq stored

-----------------------------------------------------------------------------
(* Liveness: an event worth storing is stored, or its batch's write failed;  *)
(* an event that yields no point never blocks those after it.                *)
EventuallyStored ==
    \A o \in Topic \X (1..MaxLog) : (o \in Storable) ~> (o \in stored \cup unwritten)
=============================================================================
