------------------------------- MODULE S3Writer -------------------------------
(***************************************************************************)
(* writer/s3_writer.py: the S3Writer process.  It polls the decoded topic, *)
(* collects events in a memory buffer, flushes the buffer to one Parquet   *)
(* object per device and commits the consumer's position afterwards.       *)
(*                                                                         *)
(* A record is abstracted to the device it comes from, the pair (mesh_id,  *)
(* node_id) the flush groups by, or Bad for a value json.loads rejects or  *)
(* that is null.  The topic has one partition, so the buffer is in offset  *)
(* order and a set of offsets represents it.                               *)
(***************************************************************************)
EXTENDS Integers, Sequences, FiniteSets

CONSTANTS
    Device,      \* the (mesh_id, node_id) pairs that send
    Bad,         \* a record that is skipped ("Bad message skipped")
    BatchSize,   \* S3_WRITER__BATCH_SIZE
    MaxLog,      \* bound: records ever produced
    MaxFaults    \* bound: crashes plus failed S3 or Kafka calls

ASSUME BadIsNoDevice == Bad \notin Device
ASSUME BoundsAssumption ==
    /\ BatchSize \in Nat \ {0}
    /\ MaxLog \in Nat
    /\ MaxFaults \in Nat

VARIABLES
    log,        \* the decoded topic, by offset
    committed,  \* the offset committed for s3-writer-group
    position,   \* the consumer's position: records 1..position were polled
    taken,      \* records 1..taken went through the buffering loop
    buffer,     \* the offsets buffered since the last flush that succeeded
    elapsed,    \* flush_interval has passed since last_flush
    pc,         \* "poll", "buffer" (past the await) or "flush"
    written,    \* the groups this flush has already put
    copies,     \* in how many objects of the bucket each offset is
    faults      \* history: failures and crashes so far

consumer == <<committed, position, taken>>
writer == <<buffer, elapsed, pc, written>>
vars == <<log, consumer, writer, copies, faults>>

Archived == {i \in 1..MaxLog : copies[i] > 0}
Groups == {log[i] : i \in buffer}

TypeOK ==
    /\ log \in Seq(Device \cup {Bad})
    /\ Len(log) <= MaxLog
    /\ committed \in Nat /\ committed <= position
    /\ taken \in Nat /\ taken <= position
    /\ position \in Nat /\ position <= Len(log)
    /\ \A i \in buffer : i \in Nat /\ 1 <= i /\ i <= taken /\ log[i] \in Device
    /\ elapsed \in BOOLEAN
    /\ pc \in {"poll", "buffer", "flush"}
    /\ written \in SUBSET Device
    /\ copies \in [1..MaxLog -> Nat]
    /\ faults \in 0..MaxFaults

Init ==
    /\ log = <<>>
    /\ committed = 0 /\ position = 0 /\ taken = 0
    /\ buffer = {} /\ elapsed = FALSE /\ pc = "poll" /\ written = {}
    /\ copies = [i \in 1..MaxLog |-> 0]
    /\ faults = 0

-----------------------------------------------------------------------------
(* The environment: the decoder publishes, time passes. *)

Produce ==
    /\ Len(log) < MaxLog
    /\ \E r \in Device \cup {Bad} : log' = Append(log, r)
    /\ UNCHANGED <<consumer, writer, copies, faults>>

IntervalElapses ==
    /\ ~elapsed
    /\ elapsed' = TRUE
    /\ UNCHANGED <<log, consumer, buffer, pc, written, copies, faults>>

-----------------------------------------------------------------------------
(* The loop of write_kafka_s3. *)

\* The fault: poll reads one record past the end of the topic.
PollSomePastEnd ==
    /\ pc = "poll"
    /\ \E n \in 1..BatchSize :
          /\ position + n <= Len(log) + 1
          /\ position' = position + n
    /\ pc' = "buffer"
    /\ UNCHANGED <<log, committed, taken, buffer, elapsed, written, copies, faults>>

\* poll() hands over up to max_records records and advances the position.
PollSome ==
    /\ pc = "poll"
    /\ \E n \in 1..BatchSize :
          /\ position + n <= Len(log)
          /\ position' = position + n
    /\ pc' = "buffer"
    /\ UNCHANGED <<log, committed, taken, buffer, elapsed, written, copies, faults>>

\* Nothing to read, or the broker did not answer within timeout_ms.
PollEmpty ==
    /\ pc = "poll"
    /\ pc' = "buffer"
    /\ UNCHANGED <<log, consumer, buffer, elapsed, written, copies, faults>>

\* The fault: the interval is ignored, only a full batch is flushed.
BufferFullBatchOnly ==
    LET filled == buffer \cup {i \in taken + 1 .. position : log[i] \in Device} IN
    /\ pc = "buffer"
    /\ buffer' = filled
    /\ taken' = position
    /\ pc' = IF Cardinality(filled) >= BatchSize THEN "flush" ELSE "poll"
    /\ UNCHANGED <<log, committed, position, elapsed, written, copies, faults>>

\* The fault: only the interval triggers a flush, however full the buffer is.
BufferIntervalOnly ==
    LET filled == buffer \cup {i \in taken + 1 .. position : log[i] \in Device} IN
    /\ pc = "buffer"
    /\ buffer' = filled
    /\ taken' = position
    /\ pc' = IF filled # {} /\ elapsed THEN "flush" ELSE "poll"
    /\ UNCHANGED <<log, committed, position, elapsed, written, copies, faults>>

\* After the sleep: decode the polled records into the buffer, then should_flush.
Buffer ==
    LET filled == buffer \cup {i \in taken + 1 .. position : log[i] \in Device} IN
    /\ pc = "buffer"
    /\ buffer' = filled
    /\ taken' = position
    /\ pc' = IF \/ Cardinality(filled) >= BatchSize
                \/ filled # {} /\ elapsed
             THEN "flush" ELSE "poll"
    /\ UNCHANGED <<log, committed, position, elapsed, written, copies, faults>>

\* The group that flush puts next: its first record precedes those of the others.
NextGroup(i) ==
    /\ i \in buffer
    /\ log[i] \notin written
    /\ \A j \in buffer : j < i => log[j] \in written

WithCopiesOf(d) ==
    [j \in DOMAIN copies |-> copies[j] + (IF j \in buffer /\ log[j] = d THEN 1 ELSE 0)]

\* One put_object, holding every buffered record of the group.
PutObject ==
    /\ pc = "flush"
    /\ \E i \in buffer :
          /\ NextGroup(i)
          /\ copies' = WithCopiesOf(log[i])
          /\ written' = written \cup {log[i]}
    /\ UNCHANGED <<log, consumer, buffer, elapsed, pc, faults>>

\* The fault: the buffer is dropped whether or not the flush succeeded.
PutFailsClearing ==
    /\ pc = "flush"
    /\ faults < MaxFaults
    /\ \E i \in buffer : NextGroup(i)
    /\ buffer' = {} /\ written' = {} /\ pc' = "poll"
    /\ faults' = faults + 1
    /\ UNCHANGED <<log, consumer, elapsed, copies>>

\* put_object raises, with or without the object having reached the bucket.
\* "S3 write failed, retrying next poll": the buffer is kept as it is.
PutFails ==
    /\ pc = "flush"
    /\ faults < MaxFaults
    /\ \E i \in buffer :
          /\ NextGroup(i)
          /\ copies' \in {copies, WithCopiesOf(log[i])}
    /\ pc' = "poll"
    /\ written' = {}
    /\ faults' = faults + 1
    /\ UNCHANGED <<log, consumer, buffer, elapsed>>

\* The fault: the buffer is not emptied after the flush.
CommitOffsetsKeeping ==
    /\ pc = "flush"
    /\ Groups \subseteq written
    /\ committed' = position
    /\ elapsed' = FALSE /\ pc' = "poll" /\ written' = {}
    /\ UNCHANGED <<log, position, taken, buffer, copies, faults>>

\* flush returned: commit the position, start a new buffer.
CommitOffsets ==
    /\ pc = "flush"
    /\ Groups \subseteq written
    /\ committed' = position
    /\ buffer' = {} /\ elapsed' = FALSE /\ pc' = "poll" /\ written' = {}
    /\ UNCHANGED <<log, position, taken, copies, faults>>

\* commit() raises, with or without the broker having recorded the offset; the
\* same records are flushed again, into new objects.
CommitFails ==
    /\ pc = "flush"
    /\ Groups \subseteq written
    /\ faults < MaxFaults
    /\ committed' \in {committed, position}
    /\ pc' = "poll"
    /\ written' = {}
    /\ faults' = faults + 1
    /\ UNCHANGED <<log, position, taken, buffer, elapsed, copies>>

\* The fault: the restart resumes where the dead process had read to.
RestartAtPosition ==
    /\ faults < MaxFaults
    /\ taken' = position
    /\ buffer' = {} /\ elapsed' = FALSE /\ pc' = "poll" /\ written' = {}
    /\ faults' = faults + 1
    /\ UNCHANGED <<log, committed, position, copies>>

\* The process dies; docker restarts it and the group resumes at its offset.
Restart ==
    /\ faults < MaxFaults
    /\ position' = committed /\ taken' = committed
    /\ buffer' = {} /\ elapsed' = FALSE /\ pc' = "poll" /\ written' = {}
    /\ faults' = faults + 1
    /\ UNCHANGED <<log, committed, copies>>

Next ==
    \/ Produce \/ IntervalElapses
    \/ PollSome \/ PollEmpty \/ Buffer
    \/ PutObject \/ PutFails
    \/ CommitOffsets \/ CommitFails
    \/ Restart

\* The loop never stops, time passes, and a broker that has records hands some
\* over if it is polled again and again.
Fairness ==
    /\ WF_vars(IntervalElapses)
    /\ SF_vars(PollSome)
    /\ WF_vars(PollEmpty)
    /\ WF_vars(Buffer)
    /\ WF_vars(PutObject)
    /\ WF_vars(CommitOffsets)

Spec == Init /\ [][Next]_vars /\ Fairness

-----------------------------------------------------------------------------
(* Safety. *)

\* Every event behind the committed offset is in the bucket, whatever failed or
\* crashed on the way: write_kafka_s3 commits only after all groups were put.
CommittedAreArchived ==
    \A i \in 1..committed : log[i] \in Device => copies[i] > 0

\* An event is archived twice only where something failed: each failed call or
\* crash lets a record into at most one more object.
DuplicatesNeedFaults == \A i \in 1..MaxLog : copies[i] <= 1 + faults

\* The buffer stays within two batches, plus one batch for every failed flush,
\* although the loop goes on polling while S3 is down.
BufferIsBounded == Cardinality(buffer) < BatchSize * (2 + faults)

\* The writer implements the at-least-once sink.
Sink == INSTANCE AtLeastOnce WITH
            Storable <- Device, Dropped <- {Bad}, stored <- Archived

SinkSpec == Sink!Spec

-----------------------------------------------------------------------------
(* Liveness: once crashes and failures stop, every event reaches the bucket, *)
(* the last ones too, which never fill a batch: the flush interval does it.  *)
EventuallyArchived ==
    \A i \in 1..MaxLog :
        (i \in DOMAIN log /\ log[i] \in Device) ~> (copies[i] > 0)
=============================================================================
