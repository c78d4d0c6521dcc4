# A verification of meshtastic-things

TLA+ modules of the Meshtastic telemetry pipeline, the TLC configurations that
check them and the proofs that go with them. Paths below are relative to
`src/meshtastic_things/`.

## The system

Radios publish encrypted packets over MQTT. A bridge puts them on the Kafka topic
`mesh.telemetry.raw.v1`; a decoder turns those of registered gateways into
`mesh.telemetry.decoded.v1`; writers store decoded events in InfluxDB and in S3.
keyapi (Django, Postgres) keeps owners, meshes and devices, and tells the decoder of
gateways and rejected nodes through two compacted topics, `mesh.keys.v1` and
`mesh.node_rejections.v1`. All topics have one partition. Every container is
restarted when it dies.

| component | state | operations | interacts through | what makes it hard |
|---|---|---|---|---|
| MQTT bridge (`bridge/`) | MQTT session at the broker, client queue, producer buffer | connect, subscribe, forward, reconnect | MQTT broker, raw topic | acknowledges and forwards without waiting for Kafka |
| Decoding (`common/decode.py`, `codec.py`) | none | `decode_packet` | called by both decoders | what is authorized, and when |
| Lite decoder (`pipeline/decode_consumer.py`) | `gateway_state`, `rejected_nodes` in memory, two consumers | `consume_config`, `consume_decode` | raw and config topics in; decoded, sightings, discovery out | two coroutines, auto-commit, partial publish, restart |
| Flink decoder (`flink/decode_job.py`) | checkpointed broadcast state | `process_element`, `process_broadcast_element` | the same topics | checkpoints and replay |
| InfluxDB writer (`writer/influx_writer.py`) | one batch | poll, write, commit | decoded and alarm topics; InfluxDB | failed writes, several topics |
| S3 writer (`writer/s3_writer.py`) | buffer, `last_flush` | poll, flush, commit | decoded topic; S3 | batching, partial flush, failures |
| Gateway registry (`keyapi/registry/views.py` and its publisher) | meshes and devices tables | POST/PUT/DELETE of devices, PUT/DELETE of meshes | config topics | no transactions, two workers, publishes that fail or are late |
| Device sightings (`consume_device_sightings.py`) | device rows, offsets | get_or_create, fill in, commit | sightings topic, database | races with the views, deleted rows |
| Owner accounts (`views.py`, `authentication.py`) | owners table | signup, verify, change email, reset, rotate key | revocation topic, email | tokens racing changes |
| queryapi cache (`queryapi/telemetry/authentication.py`) | cached introspection answers | authenticate, revoke | keyapi over HTTP, revocation topic | fill racing invalidation |
| Catalogue, sensor discovery | catalogue rows | upsert | discovery topic | several owners of a row |
| Quality worker (`quality_worker/`) | none | align, run steps, completeness | InfluxDB, keyapi, alarms | boundaries, several gateways per node |
| Alarm emails (`consume_quality_alarms.py`) | cooldown cache | route, email | alarms topic | cooldown set before the email |
| Pattern detection, calibration (`flink/`, `common/detectors.py`, `common/calibration.py`) | broadcast configs and rules, the last five values | calibrate, detect | decoded, calibration, rules, calibrated and alarms topics | windows, boundaries, copies, checkpoints |
| Seeding (`seed_from_env.py`) | rows | create and publish once | database, config topics | its publish is never repeated |
| Health checks, read views | timestamps | | | |

`PROJECT.json` lists every component with what is modelled of it, and under
"hazards" what is hard to test in this code, line by line, with the property that
would catch it or the reason there is none yet.

## What makes the components correct

- A sink stores an event before it commits the offset behind it, whatever fails;
  it does not store it again and again; its memory stays bounded; every event is
  stored in the end.
- A decoder holds exactly what the config topics say, publishes only what the
  latest registration authorizes, publishes the side events of a packet only with
  the packet, and commits only what it has dealt with.
- The registry keeps the database and the config topics in step: a gateway is
  known to the decoder exactly if it is registered and allowed, with the mesh's
  current key; failed requests are undone.
- A packet the broker took reaches Kafka, in order, and a report reaches its device;
  what the owner sets there takes precedence.
- A value is calibrated by the config for it; an alarm has the values behind it that
  it speaks of, and values that are stuck raise one.
- A revoked key stops working; only a verified address is active.
- The algorithms agree with their reference definitions at every boundary.

## Modules

| module | models | state and actions in the code's terms |
|---|---|---|
| `AtLeastOnce` | the promise of every sink | a topic, what is stored, the committed offset |
| `S3Writer` | `S3Writer.write_kafka_s3`, `flush` | `pc` is the place in the loop: `PollSome`/`PollEmpty` the poll, `Buffer` the loop body after the await, `PutObject` one group of `flush`, `CommitOffsets` the end of the `try`, `PutFails`/`CommitFails` the `except`, `Restart` a new process |
| `S3WriterProofs` | | theorems of `S3Writer` |
| `BridgeProofs`, `DecodeConsumerProofs`, `DecodeJobProofs`, `GatewayRegistryProofs`, `OwnerAccessProofs`, `AlarmEmailsProofs` | | theorems of the modules they are named after, `BridgeProofs` also of `DeviceSightings`, `OwnerAccessProofs` of `OwnerAccount`, `AlarmEmailsProofs` of `QualityAlgorithms` |
| `StreamProofs` | | theorems of what is behind the decoded topic: `StreamJobs`, `Calibration` and `InfluxWriter` |
| `InfluxWriter` | `InfluxWriter.write_kafka_influx`, `get_points` | `Poll` is the poll and the building of points, `Write`/`WriteFails` the write, `CommitOffsets`/`CommitFails` the commit |
| `Decode` | `decode_packet`, the codec, config events | operators only: `Events`, `GatewayAfter`, `RejectedAfter` |
| `DecodeConsumer` | `DecodeConsumer` | `running` is the coroutine that holds the event loop; `PollConfig`, `ApplyConfigEvent` are `consume_config`; `PollRaw`, `Wake`, `DecodeNext`, `Send`, `SendFails`, `FinishBatch` are `consume_decode` and `_publish` |
| `GatewayRegistry` | the device and mesh views, `KeyEventPublisher`, `_upsert` of sightings | a request is a record of the worker that serves it; one action for its reads, one per statement, one per publish, one for its rollback; `ConnectFails` is `get_publisher()` raising before the `try`; `Seed` is `seed_from_env.py`, which runs before any worker serves |
| `Bridge` | `MQTTHandler.bridge_mqtt_kafka` | `pc` is the place in the loop: `Connect` is `async with client`, `Subscribe` the subscription, `Forward` one message, `Notice` and `SendRaises` the two `except`; `Receive`, `Acknowledge` are the MQTT client's, `Deliver`, `Repeat`, `Expire` the Kafka producer's |
| `DeviceSightings` | `consume_device_sightings.py` and the views of the same row | extends `Bridge`; `Poll`, `Commit` are the loop of `handle`, `GetOrCreate`, `FillIn` the two halves of `_upsert`, `SkipSighting` the `except` around it; `PutDevice`, `SavePut`, `SaveFlag` are a PUT's read and its two saves |
| `Calibration` | `common/calibration.py` | operators only: `OffsetScale`, `LookupTable`, `ApplyCalibration`; `OnCurve` is the reference |
| `StreamJobs` | `calibration_job.py`, `pattern_detection_job.py`, `common/detectors.py` | `ProcessDecoded`, `ProcessCalibration`, `ProcessObservation`, `ProcessRule` are the two methods of each job; `Checkpoint`, `RestartCalibration`, `RestartDetection` are Flink's, `Submit` a new job |
| `DecodeJob` | `decode_job.py`, `submit-job.sh` | `ProcessElement` and `ProcessBroadcastElement` are the methods of that name; `Write` one of the three sinks; `TriggerCheckpoint`, `CompleteCheckpoint`, `Restart` are Flink's, `Submit` a new job |
| `OwnerAccount` | the views of `/owners` | a request is what it read of the row and the step it has to take next; one action for its reads, one per `save`, email and publish |
| `OwnerAccess` | queryapi's `authenticate`, the revocation worker | extends `OwnerAccount`; `Present`, `Introspect`, `Store` are a request of queryapi, `Expire` the cache's lifetime, `Handle`, `CommitHandled` the worker |
| `QualityAlgorithms` | `executor.py`, the series logic of `tasks.py` | operators only: `AlignSeries`, `RunSteps`, `Outputs`, `LargestGap`, `Patchy` |
| `QualityWorker` | `quality_worker/tasks.py`, `celery_app.py`, `consume_sensor_discovery.py` | `job` is what a worker process is doing: `ScanDevices`; `ComputeOutputs`, `WriteDerived`, `PublishDiscovery` of `run_blueprint`; `CheckChannel`, `FinishCheck` of `check_completeness`; `TaskFails` a task that raises, `WorkerLost` one whose process dies; `Register`, `RegisterFails` are keyapi's `consume_sensor_discovery` |
| `AlarmEmails` | `consume_quality_alarms.py` | extends `QualityWorker`; `Poll`, `Commit` and `Restart` are the loop of `handle`; `Skip`, `StartCooldown`, `SendEmail` are `_handle`, `EmailFails` the `except` around it |
| `MC*` | | the small instances TLC checks |

`DecodeConsumer`, `DecodeJob` and `GatewayRegistry` extend `Decode`: `keys` and
`rejections` in the registry change by the operators the decoders apply. `Decode` also
says what a config topic says (`GatewayFollows`, `RejectionFollows`, `Authorizes`),
without mentioning those operators: the reference both decoders are checked against.

Definitions named as a fault ("The fault: ...") are plausible bugs; each stands
before the definition it would replace and makes TLC find the property violated
that `PROJECT.json` names under "mutants". They are no part of the models.

### Abstractions

- Records are their kind and sender, never their text. Fields of a point are "some"
  or "none". A Parquet object is the set of offsets in it.
- A packet decrypts exactly with the key it was encrypted with. A wrong key gives
  bytes that, in the model, never parse.
- A Kafka or S3 call that raises may or may not have taken effect. A publish that
  timed out may be delivered later, or never.
- `GatewayRegistry`: what a request reads at its start is one step, every later
  statement and publish a step of its own. Requests that pin a position or an
  identity, change intervals or blueprints are left out; so is the mesh's label,
  but a request without a new key is in, since it writes the key back. `keys` and
  `rejections` are a decoder that replays the topics from the beginning. Seeding is
  of a gateway on a mesh there is; a database that refuses it (the device is allowed
  elsewhere) ends the command, as a failed publish does.
- `DecodeJob`: the operator takes the elements of its inputs in any order; a
  checkpoint is a cut of what it has processed, complete when the sinks have flushed.
  One instance of the operator stands for all, which share nothing but the broadcast.
- `OwnerAccount`: keys and tokens are counted, so "newer" is "greater". Links never
  expire, which is more behaviour than the code has. What is left out is in the
  module's first comment. `OwnerAccess` leaves cached answers out that change nothing,
  and keeps no time: an answer may expire at any moment and does so in the end.
- `QualityAlgorithms`: times are whole numbers, a value is the place of its reading. A
  series may be any sequence of times, as the tables of several gateways stand behind
  one another; the references say which of them one gateway heard (`InOrder`).
  The algorithms of the steps (`common.algorithms`) are not in the repository: a step
  of one output fails on a row or has a result. `QualityWorker` has one device, whose
  readings and settings stay as they are, since properties of whether it hears of
  them in the end suppose that; metric points and units are left out.
  Only derived channels are followed to keyapi's catalogue.
- `AlarmEmails`: `reachable` stands for the existence of the device and the owner's
  verified address. The alarms topic is kept from the committed offset on.
- `Bridge`: packets are numbered in the order the broker takes them. The MQTT client
  acknowledges what it queues, and the broker hands out again, from the first that is
  not acknowledged, what it sent on a broken connection. One bridge subscribes; a
  shared subscription would give each a part of the packets.
- `DeviceSightings`: one device on one mesh. The raw topic stands for the sightings
  topic, with a decoder in between that passes all on in order (it has modules of its
  own). The position stands for the four identity fields too, which are filled in and
  pinned by the same pair of writes; `last_seen` is left out.
- `StreamJobs`: one field of one node. Numbers are whole, in a unit fine enough for the
  tables in use (`UnitAssumption`: no interpolation leaves a rest). A sink is flushed before a checkpoint completes and a restart returns
  a job to one, so a step writes straight to the next topic. A job may take its inputs
  in any order, so the topics are complete from the start; the detector's window is
  `Window`, 3 in the run and 5 in the code.
- Owners and permissions: a request that is refused changes nothing and is left out.

## Runs

| run | shows | instance |
|---|---|---|
| `s3_writer` | the S3 writer loses nothing, duplicates only on failures, stays bounded, implements `AtLeastOnce`, archives everything | 2 devices, batches of 2, 4 records, 2 faults |
| `influx_writer` | crashes and failed commits lose nothing; what is lost was in a batch whose write failed; nothing blocks | 2 topics, 2 records each, polls of 2, 2 faults |
| `influx_writer_retry` | finding: a failed write is not retried | the same with 1 fault |
| `decode_consumer` | the dictionaries are the replay of what was read; output is authorized by the latest registration; side events follow; commits pass only over what was published, dropped, or failed and was left behind; progress | 1 gateway with 2 keys, 1 node, 2 key events, 1 rejection event, 2 packets, 1 fault |
| `decode_consumer_restart` | finding: a restart forgets registered gateways | the same |
| `gateway_registry` | database and decoder agree, except after failures and races, which the next undisturbed publish repairs; rejections are backed, and rejected nodes stay out; nothing is decoded that was never granted; failed requests are undone | 2 devices, 2 meshes, 2 keys, 2 rows, 2 workers, 2 requests, 2 faults, any consistent table to start from |
| `gateway_registry_connect` | finding: a change of key is not rolled back when Kafka cannot be reached | the same, without symmetry |
| `owner_access` | the cache accepts a dead key only for the reasons listed; cache and keyapi agree in the end; an active account's address is verified, reset links work once and in order, a revoked key is no account's key, except after requests that collide, see below | 2 addresses, 2 workers, 2 requests of all 8 kinds, 2 requests of queryapi at a time, 1 fault; from no account, or a verified one whose owner has asked to reset the password |
| `decode_job` | the broadcast state is the replay of the config topics through restarts; only what the latest registration allows is emitted; what is behind a checkpoint has all its events; every packet gets there | 1 gateway, 2 meshes, 1 node, 2 key events, 1 rejection event, 1 packet, 2 restarts or submissions |
| `alarm_emails` | alignment takes the nearest readings, completeness finds every gap; one email per cooldown; a channel is silent only while an email is due, sent or failed, and not for ever; derived channels are in the catalogue in the end | 1 device, 2 channels, 3 histories, one of them heard by 2 gateways, a blueprint of 2 steps, one of which may fail, 1 worker process, 2 alarms, 1 fault; alignment of each history with every two series of up to 3 of 7 times, gaps in all series of up to 5 of 10 |
| `device_sightings` | the bridge loses only what a failed send or a death took and keeps the order of first copies; a row is what sightings and requests one by one make of it, except after a race; every report reaches the row | 2 packets, 2 positions, 2 requests, 1 fault |
| `stream_jobs` | values follow the curve of the config that was the latest; alarms are backed by the values they name; stuck values raise one | 4 tables around 7 values, 3 topics of up to 4 records and configs, restarts or submissions: 1; a window of 3 |

Bounds, all named in the modules (`MaxLog`, `MaxRaw`, `MaxConfig`, `MaxPublished`,
`MaxRequests`, `MaxQueue`, `MaxAlarms`, `MaxFaults`), are guards of the actions they bound. They are
chosen so that the interesting case happens and one more: a full batch and a rest that
only the interval flushes; a failed flush whose buffer meets the next poll; a crash
after a failure; a registration that changes while a packet of the old one waits; two
requests that meet and a fault in each. `gateway_registry` starts from every table
that requests served one by one can leave, so two requests reach what otherwise takes
many. The two requests of `owner_access` are every pair of kinds, one after the other or
overlapping: a rotation that meets a rename or a deletion, a verification that meets a
change of address, two resets; what takes more of them is proved for any number. One packet is enough for `decode_job`, where packets
meet only in a checkpoint's cut; restarts replay it. In `alarm_emails` two alarms let
a batch be handled in part when the consumer dies; a second process of the worker
would share nothing with the first but the queue. `AlignmentIsNearest` and
`GapsAreFound` speak of readings that never change and are evaluated before the first
scan only. In `device_sightings` two packets are the
least that can change places, and two requests let a deletion or a registration meet
a PUT; that nothing is lost when several faults of the bridge meet is proved without a
bound. `stream_jobs` plays given topics (`MCScenario`): each table with every value
in, between and outside its points; configs of two payload kinds put, unknown and
deleted; runs of equal values broken by a missing number, another value or a copy.
The writers do not look at what is in a record, and devices, meshes, keys,
rows and workers are interchangeable (symmetry is used where only safety is checked).

Deadlock is checked for the S3 writer and the alarm emails, which never stop. The
others are silent when the bounds are used up and no fault or record is left.

### Fairness

- `S3Writer`, `InfluxWriter`: the loop is weakly fair, as nothing in it returns.
  `PollSome` is strongly fair in `S3Writer`, where an empty poll may always come
  instead: a broker that has records hands some over if it is asked again and
  again. Time passes. Failures, crashes and producers are not fair.
- `DecodeConsumer`: both coroutines are scheduled again and again by one event
  loop; their polls are disabled while the other runs, so they are strongly fair.
- `DecodeJob`: Flink schedules the tasks, the sinks flush, and a checkpoint is
  triggered every ten seconds (the cluster's `execution.checkpointing.interval`).
  Broadcast elements, restarts and submissions are not fair.
- `OwnerAccess`: a call of keyapi has a timeout (`authentication.py:59`) and a cached
  answer a lifetime (`CACHE_TTL_SECONDS`). Nothing else is fair, not even the
  revocation worker: `AnswersConverge` holds without it.
- `AlarmEmails`: beat queues a scan when the queue is short, processes work on (the
  broker and the services have timeouts), the consumers loop, a cooldown ends
  (`ALARM_EMAIL_COOLDOWN_SECONDS`). Faults are bounded: a service that fails at every
  attempt silences anyone. That the worker waits when `MaxAlarms` are uncommitted is
  the model's bound, not the code's.
- `Bridge`, `DeviceSightings`: the broker delivers what a session holds, the loop
  connects again (it retries without end) and takes what is queued, the producer's
  thread sends; the consumer polls, handles and commits. Faults and requests are not
  fair.
- `StreamJobs`: both jobs process what is there to read. Configs, rules, restarts and
  submissions are not fair.
- `GatewayRegistry`, `OwnerAccount`: safety only, no fairness.

### Types

Each module has one type invariant. It is a conjunct of the module's main invariant
(`TypeOK /\ ...`), so a run checks both at once; only `S3Writer`, whose theorems
include it, checks it by name.

### Requests that collide

keyapi has no transactions around a request, so the safety properties of
`OwnerAccount` cannot hold of every interleaving. `collided` says that a statement
wrote over, or relied on, columns another request had changed since this one read
them, or that a worker died inside a change of address. Without the condition TLC
finds, each with two requests that overlap and no fault:

- `RevokedStayRevoked`: PUT `/owners/me` reads the row, a rotation replaces the key
  and revokes the old one, the PUT saves all columns (`views.py:339`) and with them
  the old key; the new one works no more.
- `ActiveIsVerified`: a link for the first address is looked up, a PUT changes the
  address and deactivates the account, then `views.py:164` activates it. The same with
  a resend that read the first address (`views.py:179`) and mails it a new link.
- `RevokedStayRevoked` again: a PUT that read the row before a deletion inserts it
  again with its revoked key.
- `ResetLinksWorkOnce`: two requests look one link up before either clears it
  (`views.py:303`).

What the views promise in words, they promise of all requests: "Changing the address
deactivates the account until the new one is verified" (`views.py:332-333`) and "Issue a
new API key and revoke the previous one immediately" (`views.py:395`). The properties
show that requests keep these promises, and reset links work once, as long as none of
them collide; of those that do they claim nothing. That a reset link works once no line
says. `StaleAnswersExplained` needs no such condition: it names the keys that were
overwritten (`unrevoked`).

`PinnedTakesPrecedence` of `DeviceSightings` has such a condition too (`raced`). Without
it TLC finds a sighting that asks whether the position is pinned of a row it has read
before the PUT that pins it (`consume_device_sightings.py:65`), and overwrites the
position given, against `views.py:652-653`.

## Findings

Each is a property that a line of the repository promises and a run of its own shows
violated.

1. `writer/influx_writer.py:80` says "retrying next poll"; the next poll reads on,
   and its commit covers the batch that was not written (`CommittedAreStored`). The
   S3 writer, which has the same line, keeps its buffer and does retry.
   `pipeline/decode_consumer.py:144` has it too and does not: the batch with the failed
   packet stays uncommitted, but the loop polls on behind it and the next batch that
   succeeds commits past it. `CommittedAreSettled` says of the decoder what is true:
   such a packet is lost only by being left behind so, as history notes (`skipped`).
2. `pipeline/decode_consumer.py:62` auto-commits the config topics, while what it
   read from them lives in memory: a restarted decoder drops, and commits, the
   packets of gateways registered before (`RegisteredGatewaysKnown`).
3. `views.py:518` calls `get_publisher()` after the new key of a mesh is saved and outside
   the `try`. It makes the `KafkaProducer` (`kafka_publisher.py:48`, `176-191`), which raises
   when no broker can be reached: the request ends with a key in the table that no
   gateway was sent, against "the whole update is rolled back if that fails"
   (`views.py:507`, `KeyChangesRollBack`). Line 700 is the same for `is_allowed`.
   `get_publisher()` of the other views is inside the `try` or before any write.

### Met while modelling

These are disagreements, too, without a run of their own. The properties that hold are
stated so that they do not hide them.

- The restart of finding 2 may return to an offset before an upsert and the delete
  behind it. When a poll hands the upsert over alone, the decode coroutine runs before
  the next one and publishes a packet of the disallowed gateway, while `views.py:654`
  says "Disallowing a gateway stops its traffic being decoded." This needs the two
  events in different polls, or the auto-commit in between. `OutputIsAuthorized` is
  therefore about the events the process itself has read, or an earlier one committed.
- `env.example:222-223` says of `PATTERN_DETECTION__FLAT_VALUE_HOURS` "How long a channel
  must stay unchanged to count as flat". `flat_window_for` (`detectors.py:17`) turns hours
  into readings, but no job calls it and nothing reads the setting: five equal readings
  are flat, whatever time they make up.
  `EventuallyAlarmed` is about that window of five, as `detectors.py:13` describes it.
- `influx_io.py:44` puts the tables of a query one after the other. Points carry the
  gateway as a tag (`point_builders.py:39`), so a device heard by two gateways has two
  tables, each sorted by itself. The cursors of `align_series` then meet times that go
  back, and rows are missing or not of the nearest readings, against
  `executor.py:32-35`. `AlignmentIsNearest` has one gateway as its premise.
- For the same reason a reading counts once per gateway: of four expected readings two
  may be missing without an alarm, against `env.example:211` ("fewer than this fraction
  of expected readings arrived"). `GapsAreFound` has the same premise.
- Requests about one account that overlap, and a sighting that overlaps a PUT: see
  "Requests that collide".
- `consume_quality_alarms.py:6` lists the alarms of the Flink jobs among those it
  emails. `pattern_detection_job.py:136-146` names `node_id` and `field` in them, not
  `mesh_id` and `device_id`, so the consumer skips every one as unroutable (line 72).
  They are `StreamAlarm` in the model.
- PUT `/meshes/{id}` promises that "the whole update is rolled back" when the new key
  cannot be redistributed (`views.py:507`). The rollback (`views.py:523`) puts the old
  key back in the database, and neither the label nor the gateways that were sent the
  new key already, or whose publish is delivered late, are put back. `DecoderAgrees`
  holds with such devices marked `suspect`.
- `serializer.save()` (`views.py:672`) writes back the whole row as it was read, so two
  requests none of which fails, a PUT and a PUT that disallows the gateway meanwhile,
  can leave it allowed in the database and unknown to the decoder; "Registering a
  gateway authorizes its traffic to be decoded" (`views.py:599`). Races are `suspect`
  too, until an undisturbed request publishes again.
- Two rejected registrations of a node on one mesh share a key of
  `mesh.node_rejections.v1`. Deleting or allowing one (`views.py:709`, `views.py:732`)
  lets the node in while the other still rejects it (`LetsIn`, the one exception of
  `RejectedStayOut` that needs neither a failure nor a race).
- `seed_from_env.py:43` looks for the gateway's row, not for its publish: when the
  publish at line 47 fails, the container restarts, finds the row and serves with a
  gateway the decoder does not know. If the device is allowed on another mesh, the
  creation at line 44 raises on every start, and the `&&` of `Dockerfile:26` keeps keyapi
  from ever serving.
- The message of a stuck alarm speaks of "consecutive readings"
  (`pattern_detection_job.py:101`). A reading is on the decoded topic once for every
  gateway that heard it, and again after a replay, so five copies of one reading raise
  the alarm. `AlarmsAreBacked` claims different readings only where there are no copies.
- `mqtt_handler.py:35` takes the client id from the host name: a container that is
  replaced, not restarted, leaves its session and the packets in it behind.

## Proofs

`S3WriterProofs` proves, for every set of devices, batch size and bounds, with the
assumptions `BadIsNoDevice` and `BoundsAssumption` of `S3Writer`:

- `TypeCorrect`: `TypeOK` is an invariant. It is inductive and orders the offsets:
  `committed <= position`, `taken <= position <= Len(log)`.
- `NoEventLost`: not inductive. The inductive invariant `IInv` is `TypeOK`, the
  property, `committed <= taken`, and the parts that say how `flush` works:
  everything taken from the topic is still buffered or has a copy (`NothingSkipped`);
  all that was polled is taken, except between a poll and its buffering (`AllTaken`);
  `written` is empty outside a flush (`WrittenInFlush`), and in a flush the groups in
  it have copies (`WrittenArePut`). `FlushedAreArchived` draws the conclusion a commit
  needs: when every group is written, everything polled is archived.
- `DuplicatesBounded`: from `CopiesPaidFor`, an inductive invariant relative to `IInv`:
  the copies of an offset, and one more while it is still to be put, are paid for by
  the faults so far.
- `BufferBounded`: the buffer is within a batch more than the faults so far pay for.
  The inductive part is `RoomForABatch`: outside a flush the buffer is a batch below the
  bound, so that a poll fits; a flush that fails keeps it full and costs a fault.
- Each invariant has one step per action. The lemmas on `Append`, `copies`, offsets and
  cardinalities carry the leaves.
- `ImplementsAtLeastOnce`: under the mapping `stored <- Archived`, the initial
  state is the sink's and every step is a `Produce`, `Store`, `Commit` or stutter.

`StreamProofs` proves `LossExplained`, for any topics, batch sizes and bounds: an
event that has points and lies behind the committed offset was stored, or was in a
batch whose write raised. The inductive invariant adds to `TypeOK` the same for
everything behind the position, the batch at hand included (`Covered`), since a commit
always takes the position; and that a batch is stored when the loop gets to its commit.

`BridgeProofs` proves `BridgeLosesNothing`, over the whole of `DeviceSightings`: a
packet the broker has taken since the bridge first subscribed is held by the session,
queued, unsent or in Kafka, or a failed send or a death took a copy of it. The property
alone is not inductive, since an acknowledgement removes a packet from the session;
`QueuedFirst` adds that what is in flight, and may so be acknowledged, has been queued,
and is in Kafka, behind the queue or lost. keyapi's steps leave the bridge alone.

`BridgeKeepsOrder` proves `OrderIsKept` from the same invariant and `InOrder`: every
packet before one in a queue is ahead of it there, in a queue further on, in Kafka, lost,
or was overtaken by a retried send. A new packet keeps it because nothing is lost
(`NothingLost`), one that the broker hands over or forgets because of `QueuedFirst`; a
broken connection leaves the session's queue as it is, to be handed over from its head.

`PinnedPositionsStay`, in the same module, proves `PinnedTakesPrecedence`, over the
workers and the consumer together (`MarksAssumption`: the marks for no row, a deleted
row and an idle worker are none of the values they stand beside). A position is written
by steps that read the row before, so `RowInv` speaks of whoever holds a row, too:
one that holds a row which is not gone finds one when it saves (`RowIsThere`); and
unless a race was noted the row is what was promised or, when a PUT is between its two
saves, has the position that the PUT has yet to pin, and what is promised is what the
PUT will leave (`RowAsPromised`). `RowsOK` and `OffsetsOK` give the types and order the
consumer's offsets.

Both decoder modules begin with the same lemmas: applying one more config event with
`GatewayAfter` or `RejectedAfter` keeps in step with the topic what was in step before
it (`GatewayApplied`, `RejectionApplied`), whatever the event and the key. "The last
event about a key" is so carried along one event at a time, without an induction over
the topic; and an entry that is in step is the registration the topic authorizes
(`FollowedAuthorizes`).

`DecodeConsumerProofs` proves the four safety properties of the lite decoder, for any
config events and packets (`EventsAssumption`), batch size and bounds. The inductive
invariant adds these parts to them:

- `AppliedBetween`: whenever `consume_config` does not hold the event loop, it has
  applied all it polled. A packet is then decoded with what the last registration says.
- `Publishing`: while the sends of a packet go on, its registration stays, `pending` is
  a tail of its events, and those in front of it are on their topics. A packet whose
  last send succeeds is therefore published completely.
- `DoneAreSettled`: every packet the loop has passed is dropped, published or failed,
  and those of earlier batches that failed are noted as skipped, since a commit covers
  all that was passed. `FailedHold` keeps a batch with a failed packet from its own commit.

`DecodeJobProofs` proves the same of the Flink decoder, through checkpoints, restarts
and submissions. A restart replaces the operator's state by the checkpoint's, and a
checkpoint is complete only when the sinks have flushed, so the invariant says of three
states what the properties say of one: operator, snapshot under way and checkpoint all
follow the topics (`AllFollow`), and all they have processed is settled, counting what
is unsent for the first and what is due for the second (`AllSettled`).

`GatewayRegistryProofs` proves `OnlyGrantedAreDecoded` for any devices, meshes and keys
and any number of workers, rows, requests and faults, from `DevicesAssumption` (a
gateway is also a node), `RowsAssumption` (no row is the missing row) and
`BoundsAssumption`. The decoder learns
of a gateway from a publish that may be long after the row was read, and delivered
later still, so the invariant says of everything on its way that it was granted:
the rows (`RowsGranted`), the late publishes (`LateGranted`), what a request still
publishes, except what it is about to write (`EventsGranted`), and the row a rollback
would put back (`UndoGranted`). That a save does not turn one device's row into
another's needs `RowIdentity` and `RequestIdentity`: a row and all the requests that
hold it are about the same device.

`FailedRequestsUndone`, in the same module, proves `FailedRequestsUndo`. Its second
invariant, `Undoable`, says why a rollback finds what it expects: the allowed rows are
unique; a request that is still clean is about another device than every other request
under way, or another mesh where one of the two changes a mesh (`AllSeparate`); its row
or its mesh's key is therefore what it read or wrote, and no row forbids the old one
(`Kept`); and the parts of a request fit together (`Shape`). A request that cannot
connect ends like one whose worker is killed (`ConnectionLost`): to every invariant it is
a death, and to `FailedRequestsUndo` no failure inside the `try`. One lemma shows that a step
of one request writes nothing a separate one relies on (`OthersKept`, from `WritesOwn`),
so that each action has only its own request to look at.

`DecoderInStep`, `RejectionsBacked` and `RejectedStaysOut` prove `DecoderAgrees` (with
the whole of `TypeOK`), `RejectionsAreBacked` and `RejectedStayOut`. They speak of moments
when no request is under way; the invariant `InStep` says of every moment how far each
request has come:

- the decoder knows and rejects of a device what the tables say, unless its event key is
  suspect, or a request that concerns the device has yet to publish, to list or to delete
  (`KeyOwn`, `RejectionOwn`, and `Concerns` for the devices a request has to do with);
- what a request still has to publish follows from the step it is at (`Planned`);
- a request that no other disturbs may rely on what it read: its row, its mesh's key, and
  for DELETE of a mesh the rows of which it publishes the end (`Steady`);
- two requests that clash over a device are both noted as disturbed, and the device is
  suspect (`Apart`); a request being rolled back has suspect devices only
  (`RollBackSuspect`), and so is whatever may still be delivered late (`LateSuspect`).

A step is then argued about in three parts. A device the request does not concern stays
as it was (`ElsewhereInStep`), and the other requests go on relying on what they read
(`OthersSteady`), both from what the step writes (`OnlyOwn`, `Touched`). `StepInStep`
leaves each action to show the third, for the devices of its own request. Beginning a
request and seeing a node change what history notes of others, and nothing they rely on
(`KinFacts`). The first version of the invariant was checked by TLC on small instances
before it was proved.

`OwnerAccessProofs` proves the safety properties of `OwnerAccount` and `OwnerAccess`, for
any addresses, numbers of keys and tokens, and workers (`MarksAssumption`,
`QuestionAssumption`: an idle worker is doing nothing that is a request).

All four rest on `AccountInv`: every key, token and link in the row, in a request's hands,
in an email or published was issued (`Known`), and no more were issued than requests were
served (`Bounded`). On it stand, each unless two requests collided:

- `RevokedKeysStayRevoked`: `RevokedStayRevoked`, from `RevokedInv`: a key that is withdrawn,
  its revocation published or about to be, is no account's key any more.
- `PasswordLinksWorkOnce`: `ResetLinksWorkOnce`, from `ResetInv`: the row's reset token is
  newer than every one that was used.
- `ActiveAccountsAreVerified`: `ActiveIsVerified`, from `VerifiedInv`: a verification link
  that works leads to the address in the row (`LinksLeadHome`), and the address of an
  active row was verified.

`StaleAnswersAreExplained` proves `StaleAnswersExplained`, for `AccessSpec`. `AccessInv`
lifts `AccountInv` to the composition, and adds of a cached answer that accepts a key
which no longer works: its revocation is still to come (`Coming`: in the topic for the
worker, about to be published, or never published), or history notes that it was stored
after the worker had dropped the key (`CachedOK`). An answer that is on its way is the
same, unless the worker has overtaken it (`AnswersOK`).

`AlarmEmailsProofs` proves `SilenceExplained` and `OneEmailPerCooldown` for any
channels, blueprint, number of processes and bounds (`ChannelsAssumption`,
`IdleAssumption`, `QualityBounds`). `TypeOK` is inductive over all steps of the worker and
the consumer. The other part is `FirstEmail`: whoever was told of a channel cools down,
and the channel whose email is being sent cools down and was not told, since
`cache.add` sets the key before the email and no death removes it.

The same module proves the quality worker's algorithms against their references, for
series of any length. The library's induction theorems cannot be used here, as they take
an operator as a parameter; what stands in for them is the least counterexample: of
finite sets there is a least one (`LeastSet`), and so of natural numbers (`LeastNumber`).

- `PatchyIsGaps`: `Patchy` is `HasGaps` for every series in the order of time. `AsManyReadings`
  counts the readings; `LargestGapIs` and `GapBetween` say that two readings with none in
  between are neighbours, so that the largest distance of neighbours is the largest gap.
- `AlignedIsNearest`: `AlignSeries` gives `NearestRows` for any base and any number of
  other series. The cursors of `align_series` only move on, and a channel keeps its
  cursor when one before it has no reading in range. The induction over the base
  readings so carries that each cursor `Leads`, now and for all
  later times: no reading behind it is nearer (`CursorsLead`); and that the rows so far
  are those of the readings so far (`RowsNearest`).
- `SeriesAreAligned`, `GapsFound`: `AlignmentIsNearest` and `GapsAreFound` as properties of
  the specification. `SampleAssumption` and `SeriesAssumption` say only that series are
  sequences of times; that one gateway heard them is a premise of the properties, and
  "Met while modelling" says what becomes of others.

`StreamProofs` proves the two safety properties of `StreamJobs`, for any topics that
satisfy `ScenarioAssumption` (the params of a config are ones its function does not raise
on) and `UnitAssumption`, any window and any number of setbacks.

- `LookupOnCurve`: sorting a table and scanning it (`LookupTable`) gives a value on the curve
  that the points describe without being sorted (`OnCurve`). `Sorted` puts a point at the
  place that is its rank, the number of points that go before it. Ranks are different
  and at most the length, so every place has one point (`RankFacts`), and the places
  are in order (`SortedFacts`). `FirstPair` says that the scan finds the neighbours of a
  value, `BelowCurve`, `AboveCurve`, `AtPoint` and `BetweenPoints` which part of
  `OnCurve` it is on.
- `CalibratedAsConfigured`: `CalibratedByCurve`. What a job knows is not a fold over the
  topic in the proof, but what "the latest event about a kind" says: `CalibFollows` holds
  of the job and of its checkpoint, and one more event keeps it (`AboutNext`,
  `FollowsNext`). A value is made from such a state, so it is on its curve
  (`CalibrateCurved`), and stays there, since the topics do not change.
- `AlarmsBacked`: `AlarmsAreBacked`. `DetectFollows` says the same of the rule, and of the window
  that it has the last numbers up to the job's offset (`Remembers`), in the job and in
  its checkpoint: they return together. A full window is therefore exactly the places of
  the reference (`WindowIsStuckPlaces`, by counting). Each alarm keeps what it said when
  the topic grows (`AlarmGrown`). Unless the calibration job was set back its topic is in step
  with the decoded one, so places are different readings where there are no copies.

Only model-checked: the liveness properties, with `EventuallyAlarmed` of `StreamJobs`
among them (fairness and ENABLED are out of the prover's reach), and the findings,
whose counterexamples are runs.

## Plan

Done: the sinks, both decoders, the registry with sightings and seeding, the bridge with
the device sightings, the owner account with queryapi's cache, the quality worker with
the alarm emails, the calibration and pattern detection jobs, and the proofs above.
Left, in this order:

1. DELETE `/owners/me` deregisters the owner's gateways before it deletes the row: the
   meeting of `OwnerAccount` and `GatewayRegistry`.
2. A composition of bridge, decoder and sink that implements `AtLeastOnce` for the
   packets neither `dropped` nor lost by the bridge.
3. Units in the catalogue, which `consume_sensor_discovery` fills in where none is.

## Not modelled

- Health checks: timestamps compared with thresholds. No pipeline state depends on them,
  except that a container found unhealthy is restarted, and every module with a process
  restarts it at any time.
- The read views of keyapi and queryapi: each is a query and its formatting, with no
  state to get wrong between two calls.
- The throttles and failure counters (`authentication.py:46`): a count that is lost
  makes a limit later than it should be, and no other component reads it.
- Blueprints and their steps (`serializers.py:455` deletes the steps and then creates the
  new ones): the worker's `Steps` are constant, since what it should have done with a
  blueprint that changes under it is said nowhere. The hazard is listed without a
  property.
- Sessions, permissions and validation of requests: a request that is refused changes
  nothing.
- `createsuperuser`, the catalogue's seeding and the creation of owner and mesh when
  keyapi is seeded: they run once, before anything serves, and publish nothing.
- The layout of Parquet objects, points and messages, AES-CTR and protobuf: data the
  properties do not tell apart.
