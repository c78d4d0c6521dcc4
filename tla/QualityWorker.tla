----------------------------- MODULE QualityWorker -----------------------------
(***************************************************************************)
(* quality_worker/tasks.py: the Celery tasks for one device.  Beat queues  *)
(* scan_devices again and again; a scan queues run_blueprint, which writes *)
(* derived channels to InfluxDB and names them to keyapi, which registers  *)
(* them (consume_sensor_discovery), and check_completeness, which          *)
(* publishes an alarm for every patchy channel.                            *)
(*                                                                         *)
(* A task that raises is acknowledged and not repeated before the next     *)
(* scan.  The task of a worker that is lost is (task_acks_late) handed out *)
(* again, or is gone if only the process that ran it died.                 *)
(***************************************************************************)
EXTENDS QualityAlgorithms

CONSTANTS
    Worker,       \* the processes of the worker (--concurrency=2)
    Idle,
    Steps,        \* the steps of the device's blueprint, in their order
    SeriesCases,  \* what InfluxDB may hold of the measured channels
    FailureCases, \* the steps, each with a row's time, that may raise
    MaxQueue,     \* bound: tasks queued when beat adds a scan
    MaxAlarms,    \* bound: alarms on the topic that are not committed
    MaxFaults     \* bound: tasks that fail, workers lost, failures of the emails

ASSUME QualityBounds == MaxQueue \in Nat \ {0} /\ MaxAlarms \in Nat \ {0} /\ MaxFaults \in Nat
ASSUME IdleAssumption == Idle \notin Channel
ASSUME SeriesAssumption ==
    \A s \in SeriesCases : DOMAIN s = Channel /\ \A c \in Channel : s[c] \in Seq(Int)

VARIABLES
    series,      \* the readings of each channel in the window
    computed,    \* the channels the blueprint gives for these readings
    queue,       \* the tasks in Redis
    job,         \* what each process is doing
    derived,     \* the derived channels with points in InfluxDB
    announced,   \* those named on mesh.sensor_discovery.v1 from the committed offset on
    registered,  \* those in keyapi's catalogue
    alarms,      \* the alarms topic from the committed offset on
    faults

data == <<series, computed>>
qualityVars == <<data, queue, job, derived, announced, registered, alarms, faults>>

Task == {"scan", "blueprint", "check"}
NoRoute == "stream"   \* an alarm of the Flink job, without mesh_id and device_id

QualityInit ==
    /\ series \in SeriesCases
    /\ \E failing \in FailureCases : computed = Outputs(Steps, series, failing)
    /\ queue = <<>>
    /\ job = [w \in Worker |-> Idle]
    /\ derived = {} /\ announced = {} /\ registered = {}
    /\ alarms = <<>> /\ faults = 0

Doing(w, task) == job[w] # Idle /\ job[w].task = task
Done(w) == job' = [job EXCEPT ![w] = Idle]

-----------------------------------------------------------------------------
\* The schedule of celery_app.
Beat ==
    /\ Len(queue) < MaxQueue
    /\ queue' = Append(queue, "scan")
    /\ UNCHANGED <<data, job, derived, announced, registered, alarms, faults>>

\* A process takes the next task.  checked counts the channels of a check, outputs
\* are those of a blueprint, once it has run, and todo the ones to write.
Take(w) ==
    /\ job[w] = Idle /\ queue # <<>>
    /\ job' = [job EXCEPT ![w] =
                  [task |-> Head(queue), checked |-> 0, outputs |-> {}, todo |-> {}]]
    /\ queue' = Tail(queue)
    /\ UNCHANGED <<data, derived, announced, registered, alarms, faults>>

\* The fault: a device is post-processed only until it has derived channels.
ScanDevicesOnce(w) ==
    /\ Doing(w, "scan")
    /\ queue' = queue \o (IF derived = {} THEN <<"blueprint", "check">> ELSE <<"check">>)
    /\ Done(w)
    /\ UNCHANGED <<data, derived, announced, registered, alarms, faults>>

ScanDevices(w) ==
    /\ Doing(w, "scan")
    /\ queue' = queue \o <<"blueprint", "check">>
    /\ Done(w)
    /\ UNCHANGED <<data, derived, announced, registered, alarms, faults>>

-----------------------------------------------------------------------------
(* run_blueprint *)

ComputeOutputs(w) ==
    /\ Doing(w, "blueprint") /\ job[w].outputs = {}
    /\ job' = [job EXCEPT ![w] = IF computed = {} THEN Idle
                                 ELSE [@ EXCEPT !.outputs = computed, !.todo = computed]]
    /\ UNCHANGED <<data, queue, derived, announced, registered, alarms, faults>>

WriteDerived(w) ==
    /\ Doing(w, "blueprint")
    /\ \E c \in job[w].todo :
          /\ derived' = derived \cup {c}
          /\ job' = [job EXCEPT ![w].todo = @ \ {c}]
    /\ UNCHANGED <<data, queue, announced, registered, alarms, faults>>

PublishDiscovery(w) ==
    /\ Doing(w, "blueprint") /\ job[w].outputs # {} /\ job[w].todo = {}
    /\ announced' = announced \cup job[w].outputs
    /\ Done(w)
    /\ UNCHANGED <<data, queue, derived, registered, alarms, faults>>

-----------------------------------------------------------------------------
(* check_completeness *)

\* The channel a check has come to.
Reached(w) == Channels[job[w].checked + 1]

\* The fault: the check ends with the first channel that is complete.
CheckChannelReturning(w) ==
    /\ Doing(w, "check") /\ job[w].checked < Len(Channels)
    /\ IF Patchy(series[Reached(w)])
       THEN /\ Len(alarms) < MaxAlarms /\ alarms' = Append(alarms, Reached(w))
            /\ job' = [job EXCEPT ![w].checked = @ + 1]
       ELSE UNCHANGED alarms /\ Done(w)
    /\ UNCHANGED <<data, queue, derived, announced, registered, faults>>

CheckChannel(w) ==
    /\ Doing(w, "check") /\ job[w].checked < Len(Channels)
    /\ IF Patchy(series[Reached(w)])
       THEN Len(alarms) < MaxAlarms /\ alarms' = Append(alarms, Reached(w))
       ELSE UNCHANGED alarms
    /\ job' = [job EXCEPT ![w].checked = @ + 1]
    /\ UNCHANGED <<data, queue, derived, announced, registered, faults>>

\* The quality channels are registered; they are the same every time.
FinishCheck(w) ==
    /\ Doing(w, "check") /\ job[w].checked = Len(Channels)
    /\ Done(w)
    /\ UNCHANGED <<data, queue, derived, announced, registered, alarms, faults>>

-----------------------------------------------------------------------------
(* Faults. *)

\* keyapi, InfluxDB, Redis or Kafka raises.  What was asked of it last may have
\* happened all the same.
TaskFails(w) ==
    /\ job[w] # Idle /\ faults < MaxFaults
    /\ faults' = faults + 1
    /\ Done(w)
    /\ \/ UNCHANGED <<queue, derived, announced, registered, alarms>>
       \/ /\ Doing(w, "scan")
          /\ queue' = Append(queue, "blueprint")
          /\ UNCHANGED <<derived, announced, registered, alarms>>
       \/ /\ \E c \in job[w].todo : derived' = derived \cup {c}
          /\ UNCHANGED <<queue, announced, registered, alarms>>
       \/ /\ job[w].todo = {}
          /\ announced' = announced \cup job[w].outputs
          /\ UNCHANGED <<queue, derived, registered, alarms>>
       \/ /\ Doing(w, "check") /\ job[w].checked < Len(Channels)
          /\ Patchy(series[Reached(w)]) /\ Len(alarms) < MaxAlarms
          /\ alarms' = Append(alarms, Reached(w))
          /\ UNCHANGED <<queue, derived, announced, registered>>
    /\ UNCHANGED data

WorkerLost(w) ==
    /\ job[w] # Idle /\ faults < MaxFaults
    /\ faults' = faults + 1
    /\ Done(w)
    /\ queue' \in {queue, Append(queue, job[w].task)}
    /\ UNCHANGED <<data, derived, announced, registered, alarms>>

-----------------------------------------------------------------------------
(* keyapi's consume_sensor_discovery. *)

\* The rows of all channels that are named, and the commit.
Register ==
    /\ announced # {}
    /\ registered' = registered \cup announced
    /\ announced' = {}
    /\ UNCHANGED <<data, queue, job, derived, alarms, faults>>

\* Between two rows the database raises, and the event is skipped; or the consumer
\* dies and handles it again.
RegisterFails ==
    /\ announced # {} /\ faults < MaxFaults
    /\ faults' = faults + 1
    /\ \E some \in SUBSET announced : registered' = registered \cup some
    /\ announced' \in {announced, {}}
    /\ UNCHANGED <<data, queue, job, derived, alarms>>

-----------------------------------------------------------------------------
Run(w) ==
    \/ ScanDevices(w)
    \/ ComputeOutputs(w) \/ WriteDerived(w) \/ PublishDiscovery(w)
    \/ CheckChannel(w) \/ FinishCheck(w)

QualityNext ==
    \/ Beat
    \/ \E w \in Worker : Take(w) \/ Run(w) \/ TaskFails(w) \/ WorkerLost(w)
    \/ Register \/ RegisterFails

\* Beat goes on and the processes and the consumer work: the broker and the services
\* have timeouts.
QualityFairness ==
    /\ WF_qualityVars(Beat) /\ WF_qualityVars(Register)
    /\ \A w \in Worker : WF_qualityVars(Take(w)) /\ WF_qualityVars(Run(w))
=============================================================================
