------------------------------ MODULE StreamJobs ------------------------------
(***************************************************************************)
(* flink/calibration_job.py and flink/pattern_detection_job.py, one behind *)
(* the other, for one field of one node: decoded messages are calibrated   *)
(* under the configs that are broadcast to the first job, and the second   *)
(* job raises alarms about values that are stuck or out of range.          *)
(*                                                                         *)
(* Each source is read by tasks of its own, so a job takes its two inputs  *)
(* in any order; the topics can therefore be complete from the start.  A   *)
(* sink writes in order and is flushed before a checkpoint completes, and  *)
(* a restart returns all a job holds to a checkpoint: what the sink had    *)
(* not written then is as if it had not been processed, and so ProcessX    *)
(* writes straight to the next topic.                                      *)
(*                                                                         *)
(* A field is calibrated by the kind of payload it is in, and watched by   *)
(* its name alone.  A reading is on the decoded topic once for every       *)
(* gateway that heard its packet, and again when a decoder replays.        *)
(***************************************************************************)
EXTENDS Calibration

CONSTANTS
    Scenario,    \* what may be on the decoded, calibration and rules topics
    Kind,        \* the payload kinds that have the field
    NoNumber,    \* the field is missing, or not a number
    NoConfig, NoRule, NoLimit,
    Window,      \* RECENT_VALUES_WINDOW
    MaxSetbacks  \* bound: restarts and submissions of the jobs

Sequence(events) == events \in Seq({events[i] : i \in DOMAIN events})

ASSUME WindowAssumption == Window \in Nat \ {0} /\ MaxSetbacks \in Nat
ASSUME ScenarioAssumption ==
    \A s \in Scenario :
       /\ s.decoded \in Seq([reading : Nat, kind : Kind, value : Int \cup {NoNumber}])
       /\ Sequence(s.calibrations) /\ Sequence(s.rules)
       /\ \A i \in DOMAIN s.calibrations :
             LET e == s.calibrations[i] IN
             /\ e.kind \in Kind /\ e.op \in {"put", "delete"}
             /\ e.op = "put" => e.config # NoConfig /\ WellFormed(e.config)
       /\ \A i \in DOMAIN s.rules :
             LET e == s.rules[i] IN
             /\ e.op \in {"put", "delete"}
             /\ e.op = "put" /\ e.rule.detector = "range_check" =>
                   {e.rule.min, e.rule.max} \subseteq Int \cup {NoLimit}
ASSUME UnitAssumption ==
    \A s \in Scenario : \A i \in DOMAIN s.calibrations, k \in DOMAIN s.decoded :
       LET e == s.calibrations[i] IN
       e.op = "put" /\ e.config.function = "lookup_table" /\ s.decoded[k].value # NoNumber
          => Exact(s.decoded[k].value, e.config.params)

VARIABLES
    topics,      \* the scenario that is played
    calib,       \* the calibration job: done and applied (its offsets in its two
                 \* sources) and config, what it knows of each payload kind
    calibrated,  \* the topic between the jobs
    detect,      \* the detection job: done, applied, rule, and recent, the places on
                 \* the calibrated topic of the values it remembers
    saved,       \* [calib, detect]: each job at its last complete checkpoint
    alarms,      \* what is on the alarms topic
    setbacks, recalibrated   \* history: the calibration job has been set back

streamVars == <<topics, calib, calibrated, detect, saved, alarms, setbacks, recalibrated>>

FreshCalib == [done |-> 0, applied |-> 0, config |-> [k \in Kind |-> NoConfig]]
FreshDetect == [done |-> 0, applied |-> 0, rule |-> NoRule, recent |-> <<>>]

StreamInit ==
    /\ topics \in Scenario
    /\ calib = FreshCalib /\ detect = FreshDetect
    /\ saved = [calib |-> FreshCalib, detect |-> FreshDetect]
    /\ calibrated = <<>> /\ alarms = {} /\ setbacks = 0 /\ recalibrated = FALSE

-----------------------------------------------------------------------------
(* calibration_job.py *)

\* _calibrate, on the one field.
Calibrate(event, config) ==
    IF event.value = NoNumber \/ config[event.kind] = NoConfig THEN event.value
    ELSE ApplyCalibration(config[event.kind], event.value)

\* process_element; the topic's record keeps, as history, what it was made from.
ProcessDecoded ==
    LET event == topics.decoded[calib.done + 1] IN
    /\ calib.done < Len(topics.decoded)
    /\ calibrated' = Append(calibrated,
           [reading |-> event.reading, kind |-> event.kind, raw |-> event.value,
            value |-> Calibrate(event, calib.config), under |-> calib.applied])
    /\ calib' = [calib EXCEPT !.done = @ + 1]
    /\ UNCHANGED <<topics, detect, saved, alarms, setbacks, recalibrated>>

\* process_broadcast_element
ProcessCalibration ==
    LET event == topics.calibrations[calib.applied + 1] IN
    /\ calib.applied < Len(topics.calibrations)
    /\ calib' = [calib EXCEPT
                    !.applied = @ + 1,
                    !.config[event.kind] = IF event.op = "delete" THEN NoConfig
                                           ELSE event.config]
    /\ UNCHANGED <<topics, calibrated, detect, saved, alarms, setbacks, recalibrated>>

-----------------------------------------------------------------------------
(* pattern_detection_job.py *)

Numeric(i) == calibrated[i].value # NoNumber

LastN(s, n) == IF Len(s) <= n THEN s ELSE SubSeq(s, Len(s) - n + 1, Len(s))

\* stuck_value_triggered
StuckValueTriggered(recent) ==
    /\ Len(recent) >= Window
    /\ Cardinality({calibrated[recent[i]].value : i \in DOMAIN recent}) = 1

\* range_check_triggered
RangeCheckTriggered(value, rule) ==
    \/ rule.min # NoLimit /\ value < rule.min
    \/ rule.max # NoLimit /\ value > rule.max

\* What a value at place i raises: each detector decides on its own.
Triggered(i, recent, rule) ==
    (IF StuckValueTriggered(recent) THEN {"stuck_value"} ELSE {}) \cup
    (IF rule # NoRule /\ rule.detector = "range_check"
        /\ RangeCheckTriggered(calibrated[i].value, rule) THEN {"range_check"} ELSE {})

\* ExplodeFields and process_element
ProcessObservation ==
    LET i == detect.done + 1
        recent == LastN(Append(detect.recent, i), Window)
    IN
    /\ detect.done < Len(calibrated)
    /\ IF Numeric(i)
       THEN /\ detect' = [detect EXCEPT !.done = i, !.recent = recent]
            /\ alarms' = alarms \cup
                  {[detector |-> d, at |-> i, window |-> recent, under |-> detect.applied] :
                      d \in Triggered(i, recent, detect.rule)}
       ELSE detect' = [detect EXCEPT !.done = i] /\ UNCHANGED alarms
    /\ UNCHANGED <<topics, calib, calibrated, saved, setbacks, recalibrated>>

\* process_broadcast_element
ProcessRule ==
    LET event == topics.rules[detect.applied + 1] IN
    /\ detect.applied < Len(topics.rules)
    /\ detect' = [detect EXCEPT !.applied = @ + 1,
                                !.rule = IF event.op = "delete" THEN NoRule ELSE event.rule]
    /\ UNCHANGED <<topics, calib, calibrated, saved, alarms, setbacks, recalibrated>>

-----------------------------------------------------------------------------
(* Flink.  A checkpoint is a cut of all a job holds; after the last fault none of  *)
(* them is ever used, and the model takes no more.                                *)

Checkpoint ==
    /\ setbacks < MaxSetbacks
    /\ saved' \in {[saved EXCEPT !.calib = calib], [saved EXCEPT !.detect = detect]}
    /\ saved' # saved
    /\ UNCHANGED <<topics, calib, calibrated, detect, alarms, setbacks, recalibrated>>

RestartCalibration ==
    /\ setbacks < MaxSetbacks /\ setbacks' = setbacks + 1
    /\ calib' = saved.calib /\ recalibrated' = TRUE
    /\ UNCHANGED <<topics, calibrated, detect, saved, alarms>>

\* The fault: the recent values are an attribute of the function, not list state.
RestartDetectionOffsetsOnly ==
    /\ setbacks < MaxSetbacks /\ setbacks' = setbacks + 1
    /\ detect' = [saved.detect EXCEPT !.recent = detect.recent]
    /\ UNCHANGED <<topics, calib, calibrated, saved, alarms, recalibrated>>

RestartDetectionForgetting ==
    /\ setbacks < MaxSetbacks /\ setbacks' = setbacks + 1
    /\ detect' = [saved.detect EXCEPT !.recent = <<>>]
    /\ UNCHANGED <<topics, calib, calibrated, saved, alarms, recalibrated>>

RestartDetection ==
    /\ setbacks < MaxSetbacks /\ setbacks' = setbacks + 1
    /\ detect' = saved.detect
    /\ UNCHANGED <<topics, calib, calibrated, saved, alarms, recalibrated>>

\* submit-job.sh, after the cluster lost the job: the earliest offsets, no state.
Submit ==
    /\ setbacks < MaxSetbacks /\ setbacks' = setbacks + 1
    /\ \/ /\ calib' = FreshCalib /\ recalibrated' = TRUE
          /\ saved' = [saved EXCEPT !.calib = FreshCalib]
          /\ UNCHANGED detect
       \/ /\ detect' = FreshDetect
          /\ saved' = [saved EXCEPT !.detect = FreshDetect]
          /\ UNCHANGED <<calib, recalibrated>>
    /\ UNCHANGED <<topics, calibrated, alarms>>

StreamNext ==
    \/ ProcessDecoded \/ ProcessCalibration
    \/ ProcessObservation \/ ProcessRule
    \/ Checkpoint \/ RestartCalibration \/ RestartDetection \/ Submit

\* Both jobs' tasks run as long as there is something to read.
StreamFairness == WF_streamVars(ProcessDecoded) /\ WF_streamVars(ProcessObservation)

StreamSpec == StreamInit /\ [][StreamNext]_streamVars /\ StreamFairness

-----------------------------------------------------------------------------
(* Properties. *)

\* The latest of a topic's events up to a count, of those that concern the key.
Latest(events, count, concerns(_)) ==
    {events[i] : i \in {j \in 1 .. count : concerns(events[j]) /\
                           \A n \in j + 1 .. count : ~concerns(events[n])}}

\* However restarts fall and whatever order its inputs are taken in, a value on the
\* calibrated topic is the reading's under the config that was the latest for its
\* payload kind when it was made: the scaled value, the value of the curve through
\* the table's points, or the value as it was.
CalibratedByCurve ==
    \A i \in DOMAIN calibrated :
       LET record == calibrated[i]
           latest == Latest(topics.calibrations, record.under,
                            LAMBDA e : e.kind = record.kind)
       IN
       IF record.raw = NoNumber THEN record.value = NoNumber
       ELSE IF latest = {} THEN record.value = record.raw
       ELSE \A e \in latest :
               IF e.op = "put" /\ e.config.function = "lookup_table" /\ e.config.params # <<>>
               THEN OnCurve(e.config.params, record.raw, record.value)
               ELSE IF e.op = "put" /\ e.config.function = "offset_scale"
               THEN record.value - e.config.params.offset = e.config.params.scale * record.raw
               ELSE record.value = record.raw

\* The numeric places of the calibrated topic that a stuck alarm at i speaks of.
StuckPlaces(i) ==
    {j \in 1 .. i : Numeric(j) /\ Cardinality({n \in j .. i : Numeric(n)}) <= Window}

\* A stuck alarm names the last Window numbers up to its own, all alike, and no
\* number twice, whatever was replayed in between; they are Window different readings
\* unless several gateways heard one of them or the calibration job was set back.  A
\* range alarm names a value outside the rule that was the latest then.
AlarmsAreBacked ==
    \A a \in alarms :
       LET places == {a.window[n] : n \in DOMAIN a.window}
           values == {calibrated[j].value : j \in places}
           copied == \E i, j \in DOMAIN topics.decoded :
                        i # j /\ topics.decoded[i].reading = topics.decoded[j].reading
       IN
       IF a.detector = "stuck_value"
       THEN /\ places = StuckPlaces(a.at) /\ Cardinality(places) = Window
            /\ Cardinality(values) = 1
            /\ copied \/ recalibrated
                 \/ Cardinality({calibrated[j].reading : j \in places}) = Window
       ELSE \E e \in Latest(topics.rules, a.under, LAMBDA x : TRUE) :
               LET v == calibrated[a.at].value IN
               /\ e.op = "put" /\ e.rule.detector = "range_check"
               /\ ~ /\ e.rule.min = NoLimit \/ e.rule.min <= v
                    /\ e.rule.max = NoLimit \/ v <= e.rule.max

\* "Triggers when a sensor reports the same value N times in a row" (detectors.py:13),
\* N being RECENT_VALUES_WINDOW: Window numbers in a row that are alike end in an alarm,
\* also when the job is set back in the middle of them: the values it remembers and its
\* offset return together.  What PATTERN_DETECTION__FLAT_VALUE_HOURS promises is another
\* thing, and no job reads it: see the README.
StuckAt(i) ==
    /\ i <= Len(calibrated) /\ Cardinality(StuckPlaces(i)) = Window /\ Numeric(i)
    /\ \A j, n \in StuckPlaces(i) : calibrated[j].value = calibrated[n].value

Longest == CHOOSE n \in {Len(s.decoded) : s \in Scenario} :
               \A s \in Scenario : Len(s.decoded) <= n

EventuallyAlarmed ==
    \A i \in 1 .. Longest * (MaxSetbacks + 1) :
       StuckAt(i) ~> \E a \in alarms : a.detector = "stuck_value" /\ a.at = i
================================================================================
