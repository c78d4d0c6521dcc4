---------------------------- MODULE MCInfluxWriter ----------------------------
(* InfluxWriter on the decoded and the alarms topic. *)
EXTENDS InfluxWriter

CONSTANTS decoded, alarms

MCTopic == {decoded, alarms}

\* One event that becomes a point and one that does not, of each way to fail.
MCSent ==
    [t \in MCTopic |->
        IF t = alarms
        THEN {[kind |-> "alarm", filled |-> TRUE]}
        ELSE {[kind |-> "telemetry", filled |-> TRUE],
              [kind |-> "position", filled |-> FALSE],
              [kind |-> "text", filled |-> TRUE]}]
=============================================================================
