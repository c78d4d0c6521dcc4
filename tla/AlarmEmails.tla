------------------------------ MODULE AlarmEmails ------------------------------
(***************************************************************************)
(* keyapi's consume_quality_alarms with the quality worker that publishes  *)
(* the alarms: the owner of a device is sent an email for an alarm, unless *)
(* one about the same channel and detector was sent within the cooldown,   *)
(* which Redis keeps.  All alarms here are of the completeness detector.   *)
(***************************************************************************)
EXTENDS QualityWorker

VARIABLES
    reachable,   \* the device exists and its owner's address is verified
    polled,      \* how many of the alarms the consumer has polled
    handled,     \* how many of these it has dealt with
    sending,     \* the channel whose email is being sent, Idle if none
    placed,      \* the consumer group has committed an offset
    cooled,      \* the channels that are cooling down
    told,        \* history: the owner was emailed in this cooldown
    missed       \* history: that email failed, or its sender died

consumer == <<polled, handled, sending, placed>>
emails == <<cooled, told, missed>>
vars == <<qualityVars, reachable, consumer, emails>>

Job == [task : Task, checked : 0 .. Len(Channels), outputs : SUBSET computed, todo : SUBSET computed]

TypeOK ==
    /\ queue \in Seq(Task)
    /\ job \in [Worker -> {Idle} \cup Job]
    /\ derived \subseteq computed /\ announced \subseteq computed /\ registered \subseteq computed
    /\ alarms \in Seq(Channel \cup {NoRoute})
    /\ handled \in 0 .. polled /\ polled \in 0 .. Len(alarms)
    /\ sending \in Channel \cup {Idle}
    /\ sending # Idle => handled < polled
    /\ reachable \in BOOLEAN /\ placed \in BOOLEAN
    /\ cooled \subseteq Channel /\ told \subseteq Channel /\ missed \subseteq Channel
    /\ faults \in 0 .. MaxFaults

Init ==
    /\ QualityInit
    /\ reachable \in BOOLEAN
    /\ polled = 0 /\ handled = 0 /\ sending = Idle /\ placed = FALSE
    /\ cooled = {} /\ told = {} /\ missed = {}

\* Devices are deleted and seen again, addresses are changed and verified.
ReachableChanges ==
    /\ reachable' = ~reachable
    /\ UNCHANGED <<qualityVars, consumer, emails>>

\* The pattern detection job names a node and a field in its alarms, and no device.
StreamAlarm ==
    /\ Len(alarms) < MaxAlarms - 1
    /\ alarms' = Append(alarms, NoRoute)
    /\ UNCHANGED <<data, queue, job, derived, announced, registered, faults, reachable, consumer, emails>>

-----------------------------------------------------------------------------
(* The consumer. *)

Poll ==
    /\ polled = 0
    /\ polled' \in 1 .. Len(alarms)
    /\ UNCHANGED <<qualityVars, reachable, handled, sending, placed, emails>>

Alarm == alarms[handled + 1]

\* The fault: the key is set before the owner is looked at.
SkipCooling ==
    /\ handled < polled /\ sending = Idle
    /\ Alarm = NoRoute \/ ~reachable \/ Alarm \in cooled
    /\ handled' = handled + 1
    /\ cooled' = cooled \cup ({Alarm} \ {NoRoute})
    /\ UNCHANGED <<qualityVars, reachable, polled, sending, placed, told, missed>>

\* No route, no device, no verified address, or cache.add finds the key.
Skip ==
    /\ handled < polled /\ sending = Idle
    /\ Alarm = NoRoute \/ ~reachable \/ Alarm \in cooled
    /\ handled' = handled + 1
    /\ UNCHANGED <<qualityVars, reachable, polled, sending, placed, emails>>

\* The fault: the cooldown is looked up and never set.
CheckCooldown ==
    /\ handled < polled /\ sending = Idle
    /\ Alarm # NoRoute /\ reachable /\ Alarm \notin cooled
    /\ sending' = Alarm
    /\ UNCHANGED <<qualityVars, reachable, polled, handled, placed, emails>>

\* cache.add sets the key.
StartCooldown ==
    /\ handled < polled /\ sending = Idle
    /\ Alarm # NoRoute /\ reachable /\ Alarm \notin cooled
    /\ cooled' = cooled \cup {Alarm}
    /\ sending' = Alarm
    /\ UNCHANGED <<qualityVars, reachable, polled, handled, placed, told, missed>>

SendEmail ==
    /\ sending # Idle
    /\ told' = told \cup {sending}
    /\ handled' = handled + 1
    /\ sending' = Idle
    /\ UNCHANGED <<qualityVars, reachable, polled, placed, cooled, missed>>

\* send_mail raises: the alarm is logged and not tried again.
EmailFails ==
    /\ sending # Idle /\ faults < MaxFaults
    /\ faults' = faults + 1
    /\ missed' = missed \cup {sending}
    /\ handled' = handled + 1
    /\ sending' = Idle
    /\ UNCHANGED <<data, queue, job, derived, announced, registered, alarms, reachable, polled, placed,
                   cooled, told>>

Commit ==
    /\ polled > 0 /\ handled = polled
    /\ alarms' = SubSeq(alarms, polled + 1, Len(alarms))
    /\ polled' = 0 /\ handled' = 0
    /\ placed' = TRUE
    /\ UNCHANGED <<data, queue, job, derived, announced, registered, faults, reachable, sending, emails>>

\* The consumer dies, or its commit raises, and it starts again: at the committed
\* offset, and at the end of the topic ("latest") if there is none.
Restart ==
    /\ faults < MaxFaults
    /\ faults' = faults + 1
    /\ missed' = missed \cup ({sending} \ {Idle})
    /\ polled' = 0 /\ handled' = 0 /\ sending' = Idle
    /\ alarms' = IF placed THEN alarms ELSE <<>>
    /\ UNCHANGED <<data, queue, job, derived, announced, registered, reachable, placed, cooled, told>>

\* The cooldown, an hour, is over.  It outlasts the sending of an email.
Expire(c) ==
    /\ c \in cooled /\ sending # c
    /\ cooled' = cooled \ {c}
    /\ told' = told \ {c} /\ missed' = missed \ {c}
    /\ UNCHANGED <<qualityVars, reachable, consumer>>

Consume == Poll \/ Skip \/ StartCooldown \/ SendEmail \/ Commit

Next ==
    \/ QualityNext /\ UNCHANGED <<reachable, consumer, emails>>
    \/ ReachableChanges \/ StreamAlarm
    \/ Consume \/ EmailFails \/ Restart
    \/ \E c \in Channel : Expire(c)

\* The loop of the consumer goes on, and no cooldown lasts for ever.
Fairness ==
    /\ QualityFairness
    /\ WF_vars(Consume)
    /\ \A c \in Channel : WF_vars(Expire(c))

Spec == Init /\ [][Next]_vars /\ Fairness

-----------------------------------------------------------------------------
(* Properties. *)

\* The readings never change: it is enough to look at them before the first scan.
Untouched ==
    /\ queue = <<>> /\ alarms = <<>> /\ derived = {}
    /\ faults = 0 /\ ~placed /\ \A w \in Worker : job[w] = Idle

\* The readings of a channel in InfluxDB, joined with those of any one or two others,
\* give the rows that the docstring of align_series describes, whatever gaps and ties
\* there are, as long as one gateway heard each of them.
AlignmentIsNearest ==
    Untouched =>
        \A c \in Channel, s1, s2 \in AlignSample :
            InOrder(series[c]) /\ InOrder(s1) /\ InOrder(s2) =>
                \A others \in {<<s1>>, <<s1, s2>>} :
                    NearestRows(AlignSeries(series[c], others), series[c], others)

\* An alarm is raised about the series that have gaps, those in InfluxDB and others, as
\* long as one gateway heard each of them.
GapsAreFound ==
    Untouched =>
        \A readings \in GapSample \cup Range(series) :
            InOrder(readings) => (Patchy(readings) <=> HasGaps(readings))

\* The owner is not emailed about a channel twice in a cooldown, however the
\* consumer dies and whatever it handles again.
OneEmailPerCooldown ==
    [][\A c \in Channel : sending = c /\ sending' # c /\ c \in told' => c \notin told]_vars

\* A channel cools down because its owner was emailed, is being emailed now, or would
\* have been, had the sending not failed.
SilenceExplained ==
    TypeOK /\ \A c \in cooled : c \in told \/ c \in missed \/ sending = c

\* The owner of a patchy channel hears of it again and again: no lost task, failed
\* email or dead consumer silences it for ever.
OwnerIsReminded ==
    \A c \in Channel : <>[](reachable /\ Patchy(series[c])) => []<>(c \in told)

\* What a blueprint computes is in the catalogue in the end, also when the run that
\* wrote it failed before it said so, or the registration failed half way.
DerivedAreRegistered ==
    \A c \in Produced(Steps) : c \in derived ~> c \in registered
=============================================================================
