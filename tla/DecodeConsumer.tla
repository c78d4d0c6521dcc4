---------------------------- MODULE DecodeConsumer ----------------------------
(***************************************************************************)
(* pipeline/decode_consumer.py: the lite decoder, one process whose event  *)
(* loop runs two coroutines.  consume_config applies the config topics to  *)
(* gateway_state and rejected_nodes, which live in memory only;            *)
(* consume_decode decodes raw packets with them and publishes the result.  *)
(* A coroutine keeps the loop until it awaits: "running" says which of     *)
(* them holds it, NONE when both sleep.                                    *)
(***************************************************************************)
EXTENDS Decode, FiniteSets

CONSTANTS
    KeyEvents, RejectionEvents, Packets,  \* what the producers may publish
    MaxPoll,      \* DECODE_CONSUMER__CONSUMER__N_MSGS
    MaxConfig,    \* bound: events ever on each config topic
    MaxRaw,       \* bound: raw packets
    MaxFaults     \* bound: crashes plus failed sends and commits

ASSUME EventsAssumption ==
    /\ KeyEvents \subseteq KeyEvent
    /\ RejectionEvents \subseteq RejectionEvent
    /\ Packets \subseteq Packet
ASSUME BoundsAssumption ==
    /\ MaxPoll \in Nat \ {0}
    /\ MaxConfig \in [{"keys", "rejections"} -> Nat]
    /\ MaxRaw \in Nat
    /\ MaxFaults \in Nat

CfgTopic == {"keys", "rejections"}
Published == [offset : 1..MaxRaw, kind : {"decoded", "sighting", "discovery"},
              mesh : Mesh \cup {NoMesh}]

VARIABLES
    cfg,            \* the two config topics, by offset
    raw,            \* the raw topic, by offset
    cfgCommitted,   \* auto-committed offsets of decode-consumer-config-group
    cfgPosition,    \* the config consumer's positions
    cfgApplied,     \* cfg[t][1..cfgApplied[t]] went through _apply_config_event
    base,           \* history: where this process started reading cfg
    gatewayState,   \* gateway_state
    rejectedNodes,  \* rejected_nodes
    rawCommitted,   \* committed offset of decode-consumer-group
    rawPosition,    \* the raw consumer's position
    done,           \* raw[1..done] went through the loop body
    pending,        \* what _publish still has to send for raw[done + 1]
    commitOk,       \* commit_ok
    running,        \* the coroutine that holds the event loop
    out,            \* what reached the decoded, devices and discovery topics
    dropped,        \* history: packets decode_packet returned None for, or raised on
    failed,         \* history: packets of the batch last begun whose _publish raised
    skipped,        \* history: such packets of earlier batches, which the loop left behind
    faults          \* history: failures and crashes so far

topics == <<cfg, raw>>
config == <<cfgCommitted, cfgPosition, cfgApplied, base, gatewayState, rejectedNodes>>
decoder == <<rawCommitted, rawPosition, done, pending, commitOk>>
history == <<dropped, failed, skipped>>
vars == <<topics, config, decoder, running, out, history, faults>>

EntryOf(i) == gatewayState[raw[i].gateway]
Sent(i, kind) == [offset |-> i, kind |-> kind, mesh |-> EntryOf(i).mesh]

TypeOK ==
    /\ cfg \in [CfgTopic -> Seq(KeyEvents \cup RejectionEvents)]
    /\ \A t \in CfgTopic : Len(cfg[t]) <= MaxConfig[t]
    /\ raw \in Seq(Packets) /\ Len(raw) <= MaxRaw
    /\ cfgCommitted \in [CfgTopic -> Nat] /\ cfgPosition \in [CfgTopic -> Nat]
    /\ cfgApplied \in [CfgTopic -> Nat] /\ base \in [CfgTopic -> Nat]
    /\ \A t \in CfgTopic :
          /\ base[t] <= cfgApplied[t] /\ cfgCommitted[t] <= cfgApplied[t]
          /\ cfgApplied[t] <= cfgPosition[t] /\ cfgPosition[t] <= Len(cfg[t])
    /\ gatewayState \in [Gateway -> Entry \cup {Unknown}]
    /\ rejectedNodes \subseteq Mesh \X Node
    /\ rawCommitted <= done /\ done <= rawPosition /\ rawPosition <= Len(raw)
    /\ commitOk \in BOOLEAN
    /\ running \in {"none", "config", "decode", "publish"}
    /\ running = "publish" <=> pending # <<>>
    /\ out \subseteq Published
    /\ faults \in 0..MaxFaults

Init ==
    /\ cfg = [t \in CfgTopic |-> <<>>] /\ raw = <<>>
    /\ cfgCommitted = [t \in CfgTopic |-> 0]
    /\ cfgPosition = cfgCommitted /\ cfgApplied = cfgCommitted /\ base = cfgCommitted
    /\ gatewayState = [g \in Gateway |-> Unknown] /\ rejectedNodes = {}
    /\ rawCommitted = 0 /\ rawPosition = 0 /\ done = 0
    /\ pending = <<>> /\ commitOk = TRUE /\ running = "none"
    /\ out = {} /\ dropped = {} /\ failed = {} /\ skipped = {}
    /\ faults = 0

-----------------------------------------------------------------------------
(* The environment: keyapi and the bridge publish. *)

PublishConfig ==
    /\ \E t \in CfgTopic :
          /\ Len(cfg[t]) < MaxConfig[t]
          /\ \E e \in IF t = "keys" THEN KeyEvents ELSE RejectionEvents :
                cfg' = [cfg EXCEPT ![t] = Append(@, e)]
    /\ UNCHANGED <<raw, config, decoder, running, out, history, faults>>

PublishRaw ==
    /\ Len(raw) < MaxRaw
    /\ \E p \in Packets : raw' = Append(raw, p)
    /\ UNCHANGED <<cfg, config, decoder, running, out, history, faults>>

-----------------------------------------------------------------------------
(* consume_config. *)

\* poll(): it auto-commits what earlier polls returned, when the interval is
\* over, and returns more records of either topic.
PollConfig ==
    /\ running = "none"
    /\ \E reached \in [CfgTopic -> 0..MaxConfig["keys"] + MaxConfig["rejections"]] :
          /\ \A t \in CfgTopic : cfgPosition[t] <= reached[t] /\ reached[t] <= Len(cfg[t])
          /\ reached # cfgPosition
          /\ cfgPosition' = reached
    /\ cfgCommitted' \in {cfgCommitted, cfgPosition}
    /\ running' = "config"
    /\ UNCHANGED <<topics, cfgApplied, base, gatewayState, rejectedNodes, decoder,
                   out, history, faults>>

\* A poll that returns nothing may still auto-commit.
AutoCommit ==
    /\ running = "none"
    /\ cfgCommitted' = cfgPosition
    /\ UNCHANGED <<topics, cfgPosition, cfgApplied, base, gatewayState, rejectedNodes,
                   decoder, running, out, history, faults>>

\* _apply_config_event on the next record of a topic that was polled.
ApplyConfigEvent(t) ==
    LET event == cfg[t][cfgApplied[t] + 1] IN
    /\ running = "config"
    /\ cfgApplied[t] < cfgPosition[t]
    /\ cfgApplied' = [cfgApplied EXCEPT ![t] = @ + 1]
    /\ IF t = "keys"
       THEN /\ gatewayState' = GatewayAfter(gatewayState, event)
            /\ UNCHANGED rejectedNodes
       ELSE /\ rejectedNodes' = RejectedAfter(rejectedNodes, event)
            /\ UNCHANGED gatewayState
    /\ running' = IF cfgApplied' = cfgPosition THEN "none" ELSE "config"
    /\ UNCHANGED <<topics, cfgCommitted, cfgPosition, base, decoder, out, history, faults>>

-----------------------------------------------------------------------------
(* consume_decode. *)

\* poll() and then the sleep, during which config events may be applied.
PollRaw ==
    /\ running = "none"
    /\ done = rawPosition
    /\ \E n \in 1..MaxPoll :
          /\ rawPosition + n <= Len(raw)
          /\ rawPosition' = rawPosition + n
    /\ UNCHANGED <<topics, config, rawCommitted, done, pending, commitOk, running, out,
                   history, faults>>

\* The sleep is over and there are messages.  A packet of the batch before that could
\* not be published is behind rawPosition: nothing remembers it.
Wake ==
    /\ running = "none"
    /\ done < rawPosition
    /\ running' = "decode"
    /\ commitOk' = TRUE
    /\ skipped' = skipped \cup failed /\ failed' = {}
    /\ UNCHANGED <<topics, config, rawCommitted, rawPosition, done, pending, out,
                   dropped, faults>>

\* The fault: a packet that cannot be decoded yet is tried again first.
DecodeNextInsisting ==
    LET events == Events(raw[done + 1], gatewayState, rejectedNodes) IN
    /\ running = "decode"
    /\ done < rawPosition
    /\ events # <<>>
    /\ pending' = events
    /\ running' = "publish"
    /\ UNCHANGED <<topics, config, rawCommitted, rawPosition, done, commitOk, out,
                   history, faults>>

\* decode_packet on the next record of the batch.
DecodeNext ==
    LET events == Events(raw[done + 1], gatewayState, rejectedNodes) IN
    /\ running = "decode"
    /\ done < rawPosition
    /\ IF events = <<>>
       THEN /\ done' = done + 1
            /\ dropped' = dropped \cup {done + 1}
            /\ UNCHANGED <<pending, running>>
       ELSE /\ pending' = events
            /\ running' = "publish"
            /\ UNCHANGED <<done, dropped>>
    /\ UNCHANGED <<topics, config, rawCommitted, rawPosition, commitOk, out, failed, skipped,
                   faults>>

\* send(...).get() of the next event returns.
Send ==
    /\ running = "publish"
    /\ out' = out \cup {Sent(done + 1, Head(pending))}
    /\ pending' = Tail(pending)
    /\ IF pending' = <<>>
       THEN done' = done + 1 /\ running' = "decode"
       ELSE UNCHANGED <<done, running>>
    /\ UNCHANGED <<topics, config, rawCommitted, rawPosition, commitOk, history, faults>>

\* send(...).get() raises, for example after ten seconds, with or without the
\* event on the topic.  The rest of this packet's events are not sent, the loop
\* goes on with the next packet, and the batch is not committed.
SendFails ==
    /\ running = "publish"
    /\ faults < MaxFaults
    /\ out' \in {out, out \cup {Sent(done + 1, Head(pending))}}
    /\ pending' = <<>>
    /\ failed' = failed \cup {done + 1}
    /\ done' = done + 1
    /\ commitOk' = FALSE
    /\ running' = "decode"
    /\ faults' = faults + 1
    /\ UNCHANGED <<topics, config, rawCommitted, rawPosition, dropped, skipped>>

\* The fault: the batch is committed although a packet of it could not be published.
FinishBatchRegardless ==
    /\ running = "decode"
    /\ done = rawPosition
    /\ rawCommitted' = rawPosition
    /\ running' = "none"
    /\ UNCHANGED <<topics, config, rawPosition, done, pending, commitOk, out, history, faults>>

\* The end of the batch.
FinishBatch ==
    /\ running = "decode"
    /\ done = rawPosition
    /\ rawCommitted' = IF commitOk THEN rawPosition ELSE rawCommitted
    /\ running' = "none"
    /\ UNCHANGED <<topics, config, rawPosition, done, pending, commitOk, out, history, faults>>

\* The process dies: by itself, or because commit() or poll() raised, which no
\* handler catches.  A commit that raised may have reached the broker.  The
\* restarted process has empty dicts and resumes at the committed offsets: it polls
\* again the packets behind them that could not be published.
Restart ==
    /\ faults < MaxFaults
    /\ \/ rawCommitted' = rawCommitted
       \/ /\ running = "decode" /\ done = rawPosition /\ commitOk
          /\ rawCommitted' = rawPosition
    /\ rawPosition' = rawCommitted' /\ done' = rawCommitted'
    /\ pending' = <<>> /\ commitOk' = TRUE /\ running' = "none"
    /\ cfgPosition' = cfgCommitted /\ cfgApplied' = cfgCommitted /\ base' = cfgCommitted
    /\ gatewayState' = [g \in Gateway |-> Unknown] /\ rejectedNodes' = {}
    /\ failed' = {} /\ skipped' = {i \in skipped : i <= rawCommitted'}
    /\ faults' = faults + 1
    /\ UNCHANGED <<topics, cfgCommitted, out, dropped>>

Next ==
    \/ PublishConfig \/ PublishRaw
    \/ PollConfig \/ AutoCommit \/ \E t \in CfgTopic : ApplyConfigEvent(t)
    \/ PollRaw \/ Wake \/ DecodeNext \/ Send \/ SendFails \/ FinishBatch
    \/ Restart

\* Both coroutines run again and again, and the broker returns what it has.
Fairness ==
    /\ SF_vars(PollConfig)
    /\ \A t \in CfgTopic : WF_vars(ApplyConfigEvent(t))
    /\ SF_vars(PollRaw) /\ SF_vars(Wake)
    /\ WF_vars(DecodeNext) /\ WF_vars(Send) /\ WF_vars(FinishBatch)

Spec == Init /\ [][Next]_vars /\ Fairness

-----------------------------------------------------------------------------
(* Safety. *)

\* The two dictionaries hold what the config events since the process started
\* say, for every key the last one: however polls, the decode coroutine and
\* restarts fall between the events of a key.
StateIsTailReplay ==
    /\ TypeOK
    /\ \A g \in Gateway :
          GatewayFollows(gatewayState, g, cfg["keys"], base["keys"], cfgApplied["keys"])
    /\ \A k \in Mesh \X Node :
          RejectionFollows(rejectedNodes, k, cfg["rejections"], base["rejections"],
                           cfgApplied["rejections"])

\* A packet is published only under what is, of the first cfgApplied events of the
\* topic, the last about its gateway: an upsert, whose mesh the published event names
\* and whose key opened the packet.  The events before the committed offset count,
\* which only an earlier process read: what a restart forgot is never replaced by an
\* older registration.  A new process that is still behind its predecessor is measured
\* by what it has read again, not by what the earlier one had read (see the README).
OutputIsAuthorized ==
    [][\A e \in out' \ out :
          Authorizes(cfg["keys"], cfgApplied["keys"], raw[e.offset], e.mesh)]_vars

\* A sighting or a discovery is on its topic only if the decoded event of the
\* same packet, for the same mesh, is on the decoded topic.
SideEventsFollowDecoded ==
    \A e \in out : [e EXCEPT !.kind = "decoded"] \in out

\* All events of packet i were sent, under one registration.
CompletelyPublished(i) ==
    \E e \in out :
        /\ e.offset = i
        /\ e.mesh # NoMesh => [e EXCEPT !.kind = "sighting"] \in out
        /\ e.mesh # NoMesh /\ raw[i].payload = "telemetry" =>
              [e EXCEPT !.kind = "discovery"] \in out

\* A committed packet was dropped by decode_packet, or all its events were sent: a crash
\* between two sends, a commit that raised and a failed send lose nothing of the batch
\* they fall in.  The one loss is a packet whose publish failed which the process
\* left behind by handling a further batch, before that batch is committed.
CommittedAreSettled ==
    \A i \in 1..rawCommitted : i \in dropped \cup skipped \/ CompletelyPublished(i)

\* What consume_config's comment promises: once the process has read all there
\* is, it knows every registered gateway.  It does not hold: a restart begins
\* with empty dictionaries after the auto-committed offset.
RegisteredGatewaysKnown ==
    (running = "none" /\ \A t \in CfgTopic : cfgApplied[t] = Len(cfg[t])) =>
        \A g \in Gateway, i \in 1..MaxConfig["keys"] :
            (IsLast(cfg["keys"], g, i, 0, Len(cfg["keys"])) /\ cfg["keys"][i].op = "upsert")
                => gatewayState[g] = cfg["keys"][i].entry

-----------------------------------------------------------------------------
(* Liveness: every packet is decided on, and every config event is applied   *)
(* or was by a process that died since; neither the config events that come  *)
(* at any time nor the other coroutine's long batches can postpone it.       *)
EventuallyDecided ==
    /\ \A i \in 1..MaxRaw :
          (i <= Len(raw)) ~> (i \in dropped \cup failed \cup skipped \/ \E e \in out : e.offset = i)
    /\ \A t \in CfgTopic : \A i \in 1..MaxConfig[t] : (i <= Len(cfg[t])) ~> (i <= cfgApplied[t])
=============================================================================
