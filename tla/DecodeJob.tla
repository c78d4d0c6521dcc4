------------------------------- MODULE DecodeJob -------------------------------
(***************************************************************************)
(* flink/decode_job.py: the same decoding as a Flink job.  What the        *)
(* operator knows of the config topics is broadcast state; a checkpoint    *)
(* holds it together with the offsets of the three sources, and is         *)
(* complete when the sinks have flushed what was emitted before it         *)
(* (AT_LEAST_ONCE).  A restart resumes at the last complete checkpoint, a  *)
(* job that submit-job.sh submits anew at the earliest offsets.            *)
(*                                                                         *)
(* The sources are read by tasks of their own, so the operator takes       *)
(* elements of either input in any order; the barriers are aligned, so a   *)
(* checkpoint is a cut of what the operator has processed.                 *)
(***************************************************************************)
EXTENDS Decode

CONSTANTS
    KeyEvents, RejectionEvents, Packets,  \* what the producers may publish
    NoSnapshot,
    MaxConfig,    \* bound: events ever on each config topic
    MaxRaw,       \* bound: raw packets
    MaxFaults     \* bound: restarts and submissions

ASSUME EventsAssumption ==
    /\ KeyEvents \subseteq KeyEvent
    /\ RejectionEvents \subseteq RejectionEvent
    /\ Packets \subseteq Packet
ASSUME BoundsAssumption ==
    MaxConfig \in [{"keys", "rejections"} -> Nat] /\ MaxRaw \in Nat /\ MaxFaults \in Nat

CfgTopic == {"keys", "rejections"}
Output == [offset : 1 .. MaxRaw, kind : {"decoded", "sighting", "discovery"},
           mesh : Mesh \cup {NoMesh}]

VARIABLES
    cfg, raw,    \* the config topics and the raw topic, by offset
    op,          \* the operator: applied[t] and done are how many elements it has
                 \* processed, gateways and rejected are its broadcast state
    unsent,      \* events emitted that the Kafka sinks have not written yet
    snapshot,    \* the checkpoint under way: op then, and what was unsent then
    checkpoint,  \* op at the last complete checkpoint
    out,         \* what is on the decoded, devices and discovery topics
    dropped,     \* history: packets that were processed without an event
    faults

topics == <<cfg, raw>>
vars == <<topics, op, unsent, snapshot, checkpoint, out, dropped, faults>>

Fresh ==
    [applied |-> [t \in CfgTopic |-> 0], done |-> 0,
     gateways |-> [g \in Gateway |-> Unknown], rejected |-> {}]

Operator ==
    [applied : [CfgTopic -> Nat], done : Nat,
     gateways : [Gateway -> Entry \cup {Unknown}], rejected : SUBSET (Mesh \X Node)]

Upto(early, later) ==
    early.done <= later.done /\ \A t \in CfgTopic : early.applied[t] <= later.applied[t]

TypeOK ==
    /\ cfg \in [CfgTopic -> Seq(KeyEvents \cup RejectionEvents)]
    /\ raw \in Seq(Packets)
    /\ op \in Operator /\ checkpoint \in Operator
    /\ op.done <= Len(raw) /\ \A t \in CfgTopic : op.applied[t] <= Len(cfg[t])
    /\ Upto(checkpoint, op)
    /\ snapshot # NoSnapshot => Upto(checkpoint, snapshot.op) /\ Upto(snapshot.op, op)
    /\ unsent \subseteq Output /\ out \subseteq Output
    /\ faults \in 0 .. MaxFaults

Init ==
    /\ cfg = [t \in CfgTopic |-> <<>>] /\ raw = <<>>
    /\ op = Fresh /\ checkpoint = Fresh /\ snapshot = NoSnapshot
    /\ unsent = {} /\ out = {} /\ dropped = {} /\ faults = 0

-----------------------------------------------------------------------------
(* The environment: keyapi and the bridge publish. *)

PublishConfig ==
    /\ \E t \in CfgTopic :
          /\ Len(cfg[t]) < MaxConfig[t]
          /\ \E e \in IF t = "keys" THEN KeyEvents ELSE RejectionEvents :
                cfg' = [cfg EXCEPT ![t] = Append(@, e)]
    /\ UNCHANGED <<raw, op, unsent, snapshot, checkpoint, out, dropped, faults>>

PublishRaw ==
    /\ Len(raw) < MaxRaw
    /\ \E p \in Packets : raw' = Append(raw, p)
    /\ UNCHANGED <<cfg, op, unsent, snapshot, checkpoint, out, dropped, faults>>

-----------------------------------------------------------------------------
(* The operator. *)

\* The fault: an element nothing can be made of fails the task.
ProcessElementInsisting ==
    LET i == op.done + 1
        events == Events(raw[i], op.gateways, op.rejected)
        mesh == op.gateways[raw[i].gateway].mesh
    IN
    /\ op.done < Len(raw) /\ events # <<>>
    /\ op' = [op EXCEPT !.done = i]
    /\ unsent' = unsent \cup
           {[offset |-> i, kind |-> events[n], mesh |-> mesh] : n \in DOMAIN events}
    /\ UNCHANGED <<topics, snapshot, checkpoint, out, dropped, faults>>

\* process_element
ProcessElement ==
    LET i == op.done + 1
        events == Events(raw[i], op.gateways, op.rejected)
        mesh == op.gateways[raw[i].gateway].mesh
    IN
    /\ op.done < Len(raw)
    /\ op' = [op EXCEPT !.done = i]
    /\ unsent' = unsent \cup
           {[offset |-> i, kind |-> events[n], mesh |-> mesh] : n \in DOMAIN events}
    /\ dropped' = IF events = <<>> THEN dropped \cup {i} ELSE dropped
    /\ UNCHANGED <<topics, snapshot, checkpoint, out, faults>>

\* process_broadcast_element
ProcessBroadcastElement(t) ==
    LET event == cfg[t][op.applied[t] + 1] IN
    /\ op.applied[t] < Len(cfg[t])
    /\ op' = [op EXCEPT
                 !.applied[t] = @ + 1,
                 !.gateways = IF t = "keys" THEN GatewayAfter(@, event) ELSE @,
                 !.rejected = IF t = "rejections" THEN RejectedAfter(@, event) ELSE @]
    /\ UNCHANGED <<topics, unsent, snapshot, checkpoint, out, dropped, faults>>

-----------------------------------------------------------------------------
(* Flink: the sinks, checkpoints and restarts. *)

\* A sink writes an event; the three sinks do not wait for each other.
Write(e) ==
    /\ e \in unsent
    /\ unsent' = unsent \ {e}
    /\ out' = out \cup {e}
    /\ snapshot' = IF snapshot = NoSnapshot THEN NoSnapshot
                   ELSE [snapshot EXCEPT !.due = @ \ {e}]
    /\ UNCHANGED <<topics, op, checkpoint, dropped, faults>>

TriggerCheckpoint ==
    /\ snapshot = NoSnapshot /\ op # checkpoint
    /\ snapshot' = [op |-> op, due |-> unsent]
    /\ UNCHANGED <<topics, op, unsent, checkpoint, out, dropped, faults>>

\* The fault: the delivery guarantee is NONE, the sinks are not flushed.
CompleteWithoutFlush ==
    /\ snapshot # NoSnapshot
    /\ checkpoint' = snapshot.op
    /\ snapshot' = NoSnapshot
    /\ UNCHANGED <<topics, op, unsent, out, dropped, faults>>

CompleteCheckpoint ==
    /\ snapshot # NoSnapshot /\ snapshot.due = {}
    /\ checkpoint' = snapshot.op
    /\ snapshot' = NoSnapshot
    /\ UNCHANGED <<topics, op, unsent, out, dropped, faults>>

\* The fault: only the offsets are restored, the state is kept in plain memory.
RestartOffsetsOnly ==
    /\ faults < MaxFaults
    /\ faults' = faults + 1
    /\ op' = [op EXCEPT !.applied = checkpoint.applied, !.done = checkpoint.done]
    /\ unsent' = {} /\ snapshot' = NoSnapshot
    /\ UNCHANGED <<topics, checkpoint, out, dropped>>

\* A task fails, a write fails for good or a checkpoint does not complete in time.
Restart ==
    /\ faults < MaxFaults
    /\ faults' = faults + 1
    /\ op' = checkpoint /\ unsent' = {} /\ snapshot' = NoSnapshot
    /\ UNCHANGED <<topics, checkpoint, out, dropped>>

\* The cluster lost the job and submit-job.sh runs it, from no savepoint.
Submit ==
    /\ faults < MaxFaults
    /\ faults' = faults + 1
    /\ op' = Fresh /\ checkpoint' = Fresh /\ unsent' = {} /\ snapshot' = NoSnapshot
    /\ UNCHANGED <<topics, out, dropped>>

Next ==
    \/ PublishConfig \/ PublishRaw
    \/ ProcessElement \/ \E t \in CfgTopic : ProcessBroadcastElement(t)
    \/ \E e \in Output : Write(e)
    \/ TriggerCheckpoint \/ CompleteCheckpoint
    \/ Restart \/ Submit

\* The tasks run, the sinks flush and a checkpoint is triggered every ten seconds.
Fairness ==
    /\ WF_vars(ProcessElement)
    /\ \A e \in Output : WF_vars(Write(e))
    /\ WF_vars(TriggerCheckpoint) /\ WF_vars(CompleteCheckpoint)

Spec == Init /\ [][Next]_vars /\ Fairness

-----------------------------------------------------------------------------
(* Properties. *)

\* However restarts and resubmissions fall, the broadcast state is what the config
\* topics say from their beginning up to the operator's offset in each: unlike the
\* lite decoder's, it forgets no registration and no rejection.
StateIsReplay ==
    /\ TypeOK
    /\ \A g \in Gateway : GatewayFollows(op.gateways, g, cfg["keys"], 0, op.applied["keys"])
    /\ \A k \in Mesh \X Node :
          RejectionFollows(op.rejected, k, cfg["rejections"], 0, op.applied["rejections"])

\* An event is emitted only under the registration that is the latest the operator
\* has processed, also when the packet is replayed.
EmittedIsAuthorized ==
    [][\A e \in unsent' \ unsent :
          Authorizes(cfg["keys"], op.applied["keys"], raw[e.offset], e.mesh)]_vars

\* A packet behind the checkpoint, which no restart reads again, was dropped by
\* decode_packet or has all its events on the topics.
CompletelyWritten(i) ==
    \E e \in out :
        /\ e.offset = i
        /\ e.mesh # NoMesh => [e EXCEPT !.kind = "sighting"] \in out
        /\ e.mesh # NoMesh /\ raw[i].payload = "telemetry" =>
              [e EXCEPT !.kind = "discovery"] \in out

CheckpointedAreSettled ==
    \A i \in 1 .. checkpoint.done : i \in dropped \/ CompletelyWritten(i)

\* Every packet gets behind a checkpoint and stays there unless the job is
\* submitted anew: replays come to an end.
EventuallyCheckpointed ==
    \A i \in 1 .. MaxRaw : i <= Len(raw) ~> [](checkpoint.done >= i)
=============================================================================
