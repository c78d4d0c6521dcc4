--------------------------- MODULE DecodeJobProofs ---------------------------
(***************************************************************************)
(* Proofs about the Flink decoder, for any config events and packets and   *)
(* any number of checkpoints, restarts and submissions: its broadcast      *)
(* state is in step with the topics, what it emits is authorized, and what *)
(* is behind a checkpoint is settled.                                      *)
(***************************************************************************)
EXTENDS DecodeJob, TLAPS

USE DecodeConstants, EventsAssumption, BoundsAssumption

Kind == {"decoded", "sighting", "discovery"}

-----------------------------------------------------------------------------
(* The operators of Decode: applying the next event of a topic keeps the state in *)
(* step with it, and what is published was authorized by the last event about the *)
(* gateway.                                                                       *)

\* Applying the next event of mesh.keys.v1 keeps the gateways in step with the topic.
LEMMA GatewayApplied ==
    ASSUME NEW state \in [Gateway -> Entry \cup {Unknown}], NEW g \in Gateway,
           NEW events \in Seq(KeyEvent), NEW lo \in Nat, NEW hi \in Nat,
           lo <= hi, hi < Len(events),
           GatewayFollows(state, g, events, lo, hi)
    PROVE  GatewayFollows(GatewayAfter(state, events[hi + 1]), g, events, lo, hi + 1)
<1> DEFINE e == events[hi + 1]
<1>1. e \in KeyEvent /\ hi + 1 \in lo + 1 .. hi + 1
  OBVIOUS
<1>2. CASE About(e, g)
  <2>1. IsLast(events, g, hi + 1, lo, hi + 1)
    BY <1>1, <1>2 DEF IsLast
  <2>2. GatewayAfter(state, e)[g] = IF e.op = "delete" THEN Unknown ELSE e.entry
    BY <1>2 DEF GatewayAfter, About
  <2> QED BY <1>1, <2>1, <2>2 DEF GatewayFollows
<1>3. CASE ~About(e, g)
  <2>1. GatewayAfter(state, e)[g] = state[g]
    BY <1>1, <1>3 DEF GatewayAfter, About, KeyEvent
  <2>2. \A i \in lo + 1 .. hi : IsLast(events, g, i, lo, hi) => IsLast(events, g, i, lo, hi + 1)
    <3> SUFFICES ASSUME NEW i \in lo + 1 .. hi, IsLast(events, g, i, lo, hi),
                        NEW j \in i + 1 .. hi + 1
                 PROVE  ~About(events[j], g)
      BY DEF IsLast
    <3>1. j = hi + 1 \/ j \in i + 1 .. hi
      OBVIOUS
    <3> QED BY <1>3, <3>1 DEF IsLast
  <2>3. \A i \in lo + 1 .. hi + 1 : i \in lo + 1 .. hi \/ i = hi + 1
    OBVIOUS
  <2> HIDE DEF e
  <2>4. lo + 1 .. hi \subseteq lo + 1 .. hi + 1 /\ ~About(events[hi + 1], g)
    BY <1>3 DEF e
  <2>5. GatewayAfter(state, events[hi + 1])[g] = state[g]
    BY <2>1 DEF e
  <2> QED BY <2>2, <2>3, <2>4, <2>5 DEF GatewayFollows
<1> QED BY <1>2, <1>3

\* The same for mesh.node_rejections.v1.
LEMMA RejectionApplied ==
    ASSUME NEW rejected, NEW k, NEW events \in Seq(RejectionEvent),
           NEW lo \in Nat, NEW hi \in Nat, lo <= hi, hi < Len(events),
           RejectionFollows(rejected, k, events, lo, hi)
    PROVE  RejectionFollows(RejectedAfter(rejected, events[hi + 1]), k, events, lo, hi + 1)
<1> DEFINE e == events[hi + 1]
<1>1. e \in RejectionEvent /\ hi + 1 \in lo + 1 .. hi + 1
  OBVIOUS
<1>2. \A i \in lo + 1 .. hi + 1 : i \in lo + 1 .. hi \/ i = hi + 1
  OBVIOUS
<1>3. lo + 1 .. hi \subseteq lo + 1 .. hi + 1
  OBVIOUS
<1>4. CASE About(e, k)
  <2>1. IsLast(events, k, hi + 1, lo, hi + 1)
    BY <1>1, <1>4 DEF IsLast
  <2>2. \A i \in lo + 1 .. hi : ~IsLast(events, k, i, lo, hi + 1)
    <3> SUFFICES ASSUME NEW i \in lo + 1 .. hi PROVE ~IsLast(events, k, i, lo, hi + 1)
      OBVIOUS
    <3>1. hi + 1 \in i + 1 .. hi + 1
      OBVIOUS
    <3> QED BY <1>4, <3>1 DEF IsLast
  <2>3. k \in RejectedAfter(rejected, e) <=> e.op = "upsert"
    BY <1>1, <1>4 DEF RejectedAfter, About, RejectionEvent
  <2> QED BY <1>1, <1>2, <2>1, <2>2, <2>3 DEF RejectionFollows
<1>5. CASE ~About(e, k)
  <2>1. k \in RejectedAfter(rejected, e) <=> k \in rejected
    BY <1>1, <1>5 DEF RejectedAfter, About, RejectionEvent
  <2>2. \A i \in lo + 1 .. hi : IsLast(events, k, i, lo, hi) <=> IsLast(events, k, i, lo, hi + 1)
    <3> TAKE i \in lo + 1 .. hi
    <3>1. i \in lo + 1 .. hi + 1 /\ i + 1 .. hi \subseteq i + 1 .. hi + 1
      OBVIOUS
    <3>2. \A j \in i + 1 .. hi + 1 : j = hi + 1 \/ j \in i + 1 .. hi
      OBVIOUS
    <3> QED BY <1>5, <3>1, <3>2 DEF IsLast
  <2>3. ~IsLast(events, k, hi + 1, lo, hi + 1)
    BY <1>5 DEF IsLast
  <2> QED BY <1>2, <1>3, <2>1, <2>2, <2>3 DEF RejectionFollows
<1> QED BY <1>4, <1>5

\* What is published to a topic changes nothing about the events that were applied.
LEMMA FollowsAppended ==
    ASSUME NEW S, NEW events \in Seq(S), NEW e \in S, NEW lo \in Nat, NEW hi \in Nat,
           hi <= Len(events), NEW state, NEW k
    PROVE  /\ GatewayFollows(state, k, events, lo, hi)
                => GatewayFollows(state, k, Append(events, e), lo, hi)
           /\ RejectionFollows(state, k, events, lo, hi)
                => RejectionFollows(state, k, Append(events, e), lo, hi)
<1>1. \A i \in lo + 1 .. hi : Append(events, e)[i] = events[i]
  OBVIOUS
<1>2. \A i \in lo + 1 .. hi : i + 1 .. hi \subseteq lo + 1 .. hi
  OBVIOUS
<1>3. \A i \in lo + 1 .. hi :
         IsLast(Append(events, e), k, i, lo, hi) <=> IsLast(events, k, i, lo, hi)
  BY <1>1, <1>2 DEF IsLast
<1> HIDE DEF IsLast
<1> QED BY <1>1, <1>3 DEF GatewayFollows, RejectionFollows

\* A process that has applied nothing knows nothing.
LEMMA NothingFollows ==
    ASSUME NEW events, NEW lo \in Nat, NEW k
    PROVE  /\ k \in Gateway => GatewayFollows([g \in Gateway |-> Unknown], k, events, lo, lo)
           /\ RejectionFollows({}, k, events, lo, lo)
<1>1. lo + 1 .. lo = {}
  OBVIOUS
<1> QED BY <1>1 DEF GatewayFollows, RejectionFollows

\* A registration in the state is the last event about the gateway there ever was.
LEMMA FollowedAuthorizes ==
    ASSUME NEW state, NEW packet \in Packet, NEW events \in Seq(KeyEvent),
           NEW lo \in Nat, NEW hi \in Nat, hi <= Len(events),
           GatewayFollows(state, packet.gateway, events, lo, hi),
           state[packet.gateway] # Unknown, Readable(packet, state[packet.gateway])
    PROVE  Authorizes(events, hi, packet, state[packet.gateway].mesh)
<1>1. PICK i \in lo + 1 .. hi :
         /\ IsLast(events, packet.gateway, i, lo, hi)
         /\ state[packet.gateway] =
              IF events[i].op = "delete" THEN Unknown ELSE events[i].entry
  BY DEF GatewayFollows
<1>2. i \in 1 .. hi /\ i \in 0 + 1 .. hi /\ events[i] \in KeyEvent
  OBVIOUS
<1>3. IsLast(events, packet.gateway, i, 0, hi)
  BY <1>1, <1>2 DEF IsLast
<1>4. events[i].op = "upsert" /\ state[packet.gateway] = events[i].entry
  BY <1>1, <1>2 DEF IsLast, About, KeyEvent
<1> QED BY <1>2, <1>3, <1>4 DEF Authorizes

\* The events of a packet that is not dropped.
LEMMA EventsFacts ==
    ASSUME NEW packet, NEW state, NEW rejected
    PROVE  LET evs == Events(packet, state, rejected)
               entry == state[packet.gateway]
           IN  evs # <<>> =>
                 /\ entry # Unknown /\ Readable(packet, entry)
                 /\ evs = IF entry.mesh = NoMesh THEN <<"decoded">>
                          ELSE IF packet.payload = "telemetry"
                               THEN <<"decoded", "sighting", "discovery">>
                               ELSE <<"decoded", "sighting">>
  BY DEF Events

-----------------------------------------------------------------------------
(* The invariant. *)

\* Each topic has events of its kind, and no more packets than there may be.
Topics ==
    /\ cfg["keys"] \in Seq(KeyEvents) /\ cfg["rejections"] \in Seq(RejectionEvents)
    /\ Len(raw) <= MaxRaw

SnapshotType == snapshot # NoSnapshot => snapshot.op \in Operator

\* What an operator in state o knows is what the topics say up to its offsets.
Follows(o) ==
    /\ \A g \in Gateway : GatewayFollows(o.gateways, g, cfg["keys"], 0, o.applied["keys"])
    /\ \A k \in Mesh \X Node :
          RejectionFollows(o.rejected, k, cfg["rejections"], 0, o.applied["rejections"])

\* Every state a restart may return to follows them too.
AllFollow ==
    /\ Follows(op) /\ Follows(checkpoint)
    /\ snapshot # NoSnapshot => Follows(snapshot.op)

\* The packet is one of those dropped, or all its events are among these.
Settled(i, packets, gone, events) ==
    \/ i \in gone
    \/ \E e \in events :
          /\ e.offset = i
          /\ e.mesh # NoMesh => [e EXCEPT !.kind = "sighting"] \in events
          /\ e.mesh # NoMesh /\ packets[i].payload = "telemetry" =>
                [e EXCEPT !.kind = "discovery"] \in events

\* What the operator has processed is written or unsent; what the checkpoint under way
\* covers is written or due before it completes; what a complete one covers is written.
AllSettled ==
    /\ \A i \in 1 .. op.done : Settled(i, raw, dropped, out \cup unsent)
    /\ snapshot # NoSnapshot =>
          \A i \in 1 .. snapshot.op.done : Settled(i, raw, dropped, out \cup snapshot.due)
    /\ \A i \in 1 .. checkpoint.done : Settled(i, raw, dropped, out)

IInv == TypeOK /\ Topics /\ SnapshotType /\ AllFollow /\ AllSettled

-----------------------------------------------------------------------------
\* What is settled stays so when more is dropped, emitted or published.
LEMMA SettledGrows ==
    ASSUME NEW n \in Nat, NEW packets, NEW later, NEW gone, NEW dead, NEW events, NEW more,
           \A i \in 1 .. n : later[i] = packets[i],
           gone \subseteq dead, events \subseteq more,
           \A i \in 1 .. n : Settled(i, packets, gone, events)
    PROVE  \A i \in 1 .. n : Settled(i, later, dead, more)
  BY DEF Settled

\* The numbers in the type.
LEMMA OffsetFacts ==
    ASSUME NEW o \in Operator
    PROVE  /\ o.done \in Nat /\ \A t \in CfgTopic : o.applied[t] \in Nat
           /\ o.applied["keys"] \in Nat /\ o.applied["rejections"] \in Nat
  BY DEF Operator, CfgTopic

\* An operator that has processed nothing follows the topics up to there.
LEMMA FreshFacts ==
    ASSUME IInv
    PROVE  Fresh \in Operator /\ Fresh.done = 0 /\ Follows(Fresh) /\ Upto(Fresh, Fresh)
<1>1. Fresh \in Operator /\ Fresh.done = 0 /\ Upto(Fresh, Fresh)
  BY DEF Fresh, Operator, Upto
<1>2. Follows(Fresh)
  BY NothingFollows DEF Follows, Fresh, CfgTopic
<1> QED BY <1>1, <1>2

\* So do the first operator and the first checkpoint.
LEMMA InitIInv == Init => IInv
<1> SUFFICES ASSUME Init PROVE IInv
  OBVIOUS
<1>1. Fresh \in Operator /\ Fresh.done = 0 /\ Upto(Fresh, Fresh)
  BY DEF Fresh, Operator, Upto
<1>2. Follows(Fresh)
  BY NothingFollows DEF Follows, Fresh, CfgTopic
<1>3. TypeOK
  <2>1. \A t \in CfgTopic : op.applied[t] <= Len(cfg[t])
    BY DEF Init, Fresh
  <2> QED BY <1>1, <2>1 DEF Init, TypeOK
<1>4. Topics /\ SnapshotType /\ AllFollow /\ AllSettled
  BY <1>1, <1>2 DEF Init, Topics, SnapshotType, AllFollow, AllSettled, CfgTopic
<1> QED BY <1>3, <1>4 DEF IInv

\* keyapi publishes a config event.
LEMMA PublishConfigStep ==
    ASSUME IInv, PublishConfig
    PROVE  IInv'
<1>1. PICK t \in CfgTopic, e \in KeyEvents \cup RejectionEvents :
         /\ e \in IF t = "keys" THEN KeyEvents ELSE RejectionEvents
         /\ cfg' = [cfg EXCEPT ![t] = Append(@, e)]
  BY DEF PublishConfig
<1>2. UNCHANGED <<raw, op, unsent, snapshot, checkpoint, out, dropped, faults>>
  BY DEF PublishConfig
<1>3. TypeOK /\ Topics /\ SnapshotType
  BY DEF IInv
<1>4. \A u \in CfgTopic : cfg[u] \in Seq(KeyEvents \cup RejectionEvents) /\ Len(cfg[u]) \in Nat
  BY <1>3 DEF TypeOK
<1>5. /\ cfg' \in [CfgTopic -> Seq(KeyEvents \cup RejectionEvents)]
      /\ \A u \in CfgTopic : cfg'[u] = IF u = t THEN Append(cfg[u], e) ELSE cfg[u]
      /\ \A u \in CfgTopic : Len(cfg'[u]) \in Nat /\ Len(cfg[u]) <= Len(cfg'[u])
  BY <1>1, <1>3, <1>4 DEF TypeOK
<1>6. Topics'
  BY <1>1, <1>2, <1>3, <1>5 DEF Topics, CfgTopic
<1>7. TypeOK'
  <2>1. \A u \in CfgTopic : op.applied[u] <= Len(cfg'[u])
    BY <1>3, <1>4, <1>5, OffsetFacts DEF TypeOK
  <2> QED BY <1>2, <1>3, <1>5, <2>1 DEF TypeOK
<1>8. ASSUME NEW o \in Operator, Follows(o), \A u \in CfgTopic : o.applied[u] <= op.applied[u]
      PROVE  /\ \A g \in Gateway :
                   GatewayFollows(o.gateways, g, cfg'["keys"], 0, o.applied["keys"])
             /\ \A k \in Mesh \X Node :
                   RejectionFollows(o.rejected, k, cfg'["rejections"], 0, o.applied["rejections"])
  <2>1. \A u \in CfgTopic : o.applied[u] \in Nat /\ o.applied[u] <= Len(cfg[u])
    <3>1. \A u \in CfgTopic : op.applied[u] <= Len(cfg[u]) /\ op.applied[u] \in Nat
      BY <1>3, OffsetFacts DEF TypeOK
    <3> QED BY <1>4, <1>8, <3>1, OffsetFacts
  <2>2. "keys" \in CfgTopic /\ "rejections" \in CfgTopic
    BY DEF CfgTopic
  <2>3. ASSUME NEW g \in Gateway
        PROVE  GatewayFollows(o.gateways, g, cfg'["keys"], 0, o.applied["keys"])
    <3>1. GatewayFollows(o.gateways, g, cfg["keys"], 0, o.applied["keys"])
      BY <1>8 DEF Follows
    <3> QED BY <1>1, <1>3, <1>5, <2>1, <2>2, <3>1, FollowsAppended DEF Topics
  <2>4. ASSUME NEW k \in Mesh \X Node
        PROVE  RejectionFollows(o.rejected, k, cfg'["rejections"], 0, o.applied["rejections"])
    <3>1. RejectionFollows(o.rejected, k, cfg["rejections"], 0, o.applied["rejections"])
      BY <1>8 DEF Follows
    <3> QED BY <1>1, <1>3, <1>5, <2>1, <2>2, <3>1, FollowsAppended DEF Topics
  <2> QED BY <2>3, <2>4
<1>9. AllFollow'
  <2>1. Follows(op)'
    <3>1. op \in Operator /\ Follows(op) /\ \A u \in CfgTopic : op.applied[u] <= op.applied[u]
      BY <1>3, OffsetFacts DEF IInv, AllFollow, TypeOK
    <3> QED BY <1>2, <1>8, <3>1 DEF Follows
  <2>2. Follows(checkpoint)'
    BY <1>2, <1>3, <1>8 DEF IInv, AllFollow, Follows, TypeOK, Upto
  <2>3. snapshot # NoSnapshot => Follows(snapshot.op)'
    BY <1>2, <1>3, <1>8 DEF IInv, AllFollow, Follows, TypeOK, Upto, SnapshotType
  <2> QED BY <1>2, <2>1, <2>2, <2>3 DEF AllFollow
<1>10. SnapshotType' /\ AllSettled'
  BY <1>2 DEF IInv, SnapshotType, AllSettled
<1> QED BY <1>6, <1>7, <1>9, <1>10 DEF IInv

\* The bridge publishes a packet.
LEMMA PublishRawStep ==
    ASSUME IInv, PublishRaw
    PROVE  IInv'
<1>1. PICK p \in Packets : raw' = Append(raw, p)
  BY DEF PublishRaw
<1>2. UNCHANGED <<cfg, op, unsent, snapshot, checkpoint, out, dropped, faults>> /\ Len(raw) < MaxRaw
  BY DEF PublishRaw
<1>3. TypeOK /\ Topics /\ SnapshotType
  BY DEF IInv
<1>4. /\ raw' \in Seq(Packets) /\ Len(raw') = Len(raw) + 1 /\ Len(raw) \in Nat
      /\ \A i \in 1 .. Len(raw) : raw'[i] = raw[i]
  BY <1>1, <1>3 DEF TypeOK
<1>5. op.done \in Nat /\ op.done <= Len(raw)
  BY <1>3, OffsetFacts DEF TypeOK
<1>6. TypeOK' /\ Topics'
  BY <1>2, <1>3, <1>4, <1>5 DEF TypeOK, Topics
<1>7. ASSUME NEW o \in Operator, o.done <= op.done
      PROVE  o.done \in Nat /\ \A i \in 1 .. o.done : raw'[i] = raw[i]
  BY <1>4, <1>5, <1>7, OffsetFacts
<1>8. AllSettled'
  <2>1. \A i \in 1 .. op.done : Settled(i, raw', dropped, out \cup unsent)
    <3> DEFINE events == out \cup unsent
    <3>1. \A i \in 1 .. op.done : raw'[i] = raw[i]
      BY <1>4, <1>5
    <3>2. \A i \in 1 .. op.done : Settled(i, raw, dropped, events)
      BY DEF IInv, AllSettled
    <3> HIDE DEF events
    <3>3. \A i \in 1 .. op.done : Settled(i, raw', dropped, events)
      BY <1>5, <3>1, <3>2, SettledGrows
    <3> QED BY <3>3 DEF events
  <2>2. \A i \in 1 .. checkpoint.done : Settled(i, raw', dropped, out)
    <3>1. checkpoint \in Operator /\ checkpoint.done <= op.done
      BY <1>3 DEF TypeOK, Upto
    <3> QED BY <1>7, <3>1, SettledGrows DEF IInv, AllSettled
  <2>3. snapshot # NoSnapshot =>
           \A i \in 1 .. snapshot.op.done : Settled(i, raw', dropped, out \cup snapshot.due)
    <3> SUFFICES ASSUME snapshot # NoSnapshot
                 PROVE  \A i \in 1 .. snapshot.op.done :
                           Settled(i, raw', dropped, out \cup snapshot.due)
      OBVIOUS
    <3>1. snapshot.op \in Operator /\ snapshot.op.done <= op.done
      BY <1>3 DEF TypeOK, Upto, SnapshotType
    <3> DEFINE n == snapshot.op.done
               events == out \cup snapshot.due
    <3>2. /\ n \in Nat /\ \A i \in 1 .. n : raw'[i] = raw[i]
          /\ \A i \in 1 .. n : Settled(i, raw, dropped, events)
      BY <1>7, <3>1 DEF IInv, AllSettled
    <3> HIDE DEF n, events
    <3>3. \A i \in 1 .. n : Settled(i, raw', dropped, events)
      BY <3>2, SettledGrows
    <3> QED BY <3>3 DEF n, events
  <2> QED BY <1>2, <2>1, <2>2, <2>3 DEF AllSettled
<1>9. SnapshotType' /\ AllFollow'
  BY <1>2 DEF IInv, SnapshotType, AllFollow, Follows
<1> QED BY <1>6, <1>8, <1>9 DEF IInv

\* A packet is processed: dropped, or all its events wait in the sinks.
LEMMA ElementFacts ==
    ASSUME IInv, op.done < Len(raw)
    PROVE  LET i == op.done + 1
               events == Events(raw[i], op.gateways, op.rejected)
               mesh == op.gateways[raw[i].gateway].mesh
               new == {[offset |-> i, kind |-> events[n], mesh |-> mesh] : n \in DOMAIN events}
           IN  /\ i \in 1 .. Len(raw) /\ raw[i] \in Packet
               /\ new \subseteq Output
               /\ events # <<>> => Settled(i, raw, {}, new)
               /\ \A e \in new : /\ e.offset = i /\ e.mesh = mesh
                                 /\ Authorizes(cfg["keys"], op.applied["keys"], raw[i], mesh)
<1> DEFINE i == op.done + 1
           events == Events(raw[i], op.gateways, op.rejected)
           entry == op.gateways[raw[i].gateway]
           new == {[offset |-> i, kind |-> events[n], mesh |-> entry.mesh] : n \in DOMAIN events}
<1>1. TypeOK /\ Topics /\ Follows(op)
  BY DEF IInv, AllFollow
<1>2. i \in 1 .. Len(raw) /\ i \in 1 .. MaxRaw /\ raw[i] \in Packet
  <2>1. op.done \in Nat /\ Len(raw) \in Nat /\ raw \in Seq(Packet)
    BY <1>1, OffsetFacts DEF TypeOK
  <2> QED BY <1>1, <2>1 DEF Topics
<1>3. raw[i].gateway \in Gateway /\ entry \in Entry \cup {Unknown} /\ entry.mesh \in Mesh \cup {NoMesh}
  BY <1>1, <1>2 DEF TypeOK, Operator, Packet, Entry, Unknown
<1>4. CASE events = <<>>
  <2>1. new = {}
    BY <1>4
  <2> HIDE DEF new
  <2> QED BY <1>2, <1>4, <2>1
<1>5. CASE events # <<>>
  <2>1. /\ entry # Unknown /\ Readable(raw[i], entry)
        /\ events = IF entry.mesh = NoMesh THEN <<"decoded">>
                    ELSE IF raw[i].payload = "telemetry"
                         THEN <<"decoded", "sighting", "discovery">>
                         ELSE <<"decoded", "sighting">>
    BY <1>5, EventsFacts
  <2>2. Authorizes(cfg["keys"], op.applied["keys"], raw[i], entry.mesh)
    <3>1. GatewayFollows(op.gateways, raw[i].gateway, cfg["keys"], 0, op.applied["keys"])
      BY <1>1, <1>3 DEF Follows
    <3>2. /\ cfg["keys"] \in Seq(KeyEvent) /\ op.applied["keys"] \in Nat
          /\ op.applied["keys"] <= Len(cfg["keys"])
      BY <1>1, OffsetFacts DEF TypeOK, Topics, CfgTopic
    <3> HIDE DEF i
    <3> QED BY <1>2, <2>1, <3>1, <3>2, FollowedAuthorizes
  <2> DEFINE E(k) == [offset |-> i, kind |-> k, mesh |-> entry.mesh]
  <2>3. new = IF entry.mesh = NoMesh THEN {E("decoded")}
              ELSE IF raw[i].payload = "telemetry"
                   THEN {E("decoded"), E("sighting"), E("discovery")}
                   ELSE {E("decoded"), E("sighting")}
    <3>1. new = {E(events[n]) : n \in DOMAIN events}
      OBVIOUS
    <3> HIDE DEF i, entry, events, new, E
    <3>2. \A a, b, c : /\ {E(<<a>>[n]) : n \in DOMAIN <<a>>} = {E(a)}
                       /\ {E(<<a, b>>[n]) : n \in DOMAIN <<a, b>>} = {E(a), E(b)}
                       /\ {E(<<a, b, c>>[n]) : n \in DOMAIN <<a, b, c>>} = {E(a), E(b), E(c)}
      <4> TAKE a, b, c
      <4>1. DOMAIN <<a>> = {1} /\ DOMAIN <<a, b>> = {1, 2} /\ DOMAIN <<a, b, c>> = {1, 2, 3}
        OBVIOUS
      <4>2. /\ <<a>>[1] = a /\ <<a, b>>[1] = a /\ <<a, b>>[2] = b
            /\ <<a, b, c>>[1] = a /\ <<a, b, c>>[2] = b /\ <<a, b, c>>[3] = c
        OBVIOUS
      <4> QED BY <4>1, <4>2
    <3> QED BY <2>1, <3>1, <3>2
  <2>4. /\ \A k \in Kind : E(k) \in Output /\ E(k).offset = i /\ E(k).mesh = entry.mesh
        /\ \A k, l : [E(k) EXCEPT !.kind = l] = E(l)
    BY <1>2, <1>3 DEF Output, Kind
  <2> HIDE DEF i, entry, events, new, E
  <2>5. new \subseteq Output /\ \A e \in new : e.offset = i /\ e.mesh = entry.mesh
    BY <2>3, <2>4 DEF Kind
  <2>6. Settled(i, raw, {}, new)
    <3>1. E("decoded") \in new /\ E("decoded").offset = i /\ E("decoded").mesh = entry.mesh
      BY <2>3, <2>4 DEF Kind
    <3>2. entry.mesh # NoMesh => [E("decoded") EXCEPT !.kind = "sighting"] \in new
      BY <2>3, <2>4
    <3>3. entry.mesh # NoMesh /\ raw[i].payload = "telemetry" =>
             [E("decoded") EXCEPT !.kind = "discovery"] \in new
      BY <2>3, <2>4
    <3> QED BY <3>1, <3>2, <3>3 DEF Settled
  <2> QED BY <1>2, <2>2, <2>5, <2>6 DEF i, entry, events, new
<1> QED BY <1>4, <1>5

\* A packet is dropped, or all its events are emitted at once.
LEMMA ProcessElementStep ==
    ASSUME IInv, ProcessElement
    PROVE  IInv'
<1> DEFINE i == op.done + 1
           events == Events(raw[i], op.gateways, op.rejected)
           mesh == op.gateways[raw[i].gateway].mesh
           new == {[offset |-> i, kind |-> events[n], mesh |-> mesh] : n \in DOMAIN events}
<1>1. /\ op.done < Len(raw)
      /\ op' = [op EXCEPT !.done = i]
      /\ unsent' = unsent \cup new
      /\ dropped' = IF events = <<>> THEN dropped \cup {i} ELSE dropped
      /\ UNCHANGED <<topics, snapshot, checkpoint, out, faults>>
  BY DEF ProcessElement
<1> USE DEF topics
<1>2. TypeOK /\ Topics /\ SnapshotType /\ AllFollow
  BY DEF IInv
<1>3. /\ i \in 1 .. Len(raw) /\ new \subseteq Output
      /\ events # <<>> => Settled(i, raw, {}, new)
  BY <1>1, ElementFacts
<1>4. /\ op' \in Operator /\ op'.done = i /\ op'.applied = op.applied
      /\ op'.gateways = op.gateways /\ op'.rejected = op.rejected
  <2>1. op.done \in Nat
    BY <1>2, OffsetFacts DEF TypeOK
  <2>2. i \in Nat /\ op \in Operator
    BY <1>2, <2>1 DEF TypeOK
  <2> HIDE DEF i
  <2> QED BY <1>1, <2>2 DEF Operator
<1>5. op.done \in Nat /\ i \in Nat /\ op.done <= i /\ i <= Len(raw)
  BY <1>2, <1>3, OffsetFacts DEF TypeOK
<1> HIDE DEF events, new
<1>6. ASSUME NEW o \in Operator, Upto(o, op) PROVE Upto(o, op')
  BY <1>4, <1>5, <1>6, OffsetFacts DEF Upto
<1>7. TypeOK'
  <2>1. Upto(checkpoint, op') /\ (snapshot # NoSnapshot => Upto(snapshot.op, op'))
    BY <1>2, <1>6 DEF TypeOK, SnapshotType
  <2> HIDE DEF i
  <2> QED BY <1>1, <1>2, <1>3, <1>4, <1>5, <2>1 DEF TypeOK, Upto
<1>8. Topics' /\ SnapshotType'
  BY <1>1, <1>2 DEF Topics, SnapshotType
<1>9. AllFollow'
  BY <1>1, <1>2, <1>4 DEF AllFollow, Follows
<1>10. \A j \in 1 .. op'.done : Settled(j, raw, dropped', out \cup (unsent \cup new))
  <2> DEFINE all == out \cup unsent
             more == out \cup (unsent \cup new)
  <2>1. \A j \in 1 .. op.done : Settled(j, raw, dropped, all)
    BY DEF IInv, AllSettled
  <2>2. all \subseteq more /\ new \subseteq more /\ dropped \subseteq dropped'
    BY <1>1
  <2> HIDE DEF all, more
  <2>3. \A j \in 1 .. op.done : Settled(j, raw, dropped', more)
    BY <1>5, <2>1, <2>2, SettledGrows
  <2>4. Settled(i, raw, dropped', more)
    <3>1. CASE events = <<>>
      BY <1>1, <3>1 DEF Settled
    <3>2. CASE events # <<>>
      BY <1>3, <2>2, <3>2 DEF Settled
    <3> QED BY <3>1, <3>2
  <2>5. \A j \in 1 .. op'.done : j \in 1 .. op.done \/ j = i
    BY <1>4, <1>5
  <2> QED BY <2>3, <2>4, <2>5 DEF more
<1>11. \A j \in 1 .. checkpoint.done : Settled(j, raw, dropped', out)
  BY <1>1 DEF IInv, AllSettled, Settled
<1>12. snapshot # NoSnapshot =>
          \A j \in 1 .. snapshot.op.done : Settled(j, raw, dropped', out \cup snapshot.due)
  BY <1>1 DEF IInv, AllSettled, Settled
<1>13. AllSettled'
  BY <1>1, <1>10, <1>11, <1>12 DEF AllSettled
<1> QED BY <1>7, <1>8, <1>9, <1>13 DEF IInv

\* A config event is applied to the state that follows the ones before it.
LEMMA BroadcastStep ==
    ASSUME IInv, NEW t \in CfgTopic, ProcessBroadcastElement(t)
    PROVE  IInv'
<1> DEFINE n == op.applied[t]
           event == cfg[t][n + 1]
<1>1. /\ n < Len(cfg[t])
      /\ op' = [op EXCEPT
                   !.applied[t] = @ + 1,
                   !.gateways = IF t = "keys" THEN GatewayAfter(@, event) ELSE @,
                   !.rejected = IF t = "rejections" THEN RejectedAfter(@, event) ELSE @]
      /\ UNCHANGED <<topics, unsent, snapshot, checkpoint, out, dropped, faults>>
  BY DEF ProcessBroadcastElement
<1> USE DEF topics
<1>2. TypeOK /\ Topics /\ SnapshotType /\ AllFollow
  BY DEF IInv
<1>3. /\ op \in Operator /\ n \in Nat /\ op.applied \in [CfgTopic -> Nat] /\ Len(cfg[t]) \in Nat
      /\ n + 1 \in 1 .. Len(cfg[t])
  BY <1>1, <1>2 DEF TypeOK, Operator
<1>4. /\ op'.done = op.done
      /\ op'.applied = [op.applied EXCEPT ![t] = n + 1]
      /\ op'.gateways = IF t = "keys" THEN GatewayAfter(op.gateways, event) ELSE op.gateways
      /\ op'.rejected = IF t = "rejections" THEN RejectedAfter(op.rejected, event)
                        ELSE op.rejected
      /\ op' = [applied |-> op'.applied, done |-> op'.done, gateways |-> op'.gateways,
                rejected |-> op'.rejected]
  BY <1>1, <1>3 DEF Operator
<1>5. /\ t = "keys" => event \in KeyEvent
      /\ t = "rejections" => event \in RejectionEvent
  BY <1>2, <1>3 DEF Topics
<1>6. /\ op'.gateways \in [Gateway -> Entry \cup {Unknown}]
      /\ op'.rejected \subseteq Mesh \X Node
  <2>1. op.gateways \in [Gateway -> Entry \cup {Unknown}] /\ op.rejected \subseteq Mesh \X Node
    BY <1>3 DEF Operator
  <2> HIDE DEF event
  <2>2. op'.gateways \in [Gateway -> Entry \cup {Unknown}]
    BY <1>4, <1>5, <2>1 DEF GatewayAfter, KeyEvent
  <2>3. op'.rejected \subseteq Mesh \X Node
    BY <1>4, <1>5, <2>1 DEF RejectedAfter, RejectionEvent
  <2> QED BY <2>2, <2>3
<1>7. op' \in Operator
  BY <1>3, <1>4, <1>6 DEF Operator
<1>8. \A u \in CfgTopic : op'.applied[u] = IF u = t THEN n + 1 ELSE op.applied[u]
  BY <1>3, <1>4
<1>9. ASSUME NEW o \in Operator, Upto(o, op) PROVE Upto(o, op')
  BY <1>3, <1>4, <1>8, <1>9, OffsetFacts DEF Upto
<1>10. TypeOK'
  <2>1. Upto(checkpoint, op') /\ (snapshot # NoSnapshot => Upto(snapshot.op, op'))
    BY <1>2, <1>9 DEF TypeOK, SnapshotType
  <2>2. \A u \in CfgTopic : op'.applied[u] <= Len(cfg[u])
    <3>1. \A u \in CfgTopic : op.applied[u] <= Len(cfg[u])
      BY <1>2 DEF TypeOK
    <3> HIDE DEF n
    <3> QED BY <1>3, <1>8, <3>1
  <2>3. UNCHANGED <<cfg, raw, unsent, snapshot, checkpoint, out, dropped, faults>>
    BY <1>1
  <2>4. op'.done <= Len(raw)
    BY <1>2, <1>4 DEF TypeOK
  <2> QED BY <1>2, <1>7, <2>1, <2>2, <2>3, <2>4 DEF TypeOK
<1>11. \A g \in Gateway : GatewayFollows(op'.gateways, g, cfg["keys"], 0, op'.applied["keys"])
  <2> TAKE g \in Gateway
  <2>1. GatewayFollows(op.gateways, g, cfg["keys"], 0, op.applied["keys"])
    BY <1>2 DEF AllFollow, Follows
  <2>2. CASE t = "keys"
    <3>1. /\ cfg["keys"] \in Seq(KeyEvent) /\ 0 <= n /\ n < Len(cfg["keys"])
          /\ op.gateways \in [Gateway -> Entry \cup {Unknown}]
      BY <1>1, <1>2, <1>3, <2>2 DEF Topics, Operator
    <3>2. GatewayFollows(op.gateways, g, cfg["keys"], 0, n)
      BY <2>1, <2>2
    <3>3. op'.gateways = GatewayAfter(op.gateways, cfg["keys"][n + 1])
          /\ op'.applied["keys"] = n + 1
      BY <1>4, <1>8, <2>2
    <3> HIDE DEF n
    <3> QED BY <1>3, <3>1, <3>2, <3>3, GatewayApplied
  <2>3. CASE t # "keys"
    BY <1>4, <1>8, <2>1, <2>3 DEF CfgTopic
  <2> QED BY <2>2, <2>3
<1>12. \A k \in Mesh \X Node :
          RejectionFollows(op'.rejected, k, cfg["rejections"], 0, op'.applied["rejections"])
  <2> TAKE k \in Mesh \X Node
  <2>1. RejectionFollows(op.rejected, k, cfg["rejections"], 0, op.applied["rejections"])
    BY <1>2 DEF AllFollow, Follows
  <2>2. CASE t = "rejections"
    <3>1. cfg["rejections"] \in Seq(RejectionEvent) /\ 0 <= n /\ n < Len(cfg["rejections"])
      BY <1>1, <1>2, <1>3, <2>2 DEF Topics
    <3>2. RejectionFollows(op.rejected, k, cfg["rejections"], 0, n)
      BY <2>1, <2>2
    <3>3. op'.rejected = RejectedAfter(op.rejected, cfg["rejections"][n + 1])
          /\ op'.applied["rejections"] = n + 1
      BY <1>4, <1>8, <2>2
    <3> HIDE DEF n
    <3> QED BY <1>3, <3>1, <3>2, <3>3, RejectionApplied
  <2>3. CASE t # "rejections"
    BY <1>4, <1>8, <2>1, <2>3 DEF CfgTopic
  <2> QED BY <2>2, <2>3
<1>13. AllFollow'
  BY <1>1, <1>2, <1>11, <1>12 DEF AllFollow, Follows
<1>14. Topics' /\ SnapshotType' /\ AllSettled'
  BY <1>1, <1>2, <1>4 DEF IInv, Topics, SnapshotType, AllSettled
<1> QED BY <1>10, <1>13, <1>14 DEF IInv

-----------------------------------------------------------------------------
\* A sink writes an event: it is due no more, and on its topic.
LEMMA WriteStep ==
    ASSUME IInv, NEW e \in Output, Write(e)
    PROVE  IInv'
<1>1. /\ e \in unsent /\ unsent' = unsent \ {e} /\ out' = out \cup {e}
      /\ snapshot' = IF snapshot = NoSnapshot THEN NoSnapshot
                     ELSE [snapshot EXCEPT !.due = @ \ {e}]
      /\ UNCHANGED <<topics, op, checkpoint, dropped, faults>>
  BY DEF Write
<1> USE DEF topics
<1>2. TypeOK /\ SnapshotType /\ AllFollow /\ AllSettled
  BY DEF IInv
<1>3. snapshot' # NoSnapshot =>
         snapshot # NoSnapshot /\ snapshot'.op = snapshot.op /\ snapshot'.due = snapshot.due \ {e}
  BY <1>1, <1>2 DEF SnapshotType
<1>4. TypeOK'
  BY <1>1, <1>2, <1>3 DEF TypeOK
<1>5. SnapshotType' /\ AllFollow' /\ Topics'
  BY <1>1, <1>2, <1>3 DEF IInv, SnapshotType, AllFollow, Follows, Topics
<1>6. \A j \in 1 .. op.done : Settled(j, raw, dropped, out' \cup unsent')
  <2>1. out' \cup unsent' = out \cup unsent
    BY <1>1
  <2> QED BY <1>2, <2>1 DEF AllSettled
<1>7. \A j \in 1 .. checkpoint.done : Settled(j, raw, dropped, out')
  BY <1>1, <1>2 DEF AllSettled, Settled
<1>8. snapshot' # NoSnapshot =>
         \A j \in 1 .. snapshot'.op.done : Settled(j, raw, dropped, out' \cup snapshot'.due)
  <2> SUFFICES ASSUME snapshot' # NoSnapshot
               PROVE  \A j \in 1 .. snapshot.op.done :
                         Settled(j, raw, dropped, out' \cup snapshot'.due)
    BY <1>3
  <2> DEFINE due == out \cup snapshot.due
             still == out' \cup snapshot'.due
             n == snapshot.op.done
  <2>1. due \subseteq still
    BY <1>1, <1>3
  <2>2. n \in Nat /\ \A j \in 1 .. n : Settled(j, raw, dropped, due)
    BY <1>2, <1>3, OffsetFacts DEF AllSettled, SnapshotType
  <2> HIDE DEF due, still, n
  <2>3. \A j \in 1 .. n : Settled(j, raw, dropped, still)
    BY <2>1, <2>2, SettledGrows
  <2> QED BY <2>3 DEF still, n
<1>9. AllSettled'
  BY <1>1, <1>6, <1>7, <1>8 DEF AllSettled
<1> QED BY <1>4, <1>5, <1>9 DEF IInv

\* A checkpoint begins as the operator and completes when nothing is due.
LEMMA CheckpointSteps ==
    ASSUME IInv, TriggerCheckpoint \/ CompleteCheckpoint
    PROVE  IInv'
<1>1. UNCHANGED <<topics, op, unsent, out, dropped, faults>>
  BY DEF TriggerCheckpoint, CompleteCheckpoint
<1> USE DEF topics
<1>2. TypeOK /\ SnapshotType /\ AllFollow /\ AllSettled /\ Topics
  BY DEF IInv
<1>3. CASE TriggerCheckpoint
  <2>1. snapshot'.op = op /\ snapshot'.due = unsent /\ UNCHANGED checkpoint
    BY <1>3 DEF TriggerCheckpoint
  <2>2. Upto(op, op)
    BY <1>2, OffsetFacts DEF TypeOK, Upto
  <2>3. TypeOK'
    BY <1>1, <1>2, <2>1, <2>2 DEF TypeOK, Upto
  <2> QED
    BY <1>1, <1>2, <2>1, <2>3
    DEF IInv, Topics, SnapshotType, TypeOK, AllFollow, Follows, AllSettled
<1>4. CASE CompleteCheckpoint
  <2>1. /\ snapshot # NoSnapshot /\ snapshot.due = {}
        /\ checkpoint' = snapshot.op /\ snapshot' = NoSnapshot
    BY <1>4 DEF CompleteCheckpoint
  <2>2. checkpoint' \in Operator /\ Upto(checkpoint', op)
    BY <1>2, <2>1 DEF SnapshotType, TypeOK
  <2>3. TypeOK'
    BY <1>1, <1>2, <2>1, <2>2 DEF TypeOK, Upto
  <2>4. AllFollow' /\ Topics' /\ SnapshotType'
    BY <1>1, <1>2, <2>1 DEF AllFollow, Follows, Topics, SnapshotType
  <2>5. out \cup snapshot.due = out
    BY <2>1
  <2>6. AllSettled'
    BY <1>1, <1>2, <2>1, <2>5 DEF AllSettled
  <2> QED BY <2>3, <2>4, <2>6 DEF IInv
<1> QED BY <1>3, <1>4

\* The operator returns to a checkpoint, or to nothing.
LEMMA RestartSteps ==
    ASSUME IInv, Restart \/ Submit
    PROVE  IInv'
<1>1. /\ UNCHANGED <<topics, out, dropped>> /\ unsent' = {} /\ snapshot' = NoSnapshot
      /\ faults < MaxFaults /\ faults' = faults + 1
      /\ op' = checkpoint' /\ checkpoint' \in {checkpoint, Fresh}
  BY DEF Restart, Submit
<1> USE DEF topics
<1>2. TypeOK /\ SnapshotType /\ AllFollow /\ AllSettled /\ Topics
  BY DEF IInv
<1>3. /\ Fresh \in Operator /\ Fresh.done = 0 /\ Follows(Fresh)
      /\ \A t \in CfgTopic : Fresh.applied[t] = 0
  BY FreshFacts DEF Fresh
<1>4. Len(raw) \in Nat /\ \A t \in CfgTopic : Len(cfg[t]) \in Nat
  <2>1. \A t \in CfgTopic : cfg[t] \in Seq(KeyEvents \cup RejectionEvents)
    BY <1>2 DEF TypeOK
  <2> QED BY <1>2, <2>1 DEF TypeOK
<1>5. /\ checkpoint' \in Operator /\ checkpoint'.done <= Len(raw)
      /\ \A t \in CfgTopic : checkpoint'.applied[t] <= Len(cfg[t])
  <2>1. /\ op.done <= Len(raw) /\ checkpoint.done <= op.done
        /\ checkpoint.done \in Nat /\ op.done \in Nat
    BY <1>2, OffsetFacts DEF TypeOK, Upto
  <2>2. \A t \in CfgTopic : /\ op.applied[t] <= Len(cfg[t]) /\ checkpoint.applied[t] <= op.applied[t]
                            /\ checkpoint.applied[t] \in Nat /\ op.applied[t] \in Nat
    BY <1>2, OffsetFacts DEF TypeOK, Upto
  <2>3. checkpoint.done <= Len(raw)
    BY <1>4, <2>1
  <2>4. \A t \in CfgTopic : checkpoint.applied[t] <= Len(cfg[t])
    BY <1>4, <2>2
  <2>5. CASE checkpoint' = checkpoint
    BY <1>2, <2>3, <2>4, <2>5 DEF TypeOK
  <2>6. CASE checkpoint' = Fresh
    BY <1>3, <1>4, <2>6
  <2> QED BY <1>1, <2>5, <2>6
<1>6. Upto(checkpoint', checkpoint')
  BY <1>5, OffsetFacts DEF Upto
<1>7. TypeOK'
  <2>1. faults' \in 0 .. MaxFaults
    BY <1>1, <1>2 DEF TypeOK
  <2>2. Upto(checkpoint, op)'
    BY <1>1, <1>6 DEF Upto
  <2>3. UNCHANGED <<cfg, raw, out>>
    BY <1>1
  <2> QED BY <1>1, <1>2, <1>5, <2>1, <2>2, <2>3 DEF TypeOK
<1>8. Topics' /\ SnapshotType'
  BY <1>1, <1>2 DEF Topics, SnapshotType
<1>9. AllFollow'
  BY <1>1, <1>2, <1>3 DEF AllFollow, Follows
<1>10. \A j \in 1 .. checkpoint'.done : Settled(j, raw, dropped, out)
  BY <1>1, <1>2, <1>3 DEF AllSettled
<1>11. AllSettled'
  <2>1. out \cup {} = out
    OBVIOUS
  <2> QED BY <1>1, <1>10, <2>1 DEF AllSettled
<1> QED BY <1>7, <1>8, <1>9, <1>11 DEF IInv

-----------------------------------------------------------------------------
\* Every step keeps the invariant: one lemma above for each action.
LEMMA StepIInv == IInv /\ [Next]_vars => IInv'
<1> SUFFICES ASSUME IInv, [Next]_vars PROVE IInv'
  OBVIOUS
<1>1. CASE UNCHANGED vars
  BY <1>1
  DEF vars, topics, IInv, TypeOK, Topics, SnapshotType, AllFollow, Follows, AllSettled
<1>2. CASE PublishConfig
  BY <1>2, PublishConfigStep
<1>3. CASE PublishRaw
  BY <1>3, PublishRawStep
<1>4. CASE ProcessElement
  BY <1>4, ProcessElementStep
<1>5. ASSUME NEW t \in CfgTopic, ProcessBroadcastElement(t) PROVE IInv'
  BY <1>5, BroadcastStep
<1>6. ASSUME NEW e \in Output, Write(e) PROVE IInv'
  BY <1>6, WriteStep
<1>7. CASE TriggerCheckpoint \/ CompleteCheckpoint
  BY <1>7, CheckpointSteps
<1>8. CASE Restart \/ Submit
  BY <1>8, RestartSteps
<1> QED BY <1>1, <1>2, <1>3, <1>4, <1>5, <1>6, <1>7, <1>8 DEF Next

\* The invariant holds in every state.
LEMMA Inductive == Spec => []IInv
  BY InitIInv, StepIInv, PTL DEF Spec

\* The broadcast state of decode_job.py is what the config topics say from their beginning
\* up to the operator's offsets, however checkpoints, restarts and submissions fall: every
\* state a restart may return to is.
THEOREM BroadcastFollowsTopics == Spec => []StateIsReplay
<1>1. IInv => StateIsReplay
  BY DEF IInv, AllFollow, Follows, StateIsReplay
<1> QED BY Inductive, <1>1, PTL

\* What is behind a checkpoint was dropped by decode_packet or is on the topics: the sinks
\* flush what was emitted before it, and no restart loses an event of it.
THEOREM CheckpointsSettled == Spec => []CheckpointedAreSettled
<1>1. IInv => CheckpointedAreSettled
  BY DEF IInv, AllSettled, Settled, CheckpointedAreSettled, CompletelyWritten
<1> QED BY Inductive, <1>1, PTL

\* process_element emits only under the last registration of the gateway that the operator
\* has processed, also when the packet is replayed.
THEOREM EmittedAuthorized == Spec => EmittedIsAuthorized
<1>1. IInv /\ [Next]_vars =>
         [\A e \in unsent' \ unsent :
            Authorizes(cfg["keys"], op.applied["keys"], raw[e.offset], e.mesh)]_vars
  <2> SUFFICES ASSUME IInv, Next, NEW e \in unsent' \ unsent
               PROVE  Authorizes(cfg["keys"], op.applied["keys"], raw[e.offset], e.mesh)
    BY DEF vars
  <2>1. ProcessElement
    BY DEF Next, PublishConfig, PublishRaw, ProcessBroadcastElement, Write,
           TriggerCheckpoint, CompleteCheckpoint, Restart, Submit
  <2> QED BY <2>1, ElementFacts DEF ProcessElement
<1> QED BY Inductive, <1>1, PTL DEF Spec, EmittedIsAuthorized
================================================================================
