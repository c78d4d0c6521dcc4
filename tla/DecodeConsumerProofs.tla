------------------------- MODULE DecodeConsumerProofs -------------------------
(***************************************************************************)
(* Proofs about the lite decoder, for any config events and packets, any   *)
(* batch size and any number of failures and restarts: its dictionaries    *)
(* are in step with the topics, what it publishes is authorized, and what  *)
(* it commits is settled.                                                  *)
(***************************************************************************)
EXTENDS DecodeConsumer, TLAPS

USE DecodeConstants, EventsAssumption, BoundsAssumption

Kind == {"decoded", "sighting", "discovery"}

-----------------------------------------------------------------------------
(* The operators of Decode: applying the next event of a topic keeps the state in *)
(* step with it, and what is published was authorized by the last event about the *)
(* gateway.                                                                       *)

\* Applying the next event of mesh.keys.v1 keeps the gateways in step with the topic.
LEMMA GatewayApplied ==
    ASSUME NEW state \in [Gateway -> Entry \cup {Unknown}], NEW g \in Gateway,
           NEW events \in Seq(KeyEvent), NEW lo \in Nat, NEW hi \in Nat,
           lo <= hi, hi < Len(events),
           GatewayFollows(state, g, events, lo, hi)
    PROVE  GatewayFollows(GatewayAfter(state, events[hi + 1]), g, events, lo, hi + 1)
<1> DEFINE e == events[hi + 1]
<1>1. e \in KeyEvent /\ hi + 1 \in lo + 1 .. hi + 1
  OBVIOUS
<1>2. CASE About(e, g)
  <2>1. IsLast(events, g, hi + 1, lo, hi + 1)
    BY <1>1, <1>2 DEF IsLast
  <2>2. GatewayAfter(state, e)[g] = IF e.op = "delete" THEN Unknown ELSE e.entry
    BY <1>2 DEF GatewayAfter, About
  <2> QED BY <1>1, <2>1, <2>2 DEF GatewayFollows
<1>3. CASE ~About(e, g)
  <2>1. GatewayAfter(state, e)[g] = state[g]
    BY <1>1, <1>3 DEF GatewayAfter, About, KeyEvent
  <2>2. \A i \in lo + 1 .. hi : IsLast(events, g, i, lo, hi) => IsLast(events, g, i, lo, hi + 1)
    <3> SUFFICES ASSUME NEW i \in lo + 1 .. hi, IsLast(events, g, i, lo, hi),
                        NEW j \in i + 1 .. hi + 1
                 PROVE  ~About(events[j], g)
      BY DEF IsLast
    <3>1. j = hi + 1 \/ j \in i + 1 .. hi
      OBVIOUS
    <3> QED BY <1>3, <3>1 DEF IsLast
  <2>3. \A i \in lo + 1 .. hi + 1 : i \in lo + 1 .. hi \/ i = hi + 1
    OBVIOUS
  <2> HIDE DEF e
  <2>4. lo + 1 .. hi \subseteq lo + 1 .. hi + 1 /\ ~About(events[hi + 1], g)
    BY <1>3 DEF e
  <2>5. GatewayAfter(state, events[hi + 1])[g] = state[g]
    BY <2>1 DEF e
  <2> QED BY <2>2, <2>3, <2>4, <2>5 DEF GatewayFollows
<1> QED BY <1>2, <1>3

\* The same for mesh.node_rejections.v1.
LEMMA RejectionApplied ==
    ASSUME NEW rejected, NEW k, NEW events \in Seq(RejectionEvent),
           NEW lo \in Nat, NEW hi \in Nat, lo <= hi, hi < Len(events),
           RejectionFollows(rejected, k, events, lo, hi)
    PROVE  RejectionFollows(RejectedAfter(rejected, events[hi + 1]), k, events, lo, hi + 1)
<1> DEFINE e == events[hi + 1]
<1>1. e \in RejectionEvent /\ hi + 1 \in lo + 1 .. hi + 1
  OBVIOUS
<1>2. \A i \in lo + 1 .. hi + 1 : i \in lo + 1 .. hi \/ i = hi + 1
  OBVIOUS
<1>3. lo + 1 .. hi \subseteq lo + 1 .. hi + 1
  OBVIOUS
<1>4. CASE About(e, k)
  <2>1. IsLast(events, k, hi + 1, lo, hi + 1)
    BY <1>1, <1>4 DEF IsLast
  <2>2. \A i \in lo + 1 .. hi : ~IsLast(events, k, i, lo, hi + 1)
    <3> SUFFICES ASSUME NEW i \in lo + 1 .. hi PROVE ~IsLast(events, k, i, lo, hi + 1)
      OBVIOUS
    <3>1. hi + 1 \in i + 1 .. hi + 1
      OBVIOUS
    <3> QED BY <1>4, <3>1 DEF IsLast
  <2>3. k \in RejectedAfter(rejected, e) <=> e.op = "upsert"
    BY <1>1, <1>4 DEF RejectedAfter, About, RejectionEvent
  <2> QED BY <1>1, <1>2, <2>1, <2>2, <2>3 DEF RejectionFollows
<1>5. CASE ~About(e, k)
  <2>1. k \in RejectedAfter(rejected, e) <=> k \in rejected
    BY <1>1, <1>5 DEF RejectedAfter, About, RejectionEvent
  <2>2. \A i \in lo + 1 .. hi : IsLast(events, k, i, lo, hi) <=> IsLast(events, k, i, lo, hi + 1)
    <3> TAKE i \in lo + 1 .. hi
    <3>1. i \in lo + 1 .. hi + 1 /\ i + 1 .. hi \subseteq i + 1 .. hi + 1
      OBVIOUS
    <3>2. \A j \in i + 1 .. hi + 1 : j = hi + 1 \/ j \in i + 1 .. hi
      OBVIOUS
    <3> QED BY <1>5, <3>1, <3>2 DEF IsLast
  <2>3. ~IsLast(events, k, hi + 1, lo, hi + 1)
    BY <1>5 DEF IsLast
  <2> QED BY <1>2, <1>3, <2>1, <2>2, <2>3 DEF RejectionFollows
<1> QED BY <1>4, <1>5

\* What is published to a topic changes nothing about the events that were applied.
LEMMA FollowsAppended ==
    ASSUME NEW S, NEW events \in Seq(S), NEW e \in S, NEW lo \in Nat, NEW hi \in Nat,
           hi <= Len(events), NEW state, NEW k
    PROVE  /\ GatewayFollows(state, k, events, lo, hi)
                => GatewayFollows(state, k, Append(events, e), lo, hi)
           /\ RejectionFollows(state, k, events, lo, hi)
                => RejectionFollows(state, k, Append(events, e), lo, hi)
<1>1. \A i \in lo + 1 .. hi : Append(events, e)[i] = events[i]
  OBVIOUS
<1>2. \A i \in lo + 1 .. hi : i + 1 .. hi \subseteq lo + 1 .. hi
  OBVIOUS
<1>3. \A i \in lo + 1 .. hi :
         IsLast(Append(events, e), k, i, lo, hi) <=> IsLast(events, k, i, lo, hi)
  BY <1>1, <1>2 DEF IsLast
<1> HIDE DEF IsLast
<1> QED BY <1>1, <1>3 DEF GatewayFollows, RejectionFollows

\* A process that has applied nothing knows nothing.
LEMMA NothingFollows ==
    ASSUME NEW events, NEW lo \in Nat, NEW k
    PROVE  /\ k \in Gateway => GatewayFollows([g \in Gateway |-> Unknown], k, events, lo, lo)
           /\ RejectionFollows({}, k, events, lo, lo)
<1>1. lo + 1 .. lo = {}
  OBVIOUS
<1> QED BY <1>1 DEF GatewayFollows, RejectionFollows

\* A registration in the state is, of all events read, the last about the gateway.
LEMMA FollowedAuthorizes ==
    ASSUME NEW state, NEW packet \in Packet, NEW events \in Seq(KeyEvent),
           NEW lo \in Nat, NEW hi \in Nat, hi <= Len(events),
           GatewayFollows(state, packet.gateway, events, lo, hi),
           state[packet.gateway] # Unknown, Readable(packet, state[packet.gateway])
    PROVE  Authorizes(events, hi, packet, state[packet.gateway].mesh)
<1>1. PICK i \in lo + 1 .. hi :
         /\ IsLast(events, packet.gateway, i, lo, hi)
         /\ state[packet.gateway] =
              IF events[i].op = "delete" THEN Unknown ELSE events[i].entry
  BY DEF GatewayFollows
<1>2. i \in 1 .. hi /\ i \in 0 + 1 .. hi /\ events[i] \in KeyEvent
  OBVIOUS
<1>3. IsLast(events, packet.gateway, i, 0, hi)
  BY <1>1, <1>2 DEF IsLast
<1>4. events[i].op = "upsert" /\ state[packet.gateway] = events[i].entry
  BY <1>1, <1>2 DEF IsLast, About, KeyEvent
<1> QED BY <1>2, <1>3, <1>4 DEF Authorizes

\* The events of a packet that is not dropped.
LEMMA EventsFacts ==
    ASSUME NEW packet, NEW state, NEW rejected
    PROVE  LET evs == Events(packet, state, rejected)
               entry == state[packet.gateway]
           IN  evs # <<>> =>
                 /\ entry # Unknown /\ Readable(packet, entry)
                 /\ evs = IF entry.mesh = NoMesh THEN <<"decoded">>
                          ELSE IF packet.payload = "telemetry"
                               THEN <<"decoded", "sighting", "discovery">>
                               ELSE <<"decoded", "sighting">>
  BY DEF Events

-----------------------------------------------------------------------------
(* The invariant. *)

Offsets == rawCommitted \in Nat /\ done \in Nat /\ rawPosition \in Nat

\* Each config topic has events of its kind.
Topics == cfg["keys"] \in Seq(KeyEvents) /\ cfg["rejections"] \in Seq(RejectionEvents)

\* consume_config keeps the event loop until it has applied what it polled.
AppliedBetween == running # "config" => cfgApplied = cfgPosition

\* While a packet is published the registration it was decoded with stays, and what is
\* left to send is a tail of its events, those before it being on their topics.
Tails(entry, packet) ==
    IF entry.mesh = NoMesh THEN {<<"decoded">>}
    ELSE IF packet.payload = "telemetry"
    THEN {<<"decoded", "sighting", "discovery">>, <<"sighting", "discovery">>, <<"discovery">>}
    ELSE {<<"decoded", "sighting">>, <<"sighting">>}

Publishing ==
    running = "publish" =>
        /\ done < rawPosition
        /\ EntryOf(done + 1) # Unknown /\ Readable(raw[done + 1], EntryOf(done + 1))
        /\ pending \in Tails(EntryOf(done + 1), raw[done + 1])
        /\ Head(pending) # "decoded" => Sent(done + 1, "decoded") \in out
        /\ Head(pending) = "discovery" => Sent(done + 1, "sighting") \in out

\* What the loop has passed, committed or not.
DoneAreSettled ==
    \A i \in 1..done : i \in dropped \cup failed \cup skipped \/ CompletelyPublished(i)

\* A batch with a packet that could not be published is not committed.
FailedHold == failed # {} => ~commitOk

IInv ==
    /\ StateIsTailReplay
    /\ Offsets /\ Topics /\ AppliedBetween
    /\ Publishing /\ SideEventsFollowDecoded
    /\ DoneAreSettled /\ FailedHold /\ CommittedAreSettled

-----------------------------------------------------------------------------
\* A new process follows the empty part of the topics it has read.
LEMMA InitIInv == Init => IInv
<1> SUFFICES ASSUME Init PROVE IInv
  OBVIOUS
<1> USE DEF Init
<1>1. TypeOK
  BY DEF TypeOK, CfgTopic
<1>2. /\ \A g \in Gateway :
            GatewayFollows(gatewayState, g, cfg["keys"], base["keys"], cfgApplied["keys"])
      /\ \A k \in Mesh \X Node :
            RejectionFollows(rejectedNodes, k, cfg["rejections"], base["rejections"],
                             cfgApplied["rejections"])
  BY NothingFollows DEF CfgTopic
<1>3. Offsets /\ Topics /\ AppliedBetween /\ Publishing
  BY DEF Offsets, Topics, AppliedBetween, Publishing, CfgTopic
<1>4. SideEventsFollowDecoded /\ DoneAreSettled /\ FailedHold /\ CommittedAreSettled
  BY DEF SideEventsFollowDecoded, DoneAreSettled, FailedHold, CommittedAreSettled
<1> QED BY <1>1, <1>2, <1>3, <1>4 DEF IInv, StateIsTailReplay

-----------------------------------------------------------------------------
\* What the decode coroutine does leaves the dictionaries and the topics alone.
LEMMA StateKept ==
    ASSUME IInv, UNCHANGED <<cfg, cfgPosition, cfgApplied, base, gatewayState, rejectedNodes>>
    PROVE  /\ Topics'
           /\ (\A g \in Gateway :
                 GatewayFollows(gatewayState, g, cfg["keys"], base["keys"], cfgApplied["keys"]))'
           /\ (\A k \in Mesh \X Node :
                 RejectionFollows(rejectedNodes, k, cfg["rejections"], base["rejections"],
                                  cfgApplied["rejections"]))'
  BY DEF IInv, StateIsTailReplay, Topics

\* What was settled stays so.
LEMMA SettledKept ==
    ASSUME IInv, out \subseteq out', dropped \subseteq dropped', failed \subseteq failed',
           skipped \subseteq skipped', UNCHANGED rawCommitted,
           \A i \in 1..done : raw'[i] = raw[i]
    PROVE  /\ \A i \in 1..done :
                 i \in dropped' \cup failed' \cup skipped' \/ CompletelyPublished(i)'
           /\ CommittedAreSettled'
<1>1. \A i \in 1..done : CompletelyPublished(i) => CompletelyPublished(i)'
  BY DEF CompletelyPublished
<1>2. \A i \in 1..rawCommitted : i \in 1..done
  BY DEF IInv, StateIsTailReplay, TypeOK, Offsets
<1> QED BY <1>1, <1>2 DEF IInv, DoneAreSettled, CommittedAreSettled

\* What consume_config does leaves the packets alone; no packet is being published.
LEMMA PacketsKept ==
    ASSUME IInv, running' # "publish",
           UNCHANGED <<raw, rawCommitted, rawPosition, done, commitOk, out, dropped, failed,
                       skipped>>
    PROVE  /\ Offsets' /\ Publishing' /\ SideEventsFollowDecoded'
           /\ DoneAreSettled' /\ FailedHold' /\ CommittedAreSettled'
  BY DEF IInv, Offsets, Publishing, SideEventsFollowDecoded, DoneAreSettled, FailedHold,
         CommittedAreSettled, CompletelyPublished

\* keyapi publishes a config event.
LEMMA PublishConfigStep ==
    ASSUME IInv, PublishConfig
    PROVE  IInv'
<1>1. PICK t \in CfgTopic, e \in KeyEvents \cup RejectionEvents :
         /\ e \in IF t = "keys" THEN KeyEvents ELSE RejectionEvents
         /\ Len(cfg[t]) < MaxConfig[t]
         /\ cfg' = [cfg EXCEPT ![t] = Append(@, e)]
  BY DEF PublishConfig
<1>2. UNCHANGED <<raw, config, decoder, running, out, history, faults>>
  BY DEF PublishConfig
<1> USE DEF config, decoder, history
<1>3. TypeOK /\ Topics /\ Offsets
  BY DEF IInv, StateIsTailReplay
<1>4. /\ cfg' \in [CfgTopic -> Seq(KeyEvents \cup RejectionEvents)]
      /\ \A u \in CfgTopic : cfg'[u] = IF u = t THEN Append(cfg[u], e) ELSE cfg[u]
      /\ \A u \in CfgTopic : Len(cfg[u]) <= Len(cfg'[u]) /\ Len(cfg'[u]) <= MaxConfig[u]
  <2>1. cfg[t] \in Seq(KeyEvents \cup RejectionEvents)
    BY <1>3 DEF TypeOK
  <2>2. /\ Append(cfg[t], e) \in Seq(KeyEvents \cup RejectionEvents)
        /\ Len(Append(cfg[t], e)) = Len(cfg[t]) + 1 /\ Len(cfg[t]) \in Nat
    BY <2>1
  <2> QED BY <1>1, <1>3, <2>1, <2>2 DEF TypeOK, CfgTopic
<1>5. Topics'
  BY <1>1, <1>3, <1>4 DEF Topics, CfgTopic
<1>6. TypeOK'
  <2>1. \A u \in CfgTopic : Len(cfg[u]) \in Nat /\ Len(cfg'[u]) \in Nat
    <3>1. cfg \in [CfgTopic -> Seq(KeyEvents \cup RejectionEvents)]
      BY <1>3 DEF TypeOK
    <3> QED BY <1>4, <3>1
  <2>2. \A u \in CfgTopic : cfgPosition[u] <= Len(cfg'[u])
    BY <1>3, <1>4, <2>1 DEF TypeOK
  <2> QED BY <1>2, <1>3, <1>4, <2>2 DEF TypeOK, Published
<1>7. /\ base["keys"] \in Nat /\ cfgApplied["keys"] \in Nat
      /\ cfgApplied["keys"] <= Len(cfg["keys"])
      /\ base["rejections"] \in Nat /\ cfgApplied["rejections"] \in Nat
      /\ cfgApplied["rejections"] <= Len(cfg["rejections"])
  <2>1. \A u \in CfgTopic : /\ base[u] \in Nat /\ cfgApplied[u] \in Nat /\ cfgPosition[u] \in Nat
                            /\ cfg[u] \in Seq(KeyEvents \cup RejectionEvents)
                            /\ cfgApplied[u] <= cfgPosition[u] /\ cfgPosition[u] <= Len(cfg[u])
    BY <1>3 DEF TypeOK
  <2>2. \A u \in CfgTopic : Len(cfg[u]) \in Nat
    BY <2>1
  <2> QED BY <2>1, <2>2 DEF CfgTopic
<1>8. \A g \in Gateway :
         GatewayFollows(gatewayState, g, cfg'["keys"], base["keys"], cfgApplied["keys"])
  <2> TAKE g \in Gateway
  <2>1. GatewayFollows(gatewayState, g, cfg["keys"], base["keys"], cfgApplied["keys"])
    BY DEF IInv, StateIsTailReplay
  <2> QED BY <1>1, <1>3, <1>4, <1>7, <2>1, FollowsAppended DEF Topics, CfgTopic
<1>9. \A k \in Mesh \X Node :
         RejectionFollows(rejectedNodes, k, cfg'["rejections"], base["rejections"],
                          cfgApplied["rejections"])
  <2> TAKE k \in Mesh \X Node
  <2>1. RejectionFollows(rejectedNodes, k, cfg["rejections"], base["rejections"],
                         cfgApplied["rejections"])
    BY DEF IInv, StateIsTailReplay
  <2> QED BY <1>1, <1>3, <1>4, <1>7, <2>1, FollowsAppended DEF Topics, CfgTopic
<1>10. /\ Offsets' /\ Publishing' /\ SideEventsFollowDecoded'
       /\ DoneAreSettled' /\ FailedHold' /\ CommittedAreSettled'
  BY <1>2
  DEF IInv, Offsets, Publishing, EntryOf, Sent, SideEventsFollowDecoded, DoneAreSettled,
      FailedHold, CommittedAreSettled, CompletelyPublished
<1>11. AppliedBetween'
  BY <1>2 DEF IInv, AppliedBetween
<1> QED
  BY <1>2, <1>5, <1>6, <1>8, <1>9, <1>10, <1>11 DEF IInv, StateIsTailReplay

\* The bridge publishes a packet.
LEMMA PublishRawStep ==
    ASSUME IInv, PublishRaw
    PROVE  IInv'
<1>1. PICK p \in Packets : raw' = Append(raw, p)
  BY DEF PublishRaw
<1>2. UNCHANGED <<cfg, config, decoder, running, out, history, faults>> /\ Len(raw) < MaxRaw
  BY DEF PublishRaw
<1> USE DEF config, decoder, history
<1>3. TypeOK /\ Offsets
  BY DEF IInv, StateIsTailReplay
<1>4. /\ raw \in Seq(Packets) /\ raw' \in Seq(Packets) /\ Len(raw') = Len(raw) + 1
      /\ Len(raw) \in Nat /\ \A i \in 1..Len(raw) : raw'[i] = raw[i]
      /\ rawPosition <= Len(raw) /\ done <= rawPosition
  BY <1>1, <1>3 DEF TypeOK
<1>5. TypeOK'
  <2>1. rawPosition <= Len(raw') /\ Len(raw') <= MaxRaw
    BY <1>2, <1>3, <1>4 DEF Offsets
  <2> QED BY <1>2, <1>3, <1>4, <2>1 DEF TypeOK, Published
<1>6. \A i \in 1..done : raw'[i] = raw[i]
  BY <1>3, <1>4 DEF Offsets
<1>7. DoneAreSettled' /\ CommittedAreSettled'
  BY <1>2, <1>6, SettledKept DEF DoneAreSettled
<1>8. Publishing'
  <2> SUFFICES ASSUME running = "publish" PROVE Publishing'
    BY <1>2 DEF Publishing
  <2>1. done < rawPosition /\ raw'[done + 1] = raw[done + 1]
    BY <1>3, <1>4 DEF IInv, Publishing, Offsets
  <2> QED BY <1>2, <2>1 DEF IInv, Publishing, EntryOf, Sent
<1>9. Offsets' /\ AppliedBetween' /\ SideEventsFollowDecoded' /\ FailedHold'
  BY <1>2 DEF IInv, Offsets, AppliedBetween, SideEventsFollowDecoded, FailedHold
<1> QED BY <1>2, <1>5, <1>7, <1>8, <1>9, StateKept DEF IInv, StateIsTailReplay

\* The config consumer polls, or only commits: nothing it has not applied.
LEMMA PollConfigStep ==
    ASSUME IInv, PollConfig \/ AutoCommit
    PROVE  IInv'
<1>1. /\ UNCHANGED <<topics, cfgApplied, base, gatewayState, rejectedNodes, decoder, out,
                     history, faults>>
      /\ running = "none" /\ running' \in {"none", "config"}
      /\ cfgCommitted' \in {cfgCommitted, cfgPosition}
  BY DEF PollConfig, AutoCommit
<1> USE DEF topics, decoder, history
<1>2. TypeOK /\ cfgApplied = cfgPosition
  BY <1>1 DEF IInv, StateIsTailReplay, AppliedBetween
<1>3. /\ cfgPosition' \in [CfgTopic -> Nat]
      /\ \A t \in CfgTopic : cfgPosition[t] <= cfgPosition'[t] /\ cfgPosition'[t] <= Len(cfg[t])
  <2>1. CASE PollConfig
    <3>1. 0..MaxConfig["keys"] + MaxConfig["rejections"] \subseteq Nat
      OBVIOUS
    <3> QED BY <2>1, <3>1 DEF PollConfig
  <2>2. CASE AutoCommit
    BY <1>2, <2>2 DEF AutoCommit, TypeOK
  <2> QED BY <2>1, <2>2
<1>4. /\ cfgCommitted' \in [CfgTopic -> Nat]
      /\ \A t \in CfgTopic : cfgCommitted'[t] <= cfgApplied[t]
  <2>1. \A t \in CfgTopic : cfgPosition[t] \in Nat
    BY <1>2 DEF TypeOK
  <2> QED BY <1>1, <1>2, <2>1 DEF TypeOK
<1>5. TypeOK'
  BY <1>1, <1>2, <1>3, <1>4 DEF TypeOK, Published
<1>6. AppliedBetween'
  BY <1>1, <1>2 DEF AppliedBetween, PollConfig, AutoCommit
<1>7. Topics' /\ StateIsTailReplay'
  BY <1>1, <1>5 DEF IInv, StateIsTailReplay, Topics
<1> QED BY <1>1, <1>6, <1>7, PacketsKept DEF IInv

\* The next config event is applied to the dictionary it is about.
LEMMA ApplyStep ==
    ASSUME IInv, NEW t \in CfgTopic, ApplyConfigEvent(t)
    PROVE  IInv'
<1> DEFINE n == cfgApplied[t]
           event == cfg[t][n + 1]
<1>1. /\ UNCHANGED <<topics, cfgCommitted, cfgPosition, base, decoder, out, history, faults>>
      /\ running = "config" /\ n < cfgPosition[t]
      /\ cfgApplied' = [cfgApplied EXCEPT ![t] = @ + 1]
      /\ running' = IF cfgApplied' = cfgPosition THEN "none" ELSE "config"
  BY DEF ApplyConfigEvent
<1> USE DEF topics, decoder, history
<1>2. TypeOK /\ Topics
  BY DEF IInv, StateIsTailReplay
<1>3. /\ base[t] \in Nat /\ n \in Nat /\ cfgPosition[t] \in Nat /\ Len(cfg[t]) \in Nat
      /\ base[t] <= n /\ n < Len(cfg[t]) /\ cfgPosition[t] <= Len(cfg[t])
  <2>1. cfg[t] \in Seq(KeyEvents \cup RejectionEvents)
    BY <1>2 DEF TypeOK
  <2>2. Len(cfg[t]) \in Nat
    BY <2>1
  <2> QED BY <1>1, <1>2, <2>2 DEF TypeOK
<1>4. /\ cfgApplied' \in [CfgTopic -> Nat]
      /\ \A u \in CfgTopic : cfgApplied'[u] = IF u = t THEN n + 1 ELSE cfgApplied[u]
  <2>1. cfgApplied \in [CfgTopic -> Nat]
    BY <1>2 DEF TypeOK
  <2> QED BY <1>1, <1>3, <2>1
<1>5. /\ t = "keys" => event \in KeyEvent
      /\ t = "rejections" => event \in RejectionEvent
  BY <1>2, <1>3 DEF Topics
<1>6. /\ gatewayState' \in [Gateway -> Entry \cup {Unknown}]
      /\ \A g \in Gateway :
            GatewayFollows(gatewayState', g, cfg["keys"], base["keys"], cfgApplied'["keys"])
  <2>1. CASE t = "keys"
    <3>1. gatewayState' = GatewayAfter(gatewayState, event)
      BY <2>1 DEF ApplyConfigEvent
    <3>2. gatewayState \in [Gateway -> Entry \cup {Unknown}] /\ cfg["keys"] \in Seq(KeyEvent)
      <4>1. gatewayState \in [Gateway -> Entry \cup {Unknown}]
        BY <1>2 DEF TypeOK
      <4> QED BY <1>2, <4>1 DEF Topics
    <3>3. gatewayState' \in [Gateway -> Entry \cup {Unknown}]
      BY <1>5, <2>1, <3>1, <3>2 DEF GatewayAfter, KeyEvent
    <3>4. ASSUME NEW g \in Gateway
          PROVE  GatewayFollows(GatewayAfter(gatewayState, cfg["keys"][n + 1]), g, cfg["keys"],
                                base["keys"], n + 1)
      <4>1. GatewayFollows(gatewayState, g, cfg["keys"], base["keys"], n)
        BY <2>1 DEF IInv, StateIsTailReplay
      <4> QED BY <1>3, <2>1, <3>2, <4>1, GatewayApplied
    <3> QED BY <1>4, <2>1, <3>1, <3>3, <3>4
  <2>2. CASE t # "keys"
    <3>1. gatewayState' = gatewayState /\ cfgApplied'["keys"] = cfgApplied["keys"]
      BY <1>4, <2>2 DEF ApplyConfigEvent, CfgTopic
    <3> QED BY <1>2, <3>1 DEF IInv, StateIsTailReplay, TypeOK
  <2> QED BY <2>1, <2>2
<1>7. /\ rejectedNodes' \subseteq Mesh \X Node
      /\ \A k \in Mesh \X Node :
            RejectionFollows(rejectedNodes', k, cfg["rejections"], base["rejections"],
                             cfgApplied'["rejections"])
  <2>1. CASE t = "rejections"
    <3>1. rejectedNodes' = RejectedAfter(rejectedNodes, event)
      BY <2>1 DEF ApplyConfigEvent
    <3>2. cfg["rejections"] \in Seq(RejectionEvent)
      BY <1>2 DEF Topics
    <3>3. rejectedNodes' \subseteq Mesh \X Node
      BY <1>2, <1>5, <2>1, <3>1 DEF RejectedAfter, RejectionEvent, TypeOK
    <3>4. ASSUME NEW k \in Mesh \X Node
          PROVE  RejectionFollows(RejectedAfter(rejectedNodes, cfg["rejections"][n + 1]), k,
                                  cfg["rejections"], base["rejections"], n + 1)
      <4>1. RejectionFollows(rejectedNodes, k, cfg["rejections"], base["rejections"], n)
        BY <2>1 DEF IInv, StateIsTailReplay
      <4> QED BY <1>3, <2>1, <3>2, <4>1, RejectionApplied
    <3> QED BY <1>4, <2>1, <3>1, <3>3, <3>4
  <2>2. CASE t # "rejections"
    <3>1. rejectedNodes' = rejectedNodes /\ cfgApplied'["rejections"] = cfgApplied["rejections"]
      BY <1>4, <2>2 DEF ApplyConfigEvent, CfgTopic
    <3> QED BY <1>2, <3>1 DEF IInv, StateIsTailReplay, TypeOK
  <2> QED BY <2>1, <2>2
<1>8. \A u \in CfgTopic : /\ base[u] <= cfgApplied'[u] /\ cfgCommitted[u] <= cfgApplied'[u]
                          /\ cfgApplied'[u] <= cfgPosition[u]
  <2> TAKE u \in CfgTopic
  <2>1. /\ base[u] \in Nat /\ cfgApplied[u] \in Nat /\ cfgPosition[u] \in Nat /\ cfgCommitted[u] \in Nat
        /\ base[u] <= cfgApplied[u] /\ cfgCommitted[u] <= cfgApplied[u]
        /\ cfgApplied[u] <= cfgPosition[u]
    BY <1>2 DEF TypeOK
  <2> QED BY <1>1, <1>4, <2>1
<1>9. TypeOK'
  <2> QED BY <1>1, <1>2, <1>4, <1>6, <1>7, <1>8 DEF TypeOK, Published
<1>10. AppliedBetween' /\ Topics'
  BY <1>1, <1>2 DEF AppliedBetween, Topics
<1>11. StateIsTailReplay'
  BY <1>1, <1>6, <1>7, <1>9 DEF StateIsTailReplay
<1> QED BY <1>1, <1>10, <1>11, PacketsKept DEF IInv

\* The decode coroutine between two packets: it polls, wakes up, finishes a batch.
LEMMA BatchSteps ==
    ASSUME IInv, PollRaw \/ Wake \/ FinishBatch
    PROVE  IInv'
<1>1. /\ UNCHANGED <<topics, config, done, pending, out, dropped, faults>>
      /\ running \in {"none", "decode"} /\ running' \in {"none", "decode"}
      /\ \/ UNCHANGED <<failed, skipped, commitOk>>
         \/ failed' = {} /\ skipped' = skipped \cup failed /\ commitOk' = TRUE
  BY DEF PollRaw, Wake, FinishBatch, history
<1> USE DEF topics, config
<1>2. TypeOK /\ Offsets
  BY DEF IInv, StateIsTailReplay
<1>3. Len(raw) \in Nat
  BY <1>2 DEF TypeOK
<1>4. /\ rawCommitted' \in Nat /\ rawPosition' \in Nat
      /\ rawCommitted' <= done /\ done <= rawPosition' /\ rawPosition' <= Len(raw)
  BY <1>2, <1>3 DEF PollRaw, Wake, FinishBatch, TypeOK, Offsets
<1>5. TypeOK'
  BY <1>1, <1>2, <1>4 DEF TypeOK, Published
<1>6. Offsets' /\ AppliedBetween' /\ Publishing' /\ SideEventsFollowDecoded'
  BY <1>1, <1>2, <1>4
  DEF IInv, Offsets, AppliedBetween, Publishing, SideEventsFollowDecoded
<1>7. DoneAreSettled' /\ FailedHold'
  <2>1. \A i : CompletelyPublished(i) => CompletelyPublished(i)'
    BY <1>1 DEF CompletelyPublished
  <2>2. failed \cup skipped \subseteq failed' \cup skipped'
    BY <1>1
  <2>3. DoneAreSettled'
    BY <1>1, <2>1, <2>2 DEF IInv, DoneAreSettled
  <2>4. FailedHold'
    BY <1>1 DEF IInv, FailedHold
  <2> QED BY <2>3, <2>4
<1>8. CommittedAreSettled'
  <2>1. \A i : CompletelyPublished(i) => CompletelyPublished(i)'
    BY <1>1 DEF CompletelyPublished
  <2>2. CASE rawCommitted' = rawCommitted
    BY <1>1, <2>1, <2>2 DEF IInv, CommittedAreSettled
  <2>3. CASE rawCommitted' # rawCommitted
    <3>1. commitOk /\ rawCommitted' = done /\ UNCHANGED skipped
      BY <1>2, <2>3 DEF PollRaw, Wake, FinishBatch, history
    <3>2. failed = {}
      BY <3>1 DEF IInv, FailedHold
    <3> QED BY <1>1, <2>1, <3>1, <3>2 DEF IInv, DoneAreSettled, CommittedAreSettled
  <2> QED BY <2>2, <2>3
<1> QED BY <1>1, <1>5, <1>6, <1>7, <1>8, StateKept DEF IInv, StateIsTailReplay

\* A packet is decoded: dropped, or its events wait to be sent.
LEMMA DecodeStep ==
    ASSUME IInv, DecodeNext
    PROVE  IInv'
<1> DEFINE events == Events(raw[done + 1], gatewayState, rejectedNodes)
<1>1. /\ UNCHANGED <<topics, config, rawCommitted, rawPosition, commitOk, out, failed,
                     skipped, faults>>
      /\ running = "decode" /\ done < rawPosition
  BY DEF DecodeNext
<1> USE DEF topics, config
<1>2. TypeOK /\ Offsets
  BY DEF IInv, StateIsTailReplay
<1>3. CASE events = <<>>
  <2>1. /\ done' = done + 1 /\ dropped' = dropped \cup {done + 1}
        /\ UNCHANGED <<pending, running>>
    BY <1>3 DEF DecodeNext
  <2>2. TypeOK'
    <3>1. rawCommitted <= done' /\ done' <= rawPosition
      BY <1>1, <1>2, <2>1 DEF TypeOK, Offsets
    <3> QED BY <1>1, <1>2, <2>1, <3>1 DEF TypeOK, Published
  <2>3. /\ Offsets' /\ AppliedBetween' /\ Publishing' /\ SideEventsFollowDecoded'
        /\ FailedHold'
    BY <1>1, <1>2, <2>1
    DEF IInv, Offsets, AppliedBetween, Publishing, SideEventsFollowDecoded, FailedHold
  <2>4. DoneAreSettled' /\ CommittedAreSettled'
    <3>1. /\ \A i \in 1..done :
                i \in dropped' \cup failed' \cup skipped' \/ CompletelyPublished(i)'
          /\ CommittedAreSettled'
      BY <1>1, <2>1, SettledKept
    <3>2. \A i \in 1..done' : i \in 1..done \/ i \in dropped'
      BY <1>2, <2>1 DEF Offsets
    <3> QED BY <3>1, <3>2 DEF DoneAreSettled
  <2> QED BY <1>1, <2>2, <2>3, <2>4, StateKept DEF IInv, StateIsTailReplay
<1>4. CASE events # <<>>
  <2>1. /\ pending' = events /\ running' = "publish" /\ UNCHANGED <<done, dropped>>
    BY <1>4 DEF DecodeNext
  <2>2. TypeOK'
    BY <1>1, <1>2, <1>4, <2>1 DEF TypeOK, Published
  <2>3. Publishing'
    <3>1. /\ EntryOf(done + 1) # Unknown /\ Readable(raw[done + 1], EntryOf(done + 1))
          /\ events = IF EntryOf(done + 1).mesh = NoMesh THEN <<"decoded">>
                      ELSE IF raw[done + 1].payload = "telemetry"
                           THEN <<"decoded", "sighting", "discovery">>
                           ELSE <<"decoded", "sighting">>
      BY <1>4, EventsFacts DEF EntryOf
    <3>2. EntryOf(done + 1)' = EntryOf(done + 1) /\ raw'[done' + 1] = raw[done + 1]
      BY <1>1, <2>1 DEF EntryOf
    <3>3. pending' \in Tails(EntryOf(done + 1), raw[done + 1]) /\ Head(pending') = "decoded"
      BY <2>1, <3>1 DEF Tails
    <3> QED BY <1>1, <2>1, <3>1, <3>2, <3>3 DEF Publishing
  <2>4. Offsets' /\ AppliedBetween' /\ SideEventsFollowDecoded' /\ FailedHold'
    BY <1>1, <1>2, <2>1
    DEF IInv, Offsets, AppliedBetween, SideEventsFollowDecoded, FailedHold
  <2>5. DoneAreSettled' /\ CommittedAreSettled'
    BY <1>1, <2>1, SettledKept DEF DoneAreSettled
  <2> QED BY <1>1, <2>2, <2>3, <2>4, <2>5, StateKept DEF IInv, StateIsTailReplay
<1> QED BY <1>3, <1>4

\* What is left of a packet's events when the first of them is sent.
LEMMA TailsFacts ==
    ASSUME NEW entry, NEW packet, NEW p \in Tails(entry, packet)
    PROVE  /\ p # <<>> /\ Head(p) \in Kind
           /\ Head(p) # "decoded" => entry.mesh # NoMesh
           /\ Tail(p) # <<>> =>
                 /\ Tail(p) \in Tails(entry, packet) /\ Head(Tail(p)) # "decoded"
                 /\ Head(Tail(p)) = "discovery" => Head(p) = "sighting"
                 /\ Head(Tail(p)) # "discovery" => Head(p) = "decoded"
           /\ Tail(p) = <<>> =>
                 Head(p) = IF entry.mesh = NoMesh THEN "decoded"
                           ELSE IF packet.payload = "telemetry" THEN "discovery" ELSE "sighting"
<1>1. \A a, b, c : /\ Head(<<a>>) = a /\ Tail(<<a>>) = <<>>
                   /\ Head(<<a, b>>) = a /\ Tail(<<a, b>>) = <<b>>
                   /\ Head(<<a, b, c>>) = a /\ Tail(<<a, b, c>>) = <<b, c>>
  OBVIOUS
<1>2. \A a, b, c : <<a>> # <<>> /\ <<a, b>> # <<>> /\ <<a, b, c>> # <<>>
  OBVIOUS
<1>3. CASE entry.mesh = NoMesh
  BY <1>1, <1>2, <1>3 DEF Tails, Kind
<1>4. CASE entry.mesh # NoMesh /\ packet.payload = "telemetry"
  <2>1. CASE p = <<"decoded", "sighting", "discovery">>
    BY <1>1, <1>2, <1>4, <2>1 DEF Tails, Kind
  <2>2. CASE p = <<"sighting", "discovery">>
    BY <1>1, <1>2, <1>4, <2>2 DEF Tails, Kind
  <2>3. CASE p = <<"discovery">>
    BY <1>1, <1>2, <1>4, <2>3 DEF Tails, Kind
  <2> QED BY <1>4, <2>1, <2>2, <2>3 DEF Tails
<1>5. CASE entry.mesh # NoMesh /\ packet.payload # "telemetry"
  <2>1. CASE p = <<"decoded", "sighting">>
    BY <1>1, <1>2, <1>5, <2>1 DEF Tails, Kind
  <2>2. CASE p = <<"sighting">>
    BY <1>1, <1>2, <1>5, <2>2 DEF Tails, Kind
  <2> QED BY <1>5, <2>1, <2>2 DEF Tails
<1> QED BY <1>3, <1>4, <1>5

\* An event is sent, or may have been: the side events only after the decoded one.
LEMMA SentFacts ==
    ASSUME IInv, running = "publish",
           out' \in {out, out \cup {Sent(done + 1, Head(pending))}}
    PROVE  /\ out' \subseteq Published /\ SideEventsFollowDecoded'
           /\ done + 1 <= rawPosition
           /\ rawCommitted <= done + 1
<1> DEFINE i == done + 1
           e == Sent(i, Head(pending))
<1>1. TypeOK /\ Offsets /\ Publishing /\ SideEventsFollowDecoded
  BY DEF IInv, StateIsTailReplay
<1>2. i \in 1..Len(raw) /\ i \in 1..MaxRaw /\ i <= rawPosition /\ rawCommitted <= i
  <2>1. Len(raw) \in Nat
    BY <1>1 DEF TypeOK
  <2> QED BY <1>1, <2>1 DEF TypeOK, Offsets, Publishing
<1>3. EntryOf(i).mesh \in Mesh \cup {NoMesh}
  <2>1. raw[i] \in Packet
    BY <1>1, <1>2 DEF TypeOK
  <2>2. raw[i].gateway \in Gateway
    BY <2>1 DEF Packet
  <2>3. EntryOf(i) \in Entry
    BY <1>1, <2>2 DEF TypeOK, EntryOf, Publishing
  <2> QED BY <2>3 DEF Entry
<1>4. Head(pending) \in Kind
  BY <1>1, TailsFacts DEF Publishing
<1>5. e \in Published
  BY <1>2, <1>3, <1>4 DEF Published, Sent, Kind
<1>6. [e EXCEPT !.kind = "decoded"] = Sent(i, "decoded")
  BY DEF Sent
<1>7. [e EXCEPT !.kind = "decoded"] \in out \cup {e}
  BY <1>1, <1>6 DEF Publishing
<1> HIDE DEF e
<1>8. out' \in {out, out \cup {e}}
  BY DEF e
<1>9. SideEventsFollowDecoded'
  BY <1>1, <1>7, <1>8 DEF SideEventsFollowDecoded
<1> QED BY <1>1, <1>2, <1>5, <1>8, <1>9 DEF TypeOK

\* An event of the packet is sent; after the last the packet is completely published.
LEMMA SendStep ==
    ASSUME IInv, Send
    PROVE  IInv'
<1>1. /\ UNCHANGED <<topics, config, rawCommitted, rawPosition, commitOk, history, faults>>
      /\ running = "publish"
      /\ out' = out \cup {Sent(done + 1, Head(pending))}
      /\ pending' = Tail(pending)
  BY DEF Send
<1> USE DEF topics, config, history
<1>2. TypeOK /\ Offsets /\ Publishing
  BY DEF IInv, StateIsTailReplay
<1>3. /\ out' \subseteq Published /\ SideEventsFollowDecoded'
      /\ done + 1 <= rawPosition /\ rawCommitted <= done + 1
  BY <1>1, SentFacts
<1>5. AppliedBetween' /\ FailedHold' /\ CommittedAreSettled'
  BY <1>1, SettledKept DEF IInv, AppliedBetween, FailedHold, Send
<1>6. CASE Tail(pending) = <<>>
  <2>1. done' = done + 1 /\ running' = "decode"
    BY <1>1, <1>6 DEF Send
  <2>2. TypeOK'
    BY <1>1, <1>2, <1>3, <1>6, <2>1 DEF TypeOK, Published
  <2>3. ASSUME NEW i, i = done + 1 PROVE CompletelyPublished(i)'
    <3> DEFINE e == Sent(done + 1, "decoded")
    <3>1. Head(pending) = IF EntryOf(done + 1).mesh = NoMesh THEN "decoded"
                          ELSE IF raw[done + 1].payload = "telemetry"
                               THEN "discovery" ELSE "sighting"
      BY <1>1, <1>2, <1>6, TailsFacts DEF Publishing
    <3>2. e \in out' /\ e.offset = done + 1 /\ e.mesh = EntryOf(done + 1).mesh
      BY <1>1, <1>2 DEF Publishing, Sent
    <3>3. EntryOf(done + 1).mesh # NoMesh => Sent(done + 1, "sighting") \in out'
      BY <1>1, <1>2, <3>1 DEF Publishing
    <3>4. EntryOf(done + 1).mesh # NoMesh /\ raw[done + 1].payload = "telemetry" =>
             Sent(done + 1, "discovery") \in out'
      BY <1>1, <3>1
    <3>5. /\ [e EXCEPT !.kind = "sighting"] = Sent(done + 1, "sighting")
          /\ [e EXCEPT !.kind = "discovery"] = Sent(done + 1, "discovery")
      BY DEF Sent
    <3>6. /\ e.mesh # NoMesh => [e EXCEPT !.kind = "sighting"] \in out'
          /\ e.mesh # NoMesh /\ raw'[i].payload = "telemetry" =>
                [e EXCEPT !.kind = "discovery"] \in out'
      <4> HIDE DEF e
      <4> QED BY <1>1, <2>3, <3>2, <3>3, <3>4, <3>5
    <3>7. e \in out' /\ e.offset = i
      BY <2>3, <3>2
    <3> HIDE DEF e
    <3> QED BY <3>6, <3>7 DEF CompletelyPublished
  <2>4. DoneAreSettled'
    <3>1. \A i \in 1..done :
             i \in dropped' \cup failed' \cup skipped' \/ CompletelyPublished(i)'
      BY <1>1, SettledKept
    <3>2. \A i \in 1..done' : i \in 1..done \/ i = done + 1
      BY <1>2, <2>1 DEF Offsets
    <3> QED BY <2>3, <3>1, <3>2 DEF DoneAreSettled
  <2>5. Offsets' /\ Publishing'
    BY <1>1, <1>2, <2>1 DEF Offsets, Publishing
  <2> QED BY <1>1, <1>3, <1>5, <2>2, <2>4, <2>5, StateKept DEF IInv, StateIsTailReplay
<1>7. CASE Tail(pending) # <<>>
  <2>1. UNCHANGED <<done, running>>
    BY <1>1, <1>7 DEF Send
  <2>2. TypeOK'
    BY <1>1, <1>2, <1>3, <1>7, <2>1 DEF TypeOK, Published
  <2>3. Publishing'
    <3>1. /\ Tail(pending) \in Tails(EntryOf(done + 1), raw[done + 1])
          /\ Head(Tail(pending)) # "decoded"
          /\ Head(Tail(pending)) = "discovery" => Head(pending) = "sighting"
          /\ Head(Tail(pending)) # "discovery" => Head(pending) = "decoded"
      BY <1>1, <1>2, <1>7, TailsFacts DEF Publishing
    <3>2. /\ EntryOf(done + 1)' = EntryOf(done + 1) /\ raw'[done' + 1] = raw[done + 1]
          /\ Sent(done + 1, "decoded")' = Sent(done + 1, "decoded")
          /\ Sent(done + 1, "sighting")' = Sent(done + 1, "sighting")
      BY <1>1, <2>1 DEF EntryOf, Sent
    <3>3. Sent(done + 1, "decoded") \in out'
      BY <1>1, <1>2 DEF Publishing
    <3>4. Head(Tail(pending)) = "discovery" => Sent(done + 1, "sighting") \in out'
      BY <1>1, <3>1
    <3> QED BY <1>1, <1>2, <2>1, <3>1, <3>2, <3>3, <3>4 DEF Publishing
  <2>4. DoneAreSettled'
    BY <1>1, <2>1, SettledKept DEF DoneAreSettled
  <2>5. Offsets'
    BY <1>1, <1>2, <2>1 DEF Offsets
  <2> QED BY <1>1, <1>3, <1>5, <2>2, <2>3, <2>4, <2>5, StateKept DEF IInv, StateIsTailReplay
<1> QED BY <1>6, <1>7

\* A send raises: the packet is given up, and noted.
LEMMA SendFailsStep ==
    ASSUME IInv, SendFails
    PROVE  IInv'
<1>1. /\ UNCHANGED <<topics, config, rawCommitted, rawPosition, dropped, skipped>>
      /\ running = "publish" /\ running' = "decode" /\ pending' = <<>> /\ commitOk' = FALSE
      /\ out' \in {out, out \cup {Sent(done + 1, Head(pending))}}
      /\ failed' = failed \cup {done + 1} /\ done' = done + 1
      /\ faults < MaxFaults /\ faults' = faults + 1
  BY DEF SendFails
<1> USE DEF topics, config
<1>2. TypeOK /\ Offsets
  BY DEF IInv, StateIsTailReplay
<1>3. /\ out' \subseteq Published /\ SideEventsFollowDecoded'
      /\ done + 1 <= rawPosition /\ rawCommitted <= done + 1
  BY <1>1, SentFacts
<1>4. TypeOK'
  <2>1. faults' \in 0..MaxFaults
    BY <1>1, <1>2 DEF TypeOK
  <2>2. /\ commitOk' \in BOOLEAN /\ running' \in {"none", "config", "decode", "publish"}
        /\ running' = "publish" <=> pending' # <<>>
    BY <1>1
  <2>3. rawCommitted' <= done' /\ done' <= rawPosition' /\ rawPosition' <= Len(raw')
    BY <1>1, <1>2, <1>3 DEF TypeOK
  <2> QED BY <1>1, <1>2, <1>3, <2>1, <2>2, <2>3 DEF TypeOK, Published
<1>5. DoneAreSettled' /\ CommittedAreSettled'
  <2>1. /\ \A i \in 1..done :
              i \in dropped' \cup failed' \cup skipped' \/ CompletelyPublished(i)'
        /\ CommittedAreSettled'
    BY <1>1, SettledKept
  <2>2. \A i \in 1..done' : i \in 1..done \/ i \in failed'
    BY <1>1, <1>2 DEF Offsets
  <2> QED BY <2>1, <2>2 DEF DoneAreSettled
<1>6. Offsets' /\ AppliedBetween' /\ Publishing' /\ FailedHold'
  BY <1>1, <1>2 DEF IInv, Offsets, AppliedBetween, Publishing, FailedHold
<1> QED BY <1>1, <1>3, <1>4, <1>5, <1>6, StateKept DEF IInv, StateIsTailReplay

\* A new process knows nothing and goes on behind what was committed.
LEMMA RestartStep ==
    ASSUME IInv, Restart
    PROVE  IInv'
<1>1. /\ UNCHANGED <<topics, cfgCommitted, out, dropped>>
      /\ failed' = {} /\ skipped' = {i \in skipped : i <= rawCommitted'}
      /\ rawPosition' = rawCommitted' /\ done' = rawCommitted'
      /\ pending' = <<>> /\ commitOk' = TRUE /\ running' = "none"
      /\ cfgPosition' = cfgCommitted /\ cfgApplied' = cfgCommitted /\ base' = cfgCommitted
      /\ gatewayState' = [g \in Gateway |-> Unknown] /\ rejectedNodes' = {}
      /\ faults < MaxFaults /\ faults' = faults + 1
  BY DEF Restart
<1> USE DEF topics
<1>2. TypeOK /\ Offsets
  BY DEF IInv, StateIsTailReplay
<1>3. rawCommitted' \in Nat /\ rawCommitted' <= done /\ rawCommitted' <= Len(raw)
  <2>1. Len(raw) \in Nat
    BY <1>2 DEF TypeOK
  <2> QED BY <1>2, <2>1 DEF Restart, TypeOK, Offsets
<1>4. \A t \in CfgTopic : cfgCommitted[t] <= Len(cfg[t])
  <2> TAKE t \in CfgTopic
  <2>1. /\ cfg[t] \in Seq(KeyEvents \cup RejectionEvents)
        /\ cfgCommitted[t] \in Nat /\ cfgApplied[t] \in Nat /\ cfgPosition[t] \in Nat
        /\ cfgCommitted[t] <= cfgApplied[t] /\ cfgApplied[t] <= cfgPosition[t]
        /\ cfgPosition[t] <= Len(cfg[t])
    BY <1>2 DEF TypeOK
  <2>2. Len(cfg[t]) \in Nat
    BY <2>1
  <2> QED BY <2>1, <2>2
<1>5. TypeOK'
  <2> QED BY <1>1, <1>2, <1>3, <1>4 DEF TypeOK, Published
<1>6. StateIsTailReplay'
  <2>1. cfgCommitted["keys"] \in Nat /\ cfgCommitted["rejections"] \in Nat
    BY <1>2 DEF TypeOK, CfgTopic
  <2> QED BY <1>1, <1>5, <2>1, NothingFollows DEF StateIsTailReplay
<1>7. CommittedAreSettled'
  <2>1. \A i : CompletelyPublished(i) => CompletelyPublished(i)'
    BY <1>1 DEF CompletelyPublished
  <2>2. \A i \in 1..rawCommitted' : i \in dropped \cup skipped \/ CompletelyPublished(i)
    <3>1. CASE rawCommitted' = rawCommitted
      BY <3>1 DEF IInv, CommittedAreSettled
    <3>2. CASE commitOk /\ rawCommitted' = done
      BY <3>2 DEF IInv, FailedHold, DoneAreSettled
    <3> QED BY <3>1, <3>2 DEF Restart
  <2>3. \A i \in 1..rawCommitted' : i <= rawCommitted'
    BY <1>3
  <2> QED BY <1>1, <2>1, <2>2, <2>3 DEF CommittedAreSettled
<1>8. /\ Offsets' /\ Topics' /\ AppliedBetween' /\ Publishing' /\ SideEventsFollowDecoded'
      /\ DoneAreSettled' /\ FailedHold'
  BY <1>1, <1>3, <1>7
  DEF IInv, Offsets, Topics, AppliedBetween, Publishing, SideEventsFollowDecoded,
      DoneAreSettled, CommittedAreSettled, FailedHold
<1> QED BY <1>6, <1>7, <1>8 DEF IInv

-----------------------------------------------------------------------------
\* Every step keeps the invariant: one lemma above for each action.
LEMMA StepIInv == IInv /\ [Next]_vars => IInv'
<1> SUFFICES ASSUME IInv, [Next]_vars PROVE IInv'
  OBVIOUS
<1>1. CASE UNCHANGED vars
  <2>1. UNCHANGED <<topics, config, decoder, running, out, history, faults>>
    BY <1>1 DEF vars
  <2>2. TypeOK'
    BY <2>1
    DEF IInv, StateIsTailReplay, TypeOK, Published, topics, config, decoder, history
  <2> QED
    BY <2>1, <2>2
    DEF topics, config, decoder, history, IInv, StateIsTailReplay, Offsets, Topics,
        AppliedBetween, Publishing, EntryOf, Sent, SideEventsFollowDecoded, DoneAreSettled,
        FailedHold, CommittedAreSettled, CompletelyPublished
<1>2. CASE PublishConfig
  BY <1>2, PublishConfigStep
<1>3. CASE PublishRaw
  BY <1>3, PublishRawStep
<1>4. CASE PollConfig \/ AutoCommit
  BY <1>4, PollConfigStep
<1>5. ASSUME NEW t \in CfgTopic, ApplyConfigEvent(t) PROVE IInv'
  BY <1>5, ApplyStep
<1>6. CASE PollRaw \/ Wake \/ FinishBatch
  BY <1>6, BatchSteps
<1>7. CASE DecodeNext
  BY <1>7, DecodeStep
<1>8. CASE Send
  BY <1>8, SendStep
<1>9. CASE SendFails
  BY <1>9, SendFailsStep
<1>10. CASE Restart
  BY <1>10, RestartStep
<1> QED
  BY <1>1, <1>2, <1>3, <1>4, <1>5, <1>6, <1>7, <1>8, <1>9, <1>10 DEF Next

\* The invariant holds in every state.
LEMMA Inductive == Spec => []IInv
  BY InitIInv, StepIInv, PTL DEF Spec

\* gateway_state and rejected_nodes hold, for every key, the last of the config events
\* the process has read: however polls, the sleeping decode coroutine and restarts fall
\* between them.
THEOREM StateFollowsTopics == Spec => []StateIsTailReplay
<1>1. IInv => StateIsTailReplay
  BY DEF IInv
<1> QED BY Inductive, <1>1, PTL

\* A sighting or discovery is never published without the decoded event of its packet:
\* _publish sends that first and returns when a send raises.
THEOREM SideEventsFollow == Spec => []SideEventsFollowDecoded
<1>1. IInv => SideEventsFollowDecoded
  BY DEF IInv
<1> QED BY Inductive, <1>1, PTL

\* A crash loses no packet but one whose publish failed and which the process left behind
\* by handling a further batch: consume_decode commits only what the loop has passed, and
\* not the batch a send failed in.
THEOREM CommitsSettled == Spec => []CommittedAreSettled
<1>1. IInv => CommittedAreSettled
  BY DEF IInv
<1> QED BY Inductive, <1>1, PTL

\* Nothing is published but under what is, of the config events before the process's place
\* in the topic, the last about the gateway: a restart that forgot a registration never
\* falls back to an older one, and no config event comes between decode_packet and the
\* sends of its events.
THEOREM OutputAuthorized == Spec => OutputIsAuthorized
<1>1. IInv /\ [Next]_vars =>
         [\A e \in out' \ out :
            Authorizes(cfg["keys"], cfgApplied["keys"], raw[e.offset], e.mesh)]_vars
  <2> SUFFICES ASSUME IInv, Next, NEW e \in out' \ out
               PROVE  Authorizes(cfg["keys"], cfgApplied["keys"], raw[e.offset], e.mesh)
    BY DEF vars
  <2>1. running = "publish" /\ e = Sent(done + 1, Head(pending))
    <3>1. out' = out \/ Send \/ SendFails
      BY DEF Next, PublishConfig, PublishRaw, PollConfig, AutoCommit, ApplyConfigEvent,
             PollRaw, Wake, DecodeNext, FinishBatch, Restart
    <3> QED BY <3>1 DEF Send, SendFails
  <2> DEFINE p == raw[done + 1]
  <2>2. TypeOK /\ Offsets /\ Topics /\ Publishing
    BY DEF IInv, StateIsTailReplay
  <2>3. p \in Packet /\ p.gateway \in Gateway
    <3>1. Len(raw) \in Nat
      BY <2>2 DEF TypeOK
    <3>2. done + 1 \in 1..Len(raw)
      BY <2>1, <2>2, <3>1 DEF TypeOK, Offsets, Publishing
    <3> QED BY <2>2, <3>2 DEF TypeOK, Packet
  <2>4. gatewayState[p.gateway] # Unknown /\ Readable(p, gatewayState[p.gateway])
    BY <2>1, <2>2 DEF Publishing, EntryOf
  <2>5. /\ base["keys"] \in Nat /\ cfgApplied["keys"] \in Nat
        /\ cfgApplied["keys"] <= Len(cfg["keys"]) /\ cfg["keys"] \in Seq(KeyEvent)
    <3>1. Len(cfg["keys"]) \in Nat
      BY <2>2 DEF Topics
    <3> QED BY <2>2, <3>1 DEF TypeOK, Topics, CfgTopic
  <2>6. GatewayFollows(gatewayState, p.gateway, cfg["keys"], base["keys"], cfgApplied["keys"])
    BY <2>3 DEF IInv, StateIsTailReplay
  <2> HIDE DEF p
  <2>7. Authorizes(cfg["keys"], cfgApplied["keys"], p, gatewayState[p.gateway].mesh)
    BY <2>3, <2>4, <2>5, <2>6, FollowedAuthorizes
  <2> QED BY <2>1, <2>7 DEF p, Sent, EntryOf
<1> QED BY Inductive, <1>1, PTL DEF Spec, OutputIsAuthorized
================================================================================
