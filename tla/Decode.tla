-------------------------------- MODULE Decode --------------------------------
(***************************************************************************)
(* common/decode.py and common/codec.py: what becomes of one raw packet,   *)
(* given the registered gateways and the rejected nodes, and what a config *)
(* event does to those two.  Both runtimes, pipeline/decode_consumer.py    *)
(* and flink/decode_job.py, call these functions.                          *)
(*                                                                         *)
(* A packet is abstracted to the gateway that relayed it, the node it      *)
(* comes from, the channel key it is encrypted with and the kind of        *)
(* payload inside.  Decrypting with another key than the sender's yields   *)
(* bytes that do not parse: the packet is dropped.  "noschema" also stands *)
(* for an envelope or a payload that does not parse, "telemetry" for a     *)
(* variant with at least one numeric field.                                *)
(***************************************************************************)
EXTENDS Integers, Sequences

CONSTANTS
    Gateway, Node, Mesh, Psk,
    NoPsk,       \* psk_b64 is "" or the one-byte index 0: no encryption
    NoMesh,      \* mesh_id is None
    Plain        \* the packet arrives with its payload already decoded

ASSUME DecodeConstants ==
    NoPsk \notin Psk /\ NoMesh \notin Mesh /\ Plain \notin Psk /\ Plain # NoPsk

Payload == {"telemetry", "other", "noschema"}
Packet == [gateway : Gateway, node : Node, key : Psk \cup {Plain}, payload : Payload]

\* What gateway_state holds for a gateway; Unknown where it has no entry.
Entry == [mesh : Mesh \cup {NoMesh}, psk : Psk \cup {NoPsk}]
Unknown == [mesh |-> NoMesh, psk |-> Plain]

\* The config events of mesh.keys.v1 and mesh.node_rejections.v1.  Ignored is an
\* event that does not parse or has no key.
Ignored == [op |-> "ignored"]
KeyEvent ==
    [op : {"upsert"}, key : Gateway, entry : Entry]
        \cup [op : {"delete"}, key : Gateway]
        \cup {Ignored}
RejectionEvent ==
    [op : {"upsert", "delete"}, key : Mesh \X Node] \cup {Ignored}

-----------------------------------------------------------------------------
(* Config events. *)

About(event, key) == event # Ignored /\ event.key = key

\* The fault: a deregistration is not taken out of the dictionary.
GatewayAfterKeeping(state, event) ==
    IF event = Ignored \/ event.op = "delete" THEN state
    ELSE [state EXCEPT ![event.key] = event.entry]

GatewayAfter(state, event) ==
    IF event = Ignored THEN state
    ELSE [state EXCEPT ![event.key] =
             IF event.op = "delete" THEN Unknown ELSE event.entry]

RejectedAfter(rejected, event) ==
    IF event = Ignored THEN rejected
    ELSE IF event.op = "delete" THEN rejected \ {event.key}
    ELSE rejected \cup {event.key}

-----------------------------------------------------------------------------
(* Packets. *)

Rejected(packet, entry, rejected) ==
    entry.mesh # NoMesh /\ <<entry.mesh, packet.node>> \in rejected

\* decrypt_packet gets the payload: it is in the clear, or the key is the mesh's.
Readable(packet, entry) == packet.key = Plain \/ packet.key = entry.psk

\* The fault: the sighting goes out before the decoded event.
EventsSightingFirst(packet, state, rejected) ==
    LET entry == state[packet.gateway] IN
    IF entry = Unknown \/ Rejected(packet, entry, rejected) \/ ~Readable(packet, entry)
    THEN <<>>
    ELSE IF entry.mesh = NoMesh THEN <<"decoded">> ELSE <<"sighting", "decoded">>

\* decode_packet: the events to publish, in order; <<>> for a dropped packet.
Events(packet, state, rejected) ==
    LET entry == state[packet.gateway] IN
    IF \/ entry = Unknown
       \/ Rejected(packet, entry, rejected)
       \/ ~Readable(packet, entry)
       \/ packet.payload = "noschema"
    THEN <<>>
    ELSE IF entry.mesh = NoMesh THEN <<"decoded">>
    ELSE IF packet.payload = "telemetry" THEN <<"decoded", "sighting", "discovery">>
    ELSE <<"decoded", "sighting">>

-----------------------------------------------------------------------------
(* What a topic says: the reference for both decoders' state.  Whoever has   *)
(* applied events[lo + 1 .. hi] in order knows of each key the last of them. *)

IsLast(events, key, i, lo, hi) ==
    /\ i \in lo + 1 .. hi
    /\ About(events[i], key)
    /\ \A j \in i + 1 .. hi : ~About(events[j], key)

GatewayFollows(state, g, events, lo, hi) ==
    \/ /\ state[g] = Unknown
       /\ \A i \in lo + 1 .. hi : ~About(events[i], g)
    \/ \E i \in lo + 1 .. hi :
          /\ IsLast(events, g, i, lo, hi)
          /\ state[g] = IF events[i].op = "delete" THEN Unknown ELSE events[i].entry

RejectionFollows(rejected, k, events, lo, hi) ==
    k \in rejected <=>
        \E i \in lo + 1 .. hi :
            IsLast(events, k, i, lo, hi) /\ events[i].op = "upsert"

\* Among the first n key events the last about the packet's gateway registers it,
\* on this mesh and with a key that opens the packet.
Authorizes(events, n, packet, mesh) ==
    \E i \in 1 .. n :
        /\ IsLast(events, packet.gateway, i, 0, n)
        /\ events[i].op = "upsert"
        /\ events[i].entry.mesh = mesh
        /\ Readable(packet, events[i].entry)
=============================================================================
