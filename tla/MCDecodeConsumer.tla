--------------------------- MODULE MCDecodeConsumer ---------------------------
(***************************************************************************)
(* DecodeConsumer on one gateway that is registered with one of two keys   *)
(* and deregistered, and one node of it that is rejected and let in again. *)
(***************************************************************************)
EXTENDS DecodeConsumer

CONSTANTS g1, n1, m1, k1, k2

Upsert(k) == [op |-> "upsert", key |-> g1, entry |-> [mesh |-> m1, psk |-> k]]

MCKeyEvents == {Upsert(k1), Upsert(k2), [op |-> "delete", key |-> g1]}

MCRejectionEvents ==
    {[op |-> "upsert", key |-> <<m1, n1>>], [op |-> "delete", key |-> <<m1, n1>>]}

MCPackets ==
    {[gateway |-> g1, node |-> n1, key |-> k1, payload |-> "telemetry"]}

MCMaxConfig == [keys |-> 2, rejections |-> 1]
=============================================================================
