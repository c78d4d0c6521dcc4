----------------------------- MODULE MCDecodeJob -----------------------------
(***************************************************************************)
(* DecodeJob on one gateway that is registered on one of two meshes and    *)
(* deregistered, and one node of it that is rejected and let in again.     *)
(***************************************************************************)
EXTENDS DecodeJob

CONSTANTS g1, n1, m1, m2, k1

Upsert(m) == [op |-> "upsert", key |-> g1, entry |-> [mesh |-> m, psk |-> k1]]

MCKeyEvents == {Upsert(m1), Upsert(m2), [op |-> "delete", key |-> g1]}

MCRejectionEvents ==
    {[op |-> "upsert", key |-> <<m1, n1>>], [op |-> "delete", key |-> <<m1, n1>>]}

MCPackets == {[gateway |-> g1, node |-> n1, key |-> k1, payload |-> "telemetry"]}

MCMaxConfig == [keys |-> 2, rejections |-> 1]
=============================================================================
