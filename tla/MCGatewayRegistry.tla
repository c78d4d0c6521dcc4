-------------------------- MODULE MCGatewayRegistry --------------------------
(***************************************************************************)
(* GatewayRegistry on small tables.  Devices, meshes, keys, rows and       *)
(* workers are interchangeable: only safety is checked.                    *)
(***************************************************************************)
EXTENDS GatewayRegistry, TLC

Symmetry ==
    Permutations(Gateway) \cup Permutations(Mesh) \cup Permutations(Psk)
        \cup Permutations(Row) \cup Permutations(Worker)
=============================================================================
