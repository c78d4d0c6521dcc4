-------------------------- MODULE MCDeviceSightings --------------------------
(***************************************************************************)
(* DeviceSightings with two positions.                                     *)
(***************************************************************************)
EXTENDS DeviceSightings

CONSTANTS p1, p2
MCPosition == {p1, p2}
MCPacket == {p1, Nowhere}
=============================================================================
