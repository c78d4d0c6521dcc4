------------------------------ MODULE MCS3Writer ------------------------------
(* S3Writer on two devices, batches of two, four records and two faults. *)
EXTENDS S3Writer
=============================================================================
