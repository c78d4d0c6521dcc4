---------------------------- MODULE MCOwnerAccess ----------------------------
(***************************************************************************)
(* Any two requests about one account, served by two workers, while        *)
(* queryapi looks keys up: from no account, or from a verified one whose   *)
(* owner has asked to reset the password.                                  *)
(***************************************************************************)
EXTENDS OwnerAccess
=============================================================================
