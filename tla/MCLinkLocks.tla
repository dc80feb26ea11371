---------------------------- MODULE MCLinkLocks ----------------------------
(***************************************************************************)
(* Instances of LinkLocks for TLC.                                         *)
(***************************************************************************)
EXTENDS LinkLocks

=============================================================================
