---------------------------- MODULE MCRealtimeLane ----------------------------
(* Small instances of RealtimeLane for TLC. *)
EXTENDS RealtimeLane, TLC
=============================================================================
