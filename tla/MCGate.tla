------------------------------- MODULE MCGate -------------------------------
(* Constants for TLC. *)
EXTENDS GateCache
=============================================================================
