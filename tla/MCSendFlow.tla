----------------------------- MODULE MCSendFlow -----------------------------
(* SendFlow on small instances. *)
EXTENDS SendFlow, TLC

NoRows == {}
Symmetry == Permutations(RequestIds) \cup Permutations(Pollers)
=============================================================================
