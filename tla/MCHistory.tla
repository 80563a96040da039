----------------------------- MODULE MCHistory -----------------------------
(* Constants for TLC. *)
EXTENDS HistoryStore, TLC

Symmetry == Permutations(Rows)
=============================================================================
