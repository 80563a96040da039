------------------------------ MODULE MCLedger ------------------------------
(* Ledger on small instances: the rows of the previous process, and symmetry. *)
EXTENDS Ledger, TLC

CONSTANTS a1, a2

\* The previous process left an unsettled row at number 1 of the account.
MCPriorRows == {<<a1, 1>>}

Symmetry == Permutations(RequestIds)
=============================================================================
