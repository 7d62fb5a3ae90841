----------------------------- MODULE MCPriceGuard ----------------------------
(* PriceGuard for TLC: the two loops poll and answer alike. *)
EXTENDS PriceGuard, TLC

Symmetry == Permutations(Loops)

=============================================================================
