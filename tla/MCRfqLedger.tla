----------------------------- MODULE MCRfqLedger -----------------------------
(* Values of RfqLedger's constants that a .cfg cannot write.               *)
EXTENDS RfqLedger, TLC

CONSTANTS t1

OneToken == {t1}
TwoUnits == [t \in Tokens |-> 2]
OneUnit == [t \in Tokens |-> 1]
Batched == {TRUE}
Either == BOOLEAN

Symmetry == Permutations(Rfqs) \cup Permutations(Nonces)

=============================================================================
