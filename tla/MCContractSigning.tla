------------------------- MODULE MCContractSigning -------------------------
EXTENDS ContractSigning, TLC

CONSTANTS s1, s2, s3, c1, c2, c3

MCOrder == [s \in Signers |-> CASE s = s1 -> 0 [] s = s2 -> 1 [] OTHER -> 2]

Symmetry == Permutations(Handlers)
=============================================================================
