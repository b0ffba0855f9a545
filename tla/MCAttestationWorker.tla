------------------------- MODULE MCAttestationWorker -------------------------
EXTENDS AttestationWorker, TLC

CONSTANTS w1, w2

Symmetry == Permutations(Workers)
=============================================================================
