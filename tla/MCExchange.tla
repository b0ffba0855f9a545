------------------------------ MODULE MCExchange ------------------------------
EXTENDS ExchangeNarrative, TLC

CONSTANTS k1, k2, x1

\* Each task in a process of its own, or in the process of its name.
Apart == [k \in Tasks |-> k]

\* queued for a retry
MCSubmitResponses == {[ok |-> TRUE, engine |-> "ter", accepted |-> FALSE, hash |-> TRUE]}

\* not found, and validated
MCTxResponses ==
  {[ok |-> FALSE, missing |-> TRUE, validated |-> FALSE],
   [ok |-> TRUE, missing |-> FALSE, validated |-> TRUE]}

Symmetry == Permutations({k1, k2})
=============================================================================
