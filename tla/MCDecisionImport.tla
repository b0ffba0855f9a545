--------------------------- MODULE MCDecisionImport ---------------------------
EXTENDS DecisionImport, TLC

CONSTANTS a1, c1, d1, d2, i1, i2

Good == [min |-> 1, modes |-> {"dry_run"}, caps |-> {}, steps |-> {}]
Bad  == [Good EXCEPT !.min = 0]

Requesting(p) == [s \in 0 .. 1 |-> IF s = 0 THEN Created("dry_run") ELSE PolicyAttached(p)]

\* A sound bundle, one whose policy was edited after its export, and one with a gap.
MCBundles ==
  {[dec |-> d1, rows |-> Requesting(Good), intact |-> TRUE],
   [dec |-> d1, rows |-> Requesting(Bad), intact |-> FALSE],
   [dec |-> d1, rows |-> [s \in {0, 2} |-> Created("dry_run")], intact |-> TRUE]}

MCOffered  == {Good}
MCExpiries == {NoExpiry}
Symmetry   == Permutations({i1, i2})
=============================================================================
