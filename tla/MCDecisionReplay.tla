--------------------------- MODULE MCDecisionReplay ---------------------------
EXTENDS DecisionReplay, TLC

CONSTANTS a1, a2

MCActors   == {a1, a2}
MCOffered  == {[min |-> 1, modes |-> {"dry_run"}, caps |-> {}, steps |-> {}],
               [min |-> 2, modes |-> Modes, caps |-> {}, steps |-> {1}],
               \* one for each reason to refuse a policy
               [min |-> 0, modes |-> Modes, caps |-> {}, steps |-> {}],
               [min |-> 1, modes |-> {}, caps |-> {}, steps |-> {}],
               [min |-> 1, modes |-> {"dry_run", "other"}, caps |-> {}, steps |-> {}],
               [min |-> 1, modes |-> Modes, caps |-> {}, steps |-> {0}]}
MCExpiries == {NoExpiry, 1}
Symmetry   == Permutations(MCActors)
=============================================================================
