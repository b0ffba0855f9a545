--------------------------- MODULE MCDecisionTools ---------------------------
EXTENDS AuditPackage, TLC

CONSTANTS a1, a2, c1, c2, d1, cap

\* The last of each is one that request() attaches and no replay accepts.
OneApproval == {[min |-> 1, modes |-> Modes, caps |-> {}, steps |-> {}],
                [min |-> 0, modes |-> {"apply"}, caps |-> {}, steps |-> {}]}
TwoApprovals == {[min |-> 2, modes |-> Modes, caps |-> {cap}, steps |-> {}],
                 [min |-> 1, modes |-> {"apply", "other"}, caps |-> {}, steps |-> {0}]}
OneOrTwo == OneApproval \cup {[min |-> 2, modes |-> {"dry_run"}, caps |-> {}, steps |-> {1}]}
MCExpiries == {1}
Symmetry   == Permutations({a1, a2}) \cup Permutations({c1, c2})
=============================================================================
