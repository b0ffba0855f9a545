------------------------------ MODULE MCTemplates ------------------------------
EXTENDS Templates, TLC

CONSTANTS c1, c2, n1, n2, n3, l1, f1

\* The last one is refused by the constructor.
MCSpecs == {[min |-> 1, modes |-> Modes, caps |-> {}, labels |-> {l1}],
            [min |-> 2, modes |-> {"dry_run"}, caps |-> {}, labels |-> {}],
            [min |-> 0, modes |-> {"dry_run"}, caps |-> {}, labels |-> {}]}

\* Nothing overridden; the threshold (to a value no policy allows) and the labels.
MCOverrides == {[f \in {} |-> 0], ("min" :> 0) @@ ("labels" :> {})}
MCLike == {<<f1, l1>>}
Symmetry == Permutations({c1, c2}) \cup Permutations({n1, n2, n3})
=============================================================================
