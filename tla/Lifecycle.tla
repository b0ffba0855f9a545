------------------------------- MODULE Lifecycle -------------------------------
(***************************************************************************)
(* lifecycle.py: what a decision's reader is told of it.                   *)
(***************************************************************************)
EXTENDS Decision

(***************************************************************************)
(* compute_blocking_reasons returns at most one reason, the first of its   *)
(* triage ladder; NONE is the empty list, "decision is executable".        *)
(***************************************************************************)
Granting(l) == {a \in Actors : \E g \in DOMAIN l : Stands(l, g, a)}

\* state is what the replay ended with, t the clock of the count
Blocking(l, state, t) ==
  CASE ~HasPolicy(l)                        -> "NO_POLICY"
    [] HasPolicy(l) /\ state = "completed"  -> "ALREADY_EXECUTED"
    [] HasPolicy(l) /\ state = "failed"     -> "EXECUTION_FAILED"
    [] OTHER ->
         IF IsApproved(l, t) THEN "NONE"
         ELSE IF Cardinality(Granting(l)) >= PolicyOf(l).min THEN "APPROVAL_EXPIRED"
         ELSE "MISSING_APPROVALS"

BlockingReason(l, t) == Blocking(l, StateOf(l, t), t)
=============================================================================
