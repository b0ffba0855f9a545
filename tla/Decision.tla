------------------------------- MODULE Decision -------------------------------
(***************************************************************************)
(* The event log of one decision, and the decision projected from it.      *)
(*                                                                         *)
(* A log is the decision's slice of the table decision_events: a function  *)
(* from sequence numbers to rows (the table's key is (decision_id, seq)),  *)
(* read ORDER BY seq.  decision.py replays it row by row; the operators    *)
(* below say what that replay computes, and module DecisionReplay shows    *)
(* that the row-by-row replay computes exactly this.                       *)
(*                                                                         *)
(* Left out: goal, plan, labels, comments, reasons and template snapshots  *)
(* (payloads no operation decides by).  A digest is represented by what it *)
(* is a digest of.                                                         *)
(***************************************************************************)
EXTENDS Integers, FiniteSets

CONSTANTS Actors,         \* the ids of actors
          Capabilities    \* what a policy may require of an adapter

Modes    == {"dry_run", "apply"}
NoExpiry == -1            \* expires_at is None

(***************************************************************************)
(* What a caller may ask for: request() checks nothing of it but that the  *)
(* requested mode is among the modes.  "other" is a mode that is neither;  *)
(* steps is max_steps, {} for None.                                        *)
(***************************************************************************)
Policies == [min : Int, modes : SUBSET (Modes \cup {"other"}), caps : SUBSET Capabilities,
             steps : SUBSET Int]

(***************************************************************************)
(* Rows.  The digest in EXECUTION_STARTED is that of the router request,   *)
(* which the mode determines for a given decision.  ts is left out: no     *)
(* operation here decides by it.  An actor is kept where the actor counts. *)
(* checked is not in the table: it is the clock by which execute() counted *)
(* the approvals, kept in the row it went on to write.                     *)
(***************************************************************************)
Created(m)        == [type |-> "DECISION_CREATED", mode |-> m]
PolicyAttached(p) == [type |-> "POLICY_ATTACHED", policy |-> p]
Granted(a, e)     == [type |-> "APPROVAL_GRANTED", actor |-> a, expires |-> e]
Revoked(a)        == [type |-> "APPROVAL_REVOKED", actor |-> a]
Requested(m, t)   == [type |-> "EXECUTION_REQUESTED", mode |-> m, checked |-> t]
Started(m)        == [type |-> "EXECUTION_STARTED", mode |-> m]
Completed(run)    == [type |-> "EXECUTION_COMPLETED", run |-> run]
Failed            == [type |-> "EXECUTION_FAILED"]
\* a failure whose payload has a run_id: execute() never writes one, a bundle may hold one
FailedRun(run)    == [type |-> "EXECUTION_FAILED", run |-> run]

ApprovalTypes == {"APPROVAL_GRANTED", "APPROVAL_REVOKED"}
OutcomeTypes  == {"EXECUTION_COMPLETED", "EXECUTION_FAILED"}

\* the rows that the tools write
Event ==
  [type : {"DECISION_CREATED"}, mode : Modes]
    \cup [type : {"POLICY_ATTACHED"}, policy : Policies]
    \cup [type : {"APPROVAL_GRANTED"}, actor : Actors, expires : Int]
    \cup [type : {"APPROVAL_REVOKED"}, actor : Actors]
    \cup [type : {"EXECUTION_REQUESTED"}, mode : Modes, checked : Nat]
    \cup [type : {"EXECUTION_STARTED"}, mode : Modes]
    \cup [type : {"EXECUTION_COMPLETED"}, run : Nat]
    \cup {Failed}

\* the rows that replay may meet
AnyEvent == Event \cup [type : {"EXECUTION_FAILED"}, run : Nat]

EmptyLog    == [s \in {} |-> Failed]
Last(S)     == CHOOSE s \in S : \A r \in S : r <= s
Rows(l, T)  == {s \in DOMAIN l : l[s].type \in T}
Below(l, n) == [s \in {r \in DOMAIN l : r < n} |-> l[s]]

-----------------------------------------------------------------------------
(***************************************************************************)
(* Policy: the constructor's checks, and the check execute() makes.        *)
(***************************************************************************)
ValidPolicy(p) ==
  /\ p.min >= 1
  /\ p.modes # {} /\ p.modes \subseteq Modes
  /\ \A n \in p.steps : n >= 1

\* Replay constructs a Policy for every POLICY_ATTACHED row and raises on a bad one.
Loadable(l) == \A s \in Rows(l, {"POLICY_ATTACHED"}) : ValidPolicy(l[s].policy)

HasPolicy(l) == Rows(l, {"POLICY_ATTACHED"}) # {}
PolicyOf(l)  == l[Last(Rows(l, {"POLICY_ATTACHED"}))].policy

(***************************************************************************)
(* Approvals: a dict keyed by actor id.  A new grant by an actor replaces  *)
(* the old one, a revocation marks the one that is there.                  *)
(***************************************************************************)
Live(expires, t) == expires = NoExpiry \/ expires > t

\* g is the row of actor a's approval that is in the dict and not revoked
Stands(l, g, a) ==
  /\ l[g].type = "APPROVAL_GRANTED"
  /\ l[g].actor = a
  /\ \A s \in Rows(l, ApprovalTypes) : s > g => l[s].actor # a

ActiveApprovers(l, t) ==
  {a \in Actors : \E g \in DOMAIN l : Stands(l, g, a) /\ Live(l[g].expires, t)}

IsApproved(l, t) ==
  HasPolicy(l) /\ Cardinality(ActiveApprovers(l, t)) >= PolicyOf(l).min

\* validate_execution_request; answer is what the adapter says it can do, or None
MayExecute(l, m, t) == IsApproved(l, t) /\ m \in PolicyOf(l).modes
Capable(l, answer)  == answer = {} \/ \E known \in answer : PolicyOf(l).caps \subseteq known

(***************************************************************************)
(* State: the last row that sets one, and, while that is POLICY_ATTACHED,  *)
(* whether the approvals replayed since then reach the threshold.          *)
(***************************************************************************)
StateAfter == [DECISION_CREATED    |-> "draft",
               POLICY_ATTACHED     |-> "pending_approval",
               EXECUTION_STARTED   |-> "executing",
               EXECUTION_COMPLETED |-> "completed",
               EXECUTION_FAILED    |-> "failed"]

\* mutant: an approval that comes after an execution brings "approved" back
ApprovedAgain(l, t) ==
  LET set  == Rows(l, DOMAIN StateAfter)
      last == Last(set)
  IN  IF set = {} THEN "draft"
      ELSE IF (\E r \in Rows(l, ApprovalTypes) : r > last) /\ IsApproved(l, t)
           THEN "approved"
           ELSE StateAfter[l[last].type]

StateOf(l, t) ==
  LET set  == Rows(l, DOMAIN StateAfter)
      last == Last(set)
  IN  IF set = {} THEN "draft"
      ELSE IF /\ l[last].type = "POLICY_ATTACHED"
              /\ \E r \in Rows(l, ApprovalTypes) : r > last
              /\ IsApproved(l, t)
           THEN "approved"
           ELSE StateAfter[l[last].type]

(***************************************************************************)
(* Executions: EXECUTION_REQUESTED opens a record; the rows that follow    *)
(* go to the latest record, whoever wrote them.                            *)
(***************************************************************************)
Requests(l)  == Rows(l, {"EXECUTION_REQUESTED"})
Span(l, r)   == {s \in DOMAIN l : s > r /\ \A q \in Requests(l) : q > r => s < q}
Outcomes(l, r) == {s \in Span(l, r) : l[s].type \in OutcomeTypes}
Starts(l, r)   == {s \in Span(l, r) : l[s].type = "EXECUTION_STARTED"}

\* the record has a run_id: its last outcome names one
NamesRun(row) == "run" \in DOMAIN row
HasRun(l, r)  == Outcomes(l, r) # {} /\ NamesRun(l[Last(Outcomes(l, r))])
RunOf(l, r)   == l[Last(Outcomes(l, r))].run
=============================================================================
