---------------------------- MODULE DecisionReplay ----------------------------
(***************************************************************************)
(* Decision.replay: the loop that folds apply_event over a log.  One step  *)
(* of this specification is one iteration.  The log is any sequence of     *)
(* rows, not only one the tools would write (an imported bundle may hold   *)
(* them in any order): each step reads one more row, unconstrained.        *)
(*                                                                         *)
(* now is the clock the approvals are counted by; it does not move while   *)
(* one replay runs.                                                        *)
(***************************************************************************)
EXTENDS Decision, Sequences

CONSTANTS Offered,     \* the policies a POLICY_ATTACHED row may carry
          Expiries,    \* the expires_at an APPROVAL_GRANTED row may carry
          Times,       \* the clock readings a replay may happen at
          RunIds,      \* the run ids an outcome row may carry
          MaxRows      \* bound: rows in the log

ASSUME ReplayAssumption ==
  /\ Offered \subseteq Policies
  /\ Expiries \subseteq Int
  /\ Times \subseteq Nat
  /\ RunIds \subseteq Nat
  /\ MaxRows \in Nat

VARIABLES log,         \* the rows read so far
          now,         \* datetime.now()
          state,       \* Decision.state
          policy,      \* Decision.policy: {} for None, else a singleton
          approvals,   \* Decision.approvals
          executions,  \* Decision.executions
          raised       \* Policy(...) raised ValueError: the replay is over

vars == <<log, now, state, policy, approvals, executions, raised>>

Approval  == [expires : Int, revoked : BOOLEAN]
Execution == [mode : Modes, digest : SUBSET Modes, outcome : OutcomeTypes \cup {"none"},
              run : SUBSET Nat]

Init ==
  /\ log = EmptyLog
  /\ now \in Times
  /\ state = "draft"
  /\ policy = {}
  /\ approvals = [a \in {} |-> [expires |-> NoExpiry, revoked |-> FALSE]]
  /\ executions = <<>>
  /\ raised = FALSE

\* the next row ORDER BY seq, and no exception so far
Read(row) ==
  /\ ~raised
  /\ Cardinality(DOMAIN log) < MaxRows
  /\ \E seq \in {Cardinality(DOMAIN log)} :
       log' = [s \in DOMAIN log \cup {seq} |-> IF s = seq THEN row ELSE log[s]]
  /\ now' = now

-----------------------------------------------------------------------------
Counted(appr) == {a \in DOMAIN appr : ~appr[a].revoked /\ Live(appr[a].expires, now)}

\* mutant: a late grant or revocation changes any state
UpdateAnyState ==
  state' = IF \E p \in policy : Cardinality(Counted(approvals')) >= p.min
           THEN "approved" ELSE "pending_approval"

\* _update_approval_state
UpdateApprovalState ==
  state' = IF state \notin {"pending_approval", "approved"} THEN state
           ELSE IF \E p \in policy : Cardinality(Counted(approvals')) >= p.min
                THEN "approved" ELSE "pending_approval"

ApplyCreated(m) ==
  /\ Read(Created(m))
  /\ state' = "draft"
  /\ UNCHANGED <<policy, approvals, executions, raised>>

ApplyPolicyAttached(p) ==
  /\ Read(PolicyAttached(p))
  /\ raised' = ~ValidPolicy(p)
  /\ policy' = IF ValidPolicy(p) THEN {p} ELSE policy
  /\ state' = IF ValidPolicy(p) THEN "pending_approval" ELSE state
  /\ UNCHANGED <<approvals, executions>>

\* mutant: an actor's first approval stays
ApplyFirstGrant(a, e) ==
  /\ Read(Granted(a, e))
  /\ approvals' = [b \in DOMAIN approvals \cup {a} |->
                     IF b \in DOMAIN approvals THEN approvals[b]
                     ELSE [expires |-> e, revoked |-> FALSE]]
  /\ UpdateApprovalState
  /\ UNCHANGED <<policy, executions, raised>>

ApplyGranted(a, e) ==
  /\ Read(Granted(a, e))
  /\ approvals' = [b \in DOMAIN approvals \cup {a} |->
                     IF b = a THEN [expires |-> e, revoked |-> FALSE] ELSE approvals[b]]
  /\ UpdateApprovalState
  /\ UNCHANGED <<policy, executions, raised>>

ApplyRevoked(a) ==
  /\ Read(Revoked(a))
  /\ approvals' = [b \in DOMAIN approvals |->
                     IF b = a THEN [approvals[b] EXCEPT !.revoked = TRUE] ELSE approvals[b]]
  /\ UpdateApprovalState
  /\ UNCHANGED <<policy, executions, raised>>

ApplyRequested(m) ==
  /\ Read(Requested(m, now))
  /\ executions' = Append(executions, [mode |-> m, digest |-> {}, outcome |-> "none", run |-> {}])
  /\ UNCHANGED <<state, policy, approvals, raised>>

\* latest_execution, the record the row is about, when there is one
Latest == executions[Len(executions)]

OnLatest(x) ==
  executions' = [i \in DOMAIN executions |-> IF i = Len(executions) THEN x ELSE executions[i]]

\* mutant: not one of DecisionState
ApplyStartedUnknown(m) ==
  /\ Read(Started(m))
  /\ OnLatest([Latest EXCEPT !.digest = {m}])
  /\ state' = "started"
  /\ UNCHANGED <<policy, approvals, raised>>

ApplyStarted(m) ==
  /\ Read(Started(m))
  /\ OnLatest([Latest EXCEPT !.digest = {m}])
  /\ state' = "executing"
  /\ UNCHANGED <<policy, approvals, raised>>

ApplyCompleted(run) ==
  /\ Read(Completed(run))
  /\ OnLatest([Latest EXCEPT !.outcome = "EXECUTION_COMPLETED", !.run = {run}])
  /\ state' = "completed"
  /\ UNCHANGED <<policy, approvals, raised>>

\* mutant: a record keeps the run id of an earlier completion
ApplyFailedKeepsRun(row, run) ==
  /\ Read(row)
  /\ OnLatest([Latest EXCEPT !.outcome = "EXECUTION_FAILED", !.run = IF run = {} THEN @ ELSE run])
  /\ state' = "failed"
  /\ UNCHANGED <<policy, approvals, raised>>

\* the record's run_id becomes the payload's: None, as execute() writes it, or a run
ApplyFailed(row, run) ==
  /\ Read(row)
  /\ OnLatest([Latest EXCEPT !.outcome = "EXECUTION_FAILED", !.run = run])
  /\ state' = "failed"
  /\ UNCHANGED <<policy, approvals, raised>>

Next ==
  \/ \E m \in Modes : ApplyCreated(m) \/ ApplyRequested(m) \/ ApplyStarted(m)
  \/ \E p \in Offered : ApplyPolicyAttached(p)
  \/ \E a \in Actors, e \in Expiries : ApplyGranted(a, e)
  \/ \E a \in Actors : ApplyRevoked(a)
  \/ \E r \in RunIds : ApplyCompleted(r) \/ ApplyFailed(FailedRun(r), {r})
  \/ ApplyFailed(Failed, {})

Spec == Init /\ [][Next]_vars

-----------------------------------------------------------------------------
TypeOK ==
  /\ DOMAIN log \subseteq Nat
  /\ \A s \in DOMAIN log : log[s] \in AnyEvent
  /\ now \in Times
  /\ state \in {"draft", "pending_approval", "approved", "executing", "completed", "failed"}
  /\ policy \in SUBSET Policies
  /\ DOMAIN approvals \subseteq Actors
  /\ \A a \in DOMAIN approvals : approvals[a] \in Approval
  /\ \A i \in DOMAIN executions : executions[i] \in Execution
  /\ raised \in BOOLEAN

(***************************************************************************)
(* The dict that replay builds counts exactly the approvals that stand in  *)
(* the log: the last word of each actor, whatever came before it, and not  *)
(* once more for an actor who appears twice (decision.py, apply_event and  *)
(* active_approval_count).                                                 *)
(***************************************************************************)
ApprovalsAsLogged == Counted(approvals) = ActiveApprovers(log, now)

(***************************************************************************)
(* A log replays to the end exactly when every policy in it is valid; the  *)
(* policy in force is then the last one attached, and the state is decided *)
(* by the last row that sets one and by the approvals: a grant or a        *)
(* revocation replayed after the execution started never brings the        *)
(* decision back to approved or pending_approval (decision.py,             *)
(* _update_approval_state).                                                *)
(***************************************************************************)
StateAsLogged ==
  /\ raised <=> ~Loadable(log)
  /\ ~raised => /\ policy = IF HasPolicy(log) THEN {PolicyOf(log)} ELSE {}
                /\ state = StateOf(log, now)

(***************************************************************************)
(* The execution records are the requests of the log in order, and each    *)
(* has the digest, the outcome and the run id of the last such row before  *)
(* the next request: that is the record an auditor reads.                  *)
(***************************************************************************)
ExecutionsAsLogged ==
  /\ Len(executions) = Cardinality(Requests(log))
  /\ \A r \in Requests(log) :
       LET x == executions[Cardinality({q \in Requests(log) : q <= r})]
           o == Outcomes(log, r)
       IN  /\ x.mode = log[r].mode
           /\ x.digest = IF Starts(log, r) = {} THEN {} ELSE {log[Last(Starts(log, r))].mode}
           /\ x.outcome = IF o = {} THEN "none" ELSE log[Last(o)].type
           /\ x.run = IF HasRun(log, r) THEN {RunOf(log, r)} ELSE {}
=============================================================================
