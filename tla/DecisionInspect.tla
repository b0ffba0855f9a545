---------------------------- MODULE DecisionInspect ----------------------------
(***************************************************************************)
(* The read-only tools: status, list_requests, export_audit_record and     *)
(* inspect, with the rest of lifecycle.py.  Each loads the log once, and   *)
(* then asks the decision several times how many approvals are active; the *)
(* decision reads the wall clock each time.  So an answer is a function of *)
(* one log and of several readings of the clock, t[1] <= t[2] <= ...       *)
(*                                                                         *)
(* Left out: goal, plan, labels, comments, the wording of the markdown.    *)
(***************************************************************************)
EXTENDS DecisionTools

CONSTANT TimelineLimit   \* DEFAULT_TIMELINE_LIMIT

ASSUME InspectAssumption == TimelineLimit \in Nat

Required(l)   == IF HasPolicy(l) THEN PolicyOf(l).min ELSE 1
Active(l, t)  == Cardinality(ActiveApprovers(l, t))
LatestExec(l) == Last(Requests(l))
Above(a, b)   == IF a > b THEN a ELSE b

-----------------------------------------------------------------------------
(***************************************************************************)
(* compute_timeline: an entry for every row, and one more right after the  *)
(* grant that brought the tally to the threshold.  The tally counts grants *)
(* less revocations, not actors.                                           *)
(***************************************************************************)
Category == [DECISION_CREATED |-> "decision", POLICY_ATTACHED |-> "policy",
             APPROVAL_GRANTED |-> "approval", APPROVAL_REVOKED |-> "approval",
             EXECUTION_REQUESTED |-> "execution", EXECUTION_STARTED |-> "execution",
             EXECUTION_COMPLETED |-> "execution", EXECUTION_FAILED |-> "execution"]

Entry(s, kind) == [seq |-> s, kind |-> kind,
                   category |-> IF kind = "THRESHOLD_MET" THEN "decision" ELSE Category[kind]]

\* mutant: revocations are not taken off
TallyOfGrants(l, s) == Cardinality({g \in Rows(l, {"APPROVAL_GRANTED"}) : g <= s})

Tally(l, s) ==
  Cardinality({g \in Rows(l, {"APPROVAL_GRANTED"}) : g <= s})
    - Cardinality({r \in Rows(l, {"APPROVAL_REVOKED"}) : r <= s})

\* the grant that met the threshold first, if any
MetAt(l) ==
  {s \in Rows(l, {"APPROVAL_GRANTED"}) :
     /\ HasPolicy(l)
     /\ Tally(l, s) = PolicyOf(l).min
     /\ \A r \in Rows(l, {"APPROVAL_GRANTED"}) : r < s => Tally(l, r) # PolicyOf(l).min}

Before(e, f) == e.seq < f.seq \/ (e.seq = f.seq /\ f.kind = "THRESHOLD_MET" /\ e # f)

Timeline(l) ==
  LET entries == {Entry(s, l[s].type) : s \in DOMAIN l} \cup {Entry(s, "THRESHOLD_MET") : s \in MetAt(l)}
  IN  [i \in 1 .. Cardinality(entries) |->
         CHOOSE e \in entries : Cardinality({f \in entries : Before(f, e)}) = i - 1]

\* The last n entries; [-0:] is the whole list.
Truncated(tl, n) ==
  IF Len(tl) > n /\ n > 0 THEN SubSeq(tl, Len(tl) - n + 1, Len(tl)) ELSE tl

-----------------------------------------------------------------------------
(***************************************************************************)
(* compute_progress and compute_lifecycle: the reasons first, the progress *)
(* after them, its count before its readiness.  ProgressFirst is a mutant: *)
(* the other order.  (compute_blocking_reasons reads the clock once more,  *)
(* to count how many of the approvals have expired: that number is left    *)
(* out, and that there is one is already settled by the first reading.)    *)
(***************************************************************************)
Outcome(state) == CASE state = "completed" -> "success" [] state = "failed" -> "failed"
                    [] state = "executing" -> "pending" [] OTHER -> "none"

Progress(l, state, t, u) ==
  [current  |-> Active(l, t),
   required |-> Required(l),
   ready    |-> IsApproved(l, u) /\ state \notin {"completed", "failed"},
   executed |-> state \in {"completed", "failed", "executing"},
   outcome  |-> Outcome(state)]

\* t[1] is the clock of the replay, which determined state
ProgressFirst(l, state, t) ==
  [reason   |-> Blocking(l, state, t[4]),
   progress |-> Progress(l, state, t[2], t[3])]

LifecycleOf(l, state, t) ==
  [reason   |-> Blocking(l, state, t[2]),
   progress |-> Progress(l, state, t[3], t[4])]

LifecycleTimeline(l) ==
  LET full == Timeline(l)
  IN  [shown |-> Truncated(full, TimelineLimit), total |-> Len(full),
       truncated |-> Len(full) > TimelineLimit]

-----------------------------------------------------------------------------
(***************************************************************************)
(* Decision.to_dict, and with it status, the summary list_requests gives   *)
(* of each decision, and the audit record.                                 *)
(***************************************************************************)
ExecRecord(l, r) ==
  [requested |-> r,
   mode      |-> l[r].mode,
   started   |-> Starts(l, r) # {},
   completed |-> Outcomes(l, r) # {},
   run       |-> IF HasRun(l, r) THEN {RunOf(l, r)} ELSE {}]

\* the approvals dict: an actor's last grant, and whether it was revoked since
LastGrant(l, a) == Last({g \in Rows(l, {"APPROVAL_GRANTED"}) : l[g].actor = a})

\* mutant: once revoked, revoked for good
RevokedForGood(l, a) ==
  [actor   |-> a,
   expires |-> l[LastGrant(l, a)].expires,
   revoked |-> \E r \in DOMAIN l : l[r] = Revoked(a)]

ApprovalRecord(l, a) ==
  [actor   |-> a,
   expires |-> l[LastGrant(l, a)].expires,
   revoked |-> \E r \in DOMAIN l : r > LastGrant(l, a) /\ l[r] = Revoked(a)]

ApprovalRecords(l) ==
  {ApprovalRecord(l, a) : a \in {l[g].actor : g \in Rows(l, {"APPROVAL_GRANTED"})}}

ToDict(l, t) ==
  [state      |-> StateOf(l, t[1]),
   active     |-> Active(l, t[2]),
   total      |-> Cardinality(ApprovalRecords(l)),
   approved   |-> IsApproved(l, t[3]),
   executions |-> {ExecRecord(l, r) : r \in Requests(l)},
   count      |-> Cardinality(DOMAIN l)]

Summary(l, t) == [state |-> StateOf(l, t[1]), approved |-> IsApproved(l, t[2])]

\* A page of decisions; a single one that does not load fails the whole call.
ListRequests(page, t) ==
  IF \A d \in page : Loadable(log[d]) THEN {[d \in page |-> Summary(log[d], t)]} ELSE {}

AuditRecord(l, t) ==
  [decision |-> ToDict(l, t), events |-> l, approvals |-> ApprovalRecords(l)]

-----------------------------------------------------------------------------
(***************************************************************************)
(* inspect: status, verdict, sections and the rendered page, in the order  *)
(* in which they read the clock.                                           *)
(***************************************************************************)
InspectStatus ==
  [draft |-> "DRAFT", pending_approval |-> "PENDING_APPROVAL", approved |-> "APPROVED",
   executing |-> "EXECUTING", completed |-> "EXECUTED", failed |-> "FAILED"]

\* whether the verdict is good, and how many approvals it says are missing
Verdict(l, status, t) ==
  [ok      |-> status \in {"APPROVED", "EXECUTING", "EXECUTED"},
   missing |-> IF status = "PENDING_APPROVAL" /\ HasPolicy(l) THEN PolicyOf(l).min - Active(l, t) ELSE 0]

\* approved_count is read before is_approved
ApprovalSection(l, t, u) ==
  [min       |-> Required(l),
   count     |-> Active(l, t),
   approvers |-> Granting(l),
   missing   |-> Above(0, Required(l) - Active(l, t)),
   approved  |-> IsApproved(l, u)]

PolicySection(l) ==
  IF HasPolicy(l) THEN {[modes |-> PolicyOf(l).modes, caps |-> PolicyOf(l).caps]} ELSE {}

ExecutionOutcome(state) == CASE state = "completed" -> "ok" [] state = "failed" -> "failed"
                             [] state = "executing" -> "in_progress" [] OTHER -> "none"

ExecutionSection(l, state) ==
  IF Requests(l) = {} THEN [requested |-> FALSE, run |-> {}, outcome |-> "none"]
  ELSE [requested |-> TRUE, run |-> ExecRecord(l, LatestExec(l)).run,
        outcome |-> ExecutionOutcome(state)]

\* the mode compiled is the one asked for at creation, not that of an execution
CompiledRequest(l) ==
  IF HasPolicy(l) /\ Rows(l, {"DECISION_CREATED"}) # {}
  THEN {[mode |-> l[Last(Rows(l, {"DECISION_CREATED"}))].mode, caps |-> PolicyOf(l).caps,
         allow_apply |-> "apply" \in PolicyOf(l).modes]}
  ELSE {}

\* the Approval section of the page counts again, and once more for the note after the
\* count; the linked router needs a run id
Rendered(l, lifecycle, verdict, t, u) ==
  [symbol  |-> verdict.ok,
   ready   |-> lifecycle.progress.ready,
   blocked |-> lifecycle.reason # "NONE",
   count   |-> Active(l, t),
   note    |-> IF ~HasPolicy(l) THEN "no policy"
               ELSE IF IsApproved(l, u) THEN "met"
               ELSE IF Active(l, t) < Required(l) THEN "missing" ELSE "",
   linked  |-> Requests(l) # {} /\ ExecRecord(l, LatestExec(l)).run # {}]

\* what in the answer depends on when the clock was read
Counted(l, t) ==
  LET state     == StateOf(l, t[1])
      status    == InspectStatus[state]
      lifecycle == LifecycleOf(l, state, t)
      verdict   == Verdict(l, status, t[5])
  IN  [status    |-> status,
       lifecycle |-> lifecycle,
       verdict   |-> verdict,
       approval  |-> ApprovalSection(l, t[6], t[7]),
       rendered  |-> Rendered(l, lifecycle, verdict, t[8], t[9])]

Inspection(l, t) ==
  [counted   |-> Counted(l, t),
   timeline  |-> LifecycleTimeline(l),
   policy    |-> PolicySection(l),
   execution |-> ExecutionSection(l, StateOf(l, t[1])),
   compiled  |-> CompiledRequest(l)]

-----------------------------------------------------------------------------
\* The readings of the clock one call makes: time does not go back.
Clocks == {t \in [1 .. 9 -> 0 .. MaxTime] : \A i \in 1 .. 8 : t[i] <= t[i + 1]}

(***************************************************************************)
(* An answer whose parts were counted at different times does not          *)
(* contradict itself: a decision that is ready has no reason that blocks   *)
(* it; one that is pending is told how many approvals it misses, at least  *)
(* one, and is nowhere in the same answer approved, ready or "threshold    *)
(* met"; what is ready, approved or "threshold met" has a count beside it  *)
(* that reaches the threshold.  It holds only because approvals can but    *)
(* lapse between two readings, and because of the order of the readings    *)
(* (lifecycle.py compute_lifecycle, tool.py inspect and list_requests).    *)
(***************************************************************************)
InspectCoherent ==
  \A d \in decisions : Loadable(log[d]) =>
    \A t \in Clocks :
      LET answer == Counted(log[d], t)
      IN  /\ answer.lifecycle.progress.ready =>
               /\ answer.lifecycle.reason = "NONE"
               /\ answer.lifecycle.progress.current >= answer.lifecycle.progress.required
          /\ answer.status = "PENDING_APPROVAL" =>
               /\ answer.verdict.missing >= 1
               /\ answer.lifecycle.reason \in {"MISSING_APPROVALS", "APPROVAL_EXPIRED"}
               /\ ~ answer.lifecycle.progress.ready
               /\ ~ answer.approval.approved
               /\ answer.rendered.note = "missing"
          /\ answer.approval.missing > 0 => ~ answer.approval.approved
          /\ answer.rendered.note = "met" => answer.rendered.count >= answer.approval.min
          /\ \A page \in ListRequests({d}, t) :
               ~ (page[d].state = "pending_approval" /\ page[d].approved)

\* One client at a time, this reader included: nobody is in the middle of a call.
Alone == \A c \in Clients : stage[c] = "idle"

(***************************************************************************)
(* The timeline tells the truth, as long as one client at a time uses the  *)
(* store: its last row is always among the entries shown, and "threshold   *)
(* met" stands after a grant at which that many different actors had       *)
(* approved without revoking, the first such grant (lifecycle.py,          *)
(* compute_timeline, which does not look at who approved).                 *)
(***************************************************************************)
Enough(l, s) == Cardinality(Granting(Below(l, s + 1))) >= PolicyOf(l).min

TimelineTruthful ==
  \A d \in decisions : Alone /\ Loadable(log[d]) /\ log[d] # EmptyLog =>
    LET l     == log[d]
        shown == Inspection(l, [i \in 1 .. 9 |-> now]).timeline.shown
        last  == Last(DOMAIN l)
    IN  /\ \E i \in DOMAIN shown : shown[i] = Entry(last, l[last].type)
        /\ MetAt(l) = {s \in Rows(l, {"APPROVAL_GRANTED"}) :
                         /\ HasPolicy(l)
                         /\ Enough(l, s)
                         /\ \A r \in DOMAIN l : r < s => ~ Enough(l, r)}
        /\ \A i \in DOMAIN shown : shown[i].kind = "THRESHOLD_MET" /\ i > 1 =>
             shown[i - 1] = Entry(shown[i].seq, "APPROVAL_GRANTED")

(***************************************************************************)
(* The audit record can be checked against itself: counting its approvals  *)
(* anew gives the number of active ones the decision in it reports, and a  *)
(* decision it reports as completed has a record with a run, unless a new  *)
(* execution was requested since (tool.py, export_audit_record).           *)
(***************************************************************************)
AuditRecordAgrees ==
  \A d \in decisions : Alone /\ Loadable(log[d]) =>
    LET record == AuditRecord(log[d], <<now, now, now>>)
    IN  /\ Cardinality({a \in record.approvals : ~ a.revoked /\ Live(a.expires, now)})
             = record.decision.active
        /\ record.decision.state = "completed" =>
             \E e \in record.decision.executions :
               /\ e.run # {}
               /\ \A other \in record.decision.executions :
                    other.requested > e.requested => ~ other.started
=============================================================================
