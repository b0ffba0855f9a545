------------------------- MODULE DecisionInspect_proofs -------------------------
(***************************************************************************)
(* What modules DecisionInspect and AuditPackage tell of a decision, for   *)
(* any clients, policies and clocks: answers made of several counts agree  *)
(* with each other, and exports with the log.                              *)
(***************************************************************************)
EXTENDS AuditPackage, DecisionTools_proofs

-----------------------------------------------------------------------------
(***************************************************************************)
(* Approvals can but lapse as time goes by.                                *)
(***************************************************************************)
LEMMA GrantingFinite ==
  ASSUME NEW n \in Nat, NEW l, DOMAIN l = 0 .. (n - 1)
  PROVE  IsFiniteSet(Granting(l))
<1> DEFINE f == [g \in DOMAIN l |-> l[g].actor]
           T == {f[g] : g \in DOMAIN l}
<1>1. IsFiniteSet(DOMAIN l)
  BY FS_Interval
<1>2. f \in Surjection(DOMAIN l, T)
  BY DEF Surjection
<1>3. IsFiniteSet(T)
  BY <1>1, <1>2, FS_Surjection
<1>4. Granting(l) \in SUBSET T
  BY DEF Granting, Stands
<1>. QED
  BY <1>3, <1>4, FS_Subset

LEMMA ActiveLapses ==
  ASSUME NEW n \in Nat, NEW l, DOMAIN l = 0 .. (n - 1), \A s \in DOMAIN l : l[s] \in Event,
         NEW t \in Int, NEW u \in Int, t <= u
  PROVE  /\ Active(l, t) \in Nat /\ Active(l, u) \in Nat
         /\ Active(l, u) <= Active(l, t)
<1>1. ActiveApprovers(l, t) \in SUBSET Granting(l)
  BY DEF ActiveApprovers, Granting
<1>2. ActiveApprovers(l, u) \in SUBSET ActiveApprovers(l, t)
  <2>1. ASSUME NEW g \in DOMAIN l, l[g].type = "APPROVAL_GRANTED", Live(l[g].expires, u)
        PROVE  Live(l[g].expires, t)
    <3>1. l[g].expires \in Int
      BY <2>1 DEF Event, Failed
    <3>. QED
      BY <2>1, <3>1 DEF Live
  <2>. QED
    BY <2>1 DEF ActiveApprovers, Stands
<1>3. IsFiniteSet(ActiveApprovers(l, t))
  BY <1>1, GrantingFinite, FS_Subset
<1>4. IsFiniteSet(ActiveApprovers(l, u)) /\ Cardinality(ActiveApprovers(l, u)) <= Cardinality(ActiveApprovers(l, t))
  BY <1>2, <1>3, FS_Subset
<1>. QED
  BY <1>3, <1>4, FS_CardinalityType DEF Active

\* The policy of a log that has one.
LEMMA PolicyTyped ==
  ASSUME NEW n \in Nat, NEW l, DOMAIN l = 0 .. (n - 1), \A s \in DOMAIN l : l[s] \in Event, HasPolicy(l)
  PROVE  /\ PolicyOf(l) \in Policies
         /\ PolicyOf(l).min \in Int
         /\ Loadable(l) => PolicyOf(l).min >= 1
<1> DEFINE P == {"POLICY_ATTACHED"}
           s == Last(Rows(l, P))
<1>1. s \in Rows(l, P)
  BY ExtendedKeeps DEF HasPolicy
<1>2. l[s] \in Event /\ l[s].type = "POLICY_ATTACHED"
  BY <1>1 DEF Rows
<1>3. l[s].policy \in Policies
  BY <1>2 DEF Event, Failed
<1>. QED
  BY <1>1, <1>3 DEF PolicyOf, Loadable, ValidPolicy, Policies

LEMMA ApprovalLapses ==
  ASSUME NEW n \in Nat, NEW l, DOMAIN l = 0 .. (n - 1), \A s \in DOMAIN l : l[s] \in Event,
         NEW t \in Int, NEW u \in Int, t <= u, IsApproved(l, u)
  PROVE  IsApproved(l, t)
BY ActiveLapses, PolicyTyped DEF IsApproved, Active

(***************************************************************************)
(* A decision that a replay calls pending was not approved then, although  *)
(* the replay only counts after a grant or a revocation: the policy comes  *)
(* before every approval, and asks for one at least.                       *)
(***************************************************************************)
LEMMA PendingNotApproved ==
  ASSUME LogInv, PipelineOrder, NEW d \in Decisions, Loadable(log[d]), NEW t \in Int,
         StateOf(log[d], t) = "pending_approval"
  PROVE  HasPolicy(log[d]) /\ ~ IsApproved(log[d], t)
<1> DEFINE l    == log[d]
           set  == Rows(l, SettingTypes)
<1>1. PICK n \in Nat : DOMAIN l = 0 .. (n - 1)
  BY ToolsAssumption DEF LogInv, SeqContiguous
<1>2. \A s \in DOMAIN l : l[s] \in Event
  BY DEF LogInv, TypeOK
<1>3. \A s \in DOMAIN l : /\ l[s].type = "DECISION_CREATED" <=> s = 0
                          /\ l[s].type = "POLICY_ATTACHED" <=> s = 1
  BY DEF PipelineOrder
<1> HIDE DEF l
<1>4. HasPolicy(l) /\ set # {} /\ l[Last(set)].type = "POLICY_ATTACHED"
  BY <1>1, StateNeedsPolicy DEF l
<1>5. Last(set) = 1
  <2>1. Last(set) \in DOMAIN l
    BY <1>1, <1>4, ExtendedKeeps DEF Rows
  <2>. QED
    BY <1>3, <1>4, <2>1
<1>6. CASE \E r \in Rows(l, ApprovalTypes) : r > 1
  BY <1>4, <1>5, <1>6 DEF StateOf, SettingTypes, l
<1>7. CASE ~ \E r \in Rows(l, ApprovalTypes) : r > 1
  <2>1. ActiveApprovers(l, t) = {}
    <3>1. \A g \in DOMAIN l : l[g].type # "APPROVAL_GRANTED"
      BY <1>1, <1>3, <1>7 DEF Rows, ApprovalTypes
    <3>. QED
      BY <3>1 DEF ActiveApprovers, Stands
  <2>2. PolicyOf(l).min \in Int /\ PolicyOf(l).min >= 1
    BY <1>1, <1>2, <1>4, PolicyTyped DEF l
  <2>. QED
    BY <1>4, <2>1, <2>2, FS_EmptySet DEF IsApproved, l
<1>. QED
  BY <1>6, <1>7

-----------------------------------------------------------------------------
(***************************************************************************)
(* inspect.                                                                *)
(***************************************************************************)
LEMMA ClocksForward ==
  ASSUME NEW t \in Clocks
  PROVE  \A i, j \in 1 .. 9 : t[i] \in Nat /\ (i <= j => t[i] <= t[j])
<1>1. \A i \in 1 .. 9 : t[i] \in Nat
  BY ToolsAssumption DEF Clocks
<1>2. \A i \in 1 .. 8 : t[i] <= t[i + 1]
  BY DEF Clocks
<1>3. /\ t[1] <= t[2] /\ t[2] <= t[3] /\ t[3] <= t[4] /\ t[4] <= t[5] /\ t[5] <= t[6] /\ t[6] <= t[7]
      /\ t[7] <= t[8] /\ t[8] <= t[9]
  <2>1. 1 + 1 = 2 /\ 2 + 1 = 3 /\ 3 + 1 = 4 /\ 4 + 1 = 5 /\ 5 + 1 = 6 /\ 6 + 1 = 7 /\ 7 + 1 = 8 /\ 8 + 1 = 9
    OBVIOUS
  <2>. QED
    BY <1>2, <2>1
<1>. QED
  BY <1>1, <1>3

\* Blocking, case by case.
LEMMA BlockingIs ==
  ASSUME NEW l, NEW state, NEW t, HasPolicy(l), state \notin {"completed", "failed"}
  PROVE  /\ IsApproved(l, t) => Blocking(l, state, t) = "NONE"
         /\ ~ IsApproved(l, t) => Blocking(l, state, t) \in {"APPROVAL_EXPIRED", "MISSING_APPROVALS"}
BY DEF Blocking

\* Whoever is approved when looked at later had the count when counted earlier.
LEMMA ApprovedReaches ==
  ASSUME NEW n \in Nat, NEW l, DOMAIN l = 0 .. (n - 1), \A s \in DOMAIN l : l[s] \in Event,
         NEW t \in Int, NEW u \in Int, t <= u, IsApproved(l, u)
  PROVE  HasPolicy(l) /\ Active(l, t) \in Int /\ Required(l) \in Int /\ Active(l, t) >= Required(l)
<1>1. IsApproved(l, t) /\ HasPolicy(l)
  BY ApprovalLapses DEF IsApproved
<1>2. Active(l, t) \in Nat /\ PolicyOf(l).min \in Int
  BY <1>1, ActiveLapses, PolicyTyped
<1>. QED
  BY <1>1, <1>2 DEF IsApproved, Active, Required

LEMMA ReadyNotBlocked ==
  ASSUME NEW n \in Nat, NEW l, DOMAIN l = 0 .. (n - 1), \A s \in DOMAIN l : l[s] \in Event,
         NEW t \in Clocks, Counted(l, t).lifecycle.progress.ready
  PROVE  LET lifecycle == Counted(l, t).lifecycle
         IN  lifecycle.reason = "NONE" /\ lifecycle.progress.current >= lifecycle.progress.required
<1> DEFINE state == StateOf(l, t[1])
<1>1. IsApproved(l, t[4]) /\ state \notin {"completed", "failed"}
  BY DEF Counted, LifecycleOf, Progress
<1>2. t[2] \in Int /\ t[3] \in Int /\ t[4] \in Int /\ t[2] <= t[4] /\ t[3] <= t[4]
  BY ClocksForward
<1>3. IsApproved(l, t[2]) /\ HasPolicy(l)
  BY <1>1, <1>2, ApprovalLapses DEF IsApproved
<1>4. Blocking(l, state, t[2]) = "NONE"
  BY <1>1, <1>3, BlockingIs
<1>5. Active(l, t[3]) >= Required(l)
  BY <1>1, <1>2, ApprovedReaches
<1> HIDE DEF state
<1>6. Progress(l, state, t[3], t[4]).current >= Progress(l, state, t[3], t[4]).required
  BY <1>5 DEF Progress
<1>. QED
  BY <1>4, <1>6 DEF Counted, LifecycleOf, state

LEMMA PendingEverywhere ==
  ASSUME LogInv, PipelineOrder, NEW d \in Decisions, Loadable(log[d]), NEW t \in Clocks,
         StateOf(log[d], t[1]) = "pending_approval"
  PROVE  /\ HasPolicy(log[d])
         /\ \A i \in 1 .. 9 : ~ IsApproved(log[d], t[i]) /\ Active(log[d], t[i]) < PolicyOf(log[d]).min
<1> DEFINE l == log[d]
<1>1. PICK n \in Nat : DOMAIN l = 0 .. (n - 1)
  BY ToolsAssumption DEF LogInv, SeqContiguous
<1>2. \A s \in DOMAIN l : l[s] \in Event
  BY DEF LogInv, TypeOK
<1>3. \A i \in 1 .. 9 : t[i] \in Int /\ t[1] \in Int /\ t[1] <= t[i]
  BY ClocksForward
<1>4. HasPolicy(l) /\ ~ IsApproved(l, t[1])
  BY <1>3, PendingNotApproved
<1> HIDE DEF l
<1>5. ASSUME NEW i \in 1 .. 9
      PROVE  ~ IsApproved(l, t[i]) /\ Active(l, t[i]) < PolicyOf(l).min
  <2>1. ~ IsApproved(l, t[i])
    BY <1>1, <1>2, <1>3, <1>4, ApprovalLapses
  <2>2. Active(l, t[i]) \in Nat /\ PolicyOf(l).min \in Int
    BY <1>1, <1>2, <1>3, <1>4, ActiveLapses, PolicyTyped
  <2>. QED
    BY <1>4, <2>1, <2>2 DEF IsApproved, Active
<1>. QED
  BY <1>4, <1>5 DEF l

LEMMA PendingIsTold ==
  ASSUME LogInv, PipelineOrder, NEW d \in Decisions, Loadable(log[d]), NEW t \in Clocks,
         Counted(log[d], t).status = "PENDING_APPROVAL"
  PROVE  LET answer == Counted(log[d], t)
         IN  /\ answer.verdict.missing >= 1
             /\ answer.lifecycle.reason \in {"MISSING_APPROVALS", "APPROVAL_EXPIRED"}
             /\ ~ answer.lifecycle.progress.ready
             /\ ~ answer.approval.approved
             /\ answer.rendered.note = "missing"
<1> DEFINE l == log[d]
           state == StateOf(l, t[1])
<1>1. state = "pending_approval"
  <2>1. PICK n \in Nat : DOMAIN l = 0 .. (n - 1)
    BY ToolsAssumption DEF LogInv, SeqContiguous
  <2>2. state \in DOMAIN InspectStatus
    BY <2>1, StateNamed DEF InspectStatus
  <2>3. InspectStatus[state] = "PENDING_APPROVAL"
    BY DEF Counted
  <2>. QED
    BY <2>2, <2>3 DEF InspectStatus
<1>2. /\ HasPolicy(l)
      /\ \A i \in 1 .. 9 : ~ IsApproved(l, t[i]) /\ Active(l, t[i]) < PolicyOf(l).min
  BY <1>1, PendingEverywhere
<1>3. Active(l, t[5]) \in Nat /\ PolicyOf(l).min \in Int
  <2>1. PICK n \in Nat : DOMAIN l = 0 .. (n - 1)
    BY ToolsAssumption DEF LogInv, SeqContiguous
  <2>2. \A s \in DOMAIN l : l[s] \in Event
    BY DEF LogInv, TypeOK
  <2>3. t[5] \in Int /\ t[5] <= t[5]
    BY ClocksForward
  <2>. QED
    BY <1>2, <2>1, <2>2, <2>3, ActiveLapses, PolicyTyped
<1> HIDE DEF l, state
<1>4. Blocking(l, state, t[2]) \in {"MISSING_APPROVALS", "APPROVAL_EXPIRED"}
  BY <1>1, <1>2, BlockingIs
<1>5. InspectStatus[state] = "PENDING_APPROVAL"
  BY <1>1 DEF InspectStatus
<1>6. Verdict(l, "PENDING_APPROVAL", t[5]).missing >= 1
  BY <1>2, <1>3 DEF Verdict
<1>7. ~ Progress(l, state, t[3], t[4]).ready /\ ~ ApprovalSection(l, t[6], t[7]).approved
  <2>1. 4 \in 1 .. 9 /\ 7 \in 1 .. 9
    OBVIOUS
  <2>2. ~ IsApproved(l, t[4]) /\ ~ IsApproved(l, t[7])
    BY <1>2, <2>1
  <2>3. ~ Progress(l, state, t[3], t[4]).ready
    BY <2>2 DEF Progress
  <2>4. ~ ApprovalSection(l, t[6], t[7]).approved
    BY <2>2 DEF ApprovalSection
  <2>. QED
    BY <2>3, <2>4
<1>8. \A lifecycle, verdict : Rendered(l, lifecycle, verdict, t[8], t[9]).note = "missing"
  <2>1. 8 \in 1 .. 9 /\ 9 \in 1 .. 9
    OBVIOUS
  <2>2. ~ IsApproved(l, t[9]) /\ Active(l, t[8]) < PolicyOf(l).min
    BY <1>2, <2>1
  <2>. QED
    BY <1>2, <2>2 DEF Rendered, Required
<1>. QED
  BY <1>4, <1>5, <1>6, <1>7, <1>8 DEF Counted, LifecycleOf, l, state

LEMMA MissingNotApproved ==
  ASSUME NEW n \in Nat, NEW l, DOMAIN l = 0 .. (n - 1), \A s \in DOMAIN l : l[s] \in Event,
         NEW t \in Clocks, Counted(l, t).approval.missing > 0
  PROVE  ~ Counted(l, t).approval.approved
<1>1. t[6] \in Int /\ t[7] \in Int /\ t[6] <= t[7]
  BY ClocksForward
<1>2. ASSUME IsApproved(l, t[7]) PROVE FALSE
  <2>1. Active(l, t[6]) \in Int /\ Required(l) \in Int /\ Active(l, t[6]) >= Required(l)
    BY <1>1, <1>2, ApprovedReaches
  <2>2. Above(0, Required(l) - Active(l, t[6])) = 0
    BY <2>1 DEF Above
  <2>3. ApprovalSection(l, t[6], t[7]).missing > 0
    BY DEF Counted
  <2>. QED
    BY <2>2, <2>3 DEF ApprovalSection
<1>. QED
  BY <1>2 DEF Counted, ApprovalSection

LEMMA MetIsCounted ==
  ASSUME NEW n \in Nat, NEW l, DOMAIN l = 0 .. (n - 1), \A s \in DOMAIN l : l[s] \in Event,
         NEW t \in Clocks, Counted(l, t).rendered.note = "met"
  PROVE  Counted(l, t).rendered.count >= Counted(l, t).approval.min
<1>1. t[8] \in Int /\ t[9] \in Int /\ t[8] <= t[9]
  BY ClocksForward
<1>2. \A lifecycle, verdict : Rendered(l, lifecycle, verdict, t[8], t[9]).note = "met" => IsApproved(l, t[9])
  BY DEF Rendered
<1>3. IsApproved(l, t[9])
  BY <1>2 DEF Counted
<1>4. Active(l, t[8]) >= Required(l)
  BY <1>1, <1>3, ApprovedReaches
<1>5. \A lifecycle, verdict : Rendered(l, lifecycle, verdict, t[8], t[9]).count = Active(l, t[8])
  BY DEF Rendered
<1>6. ApprovalSection(l, t[6], t[7]).min = Required(l)
  BY DEF ApprovalSection
<1>. QED
  BY <1>4, <1>5, <1>6 DEF Counted

\* One decision, one answer.
Coherent(d, t) ==
  LET answer == Counted(log[d], t)
  IN  /\ answer.lifecycle.progress.ready =>
           /\ answer.lifecycle.reason = "NONE"
           /\ answer.lifecycle.progress.current >= answer.lifecycle.progress.required
      /\ answer.status = "PENDING_APPROVAL" =>
           /\ answer.verdict.missing >= 1
           /\ answer.lifecycle.reason \in {"MISSING_APPROVALS", "APPROVAL_EXPIRED"}
           /\ ~ answer.lifecycle.progress.ready
           /\ ~ answer.approval.approved
           /\ answer.rendered.note = "missing"
      /\ answer.approval.missing > 0 => ~ answer.approval.approved
      /\ answer.rendered.note = "met" => answer.rendered.count >= answer.approval.min
      /\ \A page \in ListRequests({d}, t) :
           ~ (page[d].state = "pending_approval" /\ page[d].approved)

LEMMA AnswersCohere ==
  ASSUME LogInv, PipelineOrder, NEW d \in Decisions, Loadable(log[d]), NEW t \in Clocks
  PROVE  Coherent(d, t)
<1>1. PICK n \in Nat : DOMAIN log[d] = 0 .. (n - 1)
  BY ToolsAssumption DEF LogInv, SeqContiguous
<1>2. \A s \in DOMAIN log[d] : log[d][s] \in Event
  BY DEF LogInv, TypeOK
<1>3. Counted(log[d], t).lifecycle.progress.ready =>
        LET lifecycle == Counted(log[d], t).lifecycle
        IN  lifecycle.reason = "NONE" /\ lifecycle.progress.current >= lifecycle.progress.required
  BY <1>1, <1>2, ReadyNotBlocked
<1>4. Counted(log[d], t).approval.missing > 0 => ~ Counted(log[d], t).approval.approved
  BY <1>1, <1>2, MissingNotApproved
<1>5. ASSUME NEW page \in ListRequests({d}, t), page[d].state = "pending_approval", page[d].approved
      PROVE  FALSE
  <2>1. page = [e \in {d} |-> Summary(log[e], t)]
    BY DEF ListRequests
  <2>2. StateOf(log[d], t[1]) = "pending_approval" /\ IsApproved(log[d], t[2])
    BY <1>5, <2>1 DEF Summary
  <2>3. 2 \in 1 .. 9
    OBVIOUS
  <2>. QED
    BY <2>2, <2>3, PendingEverywhere
<1>6. Counted(log[d], t).rendered.note = "met" =>
        Counted(log[d], t).rendered.count >= Counted(log[d], t).approval.min
  BY <1>1, <1>2, MetIsCounted
<1>. QED
  BY <1>3, <1>4, <1>5, <1>6, PendingIsTold DEF Coherent

(***************************************************************************)
(* An answer whose parts were counted at different times does not          *)
(* contradict itself, for any policies and any readings of the clock that  *)
(* do not go back (lifecycle.py compute_lifecycle, tool.py inspect and     *)
(* list_requests).                                                         *)
(***************************************************************************)
THEOREM InspectTheorem == Spec => []InspectCoherent
<1>1. LogInv /\ PipelineOrder => InspectCoherent
  <2> SUFFICES ASSUME LogInv, PipelineOrder, NEW d \in decisions, Loadable(log[d]), NEW t \in Clocks
               PROVE  Coherent(d, t)
    BY DEF InspectCoherent, Coherent
  <2>1. d \in Decisions
    BY DEF LogInv, TypeOK
  <2>. QED
    BY <2>1, AnswersCohere
<1>. QED
  BY <1>1, LogInvariant, PipelineTheorem, PTL

-----------------------------------------------------------------------------
(***************************************************************************)
(* Exports.                                                                *)
(***************************************************************************)
\* Once an execution has started, no policy row is the last to set a state.
LEMMA StartedForGood ==
  ASSUME LogInv, PipelineOrder, NEW d \in Decisions, Rows(log[d], {"EXECUTION_STARTED"}) # {},
         NEW t, NEW u
  PROVE  StateOf(log[d], t) = StateOf(log[d], u)
<1> DEFINE l   == log[d]
           set == Rows(l, SettingTypes)
<1>1. PICK n \in Nat : DOMAIN l = 0 .. (n - 1)
  BY ToolsAssumption DEF LogInv, SeqContiguous
<1>2. PICK s \in DOMAIN l : l[s].type = "EXECUTION_STARTED"
  BY DEF Rows
<1>3. s # 0 /\ s # 1 /\ \A r \in DOMAIN l : l[r].type = "POLICY_ATTACHED" => r = 1
  BY <1>2 DEF PipelineOrder
<1> HIDE DEF l
<1>4. s \in set
  BY <1>2, SettingTypesAre DEF Rows
<1>5. Last(set) \in DOMAIN l /\ s <= Last(set)
  BY <1>1, <1>4, ExtendedKeeps DEF Rows
<1>6. Last(set) # 1
  BY <1>1, <1>2, <1>3, <1>5
<1>7. l[Last(set)].type # "POLICY_ATTACHED"
  BY <1>3, <1>5, <1>6
<1>. QED
  BY <1>4, <1>7 DEF StateOf, SettingTypes, l

(***************************************************************************)
(* "The same decision always produces the same bundle with the same        *)
(* digest", once an execution of it has started, whatever the clock says   *)
(* (export.py, _build_bundle_decision).                                    *)
(***************************************************************************)
THEOREM ExportTheorem == Spec => []ExecutedExportStable
<1>1. LogInv /\ PipelineOrder => ExecutedExportStable
  <2> SUFFICES ASSUME LogInv, PipelineOrder, NEW d \in decisions, Rows(log[d], {"EXECUTION_STARTED"}) # {},
                      NEW t \in 0 .. MaxTime, NEW u \in 0 .. MaxTime
               PROVE  Export(d, log[d], t).digest = Export(d, log[d], u).digest
    BY DEF ExecutedExportStable
  <2>1. d \in Decisions
    BY DEF LogInv, TypeOK
  <2>2. StateOf(log[d], t) = StateOf(log[d], u)
    BY <2>1, StartedForGood
  <2>. QED
    BY <2>2 DEF Export, BundleDecision
<1>. QED
  BY <1>1, LogInvariant, PipelineTheorem, PTL

-----------------------------------------------------------------------------
(***************************************************************************)
(* The audit record.                                                       *)
(***************************************************************************)
Grantors(l) == {l[g].actor : g \in Rows(l, {"APPROVAL_GRANTED"})}

\* The approvals an auditor counts.
Counting(l, t) == {x \in ApprovalRecords(l) : ~ x.revoked /\ Live(x.expires, t)}

\* An actor's last grant counts exactly when it stands.
LEMMA RecordOfActive ==
  ASSUME NEW n \in Nat, NEW l, DOMAIN l = 0 .. (n - 1), \A s \in DOMAIN l : l[s] \in Event,
         NEW a \in Grantors(l), NEW t
  PROVE  a \in ActiveApprovers(l, t)
           <=> ~ ApprovalRecord(l, a).revoked /\ Live(ApprovalRecord(l, a).expires, t)
<1> DEFINE G    == {g \in Rows(l, {"APPROVAL_GRANTED"}) : l[g].actor = a}
           last == LastGrant(l, a)
<1>1. last \in G /\ \A g \in G : g <= last
  <2>1. G # {} /\ G \subseteq 0 .. (n - 1)
    BY DEF Grantors, Rows
  <2>. QED
    BY <2>1, LastIsLast DEF LastGrant
<1>2. /\ last \in 0 .. (n - 1)
      /\ l[last].type = "APPROVAL_GRANTED" /\ l[last].actor = a /\ a \in Actors
  <2>1. last \in DOMAIN l /\ l[last].type = "APPROVAL_GRANTED" /\ l[last].actor = a
    BY <1>1 DEF Rows
  <2>. QED
    BY <2>1 DEF Event, Failed
<1>3. /\ ApprovalRecord(l, a).expires = l[last].expires
      /\ ApprovalRecord(l, a).revoked <=> \E r \in DOMAIN l : r > last /\ l[r] = Revoked(a)
  BY DEF ApprovalRecord
<1> HIDE DEF last
<1>4. ASSUME a \in ActiveApprovers(l, t)
      PROVE  Live(l[last].expires, t) /\ ~ \E r \in DOMAIN l : r > last /\ l[r] = Revoked(a)
  <2>1. PICK g \in DOMAIN l : Stands(l, g, a) /\ Live(l[g].expires, t)
    BY <1>4 DEF ActiveApprovers
  <2>2. g \in G /\ last \in Rows(l, ApprovalTypes)
    BY <1>1, <2>1 DEF Stands, Rows, ApprovalTypes
  <2>3. g = last
    BY <1>1, <1>2, <2>1, <2>2 DEF Stands
  <2>4. ASSUME NEW r \in DOMAIN l, r > last, l[r] = Revoked(a)
        PROVE  FALSE
    <3>1. r \in Rows(l, ApprovalTypes) /\ l[r].actor = a
      BY <2>4 DEF Revoked, Rows, ApprovalTypes
    <3>. QED
      BY <2>1, <2>3, <2>4, <3>1 DEF Stands
  <2>. QED
    BY <2>1, <2>3, <2>4
<1>5. ASSUME Live(l[last].expires, t), ~ \E r \in DOMAIN l : r > last /\ l[r] = Revoked(a)
      PROVE  a \in ActiveApprovers(l, t)
  <2>1. ASSUME NEW s \in Rows(l, ApprovalTypes), s > last, l[s].actor = a
        PROVE  FALSE
    <3>1. s \in DOMAIN l /\ l[s] \in Event /\ l[s].type \in ApprovalTypes
      BY <2>1 DEF Rows
    <3>2. CASE l[s].type = "APPROVAL_GRANTED"
      BY <1>1, <1>2, <2>1, <3>1, <3>2 DEF Rows
    <3>3. CASE l[s].type = "APPROVAL_REVOKED"
      <4>1. l[s] \in [type : {"APPROVAL_REVOKED"}, actor : Actors]
        BY <3>1, <3>3 DEF Event, Failed
      <4>2. l[s] = Revoked(a)
        BY <2>1, <4>1 DEF Revoked
      <4>. QED
        BY <1>5, <2>1, <3>1, <4>2
    <3>. QED
      BY <3>1, <3>2, <3>3 DEF ApprovalTypes
  <2>. QED
    BY <1>2, <1>5, <2>1 DEF ActiveApprovers, Stands
<1>. QED
  BY <1>3, <1>4, <1>5

LEMMA CountAgrees ==
  ASSUME NEW n \in Nat, NEW l, DOMAIN l = 0 .. (n - 1), \A s \in DOMAIN l : l[s] \in Event, NEW t
  PROVE  Cardinality(Counting(l, t)) = Active(l, t)
<1> DEFINE A == ActiveApprovers(l, t)
           f == [a \in A |-> ApprovalRecord(l, a)]
<1>1. A \subseteq Grantors(l)
  BY DEF ActiveApprovers, Stands, Grantors, Rows
<1>2. IsFiniteSet(A)
  <2>1. A \in SUBSET Granting(l)
    BY DEF ActiveApprovers, Granting
  <2>. QED
    BY <2>1, GrantingFinite, FS_Subset
<1>3. \A a \in A : f[a] \in Counting(l, t)
  BY <1>1, RecordOfActive DEF Counting, ApprovalRecords, Grantors
<1>4. ASSUME NEW x \in Counting(l, t)
      PROVE  \E a \in A : f[a] = x
  <2>1. PICK a \in Grantors(l) : x = ApprovalRecord(l, a)
    BY DEF Counting, ApprovalRecords, Grantors
  <2>. QED
    BY <2>1, RecordOfActive DEF Counting
<1>5. \A a, b \in A : f[a] = f[b] => a = b
  <2>1. \A a : ApprovalRecord(l, a).actor = a
    BY DEF ApprovalRecord
  <2>. QED
    BY <2>1
<1>6. f \in Bijection(A, Counting(l, t))
  <2> HIDE DEF A
  <2>1. f \in [A -> Counting(l, t)]
    BY <1>3
  <2> HIDE DEF f
  <2>. QED
    BY <1>4, <1>5, <2>1 DEF Bijection, Injection, Surjection, IsInjective
<1>7. ExistsBijection(A, Counting(l, t))
  BY <1>6 DEF ExistsBijection
<1>. QED
  BY <1>2, <1>7, FS_Bijection DEF Active

\* A completed decision has a record with a run, and nothing was started after that record.
LEMMA CompletedHasRun ==
  ASSUME LogInv, CompletionsReal, RequestedFirst, NEW d \in Decisions, NEW t,
         StateOf(log[d], t) = "completed"
  PROVE  \E r \in Requests(log[d]) :
           /\ HasRun(log[d], r)
           /\ \A q \in Requests(log[d]) : q > r => Starts(log[d], q) = {}
<1> DEFINE l   == log[d]
           set == Rows(l, SettingTypes)
           s   == Last(set)
           R   == {q \in Requests(l) : q < s}
           r   == Last(R)
<1>1. PICK n \in Nat : DOMAIN l = 0 .. (n - 1)
  BY ToolsAssumption DEF LogInv, SeqContiguous
<1>2. set # {} /\ StateAfter[l[s].type] = "completed"
  BY DEF StateOf, SettingTypes
<1>3. s \in set /\ \A u \in set : u <= s
  BY <1>1, <1>2, ExtendedKeeps
<1>4. s \in DOMAIN l /\ l[s].type = "EXECUTION_COMPLETED"
  BY <1>2, <1>3, SettingTypesAre DEF Rows, StateAfter, OutcomeTypes
<1>5. R # {}
  <2>1. s \in Rows(l, {"EXECUTION_COMPLETED"})
    BY <1>4 DEF Rows
  <2>2. PICK u \in Rows(l, {"EXECUTION_STARTED"}) : u < s
    BY <2>1 DEF CompletionsReal
  <2>3. PICK q \in Requests(l) : q < u
    BY <2>2 DEF RequestedFirst
  <2>4. q \in Int /\ u \in Int /\ s \in Int
    BY <1>1, <1>4, <2>2, <2>3 DEF Requests, Rows
  <2>. QED
    BY <2>2, <2>3, <2>4
<1>6. r \in R /\ \A q \in R : q <= r
  <2>1. R \subseteq 0 .. (n - 1)
    BY <1>1 DEF Requests, Rows
  <2>. QED
    BY <1>5, <2>1, LastIsLast
<1> HIDE DEF l, s, r
<1>7. \A q \in Requests(l) : q \in DOMAIN l /\ q \in Int /\ q # s
  BY <1>1, <1>4 DEF Requests, Rows
<1>8. \A q \in Requests(l) : q > r => q > s
  BY <1>1, <1>4, <1>6, <1>7
<1>9. s \in Outcomes(l, r)
  BY <1>4, <1>6, <1>8, <1>7, <1>1 DEF Outcomes, Span, OutcomeTypes
<1>10. Last(Outcomes(l, r)) = s
  <2>1. Outcomes(l, r) \subseteq set
    BY SettingTypesAre DEF Outcomes, Span, Rows
  <2>2. Outcomes(l, r) \in SUBSET Int
    BY <1>1 DEF Outcomes, Span
  <2>. QED
    BY <1>3, <1>9, <2>1, <2>2, LastIsUnique
<1>11. HasRun(l, r)
  <2>1. l[s] \in Event
    BY <1>4 DEF LogInv, TypeOK, l
  <2>2. NamesRun(l[s])
    BY <1>4, <2>1, CompletionsNameRuns
  <2>. QED
    BY <1>9, <1>10, <2>2 DEF HasRun
<1>12. ASSUME NEW q \in Requests(l), q > r
       PROVE  Starts(l, q) = {}
  <2>1. q > s /\ q \in Int
    BY <1>7, <1>8, <1>12
  <2>2. \A u \in Starts(l, q) : u \in set /\ u > q /\ u \in Int
    BY <1>1, SettingTypesAre DEF Starts, Span, Rows
  <2>. QED
    BY <1>1, <1>3, <1>4, <2>1, <2>2
<1>. QED
  BY <1>6, <1>11, <1>12 DEF l

(***************************************************************************)
(* The audit record can be checked against itself, whoever else uses the   *)
(* store, and however its clients die: counting its approvals anew gives   *)
(* the number of active ones the decision in it reports, and a decision it *)
(* reports as completed has a record with a run, unless a new execution    *)
(* was requested since (tool.py, export_audit_record).                     *)
(***************************************************************************)
THEOREM AuditTheorem == Spec => []AuditRecordAgrees
<1>1. LogInv /\ CompletionsReal /\ RequestedFirst => AuditRecordAgrees
  <2> SUFFICES ASSUME LogInv, CompletionsReal, RequestedFirst, NEW d \in decisions
               PROVE  LET record == AuditRecord(log[d], <<now, now, now>>)
                      IN  /\ Cardinality({a \in record.approvals : ~ a.revoked /\ Live(a.expires, now)})
                               = record.decision.active
                          /\ record.decision.state = "completed" =>
                               \E e \in record.decision.executions :
                                 /\ e.run # {}
                                 /\ \A other \in record.decision.executions :
                                      other.requested > e.requested => ~ other.started
    BY DEF AuditRecordAgrees
  <2> DEFINE l      == log[d]
             record == AuditRecord(l, <<now, now, now>>)
  <2>1. d \in Decisions /\ \A s \in DOMAIN l : l[s] \in Event
    BY DEF LogInv, TypeOK
  <2>2. PICK n \in Nat : DOMAIN l = 0 .. (n - 1)
    BY <2>1, ToolsAssumption DEF LogInv, SeqContiguous
  <2>3. /\ record.approvals = ApprovalRecords(l)
        /\ record.decision.active = Active(l, now)
        /\ record.decision.state = StateOf(l, now)
        /\ record.decision.executions = {ExecRecord(l, r) : r \in Requests(l)}
    BY DEF AuditRecord, ToDict
  <2>4. Cardinality(Counting(l, now)) = Active(l, now)
    BY <2>1, <2>2, CountAgrees
  <2>5. StateOf(l, now) = "completed" =>
          \E r \in Requests(l) : HasRun(l, r) /\ \A q \in Requests(l) : q > r => Starts(l, q) = {}
    BY <2>1, CompletedHasRun
  <2> HIDE DEF l, record
  <2>6. ASSUME StateOf(l, now) = "completed"
        PROVE  \E e \in record.decision.executions :
                 /\ e.run # {}
                 /\ \A other \in record.decision.executions :
                      other.requested > e.requested => ~ other.started
    <3>1. PICK r \in Requests(l) : HasRun(l, r) /\ \A q \in Requests(l) : q > r => Starts(l, q) = {}
      BY <2>5, <2>6
    <3>2. ExecRecord(l, r).run # {} /\ ExecRecord(l, r).requested = r
      BY <3>1 DEF ExecRecord
    <3>3. \A q \in Requests(l) : /\ ExecRecord(l, q).requested = q
                                 /\ ExecRecord(l, q).started <=> Starts(l, q) # {}
      BY DEF ExecRecord
    <3>. QED
      BY <2>3, <3>1, <3>2, <3>3
  <2>. QED
    BY <2>3, <2>4, <2>6 DEF Counting, l, record
<1>2. RunInv => CompletionsReal
  BY DEF RunInv
<1>3. AskInv => RequestedFirst
  BY DEF AskInv
<1>. QED
  BY <1>1, <1>2, <1>3, LogInvariant, RunInvariant, AskInvariant, PTL

-----------------------------------------------------------------------------
(***************************************************************************)
(* The link of a package.                                                  *)
(***************************************************************************)
\* the package as it is made without options
Plain(d, l, t) == ExportAuditPackage(d, l, t, FALSE, None, None, TRUE)

\* x links the run of r, with what was asked and what came of it
Links(l, r, x) ==
  /\ IsLatest(l, r) /\ HasRun(l, r)
  /\ x.run = {RunOf(l, r)}
  /\ Starts(l, r) # {} => x.request = Some([mode |-> l[Last(Starts(l, r))].mode])
  /\ x.result = Some([run |-> RunOf(l, r)])

LEMMA LinkOfLatest ==
  ASSUME NEW n \in Nat, NEW l, DOMAIN l = 0 .. (n - 1), NEW d, NEW t,
         \A s \in DOMAIN l : l[s] \in Event,
         NEW p \in Plain(d, l, t), NEW x \in p.binding.link
  PROVE  \E r : Links(l, r, x)
<1> DEFINE bundle  == Export(d, l, t)
           link    == RouterLink(d, l)
           r       == LatestExec(l)
           run     == IF HasRun(l, r) THEN Some(RunOf(l, r)) ELSE None
           request == IF Starts(l, r) = {} THEN None ELSE Some([mode |-> l[Last(Starts(l, r))].mode])
           result  == IF Responses(l, r) = {} THEN None ELSE Some([run |-> l[Last(Responses(l, r))].run])
<1>1. bundle.link = link
  BY DEF Export
<1>2. link.run # None /\ x \in link.link
  <2>1. bundle.link.run # None /\ \E s : p = Package(bundle, s)
    BY DEF Plain, ExportAuditPackage, None
  <2>2. \A s : Package(bundle, s).binding.link = bundle.link.link
    BY DEF Package
  <2>. QED
    BY <1>1, <2>1, <2>2
<1>3. Requests(l) # {}
  <2>1. Requests(l) = {} => link.run = None
    BY DEF RouterLink, EmptyLink
  <2>. QED
    BY <1>2, <2>1
<1>4. IsLatest(l, r)
  <2>1. Requests(l) \subseteq 0 .. (n - 1)
    BY DEF Requests, Rows
  <2>. QED
    BY <1>3, <2>1, LastIsLast DEF IsLatest, LatestExec
<1>5. link.run = run /\ link.link = LinkDigest(d, run, request, result)
  BY <1>3 DEF RouterLink
<1> HIDE DEF link, r, run, request, result
<1>6. x = [id |-> d, run |-> run, request |-> request, result |-> result] /\ run # None
  BY <1>2, <1>5 DEF LinkDigest, None, Some
<1>7. HasRun(l, r) /\ run = {RunOf(l, r)}
  BY <1>6 DEF run, Some
\* the last response is that of the last outcome
<1>8. result = Some([run |-> RunOf(l, r)])
  <2>1. Last(Outcomes(l, r)) \in Responses(l, r)
    <3>1. Last(Outcomes(l, r)) \in Outcomes(l, r) /\ Last(Outcomes(l, r)) \in 0 .. (n - 1)
      BY <1>7, LastOutcome
    <3>2. l[Last(Outcomes(l, r))].type = "EXECUTION_COMPLETED"
      BY <1>7, <3>1, CompletionsNameRuns DEF HasRun
    <3>. QED
      BY <3>1, <3>2 DEF Responses
  <2>2. Responses(l, r) \in SUBSET Int /\ \A s \in Responses(l, r) : s <= Last(Outcomes(l, r))
    <3>1. \A s \in Outcomes(l, r) : s <= Last(Outcomes(l, r))
      BY <1>7, LastOutcome
    <3>2. Outcomes(l, r) \in SUBSET Int
      BY DEF Outcomes, Span
    <3>. QED
      BY <3>1, <3>2 DEF Responses
  <2>3. Last(Responses(l, r)) = Last(Outcomes(l, r))
    BY <2>1, <2>2, LastIsUnique
  <2>. QED
    BY <2>1, <2>3 DEF result, RunOf
<1>9. x.run = run /\ x.request = request /\ x.result = result
  BY <1>6
<1>. QED
  BY <1>4, <1>7, <1>8, <1>9 DEF request, Links

(***************************************************************************)
(* "This decision authorized that run", as long as one client at a time    *)
(* uses the store: the run a package links to was made by the router for   *)
(* this very decision, in the mode that the linked request digest digests; *)
(* the linked result is that run's, and the router made no later run for   *)
(* the decision (bundle.py, compute_router_link_digest).                   *)
(***************************************************************************)
THEOREM LinkTheorem ==
  ASSUME OneClient
  PROVE  Spec => []LinkTrue
<1>1. LogInv /\ RecordInv => LinkTrue
  <2> SUFFICES ASSUME LogInv, RecordInv, NEW d \in decisions,
                      NEW p \in Plain(d, log[d], now),
                      NEW x \in p.binding.link, NEW run \in x.run
               PROVE  /\ run \in DOMAIN runs
                      /\ runs[run].dec = d
                      /\ x.request = Some([mode |-> runs[run].mode])
                      /\ x.result = Some([run |-> run])
                      /\ \A other \in DOMAIN runs : runs[other].dec = d => other <= run
    BY DEF LinkTrue, Plain
  <2> DEFINE l == log[d]
  <2>1. d \in Decisions
    BY DEF LogInv, TypeOK
  <2>2. PICK n \in Nat : DOMAIN l = 0 .. (n - 1)
    BY <2>1, ToolsAssumption DEF LogInv, SeqContiguous
  <2>3. PICK r : Links(l, r, x)
    <3>1. \A s \in DOMAIN l : l[s] \in Event
      BY <2>1 DEF LogInv, TypeOK
    <3>. QED
      BY <2>2, <3>1, LinkOfLatest
  <2>4. RecordTrue(d, r)
    BY <2>1, <2>3 DEF RecordInv, IsLatest, Links
  <2>5. run = RunOf(l, r)
    BY <2>3 DEF Links
  <2>6. /\ run \in DOMAIN runs
        /\ runs[run] = [dec |-> d, mode |-> l[r].mode]
        /\ \A i \in RunsOf(d) : i <= run
        /\ Starts(l, r) # {}
        /\ \A s \in Starts(l, r) : l[s].mode = l[r].mode
    BY <2>3, <2>4, <2>5 DEF RecordTrue, HasRun, Links
  <2>7. runs[run].dec = d /\ runs[run].mode = l[r].mode
    BY <2>6
  <2>8. Last(Starts(l, r)) \in Starts(l, r)
    <3>1. Starts(l, r) \subseteq 0 .. (n - 1)
      BY <2>2 DEF Starts, Span
    <3>. QED
      BY <2>6, <3>1, LastIsLast
  <2> HIDE DEF l
  <2>9. x.request = Some([mode |-> runs[run].mode])
    BY <2>3, <2>6, <2>7, <2>8 DEF Links
  <2>. QED
    BY <2>3, <2>5, <2>6, <2>7, <2>9 DEF RunsOf, Links
<1>. QED
  BY <1>1, LogInvariant, RecordInvariant, PTL
-----------------------------------------------------------------------------
(***************************************************************************)
(* Verification of a package.                                              *)
(***************************************************************************)
SixChecks(p) ==
  /\ BindingPayload(p.binding) = p.digest
  /\ CanonicalPayload(p.bundle) = p.bundle.digest
  /\ p.binding.control = p.bundle.digest
  /\ Some(p.binding.router) = SectionDigest(p.router)
  /\ p.bundle.link.link # None /\ p.binding.link = p.bundle.link.link
  /\ p.router.mode = "embedded" => p.router.bundle.digest # None

LEMMA VerifiedIs ==
  ASSUME NEW p
  PROVE  Verified(p) <=> SixChecks(p)
<1> DEFINE a == BindingPayload(p.binding) = p.digest
           b == CanonicalPayload(p.bundle) = p.bundle.digest
           c == p.binding.control = p.bundle.digest
           e == Some(p.binding.router) = SectionDigest(p.router)
           f == p.bundle.link.link # None /\ p.binding.link = p.bundle.link.link
           g == p.router.mode = "embedded" => p.router.bundle.digest # None
           checks == [binding_digest |-> a, control_bundle_digest |-> b, binding_control_match |-> c,
                      binding_router_match |-> e, binding_link_match |-> f, router_digest |-> g]
<1>1. Checks(p) = checks
  BY DEF Checks
<1> HIDE DEF a, b, c, e, f, g
<1>2. DOMAIN checks = {"binding_digest", "control_bundle_digest", "binding_control_match",
                       "binding_router_match", "binding_link_match", "router_digest"}
  OBVIOUS
<1>3. checks["binding_digest"] = a
  OBVIOUS
<1>4. checks["control_bundle_digest"] = b
  OBVIOUS
<1>5. checks["binding_control_match"] = c
  OBVIOUS
<1>6. checks["binding_router_match"] = e
  OBVIOUS
<1>7. checks["binding_link_match"] = f
  OBVIOUS
<1>8. checks["router_digest"] = g
  OBVIOUS
<1> HIDE DEF checks
<1>9. Verified(p) <=> a /\ b /\ c /\ e /\ f /\ g
  BY <1>1, <1>2, <1>3, <1>4, <1>5, <1>6, <1>7, <1>8, Zenon DEF Verified
<1>. QED
  BY <1>9 DEF SixChecks, a, b, c, e, f, g
(***************************************************************************)
(* Junk, which no code path computes: no status, row, run id or digest.    *)
(***************************************************************************)
JunkIsForeign ==
  /\ Junk \notin {"draft", "pending_approval", "approved", "executing", "completed", "failed"}
  /\ Junk \notin Event
  /\ Junk \notin Nat
  /\ \A x : Junk \notin {[mode |-> x], [run |-> x], [wraps |-> x], [binding |-> x]}
  /\ \A x, y, z : Junk # [decision |-> x, events |-> y, link |-> z]
  /\ \A x, y, z, w : Junk # [id |-> w, run |-> x, request |-> y, result |-> z]

\* a router section in which x stands for the digest of the router's bundle
EmbeddedOf(section, x)  == \E y : section = [mode |-> "embedded", bundle |-> RouterBundle(x, y)]
ReferenceTo(section, x) == \E y : section = [mode |-> "reference", run |-> y, digest |-> Some(x)]
Sectioned(section, x)   == EmbeddedOf(section, x) \/ ReferenceTo(section, x)

LEMMA SectionIs ==
  ASSUME NEW section, NEW x, Sectioned(section, x)
  PROVE  /\ SectionDigest(section) = Some(x)
         /\ section.mode = "embedded" => section.bundle.digest = Some(x)
<1>1. CASE EmbeddedOf(section, x)
  <2>1. section.mode = "embedded" /\ section.bundle.digest = Some(x)
    BY <1>1 DEF EmbeddedOf, RouterBundle
  <2>. QED
    BY <2>1 DEF SectionDigest
<1>2. CASE ReferenceTo(section, x)
  <2>1. section.mode = "reference" /\ section.digest = Some(x)
    BY <1>2 DEF ReferenceTo
  <2>. QED
    BY <2>1 DEF SectionDigest
<1>. QED
  BY <1>1, <1>2 DEF Sectioned

\* The link of an execution with a run: its run, and the digest of it all.
LinkOf(d, run, request, result) ==
  [run |-> Some(run), request |-> request, result |-> result,
   link |-> Some([id |-> d, run |-> Some(run), request |-> request, result |-> result])]

LinkParts(run, request, result) ==
  /\ run \in Nat
  /\ request = None \/ \E y : request = Some([mode |-> y])
  /\ result = None \/ \E y : result = Some([run |-> y])

LEMMA LinkMade ==
  ASSUME NEW n \in Nat, NEW l, DOMAIN l = 0 .. (n - 1), \A s \in DOMAIN l : l[s] \in Event, NEW d,
         RouterLink(d, l).run # None
  PROVE  /\ 0 \in DOMAIN l
         /\ \E run, request, result :
              LinkParts(run, request, result) /\ RouterLink(d, l) = LinkOf(d, run, request, result)
<1> DEFINE r       == LatestExec(l)
           run     == IF HasRun(l, r) THEN Some(RunOf(l, r)) ELSE None
           request == IF Starts(l, r) = {} THEN None ELSE Some([mode |-> l[Last(Starts(l, r))].mode])
           result  == IF Responses(l, r) = {} THEN None ELSE Some([run |-> l[Last(Responses(l, r))].run])
<1>1. Requests(l) # {}
  <2>1. Requests(l) = {} => RouterLink(d, l).run = None
    BY DEF RouterLink, EmptyLink
  <2>. QED
    BY <2>1
<1>2. RouterLink(d, l) = [run |-> run, request |-> request, result |-> result,
                          link |-> LinkDigest(d, run, request, result)]
  BY <1>1 DEF RouterLink
<1>3. run # None
  BY <1>2
<1>4. HasRun(l, r) /\ run = Some(RunOf(l, r))
  BY <1>3
<1>5. RunOf(l, r) \in Nat
  <2>1. Last(Outcomes(l, r)) \in Outcomes(l, r)
    BY <1>4, LastOutcome
  <2>2. l[Last(Outcomes(l, r))] \in Event
    BY <2>1 DEF Outcomes, Span
  <2>3. l[Last(Outcomes(l, r))].type = "EXECUTION_COMPLETED"
    BY <1>4, <2>2, CompletionsNameRuns DEF HasRun
  <2>. QED
    BY <2>2, <2>3 DEF RunOf, Event, Failed
<1>6. 0 \in DOMAIN l
  BY <1>1 DEF Requests, Rows
<1>7. request = None \/ \E y : request = Some([mode |-> y])
  OBVIOUS
<1>8. result = None \/ \E y : result = Some([run |-> y])
  OBVIOUS
<1>9. LinkDigest(d, run, request, result) = Some([id |-> d, run |-> run, request |-> request, result |-> result])
  BY <1>3 DEF LinkDigest
<1> HIDE DEF r, run, request, result
<1>10. RouterLink(d, l) = LinkOf(d, RunOf(l, r), request, result)
  BY <1>2, <1>4, <1>9 DEF LinkOf
<1>. QED
  BY <1>5, <1>6, <1>7, <1>8, <1>10 DEF LinkParts
\* p packs a bundle with a section for x, which is not junk
Packs(p, bundle, section, x) == x # Junk /\ Sectioned(section, x) /\ p = Package(bundle, section)

\* Whatever the options, a package binds its bundle to one router digest.
LEMMA PackageMade ==
  ASSUME JunkIsForeign, NEW n \in Nat, NEW l, DOMAIN l = 0 .. (n - 1), \A s \in DOMAIN l : l[s] \in Event,
         NEW d, NEW t, NEW embed \in BOOLEAN, NEW verify \in BOOLEAN,
         NEW router \in {None} \cup {Some(x) : x \in RouterBundles(l)},
         NEW given \in {None, Some([wraps |-> 1])},
         NEW p \in ExportAuditPackage(d, l, t, embed, router, given, verify)
  PROVE  /\ RouterLink(d, l).run # None
         /\ \E section, x : Packs(p, Export(d, l, t), section, x)
<1> DEFINE bundle   == Export(d, l, t)
           sections == IF embed /\ router # None
                       THEN UNION {Embedded(bundle, x, verify) : x \in router}
                       ELSE Reference(bundle, given)
<1>1. bundle.link = RouterLink(d, l)
  BY DEF Export
<1> HIDE DEF bundle
<1>2. bundle.link.run # None /\ p \in {Package(bundle, s) : s \in sections}
  BY DEF ExportAuditPackage, None, bundle
<1>3. PICK section \in sections : p = Package(bundle, section)
  BY <1>2
<1>4. CASE embed /\ router # None
  <2>1. PICK b \in RouterBundles(l) : section \in Embedded(bundle, b, verify)
    BY <1>3, <1>4 DEF Some, None
  <2>2. section = [mode |-> "embedded", bundle |-> b]
    BY <2>1 DEF Embedded, None, Some
  <2>3. PICK x, y : b = RouterBundle(x, y) /\ (x = [wraps |-> 1] \/ \E run : x = [run |-> run])
    BY <2>1 DEF RouterBundles
  <2>4. x # Junk
    BY <2>3 DEF JunkIsForeign
  <2>5. Sectioned(section, x)
    BY <2>2, <2>3 DEF Sectioned, EmbeddedOf
  <2>. QED
    BY <1>1, <1>2, <1>3, <2>4, <2>5 DEF Packs, bundle
<1>5. CASE ~ (embed /\ router # None)
  <2> DEFINE digest == IF given # None THEN given ELSE bundle.link.result
  <2>1. digest # None /\ section = [mode |-> "reference", run |-> bundle.link.run, digest |-> digest]
    BY <1>3, <1>5 DEF Reference, None, Some
  <2>2. \E x : digest = Some(x) /\ (x = [wraps |-> 1] \/ \E y : x = [run |-> y])
    <3>1. CASE given # None
      BY <3>1
    <3>2. CASE given = None
      <4>1. PICK run, request, result :
              LinkParts(run, request, result) /\ RouterLink(d, l) = LinkOf(d, run, request, result)
        BY <1>1, <1>2, LinkMade
      <4>2. bundle.link.result = result
        BY <1>1, <4>1 DEF LinkOf
      <4>3. result # None
        BY <2>1, <3>2, <4>2
      <4>. QED
        BY <3>2, <4>1, <4>2, <4>3 DEF LinkParts
    <3>. QED
      BY <3>1, <3>2
  <2>3. PICK x : digest = Some(x) /\ (x = [wraps |-> 1] \/ \E y : x = [run |-> y])
    BY <2>2
  <2>4. x # Junk
    BY <2>3 DEF JunkIsForeign
  <2>5. Sectioned(section, x)
    BY <2>1, <2>3 DEF Sectioned, ReferenceTo
  <2>. QED
    BY <1>1, <1>2, <1>3, <2>4, <2>5 DEF Packs, bundle
<1>. QED
  BY <1>4, <1>5

\* What a package is made of: x is the digest it binds, link the link it carries.
Bound(p, x, link) ==
  LET b       == p.bundle
      payload == [decision |-> b.decision, events |-> b.events, link |-> b.link]
      binding == [control |-> payload, router |-> x, link |-> Some(link)]
  IN  /\ p = [bundle |-> b, router |-> p.router, binding |-> binding,
              digest |-> [binding |-> binding], provenance |-> [binding |-> binding]]
      /\ b = [decision |-> b.decision, events |-> b.events, link |-> b.link,
              digest |-> payload, provenance |-> b.provenance, meta |-> b.meta]
      /\ b.link = [run |-> b.link.run, request |-> b.link.request, result |-> b.link.result,
                   link |-> Some(link)]
      /\ Sectioned(p.router, x)

LEMMA PackageBinds ==
  ASSUME NEW d, NEW l, NEW t, NEW section, NEW x, Sectioned(section, x),
         NEW run, NEW request, NEW result, NEW link,
         RouterLink(d, l) = [run |-> run, request |-> request, result |-> result, link |-> Some(link)]
  PROVE  /\ Bound(Package(Export(d, l, t), section), x, link)
         /\ Package(Export(d, l, t), section).bundle = Export(d, l, t)
         /\ Package(Export(d, l, t), section).router = section
<1> DEFINE D       == BundleDecision(d, l, t)
           L       == RouterLink(d, l)
           payload == [decision |-> D, events |-> l, link |-> L]
           bundle  == [decision |-> D, events |-> l, link |-> L, digest |-> payload,
                       provenance |-> [input |-> d, output |-> payload], meta |-> t]
           binding == [control |-> payload, router |-> x, link |-> Some(link)]
           p       == Package(Export(d, l, t), section)
<1> HIDE DEF D, L
<1>1. Export(d, l, t) = bundle
  BY DEF Export, D, L
<1>2. (CHOOSE y \in SectionDigest(section) : TRUE) = x
  BY SectionIs DEF Some
<1>3. L.link = Some(link) /\ L = [run |-> L.run, request |-> L.request, result |-> L.result, link |-> Some(link)]
  BY DEF L
<1>4. bundle.digest = payload /\ bundle.link.link = Some(link)
  BY <1>3
<1>5. p = [bundle |-> bundle, router |-> section, binding |-> binding,
           digest |-> [binding |-> binding], provenance |-> [binding |-> binding]]
  BY <1>1, <1>2, <1>4 DEF Package, BindingPayload
<1>6. p.bundle = bundle /\ p.router = section
  BY <1>5
<1> HIDE DEF p, payload
<1>7. bundle.decision = D /\ bundle.events = l /\ bundle.link = L /\ bundle.meta = t
  OBVIOUS
<1>8. bundle.provenance = [input |-> d, output |-> payload]
  OBVIOUS
<1>9. payload = [decision |-> bundle.decision, events |-> bundle.events, link |-> bundle.link]
  BY <1>7 DEF payload
<1>10. bundle = [decision |-> bundle.decision, events |-> bundle.events, link |-> bundle.link,
                 digest |-> payload, provenance |-> bundle.provenance, meta |-> bundle.meta]
  BY <1>7, <1>8
<1>11. bundle.link = [run |-> bundle.link.run, request |-> bundle.link.request, result |-> bundle.link.result,
                      link |-> Some(link)]
  BY <1>3, <1>7
<1> HIDE DEF bundle
<1>12. Bound(p, x, link)
  BY <1>5, <1>6, <1>9, <1>10, <1>11 DEF Bound
<1>. QED
  BY <1>1, <1>6, <1>12 DEF p
LEMMA BoundVerifies ==
  ASSUME NEW p, NEW x, NEW link, Bound(p, x, link)
  PROVE  Verified(p)
<1> DEFINE b       == p.bundle
           payload == [decision |-> b.decision, events |-> b.events, link |-> b.link]
<1>1. /\ p.binding = [control |-> payload, router |-> x, link |-> Some(link)]
      /\ p.digest = [binding |-> p.binding]
      /\ Sectioned(p.router, x)
  BY DEF Bound
<1>2. b.digest = payload /\ b.link.link = Some(link)
  BY DEF Bound
<1> HIDE DEF b, payload
<1>3. p.binding.control = payload /\ p.binding.router = x /\ p.binding.link = Some(link)
  BY <1>1
<1>4. CanonicalPayload(b) = payload
  BY DEF CanonicalPayload, payload
<1>5. p.router.mode = "embedded" => p.router.bundle.digest # None
  BY <1>1, SectionIs DEF Some, None
<1>. QED
  BY <1>1, <1>2, <1>3, <1>4, <1>5, SectionIs, VerifiedIs DEF SixChecks, BindingPayload, Some, None, b

\* A bundle that verifies is one whose digest the binding has.
LEMMA OtherBundle ==
  ASSUME NEW p, NEW x, NEW link, Bound(p, x, link), NEW b,
         \/ b.decision # p.bundle.decision \/ b.events # p.bundle.events \/ b.link # p.bundle.link
         \/ b.digest # p.bundle.digest
  PROVE  ~ Verified([p EXCEPT !.bundle = b])
<1> DEFINE q == [p EXCEPT !.bundle = b]
           payload(c) == [decision |-> c.decision, events |-> c.events, link |-> c.link]
<1>1. q.bundle = b /\ q.binding = p.binding
  BY DEF Bound
<1>2. p.binding.control = payload(p.bundle) /\ p.bundle.digest = payload(p.bundle)
  <2>1. p.binding = [control |-> payload(p.bundle), router |-> x, link |-> Some(link)]
    BY DEF Bound
  <2>2. p.bundle.digest = payload(p.bundle)
    BY DEF Bound
  <2>. QED
    BY <2>1, <2>2
<1>3. SUFFICES ASSUME CanonicalPayload(b) = b.digest, p.binding.control = b.digest PROVE FALSE
  BY <1>1, VerifiedIs DEF SixChecks
<1>4. payload(b) = payload(p.bundle)
  BY <1>2, <1>3 DEF CanonicalPayload
<1>5. payload(b).decision = payload(p.bundle).decision
  BY <1>4
<1>6. payload(b).events = payload(p.bundle).events
  BY <1>4
<1>7. payload(b).link = payload(p.bundle).link
  BY <1>4
<1>8. b.digest = p.bundle.digest
  BY <1>2, <1>3
<1>. QED
  BY <1>5, <1>6, <1>7, <1>8

\* What sets the parts of a package apart from junk.
Distinct(p, x, link) ==
  /\ x # Junk /\ link # Junk
  /\ p.bundle.digest # Junk /\ p.digest # Junk
  /\ \E id, mode, status : p.bundle.decision = [id |-> id, mode |-> mode, status |-> status] /\ status # Junk
  /\ p.bundle.events = [s \in DOMAIN p.bundle.events |-> p.bundle.events[s]]
  /\ 0 \in DOMAIN p.bundle.events /\ p.bundle.events[0] # Junk
  /\ Last(DOMAIN p.bundle.events) \in DOMAIN p.bundle.events
  /\ p.bundle.link.run # {Junk} /\ p.bundle.link.request # {Junk} /\ p.bundle.link.result # {Junk}

BundleParts  == {"status", "event", "last event", "run", "request", "result", "link", "bundle digest"}
BindingParts == {"bound control", "bound router", "bound link", "binding digest"}
RouterParts  == {"router digest", "no router digest"}

LEMMA BundlePartRefused ==
  ASSUME NEW p, NEW x, NEW link, Bound(p, x, link), Distinct(p, x, link), NEW part \in BundleParts
  PROVE  ~ Verified(Corrupted(p, part))
<1> DEFINE b == p.bundle
<1>1. /\ p = [bundle |-> b, router |-> p.router, binding |-> p.binding,
              digest |-> p.digest, provenance |-> p.provenance]
      /\ b = [decision |-> b.decision, events |-> b.events, link |-> b.link,
              digest |-> b.digest, provenance |-> b.provenance, meta |-> b.meta]
      /\ b.link = [run |-> b.link.run, request |-> b.link.request, result |-> b.link.result,
                   link |-> Some(link)]
  BY DEF Bound
<1>2. CASE part = "status"
  <2> DEFINE c == [b EXCEPT !.decision.status = Junk]
  <2>1. Corrupted(p, part) = [p EXCEPT !.bundle = c]
    BY <1>1, <1>2 DEF Corrupted
  <2>2. c.decision # b.decision
    BY <1>1 DEF Distinct
  <2> HIDE DEF c
  <2>. QED
    BY <2>1, <2>2, OtherBundle
<1>3. CASE part = "event"
  <2> DEFINE c == [b EXCEPT !.events = [b.events EXCEPT ![0] = Junk]]
  <2>1. Corrupted(p, part) = [p EXCEPT !.bundle = c]
    BY <1>1, <1>3 DEF Corrupted
  <2>2. c.events[0] = Junk
    BY <1>1 DEF Distinct
  <2>3. c.events # b.events
    BY <2>2 DEF Distinct
  <2> HIDE DEF c
  <2>. QED
    BY <2>1, <2>3, OtherBundle
<1>4. CASE part = "last event"
  <2> DEFINE c == [b EXCEPT !.events = LosesLast(b.events)]
  <2>1. Corrupted(p, part) = [p EXCEPT !.bundle = c]
    BY <1>1, <1>4 DEF Corrupted
  <2>2. c.events = LosesLast(b.events)
    BY <1>1
  <2>3. Last(DOMAIN b.events) \notin DOMAIN LosesLast(b.events)
    BY DEF LosesLast
  <2>4. c.events # b.events
    BY <2>2, <2>3 DEF Distinct
  <2> HIDE DEF c
  <2>. QED
    BY <2>1, <2>4, OtherBundle
<1>5. CASE part = "run"
  <2> DEFINE c == [b EXCEPT !.link = [b.link EXCEPT !.run = {Junk}]]
  <2>1. Corrupted(p, part) = [p EXCEPT !.bundle = c]
    BY <1>1, <1>5 DEF Corrupted
  <2>2. c.link.run = {Junk}
    BY <1>1
  <2>3. c.link # b.link
    BY <2>2 DEF Distinct
  <2> HIDE DEF c
  <2>. QED
    BY <2>1, <2>3, OtherBundle
<1>6. CASE part = "request"
  <2> DEFINE c == [b EXCEPT !.link = [b.link EXCEPT !.request = {Junk}]]
  <2>1. Corrupted(p, part) = [p EXCEPT !.bundle = c]
    BY <1>1, <1>6 DEF Corrupted
  <2>2. c.link.request = {Junk}
    BY <1>1
  <2>3. c.link # b.link
    BY <2>2 DEF Distinct
  <2> HIDE DEF c
  <2>. QED
    BY <2>1, <2>3, OtherBundle
<1>7. CASE part = "result"
  <2> DEFINE c == [b EXCEPT !.link = [b.link EXCEPT !.result = {Junk}]]
  <2>1. Corrupted(p, part) = [p EXCEPT !.bundle = c]
    BY <1>1, <1>7 DEF Corrupted
  <2>2. c.link.result = {Junk}
    BY <1>1
  <2>3. c.link # b.link
    BY <2>2 DEF Distinct
  <2> HIDE DEF c
  <2>. QED
    BY <2>1, <2>3, OtherBundle
<1>8. CASE part = "link"
  <2> DEFINE c == [b EXCEPT !.link = [b.link EXCEPT !.link = {Junk}]]
  <2>1. Corrupted(p, part) = [p EXCEPT !.bundle = c]
    BY <1>1, <1>8 DEF Corrupted
  <2>2. c.link.link = {Junk} /\ b.link.link = {link}
    BY <1>1 DEF Some
  <2>3. c.link # b.link
    BY <2>2 DEF Distinct
  <2> HIDE DEF c
  <2>. QED
    BY <2>1, <2>3, OtherBundle
<1>9. CASE part = "bundle digest"
  <2> DEFINE c == [b EXCEPT !.digest = Junk]
  <2>1. Corrupted(p, part) = [p EXCEPT !.bundle = c]
    BY <1>1, <1>9 DEF Corrupted
  <2>2. c.digest = Junk
    BY <1>1
  <2>3. c.digest # b.digest
    BY <2>2 DEF Distinct
  <2> HIDE DEF c
  <2>. QED
    BY <2>1, <2>3, OtherBundle
<1>. QED
  BY <1>2, <1>3, <1>4, <1>5, <1>6, <1>7, <1>8, <1>9 DEF BundleParts

LEMMA BindingPartRefused ==
  ASSUME NEW p, NEW x, NEW link, Bound(p, x, link), Distinct(p, x, link), NEW part \in BindingParts
  PROVE  ~ Verified(Corrupted(p, part))
<1> DEFINE B == p.binding
<1>1. /\ p = [bundle |-> p.bundle, router |-> p.router, binding |-> B,
              digest |-> p.digest, provenance |-> p.provenance]
      /\ B = [control |-> B.control, router |-> x, link |-> Some(link)]
      /\ p.digest = BindingPayload(B)
  BY DEF Bound, BindingPayload
<1>2. p.bundle.link.link = Some(link) /\ SectionDigest(p.router) = Some(x)
  BY SectionIs DEF Bound
<1>3. CASE part = "bound control"
  <2> DEFINE q == [p EXCEPT !.binding = [B EXCEPT !.control = Junk]]
  <2>1. Corrupted(p, part) = q
    BY <1>1, <1>3 DEF Corrupted
  <2>2. q.binding.control = Junk /\ q.bundle = p.bundle
    BY <1>1
  <2>. QED
    BY <2>1, <2>2, VerifiedIs DEF SixChecks, Distinct
<1>4. CASE part = "bound router"
  <2> DEFINE q == [p EXCEPT !.binding = [B EXCEPT !.router = Junk]]
  <2>1. Corrupted(p, part) = q
    BY <1>1, <1>4 DEF Corrupted
  <2>2. q.binding.router = Junk /\ q.router = p.router
    BY <1>1
  <2>. QED
    BY <1>2, <2>1, <2>2, VerifiedIs DEF SixChecks, Distinct, Some
<1>5. CASE part = "bound link"
  <2> DEFINE q == [p EXCEPT !.binding = [B EXCEPT !.link = {Junk}]]
  <2>1. Corrupted(p, part) = q
    BY <1>1, <1>5 DEF Corrupted
  <2>2. q.binding.link = {Junk} /\ q.bundle = p.bundle
    BY <1>1
  <2>. QED
    BY <1>2, <2>1, <2>2, VerifiedIs DEF SixChecks, Distinct, Some
<1>6. CASE part = "binding digest"
  <2> DEFINE q == [p EXCEPT !.digest = Junk]
  <2>1. Corrupted(p, part) = q
    BY <1>1, <1>6 DEF Corrupted
  <2>2. q.digest = Junk /\ q.binding = B
    BY <1>1
  <2>. QED
    BY <1>1, <2>1, <2>2, VerifiedIs DEF SixChecks, Distinct
<1>. QED
  BY <1>3, <1>4, <1>5, <1>6 DEF BindingParts

LEMMA RouterPartRefused ==
  ASSUME NEW p, NEW x, NEW link, Bound(p, x, link), Distinct(p, x, link), NEW part \in RouterParts
  PROVE  ~ Verified(Corrupted(p, part))
<1> DEFINE left == IF part = "router digest" THEN {Junk} ELSE {}
<1>1. p = [bundle |-> p.bundle, router |-> p.router, binding |-> p.binding,
           digest |-> p.digest, provenance |-> p.provenance]
      /\ p.binding.router = x /\ Sectioned(p.router, x)
  <2>1. p.binding = [control |-> p.binding.control, router |-> x, link |-> Some(link)]
    BY DEF Bound
  <2>2. p.binding.router = x
    BY <2>1
  <2>. QED
    BY <2>2 DEF Bound
<1>2. Some(x) # left
  BY DEF Some, Distinct
<1>3. CASE EmbeddedOf(p.router, x)
  <2>1. PICK y : p.router = [mode |-> "embedded", bundle |-> RouterBundle(x, y)]
    BY <1>3 DEF EmbeddedOf
  <2> DEFINE section == [p.router EXCEPT !.bundle = [p.router.bundle EXCEPT !.digest = left]]
             q       == [p EXCEPT !.router = section]
  <2>2. Corrupted(p, part) = q
    <3>1. p.router.mode = "embedded"
      BY <2>1
    <3>2. CASE part = "router digest"
      BY <1>1, <2>1, <3>1, <3>2 DEF Corrupted
    <3>3. CASE part = "no router digest"
      BY <1>1, <2>1, <3>1, <3>3 DEF Corrupted, None
    <3>. QED
      BY <3>2, <3>3 DEF RouterParts
  <2>3. section.mode = "embedded" /\ section.bundle.digest = left
    <3>1. p.router.bundle = [digest |-> Some(x), content |-> y]
      BY <2>1 DEF RouterBundle
    <3> DEFINE inner == [p.router.bundle EXCEPT !.digest = left]
    <3>2. inner.digest = left
      BY <3>1
    <3>3. section = [p.router EXCEPT !.bundle = inner]
      OBVIOUS
    <3> HIDE DEF inner, section
    <3>4. section.mode = "embedded" /\ section.bundle = inner
      BY <2>1, <3>3
    <3>. QED
      BY <3>2, <3>4
  <2>4. q.router = section /\ q.binding = p.binding
    BY <1>1
  <2>. QED
    BY <1>1, <1>2, <2>2, <2>3, <2>4, VerifiedIs DEF SixChecks, SectionDigest
<1>4. CASE ReferenceTo(p.router, x)
  <2>1. PICK y : p.router = [mode |-> "reference", run |-> y, digest |-> Some(x)]
    BY <1>4 DEF ReferenceTo
  <2> DEFINE section == [p.router EXCEPT !.digest = left]
             q       == [p EXCEPT !.router = section]
  <2>2. Corrupted(p, part) = q
    <3>1. p.router.mode # "embedded"
      BY <2>1
    <3>2. CASE part = "router digest"
      BY <1>1, <2>1, <3>1, <3>2 DEF Corrupted
    <3>3. CASE part = "no router digest"
      BY <1>1, <2>1, <3>1, <3>3 DEF Corrupted, None
    <3>. QED
      BY <3>2, <3>3 DEF RouterParts
  <2>3. section.mode = "reference" /\ section.digest = left
    BY <2>1
  <2>4. q.router = section /\ q.binding = p.binding
    BY <1>1
  <2>. QED
    BY <1>1, <1>2, <2>2, <2>3, <2>4, VerifiedIs DEF SixChecks, SectionDigest
<1>. QED
  BY <1>1, <1>3, <1>4 DEF Sectioned
(***************************************************************************)
(* A package that the exporter made of a log whose rows are rows.          *)
(***************************************************************************)
LEMMA PackageDistinct ==
  ASSUME JunkIsForeign, NEW n \in Nat, NEW l, l = [s \in 0 .. (n - 1) |-> l[s]],
         \A s \in DOMAIN l : l[s] \in Event, NEW d, NEW t,
         NEW run, NEW request, NEW result, LinkParts(run, request, result),
         RouterLink(d, l) = LinkOf(d, run, request, result), 0 \in DOMAIN l,
         NEW p, NEW x, NEW link, x # Junk, Bound(p, x, link), p.bundle = Export(d, l, t),
         link = [id |-> d, run |-> Some(run), request |-> request, result |-> result]
  PROVE  Distinct(p, x, link)
<1>1. DOMAIN l = 0 .. (n - 1)
  OBVIOUS
<1>2. /\ p.bundle.decision = BundleDecision(d, l, t)
      /\ p.bundle.events = l
      /\ p.bundle.link = LinkOf(d, run, request, result)
  BY DEF Export
<1>3. p.bundle.digest # Junk
  <2>1. p.bundle.digest = [decision |-> p.bundle.decision, events |-> p.bundle.events, link |-> p.bundle.link]
    BY DEF Bound
  <2>. QED
    BY <2>1 DEF JunkIsForeign
<1>4. p.digest # Junk
  <2>1. p.digest = [binding |-> p.binding]
    BY DEF Bound
  <2>. QED
    BY <2>1 DEF JunkIsForeign
<1>5. \E id, mode, status : p.bundle.decision = [id |-> id, mode |-> mode, status |-> status] /\ status # Junk
  <2>1. StateOf(l, t) # Junk
    BY <1>1, StateNamed DEF JunkIsForeign
  <2>. QED
    BY <1>2, <2>1 DEF BundleDecision
<1>6. l[0] # Junk /\ Last(DOMAIN l) \in DOMAIN l
  <2>1. l[0] # Junk
    BY DEF JunkIsForeign
  <2>2. Last(DOMAIN l) \in DOMAIN l
    BY <1>1, LastIsLast
  <2>. QED
    BY <2>1, <2>2
<1>7. p.bundle.link.run = {run} /\ p.bundle.link.request = request /\ p.bundle.link.result = result
  <2> DEFINE L == LinkOf(d, run, request, result)
  <2>1. L.run = {run} /\ L.request = request /\ L.result = result
    BY DEF LinkOf, Some
  <2> HIDE DEF L
  <2>. QED
    BY <1>2, <2>1 DEF L
<1>8. run # Junk /\ request # {Junk} /\ result # {Junk}
  <2>1. run # Junk
    BY DEF LinkParts, JunkIsForeign
  <2>2. request # {Junk}
    BY DEF LinkParts, JunkIsForeign, Some, None
  <2>3. result # {Junk}
    BY DEF LinkParts, JunkIsForeign, Some, None
  <2>. QED
    BY <2>1, <2>2, <2>3
<1>9. link # Junk
  BY DEF JunkIsForeign
<1>. QED
  BY <1>1, <1>2, <1>3, <1>4, <1>5, <1>6, <1>7, <1>8, <1>9 DEF Distinct

\* Any one part of it, and any earlier bundle in its place, is refused.
Tight(p, d, l) ==
  /\ Verified(p)
  /\ \A part \in BoundParts : ~ Verified(Corrupted(p, part))
  /\ \A t : ~ Verified([p EXCEPT !.bundle = Export(d, LosesLast(l), t)])

LEMMA PackagesTight ==
  ASSUME JunkIsForeign, NEW n \in Nat, NEW l, l = [s \in 0 .. (n - 1) |-> l[s]],
         \A s \in DOMAIN l : l[s] \in Event, NEW d, NEW t,
         NEW embed \in BOOLEAN, NEW verify \in BOOLEAN,
         NEW router \in {None} \cup {Some(x) : x \in RouterBundles(l)},
         NEW given \in {None, Some([wraps |-> 1])},
         NEW p \in ExportAuditPackage(d, l, t, embed, router, given, verify)
  PROVE  Tight(p, d, l)
<1>1. DOMAIN l = 0 .. (n - 1)
  OBVIOUS
<1>2. RouterLink(d, l).run # None
  BY <1>1, PackageMade
<1>3. PICK section, x : Packs(p, Export(d, l, t), section, x)
  BY <1>1, PackageMade
<1>4. 0 \in DOMAIN l
  BY <1>1, <1>2, LinkMade
<1>5. PICK run, request, result :
        LinkParts(run, request, result) /\ RouterLink(d, l) = LinkOf(d, run, request, result)
  BY <1>1, <1>2, LinkMade
<1> DEFINE link == [id |-> d, run |-> Some(run), request |-> request, result |-> result]
<1>6. RouterLink(d, l) = [run |-> Some(run), request |-> request, result |-> result, link |-> Some(link)]
  BY <1>5 DEF LinkOf
<1>7. Bound(p, x, link) /\ p.bundle = Export(d, l, t)
  <2> HIDE DEF link
  <2>. QED
    BY <1>3, <1>6, PackageBinds DEF Packs
<1>8. Distinct(p, x, link)
  BY <1>3, <1>4, <1>5, <1>7, PackageDistinct DEF Packs
<1> HIDE DEF link
<1>9. Verified(p)
  BY <1>7, BoundVerifies
<1>10. \A part \in BoundParts : ~ Verified(Corrupted(p, part))
  <2>1. BoundParts = BundleParts \cup BindingParts \cup RouterParts
    BY DEF BoundParts, BundleParts, BindingParts, RouterParts
  <2>. QED
    BY <1>7, <1>8, <2>1, BundlePartRefused, BindingPartRefused, RouterPartRefused
<1>11. ASSUME NEW u
       PROVE  ~ Verified([p EXCEPT !.bundle = Export(d, LosesLast(l), u)])
  <2> DEFINE b == Export(d, LosesLast(l), u)
  <2>1. b.events = LosesLast(l) /\ p.bundle.events = l
    BY <1>7 DEF Export
  <2>2. Last(DOMAIN l) \in DOMAIN l \ DOMAIN LosesLast(l)
    BY <1>1, <1>4, LastIsLast DEF LosesLast
  <2> HIDE DEF b
  <2>3. ~ Verified([p EXCEPT !.bundle = b])
    BY <1>7, <2>1, <2>2, OtherBundle
  <2>. QED
    BY <2>3 DEF b
<1>. QED
  BY <1>9, <1>10, <1>11 DEF Tight

(***************************************************************************)
(* Every package the exporter makes verifies, whatever the caller hands    *)
(* over, and none does any more once a single part of it has changed, or   *)
(* its bundle was replaced by an earlier export of the same decision, for  *)
(* any log and any options (audit_package.py, verify_audit_package).       *)
(***************************************************************************)
THEOREM PackageTheorem ==
  ASSUME JunkIsForeign
  PROVE  Spec => []PackageTight
<1>1. LogInv => PackageTight
  <2> SUFFICES ASSUME LogInv, NEW d \in decisions, NEW p \in PackagesOf(d, now)
               PROVE  Tight(p, d, log[d])
    BY DEF PackageTight, Tight
  <2> DEFINE l == log[d]
  <2>1. d \in Decisions /\ (\A s \in DOMAIN l : l[s] \in Event) /\ l = [s \in DOMAIN l |-> l[s]]
    BY DEF LogInv, TypeOK
  <2>2. PICK n \in Nat : DOMAIN l = 0 .. (n - 1)
    BY <2>1, ToolsAssumption DEF LogInv, SeqContiguous
  <2>3. PICK embed \in BOOLEAN, router \in {None} \cup {Some(x) : x \in RouterBundles(l)},
             given \in {None, Some([wraps |-> 1])}, verify \in BOOLEAN :
          p \in ExportAuditPackage(d, l, now, embed, router, given, verify)
    BY DEF PackagesOf
  <2> HIDE DEF l
  <2>4. l = [s \in 0 .. (n - 1) |-> l[s]]
    BY <2>1, <2>2
  <2>5. Tight(p, d, l)
    BY <2>1, <2>2, <2>3, <2>4, PackagesTight
  <2>. QED
    BY <2>5 DEF l
<1>. QED
  BY <1>1, LogInvariant, PTL

-----------------------------------------------------------------------------
(***************************************************************************)
(* The timeline.  Where every grant and every revocation was checked       *)
(* against the log it was appended to, grants less revocations are the     *)
(* number of actors whose approval stands.                                 *)
(***************************************************************************)
Votes(l) == Cardinality(Granting(l))

\* The log as it was when row s was appended, and right after.
LEMMA PrefixGrows ==
  ASSUME NEW n \in Nat, NEW l, DOMAIN l = 0 .. (n - 1), NEW s \in 0 .. (n - 1)
  PROVE  /\ s \in Nat
         /\ DOMAIN Below(l, s) = 0 .. (s - 1)
         /\ Below(l, s + 1) = Extended(Below(l, s), s, l[s])
<1>1. {r \in DOMAIN l : r < s} = 0 .. (s - 1)
  OBVIOUS
<1>2. {r \in DOMAIN l : r < s + 1} = (0 .. (s - 1)) \cup {s}
  OBVIOUS
<1>. QED
  BY <1>1, <1>2 DEF Below, Extended

LEMMA GrantingStep ==
  ASSUME NEW n \in Nat, NEW l, DOMAIN l = 0 .. (n - 1), NEW row \in Event, Fits(l, row)
  PROVE  /\ row.type = "APPROVAL_GRANTED" =>
              /\ row.actor \notin Granting(l)
              /\ Granting(Extended(l, n, row)) = Granting(l) \cup {row.actor}
         /\ row.type = "APPROVAL_REVOKED" =>
              /\ row.actor \in Granting(l)
              /\ Granting(Extended(l, n, row)) = Granting(l) \ {row.actor}
         /\ row.type \notin ApprovalTypes => Granting(Extended(l, n, row)) = Granting(l)
<1> DEFINE l2 == Extended(l, n, row)
<1>1. DOMAIN l2 = (0 .. (n - 1)) \cup {n} /\ n \notin 0 .. (n - 1)
  BY DEF Extended
<1>2. \A a : /\ Stands(l2, n, a) <=> row.type = "APPROVAL_GRANTED" /\ row.actor = a
             /\ \A g \in 0 .. (n - 1) :
                  Stands(l2, g, a) <=> Stands(l, g, a) /\ ~ (row.type \in ApprovalTypes /\ row.actor = a)
  BY ExtendedStands
<1>3. row.type \in ApprovalTypes => row.actor \in Actors
  BY DEF Event, Failed, ApprovalTypes
<1> HIDE DEF l2
<1>4. \A a \in Actors :
        a \in Granting(l2) <=> \/ row.type = "APPROVAL_GRANTED" /\ row.actor = a
                               \/ a \in Granting(l) /\ ~ (row.type \in ApprovalTypes /\ row.actor = a)
  BY <1>1, <1>2 DEF Granting
<1>5. Granting(l2) \subseteq Actors /\ Granting(l) \subseteq Actors
  BY DEF Granting
<1>6. CASE row.type = "APPROVAL_GRANTED"
  <2>1. row.actor \notin Granting(l)
    BY <1>6 DEF Fits, Granting
  <2>2. Granting(l2) = Granting(l) \cup {row.actor}
    BY <1>3, <1>4, <1>5, <1>6, <2>1 DEF ApprovalTypes
  <2>. QED
    BY <1>6, <2>1, <2>2 DEF ApprovalTypes, l2
<1>7. CASE row.type = "APPROVAL_REVOKED"
  <2>1. row.actor \in Granting(l)
    BY <1>3, <1>7 DEF Fits, Granting, ApprovalTypes
  <2>2. Granting(l2) = Granting(l) \ {row.actor}
    BY <1>3, <1>4, <1>5, <1>7, <2>1 DEF ApprovalTypes
  <2>. QED
    BY <1>7, <2>1, <2>2 DEF ApprovalTypes, l2
<1>8. CASE row.type \notin ApprovalTypes
  <2>1. Granting(l2) = Granting(l)
    BY <1>4, <1>5, <1>8 DEF ApprovalTypes
  <2>. QED
    BY <1>8, <2>1 DEF ApprovalTypes, l2
<1>. QED
  BY <1>6, <1>7, <1>8 DEF ApprovalTypes

LEMMA VotesStep ==
  ASSUME NEW n \in Nat, NEW l, DOMAIN l = 0 .. (n - 1), NEW row \in Event, Fits(l, row)
  PROVE  /\ Votes(l) \in Nat
         /\ Votes(Extended(l, n, row)) =
              Votes(l) + (IF row.type = "APPROVAL_GRANTED" THEN 1
                          ELSE IF row.type = "APPROVAL_REVOKED" THEN -1 ELSE 0)
<1> DEFINE G  == Granting(l)
           G2 == Granting(Extended(l, n, row))
<1>1. IsFiniteSet(G) /\ Cardinality(G) \in Nat
  BY GrantingFinite, FS_CardinalityType
<1>2. /\ row.type = "APPROVAL_GRANTED" => row.actor \notin G /\ G2 = G \cup {row.actor}
      /\ row.type = "APPROVAL_REVOKED" => row.actor \in G /\ G2 = G \ {row.actor}
      /\ row.type \notin ApprovalTypes => G2 = G
  BY GrantingStep
<1> HIDE DEF G, G2
<1>3. row.type = "APPROVAL_GRANTED" => Cardinality(G2) = Cardinality(G) + 1
  BY <1>1, <1>2, FS_AddElement
<1>4. row.type = "APPROVAL_REVOKED" => Cardinality(G2) = Cardinality(G) - 1
  BY <1>1, <1>2, FS_RemoveElement
<1>5. row.type \notin ApprovalTypes => Cardinality(G2) = Cardinality(G)
  BY <1>2
<1>. QED
  BY <1>1, <1>3, <1>4, <1>5 DEF G, G2, Votes, ApprovalTypes

-----------------------------------------------------------------------------
\* The rows of a type below a place, and what the place itself adds.
Earlier(l, type, s) == {g \in Rows(l, {type}) : g < s}

LEMMA EarlierStep ==
  ASSUME NEW n \in Nat, NEW l, DOMAIN l = 0 .. (n - 1), NEW s \in 0 .. (n - 1), NEW type
  PROVE  /\ Cardinality(Earlier(l, type, s)) \in Nat
         /\ Cardinality(Earlier(l, type, s + 1)) =
              Cardinality(Earlier(l, type, s)) + (IF l[s].type = type THEN 1 ELSE 0)
<1> DEFINE E  == Earlier(l, type, s)
           E2 == Earlier(l, type, s + 1)
<1>1. E \subseteq 0 .. (n - 1) /\ s \notin E
  BY DEF Earlier, Rows
<1>2. E2 = IF l[s].type = type THEN E \cup {s} ELSE E
  BY DEF Earlier, Rows
<1> HIDE DEF E, E2
<1>3. IsFiniteSet(E) /\ Cardinality(E) \in Nat
  <2>1. IsFiniteSet(0 .. (n - 1))
    BY FS_Interval
  <2>2. E \in SUBSET (0 .. (n - 1))
    BY <1>1
  <2>3. IsFiniteSet(E)
    BY <2>1, <2>2, FS_Subset
  <2>. QED
    BY <2>3, FS_CardinalityType
<1>4. Cardinality(E \cup {s}) = Cardinality(E) + 1
  BY <1>1, <1>3, FS_AddElement
<1>5. Cardinality(E2) = Cardinality(E) + (IF l[s].type = type THEN 1 ELSE 0)
  BY <1>2, <1>3, <1>4
<1>. QED
  BY <1>3, <1>5 DEF E, E2

\* every row was checked against the log below it
RowsChecked(l) == \A s \in DOMAIN l : l[s] \in Event /\ Fits(Below(l, s), l[s])

VotesAt(l, s) == Votes(Below(l, s))

LEMMA VotesGrow ==
  ASSUME NEW n \in Nat, NEW l, DOMAIN l = 0 .. (n - 1), RowsChecked(l), NEW s \in 0 .. (n - 1)
  PROVE  /\ VotesAt(l, s) \in Nat
         /\ VotesAt(l, s + 1) =
              VotesAt(l, s) + (IF l[s].type = "APPROVAL_GRANTED" THEN 1
                               ELSE IF l[s].type = "APPROVAL_REVOKED" THEN -1 ELSE 0)
<1> DEFINE b == Below(l, s)
<1>1. s \in Nat /\ DOMAIN b = 0 .. (s - 1) /\ Below(l, s + 1) = Extended(b, s, l[s])
  BY PrefixGrows
<1>2. l[s] \in Event /\ Fits(b, l[s])
  BY DEF RowsChecked
<1> HIDE DEF b
<1>3. Votes(b) \in Nat
  BY <1>1, <1>2, VotesStep
<1>4. Votes(Extended(b, s, l[s])) =
        Votes(b) + (IF l[s].type = "APPROVAL_GRANTED" THEN 1
                    ELSE IF l[s].type = "APPROVAL_REVOKED" THEN -1 ELSE 0)
  BY <1>1, <1>2, VotesStep
<1>. QED
  BY <1>1, <1>3, <1>4 DEF VotesAt, b

\* Nobody has approved an empty log.
LEMMA VotesStart ==
  ASSUME NEW n \in Nat, NEW l, DOMAIN l = 0 .. (n - 1)
  PROVE  VotesAt(l, 0) = 0
<1>1. DOMAIN Below(l, 0) = {}
  BY DEF Below
<1>2. Granting(Below(l, 0)) = {}
  BY <1>1 DEF Granting
<1>. QED
  BY <1>2, FS_EmptySet DEF VotesAt, Votes

\* Grants less revocations: as many as there are actors whose approval stands.
LEMMA TallyIsVotes ==
  ASSUME NEW n \in Nat, NEW l, DOMAIN l = 0 .. (n - 1), RowsChecked(l)
  PROVE  \A s \in 0 .. (n - 1) : Tally(l, s) = VotesAt(l, s + 1)
<1> DEFINE G(s) == Cardinality(Earlier(l, "APPROVAL_GRANTED", s))
           R(s) == Cardinality(Earlier(l, "APPROVAL_REVOKED", s))
           Bad  == {s \in 0 .. n : G(s) - R(s) # VotesAt(l, s)}
<1>1. G(0) = 0 /\ R(0) = 0
  <2>1. Earlier(l, "APPROVAL_GRANTED", 0) = {} /\ Earlier(l, "APPROVAL_REVOKED", 0) = {}
    BY DEF Earlier, Rows
  <2>. QED
    BY <2>1, FS_EmptySet
<1>2. \A s \in 0 .. (n - 1) :
        /\ G(s) \in Nat /\ G(s + 1) = G(s) + (IF l[s].type = "APPROVAL_GRANTED" THEN 1 ELSE 0)
        /\ R(s) \in Nat /\ R(s + 1) = R(s) + (IF l[s].type = "APPROVAL_REVOKED" THEN 1 ELSE 0)
  BY EarlierStep
<1>3. \A s \in 0 .. (n - 1) :
        /\ VotesAt(l, s) \in Nat
        /\ VotesAt(l, s + 1) =
             VotesAt(l, s) + (IF l[s].type = "APPROVAL_GRANTED" THEN 1
                              ELSE IF l[s].type = "APPROVAL_REVOKED" THEN -1 ELSE 0)
  BY VotesGrow
<1>4. VotesAt(l, 0) = 0
  BY VotesStart
<1> HIDE DEF G, R
<1>5. Bad = {}
  <2> SUFFICES ASSUME Bad # {} PROVE FALSE
    OBVIOUS
  <2>1. Bad \in SUBSET Nat
    OBVIOUS
  <2>2. PICK m \in Bad : \A s \in Bad : m <= s
    BY <2>1, HasFirst
  <2>3. m \in 0 .. n /\ m # 0 /\ G(m) - R(m) # VotesAt(l, m)
    BY <1>1, <1>4
  <2> DEFINE k == m - 1
  <2>4. k \in 0 .. (n - 1) /\ k + 1 = m /\ k \notin Bad
    BY <2>2, <2>3
  <2>5. G(k) - R(k) = VotesAt(l, k)
    BY <2>4
  <2>6. G(k + 1) - R(k + 1) # VotesAt(l, k + 1)
    BY <2>3, <2>4
  <2> HIDE DEF k
  <2>7. /\ G(k) \in Nat /\ G(k + 1) = G(k) + (IF l[k].type = "APPROVAL_GRANTED" THEN 1 ELSE 0)
        /\ R(k) \in Nat /\ R(k + 1) = R(k) + (IF l[k].type = "APPROVAL_REVOKED" THEN 1 ELSE 0)
    BY <1>2, <2>4
  <2>8. /\ VotesAt(l, k) \in Nat
        /\ VotesAt(l, k + 1) =
             VotesAt(l, k) + (IF l[k].type = "APPROVAL_GRANTED" THEN 1
                              ELSE IF l[k].type = "APPROVAL_REVOKED" THEN -1 ELSE 0)
    BY <1>3, <2>4
  <2>. QED
    BY <2>5, <2>6, <2>7, <2>8
<1>6. ASSUME NEW s \in 0 .. (n - 1)
      PROVE  Tally(l, s) = VotesAt(l, s + 1)
  <2>1. \A type : {g \in Rows(l, {type}) : g <= s} = Earlier(l, type, s + 1)
    BY DEF Earlier, Rows
  <2>2. Tally(l, s) = G(s + 1) - R(s + 1)
    BY <2>1 DEF Tally, G, R
  <2>3. s + 1 \in 0 .. n
    OBVIOUS
  <2>4. s + 1 \notin Bad
    BY <1>5
  <2>. QED
    BY <2>2, <2>3, <2>4
<1>. QED
  BY <1>6
-----------------------------------------------------------------------------
\* The entry "threshold met" follows the first grant that brought enough actors together.
LEMMA MetIsFirst ==
  ASSUME NEW n \in Nat, NEW l, DOMAIN l = 0 .. (n - 1), RowsChecked(l), Loadable(l)
  PROVE  MetAt(l) = {s \in Rows(l, {"APPROVAL_GRANTED"}) :
                       /\ HasPolicy(l)
                       /\ Enough(l, s)
                       /\ \A r \in DOMAIN l : r < s => ~ Enough(l, r)}
<1> DEFINE Grants == Rows(l, {"APPROVAL_GRANTED"})
           min    == PolicyOf(l).min
           First(s) == Enough(l, s) /\ \A r \in DOMAIN l : r < s => ~ Enough(l, r)
           Met(s)   == Tally(l, s) = min /\ \A r \in Grants : r < s => Tally(l, r) # min
<1>1. Grants \subseteq 0 .. (n - 1) /\ \A s \in 0 .. (n - 1) : s \in Grants <=> l[s].type = "APPROVAL_GRANTED"
  BY DEF Rows
<1>2. HasPolicy(l) => min \in Int /\ min >= 1
  <2>1. \A s \in DOMAIN l : l[s] \in Event
    BY DEF RowsChecked
  <2>. QED
    BY <2>1, PolicyTyped
<1>3. \A s \in 0 .. (n - 1) : Tally(l, s) = VotesAt(l, s + 1) /\ (Enough(l, s) <=> VotesAt(l, s + 1) >= min)
  BY TallyIsVotes DEF Enough, VotesAt, Votes
<1>4. \A s \in 0 .. (n - 1) :
        /\ VotesAt(l, s) \in Nat /\ VotesAt(l, s + 1) \in Int
        /\ VotesAt(l, s + 1) <= VotesAt(l, s) + 1
        /\ VotesAt(l, s + 1) > VotesAt(l, s) => s \in Grants
  <2> SUFFICES ASSUME NEW s \in 0 .. (n - 1)
               PROVE  /\ VotesAt(l, s) \in Nat /\ VotesAt(l, s + 1) \in Int
                      /\ VotesAt(l, s + 1) <= VotesAt(l, s) + 1
                      /\ VotesAt(l, s + 1) > VotesAt(l, s) => s \in Grants
    OBVIOUS
  <2>1. /\ VotesAt(l, s) \in Nat
        /\ VotesAt(l, s + 1) =
             VotesAt(l, s) + (IF l[s].type = "APPROVAL_GRANTED" THEN 1
                              ELSE IF l[s].type = "APPROVAL_REVOKED" THEN -1 ELSE 0)
    BY VotesGrow
  <2>2. l[s].type = "APPROVAL_GRANTED" => s \in Grants
    BY <1>1
  <2>. QED
    BY <2>1, <2>2
<1>5. VotesAt(l, 0) = 0
  BY VotesStart
<1> HIDE DEF Grants, min
\* the first row with enough brings one more than there were: it is a grant, and just enough
<1>6. ASSUME HasPolicy(l), NEW s \in 0 .. (n - 1), First(s)
      PROVE  s \in Grants /\ Tally(l, s) = min
  <2>1. VotesAt(l, s) < min
    <3>1. CASE s = 0
      BY <1>2, <1>5, <1>6, <3>1
    <3>2. CASE s # 0
      <4>1. s - 1 \in 0 .. (n - 1) /\ s - 1 < s /\ (s - 1) + 1 = s
        BY <3>2
      <4>2. ~ Enough(l, s - 1)
        BY <1>6, <4>1
      <4>3. VotesAt(l, s) \in Nat
        BY <1>4
      <4>. QED
        BY <1>2, <1>3, <1>6, <4>1, <4>2, <4>3
    <3>. QED
      BY <3>1, <3>2
  <2>2. VotesAt(l, s + 1) >= min
    BY <1>3, <1>6
  <2>. QED
    BY <1>2, <1>3, <1>4, <1>6, <2>1, <2>2
<1>7. ASSUME HasPolicy(l), NEW s \in Grants, First(s)
      PROVE  Met(s)
  <2>1. s \in 0 .. (n - 1) /\ Tally(l, s) = min
    BY <1>1, <1>6, <1>7
  <2>2. ASSUME NEW r \in Grants, r < s
        PROVE  Tally(l, r) # min
    <3>1. r \in 0 .. (n - 1) /\ ~ Enough(l, r)
      BY <1>1, <1>7, <2>2
    <3>. QED
      BY <1>2, <1>3, <1>7, <3>1
  <2>. QED
    BY <2>1, <2>2
<1>8. ASSUME HasPolicy(l), NEW s \in Grants, Met(s)
      PROVE  First(s)
  <2>1. s \in 0 .. (n - 1) /\ Enough(l, s)
    BY <1>1, <1>2, <1>3, <1>8
  <2> DEFINE Had == {r \in 0 .. (n - 1) : r < s /\ Enough(l, r)}
  <2>2. Had = {}
    <3> SUFFICES ASSUME Had # {} PROVE FALSE
      OBVIOUS
    <3>1. Had \in SUBSET Nat
      OBVIOUS
    <3>2. PICK r \in Had : \A q \in Had : r <= q
      BY <3>1, HasFirst
    <3>3. r \in 0 .. (n - 1) /\ r < s /\ Enough(l, r)
      OBVIOUS
    <3>4. \A q \in DOMAIN l : q < r => ~ Enough(l, q)
      BY <2>1, <3>2, <3>3
    <3>5. r \in Grants /\ Tally(l, r) = min
      BY <1>6, <1>8, <3>3, <3>4
    <3>. QED
      BY <1>8, <3>3, <3>5
  <2>. QED
    BY <2>1, <2>2
<1>9. \A s \in Grants : HasPolicy(l) => (First(s) <=> Met(s))
  BY <1>7, <1>8
<1>. QED
  BY <1>9 DEF MetAt, Grants, min

\* The threshold is met once at most.
LEMMA MetOnce ==
  ASSUME NEW n \in Nat, NEW l, DOMAIN l = 0 .. (n - 1), NEW s \in MetAt(l), NEW r \in MetAt(l)
  PROVE  s = r
<1>1. s \in 0 .. (n - 1) /\ r \in 0 .. (n - 1)
  BY DEF MetAt, Rows
<1>2. ~ (s < r) /\ ~ (r < s)
  BY DEF MetAt
<1>. QED
  BY <1>1, <1>2

-----------------------------------------------------------------------------
(***************************************************************************)
(* A list sorted by Before is the one whose places Before orders.          *)
(***************************************************************************)
LEMMA SortedIs ==
  ASSUME NEW E, NEW N \in Nat, NEW at \in Surjection(1 .. N, E),
         \A i, j \in 1 .. N : Before(at[i], at[j]) <=> i < j
  PROVE  /\ Cardinality(E) = N
         /\ \A i \in 1 .. N : (CHOOSE e \in E : Cardinality({f \in E : Before(f, e)}) = i - 1) = at[i]
<1>1. at \in [1 .. N -> E] /\ \A e \in E : \E i \in 1 .. N : at[i] = e
  BY DEF Surjection
<1>2. ASSUME NEW i \in 1 .. N, NEW j \in 1 .. N, at[i] = at[j]
      PROVE  i = j
  <2>1. ~ (i < j) /\ ~ (j < i)
    <3>1. ~ (i < i)
      OBVIOUS
    <3>2. ~ Before(at[i], at[i])
      BY <3>1
    <3>. QED
      BY <1>2, <3>2
  <2>. QED
    BY <2>1
<1>3. IsFiniteSet(1 .. N) /\ Cardinality(1 .. N) = N
  BY FS_Interval
<1>4. at \in Bijection(1 .. N, E)
  BY <1>1, <1>2 DEF Bijection, Injection, IsInjective
<1>5. Cardinality(E) = N
  <2>1. ExistsBijection(1 .. N, E)
    BY <1>4 DEF ExistsBijection
  <2>. QED
    BY <1>3, <2>1, FS_Bijection
<1>6. ASSUME NEW j \in 1 .. N
      PROVE  Cardinality({f \in E : Before(f, at[j])}) = j - 1
  <2> DEFINE B == {f \in E : Before(f, at[j])}
             g == [i \in 1 .. (j - 1) |-> at[i]]
  <2>1. \A i \in 1 .. (j - 1) : i \in 1 .. N /\ i < j
    OBVIOUS
  <2>2. g \in [1 .. (j - 1) -> B]
    BY <1>1, <2>1
  <2>3. ASSUME NEW f \in B
        PROVE  \E i \in 1 .. (j - 1) : g[i] = f
    <3>1. PICK i \in 1 .. N : at[i] = f
      BY <1>1
    <3>2. i < j
      BY <3>1
    <3>3. i \in 1 .. (j - 1)
      BY <3>2
    <3>. QED
      BY <3>1, <3>3
  <2>4. \A i, k \in 1 .. (j - 1) : g[i] = g[k] => i = k
    BY <1>2, <2>1
  <2> HIDE DEF B, g
  <2>5. g \in Bijection(1 .. (j - 1), B)
    BY <2>2, <2>3, <2>4 DEF Bijection, Injection, Surjection, IsInjective
  <2>6. ExistsBijection(1 .. (j - 1), B)
    BY <2>5 DEF ExistsBijection
  <2>7. IsFiniteSet(1 .. (j - 1)) /\ Cardinality(1 .. (j - 1)) = j - 1
    <3>1. j - 1 \in Int /\ 1 \in Int /\ (1 > j - 1 => j - 1 = 0) /\ (j - 1) - 1 + 1 = j - 1
      OBVIOUS
    <3>2. /\ IsFiniteSet(1 .. (j - 1))
          /\ Cardinality(1 .. (j - 1)) = IF 1 > j - 1 THEN 0 ELSE (j - 1) - 1 + 1
      BY <3>1, FS_Interval
    <3>. QED
      BY <3>1, <3>2
  <2>8. Cardinality(B) = Cardinality(1 .. (j - 1))
    BY <2>6, <2>7, FS_Bijection
  <2>. QED
    BY <2>7, <2>8 DEF B
<1>7. ASSUME NEW i \in 1 .. N
      PROVE  (CHOOSE e \in E : Cardinality({f \in E : Before(f, e)}) = i - 1) = at[i]
  <2>1. at[i] \in E /\ Cardinality({f \in E : Before(f, at[i])}) = i - 1
    BY <1>1, <1>6
  <2>2. ASSUME NEW e \in E, Cardinality({f \in E : Before(f, e)}) = i - 1
        PROVE  e = at[i]
    <3>1. PICK j \in 1 .. N : at[j] = e
      BY <1>1
    <3>2. j - 1 = i - 1
      BY <1>6, <2>2, <3>1
    <3>. QED
      BY <3>1, <3>2
  <2>. QED
    BY <2>1, <2>2
<1>. QED
  BY <1>5, <1>7

LEMMA BeforeEntry ==
  ASSUME NEW s, NEW j, NEW t, NEW k
  PROVE  Before(Entry(s, j), Entry(t, k)) <=> s < t \/ (s = t /\ k = "THRESHOLD_MET" /\ j # k)
<1>1. Entry(s, j).seq = s /\ Entry(s, j).kind = j /\ Entry(t, k).seq = t /\ Entry(t, k).kind = k
  BY DEF Entry
<1>2. j = k /\ s = t => Entry(s, j) = Entry(t, k)
  OBVIOUS
<1>. QED
  BY <1>1, <1>2 DEF Before

\* The entries: one for each row, and the extra one.
RowEntry(l, s) == Entry(s, l[s].type)

Entries(l) == {Entry(s, l[s].type) : s \in DOMAIN l} \cup {Entry(s, "THRESHOLD_MET") : s \in MetAt(l)}

LEMMA TimelineOf ==
  ASSUME NEW l, NEW N \in Nat, NEW at \in Surjection(1 .. N, Entries(l)),
         \A i, j \in 1 .. N : Before(at[i], at[j]) <=> i < j
  PROVE  Timeline(l) = at
<1> DEFINE E == Entries(l)
<1>1. /\ Cardinality(E) = N
      /\ \A i \in 1 .. N : (CHOOSE e \in E : Cardinality({f \in E : Before(f, e)}) = i - 1) = at[i]
  BY SortedIs
<1>2. Timeline(l) = [i \in 1 .. Cardinality(E) |->
                      CHOOSE e \in E : Cardinality({f \in E : Before(f, e)}) = i - 1]
  BY DEF Timeline, Entries
<1>3. at \in [1 .. N -> E]
  BY DEF Surjection
<1> HIDE DEF E
<1>. QED
  BY <1>1, <1>2, <1>3

\* Without the extra entry, the timeline is the log.
LEMMA PlainTimeline ==
  ASSUME NEW n \in Nat, NEW l, DOMAIN l = 0 .. (n - 1), \A s \in DOMAIN l : l[s] \in Event, MetAt(l) = {}
  PROVE  Timeline(l) = [i \in 1 .. n |-> RowEntry(l, i - 1)]
<1> DEFINE at == [i \in 1 .. n |-> RowEntry(l, i - 1)]
<1>1. \A i \in 1 .. n : i - 1 \in DOMAIN l
  OBVIOUS
<1>2. \A s \in DOMAIN l : l[s].type # "THRESHOLD_MET"
  BY DEF Event, Failed
<1>3. Entries(l) = {RowEntry(l, s) : s \in DOMAIN l}
  BY DEF Entries, RowEntry
<1>4. at \in [1 .. n -> Entries(l)]
  BY <1>1, <1>3
<1>5. ASSUME NEW e \in Entries(l)
      PROVE  \E i \in 1 .. n : at[i] = e
  <2>1. PICK s \in DOMAIN l : e = RowEntry(l, s)
    BY <1>3
  <2>2. s + 1 \in 1 .. n /\ (s + 1) - 1 = s
    OBVIOUS
  <2>. QED
    BY <2>1, <2>2
<1>6. ASSUME NEW i \in 1 .. n, NEW j \in 1 .. n
      PROVE  Before(at[i], at[j]) <=> i < j
  <2>1. l[j - 1].type # "THRESHOLD_MET"
    BY <1>1, <1>2
  <2>2. Before(at[i], at[j]) <=> i - 1 < j - 1
    BY <2>1, BeforeEntry DEF RowEntry
  <2>. QED
    BY <2>2
<1> HIDE DEF at
<1>7. at \in Surjection(1 .. n, Entries(l))
  BY <1>4, <1>5 DEF Surjection
<1>. QED
  BY <1>6, <1>7, TimelineOf DEF at

\* With it, it stands right after the row it is about.
LEMMA MetTimeline ==
  ASSUME NEW n \in Nat, NEW l, DOMAIN l = 0 .. (n - 1), \A s \in DOMAIN l : l[s] \in Event, NEW m \in MetAt(l)
  PROVE  /\ m \in 0 .. (n - 1)
         /\ Timeline(l) = [i \in 1 .. (n + 1) |->
                             IF i = m + 2 THEN Entry(m, "THRESHOLD_MET")
                             ELSE RowEntry(l, IF i < m + 2 THEN i - 1 ELSE i - 2)]
<1> DEFINE place(i) == IF i < m + 2 THEN i - 1 ELSE i - 2
           at == [i \in 1 .. (n + 1) |->
                    IF i = m + 2 THEN Entry(m, "THRESHOLD_MET") ELSE RowEntry(l, place(i))]
<1>1. m \in 0 .. (n - 1) /\ m \in DOMAIN l /\ MetAt(l) = {m}
  BY MetOnce DEF MetAt, Rows
<1>2. \A i \in 1 .. (n + 1) : i # m + 2 => place(i) \in DOMAIN l
  BY <1>1
<1>3. \A s \in DOMAIN l : l[s].type # "THRESHOLD_MET"
  BY DEF Event, Failed
<1>4. Entries(l) = {RowEntry(l, s) : s \in DOMAIN l} \cup {Entry(m, "THRESHOLD_MET")}
  BY <1>1 DEF Entries, RowEntry
<1>5. at \in [1 .. (n + 1) -> Entries(l)]
  BY <1>2, <1>4
<1>6. ASSUME NEW e \in Entries(l)
      PROVE  \E i \in 1 .. (n + 1) : at[i] = e
  <2>1. CASE e = Entry(m, "THRESHOLD_MET")
    <3>1. m + 2 \in 1 .. (n + 1)
      BY <1>1
    <3>. QED
      BY <2>1, <3>1
  <2>2. ASSUME NEW s \in DOMAIN l, e = RowEntry(l, s)
        PROVE  \E i \in 1 .. (n + 1) : at[i] = e
    <3>1. CASE s <= m
      <4>1. s + 1 \in 1 .. (n + 1) /\ s + 1 # m + 2 /\ place(s + 1) = s
        BY <1>1, <3>1
      <4>. QED
        BY <2>2, <4>1
    <3>2. CASE s > m
      <4>1. s + 2 \in 1 .. (n + 1) /\ s + 2 # m + 2 /\ place(s + 2) = s
        BY <1>1, <3>2
      <4>. QED
        BY <2>2, <4>1
    <3>. QED
      BY <1>1, <3>1, <3>2
  <2>. QED
    BY <1>4, <2>1, <2>2
<1>7. ASSUME NEW i \in 1 .. (n + 1), NEW j \in 1 .. (n + 1)
      PROVE  Before(at[i], at[j]) <=> i < j
  <2>1. i # m + 2 => at[i] = Entry(place(i), l[place(i)].type) /\ place(i) \in 0 .. (n - 1)
    BY <1>2 DEF RowEntry
  <2>2. j # m + 2 => /\ at[j] = Entry(place(j), l[place(j)].type)
                     /\ place(j) \in 0 .. (n - 1)
                     /\ l[place(j)].type # "THRESHOLD_MET"
    BY <1>2, <1>3 DEF RowEntry
  <2>3. CASE i # m + 2 /\ j # m + 2
    <3>1. Before(at[i], at[j]) <=> place(i) < place(j)
      BY <2>1, <2>2, <2>3, BeforeEntry
    <3>. QED
      BY <1>1, <2>3, <3>1
  <2>4. CASE i = m + 2 /\ j # m + 2
    <3>1. at[i] = Entry(m, "THRESHOLD_MET")
      BY <2>4
    <3>2. Before(at[i], at[j]) <=> m < place(j)
      BY <2>2, <2>4, <3>1, BeforeEntry
    <3>. QED
      BY <1>1, <2>4, <3>2
  <2>5. CASE i # m + 2 /\ j = m + 2
    <3>1. at[j] = Entry(m, "THRESHOLD_MET") /\ l[place(i)].type # "THRESHOLD_MET"
      BY <1>2, <1>3, <2>5
    <3>2. Before(at[i], at[j]) <=> place(i) < m \/ place(i) = m
      BY <2>1, <2>5, <3>1, BeforeEntry
    <3>. QED
      BY <1>1, <2>5, <3>2
  <2>6. CASE i = m + 2 /\ j = m + 2
    <3>1. at[i] = Entry(m, "THRESHOLD_MET") /\ at[j] = Entry(m, "THRESHOLD_MET")
      BY <2>6
    <3>2. ~ Before(at[i], at[j])
      BY <1>1, <3>1, BeforeEntry
    <3>. QED
      BY <1>1, <2>6, <3>2
  <2>. QED
    BY <2>3, <2>4, <2>5, <2>6
<1> HIDE DEF at
<1>8. at \in Surjection(1 .. (n + 1), Entries(l))
  BY <1>5, <1>6 DEF Surjection
<1>9. Timeline(l) = at
  BY <1>7, <1>8, TimelineOf
<1>. QED
  BY <1>1, <1>9 DEF at

\* The entries shown are the last of the timeline: all but the first k, and two at least if it has two.
ShownFrom(shown, tl, k) ==
  /\ k \in Nat
  /\ k <= Len(tl)
  /\ Len(tl) >= 2 => k <= Len(tl) - 2
  /\ Len(tl) = 1 => k = 0
  /\ DOMAIN shown = 1 .. (Len(tl) - k)
  /\ \A i \in 1 .. (Len(tl) - k) : shown[i] = tl[k + i]

LEMMA ShownIs ==
  ASSUME NEW S, NEW tl \in Seq(S), NEW limit \in Nat, limit # 1
  PROVE  \E k : ShownFrom(Truncated(tl, limit), tl, k)
<1> DEFINE N == Len(tl)
<1>0. N \in Nat
  OBVIOUS
<1>1. CASE N > limit /\ limit > 0
  <2> DEFINE k == N - limit
             cut == SubSeq(tl, k + 1, N)
  <2>1. k \in Nat /\ k <= N /\ (N >= 2 => k <= N - 2) /\ (N = 1 => k = 0) /\ N - k = limit
    <3> HIDE DEF N
    <3>1. limit >= 2
      BY <1>1
    <3>. QED
      BY <1>0, <1>1, <3>1
  <2>2. Truncated(tl, limit) = cut
    BY <1>1 DEF Truncated
  <2>3. cut = [i \in 1 .. (N - k) |-> tl[k + i]]
    <3>1. cut = [i \in 1 .. (N - (k + 1) + 1) |-> tl[i + (k + 1) - 1]]
      BY <2>1 DEF SubSeq
    <3>2. N - (k + 1) + 1 = N - k /\ \A i \in 1 .. (N - k) : i + (k + 1) - 1 = k + i
      BY <2>1
    <3> HIDE DEF k, cut
    <3>. QED
      BY <3>1, <3>2
  <2> HIDE DEF k, cut
  <2>. QED
    BY <2>1, <2>2, <2>3 DEF ShownFrom
<1>2. CASE ~ (N > limit /\ limit > 0)
  <2>1. Truncated(tl, limit) = tl
    BY <1>2 DEF Truncated
  <2>2. DOMAIN tl = 1 .. N
    OBVIOUS
  <2>3. 0 \in Nat /\ 0 <= N /\ N - 0 = N /\ \A i \in 1 .. N : 0 + i = i
    OBVIOUS
  <2>. QED
    BY <2>1, <2>2, <2>3 DEF ShownFrom
<1>. QED
  BY <1>1, <1>2

LEMMA TimelineTrue ==
  ASSUME NEW n \in Nat, n > 0, NEW l, DOMAIN l = 0 .. (n - 1), \A s \in DOMAIN l : l[s] \in Event,
         NEW limit \in Nat, limit # 1
  PROVE  /\ \E i \in DOMAIN Truncated(Timeline(l), limit) :
              Truncated(Timeline(l), limit)[i] = RowEntry(l, n - 1)
         /\ \A i \in DOMAIN Truncated(Timeline(l), limit) :
              Truncated(Timeline(l), limit)[i].kind = "THRESHOLD_MET" /\ i > 1 =>
                Truncated(Timeline(l), limit)[i - 1]
                  = Entry(Truncated(Timeline(l), limit)[i].seq, "APPROVAL_GRANTED")
<1> DEFINE tl    == Timeline(l)
           shown == Truncated(tl, limit)
<1>1. \A s \in DOMAIN l : l[s].type # "THRESHOLD_MET"
  BY DEF Event, Failed
<1>2. \A s, k : Entry(s, k).kind = k /\ Entry(s, k).seq = s
  BY DEF Entry
<1>3. CASE MetAt(l) = {}
  <2>1. tl = [i \in 1 .. n |-> RowEntry(l, i - 1)]
    BY <1>3, PlainTimeline
  <2> DEFINE A == {RowEntry(l, s) : s \in DOMAIN l}
  <2> HIDE DEF tl
  <2>2. tl \in Seq(A) /\ Len(tl) = n
    <3>1. \A i \in 1 .. n : i - 1 \in DOMAIN l
      OBVIOUS
    <3>2. tl \in [1 .. n -> A]
      BY <2>1, <3>1
    <3> HIDE DEF A
    <3>. QED
      BY <3>2
  <2> HIDE DEF A
  <2>3. PICK k : ShownFrom(shown, tl, k)
    BY <2>2, ShownIs
  <2> HIDE DEF shown
  <2>4. /\ k \in Nat /\ (n >= 2 => k <= n - 2) /\ (n = 1 => k = 0)
        /\ DOMAIN shown = 1 .. (n - k)
        /\ \A i \in 1 .. (n - k) : shown[i] = tl[k + i]
    BY <2>2, <2>3 DEF ShownFrom
  <2>5. n - k \in 1 .. (n - k) /\ k + (n - k) = n /\ n \in 1 .. n
    BY <2>4
  <2>6. shown[n - k] = RowEntry(l, n - 1)
    BY <2>1, <2>4, <2>5
  <2>7. \A i \in DOMAIN shown : shown[i].kind # "THRESHOLD_MET"
    <3> SUFFICES ASSUME NEW i \in DOMAIN shown PROVE shown[i].kind # "THRESHOLD_MET"
      OBVIOUS
    <3>1. i \in 1 .. (n - k) /\ k + i \in 1 .. n /\ (k + i) - 1 \in DOMAIN l
      BY <2>4
    <3>2. shown[i] = RowEntry(l, (k + i) - 1)
      BY <2>1, <2>4, <3>1
    <3>. QED
      BY <1>1, <1>2, <3>1, <3>2 DEF RowEntry
  <2>. QED
    BY <2>4, <2>5, <2>6, <2>7 DEF shown, tl
<1>4. ASSUME NEW m \in MetAt(l)
      PROVE  /\ \E i \in DOMAIN shown : shown[i] = RowEntry(l, n - 1)
             /\ \A i \in DOMAIN shown : shown[i].kind = "THRESHOLD_MET" /\ i > 1 =>
                  shown[i - 1] = Entry(shown[i].seq, "APPROVAL_GRANTED")
  <2> DEFINE N == n + 1
             at(i) == IF i = m + 2 THEN Entry(m, "THRESHOLD_MET")
                      ELSE RowEntry(l, IF i < m + 2 THEN i - 1 ELSE i - 2)
  <2>1. m \in 0 .. (n - 1) /\ tl = [i \in 1 .. N |-> at(i)]
    BY MetTimeline
  <2>2. l[m].type = "APPROVAL_GRANTED"
    BY DEF MetAt, Rows
  <2> DEFINE A == {at(i) : i \in 1 .. N}
  <2> HIDE DEF tl
  <2>3. N \in Nat /\ N >= 2
    OBVIOUS
  <2>4. tl \in Seq(A) /\ Len(tl) = N
    <3>1. tl \in [1 .. N -> A]
      BY <2>1
    <3> HIDE DEF A, N
    <3>. QED
      BY <2>3, <3>1
  <2> HIDE DEF A, at, N
  <2>5. PICK k : ShownFrom(shown, tl, k)
    BY <2>4, ShownIs
  <2> HIDE DEF shown
  <2>6. /\ k \in Nat /\ k <= N - 2
        /\ DOMAIN shown = 1 .. (N - k)
        /\ \A i \in 1 .. (N - k) : shown[i] = tl[k + i]
    BY <2>4, <2>3, <2>5 DEF ShownFrom
  <2>7. \A i \in 1 .. (N - k) : k + i \in 1 .. N /\ shown[i] = at(k + i)
    BY <2>1, <2>3, <2>6
  <2>8. \E i \in DOMAIN shown : shown[i] = RowEntry(l, n - 1)
    <3>1. CASE m = n - 1
      <4>1. N - 1 - k \in 1 .. (N - k) /\ k + (N - 1 - k) = N - 1
        BY <2>3, <2>6
      <4>2. at(N - 1) = RowEntry(l, n - 1)
        BY <2>1, <3>1 DEF at, N
      <4>. QED
        BY <2>6, <2>7, <4>1, <4>2
    <3>2. CASE m # n - 1
      <4>1. N - k \in 1 .. (N - k) /\ k + (N - k) = N
        BY <2>3, <2>6
      <4>2. at(N) = RowEntry(l, n - 1)
        BY <2>1, <3>2 DEF at, N
      <4>. QED
        BY <2>6, <2>7, <4>1, <4>2
    <3>. QED
      BY <3>1, <3>2
  <2>9. ASSUME NEW i \in DOMAIN shown, shown[i].kind = "THRESHOLD_MET", i > 1
        PROVE  shown[i - 1] = Entry(shown[i].seq, "APPROVAL_GRANTED")
    <3>1. /\ i \in 1 .. (N - k) /\ i - 1 \in 1 .. (N - k)
          /\ k + i \in 1 .. N /\ k + (i - 1) \in 1 .. N /\ k + (i - 1) = (k + i) - 1
      BY <2>3, <2>6, <2>9
    <3>2. shown[i] = at(k + i) /\ shown[i - 1] = at((k + i) - 1)
      BY <2>7, <3>1
    <3>3. k + i = m + 2
      <4> SUFFICES ASSUME k + i # m + 2 PROVE FALSE
        OBVIOUS
      <4> DEFINE s == IF k + i < m + 2 THEN (k + i) - 1 ELSE (k + i) - 2
      <4>1. s \in DOMAIN l
        BY <2>1, <3>1 DEF N
      <4>2. shown[i] = Entry(s, l[s].type)
        BY <3>2 DEF at, RowEntry
      <4> HIDE DEF s
      <4>. QED
        BY <1>1, <1>2, <2>9, <4>1, <4>2
    <3>4. shown[i] = Entry(m, "THRESHOLD_MET")
      BY <3>2, <3>3 DEF at
    <3>5. (k + i) - 1 # m + 2 /\ (k + i) - 1 < m + 2 /\ ((k + i) - 1) - 1 = m
      BY <2>1, <3>3
    <3>6. shown[i - 1] = Entry(m, "APPROVAL_GRANTED")
      BY <2>2, <3>2, <3>5 DEF at, RowEntry
    <3>. QED
      BY <1>2, <3>4, <3>6
  <2>. QED
    BY <2>8, <2>9
<1>. QED
  BY <1>3, <1>4

(***************************************************************************)
(* With one client at a time, the timeline tells the truth: its last row   *)
(* is shown, and "threshold met" follows the grant at which that many      *)
(* different actors had approved.  A timeline of a single entry may show   *)
(* the threshold in place of the last row; inspect always asks for twenty. *)
(***************************************************************************)
THEOREM TimelineTheorem ==
  ASSUME OneClient, TimelineLimit # 1
  PROVE  Spec => []TimelineTruthful
<1>1. LogInv /\ FitInv => TimelineTruthful
  <2> SUFFICES ASSUME LogInv, FitInv, NEW d \in decisions, Loadable(log[d]), log[d] # EmptyLog
               PROVE  LET l     == log[d]
                          shown == Inspection(l, [i \in 1 .. 9 |-> now]).timeline.shown
                          last  == Last(DOMAIN l)
                      IN  /\ \E i \in DOMAIN shown : shown[i] = Entry(last, l[last].type)
                          /\ MetAt(l) = {s \in Rows(l, {"APPROVAL_GRANTED"}) :
                                           /\ HasPolicy(l)
                                           /\ Enough(l, s)
                                           /\ \A r \in DOMAIN l : r < s => ~ Enough(l, r)}
                          /\ \A i \in DOMAIN shown : shown[i].kind = "THRESHOLD_MET" /\ i > 1 =>
                               shown[i - 1] = Entry(shown[i].seq, "APPROVAL_GRANTED")
    BY DEF TimelineTruthful
  <2> DEFINE l     == log[d]
             shown == Truncated(Timeline(l), TimelineLimit)
             clock == [i \in 1 .. 9 |-> now]
  <2>1. d \in Decisions
    BY DEF LogInv, TypeOK
  <2>2. PICK n \in Nat : DOMAIN l = 0 .. (n - 1)
    BY <2>1, ToolsAssumption DEF LogInv, SeqContiguous
  <2>3. /\ \A s \in DOMAIN l : l[s] \in Event
        /\ RowsChecked(l)
    BY <2>1 DEF LogInv, TypeOK, FitInv, RowsFit, RowsChecked
  <2>4. n > 0
    <3> SUFFICES ASSUME n = 0 PROVE FALSE
      OBVIOUS
    <3>1. DOMAIN l = {}
      BY <2>2
    <3>2. l \in [DOMAIN l -> Event]
      BY <2>1 DEF LogInv, TypeOK
    <3>. QED
      BY <3>1, <3>2 DEF EmptyLog
  <2>5. Inspection(l, clock).timeline.shown = shown
    <3>1. Inspection(l, clock).timeline = LifecycleTimeline(l)
      BY DEF Inspection
    <3>2. LifecycleTimeline(l).shown = shown
      BY DEF LifecycleTimeline
    <3>. QED
      BY <3>1, <3>2
  <2>6. Last(DOMAIN l) = n - 1
    BY <2>2, <2>4, LastOfInterval
  <2>7. MetAt(l) = {s \in Rows(l, {"APPROVAL_GRANTED"}) :
                     /\ HasPolicy(l)
                     /\ Enough(l, s)
                     /\ \A r \in DOMAIN l : r < s => ~ Enough(l, r)}
    BY <2>2, <2>3, MetIsFirst
  <2>8. /\ \E i \in DOMAIN shown : shown[i] = RowEntry(l, n - 1)
        /\ \A i \in DOMAIN shown : shown[i].kind = "THRESHOLD_MET" /\ i > 1 =>
             shown[i - 1] = Entry(shown[i].seq, "APPROVAL_GRANTED")
    BY <2>2, <2>3, <2>4, InspectAssumption, TimelineTrue
  <2> HIDE DEF l, shown, clock
  <2>9. /\ \E i \in DOMAIN shown : shown[i] = Entry(Last(DOMAIN l), l[Last(DOMAIN l)].type)
        /\ MetAt(l) = {s \in Rows(l, {"APPROVAL_GRANTED"}) :
                         /\ HasPolicy(l)
                         /\ Enough(l, s)
                         /\ \A r \in DOMAIN l : r < s => ~ Enough(l, r)}
        /\ \A i \in DOMAIN shown : shown[i].kind = "THRESHOLD_MET" /\ i > 1 =>
             shown[i - 1] = Entry(shown[i].seq, "APPROVAL_GRANTED")
    BY <2>6, <2>7, <2>8 DEF RowEntry
  <2>. QED
    BY <2>5, <2>9 DEF l, clock
<1>. QED
  BY <1>1, LogInvariant, FitInvariant, PTL
=============================================================================
