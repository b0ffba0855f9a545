------------------------- MODULE DecisionReplay_proofs -------------------------
(***************************************************************************)
(* The row-by-row replay computes the projections of module Decision, for  *)
(* any number of actors and rows, any policies, clocks and run ids, and    *)
(* rows in any order.                                                      *)
(***************************************************************************)
EXTENDS DecisionReplay, Decision_proofs, SequenceTheorems

-----------------------------------------------------------------------------
(***************************************************************************)
(* The inductive invariant.  TypeOK and the three properties are nearly    *)
(* inductive as they stand; what they lack is that the rows are numbered   *)
(* without a gap, and what the dict holds of an approval that has lapsed:  *)
(* ApprovalsAsLogged only speaks of the ones that count now.               *)
(***************************************************************************)
Numbered == \E n \in Nat : DOMAIN log = 0 .. (n - 1)

\* the dict has the approvals of l that stand, with their expiry
DictOf(appr, l) ==
  /\ DOMAIN appr \subseteq Actors
  /\ \A a \in Actors : (a \in DOMAIN appr /\ ~appr[a].revoked) <=> \E g \in DOMAIN l : Stands(l, g, a)
  /\ \A a \in Actors, g \in DOMAIN l : Stands(l, g, a) => appr[a].expires = l[g].expires

\* x is the record of request r
Matches(x, l, r) ==
  /\ x.mode = l[r].mode
  /\ x.digest = IF Starts(l, r) = {} THEN {} ELSE {l[Last(Starts(l, r))].mode}
  /\ x.outcome = IF Outcomes(l, r) = {} THEN "none" ELSE l[Last(Outcomes(l, r))].type
  /\ x.run = IF HasRun(l, r) THEN {RunOf(l, r)} ELSE {}

RecordsOf(xs, l) ==
  /\ Len(xs) = Cardinality(Requests(l))
  /\ \A r \in Requests(l) : Matches(xs[Rank(l, r)], l, r)

ReplayInv ==
  /\ TypeOK
  /\ Numbered
  /\ executions \in Seq(Execution)
  /\ DictOf(approvals, log)
  /\ StateAsLogged
  /\ RecordsOf(executions, log)

LEMMA RecordsAre == RecordsOf(executions, log) <=> ExecutionsAsLogged
BY DEF RecordsOf, Matches, ExecutionsAsLogged, Rank

LEMMA DictCounts ==
  ASSUME NEW appr, NEW l, DictOf(appr, l)
  PROVE  Counted(appr) = ActiveApprovers(l, now)
<1>1. ASSUME NEW a
      PROVE  a \in Counted(appr) <=> a \in ActiveApprovers(l, now)
  BY DEF DictOf, Counted, ActiveApprovers
<1>. QED
  BY <1>1

\* Reading a row extends the log by it.
LEMMA ReadExtends ==
  ASSUME Numbered, NEW row, Read(row)
  PROVE  \E n \in Nat : /\ DOMAIN log = 0 .. (n - 1)
                        /\ log' = Extended(log, n, row)
<1>1. PICK n \in Nat : DOMAIN log = 0 .. (n - 1)
  BY DEF Numbered
<1>2. Cardinality(DOMAIN log) = n
  BY <1>1, FS_Interval
<1>. QED
  BY <1>1, <1>2 DEF Read, Extended

LEMMA InitReplayInv ==
  ASSUME Init
  PROVE  ReplayInv
<1>1. TypeOK /\ Numbered /\ executions \in Seq(Execution)
  <2>1. Numbered
    <3>1. 0 \in Nat /\ DOMAIN log = 0 .. (0 - 1)
      BY DEF Init, EmptyLog
    <3>. QED
      BY <3>1 DEF Numbered
  <2>2. executions \in Seq(Execution)
    BY DEF Init
  <2>3. DOMAIN log = {} /\ DOMAIN approvals = {} /\ DOMAIN executions = {}
    BY DEF Init, EmptyLog
  <2>. QED
    BY <2>1, <2>2, <2>3 DEF Init, TypeOK
<1>2. DictOf(approvals, log)
  BY DEF Init, DictOf, EmptyLog
<1>3. StateAsLogged
  BY DEF Init, StateAsLogged, EmptyLog, Loadable, HasPolicy, StateOf, Rows
<1>4. RecordsOf(executions, log)
  <2>1. Requests(log) = {}
    BY DEF Init, EmptyLog, Requests, Rows
  <2>. QED
    BY <2>1, FS_EmptySet DEF Init, RecordsOf
<1>. QED
  BY <1>1, <1>2, <1>3, <1>4 DEF ReplayInv

-----------------------------------------------------------------------------
(***************************************************************************)
(* Types.                                                                  *)
(***************************************************************************)
\* what replay reads of an EXECUTION_FAILED row, and the run id it takes from it
IsFailure(row, run) ==
  /\ row \in AnyEvent
  /\ row.type = "EXECUTION_FAILED"
  /\ run \in SUBSET Nat
  /\ run = IF NamesRun(row) THEN {row.run} ELSE {}

LEMMA NextFails ==
  IsFailure(Failed, {}) /\ \A r \in RunIds : IsFailure(FailedRun(r), {r})
<1>1. IsFailure(Failed, {})
  BY FailuresNameRuns DEF IsFailure, Failed, AnyEvent, Event
<1>2. ASSUME NEW r \in RunIds
      PROVE  IsFailure(FailedRun(r), {r})
  <2>1. r \in Nat
    BY ReplayAssumption
  <2>2. FailedRun(r) \in AnyEvent
    BY <2>1 DEF FailedRun, AnyEvent
  <2>3. FailedRun(r).type = "EXECUTION_FAILED" /\ FailedRun(r).run = r
    BY DEF FailedRun
  <2>. QED
    BY <2>1, <2>2, <2>3, FailuresNameRuns DEF IsFailure
<1>. QED
  BY <1>1, <1>2

LEMMA ReadTypes ==
  ASSUME TypeOK, Numbered, NEW row \in AnyEvent, Read(row)
  PROVE  /\ Numbered'
         /\ DOMAIN log' \subseteq Nat
         /\ \A s \in DOMAIN log' : log'[s] \in AnyEvent
         /\ now' \in Times
<1>1. PICK n \in Nat : DOMAIN log = 0 .. (n - 1) /\ log' = Extended(log, n, row)
  BY ReadExtends
<1>2. /\ DOMAIN log' = 0 .. ((n + 1) - 1)
      /\ log'[n] = row
      /\ \A s \in 0 .. (n - 1) : log'[s] = log[s]
  BY <1>1, ExtendedLog
<1>3. \A s \in 0 .. ((n + 1) - 1) : s \in 0 .. (n - 1) \/ s = n
  OBVIOUS
<1>4. Numbered'
  BY <1>2 DEF Numbered
<1>. QED
  BY <1>1, <1>2, <1>3, <1>4 DEF TypeOK, Read

LEMMA OnLatestTypes ==
  ASSUME executions \in Seq(Execution), NEW x, Len(executions) > 0 => x \in Execution, OnLatest(x)
  PROVE  executions' \in Seq(Execution)
<1>1. \A i \in 1 .. Len(executions) : executions'[i] \in Execution
  BY DEF OnLatest
<1>2. executions' = [i \in 1 .. Len(executions) |-> executions'[i]]
  BY DEF OnLatest
<1>. QED
  BY <1>1, <1>2, IsASeq

LEMMA TypesKept ==
  ASSUME TypeOK, Numbered, executions \in Seq(Execution), Next
  PROVE  TypeOK' /\ Numbered' /\ executions' \in Seq(Execution)
<1> USE ReplayAssumption
<1>1. ASSUME NEW xs \in Seq(Execution)
      PROVE  \A i \in DOMAIN xs : xs[i] \in Execution
  OBVIOUS
<1>2. Len(executions) > 0 => Latest \in Execution
  BY DEF Latest
<1>3. ASSUME NEW m \in Modes, ApplyCreated(m)
      PROVE  TypeOK' /\ Numbered' /\ executions' \in Seq(Execution)
  <2>1. Created(m) \in AnyEvent
    BY DEF Created, Event, AnyEvent
  <2>. QED
    BY <1>3, <2>1, ReadTypes DEF TypeOK, ApplyCreated
<1>4. ASSUME NEW m \in Modes, ApplyRequested(m)
      PROVE  TypeOK' /\ Numbered' /\ executions' \in Seq(Execution)
  <2>1. Requested(m, now) \in AnyEvent
    BY DEF Requested, Event, AnyEvent, TypeOK
  <2>2. executions' \in Seq(Execution)
    <3>1. [mode |-> m, digest |-> {}, outcome |-> "none", run |-> {}] \in Execution
      BY DEF Execution
    <3>. QED
      BY <1>4, <3>1, AppendProperties DEF ApplyRequested
  <2>. QED
    BY <1>1, <1>4, <2>1, <2>2, ReadTypes DEF TypeOK, ApplyRequested
<1>5. ASSUME NEW m \in Modes, ApplyStarted(m)
      PROVE  TypeOK' /\ Numbered' /\ executions' \in Seq(Execution)
  <2>1. Started(m) \in AnyEvent
    BY DEF Started, Event, AnyEvent
  <2>2. executions' \in Seq(Execution)
    <3>1. Len(executions) > 0 => [Latest EXCEPT !.digest = {m}] \in Execution
      BY <1>2 DEF Execution
    <3>. QED
      BY <1>5, <3>1, OnLatestTypes DEF ApplyStarted
  <2>. QED
    BY <1>1, <1>5, <2>1, <2>2, ReadTypes DEF TypeOK, ApplyStarted
<1>6. ASSUME NEW p \in Offered, ApplyPolicyAttached(p)
      PROVE  TypeOK' /\ Numbered' /\ executions' \in Seq(Execution)
  <2>1. PolicyAttached(p) \in AnyEvent
    BY DEF PolicyAttached, Event, AnyEvent
  <2>. QED
    BY <1>6, <2>1, ReadTypes DEF TypeOK, ApplyPolicyAttached, ValidPolicy
<1>7. ASSUME NEW a \in Actors, NEW e \in Expiries, ApplyGranted(a, e)
      PROVE  TypeOK' /\ Numbered' /\ executions' \in Seq(Execution)
  <2>1. Granted(a, e) \in AnyEvent
    BY DEF Granted, Event, AnyEvent
  <2>2. [expires |-> e, revoked |-> FALSE] \in Approval
    BY DEF Approval
  <2>. QED
    BY <1>7, <2>1, <2>2, ReadTypes DEF TypeOK, ApplyGranted, UpdateApprovalState
<1>8. ASSUME NEW a \in Actors, ApplyRevoked(a)
      PROVE  TypeOK' /\ Numbered' /\ executions' \in Seq(Execution)
  <2>1. Revoked(a) \in AnyEvent
    BY DEF Revoked, Event, AnyEvent
  <2>2. \A x \in Approval : [x EXCEPT !.revoked = TRUE] \in Approval
    BY DEF Approval
  <2>. QED
    BY <1>8, <2>1, <2>2, ReadTypes DEF TypeOK, ApplyRevoked, UpdateApprovalState
<1>9. ASSUME NEW run \in RunIds, ApplyCompleted(run)
      PROVE  TypeOK' /\ Numbered' /\ executions' \in Seq(Execution)
  <2>1. Completed(run) \in AnyEvent
    BY DEF Completed, Event, AnyEvent
  <2>2. executions' \in Seq(Execution)
    <3>1. Len(executions) > 0 =>
            [Latest EXCEPT !.outcome = "EXECUTION_COMPLETED", !.run = {run}] \in Execution
      BY <1>2 DEF Execution, OutcomeTypes
    <3>. QED
      BY <1>9, <3>1, OnLatestTypes DEF ApplyCompleted
  <2>. QED
    BY <1>1, <1>9, <2>1, <2>2, ReadTypes DEF TypeOK, ApplyCompleted
<1>10. ASSUME NEW row, NEW run, IsFailure(row, run), ApplyFailed(row, run)
       PROVE  TypeOK' /\ Numbered' /\ executions' \in Seq(Execution)
  <2>1. row \in AnyEvent /\ run \in SUBSET Nat
    BY <1>10 DEF IsFailure
  <2>2. executions' \in Seq(Execution)
    <3>1. Len(executions) > 0 =>
            [Latest EXCEPT !.outcome = "EXECUTION_FAILED", !.run = run] \in Execution
      BY <1>2, <2>1 DEF Execution, OutcomeTypes
    <3>. QED
      BY <1>10, <3>1, OnLatestTypes DEF ApplyFailed
  <2>. QED
    BY <1>1, <1>10, <2>1, <2>2, ReadTypes DEF TypeOK, ApplyFailed
<1>. QED
  BY <1>3, <1>4, <1>5, <1>6, <1>7, <1>8, <1>9, <1>10, NextFails DEF Next

-----------------------------------------------------------------------------
(***************************************************************************)
(* Approvals.                                                              *)
(***************************************************************************)
\* Rows about something else leave the approvals alone.
LEMMA DictSame ==
  ASSUME NEW appr, NEW n \in Nat, NEW l, DOMAIN l = 0 .. (n - 1), NEW row, row.type \notin ApprovalTypes,
         DictOf(appr, l)
  PROVE  DictOf(appr, Extended(l, n, row))
<1> DEFINE l2 == Extended(l, n, row)
<1>1. DOMAIN l2 = (0 .. (n - 1)) \cup {n} /\ \A g \in 0 .. (n - 1) : l2[g] = l[g]
  BY ExtendedLog DEF Extended
<1>2. \A a : ~ Stands(l2, n, a) /\ \A g \in 0 .. (n - 1) : Stands(l2, g, a) <=> Stands(l, g, a)
  BY ExtendedStands DEF ApprovalTypes
<1> HIDE DEF l2
<1>3. \A a \in Actors : (\E g \in DOMAIN l2 : Stands(l2, g, a)) <=> \E g \in DOMAIN l : Stands(l, g, a)
  BY <1>1, <1>2
<1>4. \A a \in Actors, g \in DOMAIN l2 : Stands(l2, g, a) => appr[a].expires = l2[g].expires
  <2> SUFFICES ASSUME NEW a \in Actors, NEW g \in DOMAIN l2, Stands(l2, g, a)
               PROVE  appr[a].expires = l2[g].expires
    OBVIOUS
  <2>1. g \in 0 .. (n - 1) /\ Stands(l, g, a) /\ l2[g] = l[g]
    BY <1>1, <1>2
  <2>. QED
    BY <2>1 DEF DictOf
<1>. QED
  BY <1>3, <1>4 DEF DictOf, l2

LEMMA DictGranted ==
  ASSUME NEW appr, NEW n \in Nat, NEW l, DOMAIN l = 0 .. (n - 1), NEW a \in Actors, NEW e,
         DictOf(appr, l)
  PROVE  DictOf([b \in DOMAIN appr \cup {a} |->
                   IF b = a THEN [expires |-> e, revoked |-> FALSE] ELSE appr[b]],
                Extended(l, n, Granted(a, e)))
<1> DEFINE l2 == Extended(l, n, Granted(a, e))
           new == [b \in DOMAIN appr \cup {a} |->
                     IF b = a THEN [expires |-> e, revoked |-> FALSE] ELSE appr[b]]
<1>1. /\ DOMAIN l2 = (0 .. (n - 1)) \cup {n}
      /\ \A g \in 0 .. (n - 1) : l2[g] = l[g]
      /\ l2[n] = Granted(a, e)
  BY ExtendedLog DEF Extended
<1>2. \A b : /\ Stands(l2, n, b) <=> b = a
             /\ \A g \in 0 .. (n - 1) : Stands(l2, g, b) <=> Stands(l, g, b) /\ b # a
  <2>1. /\ Granted(a, e).type = "APPROVAL_GRANTED"
        /\ Granted(a, e).type \in ApprovalTypes
        /\ Granted(a, e).actor = a
    BY DEF Granted, ApprovalTypes
  <2>. QED
    BY <2>1, ExtendedStands
<1>3. /\ DOMAIN new = DOMAIN appr \cup {a}
      /\ new[a].expires = e /\ new[a].revoked = FALSE
      /\ \A b \in DOMAIN appr : b # a => new[b] = appr[b]
  OBVIOUS
<1>4. l2[n].expires = e
  BY <1>1 DEF Granted
<1> HIDE DEF l2, new
<1>5. \A b \in Actors :
        /\ (b \in DOMAIN new /\ ~new[b].revoked) <=> \E g \in DOMAIN l2 : Stands(l2, g, b)
        /\ \A g \in DOMAIN l2 : Stands(l2, g, b) => new[b].expires = l2[g].expires
  <2> TAKE b \in Actors
  <2>1. CASE b = a
    BY <1>1, <1>2, <1>3, <1>4, <2>1
  <2>2. CASE b # a
    <3>1. \A g \in DOMAIN l2 : Stands(l2, g, b) <=> g \in 0 .. (n - 1) /\ Stands(l, g, b)
      BY <1>1, <1>2, <2>2
    <3>2. (b \in DOMAIN new /\ ~new[b].revoked) <=> (b \in DOMAIN appr /\ ~appr[b].revoked)
      BY <1>3, <2>2
    <3>3. (\E g \in DOMAIN l2 : Stands(l2, g, b)) <=> \E g \in DOMAIN l : Stands(l, g, b)
      BY <1>1, <3>1
    <3>4. ASSUME NEW g \in DOMAIN l2, Stands(l2, g, b) PROVE new[b].expires = l2[g].expires
      <4>1. g \in DOMAIN l /\ Stands(l, g, b) /\ l2[g] = l[g]
        BY <1>1, <3>1, <3>4
      <4>2. b \in DOMAIN appr /\ appr[b].expires = l[g].expires
        BY <4>1 DEF DictOf
      <4>. QED
        BY <1>3, <2>2, <4>1, <4>2
    <3>. QED
      BY <3>2, <3>3, <3>4 DEF DictOf
  <2>. QED
    BY <2>1, <2>2
<1>. QED
  BY <1>3, <1>5 DEF DictOf, l2, new

LEMMA DictRevoked ==
  ASSUME NEW appr, \A b \in DOMAIN appr : appr[b] \in Approval,
         NEW n \in Nat, NEW l, DOMAIN l = 0 .. (n - 1), NEW a \in Actors, DictOf(appr, l)
  PROVE  DictOf([b \in DOMAIN appr |-> IF b = a THEN [appr[b] EXCEPT !.revoked = TRUE] ELSE appr[b]],
                Extended(l, n, Revoked(a)))
<1> DEFINE l2 == Extended(l, n, Revoked(a))
           new == [b \in DOMAIN appr |-> IF b = a THEN [appr[b] EXCEPT !.revoked = TRUE] ELSE appr[b]]
<1>1. /\ DOMAIN l2 = (0 .. (n - 1)) \cup {n}
      /\ \A g \in 0 .. (n - 1) : l2[g] = l[g]
  BY ExtendedLog DEF Extended
<1>2. \A b : /\ ~ Stands(l2, n, b)
             /\ \A g \in 0 .. (n - 1) : Stands(l2, g, b) <=> Stands(l, g, b) /\ b # a
  <2>1. /\ Revoked(a).type # "APPROVAL_GRANTED"
        /\ Revoked(a).type \in ApprovalTypes
        /\ Revoked(a).actor = a
    BY DEF Revoked, ApprovalTypes
  <2>. QED
    BY <2>1, ExtendedStands
<1>3. /\ DOMAIN new = DOMAIN appr
      /\ \A b \in DOMAIN appr : b # a => new[b] = appr[b]
      /\ a \in DOMAIN appr => new[a].revoked
  BY DEF Approval
<1> HIDE DEF l2, new
<1>4. \A b \in Actors :
        /\ (b \in DOMAIN new /\ ~new[b].revoked) <=> \E g \in DOMAIN l2 : Stands(l2, g, b)
        /\ \A g \in DOMAIN l2 : Stands(l2, g, b) => new[b].expires = l2[g].expires
  <2> TAKE b \in Actors
  <2>1. CASE b = a
    BY <1>1, <1>2, <1>3, <2>1
  <2>2. CASE b # a
    <3>1. \A g \in DOMAIN l2 : Stands(l2, g, b) <=> g \in 0 .. (n - 1) /\ Stands(l, g, b)
      BY <1>1, <1>2, <2>2
    <3>2. (b \in DOMAIN new /\ ~new[b].revoked) <=> (b \in DOMAIN appr /\ ~appr[b].revoked)
      BY <1>3, <2>2
    <3>3. (\E g \in DOMAIN l2 : Stands(l2, g, b)) <=> \E g \in DOMAIN l : Stands(l, g, b)
      BY <1>1, <3>1
    <3>4. ASSUME NEW g \in DOMAIN l2, Stands(l2, g, b) PROVE new[b].expires = l2[g].expires
      <4>1. g \in DOMAIN l /\ Stands(l, g, b) /\ l2[g] = l[g]
        BY <1>1, <3>1, <3>4
      <4>2. b \in DOMAIN appr /\ appr[b].expires = l[g].expires
        BY <4>1 DEF DictOf
      <4>. QED
        BY <1>3, <2>2, <4>1, <4>2
    <3>. QED
      BY <3>2, <3>3, <3>4 DEF DictOf
  <2>. QED
    BY <2>1, <2>2
<1>. QED
  BY <1>3, <1>4 DEF DictOf, l2, new

LEMMA DictKept ==
  ASSUME ReplayInv, Next
  PROVE  DictOf(approvals', log')
<1>1. /\ Numbered
      /\ DictOf(approvals, log)
      /\ \A b \in DOMAIN approvals : approvals[b] \in Approval
  BY DEF ReplayInv, TypeOK
<1>2. ASSUME NEW row, Read(row), row.type \notin ApprovalTypes, approvals' = approvals
      PROVE  DictOf(approvals', log')
  BY <1>1, <1>2, ReadExtends, DictSame
<1>3. ASSUME NEW m \in Modes, ApplyCreated(m) \/ ApplyRequested(m) \/ ApplyStarted(m)
      PROVE  DictOf(approvals', log')
  BY <1>2, <1>3 DEF ApplyCreated, ApplyRequested, ApplyStarted, Created, Requested, Started, ApprovalTypes
<1>4. ASSUME NEW p \in Offered, ApplyPolicyAttached(p)
      PROVE  DictOf(approvals', log')
  BY <1>2, <1>4 DEF ApplyPolicyAttached, PolicyAttached, ApprovalTypes
<1>5. ASSUME NEW a \in Actors, NEW e \in Expiries, ApplyGranted(a, e)
      PROVE  DictOf(approvals', log')
  <2>1. PICK n \in Nat : DOMAIN log = 0 .. (n - 1) /\ log' = Extended(log, n, Granted(a, e))
    BY <1>1, <1>5, ReadExtends DEF ApplyGranted
  <2>2. DictOf([b \in DOMAIN approvals \cup {a} |->
                  IF b = a THEN [expires |-> e, revoked |-> FALSE] ELSE approvals[b]],
               Extended(log, n, Granted(a, e)))
    BY <1>1, <2>1, DictGranted
  <2>. QED
    BY <1>5, <2>1, <2>2 DEF ApplyGranted
<1>6. ASSUME NEW a \in Actors, ApplyRevoked(a)
      PROVE  DictOf(approvals', log')
  BY <1>1, <1>6, ReadExtends, DictRevoked DEF ApplyRevoked
<1>7. ASSUME NEW run \in RunIds, ApplyCompleted(run)
      PROVE  DictOf(approvals', log')
  BY <1>2, <1>7 DEF ApplyCompleted, Completed, ApprovalTypes
<1>8. ASSUME NEW row, NEW run, IsFailure(row, run), ApplyFailed(row, run)
      PROVE  DictOf(approvals', log')
  BY <1>2, <1>8 DEF ApplyFailed, IsFailure, ApprovalTypes
<1>. QED
  BY <1>3, <1>4, <1>5, <1>6, <1>7, <1>8, NextFails DEF Next

-----------------------------------------------------------------------------
(***************************************************************************)
(* State.                                                                  *)
(***************************************************************************)
\* A row that sets a state, other than a policy.
LEMMA StateIsSet ==
  ASSUME StateAsLogged, ~raised, ~raised', now' = now, policy' = policy, NEW n \in Nat, DOMAIN log = 0 .. (n - 1),
         NEW row, row.type \in SettingTypes, row.type # "POLICY_ATTACHED",
         log' = Extended(log, n, row), state' = StateAfter[row.type]
  PROVE  StateAsLogged'
<1>1. HasPolicy(log') = HasPolicy(log) /\ (HasPolicy(log) => PolicyOf(log') = PolicyOf(log)) /\ Loadable(log')
  BY SamePolicy DEF StateAsLogged
<1>2. state' = StateOf(log', now')
  BY StateAtSetting
<1>. QED
  BY <1>1, <1>2 DEF StateAsLogged

\* A grant or a revocation.
LEMMA StateIsCounted ==
  ASSUME StateAsLogged, ~raised, ~raised', now' = now, policy' = policy, NEW n \in Nat, DOMAIN log = 0 .. (n - 1),
         NEW row, row.type \in ApprovalTypes,
         log' = Extended(log, n, row), DictOf(approvals', log'), UpdateApprovalState
  PROVE  StateAsLogged'
<1>1. row.type # "POLICY_ATTACHED"
  BY DEF ApprovalTypes
<1>2. HasPolicy(log') = HasPolicy(log) /\ (HasPolicy(log) => PolicyOf(log') = PolicyOf(log)) /\ Loadable(log')
  BY <1>1, SamePolicy DEF StateAsLogged
<1>3. /\ state = StateOf(log, now)
      /\ policy = IF HasPolicy(log) THEN {PolicyOf(log)} ELSE {}
  BY DEF StateAsLogged
<1>4. Counted(approvals') = ActiveApprovers(log', now)
  BY DictCounts
<1>5. CASE state \in {"pending_approval", "approved"}
  <2>1. HasPolicy(log)
    BY <1>3, <1>5, StateNeedsPolicy
  <2>2. (\E p \in policy : Cardinality(Counted(approvals')) >= p.min) <=> IsApproved(log', now)
    BY <1>2, <1>3, <1>4, <2>1 DEF IsApproved
  <2>3. StateOf(log', now) = IF IsApproved(log', now) THEN "approved" ELSE "pending_approval"
    BY <1>3, <1>5, StateAtApproval
  <2>4. state' = StateOf(log', now')
    BY <1>5, <2>2, <2>3 DEF UpdateApprovalState
  <2>. QED
    BY <1>2, <1>3, <2>4 DEF StateAsLogged
<1>6. CASE state \notin {"pending_approval", "approved"}
  <2>1. StateOf(log', now) = state
    BY <1>3, <1>6, StateAtApproval
  <2>2. state' = StateOf(log', now')
    BY <1>6, <2>1 DEF UpdateApprovalState
  <2>. QED
    BY <1>2, <1>3, <2>2 DEF StateAsLogged
<1>. QED
  BY <1>5, <1>6

LEMMA StateKept ==
  ASSUME ReplayInv, Next, DictOf(approvals', log')
  PROVE  StateAsLogged'
<1>1. Numbered /\ StateAsLogged /\ raised \in BOOLEAN
  BY DEF ReplayInv, TypeOK
<1>2. ASSUME NEW m \in Modes, ApplyCreated(m)
      PROVE  StateAsLogged'
  <2>1. Created(m).type = "DECISION_CREATED" /\ StateAfter["DECISION_CREATED"] = "draft"
    BY DEF Created, StateAfter
  <2>2. PICK n \in Nat : DOMAIN log = 0 .. (n - 1) /\ log' = Extended(log, n, Created(m))
    BY <1>1, <1>2, ReadExtends DEF ApplyCreated
  <2>. QED
    BY <1>1, <1>2, <2>1, <2>2, SettingTypesAre, StateIsSet DEF ApplyCreated, Read
<1>3. ASSUME NEW m \in Modes, ApplyStarted(m)
      PROVE  StateAsLogged'
  <2>1. Started(m).type = "EXECUTION_STARTED" /\ StateAfter["EXECUTION_STARTED"] = "executing"
    BY DEF Started, StateAfter
  <2>2. PICK n \in Nat : DOMAIN log = 0 .. (n - 1) /\ log' = Extended(log, n, Started(m))
    BY <1>1, <1>3, ReadExtends DEF ApplyStarted
  <2>. QED
    BY <1>1, <1>3, <2>1, <2>2, SettingTypesAre, StateIsSet DEF ApplyStarted, Read
<1>4. ASSUME NEW run \in RunIds, ApplyCompleted(run)
      PROVE  StateAsLogged'
  <2>1. /\ Completed(run).type = "EXECUTION_COMPLETED" /\ StateAfter["EXECUTION_COMPLETED"] = "completed"
        /\ Completed(run).type \in SettingTypes
    BY SettingTypesAre DEF Completed, StateAfter, OutcomeTypes
  <2>2. PICK n \in Nat : DOMAIN log = 0 .. (n - 1) /\ log' = Extended(log, n, Completed(run))
    BY <1>1, <1>4, ReadExtends DEF ApplyCompleted
  <2>. QED
    BY <1>1, <1>4, <2>1, <2>2, StateIsSet DEF ApplyCompleted, Read
<1>5. ASSUME NEW row, NEW run, IsFailure(row, run), ApplyFailed(row, run)
      PROVE  StateAsLogged'
  <2>1. /\ row.type = "EXECUTION_FAILED" /\ StateAfter["EXECUTION_FAILED"] = "failed"
        /\ row.type \in SettingTypes
    BY <1>5, SettingTypesAre DEF IsFailure, StateAfter, OutcomeTypes
  <2>2. PICK n \in Nat : DOMAIN log = 0 .. (n - 1) /\ log' = Extended(log, n, row)
    BY <1>1, <1>5, ReadExtends DEF ApplyFailed
  <2>. QED
    BY <1>1, <1>5, <2>1, <2>2, StateIsSet DEF ApplyFailed, Read
<1>6. ASSUME NEW m \in Modes, ApplyRequested(m)
      PROVE  StateAsLogged'
  <2>1. Requested(m, now).type = "EXECUTION_REQUESTED"
    BY DEF Requested
  <2>2. PICK n \in Nat : DOMAIN log = 0 .. (n - 1) /\ log' = Extended(log, n, Requested(m, now))
    BY <1>1, <1>6, ReadExtends DEF ApplyRequested
  <2>3. HasPolicy(log') = HasPolicy(log) /\ (HasPolicy(log) => PolicyOf(log') = PolicyOf(log)) /\ (Loadable(log') <=> Loadable(log))
    BY <2>1, <2>2, SamePolicy
  <2>4. StateOf(log', now) = StateOf(log, now)
    BY <2>1, <2>2, StateAtRequest
  <2>. QED
    BY <1>1, <1>6, <2>3, <2>4 DEF ApplyRequested, Read, StateAsLogged
<1>7. ASSUME NEW p \in Offered, ApplyPolicyAttached(p)
      PROVE  StateAsLogged'
  <2>1. /\ PolicyAttached(p).type = "POLICY_ATTACHED" /\ StateAfter["POLICY_ATTACHED"] = "pending_approval"
        /\ PolicyAttached(p).type \in SettingTypes
    BY SettingTypesAre DEF PolicyAttached, StateAfter
  <2>2. PICK n \in Nat : DOMAIN log = 0 .. (n - 1) /\ log' = Extended(log, n, PolicyAttached(p))
    BY <1>1, <1>7, ReadExtends DEF ApplyPolicyAttached
  <2>3. HasPolicy(log') /\ PolicyOf(log') = p /\ (Loadable(log') <=> Loadable(log) /\ ValidPolicy(p))
    BY <2>2, NewPolicy
  <2>4. StateOf(log', now) = "pending_approval"
    BY <2>1, <2>2, StateAtSetting
  <2>. QED
    BY <1>1, <1>7, <2>3, <2>4 DEF ApplyPolicyAttached, Read, StateAsLogged
<1>8. ASSUME NEW a \in Actors, NEW e \in Expiries, ApplyGranted(a, e)
      PROVE  StateAsLogged'
  <2>1. Granted(a, e).type \in ApprovalTypes
    BY DEF Granted, ApprovalTypes
  <2>2. PICK n \in Nat : DOMAIN log = 0 .. (n - 1) /\ log' = Extended(log, n, Granted(a, e))
    BY <1>1, <1>8, ReadExtends DEF ApplyGranted
  <2>. QED
    BY <1>1, <1>8, <2>1, <2>2, StateIsCounted DEF ApplyGranted, Read
<1>9. ASSUME NEW a \in Actors, ApplyRevoked(a)
      PROVE  StateAsLogged'
  <2>1. Revoked(a).type \in ApprovalTypes
    BY DEF Revoked, ApprovalTypes
  <2>2. PICK n \in Nat : DOMAIN log = 0 .. (n - 1) /\ log' = Extended(log, n, Revoked(a))
    BY <1>1, <1>9, ReadExtends DEF ApplyRevoked
  <2>. QED
    BY <1>1, <1>9, <2>1, <2>2, StateIsCounted DEF ApplyRevoked, Read
<1>. QED
  BY <1>2, <1>3, <1>4, <1>5, <1>6, <1>7, <1>8, <1>9, NextFails DEF Next

-----------------------------------------------------------------------------
(***************************************************************************)
(* Executions.                                                             *)
(***************************************************************************)
\* The record of a request reads only rows of its span.
LEMMA RecordRowsOld ==
  ASSUME NEW n \in Nat, NEW l, DOMAIN l = 0 .. (n - 1), NEW row, NEW r, NEW T, RowsOf(l, r, T) # {}
  PROVE  /\ Last(RowsOf(l, r, T)) \in RowsOf(l, r, T)
         /\ Extended(l, n, row)[Last(RowsOf(l, r, T))] = l[Last(RowsOf(l, r, T))]
<1>1. RowsOf(l, r, T) \subseteq 0 .. (n - 1)
  BY DEF RowsOf, Span
<1>2. Last(RowsOf(l, r, T)) \in RowsOf(l, r, T)
  BY <1>1, LastIsLast
<1>. QED
  BY <1>1, <1>2, ExtendedLog

\* A record none of whose rows are new matches as before.
LEMMA MatchesSame ==
  ASSUME NEW x, NEW n \in Nat, NEW l, DOMAIN l = 0 .. (n - 1), NEW row, NEW r \in Requests(l),
         Matches(x, l, r),
         Outcomes(Extended(l, n, row), r) = Outcomes(l, r),
         Starts(Extended(l, n, row), r) = Starts(l, r)
  PROVE  Matches(x, Extended(l, n, row), r)
<1> DEFINE l2 == Extended(l, n, row)
<1>1. l2[r] = l[r]
  BY ExtendedLog DEF Requests, Rows
<1>2. Outcomes(l, r) # {} => l2[Last(Outcomes(l, r))] = l[Last(Outcomes(l, r))]
  BY RecordRows, RecordRowsOld
<1>3. Starts(l, r) # {} => l2[Last(Starts(l, r))] = l[Last(Starts(l, r))]
  BY RecordRows, RecordRowsOld
<1> HIDE DEF l2
<1>4. Outcomes(l2, r) = Outcomes(l, r) /\ Starts(l2, r) = Starts(l, r)
  BY DEF l2
<1>. QED
  BY <1>1, <1>2, <1>3, <1>4 DEF Matches, HasRun, RunOf, l2

\* A row that belongs to no record.
LEMMA RecordsSame ==
  ASSUME NEW xs, NEW n \in Nat, NEW l, DOMAIN l = 0 .. (n - 1), NEW row,
         row.type \notin OutcomeTypes \cup {"EXECUTION_STARTED", "EXECUTION_REQUESTED"},
         RecordsOf(xs, l)
  PROVE  RecordsOf(xs, Extended(l, n, row))
<1> DEFINE l2 == Extended(l, n, row)
<1>1. Requests(l2) = Requests(l)
  BY ExtendedRequests
<1>2. ASSUME NEW r \in Requests(l)
      PROVE  Rank(l2, r) = Rank(l, r) /\ Outcomes(l2, r) = Outcomes(l, r) /\ Starts(l2, r) = Starts(l, r)
  <2>1. Rank(l2, r) = Rank(l, r)
    BY <1>1 DEF Rank
  <2>2. RowsOf(l2, r, OutcomeTypes) = RowsOf(l, r, OutcomeTypes)
    BY RowGoesToLatest
  <2>3. RowsOf(l2, r, {"EXECUTION_STARTED"}) = RowsOf(l, r, {"EXECUTION_STARTED"})
    BY RowGoesToLatest
  <2>. QED
    BY <2>1, <2>2, <2>3, RecordRows
<1>3. ASSUME NEW r \in Requests(l)
      PROVE  Matches(xs[Rank(l, r)], l2, r)
  BY <1>2, MatchesSame DEF RecordsOf
<1> HIDE DEF l2
<1>. QED
  BY <1>1, <1>2, <1>3 DEF RecordsOf, l2

LEMMA RecordsRequested ==
  ASSUME NEW xs \in Seq(Execution), NEW n \in Nat, NEW l, DOMAIN l = 0 .. (n - 1), NEW m \in Modes, NEW t,
         RecordsOf(xs, l)
  PROVE  RecordsOf(Append(xs, [mode |-> m, digest |-> {}, outcome |-> "none", run |-> {}]),
                   Extended(l, n, Requested(m, t)))
<1> DEFINE row == Requested(m, t)
           l2  == Extended(l, n, row)
           x   == [mode |-> m, digest |-> {}, outcome |-> "none", run |-> {}]
           ys  == Append(xs, x)
<1>1. row.type = "EXECUTION_REQUESTED" /\ row.mode = m /\ x \in Execution
  BY DEF Requested, Execution
<1>2. l2[n] = row
  BY ExtendedLog DEF Extended
<1>3. /\ Len(ys) = Len(xs) + 1
      /\ ys[Len(xs) + 1] = x
      /\ \A i \in 1 .. Len(xs) : ys[i] = xs[i]
  BY <1>1, AppendProperties
<1> HIDE DEF row, ys
<1>4. /\ Requests(l2) = Requests(l) \cup {n}
      /\ Cardinality(Requests(l2)) = Cardinality(Requests(l)) + 1
      /\ Rank(l2, n) = Cardinality(Requests(l)) + 1
      /\ \A r \in Requests(l) : Rank(l2, r) = Rank(l, r)
  BY <1>1, RankAfterRequest
<1>5. Matches(x, l2, n)
  <2>1. Outcomes(l2, n) = {} /\ Starts(l2, n) = {}
    BY NothingAfterNewRequest, RecordRows
  <2> HIDE DEF l2
  <2>. QED
    BY <1>1, <1>2, <2>1 DEF Matches, HasRun
<1>6. ASSUME NEW r \in Requests(l)
      PROVE  Matches(ys[Rank(l, r)], l2, r)
  <2>1. Outcomes(l2, r) = Outcomes(l, r) /\ Starts(l2, r) = Starts(l, r)
    BY <1>1, RequestKeepsRecords, RecordRows
  <2>2. Rank(l, r) \in 1 .. Len(xs)
    BY Ranks DEF RecordsOf
  <2>3. ys[Rank(l, r)] = xs[Rank(l, r)]
    BY <1>3, <2>2
  <2>. QED
    BY <2>1, <2>3, MatchesSame DEF RecordsOf
<1> HIDE DEF l2, x
<1>7. Len(ys) = Cardinality(Requests(l2))
  BY <1>3, <1>4 DEF RecordsOf
<1>8. \A r \in Requests(l2) : Matches(ys[Rank(l2, r)], l2, r)
  <2>1. ys[Rank(l2, n)] = x
    BY <1>3, <1>4 DEF RecordsOf
  <2>. QED
    BY <1>4, <1>5, <1>6, <2>1
<1>. QED
  BY <1>7, <1>8 DEF RecordsOf, l2, x, ys, row

\* A row about an execution changes the latest record, and only that.
LEMMA RecordsUpdated ==
  ASSUME NEW xs \in Seq(Execution), NEW n \in Nat, NEW l, DOMAIN l = 0 .. (n - 1), NEW row,
         row.type \in OutcomeTypes \cup {"EXECUTION_STARTED"}, NEW x,
         RecordsOf(xs, l),
         \A r \in Requests(l) : /\ \A q \in Requests(l) : q <= r
                                /\ Matches(xs[Len(xs)], l, r)
                                => Matches(x, Extended(l, n, row), r)
  PROVE  RecordsOf([i \in DOMAIN xs |-> IF i = Len(xs) THEN x ELSE xs[i]], Extended(l, n, row))
<1> DEFINE l2 == Extended(l, n, row)
           ys == [i \in DOMAIN xs |-> IF i = Len(xs) THEN x ELSE xs[i]]
<1>1. row.type # "EXECUTION_REQUESTED"
  BY DEF OutcomeTypes
<1>2. Requests(l2) = Requests(l) /\ Requests(l) \subseteq 0 .. (n - 1)
  BY <1>1, ExtendedRequests
<1>3. Len(ys) = Len(xs) /\ \A i \in 1 .. Len(xs) : ys[i] = IF i = Len(xs) THEN x ELSE xs[i]
  OBVIOUS
<1>4. Len(xs) = Cardinality(Requests(l)) /\ \A r \in Requests(l) : Matches(xs[Rank(l, r)], l, r)
  BY DEF RecordsOf
<1>5. ASSUME NEW r \in Requests(l)
      PROVE  Matches(ys[Rank(l2, r)], l2, r)
  <2>1. Rank(l2, r) = Rank(l, r)
    BY <1>2 DEF Rank
  <2>2. Rank(l, r) \in 1 .. Len(xs) /\ (Rank(l, r) = Len(xs) <=> \A q \in Requests(l) : q <= r)
    BY <1>4, Ranks
  <2>3. CASE \A q \in Requests(l) : q <= r
    <3>1. ys[Rank(l2, r)] = x /\ Matches(xs[Len(xs)], l, r)
      BY <1>3, <1>4, <2>1, <2>2, <2>3
    <3>. QED
      BY <2>3, <3>1
  <2>4. CASE ~ \A q \in Requests(l) : q <= r
    <3>1. ys[Rank(l2, r)] = xs[Rank(l, r)]
      BY <1>3, <2>1, <2>2, <2>4
    <3>2. Outcomes(l2, r) = Outcomes(l, r) /\ Starts(l2, r) = Starts(l, r)
      BY <1>1, <2>4, RowGoesToLatest, RecordRows
    <3>. QED
      BY <1>4, <3>1, <3>2, MatchesSame
  <2>. QED
    BY <2>3, <2>4
<1> HIDE DEF l2, ys
<1>. QED
  BY <1>2, <1>3, <1>4, <1>5 DEF RecordsOf, l2, ys

\* EXECUTION_STARTED sets the digest of the latest record.
LEMMA MatchesStarted ==
  ASSUME NEW x \in Execution, NEW n \in Nat, NEW l, DOMAIN l = 0 .. (n - 1), NEW m \in Modes,
         NEW r \in Requests(l), \A q \in Requests(l) : q <= r, Matches(x, l, r)
  PROVE  Matches([x EXCEPT !.digest = {m}], Extended(l, n, Started(m)), r)
<1> DEFINE row == Started(m)
           l2  == Extended(l, n, row)
           y   == [x EXCEPT !.digest = {m}]
<1>1. row.type = "EXECUTION_STARTED" /\ row.mode = m
  BY DEF Started
<1>2. y.mode = x.mode /\ y.digest = {m} /\ y.outcome = x.outcome /\ y.run = x.run
  BY DEF Execution
<1> HIDE DEF row, y
<1>3. l2[r] = l[r] /\ l2[n] = row
  BY ExtendedLog DEF Requests, Rows
<1>4. Outcomes(l2, r) = Outcomes(l, r)
  <2>1. row.type \notin OutcomeTypes
    BY <1>1 DEF OutcomeTypes
  <2>. QED
    BY <1>1, <2>1, RowGoesToLatest, RecordRows
<1>5. Starts(l2, r) = Starts(l, r) \cup {n} /\ Last(Starts(l2, r)) = n
  <2> DEFINE T == {"EXECUTION_STARTED"}
  <2>1. row.type \in T
    BY <1>1
  <2>2. row.type # "EXECUTION_REQUESTED"
    BY <1>1
  <2> HIDE DEF T
  <2>3. RowsOf(l, r, T) \subseteq 0 .. (n - 1) /\ RowsOf(l2, r, T) = RowsOf(l, r, T) \cup {n}
    BY <2>1, <2>2, RowGoesToLatest
  <2>. QED
    BY <2>3, LastIsNew, RecordRows DEF T
<1>6. Outcomes(l, r) # {} => l2[Last(Outcomes(l, r))] = l[Last(Outcomes(l, r))]
  BY RecordRows, RecordRowsOld
<1> HIDE DEF l2
<1>. QED
  BY <1>1, <1>2, <1>3, <1>4, <1>5, <1>6 DEF Matches, HasRun, RunOf, l2, y, row

\* An outcome sets the outcome and the run id: one that names no run takes the run id back.
LEMMA MatchesOutcome ==
  ASSUME NEW x \in Execution, NEW n \in Nat, NEW l, DOMAIN l = 0 .. (n - 1), NEW row, row.type \in OutcomeTypes,
         NEW run, run = IF NamesRun(row) THEN {row.run} ELSE {},
         NEW r \in Requests(l), \A q \in Requests(l) : q <= r, Matches(x, l, r)
  PROVE  Matches([x EXCEPT !.outcome = row.type, !.run = run], Extended(l, n, row), r)
<1> DEFINE l2 == Extended(l, n, row)
           y  == [x EXCEPT !.outcome = row.type, !.run = run]
<1>1. y.mode = x.mode /\ y.digest = x.digest /\ y.outcome = row.type /\ y.run = run
  BY DEF Execution
<1> HIDE DEF y
<1>2. l2[r] = l[r] /\ l2[n] = row
  BY ExtendedLog DEF Requests, Rows
<1>3. row.type # "EXECUTION_REQUESTED" /\ row.type # "EXECUTION_STARTED"
  BY DEF OutcomeTypes
<1>4. Starts(l2, r) = Starts(l, r)
  BY <1>3, RowGoesToLatest, RecordRows
<1>5. Outcomes(l2, r) = Outcomes(l, r) \cup {n} /\ Last(Outcomes(l2, r)) = n
  <2>1. RowsOf(l, r, OutcomeTypes) \subseteq 0 .. (n - 1)
        /\ RowsOf(l2, r, OutcomeTypes) = RowsOf(l, r, OutcomeTypes) \cup {n}
    BY <1>3, RowGoesToLatest
  <2>. QED
    BY <2>1, LastIsNew, RecordRows
<1>6. Starts(l, r) # {} => l2[Last(Starts(l, r))] = l[Last(Starts(l, r))]
  BY RecordRows, RecordRowsOld
<1> HIDE DEF l2
<1>. QED
  BY <1>1, <1>2, <1>4, <1>5, <1>6 DEF Matches, HasRun, RunOf, l2, y

LEMMA RecordsKept ==
  ASSUME ReplayInv, Next
  PROVE  RecordsOf(executions', log')
<1>1. Numbered /\ executions \in Seq(Execution) /\ RecordsOf(executions, log)
  BY DEF ReplayInv
<1>2. ASSUME NEW row, Read(row), executions' = executions,
             row.type \notin OutcomeTypes \cup {"EXECUTION_STARTED", "EXECUTION_REQUESTED"}
      PROVE  RecordsOf(executions', log')
  BY <1>1, <1>2, ReadExtends, RecordsSame
<1>3. ASSUME NEW row, Read(row), row.type \in OutcomeTypes \cup {"EXECUTION_STARTED"},
             NEW x, OnLatest(x),
             \A n \in Nat, r \in Requests(log) :
               /\ DOMAIN log = 0 .. (n - 1)
               /\ \A q \in Requests(log) : q <= r
               /\ Latest \in Execution
               /\ Matches(Latest, log, r)
               => Matches(x, Extended(log, n, row), r)
      PROVE  RecordsOf(executions', log')
  <2>1. PICK n \in Nat : DOMAIN log = 0 .. (n - 1) /\ log' = Extended(log, n, row)
    BY <1>1, <1>3, ReadExtends
  <2>2. ASSUME NEW r \in Requests(log), \A q \in Requests(log) : q <= r,
               Matches(executions[Len(executions)], log, r)
        PROVE  Matches(x, Extended(log, n, row), r)
    <3>1. Len(executions) \in 1 .. Len(executions)
      BY <1>1, <2>1, Ranks DEF RecordsOf
    <3>2. Latest \in Execution
      BY <1>1, <3>1 DEF Latest
    <3>. QED
      BY <1>3, <2>1, <2>2, <3>2 DEF Latest
  <2>. QED
    BY <1>1, <1>3, <2>1, <2>2, RecordsUpdated DEF OnLatest
<1>4. ASSUME NEW m \in Modes, ApplyCreated(m)
      PROVE  RecordsOf(executions', log')
  BY <1>2, <1>4 DEF ApplyCreated, Created, OutcomeTypes
<1>5. ASSUME NEW m \in Modes, ApplyRequested(m)
      PROVE  RecordsOf(executions', log')
  <2>1. PICK n \in Nat : DOMAIN log = 0 .. (n - 1) /\ log' = Extended(log, n, Requested(m, now))
    BY <1>1, <1>5, ReadExtends DEF ApplyRequested
  <2>. QED
    BY <1>1, <1>5, <2>1, RecordsRequested DEF ApplyRequested
<1>6. ASSUME NEW m \in Modes, ApplyStarted(m)
      PROVE  RecordsOf(executions', log')
  <2>1. Started(m).type = "EXECUTION_STARTED"
    BY DEF Started
  <2>. QED
    BY <1>3, <1>6, <2>1, MatchesStarted DEF ApplyStarted
<1>7. ASSUME NEW p \in Offered, ApplyPolicyAttached(p)
      PROVE  RecordsOf(executions', log')
  BY <1>2, <1>7 DEF ApplyPolicyAttached, PolicyAttached, OutcomeTypes
<1>8. ASSUME NEW a \in Actors, NEW e \in Expiries, ApplyGranted(a, e)
      PROVE  RecordsOf(executions', log')
  BY <1>2, <1>8 DEF ApplyGranted, Granted, OutcomeTypes
<1>9. ASSUME NEW a \in Actors, ApplyRevoked(a)
      PROVE  RecordsOf(executions', log')
  BY <1>2, <1>9 DEF ApplyRevoked, Revoked, OutcomeTypes
<1>10. ASSUME NEW run \in RunIds, ApplyCompleted(run)
       PROVE  RecordsOf(executions', log')
  <2>1. /\ Completed(run).type = "EXECUTION_COMPLETED"
        /\ Completed(run).run = run
        /\ NamesRun(Completed(run))
        /\ Completed(run).type \in OutcomeTypes
    BY DEF Completed, NamesRun, OutcomeTypes
  <2>2. \A n \in Nat, r \in Requests(log) :
          /\ DOMAIN log = 0 .. (n - 1)
          /\ \A q \in Requests(log) : q <= r
          /\ Latest \in Execution
          /\ Matches(Latest, log, r)
          => Matches([Latest EXCEPT !.outcome = "EXECUTION_COMPLETED", !.run = {run}],
                     Extended(log, n, Completed(run)), r)
    BY <2>1, MatchesOutcome
  <2>. QED
    BY <1>3, <1>10, <2>1, <2>2 DEF ApplyCompleted
<1>11. ASSUME NEW row, NEW run, IsFailure(row, run), ApplyFailed(row, run)
       PROVE  RecordsOf(executions', log')
  <2>1. /\ row.type = "EXECUTION_FAILED" /\ row.type \in OutcomeTypes
        /\ run = IF NamesRun(row) THEN {row.run} ELSE {}
    BY <1>11 DEF IsFailure, OutcomeTypes
  <2>2. \A n \in Nat, r \in Requests(log) :
          /\ DOMAIN log = 0 .. (n - 1)
          /\ \A q \in Requests(log) : q <= r
          /\ Latest \in Execution
          /\ Matches(Latest, log, r)
          => Matches([Latest EXCEPT !.outcome = "EXECUTION_FAILED", !.run = run], Extended(log, n, row), r)
    BY <2>1, MatchesOutcome
  <2>. QED
    BY <1>3, <1>11, <2>1, <2>2 DEF ApplyFailed
<1>. QED
  BY <1>4, <1>5, <1>6, <1>7, <1>8, <1>9, <1>10, <1>11, NextFails DEF Next

-----------------------------------------------------------------------------
(***************************************************************************)
(* The theorems.                                                           *)
(***************************************************************************)
\* A replay keeps every part of its invariant, row by row.
LEMMA ReplayInvariant == Spec => []ReplayInv
<1>1. ReplayInv /\ Next => ReplayInv'
  <2>. SUFFICES ASSUME ReplayInv, Next PROVE ReplayInv'
    OBVIOUS
  <2>1. TypeOK' /\ Numbered' /\ executions' \in Seq(Execution)
    BY TypesKept DEF ReplayInv
  <2>2. DictOf(approvals', log')
    BY DictKept
  <2>3. StateAsLogged'
    BY <2>2, StateKept
  <2>4. RecordsOf(executions', log')
    BY RecordsKept
  <2>. QED
    BY <2>1, <2>2, <2>3, <2>4 DEF ReplayInv
<1>2. ReplayInv /\ UNCHANGED vars => ReplayInv'
  <2>. SUFFICES ASSUME ReplayInv, UNCHANGED vars PROVE ReplayInv'
    OBVIOUS
  <2>1. /\ log' = log /\ now' = now /\ state' = state /\ policy' = policy
        /\ approvals' = approvals /\ executions' = executions /\ raised' = raised
    BY DEF vars
  <2>2. TypeOK' /\ Numbered'
    BY <2>1 DEF ReplayInv, TypeOK, Numbered
  <2>3. StateAsLogged'
    BY <2>1 DEF ReplayInv, StateAsLogged
  <2>. QED
    BY <2>1, <2>2, <2>3 DEF ReplayInv
<1>. QED
  BY <1>1, <1>2, InitReplayInv, PTL DEF Spec

(***************************************************************************)
(* Whatever well-typed rows (AnyEvent) a log holds, in whatever order, a   *)
(* replay leaves Decision with values of the declared types.               *)
(***************************************************************************)
THEOREM ReplayTypes == Spec => []TypeOK
<1>1. ReplayInv => TypeOK
  BY DEF ReplayInv
<1>. QED
  BY <1>1, ReplayInvariant, PTL

(***************************************************************************)
(* The approvals dict that replay builds counts exactly the approvals that *)
(* stand in the log (decision.py, apply_event, active_approval_count).     *)
(***************************************************************************)
THEOREM ReplayCountsApprovals == Spec => []ApprovalsAsLogged
<1>1. ReplayInv => ApprovalsAsLogged
  BY DictCounts DEF ReplayInv, ApprovalsAsLogged
<1>. QED
  BY <1>1, ReplayInvariant, PTL

(***************************************************************************)
(* A replay ends without an exception exactly when every policy in the log *)
(* is valid; the policy and the state it ends with are those of module     *)
(* Decision (decision.py, _update_approval_state).                         *)
(***************************************************************************)
THEOREM ReplayReachesState == Spec => []StateAsLogged
<1>1. ReplayInv => StateAsLogged
  BY DEF ReplayInv
<1>. QED
  BY <1>1, ReplayInvariant, PTL

(***************************************************************************)
(* The execution records that replay builds are the requests of the log,   *)
(* each with the digest, outcome and run id of the last such row before    *)
(* the next request (decision.py, latest_execution and apply_event).       *)
(***************************************************************************)
THEOREM ReplayBuildsRecords == Spec => []ExecutionsAsLogged
<1>1. ReplayInv => ExecutionsAsLogged
  BY RecordsAre DEF ReplayInv
<1>. QED
  BY <1>1, ReplayInvariant, PTL
=============================================================================
