---------------------------- MODULE Decision_proofs ----------------------------
(***************************************************************************)
(* Facts about the operators of module Decision: what one more row at the  *)
(* end of a log changes in each of them, and what it leaves alone.         *)
(***************************************************************************)
EXTENDS Decision, FiniteSetTheorems, WellFoundedInduction, TLAPS

-----------------------------------------------------------------------------
(***************************************************************************)
(* The last element of a set of sequence numbers.                          *)
(***************************************************************************)
LEMMA HasFirst ==
  ASSUME NEW S \in SUBSET Nat, S # {}
  PROVE  \E m \in S : \A s \in S : m <= s
<1> DEFINE R == OpToRel(<, Nat)
<1>1. PICK m \in S : \A s \in S : ~ (<<s, m>> \in R)
  BY NatLessThanWellFounded, WFMin
<1>2. ASSUME NEW s \in S PROVE ~ (s < m)
  <2>1. s \in Nat /\ m \in Nat
    OBVIOUS
  <2>2. s < m => <<s, m>> \in R
    BY <2>1 DEF OpToRel
  <2>3. ~ (<<s, m>> \in R)
    BY <1>1
  <2> HIDE DEF R
  <2>. QED
    BY <2>2, <2>3
<1>. QED
  BY <1>2

LEMMA LastIsLast ==
  ASSUME NEW n \in Nat, NEW S, S \subseteq 0 .. (n - 1), S # {}
  PROVE  Last(S) \in S /\ \A s \in S : s <= Last(S)
<1> DEFINE T == {k \in Nat : \A s \in S : s <= k}
<1>1. T \in SUBSET Nat /\ n \in T
  OBVIOUS
<1>2. PICK m \in T : \A k \in T : m <= k
  BY <1>1, HasFirst
<1>3. m \in Nat /\ \A s \in S : s \in Nat /\ s <= m
  OBVIOUS
<1>4. ASSUME m \notin S PROVE FALSE
  <2>1. \A s \in S : s \in Nat /\ s < m
    BY <1>3, <1>4
  <2>2. PICK s0 \in S : TRUE
    OBVIOUS
  <2>3. m - 1 \in Nat /\ \A s \in S : s <= m - 1
    BY <1>3, <2>1, <2>2
  <2>4. m - 1 \in T
    BY <2>3
  <2>. QED
    BY <1>2, <1>3, <2>4
<1>5. \E s \in S : \A r \in S : r <= s
  BY <1>3, <1>4
<1>. QED
  BY <1>5 DEF Last

LEMMA LastIsUnique ==
  ASSUME NEW S \in SUBSET Int, NEW m \in S, \A s \in S : s <= m
  PROVE  Last(S) = m
<1>1. \A s \in S : (\A r \in S : r <= s) => s = m
  OBVIOUS
<1>. QED
  BY <1>1 DEF Last

LEMMA LastIsNew ==
  ASSUME NEW n \in Nat, NEW S, S \subseteq 0 .. (n - 1)
  PROVE  Last(S \cup {n}) = n
<1>1. S \cup {n} \in SUBSET Int /\ n \in S \cup {n} /\ \A s \in S \cup {n} : s <= n
  OBVIOUS
<1>. QED
  BY <1>1, LastIsUnique

-----------------------------------------------------------------------------
(***************************************************************************)
(* One more row.                                                           *)
(***************************************************************************)
Extended(l, n, row) == [s \in DOMAIN l \cup {n} |-> IF s = n THEN row ELSE l[s]]

LEMMA ExtendedLog ==
  ASSUME NEW n \in Nat, NEW l, DOMAIN l = 0 .. (n - 1), NEW row
  PROVE  /\ DOMAIN Extended(l, n, row) = 0 .. ((n + 1) - 1)
         /\ Extended(l, n, row)[n] = row
         /\ \A s \in 0 .. (n - 1) : Extended(l, n, row)[s] = l[s]
<1>1. (0 .. (n - 1)) \cup {n} = 0 .. ((n + 1) - 1)
  OBVIOUS
<1>2. n \notin 0 .. (n - 1)
  OBVIOUS
<1>. QED
  BY <1>1, <1>2 DEF Extended

LEMMA ExtendedRows ==
  ASSUME NEW n \in Nat, NEW l, DOMAIN l = 0 .. (n - 1), NEW row, NEW T
  PROVE  /\ Rows(l, T) \subseteq 0 .. (n - 1)
         /\ n \notin Rows(l, T)
         /\ row.type \in T => Rows(Extended(l, n, row), T) = Rows(l, T) \cup {n}
         /\ row.type \notin T => Rows(Extended(l, n, row), T) = Rows(l, T)
<1> DEFINE l2 == Extended(l, n, row)
<1>1. /\ DOMAIN l2 = (0 .. (n - 1)) \cup {n}
      /\ l2[n] = row
      /\ \A s \in 0 .. (n - 1) : l2[s] = l[s]
  BY ExtendedLog DEF Extended
<1>2. n \notin 0 .. (n - 1)
  OBVIOUS
<1> HIDE DEF l2
<1>3. Rows(l2, T) = {s \in 0 .. (n - 1) : l[s].type \in T} \cup {s \in {n} : row.type \in T}
  BY <1>1, <1>2 DEF Rows
<1>. QED
  BY <1>2, <1>3 DEF Rows, l2

\* A row of the old log keeps its place and its content.
LEMMA ExtendedKeeps ==
  ASSUME NEW n \in Nat, NEW l, DOMAIN l = 0 .. (n - 1), NEW row, NEW T, Rows(l, T) # {}
  PROVE  /\ Last(Rows(l, T)) \in Rows(l, T)
         /\ \A s \in Rows(l, T) : s <= Last(Rows(l, T))
         /\ Last(Rows(l, T)) \in 0 .. (n - 1)
         /\ Extended(l, n, row)[Last(Rows(l, T))] = l[Last(Rows(l, T))]
<1>1. Rows(l, T) \subseteq 0 .. (n - 1)
  BY DEF Rows
<1>2. Last(Rows(l, T)) \in Rows(l, T) /\ \A s \in Rows(l, T) : s <= Last(Rows(l, T))
  BY <1>1, LastIsLast
<1>. QED
  BY <1>1, <1>2, ExtendedLog

-----------------------------------------------------------------------------
(***************************************************************************)
(* Policy and approvals.                                                   *)
(***************************************************************************)
LEMMA SamePolicy ==
  ASSUME NEW n \in Nat, NEW l, DOMAIN l = 0 .. (n - 1), NEW row, row.type # "POLICY_ATTACHED"
  PROVE  /\ HasPolicy(Extended(l, n, row)) = HasPolicy(l)
         /\ HasPolicy(l) => PolicyOf(Extended(l, n, row)) = PolicyOf(l)
         /\ Loadable(Extended(l, n, row)) <=> Loadable(l)
<1> DEFINE P == {"POLICY_ATTACHED"}
           l2 == Extended(l, n, row)
<1>1. Rows(l2, P) = Rows(l, P)
  BY ExtendedRows
<1>2. HasPolicy(l) => l2[Last(Rows(l, P))] = l[Last(Rows(l, P))]
  BY ExtendedKeeps DEF HasPolicy
<1>3. \A s \in Rows(l, P) : l2[s] = l[s]
  BY ExtendedLog DEF Rows
<1> HIDE DEF l2
<1>4. HasPolicy(l2) = HasPolicy(l) /\ (HasPolicy(l) => PolicyOf(l2) = PolicyOf(l))
  BY <1>1, <1>2 DEF HasPolicy, PolicyOf
<1>5. Loadable(l2) <=> Loadable(l)
  BY <1>1, <1>3 DEF Loadable
<1>. QED
  BY <1>4, <1>5 DEF l2

LEMMA NewPolicy ==
  ASSUME NEW n \in Nat, NEW l, DOMAIN l = 0 .. (n - 1), NEW p
  PROVE  /\ HasPolicy(Extended(l, n, PolicyAttached(p)))
         /\ PolicyOf(Extended(l, n, PolicyAttached(p))) = p
         /\ Loadable(Extended(l, n, PolicyAttached(p))) <=> Loadable(l) /\ ValidPolicy(p)
<1> DEFINE P == {"POLICY_ATTACHED"}
           row == PolicyAttached(p)
           l2 == Extended(l, n, row)
<1>0. row.type = "POLICY_ATTACHED" /\ row.policy = p
  BY DEF PolicyAttached
<1> HIDE DEF row
<1>1. Rows(l2, P) = Rows(l, P) \cup {n} /\ Rows(l, P) \subseteq 0 .. (n - 1)
  <2>1. row.type \in P
    BY <1>0
  <2>. QED
    BY <2>1, ExtendedRows
<1>2. l2[n] = row /\ \A s \in Rows(l, P) : l2[s] = l[s]
  BY ExtendedLog DEF Rows
<1>3. Last(Rows(l2, P)) = n
  BY <1>1, LastIsNew
<1> HIDE DEF l2
<1>4. HasPolicy(l2) /\ PolicyOf(l2) = p
  BY <1>0, <1>1, <1>2, <1>3 DEF HasPolicy, PolicyOf
<1>5. Loadable(l2) <=> Loadable(l) /\ ValidPolicy(p)
  BY <1>0, <1>1, <1>2 DEF Loadable
<1>. QED
  BY <1>4, <1>5 DEF l2, row

\* A grant stands when it comes; a row about approvals ends those of its actor and no others.
LEMMA ExtendedStands ==
  ASSUME NEW n \in Nat, NEW l, DOMAIN l = 0 .. (n - 1), NEW row, NEW a
  PROVE  /\ \A g \in 0 .. (n - 1) :
              Stands(Extended(l, n, row), g, a) <=>
                Stands(l, g, a) /\ ~ (row.type \in ApprovalTypes /\ row.actor = a)
         /\ Stands(Extended(l, n, row), n, a) <=> row.type = "APPROVAL_GRANTED" /\ row.actor = a
<1> DEFINE l2 == Extended(l, n, row)
<1>1. /\ l2[n] = row
      /\ \A s \in 0 .. (n - 1) : l2[s] = l[s]
  BY ExtendedLog DEF Extended
<1> DEFINE A  == Rows(l, ApprovalTypes)
           A2 == Rows(l2, ApprovalTypes)
<1>2. /\ A \subseteq 0 .. (n - 1)
      /\ row.type \in ApprovalTypes => A2 = A \cup {n}
      /\ row.type \notin ApprovalTypes => A2 = A
  BY ExtendedRows
<1> HIDE DEF l2
<1>3. A2 \subseteq 0 .. n
  BY <1>2
<1>4. Stands(l2, n, a) <=> row.type = "APPROVAL_GRANTED" /\ row.actor = a
  BY <1>1, <1>3 DEF Stands
<1>5. ASSUME NEW g \in 0 .. (n - 1)
      PROVE  Stands(l2, g, a) <=> Stands(l, g, a) /\ ~ (row.type \in ApprovalTypes /\ row.actor = a)
  <2>1. (\A s \in A : s > g => l2[s].actor # a) <=> (\A s \in A : s > g => l[s].actor # a)
    BY <1>1, <1>2
  <2>2. CASE row.type \in ApprovalTypes
    <3>1. A2 = A \cup {n} /\ n > g
      BY <1>2, <2>2
    <3>2. (\A s \in A2 : s > g => l2[s].actor # a)
            <=> (\A s \in A : s > g => l2[s].actor # a) /\ row.actor # a
      BY <1>1, <3>1
    <3>. QED
      BY <1>1, <2>1, <2>2, <3>2 DEF Stands
  <2>3. CASE row.type \notin ApprovalTypes
    BY <1>1, <1>2, <2>1, <2>3 DEF Stands
  <2>. QED
    BY <2>2, <2>3
<1>. QED
  BY <1>4, <1>5 DEF l2

LEMMA SameApprovers ==
  ASSUME NEW n \in Nat, NEW l, DOMAIN l = 0 .. (n - 1), NEW row, row.type \notin ApprovalTypes, NEW t
  PROVE  ActiveApprovers(Extended(l, n, row), t) = ActiveApprovers(l, t)
<1> DEFINE l2 == Extended(l, n, row)
<1>1. DOMAIN l2 = (0 .. (n - 1)) \cup {n} /\ \A s \in 0 .. (n - 1) : l2[s] = l[s]
  BY ExtendedLog DEF Extended
<1>2. \A a : /\ ~ Stands(l2, n, a)
             /\ \A g \in 0 .. (n - 1) : Stands(l2, g, a) <=> Stands(l, g, a)
  BY ExtendedStands DEF ApprovalTypes
<1> HIDE DEF l2
<1>3. ASSUME NEW a
      PROVE  (\E g \in DOMAIN l2 : Stands(l2, g, a) /\ Live(l2[g].expires, t))
               <=> (\E g \in DOMAIN l : Stands(l, g, a) /\ Live(l[g].expires, t))
  BY <1>1, <1>2
<1>. QED
  BY <1>3 DEF ActiveApprovers, l2

-----------------------------------------------------------------------------
(***************************************************************************)
(* State.                                                                  *)
(***************************************************************************)
SettingTypes == DOMAIN StateAfter

LEMMA SettingTypesAre ==
  SettingTypes = {"DECISION_CREATED", "POLICY_ATTACHED", "EXECUTION_STARTED"} \cup OutcomeTypes
BY DEF SettingTypes, StateAfter, OutcomeTypes

LEMMA StateNeedsPolicy ==
  ASSUME NEW n \in Nat, NEW l, DOMAIN l = 0 .. (n - 1), NEW t,
         StateOf(l, t) \in {"pending_approval", "approved"}
  PROVE  /\ HasPolicy(l)
         /\ Rows(l, SettingTypes) # {}
         /\ l[Last(Rows(l, SettingTypes))].type = "POLICY_ATTACHED"
<1> DEFINE set  == Rows(l, SettingTypes)
           kind == l[Last(set)].type
<1>1. set # {} /\ (kind = "POLICY_ATTACHED" \/ StateAfter[kind] \in {"pending_approval", "approved"})
  BY DEF StateOf, SettingTypes
<1>2. Last(set) \in set
  BY <1>1, ExtendedKeeps
<1>3. kind \in SettingTypes /\ Last(set) \in DOMAIN l
  BY <1>2 DEF Rows
<1>4. kind = "POLICY_ATTACHED"
  BY <1>1, <1>3, SettingTypesAre DEF StateAfter, OutcomeTypes
<1>5. Last(set) \in Rows(l, {"POLICY_ATTACHED"})
  BY <1>3, <1>4 DEF Rows
<1>. QED
  BY <1>1, <1>4, <1>5 DEF HasPolicy

LEMMA StateNamed ==
  ASSUME NEW n \in Nat, NEW l, DOMAIN l = 0 .. (n - 1), NEW t
  PROVE  StateOf(l, t) \in {"draft", "pending_approval", "approved", "executing", "completed", "failed"}
<1> DEFINE set  == Rows(l, SettingTypes)
           kind == l[Last(set)].type
<1>1. set # {} => kind \in SettingTypes
  BY ExtendedKeeps DEF Rows
<1>2. \A k \in SettingTypes :
        StateAfter[k] \in {"draft", "pending_approval", "approved", "executing", "completed", "failed"}
  BY SettingTypesAre DEF StateAfter, OutcomeTypes
<1>. QED
  BY <1>1, <1>2 DEF StateOf, SettingTypes

LEMMA StateAtSetting ==
  ASSUME NEW n \in Nat, NEW l, DOMAIN l = 0 .. (n - 1), NEW row, row.type \in SettingTypes, NEW t
  PROVE  StateOf(Extended(l, n, row), t) = StateAfter[row.type]
<1> DEFINE l2 == Extended(l, n, row)
<1>1. /\ Rows(l2, SettingTypes) = Rows(l, SettingTypes) \cup {n}
      /\ Rows(l, SettingTypes) \subseteq 0 .. (n - 1)
  BY ExtendedRows
<1>2. Last(Rows(l2, SettingTypes)) = n /\ l2[n] = row
  BY <1>1, LastIsNew, ExtendedLog DEF Extended
<1>3. ~ \E r \in Rows(l2, ApprovalTypes) : r > n
  <2>1. \A r \in DOMAIN l2 : r \in 0 .. n
    BY ExtendedLog
  <2> HIDE DEF l2
  <2>. QED
    BY <2>1 DEF Rows
<1> HIDE DEF l2
<1>. QED
  BY <1>1, <1>2, <1>3 DEF StateOf, SettingTypes, l2

LEMMA StateAtRequest ==
  ASSUME NEW n \in Nat, NEW l, DOMAIN l = 0 .. (n - 1), NEW row, row.type = "EXECUTION_REQUESTED", NEW t
  PROVE  StateOf(Extended(l, n, row), t) = StateOf(l, t)
<1> DEFINE l2  == Extended(l, n, row)
           set == Rows(l, SettingTypes)
<1>1. row.type \notin SettingTypes /\ row.type \notin ApprovalTypes /\ row.type # "POLICY_ATTACHED"
  BY SettingTypesAre DEF ApprovalTypes, OutcomeTypes
<1>2. Rows(l2, SettingTypes) = set
  BY <1>1, ExtendedRows
<1>3. Rows(l2, ApprovalTypes) = Rows(l, ApprovalTypes)
  BY <1>1, ExtendedRows
<1>4. set # {} => l2[Last(set)] = l[Last(set)]
  BY ExtendedKeeps
<1>5. /\ HasPolicy(l2) = HasPolicy(l)
      /\ HasPolicy(l) => PolicyOf(l2) = PolicyOf(l)
      /\ ActiveApprovers(l2, t) = ActiveApprovers(l, t)
  BY <1>1, SamePolicy, SameApprovers
<1> HIDE DEF l2
<1>6. IsApproved(l2, t) <=> IsApproved(l, t)
  BY <1>5 DEF IsApproved
<1>. QED
  BY <1>2, <1>3, <1>4, <1>6 DEF StateOf, SettingTypes, l2

LEMMA StateAtApproval ==
  ASSUME NEW n \in Nat, NEW l, DOMAIN l = 0 .. (n - 1), NEW row, row.type \in ApprovalTypes, NEW t
  PROVE  /\ StateOf(l, t) \notin {"pending_approval", "approved"} =>
              StateOf(Extended(l, n, row), t) = StateOf(l, t)
         /\ StateOf(l, t) \in {"pending_approval", "approved"} =>
              StateOf(Extended(l, n, row), t) =
                IF IsApproved(Extended(l, n, row), t) THEN "approved" ELSE "pending_approval"
<1> DEFINE l2   == Extended(l, n, row)
           set  == Rows(l, SettingTypes)
<1>1. row.type \notin SettingTypes
  BY SettingTypesAre DEF ApprovalTypes, OutcomeTypes
<1>2. Rows(l2, SettingTypes) = set
  BY <1>1, ExtendedRows
<1>3. n \in Rows(l2, ApprovalTypes)
  BY ExtendedRows
<1>4. set # {} => l2[Last(set)] = l[Last(set)] /\ Last(set) \in 0 .. (n - 1)
  BY ExtendedKeeps
<1>5. set # {} => n > Last(set)
  BY <1>4
<1>6. set # {} => StateAfter["POLICY_ATTACHED"] = "pending_approval"
  BY DEF StateAfter
<1> HIDE DEF l2
<1>7. CASE set = {}
  BY <1>2, <1>7 DEF StateOf, SettingTypes, l2
<1>8. CASE set # {} /\ l[Last(set)].type = "POLICY_ATTACHED"
  <2>1. StateOf(l, t) \in {"pending_approval", "approved"}
    BY <1>6, <1>8 DEF StateOf, SettingTypes
  <2>2. StateOf(l2, t) = IF IsApproved(l2, t) THEN "approved" ELSE "pending_approval"
    BY <1>2, <1>3, <1>4, <1>5, <1>6, <1>8 DEF StateOf, SettingTypes
  <2>. QED
    BY <2>1, <2>2 DEF l2
<1>9. CASE set # {} /\ l[Last(set)].type # "POLICY_ATTACHED"
  <2>1. StateOf(l, t) \notin {"pending_approval", "approved"}
    BY <1>9, StateNeedsPolicy
  <2>2. StateOf(l2, t) = StateOf(l, t)
    BY <1>2, <1>4, <1>9 DEF StateOf, SettingTypes
  <2>. QED
    BY <2>1, <2>2 DEF l2
<1>. QED
  BY <1>7, <1>8, <1>9

-----------------------------------------------------------------------------
(***************************************************************************)
(* Executions.                                                             *)
(***************************************************************************)
\* the rows of the record that request r opened, of the types in T
RowsOf(l, r, T) == {s \in Span(l, r) : l[s].type \in T}

LEMMA RecordRows ==
  ASSUME NEW l, NEW r
  PROVE  /\ Outcomes(l, r) = RowsOf(l, r, OutcomeTypes)
         /\ Starts(l, r) = RowsOf(l, r, {"EXECUTION_STARTED"})
BY DEF Outcomes, Starts, RowsOf

LEMMA ExtendedRequests ==
  ASSUME NEW n \in Nat, NEW l, DOMAIN l = 0 .. (n - 1), NEW row
  PROVE  /\ Requests(l) \subseteq 0 .. (n - 1)
         /\ row.type = "EXECUTION_REQUESTED" =>
              Requests(Extended(l, n, row)) = Requests(l) \cup {n}
         /\ row.type # "EXECUTION_REQUESTED" =>
              Requests(Extended(l, n, row)) = Requests(l)
<1> DEFINE T == {"EXECUTION_REQUESTED"}
<1>1. row.type = "EXECUTION_REQUESTED" <=> row.type \in T
  OBVIOUS
<1> HIDE DEF T
<1>2. /\ Rows(l, T) \subseteq 0 .. (n - 1)
      /\ row.type \in T => Rows(Extended(l, n, row), T) = Rows(l, T) \cup {n}
      /\ row.type \notin T => Rows(Extended(l, n, row), T) = Rows(l, T)
  BY ExtendedRows
<1>. QED
  BY <1>1, <1>2 DEF Requests, T

LEMMA NothingAfterNewRequest ==
  ASSUME NEW n \in Nat, NEW l, DOMAIN l = 0 .. (n - 1), NEW row, NEW T
  PROVE  RowsOf(Extended(l, n, row), n, T) = {}
<1>1. \A s \in DOMAIN Extended(l, n, row) : s \in 0 .. n
  BY ExtendedLog
<1>. QED
  BY <1>1 DEF RowsOf, Span

\* Another request ends the record before it; what was in it stays.
LEMMA RequestKeepsRecords ==
  ASSUME NEW n \in Nat, NEW l, DOMAIN l = 0 .. (n - 1), NEW row, row.type = "EXECUTION_REQUESTED",
         NEW r \in Requests(l), NEW T
  PROVE  RowsOf(Extended(l, n, row), r, T) = RowsOf(l, r, T)
<1> DEFINE l2 == Extended(l, n, row)
<1>1. Requests(l2) = Requests(l) \cup {n} /\ Requests(l) \subseteq 0 .. (n - 1)
  BY ExtendedRequests
<1>2. /\ DOMAIN l2 = (0 .. (n - 1)) \cup {n}
      /\ \A s \in 0 .. (n - 1) : l2[s] = l[s]
  BY ExtendedLog DEF Extended
<1> HIDE DEF l2
<1>3. r \in 0 .. (n - 1)
  BY <1>1
<1>4. n \notin Span(l2, r)
  BY <1>1, <1>3 DEF Span
<1>5. \A s \in 0 .. (n - 1) : s \in Span(l2, r) <=> s \in Span(l, r)
  <2>1. \A s \in 0 .. (n - 1) : n > r => s < n
    OBVIOUS
  <2>. QED
    BY <1>1, <1>2, <2>1 DEF Span
<1>6. Span(l2, r) = Span(l, r) /\ Span(l, r) \subseteq 0 .. (n - 1)
  BY <1>2, <1>4, <1>5 DEF Span
<1>. QED
  BY <1>2, <1>6 DEF RowsOf, l2

\* Any other row goes to the latest record.
LEMMA RowGoesToLatest ==
  ASSUME NEW n \in Nat, NEW l, DOMAIN l = 0 .. (n - 1), NEW row, row.type # "EXECUTION_REQUESTED",
         NEW r \in Requests(l), NEW T
  PROVE  /\ RowsOf(l, r, T) \subseteq 0 .. (n - 1)
         /\ RowsOf(Extended(l, n, row), r, T) =
              IF row.type \in T /\ \A q \in Requests(l) : q <= r
              THEN RowsOf(l, r, T) \cup {n} ELSE RowsOf(l, r, T)
<1> DEFINE l2 == Extended(l, n, row)
           latest == \A q \in Requests(l) : q <= r
<1>1. Requests(l2) = Requests(l) /\ Requests(l) \subseteq 0 .. (n - 1)
  BY ExtendedRequests
<1>2. /\ DOMAIN l2 = (0 .. (n - 1)) \cup {n}
      /\ l2[n] = row
      /\ \A s \in 0 .. (n - 1) : l2[s] = l[s]
  BY ExtendedLog DEF Extended
<1> HIDE DEF l2
<1>3. r \in 0 .. (n - 1) /\ \A q \in Requests(l) : q \in 0 .. (n - 1)
  BY <1>1
<1>4. n \in Span(l2, r) <=> latest
  <2>1. n \in DOMAIN l2 /\ n > r
    BY <1>2, <1>3
  <2>2. \A q \in Requests(l) : (q > r => n < q) <=> q <= r
    BY <1>3
  <2>. QED
    BY <1>1, <2>1, <2>2 DEF Span
<1>5. \A s \in 0 .. (n - 1) : s \in Span(l2, r) <=> s \in Span(l, r)
  BY <1>1, <1>2 DEF Span
<1>6. n \notin Span(l, r) /\ Span(l, r) \subseteq 0 .. (n - 1) /\ Span(l2, r) \subseteq (0 .. (n - 1)) \cup {n}
  <2>1. n \notin 0 .. (n - 1)
    OBVIOUS
  <2>. QED
    BY <1>2, <2>1 DEF Span
<1>7. Span(l2, r) = IF latest THEN Span(l, r) \cup {n} ELSE Span(l, r)
  BY <1>4, <1>5, <1>6
<1>8. \A s \in Span(l, r) : l2[s] = l[s]
  BY <1>2, <1>6
<1> HIDE DEF latest
<1>9. RowsOf(l2, r, T) = IF row.type \in T /\ latest THEN RowsOf(l, r, T) \cup {n} ELSE RowsOf(l, r, T)
  BY <1>2, <1>6, <1>7, <1>8 DEF RowsOf
<1>. QED
  BY <1>6, <1>9 DEF RowsOf, l2, latest

\* the place of a request among the requests of its log
Rank(l, r) == Cardinality({q \in Requests(l) : q <= r})

LEMMA Ranks ==
  ASSUME NEW n \in Nat, NEW l, DOMAIN l = 0 .. (n - 1)
  PROVE  /\ IsFiniteSet(Requests(l))
         /\ Cardinality(Requests(l)) \in Nat
         /\ \A r \in Requests(l) :
              /\ Rank(l, r) \in 1 .. Cardinality(Requests(l))
              /\ Rank(l, r) = Cardinality(Requests(l)) <=> \A q \in Requests(l) : q <= r
<1> DEFINE R == Requests(l)
<1>1. R \subseteq 0 .. (n - 1)
  BY DEF Requests, Rows
<1> HIDE DEF R
<1>2. IsFiniteSet(R) /\ Cardinality(R) \in Nat
  <2>1. IsFiniteSet(0 .. (n - 1))
    BY FS_Interval
  <2>2. IsFiniteSet(R)
    BY <1>1, <2>1, FS_Subset
  <2>. QED
    BY <2>2, FS_CardinalityType
<1>3. ASSUME NEW r \in R
      PROVE  /\ Rank(l, r) \in 1 .. Cardinality(R)
             /\ Rank(l, r) = Cardinality(R) <=> \A q \in R : q <= r
  <2> DEFINE Q == {q \in R : q <= r}
  <2>1. Q \in SUBSET R /\ r \in Q /\ (Q = R <=> \A q \in R : q <= r)
    <3>1. r <= r
      BY <1>1
    <3>. QED
      BY <3>1
  <2>2. Rank(l, r) = Cardinality(Q)
    BY DEF Rank, R
  <2> HIDE DEF Q
  <2>3. IsFiniteSet(Q) /\ Cardinality(Q) \in Nat /\ Cardinality(Q) <= Cardinality(R)
    BY <1>2, <2>1, FS_Subset, FS_CardinalityType
  <2>4. Cardinality(Q) # 0
    BY <2>1, <2>3, FS_EmptySet
  <2>5. Cardinality(Q) = Cardinality(R) => Q = R
    BY <1>2, <2>1, FS_Subset
  <2>. QED
    BY <1>2, <2>1, <2>2, <2>3, <2>4, <2>5
<1>. QED
  BY <1>2, <1>3 DEF R

LEMMA RankAfterRequest ==
  ASSUME NEW n \in Nat, NEW l, DOMAIN l = 0 .. (n - 1), NEW row, row.type = "EXECUTION_REQUESTED"
  PROVE  /\ Requests(Extended(l, n, row)) = Requests(l) \cup {n}
         /\ Cardinality(Requests(Extended(l, n, row))) = Cardinality(Requests(l)) + 1
         /\ Rank(Extended(l, n, row), n) = Cardinality(Requests(l)) + 1
         /\ \A r \in Requests(l) : Rank(Extended(l, n, row), r) = Rank(l, r)
<1> DEFINE R  == Requests(l)
           l2 == Extended(l, n, row)
<1>1. Requests(l2) = R \cup {n} /\ R \subseteq 0 .. (n - 1)
  BY ExtendedRequests
<1> HIDE DEF R, l2
<1>2. n \notin R
  BY <1>1
<1>3. IsFiniteSet(R)
  BY Ranks DEF R
<1>4. Cardinality(R \cup {n}) = Cardinality(R) + 1
  BY <1>2, <1>3, FS_AddElement
<1>5. {q \in R \cup {n} : q <= n} = R \cup {n}
  <2>1. \A q \in R \cup {n} : q <= n
    BY <1>1
  <2>. QED
    BY <2>1
<1>6. ASSUME NEW r \in R
      PROVE  {q \in R \cup {n} : q <= r} = {q \in R : q <= r}
  <2>1. ~ (n <= r)
    BY <1>1
  <2>. QED
    BY <2>1
<1>. QED
  BY <1>1, <1>4, <1>5, <1>6 DEF Rank, R, l2

-----------------------------------------------------------------------------
\* Of the rows the tools write, a completion and nothing else names a run.
LEMMA CompletionsNameRuns ==
  ASSUME NEW row \in Event
  PROVE  NamesRun(row) <=> row.type = "EXECUTION_COMPLETED"
<1>1. CASE row \in [type : {"EXECUTION_COMPLETED"}, run : Nat]
  BY <1>1 DEF NamesRun
<1>2. CASE row \in [type : {"DECISION_CREATED"}, mode : Modes]
  BY <1>2 DEF NamesRun
<1>3. CASE row \in [type : {"POLICY_ATTACHED"}, policy : Policies]
  BY <1>3 DEF NamesRun
<1>4. CASE row \in [type : {"APPROVAL_GRANTED"}, actor : Actors, expires : Int]
  BY <1>4 DEF NamesRun
<1>5. CASE row \in [type : {"APPROVAL_REVOKED"}, actor : Actors]
  BY <1>5 DEF NamesRun
<1>6. CASE row \in [type : {"EXECUTION_REQUESTED"}, mode : Modes, checked : Nat]
  BY <1>6 DEF NamesRun
<1>7. CASE row \in [type : {"EXECUTION_STARTED"}, mode : Modes]
  BY <1>7 DEF NamesRun
<1>8. CASE row = Failed
  BY <1>8 DEF NamesRun, Failed
<1>. QED
  BY <1>1, <1>2, <1>3, <1>4, <1>5, <1>6, <1>7, <1>8 DEF Event

LEMMA FailuresNameRuns ==
  ~ NamesRun(Failed) /\ \A run : NamesRun(FailedRun(run))
BY DEF NamesRun, Failed, FailedRun

(***************************************************************************)
(* What a row does to the execution records of its log: nothing, or it     *)
(* joins the latest.                                                       *)
(***************************************************************************)
IsLatest(l, r) == r \in Requests(l) /\ \A q \in Requests(l) : q <= r

LEMMA LatestIsOne ==
  ASSUME NEW n \in Nat, NEW l, DOMAIN l = 0 .. (n - 1), NEW r, NEW q, IsLatest(l, r), IsLatest(l, q)
  PROVE  r = q
<1>1. r \in Int /\ q \in Int
  BY DEF IsLatest, Requests, Rows
<1>. QED
  BY <1>1 DEF IsLatest

LEMMA LastOutcome ==
  ASSUME NEW n \in Nat, NEW l, DOMAIN l = 0 .. (n - 1), NEW r, HasRun(l, r)
  PROVE  /\ Last(Outcomes(l, r)) \in Outcomes(l, r)
         /\ \A s \in Outcomes(l, r) : s <= Last(Outcomes(l, r))
         /\ Last(Outcomes(l, r)) \in 0 .. (n - 1)
<1>1. Outcomes(l, r) \subseteq 0 .. (n - 1) /\ Outcomes(l, r) # {}
  BY DEF Outcomes, Span, HasRun
<1>. QED
  BY <1>1, LastIsLast

LEMMA SameOutcome ==
  ASSUME NEW n \in Nat, NEW l, DOMAIN l = 0 .. (n - 1), NEW row, NEW r,
         Outcomes(Extended(l, n, row), r) = Outcomes(l, r)
  PROVE  /\ HasRun(Extended(l, n, row), r) <=> HasRun(l, r)
         /\ HasRun(l, r) => RunOf(Extended(l, n, row), r) = RunOf(l, r)
<1> DEFINE l2 == Extended(l, n, row)
           O  == Outcomes(l, r)
<1>1. O # {} => Last(O) \in 0 .. (n - 1)
  <2>1. O \subseteq 0 .. (n - 1)
    BY DEF Outcomes, Span
  <2>. QED
    BY <2>1, LastIsLast
<1>2. O # {} => l2[Last(O)] = l[Last(O)]
  BY <1>1, ExtendedLog
<1> HIDE DEF l2
<1>. QED
  BY <1>2 DEF HasRun, RunOf, l2

\* What is asked of one more row that is no request: where it goes, and what it is then.
LEMMA RecordAfterRow ==
  ASSUME NEW n \in Nat, NEW l, DOMAIN l = 0 .. (n - 1), NEW row, row.type # "EXECUTION_REQUESTED",
         NEW r \in Requests(l)
  PROVE  LET l2 == Extended(l, n, row)
         IN  /\ IsLatest(l2, r) <=> IsLatest(l, r)
             /\ l2[r] = l[r]
             /\ row.type # "EXECUTION_STARTED" \/ ~ IsLatest(l, r) => Starts(l2, r) = Starts(l, r)
             /\ row.type = "EXECUTION_STARTED" /\ IsLatest(l, r) => Starts(l2, r) = Starts(l, r) \cup {n}
             /\ row.type \notin OutcomeTypes \/ ~ IsLatest(l, r) =>
                  /\ Outcomes(l2, r) = Outcomes(l, r)
                  /\ HasRun(l2, r) <=> HasRun(l, r)
                  /\ HasRun(l, r) => RunOf(l2, r) = RunOf(l, r)
             /\ row.type \in OutcomeTypes /\ IsLatest(l, r) =>
                  /\ Outcomes(l2, r) = Outcomes(l, r) \cup {n}
                  /\ HasRun(l2, r) <=> NamesRun(row)
                  /\ HasRun(l2, r) => RunOf(l2, r) = row.run
<1> DEFINE l2 == Extended(l, n, row)
           S  == {"EXECUTION_STARTED"}
           latest == \A q \in Requests(l) : q <= r
<1>1. Requests(l2) = Requests(l) /\ r \in 0 .. (n - 1)
  BY ExtendedRequests
<1>2. l2[n] = row /\ l2[r] = l[r]
  BY <1>1, ExtendedLog
<1>3. latest <=> IsLatest(l, r)
  BY DEF IsLatest
<1>4. row.type = "EXECUTION_STARTED" <=> row.type \in S
  OBVIOUS
<1>5. Starts(l2, r) = RowsOf(l2, r, S) /\ Starts(l, r) = RowsOf(l, r, S)
  BY RecordRows
<1> HIDE DEF S
<1>6. RowsOf(l2, r, S) = IF row.type \in S /\ latest THEN RowsOf(l, r, S) \cup {n} ELSE RowsOf(l, r, S)
  BY RowGoesToLatest
<1>7. /\ RowsOf(l, r, OutcomeTypes) \subseteq 0 .. (n - 1)
      /\ RowsOf(l2, r, OutcomeTypes) = IF row.type \in OutcomeTypes /\ latest
                                       THEN RowsOf(l, r, OutcomeTypes) \cup {n}
                                       ELSE RowsOf(l, r, OutcomeTypes)
  BY RowGoesToLatest
<1> HIDE DEF latest
<1>8. /\ Outcomes(l, r) \subseteq 0 .. (n - 1)
      /\ Outcomes(l2, r) = IF row.type \in OutcomeTypes /\ latest THEN Outcomes(l, r) \cup {n} ELSE Outcomes(l, r)
  BY <1>7, RecordRows
<1>9. Outcomes(l2, r) = Outcomes(l, r) =>
        /\ HasRun(l2, r) <=> HasRun(l, r)
        /\ HasRun(l, r) => RunOf(l2, r) = RunOf(l, r)
  BY SameOutcome
<1>10. Outcomes(l2, r) = Outcomes(l, r) \cup {n} => Last(Outcomes(l2, r)) = n
  BY <1>8, LastIsNew
<1> HIDE DEF l2
<1>11. Outcomes(l2, r) = Outcomes(l, r) \cup {n} =>
         /\ HasRun(l2, r) <=> NamesRun(row)
         /\ RunOf(l2, r) = row.run
  BY <1>2, <1>10 DEF HasRun, RunOf
<1>12. IsLatest(l2, r) <=> IsLatest(l, r)
  BY <1>1 DEF IsLatest
<1>. QED
  BY <1>2, <1>3, <1>4, <1>5, <1>6, <1>8, <1>9, <1>11, <1>12 DEF l2

\* A request opens a record, and ends the one before.
LEMMA RecordAfterRequest ==
  ASSUME NEW n \in Nat, NEW l, DOMAIN l = 0 .. (n - 1), NEW row, row.type = "EXECUTION_REQUESTED"
  PROVE  LET l2 == Extended(l, n, row)
         IN  /\ Requests(l2) = Requests(l) \cup {n} /\ n \notin Requests(l)
             /\ l2[n] = row /\ Starts(l2, n) = {} /\ Outcomes(l2, n) = {} /\ ~ HasRun(l2, n)
             /\ \A r : IsLatest(l2, r) <=> r = n
             /\ \A r \in Requests(l) :
                  /\ l2[r] = l[r]
                  /\ Starts(l2, r) = Starts(l, r)
                  /\ Outcomes(l2, r) = Outcomes(l, r)
                  /\ HasRun(l2, r) <=> HasRun(l, r)
                  /\ HasRun(l, r) => RunOf(l2, r) = RunOf(l, r)
<1> DEFINE l2 == Extended(l, n, row)
<1>1. Requests(l2) = Requests(l) \cup {n} /\ Requests(l) \subseteq 0 .. (n - 1)
  BY ExtendedRequests
<1>2. l2[n] = row /\ \A r \in Requests(l) : l2[r] = l[r]
  BY <1>1, ExtendedLog
<1>3. Starts(l2, n) = {} /\ Outcomes(l2, n) = {}
  BY NothingAfterNewRequest, RecordRows
<1>4. ASSUME NEW r \in Requests(l)
      PROVE  Starts(l2, r) = Starts(l, r) /\ Outcomes(l2, r) = Outcomes(l, r)
  BY RequestKeepsRecords, RecordRows
<1>5. \A r \in Requests(l) : /\ HasRun(l2, r) <=> HasRun(l, r)
                             /\ HasRun(l, r) => RunOf(l2, r) = RunOf(l, r)
  BY <1>4, SameOutcome
<1> HIDE DEF l2
<1>6. ~ HasRun(l2, n)
  BY <1>3 DEF HasRun
<1>7. \A r : IsLatest(l2, r) <=> r = n
  <2>1. \A q \in Requests(l) : q \in Int /\ q < n
    BY <1>1
  <2>. QED
    BY <1>1, <2>1 DEF IsLatest
<1>8. n \notin Requests(l)
  BY <1>1
<1>. QED
  BY <1>1, <1>2, <1>3, <1>4, <1>5, <1>6, <1>7, <1>8 DEF l2
=============================================================================
