------------------------- MODULE DecisionTools_proofs -------------------------
(***************************************************************************)
(* What module DecisionTools guarantees for any number of clients,         *)
(* decisions, actors and rows, any policies on offer and any clock.        *)
(***************************************************************************)
EXTENDS DecisionTools, Decision_proofs, SequenceTheorems

-----------------------------------------------------------------------------
(***************************************************************************)
(* Logs.                                                                   *)
(***************************************************************************)

\* The last element of 0 .. n-1 is n-1.
LEMMA LastOfInterval ==
  ASSUME NEW n \in Nat, n > 0
  PROVE  Last(0 .. (n - 1)) = n - 1
<1>1. n - 1 \in 0 .. (n - 1) /\ \A r \in 0 .. (n - 1) : r <= n - 1
  OBVIOUS
<1>2. \A s \in 0 .. (n - 1) : (\A r \in 0 .. (n - 1) : r <= s) => s = n - 1
  BY <1>1
<1>. QED
  BY <1>1, <1>2 DEF Last

\* append_event's SELECT on a log without gaps gives the number of its rows.
LEMMA NextSeqOfLog ==
  ASSUME NEW l, NEW n \in Nat, DOMAIN l = 0 .. (n - 1)
  PROVE  NextSeq(l) = n
<1>1. CASE n = 0
  BY <1>1 DEF NextSeq
<1>2. CASE n > 0
  <2>1. 0 \in DOMAIN l
    BY <1>2
  <2>. QED
    BY <2>1, <1>2, LastOfInterval DEF NextSeq
<1>. QED
  BY <1>1, <1>2

\* An insert at the end keeps every earlier version of the log.
LEMMA InsertedAtEnd ==
  ASSUME NEW l, NEW n \in Nat, DOMAIN l = 0 .. (n - 1), NEW row
  PROVE  /\ DOMAIN Inserted(l, n, row) = 0 .. n
         /\ Inserted(l, n, row)[n] = row
         /\ \A s \in 0 .. (n - 1) : Inserted(l, n, row)[s] = l[s]
         /\ \A k \in 0 .. n : Below(Inserted(l, n, row), k) = Below(l, k)
<1>1. /\ DOMAIN Inserted(l, n, row) = 0 .. n
      /\ Inserted(l, n, row)[n] = row
      /\ \A s \in 0 .. (n - 1) : Inserted(l, n, row)[s] = l[s]
  BY DEF Inserted
<1>2. ASSUME NEW k \in 0 .. n
      PROVE  Below(Inserted(l, n, row), k) = Below(l, k)
  <2>1. {r \in 0 .. n : r < k} = {r \in 0 .. (n - 1) : r < k}
    OBVIOUS
  <2>2. \A s \in {r \in 0 .. (n - 1) : r < k} : Inserted(l, n, row)[s] = l[s]
    BY <1>1
  <2>. QED
    BY <1>1, <2>1, <2>2 DEF Below
<1>. QED
  BY <1>1, <1>2

\* A log without gaps is the last version of itself.
LEMMA WholeLog ==
  ASSUME NEW l, NEW n \in Nat, l \in [0 .. (n - 1) -> Event]
  PROVE  Below(l, n) = l
<1>1. {r \in 0 .. (n - 1) : r < n} = 0 .. (n - 1)
  OBVIOUS
<1>. QED
  BY <1>1 DEF Below

-----------------------------------------------------------------------------
(***************************************************************************)
(* Type correctness.                                                       *)
(***************************************************************************)

\* Every row that a tool appends is one of the eight kinds.
LEMMA RowTypes ==
  /\ \A m \in Modes : Created(m) \in Event /\ Started(m) \in Event
  /\ \A m \in Modes, t \in Nat : Requested(m, t) \in Event
  /\ \A p \in Policies : PolicyAttached(p) \in Event
  /\ \A a \in Actors, e \in Int : Granted(a, e) \in Event
  /\ \A a \in Actors : Revoked(a) \in Event
  /\ \A run \in Nat : Completed(run) \in Event
  /\ Failed \in Event
BY DEF Event, Created, Started, Requested, PolicyAttached, Granted, Revoked, Completed, Failed

(***************************************************************************)
(* The inductive invariant behind the first theorems.  TypeOK alone is not *)
(* inductive: what NextSeq returns is a number only if the log has no      *)
(* gaps, an insert leaves none only if every number below the one selected *)
(* was taken before, and the mode of a run is that of the row in hand.     *)
(***************************************************************************)
SelectedInReach ==
  \A c \in Clients : stage[c] = "insert" =>
    /\ op[c].seq < MaxRows
    /\ 0 .. (op[c].seq - 1) \subseteq DOMAIN log[op[c].dec]

\* A mode is read only from a row that has one.
RowMatchesStage ==
  \A c \in Clients :
    /\ stage[c] = "validate" => op[c].row.type = "EXECUTION_REQUESTED"
    /\ stage[c] = "run" => op[c].row.type = "EXECUTION_STARTED"

LogInv == TypeOK /\ SeqContiguous /\ SelectedInReach /\ RowMatchesStage

LEMMA LogInvInit == Init => LogInv
<1>. SUFFICES ASSUME Init PROVE LogInv
  OBVIOUS
<1>1. TypeOK
  BY DEF Init, TypeOK, EmptyLog, Stages, NoOp
<1>2. SeqContiguous
  <2>1. 0 \in 0 .. MaxRows /\ 0 .. (0 - 1) = {}
    BY ToolsAssumption
  <2>2. \A d \in Decisions : DOMAIN log[d] = {}
    BY DEF Init, EmptyLog
  <2>. QED
    BY <2>1, <2>2 DEF SeqContiguous
<1>3. SelectedInReach
  BY DEF Init, SelectedInReach
<1>4. RowMatchesStage
  BY DEF Init, RowMatchesStage
<1>. QED
  BY <1>1, <1>2, <1>3, <1>4 DEF LogInv

\* A call is entered with a well-typed operation.
LEMMA EnterTypes ==
  ASSUME TypeOK, NEW c \in Clients, NEW st \in Stages \ {"idle"}, NEW d \in Decisions, NEW l,
         NEW row \in Event, NEW next \in SUBSET Event, Enter(c, st, d, l, row, next)
  PROVE  /\ stage' \in [Clients -> Stages]
         /\ DOMAIN op' = Clients
         /\ \A b \in Clients : op'[b] \in IF stage'[b] = "idle" THEN {NoOp} ELSE Op
         /\ DOMAIN seen' = Clients
BY DEF TypeOK, Enter, Op, Stages

LEMMA ReturnTypes ==
  ASSUME TypeOK, NEW c \in Clients, Return(c)
  PROVE  /\ stage' \in [Clients -> Stages]
         /\ DOMAIN op' = Clients
         /\ \A b \in Clients : op'[b] \in IF stage'[b] = "idle" THEN {NoOp} ELSE Op
         /\ DOMAIN seen' = Clients
BY DEF TypeOK, Return, Stages

LEMMA EmitTypes ==
  ASSUME TypeOK, NEW c \in Clients, stage[c] # "idle", NEW row \in Event, Emit(c, row, {})
  PROVE  /\ stage' \in [Clients -> Stages]
         /\ DOMAIN op' = Clients
         /\ \A b \in Clients : op'[b] \in IF stage'[b] = "idle" THEN {NoOp} ELSE Op
         /\ DOMAIN seen' = Clients
BY DEF TypeOK, Emit, Op, Stages

\* A call does not get to another stage with a row that does not belong there.
LEMMA EnterKeepsStage ==
  ASSUME TypeOK, RowMatchesStage, NEW c \in Clients, NEW st \in {"validate", "select"},
         NEW d, NEW l, NEW row, NEW next, Enter(c, st, d, l, row, next),
         st = "validate" => row.type = "EXECUTION_REQUESTED"
  PROVE  RowMatchesStage'
BY DEF TypeOK, RowMatchesStage, Enter

LEMMA ReturnKeepsStage ==
  ASSUME TypeOK, RowMatchesStage, NEW c \in Clients, Return(c)
  PROVE  RowMatchesStage'
BY DEF TypeOK, RowMatchesStage, Return

LEMMA EmitKeepsStage ==
  ASSUME TypeOK, RowMatchesStage, NEW c \in Clients, NEW row, NEW next, Emit(c, row, next)
  PROVE  RowMatchesStage'
<1>1. /\ stage'[c] = "select"
      /\ \A b \in Clients \ {c} : stage'[b] = stage[b] /\ op'[b] = op[b]
  BY DEF TypeOK, Emit
<1>. QED
  BY <1>1 DEF RowMatchesStage

\* The INSERT goes in only at the end of the log: the number it takes is free,
\* and every number below it is not.
LEMMA InsertAtEnd ==
  ASSUME LogInv, NEW c \in Clients, AppendInsert(c)
  PROVE  /\ op[c].dec \in Decisions
         /\ op[c] \in Op
         /\ op[c].seq \in 0 .. (MaxRows - 1)
         /\ DOMAIN log[op[c].dec] = 0 .. (op[c].seq - 1)
         /\ log' = [log EXCEPT ![op[c].dec] = Inserted(log[op[c].dec], op[c].seq, op[c].row)]
<1>. DEFINE d == op[c].dec
<1>1. d \in Decisions /\ op[c] \in Op
  BY DEF LogInv, TypeOK, AppendInsert, Op
<1>2. PICK n \in 0 .. MaxRows : DOMAIN log[d] = 0 .. (n - 1)
  BY <1>1 DEF LogInv, SeqContiguous
<1>3. op[c].seq \in Nat /\ op[c].seq < MaxRows /\ 0 .. (op[c].seq - 1) \subseteq DOMAIN log[d]
  BY <1>1 DEF LogInv, SelectedInReach, AppendInsert, Op
<1>4. op[c].seq \notin DOMAIN log[d]
  BY DEF AppendInsert, Accepted, Free
<1>5. op[c].seq = n
  <2>. DEFINE s == op[c].seq
  <2>1. n \in Nat
    BY <1>2, ToolsAssumption
  <2>2. s \in Nat /\ s \notin 0 .. (n - 1) /\ n \notin 0 .. (s - 1)
    BY <1>2, <1>3, <1>4
  <2>. HIDE DEF s
  <2>3. s = n
    BY <2>1, <2>2
  <2>. QED
    BY <2>3 DEF s
<1>6. op[c].seq \in 0 .. (MaxRows - 1)
  BY <1>3, ToolsAssumption
<1>. QED
  BY <1>1, <1>2, <1>5, <1>6 DEF AppendInsert

\* Where a call goes after its insert: to its next row, to the router, or back.
LEMMA AfterInsertTypes ==
  ASSUME TypeOK, NEW c \in Clients, stage[c] = "insert", AfterInsert(c)
  PROVE  /\ stage' \in [Clients -> Stages]
         /\ DOMAIN op' = Clients
         /\ \A b \in Clients : op'[b] \in IF stage'[b] = "idle" THEN {NoOp} ELSE Op
         /\ DOMAIN seen' = Clients
         /\ \A b \in Clients : stage'[b] = "insert" => stage[b] = "insert" /\ op'[b] = op[b]
<1>1. CASE \E row \in op[c].next : Emit(c, row, {})
  <2>1. PICK row \in op[c].next : Emit(c, row, {})
    BY <1>1
  <2>2. row \in Event
    BY DEF TypeOK, Op
  <2>. QED
    BY <2>1, <2>2, EmitTypes DEF Emit, TypeOK
<1>2. CASE stage' = [stage EXCEPT ![c] = "run"] /\ UNCHANGED <<op, seen>>
  BY <1>2 DEF TypeOK, Stages
<1>3. CASE Return(c)
  BY <1>3, ReturnTypes DEF Return, TypeOK
<1>. QED
  BY <1>1, <1>2, <1>3 DEF AfterInsert

\* An insert of a row of a known kind, wherever it goes in.
LEMMA InsertKeepsTypes ==
  ASSUME TypeOK, RowMatchesStage, NEW c \in Clients, AppendInsert(c)
  PROVE  TypeOK' /\ RowMatchesStage'
<1> DEFINE d   == op[c].dec
           n   == op[c].seq
           new == Inserted(log[d], n, op[c].row)
<1>1. /\ stage[c] = "insert" /\ AfterInsert(c) /\ UNCHANGED <<decisions, now, runs>>
      /\ log' = [log EXCEPT ![d] = new]
  BY DEF AppendInsert
<1>2. op[c] \in Op /\ d \in Decisions /\ n \in Nat /\ op[c].row \in Event
  BY <1>1 DEF TypeOK, Op
<1>3. DOMAIN new \subseteq Nat /\ new \in [DOMAIN new -> Event]
  BY <1>2 DEF TypeOK, Inserted
<1> HIDE DEF d, new
<1>4. /\ DOMAIN log' = Decisions
      /\ \A e \in Decisions : log'[e] = IF e = d THEN new ELSE log[e]
  BY <1>1, <1>2 DEF TypeOK
<1>5. \A e \in Decisions : DOMAIN log'[e] \subseteq Nat /\ log'[e] \in [DOMAIN log'[e] -> Event]
  BY <1>3, <1>4 DEF TypeOK
<1>6. TypeOK'
  BY <1>1, <1>4, <1>5, AfterInsertTypes DEF TypeOK
<1>7. RowMatchesStage'
  <2>1. CASE \E row \in op[c].next : Emit(c, row, {})
    BY <2>1, EmitKeepsStage
  <2>2. CASE /\ op[c].row.type = "EXECUTION_STARTED"
             /\ stage' = [stage EXCEPT ![c] = "run"]
             /\ UNCHANGED <<op, seen>>
    BY <2>2 DEF TypeOK, RowMatchesStage
  <2>3. CASE Return(c)
    BY <2>3, ReturnKeepsStage
  <2>. QED
    BY <1>1, <2>1, <2>2, <2>3 DEF AfterInsert
<1>. QED
  BY <1>6, <1>7

(***************************************************************************)
(* Each step of a client keeps the types, if the sequence number it        *)
(* selects is one.                                                         *)
(***************************************************************************)
LEMMA StepKeepsTypes ==
  ASSUME TypeOK, RowMatchesStage, NEW c \in Clients, Step(c),
         AppendSelect(c) => NextSeq(log[op[c].dec]) \in Nat
  PROVE  TypeOK' /\ RowMatchesStage'
<1>1. ASSUME NEW d \in Decisions, NEW p \in Offered, NEW m \in Modes, Request(c, d, p, m)
      PROVE  TypeOK' /\ RowMatchesStage'
  <2>1. Created(m) \in Event /\ {PolicyAttached(p)} \in SUBSET Event
    BY RowTypes, ToolsAssumption
  <2>2. Enter(c, "select", d, EmptyLog, Created(m), {PolicyAttached(p)})
    BY <1>1 DEF Request
  <2>3. TypeOK'
    BY <1>1, <2>1, <2>2, EnterTypes DEF Request, TypeOK, Stages
  <2>. QED
    BY <2>2, <2>3, EnterKeepsStage
<1>2. ASSUME NEW d \in Decisions, NEW a \in Actors, NEW e \in Expiries, Approve(c, d, a, e)
      PROVE  TypeOK' /\ RowMatchesStage'
  <2>1. Granted(a, e) \in Event
    BY RowTypes, ToolsAssumption
  <2>2. Enter(c, "select", d, EmptyLog, Granted(a, e), {})
    BY <1>2 DEF Approve
  <2>3. TypeOK'
    BY <1>2, <2>1, <2>2, EnterTypes DEF Approve, TypeOK, Stages, store
  <2>. QED
    BY <2>2, <2>3, EnterKeepsStage
<1>3. ASSUME NEW d \in Decisions, NEW a \in Actors, Revoke(c, d, a)
      PROVE  TypeOK' /\ RowMatchesStage'
  <2>1. Revoked(a) \in Event
    BY RowTypes
  <2>2. Enter(c, "select", d, EmptyLog, Revoked(a), {})
    BY <1>3 DEF Revoke
  <2>3. TypeOK'
    BY <1>3, <2>1, <2>2, EnterTypes DEF Revoke, TypeOK, Stages, store
  <2>. QED
    BY <2>2, <2>3, EnterKeepsStage
<1>4. ASSUME NEW d \in Decisions, NEW m \in Modes, ExecuteLoad(c, d, m)
      PROVE  TypeOK' /\ RowMatchesStage'
  <2>1. Requested(m, now) \in Event /\ Requested(m, now).type = "EXECUTION_REQUESTED"
    BY RowTypes DEF TypeOK, Requested
  <2>2. Enter(c, "validate", d, log[d], Requested(m, now), {})
    BY <1>4 DEF ExecuteLoad
  <2>3. TypeOK'
    BY <1>4, <2>1, <2>2, EnterTypes DEF ExecuteLoad, TypeOK, Stages, store
  <2>. QED
    BY <2>1, <2>2, <2>3, EnterKeepsStage
<1>5. ASSUME NEW answer \in Answers, ExecuteValidate(c, answer)
      PROVE  TypeOK' /\ RowMatchesStage'
  <2>. DEFINE m == op[c].row.mode
  <2>1. /\ stage[c] = "validate" /\ op[c] \in Op
        /\ op[c].row \in Event /\ op[c].row.type = "EXECUTION_REQUESTED"
    BY <1>5 DEF ExecuteValidate, TypeOK, RowMatchesStage, Op
  <2>2. m \in Modes
    BY <2>1 DEF Event, Failed
  <2>3. Requested(m, now) \in Event /\ {Started(m)} \in SUBSET Event
    BY <2>2, RowTypes DEF TypeOK
  <2>4. /\ stage' = [stage EXCEPT ![c] = "select"]
        /\ op' = [op EXCEPT ![c].row = Requested(m, now), ![c].next = {Started(m)}]
        /\ UNCHANGED <<store, seen, now, runs>>
    BY <1>5 DEF ExecuteValidate
  <2>5. TypeOK'
    BY <2>1, <2>3, <2>4 DEF TypeOK, Stages, Op, store
  <2>6. /\ stage'[c] = "select"
        /\ \A b \in Clients \ {c} : stage'[b] = stage[b] /\ op'[b] = op[b]
    BY <2>4 DEF TypeOK
  <2>. QED
    BY <2>5, <2>6 DEF RowMatchesStage
<1>6. CASE \/ \E answer \in Answers : ExecuteRefused(c, answer)
           \/ Crash(c)
  <2>1. Return(c) /\ UNCHANGED <<store, now, runs>>
    BY <1>6 DEF ExecuteRefused, Crash
  <2>2. TypeOK'
    BY <2>1, ReturnTypes DEF TypeOK, store
  <2>. QED
    BY <2>1, <2>2, ReturnKeepsStage
<1>7. CASE AppendConflict(c) \/ AppendFails(c)
  <2>1. UNCHANGED <<store, now, runs>> /\ stage[c] # "idle"
    BY <1>7 DEF AppendConflict, AppendFails, AppendRaises
  <2>2. CASE Emit(c, Failed, {})
    BY <2>1, <2>2, RowTypes, EmitTypes, EmitKeepsStage DEF TypeOK, store
  <2>3. CASE Return(c)
    BY <2>1, <2>3, ReturnTypes, ReturnKeepsStage DEF TypeOK, store
  <2>. QED
    BY <1>7, <2>2, <2>3 DEF AppendConflict, AppendFails, AppendRaises
<1>8. CASE RouterReturns(c) \/ RouterUnreadable(c)
  <2>. DEFINE run == [dec |-> op[c].dec, mode |-> op[c].row.mode]
  <2>1. /\ stage[c] = "run" /\ op[c].dec \in Decisions
        /\ op[c].row \in Event /\ op[c].row.type = "EXECUTION_STARTED"
    BY <1>8 DEF RouterReturns, RouterUnreadable, TypeOK, RowMatchesStage, Op
  <2>2. run \in Run
    BY <2>1 DEF Event, Failed, Run
  <2>3. PICK row \in {Completed(Len(runs) + 1), Failed} :
          /\ runs' = Append(runs, run)
          /\ Emit(c, row, {})
          /\ UNCHANGED <<store, now>>
    BY <1>8 DEF RouterReturns, RouterUnreadable
  <2>4. runs' \in Seq(Run) /\ Len(runs) \in Nat
    BY <2>2, <2>3 DEF TypeOK
  <2>5. row \in Event
    BY <2>4, RowTypes
  <2>6. TypeOK'
    BY <2>1, <2>3, <2>4, <2>5, EmitTypes DEF TypeOK, store
  <2>. QED
    BY <2>3, <2>6, EmitKeepsStage
<1>9. CASE RouterRaises(c)
  <2>1. stage[c] = "run" /\ Emit(c, Failed, {}) /\ UNCHANGED <<store, now, runs>>
    BY <1>9 DEF RouterRaises
  <2>2. TypeOK'
    BY <2>1, RowTypes, EmitTypes DEF TypeOK, store
  <2>. QED
    BY <2>1, <2>2, EmitKeepsStage
<1>10. CASE AppendSelect(c)
  <2>1. op[c] \in Op
    BY <1>10 DEF TypeOK, AppendSelect
  <2>2. /\ stage' = [stage EXCEPT ![c] = "insert"]
        /\ op' = [op EXCEPT ![c].seq = NextSeq(log[op[c].dec])]
        /\ UNCHANGED <<store, seen, now, runs>>
    BY <1>10 DEF AppendSelect
  <2>3. op'[c] \in Op
    BY <1>10, <2>1, <2>2 DEF TypeOK, Op
  <2>4. /\ stage'[c] = "insert"
        /\ \A b \in Clients \ {c} : stage'[b] = stage[b] /\ op'[b] = op[b]
    BY <2>2 DEF TypeOK
  <2>5. TypeOK'
    BY <2>2, <2>3, <2>4 DEF TypeOK, Stages, store
  <2>. QED
    BY <2>4, <2>5 DEF RowMatchesStage
<1>. QED
  BY <1>1, <1>2, <1>3, <1>4, <1>5, <1>6, <1>7, <1>8, <1>9, <1>10, InsertKeepsTypes
  DEF Step

\* A step that is neither half of an append leaves the logs alone and selects nothing.
LEMMA NothingSelected ==
  ASSUME TypeOK, NEW c \in Clients, Step(c), ~ AppendSelect(c), ~ AppendInsert(c)
  PROVE  /\ log' = log
         /\ \A b \in Clients : stage'[b] = "insert" => stage[b] = "insert" /\ op'[b] = op[b]
<1> DEFINE Quietly == \A b \in Clients : stage'[b] = "insert" => stage[b] = "insert" /\ op'[b] = op[b]
<1>1. ASSUME NEW st \in {"validate", "select"}, NEW d, NEW l, NEW row, NEW next, Enter(c, st, d, l, row, next)
      PROVE  Quietly
  BY <1>1 DEF TypeOK, Enter
<1>2. Return(c) => Quietly
  BY DEF TypeOK, Return
<1>3. ASSUME NEW row, NEW next, Emit(c, row, next)
      PROVE  Quietly
  BY <1>3 DEF TypeOK, Emit
<1>4. \A answer : ExecuteValidate(c, answer) => Quietly
  BY DEF TypeOK, ExecuteValidate
<1> HIDE DEF Quietly
<1>5. Quietly
  BY <1>1, <1>2, <1>3, <1>4
  DEF Step, Request, Approve, Revoke, ExecuteLoad, ExecuteRefused,
      AppendConflict, AppendFails, AppendRaises, RouterReturns, RouterUnreadable, RouterRaises,
      Crash
<1>6. log' = log
  BY DEF Step, Request, Approve, Revoke, ExecuteLoad, ExecuteValidate, ExecuteRefused,
         AppendConflict, AppendFails, AppendRaises, RouterReturns, RouterUnreadable, RouterRaises,
         Crash, store
<1>. QED
  BY <1>5, <1>6 DEF Quietly

\* Each step of a client keeps the invariant.
LEMMA StepKeepsLogInv ==
  ASSUME LogInv, NEW c \in Clients, Step(c)
  PROVE  LogInv'
<1>1. TypeOK /\ RowMatchesStage /\ SeqContiguous /\ SelectedInReach
  BY DEF LogInv
<1>2. ASSUME AppendSelect(c)
      PROVE  \E n \in Nat : /\ op[c].dec \in Decisions /\ op[c] \in Op
                            /\ DOMAIN log[op[c].dec] = 0 .. (n - 1)
                            /\ NextSeq(log[op[c].dec]) = n
  <2>1. op[c].dec \in Decisions /\ op[c] \in Op
    BY <1>1, <1>2 DEF TypeOK, AppendSelect, Op
  <2>2. PICK n \in Nat : DOMAIN log[op[c].dec] = 0 .. (n - 1)
    BY <1>1, <2>1, ToolsAssumption DEF SeqContiguous
  <2>. QED
    BY <2>1, <2>2, NextSeqOfLog
<1>3. TypeOK' /\ RowMatchesStage'
  BY <1>1, <1>2, StepKeepsTypes
<1>4. CASE AppendSelect(c)
  <2>1. PICK n \in Nat : /\ op[c].dec \in Decisions /\ op[c] \in Op
                         /\ DOMAIN log[op[c].dec] = 0 .. (n - 1)
                         /\ NextSeq(log[op[c].dec]) = n
    BY <1>2, <1>4
  <2>2. /\ n < MaxRows /\ log' = log
        /\ stage' = [stage EXCEPT ![c] = "insert"]
        /\ op' = [op EXCEPT ![c].seq = n]
    BY <1>4, <2>1 DEF AppendSelect, store
  <2>3. SelectedInReach'
    BY <1>1, <2>1, <2>2 DEF TypeOK, SelectedInReach, Op
  <2>. QED
    BY <1>1, <1>3, <2>2, <2>3 DEF LogInv, SeqContiguous
<1>5. CASE AppendInsert(c)
  <2> DEFINE d == op[c].dec
             n == op[c].seq
  <2>1. /\ d \in Decisions /\ n \in Nat /\ n \in 0 .. (MaxRows - 1)
        /\ DOMAIN log[d] = 0 .. (n - 1)
        /\ log' = [log EXCEPT ![d] = Inserted(log[d], n, op[c].row)]
        /\ stage[c] = "insert" /\ AfterInsert(c)
    BY <1>5, InsertAtEnd DEF Op, AppendInsert
  <2>2. DOMAIN log'[d] = 0 .. n /\ \A e \in Decisions \ {d} : log'[e] = log[e]
    BY <1>1, <2>1, InsertedAtEnd DEF TypeOK
  <2>3. SeqContiguous'
    <3>1. n + 1 \in 0 .. MaxRows /\ 0 .. n = 0 .. ((n + 1) - 1)
      BY <2>1, ToolsAssumption
    <3>. QED
      BY <1>1, <2>1, <2>2, <3>1 DEF SeqContiguous
  <2>4. SelectedInReach'
    <3>1. \A e \in Decisions : DOMAIN log[e] \subseteq DOMAIN log'[e]
      BY <2>1, <2>2
    <3>2. \A b \in Clients : stage'[b] = "insert" =>
            stage[b] = "insert" /\ op'[b] = op[b] /\ op[b].dec \in Decisions
      BY <1>1, <2>1, AfterInsertTypes DEF TypeOK, Op
    <3>. QED
      BY <1>1, <3>1, <3>2 DEF SelectedInReach
  <2>. QED
    BY <1>3, <2>3, <2>4 DEF LogInv
<1>6. CASE ~ AppendSelect(c) /\ ~ AppendInsert(c)
  <2>1. /\ log' = log
        /\ \A b \in Clients : stage'[b] = "insert" => stage[b] = "insert" /\ op'[b] = op[b]
    BY <1>1, <1>6, NothingSelected
  <2>2. SeqContiguous' /\ SelectedInReach'
    BY <1>1, <2>1 DEF SeqContiguous, SelectedInReach
  <2>. QED
    BY <1>3, <2>2 DEF LogInv
<1>. QED
  BY <1>4, <1>5, <1>6

(***************************************************************************)
(* The inductive invariant holds in every reachable state.                 *)
(***************************************************************************)
LEMMA LogInvariant == Spec => []LogInv
<1>1. LogInv /\ [Next]_vars => LogInv'
  <2>. SUFFICES ASSUME LogInv, [Next]_vars PROVE LogInv'
    OBVIOUS
  <2>1. CASE Tick
    BY <2>1 DEF LogInv, TypeOK, SeqContiguous, SelectedInReach, RowMatchesStage, Tick, store, locals
  <2>2. CASE UNCHANGED vars
    BY <2>2 DEF LogInv, TypeOK, SeqContiguous, SelectedInReach, RowMatchesStage, vars
  <2>. QED
    BY <2>1, <2>2, StepKeepsLogInv DEF Next
<1>. QED
  BY <1>1, LogInvInit, PTL DEF Spec

(***************************************************************************)
(* Every variable keeps its type, whatever the clients do.                 *)
(***************************************************************************)
THEOREM TypeCorrect == Spec => []TypeOK
<1>1. LogInv => TypeOK
  BY DEF LogInv
<1>. QED
  BY <1>1, LogInvariant, PTL

(***************************************************************************)
(* The sequence numbers of every log are 0, 1, 2, ... without a gap: the   *)
(* key of decision_events is enough to keep racing appends in order.       *)
(***************************************************************************)
THEOREM Contiguous == Spec => []SeqContiguous
<1>1. LogInv => SeqContiguous
  BY DEF LogInv
<1>. QED
  BY <1>1, LogInvariant, PTL

-----------------------------------------------------------------------------
(***************************************************************************)
(* A log only grows.                                                       *)
(***************************************************************************)
Grows ==
  \A d \in Decisions : \A s \in DOMAIN log[d] : s \in DOMAIN log'[d] /\ log'[d][s] = log[d][s]

\* Only append_event touches the table of events.
LEMMA OnlyInsertWrites ==
  ASSUME [Next]_vars
  PROVE  UNCHANGED log \/ \E c \in Clients : AppendInsert(c)
<1>1. CASE Tick
  BY <1>1 DEF Tick, store
<1>2. ASSUME NEW c \in Clients, Step(c)
      PROVE  UNCHANGED log \/ AppendInsert(c)
  BY <1>2 DEF Step, Request, Approve, Revoke, ExecuteLoad, ExecuteValidate, ExecuteRefused,
              AppendSelect, AppendConflict, AppendFails, AppendRaises, RouterReturns,
              RouterUnreadable, RouterRaises, Crash, store
<1>3. CASE UNCHANGED vars
  BY <1>3 DEF vars
<1>. QED
  BY <1>1, <1>2, <1>3 DEF Next

\* An append leaves every row, and every earlier version of every log, as it was.
LEMMA InsertExtends ==
  ASSUME LogInv, NEW c \in Clients, AppendInsert(c)
  PROVE  /\ Grows
         /\ \A d \in Decisions : \A k \in Nat :
              0 .. (k - 1) \subseteq DOMAIN log[d] => Below(log'[d], k) = Below(log[d], k)
<1>. DEFINE d == op[c].dec
            n == op[c].seq
            row == op[c].row
<1>1. /\ d \in Decisions /\ n \in Nat
      /\ DOMAIN log[d] = 0 .. (n - 1)
      /\ log' = [log EXCEPT ![d] = Inserted(log[d], n, row)]
  BY InsertAtEnd DEF Op
<1>2. log'[d] = Inserted(log[d], n, row) /\ \A e \in Decisions \ {d} : log'[e] = log[e]
  BY <1>1 DEF LogInv, TypeOK
<1>3. /\ DOMAIN Inserted(log[d], n, row) = 0 .. n
      /\ \A s \in 0 .. (n - 1) : Inserted(log[d], n, row)[s] = log[d][s]
      /\ \A k \in 0 .. n : Below(Inserted(log[d], n, row), k) = Below(log[d], k)
  BY <1>1, InsertedAtEnd
<1>4. Grows
  <2>1. \A s \in 0 .. (n - 1) : s \in DOMAIN log'[d] /\ log'[d][s] = log[d][s]
    BY <1>1, <1>2, <1>3
  <2>2. ASSUME NEW e \in Decisions, NEW s \in DOMAIN log[e]
        PROVE  s \in DOMAIN log'[e] /\ log'[e][s] = log[e][s]
    BY <1>1, <1>2, <2>1
  <2>. QED
    BY <2>2 DEF Grows
<1>5. ASSUME NEW e \in Decisions, NEW k \in Nat, 0 .. (k - 1) \subseteq DOMAIN log[e]
      PROVE  Below(log'[e], k) = Below(log[e], k)
  <2>1. CASE e # d
    BY <1>2, <2>1
  <2>2. CASE e = d
    <3>1. n \notin 0 .. (k - 1)
      BY <1>1, <1>5, <2>2
    <3>2. k \in 0 .. n
      BY <1>1, <3>1
    <3>. QED
      BY <1>2, <1>3, <2>2, <3>2
  <2>. QED
    BY <2>1, <2>2
<1>. QED
  BY <1>4, <1>5

(***************************************************************************)
(* No step of the four tools changes or removes a row once written.        *)
(***************************************************************************)
THEOREM LogAppendOnly == Spec => AppendOnly
<1>1. LogInv /\ [Next]_vars => Grows
  BY OnlyInsertWrites, InsertExtends DEF Grows
<1>2. Grows <=> \A d \in Decisions : \A s \in DOMAIN log[d] :
                  s \in DOMAIN log'[d] /\ log'[d][s] = log[d][s]
  BY DEF Grows
<1>. QED
  BY <1>1, <1>2, LogInvariant, PTL DEF Spec, AppendOnly

-----------------------------------------------------------------------------
(***************************************************************************)
(* No execution without a quorum that was there.                           *)
(*                                                                         *)
(* What execute() holds from its load until its EXECUTION_REQUESTED row is *)
(* in stays an earlier version of the log, and keeps satisfying the policy *)
(* at the time it was validated.                                           *)
(***************************************************************************)
Waiting(c) ==
  /\ stage[c] \in {"validate", "select", "insert"}
  /\ op[c].row.type = "EXECUTION_REQUESTED"

LoadedEarlier(c) ==
  Waiting(c) => \E k \in Nat : /\ 0 .. (k - 1) \subseteq DOMAIN log[op[c].dec]
                               /\ seen[c] = Below(log[op[c].dec], k)

Validated(c) ==
  Waiting(c) /\ stage[c] # "validate" =>
    MayExecute(seen[c], op[c].row.mode, op[c].row.checked)

NextNotRequested(c) ==
  stage[c] # "idle" => \A row \in op[c].next : row.type # "EXECUTION_REQUESTED"

CallJustified(c) == LoadedEarlier(c) /\ Validated(c) /\ NextNotRequested(c)

JustInv == LogInv /\ RequestsJustified /\ \A c \in Clients : CallJustified(c)

\* A step of one client leaves the calls of the others alone.
LEMMA OthersUnchanged ==
  ASSUME LogInv, NEW c \in Clients, Step(c), NEW b \in Clients \ {c}
  PROVE  stage'[b] = stage[b] /\ op'[b] = op[b] /\ seen'[b] = seen[b]
<1>. DEFINE Same == stage'[b] = stage[b] /\ op'[b] = op[b] /\ seen'[b] = seen[b]
<1>1. ASSUME NEW st, NEW d, NEW l, NEW row, NEW next, Enter(c, st, d, l, row, next)
      PROVE  Same
  BY <1>1 DEF Enter, LogInv, TypeOK
<1>2. Return(c) => Same
  BY DEF Return, LogInv, TypeOK
<1>3. ASSUME NEW row, NEW next, Emit(c, row, next)
      PROVE  Same
  BY <1>3 DEF Emit, LogInv, TypeOK
<1>4. \A answer : ExecuteValidate(c, answer) => Same
  BY DEF ExecuteValidate, LogInv, TypeOK
<1>5. AppendSelect(c) => Same
  BY DEF AppendSelect, LogInv, TypeOK
<1>6. AfterInsert(c) => Same
  BY <1>2, <1>3 DEF AfterInsert, LogInv, TypeOK
<1>. HIDE DEF Same
<1>7. Same
  BY <1>1, <1>2, <1>3, <1>4, <1>5, <1>6
  DEF Step, Request, Approve, Revoke, ExecuteLoad, ExecuteRefused, AppendInsert,
      AppendConflict, AppendFails, AppendRaises, RouterReturns, RouterUnreadable, RouterRaises,
      Crash
<1>. QED
  BY <1>7 DEF Same

\* A call that goes on with a row of another kind, or ends, has nothing to justify.
LEMMA NotWaiting ==
  ASSUME NEW c \in Clients,
         \/ stage'[c] \in {"idle", "run"}
         \/ op'[c].row.type # "EXECUTION_REQUESTED",
         NextNotRequested(c)'
  PROVE  CallJustified(c)'
BY DEF CallJustified, LoadedEarlier, Validated, Waiting

\* The calls of the client that takes the step.
LEMMA StepJustifiesOwnCall ==
  ASSUME JustInv, NEW c \in Clients, Step(c)
  PROVE  CallJustified(c)'
<1>1. LogInv /\ TypeOK /\ CallJustified(c)
  BY DEF JustInv, LogInv
<1>2. ASSUME NEW d \in Decisions, NEW p \in Offered, NEW m \in Modes, Request(c, d, p, m)
      PROVE  CallJustified(c)'
  <2>1. Enter(c, "select", d, EmptyLog, Created(m), {PolicyAttached(p)})
    BY <1>2 DEF Request
  <2>. QED
    BY <1>1, <2>1, NotWaiting DEF Enter, Created, PolicyAttached, NextNotRequested, TypeOK
<1>3. ASSUME NEW d \in Decisions, NEW a \in Actors, NEW e \in Expiries, Approve(c, d, a, e)
      PROVE  CallJustified(c)'
  <2>1. Enter(c, "select", d, EmptyLog, Granted(a, e), {})
    BY <1>3 DEF Approve
  <2>. QED
    BY <1>1, <2>1, NotWaiting DEF Enter, Granted, NextNotRequested, TypeOK
<1>4. ASSUME NEW d \in Decisions, NEW a \in Actors, Revoke(c, d, a)
      PROVE  CallJustified(c)'
  <2>1. Enter(c, "select", d, EmptyLog, Revoked(a), {})
    BY <1>4 DEF Revoke
  <2>. QED
    BY <1>1, <2>1, NotWaiting DEF Enter, Revoked, NextNotRequested, TypeOK
<1>5. ASSUME NEW d \in Decisions, NEW m \in Modes, ExecuteLoad(c, d, m)
      PROVE  CallJustified(c)'
  <2>1. Enter(c, "validate", d, log[d], Requested(m, now), {}) /\ log' = log
    BY <1>5 DEF ExecuteLoad, store
  <2>2. /\ stage'[c] = "validate"
        /\ op'[c] = [dec |-> d, row |-> Requested(m, now), next |-> {}, seq |-> 0]
        /\ seen'[c] = log[d]
    BY <1>1, <2>1 DEF Enter, TypeOK
  <2>3. PICK n \in 0 .. MaxRows : DOMAIN log[d] = 0 .. (n - 1)
    BY <1>1 DEF LogInv, SeqContiguous
  <2>4. n \in Nat /\ Below(log[d], n) = log[d]
    BY <1>1, <2>3, WholeLog, ToolsAssumption DEF TypeOK
  <2>5. LoadedEarlier(c)'
    BY <2>1, <2>2, <2>3, <2>4 DEF LoadedEarlier
  <2>. QED
    BY <2>2, <2>5 DEF CallJustified, Validated, NextNotRequested
<1>6. ASSUME NEW answer \in Answers, ExecuteValidate(c, answer)
      PROVE  CallJustified(c)'
  <2>. DEFINE m == op[c].row.mode
  <2>1. /\ stage[c] = "validate" /\ op[c] \in Op
        /\ MayExecute(seen[c], m, now)
        /\ stage' = [stage EXCEPT ![c] = "select"]
        /\ op' = [op EXCEPT ![c].row = Requested(m, now), ![c].next = {Started(m)}]
        /\ log' = log /\ seen' = seen
    BY <1>1, <1>6 DEF ExecuteValidate, store, TypeOK
  <2>2. /\ stage'[c] = "select"
        /\ op'[c].dec = op[c].dec
        /\ op'[c].row = Requested(m, now)
        /\ op'[c].next = {Started(m)}
    BY <1>1, <2>1 DEF TypeOK, Op
  <2>3. Waiting(c)
    BY <1>1, <2>1 DEF Waiting, LogInv, RowMatchesStage
  <2>4. LoadedEarlier(c)'
    BY <1>1, <2>1, <2>2, <2>3 DEF CallJustified, LoadedEarlier
  <2>5. Validated(c)'
    BY <2>1, <2>2 DEF Validated, Requested
  <2>6. NextNotRequested(c)'
    BY <2>2 DEF NextNotRequested, Started
  <2>. QED
    BY <2>4, <2>5, <2>6 DEF CallJustified
<1>7. CASE AppendSelect(c)
  <2>1. /\ stage[c] = "select" /\ op[c] \in Op
        /\ stage' = [stage EXCEPT ![c] = "insert"]
        /\ op' = [op EXCEPT ![c].seq = NextSeq(log[op[c].dec])]
        /\ log' = log /\ seen' = seen
    BY <1>1, <1>7 DEF AppendSelect, store, TypeOK
  <2>2. /\ stage'[c] = "insert"
        /\ op'[c].dec = op[c].dec /\ op'[c].row = op[c].row /\ op'[c].next = op[c].next
    BY <1>1, <2>1 DEF TypeOK, Op
  <2>. QED
    BY <1>1, <2>1, <2>2 DEF CallJustified, LoadedEarlier, Validated, NextNotRequested, Waiting
<1>8. ASSUME NEW row, row.type # "EXECUTION_REQUESTED", stage[c] # "idle", Emit(c, row, {})
      PROVE  CallJustified(c)'
  <2>1. op[c] \in Op
    BY <1>1, <1>8 DEF TypeOK
  <2>2. stage'[c] = "select" /\ op'[c].row = row /\ op'[c].next = {}
    BY <1>1, <1>8, <2>1 DEF Emit, TypeOK, Op
  <2>. QED
    BY <1>8, <2>2, NotWaiting DEF NextNotRequested
<1>9. CASE Return(c)
  <2>1. stage'[c] = "idle"
    BY <1>1, <1>9 DEF Return, TypeOK
  <2>. QED
    BY <2>1, NotWaiting DEF NextNotRequested
<1>10. CASE AppendInsert(c)
  <2>1. stage[c] = "insert" /\ AfterInsert(c)
    BY <1>10 DEF AppendInsert
  <2>2. CASE \E row \in op[c].next : Emit(c, row, {})
    BY <1>1, <1>8, <2>1, <2>2 DEF CallJustified, NextNotRequested
  <2>3. CASE /\ op[c].next = {}
             /\ stage' = [stage EXCEPT ![c] = "run"]
             /\ UNCHANGED <<op, seen>>
    <3>1. stage'[c] = "run" /\ op'[c].next = {}
      BY <1>1, <2>3 DEF TypeOK
    <3>. QED
      BY <3>1, NotWaiting DEF NextNotRequested
  <2>. QED
    BY <1>9, <2>1, <2>2, <2>3 DEF AfterInsert
<1>11. CASE AppendConflict(c) \/ AppendFails(c)
  BY <1>8, <1>9, <1>11 DEF AppendConflict, AppendFails, AppendRaises, Failed
<1>12. CASE RouterReturns(c) \/ RouterUnreadable(c) \/ RouterRaises(c)
  BY <1>8, <1>12 DEF RouterReturns, RouterUnreadable, RouterRaises, Completed, Failed
<1>13. CASE Crash(c) \/ \E answer \in Answers : ExecuteRefused(c, answer)
  BY <1>9, <1>13 DEF Crash, ExecuteRefused
<1>. QED
  BY <1>2, <1>3, <1>4, <1>5, <1>6, <1>7, <1>10, <1>11, <1>12, <1>13 DEF Step

\* The calls of the others: what they loaded stays an earlier version of the log.
LEMMA StepJustifiesOtherCalls ==
  ASSUME JustInv, NEW c \in Clients, Step(c), NEW b \in Clients \ {c}
  PROVE  CallJustified(b)'
<1>1. LogInv /\ CallJustified(b)
  BY DEF JustInv
<1>2. stage'[b] = stage[b] /\ op'[b] = op[b] /\ seen'[b] = seen[b]
  BY <1>1, OthersUnchanged
<1>3. \A d \in Decisions : \A k \in Nat : 0 .. (k - 1) \subseteq DOMAIN log[d] =>
         0 .. (k - 1) \subseteq DOMAIN log'[d] /\ Below(log'[d], k) = Below(log[d], k)
  <2>1. CASE UNCHANGED log
    BY <2>1
  <2>2. CASE \E a \in Clients : AppendInsert(a)
    BY <1>1, <2>2, InsertExtends DEF Grows
  <2>. QED
    BY <2>1, <2>2, OnlyInsertWrites DEF Next
<1>4. Waiting(b) => op[b].dec \in Decisions
  BY <1>1 DEF LogInv, TypeOK, Waiting, Op
<1>5. LoadedEarlier(b)'
  BY <1>1, <1>2, <1>3, <1>4 DEF CallJustified, LoadedEarlier, Waiting
<1>. QED
  BY <1>1, <1>2, <1>5 DEF CallJustified, Validated, NextNotRequested, Waiting

\* The rows.
LEMMA InsertJustified ==
  ASSUME JustInv, NEW c \in Clients, AppendInsert(c)
  PROVE  RequestsJustified'
<1>. DEFINE d == op[c].dec
            n == op[c].seq
<1>1. LogInv /\ CallJustified(c) /\ RequestsJustified
  BY DEF JustInv
<1>2. /\ d \in Decisions /\ n \in Nat
      /\ DOMAIN log[d] = 0 .. (n - 1)
      /\ log' = [log EXCEPT ![d] = Inserted(log[d], n, op[c].row)]
  BY <1>1, InsertAtEnd DEF Op
<1>3. /\ \A e \in Decisions \ {d} : log'[e] = log[e]
      /\ DOMAIN log'[d] = 0 .. n
      /\ log'[d][n] = op[c].row
  BY <1>1, <1>2, InsertedAtEnd DEF LogInv, TypeOK
<1>4. ASSUME NEW e \in Decisions, NEW s \in Requests(log'[e])
      PROVE  \E k \in 0 .. s : JustifiedAt(log'[e], k, s)
  <2>1. CASE s \in DOMAIN log[e]
    <3>1. log'[e][s] = log[e][s] /\ s \in Requests(log[e])
      BY <1>1, <1>4, <2>1, InsertExtends DEF Grows, Requests, Rows
    <3>2. PICK k \in 0 .. s : JustifiedAt(log[e], k, s)
      BY <1>1, <3>1 DEF RequestsJustified
    <3>3. PICK m \in 0 .. MaxRows : DOMAIN log[e] = 0 .. (m - 1)
      BY <1>1 DEF LogInv, SeqContiguous
    <3>4. k \in Nat /\ 0 .. (k - 1) \subseteq DOMAIN log[e]
      BY <2>1, <3>2, <3>3, ToolsAssumption
    <3>5. Below(log'[e], k) = Below(log[e], k)
      BY <1>1, <3>4, InsertExtends
    <3>. QED
      BY <3>1, <3>2, <3>5 DEF JustifiedAt
  <2>2. CASE s \notin DOMAIN log[e]
    <3>1. e = d /\ s = n /\ op[c].row.type = "EXECUTION_REQUESTED"
      BY <1>2, <1>3, <1>4, <2>2 DEF Requests, Rows
    <3>2. stage[c] = "insert" /\ Waiting(c)
      BY <3>1 DEF AppendInsert, Waiting
    <3>3. PICK k \in Nat : 0 .. (k - 1) \subseteq DOMAIN log[d] /\ seen[c] = Below(log[d], k)
      BY <1>1, <3>2 DEF CallJustified, LoadedEarlier
    <3>4. MayExecute(seen[c], op[c].row.mode, op[c].row.checked)
      BY <1>1, <3>2 DEF CallJustified, Validated
    <3>5. Below(log'[d], k) = seen[c]
      BY <1>1, <1>2, <3>3, InsertExtends
    <3>6. k \in 0 .. n
      <4>1. n \notin 0 .. (k - 1)
        BY <1>2, <3>3
      <4>. QED
        BY <1>2, <4>1
    <3>. QED
      BY <1>3, <3>1, <3>4, <3>5, <3>6 DEF JustifiedAt
  <2>. QED
    BY <2>1, <2>2
<1>. QED
  BY <1>4 DEF RequestsJustified

\* What the calls hold and the rows say is kept by every step.
LEMMA JustInvariant == Spec => []JustInv
<1>1. Init => JustInv
  <2>. SUFFICES ASSUME Init PROVE JustInv
    OBVIOUS
  <2>1. RequestsJustified
    BY DEF Init, RequestsJustified, Requests, Rows, EmptyLog
  <2>2. \A c \in Clients : CallJustified(c)
    BY DEF Init, CallJustified, LoadedEarlier, Validated, NextNotRequested, Waiting
  <2>. QED
    BY <2>1, <2>2, LogInvInit DEF JustInv
<1>2. JustInv /\ LogInv' /\ [Next]_vars => JustInv'
  <2>. SUFFICES ASSUME JustInv, LogInv', [Next]_vars PROVE JustInv'
    OBVIOUS
  <2>1. LogInv /\ RequestsJustified
    BY DEF JustInv
  <2>2. RequestsJustified'
    <3>1. CASE UNCHANGED log
      BY <2>1, <3>1 DEF RequestsJustified
    <3>. QED
      BY <3>1, OnlyInsertWrites, InsertJustified
  <2>3. ASSUME NEW b \in Clients
        PROVE  CallJustified(b)'
    <3>1. CASE \E c \in Clients : Step(c)
      BY <3>1, StepJustifiesOwnCall, StepJustifiesOtherCalls
    <3>2. CASE UNCHANGED <<log, stage, op, seen>>
      BY <3>2 DEF JustInv, CallJustified, LoadedEarlier, Validated, NextNotRequested, Waiting
    <3>. QED
      BY <3>1, <3>2 DEF Next, Tick, store, locals, vars
  <2>. QED
    BY <2>2, <2>3 DEF JustInv
<1>. QED
  BY <1>1, <1>2, LogInvariant, PTL DEF Spec

(***************************************************************************)
(* Every EXECUTION_REQUESTED row, of whatever client and however its load  *)
(* and its append were overtaken, had an earlier version of its log that   *)
(* satisfied the policy when execute() counted the approvals.              *)
(***************************************************************************)
THEOREM QuorumWasThere == Spec => []RequestsJustified
<1>1. JustInv => RequestsJustified
  BY DEF JustInv
<1>. QED
  BY <1>1, JustInvariant, PTL

-----------------------------------------------------------------------------
(***************************************************************************)
(* One client at a time.  What its call has checked of the log is then     *)
(* still true of the log it appends to.                                    *)
(***************************************************************************)
OneClient == \A b, c \in Clients : b = c

CheckedTypes == {"EXECUTION_REQUESTED", "APPROVAL_GRANTED", "APPROVAL_REVOKED"}

\* what execute(), approve() and revoke_approval() check before they append row to l
Fits(l, row) ==
  /\ row.type = "EXECUTION_REQUESTED" => MayExecute(l, row.mode, row.checked)
  /\ row.type = "APPROVAL_GRANTED" => ~ \E g \in DOMAIN l : Stands(l, g, row.actor)
  /\ row.type = "APPROVAL_REVOKED" => /\ \E g \in DOMAIN l : Stands(l, g, row.actor)
                                      /\ \A t \in Nat : StateOf(l, t) \notin {"executing", "completed"}

RowsFit == \A d \in Decisions : \A s \in DOMAIN log[d] : Fits(Below(log[d], s), log[d][s])

CallFits(c) ==
  /\ stage[c] \in {"select", "insert"} => Fits(log[op[c].dec], op[c].row)
  /\ stage[c] = "validate" => seen[c] = log[op[c].dec]
  /\ stage[c] # "idle" => \A row \in op[c].next : row.type \notin CheckedTypes

FitInv == RowsFit /\ \A c \in Clients : CallFits(c)

LEMMA FitsUnchecked ==
  ASSUME NEW l, NEW row, row.type \notin CheckedTypes
  PROVE  Fits(l, row)
BY DEF Fits, CheckedTypes

\* Whether an execution has begun does not depend on the clock.
LEMMA BegunAnyTime ==
  ASSUME NEW l, NEW t, NEW u, StateOf(l, t) \notin {"executing", "completed"}
  PROVE  StateOf(l, u) \notin {"executing", "completed"}
<1> DEFINE set  == Rows(l, DOMAIN StateAfter)
           kind == l[Last(set)].type
<1>1. set # {} /\ kind = "POLICY_ATTACHED" => StateAfter[kind] = "pending_approval"
  BY DEF StateAfter
<1>2. /\ StateOf(l, t) \in {"draft", "approved", StateAfter[kind]}
      /\ StateOf(l, u) \in {"draft", "approved", StateAfter[kind]}
  BY DEF StateOf
<1>3. set # {} /\ kind # "POLICY_ATTACHED" =>
        StateOf(l, t) = StateAfter[kind] /\ StateOf(l, u) = StateAfter[kind]
  BY DEF StateOf
<1>4. set = {} => StateOf(l, u) = "draft"
  BY DEF StateOf
<1>5. set # {} /\ kind = "POLICY_ATTACHED" => StateOf(l, u) \in {"approved", StateAfter[kind]}
  BY DEF StateOf
<1> HIDE DEF set, kind
<1>. QED
  BY <1>1, <1>3, <1>4, <1>5

\* A call is entered with a row that fits the log it loaded.
LEMMA EnterFits ==
  ASSUME TypeOK, NEW c \in Clients, NEW st \in {"select", "validate"}, NEW d, NEW l, NEW row, NEW next,
         Enter(c, st, d, l, row, next), log' = log,
         \A r \in next : r.type \notin CheckedTypes,
         st = "select" => Fits(log[d], row),
         st = "validate" => l = log[d]
  PROVE  CallFits(c)'
<1>1. /\ stage'[c] = st /\ seen'[c] = l
      /\ op'[c] = [dec |-> d, row |-> row, next |-> next, seq |-> 0]
  BY DEF Enter, TypeOK
<1>2. st = "select" => Fits(log'[op'[c].dec], op'[c].row)
  BY <1>1
<1>. QED
  BY <1>1, <1>2 DEF CallFits

\* A row that no check is made for may follow anywhere.
LEMMA EmitFits ==
  ASSUME TypeOK, NEW c \in Clients, stage[c] # "idle", NEW row, row.type \notin CheckedTypes,
         Emit(c, row, {})
  PROVE  CallFits(c)'
<1>1. stage'[c] = "select" /\ op'[c].row = row /\ op'[c].next = {}
  BY DEF Emit, TypeOK, Op
<1>2. Fits(log'[op'[c].dec], op'[c].row)
  BY <1>1, FitsUnchecked
<1>. QED
  BY <1>1, <1>2 DEF CallFits

LEMMA ReturnFits ==
  ASSUME TypeOK, NEW c \in Clients, Return(c)
  PROVE  CallFits(c)'
BY DEF Return, TypeOK, CallFits

LEMMA InsertFits ==
  ASSUME LogInv, FitInv, NEW c \in Clients, AppendInsert(c)
  PROVE  RowsFit' /\ CallFits(c)'
<1>. DEFINE d == op[c].dec
            n == op[c].seq
<1>1. TypeOK /\ RowsFit /\ CallFits(c) /\ stage[c] = "insert" /\ AfterInsert(c)
  BY DEF LogInv, FitInv, AppendInsert
<1>2. /\ d \in Decisions /\ n \in Nat
      /\ DOMAIN log[d] = 0 .. (n - 1)
      /\ log' = [log EXCEPT ![d] = Inserted(log[d], n, op[c].row)]
  BY InsertAtEnd DEF Op
<1>3. /\ \A e \in Decisions \ {d} : log'[e] = log[e]
      /\ DOMAIN log'[d] = 0 .. n
      /\ log'[d][n] = op[c].row
      /\ \A s \in 0 .. (n - 1) : log'[d][s] = log[d][s]
      /\ \A k \in 0 .. n : Below(log'[d], k) = Below(log[d], k)
  BY <1>1, <1>2, InsertedAtEnd DEF TypeOK
<1>4. Below(log[d], n) = log[d]
  BY <1>1, <1>2, WholeLog DEF TypeOK
<1>5. ASSUME NEW e \in Decisions, NEW s \in DOMAIN log'[e]
      PROVE  Fits(Below(log'[e], s), log'[e][s])
  <2>1. CASE e # d
    BY <1>1, <1>3, <1>5, <2>1 DEF RowsFit
  <2>2. CASE e = d /\ s \in 0 .. (n - 1)
    BY <1>1, <1>2, <1>3, <2>2 DEF RowsFit
  <2>3. CASE e = d /\ s = n
    BY <1>1, <1>2, <1>3, <1>4, <2>3 DEF CallFits
  <2>. QED
    BY <1>2, <1>3, <1>5, <2>1, <2>2, <2>3
<1>6. ASSUME NEW row \in op[c].next, Emit(c, row, {})
      PROVE  CallFits(c)'
  <2>1. row.type \notin CheckedTypes
    BY <1>1 DEF CallFits
  <2>. QED
    BY <1>1, <1>6, <2>1, EmitFits
<1>7. ASSUME op[c].next = {}, stage' = [stage EXCEPT ![c] = "run"], UNCHANGED <<op, seen>>
      PROVE  CallFits(c)'
  <2>1. stage'[c] = "run" /\ op'[c].next = {}
    BY <1>1, <1>7 DEF TypeOK
  <2>. QED
    BY <2>1 DEF CallFits
<1>8. CallFits(c)'
  BY <1>1, <1>6, <1>7, ReturnFits DEF AfterInsert
<1>. QED
  BY <1>5, <1>8 DEF RowsFit

LEMMA StepFits ==
  ASSUME LogInv, FitInv, NEW c \in Clients, Step(c)
  PROVE  RowsFit' /\ CallFits(c)'
<1>1. TypeOK /\ RowsFit /\ CallFits(c)
  BY DEF LogInv, FitInv
<1>2. log' = log => RowsFit'
  BY <1>1 DEF RowsFit
<1>3. ASSUME NEW d \in Decisions, NEW p \in Offered, NEW m \in Modes, Request(c, d, p, m)
      PROVE  log' = log /\ CallFits(c)'
  <2>1. Enter(c, "select", d, EmptyLog, Created(m), {PolicyAttached(p)}) /\ log' = log
    BY <1>3 DEF Request
  <2>2. Created(m).type \notin CheckedTypes /\ PolicyAttached(p).type \notin CheckedTypes
    BY DEF Created, PolicyAttached, CheckedTypes
  <2>3. Fits(log[d], Created(m))
    BY <2>2, FitsUnchecked
  <2>. QED
    BY <1>1, <2>1, <2>2, <2>3, EnterFits
<1>4. ASSUME NEW d \in Decisions, NEW a \in Actors, NEW e \in Expiries, Approve(c, d, a, e)
      PROVE  log' = log /\ CallFits(c)'
  <2>1. /\ Enter(c, "select", d, EmptyLog, Granted(a, e), {}) /\ log' = log
        /\ ~ \E g \in DOMAIN log[d] : Stands(log[d], g, a)
    BY <1>4 DEF Approve, store
  <2>2. Fits(log[d], Granted(a, e))
    BY <2>1 DEF Fits, Granted
  <2>. QED
    BY <1>1, <2>1, <2>2, EnterFits
<1>5. ASSUME NEW d \in Decisions, NEW a \in Actors, Revoke(c, d, a)
      PROVE  log' = log /\ CallFits(c)'
  <2>1. /\ Enter(c, "select", d, EmptyLog, Revoked(a), {}) /\ log' = log
        /\ StateOf(log[d], now) \notin {"executing", "completed"}
        /\ \E g \in DOMAIN log[d] : Stands(log[d], g, a)
    BY <1>5 DEF Revoke, store
  <2>2. \A t \in Nat : StateOf(log[d], t) \notin {"executing", "completed"}
    BY <2>1, BegunAnyTime
  <2>3. Fits(log[d], Revoked(a))
    BY <2>1, <2>2 DEF Fits, Revoked
  <2>. QED
    BY <1>1, <2>1, <2>3, EnterFits
<1>6. ASSUME NEW d \in Decisions, NEW m \in Modes, ExecuteLoad(c, d, m)
      PROVE  log' = log /\ CallFits(c)'
  <2>1. Enter(c, "validate", d, log[d], Requested(m, now), {}) /\ log' = log
    BY <1>6 DEF ExecuteLoad, store
  <2>. QED
    BY <1>1, <2>1, EnterFits
<1>7. ASSUME NEW answer \in Answers, ExecuteValidate(c, answer)
      PROVE  log' = log /\ CallFits(c)'
  <2>. DEFINE m == op[c].row.mode
  <2>1. /\ stage[c] = "validate" /\ op[c] \in Op
        /\ MayExecute(seen[c], m, now)
        /\ stage' = [stage EXCEPT ![c] = "select"]
        /\ op' = [op EXCEPT ![c].row = Requested(m, now), ![c].next = {Started(m)}]
        /\ log' = log
    BY <1>1, <1>7 DEF ExecuteValidate, store, TypeOK
  <2>2. /\ stage'[c] = "select" /\ op'[c].dec = op[c].dec
        /\ op'[c].row = Requested(m, now) /\ op'[c].next = {Started(m)}
    BY <1>1, <2>1 DEF TypeOK, Op
  <2>3. MayExecute(log[op[c].dec], m, now)
    BY <1>1, <2>1 DEF CallFits
  <2> HIDE DEF m
  <2>4. Fits(log[op[c].dec], Requested(m, now))
    BY <2>3 DEF Fits, Requested
  <2>5. Started(m).type \notin CheckedTypes
    BY DEF Started, CheckedTypes
  <2>. QED
    BY <2>1, <2>2, <2>4, <2>5 DEF CallFits
<1>8. CASE AppendSelect(c)
  <2>1. /\ stage[c] = "select" /\ op[c] \in Op
        /\ stage' = [stage EXCEPT ![c] = "insert"]
        /\ op' = [op EXCEPT ![c].seq = NextSeq(log[op[c].dec])]
        /\ log' = log
    BY <1>1, <1>8 DEF AppendSelect, store, TypeOK
  <2>2. /\ stage'[c] = "insert"
        /\ op'[c].dec = op[c].dec /\ op'[c].row = op[c].row /\ op'[c].next = op[c].next
    BY <1>1, <2>1 DEF TypeOK, Op
  <2>. QED
    BY <1>1, <1>2, <2>1, <2>2 DEF CallFits
<1>9. CASE AppendConflict(c) \/ AppendFails(c)
  <2>1. Failed.type \notin CheckedTypes
    BY DEF Failed, CheckedTypes
  <2>. QED
    BY <1>1, <1>2, <1>9, <2>1, EmitFits, ReturnFits DEF AppendConflict, AppendFails, AppendRaises, store
<1>10. CASE RouterReturns(c) \/ RouterUnreadable(c) \/ RouterRaises(c)
  <2>1. Failed.type \notin CheckedTypes /\ \A run : Completed(run).type \notin CheckedTypes
    BY DEF Failed, Completed, CheckedTypes
  <2>. QED
    BY <1>1, <1>2, <1>10, <2>1, EmitFits DEF RouterReturns, RouterUnreadable, RouterRaises, store
<1>11. CASE Crash(c) \/ \E answer \in Answers : ExecuteRefused(c, answer)
  BY <1>1, <1>2, <1>11, ReturnFits DEF Crash, ExecuteRefused, store
<1>. QED
  BY <1>2, <1>3, <1>4, <1>5, <1>6, <1>7, <1>8, <1>9, <1>10, <1>11, InsertFits DEF Step

LEMMA FitInvariant ==
  ASSUME OneClient
  PROVE  Spec => []FitInv
<1>1. Init => FitInv
  BY DEF Init, FitInv, RowsFit, CallFits, EmptyLog
<1>2. LogInv /\ FitInv /\ [Next]_vars => FitInv'
  <2> SUFFICES ASSUME LogInv, FitInv, [Next]_vars PROVE FitInv'
    OBVIOUS
  <2>1. ASSUME NEW c \in Clients, Step(c)
        PROVE  FitInv'
    BY <2>1, StepFits DEF FitInv, OneClient
  <2>2. CASE UNCHANGED <<log, stage, op, seen>>
    BY <2>2 DEF FitInv, RowsFit, CallFits
  <2>. QED
    BY <2>1, <2>2 DEF Next, Tick, store, locals, vars
<1>. QED
  BY <1>1, <1>2, LogInvariant, PTL DEF Spec

(***************************************************************************)
(* With one client at a time, the log an execution is appended to has the  *)
(* quorum: nothing is revoked between the check and the row, even when     *)
(* that client's process dies and the clock moves.                         *)
(***************************************************************************)
THEOREM QuorumTheorem ==
  ASSUME OneClient
  PROVE  Spec => []QuorumWhenRequested
<1>1. FitInv => QuorumWhenRequested
  BY DEF FitInv, RowsFit, Fits, QuorumWhenRequested, JustifiedAt, Requests, Rows
<1>. QED
  BY <1>1, FitInvariant, PTL

(***************************************************************************)
(* With one client at a time, no grant lands on a standing approval of the *)
(* same actor.                                                             *)
(***************************************************************************)
THEOREM OneVoiceTheorem ==
  ASSUME OneClient
  PROVE  Spec => []OneVoice
<1>1. LogInv /\ FitInv => OneVoice
  <2> SUFFICES ASSUME LogInv, FitInv, NEW d \in Decisions, NEW s \in Rows(log[d], {"APPROVAL_GRANTED"}),
                      NEW g \in 0 .. (s - 1), Stands(Below(log[d], s), g, log[d][s].actor)
               PROVE  FALSE
    BY DEF OneVoice
  <2>1. PICK n \in Nat : DOMAIN log[d] = 0 .. (n - 1)
    BY ToolsAssumption DEF LogInv, SeqContiguous
  <2>2. g \in DOMAIN Below(log[d], s)
    BY <2>1 DEF Below, Rows
  <2>3. Fits(Below(log[d], s), log[d][s]) /\ log[d][s].type = "APPROVAL_GRANTED"
    BY DEF FitInv, RowsFit, Rows
  <2>. QED
    BY <2>2, <2>3 DEF Fits
<1>. QED
  BY <1>1, FitInvariant, LogInvariant, PTL

(***************************************************************************)
(* With one client at a time, nothing is revoked once an execution began.  *)
(***************************************************************************)
THEOREM RevokedTheorem ==
  ASSUME OneClient
  PROVE  Spec => []RevokedBeforeExecution
<1>1. LogInv /\ FitInv => RevokedBeforeExecution
  BY DEF LogInv, TypeOK, FitInv, RowsFit, Fits, RevokedBeforeExecution, Rows
<1>. QED
  BY <1>1, FitInvariant, LogInvariant, PTL

-----------------------------------------------------------------------------
(***************************************************************************)
(* "No step can be skipped": why the creation and the policy are the first *)
(* two rows of a log and no others, however many clients race and die.     *)
(***************************************************************************)
FirstTypes == {"DECISION_CREATED", "POLICY_ATTACHED"}

\* c is in the middle of a request
Beginning(c) == stage[c] # "idle" /\ op[c].row.type \in FirstTypes

(***************************************************************************)
(* A decision that does not exist has no rows, and one that is begun is    *)
(* begun by one client; while it is, its log is as long as that client's   *)
(* row says, since every other call needs the policy to get to a row of    *)
(* its own.                                                                *)
(***************************************************************************)
Fresh == \A d \in Decisions \ decisions : DOMAIN log[d] = {}

OneBegins ==
  \A b, c \in Clients : b # c /\ Beginning(b) /\ Beginning(c) => op[b].dec # op[c].dec

InOrder(c) ==
  stage[c] # "idle" =>
    /\ op[c].dec \in decisions
    /\ op[c].row.type = "DECISION_CREATED" =>
         /\ DOMAIN log[op[c].dec] = {}
         /\ \A row \in op[c].next : row.type = "POLICY_ATTACHED"
    /\ op[c].row.type = "POLICY_ATTACHED" => DOMAIN log[op[c].dec] = 0 .. 0
    /\ op[c].row.type # "DECISION_CREATED" => \A row \in op[c].next : row.type \notin FirstTypes
    /\ op[c].row.type \notin FirstTypes /\ stage[c] # "validate" => 1 \in DOMAIN log[op[c].dec]

PipeInv == JustInv /\ PipelineOrder /\ Fresh /\ OneBegins /\ \A c \in Clients : InOrder(c)

-----------------------------------------------------------------------------
(***************************************************************************)
(* Each way into a call but request needs row 1.                           *)
(***************************************************************************)
LEMMA PolicyIsRowOne ==
  ASSUME PipelineOrder, NEW d \in Decisions, HasPolicy(log[d])
  PROVE  1 \in DOMAIN log[d]
  BY DEF PipelineOrder, HasPolicy, Rows

\* approve: without a policy the log is empty or a creation, which is a draft
LEMMA PendingHasRowOne ==
  ASSUME LogInv, PipelineOrder, NEW d \in Decisions, NEW t,
         StateOf(log[d], t) \in {"pending_approval", "approved"}
  PROVE  1 \in DOMAIN log[d]
<1> DEFINE l   == log[d]
           set == Rows(l, DOMAIN StateAfter)
<1> SUFFICES ASSUME 1 \notin DOMAIN l PROVE FALSE
  OBVIOUS
<1>1. PICK n \in Nat : DOMAIN l = 0 .. (n - 1)
  BY ToolsAssumption DEF LogInv, SeqContiguous
<1>2. DOMAIN l \subseteq {0}
  BY <1>1
<1>3. CASE set = {}
  BY <1>3 DEF StateOf
<1>4. CASE set # {}
  <2>1. set = {0} /\ 0 \in DOMAIN l
    BY <1>2, <1>4 DEF Rows
  <2>2. Last(set) = 0
    BY <2>1 DEF Last
  <2>3. l[0].type = "DECISION_CREATED"
    BY <2>1 DEF PipelineOrder
  <2>4. StateOf(l, t) = "draft"
    BY <1>4, <2>2, <2>3 DEF StateOf, StateAfter
  <2>. QED
    BY <2>4
<1>. QED
  BY <1>3, <1>4

\* revoke: the approval comes after the policy
LEMMA StandingHasRowOne ==
  ASSUME LogInv, PipelineOrder, NEW d \in Decisions, NEW a, NEW g \in DOMAIN log[d], Stands(log[d], g, a)
  PROVE  1 \in DOMAIN log[d]
<1>1. PICK n \in Nat : DOMAIN log[d] = 0 .. (n - 1)
  BY ToolsAssumption DEF LogInv, SeqContiguous
<1>2. log[d][g].type = "APPROVAL_GRANTED"
  BY DEF Stands
<1>3. g # 0 /\ g # 1
  BY <1>2 DEF PipelineOrder
<1>. QED
  BY <1>1, <1>3

\* execute: what satisfied the policy was an earlier version of the log
LEMMA ValidatedHasRowOne ==
  ASSUME PipeInv, NEW c \in Clients, stage[c] = "validate", NEW m, NEW t, MayExecute(seen[c], m, t)
  PROVE  1 \in DOMAIN log[op[c].dec]
<1>1. /\ op[c].dec \in Decisions
      /\ Waiting(c)
      /\ LoadedEarlier(c)
  BY DEF PipeInv, JustInv, CallJustified, LogInv, TypeOK, Op, RowMatchesStage, Waiting
<1>2. PICK k \in Nat : seen[c] = Below(log[op[c].dec], k)
  BY <1>1 DEF LoadedEarlier
<1>3. HasPolicy(log[op[c].dec])
  BY <1>2 DEF MayExecute, IsApproved, HasPolicy, Rows, Below
<1>. QED
  BY <1>1, <1>3, PolicyIsRowOne DEF PipeInv

-----------------------------------------------------------------------------
(***************************************************************************)
(* The steps that write no row.                                            *)
(***************************************************************************)

\* Client c's call goes on, enters or ends; nobody begins anything.
LEMMA CallKeepsPipe ==
  ASSUME PipeInv, JustInv', NEW c \in Clients, UNCHANGED <<log, decisions>>,
         \A b \in Clients \ {c} : stage'[b] = stage[b] /\ op'[b] = op[b],
         InOrder(c)',
         Beginning(c)' => Beginning(c) /\ op'[c].dec = op[c].dec
  PROVE  PipeInv'
<1>1. PipelineOrder' /\ Fresh'
  BY DEF PipeInv, PipelineOrder, Fresh
<1>2. \A b \in Clients : InOrder(b)'
  BY DEF PipeInv, InOrder
<1>3. OneBegins'
  BY DEF PipeInv, OneBegins, Beginning
<1>. QED
  BY <1>1, <1>2, <1>3 DEF PipeInv

LEMMA RequestKeepsPipe ==
  ASSUME PipeInv, JustInv', NEW c \in Clients, NEW d \in Decisions, NEW p \in Offered, NEW m \in Modes,
         Request(c, d, p, m)
  PROVE  PipeInv'
<1>1. /\ d \notin decisions /\ decisions' = decisions \cup {d}
      /\ log' = log
      /\ Enter(c, "select", d, EmptyLog, Created(m), {PolicyAttached(p)})
  BY DEF Request
<1>2. /\ stage'[c] = "select"
      /\ op'[c] = [dec |-> d, row |-> Created(m), next |-> {PolicyAttached(p)}, seq |-> 0]
      /\ \A b \in Clients \ {c} : stage'[b] = stage[b] /\ op'[b] = op[b]
  BY <1>1 DEF PipeInv, JustInv, LogInv, TypeOK, Enter
<1>3. PipelineOrder' /\ Fresh'
  BY <1>1 DEF PipeInv, PipelineOrder, Fresh
<1>4. InOrder(c)'
  BY <1>1, <1>2 DEF PipeInv, InOrder, Fresh, Created, PolicyAttached, FirstTypes
<1>5. \A b \in Clients \ {c} : InOrder(b)'
  BY <1>1, <1>2 DEF PipeInv, InOrder
<1>6. \A b \in Clients \ {c} : Beginning(b)' => Beginning(b) /\ op'[b].dec = op[b].dec /\ op[b].dec # d
  BY <1>1, <1>2 DEF PipeInv, InOrder, Beginning
<1>7. OneBegins'
  BY <1>2, <1>6 DEF PipeInv, OneBegins
<1>. QED
  BY <1>3, <1>4, <1>5, <1>7 DEF PipeInv

\* A call that starts with row 1 in the log, or with nothing but a load.
LEMMA EnterKeepsPipe ==
  ASSUME PipeInv, JustInv', NEW c \in Clients, UNCHANGED <<log, decisions>>,
         NEW st \in {"select", "validate"}, NEW d \in decisions, NEW l, NEW row,
         row.type \notin FirstTypes, Enter(c, st, d, l, row, {}),
         st = "validate" \/ 1 \in DOMAIN log[d]
  PROVE  PipeInv'
<1>1. /\ stage'[c] = st
      /\ op'[c] = [dec |-> d, row |-> row, next |-> {}, seq |-> 0]
      /\ \A b \in Clients \ {c} : stage'[b] = stage[b] /\ op'[b] = op[b]
  BY DEF PipeInv, JustInv, LogInv, TypeOK, Enter
<1>2. InOrder(c)' /\ ~ Beginning(c)'
  BY <1>1 DEF InOrder, Beginning, FirstTypes
<1>. QED
  BY <1>1, <1>2, CallKeepsPipe

LEMMA ReturnKeepsPipe ==
  ASSUME PipeInv, JustInv', NEW c \in Clients, UNCHANGED <<log, decisions>>, Return(c)
  PROVE  PipeInv'
<1>1. stage'[c] = "idle" /\ \A b \in Clients \ {c} : stage'[b] = stage[b] /\ op'[b] = op[b]
  BY DEF PipeInv, JustInv, LogInv, TypeOK, Return
<1>. QED
  BY <1>1, CallKeepsPipe DEF InOrder, Beginning

\* The next row of a call that has its policy.
LEMMA EmitKeepsPipe ==
  ASSUME PipeInv, JustInv', NEW c \in Clients, UNCHANGED <<log, decisions>>,
         stage[c] \notin {"idle", "validate"}, op[c].row.type \notin FirstTypes,
         NEW row, row.type \notin FirstTypes, Emit(c, row, {})
  PROVE  PipeInv'
<1>1. op[c] \in Op
  BY DEF PipeInv, JustInv, LogInv, TypeOK
<1>2. /\ stage'[c] = "select"
      /\ op'[c].dec = op[c].dec /\ op'[c].row = row /\ op'[c].next = {}
      /\ \A b \in Clients \ {c} : stage'[b] = stage[b] /\ op'[b] = op[b]
  BY <1>1 DEF PipeInv, JustInv, LogInv, TypeOK, Emit, Op
<1>3. InOrder(c)' /\ ~ Beginning(c)'
  BY <1>2 DEF PipeInv, InOrder, Beginning, FirstTypes
<1>. QED
  BY <1>2, <1>3, CallKeepsPipe

LEMMA ValidateKeepsPipe ==
  ASSUME PipeInv, JustInv', NEW c \in Clients, NEW answer, ExecuteValidate(c, answer)
  PROVE  PipeInv'
<1>1. /\ stage[c] = "validate" /\ op[c] \in Op
      /\ op[c].row.type = "EXECUTION_REQUESTED"
      /\ UNCHANGED <<log, decisions>>
  BY DEF PipeInv, JustInv, LogInv, TypeOK, RowMatchesStage, ExecuteValidate, store
<1>2. /\ stage'[c] = "select"
      /\ op'[c].dec = op[c].dec
      /\ op'[c].row = Requested(op[c].row.mode, now)
      /\ op'[c].next = {Started(op[c].row.mode)}
      /\ \A b \in Clients \ {c} : stage'[b] = stage[b] /\ op'[b] = op[b]
  BY <1>1 DEF PipeInv, JustInv, LogInv, TypeOK, ExecuteValidate, Op
<1>3. 1 \in DOMAIN log[op[c].dec]
  BY <1>1, ValidatedHasRowOne DEF ExecuteValidate
<1>4. InOrder(c)' /\ ~ Beginning(c)'
  BY <1>1, <1>2, <1>3 DEF PipeInv, InOrder, Beginning, FirstTypes, Requested, Started
<1>. QED
  BY <1>1, <1>2, <1>4, CallKeepsPipe

LEMMA SelectKeepsPipe ==
  ASSUME PipeInv, JustInv', NEW c \in Clients, AppendSelect(c)
  PROVE  PipeInv'
<1>1. stage[c] = "select" /\ op[c] \in Op /\ UNCHANGED <<log, decisions>>
  BY DEF PipeInv, JustInv, LogInv, TypeOK, AppendSelect, store
<1>2. /\ stage'[c] = "insert"
      /\ op'[c].dec = op[c].dec /\ op'[c].row = op[c].row /\ op'[c].next = op[c].next
      /\ \A b \in Clients \ {c} : stage'[b] = stage[b] /\ op'[b] = op[b]
  BY <1>1 DEF PipeInv, JustInv, LogInv, TypeOK, AppendSelect, Op
<1>3. InOrder(c)' /\ (Beginning(c)' => Beginning(c))
  BY <1>1, <1>2 DEF PipeInv, InOrder, Beginning
<1>. QED
  BY <1>1, <1>2, <1>3, CallKeepsPipe

-----------------------------------------------------------------------------
(***************************************************************************)
(* The step that does.                                                     *)
(***************************************************************************)
\* Where a call stands after its insert, whatever it goes on with.
LEMMA AfterInsertCall ==
  ASSUME LogInv, NEW c \in Clients, stage[c] = "insert", AfterInsert(c)
  PROVE  /\ \A b \in Clients \ {c} : stage'[b] = stage[b] /\ op'[b] = op[b]
         /\ \/ stage'[c] = "idle"
            \/ /\ stage'[c] = "run"
               /\ op'[c] = op[c]
               /\ op[c].next = {} /\ op[c].row.type = "EXECUTION_STARTED"
            \/ /\ stage'[c] = "select"
               /\ op'[c].dec = op[c].dec /\ op'[c].row \in op[c].next /\ op'[c].next = {}
<1>1. op[c] \in Op
  BY DEF LogInv, TypeOK
<1>2. CASE \E row \in op[c].next : Emit(c, row, {})
  BY <1>1, <1>2 DEF LogInv, TypeOK, Emit, Op
<1>3. CASE /\ op[c].next = {} /\ op[c].row.type = "EXECUTION_STARTED"
           /\ stage' = [stage EXCEPT ![c] = "run"]
           /\ UNCHANGED <<op, seen>>
  BY <1>3 DEF LogInv, TypeOK
<1>4. CASE Return(c)
  BY <1>4 DEF LogInv, TypeOK, Return
<1>. QED
  BY <1>2, <1>3, <1>4 DEF AfterInsert

LEMMA InsertKeepsPipe ==
  ASSUME PipeInv, JustInv', NEW c \in Clients, AppendInsert(c)
  PROVE  PipeInv'
<1> DEFINE d == op[c].dec
           n == op[c].seq
           row == op[c].row
<1>1. LogInv /\ InOrder(c) /\ stage[c] = "insert" /\ decisions' = decisions
  BY DEF PipeInv, JustInv, AppendInsert
<1>2. /\ d \in Decisions /\ n \in Nat
      /\ DOMAIN log[d] = 0 .. (n - 1)
      /\ log' = [log EXCEPT ![d] = Inserted(log[d], n, row)]
  BY <1>1, InsertAtEnd DEF Op
<1>3. /\ \A e \in Decisions \ {d} : log'[e] = log[e]
      /\ DOMAIN log'[d] = 0 .. n
      /\ log'[d][n] = row
      /\ \A s \in 0 .. (n - 1) : log'[d][s] = log[d][s]
  BY <1>1, <1>2, InsertedAtEnd DEF LogInv, TypeOK
<1>4. d \in decisions
  BY <1>1 DEF InOrder
<1>5. /\ row.type = "DECISION_CREATED" => n = 0
      /\ row.type = "POLICY_ATTACHED" => n = 1
      /\ row.type \notin FirstTypes => n >= 2
  BY <1>1, <1>2 DEF InOrder
<1>6. /\ \A b \in Clients \ {c} : stage'[b] = stage[b] /\ op'[b] = op[b]
      /\ \/ stage'[c] = "idle"
         \/ /\ stage'[c] = "run" /\ op'[c] = op[c]
            /\ op[c].next = {} /\ row.type = "EXECUTION_STARTED"
         \/ /\ stage'[c] = "select"
            /\ op'[c].dec = d /\ op'[c].row \in op[c].next /\ op'[c].next = {}
  BY <1>1, AfterInsertCall DEF AppendInsert
<1>7. PipelineOrder'
  <2>1. ASSUME NEW s \in DOMAIN log'[d]
        PROVE  /\ log'[d][s].type = "DECISION_CREATED" <=> s = 0
               /\ log'[d][s].type = "POLICY_ATTACHED" <=> s = 1
    <3>1. CASE s = n
      BY <1>3, <1>5, <3>1 DEF FirstTypes
    <3>2. CASE s # n
      <4>1. s \in DOMAIN log[d] /\ log'[d][s] = log[d][s]
        BY <1>2, <1>3, <2>1, <3>2
      <4>. QED
        BY <1>2, <4>1 DEF PipeInv, PipelineOrder
    <3>. QED
      BY <3>1, <3>2
  <2>2. ASSUME NEW e \in Decisions \ {d}, NEW s \in DOMAIN log'[e]
        PROVE  /\ log'[e][s].type = "DECISION_CREATED" <=> s = 0
               /\ log'[e][s].type = "POLICY_ATTACHED" <=> s = 1
    BY <1>3, <2>2 DEF PipeInv, PipelineOrder
  <2>. QED
    BY <2>1, <2>2 DEF PipelineOrder
<1>8. Fresh'
  BY <1>1, <1>3, <1>4 DEF PipeInv, Fresh
<1> HIDE DEF d, n, row
<1>9. ASSUME NEW b \in Clients \ {c}
      PROVE  InOrder(b)'
  <2>1. InOrder(b)
    BY DEF PipeInv
  <2>2. CASE stage[b] = "idle"
    BY <1>6, <2>2 DEF InOrder
  <2>3. CASE stage[b] # "idle" /\ op[b].dec # d
    <3>1. op[b].dec \in Decisions
      BY <1>1, <2>3 DEF LogInv, TypeOK, Op
    <3>2. log'[op[b].dec] = log[op[b].dec]
      BY <1>3, <2>3, <3>1
    <3>. QED
      BY <1>1, <1>6, <2>1, <2>3, <3>2 DEF InOrder
  <2>4. CASE stage[b] # "idle" /\ op[b].dec = d
    <3>1. ~ Beginning(b)
      <4>1. CASE Beginning(c)
        BY <2>4, <4>1 DEF PipeInv, OneBegins, d
      <4>2. CASE ~ Beginning(c)
        <5>1. n >= 2
          BY <1>1, <1>5, <4>2 DEF Beginning, row
        <5>2. 1 \in DOMAIN log[d]
          BY <1>2, <5>1
        <5>. QED
          BY <2>1, <2>4, <5>2 DEF InOrder, Beginning, FirstTypes
      <4>. QED
        BY <4>1, <4>2
    <3>2. 1 \in DOMAIN log[d] => 1 \in DOMAIN log'[d]
      BY <1>2, <1>3
    <3>. QED
      BY <1>1, <1>6, <2>1, <2>4, <3>1, <3>2 DEF InOrder, Beginning, FirstTypes
  <2>. QED
    BY <2>2, <2>3, <2>4
<1>10. InOrder(c)'
  <2>1. CASE stage'[c] = "idle"
    BY <2>1 DEF InOrder
  <2>2. CASE /\ stage'[c] = "run" /\ op'[c] = op[c]
             /\ op[c].next = {} /\ row.type = "EXECUTION_STARTED"
    <3>1. n >= 2
      BY <1>5, <2>2 DEF FirstTypes
    <3>2. 1 \in DOMAIN log'[d]
      BY <1>2, <1>3, <3>1
    <3>. QED
      BY <1>1, <1>4, <2>2, <3>2 DEF InOrder, FirstTypes, d, row
  <2>3. CASE /\ stage'[c] = "select"
             /\ op'[c].dec = d /\ op'[c].row \in op[c].next /\ op'[c].next = {}
    <3>1. CASE row.type = "DECISION_CREATED"
      <4>1. op'[c].row.type = "POLICY_ATTACHED"
        BY <1>1, <2>3, <3>1 DEF InOrder, row
      <4>2. DOMAIN log'[d] = 0 .. 0
        BY <1>3, <1>5, <3>1
      <4>. QED
        BY <1>1, <1>4, <2>3, <4>1, <4>2 DEF InOrder, FirstTypes
    <3>2. CASE row.type # "DECISION_CREATED"
      <4>1. op'[c].row.type \notin FirstTypes
        BY <1>1, <2>3, <3>2 DEF InOrder, row
      <4>2. 1 \in DOMAIN log'[d]
        BY <1>2, <1>3, <1>5, <3>2 DEF FirstTypes
      <4>. QED
        BY <1>1, <1>4, <2>3, <4>1, <4>2 DEF InOrder, FirstTypes
    <3>. QED
      BY <3>1, <3>2
  <2>. QED
    BY <1>6, <2>1, <2>2, <2>3
<1>11. OneBegins'
  <2>1. Beginning(c)' => Beginning(c) /\ op'[c].dec = op[c].dec
    <3> SUFFICES ASSUME Beginning(c)' PROVE Beginning(c) /\ op'[c].dec = op[c].dec
      OBVIOUS
    <3>1. /\ stage'[c] = "select"
          /\ op'[c].dec = d /\ op'[c].row \in op[c].next
      BY <1>6 DEF Beginning, FirstTypes, row
    <3>2. op[c].row.type = "DECISION_CREATED"
      BY <1>1, <3>1 DEF InOrder, Beginning
    <3>. QED
      BY <1>1, <3>1, <3>2 DEF Beginning, FirstTypes, d
  <2>2. \A b \in Clients \ {c} : Beginning(b)' <=> Beginning(b)
    BY <1>6 DEF Beginning
  <2>. QED
    BY <1>6, <2>1, <2>2 DEF PipeInv, OneBegins
<1>. QED
  BY <1>7, <1>8, <1>9, <1>10, <1>11 DEF PipeInv

-----------------------------------------------------------------------------
LEMMA PipeInit == Init => PipelineOrder /\ Fresh /\ OneBegins /\ \A c \in Clients : InOrder(c)
<1> SUFFICES ASSUME Init PROVE PipelineOrder /\ Fresh /\ OneBegins /\ \A c \in Clients : InOrder(c)
  OBVIOUS
<1>1. (\A d \in Decisions : DOMAIN log[d] = {}) /\ \A c \in Clients : stage[c] = "idle"
  BY DEF Init, EmptyLog
<1>. QED
  BY <1>1 DEF PipelineOrder, Fresh, OneBegins, Beginning, InOrder

LEMMA PipeStep ==
  ASSUME PipeInv, JustInv', [Next]_vars
  PROVE  PipeInv'
<1>1. ASSUME UNCHANGED <<decisions, log, stage, op>>
      PROVE  PipeInv'
  BY <1>1 DEF PipeInv, PipelineOrder, Fresh, OneBegins, Beginning, InOrder
<1>2. ASSUME NEW c \in Clients, NEW d \in Decisions, NEW a \in Actors, NEW e \in Expiries,
             Approve(c, d, a, e)
      PROVE  PipeInv'
  <2>1. 1 \in DOMAIN log[d]
    BY <1>2, PendingHasRowOne DEF Approve, PipeInv, JustInv
  <2>2. Granted(a, e).type \notin FirstTypes
    BY DEF Granted, FirstTypes
  <2>. QED
    BY <1>2, <2>1, <2>2, EnterKeepsPipe DEF Approve, store
<1>3. ASSUME NEW c \in Clients, NEW d \in Decisions, NEW a \in Actors, Revoke(c, d, a)
      PROVE  PipeInv'
  <2>1. 1 \in DOMAIN log[d]
    BY <1>3, StandingHasRowOne DEF Revoke, PipeInv, JustInv
  <2>2. Revoked(a).type \notin FirstTypes
    BY DEF Revoked, FirstTypes
  <2>. QED
    BY <1>3, <2>1, <2>2, EnterKeepsPipe DEF Revoke, store
<1>4. ASSUME NEW c \in Clients, NEW d \in Decisions, NEW m \in Modes, ExecuteLoad(c, d, m)
      PROVE  PipeInv'
  <2>1. Requested(m, now).type \notin FirstTypes
    BY DEF Requested, FirstTypes
  <2>. QED
    BY <1>4, <2>1, EnterKeepsPipe DEF ExecuteLoad, store
<1>5. ASSUME NEW c \in Clients, AppendConflict(c) \/ AppendFails(c)
      PROVE  PipeInv'
  <2>1. stage[c] # "idle" /\ UNCHANGED <<log, decisions>>
    BY <1>5 DEF AppendConflict, AppendFails, AppendRaises, store
  <2>2. CASE op[c].row.type = "EXECUTION_COMPLETED"
    BY <1>5, <2>1, <2>2, EmitKeepsPipe DEF AppendConflict, AppendFails, AppendRaises, Failed, FirstTypes
  <2>3. CASE op[c].row.type # "EXECUTION_COMPLETED"
    BY <1>5, <2>1, <2>3, ReturnKeepsPipe DEF AppendConflict, AppendFails, AppendRaises
  <2>. QED
    BY <2>2, <2>3
<1>6. ASSUME NEW c \in Clients, RouterReturns(c) \/ RouterUnreadable(c) \/ RouterRaises(c)
      PROVE  PipeInv'
  <2>1. stage[c] = "run" /\ UNCHANGED <<log, decisions>>
    BY <1>6 DEF RouterReturns, RouterUnreadable, RouterRaises, store
  <2>2. op[c].row.type = "EXECUTION_STARTED"
    BY <2>1 DEF PipeInv, JustInv, LogInv, RowMatchesStage
  <2>3. PICK row : Emit(c, row, {}) /\ row.type \notin FirstTypes
    BY <1>6 DEF RouterReturns, RouterUnreadable, RouterRaises, Completed, Failed, FirstTypes
  <2>. QED
    BY <2>1, <2>2, <2>3, EmitKeepsPipe DEF FirstTypes
<1>7. ASSUME NEW c \in Clients, Crash(c) \/ \E answer \in Answers : ExecuteRefused(c, answer)
      PROVE  PipeInv'
  BY <1>7, ReturnKeepsPipe DEF Crash, ExecuteRefused, store
<1>8. ASSUME NEW c \in Clients, Step(c)
      PROVE  PipeInv'
  BY <1>2, <1>3, <1>4, <1>5, <1>6, <1>7, <1>8, RequestKeepsPipe, ValidateKeepsPipe, SelectKeepsPipe,
     InsertKeepsPipe DEF Step
<1>. QED
  BY <1>1, <1>8 DEF Next, Tick, store, locals, vars

LEMMA PipeInvariant == Spec => []PipeInv
<1> DEFINE Rest == PipelineOrder /\ Fresh /\ OneBegins /\ \A c \in Clients : InOrder(c)
<1>1. Init => Rest
  BY PipeInit
<1>2. JustInv /\ Rest /\ JustInv' /\ [Next]_vars => Rest'
  BY PipeStep DEF PipeInv
<1>3. JustInv /\ Rest => PipeInv
  BY DEF PipeInv
<1> HIDE DEF Rest
<1>. QED
  BY <1>1, <1>2, <1>3, JustInvariant, PTL DEF Spec

(***************************************************************************)
(* The creation and the policy are rows 0 and 1 and nowhere else, in every *)
(* log: a request that died half way is never approved or executed.        *)
(***************************************************************************)
THEOREM PipelineTheorem == Spec => []PipelineOrder
<1>1. PipeInv => PipelineOrder
  BY DEF PipeInv
<1>. QED
  BY <1>1, PipeInvariant, PTL

-----------------------------------------------------------------------------
(***************************************************************************)
(* What the logs say of the router's runs: every completion names a real   *)
(* one, and no run goes without an EXECUTION_STARTED row of its own.       *)
(***************************************************************************)
Completions(l) == Rows(l, {"EXECUTION_COMPLETED"})
HasStart(d, m) == \E r \in Rows(log[d], {"EXECUTION_STARTED"}) : log[d][r].mode = m

\* c has a completion to append
Holding(c) == stage[c] # "idle" /\ op[c].row.type = "EXECUTION_COMPLETED"

(***************************************************************************)
(* A run is the router's from its answer to its row: whoever holds its     *)
(* completion holds it alone, and no row names it yet.                     *)
(***************************************************************************)
InHand(c) ==
  Holding(c) =>
    /\ op[c].row.run \in DOMAIN runs
    /\ runs[op[c].row.run].dec = op[c].dec
    /\ HasStart(op[c].dec, runs[op[c].row.run].mode)
    /\ \A e \in Decisions : \A t \in Completions(log[e]) : log[e][t].run # op[c].row.run
    /\ \A b \in Clients \ {c} : Holding(b) => op[b].row.run # op[c].row.run

Announced(c) == stage[c] = "run" => HasStart(op[c].dec, op[c].row.mode)

NextNotCompleted(c) == stage[c] # "idle" => \A row \in op[c].next : row.type # "EXECUTION_COMPLETED"

RunInv ==
  /\ LogInv
  /\ CompletionsReal
  /\ \A c \in Clients : InHand(c) /\ Announced(c) /\ NextNotCompleted(c)

\* What CompletionsReal asks of a row.
RealRow(d, s) ==
  /\ log[d][s].run \in DOMAIN runs
  /\ runs[log[d][s].run].dec = d
  /\ \E r \in Rows(log[d], {"EXECUTION_STARTED"}) : r < s /\ log[d][r].mode = runs[log[d][s].run].mode
  /\ \A e \in Decisions : \A t \in Completions(log[e]) : log[e][t].run = log[d][s].run => <<e, t>> = <<d, s>>

LEMMA RealRows == CompletionsReal <=> \A d \in Decisions : \A s \in Completions(log[d]) : RealRow(d, s)
  BY DEF CompletionsReal, RealRow, Completions

-----------------------------------------------------------------------------
(***************************************************************************)
(* What a step may be to the runs: an insert, an answer of the router, or  *)
(* nothing.                                                                *)
(***************************************************************************)
Quiet(c) ==
  /\ UNCHANGED <<log, runs>>
  /\ stage'[c] # "run"
  /\ Holding(c)' => Holding(c) /\ op'[c].dec = op[c].dec /\ op'[c].row = op[c].row
  /\ NextNotCompleted(c)'

\* the router has completed a run: execute() goes on with its id, or without it
RunEnds(c) == RouterReturns(c) \/ RouterUnreadable(c)

LEMMA StepKinds ==
  ASSUME LogInv, NEW c \in Clients, NextNotCompleted(c), Step(c)
  PROVE  AppendInsert(c) \/ RunEnds(c) \/ Quiet(c)
<1>1. TypeOK
  BY DEF LogInv
<1>2. ASSUME NEW st \in {"select", "validate"}, NEW d, NEW l, NEW row, NEW next,
             Enter(c, st, d, l, row, next), UNCHANGED <<log, runs>>,
             row.type # "EXECUTION_COMPLETED", \A r \in next : r.type # "EXECUTION_COMPLETED"
      PROVE  Quiet(c)
  <2>1. stage'[c] = st /\ op'[c] = [dec |-> d, row |-> row, next |-> next, seq |-> 0]
    BY <1>1, <1>2 DEF Enter, TypeOK
  <2>. QED
    BY <1>2, <2>1 DEF Quiet, Holding, NextNotCompleted
<1>3. ASSUME Return(c), UNCHANGED <<log, runs>>
      PROVE  Quiet(c)
  <2>1. stage'[c] = "idle"
    BY <1>1, <1>3 DEF Return, TypeOK
  <2>. QED
    BY <1>3, <2>1 DEF Quiet, Holding, NextNotCompleted
<1>4. ASSUME stage[c] # "idle", Emit(c, Failed, {}), UNCHANGED <<log, runs>>
      PROVE  Quiet(c)
  <2>1. stage'[c] = "select" /\ op'[c].row = Failed /\ op'[c].next = {}
    BY <1>1, <1>4 DEF Emit, TypeOK, Op
  <2>. QED
    BY <1>4, <2>1 DEF Quiet, Holding, NextNotCompleted, Failed
<1>5. ASSUME NEW d \in Decisions, NEW p \in Offered, NEW m \in Modes, Request(c, d, p, m)
      PROVE  Quiet(c)
  BY <1>2, <1>5 DEF Request, Created, PolicyAttached
<1>6. ASSUME NEW d \in Decisions, NEW a \in Actors, NEW e \in Expiries, Approve(c, d, a, e)
      PROVE  Quiet(c)
  BY <1>2, <1>6 DEF Approve, Granted, store
<1>7. ASSUME NEW d \in Decisions, NEW a \in Actors, Revoke(c, d, a)
      PROVE  Quiet(c)
  BY <1>2, <1>7 DEF Revoke, Revoked, store
<1>8. ASSUME NEW d \in Decisions, NEW m \in Modes, ExecuteLoad(c, d, m)
      PROVE  Quiet(c)
  BY <1>2, <1>8 DEF ExecuteLoad, Requested, store
<1>9. ASSUME NEW answer \in Answers, ExecuteValidate(c, answer)
      PROVE  Quiet(c)
  <2>1. stage[c] = "validate" /\ op[c] \in Op /\ UNCHANGED <<log, runs>>
    BY <1>1, <1>9 DEF ExecuteValidate, TypeOK, store
  <2>2. /\ stage'[c] = "select"
        /\ op'[c].row = Requested(op[c].row.mode, now)
        /\ op'[c].next = {Started(op[c].row.mode)}
    BY <1>1, <1>9, <2>1 DEF ExecuteValidate, TypeOK, Op
  <2>. QED
    BY <2>1, <2>2 DEF Quiet, Holding, NextNotCompleted, Requested, Started
<1>10. ASSUME AppendSelect(c)
       PROVE  Quiet(c)
  <2>1. stage[c] = "select" /\ op[c] \in Op /\ UNCHANGED <<log, runs>>
    BY <1>1, <1>10 DEF AppendSelect, TypeOK, store
  <2>2. /\ stage'[c] = "insert"
        /\ op'[c].dec = op[c].dec /\ op'[c].row = op[c].row /\ op'[c].next = op[c].next
    BY <1>1, <1>10, <2>1 DEF AppendSelect, TypeOK, Op
  <2>. QED
    BY <2>1, <2>2 DEF Quiet, Holding, NextNotCompleted
<1>11. ASSUME AppendConflict(c) \/ AppendFails(c)
       PROVE  Quiet(c)
  BY <1>3, <1>4, <1>11 DEF AppendConflict, AppendFails, AppendRaises, store
<1>12. ASSUME RouterRaises(c)
       PROVE  Quiet(c)
  BY <1>4, <1>12 DEF RouterRaises, store
<1>13. ASSUME Crash(c) \/ \E answer \in Answers : ExecuteRefused(c, answer)
       PROVE  Quiet(c)
  BY <1>3, <1>13 DEF Crash, ExecuteRefused, store
<1>. QED
  BY <1>5, <1>6, <1>7, <1>8, <1>9, <1>10, <1>11, <1>12, <1>13 DEF Step, RunEnds

\* Where the caller of an insert goes on, and what the log has then.
LEMMA InsertFacts ==
  ASSUME LogInv, NEW c \in Clients, NextNotCompleted(c), AppendInsert(c)
  PROVE  /\ op[c] \in Op /\ op[c].dec \in Decisions /\ op[c].seq \in Nat
         /\ op[c].seq \notin DOMAIN log[op[c].dec]
         /\ \A r \in DOMAIN log[op[c].dec] : r < op[c].seq
         /\ \A e \in Decisions : \A s :
              s \in DOMAIN log'[e] <=> s \in DOMAIN log[e] \/ (e = op[c].dec /\ s = op[c].seq)
         /\ \A e \in Decisions : \A s \in DOMAIN log[e] : log'[e][s] = log[e][s]
         /\ log'[op[c].dec][op[c].seq] = op[c].row
         /\ runs' = runs
         /\ ~ Holding(c)' /\ NextNotCompleted(c)'
         /\ stage'[c] = "run" => op'[c] = op[c] /\ op[c].row.type = "EXECUTION_STARTED"
<1> DEFINE d == op[c].dec
           n == op[c].seq
<1>1. TypeOK /\ op[c] \in Op
  BY DEF LogInv, TypeOK, AppendInsert
<1>2. /\ d \in Decisions /\ n \in Nat
      /\ DOMAIN log[d] = 0 .. (n - 1)
      /\ log' = [log EXCEPT ![d] = Inserted(log[d], n, op[c].row)]
  BY <1>1, InsertAtEnd DEF Op
<1>3. /\ \A e \in Decisions \ {d} : log'[e] = log[e]
      /\ DOMAIN log'[d] = 0 .. n
      /\ log'[d][n] = op[c].row
      /\ \A s \in 0 .. (n - 1) : log'[d][s] = log[d][s]
  BY <1>1, <1>2, InsertedAtEnd DEF TypeOK
<1>4. \A e \in Decisions : \A s :
        s \in DOMAIN log'[e] <=> s \in DOMAIN log[e] \/ (e = d /\ s = n)
  <2>1. \A s : s \in 0 .. n <=> s \in 0 .. (n - 1) \/ s = n
    BY <1>2
  <2>. QED
    BY <1>2, <1>3, <2>1
<1>5. \A e \in Decisions : \A s \in DOMAIN log[e] : log'[e][s] = log[e][s]
  BY <1>2, <1>3
<1>6. n \notin DOMAIN log[d] /\ \A r \in DOMAIN log[d] : r < n
  BY <1>2
<1>7. stage[c] = "insert" /\ AfterInsert(c) /\ runs' = runs
  BY DEF AppendInsert
<1>8. CASE \E row \in op[c].next : Emit(c, row, {})
  <2>1. PICK row \in op[c].next : Emit(c, row, {})
    BY <1>8
  <2>2. stage'[c] = "select" /\ op'[c].row = row /\ op'[c].next = {}
    BY <1>1, <2>1 DEF Emit, TypeOK, Op
  <2>3. row.type # "EXECUTION_COMPLETED"
    BY <1>7, <2>1 DEF NextNotCompleted
  <2>. QED
    BY <1>1, <1>2, <1>3, <1>4, <1>5, <1>6, <1>7, <2>2, <2>3 DEF Holding, NextNotCompleted
<1>9. CASE /\ op[c].row.type = "EXECUTION_STARTED"
           /\ stage' = [stage EXCEPT ![c] = "run"]
           /\ UNCHANGED <<op, seen>>
  <2>1. stage'[c] = "run" /\ op'[c] = op[c]
    BY <1>1, <1>9 DEF TypeOK
  <2>. QED
    BY <1>1, <1>2, <1>3, <1>4, <1>5, <1>6, <1>7, <1>9, <2>1 DEF Holding, NextNotCompleted
<1>10. CASE Return(c)
  <2>1. stage'[c] = "idle"
    BY <1>1, <1>10 DEF Return, TypeOK
  <2>. QED
    BY <1>1, <1>2, <1>3, <1>4, <1>5, <1>6, <1>7, <2>1 DEF Holding, NextNotCompleted
<1>. QED
  BY <1>7, <1>8, <1>9, <1>10 DEF AfterInsert

\* What the end of a run changes.
LEMMA ReturnFacts ==
  ASSUME LogInv, NEW c \in Clients, RunEnds(c)
  PROVE  /\ stage[c] = "run" /\ op[c].dec \in Decisions /\ log' = log
         /\ DOMAIN runs' = DOMAIN runs \cup {Len(runs) + 1}
         /\ Len(runs) + 1 \notin DOMAIN runs
         /\ \A i \in DOMAIN runs : runs'[i] = runs[i]
         /\ runs'[Len(runs) + 1] = [dec |-> op[c].dec, mode |-> op[c].row.mode]
         /\ stage'[c] = "select"
         /\ op'[c].dec = op[c].dec /\ op'[c].row \in {Completed(Len(runs) + 1), Failed} /\ op'[c].next = {}
<1> DEFINE run == [dec |-> op[c].dec, mode |-> op[c].row.mode]
<1>1. TypeOK /\ stage[c] = "run" /\ log' = log /\ runs' = Append(runs, run)
  BY DEF LogInv, RunEnds, RouterReturns, RouterUnreadable, store
<1>2. op[c] \in Op /\ op[c].row.type = "EXECUTION_STARTED"
  BY <1>1 DEF LogInv, TypeOK, RowMatchesStage
<1>3. run \in Run
  BY <1>2 DEF Run, Op, Event, Failed
<1>4. runs \in Seq(Run)
  BY <1>1 DEF TypeOK
<1> HIDE DEF run
<1>5. Len(runs) \in Nat /\ DOMAIN runs = 1 .. Len(runs)
  BY <1>4, LenProperties
<1>6. /\ runs' \in Seq(Run) /\ Len(runs') = Len(runs) + 1
      /\ \A i \in 1 .. Len(runs) : runs'[i] = runs[i]
      /\ runs'[Len(runs) + 1] = run
  BY <1>1, <1>3, <1>4, AppendProperties
<1>7. DOMAIN runs' = 1 .. Len(runs')
  BY <1>6, LenProperties
<1>8. /\ DOMAIN runs' = DOMAIN runs \cup {Len(runs) + 1}
      /\ Len(runs) + 1 \notin DOMAIN runs
  BY <1>5, <1>6, <1>7
<1>9. /\ stage'[c] = "select"
      /\ op'[c].dec = op[c].dec /\ op'[c].row \in {Completed(Len(runs) + 1), Failed} /\ op'[c].next = {}
  BY <1>1, <1>2 DEF RunEnds, RouterReturns, RouterUnreadable, Emit, TypeOK, Op
<1>. QED
  BY <1>1, <1>2, <1>5, <1>6, <1>8, <1>9 DEF Op, run

-----------------------------------------------------------------------------
(***************************************************************************)
(* Completions are real.                                                   *)
(***************************************************************************)
LEMMA QuietKeepsRuns ==
  ASSUME RunInv, LogInv', NEW c \in Clients, Quiet(c),
         \A b \in Clients \ {c} : stage'[b] = stage[b] /\ op'[b] = op[b]
  PROVE  RunInv'
<1>1. CompletionsReal'
  BY DEF RunInv, CompletionsReal, Quiet
<1>2. \A b \in Clients \ {c} : /\ Holding(b)' <=> Holding(b)
                              /\ Announced(b)' /\ NextNotCompleted(b)'
  BY DEF RunInv, Quiet, Holding, Announced, HasStart, NextNotCompleted
<1>3. Announced(c)' /\ NextNotCompleted(c)'
  BY DEF Quiet, Announced
<1>4. \A b \in Clients : Holding(b)' => Holding(b) /\ op'[b].dec = op[b].dec /\ op'[b].row = op[b].row
  BY <1>2 DEF Quiet
<1>5. \A b \in Clients : InHand(b)'
  BY <1>4 DEF RunInv, Quiet, InHand, HasStart
<1>. QED
  BY <1>1, <1>2, <1>3, <1>5 DEF RunInv

LEMMA InsertKeepsRuns ==
  ASSUME RunInv, LogInv', NEW c \in Clients, AppendInsert(c),
         \A b \in Clients \ {c} : stage'[b] = stage[b] /\ op'[b] = op[b]
  PROVE  RunInv'
<1> DEFINE d   == op[c].dec
           n   == op[c].seq
           row == op[c].row
<1>1. LogInv /\ InHand(c) /\ NextNotCompleted(c) /\ stage[c] = "insert"
  BY DEF RunInv, AppendInsert
<1>2. /\ d \in Decisions /\ n \in Nat
      /\ n \notin DOMAIN log[d] /\ \A r \in DOMAIN log[d] : r < n
      /\ \A e \in Decisions : \A s : s \in DOMAIN log'[e] <=> s \in DOMAIN log[e] \/ (e = d /\ s = n)
      /\ \A e \in Decisions : \A s \in DOMAIN log[e] : log'[e][s] = log[e][s]
      /\ log'[d][n] = row
      /\ runs' = runs
      /\ ~ Holding(c)' /\ NextNotCompleted(c)'
      /\ stage'[c] = "run" => op'[c] = op[c] /\ row.type = "EXECUTION_STARTED"
  BY <1>1, InsertFacts
<1>3. row.type = "EXECUTION_COMPLETED" <=> Holding(c)
  BY <1>1 DEF Holding
<1> HIDE DEF d, n, row
<1>4. \A e \in Decisions : \A s :
        s \in Completions(log'[e]) <=> \/ s \in Completions(log[e])
                                       \/ e = d /\ s = n /\ row.type = "EXECUTION_COMPLETED"
  BY <1>2 DEF Completions, Rows
<1>5. \A e \in Decisions : \A s \in Completions(log[e]) : log'[e][s] = log[e][s]
  BY <1>2 DEF Completions, Rows
<1>6. \A e \in Decisions : \A m : HasStart(e, m) => HasStart(e, m)'
  BY <1>2 DEF HasStart, Rows
<1>7. ASSUME NEW b \in Clients
      PROVE  InHand(b)'
  <2>1. CASE b = c
    BY <1>2, <2>1 DEF InHand
  <2>2. CASE b # c /\ Holding(b)'
    <3>1. Holding(b) /\ InHand(b) /\ op'[b] = op[b] /\ op[b].dec \in Decisions
      BY <1>1, <2>2 DEF RunInv, Holding, LogInv, TypeOK, Op
    <3>2. row.type = "EXECUTION_COMPLETED" => row.run # op[b].row.run
      BY <1>3, <2>2, <3>1 DEF InHand, row
    <3>3. ASSUME NEW e \in Decisions, NEW t \in Completions(log'[e])
          PROVE  log'[e][t].run # op[b].row.run
      <4>1. CASE t \in Completions(log[e])
        BY <1>5, <3>1, <4>1 DEF InHand
      <4>2. CASE e = d /\ t = n /\ row.type = "EXECUTION_COMPLETED"
        BY <1>2, <3>2, <4>2
      <4>. QED
        BY <1>4, <3>3, <4>1, <4>2
    <3>4. \A a \in Clients \ {b} : Holding(a)' => op'[a].row.run # op'[b].row.run
      BY <1>2, <3>1 DEF InHand, Holding
    <3>. QED
      BY <1>2, <1>6, <3>1, <3>3, <3>4 DEF InHand
  <2>. QED
    BY <2>1, <2>2 DEF InHand
<1>8. ASSUME NEW b \in Clients
      PROVE  Announced(b)'
  <2>1. CASE b = c
    <3> SUFFICES ASSUME stage'[c] = "run"
                 PROVE  \E r \in Rows(log'[op'[c].dec], {"EXECUTION_STARTED"}) :
                          log'[op'[c].dec][r].mode = op'[c].row.mode
      BY <2>1 DEF Announced, HasStart
    <3>1. n \in Rows(log'[d], {"EXECUTION_STARTED"}) /\ log'[d][n].mode = row.mode
      BY <1>2 DEF Rows
    <3>2. op'[c].dec = d /\ op'[c].row = row
      BY <1>2 DEF d, row
    <3>. QED
      BY <3>1, <3>2
  <2>2. CASE b # c /\ stage'[b] = "run"
    <3>1. stage[b] = "run" /\ op'[b] = op[b] /\ Announced(b) /\ op[b].dec \in Decisions
      BY <1>1, <2>2 DEF RunInv, LogInv, TypeOK, Op
    <3>. QED
      BY <1>6, <3>1 DEF Announced
  <2>. QED
    BY <2>1, <2>2 DEF Announced
<1>9. ASSUME NEW e \in Decisions, NEW s \in Completions(log'[e])
      PROVE  RealRow(e, s)'
  <2>1. CASE s \in Completions(log[e])
    <3>1. RealRow(e, s) /\ log'[e][s] = log[e][s]
      BY <1>5, <2>1, RealRows DEF RunInv
    <3>2. PICK r \in Rows(log[e], {"EXECUTION_STARTED"}) :
            r < s /\ log[e][r].mode = runs[log[e][s].run].mode
      BY <3>1 DEF RealRow
    <3>3. r \in Rows(log'[e], {"EXECUTION_STARTED"}) /\ log'[e][r] = log[e][r]
      BY <1>2 DEF Rows
    <3>4. row.type = "EXECUTION_COMPLETED" => row.run # log[e][s].run
      BY <1>1, <1>3, <2>1 DEF InHand, row
    <3>5. ASSUME NEW f \in Decisions, NEW t \in Completions(log'[f]), log'[f][t].run = log'[e][s].run
          PROVE  <<f, t>> = <<e, s>>
      <4>1. CASE t \in Completions(log[f])
        BY <1>5, <3>1, <3>5, <4>1 DEF RealRow
      <4>2. CASE f = d /\ t = n /\ row.type = "EXECUTION_COMPLETED"
        BY <1>2, <3>1, <3>4, <3>5, <4>2
      <4>. QED
        BY <1>4, <3>5, <4>1, <4>2
    <3>. QED
      BY <1>2, <3>1, <3>2, <3>3, <3>5 DEF RealRow
  <2>2. CASE s \notin Completions(log[e])
    <3>1. e = d /\ s = n /\ Holding(c) /\ row.type = "EXECUTION_COMPLETED"
      BY <1>3, <1>4, <2>2
    <3>2. /\ row.run \in DOMAIN runs /\ runs[row.run].dec = d
          /\ HasStart(d, runs[row.run].mode)
          /\ \A f \in Decisions : \A t \in Completions(log[f]) : log[f][t].run # row.run
      BY <1>1, <3>1 DEF InHand, d, row
    <3>3. PICK r \in Rows(log[d], {"EXECUTION_STARTED"}) : log[d][r].mode = runs[row.run].mode
      BY <3>2 DEF HasStart
    <3>4. r \in Rows(log'[d], {"EXECUTION_STARTED"}) /\ r < n /\ log'[d][r] = log[d][r]
      BY <1>2 DEF Rows
    <3>5. \A f \in Decisions : \A t \in Completions(log'[f]) :
            log'[f][t].run = row.run => <<f, t>> = <<d, n>>
      BY <1>4, <1>5, <3>2
    <3>. QED
      BY <1>2, <3>1, <3>2, <3>3, <3>4, <3>5 DEF RealRow
  <2>. QED
    BY <2>1, <2>2
<1>10. CompletionsReal'
  BY <1>9 DEF RealRow, CompletionsReal, Completions
<1>11. \A b \in Clients : NextNotCompleted(b)'
  BY <1>2 DEF RunInv, NextNotCompleted
<1>. QED
  BY <1>7, <1>8, <1>10, <1>11 DEF RunInv

LEMMA ReturnKeepsRuns ==
  ASSUME RunInv, LogInv', NEW c \in Clients, RunEnds(c),
         \A b \in Clients \ {c} : stage'[b] = stage[b] /\ op'[b] = op[b]
  PROVE  RunInv'
<1> DEFINE d == op[c].dec
           k == Len(runs) + 1
<1>1. LogInv /\ Announced(c)
  BY DEF RunInv
<1>2. /\ stage[c] = "run" /\ d \in Decisions /\ log' = log
      /\ DOMAIN runs' = DOMAIN runs \cup {k}
      /\ k \notin DOMAIN runs
      /\ \A i \in DOMAIN runs : runs'[i] = runs[i]
      /\ runs'[k] = [dec |-> d, mode |-> op[c].row.mode]
      /\ stage'[c] = "select"
      /\ op'[c].dec = d /\ op'[c].row \in {Completed(k), Failed} /\ op'[c].next = {}
  BY <1>1, ReturnFacts
<1> HIDE DEF d, k
<1>3. \A e \in Decisions : \A s \in Completions(log[e]) : log[e][s].run \in DOMAIN runs
  BY RealRows DEF RunInv, RealRow
<1>4. \A b \in Clients \ {c} : Holding(b) => op[b].row.run \in DOMAIN runs
  BY DEF RunInv, InHand
<1>5. Holding(c)' => op'[c].row.run = k
  BY <1>2 DEF Completed, Failed, Holding
<1>6. InHand(c)'
  <2>1. \E r \in Rows(log'[d], {"EXECUTION_STARTED"}) : log'[d][r].mode = runs'[k].mode
    BY <1>1, <1>2 DEF Announced, HasStart, d
  <2>2. \A b \in Clients \ {c} : Holding(b)' => op'[b].row.run # k
    BY <1>2, <1>4 DEF Holding
  <2>3. \A e \in Decisions : \A t \in Completions(log'[e]) : log'[e][t].run # k
    BY <1>2, <1>3
  <2>. QED
    BY <1>2, <1>5, <2>1, <2>2, <2>3 DEF InHand, HasStart
<1>7. ASSUME NEW b \in Clients \ {c}
      PROVE  InHand(b)'
  <2> SUFFICES ASSUME Holding(b)' PROVE InHand(b)'
    BY DEF InHand
  <2>1. Holding(b) /\ InHand(b) /\ op'[b] = op[b]
    BY DEF RunInv, Holding
  <2>2. op[b].row.run \in DOMAIN runs /\ op[b].row.run # k
    BY <1>2, <2>1 DEF InHand
  <2>3. \A a \in Clients \ {b} : Holding(a)' => op'[a].row.run # op'[b].row.run
    BY <1>5, <2>1, <2>2 DEF InHand, Holding
  <2>. QED
    BY <1>2, <2>1, <2>2, <2>3 DEF InHand, HasStart
<1>8. \A e \in Decisions : \A s \in Completions(log'[e]) : RealRow(e, s)'
  <2> SUFFICES ASSUME NEW e \in Decisions, NEW s \in Completions(log[e]) PROVE RealRow(e, s)'
    BY <1>2
  <2>1. RealRow(e, s)
    BY RealRows DEF RunInv
  <2>. QED
    BY <1>2, <2>1 DEF RealRow
<1>9. CompletionsReal'
  BY <1>8 DEF RealRow, CompletionsReal, Completions
<1>10. \A b \in Clients : Announced(b)' /\ NextNotCompleted(b)'
  BY <1>2 DEF RunInv, Announced, HasStart, NextNotCompleted
<1>. QED
  BY <1>6, <1>7, <1>9, <1>10 DEF RunInv

LEMMA RunsKept ==
  ASSUME RunInv, LogInv', [Next]_vars
  PROVE  RunInv'
<1>1. CASE UNCHANGED <<log, stage, op, runs>>
  BY <1>1 DEF RunInv, CompletionsReal, InHand, Holding, Announced, HasStart, NextNotCompleted
<1>2. ASSUME NEW c \in Clients, Step(c)
      PROVE  RunInv'
  <2>1. LogInv /\ NextNotCompleted(c)
    BY DEF RunInv
  <2>2. \A b \in Clients \ {c} : stage'[b] = stage[b] /\ op'[b] = op[b]
    BY <1>2, <2>1, OthersUnchanged
  <2>3. AppendInsert(c) \/ RunEnds(c) \/ Quiet(c)
    BY <1>2, <2>1, StepKinds
  <2>. QED
    BY <2>2, <2>3, QuietKeepsRuns, InsertKeepsRuns, ReturnKeepsRuns
<1>. QED
  BY <1>1, <1>2 DEF Next, Tick, store, locals, vars

LEMMA RunsInit == Init => RunInv
<1> SUFFICES ASSUME Init PROVE RunInv
  OBVIOUS
<1>1. \A c \in Clients : stage[c] = "idle"
  BY DEF Init
<1>2. CompletionsReal
  BY DEF Init, CompletionsReal, Rows, EmptyLog
<1>. QED
  BY <1>1, <1>2, LogInvInit DEF RunInv, InHand, Holding, Announced, NextNotCompleted

LEMMA RunInvariant == Spec => []RunInv
<1>1. RunInv /\ LogInv' /\ [Next]_vars => RunInv'
  BY RunsKept
<1>. QED
  BY <1>1, RunsInit, LogInvariant, PTL DEF Spec

(***************************************************************************)
(* Every EXECUTION_COMPLETED row names a run the router completed for that *)
(* decision, in a mode announced before it, and no two rows name the same. *)
(***************************************************************************)
THEOREM CompletionsTheorem == Spec => []CompletionsReal
<1>1. RunInv => CompletionsReal
  BY DEF RunInv
<1>. QED
  BY <1>1, RunInvariant, PTL

-----------------------------------------------------------------------------
(***************************************************************************)
(* Runs are admitted.  A client that is with the router has its            *)
(* EXECUTION_STARTED row and not yet its run, so the two together are      *)
(* never more than the rows.                                               *)
(***************************************************************************)
RunsOf(d)   == {i \in DOMAIN runs : runs[i].dec = d}
Running(d)  == {c \in Clients : stage[c] = "run" /\ op[c].dec = d}
StartsOf(d) == Rows(log[d], {"EXECUTION_STARTED"})

Admitted(d) ==
  /\ IsFiniteSet(Running(d))
  /\ Cardinality(RunsOf(d)) + Cardinality(Running(d)) <= Cardinality(StartsOf(d))

AdmitInv == RunInv /\ \A d \in Decisions : Admitted(d)

LEMMA CountsFinite ==
  ASSUME LogInv, NEW d \in Decisions
  PROVE  /\ IsFiniteSet(RunsOf(d)) /\ Cardinality(RunsOf(d)) \in Nat
         /\ IsFiniteSet(StartsOf(d)) /\ Cardinality(StartsOf(d)) \in Nat
<1>1. PICK n \in Nat : DOMAIN log[d] = 0 .. (n - 1)
  BY ToolsAssumption DEF LogInv, SeqContiguous
<1>2. Len(runs) \in Nat /\ DOMAIN runs = 1 .. Len(runs)
  BY LenProperties DEF LogInv, TypeOK
<1>3. IsFiniteSet(0 .. (n - 1)) /\ IsFiniteSet(1 .. Len(runs))
  BY <1>2, FS_Interval
<1>4. StartsOf(d) \in SUBSET (0 .. (n - 1)) /\ RunsOf(d) \in SUBSET (1 .. Len(runs))
  BY <1>1, <1>2 DEF StartsOf, Rows, RunsOf
<1>5. IsFiniteSet(StartsOf(d)) /\ IsFiniteSet(RunsOf(d))
  BY <1>3, <1>4, FS_Subset
<1>. QED
  BY <1>5, FS_CardinalityType

\* Nobody comes to the router, and no row goes: the count stands.
LEMMA AdmittedKept ==
  ASSUME LogInv, LogInv', NEW d \in Decisions, Admitted(d),
         RunsOf(d)' = RunsOf(d), Running(d)' \subseteq Running(d), StartsOf(d) \subseteq StartsOf(d)'
  PROVE  Admitted(d)'
<1>1. IsFiniteSet(Running(d)) /\ Running(d)' \in SUBSET Running(d)
  BY DEF Admitted
<1>2. IsFiniteSet(Running(d)') /\ Cardinality(Running(d)') <= Cardinality(Running(d))
  BY <1>1, FS_Subset
<1>3. Cardinality(Running(d)') \in Nat /\ Cardinality(Running(d)) \in Nat
  BY <1>1, <1>2, FS_CardinalityType
<1>4. IsFiniteSet(StartsOf(d)') /\ Cardinality(StartsOf(d)') \in Nat
  <2>1. PICK n \in Nat : DOMAIN log'[d] = 0 .. (n - 1)
    BY ToolsAssumption DEF LogInv, SeqContiguous
  <2>2. IsFiniteSet(0 .. (n - 1))
    BY FS_Interval
  <2>3. StartsOf(d)' \in SUBSET (0 .. (n - 1))
    BY <2>1 DEF StartsOf, Rows
  <2>. QED
    BY <2>2, <2>3, FS_Subset, FS_CardinalityType
<1>5. StartsOf(d) \in SUBSET (StartsOf(d)')
  OBVIOUS
<1>6. Cardinality(StartsOf(d)) <= Cardinality(StartsOf(d)')
  BY <1>4, <1>5, FS_Subset
<1>7. Cardinality(RunsOf(d)) \in Nat /\ Cardinality(StartsOf(d)) \in Nat
  BY CountsFinite
<1>8. Cardinality(RunsOf(d)) + Cardinality(Running(d)) <= Cardinality(StartsOf(d))
  BY DEF Admitted
<1>9. Cardinality(RunsOf(d)') + Cardinality(Running(d)') <= Cardinality(StartsOf(d)')
  BY <1>2, <1>3, <1>4, <1>6, <1>7, <1>8
<1>. QED
  BY <1>2, <1>9 DEF Admitted

LEMMA AdmitStep ==
  ASSUME AdmitInv, RunInv', [Next]_vars
  PROVE  AdmitInv'
<1>1. LogInv /\ LogInv' /\ TypeOK
  BY DEF AdmitInv, RunInv, LogInv
<1>2. ASSUME UNCHANGED <<log, stage, op, runs>>, NEW d \in Decisions
      PROVE  Admitted(d)'
  BY <1>2 DEF AdmitInv, Admitted, RunsOf, Running, StartsOf
<1>3. ASSUME NEW c \in Clients, Step(c), NEW d \in Decisions
      PROVE  Admitted(d)'
  <2>1. Admitted(d) /\ NextNotCompleted(c)
    BY DEF AdmitInv, RunInv
  <2>2. \A b \in Clients \ {c} : stage'[b] = stage[b] /\ op'[b] = op[b]
    BY <1>1, <1>3, OthersUnchanged
  <2>3. CASE Quiet(c)
    <3>1. RunsOf(d)' = RunsOf(d) /\ StartsOf(d)' = StartsOf(d)
      BY <2>3 DEF Quiet, RunsOf, StartsOf
    <3>2. Running(d)' \subseteq Running(d)
      BY <2>2, <2>3 DEF Quiet, Running
    <3>. QED
      BY <1>1, <2>1, <3>1, <3>2, AdmittedKept
  <2>4. CASE AppendInsert(c)
    <3> DEFINE n == op[c].seq
    <3>1. /\ op[c].dec \in Decisions
          /\ n \notin DOMAIN log[op[c].dec]
          /\ \A e \in Decisions : \A s :
               s \in DOMAIN log'[e] <=> s \in DOMAIN log[e] \/ (e = op[c].dec /\ s = n)
          /\ \A e \in Decisions : \A s \in DOMAIN log[e] : log'[e][s] = log[e][s]
          /\ log'[op[c].dec][n] = op[c].row
          /\ runs' = runs
          /\ stage'[c] = "run" => op'[c] = op[c] /\ op[c].row.type = "EXECUTION_STARTED"
      BY <1>1, <2>1, <2>4, InsertFacts
    <3>2. stage[c] = "insert"
      BY <2>4 DEF AppendInsert
    <3> HIDE DEF n
    <3>3. RunsOf(d)' = RunsOf(d) /\ StartsOf(d) \subseteq StartsOf(d)'
      BY <3>1 DEF RunsOf, StartsOf, Rows
    <3>4. CASE stage'[c] # "run" \/ op[c].dec # d
      <4>1. Running(d)' \subseteq Running(d)
        BY <2>2, <3>1, <3>4 DEF Running
      <4>. QED
        BY <1>1, <2>1, <3>3, <4>1, AdmittedKept
    <3>5. CASE stage'[c] = "run" /\ op[c].dec = d
      <4>1. Running(d)' = Running(d) \cup {c} /\ c \notin Running(d)
        BY <2>2, <3>1, <3>2, <3>5 DEF Running
      <4>2. StartsOf(d)' = StartsOf(d) \cup {n} /\ n \notin StartsOf(d)
        BY <3>1, <3>5 DEF StartsOf, Rows
      <4>3. IsFiniteSet(Running(d)) /\ IsFiniteSet(StartsOf(d))
        BY <1>1, <2>1, CountsFinite DEF Admitted
      <4>4. /\ IsFiniteSet(Running(d)') /\ Cardinality(Running(d)') = Cardinality(Running(d)) + 1
            /\ Cardinality(StartsOf(d)') = Cardinality(StartsOf(d)) + 1
        BY <4>1, <4>2, <4>3, FS_AddElement
      <4>5. /\ Cardinality(RunsOf(d)) \in Nat /\ Cardinality(Running(d)) \in Nat
            /\ Cardinality(StartsOf(d)) \in Nat
        BY <1>1, <4>3, CountsFinite, FS_CardinalityType
      <4>6. Cardinality(RunsOf(d)) + Cardinality(Running(d)) <= Cardinality(StartsOf(d))
        BY <2>1 DEF Admitted
      <4>7. Cardinality(RunsOf(d)') + Cardinality(Running(d)') <= Cardinality(StartsOf(d)')
        BY <3>3, <4>4, <4>5, <4>6
      <4>. QED
        BY <4>4, <4>7 DEF Admitted
    <3>. QED
      BY <3>4, <3>5
  <2>5. CASE RunEnds(c)
    <3> DEFINE k == Len(runs) + 1
    <3>1. /\ stage[c] = "run" /\ log' = log
          /\ DOMAIN runs' = DOMAIN runs \cup {k}
          /\ k \notin DOMAIN runs
          /\ \A i \in DOMAIN runs : runs'[i] = runs[i]
          /\ runs'[k] = [dec |-> op[c].dec, mode |-> op[c].row.mode]
          /\ stage'[c] = "select"
      BY <1>1, <2>5, ReturnFacts
    <3> HIDE DEF k
    <3>2. StartsOf(d)' = StartsOf(d)
      BY <3>1 DEF StartsOf
    <3>3. CASE op[c].dec # d
      <4>1. RunsOf(d)' = RunsOf(d) /\ Running(d)' \subseteq Running(d)
        BY <2>2, <3>1, <3>3 DEF RunsOf, Running
      <4>. QED
        BY <1>1, <2>1, <3>2, <4>1, AdmittedKept
    <3>4. CASE op[c].dec = d
      <4>1. RunsOf(d)' = RunsOf(d) \cup {k} /\ k \notin RunsOf(d)
        BY <3>1, <3>4 DEF RunsOf
      <4>2. Running(d)' = Running(d) \ {c} /\ c \in Running(d)
        BY <2>2, <3>1, <3>4 DEF Running
      <4>3. IsFiniteSet(Running(d)) /\ IsFiniteSet(RunsOf(d))
        BY <1>1, <2>1, CountsFinite DEF Admitted
      <4>4. /\ IsFiniteSet(Running(d)') /\ Cardinality(Running(d)') = Cardinality(Running(d)) - 1
            /\ Cardinality(RunsOf(d)') = Cardinality(RunsOf(d)) + 1
        <5>1. Cardinality(RunsOf(d) \cup {k}) = Cardinality(RunsOf(d)) + 1
          BY <4>1, <4>3, FS_AddElement
        <5>2. /\ IsFiniteSet(Running(d) \ {c})
              /\ Cardinality(Running(d) \ {c}) = Cardinality(Running(d)) - 1
          BY <4>2, <4>3, FS_RemoveElement
        <5>. QED
          BY <4>1, <4>2, <5>1, <5>2
      <4>5. /\ Cardinality(RunsOf(d)) \in Nat /\ Cardinality(Running(d)) \in Nat
            /\ Cardinality(StartsOf(d)) \in Nat
        BY <1>1, <4>3, CountsFinite, FS_CardinalityType
      <4>6. Cardinality(RunsOf(d)) + Cardinality(Running(d)) <= Cardinality(StartsOf(d))
        BY <2>1 DEF Admitted
      <4>7. Cardinality(RunsOf(d)') + Cardinality(Running(d)') <= Cardinality(StartsOf(d)')
        BY <3>2, <4>4, <4>5, <4>6
      <4>. QED
        BY <4>4, <4>7 DEF Admitted
    <3>. QED
      BY <3>3, <3>4
  <2>. QED
    BY <1>1, <1>3, <2>1, <2>3, <2>4, <2>5, StepKinds
<1>. QED
  BY <1>2, <1>3 DEF AdmitInv, Next, Tick, store, locals, vars

LEMMA AdmitInit == Init => \A d \in Decisions : Admitted(d)
<1> SUFFICES ASSUME Init, NEW d \in Decisions PROVE Admitted(d)
  OBVIOUS
<1>1. RunsOf(d) = {} /\ Running(d) = {} /\ StartsOf(d) = {}
  BY DEF Init, RunsOf, Running, StartsOf, Rows, EmptyLog
<1>2. IsFiniteSet({}) /\ Cardinality({}) = 0
  BY FS_EmptySet
<1>. QED
  BY <1>1, <1>2 DEF Admitted

(***************************************************************************)
(* The router never completes more runs for a decision than its log has    *)
(* EXECUTION_STARTED rows, whichever clients race, fail or die.            *)
(***************************************************************************)
THEOREM AdmittedTheorem == Spec => []RunsAdmitted
<1> DEFINE All == \A d \in Decisions : Admitted(d)
<1>1. Init => All
  BY AdmitInit
<1>2. RunInv /\ All /\ RunInv' /\ [Next]_vars => All'
  BY AdmitStep DEF AdmitInv
<1>3. RunInv /\ All => RunsAdmitted
  <2> SUFFICES ASSUME RunInv, All, NEW d \in Decisions
               PROVE  Cardinality(RunsOf(d)) <= Cardinality(StartsOf(d))
    BY DEF RunsAdmitted, RunsOf, StartsOf
  <2>1. Admitted(d) /\ LogInv
    BY DEF RunInv
  <2>2. Cardinality(Running(d)) \in Nat
    BY <2>1, FS_CardinalityType DEF Admitted
  <2>3. Cardinality(RunsOf(d)) \in Nat /\ Cardinality(StartsOf(d)) \in Nat
    BY <2>1, CountsFinite
  <2>. QED
    BY <2>1, <2>2, <2>3 DEF Admitted
<1> HIDE DEF All
<1>. QED
  BY <1>1, <1>2, <1>3, RunInvariant, PTL DEF Spec

-----------------------------------------------------------------------------
(***************************************************************************)
(* What a step may be to the execution of a decision, as seven shapes.     *)
(***************************************************************************)
ExecTypes == {"EXECUTION_REQUESTED", "EXECUTION_STARTED"} \cup OutcomeTypes

Enters(c) ==
  /\ stage[c] = "idle"
  /\ UNCHANGED <<log, runs>>
  /\ \/ /\ stage'[c] = "validate"
        /\ op'[c].row.type = "EXECUTION_REQUESTED"
        /\ op'[c].next = {}
     \/ /\ stage'[c] = "select"
        /\ op'[c].row.type \notin ExecTypes
        /\ \A row \in op'[c].next : row.type \notin ExecTypes

Validates(c) ==
  /\ stage[c] = "validate" /\ stage'[c] = "select"
  /\ UNCHANGED <<log, runs>>
  /\ op'[c].dec = op[c].dec
  /\ op'[c].row.type = "EXECUTION_REQUESTED"
  /\ op'[c].row.mode = op[c].row.mode
  /\ op'[c].next = {Started(op[c].row.mode)}

Selects(c) ==
  /\ stage[c] = "select" /\ stage'[c] = "insert"
  /\ UNCHANGED <<log, runs>>
  /\ op'[c].dec = op[c].dec /\ op'[c].row = op[c].row /\ op'[c].next = op[c].next
  /\ op'[c].seq = NextSeq(log[op[c].dec])

\* the router raised, or the append of its completion did
Fails(c) ==
  /\ \/ stage[c] = "run"
     \/ stage[c] \in {"select", "insert"} /\ op[c].row.type = "EXECUTION_COMPLETED"
  /\ UNCHANGED <<log, runs>>
  /\ stage'[c] = "select"
  /\ op'[c].dec = op[c].dec /\ op'[c].row = Failed /\ op'[c].next = {}

Leaves(c) == stage'[c] = "idle" /\ UNCHANGED <<log, runs>>

LEMMA StepShapes ==
  ASSUME LogInv, NEW c \in Clients, Step(c)
  PROVE  \/ Enters(c) \/ Validates(c) \/ Selects(c) \/ AppendInsert(c)
         \/ Fails(c) \/ RunEnds(c) \/ Leaves(c)
<1>1. TypeOK
  BY DEF LogInv
<1>2. ASSUME NEW st, NEW d, NEW l, NEW row, NEW next, Enter(c, st, d, l, row, next),
             UNCHANGED <<log, runs>>,
             \/ st = "validate" /\ row.type = "EXECUTION_REQUESTED" /\ next = {}
             \/ st = "select" /\ row.type \notin ExecTypes /\ \A r \in next : r.type \notin ExecTypes
      PROVE  Enters(c)
  <2>1. stage[c] = "idle" /\ stage'[c] = st /\ op'[c] = [dec |-> d, row |-> row, next |-> next, seq |-> 0]
    BY <1>1, <1>2 DEF Enter, TypeOK
  <2>. QED
    BY <1>2, <2>1 DEF Enters
<1>3. ASSUME Return(c), UNCHANGED <<log, runs>>
      PROVE  Leaves(c)
  BY <1>1, <1>3 DEF Return, TypeOK, Leaves
<1>4. ASSUME stage[c] # "idle", NEW row, Emit(c, row, {})
      PROVE  stage'[c] = "select" /\ op'[c].dec = op[c].dec /\ op'[c].row = row /\ op'[c].next = {}
  BY <1>1, <1>4 DEF Emit, TypeOK, Op
<1>5. ASSUME NEW d \in Decisions, NEW p \in Offered, NEW m \in Modes, Request(c, d, p, m)
      PROVE  Enters(c)
  BY <1>2, <1>5 DEF Request, Created, PolicyAttached, ExecTypes, OutcomeTypes
<1>6. ASSUME NEW d \in Decisions, NEW a \in Actors, NEW e \in Expiries, Approve(c, d, a, e)
      PROVE  Enters(c)
  BY <1>2, <1>6 DEF Approve, Granted, store, ExecTypes, OutcomeTypes
<1>7. ASSUME NEW d \in Decisions, NEW a \in Actors, Revoke(c, d, a)
      PROVE  Enters(c)
  BY <1>2, <1>7 DEF Revoke, Revoked, store, ExecTypes, OutcomeTypes
<1>8. ASSUME NEW d \in Decisions, NEW m \in Modes, ExecuteLoad(c, d, m)
      PROVE  Enters(c)
  BY <1>2, <1>8 DEF ExecuteLoad, Requested, store
<1>9. ASSUME NEW answer \in Answers, ExecuteValidate(c, answer)
      PROVE  Validates(c)
  <2>1. stage[c] = "validate" /\ op[c] \in Op /\ UNCHANGED <<log, runs>>
    BY <1>1, <1>9 DEF ExecuteValidate, TypeOK, store
  <2>2. /\ stage'[c] = "select"
        /\ op'[c].dec = op[c].dec
        /\ op'[c].row = Requested(op[c].row.mode, now)
        /\ op'[c].next = {Started(op[c].row.mode)}
    BY <1>1, <1>9, <2>1 DEF ExecuteValidate, TypeOK, Op
  <2>. QED
    BY <2>1, <2>2 DEF Validates, Requested
<1>10. ASSUME AppendSelect(c)
       PROVE  Selects(c)
  <2>1. stage[c] = "select" /\ op[c] \in Op /\ UNCHANGED <<log, runs>>
    BY <1>1, <1>10 DEF AppendSelect, TypeOK, store
  <2>2. /\ stage'[c] = "insert"
        /\ op'[c].dec = op[c].dec /\ op'[c].row = op[c].row /\ op'[c].next = op[c].next
        /\ op'[c].seq = NextSeq(log[op[c].dec])
    BY <1>1, <1>10, <2>1 DEF AppendSelect, TypeOK, Op
  <2>. QED
    BY <2>1, <2>2 DEF Selects
<1>11. ASSUME AppendConflict(c) \/ AppendFails(c)
       PROVE  Fails(c) \/ Leaves(c)
  <2>1. stage[c] \in {"select", "insert"} /\ AppendRaises(c)
    BY <1>11 DEF AppendConflict, AppendFails
  <2>2. UNCHANGED <<log, runs>>
    BY <2>1 DEF AppendRaises, store
  <2>3. CASE op[c].row.type = "EXECUTION_COMPLETED"
    <3>1. Emit(c, Failed, {})
      BY <2>1, <2>3 DEF AppendRaises
    <3>. QED
      BY <1>4, <2>1, <2>2, <2>3, <3>1 DEF Fails
  <2>4. CASE op[c].row.type # "EXECUTION_COMPLETED"
    BY <1>3, <2>1, <2>2, <2>4 DEF AppendRaises
  <2>. QED
    BY <2>3, <2>4
<1>12. ASSUME RouterRaises(c)
       PROVE  Fails(c)
  <2>1. stage[c] = "run" /\ Emit(c, Failed, {}) /\ UNCHANGED <<log, runs>>
    BY <1>12 DEF RouterRaises, store
  <2>. QED
    BY <1>4, <2>1 DEF Fails
<1>13. ASSUME Crash(c) \/ \E answer \in Answers : ExecuteRefused(c, answer)
       PROVE  Leaves(c)
  BY <1>3, <1>13 DEF Crash, ExecuteRefused, store
<1>. QED
  BY <1>5, <1>6, <1>7, <1>8, <1>9, <1>10, <1>11, <1>12, <1>13 DEF Step, RunEnds

\* An insert puts the client's row at the end of one log.
LEMMA InsertExtendsOne ==
  ASSUME LogInv, NEW c \in Clients, AppendInsert(c)
  PROVE  /\ stage[c] = "insert" /\ runs' = runs
         /\ op[c] \in Op /\ op[c].dec \in Decisions /\ op[c].seq \in Nat
         /\ DOMAIN log[op[c].dec] = 0 .. (op[c].seq - 1)
         /\ log'[op[c].dec] = Extended(log[op[c].dec], op[c].seq, op[c].row)
         /\ \A e \in Decisions \ {op[c].dec} : log'[e] = log[e]
<1>1. DOMAIN log = Decisions
  BY DEF LogInv, TypeOK
<1>2. stage[c] = "insert" /\ runs' = runs
  BY DEF AppendInsert
<1>3. /\ op[c] \in Op /\ op[c].dec \in Decisions /\ op[c].seq \in Nat
      /\ DOMAIN log[op[c].dec] = 0 .. (op[c].seq - 1)
      /\ log' = [log EXCEPT ![op[c].dec] = Inserted(log[op[c].dec], op[c].seq, op[c].row)]
  BY InsertAtEnd
<1>4. Inserted(log[op[c].dec], op[c].seq, op[c].row) = Extended(log[op[c].dec], op[c].seq, op[c].row)
  BY DEF Inserted, Extended
<1>. QED
  BY <1>1, <1>2, <1>3, <1>4

-----------------------------------------------------------------------------
(***************************************************************************)
(* Nothing is started that was not requested.                              *)
(***************************************************************************)
RequestedFirst ==
  \A d \in Decisions : \A s \in Rows(log[d], {"EXECUTION_STARTED"}) : \E r \in Requests(log[d]) : r < s

StartsAfterRequest(c) ==
  stage[c] # "idle" =>
    /\ op[c].row.type = "EXECUTION_STARTED" => Requests(log[op[c].dec]) # {}
    /\ \A row \in op[c].next :
         row.type \in {"EXECUTION_REQUESTED", "EXECUTION_STARTED"} =>
           row.type = "EXECUTION_STARTED" /\ op[c].row.type = "EXECUTION_REQUESTED"

AskInv == LogInv /\ RequestedFirst /\ \A c \in Clients : StartsAfterRequest(c)

LEMMA AskStep ==
  ASSUME AskInv, LogInv', [Next]_vars
  PROVE  AskInv'
<1>1. LogInv /\ TypeOK
  BY DEF AskInv, LogInv
<1>2. ASSUME UNCHANGED <<log, stage, op>>
      PROVE  AskInv'
  BY <1>2 DEF AskInv, RequestedFirst, StartsAfterRequest
<1>3. ASSUME NEW c \in Clients, Step(c)
      PROVE  AskInv'
  <2>1. \A b \in Clients \ {c} : stage'[b] = stage[b] /\ op'[b] = op[b]
    BY <1>1, <1>3, OthersUnchanged
  <2>2. ASSUME log' = log, StartsAfterRequest(c)'
        PROVE  AskInv'
    BY <2>1, <2>2 DEF AskInv, RequestedFirst, StartsAfterRequest
  <2>3. StartsAfterRequest(c)
    BY DEF AskInv
  <2>4. CASE Enters(c)
    BY <2>2, <2>4 DEF Enters, StartsAfterRequest, ExecTypes
  <2>5. CASE Validates(c)
    BY <2>2, <2>5 DEF Validates, StartsAfterRequest, Started
  <2>6. CASE Selects(c)
    BY <2>2, <2>3, <2>6 DEF Selects, StartsAfterRequest
  <2>7. CASE Fails(c)
    BY <2>2, <2>7 DEF Fails, StartsAfterRequest, Failed
  <2>8. CASE RunEnds(c)
    <3>1. log' = log /\ op'[c].row \in {Completed(Len(runs) + 1), Failed} /\ op'[c].next = {}
      BY <1>1, <2>8, ReturnFacts
    <3>2. Completed(Len(runs) + 1).type = "EXECUTION_COMPLETED" /\ Failed.type = "EXECUTION_FAILED"
      BY DEF Completed, Failed
    <3>. QED
      BY <2>2, <3>1, <3>2 DEF StartsAfterRequest
  <2>9. CASE Leaves(c)
    BY <2>2, <2>9 DEF Leaves, StartsAfterRequest
  <2>10. CASE AppendInsert(c)
    <3> DEFINE d   == op[c].dec
               n   == op[c].seq
               row == op[c].row
    <3>1. /\ stage[c] = "insert"
          /\ d \in Decisions /\ n \in Nat
          /\ DOMAIN log[d] = 0 .. (n - 1)
          /\ log'[d] = Extended(log[d], n, row)
          /\ \A e \in Decisions \ {d} : log'[e] = log[e]
      BY <1>1, <2>10, InsertExtendsOne
    <3>2. /\ Requests(log[d]) \subseteq Requests(log'[d])
          /\ Requests(log[d]) \subseteq 0 .. (n - 1)
          /\ row.type = "EXECUTION_REQUESTED" => Requests(log'[d]) # {}
      BY <3>1, ExtendedRequests
    <3>3. /\ \A s \in Rows(log[d], {"EXECUTION_STARTED"}) : s \in Rows(log'[d], {"EXECUTION_STARTED"})
          /\ \A s \in Rows(log'[d], {"EXECUTION_STARTED"}) :
               s \in Rows(log[d], {"EXECUTION_STARTED"}) \/ (s = n /\ row.type = "EXECUTION_STARTED")
      <4> DEFINE T == {"EXECUTION_STARTED"}
      <4>1. row.type \in T <=> row.type = "EXECUTION_STARTED"
        OBVIOUS
      <4> HIDE DEF T
      <4>2. /\ row.type \in T => Rows(log'[d], T) = Rows(log[d], T) \cup {n}
            /\ row.type \notin T => Rows(log'[d], T) = Rows(log[d], T)
        BY <3>1, ExtendedRows
      <4>3. \A s \in Rows(log'[d], T) : s \in Rows(log[d], T) \/ (s = n /\ row.type = "EXECUTION_STARTED")
        BY <4>1, <4>2
      <4>4. \A s \in Rows(log[d], T) : s \in Rows(log'[d], T)
        BY <4>2
      <4>. QED
        BY <4>3, <4>4 DEF T
    <3>4. RequestedFirst'
      <4> SUFFICES ASSUME NEW e \in Decisions, NEW s \in Rows(log'[e], {"EXECUTION_STARTED"})
                   PROVE  \E r \in Requests(log'[e]) : r < s
        BY DEF RequestedFirst
      <4>1. CASE e # d
        BY <3>1, <4>1 DEF AskInv, RequestedFirst
      <4>2. CASE e = d /\ s \in Rows(log[d], {"EXECUTION_STARTED"})
        BY <3>1, <3>2, <4>2 DEF AskInv, RequestedFirst
      <4>3. CASE e = d /\ s = n /\ row.type = "EXECUTION_STARTED"
        <5>1. PICK r \in Requests(log[d]) : TRUE
          BY <2>3, <3>1, <4>3 DEF StartsAfterRequest
        <5>2. r < n
          BY <3>1, <3>2
        <5>. QED
          BY <3>2, <4>3, <5>2
      <4>. QED
        BY <3>3, <4>1, <4>2, <4>3
    <3>5. \A b \in Clients \ {c} : StartsAfterRequest(b)'
      <4> TAKE b \in Clients \ {c}
      <4>1. StartsAfterRequest(b) /\ stage'[b] = stage[b] /\ op'[b] = op[b]
        BY <2>1 DEF AskInv
      <4>2. stage[b] # "idle" => op[b].dec \in Decisions
        BY <1>1 DEF TypeOK, Op
      <4>3. stage[b] # "idle" /\ Requests(log[op[b].dec]) # {} => Requests(log'[op[b].dec]) # {}
        BY <3>1, <3>2, <4>2
      <4>. QED
        BY <4>1, <4>3 DEF StartsAfterRequest
    <3>6. StartsAfterRequest(c)'
      <4>1. /\ stage[c] = "insert" /\ AfterInsert(c)
        BY <2>10 DEF AppendInsert
      <4>2. \/ stage'[c] = "idle"
            \/ stage'[c] = "run" /\ op'[c] = op[c] /\ op[c].next = {}
            \/ /\ stage'[c] = "select"
               /\ op'[c].dec = op[c].dec /\ op'[c].row \in op[c].next /\ op'[c].next = {}
        BY <1>1, <4>1, AfterInsertCall
      <4>. QED
        BY <2>3, <3>1, <3>2, <4>2 DEF StartsAfterRequest
    <3>. QED
      BY <3>4, <3>5, <3>6 DEF AskInv
  <2>. QED
    BY <1>1, <1>3, <2>4, <2>5, <2>6, <2>7, <2>8, <2>9, <2>10, StepShapes
<1>. QED
  BY <1>2, <1>3 DEF Next, Tick, store, locals, vars

LEMMA AskInvariant == Spec => []AskInv
<1>1. Init => AskInv
  <2> SUFFICES ASSUME Init PROVE AskInv
    OBVIOUS
  <2>1. RequestedFirst
    BY DEF Init, RequestedFirst, Rows, EmptyLog
  <2>2. \A c \in Clients : stage[c] = "idle"
    BY DEF Init
  <2>. QED
    BY <2>1, <2>2, LogInvInit DEF AskInv, StartsAfterRequest
<1>2. AskInv /\ LogInv' /\ [Next]_vars => AskInv'
  BY AskStep
<1>. QED
  BY <1>1, <1>2, LogInvariant, PTL DEF Spec

-----------------------------------------------------------------------------
(***************************************************************************)
(* What execution records say, as long as one client at a time uses the    *)
(* store.  The client that has requested an execution owes its record a    *)
(* start, and then an outcome; the start pays for the run that is to come. *)
(***************************************************************************)
RecordTrue(d, r) ==
  LET l == log[d]
  IN  /\ \A s \in Starts(l, r) : l[s].mode = l[r].mode
      /\ Outcomes(l, r) # {} => Starts(l, r) # {}
      /\ HasRun(l, r) => /\ RunOf(l, r) \in DOMAIN runs
                         /\ runs[RunOf(l, r)] = [dec |-> d, mode |-> l[r].mode]
                         /\ \A q \in Requests(l) :
                              q > r /\ HasRun(l, q) => RunOf(l, q) > RunOf(l, r)
      /\ HasRun(l, r) /\ IsLatest(l, r) => \A i \in RunsOf(d) : i <= RunOf(l, r)

Covered(d) ==
  /\ Cardinality(RunsOf(d)) <= Cardinality(Records(log[d]))
  /\ Running(d) # {} => Cardinality(RunsOf(d)) + 1 <= Cardinality(Records(log[d]))

\* the record client c owes a start or an outcome, and what it has to say
Owed(c, r) ==
  LET l   == log[op[c].dec]
      row == op[c].row
  IN  /\ IsLatest(l, r) /\ Outcomes(l, r) = {}
      /\ row.type = "EXECUTION_STARTED" =>
           /\ row.mode = l[r].mode
           /\ stage[c] # "run" => Starts(l, r) = {}
      /\ row.type # "EXECUTION_STARTED" \/ stage[c] = "run" => Starts(l, r) # {}
      /\ row.type = "EXECUTION_COMPLETED" =>
           /\ row.run \in DOMAIN runs
           /\ runs[row.run] = [dec |-> op[c].dec, mode |-> l[r].mode]
           /\ \A q \in Requests(l) : HasRun(l, q) => RunOf(l, q) < row.run
           /\ \A i \in RunsOf(op[c].dec) : i <= row.run

Owes(c) ==
  stage[c] # "idle" /\ op[c].row.type \in {"EXECUTION_STARTED"} \cup OutcomeTypes => \E r : Owed(c, r)

Asks(c) ==
  stage[c] # "idle" =>
    IF op[c].row.type = "EXECUTION_REQUESTED" /\ stage[c] # "validate"
    THEN op[c].next = {Started(op[c].row.mode)}
    ELSE \A row \in op[c].next : row.type \notin ExecTypes

RecordInv ==
  /\ \A d \in Decisions : Covered(d) /\ \A r \in Requests(log[d]) : RecordTrue(d, r)
  /\ \A c \in Clients : Owes(c) /\ Asks(c)

LEMMA RecordsFinite ==
  ASSUME NEW n \in Nat, NEW l, DOMAIN l = 0 .. (n - 1)
  PROVE  IsFiniteSet(Records(l)) /\ Cardinality(Records(l)) \in Nat
<1>1. IsFiniteSet(Requests(l)) /\ Records(l) \in SUBSET Requests(l)
  BY Ranks DEF Records
<1>. QED
  BY <1>1, FS_Subset, FS_CardinalityType

\* Only a start that is the first of its record makes one record more.
LEMMA RecordsAfter ==
  ASSUME NEW n \in Nat, NEW l, DOMAIN l = 0 .. (n - 1), NEW row,
         row.type = "EXECUTION_STARTED" => \E r : IsLatest(l, r) /\ Starts(l, r) = {}
  PROVE  LET l2 == Extended(l, n, row)
         IN  /\ row.type # "EXECUTION_STARTED" => Records(l2) = Records(l)
             /\ row.type = "EXECUTION_STARTED" =>
                  Cardinality(Records(l2)) = Cardinality(Records(l)) + 1
<1> DEFINE l2 == Extended(l, n, row)
<1>1. IsFiniteSet(Records(l)) /\ Cardinality(Records(l)) \in Nat
  BY RecordsFinite
<1>2. CASE row.type = "EXECUTION_REQUESTED"
  <2>1. /\ Requests(l2) = Requests(l) \cup {n}
        /\ Starts(l2, n) = {}
        /\ \A r \in Requests(l) : Starts(l2, r) = Starts(l, r)
    BY <1>2, RecordAfterRequest
  <2> HIDE DEF l2
  <2>2. Records(l2) = Records(l)
    BY <2>1 DEF Records
  <2>. QED
    BY <1>2, <2>2 DEF l2
<1>3. CASE row.type # "EXECUTION_REQUESTED"
  <2>1. Requests(l2) = Requests(l)
    BY <1>3, ExtendedRequests
  <2>2. \A r \in Requests(l) :
          /\ row.type # "EXECUTION_STARTED" \/ ~ IsLatest(l, r) => Starts(l2, r) = Starts(l, r)
          /\ row.type = "EXECUTION_STARTED" /\ IsLatest(l, r) => Starts(l2, r) = Starts(l, r) \cup {n}
    BY <1>3, RecordAfterRow
  <2> HIDE DEF l2
  <2>3. CASE row.type # "EXECUTION_STARTED"
    <3>1. Records(l2) = Records(l)
      BY <2>1, <2>2, <2>3 DEF Records
    <3>. QED
      BY <2>3, <3>1 DEF l2
  <2>4. CASE row.type = "EXECUTION_STARTED"
    <3>1. PICK r0 : IsLatest(l, r0) /\ Starts(l, r0) = {}
      BY <2>4
    <3>2. /\ r0 \in Requests(l) /\ r0 \notin Records(l)
          /\ \A r \in Requests(l) : IsLatest(l, r) => r = r0
      BY <3>1, LatestIsOne DEF Records, IsLatest
    <3>3. Starts(l2, r0) = {n}
      BY <2>2, <2>4, <3>1, <3>2
    <3>4. \A r \in Requests(l) \ {r0} : Starts(l2, r) = Starts(l, r)
      BY <2>2, <3>2
    <3>5. Records(l2) = Records(l) \cup {r0}
      BY <2>1, <3>2, <3>3, <3>4 DEF Records
    <3>6. Cardinality(Records(l) \cup {r0}) = Cardinality(Records(l)) + 1
      BY <1>1, <3>2, FS_AddElement
    <3>. QED
      BY <2>4, <3>5, <3>6 DEF l2
  <2>. QED
    BY <2>3, <2>4
<1>. QED
  BY <1>2, <1>3

-----------------------------------------------------------------------------
\* An insert keeps what the records say.
LEMMA InsertKeepsRecords ==
  ASSUME LogInv, RecordInv, NEW c \in Clients, AppendInsert(c), NEW d, d = op[c].dec,
         NEW r \in Requests(log'[d])
  PROVE  RecordTrue(d, r)'
<1> DEFINE n   == op[c].seq
           row == op[c].row
           l   == log[d]
           l2  == Extended(l, n, row)
<1>1. /\ stage[c] = "insert" /\ runs' = runs
      /\ d \in Decisions /\ n \in Nat
      /\ DOMAIN l = 0 .. (n - 1)
      /\ log'[d] = l2
      /\ row \in Event
  BY InsertExtendsOne DEF Op
<1>2. Owes(c) /\ \A q \in Requests(l) : RecordTrue(d, q)
  BY <1>1 DEF RecordInv
<1>3. /\ l2[n] = row
      /\ \A s \in 0 .. (n - 1) : l2[s] = l[s]
      /\ \A q : Starts(l, q) \subseteq 0 .. (n - 1)
  BY <1>1, ExtendedLog DEF Starts, Span
<1>4. NamesRun(row) <=> row.type = "EXECUTION_COMPLETED"
  BY <1>1, CompletionsNameRuns
<1> SUFFICES /\ \A s \in Starts(l2, r) : l2[s].mode = l2[r].mode
             /\ Outcomes(l2, r) # {} => Starts(l2, r) # {}
             /\ HasRun(l2, r) =>
                  /\ RunOf(l2, r) \in DOMAIN runs
                  /\ runs[RunOf(l2, r)] = [dec |-> d, mode |-> l2[r].mode]
                  /\ \A q \in Requests(l2) : q > r /\ HasRun(l2, q) => RunOf(l2, q) > RunOf(l2, r)
             /\ HasRun(l2, r) /\ IsLatest(l2, r) => \A i \in RunsOf(d) : i <= RunOf(l2, r)
  <2> HIDE DEF l2
  <2>. QED
    BY <1>1 DEF RecordTrue, RunsOf
<1>5. CASE row.type = "EXECUTION_REQUESTED"
  <2>1. /\ Requests(l2) = Requests(l) \cup {n}
        /\ Starts(l2, n) = {} /\ Outcomes(l2, n) = {} /\ ~ HasRun(l2, n)
        /\ \A q \in Requests(l) : ~ IsLatest(l2, q)
        /\ \A q \in Requests(l) :
             /\ l2[q] = l[q]
             /\ Starts(l2, q) = Starts(l, q)
             /\ Outcomes(l2, q) = Outcomes(l, q)
             /\ HasRun(l2, q) <=> HasRun(l, q)
             /\ HasRun(l, q) => RunOf(l2, q) = RunOf(l, q)
    BY <1>1, <1>5, RecordAfterRequest
  <2>2. \A q \in Requests(l) : RecordTrue(d, q)
    BY <1>2
  <2> HIDE DEF l2
  <2>3. CASE r = n
    BY <2>1, <2>3
  <2>4. CASE r \in Requests(l)
    <3>1. RecordTrue(d, r)
      BY <2>2, <2>4
    <3>2. \A s \in Starts(l2, r) : l2[s].mode = l2[r].mode
      BY <1>3, <2>1, <2>4, <3>1 DEF RecordTrue
    <3>3. HasRun(l2, r) =>
            /\ RunOf(l2, r) \in DOMAIN runs
            /\ runs[RunOf(l2, r)] = [dec |-> d, mode |-> l2[r].mode]
            /\ \A q \in Requests(l2) : q > r /\ HasRun(l2, q) => RunOf(l2, q) > RunOf(l2, r)
      BY <2>1, <2>4, <3>1 DEF RecordTrue
    <3>4. Outcomes(l2, r) # {} => Starts(l2, r) # {}
      BY <2>1, <2>4, <3>1 DEF RecordTrue
    <3>. QED
      BY <2>1, <2>4, <3>2, <3>3, <3>4
  <2>. QED
    BY <1>1, <2>1, <2>3, <2>4
<1>6. CASE row.type # "EXECUTION_REQUESTED"
  <2>1. Requests(l2) = Requests(l)
    BY <1>1, <1>6, ExtendedRequests
  <2>2. \A q \in Requests(l) :
        /\ IsLatest(l2, q) <=> IsLatest(l, q)
        /\ l2[q] = l[q]
        /\ row.type # "EXECUTION_STARTED" \/ ~ IsLatest(l, q) => Starts(l2, q) = Starts(l, q)
        /\ row.type = "EXECUTION_STARTED" /\ IsLatest(l, q) => Starts(l2, q) = Starts(l, q) \cup {n}
        /\ row.type \notin OutcomeTypes \/ ~ IsLatest(l, q) =>
             /\ Outcomes(l2, q) = Outcomes(l, q)
             /\ HasRun(l2, q) <=> HasRun(l, q)
             /\ HasRun(l, q) => RunOf(l2, q) = RunOf(l, q)
        /\ row.type \in OutcomeTypes /\ IsLatest(l, q) =>
             /\ HasRun(l2, q) <=> NamesRun(row)
             /\ HasRun(l2, q) => RunOf(l2, q) = row.run
    BY <1>1, <1>6, RecordAfterRow
  <2>3. r \in Requests(l) /\ RecordTrue(d, r)
    BY <1>1, <1>2, <2>1
  <2>4. row.type \in {"EXECUTION_STARTED"} \cup OutcomeTypes =>
          \A q \in Requests(l) : IsLatest(l, q) => Owed(c, q)
    BY <1>1, <1>2, LatestIsOne DEF Owes, Owed
  <2> HIDE DEF l2
  <2>5. \A s \in Starts(l2, r) : l2[s].mode = l2[r].mode
    <3>1. \A s \in Starts(l, r) : l[s].mode = l[r].mode
      BY <2>3 DEF RecordTrue
    <3>2. CASE row.type = "EXECUTION_STARTED" /\ IsLatest(l, r)
      <4>1. row.mode = l[r].mode
        BY <1>1, <2>3, <2>4, <3>2 DEF Owed
      <4>2. Starts(l2, r) = Starts(l, r) \cup {n} /\ l2[r] = l[r]
        BY <2>2, <2>3, <3>2
      <4>. QED
        BY <1>3, <3>1, <4>1, <4>2
    <3>3. CASE row.type # "EXECUTION_STARTED" \/ ~ IsLatest(l, r)
      <4>1. Starts(l2, r) = Starts(l, r) /\ l2[r] = l[r]
        BY <2>2, <2>3, <3>3
      <4>. QED
        BY <1>3, <3>1, <4>1
    <3>. QED
      BY <3>2, <3>3
  <2>6. Outcomes(l2, r) # {} => Starts(l2, r) # {}
    <3>1. CASE row.type \in OutcomeTypes /\ IsLatest(l, r)
      <4>1. Owed(c, r) /\ row.type # "EXECUTION_STARTED"
        BY <2>3, <2>4, <3>1 DEF OutcomeTypes
      <4>2. Starts(l2, r) = Starts(l, r) /\ Starts(l, r) # {}
        BY <2>2, <2>3, <4>1 DEF Owed
      <4>. QED
        BY <4>2
    <3>2. CASE ~ (row.type \in OutcomeTypes /\ IsLatest(l, r))
      <4>1. Outcomes(l2, r) = Outcomes(l, r)
        BY <2>2, <2>3, <3>2
      <4>2. Starts(l, r) # {} => Starts(l2, r) # {}
        BY <2>2, <2>3
      <4>. QED
        BY <2>3, <4>1, <4>2 DEF RecordTrue
    <3>. QED
      BY <3>1, <3>2
  \* the latest record's run, if it now has one, is the row's, and the newest
  <2>7. CASE row.type \in OutcomeTypes /\ \E q \in Requests(l) : IsLatest(l, q)
    <3>1. PICK q0 \in Requests(l) : IsLatest(l, q0)
      BY <2>7
    <3>2. \A q \in Requests(l) : IsLatest(l, q) => q = q0
      BY <1>1, <3>1, LatestIsOne
    <3>3. Owed(c, q0)
      BY <2>4, <2>7, <3>1
    <3>4. HasRun(l2, q0) =>
            /\ RunOf(l2, q0) = row.run
            /\ row.run \in DOMAIN runs
            /\ runs[row.run] = [dec |-> d, mode |-> l[q0].mode]
            /\ \A q \in Requests(l) : HasRun(l, q) => RunOf(l, q) < row.run
            /\ \A i \in RunsOf(d) : i <= row.run
      BY <1>1, <1>4, <2>2, <2>7, <3>1, <3>3 DEF Owed
    <3>5. \A q \in Requests(l) \ {q0} :
            (HasRun(l2, q) <=> HasRun(l, q)) /\ (HasRun(l, q) => RunOf(l2, q) = RunOf(l, q))
      BY <2>2, <3>2
    <3>6. CASE r = q0
      <4>1. \A q \in Requests(l) : q <= r
        BY <3>1, <3>6 DEF IsLatest
      <4>2. \A q \in Requests(l2) : ~ (q > r)
        <5>1. Requests(l) \subseteq Int
          BY <1>1 DEF Requests, Rows
        <5>. QED
          BY <2>1, <2>3, <4>1, <5>1
      <4>. QED
        BY <2>2, <2>3, <2>5, <2>6, <3>4, <3>6, <4>2
    <3>7. CASE r # q0
      <4>1. HasRun(l2, r) =>
              /\ HasRun(l, r) /\ RunOf(l2, r) = RunOf(l, r)
              /\ RunOf(l2, r) \in DOMAIN runs
              /\ runs[RunOf(l2, r)] = [dec |-> d, mode |-> l2[r].mode]
        BY <2>2, <2>3, <3>5, <3>7 DEF RecordTrue
      <4>2. ASSUME HasRun(l2, r), NEW q \in Requests(l2), q > r, HasRun(l2, q)
            PROVE  RunOf(l2, q) > RunOf(l2, r)
        <5>1. CASE q = q0
          <6>1. RunOf(l2, q) = row.run /\ RunOf(l, r) < row.run
            BY <2>3, <3>4, <4>1, <4>2, <5>1
          <6>. QED
            BY <4>1, <4>2, <6>1
        <5>2. CASE q # q0
          <6>1. q \in Requests(l) /\ HasRun(l, q) /\ RunOf(l2, q) = RunOf(l, q)
            BY <2>1, <3>5, <4>2, <5>2
          <6>. QED
            BY <2>3, <4>1, <4>2, <6>1 DEF RecordTrue
        <5>. QED
          BY <5>1, <5>2
      <4>3. ~ IsLatest(l2, r)
        BY <2>2, <2>3, <3>2, <3>7
      <4>. QED
        BY <2>5, <2>6, <4>1, <4>2, <4>3
    <3>. QED
      BY <3>6, <3>7
  <2>8. CASE ~ (row.type \in OutcomeTypes /\ \E q \in Requests(l) : IsLatest(l, q))
    <3>1. \A q \in Requests(l) :
            (HasRun(l2, q) <=> HasRun(l, q)) /\ (HasRun(l, q) => RunOf(l2, q) = RunOf(l, q))
      BY <2>2, <2>8
    <3>2. HasRun(l2, r) =>
            /\ RunOf(l2, r) \in DOMAIN runs
            /\ runs[RunOf(l2, r)] = [dec |-> d, mode |-> l2[r].mode]
      BY <2>2, <2>3, <3>1 DEF RecordTrue
    <3>3. HasRun(l2, r) => \A q \in Requests(l2) : q > r /\ HasRun(l2, q) => RunOf(l2, q) > RunOf(l2, r)
      BY <2>1, <2>3, <3>1 DEF RecordTrue
    <3>4. HasRun(l2, r) /\ IsLatest(l2, r) => \A i \in RunsOf(d) : i <= RunOf(l2, r)
      BY <2>2, <2>3, <3>1 DEF RecordTrue
    <3>. QED
      BY <2>5, <2>6, <3>2, <3>3, <3>4
  <2>. QED
    BY <2>7, <2>8
<1>. QED
  BY <1>5, <1>6

\* And the count of its records.
LEMMA InsertKeepsCount ==
  ASSUME OneClient, LogInv, RecordInv, NEW c \in Clients, AppendInsert(c), NEW e \in Decisions
  PROVE  Covered(e)'
<1> DEFINE d   == op[c].dec
           n   == op[c].seq
           row == op[c].row
           l   == log[d]
<1>1. /\ stage[c] = "insert" /\ runs' = runs
      /\ d \in Decisions /\ n \in Nat
      /\ DOMAIN l = 0 .. (n - 1)
      /\ log'[d] = Extended(l, n, row)
      /\ \A b \in Decisions \ {d} : log'[b] = log[b]
  BY InsertExtendsOne
<1>2. Covered(e) /\ Owes(c)
  BY DEF RecordInv
<1>3. AfterInsert(c)
  BY DEF AppendInsert
<1>4. \/ stage'[c] = "idle"
      \/ stage'[c] = "run" /\ op'[c] = op[c] /\ op[c].row.type = "EXECUTION_STARTED"
      \/ stage'[c] = "select"
  BY <1>1, <1>3, AfterInsertCall
\* only the client whose start this is goes to the router
<1>5. Running(e)' # {} => e = d /\ row.type = "EXECUTION_STARTED"
  <2>1. \A b \in Clients : b = c
    BY DEF OneClient
  <2>. QED
    BY <1>4, <2>1 DEF Running
<1>6. RunsOf(e)' = RunsOf(e)
  BY <1>1 DEF RunsOf
<1>7. Cardinality(RunsOf(e)) \in Nat
  BY CountsFinite
<1>8. CASE e # d
  <2>1. log'[e] = log[e]
    BY <1>1, <1>8
  <2>. QED
    BY <1>2, <1>5, <1>6, <1>8, <2>1 DEF Covered
<1>9. CASE e = d
  <2>1. row.type = "EXECUTION_STARTED" => \E r : IsLatest(l, r) /\ Starts(l, r) = {}
    BY <1>1, <1>2 DEF Owes, Owed
  <2>2. /\ row.type # "EXECUTION_STARTED" => Records(log'[d]) = Records(l)
        /\ row.type = "EXECUTION_STARTED" => Cardinality(Records(log'[d])) = Cardinality(Records(l)) + 1
    BY <1>1, <2>1, RecordsAfter
  <2>3. Cardinality(Records(l)) \in Nat
    BY <1>1, RecordsFinite
  <2>4. Cardinality(RunsOf(d)) <= Cardinality(Records(l))
    BY <1>2, <1>9 DEF Covered
  <2>5. /\ Cardinality(RunsOf(d)) <= Cardinality(Records(log'[d]))
        /\ row.type = "EXECUTION_STARTED" => Cardinality(RunsOf(d)) + 1 <= Cardinality(Records(log'[d]))
    BY <1>7, <1>9, <2>2, <2>3, <2>4
  <2>. QED
    BY <1>5, <1>6, <1>9, <2>5 DEF Covered
<1>. QED
  BY <1>8, <1>9

\* And what its client goes on to say.
LEMMA InsertKeepsCall ==
  ASSUME LogInv, RecordInv, NEW c \in Clients, AppendInsert(c)
  PROVE  Owes(c)' /\ Asks(c)'
<1> DEFINE d   == op[c].dec
           n   == op[c].seq
           row == op[c].row
           l   == log[d]
           l2  == Extended(l, n, row)
<1>1. /\ stage[c] = "insert" /\ runs' = runs
      /\ d \in Decisions /\ n \in Nat
      /\ DOMAIN l = 0 .. (n - 1)
      /\ log'[d] = l2
  BY InsertExtendsOne
<1>2. Owes(c) /\ Asks(c)
  BY DEF RecordInv
<1>3. AfterInsert(c)
  BY DEF AppendInsert
<1>4. \/ stage'[c] = "idle"
      \/ /\ stage'[c] = "run" /\ op'[c] = op[c]
         /\ op[c].next = {} /\ op[c].row.type = "EXECUTION_STARTED"
      \/ stage'[c] = "select" /\ op'[c].dec = op[c].dec /\ op'[c].row \in op[c].next /\ op'[c].next = {}
  BY <1>1, <1>3, AfterInsertCall
<1>5. stage'[c] = "select" =>
        \/ row.type = "EXECUTION_REQUESTED" /\ op'[c].row = Started(row.mode)
        \/ op'[c].row.type \notin ExecTypes
  BY <1>1, <1>2, <1>4 DEF Asks
<1>6. Started(row.mode).type = "EXECUTION_STARTED" /\ Started(row.mode).mode = row.mode
  BY DEF Started
<1>7. Asks(c)'
  BY <1>4, <1>5, <1>6 DEF Asks, ExecTypes
<1>8. Owes(c)'
  <2>1. CASE stage'[c] = "run"
    <3>1. PICK r : Owed(c, r)
      BY <1>1, <1>2, <1>4, <2>1 DEF Owes
    <3>2. r \in Requests(l) /\ IsLatest(l, r) /\ Outcomes(l, r) = {} /\ row.mode = l[r].mode
      BY <1>4, <2>1, <3>1 DEF Owed, IsLatest
    <3>3. /\ IsLatest(l2, r) /\ l2[r] = l[r]
          /\ Outcomes(l2, r) = {} /\ Starts(l2, r) = Starts(l, r) \cup {n}
      BY <1>1, <1>4, <2>1, <3>2, RecordAfterRow DEF OutcomeTypes
    <3> HIDE DEF l2
    <3>4. Owed(c, r)'
      BY <1>1, <1>4, <2>1, <3>2, <3>3 DEF Owed
    <3>. QED
      BY <3>4 DEF Owes
  <2>2. CASE stage'[c] = "select" /\ row.type = "EXECUTION_REQUESTED" /\ op'[c].row = Started(row.mode)
    <3>1. IsLatest(l2, n) /\ Outcomes(l2, n) = {} /\ Starts(l2, n) = {} /\ l2[n] = row
      BY <1>1, <2>2, RecordAfterRequest
    <3> HIDE DEF l2
    <3>2. ASSUME NEW r, r = n
          PROVE  Owed(c, r)'
      BY <1>1, <1>4, <1>6, <2>2, <3>1, <3>2 DEF Owed
    <3>. QED
      BY <3>2 DEF Owes
  <2>3. CASE stage'[c] = "idle" \/ (stage'[c] = "select" /\ op'[c].row.type \notin ExecTypes)
    BY <2>3 DEF Owes, ExecTypes
  <2>. QED
    BY <1>4, <1>5, <2>1, <2>2, <2>3
<1>. QED
  BY <1>7, <1>8

-----------------------------------------------------------------------------
\* A step that changes neither logs nor runs changes no record.
LEMMA RecordsStand ==
  ASSUME RecordInv, UNCHANGED <<log, runs>>,
         \A c \in Clients : Owes(c)' /\ Asks(c)',
         \A d \in Decisions : Running(d)' \subseteq Running(d)
  PROVE  RecordInv'
<1>1. ASSUME NEW d \in Decisions, NEW r \in Requests(log[d])
      PROVE  RecordTrue(d, r)'
  BY DEF RecordInv, RecordTrue, RunsOf
<1>2. ASSUME NEW d \in Decisions
      PROVE  Covered(d)'
  <2>1. Covered(d) /\ RunsOf(d)' = RunsOf(d) /\ log'[d] = log[d]
    BY DEF RecordInv, RunsOf
  <2>2. Running(d)' # {} => Running(d) # {}
    OBVIOUS
  <2>. QED
    BY <2>1, <2>2 DEF Covered
<1>. QED
  BY <1>1, <1>2 DEF RecordInv

\* The end of a run gives its client an outcome to record, and the run is the newest.
LEMMA ReturnKeepsRecords ==
  ASSUME OneClient, LogInv, RecordInv, NEW c \in Clients, RunEnds(c)
  PROVE  RecordInv'
<1> DEFINE k == Len(runs) + 1
           d == op[c].dec
<1>0. \A b \in Clients : b = c
  BY DEF OneClient
<1>1. /\ stage[c] = "run" /\ d \in Decisions /\ log' = log
      /\ DOMAIN runs' = DOMAIN runs \cup {k} /\ k \notin DOMAIN runs
      /\ \A i \in DOMAIN runs : runs'[i] = runs[i]
      /\ runs'[k] = [dec |-> d, mode |-> op[c].row.mode]
      /\ stage'[c] = "select"
      /\ op'[c].dec = d /\ op'[c].row \in {Completed(k), Failed} /\ op'[c].next = {}
  BY ReturnFacts
<1>2. /\ Completed(k).type = "EXECUTION_COMPLETED" /\ Completed(k).run = k
      /\ Failed.type = "EXECUTION_FAILED"
  BY DEF Completed, Failed
<1>3. op[c].row.type = "EXECUTION_STARTED"
  BY <1>1 DEF LogInv, RowMatchesStage
<1>4. PICK r : Owed(c, r)
  BY <1>1, <1>3 DEF RecordInv, Owes
<1>5. k <= k /\ \A i \in DOMAIN runs : i < k /\ i <= k
  <2>1. Len(runs) \in Nat /\ DOMAIN runs = 1 .. Len(runs)
    BY LenProperties DEF LogInv, TypeOK
  <2>. QED
    BY <2>1
<1> HIDE DEF k
<1>6. /\ \A e \in Decisions \ {d} : RunsOf(e)' = RunsOf(e)
      /\ \A e : e = d => RunsOf(e)' = RunsOf(e) \cup {k} /\ k \notin RunsOf(e)
  BY <1>1 DEF RunsOf
<1>7. ASSUME NEW e \in Decisions, NEW q \in Requests(log'[e])
      PROVE  RecordTrue(e, q)'
  <2>1. RecordTrue(e, q)
    BY <1>1 DEF RecordInv
  <2>2. CASE e # d
    BY <1>1, <1>6, <2>1, <2>2 DEF RecordTrue
  <2>3. CASE e = d
    <3>1. IsLatest(log[e], q) => ~ HasRun(log[e], q)
      <4>1. PICK n \in Nat : DOMAIN log[e] = 0 .. (n - 1)
        BY ToolsAssumption DEF LogInv, SeqContiguous
      <4>. QED
        BY <1>4, <2>3, <4>1, LatestIsOne DEF Owed, HasRun
    <3>. QED
      BY <1>1, <2>1, <3>1 DEF RecordTrue
  <2>. QED
    BY <2>2, <2>3
<1>8. Owed(c, r)'
  <2>1. /\ IsLatest(log[d], r) /\ Outcomes(log[d], r) = {} /\ Starts(log[d], r) # {}
        /\ op[c].row.mode = log[d][r].mode
    BY <1>1, <1>3, <1>4 DEF Owed
  <2>2. \A q \in Requests(log[d]) : HasRun(log[d], q) => RunOf(log[d], q) < k
    <3>1. \A q \in Requests(log[d]) : HasRun(log[d], q) => RunOf(log[d], q) \in DOMAIN runs
      BY <1>1 DEF RecordInv, RecordTrue
    <3>. QED
      BY <1>5, <3>1
  <2>3. CASE op'[c].row = Completed(k)
    <3>1. op'[c].row.type = "EXECUTION_COMPLETED" /\ op'[c].row.run = k
      BY <1>2, <2>3
    <3>2. runs'[k] = [dec |-> op'[c].dec, mode |-> log[d][r].mode] /\ k \in DOMAIN runs'
      BY <1>1, <2>1
    <3>3. \A i \in RunsOf(op[c].dec)' : i <= k
      <4>1. \A i \in DOMAIN runs' : i <= k
        BY <1>1, <1>5
      <4>. QED
        BY <4>1 DEF RunsOf
    <3>. QED
      BY <1>1, <2>1, <2>2, <3>1, <3>2, <3>3 DEF Owed
  <2>4. CASE op'[c].row = Failed
    BY <1>1, <1>2, <2>1, <2>4 DEF Owed
  <2>. QED
    BY <1>1, <2>3, <2>4
<1>9. Owes(c)' /\ Asks(c)'
  BY <1>1, <1>2, <1>8 DEF Owes, Asks
<1>10. \A e \in Decisions : Running(e)' = {}
  BY <1>0, <1>1 DEF Running
<1>11. ASSUME NEW e \in Decisions
       PROVE  Covered(e)'
  <2>1. Covered(e) /\ IsFiniteSet(RunsOf(e)) /\ Cardinality(RunsOf(e)) \in Nat
    BY CountsFinite DEF RecordInv
  <2>2. CASE e # d
    BY <1>1, <1>6, <1>10, <2>1, <2>2 DEF Covered
  <2>3. CASE e = d
    <3>1. Running(e) # {}
      BY <1>1, <2>3 DEF Running
    <3>2. Cardinality(RunsOf(e)) + 1 <= Cardinality(Records(log[e]))
      BY <2>1, <3>1 DEF Covered
    <3>3. Cardinality(RunsOf(e) \cup {k}) = Cardinality(RunsOf(e)) + 1
      BY <1>6, <2>1, <2>3, FS_AddElement
    <3>4. Cardinality(RunsOf(e)') <= Cardinality(Records(log'[e]))
      BY <1>1, <1>6, <2>3, <3>2, <3>3
    <3>. QED
      BY <1>10, <3>4 DEF Covered
  <2>. QED
    BY <2>2, <2>3
<1>. QED
  BY <1>0, <1>7, <1>9, <1>11 DEF RecordInv

LEMMA RecordStep ==
  ASSUME OneClient, LogInv, RecordInv, [Next]_vars
  PROVE  RecordInv'
<1>1. TypeOK
  BY DEF LogInv
<1>2. ASSUME UNCHANGED <<log, stage, op, runs>>
      PROVE  RecordInv'
  <2>1. \A c \in Clients : Owes(c)' /\ Asks(c)'
    BY <1>2 DEF RecordInv, Owes, Owed, Asks, RunsOf
  <2>2. \A d \in Decisions : Running(d)' \subseteq Running(d)
    BY <1>2 DEF Running
  <2>. QED
    BY <1>2, <2>1, <2>2, RecordsStand
<1>3. ASSUME NEW c \in Clients, Step(c)
      PROVE  RecordInv'
  <2>1. \A b \in Clients : b = c
    BY DEF OneClient
  <2>2. Owes(c) /\ Asks(c)
    BY DEF RecordInv
  <2>3. ASSUME UNCHANGED <<log, runs>>, Owes(c)', Asks(c)', stage'[c] # "run"
        PROVE  RecordInv'
    <3>1. \A d \in Decisions : Running(d)' = {}
      BY <2>1, <2>3 DEF Running
    <3>. QED
      BY <2>1, <2>3, <3>1, RecordsStand
  <2>4. CASE Enters(c)
    <3>1. Owes(c)' /\ Asks(c)'
      BY <2>4 DEF Enters, Owes, Asks, ExecTypes, OutcomeTypes
    <3>. QED
      BY <2>3, <2>4, <3>1 DEF Enters
  <2>5. CASE Validates(c)
    <3>1. Owes(c)' /\ Asks(c)'
      BY <2>5 DEF Validates, Owes, Asks, OutcomeTypes
    <3>. QED
      BY <2>3, <2>5, <3>1 DEF Validates
  <2>6. CASE Selects(c)
    <3>1. /\ stage[c] = "select" /\ stage'[c] = "insert" /\ UNCHANGED <<log, runs>>
          /\ op'[c].dec = op[c].dec /\ op'[c].row = op[c].row /\ op'[c].next = op[c].next
      BY <2>6 DEF Selects
    <3>2. Asks(c)'
      BY <2>2, <3>1 DEF Asks
    <3>3. \A r : Owed(c, r) => Owed(c, r)'
      BY <3>1 DEF Owed, RunsOf
    <3>4. Owes(c)'
      BY <2>2, <3>1, <3>3 DEF Owes
    <3>. QED
      BY <2>3, <3>1, <3>2, <3>4
  <2>7. CASE Fails(c)
    <3>1. /\ UNCHANGED <<log, runs>> /\ stage'[c] = "select" /\ stage[c] # "idle"
          /\ op'[c].dec = op[c].dec /\ op'[c].row = Failed /\ op'[c].next = {}
      BY <2>7 DEF Fails
    <3>2. Failed.type = "EXECUTION_FAILED"
      BY DEF Failed
    <3>3. op[c].row.type \in {"EXECUTION_STARTED", "EXECUTION_COMPLETED"}
      BY <2>7 DEF Fails, LogInv, RowMatchesStage
    <3>4. PICK r : Owed(c, r)
      BY <2>2, <3>1, <3>3 DEF Owes, OutcomeTypes
    <3>5. Owed(c, r)'
      BY <2>7, <3>1, <3>2, <3>4 DEF Fails, Owed
    <3>6. Owes(c)' /\ Asks(c)'
      BY <3>1, <3>2, <3>5 DEF Owes, Asks
    <3>. QED
      BY <2>3, <3>1, <3>6
  <2>8. CASE Leaves(c)
    <3>1. Owes(c)' /\ Asks(c)'
      BY <2>8 DEF Leaves, Owes, Asks
    <3>. QED
      BY <2>3, <2>8, <3>1 DEF Leaves
  <2>9. CASE AppendInsert(c)
    <3>1. Owes(c)' /\ Asks(c)'
      BY <2>9, InsertKeepsCall
    <3>2. \A d \in Decisions : Covered(d)'
      BY <2>9, InsertKeepsCount
    <3>3. ASSUME NEW d \in Decisions, NEW r \in Requests(log'[d])
          PROVE  RecordTrue(d, r)'
      <4>1. CASE d = op[c].dec
        BY <2>9, <4>1, InsertKeepsRecords
      <4>2. CASE d # op[c].dec
        <5>1. log'[d] = log[d] /\ runs' = runs
          BY <2>9, <4>2, InsertExtendsOne
        <5>. QED
          BY <5>1 DEF RecordInv, RecordTrue, RunsOf
      <4>. QED
        BY <4>1, <4>2
    <3>. QED
      BY <2>1, <3>1, <3>2, <3>3 DEF RecordInv
  <2>10. CASE RunEnds(c)
    BY <2>10, ReturnKeepsRecords
  <2>. QED
    BY <1>3, <2>4, <2>5, <2>6, <2>7, <2>8, <2>9, <2>10, StepShapes
<1>. QED
  BY <1>2, <1>3 DEF Next, Tick, store, locals, vars

LEMMA RecordInvariant ==
  ASSUME OneClient
  PROVE  Spec => []RecordInv
<1>1. Init => RecordInv
  <2> SUFFICES ASSUME Init PROVE RecordInv
    OBVIOUS
  <2>1. \A d \in Decisions : Requests(log[d]) = {} /\ RunsOf(d) = {} /\ Records(log[d]) = {}
    BY DEF Init, Requests, Rows, EmptyLog, RunsOf, Records
  <2>2. \A c \in Clients : stage[c] = "idle"
    BY DEF Init
  <2>3. Cardinality({}) = 0
    BY FS_EmptySet
  <2>4. \A d \in Decisions : Covered(d)
    <3>1. \A d \in Decisions : Running(d) = {}
      BY <2>2 DEF Running
    <3>. QED
      BY <2>1, <2>3, <3>1 DEF Covered
  <2>5. \A c \in Clients : Owes(c) /\ Asks(c)
    BY <2>2 DEF Owes, Asks
  <2>. QED
    BY <2>1, <2>4, <2>5 DEF RecordInv
<1>2. LogInv /\ RecordInv /\ [Next]_vars => RecordInv'
  BY RecordStep
<1>. QED
  BY <1>1, <1>2, LogInvariant, PTL DEF Spec

(***************************************************************************)
(* With one client at a time, an execution record tells the truth about    *)
(* the run it names: it was made for this decision in the mode the record  *)
(* was requested and digested in, and later records name later runs; and   *)
(* no run is without a record that was begun for it, however often that    *)
(* client dies or the database fails.  A FAILED record may hide one.       *)
(***************************************************************************)
THEOREM RecordsTheorem ==
  ASSUME OneClient
  PROVE  Spec => []RecordsTruthful
<1>1. RecordInv => RecordsTruthful
  BY DEF RecordInv, RecordTrue, Covered, RunsOf, RecordsTruthful
<1>. QED
  BY <1>1, RecordInvariant, PTL
=============================================================================
