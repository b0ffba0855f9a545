------------------------- MODULE DecisionImport_proofs -------------------------
(***************************************************************************)
(* What module DecisionImport guarantees for any bundles, importers and    *)
(* clients beside them.                                                    *)
(***************************************************************************)
EXTENDS DecisionImport, DecisionTools_proofs

-----------------------------------------------------------------------------
(***************************************************************************)
(* The inductive invariant.  That only the rows of decisions that are      *)
(* there exist rests on the foreign key alone.  That an import costs no    *)
(* row unasked rests on its locals: a decision that the import had found   *)
(* before its write is one that it was told to overwrite.                  *)
(***************************************************************************)
Fields == {"dec", "rows", "overwrite", "replay", "existed"}

AskedOf(i) ==
  phase[i] # "idle" =>
    /\ DOMAIN imp[i] = Fields
    /\ phase[i] = "write" /\ imp[i].existed => imp[i].overwrite

Asked == \A i \in Importers : AskedOf(i)

ImportInv ==
  /\ DOMAIN log = Decisions
  /\ DOMAIN phase = Importers
  /\ DOMAIN imp = Importers
  /\ NoOrphans
  /\ Asked

LEMMA ImportInvInit == ImportInit => ImportInv
BY DEF ImportInit, Init, ImportInv, NoOrphans, Asked, AskedOf, EmptyLog

-----------------------------------------------------------------------------
(***************************************************************************)
(* What each kind of step does to the decisions and their rows.            *)
(***************************************************************************)

\* A step that takes no decision away and gives rows only to one that is there.
Adds ==
  /\ DOMAIN log' = Decisions
  /\ decisions \subseteq decisions'
  /\ \A d \in Decisions : log'[d] = log[d] \/ d \in decisions'
  /\ \A d \in Decisions : \A s \in DOMAIN log[d] : s \in DOMAIN log'[d] /\ log'[d][s] = log[d][s]

LEMMA UntouchedAdds ==
  ASSUME DOMAIN log = Decisions, UNCHANGED store
  PROVE  Adds
BY DEF Adds, store

\* The tools: an INSERT is refused when the decision is missing or the number is taken.
LEMMA ToolsAdd ==
  ASSUME DOMAIN log = Decisions, Next
  PROVE  Adds
<1>1. CASE Tick
  BY <1>1, UntouchedAdds DEF Tick
<1>2. ASSUME NEW c \in Clients, AppendInsert(c)
      PROVE  Adds
  <2> DEFINE e == op[c].dec
             n == op[c].seq
  <2>1. /\ e \in decisions /\ n \notin DOMAIN log[e]
        /\ log' = [log EXCEPT ![e] = Inserted(log[e], n, op[c].row)]
        /\ decisions' = decisions
    BY <1>2 DEF AppendInsert, Accepted, Referenced, Free
  <2> HIDE DEF e, n
  <2>2. \A d \in Decisions : d # e => log'[d] = log[d]
    BY <2>1
  <2>3. ASSUME e \in Decisions
        PROVE  \A s \in DOMAIN log[e] : s \in DOMAIN log'[e] /\ log'[e][s] = log[e][s]
    BY <2>1, <2>3 DEF Inserted
  <2>. QED
    BY <2>1, <2>2, <2>3 DEF Adds
<1>3. ASSUME NEW c \in Clients, Step(c), ~ AppendInsert(c)
      PROVE  Adds
  <2>1. log' = log /\ decisions \subseteq decisions'
    BY <1>3 DEF Step, Request, Approve, Revoke, ExecuteLoad, ExecuteValidate, ExecuteRefused,
                AppendSelect, AppendConflict, AppendFails, AppendRaises, RouterReturns,
                RouterUnreadable, RouterRaises, Crash, store
  <2>. QED
    BY <2>1 DEF Adds
<1>. QED
  BY <1>1, <1>2, <1>3 DEF Next

\* An import that did not delete the rows of its decision leaves them as they were.
LEMMA WriteFacts ==
  ASSUME ImportInv, NEW i \in Importers, WriteImport(i)
  PROVE  /\ DOMAIN log' = Decisions
         /\ decisions' = decisions \cup {imp[i].dec}
         /\ \A d \in Decisions : d # imp[i].dec => log'[d] = log[d]
         /\ ~ imp[i].existed /\ imp[i].dec \in Decisions =>
              \A s \in DOMAIN log[imp[i].dec] :
                s \in DOMAIN log'[imp[i].dec] /\ log'[imp[i].dec][s] = log[imp[i].dec][s]
<1> DEFINE e    == imp[i].dec
           both == Written(i)
<1>1. /\ DOMAIN Remaining(i) \cap DOMAIN imp[i].rows = {}
      /\ decisions' = decisions \cup {e}
      /\ log' = [log EXCEPT ![e] = both]
  BY DEF WriteImport, Insertable
<1>2. DOMAIN log = Decisions
  BY DEF ImportInv
<1>3. \A s \in DOMAIN Remaining(i) : s \in DOMAIN both /\ both[s] = Remaining(i)[s]
  BY <1>1 DEF Written
<1>4. ~ imp[i].existed => Remaining(i) = log[e]
  BY DEF Remaining
<1> HIDE DEF e, both
<1>5. /\ DOMAIN log' = Decisions
      /\ \A d \in Decisions : d # e => log'[d] = log[d]
      /\ e \in Decisions => log'[e] = both
  BY <1>1, <1>2
<1>6. ASSUME ~ imp[i].existed, e \in Decisions
      PROVE  \A s \in DOMAIN log[e] : s \in DOMAIN log'[e] /\ log'[e][s] = log[e][s]
  BY <1>3, <1>4, <1>5, <1>6
<1>. QED
  BY <1>1, <1>5, <1>6 DEF e

\* Every step but the write and the deletion of an import adds.
LEMMA OthersAdd ==
  ASSUME ImportInv, [ImportNext]_allVars,
         \A i \in Importers : ~ WriteImport(i) /\ ~ DeleteImport(i)
  PROVE  Adds
<1>1. DOMAIN log = Decisions
  BY DEF ImportInv
<1>2. CASE ToolStep
  BY <1>1, <1>2, ToolsAdd DEF ToolStep
<1>3. ASSUME NEW c \in Clients, AppendMissing(c)
      PROVE  Adds
  BY <1>1, <1>3, UntouchedAdds DEF AppendMissing, AppendRaises
<1>4. ASSUME NEW i \in Importers, ImportStep(i)
      PROVE  UNCHANGED store
  BY <1>4 DEF ImportStep, StartImport, CheckExists, WriteRaises, ReplayImport, ReplayRaises, CrashImport, vars, store
<1>5. CASE UNCHANGED allVars
  BY <1>1, <1>5, UntouchedAdds DEF allVars, vars, store
<1>. QED
  BY <1>1, <1>2, <1>3, <1>4, <1>5, UntouchedAdds DEF ImportNext

-----------------------------------------------------------------------------
(***************************************************************************)
(* The invariant is kept.                                                  *)
(***************************************************************************)
LEMMA NoOrphansKept ==
  ASSUME ImportInv, [ImportNext]_allVars
  PROVE  DOMAIN log' = Decisions /\ NoOrphans'
<1>1. CASE \A i \in Importers : ~ WriteImport(i) /\ ~ DeleteImport(i)
  BY <1>1, OthersAdd DEF Adds, ImportInv, NoOrphans
<1>2. ASSUME NEW i \in Importers, WriteImport(i)
      PROVE  DOMAIN log' = Decisions /\ NoOrphans'
  BY <1>2, WriteFacts DEF ImportInv, NoOrphans
<1>3. ASSUME NEW i \in Importers, DeleteImport(i)
      PROVE  DOMAIN log' = Decisions /\ NoOrphans'
  <2>1. /\ decisions' = decisions \ {imp[i].dec}
        /\ log' = [log EXCEPT ![imp[i].dec] = EmptyLog]
    BY <1>3 DEF DeleteImport
  <2>2. DOMAIN EmptyLog = {}
    BY DEF EmptyLog
  <2>. QED
    BY <2>1, <2>2 DEF ImportInv, NoOrphans
<1>. QED
  BY <1>1, <1>2, <1>3

\* A step of an import leaves the others alone and keeps its own locals in order.
LEMMA StepAsked ==
  ASSUME ImportInv, NEW i \in Importers, ImportStep(i)
  PROVE  /\ DOMAIN phase' = Importers /\ DOMAIN imp' = Importers
         /\ \A j \in Importers \ {i} : phase'[j] = phase[j] /\ imp'[j] = imp[j]
         /\ AskedOf(i)'
<1>1. DOMAIN phase = Importers /\ DOMAIN imp = Importers /\ AskedOf(i)
  BY DEF ImportInv, Asked
<1> DEFINE Kept ==
      /\ DOMAIN phase' = Importers /\ DOMAIN imp' = Importers
      /\ \A j \in Importers \ {i} : phase'[j] = phase[j] /\ imp'[j] = imp[j]
<1>2. ASSUME NEW b, NEW mode, NEW verify, NEW replay, StartImport(i, b, mode, verify, replay)
      PROVE  Kept /\ AskedOf(i)'
  <2>1. PICK target : /\ phase' = [phase EXCEPT ![i] = "check"]
                      /\ imp' = [imp EXCEPT ![i] =
                           [dec |-> target, rows |-> b.rows, overwrite |-> mode = "overwrite",
                            replay |-> replay, existed |-> FALSE]]
    BY <1>2 DEF StartImport, Goto
  <2>. QED
    BY <1>1, <2>1 DEF AskedOf, Fields
<1>3. CASE Done(i)
  BY <1>1, <1>3 DEF Done, Goto, AskedOf
<1>4. CASE CheckExists(i) /\ ~ Done(i)
  <2>1. /\ phase[i] = "check"
        /\ imp[i].dec \in decisions => imp[i].overwrite
        /\ phase' = [phase EXCEPT ![i] = "write"]
        /\ imp' = [imp EXCEPT ![i].existed = imp[i].dec \in decisions]
    BY <1>4 DEF CheckExists, Goto
  <2>2. Kept /\ imp'[i] = [imp[i] EXCEPT !.existed = imp[i].dec \in decisions]
    BY <1>1, <2>1
  <2>3. DOMAIN imp[i] = Fields
    BY <1>1, <2>1 DEF AskedOf
  <2>4. /\ DOMAIN imp'[i] = Fields
        /\ imp'[i].existed = (imp[i].dec \in decisions)
        /\ imp'[i].overwrite = imp[i].overwrite
    BY <2>2, <2>3 DEF Fields
  <2>. QED
    BY <2>1, <2>2, <2>4 DEF AskedOf
<1>5. CASE WriteImport(i) /\ ~ Done(i)
  <2>1. /\ phase[i] = "write"
        /\ phase' = [phase EXCEPT ![i] = "replay"]
        /\ imp' = [imp EXCEPT ![i].rows = EmptyLog]
    BY <1>5 DEF WriteImport, Goto
  <2>2. Kept /\ imp'[i] = [imp[i] EXCEPT !.rows = EmptyLog] /\ phase'[i] = "replay"
    BY <1>1, <2>1
  <2>3. DOMAIN imp[i] = Fields
    BY <1>1, <2>1 DEF AskedOf
  <2>. QED
    BY <2>2, <2>3 DEF AskedOf
<1>6. CASE (ReplayImport(i) \/ ReplayRaises(i)) /\ ~ Done(i)
  <2>1. phase[i] = "replay" /\ phase' = [phase EXCEPT ![i] = "delete"] /\ imp' = imp
    BY <1>6 DEF ReplayImport, ReplayRaises, Goto
  <2>. QED
    BY <1>1, <2>1 DEF AskedOf
<1>. QED
  BY <1>2, <1>3, <1>4, <1>5, <1>6 DEF ImportStep, WriteRaises, DeleteImport, CrashImport

LEMMA AskedKept ==
  ASSUME ImportInv, [ImportNext]_allVars
  PROVE  DOMAIN phase' = Importers /\ DOMAIN imp' = Importers /\ Asked'
<1>1. DOMAIN phase = Importers /\ DOMAIN imp = Importers /\ Asked
  BY DEF ImportInv
<1>2. CASE UNCHANGED importVars
  BY <1>1, <1>2 DEF importVars, Asked, AskedOf
<1>3. ASSUME NEW i \in Importers, ImportStep(i)
      PROVE  DOMAIN phase' = Importers /\ DOMAIN imp' = Importers /\ Asked'
  BY <1>1, <1>3, StepAsked DEF Asked, AskedOf
<1>. QED
  BY <1>2, <1>3 DEF ImportNext, ToolStep, AppendMissing, allVars

LEMMA ImportInvariant == ImportSpec => []ImportInv
<1>1. ImportInv /\ [ImportNext]_allVars => ImportInv'
  BY NoOrphansKept, AskedKept DEF ImportInv
<1>. QED
  BY <1>1, ImportInvInit, PTL DEF ImportSpec

-----------------------------------------------------------------------------
(***************************************************************************)
(* No row without its decision: an append in progress while an import is   *)
(* rolled back leaves nothing behind, whatever imports and tools race.     *)
(***************************************************************************)
THEOREM NoOrphansTheorem == ImportSpec => []NoOrphans
<1>1. ImportInv => NoOrphans
  BY DEF ImportInv
<1>. QED
  BY <1>1, ImportInvariant, PTL

(***************************************************************************)
(* Only an import that was asked to overwrite a decision, or the rollback  *)
(* of one that wrote it, ever costs it a row.                              *)
(***************************************************************************)
THEOREM UnaskedTheorem == ImportSpec => UnaskedKept
<1> DEFINE Kept ==
      \A d \in Decisions : \A s \in DOMAIN log[d] :
         \/ s \in DOMAIN log'[d] /\ log'[d][s] = log[d][s]
         \/ \E i \in Importers :
              /\ phase[i] = "delete" \/ (phase[i] = "write" /\ imp[i].overwrite)
              /\ phase'[i] # phase[i]
              /\ imp[i].dec = d
<1>1. ASSUME ImportInv, [ImportNext]_allVars
      PROVE  Kept
  <2>1. CASE \A i \in Importers : ~ WriteImport(i) /\ ~ DeleteImport(i)
    BY <1>1, <2>1, OthersAdd DEF Adds
  <2>2. ASSUME NEW i \in Importers, WriteImport(i)
        PROVE  Kept
    <3>1. phase[i] = "write" /\ phase'[i] # phase[i]
      BY <1>1, <2>2 DEF WriteImport, Done, Goto, ImportInv
    <3>2. CASE imp[i].existed
      BY <1>1, <2>2, <3>1, <3>2, WriteFacts DEF ImportInv, Asked, AskedOf
    <3>3. CASE ~ imp[i].existed
      BY <1>1, <2>2, <3>1, <3>3, WriteFacts
    <3>. QED
      BY <3>2, <3>3
  <2>3. ASSUME NEW i \in Importers, DeleteImport(i)
        PROVE  Kept
    <3>1. phase[i] = "delete" /\ phase'[i] # phase[i]
      BY <1>1, <2>3 DEF DeleteImport, Done, Goto, ImportInv
    <3>. QED
      BY <1>1, <2>3, <3>1 DEF DeleteImport, ImportInv
  <2>. QED
    BY <2>1, <2>2, <2>3
<1>2. ImportInv /\ [ImportNext]_allVars => [Kept]_allVars
  BY <1>1
<1> HIDE DEF Kept
<1>3. ImportSpec => [][Kept]_allVars
  BY <1>2, ImportInvariant, PTL DEF ImportSpec
<1>. QED
  BY <1>3 DEF UnaskedKept, Kept

-----------------------------------------------------------------------------
(***************************************************************************)
(* Types.  The log of a decision under import may have any rows below      *)
(* MaxRows, so what SELECT MAX(seq) finds rests on that bound, not on the  *)
(* absence of gaps; that a bundle's rows have none is part of the type.    *)
(***************************************************************************)
Bounded ==
  /\ \A d \in Decisions : DOMAIN log[d] \subseteq 0 .. (MaxRows - 1)
  /\ \A c \in Clients : stage[c] = "insert" => op[c].seq \in 0 .. (MaxRows - 1)

\* The locals of an import under way, with rows of the known kinds.
ImportTyped(i) ==
  IF phase[i] = "idle" THEN imp[i] = NoImport
  ELSE /\ imp[i].dec \in Decisions
       /\ FromZero(imp[i].rows)
       /\ imp[i].overwrite \in BOOLEAN /\ imp[i].replay \in BOOLEAN
       /\ imp[i].existed => imp[i].overwrite
       /\ \A s \in DOMAIN imp[i].rows : imp[i].rows[s] \in Event

TypesInv ==
  /\ TypeOK /\ RowMatchesStage /\ Bounded
  /\ drawn \in SUBSET Decisions
  /\ phase \in [Importers -> Phases]
  /\ \A i \in Importers : ImportTyped(i)
  /\ unchecked \in SUBSET Decisions

LEMMA EmptyFromZero == FromZero(EmptyLog) /\ DOMAIN EmptyLog = {}
<1>1. 0 \in 0 .. MaxRows /\ 0 .. (0 - 1) = {} /\ DOMAIN EmptyLog = {}
  BY ToolsAssumption DEF EmptyLog
<1>. QED
  BY <1>1 DEF FromZero

LEMMA FromZeroBounded ==
  ASSUME NEW l, FromZero(l)
  PROVE  DOMAIN l \subseteq 0 .. (MaxRows - 1)
<1>1. PICK n \in 0 .. MaxRows : DOMAIN l = 0 .. (n - 1)
  BY DEF FromZero
<1>. QED
  BY <1>1, ToolsAssumption

LEMMA TypesInvInit == ImportInit => TypesInv
<1>. SUFFICES ASSUME ImportInit PROVE TypesInv
  OBVIOUS
<1>1. TypeOK /\ RowMatchesStage
  BY LogInvInit DEF ImportInit, LogInv
<1>2. Bounded
  BY DEF ImportInit, Init, Bounded, EmptyLog
<1>. QED
  BY <1>1, <1>2, BundlesAssumption DEF ImportInit, TypesInv, ImportTyped, Phases

\* What the SELECT of append_event returns is a number, whatever rows were imported.
LEMMA SelectedIsNumber ==
  ASSUME TypeOK, Bounded, NEW c \in Clients, AppendSelect(c)
  PROVE  /\ op[c].dec \in Decisions
         /\ NextSeq(log[op[c].dec]) \in 0 .. (MaxRows - 1)
<1>1. /\ op[c].dec \in Decisions
      /\ NextSeq(log[op[c].dec]) < MaxRows
  BY DEF TypeOK, AppendSelect, Op
<1> DEFINE S == DOMAIN log[op[c].dec]
<1>2. S \subseteq 0 .. (MaxRows - 1) /\ MaxRows \in Nat
  BY <1>1, ToolsAssumption DEF Bounded
<1>3. S # {} => Last(S) \in S
  BY <1>2, LastIsLast
<1>4. S # {} => Last(S) \in Nat
  BY <1>2, <1>3
<1>5. NextSeq(log[op[c].dec]) = IF S = {} THEN 0 ELSE Last(S) + 1
  BY DEF NextSeq
<1> HIDE DEF S
<1>. QED
  BY <1>1, <1>2, <1>4, <1>5

LEMMA ToolsKeepTypes ==
  ASSUME TypeOK, RowMatchesStage, Bounded, NEW c \in Clients, Step(c)
  PROVE  TypeOK' /\ RowMatchesStage' /\ Bounded'
<1>1. TypeOK' /\ RowMatchesStage'
  BY SelectedIsNumber, StepKeepsTypes, ToolsAssumption
<1>2. CASE AppendSelect(c)
  <2>1. /\ log' = log
        /\ stage' = [stage EXCEPT ![c] = "insert"]
        /\ op' = [op EXCEPT ![c].seq = NextSeq(log[op[c].dec])]
    BY <1>2 DEF AppendSelect, store
  <2>2. op[c] \in Op
    BY <1>2 DEF AppendSelect, TypeOK
  <2>3. op'[c].seq \in 0 .. (MaxRows - 1)
    BY <1>2, <2>1, <2>2, SelectedIsNumber DEF TypeOK, Op
  <2>4. \A b \in Clients \ {c} : stage'[b] = stage[b] /\ op'[b] = op[b]
    BY <2>1 DEF TypeOK
  <2>. QED
    BY <1>1, <2>1, <2>3, <2>4 DEF Bounded
<1>3. CASE AppendInsert(c)
  <2> DEFINE d == op[c].dec
             n == op[c].seq
             new == Inserted(log[d], n, op[c].row)
  <2>1. /\ stage[c] = "insert" /\ AfterInsert(c)
        /\ log' = [log EXCEPT ![d] = new]
    BY <1>3 DEF AppendInsert
  <2>2. d \in Decisions /\ n \in 0 .. (MaxRows - 1)
    BY <2>1 DEF TypeOK, Bounded, Op
  <2>3. DOMAIN new \subseteq 0 .. (MaxRows - 1)
    BY <2>2 DEF Bounded, Inserted
  <2>4. \A b \in Clients : stage'[b] = "insert" => stage[b] = "insert" /\ op'[b] = op[b]
    BY <2>1, AfterInsertTypes
  <2> HIDE DEF d, new
  <2>5. \A e \in Decisions : log'[e] = IF e = d THEN new ELSE log[e]
    BY <2>1, <2>2 DEF TypeOK
  <2>. QED
    BY <1>1, <2>3, <2>4, <2>5 DEF Bounded
<1>4. CASE ~ AppendSelect(c) /\ ~ AppendInsert(c)
  BY <1>1, <1>4, NothingSelected DEF Bounded
<1>. QED
  BY <1>2, <1>3, <1>4

LEMMA MissingKeepsTypes ==
  ASSUME TypeOK, RowMatchesStage, Bounded, NEW c \in Clients, AppendMissing(c)
  PROVE  TypeOK' /\ RowMatchesStage' /\ Bounded'
<1>1. UNCHANGED <<store, now, runs>> /\ stage[c] = "select"
  BY DEF AppendMissing, AppendRaises
<1>2. CASE Emit(c, Failed, {})
  <2>1. TypeOK' /\ RowMatchesStage'
    BY <1>1, <1>2, RowTypes, EmitTypes, EmitKeepsStage DEF TypeOK, store
  <2>2. \A b \in Clients : stage'[b] = "insert" => stage[b] = "insert" /\ op'[b] = op[b]
    BY <1>2 DEF Emit, TypeOK
  <2>. QED
    BY <1>1, <2>1, <2>2 DEF Bounded, store
<1>3. CASE Return(c)
  <2>1. TypeOK' /\ RowMatchesStage'
    BY <1>1, <1>3, ReturnTypes, ReturnKeepsStage DEF TypeOK, store
  <2>2. \A b \in Clients : stage'[b] = "insert" => stage[b] = "insert" /\ op'[b] = op[b]
    BY <1>3 DEF Return, TypeOK
  <2>. QED
    BY <1>1, <2>1, <2>2 DEF Bounded, store
<1>. QED
  BY <1>2, <1>3 DEF AppendMissing, AppendRaises

\* An import that goes on keeps its own locals in order.
LEMMA OwnTypes ==
  ASSUME ImportInv, TypesInv, NEW i \in Importers, ImportStep(i)
  PROVE  phase'[i] \in Phases /\ ImportTyped(i)' /\ drawn' \in SUBSET Decisions
<1>1. /\ DOMAIN phase = Importers /\ DOMAIN imp = Importers /\ ImportTyped(i)
      /\ drawn \subseteq Decisions
  BY DEF ImportInv, TypesInv
<1>2. ASSUME NEW b \in Bundles, NEW mode, NEW verify, NEW replay \in BOOLEAN,
             StartImport(i, b, mode, verify, replay)
      PROVE  phase'[i] \in Phases /\ ImportTyped(i)' /\ drawn' \in SUBSET Decisions
  <2>1. PICK target \in Targets(b, mode) :
          /\ FromZero(b.rows)
          /\ phase' = [phase EXCEPT ![i] = "check"]
          /\ imp' = [imp EXCEPT ![i] =
               [dec |-> target, rows |-> b.rows, overwrite |-> mode = "overwrite",
                replay |-> replay, existed |-> FALSE]]
          /\ drawn' = drawn \cup {target}
    BY <1>2 DEF StartImport, Goto
  <2>2. target \in Decisions /\ \A s \in DOMAIN b.rows : b.rows[s] \in Event
    BY <2>1, BundlesAssumption DEF Targets
  <2>3. phase'[i] = "check"
    BY <1>1, <2>1
  <2>4. imp'[i] = [dec |-> target, rows |-> b.rows, overwrite |-> mode = "overwrite",
                   replay |-> replay, existed |-> FALSE]
    BY <1>1, <2>1
  <2>5. /\ imp'[i].dec = target /\ imp'[i].rows = b.rows /\ imp'[i].overwrite = (mode = "overwrite")
        /\ imp'[i].replay = replay
    BY <2>4
  <2>6. imp'[i].existed = FALSE
    BY <2>4
  <2>. QED
    BY <1>1, <2>1, <2>2, <2>3, <2>5, <2>6 DEF ImportTyped, Phases
<1>3. CASE Done(i) /\ UNCHANGED drawn
  BY <1>1, <1>3 DEF Done, Goto, ImportTyped, Phases
<1>4. CASE CheckExists(i) /\ ~ Done(i)
  <2>1. /\ phase[i] = "check"
        /\ imp[i].dec \in decisions => imp[i].overwrite
        /\ phase' = [phase EXCEPT ![i] = "write"]
        /\ imp' = [imp EXCEPT ![i].existed = imp[i].dec \in decisions]
        /\ drawn' = drawn
    BY <1>4 DEF CheckExists, Goto
  <2>2. phase'[i] = "write" /\ imp'[i] = [imp[i] EXCEPT !.existed = imp[i].dec \in decisions]
    BY <1>1, <2>1
  <2>3. DOMAIN imp[i] = Fields
    BY <2>1 DEF ImportInv, Asked, AskedOf
  <2>4. /\ imp'[i].dec = imp[i].dec /\ imp'[i].rows = imp[i].rows
        /\ imp'[i].overwrite = imp[i].overwrite /\ imp'[i].replay = imp[i].replay
    BY <2>2, <2>3 DEF Fields
  <2>5. imp'[i].existed = (imp[i].dec \in decisions)
    BY <2>2, <2>3 DEF Fields
  <2>. QED
    BY <1>1, <2>1, <2>2, <2>4, <2>5 DEF ImportTyped, Phases
<1>5. CASE WriteImport(i) /\ ~ Done(i)
  <2>1. /\ phase[i] = "write"
        /\ phase' = [phase EXCEPT ![i] = "replay"]
        /\ imp' = [imp EXCEPT ![i].rows = EmptyLog]
        /\ drawn' = drawn
    BY <1>5 DEF WriteImport, Goto
  <2>2. phase'[i] = "replay" /\ imp'[i] = [imp[i] EXCEPT !.rows = EmptyLog]
    BY <1>1, <2>1
  <2>3. DOMAIN imp[i] = Fields
    BY <2>1 DEF ImportInv, Asked, AskedOf
  <2>4. /\ imp'[i].dec = imp[i].dec /\ imp'[i].rows = EmptyLog
        /\ imp'[i].overwrite = imp[i].overwrite /\ imp'[i].replay = imp[i].replay
        /\ imp'[i].existed = imp[i].existed
    BY <2>2, <2>3 DEF Fields
  <2>. QED
    BY <1>1, <2>1, <2>2, <2>4, EmptyFromZero DEF ImportTyped, Phases
<1>6. CASE (ReplayImport(i) \/ ReplayRaises(i)) /\ ~ Done(i)
  <2>1. phase[i] = "replay" /\ phase' = [phase EXCEPT ![i] = "delete"] /\ imp' = imp /\ drawn' = drawn
    BY <1>6 DEF ReplayImport, ReplayRaises, Goto
  <2>. QED
    BY <1>1, <2>1 DEF ImportTyped, Phases
<1>. QED
  BY <1>2, <1>3, <1>4, <1>5, <1>6
  DEF ImportStep, CheckExists, WriteImport, WriteRaises, ReplayImport, ReplayRaises, DeleteImport, CrashImport

\* What an import does to the database.
LEMMA ImportKeepsTypes ==
  ASSUME ImportInv, TypesInv, NEW i \in Importers, ImportStep(i)
  PROVE  TypeOK' /\ RowMatchesStage' /\ Bounded' /\ unchecked' \in SUBSET Decisions
<1>1. TypeOK /\ RowMatchesStage /\ Bounded /\ ImportTyped(i) /\ unchecked \subseteq Decisions
  BY DEF TypesInv
<1>2. UNCHANGED <<now, locals, runs>>
  BY DEF ImportStep, StartImport, CheckExists, WriteImport, WriteRaises, ReplayImport, ReplayRaises, DeleteImport,
         CrashImport, vars, locals
<1>3. RowMatchesStage'
  BY <1>1, <1>2 DEF RowMatchesStage, locals
<1>4. CASE WriteImport(i)
  <2> DEFINE e    == imp[i].dec
             both == Written(i)
  <2>1. /\ e \in Decisions /\ FromZero(imp[i].rows)
        /\ \A s \in DOMAIN imp[i].rows : imp[i].rows[s] \in Event
    BY <1>1, <1>4 DEF WriteImport, ImportTyped
  <2>2. /\ decisions' = decisions \cup {e}
        /\ log' = [log EXCEPT ![e] = both]
        /\ unchecked' \subseteq unchecked \cup {e}
    BY <1>4 DEF WriteImport
  <2>3. /\ DOMAIN Remaining(i) \subseteq 0 .. (MaxRows - 1)
        /\ \A s \in DOMAIN Remaining(i) : Remaining(i)[s] \in Event
    BY <1>1, <2>1, EmptyFromZero DEF Remaining, TypeOK, Bounded
  <2>4. DOMAIN imp[i].rows \subseteq 0 .. (MaxRows - 1)
    BY <2>1, FromZeroBounded
  <2>5. DOMAIN both \subseteq 0 .. (MaxRows - 1) /\ both \in [DOMAIN both -> Event]
    BY <2>1, <2>3, <2>4 DEF Written
  <2> HIDE DEF e, both
  <2>6. DOMAIN log' = Decisions /\ \A d \in Decisions : log'[d] = IF d = e THEN both ELSE log[d]
    BY <1>1, <2>1, <2>2 DEF TypeOK
  <2>7. \A d \in Decisions : /\ DOMAIN log'[d] \subseteq 0 .. (MaxRows - 1)
                             /\ log'[d] \in [DOMAIN log'[d] -> Event]
    BY <1>1, <2>5, <2>6 DEF TypeOK, Bounded
  <2>. QED
    BY <1>1, <1>2, <1>3, <2>1, <2>2, <2>6, <2>7 DEF TypeOK, Bounded, locals
<1>5. CASE DeleteImport(i)
  <2>1. /\ decisions' = decisions \ {imp[i].dec}
        /\ log' = [log EXCEPT ![imp[i].dec] = EmptyLog]
        /\ unchecked' \subseteq unchecked
    BY <1>5 DEF DeleteImport
  <2>2. /\ DOMAIN log' = Decisions
        /\ \A d \in Decisions : /\ DOMAIN log'[d] \subseteq 0 .. (MaxRows - 1)
                                /\ log'[d] \in [DOMAIN log'[d] -> Event]
    BY <1>1, <2>1, EmptyFromZero DEF TypeOK, Bounded
  <2>. QED
    BY <1>1, <1>2, <1>3, <2>1, <2>2 DEF TypeOK, Bounded, locals
<1>6. CASE ~ WriteImport(i) /\ ~ DeleteImport(i)
  <2>1. UNCHANGED vars
    BY <1>6 DEF ImportStep, StartImport, CheckExists, WriteRaises, ReplayImport, ReplayRaises, CrashImport
  <2>2. unchecked' \subseteq Decisions
    BY <1>1, <1>6 DEF ImportStep, StartImport, CheckExists, WriteRaises, ReplayImport, ReplayRaises, CrashImport,
                      ImportTyped
  <2>. QED
    BY <1>1, <1>3, <2>1, <2>2 DEF TypeOK, Bounded, vars
<1>. QED
  BY <1>4, <1>5, <1>6

LEMMA TypesKept ==
  ASSUME ImportInv, TypesInv, [ImportNext]_allVars
  PROVE  TypesInv'
<1>1. /\ TypeOK /\ RowMatchesStage /\ Bounded /\ drawn \subseteq Decisions
      /\ phase \in [Importers -> Phases] /\ unchecked \subseteq Decisions
      /\ \A i \in Importers : ImportTyped(i)
  BY DEF TypesInv
<1>2. CASE UNCHANGED importVars
  <2>1. phase' \in [Importers -> Phases] /\ unchecked' \subseteq Decisions
    BY <1>1, <1>2 DEF importVars
  <2>2. \A i \in Importers : ImportTyped(i)'
    BY <1>1, <1>2 DEF importVars, ImportTyped
  <2>3. CASE ToolStep
    <3>1. TypeOK' /\ RowMatchesStage' /\ Bounded'
      <4>1. CASE Tick
        BY <1>1, <4>1 DEF TypeOK, RowMatchesStage, Bounded, Tick, store, locals
      <4>. QED
        BY <1>1, <2>3, <4>1, ToolsKeepTypes DEF ToolStep, Next
    <3>2. drawn' \subseteq Decisions
      BY <1>1, <2>3, <3>1 DEF ToolStep, TypeOK
    <3>. QED
      BY <2>1, <2>2, <3>1, <3>2 DEF TypesInv
  <2>4. ASSUME NEW c \in Clients, AppendMissing(c)
        PROVE  TypesInv'
    BY <1>1, <2>1, <2>2, <2>4, MissingKeepsTypes DEF TypesInv, AppendMissing
  <2>5. CASE UNCHANGED allVars
    BY <1>1, <2>1, <2>2, <2>5 DEF TypesInv, TypeOK, RowMatchesStage, Bounded, allVars, vars
  <2>6. ASSUME NEW i \in Importers, ImportStep(i)
        PROVE  TypesInv'
    BY <2>1, <2>2, <2>6, ImportKeepsTypes, OwnTypes DEF TypesInv
  <2>. QED
    BY <2>3, <2>4, <2>5, <2>6 DEF ImportNext
<1>3. ASSUME NEW i \in Importers, ImportStep(i)
      PROVE  TypesInv'
  <2>1. /\ DOMAIN phase' = Importers
        /\ \A j \in Importers \ {i} : phase'[j] = phase[j] /\ imp'[j] = imp[j]
    BY <1>3, StepAsked
  <2>2. phase'[i] \in Phases /\ ImportTyped(i)' /\ drawn' \subseteq Decisions
    BY <1>3, OwnTypes
  <2>3. \A j \in Importers : ImportTyped(j)'
    BY <1>1, <2>1, <2>2 DEF ImportTyped
  <2>4. phase' \in [Importers -> Phases]
    <3>1. phase' = [j \in Importers |-> phase'[j]]
      BY <1>3 DEF ImportStep, StartImport, CheckExists, WriteImport, WriteRaises, ReplayImport, ReplayRaises,
                  DeleteImport, CrashImport, Done, Goto, TypesInv
    <3>. QED
      BY <1>1, <2>1, <2>2, <3>1
  <2>. QED
    BY <1>3, <2>2, <2>3, <2>4, ImportKeepsTypes DEF TypesInv
<1>. QED
  BY <1>2, <1>3 DEF ImportNext, ToolStep, AppendMissing, allVars

(***************************************************************************)
(* Every variable keeps its type whatever tools and imports do, and no     *)
(* import goes on with rows that have a gap.                               *)
(***************************************************************************)
THEOREM ImportTypesTheorem == ImportSpec => []ImportTypeOK
<1>1. ImportInv /\ TypesInv /\ [ImportNext]_allVars => TypesInv'
  BY TypesKept
<1>2. ImportInv /\ TypesInv => ImportTypeOK
  BY DEF ImportInv, TypesInv, ImportTyped, ImportTypeOK
<1>. QED
  BY <1>1, <1>2, TypesInvInit, ImportInvariant, PTL DEF ImportSpec

-----------------------------------------------------------------------------
(***************************************************************************)
(* Decisions that cannot be loaded.  The tools write no policy but those   *)
(* on offer; when these are valid (as the property says, "none is          *)
(* requested here"), a bad policy can only have come with an import.       *)
(***************************************************************************)
OfferedValid == \A p \in Offered : ValidPolicy(p)

Sound(row) == row.type = "POLICY_ATTACHED" => ValidPolicy(row.policy)

\* The rows a call has still to append are sound.
CallSound(c) ==
  stage[c] # "idle" =>
    /\ DOMAIN op[c] = {"dec", "row", "next", "seq"}
    /\ Sound(op[c].row)
    /\ \A row \in op[c].next : Sound(row)

CallsSound ==
  /\ DOMAIN stage = Clients /\ DOMAIN op = Clients
  /\ \A c \in Clients : CallSound(c)

\* An import writes to a decision that can be.
ImportsPlaced ==
  /\ decisions \subseteq Decisions
  /\ \A i \in Importers : phase[i] # "idle" => imp[i].dec \in Decisions

WatchInv == CallsSound /\ ImportsPlaced /\ BadImportsWatched

LEMMA WatchInvInit == ImportInit => WatchInv
BY DEF ImportInit, Init, WatchInv, CallsSound, CallSound, ImportsPlaced, BadImportsWatched

\* The rows other than policies are sound.
LEMMA SoundRows ==
  /\ \A m : Sound(Created(m)) /\ Sound(Started(m))
  /\ \A m, t : Sound(Requested(m, t))
  /\ \A a, e : Sound(Granted(a, e))
  /\ \A a : Sound(Revoked(a))
  /\ \A run : Sound(Completed(run))
  /\ Sound(Failed)
  /\ OfferedValid => \A p \in Offered : Sound(PolicyAttached(p))
BY DEF Sound, Created, Started, Requested, Granted, Revoked, Completed, Failed, PolicyAttached, OfferedValid

LEMMA EnterSound ==
  ASSUME CallsSound, NEW c \in Clients, NEW st, NEW d, NEW l, NEW row, NEW next,
         Enter(c, st, d, l, row, next), Sound(row), \A r \in next : Sound(r)
  PROVE  CallsSound'
BY DEF CallsSound, CallSound, Enter

LEMMA ReturnSound ==
  ASSUME CallsSound, NEW c \in Clients, Return(c)
  PROVE  CallsSound'
BY DEF CallsSound, CallSound, Return

LEMMA EmitSound ==
  ASSUME CallsSound, NEW c \in Clients, stage[c] # "idle", NEW row, Sound(row), Emit(c, row, {})
  PROVE  CallsSound'
<1>1. /\ DOMAIN stage' = Clients /\ DOMAIN op' = Clients
      /\ \A b \in Clients \ {c} : stage'[b] = stage[b] /\ op'[b] = op[b]
      /\ op'[c].row = row /\ op'[c].next = {} /\ DOMAIN op'[c] = DOMAIN op[c]
  BY DEF CallsSound, CallSound, Emit
<1>. QED
  BY <1>1 DEF CallsSound, CallSound

LEMMA ToolsSound ==
  ASSUME OfferedValid, CallsSound, NEW c \in Clients, Step(c)
  PROVE  CallsSound'
<1>1. ASSUME NEW d, NEW p \in Offered, NEW m, Request(c, d, p, m)
      PROVE  CallsSound'
  BY <1>1, SoundRows, EnterSound DEF Request
<1>2. ASSUME NEW d, NEW a, NEW e, Approve(c, d, a, e)
      PROVE  CallsSound'
  BY <1>2, SoundRows, EnterSound DEF Approve
<1>3. ASSUME NEW d, NEW a, Revoke(c, d, a)
      PROVE  CallsSound'
  BY <1>3, SoundRows, EnterSound DEF Revoke
<1>4. ASSUME NEW d, NEW m, ExecuteLoad(c, d, m)
      PROVE  CallsSound'
  BY <1>4, SoundRows, EnterSound DEF ExecuteLoad
<1>5. ASSUME NEW answer, ExecuteValidate(c, answer)
      PROVE  CallsSound'
  <2> DEFINE m == op[c].row.mode
  <2>1. /\ stage[c] = "validate" /\ stage' = [stage EXCEPT ![c] = "select"]
        /\ op' = [op EXCEPT ![c].row = Requested(m, now), ![c].next = {Started(m)}]
    BY <1>5 DEF ExecuteValidate
  <2>2. /\ DOMAIN stage' = Clients /\ DOMAIN op' = Clients
        /\ \A b \in Clients \ {c} : stage'[b] = stage[b] /\ op'[b] = op[b]
        /\ op'[c].row = Requested(m, now) /\ op'[c].next = {Started(m)}
        /\ DOMAIN op'[c] = {"dec", "row", "next", "seq"}
    BY <2>1 DEF CallsSound, CallSound
  <2>3. Sound(Requested(m, now)) /\ Sound(Started(m))
    BY SoundRows
  <2> HIDE DEF m
  <2>. QED
    BY <2>2, <2>3 DEF CallsSound, CallSound
<1>6. CASE AppendSelect(c)
  <2>1. /\ stage[c] = "select" /\ stage' = [stage EXCEPT ![c] = "insert"]
        /\ op' = [op EXCEPT ![c].seq = NextSeq(log[op[c].dec])]
    BY <1>6 DEF AppendSelect
  <2>2. /\ DOMAIN stage' = Clients /\ DOMAIN op' = Clients
        /\ \A b \in Clients \ {c} : stage'[b] = stage[b] /\ op'[b] = op[b]
        /\ op'[c].row = op[c].row /\ op'[c].next = op[c].next
        /\ DOMAIN op'[c] = {"dec", "row", "next", "seq"}
    BY <2>1 DEF CallsSound, CallSound
  <2>. QED
    BY <2>1, <2>2 DEF CallsSound, CallSound
<1>7. CASE AppendInsert(c)
  <2>1. stage[c] = "insert" /\ AfterInsert(c)
    BY <1>7 DEF AppendInsert
  <2>2. ASSUME NEW row \in op[c].next, Emit(c, row, {})
        PROVE  CallsSound'
    BY <2>1, <2>2, EmitSound DEF CallsSound, CallSound
  <2>3. CASE stage' = [stage EXCEPT ![c] = "run"] /\ UNCHANGED <<op, seen>>
    BY <2>1, <2>3 DEF CallsSound, CallSound
  <2>. QED
    BY <2>1, <2>2, <2>3, ReturnSound DEF AfterInsert
<1>8. CASE AppendConflict(c) \/ AppendFails(c)
  BY <1>8, SoundRows, EmitSound, ReturnSound DEF AppendConflict, AppendFails, AppendRaises
<1>9. CASE RouterReturns(c) \/ RouterUnreadable(c) \/ RouterRaises(c)
  BY <1>9, SoundRows, EmitSound DEF RouterReturns, RouterUnreadable, RouterRaises
<1>10. CASE Crash(c) \/ \E answer \in Answers : ExecuteRefused(c, answer)
  BY <1>10, ReturnSound DEF Crash, ExecuteRefused
<1>. QED
  BY <1>1, <1>2, <1>3, <1>4, <1>5, <1>6, <1>7, <1>8, <1>9, <1>10 DEF Step

LEMMA CallsSoundKept ==
  ASSUME OfferedValid, CallsSound, [ImportNext]_allVars
  PROVE  CallsSound'
<1>1. CASE UNCHANGED <<stage, op>>
  BY <1>1 DEF CallsSound, CallSound
<1>2. CASE Next
  BY <1>1, <1>2, ToolsSound DEF Next, Tick, locals
<1>3. ASSUME NEW c \in Clients, AppendMissing(c)
      PROVE  CallsSound'
  BY <1>3, SoundRows, EmitSound, ReturnSound DEF AppendMissing, AppendRaises
<1>4. ASSUME NEW i \in Importers, ImportStep(i)
      PROVE  UNCHANGED <<stage, op>>
  BY <1>4 DEF ImportStep, StartImport, CheckExists, WriteImport, WriteRaises, ReplayImport, ReplayRaises,
              DeleteImport, CrashImport, vars, locals
<1>. QED
  BY <1>1, <1>2, <1>3, <1>4 DEF ImportNext, ToolStep, allVars, vars, locals

-----------------------------------------------------------------------------
LEMMA PlacedKept ==
  ASSUME ImportInv, ImportsPlaced, [ImportNext]_allVars
  PROVE  ImportsPlaced'
<1>0. decisions' \subseteq Decisions
  <2>1. CASE UNCHANGED decisions
    BY <2>1 DEF ImportsPlaced
  <2>2. ASSUME NEW c \in Clients, Step(c)
        PROVE  decisions' \subseteq Decisions
    <3>1. CASE \E d \in Decisions, p \in Offered, m \in Modes : Request(c, d, p, m)
      BY <3>1 DEF ImportsPlaced, Request
    <3>2. CASE ~ \E d \in Decisions, p \in Offered, m \in Modes : Request(c, d, p, m)
      BY <2>1, <2>2, <3>2 DEF Step, Approve, Revoke, ExecuteLoad, ExecuteValidate, ExecuteRefused, AppendSelect,
                              AppendInsert, AppendConflict, AppendFails, AppendRaises, RouterReturns,
                              RouterUnreadable, RouterRaises, Crash, store
    <3>. QED
      BY <3>1, <3>2
  <2>3. ASSUME NEW c \in Clients, AppendMissing(c)
        PROVE  UNCHANGED decisions
    BY <2>3 DEF AppendMissing, AppendRaises, store
  <2>4. ASSUME NEW i \in Importers, ImportStep(i)
        PROVE  decisions' \subseteq Decisions
    BY <2>4 DEF ImportsPlaced, ImportStep, StartImport, CheckExists, WriteImport, WriteRaises,
                ReplayImport, ReplayRaises, DeleteImport, CrashImport, store, vars
  <2>5. Tick => UNCHANGED decisions
    BY DEF Tick, store
  <2>. QED
    BY <2>1, <2>2, <2>3, <2>4, <2>5 DEF ImportNext, ToolStep, Next, allVars, vars
<1>1. CASE UNCHANGED importVars
  BY <1>0, <1>1 DEF ImportsPlaced, importVars
<1>2. ASSUME NEW i \in Importers, ImportStep(i)
      PROVE  ImportsPlaced'
  <2>1. /\ \A j \in Importers \ {i} : phase'[j] = phase[j] /\ imp'[j] = imp[j]
        /\ DOMAIN phase = Importers /\ DOMAIN imp = Importers
    BY <1>2, StepAsked DEF ImportInv
  <2>2. decisions' \subseteq Decisions
    BY <1>0
  <2>3. CASE Done(i)
    BY <2>1, <2>2, <2>3 DEF Done, Goto, ImportsPlaced
  <2>4. ASSUME NEW b \in Bundles, NEW mode, NEW verify, NEW replay, StartImport(i, b, mode, verify, replay)
        PROVE  imp'[i].dec \in Decisions
    BY <2>1, <2>4, BundlesAssumption DEF StartImport, Targets
  <2>5. ASSUME ~ Done(i),
               ~ (\E b \in Bundles, mode \in ConflictModes, verify, replay \in BOOLEAN :
                    StartImport(i, b, mode, verify, replay))
        PROVE  imp'[i].dec \in Decisions
    <3>1. phase[i] # "idle"
      BY <1>2, <2>5 DEF ImportStep, CheckExists, WriteImport, WriteRaises, ReplayImport, ReplayRaises, DeleteImport,
                        CrashImport
    <3>2. \/ imp' = [imp EXCEPT ![i].existed = imp[i].dec \in decisions]
          \/ imp' = [imp EXCEPT ![i].rows = EmptyLog]
          \/ imp' = imp
      BY <1>2, <2>5 DEF ImportStep, CheckExists, WriteImport, WriteRaises, ReplayImport, ReplayRaises, DeleteImport,
                        CrashImport
    <3>3. DOMAIN imp[i] = Fields
      BY <3>1 DEF ImportInv, Asked, AskedOf
    <3>4. \/ imp'[i] = [imp[i] EXCEPT !.existed = imp[i].dec \in decisions]
          \/ imp'[i] = [imp[i] EXCEPT !.rows = EmptyLog]
          \/ imp'[i] = imp[i]
      BY <2>1, <3>2
    <3>5. imp'[i].dec = imp[i].dec
      BY <3>3, <3>4 DEF Fields
    <3>. QED
      BY <3>1, <3>5 DEF ImportsPlaced
  <2>6. imp'[i].dec \in Decisions \/ Done(i)
    BY <1>2, <2>4, <2>5 DEF ImportsPlaced, ImportStep
  <2>. QED
    BY <2>1, <2>2, <2>3, <2>6 DEF ImportsPlaced
<1>. QED
  BY <1>1, <1>2 DEF ImportNext, ToolStep, AppendMissing, allVars

\* An append of a sound row leaves a log that can be loaded as it is.
LEMMA LoadableKept ==
  ASSUME NEW l, Loadable(l), NEW seq, NEW row, Sound(row)
  PROVE  Loadable(Inserted(l, seq, row))
BY DEF Loadable, Rows, Inserted, Sound

\* A decision that was just requested has no rows, and the tools append sound ones.
LEMMA ToolsWatched ==
  ASSUME ImportInv, WatchInv, Next, UNCHANGED importVars
  PROVE  BadImportsWatched'
<1>. SUFFICES ASSUME NEW d \in decisions', d \notin unchecked,
                     ~ \E i \in Importers : phase[i] \in {"replay", "delete"} /\ imp[i].dec = d
              PROVE  Loadable(log'[d])
  BY DEF BadImportsWatched, importVars
<1>1. d \in decisions => Loadable(log[d]) /\ d \in Decisions
  BY DEF WatchInv, BadImportsWatched, ImportsPlaced
<1>2. d \in Decisions \ decisions => Loadable(log[d])
  BY DEF ImportInv, NoOrphans, Loadable, Rows
<1>3. ASSUME NEW c \in Clients, AppendInsert(c)
      PROVE  Loadable(log'[d])
  <2>1. /\ log' = [log EXCEPT ![op[c].dec] = Inserted(log[op[c].dec], op[c].seq, op[c].row)]
        /\ decisions' = decisions /\ stage[c] = "insert"
    BY <1>3 DEF AppendInsert
  <2>2. Sound(op[c].row)
    BY <2>1 DEF WatchInv, CallsSound, CallSound
  <2>3. DOMAIN log = Decisions
    BY DEF ImportInv
  <2>4. log'[d] = log[d] \/ log'[d] = Inserted(log[d], op[c].seq, op[c].row)
    BY <1>1, <2>1, <2>3
  <2>. QED
    BY <1>1, <2>1, <2>2, <2>4, LoadableKept
<1>4. ASSUME NEW c \in Clients, Step(c), ~ AppendInsert(c)
      PROVE  log' = log /\ decisions' \subseteq decisions \cup Decisions
  BY <1>4 DEF Step, Request, Approve, Revoke, ExecuteLoad, ExecuteValidate, ExecuteRefused,
              AppendSelect, AppendConflict, AppendFails, AppendRaises, RouterReturns,
                RouterUnreadable, RouterRaises, Crash, store
<1>5. CASE Tick
  BY <1>1, <1>5 DEF Tick, store
<1>. QED
  BY <1>1, <1>2, <1>3, <1>4, <1>5 DEF Next

\* What an import writes it replays or is not asked to; what does not replay it deletes.
LEMMA ImportsWatched ==
  ASSUME ImportInv, WatchInv, NEW i \in Importers, ImportStep(i)
  PROVE  BadImportsWatched'
<1>1. /\ \A j \in Importers \ {i} : phase'[j] = phase[j] /\ imp'[j] = imp[j]
      /\ DOMAIN phase = Importers /\ DOMAIN imp = Importers /\ DOMAIN log = Decisions
  BY StepAsked DEF ImportInv
<1>2. BadImportsWatched /\ ImportsPlaced
  BY DEF WatchInv
<1>3. ASSUME UNCHANGED <<store, unchecked>>, phase[i] \notin {"replay", "delete"}
      PROVE  BadImportsWatched'
  BY <1>1, <1>2, <1>3 DEF BadImportsWatched, store
<1>4. CASE WriteImport(i)
  <2> DEFINE e == imp[i].dec
  <2>1. phase[i] = "write" /\ DOMAIN imp[i] = Fields
    BY <1>4 DEF WriteImport, ImportInv, Asked, AskedOf
  <2>2. decisions' = decisions \cup {e} /\ \A d \in Decisions : d # e => log'[d] = log[d]
    BY <1>4, WriteFacts
  <2>3. \/ e \in unchecked'
        \/ phase'[i] = "replay" /\ imp'[i].dec = e
    <3>1. CASE Done(i) /\ unchecked' = unchecked \cup {imp[i].dec}
      BY <3>1
    <3>2. CASE Goto(i, "replay") /\ imp' = [imp EXCEPT ![i].rows = EmptyLog]
      <4>1. phase'[i] = "replay" /\ imp'[i] = [imp[i] EXCEPT !.rows = EmptyLog]
        BY <1>1, <3>2 DEF Goto
      <4>. QED
        BY <2>1, <4>1 DEF Fields
    <3>. QED
      BY <1>4, <3>1, <3>2 DEF WriteImport
  <2>4. unchecked \ {e} \subseteq unchecked'
    BY <1>4 DEF WriteImport
  <2> HIDE DEF e
  <2>5. ASSUME NEW d \in decisions, d # e
        PROVE  \/ Loadable(log'[d])
               \/ d \in unchecked'
               \/ \E j \in Importers : phase'[j] \in {"replay", "delete"} /\ imp'[j].dec = d
    BY <1>1, <1>2, <2>1, <2>2, <2>4, <2>5 DEF BadImportsWatched, ImportsPlaced
  <2>. QED
    BY <2>2, <2>3, <2>5 DEF BadImportsWatched
<1>5. CASE ReplayImport(i)
  <2>1. /\ phase[i] = "replay" /\ UNCHANGED <<log, decisions, unchecked>>
        /\ \/ Loadable(log[imp[i].dec])
           \/ phase' = [phase EXCEPT ![i] = "delete"] /\ imp' = imp
    BY <1>5 DEF ReplayImport, Replays, Goto, vars, store
  <2>2. CASE Loadable(log[imp[i].dec])
    BY <1>1, <1>2, <2>1, <2>2 DEF BadImportsWatched
  <2>3. CASE phase' = [phase EXCEPT ![i] = "delete"] /\ imp' = imp
    BY <1>1, <1>2, <2>1, <2>3 DEF BadImportsWatched
  <2>. QED
    BY <2>1, <2>2, <2>3
<1>6. CASE ReplayRaises(i)
  <2>1. /\ phase[i] = "replay" /\ UNCHANGED <<log, decisions, unchecked>>
        /\ phase' = [phase EXCEPT ![i] = "delete"] /\ imp' = imp
    BY <1>6 DEF ReplayRaises, Goto, vars
  <2>. QED
    BY <1>1, <1>2, <2>1 DEF BadImportsWatched
<1>7. CASE DeleteImport(i)
  <2>1. /\ decisions' = decisions \ {imp[i].dec}
        /\ log' = [log EXCEPT ![imp[i].dec] = EmptyLog]
        /\ unchecked' = unchecked \ {imp[i].dec}
    BY <1>7 DEF DeleteImport
  <2>. QED
    BY <1>1, <1>2, <2>1 DEF BadImportsWatched, ImportsPlaced
<1>8. CASE CrashImport(i)
  <2>1. /\ UNCHANGED store
        /\ unchecked \subseteq unchecked'
        /\ phase[i] \in {"replay", "delete"} => imp[i].dec \in unchecked'
    BY <1>8 DEF CrashImport, vars, store
  <2>. QED
    BY <1>1, <1>2, <2>1 DEF BadImportsWatched, store
<1>9. CASE WriteRaises(i) \/ CheckExists(i)
  BY <1>3, <1>9 DEF WriteRaises, CheckExists, vars, store
<1>10. CASE \E b \in Bundles, mode \in ConflictModes, verify, replay \in BOOLEAN :
             StartImport(i, b, mode, verify, replay)
  BY <1>3, <1>10 DEF StartImport, vars, store
<1>. QED
  BY <1>4, <1>5, <1>6, <1>7, <1>8, <1>9, <1>10 DEF ImportStep

(***************************************************************************)
(* Where only valid policies are requested, a decision that cannot be      *)
(* loaded is one whose import is still to replay or delete it, or was not  *)
(* asked to, or died; whatever tools and other imports do meanwhile.       *)
(***************************************************************************)
THEOREM WatchedTheorem ==
  ASSUME OfferedValid
  PROVE  ImportSpec => []BadImportsWatched
<1>1. ImportInv /\ WatchInv /\ [ImportNext]_allVars => WatchInv'
  <2> SUFFICES ASSUME ImportInv, WatchInv, [ImportNext]_allVars PROVE WatchInv'
    OBVIOUS
  <2>1. BadImportsWatched'
    <3>1. CASE ToolStep
      BY <3>1, ToolsWatched DEF ToolStep
    <3>2. CASE UNCHANGED <<store, importVars>>
      BY <3>2 DEF WatchInv, BadImportsWatched, store, importVars
    <3>. QED
      BY <3>1, <3>2, ImportsWatched DEF ImportNext, AppendMissing, AppendRaises, allVars, vars, store
  <2>. QED
    BY <2>1, CallsSoundKept, PlacedKept DEF WatchInv
<1>2. WatchInv => BadImportsWatched
  BY DEF WatchInv
<1>. QED
  BY <1>1, <1>2, WatchInvInit, ImportInvariant, PTL DEF ImportSpec
=============================================================================
