----------------------------- MODULE DecisionImport -----------------------------
(***************************************************************************)
(* import_bundle on the database the tools of module DecisionTools work on *)
(* at the same time.                                                       *)
(*                                                                         *)
(* An import is several transactions: does the decision exist (to choose   *)
(* the id), does it exist (in import_decision_atomic, before the write     *)
(* transaction opens), the write of the decision with all its rows, the    *)
(* replay of what was written, and, when that fails, its deletion.         *)
(*                                                                         *)
(* A bundle is its decision's id, its rows by sequence number, and whether *)
(* its digest is that of its content.  An import that is refused before it *)
(* writes (it does not parse, its digest is wrong, it has a gap or a       *)
(* duplicate, its decision exists) has no step: it changes nothing.        *)
(* export_decision only reads; what it returned stays outside the store,   *)
(* so Bundles holds what was exported, here or elsewhere, and then edited. *)
(***************************************************************************)
EXTENDS DecisionTools

CONSTANTS Importers,    \* processes that import
          Bundles,      \* what there is to import
          MaxRuns       \* bound: runs of the router (an overwrite makes room for more rows)

\* Rows of an unknown kind are left out: they can be imported, and fail to load as a bad policy does.
ASSUME BundlesAssumption ==
  \A b \in Bundles : b.dec \in Decisions /\ \A s \in DOMAIN b.rows : b.rows[s] \in Event

VARIABLES drawn,        \* ids in use somewhere: a uuid is never one of them
          phase,        \* what each importer does next
          imp,          \* the locals of each import
          unchecked     \* history: ids as an import wrote them that was not asked, or did
                        \* not live, to replay them

importVars == <<phase, imp, unchecked>>
allVars    == <<vars, drawn, importVars>>

ConflictModes == {"reject_on_conflict", "new_decision_id", "overwrite"}
Phases        == {"idle", "check", "write", "replay", "delete"}
NoImport      == [rows |-> EmptyLog]

FromZero(l) == \E n \in 0 .. MaxRows : DOMAIN l = 0 .. (n - 1)

ImportInit ==
  /\ Init
  /\ drawn = {b.dec : b \in Bundles}
  /\ phase = [i \in Importers |-> "idle"]
  /\ imp = [i \in Importers |-> NoImport]
  /\ unchecked = {}

Goto(i, p) == phase' = [phase EXCEPT ![i] = p]

Done(i) == Goto(i, "idle") /\ imp' = [imp EXCEPT ![i] = NoImport]

\* The tools run beside; request() draws a uuid.
ToolStep ==
  /\ Next
  /\ Len(runs') <= MaxRuns
  /\ (decisions' \ decisions) \cap drawn = {}
  /\ drawn' = drawn \cup decisions'
  /\ UNCHANGED importVars

\* append_event finds that the decision of its call has been deleted
AppendMissing(c) ==
  /\ stage[c] = "select"
  /\ op[c].dec \notin decisions
  /\ AppendRaises(c)
  /\ UNCHANGED <<drawn, importVars>>

-----------------------------------------------------------------------------
\* the id an import writes to
Targets(b, mode) ==
  IF b.dec \in decisions /\ mode = "new_decision_id" THEN Decisions \ drawn ELSE {b.dec}

\* mutant: the sequence numbers are not validated
StartImportAnyRows(i, b, mode, verify, replay) ==
  \E target \in Targets(b, mode) :
    /\ phase[i] = "idle"
    /\ verify => b.intact
    /\ ~ (b.dec \in decisions /\ mode = "reject_on_conflict")
    /\ Goto(i, "check")
    /\ imp' = [imp EXCEPT ![i] = [dec |-> target, rows |-> b.rows, overwrite |-> mode = "overwrite",
                                  replay |-> replay, existed |-> FALSE]]
    /\ drawn' = drawn \cup {target}
    /\ UNCHANGED <<vars, unchecked>>

StartImport(i, b, mode, verify, replay) ==
  \E target \in Targets(b, mode) :
    /\ phase[i] = "idle"
    /\ verify => b.intact
    /\ ~ (b.dec \in decisions /\ mode = "reject_on_conflict")
    /\ FromZero(b.rows)
    /\ Goto(i, "check")
    /\ imp' = [imp EXCEPT ![i] = [dec |-> target, rows |-> b.rows, overwrite |-> mode = "overwrite",
                                  replay |-> replay, existed |-> FALSE]]
    /\ drawn' = drawn \cup {target}
    /\ UNCHANGED <<vars, unchecked>>

-----------------------------------------------------------------------------
(***************************************************************************)
(* import_decision_atomic.  Its SELECT is not yet part of the transaction  *)
(* that the first DELETE or INSERT opens.                                  *)
(***************************************************************************)
CheckExists(i) ==
  LET exists == imp[i].dec \in decisions
  IN  /\ phase[i] = "check"
      /\ IF exists /\ ~ imp[i].overwrite
         THEN Done(i)
         ELSE Goto(i, "write") /\ imp' = [imp EXCEPT ![i].existed = exists]
      /\ UNCHANGED <<vars, drawn, unchecked>>

\* What is left of the decision for the INSERTs to collide with.
Remaining(i) == IF imp[i].existed THEN EmptyLog ELSE log[imp[i].dec]

\* mutant: INSERT OR REPLACE
InsertableAlways(i) == TRUE

Insertable(i) ==
  /\ imp[i].existed \/ imp[i].dec \notin decisions
  /\ DOMAIN Remaining(i) \cap DOMAIN imp[i].rows = {}

\* The rows that stay and the rows inserted.
Written(i) ==
  LET old == Remaining(i)
      new == imp[i].rows
  IN  [s \in DOMAIN old \cup DOMAIN new |-> IF s \in DOMAIN new THEN new[s] ELSE old[s]]

WriteImport(i) ==
  /\ phase[i] = "write"
  /\ Insertable(i)
  /\ decisions' = decisions \cup {imp[i].dec}
  /\ log' = [log EXCEPT ![imp[i].dec] = Written(i)]
  /\ IF imp[i].replay
     THEN /\ Goto(i, "replay")
          /\ imp' = [imp EXCEPT ![i].rows = EmptyLog]
          /\ unchecked' = unchecked \ {imp[i].dec}
     ELSE Done(i) /\ unchecked' = unchecked \cup {imp[i].dec}
  /\ UNCHANGED <<now, locals, runs, drawn>>

\* The INSERT raises, and the transaction with its DELETEs is rolled back.
WriteRaises(i) ==
  /\ phase[i] = "write"
  /\ ~ Insertable(i)
  /\ Done(i)
  /\ UNCHANGED <<vars, drawn, unchecked>>

-----------------------------------------------------------------------------
\* mutant: any decision that is there passes
ReplayFound(i) == imp[i].dec \in decisions

\* _validate_replay: the decision loads, and its lifecycle is computed
Replays(i) == imp[i].dec \in decisions /\ Loadable(log[imp[i].dec])

ReplayImport(i) ==
  /\ phase[i] = "replay"
  /\ IF Replays(i) THEN Done(i) ELSE Goto(i, "delete") /\ UNCHANGED imp
  /\ UNCHANGED <<vars, drawn, unchecked>>

\* _validate_replay takes any exception for a bad decision: a file that cannot be read too
ReplayRaises(i) ==
  /\ Faulty
  /\ phase[i] = "replay"
  /\ Goto(i, "delete")
  /\ UNCHANGED <<imp, vars, drawn, unchecked>>

DeleteImport(i) ==
  /\ phase[i] = "delete"
  /\ decisions' = decisions \ {imp[i].dec}
  /\ log' = [log EXCEPT ![imp[i].dec] = EmptyLog]
  /\ unchecked' = unchecked \ {imp[i].dec}
  /\ Done(i)
  /\ UNCHANGED <<now, locals, runs, drawn>>

CrashImport(i) ==
  /\ Faulty
  /\ phase[i] # "idle"
  /\ Done(i)
  /\ unchecked' = IF phase[i] \in {"replay", "delete"} THEN unchecked \cup {imp[i].dec} ELSE unchecked
  /\ UNCHANGED <<vars, drawn>>

ImportStep(i) ==
  \/ \E b \in Bundles, mode \in ConflictModes, verify, replay \in BOOLEAN :
       StartImport(i, b, mode, verify, replay)
  \/ CheckExists(i) \/ WriteImport(i) \/ WriteRaises(i)
  \/ ReplayImport(i) \/ ReplayRaises(i) \/ DeleteImport(i)
  \/ CrashImport(i)

ImportNext ==
  \/ ToolStep
  \/ \E c \in Clients : AppendMissing(c)
  \/ \E i \in Importers : ImportStep(i)

ImportSpec == ImportInit /\ [][ImportNext]_allVars

-----------------------------------------------------------------------------
(***************************************************************************)
(* Types; what an import goes on with has sequence numbers from 0 without  *)
(* a gap, whatever the bundle had (_validate_event_sequence).              *)
(***************************************************************************)
ImportTypeOK ==
  /\ TypeOK
  /\ drawn \in SUBSET Decisions
  /\ phase \in [Importers -> Phases]
  /\ DOMAIN imp = Importers
  /\ \A i \in Importers :
       IF phase[i] = "idle" THEN imp[i] = NoImport
       ELSE /\ imp[i].dec \in Decisions
            /\ FromZero(imp[i].rows)
            /\ imp[i].overwrite \in BOOLEAN /\ imp[i].replay \in BOOLEAN
            /\ imp[i].existed => imp[i].overwrite
  /\ unchecked \in SUBSET Decisions

(***************************************************************************)
(* A row belongs to a decision that is there: an append in progress while  *)
(* an import is rolled back does not leave rows behind, which a later      *)
(* decision of that id would start with (store.py, append_event and        *)
(* delete_decision).                                                       *)
(***************************************************************************)
NoOrphans == \A d \in Decisions \ decisions : DOMAIN log[d] = {}

(***************************************************************************)
(* A row is lost or changed only by an import that was asked to overwrite  *)
(* this decision, or by the rollback of one that wrote to it (and that     *)
(* takes along what others have added since); an import that was to reject *)
(* or to rename never costs a decision it found, or that appeared before   *)
(* it wrote, a row.                                                        *)
(***************************************************************************)
UnaskedKept ==
  [][\A d \in Decisions : \A s \in DOMAIN log[d] :
       \/ s \in DOMAIN log'[d] /\ log'[d][s] = log[d][s]
       \/ \E i \in Importers :
            /\ phase[i] = "delete" \/ (phase[i] = "write" /\ imp[i].overwrite)
            /\ phase'[i] # phase[i]
            /\ imp[i].dec = d]_allVars

(***************************************************************************)
(* "Replay validation after import": a decision that cannot be loaded, as  *)
(* none is requested here, is one whose import is still to replay or roll  *)
(* it back, or was not asked to, or died (import_.py, import_bundle).      *)
(***************************************************************************)
BadImportsWatched ==
  \A d \in decisions :
    \/ Loadable(log[d])
    \/ d \in unchecked
    \/ \E i \in Importers : phase[i] \in {"replay", "delete"} /\ imp[i].dec = d

(***************************************************************************)
(* "Rollback the import": an import whose replay fails does not cost the   *)
(* store the decision that was there before it.  (The code deletes what it *)
(* overwrote.)                                                             *)
(***************************************************************************)
FailedImportHarmless ==
  [][\A i \in Importers :
       phase[i] = "delete" /\ phase'[i] = "idle" /\ imp[i].existed
         => imp[i].dec \in decisions']_allVars
=============================================================================
