------------------------------- MODULE Templates -------------------------------
(***************************************************************************)
(* The template store and the requests made from templates: processes (or  *)
(* threads) that create templates, request decisions from them, and one    *)
(* that pages through the list.                                            *)
(*                                                                         *)
(* create_template looks for the name, and in a second access inserts the  *)
(* template and its event and commits.  The clients of a database file     *)
(* have a connection each, so the two INSERTs are one step for the others. *)
(* (The threads of a database in memory share one, and one's rollback      *)
(* undoes what another has begun: that store is not modelled.)             *)
(*                                                                         *)
(* Left out: description, max_steps, actors.  A digest is represented by   *)
(* what it is a digest of.                                                 *)
(***************************************************************************)
EXTENDS Decision, Sequences

CONSTANTS Clients,     \* processes, or threads, using the store
          Names,       \* names of templates
          Labels,      \* governance labels
          Filters,     \* label filters a reader may ask for
          Like,        \* external: which label a filter's LIKE pattern matches
          NoFilter,    \* label_filter is None
          Specs,       \* what creators ask for
          Overrides,   \* what a request overrides: functions on some fields of a spec
          Decisions,   \* the ids request() may draw
          PageSize,    \* limit of the reader
          MaxCreated,  \* bound: no creation begins once so many have succeeded
          MaxTime      \* bound: the clock

Fields == {"min", "modes", "caps", "labels"}
Spec0  == [min : Int, modes : SUBSET Modes, caps : SUBSET Capabilities, labels : SUBSET Labels]

ASSUME TemplatesAssumption ==
  /\ Specs \subseteq Spec0
  /\ \A o \in Overrides : DOMAIN o \subseteq Fields
  /\ Like \subseteq Filters \X Labels
  /\ PageSize \in Nat \ {0}
  /\ MaxCreated \in Nat
  /\ MaxTime \in Nat

VARIABLES templates,   \* table templates, in insertion order (rowid)
          events,      \* table template_events: from <<name, seq>> to the payload
          attached,    \* the POLICY_ATTACHED rows of the decisions requested
          now,         \* the wall clock
          stage, op,   \* what each client does next, and the locals of its call
          told,        \* the templates whose creators were told they exist
          page         \* the reader: filter, offset, the names found when it began, those read

tables == <<templates, events>>
vars   == <<templates, events, attached, now, stage, op, told, page>>

Template(n, spec, at) == [name |-> n, spec |-> spec, at |-> at]
Digest(template)      == template
Snapshot(template)    == [name |-> template.name, spec |-> template.spec]

\* Template.__post_init__; names are not empty here
ValidTemplate(spec) == spec.min >= 1 /\ spec.modes # {}

NamesIn(table) == {table[i].name : i \in DOMAIN table}
Named(table, n) == table[CHOOSE i \in DOMAIN table : table[i].name = n]

NoOp     == [kind |-> "none"]
NoPage   == [filter |-> NoFilter, offset |-> 0, due |-> {}, read |-> {}, done |-> TRUE]

Init ==
  /\ templates = <<>>
  /\ events = [k \in {} |-> NoOp]
  /\ attached = [d \in {} |-> NoOp]
  /\ now = 0
  /\ stage = [c \in Clients |-> "idle"]
  /\ op = [c \in Clients |-> NoOp]
  /\ told = {}
  /\ page = NoPage

Goto(c, st, o) == stage' = [stage EXCEPT ![c] = st] /\ op' = [op EXCEPT ![c] = o]
Return(c)      == Goto(c, "idle", NoOp)

-----------------------------------------------------------------------------
(***************************************************************************)
(* create_template.                                                        *)
(***************************************************************************)
CreateCheck(c, n, spec) ==
  /\ stage[c] = "idle"
  /\ Cardinality(told) < MaxCreated
  /\ n \notin NamesIn(templates)
  /\ ValidTemplate(spec)
  /\ Goto(c, "insert", Template(n, spec, now))
  /\ UNCHANGED <<tables, attached, now, told, page>>

\* mutant: a table without its primary key
TakenNever(n) == FALSE

\* PRIMARY KEY (name)
Taken(n) == n \in NamesIn(templates)

LogEvent(t) == [k \in DOMAIN events \cup {<<t.name, 0>>} |->
                  IF k = <<t.name, 0>> THEN t.spec ELSE events[k]]

\* mutant: a commit after each INSERT, and the process dies between them
CreateViewFirst(c) ==
  /\ stage[c] = "insert"
  /\ ~ Taken(op[c].name)
  /\ templates' = Append(templates, op[c])
  /\ told' = told \cup {Digest(op[c])}
  /\ Return(c)
  /\ UNCHANGED <<events, attached, now, page>>

\* A connection of its own: both INSERTs and the commit are one step for the others.
CreateInsert(c) ==
  /\ stage[c] = "insert"
  /\ ~ Taken(op[c].name)
  /\ templates' = Append(templates, op[c])
  /\ events' = LogEvent(op[c])
  /\ told' = told \cup {Digest(op[c])}
  /\ Return(c)
  /\ UNCHANGED <<attached, now, page>>

\* IntegrityError: rollback, and the exception goes to the caller.
CreateLoses(c) ==
  /\ stage[c] = "insert"
  /\ Taken(op[c].name)
  /\ Return(c)
  /\ UNCHANGED <<tables, attached, now, told, page>>

-----------------------------------------------------------------------------
(***************************************************************************)
(* request with a template: the template is read first and kept in memory; *)
(* the row POLICY_ATTACHED is appended transactions later.  (The rows      *)
(* before it are in module DecisionTools.)  Without a template the policy  *)
(* is made of the arguments and defaults.                                  *)
(***************************************************************************)
Effective(spec, o) == [f \in Fields |-> IF f \in DOMAIN o THEN o[f] ELSE spec[f]]
Defaults(m) == [min |-> 1, modes |-> IF m = "dry_run" THEN {"dry_run"} ELSE Modes,
                caps |-> {}, labels |-> {}]

FromTemplate(t, o) ==
  [kind |-> "template", spec |-> Effective(t.spec, o), snapshot |-> Snapshot(t),
   digest |-> Digest(t), overrides |-> o]

\* mutant: the snapshot is taken after the overrides
SnapshotLate(c, d, n, o, m) ==
  LET t == Named(templates, n)
  IN  /\ stage[c] = "idle"
      /\ n \in NamesIn(templates)
      /\ d \notin DOMAIN attached
      /\ m \in Effective(t.spec, o).modes
      /\ Goto(c, "attach", [dec |-> d, row |-> [FromTemplate(t, o) EXCEPT
                              !.snapshot = [@ EXCEPT !.spec = Effective(t.spec, o)]]])
      /\ UNCHANGED <<tables, attached, now, told, page>>

RequestLoad(c, d, n, o, m) ==
  LET t == Named(templates, n)
  IN  /\ stage[c] = "idle"
      /\ n \in NamesIn(templates)
      /\ d \notin DOMAIN attached
      /\ m \in Effective(t.spec, o).modes
      /\ Goto(c, "attach", [dec |-> d, row |-> FromTemplate(t, o)])
      /\ UNCHANGED <<tables, attached, now, told, page>>

RequestPlain(c, d, o, m) ==
  /\ stage[c] = "idle"
  /\ d \notin DOMAIN attached
  /\ m \in Effective(Defaults(m), o).modes
  /\ Goto(c, "attach", [dec |-> d, row |-> [kind |-> "plain", spec |-> Effective(Defaults(m), o)]])
  /\ UNCHANGED <<tables, attached, now, told, page>>

\* Ids are uuids: one drawn by two clients is not a case.
Attach(c) ==
  /\ stage[c] = "attach"
  /\ op[c].dec \notin DOMAIN attached
  /\ attached' = [d \in DOMAIN attached \cup {op[c].dec} |->
                    IF d = op[c].dec THEN op[c].row ELSE attached[d]]
  /\ Return(c)
  /\ UNCHANGED <<tables, now, told, page>>

-----------------------------------------------------------------------------
(***************************************************************************)
(* list_templates: newest first, a page at a time.  created_at is read     *)
(* before the INSERT, so a row may come in behind an older one; rows of    *)
(* the same time come in the order of insertion.  Skipped is a mutant:     *)
(* LIMIT and OFFSET given in the wrong order.                              *)
(***************************************************************************)
Matches(f, template) == f = NoFilter \/ \E l \in template.spec.labels : <<f, l>> \in Like

Newer(i, j) == templates[i].at > templates[j].at \/ (templates[i].at = templates[j].at /\ i < j)

Listing(f) ==
  LET found == {i \in DOMAIN templates : Matches(f, templates[i])}
  IN  [k \in 1 .. Cardinality(found) |->
         templates[CHOOSE i \in found : Cardinality({j \in found : Newer(j, i)}) = k - 1].name]

Slice(list, from, n) == SubSeq(list, from + 1, IF from + n < Len(list) THEN from + n ELSE Len(list))

Skipped(f, limit, offset) == Slice(Listing(f), limit, offset)

ListTemplates(f, limit, offset) == Slice(Listing(f), offset, limit)

\* bound: the list is read once
StartReading(f) ==
  /\ page = NoPage
  /\ templates # <<>>
  /\ page' = [filter |-> f, offset |-> 0, due |-> {Listing(f)[k] : k \in DOMAIN Listing(f)},
              read |-> {}, done |-> FALSE]
  /\ UNCHANGED <<tables, attached, now, stage, op, told>>

\* The reader asks for pages until one is not full.
ReadPage ==
  LET got == ListTemplates(page.filter, PageSize, page.offset)
  IN  /\ ~ page.done
      /\ page' = [page EXCEPT !.offset = @ + Len(got),
                              !.read = @ \cup {got[k] : k \in DOMAIN got},
                              !.done = Len(got) < PageSize]
      /\ UNCHANGED <<tables, attached, now, stage, op, told>>

Tick ==
  /\ now < MaxTime
  /\ now' = now + 1
  /\ UNCHANGED <<tables, attached, stage, op, told, page>>

\* A process dies; its transaction is rolled back.
Crash(c) ==
  /\ stage[c] # "idle"
  /\ Return(c)
  /\ UNCHANGED <<tables, attached, now, told, page>>

Next ==
  \/ Tick
  \/ ReadPage
  \/ \E f \in Filters \cup {NoFilter} : StartReading(f)
  \/ \E c \in Clients :
       \/ \E n \in Names, spec \in Specs : CreateCheck(c, n, spec)
       \/ CreateInsert(c) \/ CreateLoses(c)
       \/ \E d \in Decisions, n \in Names, o \in Overrides, m \in Modes : RequestLoad(c, d, n, o, m)
       \/ \E d \in Decisions, o \in Overrides, m \in Modes : RequestPlain(c, d, o, m)
       \/ Attach(c)
       \/ Crash(c)

Spec == Init /\ [][Next]_vars

-----------------------------------------------------------------------------
Rows0 == [name : Names, spec : Spec0, at : 0 .. MaxTime]

TypeOK ==
  /\ \A i \in DOMAIN templates : templates[i] \in Rows0 /\ ValidTemplate(templates[i].spec)
  /\ \A i, j \in DOMAIN templates : templates[i].name = templates[j].name => i = j
  /\ \A k \in DOMAIN events : k[1] \in Names /\ events[k] \in Spec0
  /\ DOMAIN attached \subseteq Decisions
  /\ now \in 0 .. MaxTime
  /\ \A c \in Clients : stage[c] \in {"idle", "insert", "attach"} /\ (stage[c] = "idle" <=> op[c] = NoOp)
  /\ told \subseteq Rows0
  /\ page.offset \in Nat /\ page.read \subseteq Names /\ page.due \subseteq Names

(***************************************************************************)
(* The table templates is the "materialized view" of the "append-only      *)
(* event log": every template has one event, numbered 0, that created it   *)
(* as it is, and no event is without its template, whoever raced or died   *)
(* (template.py, create_template).                                         *)
(***************************************************************************)
ViewIsLog ==
  /\ DOMAIN events = {<<n, 0>> : n \in NamesIn(templates)}
  /\ \A i \in DOMAIN templates : events[<<templates[i].name, 0>>] = templates[i].spec

(***************************************************************************)
(* "Templates are immutable once created": who was told that a template    *)
(* was created, with its digest, finds exactly that one under the name     *)
(* ever after, and of two racing creators only one is told so.             *)
(***************************************************************************)
Kept(t) == \E i \in DOMAIN templates : templates[i] = t

CreatedForGood ==
  /\ \A t \in told : Kept(t)
  /\ \A t, u \in told : t.name = u.name => t = u

(***************************************************************************)
(* A decision requested from a template can be checked against it ever     *)
(* after: the template its row names exists and has the digest and the     *)
(* content the row recorded, and the policy in the row is that content     *)
(* with the recorded overrides in place of its fields, nothing else        *)
(* (tool.py, request).                                                     *)
(***************************************************************************)
RefsTrue ==
  \A d \in DOMAIN attached : LET row == attached[d] IN row.kind = "template" =>
    \E i \in DOMAIN templates :
      /\ row.digest = Digest(templates[i])
      /\ row.snapshot = Snapshot(templates[i])
      /\ row.spec = Effective(row.snapshot.spec, row.overrides)

(***************************************************************************)
(* Reading the list page by page, while others create templates, skips no  *)
(* template that matched when the reader began: what comes in may repeat   *)
(* an entry, but never hides one (template.py, list_templates).            *)
(***************************************************************************)
PagingSkipsNothing == page.done => page.due \subseteq page.read

=============================================================================
