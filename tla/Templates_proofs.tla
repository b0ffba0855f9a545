---------------------------- MODULE Templates_proofs ----------------------------
(***************************************************************************)
(* What module Templates guarantees for any number of clients, templates,  *)
(* names, overrides and decisions: the table is the view of its event log, *)
(* what was created stays, and what a decision says of its template is so. *)
(***************************************************************************)
EXTENDS Templates, SequenceTheorems, FiniteSetTheorems, TLAPS

Row == [name : Names, spec : Specs, at : Nat]

\* What a POLICY_ATTACHED row says of its template, as RefsTrue asks of it.
RowTrue(row) ==
  row.kind = "template" =>
    \E i \in DOMAIN templates :
      /\ row.digest = Digest(templates[i])
      /\ row.snapshot = Snapshot(templates[i])
      /\ row.spec = Effective(row.snapshot.spec, row.overrides)

(***************************************************************************)
(* The inductive invariant.  A template keeps its place in the table, so   *)
(* what a client read of one before it appends its row stays true; a row   *)
(* in a client's hands is therefore as good as one in the log.             *)
(***************************************************************************)
TableInv ==
  /\ templates \in Seq(Row)
  /\ \A i, j \in DOMAIN templates : templates[i].name = templates[j].name => i = j
  /\ now \in Nat

ClientInv ==
  /\ DOMAIN stage = Clients /\ DOMAIN op = Clients
  /\ \A c \in Clients : stage[c] \in {"idle", "insert", "attach"}
  /\ \A c \in Clients : stage[c] = "insert" => op[c] \in Row
  /\ \A c \in Clients : stage[c] = "attach" => RowTrue(op[c].row)

TemplatesInv == TableInv /\ ClientInv /\ ViewIsLog /\ CreatedForGood /\ RefsTrue

LEMMA RefsAreRows == RefsTrue <=> \A d \in DOMAIN attached : RowTrue(attached[d])
  BY DEF RefsTrue, RowTrue

-----------------------------------------------------------------------------
\* A name that is taken is that of the template found under it.
LEMMA NamedIsThere ==
  ASSUME NEW n \in NamesIn(templates)
  PROVE  \E i \in DOMAIN templates : Named(templates, n) = templates[i]
  BY DEF NamesIn, Named

\* Overrides change nothing of what the row says the template was.
LEMMA FromTemplateTrue ==
  ASSUME NEW n \in NamesIn(templates), NEW o
  PROVE  RowTrue(FromTemplate(Named(templates, n), o))
<1>1. PICK i \in DOMAIN templates : Named(templates, n) = templates[i]
  BY NamedIsThere
<1>. QED
  BY <1>1 DEF RowTrue, FromTemplate, Digest, Snapshot

\* The steps that leave the tables and the log alone, and move one client on.
LEMMA GotoKeepsInv ==
  ASSUME TemplatesInv, NEW c \in Clients, NEW st \in {"idle", "insert", "attach"}, NEW o,
         Goto(c, st, o), UNCHANGED <<templates, events, attached, now, told>>,
         st = "insert" => o \in Row,
         st = "attach" => RowTrue(o.row)
  PROVE  TemplatesInv'
<1>1. TableInv' /\ ViewIsLog' /\ CreatedForGood' /\ RefsTrue'
  BY DEF TemplatesInv, TableInv, ViewIsLog, NamesIn, CreatedForGood, Kept, RefsTrue
<1>2. \A row : RowTrue(row)' <=> RowTrue(row)
  BY DEF RowTrue
<1>3. ClientInv'
  <2>1. /\ DOMAIN stage' = Clients /\ DOMAIN op' = Clients
        /\ stage'[c] = st /\ op'[c] = o
        /\ \A b \in Clients \ {c} : stage'[b] = stage[b] /\ op'[b] = op[b]
    BY DEF TemplatesInv, ClientInv, Goto
  <2>2. \A b \in Clients : stage'[b] = "attach" => RowTrue(op'[b].row)
    BY <2>1 DEF TemplatesInv, ClientInv
  <2>3. \A b \in Clients : stage'[b] = "attach" => RowTrue(op[b].row)'
    BY <2>2 DEF RowTrue
  <2>. QED
    BY <2>1, <2>3 DEF TemplatesInv, ClientInv
<1>. QED
  BY <1>1, <1>3 DEF TemplatesInv

-----------------------------------------------------------------------------
\* What an INSERT into the table changes.
LEMMA InsertGrows ==
  ASSUME TableInv, NEW t \in Row, ~ Taken(t.name), templates' = Append(templates, t)
  PROVE  /\ templates' \in Seq(Row)
         /\ DOMAIN templates' = DOMAIN templates \cup {Len(templates) + 1}
         /\ Len(templates) + 1 \notin DOMAIN templates
         /\ \A i \in DOMAIN templates : templates'[i] = templates[i]
         /\ templates'[Len(templates) + 1] = t
         /\ \A i \in DOMAIN templates : templates[i].name # t.name
<1>1. templates \in Seq(Row)
  BY DEF TableInv
<1>2. \A i \in DOMAIN templates : templates[i].name # t.name
  BY DEF Taken, NamesIn
<1>3. Len(templates) \in Nat /\ DOMAIN templates = 1 .. Len(templates)
  BY <1>1, LenProperties
<1>4. /\ templates' \in Seq(Row)
      /\ Len(templates') = Len(templates) + 1
      /\ \A i \in 1 .. Len(templates) : templates'[i] = templates[i]
      /\ templates'[Len(templates) + 1] = t
  BY <1>1, AppendProperties
<1>5. DOMAIN templates' = 1 .. Len(templates')
  BY <1>4, LenProperties
<1>. QED
  BY <1>2, <1>3, <1>4, <1>5

LEMMA InsertKeepsInv ==
  ASSUME TemplatesInv, NEW c \in Clients, CreateInsert(c)
  PROVE  TemplatesInv'
<1> DEFINE t == op[c]
           n == Len(templates) + 1
<1>1. t \in Row /\ ~ Taken(t.name) /\ templates' = Append(templates, t)
  BY DEF TemplatesInv, ClientInv, CreateInsert
<1>2. /\ templates' \in Seq(Row)
      /\ DOMAIN templates' = DOMAIN templates \cup {n}
      /\ n \notin DOMAIN templates
      /\ \A i \in DOMAIN templates : templates'[i] = templates[i]
      /\ templates'[n] = t
      /\ \A i \in DOMAIN templates : templates[i].name # t.name
  BY <1>1, InsertGrows DEF TemplatesInv
<1> HIDE DEF t, n
<1>3. TableInv'
  BY <1>2 DEF TemplatesInv, TableInv, CreateInsert
<1>4. \A row : RowTrue(row) => RowTrue(row)'
  BY <1>2 DEF RowTrue
<1>5. ClientInv'
  <2>1. /\ DOMAIN stage' = Clients /\ DOMAIN op' = Clients
        /\ stage'[c] = "idle"
        /\ \A b \in Clients \ {c} : stage'[b] = stage[b] /\ op'[b] = op[b]
    BY DEF TemplatesInv, ClientInv, CreateInsert, Return, Goto
  <2>2. \A b \in Clients : stage'[b] = "attach" => RowTrue(op[b].row)'
    <3> SUFFICES ASSUME NEW b \in Clients, stage'[b] = "attach"
                 PROVE  RowTrue(op[b].row)'
      OBVIOUS
    <3>1. RowTrue(op[b].row) /\ op'[b] = op[b]
      BY <2>1 DEF TemplatesInv, ClientInv
    <3>. QED
      BY <1>2, <3>1 DEF RowTrue
  <2>. QED
    BY <2>1, <2>2 DEF TemplatesInv, ClientInv
<1>6. ViewIsLog'
  <2>1. events' = [k \in DOMAIN events \cup {<<t.name, 0>>} |->
                     IF k = <<t.name, 0>> THEN t.spec ELSE events[k]]
    BY DEF CreateInsert, LogEvent, t
  <2>2. NamesIn(templates') = NamesIn(templates) \cup {t.name}
    BY <1>2 DEF NamesIn
  <2>3. DOMAIN events' = {<<m, 0>> : m \in NamesIn(templates')}
    BY <2>1, <2>2 DEF TemplatesInv, ViewIsLog
  <2>4. ASSUME NEW i \in DOMAIN templates'
        PROVE  events'[<<templates'[i].name, 0>>] = templates'[i].spec
    <3>1. CASE i = n
      BY <1>2, <2>1, <3>1
    <3>2. CASE i \in DOMAIN templates
      <4>1. /\ templates'[i] = templates[i]
            /\ <<templates[i].name, 0>> # <<t.name, 0>>
            /\ <<templates[i].name, 0>> \in DOMAIN events
            /\ events[<<templates[i].name, 0>>] = templates[i].spec
        BY <1>2, <3>2 DEF TemplatesInv, ViewIsLog, NamesIn
      <4>. QED
        BY <2>1, <4>1
    <3>. QED
      BY <1>2, <2>4, <3>1, <3>2
  <2>. QED
    BY <2>3, <2>4 DEF ViewIsLog
<1>7. CreatedForGood'
  <2>1. told' = told \cup {t}
    BY DEF CreateInsert, Digest, t
  <2>2. \A u \in told' : Kept(u)'
    BY <1>2, <2>1 DEF TemplatesInv, CreatedForGood, Kept
  <2>. QED
    BY <1>3, <2>2 DEF TableInv, CreatedForGood, Kept
<1>8. RefsTrue'
  BY <1>2 DEF TemplatesInv, RefsTrue, CreateInsert
<1>. QED
  BY <1>3, <1>5, <1>6, <1>7, <1>8 DEF TemplatesInv

LEMMA AttachKeepsInv ==
  ASSUME TemplatesInv, NEW c \in Clients, Attach(c)
  PROVE  TemplatesInv'
<1>1. TableInv' /\ ViewIsLog' /\ CreatedForGood'
  BY DEF TemplatesInv, TableInv, ViewIsLog, NamesIn, CreatedForGood, Kept, Attach, tables
<1>2. ClientInv'
  BY DEF TemplatesInv, ClientInv, RowTrue, Attach, Return, Goto, tables
<1>3. RefsTrue'
  <2>1. \A d \in DOMAIN attached : RowTrue(attached[d])
    BY RefsAreRows DEF TemplatesInv
  <2>2. RowTrue(op[c].row)
    BY DEF TemplatesInv, ClientInv, Attach
  <2>3. \A d \in DOMAIN attached' : RowTrue(attached'[d])
    BY <2>1, <2>2 DEF Attach
  <2>. QED
    BY <2>3 DEF RowTrue, RefsTrue, Attach, tables
<1>. QED
  BY <1>1, <1>2, <1>3 DEF TemplatesInv

-----------------------------------------------------------------------------
LEMMA InitInv == Init => TemplatesInv
<1> SUFFICES ASSUME Init PROVE TemplatesInv
  OBVIOUS
<1>1. templates = <<>> /\ DOMAIN templates = {} /\ <<>> \in Seq(Row)
  BY EmptySeq DEF Init
<1>2. DOMAIN events = {} /\ DOMAIN attached = {} /\ told = {} /\ now = 0
  BY DEF Init
<1>3. ClientInv
  BY DEF Init, ClientInv
<1>4. TableInv
  BY <1>1, <1>2 DEF TableInv
<1>5. ViewIsLog /\ CreatedForGood /\ RefsTrue
  BY <1>1, <1>2 DEF ViewIsLog, NamesIn, CreatedForGood, RefsTrue
<1>. QED
  BY <1>3, <1>4, <1>5 DEF TemplatesInv

LEMMA StepInv ==
  ASSUME TemplatesInv, [Next]_vars
  PROVE  TemplatesInv'
<1>1. ASSUME UNCHANGED <<templates, events, attached, stage, op, told>>, now' \in Nat
      PROVE  TemplatesInv'
  BY <1>1 DEF TemplatesInv, TableInv, ClientInv, RowTrue, ViewIsLog, NamesIn,
              CreatedForGood, Kept, RefsTrue
<1>2. CASE Tick \/ ReadPage \/ (\E f \in Filters \cup {NoFilter} : StartReading(f))
  <2>1. /\ UNCHANGED <<templates, events, attached, stage, op, told>>
        /\ now' = now \/ now' = now + 1
    BY <1>2 DEF Tick, ReadPage, StartReading, tables
  <2>2. now' \in Nat
    BY <2>1 DEF TemplatesInv, TableInv
  <2>. QED
    BY <1>1, <2>1, <2>2
<1>3. ASSUME NEW c \in Clients, NEW n \in Names, NEW spec \in Specs, CreateCheck(c, n, spec)
      PROVE  TemplatesInv'
  <2>1. Template(n, spec, now) \in Row
    BY DEF Template, Row, TemplatesInv, TableInv
  <2>. QED
    BY <1>3, <2>1, GotoKeepsInv DEF CreateCheck, tables
<1>4. ASSUME NEW c \in Clients, NEW d \in Decisions, NEW n \in Names, NEW o \in Overrides,
             NEW m \in Modes, RequestLoad(c, d, n, o, m)
      PROVE  TemplatesInv'
  <2>1. RowTrue(FromTemplate(Named(templates, n), o))
    BY <1>4, FromTemplateTrue DEF RequestLoad
  <2>2. Goto(c, "attach", [dec |-> d, row |-> FromTemplate(Named(templates, n), o)])
    BY <1>4 DEF RequestLoad
  <2>. QED
    BY <1>4, <2>1, <2>2, GotoKeepsInv DEF RequestLoad, tables
<1>5. ASSUME NEW c \in Clients, NEW d \in Decisions, NEW o \in Overrides, NEW m \in Modes,
             RequestPlain(c, d, o, m)
      PROVE  TemplatesInv'
  <2> DEFINE row == [kind |-> "plain", spec |-> Effective(Defaults(m), o)]
  <2>1. RowTrue(row)
    BY DEF RowTrue
  <2>2. Goto(c, "attach", [dec |-> d, row |-> row])
    BY <1>5 DEF RequestPlain
  <2>. QED
    BY <1>5, <2>1, <2>2, GotoKeepsInv DEF RequestPlain, tables
<1>6. ASSUME NEW c \in Clients, CreateLoses(c) \/ Crash(c)
      PROVE  TemplatesInv'
  <2>1. Goto(c, "idle", NoOp) /\ UNCHANGED <<templates, events, attached, now, told>>
    BY <1>6 DEF CreateLoses, Crash, Return, tables
  <2>. QED
    BY <2>1, GotoKeepsInv
<1>7. CASE UNCHANGED vars
  BY <1>1, <1>7 DEF vars, TemplatesInv, TableInv
<1>. QED
  BY <1>2, <1>3, <1>4, <1>5, <1>6, <1>7, InsertKeepsInv, AttachKeepsInv DEF Next

LEMMA InvAlways == Spec => []TemplatesInv
  BY InitInv, StepInv, PTL DEF Spec

(***************************************************************************)
(* Whoever races on a name, dies or loses: every template has the one      *)
(* event that created it, and no event lacks its template.                 *)
(***************************************************************************)
THEOREM ViewTheorem == Spec => []ViewIsLog
<1>1. TemplatesInv => ViewIsLog
  BY DEF TemplatesInv
<1>. QED
  BY <1>1, InvAlways, PTL

(***************************************************************************)
(* A template its creator was told of is there ever after, as it was, and  *)
(* no two creators were told of the same name.                             *)
(***************************************************************************)
THEOREM CreatedTheorem == Spec => []CreatedForGood
<1>1. TemplatesInv => CreatedForGood
  BY DEF TemplatesInv
<1>. QED
  BY <1>1, InvAlways, PTL

(***************************************************************************)
(* What a decision records of its template is so: digest, content, and the *)
(* policy as that content with the overrides, whatever they are.           *)
(***************************************************************************)
THEOREM RefsTheorem == Spec => []RefsTrue
<1>1. TemplatesInv => RefsTrue
  BY DEF TemplatesInv
<1>. QED
  BY <1>1, InvAlways, PTL

-----------------------------------------------------------------------------
(***************************************************************************)
(* Types.  What the tables and the log hold follows from the view and from *)
(* what creators were told; the rest is what a client brings to them.      *)
(***************************************************************************)
TypesInv ==
  /\ \A i \in DOMAIN templates : templates[i] \in Rows0 /\ ValidTemplate(templates[i].spec)
  /\ DOMAIN attached \subseteq Decisions
  /\ now \in 0 .. MaxTime
  /\ \A c \in Clients :
       /\ stage[c] = "idle" <=> op[c] = NoOp
       /\ stage[c] = "insert" => op[c] \in Rows0 /\ ValidTemplate(op[c].spec)
       /\ stage[c] = "attach" => op[c].dec \in Decisions

LEMMA NotNoOp ==
  /\ \A t \in Rows0 : t # NoOp
  /\ \A d, row : [dec |-> d, row |-> row] # NoOp
<1>1. "name" \notin DOMAIN NoOp /\ "dec" \notin DOMAIN NoOp
  BY DEF NoOp
<1>2. \A t \in Rows0 : "name" \in DOMAIN t
  BY DEF Rows0
<1>3. \A d, row : "dec" \in DOMAIN [dec |-> d, row |-> row]
  OBVIOUS
<1>. QED
  BY <1>1, <1>2, <1>3

LEMMA GotoTypes ==
  ASSUME TemplatesInv, TypesInv, NEW c \in Clients, NEW st \in {"idle", "insert", "attach"}, NEW o,
         Goto(c, st, o),
         st = "idle" <=> o = NoOp,
         st = "insert" => o \in Rows0 /\ ValidTemplate(o.spec),
         st = "attach" => o.dec \in Decisions
  PROVE  \A b \in Clients :
           /\ stage'[b] = "idle" <=> op'[b] = NoOp
           /\ stage'[b] = "insert" => op'[b] \in Rows0 /\ ValidTemplate(op'[b].spec)
           /\ stage'[b] = "attach" => op'[b].dec \in Decisions
<1>1. /\ stage'[c] = st /\ op'[c] = o
      /\ \A b \in Clients \ {c} : stage'[b] = stage[b] /\ op'[b] = op[b]
  BY DEF TemplatesInv, ClientInv, Goto
<1>. QED
  BY <1>1 DEF TypesInv

LEMMA TypesStep ==
  ASSUME TemplatesInv, TypesInv, [Next]_vars
  PROVE  TypesInv'
<1>1. CASE UNCHANGED <<templates, attached, stage, op>> /\ now' \in 0 .. MaxTime
  BY <1>1 DEF TypesInv
<1>2. CASE Tick
  BY <1>1, <1>2, TemplatesAssumption DEF Tick, tables, TypesInv
<1>3. CASE ReadPage \/ \E f \in Filters \cup {NoFilter} : StartReading(f)
  BY <1>1, <1>3 DEF ReadPage, StartReading, tables, TypesInv
<1>4. ASSUME NEW c \in Clients, NEW n \in Names, NEW spec \in Specs, CreateCheck(c, n, spec)
      PROVE  TypesInv'
  <2>1. Template(n, spec, now) \in Rows0 /\ Template(n, spec, now).spec = spec
    BY TemplatesAssumption DEF Template, Rows0, TypesInv
  <2>2. Goto(c, "insert", Template(n, spec, now)) /\ ValidTemplate(spec)
        /\ UNCHANGED <<templates, attached, now>>
    BY <1>4 DEF CreateCheck, tables
  <2>. QED
    BY <2>1, <2>2, NotNoOp, GotoTypes DEF TypesInv
<1>5. ASSUME NEW c \in Clients, CreateInsert(c)
      PROVE  TypesInv'
  <2>1. /\ op[c] \in Rows0 /\ ValidTemplate(op[c].spec) /\ op[c] \in Row /\ ~ Taken(op[c].name)
        /\ templates' = Append(templates, op[c]) /\ Goto(c, "idle", NoOp)
        /\ UNCHANGED <<attached, now>>
    BY <1>5 DEF CreateInsert, Return, TypesInv, TemplatesInv, ClientInv
  <2>2. /\ DOMAIN templates' = DOMAIN templates \cup {Len(templates) + 1}
        /\ \A i \in DOMAIN templates : templates'[i] = templates[i]
        /\ templates'[Len(templates) + 1] = op[c]
    BY <2>1, InsertGrows DEF TemplatesInv
  <2>. QED
    BY <2>1, <2>2, GotoTypes DEF TypesInv
<1>6. ASSUME NEW c \in Clients, CreateLoses(c) \/ Crash(c)
      PROVE  TypesInv'
  <2>1. Goto(c, "idle", NoOp) /\ UNCHANGED <<templates, attached, now>>
    BY <1>6 DEF CreateLoses, Crash, Return, tables
  <2>. QED
    BY <2>1, GotoTypes DEF TypesInv
<1>7. ASSUME NEW c \in Clients, NEW d \in Decisions, NEW row, Goto(c, "attach", [dec |-> d, row |-> row]),
             UNCHANGED <<templates, attached, now>>
      PROVE  TypesInv'
  BY <1>7, NotNoOp, GotoTypes DEF TypesInv
<1>8. ASSUME NEW c \in Clients, Attach(c)
      PROVE  TypesInv'
  <2>1. /\ Goto(c, "idle", NoOp) /\ UNCHANGED <<templates, now>>
        /\ op[c].dec \in Decisions /\ DOMAIN attached' = DOMAIN attached \cup {op[c].dec}
    BY <1>8 DEF Attach, Return, tables, TypesInv
  <2>. QED
    BY <2>1, GotoTypes DEF TypesInv
<1>9. ASSUME NEW c \in Clients, NEW d \in Decisions, NEW o \in Overrides, NEW m \in Modes,
             RequestPlain(c, d, o, m) \/ \E n \in Names : RequestLoad(c, d, n, o, m)
      PROVE  TypesInv'
  BY <1>7, <1>9 DEF RequestLoad, RequestPlain, tables
<1>10. CASE UNCHANGED vars
  BY <1>1, <1>10 DEF vars, TypesInv
<1>. QED
  BY <1>2, <1>3, <1>4, <1>5, <1>6, <1>8, <1>9, <1>10 DEF Next

-----------------------------------------------------------------------------
(***************************************************************************)
(* The list.  The place of a template in it is the number of those that    *)
(* come before it; distinct templates have distinct places, so each place  *)
(* below their number is taken.                                            *)
(***************************************************************************)
Found(f)     == {i \in DOMAIN templates : Matches(f, templates[i])}
Before(f, i) == {j \in Found(f) : Newer(j, i)}
Place(f, i)  == Cardinality(Before(f, i))

LEMMA FoundFinite ==
  ASSUME TableInv, NEW f
  PROVE  /\ IsFiniteSet(Found(f)) /\ Cardinality(Found(f)) \in Nat
         /\ \A i : IsFiniteSet(Before(f, i)) /\ Place(f, i) \in Nat
<1>1. Len(templates) \in Nat /\ DOMAIN templates = 1 .. Len(templates)
  BY LenProperties DEF TableInv
<1>2. IsFiniteSet(DOMAIN templates)
  BY <1>1, FS_Interval
<1>3. IsFiniteSet(Found(f))
  BY <1>2, FS_Subset DEF Found
<1>4. \A i : Before(f, i) \subseteq Found(f)
  BY DEF Before
<1>5. \A i : IsFiniteSet(Before(f, i))
  BY <1>3, <1>4, FS_Subset
<1>. QED
  BY <1>3, <1>5, FS_CardinalityType DEF Place

LEMMA PlacesFinite == TableInv => \A g, i : IsFiniteSet(Before(g, i)) /\ Place(g, i) \in Nat
  BY FoundFinite

\* Of two templates one comes first, and everything before it comes before the other too.
LEMMA PlacesGrow ==
  ASSUME TableInv, NEW f, NEW i \in Found(f), NEW j \in Found(f), i # j
  PROVE  Place(f, i) # Place(f, j)
<1>1. /\ i \in Int /\ j \in Int
      /\ \A k \in Found(f) : k \in Int /\ templates[k].at \in Int
  <2>1. DOMAIN templates \subseteq Nat /\ \A k \in DOMAIN templates : templates[k].at \in Nat
    <3>1. templates \in [DOMAIN templates -> Row] /\ DOMAIN templates = 1 .. Len(templates)
          /\ Len(templates) \in Nat
      BY LenProperties, ElementOfSeq DEF TableInv
    <3>. QED
      BY <3>1 DEF Row
  <2>. QED
    BY <2>1 DEF Found
<1>2. ASSUME NEW a \in Found(f), NEW b \in Found(f), Newer(a, b)
      PROVE  Place(f, a) < Place(f, b)
  <2>1. Before(f, a) \subseteq Before(f, b)
    <3> SUFFICES ASSUME NEW k \in Found(f), Newer(k, a) PROVE Newer(k, b)
      BY DEF Before
    <3>1. /\ templates[k].at > templates[a].at \/ (templates[k].at = templates[a].at /\ k < a)
          /\ templates[a].at > templates[b].at \/ (templates[a].at = templates[b].at /\ a < b)
      BY <1>2 DEF Newer
    <3>. QED
      BY <1>1, <3>1 DEF Newer
  <2>2. a \in Before(f, b) /\ a \notin Before(f, a)
    <3>1. ~ Newer(a, a)
      BY <1>1 DEF Newer
    <3>. QED
      BY <1>2, <3>1 DEF Before
  <2>3. /\ Place(f, a) <= Place(f, b)
        /\ Place(f, a) # Place(f, b)
    BY <2>1, <2>2, FoundFinite, FS_Subset DEF Place
  <2>. QED
    BY <2>3, FoundFinite
<1>3. Newer(i, j) \/ Newer(j, i)
  BY <1>1 DEF Newer
<1>. QED
  BY <1>2, <1>3, FoundFinite

LEMMA PlaceInList ==
  ASSUME TableInv, NEW f, NEW i \in Found(f)
  PROVE  Place(f, i) \in 0 .. (Cardinality(Found(f)) - 1)
<1>1. templates[i].at \in Int /\ i \in Int
  <2>1. templates[i] \in Row /\ i \in 1 .. Len(templates) /\ Len(templates) \in Nat
    BY LenProperties, ElementOfSeq DEF TableInv, Found
  <2>. QED
    BY <2>1 DEF Row
<1>2. i \notin Before(f, i) /\ Before(f, i) \subseteq Found(f)
  BY <1>1 DEF Before, Newer
<1>3. Place(f, i) <= Cardinality(Found(f)) /\ Place(f, i) # Cardinality(Found(f))
  BY <1>2, FoundFinite, FS_Subset DEF Place
<1>. QED
  BY <1>3, FoundFinite

LEMMA PlacesTaken ==
  ASSUME TableInv, NEW f, NEW k \in 1 .. Cardinality(Found(f))
  PROVE  \E i \in Found(f) : Place(f, i) = k - 1
<1> DEFINE S == Found(f)
           T == 0 .. (Cardinality(S) - 1)
           g == [i \in S |-> Place(f, i)]
<1>1. g \in [S -> T]
  BY PlaceInList
<1>2. \A i, j \in S : g[i] = g[j] => i = j
  BY PlacesGrow
<1>3. IsFiniteSet(S) /\ Cardinality(S) \in Nat
  BY FoundFinite
<1>4. IsFiniteSet(T) /\ Cardinality(T) = Cardinality(S)
  <2>1. Cardinality(S) - 1 \in Int /\ (0 > Cardinality(S) - 1 <=> Cardinality(S) = 0)
    BY <1>3
  <2>2. IsFiniteSet(T) /\ Cardinality(T) = IF 0 > Cardinality(S) - 1 THEN 0 ELSE Cardinality(S) - 1 - 0 + 1
    BY <2>1, FS_Interval
  <2>. QED
    BY <1>3, <2>1, <2>2
<1> HIDE DEF S, T, g
<1>5. g \in Injection(S, T)
  BY <1>1, <1>2 DEF Injection, IsInjective
<1>6. g \in Surjection(S, T)
  BY <1>3, <1>4, <1>5, FS_Injection
<1>7. k - 1 \in T
  BY <1>3 DEF T, S
<1>8. PICK i \in S : g[i] = k - 1
  BY <1>6, <1>7 DEF Surjection
<1>. QED
  BY <1>8 DEF g, S

\* The list has each template that matches, at its place, and nothing else.
LEMMA ListingIsList ==
  ASSUME TableInv, NEW f
  PROVE  /\ Listing(f) \in Seq(NamesIn(templates))
         /\ Len(Listing(f)) = Cardinality(Found(f))
         /\ \A i \in Found(f) : Listing(f)[Place(f, i) + 1] = templates[i].name
         /\ \A k \in 1 .. Len(Listing(f)) : \E i \in Found(f) : Listing(f)[k] = templates[i].name
<1> DEFINE n == Cardinality(Found(f))
           at(k) == CHOOSE i \in Found(f) : Place(f, i) = k - 1
<1>1. n \in Nat
  BY FoundFinite
<1>2. Listing(f) = [k \in 1 .. n |-> templates[at(k)].name]
  BY DEF Listing, Found, Place, Before
<1>3. \A k \in 1 .. n : at(k) \in Found(f) /\ Place(f, at(k)) = k - 1
  BY PlacesTaken
<1>4. \A i \in Found(f) : Place(f, i) + 1 \in 1 .. n /\ at(Place(f, i) + 1) = i
  <2> SUFFICES ASSUME NEW i \in Found(f)
               PROVE  Place(f, i) + 1 \in 1 .. n /\ at(Place(f, i) + 1) = i
    OBVIOUS
  <2>1. Place(f, i) + 1 \in 1 .. n /\ (Place(f, i) + 1) - 1 = Place(f, i)
    BY <1>1, PlaceInList
  <2>2. at(Place(f, i) + 1) \in Found(f) /\ Place(f, at(Place(f, i) + 1)) = Place(f, i)
    BY <1>3, <2>1
  <2> HIDE DEF at
  <2>. QED
    BY <2>1, <2>2, PlacesGrow
<1> HIDE DEF at, n
<1>5. \A k \in 1 .. n : templates[at(k)].name \in NamesIn(templates)
  BY <1>3 DEF NamesIn, Found
<1>6. Listing(f) \in Seq(NamesIn(templates)) /\ Len(Listing(f)) = n
  BY <1>1, <1>2, <1>5
<1>. QED
  BY <1>2, <1>3, <1>4, <1>6 DEF n

LEMMA SliceOfList ==
  ASSUME NEW S, NEW list \in Seq(S), NEW from \in Nat, NEW n \in Nat \ {0}
  PROVE  /\ Slice(list, from, n) \in Seq(S)
         /\ Len(Slice(list, from, n)) < n => Len(list) <= from + Len(Slice(list, from, n))
         /\ \A k \in 1 .. Len(list) :
              k > from /\ k <= from + Len(Slice(list, from, n))
                => \E p \in DOMAIN Slice(list, from, n) : Slice(list, from, n)[p] = list[k]
<1> DEFINE to  == IF from + n < Len(list) THEN from + n ELSE Len(list)
           got == SubSeq(list, from + 1, to)
<1>1. Len(list) \in Nat /\ to \in Nat /\ to <= Len(list) /\ DOMAIN list = 1 .. Len(list)
      /\ \A k \in 1 .. Len(list) : list[k] \in S
  BY LenProperties, ElementOfSeq
<1>2. got = [k \in 1 .. (1 + to - (from + 1)) |-> list[k + (from + 1) - 1]]
  BY <1>1
<1>3. got \in Seq(S) /\ Len(got) = IF to <= from THEN 0 ELSE to - from
  BY <1>1, <1>2
<1>4. DOMAIN got = 1 .. Len(got) /\ \A p \in 1 .. Len(got) : got[p] = list[p + from]
  BY <1>1, <1>2, <1>3
<1>5. Len(got) < n => Len(list) <= from + Len(got)
  BY <1>1, <1>3
<1> HIDE DEF to, got
<1>6. ASSUME NEW k \in 1 .. Len(list), k > from, k <= from + Len(got)
      PROVE  \E p \in DOMAIN got : got[p] = list[k]
  <2>1. k - from \in 1 .. Len(got) /\ (k - from) + from = k
    BY <1>1, <1>3, <1>6
  <2>. QED
    BY <1>4, <2>1
<1>. QED
  BY <1>3, <1>5, <1>6 DEF Slice, got, to

-----------------------------------------------------------------------------
(***************************************************************************)
(* The reader.  What comes in only moves a template further down the list, *)
(* so each one that was due and is above the offset has been read.         *)
(***************************************************************************)
Due(i)  == templates[i].name \in page.due
ReadIn(i) == templates[i].name \in page.read

PageInv ==
  /\ DOMAIN page = {"filter", "offset", "due", "read", "done"}
  /\ page.offset \in Nat
  /\ page.read \subseteq NamesIn(templates)
  /\ page.due \subseteq {templates[i].name : i \in Found(page.filter)}
  /\ IF page.done THEN page.due \subseteq page.read
     ELSE \A i \in Found(page.filter) :
            Due(i) /\ Place(page.filter, i) < page.offset => ReadIn(i)

LEMMA PageInvInit == Init => PageInv
BY DEF Init, PageInv, NoPage

LEMMA StartKeepsPage ==
  ASSUME TableInv, NEW f, StartReading(f)
  PROVE  PageInv'
<1>1. /\ page' = [filter |-> f, offset |-> 0, due |-> {Listing(f)[k] : k \in DOMAIN Listing(f)},
                  read |-> {}, done |-> FALSE]
      /\ templates' = templates
  BY DEF StartReading, tables
<1>2. page'.filter = f /\ page'.offset = 0 /\ page'.read = {}
  BY <1>1
<1>3. page'.due = {Listing(f)[k] : k \in DOMAIN Listing(f)} /\ page'.done = FALSE
  BY <1>1
<1>4. DOMAIN Listing(f) = 1 .. Len(Listing(f))
  BY ListingIsList, LenProperties
<1>5. page'.due \subseteq {templates[i].name : i \in Found(f)}
  BY <1>3, <1>4, ListingIsList
<1>6. \A i : Found(f)' = Found(f) /\ Place(f, i)' = Place(f, i)
  BY <1>1 DEF Found, Place, Before, Newer
<1>7. \A i : Place(f, i) \in Nat
  BY FoundFinite
<1>8. DOMAIN page' = {"filter", "offset", "due", "read", "done"}
  BY <1>1
<1>. QED
  BY <1>1, <1>2, <1>3, <1>5, <1>6, <1>7, <1>8 DEF PageInv, Due, ReadIn, NamesIn

LEMMA ReadKeepsPage ==
  ASSUME TableInv, PageInv, ReadPage
  PROVE  PageInv'
<1> DEFINE f    == page.filter
           list == Listing(f)
           from == page.offset
           got  == Slice(list, from, PageSize)
           names == {got[k] : k \in DOMAIN got}
<1>1. /\ templates' = templates
      /\ page' = [page EXCEPT !.offset = from + Len(got), !.read = @ \cup names,
                              !.done = Len(got) < PageSize]
      /\ page.done = FALSE \/ ~ page.done
  BY DEF ReadPage, tables, ListTemplates
<1>2. list \in Seq(NamesIn(templates)) /\ Len(list) = Cardinality(Found(f))
  BY ListingIsList
<1>3. from \in Nat /\ PageSize \in Nat \ {0}
  BY TemplatesAssumption DEF PageInv
<1>4. /\ got \in Seq(NamesIn(templates))
      /\ Len(got) < PageSize => Len(list) <= from + Len(got)
      /\ \A k \in 1 .. Len(list) :
           k > from /\ k <= from + Len(got) => \E p \in DOMAIN got : got[p] = list[k]
  BY <1>2, <1>3, SliceOfList
<1>5. Len(got) \in Nat /\ names \subseteq NamesIn(templates)
  BY <1>4, LenProperties, ElementOfSeq
<1>6. \A i \in Found(f) : /\ Place(f, i) \in Nat /\ Place(f, i) + 1 \in 1 .. Len(list)
                          /\ list[Place(f, i) + 1] = templates[i].name
  BY <1>2, ListingIsList, PlaceInList, FoundFinite
<1>7. /\ DOMAIN page = {"filter", "offset", "due", "read", "done"}
      /\ page.read \subseteq NamesIn(templates)
      /\ page.due \subseteq {templates[i].name : i \in Found(f)}
      /\ \A i \in Found(f) : Due(i) /\ Place(f, i) < from => ReadIn(i)
  BY DEF PageInv, ReadPage
<1> HIDE DEF list, got, names, from
<1>8. /\ DOMAIN page' = DOMAIN page
      /\ page'.filter = f /\ page'.due = page.due
  BY <1>1, <1>7
<1>9. page'.offset = from + Len(got) /\ page'.read = page.read \cup names
  BY <1>1, <1>7
<1>10. page'.done = (Len(got) < PageSize)
  BY <1>1, <1>7
<1> HIDE DEF f
<1>11. ASSUME NEW i \in Found(f), Due(i), Place(f, i) < from + Len(got)
       PROVE  templates[i].name \in page'.read
  <2>1. CASE Place(f, i) < from
    BY <1>7, <1>9, <1>11, <2>1 DEF ReadIn
  <2>2. CASE ~ (Place(f, i) < from)
    <3>1. Place(f, i) + 1 > from /\ Place(f, i) + 1 <= from + Len(got)
      BY <1>3, <1>5, <1>6, <1>11, <2>2
    <3>2. PICK p \in DOMAIN got : got[p] = list[Place(f, i) + 1]
      BY <1>4, <1>6, <3>1
    <3>. QED
      BY <1>6, <1>9, <3>2 DEF names
  <2>. QED
    BY <2>1, <2>2
<1>12. ASSUME Len(got) < PageSize
       PROVE  page.due \subseteq page'.read
  <2> SUFFICES ASSUME NEW m \in page.due PROVE m \in page'.read
    OBVIOUS
  <2>1. PICK i \in Found(f) : m = templates[i].name
    BY <1>7
  <2>2. Place(f, i) < from + Len(got)
    BY <1>2, <1>3, <1>4, <1>5, <1>6, <1>12
  <2>. QED
    BY <1>11, <2>1, <2>2 DEF Due
<1>13. \A g, i : Found(g)' = Found(g) /\ Place(g, i)' = Place(g, i)
  BY <1>1 DEF Found, Place, Before, Newer
<1>14. page'.offset \in Nat /\ page'.read \subseteq NamesIn(templates')
  BY <1>1, <1>3, <1>5, <1>7, <1>9
<1>15. page'.due \subseteq {templates'[i].name : i \in Found(page.filter)}
  BY <1>1, <1>7, <1>8 DEF f
<1>16. IF page'.done THEN page'.due \subseteq page'.read
       ELSE \A i \in Found(page.filter) :
              templates'[i].name \in page'.due /\ Place(page.filter, i) < page'.offset
                => templates'[i].name \in page'.read
  BY <1>1, <1>8, <1>9, <1>10, <1>11, <1>12 DEF Due, f
<1>17. page'.filter = page.filter
  BY <1>8 DEF f
<1>. QED
  BY <1>7, <1>8, <1>13, <1>14, <1>15, <1>16, <1>17 DEF PageInv, Due, ReadIn

\* A template comes in somewhere in the list: no place above it moves, none below it moves up.
LEMMA InsertKeepsPage ==
  ASSUME TemplatesInv, PageInv, NEW c \in Clients, CreateInsert(c)
  PROVE  PageInv'
<1> DEFINE n == Len(templates) + 1
           f == page.filter
<1>1. /\ TableInv
      /\ \A g, i : IsFiniteSet(Before(g, i)') /\ Place(g, i)' \in Nat
  <2>1. TableInv /\ TableInv'
    BY InsertKeepsInv DEF TemplatesInv
  <2>2. (TableInv => \A g, i : IsFiniteSet(Before(g, i)) /\ Place(g, i) \in Nat)'
    BY PlacesFinite, PTL
  <2>. QED
    BY <2>1, <2>2
<1>2. op[c] \in Row /\ ~ Taken(op[c].name) /\ templates' = Append(templates, op[c]) /\ page' = page
  BY DEF TemplatesInv, ClientInv, CreateInsert
<1>3. /\ DOMAIN templates' = DOMAIN templates \cup {n}
      /\ n \notin DOMAIN templates
      /\ \A i \in DOMAIN templates : templates'[i] = templates[i]
      /\ templates'[n] = op[c]
      /\ \A i \in DOMAIN templates : templates[i].name # op[c].name
  BY <1>1, <1>2, InsertGrows
<1> HIDE DEF n
<1>4. \A g : Found(g) \subseteq Found(g)' /\ Found(g)' \subseteq Found(g) \cup {n}
  BY <1>3 DEF Found
<1>5. ASSUME NEW g, NEW i \in Found(g)
      PROVE  Place(g, i) \in Nat /\ Place(g, i)' \in Nat /\ Place(g, i) <= Place(g, i)'
  <2>1. i \in DOMAIN templates
    BY <1>5 DEF Found
  <2>2. Before(g, i) \subseteq Before(g, i)'
    <3>1. ASSUME NEW k \in Found(g), Newer(k, i)
          PROVE  k \in Found(g)' /\ Newer(k, i)'
      <4>1. k \in DOMAIN templates /\ k \in Found(g)'
        BY <1>4, <3>1 DEF Found
      <4>2. templates'[k] = templates[k] /\ templates'[i] = templates[i]
        BY <1>3, <2>1, <4>1
      <4>. QED
        BY <3>1, <4>1, <4>2 DEF Newer
    <3>2. Before(g, i)' = {k \in Found(g)' : Newer(k, i)'}
      BY DEF Before
    <3>. QED
      BY <3>1, <3>2 DEF Before
  <2>3. IsFiniteSet(Before(g, i)') /\ Place(g, i)' \in Nat
    BY <1>1
  <2>. QED
    BY <1>1, <2>2, <2>3, FoundFinite, FS_Subset DEF Place
<1>6. NamesIn(templates) \subseteq NamesIn(templates')
  BY <1>3 DEF NamesIn
<1>7. /\ DOMAIN page = {"filter", "offset", "due", "read", "done"}
      /\ page.offset \in Nat
      /\ page.read \subseteq NamesIn(templates)
      /\ page.due \subseteq {templates[i].name : i \in Found(f)}
  BY DEF PageInv
<1>8. Found(f) \subseteq DOMAIN templates
  BY DEF Found
<1>9. op[c].name \notin page.due
  BY <1>3, <1>7, <1>8
<1>10. page.due \subseteq {templates'[i].name : i \in Found(f)}
  BY <1>3, <1>7, <1>8
<1>11. CASE page.done
  BY <1>2, <1>4, <1>6, <1>7, <1>10, <1>11 DEF PageInv
<1>12. CASE ~ page.done
  <2>1. ASSUME NEW i \in Found(f)', templates'[i].name \in page.due, Place(f, i)' < page.offset
        PROVE  templates'[i].name \in page.read
    <3>1. i \in Found(f)
      BY <1>2, <1>3, <1>4, <1>9, <2>1
    <3>2. Place(f, i) < page.offset
      BY <1>2, <1>5, <1>7, <2>1, <3>1
    <3>. QED
      BY <1>3, <1>8, <1>12, <2>1, <3>1, <3>2 DEF PageInv, Due, ReadIn
  <2>. QED
    BY <1>2, <1>4, <1>6, <1>7, <1>10, <1>12, <2>1 DEF PageInv, Due, ReadIn
<1>. QED
  BY <1>11, <1>12

LEMMA PageStep ==
  ASSUME TemplatesInv, PageInv, [Next]_vars
  PROVE  PageInv'
<1>1. CASE UNCHANGED <<templates, page>>
  BY <1>1 DEF PageInv, Due, ReadIn, Found, Place, Before, Newer, NamesIn
<1>2. CASE ReadPage
  BY <1>2, ReadKeepsPage DEF TemplatesInv
<1>3. ASSUME NEW f, StartReading(f)
      PROVE  PageInv'
  BY <1>3, StartKeepsPage DEF TemplatesInv
<1>4. ASSUME NEW c \in Clients, CreateInsert(c)
      PROVE  PageInv'
  BY <1>4, InsertKeepsPage
<1>. QED
  BY <1>1, <1>2, <1>3, <1>4
  DEF Next, Tick, CreateCheck, CreateLoses, RequestLoad, RequestPlain, Attach, Crash, tables, vars

LEMMA PageAlways == Spec => []PageInv
  BY PageInvInit, InvAlways, PageStep, PTL DEF Spec

(***************************************************************************)
(* Reading the list page by page, whatever the size of a page, whoever     *)
(* creates templates meanwhile and whatever time they are stamped with,    *)
(* skips none that matched when the reader began.                          *)
(***************************************************************************)
THEOREM PagingTheorem == Spec => []PagingSkipsNothing
<1>1. PageInv => PagingSkipsNothing
  BY DEF PageInv, PagingSkipsNothing
<1>. QED
  BY <1>1, PageAlways, PTL

(***************************************************************************)
(* Every variable keeps its type, and no two templates have a name.        *)
(***************************************************************************)
THEOREM TypesTheorem == Spec => []TypeOK
<1>1. Init => TypesInv
  BY TemplatesAssumption DEF Init, TypesInv
<1>2. TemplatesInv /\ TypesInv /\ PageInv => TypeOK
  <2> SUFFICES ASSUME TemplatesInv, TypesInv, PageInv PROVE TypeOK
    OBVIOUS
  <2>1. \A n \in NamesIn(templates) : n \in Names
    BY DEF TypesInv, NamesIn, Rows0
  <2>2. \A k \in DOMAIN events : k[1] \in Names /\ events[k] \in Spec0
    <3> SUFFICES ASSUME NEW k \in DOMAIN events PROVE k[1] \in Names /\ events[k] \in Spec0
      OBVIOUS
    <3>1. PICK i \in DOMAIN templates : k = <<templates[i].name, 0>>
      BY DEF TemplatesInv, ViewIsLog, NamesIn
    <3>2. templates[i] \in Rows0 /\ events[k] = templates[i].spec
      BY <3>1 DEF TemplatesInv, ViewIsLog, TypesInv
    <3>. QED
      BY <3>1, <3>2 DEF Rows0
  <2>3. told \subseteq Rows0
    BY DEF TemplatesInv, CreatedForGood, Kept, TypesInv
  <2>4. page.offset \in Nat /\ page.read \subseteq Names /\ page.due \subseteq Names
    BY <2>1 DEF PageInv, NamesIn, Found
  <2>. QED
    BY <2>2, <2>3, <2>4 DEF TypeOK, TypesInv, TemplatesInv, TableInv, ClientInv
<1>. QED
  BY <1>1, <1>2, TypesStep, InvAlways, PageAlways, PTL DEF Spec
=============================================================================
