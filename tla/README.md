# nexus-attest in TLA+

The repository records decisions (a goal, a policy, approvals, executions) as an
append-only event log, lets clients approve and execute them, and anchors
attestations of them on the XRP Ledger. This directory holds TLA+ models of that
code, the configurations that model-check them with TLC, and proofs that TLAPS
checks.

The repository has two packages, `nexus_attest` and `nexus_control`. They are the
same files under two names: the diffs are import lines. What the models show
holds of both. In `PROJECT.json` a definition that stands for a whole handler is
mapped to the lines of the copy in `nexus_control`, one that stands for a step of
a handler to those in `nexus_attest`.

## 1. The system

| Part | State it keeps | Operations | What is hard about it | What makes it correct |
|---|---|---|---|---|
| decision replay (`decision.py`, `events.py`) | the fields of a `Decision` | `apply_event`, `replay`, `load` | any order of rows; approvals counted by the wall clock; outcome rows go to the *latest* execution record | the projection depends on the log as documented: last word per actor, last row that sets a state, each record with the outcome before the next request |
| policy (`policy.py`) | none | `Policy(...)`, `validate_execution_request` | a value `request()` accepts and the constructor refuses | only an approved, allowed, capable execution passes |
| store (`store.py`) | `decisions`, `decision_events` | `create_decision`, `append_event`, `get_events`; `delete_decision`, `import_decision_atomic`, listings | several processes on one file; `append_event` selects `MAX(seq)+1` and inserts in a second access | sequence numbers contiguous; rows never change |
| tools (`tool.py`) | none between calls | `request`, `approve`, `revoke_approval`, `execute`; `status`, `inspect`, templates, export, import | each call is several transactions over a decision it loaded earlier; it can die between any two; the router answers or raises | no execution without a quorum; the log admits every run and names only real ones, each in its own record |
| lifecycle and readers (`lifecycle.py`; `inspect`, `list_requests`, `export_audit_record` of `tool.py`) | none | blocking reasons, timeline, progress, report, audit record | one answer reads the clock up to nine times; the timeline counts rows, the replay actors | an answer does not contradict itself; a reader is told the truth about what blocks a decision |
| attestation queue and storage (`attestation/queue.py`, `storage.py`) | `attestation_intents`, `attestation_receipts` | `enqueue`, `next_pending`, `record_receipt`, `replay` | a receipt and the status cached from it are two transactions | status follows the receipts; documented transitions and attempt numbers |
| attestation worker (`attestation/worker.py`) | locals of one cycle | `process_one_xrpl` | two awaits on a network, crashes, retries, a second worker | nothing confirmed that the ledger did not validate; nothing anchored again once confirmed; nothing but a stuck head holds others up |
| XRPL adapter and client (`attestation/xrpl`) | none | `plan`, `submit`, `confirm` | the ledger may take a transaction without saying so, or answer too early | every outcome becomes a receipt |
| intents, receipts (`intent.py`, `receipt.py`) | none | construction, digests | data | content addressing |
| templates (`template.py`, `request` of `tool.py`) | `templates`, `template_events` | create, get, list by pages; `request` from a template with overrides | two creators of one name; a page read while others create; a template used transactions after it was read | one creator is told of a name; a decision's template can be checked for ever; pages hide nothing |
| bundles (`bundle.py`, `export.py`, `import_.py`) | none | export, import in three conflict modes | an import is five transactions; overwrite deletes before the replay is validated | an import touches no decision it was not asked to overwrite, leaves no row without its decision, and leaves nothing unvalidated |
| audit packages (`audit_package.py`, `audit_export.py`) | none | build, verify | six checks over digests of digests; the link is that of the latest execution | a package no longer verifies once a part it binds has changed; its link is the decision's own run |
| transport, exchange store (`xrpl/transport.py`, `exchange_store.py`, `jsonrpc_client.py`) | last exchange; request counter; `dcl_exchanges` and files | post, put, get | a field read after an await; a record and two files in five steps that can be refused or cut off | a receipt cites its own exchange, and what it cites is stored |
| attestation replay, narrative (`attestation/replay.py`, `narrative.py`) | none | report, witness, comparison of attempts, checks of the evidence | two reads, any number of the worker's steps between them | what the report shows as final is explained by the receipts beside it and true of the ledger |
| FlexiFlow adapter, signing | none | one cycle; sign, verify | cryptography and tables | not modelled |

How they interact: every tool call goes through `Decision.load` (a read of the
whole log and a replay) and `DecisionStore.append_event`; `execute` also calls
the router, which is outside the repository. The attestation worker is called by
a loop outside the repository, holds no state between cycles, and shares
only the queue's two tables with other workers. The two halves meet through
digests only: an intent names what it attests by digest.

`PROJECT.json` lists every part with its status, and under `hazards` the places
where this code can go wrong in ways a test hardly reaches, each with the
properties that watch it.

## 2. Modules

| Module | What it is |
|---|---|
| `Decision` | rows, policies, and the projection of a decision from its log, as pure operators |
| `Lifecycle` | `compute_blocking_reasons` over that projection |
| `DecisionReplay` | the replay loop, one step per row; shown to compute the projection of `Decision` |
| `DecisionTools` | the store and the four tools, run by clients that interleave and die |
| `DecisionInspect` | the tools that only read, over the states of `DecisionTools` |
| `AuditPackage` | exported bundles, audit packages and their verification, over the same states |
| `DecisionImport` | imports of bundles on the store of `DecisionTools`, beside its clients |
| `Templates` | the template store, requests from templates, a reader of pages |
| `IntentLifecycle` | abstract specification: what the queue promises of each intent |
| `AttestationWorker` | the queue's tables, workers running `process_one_xrpl`, and a ledger |
| `AttestationNarrative` | the report on an intent, read while the worker runs |
| `Exchange` | the adapter's calls down to the wire: client, transport, store of exchanges |
| `ExchangeNarrative` | the wire evidence in a report and the checks made of it |
| `Decision_proofs` | lemmas about the operators of `Decision`: what one more row changes in each |
| `DecisionReplay_proofs` | the loop computes the projection |
| `DecisionTools_proofs` | theorems about the store and the four tools |
| `DecisionInspect_proofs` | theorems about the tools that read, exports and packages |
| `DecisionImport_proofs`, `Templates_proofs` | theorems about the module of that name |
| `AttestationWorker_proofs` | theorems about the queue, its worker and the report; one worker implements `IntentLifecycle` |
| `Exchange_proofs` | theorems about `Exchange` and `ExchangeNarrative` |
| `MC*` | values of the constants and symmetry for TLC |

### Decision and DecisionReplay

A log is a function from sequence numbers to rows, as the table is keyed by
`(decision_id, seq)`. `Decision` says what the replay of a log yields, without a
loop: `ActiveApprovers` (an actor's last word is a grant that has not expired),
`StateOf` (the last row that sets a state, and the approvals while that row is
`POLICY_ATTACHED`), `Outcomes` and `RunOf` (the rows between one request and the
next), `Loadable` (every policy row satisfies the constructor: threshold, modes and `max_steps`). The other
modules use these, because they are easier to read and to prove about than a
fold.

`DecisionReplay` is the code's own loop: `state`, `policy`, `approvals` and
`executions` are the fields of the `Decision` object, and each action is one
case of `apply_event`. Its log is unconstrained, as an imported one may be in any
order, and may hold what `execute` never writes: a failure whose payload names a run (`FailedRun`).
The rows are well-typed: a payload that lacks a field makes the replay raise, and is left out. Its invariants say that the loop computes `Decision`'s operators, so that
using them elsewhere is faithful to the code.

### DecisionTools

`decisions` and `log` are the tables; `stage`, `op` and `seen` are what each
client's call holds in memory; `runs` is what the router completed. A call is
split where other clients can run: `request` commits the decision's header, then
two rows; `approve` and `revoke_approval` load and append; `execute` loads, validates
against what it loaded and the clock of that moment, appends
`EXECUTION_REQUESTED` and `EXECUTION_STARTED`, runs the router and appends the
outcome. `append_event` is two accesses, `AppendSelect` and `AppendInsert` or
`AppendConflict`: Python's `sqlite3` does not open a transaction for a SELECT, so
nothing is locked until the INSERT, and the primary key refuses the loser. `AppendFails` is a
database that is locked, full or unreadable at either access. Inside `execute`'s `try` block every
exception is taken for a router error, and `EXECUTION_FAILED` is appended: that of the router (`RouterRaises`), that of
a failed append of `EXECUTION_COMPLETED` (`AppendRaises`), and that of an answer which is no dict, cannot be digested or
counts no steps (`RouterUnreadable`). In the last two the router has completed the run.

The row `EXECUTION_REQUESTED` carries a field the table does not have, `checked`:
the clock by which `execute` counted the approvals. No action reads it; properties do.

### Lifecycle, DecisionInspect and AuditPackage

What these three say is a function of a log and of readings of the clock, so they
have no variables of their own: their properties quantify over the logs that
`DecisionTools` reaches. `Blocking` takes the state the replay ended with and
the clock of the count separately, as the code does. An answer of `inspect` or `list_requests` is made of up to
nine readings of the clock, in the order of the code (the replay, the reasons, the progress, its readiness, the verdict,
two for the approval section, two for the page); `Clocks` are the sequences of readings in which time
does not go back. `Timeline` is the list with its synthetic entry
`THRESHOLD_MET`, `Truncated` its last `limit` entries.

In `AuditPackage` a digest is the value it digests. `Export` is `export_decision`
with the router link of the latest execution, `ExportAuditPackage` its wrapper in both modes with its
refusals (the empty set), `Checks` the six checks of
`verify_audit_package`. `Corrupted` changes one bound part.

### DecisionImport

Extends `DecisionTools`: every tool step is a step here (`ToolStep`), with the
importers beside it. `imp` is what an import holds in memory, `phase` what it does
next: `StartImport` is everything up to the call of `import_decision_atomic`
(digest, existence, conflict mode, sequence numbers); `CheckExists` is the SELECT of that
function, which no transaction covers yet; `WriteImport` is its
transaction with the DELETEs and INSERTs, or `WriteRaises` when a key collides;
`ReplayImport` is `_validate_replay` (`ReplayRaises`: a
read that fails, which it takes for a bad decision too), `DeleteImport` the rollback. A refused import
has no step. With imports, a decision can vanish between a tool's load and its
append: `AppendMissing`, and the foreign key in `Accepted`, are what the store does then.
`drawn` keeps uuids fresh; `unchecked` is a history variable no action reads.

`Bundles` is a constant: an export only reads, and an importer is handed any file,
fresh, stale or edited.

### Templates

`templates` is the table in the order of its rows, `events` the table of events,
`attached` the `POLICY_ATTACHED` rows of the decisions requested. `CreateCheck` is the
look for the name, `CreateInsert` the transaction with its two INSERTs, or
`CreateLoses` with the rollback when another creator came first. `RequestLoad` reads the template and
makes the policy, snapshot and overrides; `Attach` is the append, transactions later.
`ReadPage` is a caller that pages through `list_templates` until a page is not full.

### AttestationWorker and IntentLifecycle

`intents` and `receipts` are the tables, `pc`, `queued` and `receipt` the locals
of each worker's cycle, `txs` what the ledger took. `Fetch` is lines 85-104 of
`worker.py`, up to the first await, for a cycle over the whole queue or over one
intent asked for; when `plan` raises, the cycle ends and nothing has
changed. An intent that was tried `MaxAttempts` times is fetched no more in the model, and stays at its place in the queue. `SubmitAccepted` and `SubmitFailed` are the first await coming back,
`ConfirmFailed`, `ConfirmDeferred` and `ConfirmValidated` the second.
`InsertReceipt` and `UpdateStatus` are the two transactions of `record_receipt`.
`SubmitFailed` may happen after the ledger took the transaction: the connection
broke on the way back.

`IntentLifecycle` is the list of transitions in the head of `queue.py`, with its
attempt numbers. `KeepsLifecycle` says that the status and the attempt in the
table, as one worker changes them, make only those moves.

`AttestationNarrative` adds a reader. `ReadRow` is the first read of `show_intent`, of the
row of an intent, and `header` keeps what it returned. The second read, of the receipts, may come in any later state, so the
report (`ShowIntent`) of `header` and of the receipts as they are is what the reader may have in his hands, and what is
said of it is an invariant: any number of the worker's steps fall between the reads.

### Exchange and ExchangeNarrative

A task is one running call of `adapter.submit` or `adapter.confirm`. Tasks of one process share
its transport (`last`) and its request counter, and give way to each other only at the two
awaits, `sent` and `closing` (`Scheduled`); processes share the store and interleave at every
step of `put`: the record, then for each body the look for its file, the open that
empties it, and the write. `PutRefused` is a database or a disk that refuses, `Crash` a
process that dies; both cost one of `MaxFaults`. A receipt cites what `last` holds once the HTTP client has closed.
`ExchangeNarrative` is the look-up of that evidence and the checks of the report.

## 3. Runs

| Run | What it asks | Bounds | States |
|---|---|---|---|
| `replay` | does the loop compute the projection? | every log of up to 5 rows, 2 actors, policies of threshold 0 (invalid), 1 and 2, grants with and without an expiry, replayed before and after it, failures with and without a run id | 2.1 M |
| `tools` | what survives interleaving, failures and crashes? | 2 clients, 1 decision, 2 actors, threshold 2 with a capability (and an invalid policy: `max_steps` 0, an unknown mode), both modes, 10 rows, 2 approvals or revocations, 2 requests, clock 0..1 | 753 k |
| `tools_one_client` | what holds as long as one client at a time is at work? | 1 client, thresholds 0, 1 and 2, 2 actors, 10 rows, 4 approvals or revocations, 2 requests, clock 0..1 | 31 k |
| `import` | what may imports do to a store in use? | 1 client, 2 importers, 2 ids, 3 bundles (sound, edited so that it does not load, with a gap), 3 rows, crashes and failing reads | 486 k |
| `worker` | what survives two workers and a crash? | 2 workers, 1 intent, 2 attempts, accepted submits with and without a hash, 1 crash | 3.8 M |
| `worker_single` | does the single process of the documentation keep its promises, and what is a report worth that is read meanwhile? | 1 worker, 2 intents, FetchLimit 1, 2 attempts each, reports on the second, 1 crash, fairness | 631 k |
| `templates` | what may creators, requesters and a reader rely on? | 2 clients, 3 names, 2 template contents (and one that is refused), 1 decision, 3 creations, pages of 1, clock 0..1, crashes | 900 k |
| `exchange` | what is wire evidence worth? | 2 tasks in a process each, 1 transaction, 2 requests per process, 1 fault | 3.3 M |

Four more runs end in a counterexample: they check a sentence of the
documentation that the code does not keep (section 6).

The bounds, and why they suffice. `MaxRows` stops a call once its log is that
long; `MaxVotes` and `MaxRequests` stop a call of `approve` or `revoke_approval`, or of `execute`, from beginning once the
log has as many such rows (calls that have begun go on, so races pass both bounds). A request, two approvals and two whole executions
take ten rows: in `tools` the second may have another mode than the first, overlap it, lose its outcome to it, or be made of a
`COMPLETED` that conflicts and the `FAILED` after it. With one client, four votes are two actors who
approve, revoke and approve again before an execution; with fewer votes a second execution follows. Sequence conflicts need two clients, and a third only repeats them. A timeline limit of 3 truncates
every log that got as far as an approval. In the runs of `DecisionTools` one decision
is enough because no tool reads or writes the log of another one; `import` has two ids,
one of the bundles and one for a request or a copy, and three rows, one more than a bundle, so that a client can append to what was
imported. There `MaxRuns` is 0: no run of the router returns (the runs above cover that),
and the clock stands still. `MaxTime` is 1 because an
expiry is either passed or not. `MaxAttempts` caps how often an intent is submitted, never how a node
answers: each attempt may be answered too early. Two attempts are a first one and a retry; `MaxCrashes` is one, which
leaves every step half done once. The reader asks for the second intent, the one that waits behind the other; for each
report the worker may take any number of steps between the reads. `FetchLimit` is 10 in the
code; 1 is below the two intents of `worker_single`, and 2 above the one of `worker`. `Times` is one
`created_at`, so that the tie-break by digest decides. Three template names and pages of one
give a reader pages before, at and behind a newcomer. One transaction and two requests per process
are a submit and a confirm; ids start at 1 in each process, so that two processes whose first
requests are equal write the same body, which is when writers meet in the store. A node answers in one of four ways there (queued,
not found, validated, not JSON); the theorems of `Exchange_proofs` hold for every set of answers, a rejected submit and a
transaction found but not validated among them. Constants that are sets of interchangeable actors, clients or workers
are symmetric; the runs with liveness or refinement use no symmetry.

Deadlock is not checked: a replay ends, a call stops at a bound, and a queue with
nothing pending has nothing to do.

**Properties of `replay`.** `ApprovalsAsLogged`, `StateAsLogged` (the policy with it),
`ExecutionsAsLogged`: the fields are the projection. In particular a
late grant or revocation never brings an executed decision back to
`approved`, and a log replays to the end exactly when all its policies are valid.

**Properties of `tools`.** `SeqContiguous` and `AppendOnly` about the log itself.
`PipelineOrder`: creation and policy are rows 0 and 1 and nowhere else,
so that nobody approves a decision whose `request` died half way. `RequestsJustified`: behind
every execution there was a version of the log, and a time, at which the quorum
was there. `CompletionsReal`: a completion names a run of this decision, in the
mode that was announced, once. `RunsAdmitted`: every run has its
`EXECUTION_STARTED` row, whatever died or failed afterwards.

**Properties of `tools_one_client`.** `QuorumWhenRequested` (the quorum is there in
the log the request is appended to), `RevokedBeforeExecution`, `OneVoice` (no
actor approves twice), `RecordsTruthful` (a record that names a run names one made for this decision in the
mode it was requested and digested in, later records name later runs, and there are never more runs than records that
started; it does not say that a failed record hides no run, see section 6). With two clients none of the four is promised:
`tools_stale` shows the first one failing. `TimelineTruthful`: "threshold met" stands
after the first grant with which enough different actors approve, and the end of
the log is always shown. `AuditRecordAgrees`: the record's rows give the count and the status it reports.
`InspectCoherent`: an answer counted at several
clocks does not contradict itself about approvals, reasons and readiness.
`ExecutedExportStable`: once an execution has started, a log exports under one digest
whatever the clock says. `PackageTight`: every package the exporter makes verifies, and none verifies after one bound part was changed or
replaced by that of an earlier export. `LinkTrue`: the run a
package links to is this decision's latest, in the mode of the linked request.

**Properties of `import`.** `NoOrphans`: no row without its decision, even when a
rollback overtakes an append. `UnaskedKept`: an import that was to reject or rename never costs an
existing decision a row, even one that appeared after it looked; rows go only by an
overwrite that was asked for or a rollback. `BadImportsWatched`: a decision that
cannot be loaded is about to be found and deleted by an import, or was left by one that
was not asked to replay or died. `ImportTypeOK` also says that what is written has no gap.

**Properties of `templates`.** `ViewIsLog`: the table of templates and the log of events
agree, whoever raced or died. `CreatedForGood`: who was told of a creation finds exactly that
template ever after, and of two racing creators one is told. `RefsTrue`: the template a decision
names exists with the recorded digest, and its policy is the recorded content with the recorded overrides.
`PagingSkipsNothing`: paging hides no template that was there at the beginning.

**Properties of `exchange`.** `EvidenceSupports`: reading the exchange a receipt cites, and
nothing else, gives the receipt. `NarrativeClean`: no check of a receipt's evidence
fails, and as long as nothing died or was refused a body that is reported as there is whole or just being written.

**Properties of `worker`.** `StatusHasReceipt`: status and attempt of an intent
are those of one of its receipts, though they are written in another transaction and
two workers may overtake each other. `ConfirmedIsReal`: a confirmation names a
transaction of this intent and attempt that the ledger validated.

**Properties of `worker_single`.** `KeepsLifecycle`. `ConfirmedOnce`: once an intent has
a CONFIRMED receipt, the ledger takes no other transaction for it and no other receipt of it is recorded, even when the
worker died before the status said so. `EventuallyProcessed`: in the end every intent has left PENDING and
DEFERRED, but for those at or behind one that is stuck: it cannot be planned, or was tried
`MaxAttempts` times and deferred each time. The bound stands for "ever again": a head that nodes answer "not validated"
at every poll keeps its `created_at`, is fetched in every cycle, and starves all others, which the property does not deny; it says that
nothing else does (a crash, a failure, later arrivals). `NarrativeAgrees`, of a report read in two
transactions: the status shown, unless PENDING, is that of a receipt shown with it; a terminal status is the last word;
CONFIRMED comes with a witness of the attempt in the header; a witness is a validated transaction of the intent; no attempt
that was confirmed is compared with a later one. PENDING, SUBMITTED and DEFERRED may be out of date beside a CONFIRMED receipt.

**Fairness.** `FairSpec` assumes that the caller keeps starting cycles over the whole queue and that
every await comes back (weak fairness of each worker's own steps: a cycle is
plain sequential code whose requests have timeouts), and that the ledger validates what it took.
It does not assume that anyone enqueues, asks for one intent, or dies, nor that a node ever stops answering too early:
`ConfirmDeferred` is always possible. `MaxAttempts` is a bound on the model, in the guard of `Fetch`; what it leaves unprocessed
is what `HeldUp` names.

Every property has a mutant in `PROJECT.json`: the definition of one operation as a plausible bug
would have it (the module shows it just before the real one), under which TLC finds
the property violated.

## 4. Proofs

Every invariant and every action property that a passing run checks is also a theorem, for every value of
the constants (any numbers of clients, decisions, actors, templates, intents and tasks, any bounds). The
assumptions the modules name only state what the constants are. Four theorem hypotheses say more, each where
the properties are false without it (TLC finds each violated on the configuration of its run with the hypothesis
dropped: a second client, a second worker, a shared transport, a limit of 1):

| Hypothesis | What it says | Why |
|---|---|---|
| `OneClient` | one client at a time, with any number of calls, deaths and readings of the clock | two clients break it (section 6) |
| `OneWorker` | one worker, which may die and come back | `queue.py` documents a single process |
| `OwnTransports` | no two tasks share a transport | FlexiFlow's handler makes one for each call; shared ones break it (section 6) |
| `TimelineLimit # 1` | the timeline is not cut to a single entry | `inspect` asks for 20; a single entry may be "threshold met" |

`JunkIsForeign` (of `PackageTheorem`) says that the value put in place of a part is none the code computes, and
`OfferedValid` (of `WatchedTheorem`) that the policies requested are valid: `request` accepts others, which is
no fault of an import.

**`Decision_proofs`** has what the others rest on: the log with one more row (`Extended`) against each operator
of `Decision` (`ExtendedStands`, `StateAtSetting`, `RowGoesToLatest`, `RecordAfterRow`, ...). Where an argument needs
induction, over the rows of a log or the elements of a set, it takes the first counterexample (`HasFirst`, from
the well-foundedness of `<`) and shows that there was one before it.

**`DecisionReplay_proofs`**: `ReplayTypes`, `ReplayCountsApprovals`, `ReplayReachesState`, `ReplayBuildsRecords`: the
loop has, after every row, the approvals, the state and the execution records that `Decision` reads off the
log as a whole. This is what makes the use of `Decision` in the other modules faithful to the code, for logs in any order. The
invariant `ReplayInv` adds that rows have no gap and that the dict keeps lapsed approvals too
(`DictOf`): the property speaks only of those that count now, and the clock may move.

**`DecisionTools_proofs`**:

- `TypeCorrect`, `Contiguous`. Neither `TypeOK` nor `SeqContiguous` is
  inductive. An INSERT keeps the log contiguous only if the number it carries was
  selected from this log and the log has at most grown since: `SelectedInReach` says so (a
  selected number is at most the length of the log), and then the
  primary key leaves only the length itself. `RowMatchesStage` says which rows a
  call can hold at each stage, which `AfterInsert` and the router steps depend on.
- `LogAppendOnly`: an insert adds a key that was free.
- `QuorumWasThere`: `[]RequestsJustified`. The witness is the version
  of the log the call loaded, so the invariant says of each client that what it loaded is still a
  prefix of the log (`LoadedEarlier`), that what it validated satisfies the policy
  at the time it kept (`Validated`), and that the row it still has to append is not another
  request (`NextNotRequested`); append-only keeps prefixes prefixes.
- `PipelineTheorem`: `[]PipelineOrder`. A row that begins a decision can
  be in flight while others look at it, so the invariant says that a decision that is not
  there has no rows (`Fresh`), that no two clients begin the same one (`OneBegins`), and that
  a client's next row fits the length of the log, every call but `request` having found row 1 (`InOrder`).
- `CompletionsTheorem`: between the router's answer and its row a run is in one
  client's hands: it exists, no row names it, and no other client holds it
  (`InHand`); and a client at the router has an `EXECUTION_STARTED` row behind it (`Announced`).
- `AdmittedTheorem`: `[]RunsAdmitted`, by counting. The bound is not inductive
  over completed runs alone: the clients at the router count too (`Admitted`).
- `QuorumTheorem`, `OneVoiceTheorem`, `RevokedTheorem`, for one client. `FitInv` says that every row met, in the
  log before it, the conditions its tool had checked (`RowsFit`), and that the row a call is about to append meets
  them in the log as it is (`CallFits`).
- `RecordsTheorem`: `[]RecordsTruthful`, for one client. A client that has requested an execution owes the latest record a
  start and then an outcome (`Owed`). The start pays in advance for the run to come (`Covered`: one more record than runs while a
  client is at the router); after that it does not matter whether the outcome is recorded as COMPLETED or, after an exception, as FAILED.

**`DecisionInspect_proofs`**. These properties are functions of a reachable log, so the work is in lemmas about
logs, applied to the invariants above:

- `InspectTheorem`: approvals only lapse from one reading of the clock to the next
  (`ActiveLapses`); the rest is the order of the readings.
- `TimelineTheorem`, for one client. In a log whose rows were all checked, grants less revocations
  are the number of actors who approve (`TallyIsVotes`), a number that moves by one at most, so it meets the threshold exactly where it
  first reaches it (`MetIsFirst`). `SortedIs` gives the list that the definition of `Timeline` chooses by counting.
- `ExportTheorem` (`[]ExecutedExportStable`), `AuditTheorem` (`[]AuditRecordAgrees`): what an approval record
  says is what `Stands` says (`RecordOfActive`), and what a later start cannot undo.
- `LinkTheorem` (`[]LinkTrue`), for one client, from the invariant of `RecordsTheorem`.
- `PackageTheorem`: `[]PackageTight`. `PackageMade` is what an export can return, `VerifiedIs` the six checks as
  one formula; then each bound part, exchanged, breaks one of them.

**`DecisionImport_proofs`**:

- `NoOrphansTheorem`: the foreign key is what does it: a step other than a
  rollback takes no decision away and gives rows only to one that is there (`Adds`).
- `UnaskedTheorem`: an import deletes before it writes only
  what it had found, and goes on after finding a decision only when told to overwrite (`Asked`); otherwise the
  keys of the two tables refuse the INSERTs.
- `WatchedTheorem`: `[]BadImportsWatched`. The rows in the hands of
  tools are sound (`CallsSound`), a fresh decision has none, and what an import writes it goes on to
  replay, or says that it does not.
- `ImportTypesTheorem`: `[]ImportTypeOK`. An overwrite may leave a gap in a log, so a log is bounded here (`Bounded`) rather
  than contiguous, and only what an import holds is (`FromZero`).

**`Templates_proofs`**: `ViewTheorem`, `CreatedTheorem`, `RefsTheorem`: names are
unique, and what a client read of a template still stands in the table: rows are
only appended, so a template in hand is as good as one in the log. `PagingTheorem`: a newcomer moves a template
only down the list (`PlacesGrow`, `InsertKeepsPage`), so what was due and is above the offset has been read (`PageInv`).
`TypesTheorem`: `[]TypeOK`.

**`AttestationWorker_proofs`**:

- `TypeCorrect`, together with the fact that the ledger forgets nothing (`TxsGrow`).
- `StatusDerived`: `[]StatusHasReceipt`. An update copies the receipt the
  worker holds, so the invariant adds that a worker about to update has inserted that receipt
  (`InsertedFirst`); receipts are never removed, whoever dies.
- `ConfirmationsReal`: `[]ConfirmedIsReal`. The link between a confirmation and
  its transaction is made at the first await and used after the second, so the
  invariant carries it through the worker's hands (`InHand`) to the table (`InTable`).
- `LifecycleTheorem`: `Spec => KeepsLifecycle`, one worker implements `IntentLifecycle`; `ConfirmedOnceTheorem`.
  `CycleInv` relates the place of the one worker to the row and the receipts of its intent: what it read is
  still there until it writes (`Begun`, `Submitted`, `Recording`), and a confirmed intent
  is in nobody's hands (`Settled`).
- `NarrativeTheorem`: `ReportSpec => []NarrativeAgrees`. Between the two reads no receipt is lost and a row whose status is
  terminal stays as it is (`RowsStay`), so what explained the header still does (`Seen`); `ReachedInv` bounds every receipt's attempt by
  the row's, or the next while the row is eligible for one, and puts a confirmed receipt at the row's own attempt.

**`Exchange_proofs`**:

- `TypeCorrect`, with the shape of a task's locals at each place (`TypeInv`).
- `EvidenceTheorem`: `[]EvidenceSupports`.
  From the answer on, the transport's last exchange is the task's own, and a response that has been
  parsed is not garbage.
- `NarrativeTheorem`: `[]NarrativeClean`. What a task has put is in the store or still to be put
  (`Stored`), a receipt cites only what is there (`AllCited`), and nothing is ever removed (`StepGrows`).

Only model-checked: liveness (`EventuallyProcessed`), which the prover does not handle, and the four
counterexamples of section 6. No module of the project declares a recursive operator.

## 5. What is left out

- Payload data: goals, plans, labels, comments, digests as bytes, timestamps of rows. A digest is what it is a digest of.
- A naive `expires_at` (without a time zone) makes the comparison in the replay raise
  `TypeError`; expiries are modelled as times that compare.
- SQLite's "database is locked" in a load: the call fails as in a crash before that access. (In an append it is `AppendFails`.)
- A router response without a run id, which `execute` records as a completion of the run "unknown". `CompletionsReal` assumes
  that the router, which is external, names each run, and names it once.
- Rows whose payload lacks a field or has one of another type: the replay raises, as it does for a bad policy.
- The format of bundles: schema, canonical form and provenance. What an import checks of
  them is whether it goes on. Rendered text, and the digest of a narrative.
- Parts of a package that the binding does not cover: `meta`, `provenance`, the name of the algorithm,
  `router.ref.run_id` in reference mode, and the content of an embedded router bundle, of which only
  the digest field is compared. `PackageTight` is about the bound parts.
- `AppendOnly`, `SeqContiguous` and the other properties of `DecisionTools` are about
  its four tools alone. Imports delete and replace rows, and an overwrite between the two
  accesses of `append_event` leaves a gap.
- A store in memory shared by threads of one process: they share one connection, and
  the rollback of one undoes what another has begun. `Templates` and the others are about
  database files, where each client has its own.
- Times of rows: `created_at` and `ts` are read before the transaction that stores them. Nothing
  but the order of lists depends on them (the timeline is sorted by sequence number).
- Two receipts of one intent and attempt that differ only in `created_at` count as one.
- The worker looks for an intent it was asked for among the first ten pending ones only.
- Signing compares digests and signatures of one document; the FlexiFlow adapter calls the worker once and
  maps the last receipt's status to an outcome (a SUBMITTED receipt without a hash
  becomes DEFERRED for the caller, though the queue does not retry it). Canonical JSON, digests, memo and transaction encoding are
  pure encodings. None of them keeps state: they are `not_modelled`.
- Of the parts that are `partly` modelled, what is missing is in the notes of `PROJECT.json`.

## 6. Where the code and its documentation disagree

| Run | Sentence | What the code does |
|---|---|---|
| `tools_stale` | "Execution requires approvals to satisfy policy at execution time" (`README.md:305`) | approvals are checked on what was loaded; a revocation committed in between succeeds and is ignored |
| `import_rollback` | "either all succeeds or nothing is written" (`store.py:412`), "Rollback the import" (`import_.py:235`) | the rollback of a failed overwrite deletes the imported decision; the one it replaced is gone |
| `worker_attested` | "will attest, eventually, provably" (`queue.py:4`) | a crash that leaves an intent SUBMITTED leaves it so for ever |
| `exchange_torn` | "Already stored (content-addressed, immutable)" (`exchange_store.py:273`) | the look for a file and its opening are two steps: a second process empties the file that the first has just written |

Met while modelling, without a run of its own:

- An exception after the router has completed a run (`tool.py:519-545`: the answer cannot be read, or the append of
  `EXECUTION_COMPLETED` fails) is recorded as `EXECUTION_FAILED` with `run_id=None`: a failed record may hide a run that was made. No
  document says otherwise. `RecordsTruthful` says what remains true: the record was started, and no run is without one.
- A report's status may be out of date beside its receipts (`narrative.py:468` and `:501` are two reads): a report can show PENDING
  or DEFERRED with a CONFIRMED receipt and its witness.
- An intent whose transaction nodes never call validated is deferred at every poll and keeps its place at the head of the queue:
  whatever is behind it waits (`worker.py:99`).
- `_validate_replay` takes every exception for a bad decision (`import_.py:336`): a database that cannot be read for a moment costs a good
  import its decision.
- `lifecycle.py:182` and `:193` call a decision after an execution "terminal"; `execute` never looks at
  the state, and a second call runs the router again on the same approvals.
- The handbook (`index.md:48`) says that the same log always gives the same state; the replay counts
  approvals by `datetime.now()`, so before an execution the state, and the digest of an export, depend on the clock.
- `receipt.py:13` calls (intent, attempt) unique; a crash between submit and receipt leads to a second transaction
  under the same number.
- Two tasks that share one transport may cite each other's exchanges: `EvidenceSupports` is violated when
  `ProcessOf` maps both tasks of `MCExchange` to one process. FlexiFlow's handler makes a transport for each call.
- `adapter.py:299` says "FAILED on error"; an error in answer to `tx` becomes a DEFERRED receipt.
- An approval that has expired but was not revoked refuses a new approval of the same actor.
- `list_requests` fails as a whole when one decision on the page cannot be loaded.

## 7. Plan

What is left, in the order in which it matters:

1. Exports imported again: the bundles of `AuditPackage` as the `Bundles` of `DecisionImport`, and the theorem that
   what `export_decision` makes of a reachable decision that loads is never refused by the replay of an import.
2. Threads on a shared in-memory connection: the transaction of one rolled back by another.
3. Signing, if it comes to keep state.
