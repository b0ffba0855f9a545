----------------------------- MODULE DecisionTools -----------------------------
(***************************************************************************)
(* NexusControlTools over a DecisionStore: request, approve,               *)
(* revoke_approval and execute, run by clients that share the database     *)
(* file.  A client is one process (or thread) that runs one tool call at a *)
(* time; it may die at any point, and what it held in memory is lost.      *)
(*                                                                         *)
(* Each tool call loads the decision, checks it, and appends rows.  Each   *)
(* load and each append is a transaction of its own, and append_event is   *)
(* two database accesses: the SELECT of MAX(seq) and the INSERT.  Python's *)
(* sqlite3 opens the write transaction only at the INSERT, so other        *)
(* clients run between the two; the table's primary key is what refuses    *)
(* the second of two INSERTs with the same sequence number.                *)
(*                                                                         *)
(* The router is external: it completes a run and answers with its id, or  *)
(* with something execute() cannot read, or it raises.                     *)
(***************************************************************************)
EXTENDS Lifecycle, Sequences

CONSTANTS Clients,     \* processes using the store
          Decisions,   \* the ids request() may draw
          Offered,     \* policies a caller asks for (template and overrides resolved)
          Expiries,    \* expires_at values approvers give
          MaxRows,     \* bound: no call goes on once a log has MaxRows rows
          MaxVotes,    \* bound: no approve or revoke begins once a log has MaxVotes such rows
          MaxRequests, \* bound: no execute begins once a log has MaxRequests such rows
          MaxTime,     \* bound: the clock
          Faulty       \* whether clients may die and the database may fail

ASSUME ToolsAssumption ==
  /\ Offered \subseteq Policies
  /\ Expiries \subseteq Int
  /\ MaxRows \in Nat
  /\ MaxVotes \in Nat
  /\ MaxRequests \in Nat
  /\ MaxTime \in Nat
  /\ Faulty \in BOOLEAN

VARIABLES decisions,   \* table decisions: the ids that exist
          log,         \* table decision_events, by decision
          now,         \* the wall clock
          stage,       \* what each client does next
          op,          \* the local variables of each client's call
          seen,        \* the events of the decision each client loaded
          runs         \* the runs the router has completed; a run id is a place in it

store == <<decisions, log>>
locals == <<stage, op, seen>>
vars  == <<decisions, log, now, stage, op, seen, runs>>

(***************************************************************************)
(* The locals of a call: the decision it is about, the row it is           *)
(* appending, the row to append after that one (if any), and the sequence  *)
(* number it selected.  seen is kept while the call still depends on it.   *)
(***************************************************************************)
Stages == {"idle", "validate", "select", "insert", "run"}
Op     == [dec : Decisions, row : Event, next : SUBSET Event, seq : Nat]
NoOp   == [row |-> Failed]
Run    == [dec : Decisions, mode : Modes]

Init ==
  /\ decisions = {}
  /\ log = [d \in Decisions |-> EmptyLog]
  /\ now = 0
  /\ stage = [c \in Clients |-> "idle"]
  /\ op = [c \in Clients |-> NoOp]
  /\ seen = [c \in Clients |-> EmptyLog]
  /\ runs = <<>>

\* A call is entered with its first load and its checks passed.
Enter(c, st, d, l, row, next) ==
  /\ stage[c] = "idle"
  /\ stage' = [stage EXCEPT ![c] = st]
  /\ op' = [op EXCEPT ![c] = [dec |-> d, row |-> row, next |-> next, seq |-> 0]]
  /\ seen' = [seen EXCEPT ![c] = l]

Return(c) ==
  /\ stage' = [stage EXCEPT ![c] = "idle"]
  /\ op' = [op EXCEPT ![c] = NoOp]
  /\ seen' = [seen EXCEPT ![c] = EmptyLog]

\* the next row client c appends
Emit(c, row, next) ==
  /\ stage' = [stage EXCEPT ![c] = "select"]
  /\ op' = [op EXCEPT ![c].row = row, ![c].next = next]
  /\ seen' = [seen EXCEPT ![c] = EmptyLog]

-----------------------------------------------------------------------------
(***************************************************************************)
(* request: the header is a transaction of its own, before the two rows.   *)
(* The mode must be allowed; nothing else of the policy is checked.        *)
(***************************************************************************)
Request(c, d, p, m) ==
  /\ d \notin decisions
  /\ m \in p.modes
  /\ decisions' = decisions \cup {d}
  /\ Enter(c, "select", d, EmptyLog, Created(m), {PolicyAttached(p)})
  /\ UNCHANGED <<log, now, runs>>

MayVote(d) == Cardinality(Rows(log[d], ApprovalTypes)) < MaxVotes

(***************************************************************************)
(* approve: an approval of the same actor that is not revoked refuses it,  *)
(* even when that approval has expired.  The first two are mutants: one    *)
(* does not look at the state, the other not at the actor's own approval.  *)
(***************************************************************************)
ApproveAnyState(c, d, a, e) ==
  /\ d \in decisions
  /\ MayVote(d)
  /\ Loadable(log[d])
  /\ ~ \E g \in DOMAIN log[d] : Stands(log[d], g, a)
  /\ Enter(c, "select", d, EmptyLog, Granted(a, e), {})
  /\ UNCHANGED <<store, now, runs>>

ApproveTwice(c, d, a, e) ==
  /\ d \in decisions
  /\ MayVote(d)
  /\ Loadable(log[d])
  /\ StateOf(log[d], now) \in {"pending_approval", "approved"}
  /\ Enter(c, "select", d, EmptyLog, Granted(a, e), {})
  /\ UNCHANGED <<store, now, runs>>

Approve(c, d, a, e) ==
  /\ d \in decisions
  /\ MayVote(d)
  /\ Loadable(log[d])
  /\ StateOf(log[d], now) \in {"pending_approval", "approved"}
  /\ ~ \E g \in DOMAIN log[d] : Stands(log[d], g, a)
  /\ Enter(c, "select", d, EmptyLog, Granted(a, e), {})
  /\ UNCHANGED <<store, now, runs>>

\* mutant: the state is not looked at
RevokeAnyState(c, d, a) ==
  /\ d \in decisions
  /\ MayVote(d)
  /\ Loadable(log[d])
  /\ \E g \in DOMAIN log[d] : Stands(log[d], g, a)
  /\ Enter(c, "select", d, EmptyLog, Revoked(a), {})
  /\ UNCHANGED <<store, now, runs>>

Revoke(c, d, a) ==
  /\ d \in decisions
  /\ MayVote(d)
  /\ Loadable(log[d])
  /\ StateOf(log[d], now) \notin {"executing", "completed"}
  /\ \E g \in DOMAIN log[d] : Stands(log[d], g, a)
  /\ Enter(c, "select", d, EmptyLog, Revoked(a), {})
  /\ UNCHANGED <<store, now, runs>>

(***************************************************************************)
(* execute: load, ask the router for the adapter's capabilities, validate  *)
(* against what was loaded and the clock as it is then.  The state of the  *)
(* decision is not looked at.                                              *)
(***************************************************************************)
ExecuteLoad(c, d, m) ==
  /\ d \in decisions
  /\ Cardinality(Requests(log[d])) < MaxRequests
  /\ Loadable(log[d])
  /\ Enter(c, "validate", d, log[d], Requested(m, now), {})
  /\ UNCHANGED <<store, now, runs>>

\* mutant: expired approvals count
ExecuteCountsExpired(c, answer) ==
  LET m == op[c].row.mode
  IN  /\ stage[c] = "validate"
      /\ HasPolicy(seen[c])
      /\ Cardinality(Granting(seen[c])) >= PolicyOf(seen[c]).min
      /\ m \in PolicyOf(seen[c]).modes
      /\ Capable(seen[c], answer)
      /\ stage' = [stage EXCEPT ![c] = "select"]
      /\ op' = [op EXCEPT ![c].row = Requested(m, now), ![c].next = {Started(m)}]
      /\ UNCHANGED <<store, seen, now, runs>>

ExecuteValidate(c, answer) ==
  LET m == op[c].row.mode
  IN  /\ stage[c] = "validate"
      /\ MayExecute(seen[c], m, now)
      /\ Capable(seen[c], answer)
      /\ stage' = [stage EXCEPT ![c] = "select"]
      /\ op' = [op EXCEPT ![c].row = Requested(m, now), ![c].next = {Started(m)}]
      /\ UNCHANGED <<store, seen, now, runs>>

ExecuteRefused(c, answer) ==
  /\ stage[c] = "validate"
  /\ ~ (MayExecute(seen[c], op[c].row.mode, now) /\ Capable(seen[c], answer))
  /\ Return(c)
  /\ UNCHANGED <<store, now, runs>>

-----------------------------------------------------------------------------
(***************************************************************************)
(* append_event.  It looks for the decision, selects a sequence number and *)
(* inserts; any of the three may fail.  NextSeqUncoalesced and             *)
(* NextSeqFromOne are mutants: a forgotten COALESCE or a wrong default.    *)
(***************************************************************************)
NextSeqUncoalesced(l) == IF DOMAIN l = {} THEN -1 ELSE Last(DOMAIN l) + 1
NextSeqFromOne(l)     == IF DOMAIN l = {} THEN 1 ELSE Last(DOMAIN l) + 1

NextSeq(l) == IF DOMAIN l = {} THEN 0 ELSE Last(DOMAIN l) + 1

Inserted(l, seq, row) == [s \in DOMAIN l \cup {seq} |-> IF s = seq THEN row ELSE l[s]]

AppendSelect(c) ==
  LET l == log[op[c].dec]
  IN  /\ stage[c] = "select"
      /\ op[c].dec \in decisions
      /\ NextSeq(l) < MaxRows
      /\ stage' = [stage EXCEPT ![c] = "insert"]
      /\ op' = [op EXCEPT ![c].seq = NextSeq(l)]
      /\ UNCHANGED <<store, seen, now, runs>>

\* The call goes on: to its next row, to the router once STARTED is in, or back.
AfterInsert(c) ==
  \/ \E row \in op[c].next : Emit(c, row, {})
  \/ /\ op[c].next = {}
     /\ op[c].row.type = "EXECUTION_STARTED"
     /\ stage' = [stage EXCEPT ![c] = "run"]
     /\ UNCHANGED <<op, seen>>
  \/ /\ op[c].next = {}
     /\ op[c].row.type # "EXECUTION_STARTED"
     /\ Return(c)

\* mutant: INSERT OR REPLACE
FreeAlways(l, seq) == TRUE

\* PRIMARY KEY (decision_id, seq)
Free(l, seq) == seq \notin DOMAIN l

\* mutant: foreign keys are off, as SQLite has them unless asked
ReferencedAlways(d) == TRUE

\* FOREIGN KEY (decision_id), PRAGMA foreign_keys = ON
Referenced(d) == d \in decisions

Accepted(c) == Referenced(op[c].dec) /\ Free(log[op[c].dec], op[c].seq)

AppendInsert(c) ==
  LET d == op[c].dec
  IN  /\ stage[c] = "insert"
      /\ Accepted(c)
      /\ log' = [log EXCEPT ![d] = Inserted(log[d], op[c].seq, op[c].row)]
      /\ AfterInsert(c)
      /\ UNCHANGED <<decisions, now, runs>>

(***************************************************************************)
(* append_event raises.  execute() appends its completion inside the try   *)
(* block of the router call, so there the exception is taken for a router  *)
(* error; any other append that fails ends the call.  (The tools delete no *)
(* decision: that one is missing is a step of module DecisionImport.)      *)
(***************************************************************************)
AppendRaises(c) ==
  /\ IF op[c].row.type = "EXECUTION_COMPLETED" THEN Emit(c, Failed, {}) ELSE Return(c)
  /\ UNCHANGED <<store, now, runs>>

\* mutant: the router runs although EXECUTION_STARTED was not stored
AppendConflictIgnored(c) ==
  /\ stage[c] = "insert"
  /\ ~ Accepted(c)
  /\ AfterInsert(c)
  /\ UNCHANGED <<store, now, runs>>

AppendConflict(c) ==
  /\ stage[c] = "insert"
  /\ ~ Accepted(c)
  /\ AppendRaises(c)

\* the file is locked, or full, or cannot be read: nothing is stored
AppendFails(c) ==
  /\ Faulty
  /\ stage[c] \in {"select", "insert"}
  /\ AppendRaises(c)

-----------------------------------------------------------------------------
\* mutants: the id of the run before this one; every run a dry run
RouterReturnsPrevious(c) ==
  /\ stage[c] = "run"
  /\ runs' = Append(runs, [dec |-> op[c].dec, mode |-> op[c].row.mode])
  /\ Emit(c, Completed(Len(runs)), {})
  /\ UNCHANGED <<store, now>>

RouterReturnsDryRun(c) ==
  /\ stage[c] = "run"
  /\ runs' = Append(runs, [dec |-> op[c].dec, mode |-> "dry_run"])
  /\ Emit(c, Completed(Len(runs) + 1), {})
  /\ UNCHANGED <<store, now>>

RouterReturns(c) ==
  /\ stage[c] = "run"
  /\ runs' = Append(runs, [dec |-> op[c].dec, mode |-> op[c].row.mode])
  /\ Emit(c, Completed(Len(runs) + 1), {})
  /\ UNCHANGED <<store, now>>

(***************************************************************************)
(* The router completed the run, and then the try block raises: the answer *)
(* is no dict, cannot be digested, or its steps_executed is no number.     *)
(***************************************************************************)
RouterUnreadable(c) ==
  /\ stage[c] = "run"
  /\ runs' = Append(runs, [dec |-> op[c].dec, mode |-> op[c].row.mode])
  /\ Emit(c, Failed, {})
  /\ UNCHANGED <<store, now>>

RouterRaises(c) ==
  /\ stage[c] = "run"
  /\ Emit(c, Failed, {})
  /\ UNCHANGED <<store, now, runs>>

\* The process dies; the database keeps what was committed.
Crash(c) ==
  /\ Faulty
  /\ stage[c] # "idle"
  /\ Return(c)
  /\ UNCHANGED <<store, now, runs>>

Tick ==
  /\ now < MaxTime
  /\ now' = now + 1
  /\ UNCHANGED <<store, locals, runs>>

Answers == {{}} \cup {{known} : known \in SUBSET Capabilities}

Step(c) ==
  \/ \E d \in Decisions, p \in Offered, m \in Modes : Request(c, d, p, m)
  \/ \E d \in Decisions, a \in Actors, e \in Expiries : Approve(c, d, a, e)
  \/ \E d \in Decisions, a \in Actors : Revoke(c, d, a)
  \/ \E d \in Decisions, m \in Modes : ExecuteLoad(c, d, m)
  \/ \E answer \in Answers : ExecuteValidate(c, answer) \/ ExecuteRefused(c, answer)
  \/ AppendSelect(c) \/ AppendInsert(c) \/ AppendConflict(c) \/ AppendFails(c)
  \/ RouterReturns(c) \/ RouterUnreadable(c) \/ RouterRaises(c)
  \/ Crash(c)

Next == Tick \/ \E c \in Clients : Step(c)

Spec == Init /\ [][Next]_vars

-----------------------------------------------------------------------------
TypeOK ==
  /\ decisions \in SUBSET Decisions
  /\ DOMAIN log = Decisions
  /\ \A d \in Decisions : DOMAIN log[d] \subseteq Nat /\ log[d] \in [DOMAIN log[d] -> Event]
  /\ now \in Nat
  /\ stage \in [Clients -> Stages]
  /\ DOMAIN op = Clients
  /\ \A c \in Clients : op[c] \in IF stage[c] = "idle" THEN {NoOp} ELSE Op
  /\ DOMAIN seen = Clients
  /\ runs \in Seq(Run)

(***************************************************************************)
(* The sequence numbers of a log are 0, 1, 2, ... without a gap, whatever  *)
(* appends raced (store.py, append_event and the key of decision_events).  *)
(* The exporter and the importer rely on it.                               *)
(***************************************************************************)
SeqContiguous == \A d \in Decisions : \E n \in 0 .. MaxRows : DOMAIN log[d] = 0 .. (n - 1)

(***************************************************************************)
(* "Once written, they are never modified or deleted": no step of the four *)
(* tools changes or removes a row, even when two clients selected the same *)
(* sequence number (store.py, append_event).                               *)
(***************************************************************************)
AppendOnly ==
  [][\A d \in Decisions : \A s \in DOMAIN log[d] :
       s \in DOMAIN log'[d] /\ log'[d][s] = log[d][s]]_vars

(***************************************************************************)
(* "No step can be skipped": the creation and the policy are rows 0 and 1  *)
(* and nowhere else, so a request that died half way is never approved or  *)
(* executed, by anyone.                                                    *)
(***************************************************************************)
PipelineOrder ==
  \A d \in Decisions : \A s \in DOMAIN log[d] :
    /\ log[d][s].type = "DECISION_CREATED" <=> s = 0
    /\ log[d][s].type = "POLICY_ATTACHED" <=> s = 1

(***************************************************************************)
(* No execution without a quorum that was really there: for every          *)
(* EXECUTION_REQUESTED row, the log had an earlier version whose approvals *)
(* satisfied its policy for the row's mode at the time execute() counted   *)
(* them (it validates what it loaded, and appends later).                  *)
(***************************************************************************)
JustifiedAt(l, n, s) == MayExecute(Below(l, n), l[s].mode, l[s].checked)

RequestsJustified ==
  \A d \in Decisions : \A s \in Requests(log[d]) : \E n \in 0 .. s : JustifiedAt(log[d], n, s)

(***************************************************************************)
(* Every EXECUTION_COMPLETED row names a run the router completed for this *)
(* decision, in a mode that an EXECUTION_STARTED row before it announced,  *)
(* and no two rows of any logs name the same run.                          *)
(***************************************************************************)
CompletionsReal ==
  \A d \in Decisions : \A s \in Rows(log[d], {"EXECUTION_COMPLETED"}) :
    LET run == log[d][s].run
    IN  /\ run \in DOMAIN runs
        /\ runs[run].dec = d
        /\ \E r \in Rows(log[d], {"EXECUTION_STARTED"}) :
             r < s /\ log[d][r].mode = runs[run].mode
        /\ \A e \in Decisions : \A t \in Rows(log[e], {"EXECUTION_COMPLETED"}) :
             log[e][t].run = run => <<e, t>> = <<d, s>>

(***************************************************************************)
(* The router never runs more often than the log admits: each run it       *)
(* completed for a decision has an EXECUTION_STARTED row of its own.       *)
(***************************************************************************)
RunsAdmitted ==
  \A d \in Decisions :
    Cardinality({i \in DOMAIN runs : runs[i].dec = d})
      <= Cardinality(Rows(log[d], {"EXECUTION_STARTED"}))

-----------------------------------------------------------------------------
(***************************************************************************)
(* What holds as long as one client at a time uses the store.              *)
(***************************************************************************)

(***************************************************************************)
(* "Execution requires approvals to satisfy policy at execution time": the *)
(* log as it stands when EXECUTION_REQUESTED is appended has the quorum.   *)
(***************************************************************************)
QuorumWhenRequested ==
  \A d \in Decisions : \A s \in Requests(log[d]) : JustifiedAt(log[d], s, s)

(***************************************************************************)
(* "Can only revoke before execution": no APPROVAL_REVOKED row lands on an *)
(* executing or completed decision.                                        *)
(***************************************************************************)
RevokedBeforeExecution ==
  \A d \in Decisions : \A s \in Rows(log[d], {"APPROVAL_REVOKED"}) :
    StateOf(Below(log[d], s), now) \notin {"executing", "completed"}

(***************************************************************************)
(* "The same actor cannot approve the same decision twice": a grant never  *)
(* lands on a log where an approval of the same actor still stands.        *)
(***************************************************************************)
OneVoice ==
  \A d \in Decisions : \A s \in Rows(log[d], {"APPROVAL_GRANTED"}) :
    ~ \E g \in 0 .. (s - 1) : Stands(Below(log[d], s), g, log[d][s].actor)

(***************************************************************************)
(* What an execution record says of a run is true: it names one that was   *)
(* made for this decision, in the one mode that the record was requested   *)
(* and digested in, and later records name later runs; and every run was   *)
(* made under a record of its own, so no run is without one.  It does not  *)
(* say that a FAILED record hides no run: an exception after the run is    *)
(* recorded as FAILED (tool.py, execute; decision.py, latest_execution).   *)
(***************************************************************************)
Records(l) == {r \in Requests(l) : Starts(l, r) # {}}

RecordsTruthful ==
  \A d \in Decisions :
    /\ \A r \in Requests(log[d]) : HasRun(log[d], r) =>
         /\ runs[RunOf(log[d], r)] = [dec |-> d, mode |-> log[d][r].mode]
         /\ \A s \in Starts(log[d], r) : log[d][s].mode = log[d][r].mode
         /\ \A q \in Requests(log[d]) :
              q > r /\ HasRun(log[d], q) => RunOf(log[d], q) > RunOf(log[d], r)
    /\ Cardinality({i \in DOMAIN runs : runs[i].dec = d}) <= Cardinality(Records(log[d]))
=============================================================================
