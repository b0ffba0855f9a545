--------------------------- MODULE AttestationWorker ---------------------------
(***************************************************************************)
(* process_one_xrpl over an AttestationQueue and an XRPL ledger.           *)
(*                                                                         *)
(* A worker is one running process_one_xrpl; its caller starts the next    *)
(* one when it returns.  It yields at both awaits (submit, confirm), and   *)
(* record_receipt is two transactions: the receipt, then the cached status *)
(* of the intent.  A worker may die between any two of them.               *)
(*                                                                         *)
(* The ledger is external.  It may take a transaction and not say so,      *)
(* refuse one, accept one without a hash, and validate what it took later  *)
(* or never; a node may not know yet of what the ledger has validated.     *)
(*                                                                         *)
(* An intent is represented by the rank of its digest.  Receipts carry     *)
(* what the worker and the properties read; two that differ only in        *)
(* created_at count as one.                                                *)
(***************************************************************************)
EXTENDS Integers, FiniteSets, Sequences

CONSTANTS Intents,        \* ranks of the intents' digests
          Oversized,      \* intents whose memo exceeds MAX_MEMO_BYTES
          Times,          \* created_at values
          Workers,
          FetchLimit,     \* next_pending(limit=10)
          Hashless,       \* whether an accepted submit may come without a tx_hash
          MaxAttempts,    \* bound: how often an intent is tried
          MaxCrashes      \* bound: how often a worker dies

ASSUME WorkerAssumption ==
  /\ Intents \subseteq Nat
  /\ Oversized \subseteq Intents
  /\ Times \subseteq Nat
  /\ FetchLimit \in Nat \ {0}
  /\ Hashless \in BOOLEAN
  /\ MaxAttempts \in Nat
  /\ MaxCrashes \in Nat

VARIABLES intents,    \* table attestation_intents, by intent
          receipts,   \* table attestation_receipts
          txs,        \* the transactions the ledger took
          pc,         \* what each worker does next
          queued,     \* the QueuedIntent each worker holds
          receipt,    \* the receipt each worker is recording
          crashes

table == <<intents, receipts>>
call  == <<pc, queued, receipt>>
vars  == <<intents, receipts, txs, pc, queued, receipt, crashes>>

Statuses == {"PENDING", "SUBMITTED", "DEFERRED", "CONFIRMED", "FAILED"}

Intent  == [status : Statuses, attempt : Nat, at : Times]
Tx      == [intent : Intents, attempt : Nat, validated : BOOLEAN]
Queued  == [intent : Intents, attempt : Nat]
\* tx is the tx_hash in the proof: {} when there is none, else a place in txs
Receipt == [intent : Intents, attempt : Nat, status : Statuses \ {"PENDING"}, tx : SUBSET Nat]
None    == [intent |-> -1]

Init ==
  /\ intents = [i \in {} |-> None]
  /\ receipts = {}
  /\ txs = <<>>
  /\ pc = [w \in Workers |-> "idle"]
  /\ queued = [w \in Workers |-> None]
  /\ receipt = [w \in Workers |-> None]
  /\ crashes = 0

-----------------------------------------------------------------------------
(***************************************************************************)
(* The queue.  enqueue of an intent that is there already changes nothing. *)
(***************************************************************************)
\* mutant: last_attempt INTEGER DEFAULT -1
EnqueueFromMinusOne(i, t) ==
  /\ i \notin DOMAIN intents
  /\ intents' = [j \in DOMAIN intents \cup {i} |->
                   IF j = i THEN [status |-> "PENDING", attempt |-> -1, at |-> t] ELSE intents[j]]
  /\ UNCHANGED <<receipts, txs, call, crashes>>

Enqueue(i, t) ==
  /\ i \notin DOMAIN intents
  /\ intents' = [j \in DOMAIN intents \cup {i} |->
                   IF j = i THEN [status |-> "PENDING", attempt |-> 0, at |-> t] ELSE intents[j]]
  /\ UNCHANGED <<receipts, txs, call, crashes>>

\* mutants: retry what failed, retry what was left behind
EligibleAndFailed    == {"PENDING", "DEFERRED", "FAILED"}
EligibleAndSubmitted == {"PENDING", "DEFERRED", "SUBMITTED"}

EligibleStatuses == {"PENDING", "DEFERRED"}
Eligible == {i \in DOMAIN intents : intents[i].status \in EligibleStatuses}

\* ORDER BY created_at, intent_digest
Before(i, j) ==
  \/ intents[i].at < intents[j].at
  \/ intents[i].at = intents[j].at /\ i < j

NextPending == {i \in Eligible : Cardinality({j \in Eligible : Before(j, i)}) < FetchLimit}

-----------------------------------------------------------------------------
(***************************************************************************)
(* One cycle.  wanted is every intent, or the one the caller asks for.     *)
(* When plan() raises, process_one_xrpl raises: nothing has changed.       *)
(***************************************************************************)
\* mutant: the head of the queue is processed only when it is new
FetchNewOnly(w, wanted) ==
  /\ pc[w] = "idle"
  /\ \E i \in NextPending \cap wanted :
       /\ \A j \in (NextPending \cap wanted) \ {i} : Before(i, j)
       /\ i \notin Oversized
       /\ intents[i].attempt < MaxAttempts
       /\ intents[i].status = "PENDING"
       /\ queued' = [queued EXCEPT ![w] = [intent |-> i, attempt |-> intents[i].attempt + 1]]
  /\ pc' = [pc EXCEPT ![w] = "submit"]
  /\ UNCHANGED <<table, txs, receipt, crashes>>

Fetch(w, wanted) ==
  /\ pc[w] = "idle"
  /\ \E i \in NextPending \cap wanted :
       /\ \A j \in (NextPending \cap wanted) \ {i} : Before(i, j)
       /\ i \notin Oversized
       /\ intents[i].attempt < MaxAttempts
       /\ queued' = [queued EXCEPT ![w] = [intent |-> i, attempt |-> intents[i].attempt + 1]]
  /\ pc' = [pc EXCEPT ![w] = "submit"]
  /\ UNCHANGED <<table, txs, receipt, crashes>>

\* an await came back with what becomes a receipt
Answered(w, from, status, tx) ==
  /\ pc[w] = from
  /\ pc' = [pc EXCEPT ![w] = "insert"]
  /\ receipt' = [receipt EXCEPT ![w] = [intent  |-> queued[w].intent,
                                        attempt |-> queued[w].attempt,
                                        status  |-> status,
                                        tx      |-> tx]]
  /\ UNCHANGED <<table, queued, crashes>>

Taken(w) == txs' = Append(txs, [intent    |-> queued[w].intent,
                                attempt   |-> queued[w].attempt,
                                validated |-> FALSE])

\* the ledger took the transaction, and the answer has its hash or not
SubmitAccepted(w, tx) ==
  /\ tx = {} => Hashless
  /\ Answered(w, "submit", "SUBMITTED", tx)
  /\ Taken(w)

\* signing failed, the node refused, or the connection broke: perhaps too late
SubmitFailed(w) ==
  /\ Answered(w, "submit", "FAILED", {})
  /\ Taken(w) \/ UNCHANGED txs

ConfirmFailed(w) ==
  /\ Answered(w, "confirm", "FAILED", {})
  /\ UNCHANGED txs

\* not found, or found and not validated: at every poll, if the node says so
ConfirmDeferred(w) ==
  /\ Answered(w, "confirm", "DEFERRED", {})
  /\ UNCHANGED txs

\* mutant: found is taken for validated
ConfirmFound(w) ==
  /\ Answered(w, "confirm", "CONFIRMED", receipt[w].tx)
  /\ UNCHANGED txs

ConfirmValidated(w) ==
  /\ Answered(w, "confirm", "CONFIRMED", receipt[w].tx)
  /\ \A n \in receipt[w].tx : txs[n].validated
  /\ UNCHANGED txs

(***************************************************************************)
(* record_receipt: insert_receipt commits, then update_intent_status.      *)
(***************************************************************************)
InsertReceipt(w) ==
  /\ pc[w] = "insert"
  /\ receipts' = receipts \cup {receipt[w]}
  /\ pc' = [pc EXCEPT ![w] = "update"]
  /\ UNCHANGED <<intents, txs, queued, receipt, crashes>>

Return(w) ==
  /\ pc' = [pc EXCEPT ![w] = "idle"]
  /\ queued' = [queued EXCEPT ![w] = None]
  /\ receipt' = [receipt EXCEPT ![w] = None]

\* mutant: last_attempt = last_attempt + 1, at every receipt
UpdateIncrements(w) ==
  LET r == receipt[w]
  IN  /\ pc[w] = "update"
      /\ intents' = [intents EXCEPT ![r.intent].status = r.status,
                                    ![r.intent].attempt = @ + 1]
      /\ IF r.status = "SUBMITTED" /\ r.tx # {}
         THEN pc' = [pc EXCEPT ![w] = "confirm"] /\ UNCHANGED <<queued, receipt>>
         ELSE Return(w)
      /\ UNCHANGED <<receipts, txs, crashes>>

UpdateStatus(w) ==
  LET r == receipt[w]
  IN  /\ pc[w] = "update"
      /\ intents' = [intents EXCEPT ![r.intent].status = r.status,
                                    ![r.intent].attempt = r.attempt]
      /\ IF r.status = "SUBMITTED" /\ r.tx # {}
         THEN pc' = [pc EXCEPT ![w] = "confirm"] /\ UNCHANGED <<queued, receipt>>
         ELSE Return(w)
      /\ UNCHANGED <<receipts, txs, crashes>>

Crash(w) ==
  /\ crashes < MaxCrashes
  /\ pc[w] # "idle"
  /\ crashes' = crashes + 1
  /\ Return(w)
  /\ UNCHANGED <<table, txs>>

Validate(n) ==
  /\ ~txs[n].validated
  /\ txs' = [txs EXCEPT ![n].validated = TRUE]
  /\ UNCHANGED <<table, call, crashes>>

Answer(w) ==
  \/ \E tx \in {{}, {Len(txs) + 1}} : SubmitAccepted(w, tx)
  \/ SubmitFailed(w)
  \/ ConfirmFailed(w) \/ ConfirmDeferred(w) \/ ConfirmValidated(w)

Work(w) == Fetch(w, Intents) \/ Answer(w) \/ InsertReceipt(w) \/ UpdateStatus(w)

Next ==
  \/ \E i \in Intents, t \in Times : Enqueue(i, t)
  \/ \E w \in Workers, i \in Intents : Fetch(w, {i})
  \/ \E w \in Workers : Work(w) \/ Crash(w)
  \/ \E n \in DOMAIN txs : Validate(n)

Spec == Init /\ [][Next]_vars

(***************************************************************************)
(* The caller keeps calling, every await comes back, and the ledger        *)
(* validates what it took.  Nobody has to enqueue, target an intent, or    *)
(* die.                                                                    *)
(***************************************************************************)
Fairness ==
  /\ \A w \in Workers : WF_vars(Work(w))
  /\ WF_vars(\E n \in DOMAIN txs : Validate(n))

FairSpec == Spec /\ Fairness

-----------------------------------------------------------------------------
TypeOK ==
  /\ DOMAIN intents \subseteq Intents
  /\ \A i \in DOMAIN intents : intents[i] \in Intent
  /\ \A r \in receipts : r \in Receipt
  /\ txs \in Seq(Tx)
  /\ pc \in [Workers -> {"idle", "submit", "confirm", "insert", "update"}]
  /\ DOMAIN queued = Workers /\ DOMAIN receipt = Workers
  /\ \A w \in Workers : queued[w] \in IF pc[w] = "idle" THEN {None} ELSE Queued
  /\ \A w \in Workers :
       receipt[w] \in IF pc[w] \in {"idle", "submit"} THEN {None} ELSE Receipt
  /\ crashes \in 0 .. MaxCrashes

(***************************************************************************)
(* "Intent status is derived from receipts": whoever died or overtook      *)
(* whom, the status and the attempt in the row of an intent are those of   *)
(* one of its receipts (queue.py, record_receipt).                         *)
(***************************************************************************)
StatusHasReceipt ==
  \A i \in DOMAIN intents : intents[i].status # "PENDING" =>
    \E r \in receipts : /\ r.intent = i
                        /\ r.status = intents[i].status
                        /\ r.attempt = intents[i].attempt

(***************************************************************************)
(* A CONFIRMED receipt names a transaction of the same intent and the same *)
(* attempt, and the ledger has validated it (adapter.py, confirm).         *)
(***************************************************************************)
ConfirmedIsReal ==
  \A r \in receipts : r.status = "CONFIRMED" =>
    \E n \in r.tx : /\ txs[n].intent = r.intent
                    /\ txs[n].attempt = r.attempt
                    /\ txs[n].validated

-----------------------------------------------------------------------------
(***************************************************************************)
(* What holds of the single process the queue is made for.                 *)
(***************************************************************************)

(***************************************************************************)
(* The queue keeps its promise: see IntentLifecycle.                       *)
(***************************************************************************)
Lifecycle == INSTANCE IntentLifecycle
  WITH status  <- [i \in Intents |-> IF i \in DOMAIN intents THEN intents[i].status ELSE "NONE"],
       attempt <- [i \in Intents |-> IF i \in DOMAIN intents THEN intents[i].attempt ELSE 0]

KeepsLifecycle == Lifecycle!Spec

(***************************************************************************)
(* An intent with a CONFIRMED receipt is done with: the ledger takes no    *)
(* other transaction for it and no other receipt is recorded, even when    *)
(* the worker died before the row of the intent said CONFIRMED             *)
(* (storage.py, list_pending).                                             *)
(***************************************************************************)
ConfirmedOnce ==
  [][\A r \in receipts : r.status = "CONFIRMED" =>
       /\ \A n \in DOMAIN txs' \ DOMAIN txs : txs'[n].intent # r.intent
       /\ \A q \in receipts' \ receipts : q.intent # r.intent]_vars

(***************************************************************************)
(* Only a stuck head starves others: while the caller keeps calling, every *)
(* intent leaves PENDING and DEFERRED for good, but for those that are     *)
(* held up by one, itself or before them in the order, that cannot be      *)
(* planned or was tried MaxAttempts times and deferred each time.  A retry *)
(* keeps an intent's place, so such a head holds up all that come after    *)
(* it; nothing else that is enqueued, fails or is confirmed does           *)
(* (worker.py, process_one_xrpl; storage.py, list_pending).                *)
(***************************************************************************)
HeldUp(i) ==
  \E j \in Eligible : /\ j = i \/ Before(j, i)
                      /\ j \in Oversized \/ intents[j].attempt = MaxAttempts

EventuallyProcessed == <>[](\A i \in Eligible : HeldUp(i))

-----------------------------------------------------------------------------
(***************************************************************************)
(* What the sources say and the code does not do.                          *)
(***************************************************************************)

(***************************************************************************)
(* "Will attest, eventually, provably": every intent ends up CONFIRMED or  *)
(* FAILED.                                                                 *)
(***************************************************************************)
EventuallyAttested ==
  \A i \in Intents :
    (i \in DOMAIN intents) ~>
      (i \in DOMAIN intents /\ intents[i].status \in {"CONFIRMED", "FAILED"})
=============================================================================
