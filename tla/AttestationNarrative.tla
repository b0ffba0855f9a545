------------------------- MODULE AttestationNarrative -------------------------
(***************************************************************************)
(* The report on an intent: narrative.py, and replay.py, its predecessor.  *)
(* A report is made of two reads, the row of the intent and then its       *)
(* receipts (the read between them, of the intent's own text, gives what   *)
(* never changes).  They are transactions of their own, so a worker takes  *)
(* any number of steps between the two.  The SQL orders receipts by        *)
(* attempt and leaves those of one attempt in any order, so what the code  *)
(* takes from the last of several receipts is here the set of what it may  *)
(* take.                                                                   *)
(*                                                                         *)
(* Left out: digests, timestamps, error codes and the wording.  The code   *)
(* shows a witness only with a ledger index; a node that says validated    *)
(* gives one (external).  The wire evidence and its checks are in          *)
(* ExchangeNarrative.                                                      *)
(***************************************************************************)
EXTENDS AttestationWorker

CONSTANT Reported   \* bound: the intents reports are asked for

ASSUME NarrativeAssumption == Reported \subseteq Intents

VARIABLE header   \* what the report's first read returned: the row of its intent

Recorded(i) == {r \in receipts : r.intent = i}

\* those that may come last among rs
LastOnes(rs) == {r \in rs : \A q \in rs : q.attempt <= r.attempt}

Confirmed(rs) == {r \in rs : r.status = "CONFIRMED"}

\* mutant: a hash is proof enough
WitnessOfHash(rs) == {r.tx : r \in LastOnes({q \in rs : q.tx # {}})}

\* the transaction of the last CONFIRMED receipt that names one
Witness(rs) == {r.tx : r \in LastOnes({q \in Confirmed(rs) : q.tx # {}})}

\* the status of the check that every receipt is one of this intent
ReceiptsConsistent(i, rs) ==
  IF rs = {} THEN "SKIP" ELSE IF \A r \in rs : r.intent = i THEN "PASS" ELSE "FAIL"

\* head is what the first read returned and rs what the second does
ShowIntent(head, rs) ==
  [status    |-> head.status,
   attempts  |-> head.attempt,
   entries   |-> rs,
   confirmed |-> Confirmed(rs) # {},
   witness   |-> Witness(rs),
   checks    |-> {"PASS", ReceiptsConsistent(head.intent, rs)}]

\* diff_attempts compares the last receipt of each attempt, when there are any
DiffAttempts(report, m, n) ==
  {[fromStatus |-> f.status, toStatus |-> t.status, txChanged |-> f.tx # t.tx] :
     f \in {r \in report.entries : r.attempt = m}, t \in {r \in report.entries : r.attempt = n}}

(***************************************************************************)
(* The first read.  An intent that is not in the table is reported as not  *)
(* found, and nothing else is read.  The second read, and with it the      *)
(* report, may come in any state after it; a new report begins with a new  *)
(* first read.                                                             *)
(***************************************************************************)
ReadRow(i) ==
  /\ i \in DOMAIN intents
  /\ header' = [intent |-> i, status |-> intents[i].status, attempt |-> intents[i].attempt]
  /\ UNCHANGED vars

ReportNext == (Next /\ UNCHANGED header) \/ \E i \in Reported : ReadRow(i)

ReportSpec == Init /\ header = None /\ [][ReportNext]_<<vars, header>>

FairReportSpec == ReportSpec /\ Fairness

-----------------------------------------------------------------------------
Terminal == {"CONFIRMED", "FAILED"}

(***************************************************************************)
(* What a report may be trusted for, whatever the worker did between its   *)
(* two reads, and wherever it died (narrative.py, show_intent).            *)
(*   - The status shown is explained: a receipt of that status and attempt *)
(*     is shown with it, unless the status is PENDING.                     *)
(*   - A terminal status is the last word: no receipt of a later attempt   *)
(*     is shown, and FAILED never stands beside a CONFIRMED receipt.       *)
(*   - CONFIRMED comes with a witness, of the attempt the header counts.   *)
(*   - A witness is a transaction of that intent that the ledger validated.*)
(*   - An attempt that was confirmed is not compared with a later one.     *)
(* A status that is not terminal may be out of date: PENDING, SUBMITTED    *)
(* and DEFERRED may stand beside a CONFIRMED receipt and its witness.      *)
(***************************************************************************)
Agrees(report, i) ==
  /\ report.status # "PENDING" =>
       \E r \in report.entries : r.status = report.status /\ r.attempt = report.attempts
  /\ report.status \in Terminal => \A r \in report.entries : r.attempt <= report.attempts
  /\ report.status = "FAILED" => ~report.confirmed
  /\ report.status = "CONFIRMED" => report.witness # {}
  /\ \A tx \in report.witness : \A n \in tx :
       /\ txs[n].validated /\ txs[n].intent = i
       /\ report.status = "CONFIRMED" => txs[n].attempt = report.attempts
  /\ \A r, q \in report.entries : r.attempt < q.attempt =>
       \A diff \in DiffAttempts(report, r.attempt, q.attempt) : diff.fromStatus # "CONFIRMED"

NarrativeAgrees ==
  header # None => Agrees(ShowIntent(header, Recorded(header.intent)), header.intent)
=============================================================================
