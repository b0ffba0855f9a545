------------------------ MODULE AttestationWorker_proofs ------------------------
(***************************************************************************)
(* What module AttestationWorker guarantees for any number of workers and  *)
(* intents, any fetch limit, and any number of attempts and crashes, and   *)
(* the reports of AttestationNarrative with it.                            *)
(***************************************************************************)
EXTENDS AttestationNarrative, TLAPS

-----------------------------------------------------------------------------
(***************************************************************************)
(* The ledger forgets nothing: a transaction keeps its intent and attempt, *)
(* and stays validated.                                                    *)
(***************************************************************************)
TxsGrow ==
  \A n \in DOMAIN txs : /\ n \in DOMAIN txs'
                        /\ txs'[n].intent = txs[n].intent
                        /\ txs'[n].attempt = txs[n].attempt
                        /\ txs[n].validated => txs'[n].validated

\* A submit that the ledger takes adds a transaction, and an unvalidated one.
LEMMA TakenTypes ==
  ASSUME TypeOK, NEW w \in Workers, pc[w] = "submit", Taken(w)
  PROVE  /\ txs' \in Seq(Tx)
         /\ DOMAIN txs' = 1 .. (Len(txs) + 1)
         /\ txs'[Len(txs) + 1].intent = queued[w].intent
         /\ txs'[Len(txs) + 1].attempt = queued[w].attempt
         /\ TxsGrow
<1>1. queued[w] \in Queued /\ txs \in Seq(Tx)
  BY DEF TypeOK
<1> DEFINE tx == [intent |-> queued[w].intent, attempt |-> queued[w].attempt, validated |-> FALSE]
<1>2. tx \in Tx
  BY <1>1 DEF Queued, Tx
<1>3. txs' = Append(txs, tx)
  BY DEF Taken
<1>4. /\ txs' \in Seq(Tx)
      /\ Len(txs') = Len(txs) + 1
      /\ \A n \in 1 .. Len(txs) : txs'[n] = txs[n]
      /\ txs'[Len(txs) + 1] = tx
  <2> HIDE DEF tx
  <2>. QED
    BY <1>1, <1>2, <1>3
<1>. QED
  BY <1>1, <1>4 DEF TxsGrow

LEMMA ValidateTypes ==
  ASSUME TypeOK, NEW n \in DOMAIN txs, Validate(n)
  PROVE  txs' \in Seq(Tx) /\ TxsGrow
<1>1. txs \in Seq(Tx)
  BY DEF TypeOK
<1>2. /\ Len(txs) \in Nat
      /\ txs \in [1 .. Len(txs) -> Tx]
      /\ n \in 1 .. Len(txs)
  BY <1>1
<1> DEFINE tx == [txs[n] EXCEPT !.validated = TRUE]
<1>3. /\ tx \in Tx
      /\ tx.intent = txs[n].intent
      /\ tx.attempt = txs[n].attempt
      /\ tx.validated
  BY <1>2 DEF Tx
<1>4. txs' = [txs EXCEPT ![n] = tx]
  BY DEF Validate
<1> HIDE DEF tx
<1>5. txs' \in [1 .. Len(txs) -> Tx]
  BY <1>2, <1>3, <1>4
<1>6. \A m \in 1 .. Len(txs) : txs'[m] = IF m = n THEN tx ELSE txs[m]
  BY <1>2, <1>4
<1>7. txs' \in Seq(Tx)
  BY <1>2, <1>5
<1>8. TxsGrow
  BY <1>2, <1>3, <1>5, <1>6 DEF TxsGrow
<1>. QED
  BY <1>7, <1>8

-----------------------------------------------------------------------------
(***************************************************************************)
(* Type correctness.                                                       *)
(***************************************************************************)
LEMMA TypeInit == Init => TypeOK
BY WorkerAssumption DEF Init, TypeOK, None

\* The types of what an await's answer leaves in the worker's hands.
LEMMA AnsweredTypes ==
  ASSUME TypeOK, NEW w \in Workers, NEW from \in {"submit", "confirm"},
         NEW status \in Statuses \ {"PENDING"}, NEW tx \in SUBSET Nat,
         Answered(w, from, status, tx)
  PROVE  /\ receipt'[w] \in Receipt
         /\ receipt'[w].intent = queued[w].intent
         /\ receipt'[w].attempt = queued[w].attempt
         /\ receipt'[w].status = status
         /\ receipt'[w].tx = tx
         /\ pc' = [pc EXCEPT ![w] = "insert"]
         /\ \A v \in Workers \ {w} : receipt'[v] = receipt[v]
         /\ UNCHANGED <<intents, receipts, queued, crashes>>
<1>1. queued[w] \in Queued /\ pc[w] = from
  BY DEF TypeOK, Answered
<1>2. receipt' = [receipt EXCEPT ![w] = [intent |-> queued[w].intent, attempt |-> queued[w].attempt,
                                         status |-> status, tx |-> tx]]
  BY DEF Answered
<1>. QED
  BY <1>1, <1>2 DEF Answered, TypeOK, Queued, Receipt, table

LEMMA AnsweredTypeOK ==
  ASSUME TypeOK, NEW w \in Workers, NEW from \in {"submit", "confirm"},
         NEW status \in Statuses \ {"PENDING"}, NEW tx \in SUBSET Nat,
         Answered(w, from, status, tx), txs' \in Seq(Tx)
  PROVE  TypeOK'
<1>1. /\ receipt'[w] \in Receipt
      /\ pc' = [pc EXCEPT ![w] = "insert"]
      /\ \A v \in Workers \ {w} : receipt'[v] = receipt[v]
      /\ UNCHANGED <<intents, receipts, queued, crashes>>
  BY AnsweredTypes
<1>2. DOMAIN receipt' = Workers
  BY DEF Answered, TypeOK
<1>3. pc' \in [Workers -> {"idle", "submit", "confirm", "insert", "update"}]
  BY <1>1 DEF TypeOK
<1>4. \A v \in Workers :
        /\ queued'[v] \in IF pc'[v] = "idle" THEN {None} ELSE Queued
        /\ receipt'[v] \in IF pc'[v] \in {"idle", "submit"} THEN {None} ELSE Receipt
  <2>1. pc[w] # "idle"
    BY DEF Answered
  <2>. QED
    BY <2>1, <1>1 DEF TypeOK
<1>. QED
  BY <1>1, <1>2, <1>3, <1>4 DEF TypeOK

\* The two ways a cycle goes on after a receipt, or ends.
LEMMA UpdateTypes ==
  ASSUME TypeOK, NEW w \in Workers, UpdateStatus(w)
  PROVE  /\ DOMAIN intents' = DOMAIN intents
         /\ \A i \in DOMAIN intents : intents'[i] \in Intent
         /\ \A i \in DOMAIN intents :
              IF i = receipt[w].intent
              THEN intents'[i].status = receipt[w].status /\ intents'[i].attempt = receipt[w].attempt
              ELSE intents'[i] = intents[i]
<1>1. receipt[w] \in Receipt
  BY DEF TypeOK, UpdateStatus
<1>2. receipt[w].status \in Statuses /\ receipt[w].attempt \in Nat
  BY <1>1 DEF Receipt
<1>3. intents' = [intents EXCEPT ![receipt[w].intent].status = receipt[w].status,
                                 ![receipt[w].intent].attempt = receipt[w].attempt]
  BY DEF UpdateStatus
<1>4. ASSUME NEW i \in DOMAIN intents
      PROVE  /\ intents'[i] \in Intent
             /\ IF i = receipt[w].intent
                THEN intents'[i].status = receipt[w].status /\ intents'[i].attempt = receipt[w].attempt
                ELSE intents'[i] = intents[i]
  <2>1. intents[i] \in Intent
    BY DEF TypeOK
  <2>2. CASE i = receipt[w].intent
    BY <1>2, <1>3, <2>1, <2>2 DEF Intent
  <2>3. CASE i # receipt[w].intent
    BY <1>3, <2>1, <2>3
  <2>. QED
    BY <2>2, <2>3
<1>. QED
  BY <1>3, <1>4

\* What NextPending returns is in the table.
LEMMA FetchTypes ==
  ASSUME TypeOK, NEW w \in Workers, NEW wanted \in SUBSET Intents, Fetch(w, wanted)
  PROVE  /\ queued'[w] \in Queued
         /\ \A v \in Workers \ {w} : queued'[v] = queued[v]
         /\ DOMAIN queued' = Workers
         /\ pc[w] = "idle" /\ pc' = [pc EXCEPT ![w] = "submit"]
         /\ UNCHANGED <<table, txs, receipt, crashes>>
<1>1. PICK i \in NextPending \cap wanted :
        queued' = [queued EXCEPT ![w] = [intent |-> i, attempt |-> intents[i].attempt + 1]]
  BY DEF Fetch
<1>2. i \in DOMAIN intents
  BY <1>1 DEF NextPending, Eligible
<1>3. i \in Intents /\ intents[i].attempt + 1 \in Nat
  BY <1>1, <1>2 DEF TypeOK, Intent
<1>. QED
  BY <1>1, <1>3 DEF Fetch, TypeOK, Queued

\* Every step keeps TypeOK, and the ledger's record.
LEMMA TypeStep ==
  ASSUME TypeOK, [Next]_vars
  PROVE  TypeOK' /\ TxsGrow
<1>0. txs' = txs => TxsGrow
  BY DEF TxsGrow
<1>1. ASSUME NEW i \in Intents, NEW t \in Times, Enqueue(i, t)
      PROVE  TypeOK' /\ TxsGrow
  <2>1. [status |-> "PENDING", attempt |-> 0, at |-> t] \in Intent
    BY DEF Intent, Statuses
  <2>2. /\ DOMAIN intents' = DOMAIN intents \cup {i}
        /\ \A j \in DOMAIN intents' : intents'[j] \in Intent
    BY <1>1, <2>1 DEF Enqueue, TypeOK
  <2>. QED
    BY <1>0, <1>1, <2>2 DEF Enqueue, TypeOK, call
<1>2. ASSUME NEW w \in Workers, NEW wanted \in SUBSET Intents, Fetch(w, wanted)
      PROVE  TypeOK' /\ TxsGrow
  BY <1>0, <1>2, FetchTypes DEF TypeOK, table
<1>3. ASSUME NEW w \in Workers, NEW tx \in {{}, {Len(txs) + 1}}, SubmitAccepted(w, tx)
      PROVE  TypeOK' /\ TxsGrow
  <2>1. pc[w] = "submit" /\ Taken(w) /\ Answered(w, "submit", "SUBMITTED", tx)
    BY <1>3 DEF SubmitAccepted, Answered
  <2>2. tx \in SUBSET Nat
    BY DEF TypeOK
  <2>3. txs' \in Seq(Tx) /\ TxsGrow
    BY <2>1, TakenTypes
  <2>. QED
    BY <2>1, <2>2, <2>3, AnsweredTypeOK DEF Statuses
<1>4. ASSUME NEW w \in Workers, SubmitFailed(w)
      PROVE  TypeOK' /\ TxsGrow
  <2>1. /\ pc[w] = "submit" /\ Answered(w, "submit", "FAILED", {})
        /\ Taken(w) \/ UNCHANGED txs
    BY <1>4 DEF SubmitFailed, Answered
  <2>2. txs' \in Seq(Tx) /\ TxsGrow
    BY <1>0, <2>1, TakenTypes DEF TypeOK
  <2>. QED
    BY <2>1, <2>2, AnsweredTypeOK DEF Statuses
<1>5. ASSUME NEW w \in Workers, ConfirmFailed(w) \/ ConfirmDeferred(w) \/ ConfirmValidated(w)
      PROVE  TypeOK' /\ TxsGrow
  <2>1. PICK status \in Statuses \ {"PENDING"}, tx \in SUBSET Nat :
          Answered(w, "confirm", status, tx)
    <3>1. pc[w] = "confirm"
      BY <1>5 DEF ConfirmFailed, ConfirmDeferred, ConfirmValidated, Answered
    <3>2. receipt[w].tx \in SUBSET Nat
      BY <3>1 DEF TypeOK, Receipt
    <3>. QED
      BY <1>5, <3>2 DEF ConfirmFailed, ConfirmDeferred, ConfirmValidated, Statuses
  <2>2. txs' = txs
    BY <1>5 DEF ConfirmFailed, ConfirmDeferred, ConfirmValidated, TypeOK
  <2>3. txs' \in Seq(Tx)
    BY <2>2 DEF TypeOK
  <2>. QED
    BY <1>0, <2>1, <2>2, <2>3, AnsweredTypeOK
<1>6. ASSUME NEW w \in Workers, InsertReceipt(w)
      PROVE  TypeOK' /\ TxsGrow
  BY <1>0, <1>6 DEF InsertReceipt, TypeOK
<1>7. ASSUME NEW w \in Workers, UpdateStatus(w)
      PROVE  TypeOK' /\ TxsGrow
  <2>1. /\ pc' \in [Workers -> {"idle", "submit", "confirm", "insert", "update"}]
        /\ DOMAIN queued' = Workers /\ DOMAIN receipt' = Workers
        /\ \A v \in Workers :
             /\ queued'[v] \in IF pc'[v] = "idle" THEN {None} ELSE Queued
             /\ receipt'[v] \in IF pc'[v] \in {"idle", "submit"} THEN {None} ELSE Receipt
    BY <1>7 DEF UpdateStatus, Return, TypeOK
  <2>. QED
    BY <1>0, <1>7, <2>1, UpdateTypes DEF UpdateStatus, TypeOK
<1>8. ASSUME NEW w \in Workers, Crash(w)
      PROVE  TypeOK' /\ TxsGrow
  <2>1. crashes' \in 0 .. MaxCrashes
    BY <1>8, WorkerAssumption DEF Crash, TypeOK
  <2>. QED
    BY <1>0, <1>8, <2>1 DEF Crash, Return, TypeOK, table
<1>9. ASSUME NEW n \in DOMAIN txs, Validate(n)
      PROVE  TypeOK' /\ TxsGrow
  BY <1>9, ValidateTypes DEF Validate, TypeOK, table, call
<1>10. CASE UNCHANGED vars
  BY <1>0, <1>10 DEF vars, TypeOK
<1>. QED
  BY <1>1, <1>2, <1>3, <1>4, <1>5, <1>6, <1>7, <1>8, <1>9, <1>10 DEF Next, Work, Answer

\* The tables and the workers' locals keep their types, whoever dies.
THEOREM TypeCorrect == Spec => []TypeOK
<1>1. TypeOK /\ [Next]_vars => TypeOK'
  BY TypeStep
<1>. QED
  BY TypeInit, <1>1, PTL DEF Spec

-----------------------------------------------------------------------------
(***************************************************************************)
(* The status of an intent.  StatusHasReceipt is not inductive: an update  *)
(* keeps it only because the receipt it copies was inserted before.        *)
(***************************************************************************)
InsertedFirst == \A w \in Workers : pc[w] = "update" => receipt[w] \in receipts

LEMMA StatusStep ==
  ASSUME TypeOK, StatusHasReceipt, InsertedFirst, [Next]_vars
  PROVE  StatusHasReceipt' /\ InsertedFirst'
<1>1. ASSUME NEW i \in Intents, NEW t \in Times, Enqueue(i, t)
      PROVE  StatusHasReceipt' /\ InsertedFirst'
  <2>1. \A j \in DOMAIN intents' : intents'[j].status # "PENDING" =>
          j \in DOMAIN intents /\ intents'[j] = intents[j]
    BY <1>1 DEF Enqueue
  <2>. QED
    BY <1>1, <2>1 DEF Enqueue, StatusHasReceipt, InsertedFirst, call
<1>2. ASSUME NEW w \in Workers, NEW wanted \in SUBSET Intents, Fetch(w, wanted)
      PROVE  StatusHasReceipt' /\ InsertedFirst'
  BY <1>2 DEF Fetch, StatusHasReceipt, InsertedFirst, TypeOK, table
<1>3. ASSUME NEW w \in Workers, Answer(w)
      PROVE  StatusHasReceipt' /\ InsertedFirst'
  <2>1. PICK from, status, tx : Answered(w, from, status, tx)
    BY <1>3 DEF Answer, SubmitAccepted, SubmitFailed, ConfirmFailed, ConfirmDeferred, ConfirmValidated
  <2>2. /\ UNCHANGED <<intents, receipts>>
        /\ \A v \in Workers : pc'[v] = "update" => v # w /\ pc[v] = "update"
        /\ \A v \in Workers \ {w} : receipt'[v] = receipt[v]
    BY <2>1 DEF Answered, TypeOK, table
  <2>. QED
    BY <2>2 DEF StatusHasReceipt, InsertedFirst
<1>4. ASSUME NEW w \in Workers, InsertReceipt(w)
      PROVE  StatusHasReceipt' /\ InsertedFirst'
  <2>1. StatusHasReceipt'
    BY <1>4 DEF InsertReceipt, StatusHasReceipt
  <2>2. InsertedFirst'
    BY <1>4 DEF InsertReceipt, InsertedFirst, TypeOK
  <2>. QED
    BY <2>1, <2>2
<1>5. ASSUME NEW w \in Workers, UpdateStatus(w)
      PROVE  StatusHasReceipt' /\ InsertedFirst'
  <2>1. receipt[w] \in receipts /\ receipts' = receipts
    BY <1>5 DEF UpdateStatus, InsertedFirst
  <2>2. StatusHasReceipt'
    BY <1>5, <2>1, UpdateTypes DEF StatusHasReceipt
  <2>3. \A v \in Workers : pc'[v] = "update" => pc[v] = "update" /\ receipt'[v] = receipt[v]
    BY <1>5 DEF UpdateStatus, Return, TypeOK
  <2>. QED
    BY <2>1, <2>2, <2>3 DEF InsertedFirst
<1>6. ASSUME NEW w \in Workers, Crash(w)
      PROVE  StatusHasReceipt' /\ InsertedFirst'
  BY <1>6 DEF Crash, Return, StatusHasReceipt, InsertedFirst, TypeOK, table
<1>7. ASSUME NEW n \in DOMAIN txs, Validate(n)
      PROVE  StatusHasReceipt' /\ InsertedFirst'
  BY <1>7 DEF Validate, StatusHasReceipt, InsertedFirst, table, call
<1>8. CASE UNCHANGED vars
  BY <1>8 DEF vars, StatusHasReceipt, InsertedFirst
<1>. QED
  BY <1>1, <1>2, <1>3, <1>4, <1>5, <1>6, <1>7, <1>8 DEF Next, Work

(***************************************************************************)
(* The status and the attempt in an intent's row are those of one of its   *)
(* receipts, however workers overtake each other and die between the two   *)
(* transactions of record_receipt.                                         *)
(***************************************************************************)
THEOREM StatusDerived == Spec => []StatusHasReceipt
<1> DEFINE Inv == TypeOK /\ StatusHasReceipt /\ InsertedFirst
<1>1. Init => Inv
  <2>1. Init => StatusHasReceipt /\ InsertedFirst
    BY DEF Init, StatusHasReceipt, InsertedFirst
  <2>. QED
    BY <2>1, TypeInit
<1>2. Inv /\ [Next]_vars => Inv'
  BY TypeStep, StatusStep
<1>. QED
  BY <1>1, <1>2, PTL DEF Spec

-----------------------------------------------------------------------------
(***************************************************************************)
(* Confirmations.  Genuine: what receipt r cites is in ledger t, submitted *)
(* for r's intent and attempt, and what r confirms is validated there.     *)
(* The invariant carries that from the await that answers, through the     *)
(* worker's hands, to the table.                                           *)
(***************************************************************************)
Anchors(n, r, t) == n \in DOMAIN t /\ t[n].intent = r.intent /\ t[n].attempt = r.attempt

Genuine(r, t) ==
  /\ \A n \in r.tx : Anchors(n, r, t)
  /\ r.status = "CONFIRMED" => r.tx # {} /\ \A n \in r.tx : t[n].validated

Holds(w) ==
  pc[w] \in {"confirm", "insert", "update"} =>
    /\ receipt[w].intent = queued[w].intent
    /\ receipt[w].attempt = queued[w].attempt
    /\ pc[w] = "confirm" => receipt[w].tx # {}
    /\ Genuine(receipt[w], txs)

InHand   == \A w \in Workers : Holds(w)
InTable  == \A r \in receipts : Genuine(r, txs)

ConfirmInv == TypeOK /\ InHand /\ InTable

\* What the ledger takes or validates later makes no receipt less genuine.
LEMMA GenuineStays ==
  ASSUME TxsGrow
  PROVE  \A r : Genuine(r, txs) => Genuine(r, txs')
BY DEF Genuine, Anchors, TxsGrow

\* What a worker holds stays genuine while it waits.
LEMMA HoldsStays ==
  ASSUME TxsGrow, NEW w \in Workers, Holds(w),
         pc'[w] = pc[w], queued'[w] = queued[w], receipt'[w] = receipt[w]
  PROVE  Holds(w)'
BY GenuineStays DEF Holds

\* An answer that becomes a genuine receipt keeps the invariant.
LEMMA AnsweredGenuine ==
  ASSUME ConfirmInv, TxsGrow, NEW w \in Workers, NEW from \in {"submit", "confirm"},
         NEW status \in Statuses \ {"PENDING"}, NEW tx \in SUBSET Nat,
         Answered(w, from, status, tx), Genuine(receipt'[w], txs')
  PROVE  InHand' /\ InTable'
<1>1. /\ receipt'[w].intent = queued[w].intent
      /\ receipt'[w].attempt = queued[w].attempt
      /\ pc' = [pc EXCEPT ![w] = "insert"]
      /\ \A v \in Workers \ {w} : receipt'[v] = receipt[v]
      /\ UNCHANGED <<receipts, queued>>
  BY AnsweredTypes DEF ConfirmInv
<1>2. pc'[w] = "insert" /\ \A v \in Workers \ {w} : pc'[v] = pc[v]
  BY <1>1 DEF ConfirmInv, TypeOK
<1>3. Holds(w)'
  BY <1>1, <1>2 DEF Holds
<1>4. \A v \in Workers \ {w} : Holds(v)'
  BY <1>1, <1>2, HoldsStays DEF ConfirmInv, InHand
<1>5. InTable'
  BY <1>1, GenuineStays DEF ConfirmInv, InTable
<1>. QED
  BY <1>3, <1>4, <1>5 DEF InHand

\* Whatever an await answers, the receipt is genuine.
LEMMA AnswerStep ==
  ASSUME ConfirmInv, TxsGrow, NEW w \in Workers, Answer(w)
  PROVE  InHand' /\ InTable'
<1>. USE DEF ConfirmInv
<1>1. ASSUME NEW tx \in {{}, {Len(txs) + 1}}, SubmitAccepted(w, tx)
      PROVE  InHand' /\ InTable'
  <2>1. pc[w] = "submit" /\ Taken(w) /\ Answered(w, "submit", "SUBMITTED", tx)
    BY <1>1 DEF SubmitAccepted, Answered
  <2>2. tx \in SUBSET Nat
    BY DEF TypeOK
  <2>3. /\ receipt'[w].intent = queued[w].intent
        /\ receipt'[w].attempt = queued[w].attempt
        /\ receipt'[w].status = "SUBMITTED"
        /\ receipt'[w].tx = tx
    BY <2>1, <2>2, AnsweredTypes DEF Statuses
  <2>4. Genuine(receipt'[w], txs')
    BY <2>1, <2>3, TakenTypes DEF Genuine, Anchors, TypeOK
  <2>. QED
    BY <2>1, <2>2, <2>4, AnsweredGenuine DEF Statuses
<1>2. ASSUME NEW from \in {"submit", "confirm"}, NEW status \in {"FAILED", "DEFERRED"},
             Answered(w, from, status, {})
      PROVE  InHand' /\ InTable'
  <2>1. receipt'[w].status = status /\ receipt'[w].tx = {}
    BY <1>2, AnsweredTypes DEF Statuses
  <2>2. Genuine(receipt'[w], txs')
    BY <2>1 DEF Genuine
  <2>. QED
    BY <1>2, <2>2, AnsweredGenuine DEF Statuses
<1>3. CASE ConfirmValidated(w)
  <2>1. /\ pc[w] = "confirm" /\ Answered(w, "confirm", "CONFIRMED", receipt[w].tx)
        /\ \A n \in receipt[w].tx : txs[n].validated
        /\ txs' = txs
    BY <1>3 DEF ConfirmValidated, Answered
  <2>2. receipt[w].tx \in SUBSET Nat
    BY <2>1 DEF TypeOK, Receipt
  <2>3. /\ receipt'[w].intent = queued[w].intent
        /\ receipt'[w].attempt = queued[w].attempt
        /\ receipt'[w].status = "CONFIRMED"
        /\ receipt'[w].tx = receipt[w].tx
    BY <2>1, <2>2, AnsweredTypes DEF Statuses
  <2>4. /\ receipt[w].intent = queued[w].intent
        /\ receipt[w].attempt = queued[w].attempt
        /\ receipt[w].tx # {}
        /\ Genuine(receipt[w], txs)
    BY <2>1 DEF InHand, Holds
  <2>5. Genuine(receipt'[w], txs')
    BY <2>1, <2>3, <2>4 DEF Genuine, Anchors
  <2>. QED
    BY <2>1, <2>2, <2>5, AnsweredGenuine DEF Statuses
<1>. QED
  BY <1>1, <1>2, <1>3 DEF Answer, SubmitFailed, ConfirmFailed, ConfirmDeferred

LEMMA ConfirmStep ==
  ASSUME ConfirmInv, TxsGrow, [Next]_vars
  PROVE  InHand' /\ InTable'
<1>. USE DEF ConfirmInv
<1>1. ASSUME NEW i \in Intents, NEW t \in Times, Enqueue(i, t)
      PROVE  InHand' /\ InTable'
  BY <1>1 DEF Enqueue, InHand, InTable, Holds, call
<1>2. ASSUME NEW w \in Workers, NEW wanted \in SUBSET Intents, Fetch(w, wanted)
      PROVE  InHand' /\ InTable'
  <2>1. \A v \in Workers : pc'[v] \in {"confirm", "insert", "update"} =>
          v # w /\ pc'[v] = pc[v] /\ queued'[v] = queued[v] /\ receipt'[v] = receipt[v]
    BY <1>2, FetchTypes DEF TypeOK
  <2>2. txs' = txs /\ receipts' = receipts
    BY <1>2 DEF Fetch, table
  <2>. QED
    BY <2>1, <2>2 DEF InHand, InTable, Holds
<1>3. ASSUME NEW w \in Workers, Answer(w)
      PROVE  InHand' /\ InTable'
  BY <1>3, AnswerStep
<1>4. ASSUME NEW w \in Workers, InsertReceipt(w)
      PROVE  InHand' /\ InTable'
  <2>1. Genuine(receipt[w], txs) /\ txs' = txs
    BY <1>4 DEF InsertReceipt, InHand, Holds
  <2>2. InTable'
    BY <1>4, <2>1 DEF InsertReceipt, InTable
  <2>3. \A v \in Workers : /\ pc'[v] = "confirm" => pc[v] = "confirm"
                          /\ pc'[v] \in {"confirm", "insert", "update"} =>
                               pc[v] \in {"confirm", "insert", "update"}
    BY <1>4 DEF InsertReceipt, TypeOK
  <2>4. InHand'
    BY <1>4, <2>1, <2>3 DEF InsertReceipt, InHand, Holds
  <2>. QED
    BY <2>2, <2>4
<1>5. ASSUME NEW w \in Workers, UpdateStatus(w)
      PROVE  InHand' /\ InTable'
  <2>1. txs' = txs /\ receipts' = receipts /\ pc[w] = "update"
    BY <1>5 DEF UpdateStatus
  <2>2. \A v \in Workers \ {w} :
          pc'[v] = pc[v] /\ queued'[v] = queued[v] /\ receipt'[v] = receipt[v]
    BY <1>5 DEF UpdateStatus, Return, TypeOK
  <2>3. CASE receipt[w].status = "SUBMITTED" /\ receipt[w].tx # {}
    <3>1. pc'[w] = "confirm" /\ queued'[w] = queued[w] /\ receipt'[w] = receipt[w]
      BY <1>5, <2>3 DEF UpdateStatus, TypeOK
    <3>2. Holds(w)'
      BY <2>1, <2>3, <3>1 DEF InHand, Holds
    <3>. QED
      BY <2>1, <2>2, <3>2, HoldsStays DEF InHand, InTable
  <2>4. CASE ~ (receipt[w].status = "SUBMITTED" /\ receipt[w].tx # {})
    <3>1. pc'[w] = "idle"
      BY <1>5, <2>4 DEF UpdateStatus, Return, TypeOK
    <3>2. Holds(w)'
      BY <3>1 DEF Holds
    <3>. QED
      BY <2>1, <2>2, <3>2, HoldsStays DEF InHand, InTable
  <2>. QED
    BY <2>3, <2>4
<1>6. ASSUME NEW w \in Workers, Crash(w)
      PROVE  InHand' /\ InTable'
  <2>1. /\ pc'[w] = "idle"
        /\ \A v \in Workers \ {w} :
             pc'[v] = pc[v] /\ queued'[v] = queued[v] /\ receipt'[v] = receipt[v]
        /\ txs' = txs /\ receipts' = receipts
    BY <1>6 DEF Crash, Return, TypeOK, table
  <2>2. Holds(w)'
    BY <2>1 DEF Holds
  <2>. QED
    BY <2>1, <2>2, HoldsStays DEF InHand, InTable
<1>7. ASSUME NEW n \in DOMAIN txs, Validate(n)
      PROVE  InHand' /\ InTable'
  <2>1. UNCHANGED <<table, call>>
    BY <1>7 DEF Validate
  <2>. QED
    BY <2>1, GenuineStays, HoldsStays DEF InHand, InTable, table, call
<1>8. CASE UNCHANGED vars
  BY <1>8 DEF vars, InHand, InTable, Holds
<1>. QED
  BY <1>1, <1>2, <1>3, <1>4, <1>5, <1>6, <1>7, <1>8 DEF Next, Work

LEMMA ConfirmInvariant == Spec => []ConfirmInv
<1>1. Init => ConfirmInv
  <2>1. Init => InHand /\ InTable
    BY DEF Init, InHand, InTable, Holds
  <2>. QED
    BY <2>1, TypeInit DEF ConfirmInv
<1>2. ConfirmInv /\ [Next]_vars => ConfirmInv'
  BY TypeStep, ConfirmStep DEF ConfirmInv
<1>. QED
  BY <1>1, <1>2, PTL DEF Spec

(***************************************************************************)
(* A CONFIRMED receipt names a transaction that was submitted for the same *)
(* intent and attempt and that the ledger has validated: no confirmation   *)
(* is ever taken from another worker's transaction, or from too early.     *)
(***************************************************************************)
THEOREM ConfirmationsReal == Spec => []ConfirmedIsReal
<1>1. ConfirmInv => ConfirmedIsReal
  BY DEF ConfirmInv, InTable, Genuine, Anchors, ConfirmedIsReal
<1>. QED
  BY <1>1, ConfirmInvariant, PTL

-----------------------------------------------------------------------------
(***************************************************************************)
(* "Single-process": what the queue promises when one worker at a time     *)
(* uses it, for any intents, answers and deaths.                           *)
(***************************************************************************)
OneWorker == \A v, w \in Workers : v = w

(***************************************************************************)
(* Where a cycle stands relative to the row it fetched.  Nobody else       *)
(* changes the row meanwhile, so an attempt that is begun is one more than *)
(* the row's, and one that was submitted is the row's.                     *)
(***************************************************************************)
Begun(q) ==
  /\ q.intent \in DOMAIN intents
  /\ intents[q.intent].status \in EligibleStatuses
  /\ q.attempt = intents[q.intent].attempt + 1

Submitted(q) ==
  /\ q.intent \in DOMAIN intents
  /\ intents[q.intent].status = "SUBMITTED"
  /\ q.attempt = intents[q.intent].attempt

Recording(w) ==
  /\ receipt[w].intent = queued[w].intent /\ receipt[w].attempt = queued[w].attempt
  /\ \/ Begun(queued[w]) /\ receipt[w].status \in {"SUBMITTED", "FAILED"}
     \/ Submitted(queued[w]) /\ receipt[w].status \in {"CONFIRMED", "DEFERRED", "FAILED"}

InCycle(w) ==
  /\ pc[w] = "submit" => Begun(queued[w])
  /\ pc[w] = "confirm" => Submitted(queued[w])
  /\ pc[w] \in {"insert", "update"} => Recording(w)

(***************************************************************************)
(* An intent with a CONFIRMED receipt is out of every cycle's reach, but   *)
(* for the update that follows the receipt.                                *)
(***************************************************************************)
Settled(r) ==
  /\ r.intent \in DOMAIN intents
  /\ intents[r.intent].status \in {"SUBMITTED", "CONFIRMED"}
  /\ \A w \in Workers : pc[w] # "idle" /\ queued[w].intent = r.intent =>
       pc[w] = "update" /\ receipt[w].status = "CONFIRMED"

CycleInv ==
  /\ TypeOK
  /\ \A w \in Workers : InCycle(w)
  /\ \A r \in receipts : r.status = "CONFIRMED" => Settled(r)

-----------------------------------------------------------------------------
(***************************************************************************)
(* What a step does to the table and to the worker's hands.                *)
(***************************************************************************)

\* An answer becomes a receipt of the attempt in hand.
LEMMA AnsweredFacts ==
  ASSUME TypeOK, NEW w \in Workers, NEW from, NEW status, NEW tx, Answered(w, from, status, tx)
  PROVE  /\ pc[w] = from /\ pc'[w] = "insert" /\ queued' = queued
         /\ intents' = intents /\ receipts' = receipts
         /\ receipt'[w].intent = queued[w].intent
         /\ receipt'[w].attempt = queued[w].attempt
         /\ receipt'[w].status = status
BY DEF TypeOK, Answered, table

LEMMA AnswerFacts ==
  ASSUME TypeOK, NEW w \in Workers, Answer(w)
  PROVE  /\ pc[w] \in {"submit", "confirm"} /\ pc'[w] = "insert" /\ queued' = queued
         /\ intents' = intents /\ receipts' = receipts
         /\ receipt'[w].intent = queued[w].intent
         /\ receipt'[w].attempt = queued[w].attempt
         /\ pc[w] = "submit" => receipt'[w].status \in {"SUBMITTED", "FAILED"}
         /\ pc[w] = "confirm" => receipt'[w].status \in {"CONFIRMED", "DEFERRED", "FAILED"}
<1>1. ASSUME NEW tx, SubmitAccepted(w, tx)
      PROVE  Answered(w, "submit", "SUBMITTED", tx)
  BY <1>1 DEF SubmitAccepted
<1>2. SubmitFailed(w) => Answered(w, "submit", "FAILED", {})
  BY DEF SubmitFailed
<1>3. ConfirmFailed(w) => Answered(w, "confirm", "FAILED", {})
  BY DEF ConfirmFailed
<1>4. ConfirmDeferred(w) => Answered(w, "confirm", "DEFERRED", {})
  BY DEF ConfirmDeferred
<1>5. ConfirmValidated(w) => Answered(w, "confirm", "CONFIRMED", receipt[w].tx)
  BY DEF ConfirmValidated
<1>. QED
  BY <1>1, <1>2, <1>3, <1>4, <1>5, AnsweredFacts DEF Answer

\* An update writes the receipt in hand into the row of its intent, and nothing else.
LEMMA UpdateFacts ==
  ASSUME TypeOK, NEW w \in Workers, UpdateStatus(w), receipt[w].intent \in DOMAIN intents
  PROVE  /\ pc[w] = "update" /\ receipts' = receipts
         /\ DOMAIN intents' = DOMAIN intents
         /\ \A i \in DOMAIN intents : i # receipt[w].intent => intents'[i] = intents[i]
         /\ intents'[receipt[w].intent].status = receipt[w].status
         /\ intents'[receipt[w].intent].attempt = receipt[w].attempt
         /\ \/ receipt[w].status = "SUBMITTED" /\ pc'[w] = "confirm" /\ queued' = queued
            \/ pc'[w] = "idle"
<1> DEFINE r == receipt[w]
           e == r.intent
<1>1. DOMAIN intents[e] = {"status", "attempt", "at"}
  BY DEF TypeOK, Intent
<1>2. /\ pc[w] = "update" /\ receipts' = receipts
      /\ intents' = [intents EXCEPT ![e] = [[intents[e] EXCEPT !.status = r.status]
                                              EXCEPT !.attempt = r.attempt]]
  BY DEF UpdateStatus
<1>3. \/ r.status = "SUBMITTED" /\ pc' = [pc EXCEPT ![w] = "confirm"] /\ queued' = queued
      \/ pc' = [pc EXCEPT ![w] = "idle"]
  BY DEF UpdateStatus, Return
<1> HIDE DEF e, r
<1>4. /\ DOMAIN intents' = DOMAIN intents
      /\ \A i \in DOMAIN intents : i # e => intents'[i] = intents[i]
      /\ intents'[e].status = r.status
      /\ intents'[e].attempt = r.attempt
  BY <1>1, <1>2 DEF e, r
<1>5. DOMAIN pc = Workers
  BY DEF TypeOK
<1>. QED
  BY <1>2, <1>3, <1>4, <1>5 DEF e, r

-----------------------------------------------------------------------------
(***************************************************************************)
(* The invariant is kept.                                                  *)
(***************************************************************************)
LEMMA CycleInit == Init => CycleInv
<1>1. Init => TypeOK
  BY TypeInit
<1>. QED
  BY <1>1 DEF Init, CycleInv, InCycle

LEMMA EnqueueKeeps ==
  ASSUME CycleInv, NEW i \in Intents, NEW t \in Times, Enqueue(i, t), TypeOK'
  PROVE  CycleInv'
<1>1. /\ DOMAIN intents' = DOMAIN intents \cup {i}
      /\ \A j \in DOMAIN intents : intents'[j] = intents[j]
      /\ UNCHANGED <<receipts, pc, queued, receipt>>
  BY DEF Enqueue, call
<1>2. /\ \A q : Begun(q) => Begun(q)'
      /\ \A q : Submitted(q) => Submitted(q)'
  BY <1>1 DEF Begun, Submitted
<1>3. ASSUME NEW w \in Workers
      PROVE  InCycle(w)'
  <2>1. InCycle(w) /\ queued'[w] = queued[w] /\ receipt'[w] = receipt[w] /\ pc'[w] = pc[w]
    BY <1>1 DEF CycleInv
  <2>2. /\ Begun(queued[w]) => Begun(queued[w])'
        /\ Submitted(queued[w]) => Submitted(queued[w])'
    BY <1>1 DEF Begun, Submitted
  <2>. QED
    BY <2>1, <2>2 DEF InCycle, Recording
<1>4. \A r \in receipts' : r.status = "CONFIRMED" => Settled(r)'
  BY <1>1 DEF CycleInv, Settled
<1>. QED
  BY <1>3, <1>4 DEF CycleInv

\* A step of the worker: no other worker has a cycle to disturb.
LEMMA WorkerKeeps ==
  ASSUME OneWorker, CycleInv, NEW w \in Workers, TypeOK',
         (\E wanted \in SUBSET Intents : Fetch(w, wanted))
           \/ Answer(w) \/ InsertReceipt(w) \/ UpdateStatus(w) \/ Crash(w)
  PROVE  CycleInv'
<1>1. TypeOK /\ InCycle(w) /\ \A r \in receipts : r.status = "CONFIRMED" => Settled(r)
  BY DEF CycleInv
<1>2. \A v \in Workers : v = w
  BY DEF OneWorker
<1>3. SUFFICES InCycle(w)' /\ \A r \in receipts' : r.status = "CONFIRMED" => Settled(r)'
  BY <1>2 DEF CycleInv
<1>4. ASSUME NEW wanted \in SUBSET Intents, Fetch(w, wanted)
      PROVE  InCycle(w)' /\ \A r \in receipts' : r.status = "CONFIRMED" => Settled(r)'
  <2>1. PICK i \in NextPending \cap wanted :
          /\ queued' = [queued EXCEPT ![w] = [intent |-> i, attempt |-> intents[i].attempt + 1]]
          /\ pc' = [pc EXCEPT ![w] = "submit"]
          /\ intents' = intents /\ receipts' = receipts /\ receipt' = receipt
    BY <1>4 DEF Fetch, table
  <2>2. i \in DOMAIN intents /\ intents[i].status \in EligibleStatuses
    BY <2>1 DEF NextPending, Eligible
  <2>3. /\ queued'[w] = [intent |-> i, attempt |-> intents[i].attempt + 1]
        /\ pc'[w] = "submit"
    BY <1>1, <2>1 DEF TypeOK
  <2>4. InCycle(w)'
    BY <2>1, <2>2, <2>3 DEF InCycle, Begun
  <2>5. \A r \in receipts : r.status = "CONFIRMED" => r.intent # i
    BY <1>1, <2>2 DEF Settled, EligibleStatuses
  <2>. QED
    BY <1>1, <1>2, <2>1, <2>3, <2>4, <2>5 DEF Settled
<1>5. CASE Answer(w)
  <2>1. /\ pc[w] \in {"submit", "confirm"} /\ pc'[w] = "insert" /\ queued' = queued
        /\ intents' = intents /\ receipts' = receipts
        /\ receipt'[w].intent = queued[w].intent
        /\ receipt'[w].attempt = queued[w].attempt
        /\ pc[w] = "submit" => receipt'[w].status \in {"SUBMITTED", "FAILED"}
        /\ pc[w] = "confirm" => receipt'[w].status \in {"CONFIRMED", "DEFERRED", "FAILED"}
    BY <1>1, <1>5, AnswerFacts
  <2>2. InCycle(w)'
    BY <1>1, <2>1 DEF InCycle, Recording, Begun, Submitted
  <2>3. \A r \in receipts : r.status = "CONFIRMED" => queued[w].intent # r.intent
    BY <1>1, <2>1 DEF Settled
  <2>. QED
    BY <1>1, <1>2, <2>1, <2>2, <2>3 DEF Settled
<1>6. CASE InsertReceipt(w)
  <2>1. /\ pc[w] = "insert" /\ pc'[w] = "update"
        /\ receipts' = receipts \cup {receipt[w]}
        /\ intents' = intents /\ queued' = queued /\ receipt' = receipt
    BY <1>1, <1>6 DEF InsertReceipt, TypeOK
  <2>2. Recording(w) /\ InCycle(w)'
    BY <1>1, <2>1 DEF InCycle, Recording, Begun, Submitted
  <2>3. \A r \in receipts : r.status = "CONFIRMED" => queued[w].intent # r.intent
    BY <1>1, <2>1 DEF Settled
  <2>4. ASSUME receipt[w].status = "CONFIRMED"
        PROVE  Settled(receipt[w])'
    BY <1>2, <2>1, <2>2, <2>4 DEF Recording, Submitted, Settled
  <2>. QED
    BY <1>1, <1>2, <2>1, <2>2, <2>3, <2>4 DEF Settled
<1>7. CASE UpdateStatus(w)
  <2>1. Recording(w)
    BY <1>1, <1>7 DEF InCycle, UpdateStatus
  <2>2. /\ receipt[w].intent \in DOMAIN intents
        /\ receipt[w].intent = queued[w].intent /\ receipt[w].attempt = queued[w].attempt
    BY <2>1 DEF Recording, Begun, Submitted
  <2>3. /\ pc[w] = "update" /\ receipts' = receipts
        /\ DOMAIN intents' = DOMAIN intents
        /\ \A i \in DOMAIN intents : i # receipt[w].intent => intents'[i] = intents[i]
        /\ intents'[receipt[w].intent].status = receipt[w].status
        /\ intents'[receipt[w].intent].attempt = receipt[w].attempt
        /\ \/ receipt[w].status = "SUBMITTED" /\ pc'[w] = "confirm" /\ queued' = queued
           \/ pc'[w] = "idle"
    BY <1>1, <1>7, <2>2, UpdateFacts
  <2>4. InCycle(w)'
    BY <2>2, <2>3 DEF InCycle, Submitted
  <2>5. ASSUME NEW r \in receipts, r.status = "CONFIRMED"
        PROVE  Settled(r)'
    <3>1. CASE r.intent = receipt[w].intent
      <4>1. receipt[w].status = "CONFIRMED"
        BY <1>1, <2>2, <2>3, <2>5, <3>1 DEF Settled
      <4>. QED
        BY <1>2, <2>2, <2>3, <3>1, <4>1 DEF Settled
    <3>2. CASE r.intent # receipt[w].intent
      BY <1>1, <1>2, <2>2, <2>3, <2>5, <3>2 DEF Settled
    <3>. QED
      BY <3>1, <3>2
  <2>. QED
    BY <2>3, <2>4, <2>5
<1>8. CASE Crash(w)
  <2>1. pc'[w] = "idle" /\ intents' = intents /\ receipts' = receipts
    BY <1>1, <1>8 DEF Crash, Return, TypeOK, table
  <2>. QED
    BY <1>1, <1>2, <2>1 DEF InCycle, Settled
<1>. QED
  BY <1>4, <1>5, <1>6, <1>7, <1>8

LEMMA CycleStep ==
  ASSUME OneWorker, CycleInv, [Next]_vars
  PROVE  CycleInv'
<1>1. TypeOK'
  BY TypeStep DEF CycleInv
<1>2. CASE UNCHANGED <<intents, receipts, pc, queued, receipt>>
  BY <1>1, <1>2 DEF CycleInv, InCycle, Recording, Begun, Submitted, Settled
<1>3. \A i \in Intents : Intents \in SUBSET Intents /\ {i} \in SUBSET Intents
  OBVIOUS
<1>4. CASE \E w \in Workers : Work(w) \/ Crash(w)
  BY <1>1, <1>4, WorkerKeeps DEF Work
<1>5. CASE \E w \in Workers, i \in Intents : Fetch(w, {i})
  BY <1>1, <1>3, <1>5, WorkerKeeps
<1>6. CASE \E i \in Intents, t \in Times : Enqueue(i, t)
  BY <1>1, <1>6, EnqueueKeeps
<1>7. CASE \E n \in DOMAIN txs : Validate(n)
  BY <1>2, <1>7 DEF Validate, table, call
<1>. QED
  BY <1>2, <1>4, <1>5, <1>6, <1>7 DEF Next, vars

LEMMA CycleInvariant ==
  ASSUME OneWorker
  PROVE  Spec => []CycleInv
<1>1. CycleInv /\ [Next]_vars => CycleInv'
  BY CycleStep
<1>. QED
  BY <1>1, CycleInit, PTL DEF Spec

-----------------------------------------------------------------------------
(***************************************************************************)
(* The refinement of IntentLifecycle: an enqueue and an update are moves   *)
(* of one intent, every other step stutters.                               *)
(***************************************************************************)
StatusIn(rows)  == [i \in Intents |-> IF i \in DOMAIN rows THEN rows[i].status ELSE "NONE"]
AttemptIn(rows) == [i \in Intents |-> IF i \in DOMAIN rows THEN rows[i].attempt ELSE 0]

\* Only a row of i has changed, and as the queue documents it.
LEMMA RowMoves ==
  ASSUME NEW i \in Intents, i \in DOMAIN intents',
         NEW old, old = StatusIn(intents)[i], old \in DOMAIN Lifecycle!Transitions,
         intents'[i].status \in Lifecycle!Transitions[old],
         intents'[i].attempt = IF old \in {"PENDING", "DEFERRED"}
                               THEN AttemptIn(intents)[i] + 1 ELSE AttemptIn(intents)[i],
         \A j \in Intents \ {i} : /\ j \in DOMAIN intents' <=> j \in DOMAIN intents
                                  /\ j \in DOMAIN intents => intents'[j] = intents[j]
  PROVE  Lifecycle!Next
<1>1. StatusIn(intents') = [StatusIn(intents) EXCEPT ![i] = intents'[i].status]
  BY DEF StatusIn
<1>2. AttemptIn(intents') = [AttemptIn(intents) EXCEPT ![i] = intents'[i].attempt]
  BY DEF AttemptIn
<1>3. AttemptIn(intents') = IF old \in {"PENDING", "DEFERRED"}
                            THEN [AttemptIn(intents) EXCEPT ![i] = @ + 1] ELSE AttemptIn(intents)
  BY <1>2 DEF AttemptIn
<1>4. Lifecycle!Move(i)
  BY <1>1, <1>3 DEF Lifecycle!Move, StatusIn, AttemptIn
<1>. QED
  BY <1>4 DEF Lifecycle!Next

LEMMA LifecycleStep ==
  ASSUME OneWorker, CycleInv, [Next]_vars
  PROVE  Lifecycle!Next \/ intents' = intents
<1>1. TypeOK
  BY DEF CycleInv
<1>2. ASSUME NEW i \in Intents, NEW t \in Times, Enqueue(i, t)
      PROVE  Lifecycle!Next
  <2>1. /\ i \notin DOMAIN intents
        /\ DOMAIN intents' = DOMAIN intents \cup {i}
        /\ intents'[i].status = "PENDING" /\ intents'[i].attempt = 0
        /\ \A j \in DOMAIN intents : intents'[j] = intents[j]
    BY <1>2 DEF Enqueue
  <2>2. StatusIn(intents)[i] = "NONE" /\ AttemptIn(intents)[i] = 0
    BY <2>1 DEF StatusIn, AttemptIn
  <2>3. "NONE" \in DOMAIN Lifecycle!Transitions /\ Lifecycle!Transitions["NONE"] = {"PENDING"}
    BY DEF Lifecycle!Transitions
  <2>. QED
    BY <2>1, <2>2, <2>3, RowMoves
<1>3. ASSUME NEW w \in Workers, UpdateStatus(w)
      PROVE  Lifecycle!Next
  <2> DEFINE i   == receipt[w].intent
             old == intents[i].status
  <2>1. Recording(w)
    BY <1>3 DEF CycleInv, InCycle, UpdateStatus
  <2>2. i \in DOMAIN intents /\ i \in Intents
    BY <1>1, <2>1 DEF Recording, Begun, Submitted, TypeOK
  <2>3. /\ DOMAIN intents' = DOMAIN intents
        /\ \A j \in DOMAIN intents : j # i => intents'[j] = intents[j]
        /\ intents'[i].status = receipt[w].status
        /\ intents'[i].attempt = receipt[w].attempt
    BY <1>1, <1>3, <2>2, UpdateFacts
  <2>4. \/ /\ old \in {"PENDING", "DEFERRED"}
           /\ receipt[w].attempt = intents[i].attempt + 1
           /\ receipt[w].status \in {"SUBMITTED", "FAILED"}
        \/ /\ old = "SUBMITTED"
           /\ receipt[w].attempt = intents[i].attempt
           /\ receipt[w].status \in {"CONFIRMED", "DEFERRED", "FAILED"}
    BY <2>1 DEF Recording, Begun, Submitted, EligibleStatuses
  <2>5. StatusIn(intents)[i] = old /\ AttemptIn(intents)[i] = intents[i].attempt
    BY <2>2 DEF StatusIn, AttemptIn
  <2>6. old \in DOMAIN Lifecycle!Transitions /\ receipt[w].status \in Lifecycle!Transitions[old]
    BY <2>4 DEF Lifecycle!Transitions
  <2> HIDE DEF i, old
  <2>. QED
    BY <2>2, <2>3, <2>4, <2>5, <2>6, RowMoves
<1>4. ASSUME NEW w \in Workers, Answer(w)
      PROVE  intents' = intents
  BY <1>1, <1>4, AnswerFacts
<1>. QED
  BY <1>2, <1>3, <1>4 DEF Next, Work, Fetch, InsertReceipt, Crash, Validate, table, vars

(***************************************************************************)
(* With one worker the queue keeps its promise: status and attempt of      *)
(* every intent make only the moves listed in the head of queue.py,        *)
(* whatever is answered and whenever the worker dies.                      *)
(***************************************************************************)
THEOREM LifecycleTheorem ==
  ASSUME OneWorker
  PROVE  Spec => KeepsLifecycle
<1>1. Init => Lifecycle!Init
  BY DEF Init, Lifecycle!Init
<1>2. CycleInv /\ [Next]_vars => [Lifecycle!Next]_<<StatusIn(intents), AttemptIn(intents)>>
  BY LifecycleStep DEF StatusIn, AttemptIn
<1>3. Spec => [][Lifecycle!Next]_<<StatusIn(intents), AttemptIn(intents)>>
  BY <1>2, CycleInvariant, PTL DEF Spec
<1>4. Spec => Lifecycle!Init
  BY <1>1, PTL DEF Spec
<1>. QED
  BY <1>3, <1>4, PTL DEF KeepsLifecycle, Lifecycle!Spec, StatusIn, AttemptIn

-----------------------------------------------------------------------------
(***************************************************************************)
(* With one worker, once an intent has a CONFIRMED receipt the ledger      *)
(* takes no other transaction for it and no other receipt is recorded,     *)
(* even when the worker died before its row said so.                       *)
(***************************************************************************)
THEOREM ConfirmedOnceTheorem ==
  ASSUME OneWorker
  PROVE  Spec => ConfirmedOnce
<1> DEFINE NotAgain ==
      \A r \in receipts : r.status = "CONFIRMED" =>
        /\ \A n \in DOMAIN txs' \ DOMAIN txs : txs'[n].intent # r.intent
        /\ \A q \in receipts' \ receipts : q.intent # r.intent
<1>1. ASSUME CycleInv, [Next]_vars, NEW r \in receipts, r.status = "CONFIRMED"
      PROVE  \A n \in DOMAIN txs' \ DOMAIN txs : txs'[n].intent # r.intent
  <2>1. TypeOK /\ Settled(r)
    BY <1>1 DEF CycleInv
  <2>2. ASSUME NEW w \in Workers, pc[w] = "submit", Taken(w)
        PROVE  \A n \in DOMAIN txs' \ DOMAIN txs : txs'[n].intent # r.intent
    <3>1. \A n \in DOMAIN txs' \ DOMAIN txs : txs'[n].intent = queued[w].intent
      BY <2>1, <2>2 DEF Taken, TypeOK
    <3>2. r.intent # queued[w].intent
      BY <2>1, <2>2 DEF Settled
    <3>. QED
      BY <3>1, <3>2
  <2>3. ASSUME NEW n \in DOMAIN txs, Validate(n)
        PROVE  DOMAIN txs' = DOMAIN txs
    BY <2>3 DEF Validate
  <2>4. ASSUME NEW w \in Workers, Answer(w)
        PROVE  txs' = txs \/ (pc[w] = "submit" /\ Taken(w))
    BY <2>4 DEF Answer, SubmitAccepted, SubmitFailed, ConfirmFailed, ConfirmDeferred,
                ConfirmValidated, Answered
  <2>5. ASSUME ~ (\E w \in Workers : Answer(w)), ~ (\E n \in DOMAIN txs : Validate(n))
        PROVE  txs' = txs
    BY <1>1, <2>5 DEF Next, Work, Enqueue, Fetch, InsertReceipt, UpdateStatus, Crash, vars
  <2>. QED
    BY <2>2, <2>3, <2>4, <2>5
<1>2. ASSUME CycleInv, [Next]_vars, NEW r \in receipts, r.status = "CONFIRMED"
      PROVE  \A q \in receipts' \ receipts : q.intent # r.intent
  <2>1. TypeOK /\ Settled(r)
    BY <1>2 DEF CycleInv
  <2>2. ASSUME NEW w \in Workers, InsertReceipt(w)
        PROVE  receipts' \ receipts \subseteq {receipt[w]} /\ receipt[w].intent # r.intent
    <3>1. pc[w] = "insert" /\ Recording(w)
      BY <1>2, <2>2 DEF InsertReceipt, CycleInv, InCycle
    <3>2. queued[w].intent # r.intent
      BY <2>1, <3>1 DEF Settled
    <3>. QED
      BY <2>2, <3>1, <3>2 DEF InsertReceipt, Recording
  <2>3. ASSUME NEW w \in Workers, Answer(w)
        PROVE  receipts' = receipts
    BY <2>1, <2>3, AnswerFacts
  <2>4. receipts' = receipts \/ \E w \in Workers : InsertReceipt(w)
    BY <1>2, <2>3 DEF Next, Work, Enqueue, Fetch, UpdateStatus, Crash, Validate, table, vars
  <2>. QED
    BY <2>2, <2>4
<1>3. CycleInv /\ [Next]_vars => [NotAgain]_vars
  BY <1>1, <1>2
<1> HIDE DEF NotAgain
<1>4. Spec => [][NotAgain]_vars
  BY <1>3, CycleInvariant, PTL DEF Spec
<1>. QED
  BY <1>4 DEF ConfirmedOnce, NotAgain

-----------------------------------------------------------------------------
(***************************************************************************)
(* The report of AttestationNarrative.  Reached: no receipt is of a later  *)
(* attempt than the row's, or the next while the row is still eligible for *)
(* one, and what is confirmed is the row's own attempt.  So a CONFIRMED    *)
(* receipt is among the last of its intent.                                *)
(***************************************************************************)
Reached(r, row) ==
  /\ r.attempt <= row.attempt + 1
  /\ row.status \notin EligibleStatuses => r.attempt <= row.attempt
  /\ r.status = "CONFIRMED" => r.attempt = row.attempt

ReachedInv ==
  \A r \in receipts : r.intent \in DOMAIN intents /\ Reached(r, intents[r.intent])

LEMMA ReachedStep ==
  ASSUME OneWorker, CycleInv, ReachedInv, [Next]_vars
  PROVE  ReachedInv'
<1>1. TypeOK
  BY DEF CycleInv
<1>2. CASE intents' = intents /\ receipts' = receipts
  BY <1>2 DEF ReachedInv
<1>3. ASSUME NEW i \in Intents, NEW t \in Times, Enqueue(i, t)
      PROVE  ReachedInv'
  <2>1. /\ DOMAIN intents' = DOMAIN intents \cup {i} /\ receipts' = receipts
        /\ \A j \in DOMAIN intents : intents'[j] = intents[j]
    BY <1>3 DEF Enqueue
  <2>. QED
    BY <2>1 DEF ReachedInv
<1>4. ASSUME NEW w \in Workers, InsertReceipt(w)
      PROVE  ReachedInv'
  <2>1. Recording(w) /\ receipts' = receipts \cup {receipt[w]} /\ intents' = intents
    BY <1>4 DEF InsertReceipt, CycleInv, InCycle
  <2>2. receipt[w].intent \in DOMAIN intents
    BY <2>1 DEF Recording, Begun, Submitted
  <2>3. intents[receipt[w].intent].attempt \in Nat
    BY <1>1, <2>2 DEF TypeOK, Intent
  <2>4. Reached(receipt[w], intents[receipt[w].intent])
    BY <2>1, <2>3 DEF Recording, Begun, Submitted, Reached, EligibleStatuses
  <2>. QED
    BY <2>1, <2>2, <2>4 DEF ReachedInv
<1>5. ASSUME NEW w \in Workers, UpdateStatus(w)
      PROVE  ReachedInv'
  <2> DEFINE i == receipt[w].intent
  <2>1. Recording(w)
    BY <1>5 DEF UpdateStatus, CycleInv, InCycle
  <2>2. i \in DOMAIN intents
    BY <2>1 DEF Recording, Begun, Submitted
  <2>3. /\ receipts' = receipts
        /\ DOMAIN intents' = DOMAIN intents
        /\ \A j \in DOMAIN intents : j # i => intents'[j] = intents[j]
        /\ intents'[i].status = receipt[w].status
        /\ intents'[i].attempt = receipt[w].attempt
    BY <1>1, <1>5, <2>2, UpdateFacts
  <2>4. intents[i].attempt \in Nat /\ \A r \in receipts : r.attempt \in Nat
    BY <1>1, <2>2 DEF TypeOK, Intent, Receipt
  <2>5. \/ /\ intents[i].status \in EligibleStatuses
           /\ receipt[w].attempt = intents[i].attempt + 1
        \/ /\ intents[i].status = "SUBMITTED"
           /\ receipt[w].attempt = intents[i].attempt
    BY <2>1 DEF Recording, Begun, Submitted
  <2>6. ASSUME NEW r \in receipts, r.intent = i
        PROVE  Reached(r, intents'[i])
    <3>1. Reached(r, intents[i]) /\ r.attempt \in Nat
      BY <2>4, <2>6 DEF ReachedInv
    <3>2. r.status = "CONFIRMED" => intents[i].status \notin EligibleStatuses
      BY <2>6 DEF CycleInv, Settled, EligibleStatuses
    <3>. QED
      BY <2>3, <2>4, <2>5, <3>1, <3>2 DEF Reached, EligibleStatuses
  <2> HIDE DEF i
  <2>. QED
    BY <2>3, <2>6 DEF ReachedInv
<1>6. ASSUME NEW w \in Workers, Answer(w)
      PROVE  ReachedInv'
  BY <1>1, <1>2, <1>6, AnswerFacts
<1>. QED
  BY <1>2, <1>3, <1>4, <1>5, <1>6 DEF Next, Work, Fetch, Crash, Validate, table, vars

LEMMA ReachedInvariant ==
  ASSUME OneWorker
  PROVE  Spec => []ReachedInv
<1>1. Init => ReachedInv
  BY DEF Init, ReachedInv
<1>2. CycleInv /\ ReachedInv /\ [Next]_vars => ReachedInv'
  BY ReachedStep
<1>. QED
  BY <1>1, <1>2, CycleInvariant, PTL DEF Spec

(***************************************************************************)
(* A report's first read and what became of the row since: the receipts    *)
(* that explain it are never lost, and a terminal row stays as it is.      *)
(***************************************************************************)
Seen ==
  header # None =>
    /\ header.intent \in DOMAIN intents
    /\ header.status # "PENDING" =>
         \E r \in receipts : /\ r.intent = header.intent
                             /\ r.status = header.status
                             /\ r.attempt = header.attempt
    /\ header.status \in Terminal =>
         /\ intents[header.intent].status = header.status
         /\ intents[header.intent].attempt = header.attempt

\* No step takes a receipt away, or changes a row whose status is terminal.
LEMMA RowsStay ==
  ASSUME CycleInv, [Next]_vars
  PROVE  /\ receipts \subseteq receipts'
         /\ \A i \in DOMAIN intents :
              /\ i \in DOMAIN intents'
              /\ intents[i].status \in Terminal => intents'[i] = intents[i]
<1>1. TypeOK
  BY DEF CycleInv
<1>2. ASSUME NEW i \in Intents, NEW t \in Times, Enqueue(i, t)
      PROVE  /\ receipts' = receipts
             /\ \A j \in DOMAIN intents : j \in DOMAIN intents' /\ intents'[j] = intents[j]
  BY <1>2 DEF Enqueue
<1>3. ASSUME NEW w \in Workers, UpdateStatus(w)
      PROVE  /\ receipts' = receipts
             /\ DOMAIN intents' = DOMAIN intents
             /\ \A i \in DOMAIN intents :
                  intents[i].status \in Terminal => intents'[i] = intents[i]
  <2>1. Recording(w)
    BY <1>3 DEF UpdateStatus, CycleInv, InCycle
  <2>2. /\ receipt[w].intent \in DOMAIN intents
        /\ intents[receipt[w].intent].status \notin Terminal
    BY <2>1 DEF Recording, Begun, Submitted, EligibleStatuses, Terminal
  <2>3. /\ receipts' = receipts /\ DOMAIN intents' = DOMAIN intents
        /\ \A i \in DOMAIN intents : i # receipt[w].intent => intents'[i] = intents[i]
    BY <1>1, <1>3, <2>2, UpdateFacts
  <2>. QED
    BY <2>2, <2>3
<1>4. ASSUME NEW w \in Workers, Answer(w)
      PROVE  intents' = intents /\ receipts' = receipts
  BY <1>1, <1>4, AnswerFacts
<1>5. ASSUME NEW w \in Workers, InsertReceipt(w)
      PROVE  intents' = intents /\ receipts \subseteq receipts'
  BY <1>5 DEF InsertReceipt
<1>. QED
  BY <1>2, <1>3, <1>4, <1>5 DEF Next, Work, Fetch, Crash, Validate, table, vars

LEMMA SeenStep ==
  ASSUME CycleInv, StatusHasReceipt, Seen, [ReportNext]_<<vars, header>>
  PROVE  Seen'
<1>1. CASE [Next]_vars /\ header' = header
  <2>1. receipts \subseteq receipts'
    BY <1>1, RowsStay
  <2>2. \A i \in DOMAIN intents : /\ i \in DOMAIN intents'
                                  /\ intents[i].status \in Terminal => intents'[i] = intents[i]
    BY <1>1, RowsStay
  <2>3. CASE header # None
    <3>1. /\ header.intent \in DOMAIN intents'
          /\ header.status \in Terminal =>
               /\ intents'[header.intent].status = header.status
               /\ intents'[header.intent].attempt = header.attempt
      BY <2>2, <2>3 DEF Seen
    <3>2. header.status # "PENDING" =>
            \E r \in receipts' : /\ r.intent = header.intent
                                 /\ r.status = header.status
                                 /\ r.attempt = header.attempt
      BY <2>1, <2>3 DEF Seen
    <3>. QED
      BY <1>1, <3>1, <3>2 DEF Seen
  <2>4. CASE header = None
    BY <1>1, <2>4 DEF Seen
  <2>. QED
    BY <2>3, <2>4
<1>2. ASSUME NEW i \in Intents, ReadRow(i)
      PROVE  Seen'
  <2>1. /\ header' = [intent |-> i, status |-> intents[i].status, attempt |-> intents[i].attempt]
        /\ i \in DOMAIN intents
        /\ intents' = intents /\ receipts' = receipts
    BY <1>2 DEF ReadRow, vars
  <2>. QED
    BY <2>1 DEF Seen, StatusHasReceipt
<1>. QED
  BY <1>1, <1>2, NarrativeAssumption DEF ReportNext, vars

LEMMA ReportInvariant ==
  ASSUME OneWorker
  PROVE  ReportSpec => [](Seen /\ CycleInv /\ ConfirmInv /\ ReachedInv)
<1>1. ReportSpec => Spec
  <2>1. [ReportNext]_<<vars, header>> => [Next]_vars
    BY DEF ReportNext, ReadRow, vars
  <2>. QED
    BY <2>1, PTL DEF ReportSpec, Spec
<1>2. header = None => Seen
  BY DEF Seen
<1>3. CycleInv /\ StatusHasReceipt /\ Seen /\ [ReportNext]_<<vars, header>> => Seen'
  BY SeenStep
<1>4. Spec => []CycleInv /\ []ConfirmInv /\ []ReachedInv /\ []StatusHasReceipt
  BY CycleInvariant, ConfirmInvariant, ReachedInvariant, StatusDerived
<1>. QED
  BY <1>1, <1>2, <1>3, <1>4, PTL DEF ReportSpec

(***************************************************************************)
(* With one worker a report can be trusted for what NarrativeAgrees says,  *)
(* however many steps the worker took between the two reads it is made of, *)
(* and wherever it died.                                                   *)
(***************************************************************************)
THEOREM NarrativeTheorem ==
  ASSUME OneWorker
  PROVE  ReportSpec => []NarrativeAgrees
<1>1. ASSUME Seen, CycleInv, ConfirmInv, ReachedInv, header # None
      PROVE  Agrees(ShowIntent(header, Recorded(header.intent)), header.intent)
  <2> DEFINE i == header.intent
             rs == Recorded(i)
             now == intents[i]
  <2>1. /\ i \in DOMAIN intents /\ now.attempt \in Nat
        /\ header.status # "PENDING" => \E r \in rs : r.status = header.status /\ r.attempt = header.attempt
        /\ header.status \in Terminal => now.status = header.status /\ now.attempt = header.attempt
    BY <1>1 DEF Seen, Recorded, CycleInv, TypeOK, Intent
  <2>2. ASSUME NEW r \in rs
        PROVE  /\ r.intent = i /\ r.attempt \in Nat /\ Reached(r, now) /\ Genuine(r, txs)
               /\ r.status = "CONFIRMED" => now.status \in {"SUBMITTED", "CONFIRMED"}
    BY <1>1 DEF Recorded, ReachedInv, ConfirmInv, InTable, CycleInv, Settled, TypeOK, Receipt
  <2> HIDE DEF i, rs, now
  <2>3. \A f, r \in rs : f.status = "CONFIRMED" => r.attempt <= f.attempt
    BY <2>1, <2>2 DEF Reached, EligibleStatuses
  <2>4. \A tx \in Witness(rs) : \E r \in rs : r.status = "CONFIRMED" /\ tx = r.tx
    BY DEF Witness, LastOnes, Confirmed
  <2>5. ASSUME NEW r \in Confirmed(rs)
        PROVE  r.tx \in Witness(rs)
    <3>1. r \in rs /\ r.status = "CONFIRMED"
      BY DEF Confirmed
    <3>2. r.tx # {}
      BY <2>2, <3>1 DEF Genuine
    <3>. QED
      BY <2>3, <3>1, <3>2 DEF Witness, LastOnes, Confirmed
  <2>6. header.status \in Terminal => \A r \in rs : r.attempt <= header.attempt
    BY <2>1, <2>2 DEF Reached, Terminal, EligibleStatuses
  <2>7. header.status = "FAILED" => Confirmed(rs) = {}
    BY <2>1, <2>2 DEF Confirmed, Terminal
  <2>8. header.status = "CONFIRMED" => Witness(rs) # {}
    BY <2>1, <2>5 DEF Confirmed
  <2>9. ASSUME NEW tx \in Witness(rs), NEW n \in tx
        PROVE  /\ txs[n].validated /\ txs[n].intent = i
               /\ header.status = "CONFIRMED" => txs[n].attempt = header.attempt
    <3>1. PICK r \in rs : r.status = "CONFIRMED" /\ tx = r.tx
      BY <2>4
    <3>. QED
      BY <2>1, <2>2, <3>1 DEF Genuine, Anchors, Reached, Terminal
  <2> DEFINE report == ShowIntent(header, rs)
  <2>10. /\ report.status = header.status /\ report.attempts = header.attempt
         /\ report.entries = rs /\ report.witness = Witness(rs)
    BY DEF ShowIntent
  <2>11. report.confirmed = (Confirmed(rs) # {})
    BY DEF ShowIntent
  <2>12. ASSUME NEW r \in rs, NEW q \in rs, r.attempt < q.attempt,
                NEW diff \in DiffAttempts(report, r.attempt, q.attempt)
         PROVE  diff.fromStatus # "CONFIRMED"
    <3>1. PICK f \in rs : f.attempt = r.attempt /\ diff.fromStatus = f.status
      BY <2>10, <2>12 DEF DiffAttempts
    <3>2. ~ (q.attempt <= f.attempt)
      BY <2>2, <2>12, <3>1
    <3>. QED
      BY <2>3, <3>1, <3>2
  <2> HIDE DEF report
  <2>13. Agrees(report, i)
    <3>1. report.status = "FAILED" => ~report.confirmed
      BY <2>7, <2>10, <2>11
    <3>2. \A r, q \in report.entries : r.attempt < q.attempt =>
            \A diff \in DiffAttempts(report, r.attempt, q.attempt) : diff.fromStatus # "CONFIRMED"
      BY <2>10, <2>12
    <3>. QED
      BY <2>1, <2>6, <2>8, <2>9, <2>10, <3>1, <3>2 DEF Agrees
  <2>. QED
    BY <2>13 DEF report, rs, i
<1>2. Seen /\ CycleInv /\ ConfirmInv /\ ReachedInv => NarrativeAgrees
  BY <1>1 DEF NarrativeAgrees
<1>. QED
  BY <1>2, ReportInvariant, PTL
=============================================================================
