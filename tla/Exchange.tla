-------------------------------- MODULE Exchange --------------------------------
(***************************************************************************)
(* adapter.submit and adapter.confirm down to the wire: the JSON-RPC       *)
(* client, the DCL transport and the store of exchanges.                   *)
(*                                                                         *)
(* A task is one running call of the adapter.  The tasks of a process      *)
(* share its transport and its request counter, and give way to one        *)
(* another at the awaits only: while the node is asked, and while the HTTP *)
(* client closes.  All processes share one store, a database and a         *)
(* directory; what a task writes there is several steps to the others.     *)
(*                                                                         *)
(* Ledger and file system are external.  A digest is represented by what   *)
(* it is a digest of.  Left out: the timestamps, and a transport without a *)
(* store, which does the same without the steps of put.                    *)
(***************************************************************************)
EXTENDS Integers, Sequences

CONSTANTS Tasks,
          ProcessOf,         \* the process of each task
          Txs,               \* transactions to submit and ask about
          SubmitResponses,   \* what a node may say to submit
          TxResponses,       \* what it may say to tx
          Garbage,           \* a response that is not the JSON expected
          StoreBodies,       \* DclTransport(store_bodies=...)
          MaxRequests,       \* bound on the request ids of a process
          MaxFaults          \* bound: how often a process dies or a write fails

ASSUME ExchangeAssumption ==
  /\ StoreBodies \in BOOLEAN
  /\ MaxRequests \in Nat
  /\ MaxFaults \in Nat

Processes == {ProcessOf[k] : k \in Tasks}

VARIABLES counter,   \* _REQUEST_ID of each process
          last,      \* _last_exchange of each process's transport
          pc,        \* what each task does next
          request,   \* the request each task has made
          response,  \* the response it has, none or one
          todo,      \* the bodies its put has yet to store
          records,   \* table dcl_exchanges
          files,     \* by digest, whether a blob is "partial" or "whole"
          receipt,   \* what the last call of each task returned, none or one
          faults

process == <<counter, last>>
task    == <<pc, request, response, todo>>
store   == <<records, files>>
vars    == <<counter, last, pc, request, response, todo, records, files, receipt, faults>>

NoRequest == [method |-> "none"]

\* its timestamp is not part of the digest it is stored and cited under
ExchangeRecord(req, resp) == [request |-> req, response |-> resp]

Init ==
  /\ counter = [p \in Processes |-> 0]
  /\ last = [p \in Processes |-> {}]
  /\ pc = [k \in Tasks |-> "idle"]
  /\ request = [k \in Tasks |-> NoRequest]
  /\ response = [k \in Tasks |-> {}]
  /\ todo = [k \in Tasks |-> <<>>]
  /\ records = {}
  /\ files = [d \in {} |-> "whole"]
  /\ receipt = [k \in Tasks |-> {}]
  /\ faults = 0

\* No other task of the process is between two awaits.
Scheduled(k) ==
  \A j \in Tasks \ {k} : ProcessOf[j] = ProcessOf[k] => pc[j] \in {"idle", "sent", "closing"}

-----------------------------------------------------------------------------
(***************************************************************************)
(* What a response becomes.  To submit: [ok, engine, accepted, hash], the  *)
(* engine's result by its prefix; to tx: [ok, missing, validated].         *)
(***************************************************************************)
ParseSubmit(r) ==
  [accepted |-> r.ok /\ r.engine # "none" /\ (r.accepted \/ r.engine \in {"tes", "ter"}),
   engine   |-> IF r.ok THEN r.engine ELSE "none",
   hash     |-> r.ok /\ r.engine # "none" /\ r.hash]

\* any error, txnNotFound or not, is a transaction that was not found
ParseTx(r) == [found |-> r.ok, validated |-> r.ok /\ r.validated]

ClassifyEngineResult(engine) ==
  IF engine \in {"tem", "tef", "tec", "ter"} THEN "REJECTED" ELSE "UNKNOWN"

SubmitReceipt(tx, result, evidence) ==
  [method   |-> "submit",
   tx       |-> tx,
   status   |-> IF result.accepted THEN "SUBMITTED" ELSE "FAILED",
   error    |-> IF result.accepted THEN "none" ELSE ClassifyEngineResult(result.engine),
   hash     |-> result.hash,
   evidence |-> evidence]

ConfirmReceipt(tx, result, evidence) ==
  [method   |-> "tx",
   tx       |-> tx,
   status   |-> IF result.found /\ result.validated THEN "CONFIRMED" ELSE "DEFERRED",
   error    |-> "none",
   hash     |-> result.found /\ result.validated,
   evidence |-> evidence]

ReceiptFor(req, resp, evidence) ==
  IF req.method = "submit" THEN SubmitReceipt(req.tx, ParseSubmit(resp), evidence)
                           ELSE ConfirmReceipt(req.tx, ParseTx(resp), evidence)

\* an exception reached the adapter, wherever it was raised
FailedReceipt(req) ==
  [method |-> req.method, tx |-> req.tx, status |-> "FAILED",
   error |-> "BACKEND_UNAVAILABLE", hash |-> FALSE, evidence |-> {}]

-----------------------------------------------------------------------------
(***************************************************************************)
(* The call, from its request to the response.                             *)
(***************************************************************************)
\* mutant: the call is over, and its request is kept
DoneKeepsRequest(k) ==
  /\ pc' = [pc EXCEPT ![k] = "idle"]
  /\ response' = [response EXCEPT ![k] = {}]
  /\ todo' = [todo EXCEPT ![k] = <<>>]
  /\ UNCHANGED request

Done(k) ==
  /\ pc' = [pc EXCEPT ![k] = "idle"]
  /\ request' = [request EXCEPT ![k] = NoRequest]
  /\ response' = [response EXCEPT ![k] = {}]
  /\ todo' = [todo EXCEPT ![k] = <<>>]

Raise(k) ==
  /\ receipt' = [receipt EXCEPT ![k] = {FailedReceipt(request[k])}]
  /\ Done(k)

\* the signer raised: there is no request
SignFailed(k, tx) ==
  /\ pc[k] = "idle" /\ Scheduled(k)
  /\ receipt' = [receipt EXCEPT ![k] =
                   {[FailedReceipt([method |-> "submit", tx |-> tx]) EXCEPT !.error = "REJECTED"]}]
  /\ UNCHANGED <<process, task, store, faults>>

Send(k, method, tx) ==
  LET p == ProcessOf[k]
  IN  /\ pc[k] = "idle" /\ Scheduled(k)
      /\ counter[p] < MaxRequests
      /\ counter' = [counter EXCEPT ![p] = @ + 1]
      /\ request' = [request EXCEPT ![k] = [method |-> method, tx |-> tx, id |-> counter[p] + 1]]
      /\ pc' = [pc EXCEPT ![k] = "sent"]
      /\ receipt' = [receipt EXCEPT ![k] = {}]
      /\ UNCHANGED <<last, response, todo, store, faults>>

\* no connection, a timeout, or an HTTP status that is an error
Unanswered(k) ==
  /\ pc[k] = "sent" /\ Scheduled(k)
  /\ Raise(k)
  /\ UNCHANGED <<process, store, faults>>

\* mutant: the transport keeps the first exchange it made
AnsweredOnce(k, r) ==
  LET p == ProcessOf[k]
  IN  /\ pc[k] = "sent" /\ Scheduled(k)
      /\ response' = [response EXCEPT ![k] = {r}]
      /\ last' = [last EXCEPT ![p] = IF @ = {} THEN {ExchangeRecord(request[k], r)} ELSE @]
      /\ todo' = [todo EXCEPT ![k] = IF StoreBodies THEN <<request[k], r>> ELSE <<>>]
      /\ pc' = [pc EXCEPT ![k] = "insert"]
      /\ UNCHANGED <<counter, request, store, receipt, faults>>

Answered(k, r) ==
  LET p == ProcessOf[k]
  IN  /\ pc[k] = "sent" /\ Scheduled(k)
      /\ response' = [response EXCEPT ![k] = {r}]
      /\ last' = [last EXCEPT ![p] = {ExchangeRecord(request[k], r)}]
      /\ todo' = [todo EXCEPT ![k] = IF StoreBodies THEN <<request[k], r>> ELSE <<>>]
      /\ pc' = [pc EXCEPT ![k] = "insert"]
      /\ UNCHANGED <<counter, request, store, receipt, faults>>

-----------------------------------------------------------------------------
(***************************************************************************)
(* put: the record, committed; then each body, unless a file of its name   *)
(* is there; then response.json().                                         *)
(***************************************************************************)
NextBody(k) == IF todo[k] = <<>> THEN "parse" ELSE "check"

\* mutant: the exchange is known, so there is nothing more to store
InsertNew(k) ==
  /\ pc[k] = "insert"
  /\ records' = records \cup last[ProcessOf[k]]
  /\ pc' = [pc EXCEPT ![k] = IF last[ProcessOf[k]] \subseteq records THEN "parse" ELSE NextBody(k)]
  /\ UNCHANGED <<process, request, response, todo, files, receipt, faults>>

Insert(k) ==
  /\ pc[k] = "insert"
  /\ records' = records \cup last[ProcessOf[k]]
  /\ pc' = [pc EXCEPT ![k] = NextBody(k)]
  /\ UNCHANGED <<process, request, response, todo, files, receipt, faults>>

BodyStored(k) ==
  /\ todo' = [todo EXCEPT ![k] = Tail(@)]
  /\ pc' = [pc EXCEPT ![k] = IF Len(todo[k]) = 1 THEN "parse" ELSE "check"]

CheckBody(k) ==
  /\ pc[k] = "check"
  /\ IF Head(todo[k]) \in DOMAIN files
     THEN BodyStored(k)
     ELSE pc' = [pc EXCEPT ![k] = "open"] /\ UNCHANGED todo
  /\ UNCHANGED <<process, request, response, store, receipt, faults>>

\* write_bytes opens the file for writing, which empties it
OpenBody(k) ==
  /\ pc[k] = "open"
  /\ files' = [d \in DOMAIN files \cup {Head(todo[k])} |->
                 IF d = Head(todo[k]) THEN "partial" ELSE files[d]]
  /\ pc' = [pc EXCEPT ![k] = "write"]
  /\ UNCHANGED <<process, request, response, todo, records, receipt, faults>>

WriteBody(k) ==
  /\ pc[k] = "write"
  /\ files' = [files EXCEPT ![Head(todo[k])] = "whole"]
  /\ BodyStored(k)
  /\ UNCHANGED <<process, request, response, records, receipt, faults>>

\* The database or the disk refuses: put raises, and post_json with it.
PutRefused(k) ==
  /\ pc[k] \in {"insert", "open", "write"}
  /\ faults < MaxFaults
  /\ faults' = faults + 1
  /\ Raise(k)
  /\ UNCHANGED <<process, store>>

Parse(k) ==
  /\ pc[k] = "parse"
  /\ IF response[k] = {Garbage}
     THEN Raise(k)
     ELSE pc' = [pc EXCEPT ![k] = "closing"] /\ UNCHANGED <<request, response, todo, receipt>>
  /\ UNCHANGED <<process, store, faults>>

-----------------------------------------------------------------------------
\* The HTTP client has closed: the client asks the transport for its last
\* exchange, and the adapter makes the receipt.
Return(k) ==
  /\ pc[k] = "closing" /\ Scheduled(k)
  /\ \E r \in response[k] :
       receipt' = [receipt EXCEPT ![k] = {ReceiptFor(request[k], r, last[ProcessOf[k]])}]
  /\ Done(k)
  /\ UNCHANGED <<process, store, faults>>

\* A process dies, and is there again: the module starts counting at one.
Crash(p) ==
  LET dead == {k \in Tasks : ProcessOf[k] = p}
  IN  /\ faults < MaxFaults
      /\ \E k \in dead : pc[k] # "idle"
      /\ faults' = faults + 1
      /\ counter' = [counter EXCEPT ![p] = 0]
      /\ last' = [last EXCEPT ![p] = {}]
      /\ pc' = [k \in Tasks |-> IF k \in dead THEN "idle" ELSE pc[k]]
      /\ request' = [k \in Tasks |-> IF k \in dead THEN NoRequest ELSE request[k]]
      /\ response' = [k \in Tasks |-> IF k \in dead THEN {} ELSE response[k]]
      /\ todo' = [k \in Tasks |-> IF k \in dead THEN <<>> ELSE todo[k]]
      /\ receipt' = [k \in Tasks |-> IF k \in dead THEN {} ELSE receipt[k]]
      /\ UNCHANGED store

Responses(k) == {Garbage} \cup (IF request[k].method = "submit" THEN SubmitResponses ELSE TxResponses)

Step(k) ==
  \/ \E tx \in Txs : SignFailed(k, tx)
  \/ \E method \in {"submit", "tx"}, tx \in Txs : Send(k, method, tx)
  \/ Unanswered(k) \/ \E r \in Responses(k) : Answered(k, r)
  \/ Insert(k) \/ CheckBody(k) \/ OpenBody(k) \/ WriteBody(k) \/ PutRefused(k)
  \/ Parse(k) \/ Return(k)

Next ==
  \/ \E k \in Tasks : Step(k)
  \/ \E p \in Processes : Crash(p)

Spec == Init /\ [][Next]_vars

-----------------------------------------------------------------------------
TypeOK ==
  /\ counter \in [Processes -> 0 .. MaxRequests]
  /\ \A p \in Processes : \A x \in last[p] : DOMAIN x = {"request", "response"}
  /\ pc \in [Tasks -> {"idle", "sent", "insert", "check", "open", "write", "parse", "closing"}]
  /\ \A k \in Tasks : pc[k] = "idle" <=> request[k] = NoRequest
  /\ \A k \in Tasks : pc[k] \in {"idle", "sent"} <=> response[k] = {}
  /\ \A k \in Tasks : pc[k] \in {"check", "open", "write"} => todo[k] # <<>>
  /\ \A d \in DOMAIN files : files[d] \in {"partial", "whole"}
  /\ faults \in 0 .. MaxFaults

(***************************************************************************)
(* The evidence of a receipt supports it, where the tasks do not share a   *)
(* transport: reading the exchange it cites anew, and nothing else, gives  *)
(* the receipt, its request included (jsonrpc_client.py, which asks the    *)
(* transport for its last exchange after an await).                        *)
(***************************************************************************)
EvidenceSupports ==
  \A k \in Tasks : \A r \in receipt[k] : \A x \in r.evidence :
    /\ x.response # Garbage
    /\ x.request.method = r.method
    /\ x.request.tx = r.tx
    /\ r = ReceiptFor(x.request, x.response, {x})

-----------------------------------------------------------------------------
(***************************************************************************)
(* "Already stored (content-addressed, immutable)": a body that has been   *)
(* written as a whole stays whole.                                         *)
(***************************************************************************)
BodiesImmutable ==
  [][\A d \in DOMAIN files : files[d] = "whole" => files'[d] = "whole"]_vars
=============================================================================
