---------------------------- MODULE Exchange_proofs ----------------------------
(***************************************************************************)
(* What modules Exchange and ExchangeNarrative guarantee for any number of *)
(* tasks, transactions and requests, whatever a node answers, with any     *)
(* number of refused writes and deaths, as long as no two tasks share a    *)
(* transport.                                                              *)
(***************************************************************************)
EXTENDS ExchangeNarrative, SequenceTheorems, FiniteSetTheorems, TLAPS

\* FlexiFlow's handler makes a transport of its own for every cycle.
OwnTransports == \A j, k \in Tasks : ProcessOf[j] = ProcessOf[k] => j = k

Requests0    == [method : {"submit", "tx"}, tx : Txs, id : Nat]
AnyResponse  == {Garbage} \cup SubmitResponses \cup TxResponses
Bodies       == Requests0 \cup AnyResponse
Places       == {"idle", "sent", "insert", "check", "open", "write", "parse", "closing"}

-----------------------------------------------------------------------------
(***************************************************************************)
(* The shape of a task's locals: idle is no request, sent no response, and *)
(* what put has yet to store is there while it stores.                     *)
(***************************************************************************)
TypeInv ==
  /\ counter \in [Processes -> 0 .. MaxRequests]
  /\ DOMAIN last = Processes
  /\ \A p \in Processes : last[p] \subseteq [request : Requests0, response : AnyResponse]
  /\ pc \in [Tasks -> Places]
  /\ DOMAIN request = Tasks /\ DOMAIN response = Tasks
  /\ DOMAIN todo = Tasks /\ DOMAIN receipt = Tasks
  /\ \A k \in Tasks : request[k] \in IF pc[k] = "idle" THEN {NoRequest} ELSE Requests0
  /\ \A k \in Tasks : IF pc[k] \in {"idle", "sent"} THEN response[k] = {}
                      ELSE \E r \in AnyResponse : response[k] = {r}
  /\ \A k \in Tasks : todo[k] \in Seq(Bodies)
  /\ \A k \in Tasks : pc[k] \in {"check", "open", "write"} => todo[k] # <<>>
  /\ \A d \in DOMAIN files : files[d] \in {"partial", "whole"}
  /\ faults \in 0 .. MaxFaults

LEMMA NoRequestIsNone == NoRequest \notin Requests0
  BY DEF NoRequest, Requests0

LEMMA InitTypes == Init => TypeInv
<1> SUFFICES ASSUME Init PROVE TypeInv
  OBVIOUS
<1>1. counter \in [Processes -> 0 .. MaxRequests] /\ faults \in 0 .. MaxFaults
  BY ExchangeAssumption DEF ExchangeAssumption, Init
<1>2. DOMAIN last = Processes /\ \A p \in Processes : last[p] = {}
  BY DEF Init
<1>3. /\ pc \in [Tasks -> Places]
      /\ \A k \in Tasks : pc[k] = "idle"
  BY DEF Init, Places
<1>4. /\ DOMAIN request = Tasks /\ DOMAIN response = Tasks
      /\ DOMAIN todo = Tasks /\ DOMAIN receipt = Tasks
      /\ \A k \in Tasks : request[k] = NoRequest /\ response[k] = {} /\ todo[k] = <<>>
  BY DEF Init
<1>5. <<>> \in Seq(Bodies)
  BY EmptySeq
<1>6. DOMAIN files = {}
  BY DEF Init
<1>. QED
  BY <1>1, <1>2, <1>3, <1>4, <1>5, <1>6 DEF TypeInv

\* What is the same for every step of a task within its call.
LEMMA DoneTypes ==
  ASSUME TypeInv, NEW k \in Tasks, Done(k)
  PROVE  /\ pc' \in [Tasks -> Places]
         /\ DOMAIN request' = Tasks /\ DOMAIN response' = Tasks /\ DOMAIN todo' = Tasks
         /\ \A j \in Tasks : request'[j] \in IF pc'[j] = "idle" THEN {NoRequest} ELSE Requests0
         /\ \A j \in Tasks : IF pc'[j] \in {"idle", "sent"} THEN response'[j] = {}
                             ELSE \E r \in AnyResponse : response'[j] = {r}
         /\ \A j \in Tasks : todo'[j] \in Seq(Bodies)
         /\ \A j \in Tasks : pc'[j] \in {"check", "open", "write"} => todo'[j] # <<>>
  BY DEF TypeInv, Done, Places

LEMMA StoredTypes ==
  ASSUME TypeInv, NEW k \in Tasks, pc[k] \in {"check", "open", "write"}, BodyStored(k)
  PROVE  /\ pc' \in [Tasks -> Places]
         /\ DOMAIN todo' = Tasks
         /\ \A j \in Tasks : j # k => pc'[j] = pc[j] /\ todo'[j] = todo[j]
         /\ pc'[k] \in {"check", "parse"}
         /\ todo'[k] \in Seq(Bodies)
         /\ pc'[k] = "check" => todo'[k] # <<>>
<1>1. /\ todo[k] \in Seq(Bodies)
      /\ todo[k] # <<>>
      /\ pc \in [Tasks -> Places]
      /\ DOMAIN todo = Tasks
  BY DEF TypeInv
<1>2. ASSUME NEW s \in Seq(Bodies), s # <<>>
      PROVE  /\ Tail(s) \in Seq(Bodies)
             /\ Len(s) # 1 => Tail(s) # <<>>
  <2>1. Tail(s) \in Seq(Bodies) /\ Len(Tail(s)) = Len(s) - 1 /\ Len(s) \in Nat
    BY <1>2, HeadTailProperties, LenProperties
  <2>2. Len(<<>>) = 0
    OBVIOUS
  <2>3. CASE Tail(s) = <<>>
    <3>1. Len(s) = 1
      BY <2>1, <2>2, <2>3
    <3>. QED
      BY <2>1, <3>1
  <2>. QED
    BY <2>1, <2>3
<1>. QED
  BY <1>1, <1>2 DEF BodyStored, Places

LEMMA StepTypes ==
  ASSUME TypeInv, [Next]_vars
  PROVE  TypeInv'
<1> USE ExchangeAssumption DEF ExchangeAssumption
<1>1. ASSUME NEW k \in Tasks, NEW tx \in Txs, SignFailed(k, tx)
      PROVE  TypeInv'
  BY <1>1 DEF TypeInv, SignFailed, process, task, store
<1>2. ASSUME NEW k \in Tasks, NEW m \in {"submit", "tx"}, NEW tx \in Txs, Send(k, m, tx)
      PROVE  TypeInv'
  <2>1. ProcessOf[k] \in Processes
    BY DEF Processes
  <2>2. counter' \in [Processes -> 0 .. MaxRequests] /\ counter[ProcessOf[k]] + 1 \in Nat
    BY <1>2, <2>1 DEF TypeInv, Send
  <2>3. [method |-> m, tx |-> tx, id |-> counter[ProcessOf[k]] + 1] \in Requests0
    BY <2>2 DEF Requests0
  <2>. QED
    BY <1>2, <2>2, <2>3 DEF TypeInv, Send, store, Places
<1>3. ASSUME NEW k \in Tasks, Unanswered(k)
      PROVE  TypeInv'
  BY <1>3, DoneTypes DEF TypeInv, Unanswered, Raise, process, store
<1>4. ASSUME NEW k \in Tasks, NEW r \in Responses(k), Answered(k, r)
      PROVE  TypeInv'
  <2>1. r \in AnyResponse
    BY <1>4 DEF Responses, AnyResponse
  <2>2. request[k] \in Requests0 /\ pc[k] = "sent"
    BY <1>4 DEF TypeInv, Answered
  <2>3. <<request[k], r>> \in Seq(Bodies) /\ <<>> \in Seq(Bodies)
    BY <2>1, <2>2 DEF Bodies
  <2>4. ExchangeRecord(request[k], r) \in [request : Requests0, response : AnyResponse]
    BY <2>1, <2>2 DEF ExchangeRecord
  <2>. QED
    BY <1>4, <2>1, <2>2, <2>3, <2>4 DEF TypeInv, Answered, store, Places
<1>5. ASSUME NEW k \in Tasks, Insert(k)
      PROVE  TypeInv'
  BY <1>5 DEF TypeInv, Insert, NextBody, process, Places
<1>6. ASSUME NEW k \in Tasks, CheckBody(k)
      PROVE  TypeInv'
  <2>1. CASE BodyStored(k)
    BY <1>6, <2>1, StoredTypes DEF TypeInv, CheckBody, process, store
  <2>2. CASE pc' = [pc EXCEPT ![k] = "open"] /\ UNCHANGED todo
    BY <1>6, <2>2 DEF TypeInv, CheckBody, process, store, Places
  <2>. QED
    BY <1>6, <2>1, <2>2 DEF CheckBody
<1>7. ASSUME NEW k \in Tasks, OpenBody(k)
      PROVE  TypeInv'
  BY <1>7 DEF TypeInv, OpenBody, process, Places
<1>8. ASSUME NEW k \in Tasks, WriteBody(k)
      PROVE  TypeInv'
  <2>1. \A d \in DOMAIN files' : files'[d] \in {"partial", "whole"}
    BY <1>8 DEF TypeInv, WriteBody
  <2>. QED
    BY <1>8, <2>1, StoredTypes DEF TypeInv, WriteBody, process
<1>9. ASSUME NEW k \in Tasks, PutRefused(k)
      PROVE  TypeInv'
  BY <1>9, DoneTypes DEF TypeInv, PutRefused, Raise, process, store
<1>10. ASSUME NEW k \in Tasks, Parse(k)
       PROVE  TypeInv'
  <2>1. CASE Raise(k)
    BY <1>10, <2>1, DoneTypes DEF TypeInv, Parse, Raise, process, store
  <2>2. CASE pc' = [pc EXCEPT ![k] = "closing"] /\ UNCHANGED <<request, response, todo, receipt>>
    BY <1>10, <2>2 DEF TypeInv, Parse, process, store, Places
  <2>. QED
    BY <1>10, <2>1, <2>2 DEF Parse
<1>11. ASSUME NEW k \in Tasks, Return(k)
       PROVE  TypeInv'
  BY <1>11, DoneTypes DEF TypeInv, Return, process, store
<1>12. ASSUME NEW p \in Processes, Crash(p)
       PROVE  TypeInv'
  BY <1>12 DEF TypeInv, Crash, store, Places
<1>13. CASE UNCHANGED vars
  BY <1>13 DEF TypeInv, vars
<1>. QED
  BY <1>1, <1>2, <1>3, <1>4, <1>5, <1>6, <1>7, <1>8, <1>9, <1>10, <1>11, <1>12, <1>13
     DEF Next, Step

\* The invariant is what module Exchange calls TypeOK, and more.
LEMMA TypeInvIsTypeOK == TypeInv => TypeOK
<1> SUFFICES ASSUME TypeInv PROVE TypeOK
  OBVIOUS
<1>1. \A k \in Tasks : pc[k] = "idle" <=> request[k] = NoRequest
  BY NoRequestIsNone DEF TypeInv
<1>2. \A k \in Tasks : pc[k] \in {"idle", "sent"} <=> response[k] = {}
  BY DEF TypeInv
<1>3. \A p \in Processes : \A x \in last[p] : DOMAIN x = {"request", "response"}
  BY DEF TypeInv
<1>. QED
  BY <1>1, <1>2, <1>3 DEF TypeInv, TypeOK, Places

(***************************************************************************)
(* Every task's request, response and remaining bodies fit where it is in  *)
(* its call, whatever the node answers and whoever dies: TypeOK, for any   *)
(* number of tasks and processes, shared transports or not.                *)
(***************************************************************************)
THEOREM TypeCorrect == Spec => []TypeOK
<1>1. Init => TypeInv
  BY InitTypes
<1>2. TypeInv /\ [Next]_vars => TypeInv'
  BY StepTypes
<1>3. TypeInv => TypeOK
  BY TypeInvIsTypeOK
<1>. QED
  BY <1>1, <1>2, <1>3, PTL DEF Spec
-----------------------------------------------------------------------------
(***************************************************************************)
(* Why a receipt's evidence supports it: from the answer on, the last      *)
(* exchange of the task's transport is the task's own, and what reaches    *)
(* the parser is no garbage.                                               *)
(***************************************************************************)
OwnExchange ==
  \A k \in Tasks : pc[k] \notin {"idle", "sent"} =>
    \E r \in AnyResponse :
      /\ response[k] = {r}
      /\ last[ProcessOf[k]] = {ExchangeRecord(request[k], r)}
      /\ pc[k] = "closing" => r # Garbage

Supports(r) ==
  \A x \in r.evidence :
    /\ x.response # Garbage
    /\ x.request.method = r.method
    /\ x.request.tx = r.tx
    /\ r = ReceiptFor(x.request, x.response, {x})

LEMMA FailureCitesNothing ==
  ASSUME NEW q, NEW e
  PROVE  Supports(FailedReceipt(q)) /\ Supports([FailedReceipt(q) EXCEPT !.error = e])
  BY DEF Supports, FailedReceipt

LEMMA ReceiptIsSupported ==
  ASSUME NEW q \in Requests0, NEW r, r # Garbage
  PROVE  Supports(ReceiptFor(q, r, {ExchangeRecord(q, r)}))
<1> DEFINE x == ExchangeRecord(q, r)
           c == ReceiptFor(q, r, {x})
<1>1. x.request = q /\ x.response = r
  BY DEF ExchangeRecord
<1>2. c.evidence = {x} /\ c.method = q.method /\ c.tx = q.tx
  BY DEF ReceiptFor, SubmitReceipt, ConfirmReceipt, Requests0
<1>. QED
  BY <1>1, <1>2 DEF Supports

\* A step that leaves the task's transport alone, and the others' tasks.
LEMMA QuietKeepsOwn ==
  ASSUME OwnExchange, NEW k \in Tasks, UNCHANGED last,
         \A j \in Tasks \ {k} : /\ pc'[j] = pc[j]
                               /\ request'[j] = request[j] /\ response'[j] = response[j],
         \/ pc'[k] \in {"idle", "sent"}
         \/ /\ request'[k] = request[k] /\ response'[k] = response[k]
            /\ pc[k] \notin {"idle", "sent"}
            /\ pc'[k] = "closing" => response[k] # {Garbage}
  PROVE  OwnExchange'
  BY DEF OwnExchange

LEMMA DoneKeepsOwn ==
  ASSUME TypeInv, OwnExchange, NEW k \in Tasks, Done(k), UNCHANGED last
  PROVE  OwnExchange'
<1>1. /\ pc'[k] = "idle"
      /\ \A j \in Tasks \ {k} : pc'[j] = pc[j] /\ request'[j] = request[j] /\ response'[j] = response[j]
  BY DEF TypeInv, Done
<1>. QED
  BY <1>1, QuietKeepsOwn

LEMMA OwnExchangeKept ==
  ASSUME OwnTransports, TypeInv, OwnExchange, [Next]_vars
  PROVE  OwnExchange'
<1>1. ASSUME NEW k \in Tasks, NEW tx \in Txs, SignFailed(k, tx)
      PROVE  OwnExchange'
  BY <1>1 DEF OwnExchange, SignFailed, process, task
<1>2. ASSUME NEW k \in Tasks, NEW m \in {"submit", "tx"}, NEW tx \in Txs, Send(k, m, tx)
      PROVE  OwnExchange'
  <2>1. /\ UNCHANGED last /\ pc'[k] = "sent"
        /\ \A j \in Tasks \ {k} : pc'[j] = pc[j] /\ request'[j] = request[j] /\ response'[j] = response[j]
    BY <1>2 DEF TypeInv, Send
  <2>. QED
    BY <2>1, QuietKeepsOwn
<1>3. ASSUME NEW k \in Tasks, Done(k), UNCHANGED last
      PROVE  OwnExchange'
  BY <1>3, DoneKeepsOwn
<1>4. ASSUME NEW k \in Tasks, NEW r \in Responses(k), Answered(k, r)
      PROVE  OwnExchange'
  <2>1. r \in AnyResponse
    BY <1>4 DEF Responses, AnyResponse
  <2>2. \A j \in Tasks \ {k} : ProcessOf[j] # ProcessOf[k]
    BY DEF OwnTransports
  <2>3. /\ response'[k] = {r} /\ pc'[k] = "insert"
        /\ \A j \in Tasks \ {k} : pc'[j] = pc[j] /\ response'[j] = response[j]
        /\ UNCHANGED request
    BY <1>4 DEF TypeInv, Answered
  <2>4. ProcessOf[k] \in DOMAIN last
    BY DEF TypeInv, Processes
  <2>5. /\ last'[ProcessOf[k]] = {ExchangeRecord(request[k], r)}
        /\ \A j \in Tasks \ {k} : last'[ProcessOf[j]] = last[ProcessOf[j]]
    BY <1>4, <2>2, <2>4 DEF Answered
  <2>. QED
    BY <2>1, <2>3, <2>5 DEF OwnExchange
<1>5. ASSUME NEW k \in Tasks, UNCHANGED <<last, request, response>>,
             \A j \in Tasks \ {k} : pc'[j] = pc[j],
             pc[k] \notin {"idle", "sent"}, pc'[k] = "closing" => response[k] # {Garbage}
      PROVE  OwnExchange'
  BY <1>5, QuietKeepsOwn
<1>6. ASSUME NEW k \in Tasks, Insert(k) \/ CheckBody(k) \/ OpenBody(k) \/ WriteBody(k)
      PROVE  OwnExchange'
  <2>1. /\ UNCHANGED <<last, request, response>>
        /\ \A j \in Tasks \ {k} : pc'[j] = pc[j]
        /\ pc[k] \notin {"idle", "sent"} /\ pc'[k] # "closing"
    BY <1>6 DEF TypeInv, Insert, NextBody, CheckBody, BodyStored, OpenBody, WriteBody, process
  <2>. QED
    BY <1>5, <2>1
<1>7. ASSUME NEW k \in Tasks, Parse(k)
      PROVE  OwnExchange'
  <2>1. CASE response[k] = {Garbage}
    BY <1>3, <1>7, <2>1 DEF Parse, Raise, process
  <2>2. CASE response[k] # {Garbage}
    <3>1. /\ UNCHANGED <<last, request, response>>
          /\ \A j \in Tasks \ {k} : pc'[j] = pc[j]
          /\ pc[k] \notin {"idle", "sent"}
      BY <1>7, <2>2 DEF TypeInv, Parse, process
    <3>. QED
      BY <1>5, <2>2, <3>1
  <2>. QED
    BY <2>1, <2>2
<1>8. ASSUME NEW p \in Processes, Crash(p)
      PROVE  OwnExchange'
  <2>1. \A j \in Tasks : pc'[j] # "idle" =>
          /\ ProcessOf[j] # p
          /\ pc'[j] = pc[j] /\ request'[j] = request[j] /\ response'[j] = response[j]
    BY <1>8 DEF Crash
  <2>2. \A j \in Tasks : ProcessOf[j] # p => last'[ProcessOf[j]] = last[ProcessOf[j]]
    BY <1>8 DEF TypeInv, Crash, Processes
  <2>. QED
    BY <2>1, <2>2 DEF OwnExchange
<1>9. CASE UNCHANGED vars
  BY <1>9 DEF OwnExchange, vars
<1>10. ASSUME NEW k \in Tasks, Unanswered(k) \/ PutRefused(k) \/ Return(k)
       PROVE  OwnExchange'
  BY <1>3, <1>10 DEF Unanswered, PutRefused, Return, Raise, process
<1>. QED
  BY <1>1, <1>2, <1>4, <1>6, <1>7, <1>8, <1>9, <1>10 DEF Next, Step

-----------------------------------------------------------------------------
LEMMA SupportsIsEvidence == EvidenceSupports <=> \A k \in Tasks : \A r \in receipt[k] : Supports(r)
  BY DEF EvidenceSupports, Supports

LEMMA ReceiptsKept ==
  ASSUME TypeInv, OwnExchange, EvidenceSupports, [Next]_vars
  PROVE  EvidenceSupports'
<1>1. ASSUME NEW k \in Tasks, NEW q, NEW e,
             \/ receipt' = [receipt EXCEPT ![k] = {FailedReceipt(q)}]
             \/ receipt' = [receipt EXCEPT ![k] = {[FailedReceipt(q) EXCEPT !.error = e]}]
      PROVE  \A j \in Tasks : \A r \in receipt'[j] : Supports(r)
  <2>1. PICK c : receipt' = [receipt EXCEPT ![k] = {c}] /\ Supports(c)
    BY <1>1, FailureCitesNothing
  <2>2. \A j \in Tasks : \A r \in receipt'[j] : r = c \/ r \in receipt[j]
    BY <2>1 DEF TypeInv
  <2>. QED
    BY <2>1, <2>2, SupportsIsEvidence
<1>2. ASSUME NEW k \in Tasks, Return(k)
      PROVE  \A j \in Tasks : \A r \in receipt'[j] : Supports(r)
  <2>1. PICK r \in AnyResponse : /\ response[k] = {r} /\ r # Garbage
                                 /\ last[ProcessOf[k]] = {ExchangeRecord(request[k], r)}
    BY <1>2 DEF OwnExchange, Return
  <2>2. request[k] \in Requests0
    BY <1>2 DEF TypeInv, Return
  <2>3. receipt' = [receipt EXCEPT ![k] = {ReceiptFor(request[k], r, {ExchangeRecord(request[k], r)})}]
    BY <1>2, <2>1 DEF Return
  <2>. QED
    BY <2>1, <2>2, <2>3, ReceiptIsSupported, SupportsIsEvidence DEF TypeInv
<1>3. ASSUME \A k \in Tasks : receipt'[k] \in {receipt[k], {}}
      PROVE  \A j \in Tasks : \A r \in receipt'[j] : Supports(r)
  BY <1>3, SupportsIsEvidence
<1>4. ASSUME NEW k \in Tasks, Step(k)
      PROVE  \A j \in Tasks : \A r \in receipt'[j] : Supports(r)
  <2>1. CASE \E tx \in Txs : SignFailed(k, tx)
    BY <1>1, <2>1 DEF SignFailed
  <2>2. CASE Unanswered(k) \/ PutRefused(k) \/ (Parse(k) /\ Raise(k))
    BY <1>1, <2>2 DEF Unanswered, PutRefused, Parse, Raise
  <2>3. CASE \E m \in {"submit", "tx"}, tx \in Txs : Send(k, m, tx)
    <3>1. receipt' = [receipt EXCEPT ![k] = {}]
      BY <2>3 DEF Send
    <3>. QED
      BY <1>3, <3>1 DEF TypeInv
  <2>4. CASE \E r \in Responses(k) : Answered(k, r)
    BY <1>3, <2>4 DEF Answered
  <2>5. CASE Insert(k) \/ CheckBody(k) \/ OpenBody(k) \/ WriteBody(k)
    BY <1>3, <2>5 DEF Insert, CheckBody, OpenBody, WriteBody
  <2>6. CASE Parse(k) /\ UNCHANGED receipt
    BY <1>3, <2>6
  <2>7. Parse(k) => Raise(k) \/ UNCHANGED receipt
    BY DEF Parse
  <2>. QED
    BY <1>2, <1>4, <2>1, <2>2, <2>3, <2>4, <2>5, <2>6, <2>7 DEF Step
<1>5. ASSUME NEW p \in Processes, Crash(p)
      PROVE  \A k \in Tasks : receipt'[k] \in {receipt[k], {}}
  BY <1>5 DEF Crash
<1>6. CASE UNCHANGED vars
  BY <1>6 DEF EvidenceSupports, vars
<1>7. (\A j \in Tasks : \A r \in receipt'[j] : Supports(r)) => EvidenceSupports'
  BY DEF EvidenceSupports, Supports
<1>. QED
  BY <1>3, <1>4, <1>5, <1>6, <1>7 DEF Next

(***************************************************************************)
(* Where every task has a transport of its own, the evidence of every      *)
(* receipt supports it: whatever the node answers, however the tasks of    *)
(* several processes are interleaved on the store, and whoever dies.       *)
(***************************************************************************)
THEOREM EvidenceTheorem ==
  ASSUME OwnTransports
  PROVE  Spec => []EvidenceSupports
<1> DEFINE Inv == TypeInv /\ OwnExchange /\ EvidenceSupports
<1>1. Init => Inv
  BY InitTypes DEF Init, OwnExchange, EvidenceSupports
<1>2. Inv /\ [Next]_vars => Inv'
  BY StepTypes, OwnExchangeKept, ReceiptsKept
<1>. QED
  BY <1>1, <1>2, PTL DEF Spec

-----------------------------------------------------------------------------
(***************************************************************************)
(* What a narrative finds.  A task whose put is past the record has its    *)
(* exchange in the table, and each of its two bodies is in the directory   *)
(* or still to come; so when the put is done all that its receipt will     *)
(* cite is there, and nothing is ever taken away.                          *)
(***************************************************************************)
Pending(k) == {todo[k][n] : n \in DOMAIN todo[k]}

StoredOf(k) ==
  pc[k] \notin {"idle", "sent"} =>
    \E r \in AnyResponse :
      /\ response[k] = {r}
      /\ pc[k] # "insert" => ExchangeRecord(request[k], r) \in records
      /\ StoreBodies => \A b \in {request[k], r} : b \in DOMAIN files \/ b \in Pending(k)
      /\ pc[k] \in {"parse", "closing"} => todo[k] = <<>>
      /\ pc[k] = "write" => Head(todo[k]) \in DOMAIN files

Stored == \A k \in Tasks : StoredOf(k)

\* the evidence a receipt cites can be looked up
Cited(r) ==
  /\ r.status = "CONFIRMED" => r.evidence # {}
  /\ \A x \in r.evidence :
       /\ x \in records
       /\ StoreBodies => x.request \in DOMAIN files /\ x.response \in DOMAIN files

AllCited == \A k \in Tasks : \A r \in receipt[k] : Cited(r)

\* Without a fault, a partial body is one that is being written.
TornOnlyInWriting ==
  faults = 0 => \A d \in DOMAIN files : files[d] = "partial" =>
    \E k \in Tasks : pc[k] = "write" /\ Head(todo[k]) = d

\* No record and no file of a name goes away.
Grows == records \subseteq records' /\ DOMAIN files \subseteq DOMAIN files'

LEMMA StepGrows ==
  ASSUME [Next]_vars
  PROVE  Grows
BY DEF Grows, Next, Step, SignFailed, Send, Unanswered, Answered, Insert, CheckBody, OpenBody, WriteBody,
       PutRefused, Parse, Return, Crash, store, vars

\* The bodies of a sequence are its head and those of its tail.
LEMMA HeadOrTail ==
  ASSUME NEW S, NEW s \in Seq(S), s # <<>>
  PROVE  /\ \A n \in DOMAIN s : s[n] = Head(s) \/ \E m \in DOMAIN Tail(s) : Tail(s)[m] = s[n]
         /\ Len(s) = 1 => Tail(s) = <<>>
<1>1. /\ Len(s) \in Nat /\ Len(s) > 0 /\ DOMAIN s = 1 .. Len(s) /\ Head(s) = s[1]
      /\ Tail(s) \in Seq(S) /\ Len(Tail(s)) = Len(s) - 1
      /\ \A m \in 1 .. Len(Tail(s)) : Tail(s)[m] = s[m + 1]
  BY HeadTailProperties, LenProperties, EmptySeq
<1>2. DOMAIN Tail(s) = 1 .. Len(Tail(s))
  BY <1>1, LenProperties
<1>3. ASSUME NEW n \in DOMAIN s, n # 1
      PROVE  \E m \in DOMAIN Tail(s) : Tail(s)[m] = s[n]
  <2>1. n - 1 \in 1 .. Len(Tail(s)) /\ (n - 1) + 1 = n
    BY <1>1, <1>3
  <2>. QED
    BY <1>1, <1>2, <2>1
<1>4. ASSUME Len(s) = 1
      PROVE  Tail(s) = <<>>
  <2>1. Tail(s) \in Seq(S) /\ ~ (Len(Tail(s)) \in Nat \ {0})
    BY <1>1, <1>4
  <2>2. \A t \in Seq(S) : t # <<>> => Len(t) \in Nat \ {0}
    BY EmptySeq, Zenon
  <2>. QED
    BY <2>1, <2>2, Zenon
<1>. QED
  BY <1>1, <1>3, <1>4

\* The others' tasks keep what they have stored.
LEMMA OthersStored ==
  ASSUME Stored, Grows, NEW j \in Tasks,
         \/ pc'[j] \in {"idle", "sent"}
         \/ /\ pc'[j] = pc[j] /\ request'[j] = request[j]
            /\ response'[j] = response[j] /\ todo'[j] = todo[j]
  PROVE  StoredOf(j)'
<1>1. CASE pc'[j] \in {"idle", "sent"}
  BY <1>1 DEF StoredOf
<1>2. CASE /\ pc[j] \notin {"idle", "sent"}
           /\ pc'[j] = pc[j] /\ request'[j] = request[j]
           /\ response'[j] = response[j] /\ todo'[j] = todo[j]
  <2>1. PICK r \in AnyResponse :
          /\ response[j] = {r}
          /\ pc[j] # "insert" => ExchangeRecord(request[j], r) \in records
          /\ StoreBodies => \A b \in {request[j], r} : b \in DOMAIN files \/ b \in Pending(j)
          /\ pc[j] \in {"parse", "closing"} => todo[j] = <<>>
          /\ pc[j] = "write" => Head(todo[j]) \in DOMAIN files
    BY <1>2 DEF Stored, StoredOf
  <2>. QED
    BY <1>2, <2>1 DEF StoredOf, Pending, Grows
<1>. QED
  BY <1>1, <1>2

\* A task within its put, or past it, that changes neither its request nor its response.
LEMMA OwnStored ==
  ASSUME Stored, Grows, NEW k \in Tasks, pc[k] \notin {"idle", "sent", "insert"},
         UNCHANGED <<request, response>>,
         pc'[k] \in {"parse", "closing"} => todo'[k] = <<>>,
         pc'[k] = "write" => Head(todo'[k]) \in DOMAIN files',
         \A b \in Pending(k) : b \in DOMAIN files' \/ b \in Pending(k)'
  PROVE  StoredOf(k)'
<1>1. PICK r \in AnyResponse :
        /\ response[k] = {r}
        /\ ExchangeRecord(request[k], r) \in records
        /\ StoreBodies => \A b \in {request[k], r} : b \in DOMAIN files \/ b \in Pending(k)
  BY DEF Stored, StoredOf
<1>2. StoreBodies => \A b \in {request[k], r} : b \in DOMAIN files' \/ b \in Pending(k)'
  BY <1>1 DEF Grows
<1>. QED
  BY <1>1, <1>2 DEF StoredOf, Grows

\* A body is stored: it was the head of what remained.
LEMMA BodyKeepsStored ==
  ASSUME TypeInv, Stored, Grows, NEW k \in Tasks, pc[k] \in {"check", "write"}, BodyStored(k),
         Head(todo[k]) \in DOMAIN files', UNCHANGED <<request, response>>
  PROVE  StoredOf(k)'
<1>1. /\ todo[k] \in Seq(Bodies) /\ todo[k] # <<>>
      /\ pc \in [Tasks -> Places] /\ DOMAIN todo = Tasks
  BY DEF TypeInv
<1>2. /\ todo'[k] = Tail(todo[k])
      /\ pc'[k] = IF Len(todo[k]) = 1 THEN "parse" ELSE "check"
  BY <1>1 DEF BodyStored
<1>3. /\ \A n \in DOMAIN todo[k] : \/ todo[k][n] = Head(todo[k])
                                   \/ \E m \in DOMAIN Tail(todo[k]) : Tail(todo[k])[m] = todo[k][n]
      /\ Len(todo[k]) = 1 => Tail(todo[k]) = <<>>
  BY <1>1, HeadOrTail
<1>4. \A b \in Pending(k) : b \in DOMAIN files' \/ b \in Pending(k)'
  BY <1>2, <1>3 DEF Pending
<1>5. /\ pc'[k] \in {"parse", "closing"} => todo'[k] = <<>>
      /\ pc'[k] # "write"
  BY <1>2, <1>3
<1>. QED
  BY <1>4, <1>5, OwnStored

LEMMA StoredKept ==
  ASSUME TypeInv, OwnExchange, Stored, [Next]_vars
  PROVE  Stored'
<1>1. Grows
  BY StepGrows
<1>2. ASSUME NEW k \in Tasks, StoredOf(k)',
             \A j \in Tasks \ {k} : /\ pc'[j] = pc[j] /\ request'[j] = request[j]
                                   /\ response'[j] = response[j] /\ todo'[j] = todo[j]
      PROVE  Stored'
  <2>1. \A j \in Tasks \ {k} : StoredOf(j)'
    BY <1>1, <1>2, OthersStored
  <2>. QED
    BY <1>2, <2>1 DEF Stored
<1>3. ASSUME NEW k \in Tasks, Done(k) \/ (\E m \in {"submit", "tx"}, tx \in Txs : Send(k, m, tx))
      PROVE  Stored'
  <2>1. /\ pc'[k] \in {"idle", "sent"}
        /\ \A j \in Tasks \ {k} : /\ pc'[j] = pc[j] /\ request'[j] = request[j]
                                 /\ response'[j] = response[j] /\ todo'[j] = todo[j]
    BY <1>3 DEF TypeInv, Done, Send
  <2>. QED
    BY <1>2, <2>1 DEF StoredOf
<1>4. ASSUME NEW k \in Tasks, NEW r \in Responses(k), Answered(k, r)
      PROVE  Stored'
  <2>1. /\ response'[k] = {r} /\ pc'[k] = "insert" /\ request' = request
        /\ todo'[k] = IF StoreBodies THEN <<request[k], r>> ELSE <<>>
        /\ \A j \in Tasks \ {k} : /\ pc'[j] = pc[j] /\ request'[j] = request[j]
                                 /\ response'[j] = response[j] /\ todo'[j] = todo[j]
    BY <1>4 DEF TypeInv, Answered
  <2>2. r \in AnyResponse
    BY <1>4 DEF Responses, AnyResponse
  <2>3. ASSUME StoreBodies
        PROVE  request[k] \in Pending(k)' /\ r \in Pending(k)'
    <3>1. todo'[k] = <<request[k], r>>
      BY <2>1, <2>3
    <3>2. 1 \in DOMAIN todo'[k] /\ 2 \in DOMAIN todo'[k] /\ todo'[k][1] = request[k] /\ todo'[k][2] = r
      BY <3>1
    <3>. QED
      BY <3>2 DEF Pending
  <2>4. StoredOf(k)'
    BY <2>1, <2>2, <2>3 DEF StoredOf
  <2>. QED
    BY <1>2, <2>1, <2>4
<1>5. ASSUME NEW k \in Tasks, Insert(k)
      PROVE  Stored'
  <2>1. /\ pc[k] = "insert" /\ records' = records \cup last[ProcessOf[k]]
        /\ UNCHANGED <<request, response, todo, files>>
        /\ pc'[k] = NextBody(k)
        /\ \A j \in Tasks \ {k} : pc'[j] = pc[j]
    BY <1>5 DEF TypeInv, Insert
  <2>2. PICK r \in AnyResponse :
          /\ response[k] = {r}
          /\ StoreBodies => \A b \in {request[k], r} : b \in DOMAIN files \/ b \in Pending(k)
    BY <2>1 DEF Stored, StoredOf
  <2>3. ExchangeRecord(request[k], r) \in records'
    BY <2>1, <2>2 DEF OwnExchange
  <2>4. pc'[k] = (IF todo[k] = <<>> THEN "parse" ELSE "check")
    BY <2>1 DEF NextBody
  <2>5. Pending(k)' = Pending(k)
    BY <2>1 DEF Pending
  <2>6. StoredOf(k)'
    BY <2>1, <2>2, <2>3, <2>4, <2>5 DEF StoredOf
  <2>. QED
    BY <1>2, <2>1, <2>6
<1>6. ASSUME NEW k \in Tasks, CheckBody(k)
      PROVE  Stored'
  <2>1. /\ pc[k] = "check" /\ UNCHANGED <<request, response, files>>
        /\ \A j \in Tasks \ {k} : pc'[j] = pc[j] /\ todo'[j] = todo[j]
    BY <1>6 DEF TypeInv, CheckBody, BodyStored, store
  <2>2. CASE Head(todo[k]) \in DOMAIN files
    BY <1>1, <1>2, <1>6, <2>1, <2>2, BodyKeepsStored DEF CheckBody
  <2>3. CASE Head(todo[k]) \notin DOMAIN files
    <3>1. pc'[k] = "open" /\ todo' = todo
      BY <1>6, <2>3 DEF TypeInv, CheckBody
    <3>2. Pending(k)' = Pending(k)
      BY <3>1 DEF Pending
    <3>3. StoredOf(k)'
      BY <1>1, <2>1, <3>1, <3>2, OwnStored
    <3>. QED
      BY <1>2, <2>1, <3>3
  <2>. QED
    BY <2>2, <2>3
<1>7. ASSUME NEW k \in Tasks, OpenBody(k)
      PROVE  Stored'
  <2>1. /\ pc[k] = "open" /\ UNCHANGED <<request, response, todo>>
        /\ Head(todo[k]) \in DOMAIN files'
        /\ pc'[k] = "write"
        /\ \A j \in Tasks \ {k} : pc'[j] = pc[j]
    BY <1>7 DEF TypeInv, OpenBody
  <2>2. Pending(k)' = Pending(k)
    BY <2>1 DEF Pending
  <2>3. StoredOf(k)'
    BY <1>1, <2>1, <2>2, OwnStored
  <2>. QED
    BY <1>2, <2>1, <2>3
<1>8. ASSUME NEW k \in Tasks, WriteBody(k)
      PROVE  Stored'
  <2>1. /\ pc[k] = "write" /\ BodyStored(k) /\ UNCHANGED <<request, response>>
        /\ DOMAIN files' = DOMAIN files
        /\ \A j \in Tasks \ {k} : pc'[j] = pc[j] /\ todo'[j] = todo[j]
    BY <1>8 DEF TypeInv, WriteBody, BodyStored
  <2>2. Head(todo[k]) \in DOMAIN files'
    BY <2>1 DEF Stored, StoredOf
  <2>. QED
    BY <1>1, <1>2, <2>1, <2>2, BodyKeepsStored
<1>9. ASSUME NEW k \in Tasks, Parse(k), ~ Done(k)
      PROVE  Stored'
  <2>1. /\ pc[k] = "parse" /\ pc'[k] = "closing" /\ UNCHANGED <<request, response, todo>>
        /\ \A j \in Tasks \ {k} : pc'[j] = pc[j]
    BY <1>9 DEF TypeInv, Parse, Raise
  <2>2. Pending(k)' = Pending(k) /\ todo'[k] = <<>>
    BY <2>1 DEF Pending, Stored, StoredOf
  <2>3. StoredOf(k)'
    BY <1>1, <2>1, <2>2, OwnStored
  <2>. QED
    BY <1>2, <2>1, <2>3
<1>10. ASSUME NEW p \in Processes, Crash(p)
       PROVE  Stored'
  <2>1. \A j \in Tasks : \/ pc'[j] = "idle"
                         \/ /\ pc'[j] = pc[j] /\ request'[j] = request[j]
                            /\ response'[j] = response[j] /\ todo'[j] = todo[j]
    BY <1>10 DEF Crash
  <2>. QED
    BY <1>1, <2>1, OthersStored DEF Stored
<1>11. CASE UNCHANGED task
  BY <1>1, <1>11, OthersStored DEF Stored, task
<1>12. ASSUME NEW k \in Tasks, Unanswered(k) \/ PutRefused(k) \/ Return(k)
       PROVE  Stored'
  BY <1>3, <1>12 DEF Unanswered, PutRefused, Return, Raise
<1>. QED
  BY <1>3, <1>4, <1>5, <1>6, <1>7, <1>8, <1>9, <1>10, <1>11, <1>12
  DEF Next, Step, SignFailed, vars, task

-----------------------------------------------------------------------------
\* Only a call that came to its end confirms, and it cites what it stored.
LEMMA CitedKept ==
  ASSUME TypeInv, OwnExchange, Stored, AllCited, [Next]_vars
  PROVE  AllCited'
<1>1. Grows
  BY StepGrows
<1>2. \A r : Cited(r) => Cited(r)'
  BY <1>1 DEF Cited, Grows
<1>3. \A q, e : Cited(FailedReceipt(q)) /\ Cited([FailedReceipt(q) EXCEPT !.error = e])
  BY DEF Cited, FailedReceipt
<1>4. ASSUME NEW k \in Tasks, NEW c, receipt' = [receipt EXCEPT ![k] = {c}], Cited(c)
      PROVE  AllCited'
  <2>1. \A j \in Tasks : \A r \in receipt'[j] : r = c \/ r \in receipt[j]
    BY <1>4 DEF TypeInv
  <2>2. \A j \in Tasks : \A r \in receipt'[j] : Cited(r)'
    BY <1>2, <1>4, <2>1 DEF AllCited
  <2>. QED
    BY <2>2 DEF AllCited
<1>5. ASSUME \A k \in Tasks : receipt'[k] \in {receipt[k], {}}
      PROVE  AllCited'
  <2>1. \A j \in Tasks : \A r \in receipt'[j] : Cited(r)'
    BY <1>2, <1>5 DEF AllCited
  <2>. QED
    BY <2>1 DEF AllCited
<1>6. ASSUME NEW k \in Tasks, Return(k)
      PROVE  AllCited'
  <2>1. PICK r \in AnyResponse : /\ response[k] = {r}
                                 /\ last[ProcessOf[k]] = {ExchangeRecord(request[k], r)}
    BY <1>6 DEF OwnExchange, Return
  <2> DEFINE x == ExchangeRecord(request[k], r)
             c == ReceiptFor(request[k], r, {x})
  <2>2. receipt' = [receipt EXCEPT ![k] = {c}]
    BY <1>6, <2>1 DEF Return
  <2>3. \E q \in AnyResponse :
          /\ response[k] = {q}
          /\ ExchangeRecord(request[k], q) \in records
          /\ StoreBodies => \A b \in {request[k], q} : b \in DOMAIN files \/ b \in Pending(k)
          /\ todo[k] = <<>>
    BY <1>6 DEF Stored, StoredOf, Return
  <2>4. /\ x \in records
        /\ StoreBodies => \A b \in {request[k], r} : b \in DOMAIN files \/ b \in Pending(k)
        /\ todo[k] = <<>>
    <3>1. PICK q \in AnyResponse :
            /\ response[k] = {q}
            /\ ExchangeRecord(request[k], q) \in records
            /\ StoreBodies => \A b \in {request[k], q} : b \in DOMAIN files \/ b \in Pending(k)
            /\ todo[k] = <<>>
      BY <2>3
    <3>2. q = r
      BY <2>1, <3>1
    <3>. QED
      BY <3>1, <3>2
  <2>5. Pending(k) = {}
    BY <2>4 DEF Pending
  <2>6. c.evidence = {x}
    BY DEF ReceiptFor, SubmitReceipt, ConfirmReceipt
  <2>7. x.request = request[k] /\ x.response = r
    BY DEF ExchangeRecord
  <2> HIDE DEF x, c
  <2>8. Cited(c)
    BY <2>4, <2>5, <2>6, <2>7 DEF Cited
  <2>. QED
    BY <1>4, <2>2, <2>8
<1>7. ASSUME NEW k \in Tasks, Step(k)
      PROVE  AllCited'
  <2>1. CASE \E tx \in Txs : SignFailed(k, tx)
    BY <1>3, <1>4, <2>1 DEF SignFailed
  <2>2. CASE Unanswered(k) \/ PutRefused(k) \/ (Parse(k) /\ Raise(k))
    BY <1>3, <1>4, <2>2 DEF Unanswered, PutRefused, Parse, Raise
  <2>3. CASE \E m \in {"submit", "tx"}, tx \in Txs : Send(k, m, tx)
    <3>1. receipt' = [receipt EXCEPT ![k] = {}]
      BY <2>3 DEF Send
    <3>. QED
      BY <1>5, <3>1 DEF TypeInv
  <2>4. CASE \E r \in Responses(k) : Answered(k, r)
    BY <1>5, <2>4 DEF Answered
  <2>5. CASE Insert(k) \/ CheckBody(k) \/ OpenBody(k) \/ WriteBody(k)
    BY <1>5, <2>5 DEF Insert, CheckBody, OpenBody, WriteBody
  <2>6. CASE Parse(k) /\ UNCHANGED receipt
    BY <1>5, <2>6
  <2>7. Parse(k) => Raise(k) \/ UNCHANGED receipt
    BY DEF Parse
  <2>. QED
    BY <1>6, <1>7, <2>1, <2>2, <2>3, <2>4, <2>5, <2>6, <2>7 DEF Step
<1>8. ASSUME NEW p \in Processes, Crash(p)
      PROVE  \A k \in Tasks : receipt'[k] \in {receipt[k], {}}
  BY <1>8 DEF Crash
<1>9. CASE UNCHANGED vars
  BY <1>5, <1>9 DEF vars
<1>. QED
  BY <1>5, <1>7, <1>8, <1>9 DEF Next

\* Opening a file is what makes a body partial, and writing it what ends it.
LEMMA TornKept ==
  ASSUME TypeInv, TornOnlyInWriting, [Next]_vars
  PROVE  TornOnlyInWriting'
<1>1. faults \in Nat
  BY ExchangeAssumption DEF TypeInv
<1>2. ASSUME faults' = faults, UNCHANGED <<files, todo>>, \A j \in Tasks : pc[j] = "write" => pc'[j] = "write"
      PROVE  TornOnlyInWriting'
  BY <1>2 DEF TornOnlyInWriting
<1>3. ASSUME faults' = faults + 1
      PROVE  TornOnlyInWriting'
  BY <1>1, <1>3 DEF TornOnlyInWriting
<1>4. ASSUME NEW k \in Tasks, pc[k] # "write", faults' = faults, UNCHANGED files,
             \A j \in Tasks \ {k} : pc'[j] = pc[j] /\ todo'[j] = todo[j]
      PROVE  TornOnlyInWriting'
  BY <1>4 DEF TornOnlyInWriting
<1>5. ASSUME NEW k \in Tasks, OpenBody(k)
      PROVE  TornOnlyInWriting'
  <2>1. /\ pc[k] = "open" /\ pc'[k] = "write" /\ UNCHANGED <<todo, faults>>
        /\ \A j \in Tasks \ {k} : pc'[j] = pc[j]
        /\ \A d \in DOMAIN files' : d # Head(todo[k]) => d \in DOMAIN files /\ files'[d] = files[d]
    BY <1>5 DEF TypeInv, OpenBody
  <2>. QED
    BY <2>1 DEF TornOnlyInWriting
<1>6. ASSUME NEW k \in Tasks, WriteBody(k)
      PROVE  TornOnlyInWriting'
  <2>1. /\ UNCHANGED faults
        /\ \A j \in Tasks \ {k} : pc'[j] = pc[j] /\ todo'[j] = todo[j]
        /\ DOMAIN files' = DOMAIN files
        /\ \A d \in DOMAIN files : files'[d] = IF d = Head(todo[k]) THEN "whole" ELSE files[d]
    BY <1>6 DEF TypeInv, WriteBody, BodyStored
  <2>2. ASSUME faults' = 0, NEW d \in DOMAIN files', files'[d] = "partial"
        PROVE  \E j \in Tasks : pc'[j] = "write" /\ Head(todo'[j]) = d
    <3>1. d # Head(todo[k]) /\ d \in DOMAIN files /\ files[d] = "partial" /\ faults = 0
      BY <2>1, <2>2
    <3>2. PICK j \in Tasks : pc[j] = "write" /\ Head(todo[j]) = d
      BY <3>1 DEF TornOnlyInWriting
    <3>3. j \in Tasks \ {k}
      BY <3>1, <3>2
    <3>. QED
      BY <2>1, <3>2, <3>3
  <2>. QED
    BY <2>2 DEF TornOnlyInWriting
<1>7. ASSUME NEW k \in Tasks,
             \/ \E tx \in Txs : SignFailed(k, tx)
             \/ \E m \in {"submit", "tx"}, tx \in Txs : Send(k, m, tx)
             \/ Unanswered(k) \/ (\E r \in Responses(k) : Answered(k, r))
             \/ Insert(k) \/ CheckBody(k) \/ Parse(k) \/ Return(k)
      PROVE  TornOnlyInWriting'
  <2>1. /\ pc[k] # "write" /\ faults' = faults /\ UNCHANGED files
        /\ \A j \in Tasks \ {k} : pc'[j] = pc[j] /\ todo'[j] = todo[j]
    BY <1>7 DEF TypeInv, SignFailed, Send, Unanswered, Raise, Done, Answered, Insert, CheckBody, BodyStored,
                Parse, Return, task, store
  <2>. QED
    BY <1>4, <2>1
<1>8. ASSUME NEW k \in Tasks, PutRefused(k)
      PROVE  TornOnlyInWriting'
  BY <1>3, <1>8 DEF PutRefused
<1>9. ASSUME NEW p \in Processes, Crash(p)
      PROVE  TornOnlyInWriting'
  BY <1>3, <1>9 DEF Crash
<1>10. CASE UNCHANGED vars
  BY <1>2, <1>10 DEF vars
<1>. QED
  BY <1>5, <1>6, <1>7, <1>8, <1>9, <1>10 DEF Next, Step

\* No check of the narrative of such a receipt fails.
LEMMA CitedIsClean ==
  ASSUME NEW r, Cited(r)
  PROVE  Summary(Checks(r, TRUE, StoreBodies))["FAIL"] = 0
<1> DEFINE C == Checks(r, TRUE, StoreBodies)
<1>1. \A x \in r.evidence : x \in records
  BY DEF Cited
<1>2. WitnessCheck(r, TRUE).status # "FAIL"
  <2>1. r.evidence \subseteq records
    BY <1>1
  <2>. QED
    BY <2>1 DEF Cited, WitnessCheck, Verdict
<1>3. \A c \in ExchangeCheck(r, TRUE) : c.status # "FAIL"
  BY <1>1 DEF ExchangeCheck, Verdict
<1>4. \A c \in BodyChecks(r, TRUE, StoreBodies) : c.status # "FAIL"
  <2> SUFFICES ASSUME NEW c \in BodyChecks(r, TRUE, StoreBodies) PROVE c.status # "FAIL"
    OBVIOUS
  <2>1. PICK x \in r.evidence :
          /\ StoreBodies
          /\ \/ c = [name |-> "body_exists", of |-> "request", status |-> Verdict(TRUE, BodyExists(x.request))]
             \/ c = [name |-> "body_exists", of |-> "response", status |-> Verdict(TRUE, BodyExists(x.response))]
    BY DEF BodyChecks
  <2>2. BodyExists(x.request) /\ BodyExists(x.response)
    BY <2>1 DEF Cited, BodyExists
  <2>3. Verdict(TRUE, BodyExists(x.request)) = "PASS" /\ Verdict(TRUE, BodyExists(x.response)) = "PASS"
    BY <2>2 DEF Verdict
  <2>4. \/ c = [name |-> "body_exists", of |-> "request", status |-> "PASS"]
        \/ c = [name |-> "body_exists", of |-> "response", status |-> "PASS"]
    BY <2>1, <2>3
  <2>. QED
    BY <2>4
<1>5. {c \in C : c.status = "FAIL"} = {}
  BY <1>2, <1>3, <1>4 DEF Checks
<1> HIDE DEF C
<1>6. Summary(C)["FAIL"] = Cardinality({c \in C : c.status = "FAIL"})
  BY DEF Summary
<1>. QED
  BY <1>5, <1>6, FS_EmptySet DEF C

(***************************************************************************)
(* Where every task has a transport of its own, no narrative of a receipt  *)
(* has a check that fails, whoever dies and whichever writes are refused:  *)
(* what a receipt cites was stored before, by its own task or another, and *)
(* a CONFIRMED one cites something.  Without a fault, a body that is there *)
(* and not whole is being written.                                         *)
(***************************************************************************)
THEOREM NarrativeTheorem ==
  ASSUME OwnTransports
  PROVE  Spec => []NarrativeClean
<1> DEFINE Inv == TypeInv /\ OwnExchange /\ Stored /\ AllCited /\ TornOnlyInWriting
<1>1. Init => Inv
  BY InitTypes DEF Init, OwnExchange, Stored, StoredOf, AllCited, TornOnlyInWriting
<1>2. Inv /\ [Next]_vars => Inv'
  BY StepTypes, OwnExchangeKept, StoredKept, CitedKept, TornKept
<1>3. Inv => NarrativeClean
  BY CitedIsClean DEF AllCited, TornOnlyInWriting, NarrativeClean
<1>. QED
  BY <1>1, <1>2, <1>3, PTL DEF Spec
=============================================================================
