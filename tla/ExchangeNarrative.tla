--------------------------- MODULE ExchangeNarrative ---------------------------
(***************************************************************************)
(* The wire evidence in the report on an intent, and the checks made of it *)
(* (narrative.py; replay.py has the same look-up and no checks).  given    *)
(* tells whether the caller passes an exchange store, bodies whether it    *)
(* asks for the bodies too.                                                *)
(*                                                                         *)
(* receipt_digest_valid compares a digest with itself and is left out.     *)
(***************************************************************************)
EXTENDS Exchange, FiniteSets

Found(x, given) == given /\ x \in records

\* a blob is there when a file of its name is, whatever is in it
BodyExists(d) == d \in DOMAIN files

LookupExchange(x, given) ==
  [found    |-> Found(x, given),
   request  |-> Found(x, given) /\ BodyExists(x.request),
   response |-> Found(x, given) /\ BodyExists(x.response)]

Verdict(given, holds) == IF ~given THEN "SKIP" ELSE IF holds THEN "PASS" ELSE "FAIL"

ExchangeCheck(r, given) ==
  {[name |-> "exchange_exists", of |-> r.method, status |-> Verdict(given, x \in records)] : x \in r.evidence}

\* only of an exchange that was found
BodyChecks(r, given, bodies) ==
  UNION {{[name |-> "body_exists", of |-> "request", status |-> Verdict(given, BodyExists(x.request))],
          [name |-> "body_exists", of |-> "response", status |-> Verdict(given, BodyExists(x.response))]} :
           x \in {y \in r.evidence : bodies /\ LookupExchange(y, given).found}}

\* a CONFIRMED receipt is one of get_tx, so its evidence is xrpl.tx.exchange
WitnessCheck(r, given) ==
  [name |-> "witness_exchange_valid", of |-> r.method,
   status |-> IF r.status # "CONFIRMED" THEN "PASS"
              ELSE IF r.evidence = {} THEN "FAIL"
              ELSE Verdict(given, r.evidence \subseteq records)]

Checks(r, given, bodies) ==
  {WitnessCheck(r, given)} \cup ExchangeCheck(r, given) \cup BodyChecks(r, given, bodies)

\* the summary line of the rendered report: the numbers of PASS, FAIL and SKIP
Summary(checks) ==
  [s \in {"PASS", "FAIL", "SKIP"} |-> Cardinality({c \in checks : c.status = s})]

(***************************************************************************)
(* The narrative of a receipt has no check that fails, whichever puts were *)
(* refused and whoever died: what the transport remembers before it stores *)
(* it never becomes evidence.  And as long as no process died and no write *)
(* failed, a body it reports as there is whole or being written at this    *)
(* moment; after a fault a body may stay partial, the check still passes,  *)
(* and no later put repairs it (exchange_store.py, _put_body).             *)
(***************************************************************************)
NarrativeClean ==
  /\ \A k \in Tasks : \A r \in receipt[k] :
       Summary(Checks(r, TRUE, StoreBodies))["FAIL"] = 0
  /\ faults = 0 => \A d \in DOMAIN files : files[d] = "partial" =>
       \E k \in Tasks : pc[k] = "write" /\ Head(todo[k]) = d
=============================================================================
