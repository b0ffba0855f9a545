---------------------------- MODULE IntentLifecycle ----------------------------
(***************************************************************************)
(* What the attestation queue promises of each intent: the transitions and *)
(* the attempt sequencing that the head of attestation/queue.py lists.     *)
(* Status NONE is an intent that was never enqueued.                       *)
(***************************************************************************)
EXTENDS Naturals

CONSTANT Intents

VARIABLES status, attempt

Statuses == {"NONE", "PENDING", "SUBMITTED", "DEFERRED", "CONFIRMED", "FAILED"}

Transitions ==
  [NONE      |-> {"PENDING"},
   PENDING   |-> {"SUBMITTED", "FAILED", "DEFERRED"},
   SUBMITTED |-> {"CONFIRMED", "DEFERRED", "FAILED"},
   DEFERRED  |-> {"SUBMITTED", "FAILED", "CONFIRMED"},
   CONFIRMED |-> {},
   FAILED    |-> {}]

Init ==
  /\ status = [i \in Intents |-> "NONE"]
  /\ attempt = [i \in Intents |-> 0]

\* A new attempt is the last one plus one, and what follows a submit belongs to it.
Move(i) ==
  \E s \in Transitions[status[i]] :
    /\ status' = [status EXCEPT ![i] = s]
    /\ attempt' = IF status[i] \in {"PENDING", "DEFERRED"}
                  THEN [attempt EXCEPT ![i] = @ + 1] ELSE attempt

Next == \E i \in Intents : Move(i)

Spec == Init /\ [][Next]_<<status, attempt>>
=============================================================================
