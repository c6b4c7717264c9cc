------------------------------- MODULE States -------------------------------
(***************************************************************************)
(* The state machines of kielsync.core.states: which status may follow     *)
(* which, for a Transaction and for a PaymentAttempt.                      *)
(***************************************************************************)

TransactionStatus == {"CREATED", "PENDING", "SUCCESS", "FAILED", "ABANDONED"}

AttemptStatus == {"INITIATED", "REDIRECTED", "SUCCESS", "FAILED", "EXPIRED"}

TRANSACTION_TRANSITIONS ==
  [status \in TransactionStatus |->
     CASE status = "CREATED" -> {"PENDING"}
       [] status = "PENDING" -> {"SUCCESS", "FAILED", "ABANDONED"}
       [] OTHER              -> {}]

PAYMENT_ATTEMPT_TRANSITIONS ==
  [status \in AttemptStatus |->
     CASE status = "INITIATED"  -> {"REDIRECTED", "FAILED", "EXPIRED"}
       [] status = "REDIRECTED" -> {"SUCCESS", "FAILED", "EXPIRED"}
       [] OTHER                 -> {}]

(* perform_transition: the status after the call. An illegal request       *)
(* raises InvalidTransition and saves nothing, so the status stays put;    *)
(* what the caller does with the exception is the caller's model.          *)
perform_transition(current, new, transitions) ==
  IF new \in transitions[current] THEN new ELSE current
=============================================================================
