------------------------------ MODULE SweepItem ------------------------------
(***************************************************************************)
(* One transaction of a sweep on its own, with one answer of the gateway:  *)
(* what --dry-run reports for it, what the run then does to it, and what   *)
(* the next run does to it when the gateway says the same again. A webhook *)
(* request differs from a run in that it never abandons.                   *)
(***************************************************************************)
EXTENDS Ledger, Sequences

CONSTANT ReportedRefs     \* references an answer may carry

(* The module is about one transaction.                                    *)
ASSUME ItemAssumption == \E t \in Transactions : Transactions = {t}

VARIABLES
  answer,      \* the verification of the latest attempt, each time
  overdue,     \* whether updated_at <= abandon_before
  predicted,   \* what the dry run returned
  outcomes     \* what the runs returned

itemVars == <<txn, age, attempt, raw, event, holder, answer, overdue, predicted, outcomes>>

(* A row and its attempts may be in any statuses in which handlers and     *)
(* runs leave them together (CreditedIsReconciled and AttemptsAgree of     *)
(* Requirements), the decided ones included: another process may be first. *)
ItemInit ==
  /\ txn \in [Transactions -> Row]
  /\ attempt \in [References -> AttemptStatus \cup {"ABSENT"}]
  /\ \A t \in Transactions :
       /\ AttemptsOf(t) # {}
       /\ txn[t].recon = "MATCHED" => txn[t].status = "SUCCESS"
       /\ txn[t].status = "SUCCESS" => txn[t].recon # "UNRECONCILED"
  /\ \A r \in References : attempt[r] = "SUCCESS" => txn[TxOf[r]].status = "SUCCESS"
  /\ answer \in [ref : ReportedRefs, status : {"PENDING", "SUCCESS", "FAILED"},
                 amount : Amounts, currency : Currencies]
  /\ overdue \in BOOLEAN
  /\ predicted = "none" /\ outcomes = <<>>
  /\ age = [t \in Transactions |-> IF overdue THEN 2 ELSE 1]
  /\ raw = [r \in References |-> 0]
  /\ event = [e \in EventIds |-> [state |-> "UNPROCESSED", at |-> 0]]
  /\ holder = [t \in Transactions |-> NoOne]

(* Mutant: only the amount is compared.                                    *)
Mutant_AmountOnly(t) ==
  CASE answer.status = "SUCCESS" ->
         IF answer.amount # Expected[t].amount THEN "mismatched" ELSE "resolved_success"
    [] answer.status = "FAILED" -> "resolved_failed"
    [] OTHER -> IF overdue THEN "abandoned" ELSE "unchanged"

(* A second implementation of the decision; it does not look at the status *)
(* of the row.                                                             *)
_dry_run_outcome(t) ==
  CASE answer.status = "SUCCESS" ->
         IF \/ answer.amount # Expected[t].amount
            \/ Fold[answer.currency] # Fold[Expected[t].currency]
         THEN "mismatched" ELSE "resolved_success"
    [] answer.status = "FAILED" -> "resolved_failed"
    [] OTHER -> IF overdue THEN "abandoned" ELSE "unchanged"

DryRunItem(t) ==
  /\ predicted = "none"
  /\ predicted' = _dry_run_outcome(t)
  /\ UNCHANGED <<txn, age, attempt, raw, event, holder, answer, overdue, outcomes>>

(* The atomic block of _sweep_one (as in Sweeper!SweepCommit) and the      *)
(* outcome it returns; the body it stores is version 1.                    *)
RealItem(t) ==
  /\ predicted # "none" /\ Len(outcomes) < 2
  /\ LET resolution == Resolve(t, txn[t], answer)
         latest == {r \in AttemptsOf(t) : \A q \in AttemptsOf(t) : q <= r}
         row == RowAfter(txn[t], txn[t], resolution)
         abandons == row.status = "PENDING" /\ overdue
                     /\ resolution \in {"PENDING", "NO_CHANGE"}
         saved == abandons \/ Touches(txn[t], resolution)
     IN  /\ outcomes' = Append(outcomes,
                          CASE resolution = "RESOLVED_SUCCESS" -> "resolved_success"
                            [] resolution = "RESOLVED_FAILED" -> "resolved_failed"
                            [] resolution = "MISMATCHED" -> "mismatched"
                            [] OTHER -> IF abandons THEN "abandoned" ELSE "unchanged")
         /\ txn' = [txn EXCEPT ![t] = IF abandons THEN [row EXCEPT !.status = "ABANDONED"]
                                      ELSE row]
         /\ age' = IF saved THEN [age EXCEPT ![t] = 0] ELSE age
         /\ overdue' = (overdue /\ ~saved)
         /\ attempt' = AttemptsAfter(t, txn[t], answer, resolution)
         /\ raw' = [r \in References |-> IF r \in latest THEN 1 ELSE raw[r]]
         /\ event' = [e \in EventIds |->
                        IF resolution # "PENDING" /\ EventRef[e] \in latest
                        THEN [event[e] EXCEPT !.state = "PROCESSED"] ELSE event[e]]
  /\ UNCHANGED <<holder, answer, predicted>>

ItemNext == \E t \in Transactions : DryRunItem(t) \/ RealItem(t)

ItemSpec == ItemInit /\ [][ItemNext]_itemVars

-----------------------------------------------------------------------------
(* "calling it twice with the same verification produces no second state   *)
(* change" (services.py:92): the second time nothing is written that was   *)
(* not there, and updated_at, the abandonment clock, is not touched.       *)
SecondTimeChangesNothing ==
  [][outcomes # <<>> =>
       /\ UNCHANGED <<txn, attempt, raw, event>>
       /\ \A t \in Transactions : ~Touches(txn[t], Resolve(t, txn[t], answer))]_itemVars

(* "... and raises nothing": every transition that resolve_transaction     *)
(* asks for outside a try block is in the tables of states.py.             *)
RaisesNothing ==
  \A t \in Transactions :
    Resolve(t, txn[t], answer) \in {"RESOLVED_SUCCESS", "RESOLVED_FAILED"} =>
      answer.status \in TRANSACTION_TRANSITIONS[txn[t].status]

(* No answer moves a transaction that is over or was never started, and    *)
(* money that cannot be credited is flagged rather than lost.              *)
OnlyOpenPaymentsMove ==
  [][\A t \in Transactions :
       /\ txn'[t].status # txn[t].status =>
            /\ txn[t].status = "PENDING"
            /\ txn'[t].status = IF answer.status = "PENDING" THEN "ABANDONED" ELSE answer.status
       /\ answer.status = "SUCCESS" /\ outcomes' # outcomes /\ txn'[t].status # "SUCCESS" =>
            txn'[t].recon = "MISMATCHED"]_itemVars

(* For a payment that is open the dry run reports what the run does: the   *)
(* second implementation of the decision agrees with the first one, and    *)
(* with the abandonment after it (kielsync_sweep._dry_run_outcome). For a  *)
(* candidate that is CREATED or ABANDONED it need not.                     *)
OpenPaymentsPredicted ==
  [][\A t \in Transactions :
       txn[t].status = "PENDING" /\ outcomes = <<>> /\ outcomes' # outcomes =>
         outcomes'[1] = predicted]_itemVars
=============================================================================
