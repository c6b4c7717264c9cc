------------------------------- MODULE Ledger -------------------------------
(***************************************************************************)
(* The durable tables of kielsync.django.models and the one function that  *)
(* decides a payment, kielsync.django.services.resolve_transaction.        *)
(*                                                                         *)
(* Transactions and references are numbered in the order of their          *)
(* created_at, the only thing the code ever sorts by. A reference stands   *)
(* for the PaymentAttempt that carries it (gateway_reference is unique).   *)
(* Times are ages: age[t] counts the ticks since updated_at of the row t.  *)
(* Only PENDING rows age, because every reader of updated_at also asks     *)
(* for PENDING.                                                            *)
(***************************************************************************)
EXTENDS Naturals, FiniteSets, States

CONSTANTS
  Transactions,   \* Transaction rows
  References,     \* gateway references the host may open attempts under
  TxOf,           \* TxOf[r]: the transaction the attempt r belongs to
  Amounts,        \* minor-unit amounts that occur, 0 among them
  Currencies,     \* spellings of currency codes that occur
  Fold,           \* Fold[c]: the spelling c after strip() and upper()
  Expected,       \* Expected[t]: the amount and currency stored on t
  EventIds,       \* webhook deduplication ids
  EventRef,       \* EventRef[e]: the reference the event e is about
  NoOne           \* holder of an unlocked row

NoRef == 0

Money == [amount : Amounts, currency : Currencies]

ASSUME LedgerAssumption ==
  /\ Transactions \subseteq Nat \ {0}
  /\ References \subseteq Nat \ {0}
  /\ TxOf \in [References -> Transactions]
  /\ Amounts \subseteq Nat /\ 0 \in Amounts
  /\ Fold \in [Currencies -> Currencies]
  /\ Expected \in [Transactions -> Money]
  /\ \A t \in Transactions : Expected[t].amount > 0
  /\ EventRef \in [EventIds -> References \cup {NoRef}]

VARIABLES
  txn,       \* Transaction: status and reconciliation_status
  age,       \* ticks since Transaction.updated_at
  attempt,   \* PaymentAttempt.status, or ABSENT before the row exists
  raw,       \* PaymentAttempt.raw_response: version of the gateway's answer
  event,     \* WebhookEvent: processed or not, and how new its news was
  holder     \* who holds the row lock (select_for_update) of a Transaction

ledgerVars == <<txn, age, attempt, raw, event, holder>>

ReconciliationStatus == {"UNRECONCILED", "MATCHED", "MISMATCHED", "MANUAL_REVIEW"}

Row == [status : TransactionStatus, recon : ReconciliationStatus]

(* What a process holds while it has no row in memory.                     *)
NoRow == [status |-> "NONE"]

Event == [state : {"ABSENT", "UNPROCESSED", "PROCESSED"}, at : Nat]

LedgerInit ==
  /\ txn = [t \in Transactions |-> [status |-> "CREATED", recon |-> "UNRECONCILED"]]
  /\ age = [t \in Transactions |-> 0]
  /\ attempt = [r \in References |-> "ABSENT"]
  /\ raw = [r \in References |-> 0]
  /\ event = [e \in EventIds |-> [state |-> "ABSENT", at |-> 0]]
  /\ holder = [t \in Transactions |-> NoOne]

(* Definitions named Mutant_... stand before the one they replace. Each is *)
(* a plausible slip in the code that the properties are there to notice.   *)
(* This one: a row is read without select_for_update.                      *)
Mutant_NoLock(t) == TRUE

(* Nobody holds the row lock of t: select_for_update would not wait.       *)
Unlocked(t) == holder[t] = NoOne

AttemptsOf(t) == {r \in References : TxOf[r] = t /\ attempt[r] # "ABSENT"}

(* Mutant: the most recent attempt, whatever the reference.                *)
Mutant_LatestAttempt(t, ref) ==
  {r \in AttemptsOf(t) : \A q \in AttemptsOf(t) : q <= r}

(* Mutant: the most recent attempt of all, whoever's it is.                *)
Mutant_AnyLatest(t, ref) ==
  IF ref \in AttemptsOf(t) THEN {ref}
  ELSE {r \in References : attempt[r] # "ABSENT" /\
          \A q \in References : attempt[q] # "ABSENT" => q <= r}

(* _matching_attempt: the attempt the verification names if it is one of   *)
(* the transaction's, else its most recent attempt, else none.             *)
MatchingAttempt(t, ref) ==
  IF ref \in AttemptsOf(t) THEN {ref}
  ELSE {r \in AttemptsOf(t) : \A q \in AttemptsOf(t) : q <= r}

(* _advance_attempt: INITIATED walks through REDIRECTED on its way to      *)
(* SUCCESS; a terminal attempt stays where it is.                          *)
AdvanceAttempt(status, target) ==
  LET start == IF target = "SUCCESS" /\ status = "INITIATED"
               THEN perform_transition(status, "REDIRECTED", PAYMENT_ATTEMPT_TRANSITIONS)
               ELSE status
  IN  perform_transition(start, target, PAYMENT_ATTEMPT_TRANSITIONS)

Mismatch(t, v) ==
  \/ v.amount # Expected[t].amount
  \/ Fold[v.currency] # Fold[Expected[t].currency]

(* Mutant: the amount check is missing.                                    *)
Mutant_Unchecked(t, row, v) ==
  CASE v.status = "PENDING" -> "PENDING"
    [] v.status = "SUCCESS" -> IF row.status = "PENDING" THEN "RESOLVED_SUCCESS" ELSE "NO_CHANGE"
    [] v.status = "FAILED"  -> IF row.status = "PENDING" THEN "RESOLVED_FAILED" ELSE "NO_CHANGE"

(* Mutant: the check that the row is still PENDING is missing.             *)
Mutant_AnyStatus(t, row, v) ==
  CASE v.status = "PENDING" -> "PENDING"
    [] v.status = "SUCCESS" -> IF Mismatch(t, v) THEN "MISMATCHED" ELSE "RESOLVED_SUCCESS"
    [] v.status = "FAILED"  -> IF row.status = "FAILED" THEN "NO_CHANGE" ELSE "RESOLVED_FAILED"

(* Which Resolution resolve_transaction returns for the row it was handed. *)
Resolve(t, row, v) ==
  CASE v.status = "PENDING" -> "PENDING"
    [] v.status = "SUCCESS" ->
         IF Mismatch(t, v) \/ row.status \notin {"PENDING", "SUCCESS"} THEN "MISMATCHED"
         ELSE IF row.status = "SUCCESS" THEN "NO_CHANGE"
         ELSE "RESOLVED_SUCCESS"
    [] v.status = "FAILED" ->
         IF row.status = "PENDING" THEN "RESOLVED_FAILED"
         ELSE IF row.status = "SUCCESS" THEN "MISMATCHED"
         ELSE "NO_CHANGE"

(* Mutants of RowAfter: reconciliation_status is not written with SUCCESS; *)
(* FAILED is written into the wrong field; FAILED clears a flag; a         *)
(* mismatch fails the payment.                                             *)
Mutant_StatusOnly(row, seen, resolution) ==
  CASE resolution = "RESOLVED_SUCCESS" -> [row EXCEPT !.status = "SUCCESS"]
    [] resolution = "RESOLVED_FAILED"  -> [row EXCEPT !.status = "FAILED"]
    [] resolution = "MISMATCHED"       -> [row EXCEPT !.recon = "MISMATCHED"]
    [] OTHER -> row

Mutant_WrongField(row, seen, resolution) ==
  IF resolution = "RESOLVED_FAILED" THEN [row EXCEPT !.recon = "FAILED"] ELSE row

Mutant_ClearsFlag(row, seen, resolution) ==
  CASE resolution = "RESOLVED_FAILED" -> [status |-> "FAILED", recon |-> "UNRECONCILED"]
    [] resolution = "MISMATCHED"      -> [row EXCEPT !.recon = "MISMATCHED"]
    [] OTHER -> row

Mutant_MismatchFails(row, seen, resolution) ==
  CASE resolution = "RESOLVED_SUCCESS" -> [status |-> "SUCCESS", recon |-> "MATCHED"]
    [] resolution = "RESOLVED_FAILED"  -> [row EXCEPT !.status = "FAILED"]
    [] resolution = "MISMATCHED"       -> [status |-> "FAILED", recon |-> "MISMATCHED"]
    [] OTHER -> row

(* The row as resolve_transaction leaves it in the database: each branch   *)
(* saves only the fields it decided (update_fields), judging by the row    *)
(* "seen" that the caller loaded.                                          *)
RowAfter(row, seen, resolution) ==
  CASE resolution = "RESOLVED_SUCCESS" ->
         [status |-> perform_transition(seen.status, "SUCCESS", TRANSACTION_TRANSITIONS),
          recon  |-> "MATCHED"]
    [] resolution = "RESOLVED_FAILED" ->
         [row EXCEPT !.status =
            perform_transition(seen.status, "FAILED", TRANSACTION_TRANSITIONS)]
    [] resolution = "MISMATCHED" -> [row EXCEPT !.recon = "MISMATCHED"]
    [] OTHER -> row

(* Mutant: a flag is saved again each time.                                *)
Mutant_SavesAgain(seen, resolution) ==
  resolution \in {"RESOLVED_SUCCESS", "RESOLVED_FAILED", "MISMATCHED"}

(* Whether the resolution saved the row and so moved updated_at: a row     *)
(* flagged MISMATCHED already is not saved again.                          *)
Touches(seen, resolution) ==
  \/ resolution \in {"RESOLVED_SUCCESS", "RESOLVED_FAILED"}
  \/ resolution = "MISMATCHED" /\ seen.recon # "MISMATCHED"

(* Mutant: the attempt is moved before the mismatch is looked for.         *)
Mutant_AttemptFirst(t, seen, v, resolution) ==
  IF v.status = "PENDING" THEN attempt
  ELSE [r \in References |-> IF r \in MatchingAttempt(t, v.ref)
                             THEN AdvanceAttempt(attempt[r], v.status) ELSE attempt[r]]

(* What resolve_transaction does to the attempts of t.                     *)
AttemptsAfter(t, seen, v, resolution) ==
  IF \/ resolution \in {"RESOLVED_SUCCESS", "RESOLVED_FAILED"}
     \/ resolution = "NO_CHANGE" /\ seen.status = v.status
  THEN [r \in References |->
          IF r \in MatchingAttempt(t, v.ref)
          THEN AdvanceAttempt(attempt[r], v.status)
          ELSE attempt[r]]
  ELSE attempt
=============================================================================
