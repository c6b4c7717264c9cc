---------------------------- MODULE LedgerProofs ----------------------------
(***************************************************************************)
(* What the operators of Ledger return, for every row and every answer.    *)
(***************************************************************************)
EXTENDS Ledger, TLAPS

Resolutions == {"RESOLVED_SUCCESS", "RESOLVED_FAILED", "MISMATCHED", "PENDING", "NO_CHANGE"}

AnswerStatus == {"PENDING", "SUCCESS", "FAILED"}

(* resolve_transaction returns one of its five Resolutions.                *)
LEMMA ResolveType ==
  ASSUME NEW t, NEW row \in Row, NEW v, v.status \in AnswerStatus
  PROVE  Resolve(t, row, v) \in Resolutions
BY DEF Resolve, Resolutions, AnswerStatus

(* A transition asked for by perform_transition stays within the statuses. *)
LEMMA TransitionType ==
  /\ \A s \in TransactionStatus, new \in TransactionStatus :
       perform_transition(s, new, TRANSACTION_TRANSITIONS) \in TransactionStatus
  /\ \A s \in AttemptStatus, new \in AttemptStatus :
       perform_transition(s, new, PAYMENT_ATTEMPT_TRANSITIONS) \in AttemptStatus
BY DEF perform_transition

(* The row that is saved is a row.                                         *)
LEMMA RowAfterType ==
  ASSUME NEW row \in Row, NEW seen \in Row, NEW resolution \in Resolutions
  PROVE  RowAfter(row, seen, resolution) \in Row
<1>1. /\ perform_transition(seen.status, "SUCCESS", TRANSACTION_TRANSITIONS) \in TransactionStatus
      /\ perform_transition(seen.status, "FAILED", TRANSACTION_TRANSITIONS) \in TransactionStatus
  BY TransitionType DEF Row, TransactionStatus
<1>2. CASE resolution = "RESOLVED_SUCCESS"
  BY <1>1, <1>2 DEF RowAfter, Row, ReconciliationStatus
<1>3. CASE resolution = "RESOLVED_FAILED"
  BY <1>1, <1>3 DEF RowAfter, Row
<1>4. CASE resolution = "MISMATCHED"
  BY <1>4 DEF RowAfter, Row, ReconciliationStatus
<1>5. CASE resolution \in {"PENDING", "NO_CHANGE"}
  BY <1>5 DEF RowAfter
<1>6. QED
  BY <1>2, <1>3, <1>4, <1>5 DEF Resolutions

(* A row becomes SUCCESS only by an answer that says the expected money    *)
(* arrived; any other row that is SUCCESS was so before.                   *)
LEMMA CreditNeedsEvidence ==
  ASSUME NEW t, NEW row \in Row, NEW v, v.status \in AnswerStatus,
         RowAfter(row, row, Resolve(t, row, v)).status = "SUCCESS"
  PROVE  row.status = "SUCCESS" \/ (v.status = "SUCCESS" /\ ~Mismatch(t, v))
BY DEF RowAfter, Resolve, AnswerStatus, Row, perform_transition, TransactionStatus,
       ReconciliationStatus, TRANSACTION_TRANSITIONS

(* A row that is over keeps its status, whatever the gateway answers.      *)
LEMMA TerminalRowKept ==
  ASSUME NEW t, NEW row \in Row, NEW v, v.status \in AnswerStatus,
         row.status \in {"SUCCESS", "FAILED", "ABANDONED"}
  PROVE  RowAfter(row, row, Resolve(t, row, v)).status = row.status
BY DEF RowAfter, Resolve, AnswerStatus, Row, perform_transition, TransactionStatus,
       ReconciliationStatus, TRANSACTION_TRANSITIONS

(* resolve_transaction is idempotent on the row: the same answer, applied  *)
(* to the row it left, leaves it as it is and does not save it again.      *)
THEOREM ResolveIdempotent ==
  ASSUME NEW t, NEW row \in Row, NEW v, v.status \in AnswerStatus
  PROVE  LET once == RowAfter(row, row, Resolve(t, row, v))
         IN  /\ RowAfter(once, once, Resolve(t, once, v)) = once
             /\ ~Touches(once, Resolve(t, once, v))
<1> DEFINE once == RowAfter(row, row, Resolve(t, row, v))
<1>1. RowAfter(once, once, Resolve(t, once, v)) = once
  <2>1. CASE v.status = "PENDING"
    BY <2>1 DEF RowAfter, Resolve, AnswerStatus, Row, perform_transition, TransactionStatus,
                ReconciliationStatus, TRANSACTION_TRANSITIONS
  <2>2. CASE v.status = "SUCCESS"
    BY <2>2 DEF RowAfter, Resolve, AnswerStatus, Row, perform_transition, TransactionStatus,
                ReconciliationStatus, TRANSACTION_TRANSITIONS
  <2>3. CASE v.status = "FAILED"
    BY <2>3 DEF RowAfter, Resolve, AnswerStatus, Row, perform_transition, TransactionStatus,
                ReconciliationStatus, TRANSACTION_TRANSITIONS
  <2>4. QED
    BY <2>1, <2>2, <2>3 DEF AnswerStatus
<1>2. Resolve(t, once, v) \notin {"RESOLVED_SUCCESS", "RESOLVED_FAILED"}
  <2>1. CASE row.status = "PENDING"
    BY <2>1 DEF RowAfter, Resolve, AnswerStatus, Row, perform_transition, TransactionStatus,
                ReconciliationStatus, TRANSACTION_TRANSITIONS
  <2>2. CASE row.status # "PENDING"
    BY <2>2 DEF RowAfter, Resolve, AnswerStatus, Row, perform_transition, TransactionStatus,
                ReconciliationStatus, TRANSACTION_TRANSITIONS
  <2>3. QED
    BY <2>1, <2>2
<1>3. ASSUME Resolve(t, once, v) = "MISMATCHED"
      PROVE  once.recon = "MISMATCHED"
  <2>1. RowAfter(once, once, "MISMATCHED") = once
    BY <1>1, <1>3
  <2>2. once \in Row
    BY ResolveType, RowAfterType
  <2>3. QED
    BY <2>1, <2>2 DEF RowAfter, Row
<1>4. QED
  BY <1>1, <1>2, <1>3 DEF Touches

(* Attempts keep to their statuses, and none of them disappears.           *)
LEMMA AttemptsAfterType ==
  ASSUME attempt \in [References -> AttemptStatus \cup {"ABSENT"}],
         NEW t, NEW seen \in Row, NEW v, v.status \in AnswerStatus
  PROVE  LET resolution == Resolve(t, seen, v)
         IN
         /\ AttemptsAfter(t, seen, v, resolution) \in [References -> AttemptStatus \cup {"ABSENT"}]
         /\ \A r \in References : attempt[r] # "ABSENT" =>
              AttemptsAfter(t, seen, v, resolution)[r] # "ABSENT"
<1> DEFINE resolution == Resolve(t, seen, v)
<1>1. ASSUME NEW r \in MatchingAttempt(t, v.ref)
      PROVE  r \in References /\ attempt[r] \in AttemptStatus
  BY <1>1 DEF MatchingAttempt, AttemptsOf
<1>2. ASSUME NEW s \in AttemptStatus, NEW target \in {"SUCCESS", "FAILED"}
      PROVE  AdvanceAttempt(s, target) \in AttemptStatus
  BY <1>2 DEF AdvanceAttempt, perform_transition, AttemptStatus, PAYMENT_ATTEMPT_TRANSITIONS
<1>3. CASE attempt = AttemptsAfter(t, seen, v, resolution)
  BY <1>3
<1>4. CASE attempt # AttemptsAfter(t, seen, v, resolution)
  <2>1. v.status \in {"SUCCESS", "FAILED"}
    BY <1>4 DEF AttemptsAfter, Resolve, AnswerStatus
  <2>2. AttemptsAfter(t, seen, v, resolution) =
          [r \in References |-> IF r \in MatchingAttempt(t, v.ref)
                                THEN AdvanceAttempt(attempt[r], v.status) ELSE attempt[r]]
    BY <1>4 DEF AttemptsAfter
  <2>3. \A s \in AttemptStatus : AdvanceAttempt(s, v.status) \in AttemptStatus
    BY <1>2, <2>1
  <2>4. "ABSENT" \notin AttemptStatus
    BY DEF AttemptStatus
  <2>5. QED
    BY <1>1, <2>2, <2>3, <2>4
<1>5. QED
  BY <1>3, <1>4

(* What is asked of perform_transition is asked of an open payment.        *)
LEMMA MovesAreLegal ==
  ASSUME NEW t, NEW row \in Row, NEW v, v.status \in AnswerStatus,
         Resolve(t, row, v) \in {"RESOLVED_SUCCESS", "RESOLVED_FAILED"}
  PROVE  /\ row.status = "PENDING" /\ v.status \in {"SUCCESS", "FAILED"}
         /\ Resolve(t, row, v) = IF v.status = "SUCCESS" THEN "RESOLVED_SUCCESS"
                                                         ELSE "RESOLVED_FAILED"
         /\ v.status \in TRANSACTION_TRANSITIONS[row.status]
<1>1. row.status = "PENDING" /\ v.status \in {"SUCCESS", "FAILED"}
  BY DEF Resolve, AnswerStatus
<1>2. Resolve(t, row, v) = IF v.status = "SUCCESS" THEN "RESOLVED_SUCCESS" ELSE "RESOLVED_FAILED"
  BY <1>1 DEF Resolve
<1>3. v.status \in TRANSACTION_TRANSITIONS[row.status]
  BY <1>1 DEF TRANSACTION_TRANSITIONS, TransactionStatus
<1>4. QED
  BY <1>1, <1>2, <1>3

(* "PENDING" is the resolution of a pending answer and of no other.        *)
LEMMA PendingIsNoNews ==
  ASSUME NEW t, NEW row \in Row, NEW v, v.status \in AnswerStatus
  PROVE  Resolve(t, row, v) = "PENDING" <=> v.status = "PENDING"
BY DEF Resolve, AnswerStatus

(* An attempt moved once by an answer is not moved again by the same.      *)
LEMMA AdvanceIdempotent ==
  ASSUME NEW s \in AttemptStatus, NEW target \in {"SUCCESS", "FAILED"}
  PROVE  AdvanceAttempt(AdvanceAttempt(s, target), target) = AdvanceAttempt(s, target)
<1>1. AttemptStatus = {"INITIATED", "REDIRECTED", "SUCCESS", "FAILED", "EXPIRED"}
  BY DEF AttemptStatus
<1>2. CASE target = "SUCCESS"
  BY <1>1, <1>2 DEF AdvanceAttempt, perform_transition, PAYMENT_ATTEMPT_TRANSITIONS
<1>3. CASE target = "FAILED"
  BY <1>1, <1>3 DEF AdvanceAttempt, perform_transition, PAYMENT_ATTEMPT_TRANSITIONS
<1>4. QED
  BY <1>2, <1>3

(* Whether an answer moves the attempts, and not only the row.             *)
Advances(seen, v, resolution) ==
  \/ resolution \in {"RESOLVED_SUCCESS", "RESOLVED_FAILED"}
  \/ resolution = "NO_CHANGE" /\ seen.status = v.status

(* On the row it left, an answer moves the attempts exactly if it did so   *)
(* on the row it found.                                                    *)
LEMMA SecondAdvance ==
  ASSUME NEW t, NEW row \in Row, NEW v, v.status \in {"SUCCESS", "FAILED"},
         NEW left \in Row, left = RowAfter(row, row, Resolve(t, row, v))
  PROVE  /\ Advances(left, v, Resolve(t, left, v)) <=> Advances(row, v, Resolve(t, row, v))
         /\ Resolve(t, left, v) # "PENDING"
<1>1. CASE Resolve(t, row, v) \in {"RESOLVED_SUCCESS", "RESOLVED_FAILED"}
  <2>1. /\ row.status = "PENDING" /\ v.status \in TRANSACTION_TRANSITIONS[row.status]
        /\ Resolve(t, row, v) = IF v.status = "SUCCESS" THEN "RESOLVED_SUCCESS"
                                                        ELSE "RESOLVED_FAILED"
    BY <1>1, MovesAreLegal DEF AnswerStatus
  <2>2. left.status = v.status
    BY <2>1 DEF RowAfter, perform_transition, Row
  <2>3. v.status = "SUCCESS" => ~Mismatch(t, v)
    BY <2>1 DEF Resolve
  <2>4. Resolve(t, left, v) = "NO_CHANGE"
    BY <2>2, <2>3 DEF Resolve
  <2>5. QED
    BY <1>1, <2>2, <2>4 DEF Advances
<1>2. CASE Resolve(t, row, v) \notin {"RESOLVED_SUCCESS", "RESOLVED_FAILED"}
  <2>1. left.status = row.status
    BY <1>2 DEF RowAfter, Row
  <2>2. Resolve(t, left, v) = Resolve(t, row, v)
    BY <2>1 DEF Resolve
  <2>3. QED
    BY <2>1, <2>2 DEF Advances, Resolve
<1>3. QED
  BY <1>1, <1>2

(* Attempts moved by an answer are where the same answer leaves them.      *)
LEMMA AttemptsSettle ==
  ASSUME attempt \in [References -> AttemptStatus \cup {"ABSENT"}],
         NEW t, NEW row \in Row, NEW v, v.status \in {"SUCCESS", "FAILED"},
         NEW left \in Row, left = RowAfter(row, row, Resolve(t, row, v)),
         attempt' = AttemptsAfter(t, row, v, Resolve(t, row, v))
  PROVE  /\ AttemptsAfter(t, left, v, Resolve(t, left, v))' = attempt'
         /\ AttemptsOf(t)' = AttemptsOf(t)
<1> DEFINE res == Resolve(t, row, v)
           once == AttemptsAfter(t, row, v, res)
           moved == MatchingAttempt(t, v.ref)
<1>1. /\ once \in [References -> AttemptStatus \cup {"ABSENT"}]
      /\ \A r \in References : attempt[r] # "ABSENT" => once[r] # "ABSENT"
  BY AttemptsAfterType DEF AnswerStatus
<1>2. \A r \in moved : r \in References /\ attempt[r] \in AttemptStatus
  BY DEF MatchingAttempt, AttemptsOf
<1>3. \A r \in References : attempt[r] = "ABSENT" => once[r] = "ABSENT"
  BY <1>2 DEF AttemptsAfter, AttemptStatus
<1>4. AttemptsOf(t)' = AttemptsOf(t)
  BY <1>1, <1>3 DEF AttemptsOf
<1>5. MatchingAttempt(t, v.ref)' = moved
  BY <1>4 DEF MatchingAttempt
<1>6. CASE Advances(row, v, res)
  <2>1. \A r \in References : attempt'[r] = IF r \in moved THEN AdvanceAttempt(attempt[r], v.status)
                                            ELSE attempt[r]
    BY <1>6 DEF Advances, AttemptsAfter
  <2>2. Advances(left, v, Resolve(t, left, v))
    BY <1>6, SecondAdvance
  <2>3. AttemptsAfter(t, left, v, Resolve(t, left, v))' =
          [r \in References |-> IF r \in moved THEN AdvanceAttempt(attempt'[r], v.status)
                                ELSE attempt'[r]]
    BY <1>5, <2>2 DEF Advances, AttemptsAfter
  <2>4. \A r \in moved : AdvanceAttempt(attempt'[r], v.status) = attempt'[r]
    BY <1>2, <2>1, AdvanceIdempotent
  <2>5. QED
    BY <1>1, <1>4, <2>3, <2>4
<1>7. CASE ~Advances(row, v, res)
  <2>1. ~Advances(left, v, Resolve(t, left, v))
    BY <1>7, SecondAdvance
  <2>2. QED
    BY <1>4, <2>1 DEF Advances, AttemptsAfter
<1>8. QED
  BY <1>6, <1>7

(* An answer that found nothing to do in an open payment said nothing.     *)
LEMMA OpenMeansNoNews ==
  ASSUME NEW t, NEW row \in Row, NEW v, v.status \in AnswerStatus,
         Resolve(t, row, v) \in {"PENDING", "NO_CHANGE"}, row.status = "PENDING"
  PROVE  v.status = "PENDING"
BY DEF Resolve, AnswerStatus
=============================================================================
