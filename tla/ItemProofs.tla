----------------------------- MODULE ItemProofs -----------------------------
(***************************************************************************)
(* The properties of one item of a sweep, for every row, every set of      *)
(* attempts, every answer and every order of the references.               *)
(***************************************************************************)
EXTENDS SweepItem, LedgerProofs

Outcome == {"resolved_success", "resolved_failed", "mismatched", "abandoned", "unchanged"}

ItemTypeOK ==
  /\ txn \in [Transactions -> Row]
  /\ attempt \in [References -> AttemptStatus \cup {"ABSENT"}]
  /\ raw \in [References -> Nat]
  /\ event \in [EventIds -> Event]
  /\ answer.status \in AnswerStatus
  /\ outcomes \in Seq(Outcome)

Resolution(t) == Resolve(t, txn[t], answer)

Abandons(row, resolution) ==
  row.status = "PENDING" /\ overdue /\ resolution \in {"PENDING", "NO_CHANGE"}

Latest(t) == {r \in AttemptsOf(t) : \A q \in AttemptsOf(t) : q <= r}

(* Nothing is left for a run to write about t.                             *)
Settled(t) ==
  /\ RowAfter(txn[t], txn[t], Resolution(t)) = txn[t] /\ ~Touches(txn[t], Resolution(t))
  /\ ~Abandons(txn[t], Resolution(t))
  /\ AttemptsAfter(t, txn[t], answer, Resolution(t)) = attempt
  /\ \A r \in Latest(t) : raw[r] = 1
  /\ answer.status # "PENDING" =>
       \A e \in EventIds : EventRef[e] \in Latest(t) => event[e].state = "PROCESSED"

(* The inductive invariant: the first run leaves nothing to the second.    *)
OneRunSettles ==
  /\ ItemTypeOK
  /\ predicted # "none" /\ outcomes = <<>> =>
       \A t \in Transactions : predicted = _dry_run_outcome(t)
  /\ outcomes # <<>> => \A t \in Transactions : Settled(t)

(* The row as a run leaves it.                                             *)
LeftRow(t) == RowAfter(txn[t], txn[t], Resolution(t))

WrittenRow(t) == IF Abandons(LeftRow(t), Resolution(t))
                 THEN [LeftRow(t) EXCEPT !.status = "ABANDONED"] ELSE LeftRow(t)

(* What a run writes, in the words of this module.                         *)
LEMMA RunWritesRow ==
  ASSUME ItemTypeOK, NEW t \in Transactions, RealItem(t)
  PROVE  /\ LeftRow(t) \in Row /\ WrittenRow(t) \in Row
         /\ txn' = [txn EXCEPT ![t] = WrittenRow(t)] /\ txn'[t] = WrittenRow(t)
         /\ overdue' = FALSE \/ overdue' = overdue
<1>1. LeftRow(t) \in Row
  BY ResolveType, RowAfterType DEF ItemTypeOK, Resolution, LeftRow
<1>2. WrittenRow(t) \in Row
  BY <1>1 DEF WrittenRow, Row, TransactionStatus
<1>3. txn' = [txn EXCEPT ![t] = WrittenRow(t)]
  BY DEF RealItem, Resolution, Abandons, LeftRow, WrittenRow
<1>4. txn'[t] = WrittenRow(t)
  BY <1>3 DEF ItemTypeOK
<1>5. overdue' = FALSE \/ overdue' = overdue
  BY DEF RealItem
<1>6. QED
  BY <1>1, <1>2, <1>3, <1>4, <1>5

LEMMA RunWrites ==
  ASSUME NEW t \in Transactions, RealItem(t)
  PROVE  /\ attempt' = AttemptsAfter(t, txn[t], answer, Resolution(t))
         /\ raw' = [r \in References |-> IF r \in Latest(t) THEN 1 ELSE raw[r]]
         /\ event' = [e \in EventIds |->
                        IF Resolution(t) # "PENDING" /\ EventRef[e] \in Latest(t)
                        THEN [event[e] EXCEPT !.state = "PROCESSED"] ELSE event[e]]
         /\ answer' = answer
         /\ \E outcome \in Outcome : outcomes' = Append(outcomes, outcome)
<1>1. \E outcome \in Outcome : outcomes' = Append(outcomes, outcome)
  BY DEF RealItem, Outcome
<1>2. QED
  BY <1>1 DEF RealItem, Resolution, Latest

(* After a run, nothing is left for the next one.                          *)
LEMMA RunSettles ==
  ASSUME ItemTypeOK, NEW t \in Transactions, RealItem(t)
  PROVE  Settled(t)' /\ ItemTypeOK' /\ outcomes' # <<>>
<1> DEFINE abandons == Abandons(LeftRow(t), Resolution(t))
<1>1. PICK row, v : row = txn[t] /\ row \in Row /\ v = answer /\ v.status \in AnswerStatus
  BY DEF ItemTypeOK
<1>2. PICK kept : kept = LeftRow(t) /\ kept \in Row /\ kept = RowAfter(row, row, Resolve(t, row, v))
  BY <1>1, RunWritesRow DEF LeftRow, Resolution
<1>3. txn'[t] = (IF abandons THEN [kept EXCEPT !.status = "ABANDONED"] ELSE kept)
  BY <1>2, RunWritesRow DEF WrittenRow
<1>4. attempt' = AttemptsAfter(t, row, v, Resolve(t, row, v)) /\ answer' = v
  BY <1>1, RunWrites DEF Resolution
<1>5. PICK outcome \in Outcome : outcomes' = Append(outcomes, outcome)
  BY RunWrites
<1>6. event' = [e \in EventIds |->
                  IF Resolution(t) # "PENDING" /\ EventRef[e] \in Latest(t)
                  THEN [event[e] EXCEPT !.state = "PROCESSED"] ELSE event[e]]
  BY RunWrites
<1>7. /\ RowAfter(txn[t], txn[t], Resolution(t))' = txn'[t] /\ ~Touches(txn[t], Resolution(t))'
      /\ ~Abandons(txn[t], Resolution(t))'
      /\ AttemptsAfter(t, txn[t], answer, Resolution(t))' = attempt'
      /\ AttemptsOf(t)' = AttemptsOf(t)
  <2>1. CASE v.status \in {"SUCCESS", "FAILED"}
    <3>1. ~abandons
      <4>1. CASE Resolve(t, row, v) \in {"PENDING", "NO_CHANGE"}
        <5>1. kept = row
          BY <1>2, <4>1 DEF RowAfter
        <5>2. QED
          BY <1>1, <1>2, <2>1, <4>1, <5>1, OpenMeansNoNews DEF Abandons
      <4>2. CASE Resolve(t, row, v) \notin {"PENDING", "NO_CHANGE"}
        BY <1>1, <4>2 DEF Abandons, Resolution
      <4>3. QED
        BY <4>1, <4>2
    <3>2. txn'[t] = kept /\ Resolution(t)' = Resolve(t, kept, v)
      BY <1>3, <1>4, <3>1 DEF Resolution
    <3>3. RowAfter(kept, kept, Resolve(t, kept, v)) = kept /\ ~Touches(kept, Resolve(t, kept, v))
      BY <1>1, <1>2, ResolveIdempotent
    <3>4. /\ AttemptsAfter(t, kept, v, Resolve(t, kept, v))' = attempt'
          /\ AttemptsOf(t)' = AttemptsOf(t)
      BY <1>1, <1>2, <1>4, <2>1, AttemptsSettle DEF ItemTypeOK
    <3>5. ~(kept.status = "PENDING" /\ Resolve(t, kept, v) \in {"PENDING", "NO_CHANGE"})
      BY <1>1, <1>2, <2>1, OpenMeansNoNews
    <3>6. QED
      BY <1>4, <3>2, <3>3, <3>4, <3>5 DEF Abandons
  <2>2. CASE v.status = "PENDING"
    <3>1. \A other \in Row : Resolve(t, other, v) = "PENDING"
      BY <2>2 DEF Resolve
    <3>2. kept = row /\ attempt' = attempt /\ Resolution(t) = "PENDING"
      BY <1>1, <1>2, <1>4, <3>1 DEF RowAfter, AttemptsAfter, Resolution
    <3>3. txn'[t] \in Row
      BY RunWritesRow
    <3>4. Resolution(t)' = "PENDING"
      BY <1>4, <3>1, <3>3 DEF Resolution
    <3>5. ~Abandons(txn[t], Resolution(t))'
      <4>1. CASE abandons
        BY <1>3, <4>1 DEF Abandons, Row
      <4>2. CASE ~abandons
        BY <1>2, <1>3, <3>2, <4>2, RunWritesRow DEF Abandons
      <4>3. QED
        BY <4>1, <4>2
    <3>6. QED
      BY <3>2, <3>4, <3>5 DEF RowAfter, Touches, AttemptsAfter, AttemptsOf
  <2>3. QED
    BY <1>1, <2>1, <2>2 DEF AnswerStatus
<1>8. Latest(t)' = Latest(t)
  BY <1>7 DEF Latest
<1>9. \A r \in Latest(t) : raw'[r] = 1
  BY RunWrites DEF Latest, AttemptsOf
<1>10. v.status # "PENDING" =>
        \A e \in EventIds : EventRef[e] \in Latest(t) => event'[e].state = "PROCESSED"
  <2>1. v.status # "PENDING" => Resolution(t) # "PENDING"
    BY <1>1, PendingIsNoNews DEF Resolution
  <2>2. \A e \in EventIds : event[e] \in Event
    BY DEF ItemTypeOK
  <2>3. QED
    BY <1>6, <2>1, <2>2 DEF Event
<1>11. ItemTypeOK'
  <2>1. attempt' \in [References -> AttemptStatus \cup {"ABSENT"}]
    BY <1>1, <1>4, AttemptsAfterType DEF ItemTypeOK
  <2>2. txn' \in [Transactions -> Row]
    BY RunWritesRow DEF ItemTypeOK
  <2>3. raw' \in [References -> Nat] /\ event' \in [EventIds -> Event]
    <3>1. raw' \in [References -> Nat]
      <4>1. raw' = [r \in References |-> IF r \in Latest(t) THEN 1 ELSE raw[r]]
        BY RunWrites
      <4>2. QED
        BY <4>1 DEF ItemTypeOK
    <3>2. \A e \in EventIds : event[e] \in Event
      BY DEF ItemTypeOK
    <3>3. \A e \in EventIds : [event[e] EXCEPT !.state = "PROCESSED"] \in Event
      BY <3>2 DEF Event
    <3>4. QED
      BY <1>6, <3>1, <3>2, <3>3
  <2>4. outcomes' \in Seq(Outcome)
    BY <1>5 DEF ItemTypeOK
  <2>5. QED
    BY <1>1, <1>4, <2>1, <2>2, <2>3, <2>4 DEF ItemTypeOK
<1>12. outcomes' # <<>>
  BY <1>5 DEF ItemTypeOK
<1>13. QED
  BY <1>1, <1>4, <1>7, <1>8, <1>9, <1>10, <1>11, <1>12 DEF Settled

LEMMA ItemKeepsSettled ==
  ASSUME ItemAssumption, OneRunSettles, [ItemNext]_itemVars
  PROVE  OneRunSettles'
<1>1. ASSUME NEW t \in Transactions, RealItem(t) PROVE OneRunSettles'
  <2>1. Transactions = {t}
    BY ItemAssumption DEF ItemAssumption
  <2>2. Settled(t)' /\ ItemTypeOK' /\ outcomes' # <<>>
    BY <1>1, RunSettles DEF OneRunSettles
  <2>3. QED
    BY <2>1, <2>2 DEF OneRunSettles
<1>2. ASSUME NEW t \in Transactions, DryRunItem(t) PROVE OneRunSettles'
  <2>1. Transactions = {t}
    BY ItemAssumption DEF ItemAssumption
  <2>2. UNCHANGED <<txn, attempt, raw, event, answer, overdue, outcomes>>
    BY <1>2 DEF DryRunItem
  <2>3. predicted' = _dry_run_outcome(t)'
    BY <1>2, <2>2 DEF DryRunItem, _dry_run_outcome, Mismatch
  <2>4. ItemTypeOK'
    BY <2>2 DEF OneRunSettles, ItemTypeOK
  <2>5. outcomes' # <<>> => Settled(t)'
    BY <2>2 DEF OneRunSettles, Settled, Resolution, Abandons, Latest, AttemptsOf, AttemptsAfter,
                MatchingAttempt
  <2>6. QED
    BY <2>1, <2>3, <2>4, <2>5 DEF OneRunSettles
<1>3. ASSUME UNCHANGED itemVars PROVE OneRunSettles'
  BY <1>3 DEF itemVars, OneRunSettles, ItemTypeOK, Settled, Resolution, Abandons, Latest, AttemptsOf,
              AttemptsAfter, MatchingAttempt, _dry_run_outcome
<1>4. QED
  BY <1>1, <1>2, <1>3 DEF ItemNext

(* One run leaves nothing to the next one with the same answer.            *)
THEOREM OneRunIsEnough == ItemSpec => []OneRunSettles
<1> USE ItemAssumption
<1>1. ItemInit => OneRunSettles
  BY DEF ItemInit, OneRunSettles, ItemTypeOK, AnswerStatus, Event
<1>2. OneRunSettles /\ [ItemNext]_itemVars => OneRunSettles'
  BY ItemKeepsSettled
<1>3. QED
  BY <1>1, <1>2, PTL DEF ItemSpec

(* resolve_transaction never asks for a transition outside a try block     *)
(* that the table of states.py does not have (services.py:92).             *)
THEOREM NothingIsRaised == ItemSpec => []RaisesNothing
<1>1. OneRunSettles => RaisesNothing
  BY MovesAreLegal DEF OneRunSettles, ItemTypeOK, RaisesNothing
<1>2. QED
  BY <1>1, OneRunIsEnough, PTL

(* The second run with the same answer writes nothing (services.py:92).    *)
THEOREM SecondTimeIsQuiet == ItemSpec => SecondTimeChangesNothing
<1> DEFINE Quiet == /\ UNCHANGED <<txn, attempt, raw, event>>
                    /\ \A t \in Transactions : ~Touches(txn[t], Resolve(t, txn[t], answer))
<1>1. OneRunSettles /\ [ItemNext]_itemVars => [outcomes # <<>> => Quiet]_itemVars
  <2> SUFFICES ASSUME OneRunSettles, ItemNext, outcomes # <<>> PROVE Quiet
    OBVIOUS
  <2>1. \A t \in Transactions : ~Touches(txn[t], Resolve(t, txn[t], answer))
    BY DEF OneRunSettles, Settled, Resolution
  <2>2. UNCHANGED <<txn, attempt, raw, event>>
    <3>1. ASSUME NEW t \in Transactions, RealItem(t) PROVE UNCHANGED <<txn, attempt, raw, event>>
      <4>1. Settled(t) /\ ItemTypeOK
        BY DEF OneRunSettles
      <4>2. txn' = txn /\ attempt' = attempt
        <5>1. RowAfter(txn[t], txn[t], Resolution(t)) = txn[t] /\ ~Abandons(txn[t], Resolution(t))
          BY <4>1 DEF Settled
        <5>2. txn' = [txn EXCEPT ![t] = txn[t]]
          BY <3>1, <4>1, <5>1, RunWritesRow DEF WrittenRow, LeftRow
        <5>3. attempt' = attempt
          BY <3>1, <4>1, RunWrites DEF Settled
        <5>4. QED
          BY <4>1, <5>2, <5>3 DEF ItemTypeOK
      <4>3. raw' = raw
        <5>1. raw' = [r \in References |-> IF r \in Latest(t) THEN 1 ELSE raw[r]]
          BY <3>1, <4>1, RunWrites
        <5>2. QED
          BY <4>1, <5>1 DEF Settled, ItemTypeOK
      <4>4. event' = event
        <5>1. event' = [e \in EventIds |->
                          IF Resolution(t) # "PENDING" /\ EventRef[e] \in Latest(t)
                          THEN [event[e] EXCEPT !.state = "PROCESSED"] ELSE event[e]]
          BY <3>1, <4>1, RunWrites
        <5>2. Resolution(t) # "PENDING" => answer.status # "PENDING"
          BY DEF Resolution, Resolve
        <5>3. ASSUME NEW e \in EventIds, Resolution(t) # "PENDING", EventRef[e] \in Latest(t)
              PROVE  [event[e] EXCEPT !.state = "PROCESSED"] = event[e]
          BY <4>1, <5>2, <5>3 DEF Settled, ItemTypeOK, Event
        <5>4. QED
          BY <4>1, <5>1, <5>3 DEF ItemTypeOK
      <4>5. QED
        BY <4>2, <4>3, <4>4
    <3>2. ASSUME NEW t \in Transactions, DryRunItem(t)
          PROVE  UNCHANGED <<txn, attempt, raw, event>>
      BY <3>2 DEF DryRunItem
    <3>3. QED
      BY <3>1, <3>2 DEF ItemNext
  <2>3. QED
    BY <2>1, <2>2
<1>2. QED
  BY <1>1, OneRunIsEnough, PTL DEF ItemSpec, SecondTimeChangesNothing

(* Only an open payment is moved by an answer, and money that cannot be    *)
(* credited is flagged.                                                    *)
THEOREM OnlyOpenMove == ItemSpec => OnlyOpenPaymentsMove
<1> USE ItemAssumption
<1> DEFINE Move(t) ==
      /\ txn'[t].status # txn[t].status =>
           /\ txn[t].status = "PENDING"
           /\ txn'[t].status = IF answer.status = "PENDING" THEN "ABANDONED" ELSE answer.status
      /\ answer.status = "SUCCESS" /\ outcomes' # outcomes /\ txn'[t].status # "SUCCESS" =>
           txn'[t].recon = "MISMATCHED"
<1>1. ASSUME OneRunSettles, NEW t \in Transactions, RealItem(t) PROVE Move(t)
  <2>1. PICK row, v : row = txn[t] /\ row \in Row /\ v = answer /\ v.status \in AnswerStatus
    BY <1>1 DEF OneRunSettles, ItemTypeOK
  <2>2. PICK res : res = Resolution(t) /\ res = Resolve(t, row, v) /\ res \in Resolutions
    BY <2>1, ResolveType DEF Resolution
  <2>3. PICK left \in Row : left = RowAfter(row, row, res)
    BY <2>1, <2>2, RowAfterType
  <2>4. txn'[t] = IF Abandons(left, res) THEN [left EXCEPT !.status = "ABANDONED"] ELSE left
    <3>1. txn'[t] = WrittenRow(t)
      BY <1>1, RunWritesRow DEF OneRunSettles
    <3>2. LeftRow(t) = left
      BY <2>1, <2>2, <2>3 DEF LeftRow
    <3>3. QED
      BY <2>2, <3>1, <3>2 DEF WrittenRow
  <2>5. CASE res \in {"RESOLVED_SUCCESS", "RESOLVED_FAILED"}
    <3>1. /\ row.status = "PENDING" /\ v.status \in TRANSACTION_TRANSITIONS[row.status]
          /\ v.status \in {"SUCCESS", "FAILED"}
          /\ res = IF v.status = "SUCCESS" THEN "RESOLVED_SUCCESS" ELSE "RESOLVED_FAILED"
      BY <2>1, <2>2, <2>5, MovesAreLegal
    <3>2. left.status = v.status
      BY <2>3, <3>1 DEF RowAfter, perform_transition, Row
    <3>3. txn'[t] = left
      BY <2>4, <2>5 DEF Abandons
    <3>4. QED
      BY <2>1, <3>1, <3>2, <3>3
  <2>6. CASE res \notin {"RESOLVED_SUCCESS", "RESOLVED_FAILED"}
    <3>1. left.status = row.status /\ (res = "MISMATCHED" => left.recon = "MISMATCHED")
      BY <2>3, <2>6 DEF RowAfter, Row
    <3>2. Abandons(left, res) => v.status = "PENDING"
      BY <2>1, <2>2, <3>1, OpenMeansNoNews DEF Abandons
    <3>3. v.status = "SUCCESS" /\ res # "MISMATCHED" => row.status = "SUCCESS"
      BY <2>2, <2>6 DEF Resolve
    <3>4. QED
      BY <2>1, <2>4, <3>1, <3>2, <3>3 DEF Abandons, Row
  <2>7. QED
    BY <2>5, <2>6
<1>2. OneRunSettles /\ [ItemNext]_itemVars => [\A t \in Transactions : Move(t)]_itemVars
  <2> SUFFICES ASSUME OneRunSettles, ItemNext, NEW t \in Transactions PROVE Move(t)
    OBVIOUS
  <2>1. Transactions = {t}
    BY DEF ItemAssumption
  <2>2. CASE RealItem(t)
    BY <1>1, <2>2
  <2>3. CASE DryRunItem(t)
    BY <2>3 DEF DryRunItem
  <2>4. QED
    BY <2>1, <2>2, <2>3 DEF ItemNext
<1>3. QED
  BY <1>2, OneRunIsEnough, PTL DEF ItemSpec, OnlyOpenPaymentsMove

(* A dry run over an open payment reports what the run then does.          *)
THEOREM OpenArePredicted == ItemSpec => OpenPaymentsPredicted
<1> USE ItemAssumption
<1> DEFINE Foretold(t) == txn[t].status = "PENDING" /\ outcomes = <<>> /\ outcomes' # outcomes =>
                            outcomes'[1] = predicted
<1>1. ASSUME OneRunSettles, NEW t \in Transactions, RealItem(t) PROVE Foretold(t)
  <2> SUFFICES ASSUME txn[t].status = "PENDING", outcomes = <<>> PROVE outcomes'[1] = predicted
    OBVIOUS
  <2>1. PICK row, v : row = txn[t] /\ row \in Row /\ v = answer /\ v.status \in AnswerStatus
    BY <1>1 DEF OneRunSettles, ItemTypeOK
  <2>2. PICK res : res = Resolve(t, row, v)
    OBVIOUS
  <2>3. PICK outcome :
          /\ outcomes' = Append(outcomes, outcome)
          /\ outcome = CASE res = "RESOLVED_SUCCESS" -> "resolved_success"
                         [] res = "RESOLVED_FAILED" -> "resolved_failed"
                         [] res = "MISMATCHED" -> "mismatched"
                         [] OTHER -> IF Abandons(RowAfter(row, row, res), res)
                                     THEN "abandoned" ELSE "unchanged"
    BY <1>1, <2>1, <2>2 DEF RealItem, Abandons
  <2>4. predicted = _dry_run_outcome(t)
    BY <1>1 DEF OneRunSettles, RealItem
  <2>5. outcome = _dry_run_outcome(t)
    <3>1. CASE v.status = "SUCCESS"
      BY <2>1, <2>2, <2>3, <3>1 DEF _dry_run_outcome, Resolve, Mismatch
    <3>2. CASE v.status = "FAILED"
      BY <2>1, <2>2, <2>3, <3>2 DEF _dry_run_outcome, Resolve
    <3>3. CASE v.status = "PENDING"
      <4>1. res = "PENDING" /\ RowAfter(row, row, res) = row
        BY <2>2, <3>3 DEF Resolve, RowAfter
      <4>2. QED
        BY <2>1, <2>3, <3>3, <4>1 DEF _dry_run_outcome, Abandons
    <3>4. QED
      BY <2>1, <3>1, <3>2, <3>3 DEF AnswerStatus
  <2>6. outcomes'[1] = outcome
    BY <2>3
  <2>7. QED
    BY <2>4, <2>5, <2>6
<1>2. OneRunSettles /\ [ItemNext]_itemVars => [\A t \in Transactions : Foretold(t)]_itemVars
  <2> SUFFICES ASSUME OneRunSettles, ItemNext, NEW t \in Transactions PROVE Foretold(t)
    OBVIOUS
  <2>1. Transactions = {t}
    BY DEF ItemAssumption
  <2>2. CASE RealItem(t)
    BY <1>1, <2>2
  <2>3. CASE DryRunItem(t)
    BY <2>3 DEF DryRunItem
  <2>4. QED
    BY <2>1, <2>2, <2>3 DEF ItemNext
<1>3. QED
  BY <1>2, OneRunIsEnough, PTL DEF ItemSpec, OpenPaymentsPredicted
=============================================================================
