--------------------------- MODULE KielSyncProofs ---------------------------
(***************************************************************************)
(* Theorems about the system of module KielSync, for any number of         *)
(* transactions, attempts, events, requests and sweeper runs. The proofs   *)
(* rest on the inductive invariant DecisionsAreSound of Requirements.      *)
(***************************************************************************)
EXTENDS Requirements, LedgerProofs

USE DEF NoRef, NoTx, Unlocked

-----------------------------------------------------------------------------
(* Frames: what a step owes to the processes that do not take it.          *)

(* No attempt disappears and no evidence is forgotten.                     *)
Monotone ==
  /\ \A r \in References : attempt[r] # "ABSENT" => attempt'[r] # "ABSENT"
  /\ settled \subseteq settled'

(* A row that p holds stays held by it and is not changed.                 *)
LeavesRowsOf(p) ==
  \A t \in Transactions : holder[t] = p => holder'[t] = p /\ txn'[t] = txn[t]

(* A request that takes no step keeps what it knows.                       *)
LEMMA HandlerKept ==
  ASSUME LedgerAssumption, DecisionsAreSound, Monotone, NEW h \in Handlers, LeavesRowsOf(h),
         hpc'[h] = hpc[h], job'[h] = job[h], hanswer'[h] = hanswer[h], hcopy'[h] = hcopy[h]
  PROVE  HandlerOK(h)'
<1>1. HandlerOK(h)
  BY DEF DecisionsAreSound
<1>2. hpc[h] \in {"verified", "locked"} => JobRef(h) \in References /\ JobTx(h) \in Transactions
  BY <1>1 DEF HandlerOK, JobRef, JobTx, LedgerAssumption
<1>3. JobRef(h)' = JobRef(h) /\ JobTx(h)' = JobTx(h)
  BY DEF JobRef, JobTx
<1>4. Paid(JobRef(h), hanswer[h])' = Paid(JobRef(h), hanswer[h])
  BY DEF Paid, Mismatch, JobRef
<1>5. QED
  BY <1>1, <1>2, <1>3, <1>4 DEF HandlerOK, Monotone, LeavesRowsOf

(* A run that takes no step keeps what it knows.                           *)
LEMMA SweeperKept ==
  ASSUME DecisionsAreSound, Monotone, NEW s \in Sweepers, LeavesRowsOf(s),
         spc'[s] = spc[s], item'[s] = item[s], target'[s] = target[s],
         sanswer'[s] = sanswer[s], scopy'[s] = scopy[s]
  PROVE  SweeperOK(s)'
<1>1. SweeperOK(s)
  BY DEF DecisionsAreSound
<1>2. Paid(target[s], sanswer[s])' = Paid(target[s], sanswer[s])
  BY DEF Paid, Mismatch
<1>3. QED
  BY <1>1, <1>2 DEF SweeperOK, Monotone, LeavesRowsOf

(* A step of one request preserves the invariant if it keeps to itself     *)
(* and leaves that request, and the ledger, in order.                      *)
LEMMA HandlerFrame ==
  ASSUME LedgerAssumption, KielSyncAssumption, DecisionsAreSound, NEW h \in Handlers,
         UNCHANGED <<gatewayVars, sweeperVars>>,
         \A x \in Handlers \ {h} :
           hpc'[x] = hpc[x] /\ job'[x] = job[x] /\ hanswer'[x] = hanswer[x] /\ hcopy'[x] = hcopy[x],
         Monotone,
         \A p \in (Handlers \cup Sweepers) \ {h} : LeavesRowsOf(p),
         TypeOK', HandlerOK(h)', CreditedOnlyIfPaid'
  PROVE  DecisionsAreSound'
<1>1. ASSUME NEW x \in Handlers PROVE HandlerOK(x)'
  BY HandlerKept
<1>2. ASSUME NEW s \in Sweepers PROVE SweeperOK(s)'
  <2>1. s # h
    BY DEF KielSyncAssumption
  <2>2. QED
    BY <2>1, SweeperKept DEF sweeperVars
<1>3. \A r \in References : Paid(r, gw[r])' = Paid(r, gw[r])
  BY DEF gatewayVars, Paid, Mismatch
<1>4. (\A r \in References : Paid(r, gw[r]) => r \in settled)'
  BY <1>3 DEF DecisionsAreSound, gatewayVars
<1>5. QED
  BY <1>1, <1>2, <1>4 DEF DecisionsAreSound

(* The same of a step of one run.                                          *)
LEMMA SweeperFrame ==
  ASSUME LedgerAssumption, KielSyncAssumption, DecisionsAreSound, NEW s \in Sweepers,
         UNCHANGED <<gatewayVars, handlerVars>>,
         \A x \in Sweepers \ {s} :
           /\ spc'[x] = spc[x] /\ item'[x] = item[x] /\ target'[x] = target[x]
           /\ sanswer'[x] = sanswer[x] /\ scopy'[x] = scopy[x],
         Monotone,
         \A p \in (Handlers \cup Sweepers) \ {s} : LeavesRowsOf(p),
         TypeOK', SweeperOK(s)', CreditedOnlyIfPaid'
  PROVE  DecisionsAreSound'
<1>1. ASSUME NEW x \in Sweepers PROVE SweeperOK(x)'
  BY SweeperKept
<1>2. ASSUME NEW h \in Handlers PROVE HandlerOK(h)'
  <2>1. s # h
    BY DEF KielSyncAssumption
  <2>2. QED
    BY <2>1, HandlerKept DEF handlerVars
<1>3. \A r \in References : Paid(r, gw[r])' = Paid(r, gw[r])
  BY DEF gatewayVars, Paid, Mismatch
<1>4. (\A r \in References : Paid(r, gw[r]) => r \in settled)'
  BY <1>3 DEF DecisionsAreSound, gatewayVars
<1>5. QED
  BY <1>1, <1>2, <1>4 DEF DecisionsAreSound

(* Nothing is credited by a step that neither makes a row SUCCESS nor      *)
(* loses evidence or attempts.                                             *)
LEMMA CreditKept ==
  ASSUME CreditedOnlyIfPaid, Monotone, settled \subseteq References,
         \A t \in Transactions : txn'[t].status = "SUCCESS" => txn[t].status = "SUCCESS"
  PROVE  CreditedOnlyIfPaid'
BY DEF CreditedOnlyIfPaid, Monotone

-----------------------------------------------------------------------------
(* The steps of a request.                                                 *)

(* A request that ends releases its own rows and no other.                 *)
LEMMA HandlerDoneFrees ==
  ASSUME TypeOK, KielSyncAssumption, NEW h \in Handlers, HandlerDone(h)
  PROVE  /\ \A p \in (Handlers \cup Sweepers) \ {h} :
              \A t \in Transactions : holder[t] = p => holder'[t] = p
         /\ HandlerTypeOK /\ acked' \subseteq EventIds => HandlerTypeOK'
         /\ holder' \in [Transactions -> Handlers \cup Sweepers \cup {NoOne}]
         /\ HandlerOK(h)'
<1>1. \A p \in (Handlers \cup Sweepers) \ {h} :
        \A t \in Transactions : holder[t] = p => holder'[t] = p
  BY DEF HandlerDone
<1>2. HandlerTypeOK /\ acked' \subseteq EventIds => HandlerTypeOK'
  BY DEF HandlerDone, HandlerTypeOK
<1>3. holder' \in [Transactions -> Handlers \cup Sweepers \cup {NoOne}]
  BY DEF HandlerDone, TypeOK, LedgerTypeOK
<1>4. hpc'[h] = "idle"
  BY DEF HandlerDone, TypeOK, HandlerTypeOK
<1>5. HandlerOK(h)'
  BY <1>4 DEF HandlerOK
<1>6. QED
  BY <1>1, <1>2, <1>3, <1>5

LEMMA ReceiveSound ==
  ASSUME LedgerAssumption, KielSyncAssumption, DecisionsAreSound,
         NEW h \in Handlers, NEW e \in EventIds, OfHandler(Receive(h, e))
  PROVE  DecisionsAreSound'
<1> USE DEF OfHandler
<1>1. TypeOK
  BY DEF DecisionsAreSound
<1>2. TypeOK'
  <2>1. event' \in [EventIds -> Event]
    <3>1. (IF EventRef[e] = NoRef THEN 0 ELSE gw[EventRef[e]].version) \in Nat
      BY <1>1 DEF TypeOK, GatewayTypeOK, Answer, LedgerAssumption
    <3>2. QED
      BY <1>1, <3>1 DEF Receive, TypeOK, LedgerTypeOK, Event
  <2>2. LedgerTypeOK'
    BY <1>1, <2>1 DEF Receive, TypeOK, LedgerTypeOK
  <2>3. HandlerTypeOK'
    BY <1>1 DEF Receive, TypeOK, HandlerTypeOK
  <2>4. QED
    BY <1>1, <2>2, <2>3 DEF Receive, TypeOK, GatewayTypeOK, SweeperTypeOK, gatewayVars, sweeperVars
<1>3. Monotone /\ \A p \in (Handlers \cup Sweepers) \ {h} : LeavesRowsOf(p)
  BY DEF Receive, Monotone, LeavesRowsOf, gatewayVars
<1>4. HandlerOK(h)'
  BY <1>1 DEF Receive, HandlerOK, TypeOK, HandlerTypeOK
<1>5. CreditedOnlyIfPaid'
  BY <1>1, <1>3, CreditKept DEF Receive, DecisionsAreSound, TypeOK, GatewayTypeOK
<1>6. \A x \in Handlers \ {h} :
        hpc'[x] = hpc[x] /\ job'[x] = job[x] /\ hanswer'[x] = hanswer[x] /\ hcopy'[x] = hcopy[x]
  BY DEF Receive
<1>7. QED
  BY <1>2, <1>3, <1>4, <1>5, <1>6, HandlerFrame

LEMMA AcknowledgeDuplicateSound ==
  ASSUME LedgerAssumption, KielSyncAssumption, DecisionsAreSound,
         NEW h \in Handlers, NEW e \in EventIds, OfHandler(AcknowledgeDuplicate(h, e))
  PROVE  DecisionsAreSound'
<1> USE DEF OfHandler
<1>1. TypeOK
  BY DEF DecisionsAreSound
<1>2. TypeOK'
  BY <1>1 DEF AcknowledgeDuplicate, TypeOK, LedgerTypeOK, GatewayTypeOK, HandlerTypeOK,
              SweeperTypeOK, ledgerVars, gatewayVars, sweeperVars
<1>3. Monotone /\ \A p \in Handlers \cup Sweepers : LeavesRowsOf(p)
  BY DEF AcknowledgeDuplicate, Monotone, LeavesRowsOf, ledgerVars, gatewayVars
<1>4. HandlerOK(h)'
  BY <1>3, HandlerKept DEF AcknowledgeDuplicate
<1>5. CreditedOnlyIfPaid'
  BY <1>1, <1>3, CreditKept DEF AcknowledgeDuplicate, DecisionsAreSound, TypeOK, GatewayTypeOK, ledgerVars
<1>6. QED
  BY <1>2, <1>3, <1>4, <1>5, HandlerFrame DEF AcknowledgeDuplicate

(* verify() returns an answer about the reference asked for; if it is      *)
(* evidence, the payment is in the gateway's history.                      *)
LEMMA VerifyIsSound ==
  ASSUME LedgerAssumption, GatewayAssumption, DecisionsAreSound, NEW r \in References
  PROVE  /\ Verify(r) \in Verification
         /\ Verify(r).asked = r
         /\ Paid(r, Verify(r)) => r \in settled
<1>1. gw[r] \in Answer
  BY DEF DecisionsAreSound, TypeOK, GatewayTypeOK
<1>2. Verify(r) \in Verification /\ Verify(r).asked = r
  BY <1>1 DEF Verify, Verification, Answer, GatewayAssumption
<1>3. Paid(r, Verify(r)) => Paid(r, gw[r])
  BY DEF Paid, Mismatch, Verify
<1>4. QED
  BY <1>2, <1>3 DEF DecisionsAreSound

LEMMA HandlerVerifySound ==
  ASSUME LedgerAssumption, GatewayAssumption, KielSyncAssumption, DecisionsAreSound,
         NEW h \in Handlers, OfHandler(HandlerVerify(h))
  PROVE  DecisionsAreSound'
<1> USE DEF OfHandler
<1>1. TypeOK /\ HandlerOK(h)
  BY DEF DecisionsAreSound
<1>2. JobRef(h) \in References /\ job[h] \in EventIds
  BY <1>1 DEF HandlerVerify, HandlerOK, JobRef, LedgerAssumption
<1>3. /\ Verify(JobRef(h)) \in Verification
      /\ Verify(JobRef(h)).asked = JobRef(h)
      /\ Paid(JobRef(h), Verify(JobRef(h))) => JobRef(h) \in settled
  BY <1>2, VerifyIsSound
<1>4. TypeOK'
  BY <1>1, <1>3 DEF HandlerVerify, TypeOK, LedgerTypeOK, GatewayTypeOK, HandlerTypeOK,
                    SweeperTypeOK, ledgerVars, gatewayVars, sweeperVars
<1>5. Monotone /\ \A p \in Handlers \cup Sweepers : LeavesRowsOf(p)
  BY DEF HandlerVerify, Monotone, LeavesRowsOf, ledgerVars, gatewayVars
<1>6. HandlerOK(h)'
  <2>1. hpc'[h] = "verified" /\ hanswer'[h] = Verify(JobRef(h)) /\ job'[h] = job[h]
    BY <1>1 DEF HandlerVerify, TypeOK, HandlerTypeOK
  <2>2. JobRef(h)' = JobRef(h) /\ settled' = settled
    BY <2>1 DEF JobRef, gatewayVars
  <2>3. Paid(JobRef(h), hanswer[h])' = Paid(JobRef(h), Verify(JobRef(h)))
    BY <2>1, <2>2 DEF Paid, Mismatch
  <2>4. QED
    BY <1>2, <1>3, <2>1, <2>2, <2>3 DEF HandlerOK, HandlerVerify
<1>7. CreditedOnlyIfPaid'
  BY <1>1, <1>5, CreditKept DEF HandlerVerify, DecisionsAreSound, TypeOK, GatewayTypeOK, ledgerVars
<1>8. QED
  BY <1>4, <1>5, <1>6, <1>7, HandlerFrame DEF HandlerVerify

(* Ending a request without a commit, by an error or by a crash.           *)
LEMMA HandlerGivesUpSound ==
  ASSUME LedgerAssumption, KielSyncAssumption, DecisionsAreSound, NEW h \in Handlers,
         HandlerDone(h), acked' \subseteq EventIds, crashes' \in Nat,
         UNCHANGED <<txn, age, attempt, raw, event, gatewayVars, sweeperVars>>
  PROVE  DecisionsAreSound'
<1>1. TypeOK
  BY DEF DecisionsAreSound
<1>2. TypeOK'
  BY <1>1, HandlerDoneFrees
     DEF TypeOK, LedgerTypeOK, GatewayTypeOK, SweeperTypeOK, gatewayVars, sweeperVars
<1>3. Monotone /\ \A p \in (Handlers \cup Sweepers) \ {h} : LeavesRowsOf(p)
  BY <1>1, HandlerDoneFrees DEF Monotone, LeavesRowsOf, gatewayVars
<1>4. HandlerOK(h)'
  BY <1>1, HandlerDoneFrees
<1>5. CreditedOnlyIfPaid'
  BY <1>1, <1>3, CreditKept DEF DecisionsAreSound, TypeOK, GatewayTypeOK
<1>6. QED
  BY <1>2, <1>3, <1>4, <1>5, HandlerFrame DEF HandlerDone

LEMMA HandlerLockSound ==
  ASSUME LedgerAssumption, KielSyncAssumption, DecisionsAreSound,
         NEW h \in Handlers, OfHandler(HandlerLock(h))
  PROVE  DecisionsAreSound'
<1> USE DEF OfHandler
<1>1. TypeOK /\ HandlerOK(h)
  BY DEF DecisionsAreSound
<1>2. JobRef(h) \in References /\ JobTx(h) \in Transactions
  BY <1>1 DEF HandlerLock, HandlerOK, JobRef, JobTx, LedgerAssumption
<1>3. txn[JobTx(h)] \in Row
  BY <1>1, <1>2 DEF TypeOK, LedgerTypeOK
<1>4. TypeOK'
  <2>1. LedgerTypeOK'
    BY <1>1, <1>2 DEF HandlerLock, TypeOK, LedgerTypeOK
  <2>2. HandlerTypeOK'
    BY <1>1, <1>3 DEF HandlerLock, TypeOK, HandlerTypeOK
  <2>3. QED
    BY <1>1, <2>1, <2>2 DEF TypeOK, GatewayTypeOK, SweeperTypeOK, gatewayVars, sweeperVars
<1>5. Monotone /\ \A p \in (Handlers \cup Sweepers) \ {h} : LeavesRowsOf(p)
  BY <1>1, <1>2 DEF HandlerLock, Monotone, LeavesRowsOf, gatewayVars, TypeOK, LedgerTypeOK,
                    KielSyncAssumption
<1>6. HandlerOK(h)'
  <2>1. /\ hpc'[h] = "locked" /\ hanswer'[h] = hanswer[h] /\ job'[h] = job[h]
        /\ hcopy'[h] = txn[JobTx(h)] /\ holder'[JobTx(h)] = h
    BY <1>1, <1>2 DEF HandlerLock, TypeOK, HandlerTypeOK, LedgerTypeOK
  <2>2. JobRef(h)' = JobRef(h) /\ JobTx(h)' = JobTx(h) /\ settled' = settled /\ txn' = txn
        /\ attempt' = attempt
    BY <2>1 DEF JobRef, JobTx, gatewayVars, HandlerLock
  <2>3. Paid(JobRef(h), hanswer[h])' = Paid(JobRef(h), hanswer[h])
    BY <2>1, <2>2 DEF Paid, Mismatch
  <2>4. QED
    BY <1>1, <2>1, <2>2, <2>3 DEF HandlerOK, HandlerLock
<1>7. CreditedOnlyIfPaid'
  BY <1>1, <1>5, CreditKept DEF HandlerLock, DecisionsAreSound, TypeOK, GatewayTypeOK
<1>8. QED
  BY <1>4, <1>5, <1>6, <1>7, HandlerFrame DEF HandlerLock

(* What committing a resolution does to one row: the new row is a row, and *)
(* it is SUCCESS only on evidence for one of its own attempts.             *)
LEMMA CommittedRow ==
  ASSUME LedgerAssumption, DecisionsAreSound, NEW t \in Transactions, NEW r \in References,
         TxOf[r] = t, attempt[r] # "ABSENT", NEW v \in Verification,
         Paid(r, v) => r \in settled
  PROVE  LET row == RowAfter(txn[t], txn[t], Resolve(t, txn[t], v))
         IN  /\ row \in Row
             /\ row.status = "SUCCESS" =>
                  \E q \in settled : TxOf[q] = t /\ attempt[q] # "ABSENT"
<1>1. txn[t] \in Row /\ v.status \in AnswerStatus
  BY DEF DecisionsAreSound, TypeOK, LedgerTypeOK, Verification, PaymentStatus, AnswerStatus
<1>2. RowAfter(txn[t], txn[t], Resolve(t, txn[t], v)) \in Row
  BY <1>1, ResolveType, RowAfterType
<1>3. ASSUME RowAfter(txn[t], txn[t], Resolve(t, txn[t], v)).status = "SUCCESS"
      PROVE  \E q \in settled : TxOf[q] = t /\ attempt[q] # "ABSENT"
  <2>1. CASE txn[t].status = "SUCCESS"
    BY <2>1 DEF DecisionsAreSound, CreditedOnlyIfPaid
  <2>2. CASE v.status = "SUCCESS" /\ ~Mismatch(t, v)
    BY <2>2 DEF Paid
  <2>3. QED
    BY <1>1, <1>3, <2>1, <2>2, CreditNeedsEvidence
<1>4. QED
  BY <1>2, <1>3

(* The attempts a commit leaves are attempts, and none has disappeared.    *)
LEMMA CommittedAttempts ==
  ASSUME DecisionsAreSound, NEW t \in Transactions, NEW v \in Verification
  PROVE  LET after == AttemptsAfter(t, txn[t], v, Resolve(t, txn[t], v))
         IN  /\ after \in [References -> AttemptStatus \cup {"ABSENT"}]
             /\ \A q \in References : attempt[q] # "ABSENT" => after[q] # "ABSENT"
<1>1. attempt \in [References -> AttemptStatus \cup {"ABSENT"}] /\ txn[t] \in Row
  BY DEF DecisionsAreSound, TypeOK, LedgerTypeOK
<1>2. v.status \in AnswerStatus
  BY DEF Verification, PaymentStatus, AnswerStatus
<1>3. PICK seen \in Row : seen = txn[t]
  BY <1>1
<1>4. QED
  BY <1>1, <1>2, <1>3, AttemptsAfterType

(* What it does to the tables: they stay tables, no attempt is lost, and   *)
(* nothing is credited without evidence.                                   *)
LEMMA CommitEffects ==
  ASSUME LedgerAssumption, DecisionsAreSound, NEW t \in Transactions, NEW r \in References,
         TxOf[r] = t, attempt[r] # "ABSENT", NEW v \in Verification,
         Paid(r, v) => r \in settled,
         NEW row \in Row,
         row.status = "SUCCESS" => RowAfter(txn[t], txn[t], Resolve(t, txn[t], v)).status = "SUCCESS",
         txn' = [txn EXCEPT ![t] = row],
         attempt' = AttemptsAfter(t, txn[t], v, Resolve(t, txn[t], v)),
         UNCHANGED gatewayVars
  PROVE  /\ txn' \in [Transactions -> Row]
         /\ attempt' \in [References -> AttemptStatus \cup {"ABSENT"}]
         /\ Monotone
         /\ CreditedOnlyIfPaid'
<1>1. TypeOK
  BY DEF DecisionsAreSound
<1>2. txn' \in [Transactions -> Row]
  BY <1>1 DEF TypeOK, LedgerTypeOK
<1>3. /\ attempt' \in [References -> AttemptStatus \cup {"ABSENT"}]
      /\ \A q \in References : attempt[q] # "ABSENT" => attempt'[q] # "ABSENT"
  BY CommittedAttempts
<1>4. Monotone
  BY <1>3 DEF Monotone, gatewayVars
<1>5. ASSUME NEW u \in Transactions, txn'[u].status = "SUCCESS"
      PROVE  \E q \in settled : TxOf[q] = u /\ attempt[q] # "ABSENT"
  <2>1. CASE u = t
    <3>1. txn'[t] = row
      BY <1>1 DEF TypeOK, LedgerTypeOK
    <3>2. QED
      BY <1>5, <2>1, <3>1, CommittedRow
  <2>2. CASE u # t
    <3>1. txn'[u] = txn[u]
      BY <1>1, <2>2 DEF TypeOK, LedgerTypeOK
    <3>2. QED
      BY <1>5, <3>1 DEF DecisionsAreSound, CreditedOnlyIfPaid
  <2>3. QED
    BY <2>1, <2>2
<1>6. CreditedOnlyIfPaid'
  BY <1>1, <1>4, <1>5 DEF CreditedOnlyIfPaid, Monotone, TypeOK, GatewayTypeOK
<1>7. QED
  BY <1>2, <1>3, <1>4, <1>6

(* What a request that holds the lock knows.                               *)
LEMMA LockedHandler ==
  ASSUME LedgerAssumption, DecisionsAreSound, NEW h \in Handlers, hpc[h] = "locked"
  PROVE  /\ job[h] \in EventIds /\ JobRef(h) \in References /\ JobTx(h) \in Transactions
         /\ TxOf[JobRef(h)] = JobTx(h) /\ attempt[JobRef(h)] # "ABSENT"
         /\ hanswer[h] \in Verification
         /\ Paid(JobRef(h), hanswer[h]) => JobRef(h) \in settled
         /\ holder[JobTx(h)] = h
         /\ hcopy[h] = txn[JobTx(h)]
<1>1. HandlerOK(h)
  BY DEF DecisionsAreSound
<1>2. job[h] \in EventIds /\ JobRef(h) \in References
  BY <1>1 DEF HandlerOK, JobRef, LedgerAssumption
<1>3. QED
  BY <1>1, <1>2 DEF HandlerOK, JobTx, LedgerAssumption

LEMMA HandlerCommitSound ==
  ASSUME LedgerAssumption, KielSyncAssumption, DecisionsAreSound,
         NEW h \in Handlers, OfHandler(HandlerCommit(h))
  PROVE  DecisionsAreSound'
<1>1. TypeOK /\ hpc[h] = "locked"
  BY DEF DecisionsAreSound, OfHandler, HandlerCommit
<1>2. /\ job[h] \in EventIds /\ JobRef(h) \in References /\ JobTx(h) \in Transactions
      /\ TxOf[JobRef(h)] = JobTx(h) /\ attempt[JobRef(h)] # "ABSENT"
      /\ hanswer[h] \in Verification
      /\ Paid(JobRef(h), hanswer[h]) => JobRef(h) \in settled
      /\ holder[JobTx(h)] = h
      /\ hcopy[h] = txn[JobTx(h)]
  BY <1>1, LockedHandler
<1>3. PICK row : row = RowAfter(txn[JobTx(h)], txn[JobTx(h)],
                                Resolve(JobTx(h), txn[JobTx(h)], hanswer[h]))
  OBVIOUS
<1>4. row \in Row
  BY <1>2, <1>3, CommittedRow
<1>5. /\ txn' = [txn EXCEPT ![JobTx(h)] = row]
      /\ attempt' = AttemptsAfter(JobTx(h), txn[JobTx(h)], hanswer[h],
                                  Resolve(JobTx(h), txn[JobTx(h)], hanswer[h]))
      /\ raw' = [raw EXCEPT ![JobRef(h)] = hanswer[h].version]
      /\ age' = [age EXCEPT ![JobTx(h)] = 0] \/ age' = age
      /\ event' = [event EXCEPT ![job[h]].state = "PROCESSED"]
      /\ acked' = acked \cup {job[h]}
      /\ HandlerDone(h)
      /\ UNCHANGED <<gatewayVars, sweeperVars, crashes>>
  BY <1>2, <1>3 DEF OfHandler, HandlerCommit
<1>6. /\ txn' \in [Transactions -> Row]
      /\ attempt' \in [References -> AttemptStatus \cup {"ABSENT"}]
      /\ Monotone
      /\ CreditedOnlyIfPaid'
  BY <1>2, <1>3, <1>4, <1>5, CommitEffects
<1>7. TypeOK'
  <2>1. event' \in [EventIds -> Event]
    <3>1. event[job[h]] \in Event
      BY <1>1, <1>2 DEF TypeOK, LedgerTypeOK
    <3>2. [event[job[h]] EXCEPT !.state = "PROCESSED"] \in Event
      BY <3>1 DEF Event
    <3>3. QED
      BY <1>1, <1>2, <1>5, <3>2 DEF TypeOK, LedgerTypeOK
  <2>2. age' \in [Transactions -> Nat] /\ raw' \in [References -> Nat]
    <3>1. hanswer[h].version \in Nat
      BY <1>2 DEF Verification
    <3>2. QED
      BY <1>1, <1>5, <3>1 DEF TypeOK, LedgerTypeOK
  <2>3. acked' \subseteq EventIds
    BY <1>1, <1>2, <1>5 DEF TypeOK, HandlerTypeOK
  <2>4. LedgerTypeOK' /\ HandlerTypeOK'
    BY <1>1, <1>5, <1>6, <2>1, <2>2, <2>3, HandlerDoneFrees DEF TypeOK, LedgerTypeOK
  <2>5. QED
    BY <1>1, <1>5, <2>4 DEF TypeOK, GatewayTypeOK, SweeperTypeOK, gatewayVars, sweeperVars
<1>8. \A p \in (Handlers \cup Sweepers) \ {h} : LeavesRowsOf(p)
  BY <1>1, <1>2, <1>5, HandlerDoneFrees DEF LeavesRowsOf, TypeOK, LedgerTypeOK
<1>9. HandlerOK(h)'
  BY <1>1, <1>5, HandlerDoneFrees
<1>10. QED
  BY <1>5, <1>6, <1>7, <1>8, <1>9, HandlerFrame DEF HandlerDone
-----------------------------------------------------------------------------
(* The steps of a run of the sweeper.                                      *)

(* A run that is done with an item releases its own rows and no other.     *)
LEMMA ItemDoneFrees ==
  ASSUME TypeOK, KielSyncAssumption, NEW s \in Sweepers, ItemDone(s),
         NEW pc \in {"idle", "next"}, spc' = [spc EXCEPT ![s] = pc]
  PROVE  /\ \A p \in (Handlers \cup Sweepers) \ {s} :
              \A t \in Transactions : holder[t] = p => holder'[t] = p
         /\ /\ filter' \in [Sweepers -> Gateways \cup {AnyGateway}]
            /\ elapsed' \in [Sweepers -> Nat]
            /\ batch' \in [Sweepers -> SUBSET Transactions]
            => SweeperTypeOK'
         /\ holder' \in [Transactions -> Handlers \cup Sweepers \cup {NoOne}]
         /\ SweeperOK(s)'
<1>1. \A p \in (Handlers \cup Sweepers) \ {s} :
        \A t \in Transactions : holder[t] = p => holder'[t] = p
  BY DEF ItemDone
<1>2. /\ item' \in [Sweepers -> Transactions \cup {NoTx}]
      /\ target' \in [Sweepers -> References \cup {NoRef}]
      /\ sanswer' \in [Sweepers -> Verification \cup {NoAnswer}]
      /\ scopy' \in [Sweepers -> Row \cup {NoRow}]
  BY DEF ItemDone, TypeOK, SweeperTypeOK
<1>3. spc' \in [Sweepers -> {"idle", "next", "asking", "open", "verified", "locked"}]
  BY DEF TypeOK, SweeperTypeOK
<1>4. holder' \in [Transactions -> Handlers \cup Sweepers \cup {NoOne}]
  BY DEF ItemDone, TypeOK, LedgerTypeOK
<1>5. spc'[s] = pc
  BY DEF TypeOK, SweeperTypeOK
<1>6. SweeperOK(s)'
  BY <1>5 DEF SweeperOK
<1>7. QED
  BY <1>1, <1>2, <1>3, <1>4, <1>6 DEF SweeperTypeOK

(* Letting an item, or the whole run, go without touching the ledger: a    *)
(* skipped row, an error, the end of the run, a crash.                     *)
LEMMA SweeperLetsGoSound ==
  ASSUME LedgerAssumption, KielSyncAssumption, DecisionsAreSound, NEW s \in Sweepers,
         NEW pc \in {"idle", "next"}, spc' = [spc EXCEPT ![s] = pc],
         ItemDone(s), crashes' \in Nat,
         filter' \in [Sweepers -> Gateways \cup {AnyGateway}],
         elapsed' \in [Sweepers -> Nat],
         batch' \in [Sweepers -> SUBSET Transactions],
         UNCHANGED <<txn, age, attempt, raw, event, gatewayVars, handlerVars>>
  PROVE  DecisionsAreSound'
<1>1. TypeOK
  BY DEF DecisionsAreSound
<1>2. SweeperTypeOK' /\ holder' \in [Transactions -> Handlers \cup Sweepers \cup {NoOne}]
  BY <1>1, ItemDoneFrees
<1>3. TypeOK'
  BY <1>1, <1>2 DEF TypeOK, LedgerTypeOK, GatewayTypeOK, HandlerTypeOK, gatewayVars, handlerVars
<1>4. Monotone /\ \A p \in (Handlers \cup Sweepers) \ {s} : LeavesRowsOf(p)
  BY <1>1, ItemDoneFrees DEF Monotone, LeavesRowsOf, gatewayVars
<1>5. SweeperOK(s)'
  BY <1>1, ItemDoneFrees
<1>6. CreditedOnlyIfPaid'
  BY <1>1, <1>4, CreditKept DEF DecisionsAreSound, TypeOK, GatewayTypeOK
<1>7. QED
  BY <1>3, <1>4, <1>5, <1>6, SweeperFrame DEF ItemDone

LEMMA StartRunSound ==
  ASSUME LedgerAssumption, SweeperAssumption, KielSyncAssumption, DecisionsAreSound,
         NEW s \in Sweepers, OfSweeper(StartRun(s))
  PROVE  DecisionsAreSound'
<1> USE DEF OfSweeper
<1>1. TypeOK
  BY DEF DecisionsAreSound
<1>2. PICK f \in Filters : /\ filter' = [filter EXCEPT ![s] = f]
                           /\ batch' = [batch EXCEPT ![s] = Candidates(f)]
  BY DEF StartRun
<1>3. Candidates(f) \subseteq Transactions
  BY DEF Candidates, Oldest, Stale, FromEvents
<1>4. TypeOK'
  <2>1. SweeperTypeOK'
    BY <1>1, <1>2, <1>3 DEF StartRun, TypeOK, SweeperTypeOK, SweeperAssumption
  <2>2. QED
    BY <1>1, <2>1 DEF StartRun, TypeOK, LedgerTypeOK, GatewayTypeOK, HandlerTypeOK,
                      ledgerVars, gatewayVars, handlerVars
<1>5. Monotone /\ \A p \in Handlers \cup Sweepers : LeavesRowsOf(p)
  BY DEF StartRun, Monotone, LeavesRowsOf, ledgerVars, gatewayVars
<1>6. SweeperOK(s)'
  BY <1>1 DEF StartRun, SweeperOK, TypeOK, SweeperTypeOK
<1>7. CreditedOnlyIfPaid'
  BY <1>1, <1>5, CreditKept DEF StartRun, DecisionsAreSound, TypeOK, GatewayTypeOK, ledgerVars
<1>8. QED
  BY <1>4, <1>5, <1>6, <1>7, SweeperFrame DEF StartRun

LEMMA NextItemSound ==
  ASSUME LedgerAssumption, KielSyncAssumption, DecisionsAreSound,
         NEW s \in Sweepers, OfSweeper(NextItem(s))
  PROVE  DecisionsAreSound'
<1> USE DEF OfSweeper
<1>1. TypeOK
  BY DEF DecisionsAreSound
<1>2. PICK t \in batch[s] :
        /\ batch' = [batch EXCEPT ![s] = @ \ {t}]
        /\ item' = [item EXCEPT ![s] = t]
        /\ \/ spc' = [spc EXCEPT ![s] = "open"] /\ UNCHANGED target
           \/ \E r \in FilteredAttempts(s, t) :
                /\ target' = [target EXCEPT ![s] = r]
                /\ spc' = [spc EXCEPT ![s] = "asking"]
  BY DEF NextItem
<1>3. t \in Transactions
  BY <1>1, <1>2 DEF TypeOK, SweeperTypeOK
<1>4. \A r \in FilteredAttempts(s, t) : r \in References /\ TxOf[r] = t /\ attempt[r] # "ABSENT"
  BY DEF FilteredAttempts, AttemptsOf
<1>5. TypeOK'
  <2>1. SweeperTypeOK'
    BY <1>1, <1>2, <1>3, <1>4 DEF NextItem, TypeOK, SweeperTypeOK
  <2>2. QED
    BY <1>1, <2>1 DEF NextItem, TypeOK, LedgerTypeOK, GatewayTypeOK, HandlerTypeOK,
                      ledgerVars, gatewayVars, handlerVars
<1>6. Monotone /\ \A p \in Handlers \cup Sweepers : LeavesRowsOf(p)
  BY DEF NextItem, Monotone, LeavesRowsOf, ledgerVars, gatewayVars
<1>7. SweeperOK(s)'
  <2>1. item'[s] = t /\ attempt' = attempt
    BY <1>1, <1>2 DEF NextItem, TypeOK, SweeperTypeOK, ledgerVars
  <2>2. CASE spc' = [spc EXCEPT ![s] = "open"]
    BY <1>1, <1>3, <2>1, <2>2 DEF SweeperOK, TypeOK, SweeperTypeOK
  <2>3. CASE \E r \in FilteredAttempts(s, t) :
               /\ target' = [target EXCEPT ![s] = r]
               /\ spc' = [spc EXCEPT ![s] = "asking"]
    BY <1>1, <1>3, <1>4, <2>1, <2>3 DEF SweeperOK, TypeOK, SweeperTypeOK
  <2>4. QED
    BY <1>2, <2>2, <2>3
<1>8. CreditedOnlyIfPaid'
  BY <1>1, <1>6, CreditKept DEF NextItem, DecisionsAreSound, TypeOK, GatewayTypeOK, ledgerVars
<1>9. \A x \in Sweepers \ {s} : spc'[x] = spc[x] /\ item'[x] = item[x] /\ target'[x] = target[x]
  BY <1>1, <1>2 DEF NextItem, TypeOK, SweeperTypeOK
<1>10. QED
  BY <1>5, <1>6, <1>7, <1>8, <1>9, SweeperFrame DEF NextItem

LEMMA SweepVerifySound ==
  ASSUME LedgerAssumption, GatewayAssumption, KielSyncAssumption, DecisionsAreSound,
         NEW s \in Sweepers, OfSweeper(SweepVerify(s))
  PROVE  DecisionsAreSound'
<1> USE DEF OfSweeper
<1>1. TypeOK /\ SweeperOK(s) /\ target[s] \in References /\ spc[s] = "asking"
  BY DEF DecisionsAreSound, SweepVerify, SweeperOK
<1>2. /\ Verify(target[s]) \in Verification
      /\ Verify(target[s]).asked = target[s]
      /\ Paid(target[s], Verify(target[s])) => target[s] \in settled
  BY <1>1, VerifyIsSound
<1>3. TypeOK'
  BY <1>1, <1>2 DEF SweepVerify, TypeOK, LedgerTypeOK, GatewayTypeOK, HandlerTypeOK,
                    SweeperTypeOK, ledgerVars, gatewayVars, handlerVars
<1>4. Monotone /\ \A p \in Handlers \cup Sweepers : LeavesRowsOf(p)
  BY DEF SweepVerify, Monotone, LeavesRowsOf, ledgerVars, gatewayVars
<1>5. SweeperOK(s)'
  <2>1. /\ spc'[s] = "verified" /\ sanswer'[s] = Verify(target[s]) /\ target' = target
        /\ item' = item /\ settled' = settled /\ attempt' = attempt
    BY <1>1 DEF SweepVerify, TypeOK, SweeperTypeOK, ledgerVars, gatewayVars
  <2>2. Paid(target[s], sanswer[s])' = Paid(target[s], Verify(target[s]))
    BY <2>1 DEF Paid, Mismatch
  <2>3. QED
    BY <1>1, <1>2, <2>1, <2>2 DEF SweeperOK, SweepVerify
<1>6. CreditedOnlyIfPaid'
  BY <1>1, <1>4, CreditKept DEF SweepVerify, DecisionsAreSound, TypeOK, GatewayTypeOK, ledgerVars
<1>7. QED
  BY <1>3, <1>4, <1>5, <1>6, SweeperFrame DEF SweepVerify

LEMMA SweepLockSound ==
  ASSUME LedgerAssumption, KielSyncAssumption, DecisionsAreSound,
         NEW s \in Sweepers, OfSweeper(SweepLock(s))
  PROVE  DecisionsAreSound'
<1> USE DEF OfSweeper
<1>1. TypeOK /\ SweeperOK(s) /\ item[s] \in Transactions /\ spc[s] = "verified"
  BY DEF DecisionsAreSound, SweepLock, SweeperOK
<1>2. txn[item[s]] \in Row
  BY <1>1 DEF TypeOK, LedgerTypeOK
<1>3. TypeOK'
  <2>1. LedgerTypeOK'
    BY <1>1 DEF SweepLock, TypeOK, LedgerTypeOK
  <2>2. SweeperTypeOK'
    BY <1>1, <1>2 DEF SweepLock, TypeOK, SweeperTypeOK
  <2>3. QED
    BY <1>1, <2>1, <2>2 DEF TypeOK, GatewayTypeOK, HandlerTypeOK, gatewayVars, handlerVars
<1>4. Monotone /\ \A p \in (Handlers \cup Sweepers) \ {s} : LeavesRowsOf(p)
  BY <1>1 DEF SweepLock, Monotone, LeavesRowsOf, gatewayVars, TypeOK, LedgerTypeOK,
              KielSyncAssumption
<1>5. SweeperOK(s)'
  <2>1. /\ spc'[s] = "locked" /\ sanswer' = sanswer /\ target' = target /\ item' = item
        /\ scopy'[s] = txn[item[s]] /\ holder'[item[s]] = s
        /\ settled' = settled /\ txn' = txn /\ attempt' = attempt
    BY <1>1 DEF SweepLock, TypeOK, SweeperTypeOK, LedgerTypeOK, gatewayVars
  <2>2. Paid(target[s], sanswer[s])' = Paid(target[s], sanswer[s])
    BY <2>1 DEF Paid, Mismatch
  <2>3. QED
    BY <1>1, <2>1, <2>2 DEF SweeperOK, SweepLock
<1>6. CreditedOnlyIfPaid'
  BY <1>1, <1>4, CreditKept DEF SweepLock, DecisionsAreSound, TypeOK, GatewayTypeOK
<1>7. QED
  BY <1>3, <1>4, <1>5, <1>6, SweeperFrame DEF SweepLock

(* MaybeAbandon ends an unlocked PENDING row, and no other.                *)
LEMMA MaybeAbandonSound ==
  ASSUME LedgerAssumption, KielSyncAssumption, DecisionsAreSound,
         NEW s \in Sweepers, OfSweeper(MaybeAbandon(s))
  PROVE  DecisionsAreSound'
<1> USE DEF OfSweeper
<1>1. TypeOK /\ SweeperOK(s) /\ item[s] \in Transactions
  BY DEF DecisionsAreSound, MaybeAbandon, SweeperOK
<1>2. /\ spc' = [spc EXCEPT ![s] = "next"]
      /\ ItemDone(s)
      /\ UNCHANGED <<attempt, raw, event, filter, elapsed, batch, gatewayVars, handlerVars, crashes>>
      /\ \/ txn' = txn /\ age' = age
         \/ /\ holder[item[s]] = NoOne
            /\ txn' = [txn EXCEPT ![item[s]] = [txn[item[s]] EXCEPT !.status = "ABANDONED"]]
            /\ age' = [age EXCEPT ![item[s]] = 0]
  BY DEF MaybeAbandon
<1>3. /\ txn' \in [Transactions -> Row] /\ age' \in [Transactions -> Nat]
      /\ \A t \in Transactions : txn'[t].status = "SUCCESS" => txn[t].status = "SUCCESS"
  <2>1. txn[item[s]] \in Row
    BY <1>1 DEF TypeOK, LedgerTypeOK
  <2>2. PICK ended : ended = [txn[item[s]] EXCEPT !.status = "ABANDONED"]
    OBVIOUS
  <2>3. ended \in Row /\ ended.status = "ABANDONED"
    BY <2>1, <2>2 DEF Row, TransactionStatus
  <2>4. txn' = txn \/ txn' = [txn EXCEPT ![item[s]] = ended]
    BY <1>2, <2>2
  <2>5. age' = age \/ age' = [age EXCEPT ![item[s]] = 0]
    BY <1>2
  <2>6. QED
    BY <1>1, <2>3, <2>4, <2>5 DEF TypeOK, LedgerTypeOK
<1>4. TypeOK'
  <2>1. SweeperTypeOK' /\ holder' \in [Transactions -> Handlers \cup Sweepers \cup {NoOne}]
    BY <1>1, <1>2, ItemDoneFrees DEF TypeOK, SweeperTypeOK
  <2>2. QED
    BY <1>1, <1>2, <1>3, <2>1
       DEF TypeOK, LedgerTypeOK, GatewayTypeOK, HandlerTypeOK, gatewayVars, handlerVars
<1>5. Monotone /\ \A p \in (Handlers \cup Sweepers) \ {s} : LeavesRowsOf(p)
  <2>1. \A p \in Handlers \cup Sweepers : p # NoOne
    BY DEF KielSyncAssumption
  <2>2. \A t \in Transactions : holder[t] # NoOne => txn'[t] = txn[t]
    BY <1>1, <1>2 DEF TypeOK, LedgerTypeOK
  <2>3. \A p \in (Handlers \cup Sweepers) \ {s} :
          \A t \in Transactions : holder[t] = p => holder'[t] = p
    BY <1>1, <1>2, ItemDoneFrees
  <2>4. QED
    BY <1>2, <2>1, <2>2, <2>3 DEF Monotone, LeavesRowsOf, gatewayVars
<1>6. SweeperOK(s)'
  BY <1>1, <1>2, ItemDoneFrees
<1>7. CreditedOnlyIfPaid'
  BY <1>1, <1>3, <1>5, CreditKept DEF DecisionsAreSound, TypeOK, GatewayTypeOK
<1>8. QED
  BY <1>2, <1>4, <1>5, <1>6, <1>7, SweeperFrame DEF ItemDone

(* What a run that holds the lock knows.                                   *)
LEMMA LockedSweeper ==
  ASSUME DecisionsAreSound, NEW s \in Sweepers, spc[s] = "locked"
  PROVE  /\ item[s] \in Transactions /\ target[s] \in References
         /\ TxOf[target[s]] = item[s] /\ attempt[target[s]] # "ABSENT"
         /\ sanswer[s] \in Verification
         /\ Paid(target[s], sanswer[s]) => target[s] \in settled
         /\ holder[item[s]] = s
         /\ scopy[s] = txn[item[s]]
BY DEF DecisionsAreSound, SweeperOK

(* The row a run saves: the resolved one, or that one abandoned.           *)
LEMMA SweptRow ==
  ASSUME NEW row \in Row
  PROVE  LET ended == [row EXCEPT !.status = perform_transition(@, "ABANDONED",
                                               TRANSACTION_TRANSITIONS)]
         IN  ended \in Row /\ (ended.status = "SUCCESS" => row.status = "SUCCESS")
BY DEF Row, TransactionStatus, perform_transition, TRANSACTION_TRANSITIONS

LEMMA SweepCommitSound ==
  ASSUME LedgerAssumption, KielSyncAssumption, DecisionsAreSound,
         NEW s \in Sweepers, OfSweeper(SweepCommit(s))
  PROVE  DecisionsAreSound'
<1>1. TypeOK /\ spc[s] = "locked"
  BY DEF DecisionsAreSound, OfSweeper, SweepCommit
<1>2. /\ item[s] \in Transactions /\ target[s] \in References
      /\ TxOf[target[s]] = item[s] /\ attempt[target[s]] # "ABSENT"
      /\ sanswer[s] \in Verification
      /\ Paid(target[s], sanswer[s]) => target[s] \in settled
      /\ holder[item[s]] = s
      /\ scopy[s] = txn[item[s]]
  BY <1>1, LockedSweeper
<1>3. PICK res, row, ended :
        /\ res = Resolve(item[s], txn[item[s]], sanswer[s])
        /\ row = RowAfter(txn[item[s]], txn[item[s]], res)
        /\ ended = [row EXCEPT !.status = perform_transition(@, "ABANDONED",
                                            TRANSACTION_TRANSITIONS)]
  OBVIOUS
<1>4. row \in Row
  BY <1>2, <1>3, CommittedRow
<1>5. ended \in Row /\ (ended.status = "SUCCESS" => row.status = "SUCCESS")
  BY <1>3, <1>4, SweptRow
<1>6. /\ \/ txn' = [txn EXCEPT ![item[s]] = row]
         \/ txn' = [txn EXCEPT ![item[s]] = ended]
      /\ attempt' = AttemptsAfter(item[s], txn[item[s]], sanswer[s], res)
      /\ raw' = [raw EXCEPT ![target[s]] = sanswer[s].version]
      /\ age' = [age EXCEPT ![item[s]] = 0] \/ age' = age
      /\ event' = EventsAfter(target[s], res)
      /\ spc' = [spc EXCEPT ![s] = "next"]
      /\ ItemDone(s)
      /\ UNCHANGED <<filter, elapsed, batch, gatewayVars, handlerVars, crashes>>
  BY <1>2, <1>3 DEF OfSweeper, SweepCommit
<1>7. PICK saved \in Row : /\ txn' = [txn EXCEPT ![item[s]] = saved]
                           /\ saved.status = "SUCCESS" => row.status = "SUCCESS"
  BY <1>4, <1>5, <1>6
<1>8. /\ txn' \in [Transactions -> Row]
      /\ attempt' \in [References -> AttemptStatus \cup {"ABSENT"}]
      /\ Monotone
      /\ CreditedOnlyIfPaid'
  BY <1>2, <1>3, <1>6, <1>7, CommitEffects
<1>9. TypeOK'
  <2>1. event' \in [EventIds -> Event]
    <3>1. \A e \in EventIds : event[e] \in Event
      BY <1>1 DEF TypeOK, LedgerTypeOK
    <3>2. \A e \in EventIds : [event[e] EXCEPT !.state = "PROCESSED"] \in Event
      BY <3>1 DEF Event
    <3>3. PICK closed : closed = [e \in EventIds |-> [event[e] EXCEPT !.state = "PROCESSED"]]
      OBVIOUS
    <3>4. event' = [e \in EventIds |->
                     IF res # "PENDING" /\ EventRef[e] = target[s] /\ event[e].state = "UNPROCESSED"
                     THEN closed[e] ELSE event[e]]
      BY <1>6, <3>3 DEF EventsAfter
    <3>5. \A e \in EventIds : closed[e] \in Event
      BY <3>2, <3>3
    <3>6. QED
      BY <3>1, <3>4, <3>5
  <2>2. age' \in [Transactions -> Nat] /\ raw' \in [References -> Nat]
    <3>1. sanswer[s].version \in Nat
      BY <1>2 DEF Verification
    <3>2. /\ age' = [age EXCEPT ![item[s]] = 0] \/ age' = age
          /\ raw' = [raw EXCEPT ![target[s]] = sanswer[s].version]
      BY <1>6
    <3>3. QED
      BY <1>1, <3>1, <3>2 DEF TypeOK, LedgerTypeOK
  <2>3. SweeperTypeOK' /\ holder' \in [Transactions -> Handlers \cup Sweepers \cup {NoOne}]
    <3>1. /\ filter' \in [Sweepers -> Gateways \cup {AnyGateway}]
          /\ elapsed' \in [Sweepers -> Nat]
          /\ batch' \in [Sweepers -> SUBSET Transactions]
      BY <1>1, <1>6 DEF TypeOK, SweeperTypeOK
    <3>2. QED
      BY <1>1, <1>6, <3>1, ItemDoneFrees
  <2>4. LedgerTypeOK'
    BY <1>8, <2>1, <2>2, <2>3 DEF LedgerTypeOK
  <2>5. QED
    BY <1>1, <1>6, <2>3, <2>4 DEF TypeOK, GatewayTypeOK, HandlerTypeOK, gatewayVars, handlerVars
<1>10. \A p \in (Handlers \cup Sweepers) \ {s} : LeavesRowsOf(p)
  <2>1. \A p \in (Handlers \cup Sweepers) \ {s} :
          \A t \in Transactions : holder[t] = p => holder'[t] = p
    BY <1>1, <1>6, ItemDoneFrees
  <2>2. \A t \in Transactions : holder[t] # s => txn'[t] = txn[t]
    BY <1>1, <1>2, <1>7 DEF TypeOK, LedgerTypeOK
  <2>3. QED
    BY <2>1, <2>2 DEF LeavesRowsOf
<1>11. SweeperOK(s)'
  BY <1>1, <1>6, ItemDoneFrees
<1>12. QED
  BY <1>6, <1>8, <1>9, <1>10, <1>11, SweeperFrame DEF ItemDone
-----------------------------------------------------------------------------
(* The steps of everybody else.                                            *)

(* A step that leaves requests, runs and held rows alone.                  *)
LEMMA OtherFrame ==
  ASSUME LedgerAssumption, DecisionsAreSound, Monotone,
         UNCHANGED <<handlerVars, spc, item, target, sanswer, scopy>>,
         \A p \in Handlers \cup Sweepers : LeavesRowsOf(p),
         TypeOK', CreditedOnlyIfPaid', (\A r \in References : Paid(r, gw[r]) => r \in settled)'
  PROVE  DecisionsAreSound'
<1>1. ASSUME NEW h \in Handlers PROVE HandlerOK(h)'
  BY HandlerKept DEF handlerVars
<1>2. ASSUME NEW s \in Sweepers PROVE SweeperOK(s)'
  BY SweeperKept
<1>3. QED
  BY <1>1, <1>2 DEF DecisionsAreSound

(* A step that leaves the gateway alone as well.                           *)
LEMMA HostFrame ==
  ASSUME LedgerAssumption, DecisionsAreSound,
         UNCHANGED <<handlerVars, gatewayVars, spc, item, target, sanswer, scopy>>,
         \A r \in References : attempt[r] # "ABSENT" => attempt'[r] # "ABSENT",
         \A p \in Handlers \cup Sweepers : LeavesRowsOf(p),
         \A t \in Transactions : txn'[t].status = "SUCCESS" => txn[t].status = "SUCCESS",
         TypeOK'
  PROVE  DecisionsAreSound'
<1>1. TypeOK
  BY DEF DecisionsAreSound
<1>2. Monotone
  BY DEF Monotone, gatewayVars
<1>3. CreditedOnlyIfPaid'
  BY <1>1, <1>2, CreditKept DEF DecisionsAreSound, TypeOK, GatewayTypeOK
<1>4. \A r \in References : Paid(r, gw[r])' = Paid(r, gw[r])
  BY DEF gatewayVars, Paid, Mismatch
<1>5. (\A r \in References : Paid(r, gw[r]) => r \in settled)'
  BY <1>4 DEF DecisionsAreSound, gatewayVars
<1>6. QED
  BY <1>2, <1>3, <1>5, OtherFrame

(* The gateway's history holds every payment its answers tell of.          *)
LEMMA GatewayDecidesSound ==
  ASSUME LedgerAssumption, GatewayAssumption, DecisionsAreSound, NEW r \in References,
         GatewayDecides(r), UNCHANGED <<ledgerVars, handlerVars, sweeperVars, crashes>>
  PROVE  DecisionsAreSound'
<1>1. TypeOK /\ gw[r] \in Answer
  BY DEF DecisionsAreSound, TypeOK, GatewayTypeOK
<1>2. PICK status \in GatewayMoves[gw[r].status] :
        \E m \in (IF status = "SUCCESS" THEN Payments ELSE {NothingPaid(r)}) :
          LET answer == [status |-> status, amount |-> m.amount,
                         currency |-> m.currency, version |-> gw[r].version + 1]
          IN  /\ gw' = [gw EXCEPT ![r] = answer]
              /\ settled' = IF Paid(r, answer) THEN settled \cup {r} ELSE settled
  BY DEF GatewayDecides
<1>3. PICK m \in (IF status = "SUCCESS" THEN Payments ELSE {NothingPaid(r)}) :
        LET answer == [status |-> status, amount |-> m.amount,
                       currency |-> m.currency, version |-> gw[r].version + 1]
        IN  /\ gw' = [gw EXCEPT ![r] = answer]
            /\ settled' = IF Paid(r, answer) THEN settled \cup {r} ELSE settled
  BY <1>2
<1>4. status \in PaymentStatus
  BY <1>1, <1>2 DEF GatewayMoves, PaymentStatus, Answer
<1>5. m \in Money
  <2>1. Expected[TxOf[r]] \in Money /\ 0 \in Amounts
    BY DEF LedgerAssumption
  <2>2. NothingPaid(r) \in Money
    BY <2>1 DEF NothingPaid, Money
  <2>3. QED
    BY <2>2 DEF GatewayAssumption
<1>6. PICK answer \in Answer :
        /\ gw' = [gw EXCEPT ![r] = answer]
        /\ settled' = IF Paid(r, answer) THEN settled \cup {r} ELSE settled
  <2>1. [status |-> status, amount |-> m.amount, currency |-> m.currency,
         version |-> gw[r].version + 1] \in Answer
    BY <1>1, <1>4, <1>5 DEF Answer, Money
  <2>2. QED
    BY <1>3, <2>1
<1>7. TypeOK'
  <2>1. GatewayTypeOK'
    BY <1>1, <1>6 DEF TypeOK, GatewayTypeOK
  <2>2. QED
    BY <1>1, <2>1 DEF TypeOK, LedgerTypeOK, HandlerTypeOK, SweeperTypeOK, ledgerVars,
                      handlerVars, sweeperVars
<1>8. Monotone /\ \A p \in Handlers \cup Sweepers : LeavesRowsOf(p)
  BY <1>6 DEF Monotone, LeavesRowsOf, ledgerVars
<1>9. (\A q \in References : Paid(q, gw[q]) => q \in settled)'
  <2>1. ASSUME NEW q \in References, Paid(q, gw'[q]) PROVE q \in settled'
    <3>1. CASE q = r
      BY <1>1, <1>6, <2>1, <3>1 DEF TypeOK, GatewayTypeOK
    <3>2. CASE q # r
      BY <1>1, <1>6, <2>1, <3>2 DEF TypeOK, GatewayTypeOK, DecisionsAreSound
    <3>3. QED
      BY <3>1, <3>2
  <2>2. \A q \in References : Paid(q, gw[q])' = Paid(q, gw'[q])
    BY DEF Paid, Mismatch
  <2>3. QED
    BY <2>1, <2>2
<1>10. CreditedOnlyIfPaid'
  BY <1>1, <1>8, CreditKept DEF DecisionsAreSound, TypeOK, GatewayTypeOK, ledgerVars
<1>11. QED
  BY <1>7, <1>8, <1>9, <1>10, OtherFrame DEF sweeperVars

(* The host saves rows only while nobody holds them, and credits none.     *)
LEMMA HostStepSound ==
  ASSUME LedgerAssumption, KielSyncAssumption, DecisionsAreSound,
         HostStep, UNCHANGED <<gatewayVars, handlerVars, sweeperVars, crashes>>
  PROVE  DecisionsAreSound'
<1>1. TypeOK
  BY DEF DecisionsAreSound
<1>2. \A p \in Handlers \cup Sweepers : p # NoOne
  BY DEF KielSyncAssumption
<1>3. ASSUME NEW r \in References, NEW to \in AttemptStatus,
             attempt' = [attempt EXCEPT ![r] = to],
             UNCHANGED <<txn, age, raw, event, holder>>
      PROVE  DecisionsAreSound'
  <2>1. TypeOK'
    BY <1>1, <1>3 DEF TypeOK, LedgerTypeOK, GatewayTypeOK, HandlerTypeOK, SweeperTypeOK,
                      gatewayVars, handlerVars, sweeperVars
  <2>2. \A q \in References : attempt[q] # "ABSENT" => attempt'[q] # "ABSENT"
    BY <1>1, <1>3 DEF TypeOK, LedgerTypeOK, AttemptStatus
  <2>3. \A p \in Handlers \cup Sweepers : LeavesRowsOf(p)
    BY <1>3 DEF LeavesRowsOf
  <2>4. QED
    BY <1>3, <2>1, <2>2, <2>3, HostFrame DEF sweeperVars
<1>4. ASSUME NEW t \in Transactions, holder[t] = NoOne, NEW row \in Row,
             row.status = "SUCCESS" => txn[t].status = "SUCCESS",
             txn' = [txn EXCEPT ![t] = row], age' = [age EXCEPT ![t] = 0],
             UNCHANGED <<attempt, raw, event, holder>>
      PROVE  DecisionsAreSound'
  <2>1. TypeOK'
    <3>1. LedgerTypeOK'
      BY <1>1, <1>4 DEF TypeOK, LedgerTypeOK
    <3>2. QED
      BY <1>1, <3>1 DEF TypeOK, GatewayTypeOK, HandlerTypeOK, SweeperTypeOK,
                        gatewayVars, handlerVars, sweeperVars
  <2>2. \A p \in Handlers \cup Sweepers : LeavesRowsOf(p)
    BY <1>1, <1>2, <1>4 DEF LeavesRowsOf, TypeOK, LedgerTypeOK
  <2>3. \A u \in Transactions : txn'[u].status = "SUCCESS" => txn[u].status = "SUCCESS"
    BY <1>1, <1>4 DEF TypeOK, LedgerTypeOK
  <2>4. QED
    BY <1>4, <2>1, <2>2, <2>3, HostFrame DEF sweeperVars
<1>5. ASSUME NEW r \in References, CreateAttempt(r)
      PROVE  DecisionsAreSound'
  BY <1>3, <1>5 DEF CreateAttempt, AttemptStatus
<1>6. ASSUME NEW r \in References, NEW to \in HostTargets, AdvanceByHost(r, to)
      PROVE  DecisionsAreSound'
  <2>1. attempt[r] \in AttemptStatus
    BY <1>1, <1>6 DEF AdvanceByHost, TypeOK, LedgerTypeOK
  <2>2. perform_transition(attempt[r], to, PAYMENT_ATTEMPT_TRANSITIONS) \in AttemptStatus
    BY <1>6, <2>1 DEF AdvanceByHost, perform_transition, PAYMENT_ATTEMPT_TRANSITIONS, AttemptStatus
  <2>3. QED
    BY <1>3, <1>6, <2>2 DEF AdvanceByHost
<1>7. ASSUME NEW t \in Transactions, BeginPayment(t)
      PROVE  DecisionsAreSound'
  <2>1. txn[t] \in Row
    BY <1>1 DEF TypeOK, LedgerTypeOK
  <2>2. PICK row : row = [txn[t] EXCEPT !.status = perform_transition(@, "PENDING",
                                                     TRANSACTION_TRANSITIONS)]
    OBVIOUS
  <2>3. row \in Row /\ (row.status = "SUCCESS" => txn[t].status = "SUCCESS")
    BY <2>1, <2>2 DEF Row, perform_transition, TRANSACTION_TRANSITIONS, TransactionStatus
  <2>4. /\ txn' = [txn EXCEPT ![t] = row] /\ age' = [age EXCEPT ![t] = 0]
        /\ holder[t] = NoOne /\ UNCHANGED <<attempt, raw, event, holder>>
    BY <1>7, <2>2 DEF BeginPayment
  <2>5. QED
    BY <1>4, <2>3, <2>4
<1>8. ASSUME NEW t \in Transactions, Review(t)
      PROVE  DecisionsAreSound'
  <2>1. txn[t] \in Row
    BY <1>1 DEF TypeOK, LedgerTypeOK
  <2>2. PICK row : row = [txn[t] EXCEPT !.recon = "MANUAL_REVIEW"]
    OBVIOUS
  <2>3. row \in Row /\ row.status = txn[t].status
    BY <2>1, <2>2 DEF Row, ReconciliationStatus
  <2>4. /\ txn' = [txn EXCEPT ![t] = row] /\ age' = [age EXCEPT ![t] = 0]
        /\ holder[t] = NoOne /\ UNCHANGED <<attempt, raw, event, holder>>
    BY <1>8, <2>2 DEF Review
  <2>5. QED
    BY <1>4, <2>3, <2>4
<1>9. QED
  BY <1>5, <1>6, <1>7, <1>8 DEF HostStep

LEMMA TickSound ==
  ASSUME LedgerAssumption, DecisionsAreSound, Tick
  PROVE  DecisionsAreSound'
<1>1. TypeOK
  BY DEF DecisionsAreSound
<1>2. age' \in [Transactions -> Nat]
  BY <1>1 DEF Tick, TypeOK, LedgerTypeOK
<1>3. elapsed' \in [Sweepers -> Nat]
  BY <1>1 DEF Tick, TypeOK, SweeperTypeOK
<1>4. TypeOK'
  BY <1>1, <1>2, <1>3 DEF Tick, TypeOK, LedgerTypeOK, GatewayTypeOK, HandlerTypeOK,
                          SweeperTypeOK, gatewayVars, handlerVars
<1>5. \A p \in Handlers \cup Sweepers : LeavesRowsOf(p)
  BY DEF Tick, LeavesRowsOf
<1>6. QED
  BY <1>4, <1>5, HostFrame DEF Tick

(* What dies leaves nothing uncommitted behind.                            *)
LEMMA CrashSound ==
  ASSUME LedgerAssumption, KielSyncAssumption, DecisionsAreSound, Crash
  PROVE  DecisionsAreSound'
<1>1. TypeOK /\ crashes' \in Nat
  BY DEF DecisionsAreSound, TypeOK, Crash
<1>2. ASSUME NEW h \in Handlers, HandlerCrash(h), UNCHANGED sweeperVars
      PROVE  DecisionsAreSound'
  BY <1>1, <1>2, HandlerGivesUpSound DEF HandlerCrash, Crash, TypeOK, HandlerTypeOK
<1>3. ASSUME NEW s \in Sweepers, SweeperCrash(s), UNCHANGED handlerVars
      PROVE  DecisionsAreSound'
  <2>1. /\ filter' \in [Sweepers -> Gateways \cup {AnyGateway}]
        /\ elapsed' \in [Sweepers -> Nat]
        /\ batch' \in [Sweepers -> SUBSET Transactions]
    BY <1>1, <1>3 DEF SweeperCrash, RunDone, TypeOK, SweeperTypeOK
  <2>2. QED
    BY <1>1, <1>3, <2>1, SweeperLetsGoSound DEF SweeperCrash, RunDone, Crash
<1>4. QED
  BY <1>2, <1>3 DEF Crash

-----------------------------------------------------------------------------
(* The theorems.                                                           *)

LEMMA InitSound ==
  ASSUME LedgerAssumption, SweeperAssumption, KielSyncAssumption, Init
  PROVE  DecisionsAreSound
<1> USE DEF Init
<1>1. LedgerTypeOK
  BY DEF LedgerInit, LedgerTypeOK, Row, TransactionStatus, ReconciliationStatus, Event
<1>2. GatewayTypeOK
  BY DEF GatewayInit, GatewayTypeOK, Answer, PaymentStatus, LedgerAssumption, Money
<1>3. HandlerTypeOK
  BY DEF HandlerInit, HandlerTypeOK
<1>4. SweeperTypeOK
  BY DEF SweeperInit, SweeperTypeOK
<1>5. \A h \in Handlers : HandlerOK(h)
  BY DEF HandlerInit, HandlerOK
<1>6. \A s \in Sweepers : SweeperOK(s)
  BY DEF SweeperInit, SweeperOK
<1>7. \A r \in References : Paid(r, gw[r]) => r \in settled
  BY DEF GatewayInit, Paid
<1>8. CreditedOnlyIfPaid
  BY DEF LedgerInit, CreditedOnlyIfPaid
<1>9. QED
  BY <1>1, <1>2, <1>3, <1>4, <1>5, <1>6, <1>7, <1>8 DEF DecisionsAreSound, TypeOK

LEMMA HandlerStepSound ==
  ASSUME LedgerAssumption, GatewayAssumption, KielSyncAssumption, DecisionsAreSound,
         NEW h \in Handlers, OfHandler(HandlerStep(h))
  PROVE  DecisionsAreSound'
<1>1. ASSUME OfHandler(LeaveForSweeper(h))
      PROVE  DecisionsAreSound'
  <2>1. HandlerOK(h) /\ TypeOK
    BY DEF DecisionsAreSound
  <2>2. acked' \subseteq EventIds
    BY <1>1, <2>1 DEF OfHandler, LeaveForSweeper, HandlerOK, TypeOK, HandlerTypeOK
  <2>3. QED
    BY <1>1, <2>1, <2>2, HandlerGivesUpSound DEF OfHandler, LeaveForSweeper, TypeOK
<1>2. \/ \E e \in EventIds : OfHandler(Receive(h, e)) \/ OfHandler(AcknowledgeDuplicate(h, e))
      \/ OfHandler(HandlerVerify(h)) \/ OfHandler(LeaveForSweeper(h))
      \/ OfHandler(HandlerLock(h)) \/ OfHandler(HandlerCommit(h))
  BY DEF HandlerStep, OfHandler
<1>3. QED
  BY <1>1, <1>2, ReceiveSound, AcknowledgeDuplicateSound, HandlerVerifySound, HandlerLockSound,
     HandlerCommitSound

LEMMA SweeperStepSound ==
  ASSUME LedgerAssumption, GatewayAssumption, SweeperAssumption, KielSyncAssumption,
         DecisionsAreSound, NEW s \in Sweepers, OfSweeper(SweeperStep(s))
  PROVE  DecisionsAreSound'
<1>1. TypeOK
  BY DEF DecisionsAreSound
<1>2. ASSUME OfSweeper(SkipLocked(s)) \/ OfSweeper(ItemFails(s))
      PROVE  DecisionsAreSound'
  <2>1. /\ spc' = [spc EXCEPT ![s] = "next"] /\ ItemDone(s)
        /\ UNCHANGED <<txn, age, attempt, raw, event, filter, elapsed, batch, gatewayVars,
                       handlerVars, crashes>>
    BY <1>2 DEF OfSweeper, SkipLocked, ItemFails
  <2>2. QED
    BY <1>1, <2>1, SweeperLetsGoSound DEF TypeOK, SweeperTypeOK
<1>3. ASSUME OfSweeper(EndRun(s))
      PROVE  DecisionsAreSound'
  <2>1. /\ filter' \in [Sweepers -> Gateways \cup {AnyGateway}]
        /\ elapsed' \in [Sweepers -> Nat]
        /\ batch' \in [Sweepers -> SUBSET Transactions]
    BY <1>1, <1>3 DEF OfSweeper, EndRun, RunDone, TypeOK, SweeperTypeOK
  <2>2. QED
    BY <1>1, <1>3, <2>1, SweeperLetsGoSound DEF OfSweeper, EndRun, RunDone, TypeOK
<1>4. \/ OfSweeper(StartRun(s)) \/ OfSweeper(NextItem(s)) \/ OfSweeper(MaybeAbandon(s))
      \/ OfSweeper(SweepVerify(s)) \/ OfSweeper(SweepLock(s)) \/ OfSweeper(SkipLocked(s))
      \/ OfSweeper(SweepCommit(s)) \/ OfSweeper(ItemFails(s)) \/ OfSweeper(EndRun(s))
  BY DEF SweeperStep, OfSweeper
<1>5. QED
  BY <1>2, <1>3, <1>4, StartRunSound, NextItemSound, MaybeAbandonSound, SweepVerifySound,
     SweepLockSound, SweepCommitSound

LEMMA NextSound ==
  ASSUME LedgerAssumption, GatewayAssumption, SweeperAssumption, KielSyncAssumption,
         DecisionsAreSound, Next
  PROVE  DecisionsAreSound'
<1>1. \/ \E h \in Handlers : OfHandler(HandlerStep(h))
      \/ \E s \in Sweepers : OfSweeper(SweeperStep(s))
      \/ \E r \in References : /\ GatewayDecides(r)
                               /\ UNCHANGED <<ledgerVars, handlerVars, sweeperVars, crashes>>
      \/ HostStep /\ UNCHANGED <<gatewayVars, handlerVars, sweeperVars, crashes>>
      \/ Tick
      \/ Crash
  BY DEF Next, OfHandler, OfSweeper
<1>2. QED
  BY <1>1, HandlerStepSound, SweeperStepSound, GatewayDecidesSound, HostStepSound, TickSound,
     CrashSound

(* A stuttering step changes nothing the invariant speaks of.              *)
LEMMA StutterSound ==
  ASSUME LedgerAssumption, DecisionsAreSound, UNCHANGED vars
  PROVE  DecisionsAreSound'
<1>1. TypeOK'
  BY DEF vars, DecisionsAreSound, TypeOK, LedgerTypeOK, GatewayTypeOK, HandlerTypeOK,
         SweeperTypeOK, ledgerVars, gatewayVars, handlerVars, sweeperVars
<1>2. \A p \in Handlers \cup Sweepers : LeavesRowsOf(p)
  BY DEF vars, ledgerVars, LeavesRowsOf
<1>3. QED
  BY <1>1, <1>2, HostFrame DEF vars, ledgerVars, sweeperVars

(* Every decision that any request or run has under way is made from a     *)
(* locked, current row and by evidence that was true when it was taken.    *)
THEOREM Soundness == Spec => []DecisionsAreSound
<1> USE LedgerAssumption, GatewayAssumption, SweeperAssumption, KielSyncAssumption
<1>1. Init => DecisionsAreSound
  BY InitSound
<1>2. DecisionsAreSound /\ [Next]_vars => DecisionsAreSound'
  BY NextSound, StutterSound
<1>3. QED
  BY <1>1, <1>2, PTL DEF Spec

(* Every variable always holds a value of its kind.                        *)
THEOREM TypeCorrect == Spec => []TypeOK
<1>1. DecisionsAreSound => TypeOK
  BY DEF DecisionsAreSound
<1>2. QED
  BY <1>1, Soundness, PTL

(* No payment is credited that the gateway never had: for any number of    *)
(* webhooks in any order, overlapping runs, crashes and retries.           *)
THEOREM OnlyPaidIsCredited == Spec => []CreditedOnlyIfPaid
<1>1. DecisionsAreSound => CreditedOnlyIfPaid
  BY DEF DecisionsAreSound
<1>2. QED
  BY <1>1, Soundness, PTL
-----------------------------------------------------------------------------
(* What is over stays over.                                                *)

KeepsTerminal ==
  \A t \in Transactions : txn[t].status \in Terminal => txn'[t].status = txn[t].status

(* A commit from a row that is current keeps a status that is terminal.    *)
LEMMA CommittedRowKeepsTerminal ==
  ASSUME DecisionsAreSound, NEW t \in Transactions, NEW v \in Verification,
         txn[t].status \in Terminal
  PROVE  RowAfter(txn[t], txn[t], Resolve(t, txn[t], v)).status = txn[t].status
<1>1. txn[t] \in Row /\ v.status \in AnswerStatus
  BY DEF DecisionsAreSound, TypeOK, LedgerTypeOK, Verification, PaymentStatus, AnswerStatus
<1>2. PICK row \in Row : row = txn[t]
  BY <1>1
<1>3. QED
  BY <1>1, <1>2, TerminalRowKept DEF Terminal

LEMMA HandlerCommitKeepsTerminal ==
  ASSUME LedgerAssumption, DecisionsAreSound, NEW h \in Handlers, HandlerCommit(h)
  PROVE  KeepsTerminal
<1>1. hpc[h] = "locked" /\ txn \in [Transactions -> Row]
  BY DEF HandlerCommit, DecisionsAreSound, TypeOK, LedgerTypeOK
<1>2. JobTx(h) \in Transactions /\ hanswer[h] \in Verification /\ hcopy[h] = txn[JobTx(h)]
  BY <1>1, LockedHandler
<1>3. PICK row : row = RowAfter(txn[JobTx(h)], txn[JobTx(h)],
                                Resolve(JobTx(h), txn[JobTx(h)], hanswer[h]))
  OBVIOUS
<1>4. txn' = [txn EXCEPT ![JobTx(h)] = row]
  BY <1>2, <1>3 DEF HandlerCommit
<1>5. txn[JobTx(h)].status \in Terminal => row.status = txn[JobTx(h)].status
  BY <1>2, <1>3, CommittedRowKeepsTerminal
<1>6. QED
  BY <1>1, <1>2, <1>4, <1>5 DEF KeepsTerminal

LEMMA SweepCommitKeepsTerminal ==
  ASSUME DecisionsAreSound, NEW s \in Sweepers, SweepCommit(s)
  PROVE  KeepsTerminal
<1>1. spc[s] = "locked" /\ txn \in [Transactions -> Row]
  BY DEF SweepCommit, DecisionsAreSound, TypeOK, LedgerTypeOK
<1>2. item[s] \in Transactions /\ sanswer[s] \in Verification /\ scopy[s] = txn[item[s]]
  BY <1>1, LockedSweeper
<1>3. PICK row : row = RowAfter(txn[item[s]], txn[item[s]],
                                Resolve(item[s], txn[item[s]], sanswer[s]))
  OBVIOUS
<1>4. txn[item[s]].status \in Terminal => row.status = txn[item[s]].status
  BY <1>2, <1>3, CommittedRowKeepsTerminal
<1>5. \E saved : /\ txn' = [txn EXCEPT ![item[s]] = saved]
                 /\ row.status # "PENDING" => saved = row
  BY <1>2, <1>3 DEF SweepCommit
<1>6. "PENDING" \notin Terminal
  BY DEF Terminal
<1>7. QED
  BY <1>1, <1>2, <1>4, <1>5, <1>6 DEF KeepsTerminal

LEMMA HostKeepsTerminal ==
  ASSUME DecisionsAreSound, HostStep
  PROVE  KeepsTerminal
<1>1. txn \in [Transactions -> Row]
  BY DEF DecisionsAreSound, TypeOK, LedgerTypeOK
<1>2. ASSUME NEW t \in Transactions, BeginPayment(t)
      PROVE  KeepsTerminal
  <2>1. txn[t].status \notin Terminal
    BY <1>2 DEF BeginPayment, Terminal
  <2>2. \E row : txn' = [txn EXCEPT ![t] = row]
    BY <1>2 DEF BeginPayment
  <2>3. QED
    BY <1>1, <2>1, <2>2 DEF KeepsTerminal
<1>3. ASSUME NEW t \in Transactions, Review(t)
      PROVE  KeepsTerminal
  <2>1. PICK row : row = [txn[t] EXCEPT !.recon = "MANUAL_REVIEW"]
    OBVIOUS
  <2>2. row.status = txn[t].status
    BY <1>1, <2>1 DEF Row
  <2>3. txn' = [txn EXCEPT ![t] = row]
    BY <1>3, <2>1 DEF Review
  <2>4. QED
    BY <1>1, <2>2, <2>3 DEF KeepsTerminal
<1>4. QED
  BY <1>2, <1>3 DEF HostStep, CreateAttempt, AdvanceByHost, KeepsTerminal

LEMMA NextKeepsTerminal ==
  ASSUME LedgerAssumption, DecisionsAreSound, Next
  PROVE  KeepsTerminal
<1>1. ASSUME NEW h \in Handlers, HandlerStep(h) PROVE KeepsTerminal
  <2>1. CASE HandlerCommit(h)
    BY <2>1, HandlerCommitKeepsTerminal
  <2>2. CASE ~HandlerCommit(h)
    BY <1>1, <2>2 DEF HandlerStep, Receive, AcknowledgeDuplicate, HandlerVerify, LeaveForSweeper,
                      HandlerLock, ledgerVars, KeepsTerminal
  <2>3. QED
    BY <2>1, <2>2
<1>2. ASSUME NEW s \in Sweepers, SweeperStep(s) PROVE KeepsTerminal
  <2>1. CASE SweepCommit(s)
    BY <2>1, SweepCommitKeepsTerminal
  <2>2. CASE MaybeAbandon(s)
    <3>1. txn \in [Transactions -> Row] /\ item[s] \in Transactions
      BY <2>2 DEF MaybeAbandon, DecisionsAreSound, TypeOK, LedgerTypeOK, SweeperOK
    <3>2. \/ txn' = txn
          \/ /\ txn[item[s]].status \notin Terminal
             /\ \E row : txn' = [txn EXCEPT ![item[s]] = row]
      BY <2>2 DEF MaybeAbandon, Terminal
    <3>3. QED
      BY <3>1, <3>2 DEF KeepsTerminal
  <2>3. CASE ~SweepCommit(s) /\ ~MaybeAbandon(s)
    BY <1>2, <2>3 DEF SweeperStep, StartRun, NextItem, SweepVerify, SweepLock, SkipLocked,
                      ItemFails, EndRun, RunDone, ledgerVars, KeepsTerminal
  <2>4. QED
    BY <2>1, <2>2, <2>3
<1>3. ASSUME Tick \/ Crash PROVE KeepsTerminal
  BY <1>3 DEF Tick, Crash, HandlerCrash, SweeperCrash, RunDone, KeepsTerminal
<1>4. ASSUME UNCHANGED ledgerVars PROVE KeepsTerminal
  BY <1>4 DEF ledgerVars, KeepsTerminal
<1>5. QED
  BY <1>1, <1>2, <1>3, <1>4, HostKeepsTerminal DEF Next

(* No step of anybody moves a transaction out of SUCCESS, FAILED or        *)
(* ABANDONED.                                                              *)
THEOREM TerminalStays == Spec => TerminalIsFinal
<1> USE LedgerAssumption
<1>1. DecisionsAreSound /\ [Next]_vars => [KeepsTerminal]_vars
  BY NextKeepsTerminal
<1>2. Spec => [][KeepsTerminal]_vars
  BY <1>1, Soundness, PTL DEF Spec
<1>3. QED
  BY <1>2 DEF TerminalIsFinal, KeepsTerminal
=============================================================================
