---------------------------- MODULE OutcomeProofs ---------------------------
(***************************************************************************)
(* What steps leave behind, for every instance of the system: which        *)
(* attempt is credited, which payment is abandoned, what an event that is  *)
(* closed has told the ledger, who holds a lock, what the table of events  *)
(* keeps (EventTable), which payments a run takes up, and that an answer   *)
(* finds nothing to do the second time.                                    *)
(***************************************************************************)
EXTENDS PromiseProofs, FiniteSetTheorems, WellFoundedInduction

(* Only a payment in full makes an attempt SUCCESS, and its row with it.   *)
LEMMA NewlyPaidAttempt ==
  ASSUME NEW t, NEW old \in Row, NEW v, v.status \in AnswerStatus,
         NEW r \in References, attempt[r] \in AttemptStatus \cup {"ABSENT"},
         attempt[r] # "SUCCESS", NEW res, res = Resolve(t, old, v),
         AttemptsAfter(t, old, v, res)[r] = "SUCCESS"
  PROVE  /\ r \in MatchingAttempt(t, v.ref)
         /\ v.status = "SUCCESS" /\ ~Mismatch(t, v)
         /\ RowAfter(old, old, res).status = "SUCCESS"
<1>1. /\ res \in {"RESOLVED_SUCCESS", "RESOLVED_FAILED"}
           \/ (res = "NO_CHANGE" /\ old.status = v.status)
      /\ r \in MatchingAttempt(t, v.ref)
      /\ AdvanceAttempt(attempt[r], v.status) = "SUCCESS"
  BY DEF AttemptsAfter
<1>2. attempt[r] \in AttemptStatus
  BY <1>1 DEF MatchingAttempt, AttemptsOf
<1>3. v.status = "SUCCESS"
  <2>1. \A status \in AttemptStatus : status # "SUCCESS" =>
          perform_transition(status, "REDIRECTED", PAYMENT_ATTEMPT_TRANSITIONS) # "SUCCESS"
    BY DEF perform_transition
  <2>2. PICK start : start # "SUCCESS" /\ AdvanceAttempt(attempt[r], v.status)
                       = perform_transition(start, v.status, PAYMENT_ATTEMPT_TRANSITIONS)
    BY <1>2, <2>1 DEF AdvanceAttempt
  <2>3. QED
    BY <1>1, <2>2 DEF perform_transition
<1>4. ~Mismatch(t, v) /\ old.status \in {"PENDING", "SUCCESS"}
  BY <1>1, <1>3 DEF Resolve
<1>5. RowAfter(old, old, res).status = "SUCCESS"
  BY <1>1, <1>3, <1>4 DEF Resolve, RowAfter, perform_transition, TRANSACTION_TRANSITIONS,
                          TransactionStatus, Row
<1>6. QED
  BY <1>1, <1>3, <1>4, <1>5

(* A row is abandoned by no answer, an answer that is not PENDING leaves   *)
(* no open row unflagged, and one that is leaves the row alone.            *)
LEMMA ResolvedOutcome ==
  ASSUME NEW t, NEW old \in Row, NEW v, v.status \in AnswerStatus,
         NEW res, res = Resolve(t, old, v), NEW new, new = RowAfter(old, old, res)
  PROVE  /\ new.status = "ABANDONED" => old.status = "ABANDONED"
         /\ v.status = "SUCCESS" => new.status = "SUCCESS" \/ new.recon = "MISMATCHED"
         /\ v.status = "FAILED" => new.status # "PENDING"
         /\ res \in {"PENDING", "NO_CHANGE"} => new = old
         /\ res \in {"PENDING", "NO_CHANGE"} /\ old.status = "PENDING" => v.status = "PENDING"
BY DEF Resolve, RowAfter, AnswerStatus, Row, perform_transition, TRANSACTION_TRANSITIONS,
       TransactionStatus

-----------------------------------------------------------------------------
(* What a step that commits the answer v does.                             *)
Commits(v, t, new, saved) ==
  /\ t = TxOf[v.asked] /\ attempt[v.asked] # "ABSENT" /\ AnswerOK(v)
  /\ Paid(v.asked, v) => v.asked \in settled
  /\ new = RowAfter(txn[t], txn[t], Resolve(t, txn[t], v))
  /\ txn' = [txn EXCEPT ![t] = saved]
  /\ attempt' = AttemptsAfter(t, txn[t], v, Resolve(t, txn[t], v))
  /\ settled' = settled

LEMMA HandlerCommits ==
  ASSUME LedgerAssumption, DecisionsAreSound, NewsInOrder, NEW h \in Handlers,
         OfHandler(HandlerCommit(h))
  PROVE  \E v \in Verification, t \in Transactions : \E new :
           /\ v = hanswer[h] /\ v.asked = EventRef[job[h]]
           /\ Commits(v, t, new, new)
<1>1. hpc[h] = "locked" /\ settled' = settled
  BY DEF OfHandler, HandlerCommit, gatewayVars
<1>2. PICK v \in Verification : v = hanswer[h] /\ v.asked = JobRef(h)
  BY <1>1, LockedHandler DEF DecisionsAreSound, HandlerOK
<1>3. PICK t \in Transactions : t = JobTx(h) /\ t = TxOf[v.asked] /\ hcopy[h] = txn[t]
  BY <1>1, <1>2, LockedHandler DEF JobTx
<1>4. /\ AnswerOK(v) /\ (Paid(v.asked, v) => v.asked \in settled)
      /\ attempt[v.asked] # "ABSENT"
  BY <1>1, <1>2 DEF DecisionsAreSound, HandlerOK, NewsInOrder, HandlerInOrder
<1>5. PICK new : new = RowAfter(txn[t], txn[t], Resolve(t, txn[t], v))
  OBVIOUS
<1>6. txn' = [txn EXCEPT ![t] = new] /\ attempt' = AttemptsAfter(t, txn[t], v, Resolve(t, txn[t], v))
  BY <1>2, <1>3, <1>5 DEF OfHandler, HandlerCommit
<1>7. Commits(v, t, new, new)
  BY <1>1, <1>3, <1>4, <1>5, <1>6 DEF Commits
<1>8. QED
  BY <1>2, <1>7 DEF JobRef

LEMMA SweeperCommits ==
  ASSUME LedgerAssumption, DecisionsAreSound, NewsInOrder, NEW s \in Sweepers,
         OfSweeper(SweepCommit(s))
  PROVE  \E v \in Verification, t \in Transactions : \E new, saved :
           /\ v = sanswer[s] /\ v.asked = target[s] /\ t = item[s]
           /\ Commits(v, t, new, saved)
           /\ \/ saved = new
              \/ /\ new = txn[t] /\ new.status = "PENDING" /\ PastThreshold(s, t)
                 /\ v.status = "PENDING"
                 /\ saved = [new EXCEPT !.status = "ABANDONED"]
<1>1. /\ spc[s] = "locked" /\ settled' = settled /\ SweeperOK(s)
      /\ txn \in [Transactions -> Row]
  BY DEF OfSweeper, SweepCommit, gatewayVars, DecisionsAreSound, TypeOK, LedgerTypeOK
<1>2. PICK v \in Verification : v = sanswer[s] /\ v.asked = target[s]
  BY <1>1, LockedSweeper DEF SweeperOK
<1>3. PICK t \in Transactions : t = item[s] /\ t = TxOf[v.asked] /\ scopy[s] = txn[t]
  BY <1>1, <1>2, LockedSweeper
<1>4. /\ AnswerOK(v) /\ (Paid(v.asked, v) => v.asked \in settled)
      /\ attempt[v.asked] # "ABSENT"
  BY <1>1, <1>2 DEF SweeperOK, NewsInOrder, SweeperInOrder
<1>5. PICK res, new : res = Resolve(t, txn[t], v) /\ new = RowAfter(txn[t], txn[t], res)
  OBVIOUS
<1>6. PICK ended : ended = [new EXCEPT !.status = perform_transition(@, "ABANDONED",
                                                    TRANSACTION_TRANSITIONS)]
  OBVIOUS
<1>7. PICK saved :
        /\ txn' = [txn EXCEPT ![t] = saved]
        /\ \/ saved = new
           \/ /\ saved = ended /\ res \in {"PENDING", "NO_CHANGE"}
              /\ new.status = "PENDING" /\ PastThreshold(s, t)
  BY <1>2, <1>3, <1>5, <1>6 DEF OfSweeper, SweepCommit
<1>8. attempt' = AttemptsAfter(t, txn[t], v, res)
  BY <1>2, <1>3, <1>5 DEF OfSweeper, SweepCommit
<1>9. Commits(v, t, new, saved)
  BY <1>1, <1>3, <1>4, <1>5, <1>7, <1>8 DEF Commits
<1>10. \/ saved = new
       \/ /\ new = txn[t] /\ new.status = "PENDING" /\ PastThreshold(s, t)
          /\ v.status = "PENDING" /\ saved = [new EXCEPT !.status = "ABANDONED"]
  <2>1. CASE saved = ended /\ res \in {"PENDING", "NO_CHANGE"} /\ new.status = "PENDING"
             /\ PastThreshold(s, t)
    <3>1. PICK old \in Row : old = txn[t]
      BY <1>1
    <3>2. v.status \in AnswerStatus
      BY DEF Verification, PaymentStatus, AnswerStatus
    <3>3. new = old /\ v.status = "PENDING"
      BY <1>5, <2>1, <3>1, <3>2, ResolvedOutcome
    <3>4. ended = [new EXCEPT !.status = "ABANDONED"]
      BY <1>6, <2>1 DEF perform_transition, TRANSACTION_TRANSITIONS, TransactionStatus
    <3>5. QED
      BY <2>1, <3>1, <3>3, <3>4
  <2>2. QED
    BY <1>7, <2>1
<1>11. QED
  BY <1>2, <1>3, <1>9, <1>10

-----------------------------------------------------------------------------
(* Attempts.                                                               *)

(* An attempt is made SUCCESS for an answer about a payment in full.       *)
CreditsAttempt(r) ==
  /\ txn'[TxOf[r]].status = "SUCCESS"
  /\ \E q \in settled : /\ TxOf[q] = TxOf[r] /\ attempt[q] # "ABSENT"
                       /\ r \in MatchingAttempt(TxOf[r], Reported[q])

OnlyCredits ==
  \A r \in References : attempt'[r] = "SUCCESS" => attempt[r] = "SUCCESS" \/ CreditsAttempt(r)

LEMMA CommitOnlyCredits ==
  ASSUME LedgerAssumption, TypeOK, NEW v \in Verification, NEW t \in Transactions,
         NEW new, NEW saved, Commits(v, t, new, saved),
         saved = new \/ new.status = "PENDING"
  PROVE  OnlyCredits
<1>1. /\ txn \in [Transactions -> Row] /\ attempt \in [References -> AttemptStatus \cup {"ABSENT"}]
      /\ v.status \in AnswerStatus /\ v.asked \in References
  BY DEF TypeOK, LedgerTypeOK, Verification, PaymentStatus, AnswerStatus
<1>2. ASSUME NEW r \in References, attempt'[r] = "SUCCESS", attempt[r] # "SUCCESS"
      PROVE  CreditsAttempt(r)
  <2>1. PICK old \in Row : old = txn[t]
    BY <1>1
  <2>2. PICK res : res = Resolve(t, old, v)
    OBVIOUS
  <2>3. attempt[r] \in AttemptStatus \cup {"ABSENT"} /\ AttemptsAfter(t, old, v, res)[r] = "SUCCESS"
    BY <1>1, <1>2, <2>1, <2>2 DEF Commits
  <2>4. /\ r \in MatchingAttempt(t, v.ref) /\ v.status = "SUCCESS" /\ ~Mismatch(t, v)
        /\ RowAfter(old, old, res).status = "SUCCESS"
    BY <1>1, <1>2, <2>2, <2>3, NewlyPaidAttempt
  <2>5. TxOf[r] = t
    BY <2>4 DEF MatchingAttempt, AttemptsOf
  <2>6. saved.status = "SUCCESS" /\ txn' = [txn EXCEPT ![t] = saved]
    BY <2>1, <2>2, <2>4 DEF Commits
  <2>7. txn'[t].status = "SUCCESS"
    BY <1>1, <2>6
  <2>8. v.asked \in settled /\ TxOf[v.asked] = t /\ attempt[v.asked] # "ABSENT"
    BY <2>4 DEF Commits, Paid
  <2>9. v.ref = Reported[v.asked]
    BY DEF Commits, AnswerOK
  <2>10. QED
    BY <2>4, <2>5, <2>7, <2>8, <2>9 DEF CreditsAttempt
<1>3. QED
  BY <1>2 DEF OnlyCredits

LEMMA NextOnlyCredits ==
  ASSUME LedgerAssumption, KielSyncAssumption, DecisionsAreSound, NewsInOrder, [Next]_vars
  PROVE  OnlyCredits
<1>1. TypeOK /\ attempt \in [References -> AttemptStatus \cup {"ABSENT"}]
  BY DEF DecisionsAreSound, TypeOK, LedgerTypeOK
<1>2. ASSUME NEW h \in Handlers, OfHandler(HandlerStep(h)) PROVE OnlyCredits
  <2>1. CASE HandlerCommit(h)
    <3>0. PICK v \in Verification, t \in Transactions : \E new : Commits(v, t, new, new)
      BY <1>2, <2>1, HandlerCommits DEF OfHandler
    <3>1. PICK new : Commits(v, t, new, new)
      BY <3>0
    <3>2. QED
      BY <1>1, <3>1, CommitOnlyCredits
  <2>2. CASE ~HandlerCommit(h)
    BY <1>2, <2>2 DEF OfHandler, HandlerStep, Receive, AcknowledgeDuplicate, HandlerVerify,
                      LeaveForSweeper, HandlerLock, ledgerVars, OnlyCredits
  <2>3. QED
    BY <2>1, <2>2
<1>3. ASSUME NEW s \in Sweepers, OfSweeper(SweeperStep(s)) PROVE OnlyCredits
  <2>1. CASE SweepCommit(s)
    <3>0. PICK v \in Verification, t \in Transactions : \E new, saved :
            Commits(v, t, new, saved) /\ (saved = new \/ new.status = "PENDING")
      BY <1>3, <2>1, SweeperCommits DEF OfSweeper
    <3>1. PICK new, saved :
            Commits(v, t, new, saved) /\ (saved = new \/ new.status = "PENDING")
      BY <3>0
    <3>2. QED
      BY <1>1, <3>1, CommitOnlyCredits
  <2>2. CASE ~SweepCommit(s)
    BY <1>3, <2>2 DEF OfSweeper, SweeperStep, StartRun, NextItem, MaybeAbandon, SweepVerify,
                      SweepLock, SkipLocked, ItemFails, EndRun, RunDone, ledgerVars, OnlyCredits
  <2>3. QED
    BY <2>1, <2>2
<1>4. ASSUME HostStep PROVE OnlyCredits
  <2>1. ASSUME NEW r \in References, CreateAttempt(r) PROVE OnlyCredits
    BY <1>1, <2>1 DEF CreateAttempt, OnlyCredits
  <2>2. ASSUME NEW r \in References, NEW to \in HostTargets, AdvanceByHost(r, to)
        PROVE  OnlyCredits
    <3>1. to # "SUCCESS"
      BY DEF KielSyncAssumption
    <3>2. attempt'[r] = "SUCCESS" => attempt[r] = "SUCCESS"
      BY <1>1, <2>2, <3>1 DEF AdvanceByHost, perform_transition
    <3>3. \A q \in References : q # r => attempt'[q] = attempt[q]
      BY <1>1, <2>2 DEF AdvanceByHost
    <3>4. QED
      BY <3>2, <3>3 DEF OnlyCredits
  <2>3. CASE attempt' = attempt
    BY <2>3 DEF OnlyCredits
  <2>4. QED
    BY <1>4, <2>1, <2>2, <2>3 DEF HostStep, BeginPayment, Review
<1>5. CASE attempt' = attempt
  BY <1>5 DEF OnlyCredits
<1>6. QED
  BY <1>2, <1>3, <1>4, <1>5 DEF Next, OfHandler, OfSweeper, Tick, Crash, HandlerCrash,
     SweeperCrash, RunDone, ledgerVars, vars

(* The two tables agree: an attempt is SUCCESS only under a transaction    *)
(* that is.                                                                *)
THEOREM TablesAgree == Spec => []AttemptsAgree
<1> USE LedgerAssumption, KielSyncAssumption
<1>1. Init => AttemptsAgree
  BY DEF Init, LedgerInit, AttemptsAgree
<1>2. ASSUME DecisionsAreSound, NewsInOrder, AttemptsAgree, [Next]_vars
      PROVE  AttemptsAgree'
  <2>1. OnlyCredits
    BY <1>2, NextOnlyCredits
  <2>2. \A t \in Transactions : RowStep(txn[t], txn'[t])
    BY <1>2, NextKeepsPromise, PromiseRows DEF DecisionsAreSound
  <2>3. \A r \in References : TxOf[r] \in Transactions
    BY DEF LedgerAssumption
  <2>4. QED
    BY <1>2, <2>1, <2>2, <2>3 DEF OnlyCredits, CreditsAttempt, AttemptsAgree, RowStep
<1>3. QED
  BY <1>1, <1>2, NewsStaysInOrder, PTL DEF Spec

(* If the gateway answers under the reference it was asked for, an attempt *)
(* is SUCCESS only if it is itself the one that was paid.                  *)
THEOREM ThePaidAttempt ==
  ASSUME \A r \in References : Reported[r] = r
  PROVE  Spec => []PaidAttemptIsCredited
<1> USE LedgerAssumption, KielSyncAssumption
<1>1. Init => PaidAttemptIsCredited
  BY DEF Init, LedgerInit, PaidAttemptIsCredited
<1>2. ASSUME DecisionsAreSound, DecisionsAreSound', NewsInOrder, PaidAttemptIsCredited, [Next]_vars
      PROVE  PaidAttemptIsCredited'
  <2>1. OnlyCredits
    BY <1>2, NextOnlyCredits
  <2>2. settled \subseteq settled'
    BY <1>2 DEF Next, OfHandler, OfSweeper, gatewayVars, vars, Tick, Crash, GatewayDecides
  <2>3. ASSUME NEW r \in References, CreditsAttempt(r) PROVE r \in settled
    <3>1. PICK q \in settled : /\ TxOf[q] = TxOf[r] /\ attempt[q] # "ABSENT"
                               /\ r \in MatchingAttempt(TxOf[r], Reported[q])
      BY <2>3 DEF CreditsAttempt
    <3>2. q \in References /\ Reported[q] = q
      BY <1>2 DEF DecisionsAreSound, TypeOK, GatewayTypeOK
    <3>3. r = q
      BY <3>1, <3>2 DEF MatchingAttempt, AttemptsOf
    <3>4. QED
      BY <3>3
  <2>4. QED
    BY <1>2, <2>1, <2>2, <2>3 DEF OnlyCredits, PaidAttemptIsCredited
<1>3. QED
  BY <1>1, <1>2, NewsStaysInOrder, PTL DEF Spec

-----------------------------------------------------------------------------
(* Abandonment.                                                            *)

AbandonsOnlyQuiet ==
  \A t \in Transactions :
    txn[t].status # "ABANDONED" /\ txn'[t].status = "ABANDONED" =>
      /\ txn[t].status = "PENDING"
      /\ age[t] >= AbandonAfter
      /\ \E s \in Sweepers :
           /\ item[s] = t
           /\ \/ spc[s] = "open"
              \/ /\ spc[s] = "locked"
                 /\ TxOf[sanswer[s].asked] = t
                 /\ sanswer[s].status = "PENDING"

LEMMA PastMeansQuiet ==
  ASSUME SweeperAssumption, TypeOK, NEW s \in Sweepers, NEW t \in Transactions,
         PastThreshold(s, t)
  PROVE  age[t] >= AbandonAfter
<1>1. age[t] \in Nat /\ elapsed[s] \in Nat /\ AbandonAfter \in Nat
  BY DEF TypeOK, LedgerTypeOK, SweeperTypeOK, SweeperAssumption
<1>2. QED
  BY <1>1 DEF PastThreshold

(* What a commit saves is not abandoned, unless the run abandons it.       *)
LEMMA CommitAbandonsNot ==
  ASSUME TypeOK, NEW v \in Verification, NEW t \in Transactions, NEW new, NEW saved,
         Commits(v, t, new, saved)
  PROVE  /\ \A u \in Transactions : u # t => txn'[u] = txn[u]
         /\ txn'[t] = saved
         /\ new.status = "ABANDONED" => txn[t].status = "ABANDONED"
<1>1. txn \in [Transactions -> Row] /\ v.status \in AnswerStatus
  BY DEF TypeOK, LedgerTypeOK, Verification, PaymentStatus, AnswerStatus
<1>2. PICK old \in Row : old = txn[t]
  BY <1>1
<1>3. new = RowAfter(old, old, Resolve(t, old, v)) /\ txn' = [txn EXCEPT ![t] = saved]
  BY <1>2 DEF Commits
<1>4. new.status = "ABANDONED" => old.status = "ABANDONED"
  BY <1>1, <1>3, ResolvedOutcome
<1>5. QED
  BY <1>1, <1>2, <1>3, <1>4

LEMMA NextAbandonsOnlyQuiet ==
  ASSUME LedgerAssumption, SweeperAssumption, DecisionsAreSound, NewsInOrder, Next
  PROVE  AbandonsOnlyQuiet
<1>1. TypeOK /\ txn \in [Transactions -> Row]
  BY DEF DecisionsAreSound, TypeOK, LedgerTypeOK
<1>2. CASE txn' = txn
  BY <1>2 DEF AbandonsOnlyQuiet
<1>3. ASSUME NEW h \in Handlers, OfHandler(HandlerStep(h)) PROVE AbandonsOnlyQuiet
  <2>1. CASE HandlerCommit(h)
    <3>0. PICK v \in Verification, t \in Transactions : \E new : Commits(v, t, new, new)
      BY <1>3, <2>1, HandlerCommits DEF OfHandler
    <3>1. PICK new : Commits(v, t, new, new)
      BY <3>0
    <3>2. QED
      BY <1>1, <3>1, CommitAbandonsNot DEF AbandonsOnlyQuiet
  <2>2. CASE ~HandlerCommit(h)
    BY <1>2, <1>3, <2>2 DEF OfHandler, HandlerStep, Receive, AcknowledgeDuplicate, HandlerVerify,
                            LeaveForSweeper, HandlerLock, ledgerVars
  <2>3. QED
    BY <2>1, <2>2
<1>4. ASSUME NEW s \in Sweepers, OfSweeper(SweeperStep(s)) PROVE AbandonsOnlyQuiet
  <2>1. CASE SweepCommit(s)
    <3>0. PICK v \in Verification, t \in Transactions : \E new, saved :
            /\ v = sanswer[s] /\ t = item[s] /\ Commits(v, t, new, saved)
            /\ saved = new \/ (new = txn[t] /\ new.status = "PENDING" /\ PastThreshold(s, t)
                                 /\ v.status = "PENDING")
      BY <1>4, <2>1, SweeperCommits DEF OfSweeper
    <3>1. PICK new, saved :
            /\ v = sanswer[s] /\ t = item[s] /\ Commits(v, t, new, saved)
            /\ saved = new \/ (new = txn[t] /\ new.status = "PENDING" /\ PastThreshold(s, t)
                                 /\ v.status = "PENDING")
      BY <3>0
    <3>2. /\ \A u \in Transactions : u # t => txn'[u] = txn[u]
          /\ txn'[t] = saved
          /\ new.status = "ABANDONED" => txn[t].status = "ABANDONED"
      BY <1>1, <3>1, CommitAbandonsNot
    <3>3. PastThreshold(s, t) => age[t] >= AbandonAfter
      BY <1>1, PastMeansQuiet
    <3>4. spc[s] = "locked" /\ TxOf[v.asked] = t
      BY <2>1, <3>1 DEF SweepCommit, Commits
    <3>5. QED
      BY <3>1, <3>2, <3>3, <3>4 DEF AbandonsOnlyQuiet
  <2>2. CASE MaybeAbandon(s)
    <3>1. item[s] \in Transactions /\ spc[s] = "open"
      BY <2>2 DEF MaybeAbandon, DecisionsAreSound, SweeperOK
    <3>2. \/ txn' = txn
          \/ /\ txn[item[s]].status = "PENDING" /\ PastThreshold(s, item[s])
             /\ \A u \in Transactions : u # item[s] => txn'[u] = txn[u]
      BY <1>1, <2>2 DEF MaybeAbandon
    <3>3. PastThreshold(s, item[s]) => age[item[s]] >= AbandonAfter
      BY <1>1, <3>1, PastMeansQuiet
    <3>4. QED
      BY <3>1, <3>2, <3>3 DEF AbandonsOnlyQuiet
  <2>3. CASE ~SweepCommit(s) /\ ~MaybeAbandon(s)
    BY <1>2, <1>4, <2>3 DEF OfSweeper, SweeperStep, StartRun, NextItem, SweepVerify, SweepLock,
                            SkipLocked, ItemFails, EndRun, RunDone, ledgerVars
  <2>4. QED
    BY <2>1, <2>2, <2>3
<1>5. ASSUME HostStep PROVE AbandonsOnlyQuiet
  <2>1. ASSUME NEW t \in Transactions, BeginPayment(t) PROVE AbandonsOnlyQuiet
    <3>1. txn[t].status = "CREATED"
      BY <2>1 DEF BeginPayment
    <3>2. perform_transition(txn[t].status, "PENDING", TRANSACTION_TRANSITIONS) = "PENDING"
      BY <3>1 DEF perform_transition, TRANSACTION_TRANSITIONS, TransactionStatus
    <3>3. txn' = [txn EXCEPT ![t] = [txn[t] EXCEPT !.status = "PENDING"]]
      BY <2>1, <3>2 DEF BeginPayment
    <3>4. \A u \in Transactions : txn'[u] = txn[u] \/ txn'[u].status = "PENDING"
      BY <1>1, <3>3 DEF Row
    <3>5. QED
      BY <3>4 DEF AbandonsOnlyQuiet
  <2>2. ASSUME NEW t \in Transactions, Review(t) PROVE AbandonsOnlyQuiet
    <3>1. \A u \in Transactions : txn'[u].status = txn[u].status
      BY <1>1, <2>2 DEF Review, Row
    <3>2. QED
      BY <3>1 DEF AbandonsOnlyQuiet
  <2>3. QED
    BY <1>2, <1>5, <2>1, <2>2 DEF HostStep, CreateAttempt, AdvanceByHost
<1>6. QED
  BY <1>2, <1>3, <1>4, <1>5 DEF Next, OfHandler, OfSweeper, Tick, Crash, HandlerCrash,
     SweeperCrash, RunDone, ledgerVars

(* Only a run that has just been told its attempt is pending, or that has  *)
(* found none, abandons a payment, and only one that was left alone for    *)
(* the whole threshold.                                                    *)
THEOREM AbandonedWhenQuiet == Spec => AbandonedOnlyWhenQuiet
<1> USE LedgerAssumption, SweeperAssumption
<1>1. DecisionsAreSound /\ NewsInOrder /\ [Next]_vars => [AbandonsOnlyQuiet]_vars
  BY NextAbandonsOnlyQuiet
<1>2. Spec => [][AbandonsOnlyQuiet]_vars
  BY <1>1, NewsStaysInOrder, PTL DEF Spec
<1>3. QED
  BY <1>2 DEF AbandonedOnlyWhenQuiet, AbandonsOnlyQuiet
-----------------------------------------------------------------------------
(* What an event is closed by.                                             *)

ClosesByNews ==
  \A e \in EventIds :
    event[e].state = "UNPROCESSED" /\ event'[e].state = "PROCESSED" =>
      \E v \in Committed :
        LET row == txn'[TxOf[v.asked]]
        IN  /\ v.asked = EventRef[e]
            /\ v.status = "SUCCESS" => row.status = "SUCCESS" \/ row.recon = "MISMATCHED"
            /\ v.status = "FAILED" => row.status # "PENDING"

(* What the row of a committed answer says of that answer.                 *)
LEMMA CommitReachesLedger ==
  ASSUME TypeOK, NEW v \in Verification, NEW t \in Transactions, NEW new, NEW saved,
         Commits(v, t, new, saved), saved = new \/ v.status = "PENDING"
  PROVE  LET row == txn'[TxOf[v.asked]]
         IN  /\ v.status = "SUCCESS" => row.status = "SUCCESS" \/ row.recon = "MISMATCHED"
             /\ v.status = "FAILED" => row.status # "PENDING"
<1>1. txn \in [Transactions -> Row] /\ v.status \in AnswerStatus
  BY DEF TypeOK, LedgerTypeOK, Verification, PaymentStatus, AnswerStatus
<1>2. PICK old \in Row : old = txn[t]
  BY <1>1
<1>3. new = RowAfter(old, old, Resolve(t, old, v)) /\ t = TxOf[v.asked]
  BY <1>2 DEF Commits
<1>4. /\ v.status = "SUCCESS" => new.status = "SUCCESS" \/ new.recon = "MISMATCHED"
      /\ v.status = "FAILED" => new.status # "PENDING"
  BY <1>1, <1>3, ResolvedOutcome
<1>5. txn'[TxOf[v.asked]] = saved
  BY <1>3, CommitAbandonsNot
<1>6. QED
  BY <1>4, <1>5

LEMMA NextClosesByNews ==
  ASSUME LedgerAssumption, DecisionsAreSound, NewsInOrder, Next
  PROVE  ClosesByNews
<1>1. TypeOK /\ event \in [EventIds -> Event]
  BY DEF DecisionsAreSound, TypeOK, LedgerTypeOK
<1>2. CASE event' = event
  BY <1>2 DEF ClosesByNews
<1>3. ASSUME NEW h \in Handlers, OfHandler(HandlerStep(h)) PROVE ClosesByNews
  <2>1. CASE HandlerCommit(h)
    <3>0. PICK v \in Verification, t \in Transactions : \E new :
            v = hanswer[h] /\ v.asked = EventRef[job[h]] /\ Commits(v, t, new, new)
      BY <1>3, <2>1, HandlerCommits DEF OfHandler
    <3>1. PICK new :
            v = hanswer[h] /\ v.asked = EventRef[job[h]] /\ Commits(v, t, new, new)
      BY <3>0
    <3>2. v \in Committed
      BY <1>1, <2>1, <3>1 DEF Committed, HandlerCommit, HandlerDone, TypeOK, HandlerTypeOK
    <3>3. \A e \in EventIds : e # job[h] => event'[e] = event[e]
      BY <1>1, <2>1 DEF HandlerCommit
    <3>4. QED
      BY <1>1, <3>1, <3>2, <3>3, CommitReachesLedger DEF ClosesByNews
  <2>2. ASSUME NEW e \in EventIds, Receive(h, e) PROVE ClosesByNews
    BY <1>1, <2>2 DEF Receive, ClosesByNews
  <2>3. CASE ~HandlerCommit(h)
    BY <1>2, <1>3, <2>2, <2>3 DEF OfHandler, HandlerStep, AcknowledgeDuplicate, HandlerVerify,
                                  LeaveForSweeper, HandlerLock, ledgerVars
  <2>4. QED
    BY <2>1, <2>3
<1>4. ASSUME NEW s \in Sweepers, OfSweeper(SweeperStep(s)) PROVE ClosesByNews
  <2>1. CASE SweepCommit(s)
    <3>0. PICK v \in Verification, t \in Transactions : \E new, saved :
            /\ v = sanswer[s] /\ v.asked = target[s] /\ Commits(v, t, new, saved)
            /\ saved = new \/ v.status = "PENDING"
      BY <1>4, <2>1, SweeperCommits DEF OfSweeper
    <3>1. PICK new, saved :
            /\ v = sanswer[s] /\ v.asked = target[s] /\ Commits(v, t, new, saved)
            /\ saved = new \/ v.status = "PENDING"
      BY <3>0
    <3>2. v \in Committed
      BY <1>1, <2>1, <3>1 DEF Committed, SweepCommit, TypeOK, SweeperTypeOK
    <3>3. PICK res : event' = EventsAfter(target[s], res)
      BY <2>1 DEF SweepCommit
    <3>4. \A e \in EventIds : event'[e] = event[e] \/ EventRef[e] = target[s]
      BY <1>1, <3>3 DEF EventsAfter
    <3>5. QED
      BY <1>1, <3>1, <3>2, <3>4, CommitReachesLedger DEF ClosesByNews
  <2>2. CASE ~SweepCommit(s)
    BY <1>2, <1>4, <2>2 DEF OfSweeper, SweeperStep, StartRun, NextItem, MaybeAbandon, SweepVerify,
                            SweepLock, SkipLocked, ItemFails, EndRun, RunDone, ledgerVars
  <2>3. QED
    BY <2>1, <2>2
<1>5. QED
  BY <1>2, <1>3, <1>4 DEF Next, OfHandler, OfSweeper, HostStep, CreateAttempt, AdvanceByHost,
     BeginPayment, Review, Tick, Crash, HandlerCrash, SweeperCrash, RunDone, ledgerVars

(* What a request or a run that closes e leaves of its payment.            *)
UsesNoNewsUp ==
  \A e \in {x \in EventIds : EventRef[x] # NoRef} :
    /\ event[e].state = "UNPROCESSED" /\ event'[e].state = "PROCESSED"
    /\ event[e].at > 0
    => txn'[TxOf[EventRef[e]]].status # "PENDING" \/ Flagged(TxOf[EventRef[e]])'

(* A closed event's answer tells what the gateway decided: a request's is  *)
(* no older than its event, a run's is not PENDING.                        *)
LEMMA NextUsesNoNewsUp ==
  ASSUME LedgerAssumption, DecisionsAreSound, NewsInOrder, Next
  PROVE  UsesNoNewsUp
<1>1. TypeOK /\ event \in [EventIds -> Event]
  BY DEF DecisionsAreSound, TypeOK, LedgerTypeOK
<1>2. CASE event' = event
  BY <1>2 DEF UsesNoNewsUp
<1>3. ASSUME NEW h \in Handlers, OfHandler(HandlerStep(h)) PROVE UsesNoNewsUp
  <2>1. CASE HandlerCommit(h)
    <3>1. PICK v \in Verification, t \in Transactions : \E new :
            v = hanswer[h] /\ v.asked = EventRef[job[h]] /\ Commits(v, t, new, new)
      BY <1>3, <2>1, HandlerCommits DEF OfHandler
    <3>2. PICK new : Commits(v, t, new, new)
      BY <3>1
    <3>3. /\ v.version >= event[job[h]].at
          /\ v.status # "PENDING" <=> v.version > 0
      BY <2>1, <3>1 DEF HandlerCommit, NewsInOrder, HandlerInOrder, AnswerOK
    <3>4. \A e \in EventIds : e # job[h] => event'[e] = event[e]
      BY <1>1, <2>1 DEF HandlerCommit
    <3>5. ASSUME event[job[h]].at > 0, job[h] \in EventIds PROVE v.status \in {"SUCCESS", "FAILED"}
      <4>1. v.version \in Nat /\ event[job[h]].at \in Nat /\ v.status \in PaymentStatus
        BY <1>1, <3>5 DEF Verification, Event
      <4>2. v.version > 0
        BY <3>3, <3>5, <4>1
      <4>3. QED
        BY <3>3, <4>1, <4>2 DEF PaymentStatus
    <3>6. LET row == txn'[TxOf[v.asked]]
          IN  /\ v.status = "SUCCESS" => row.status = "SUCCESS" \/ row.recon = "MISMATCHED"
              /\ v.status = "FAILED" => row.status # "PENDING"
      BY <1>1, <3>2, CommitReachesLedger
    <3>7. QED
      BY <3>1, <3>4, <3>5, <3>6 DEF UsesNoNewsUp, Flagged
  <2>2. ASSUME NEW e \in EventIds, Receive(h, e) PROVE UsesNoNewsUp
    BY <1>1, <2>2 DEF Receive, UsesNoNewsUp
  <2>3. CASE ~HandlerCommit(h)
    BY <1>2, <1>3, <2>2, <2>3 DEF OfHandler, HandlerStep, AcknowledgeDuplicate, HandlerVerify,
                                  LeaveForSweeper, HandlerLock, ledgerVars
  <2>4. QED
    BY <2>1, <2>3
<1>4. ASSUME NEW s \in Sweepers, OfSweeper(SweeperStep(s)) PROVE UsesNoNewsUp
  <2>1. CASE SweepCommit(s)
    <3>1. PICK v \in Verification, t \in Transactions : \E new, saved :
            /\ v = sanswer[s] /\ v.asked = target[s] /\ Commits(v, t, new, saved)
            /\ saved = new \/ v.status = "PENDING"
      BY <1>4, <2>1, SweeperCommits DEF OfSweeper
    <3>2. PICK new, saved :
            Commits(v, t, new, saved) /\ (saved = new \/ v.status = "PENDING")
      BY <3>1
    <3>3. LET row == txn'[TxOf[v.asked]]
          IN  /\ v.status = "SUCCESS" => row.status = "SUCCESS" \/ row.recon = "MISMATCHED"
              /\ v.status = "FAILED" => row.status # "PENDING"
      BY <1>1, <3>2, CommitReachesLedger
    <3>4. event' = EventsAfter(target[s], Resolve(item[s], scopy[s], sanswer[s]))
      BY <2>1 DEF SweepCommit
    <3>5. CASE v.status = "PENDING"
      <4>1. Resolve(item[s], scopy[s], sanswer[s]) = "PENDING"
        BY <3>1, <3>5 DEF Resolve
      <4>2. QED
        BY <1>1, <3>4, <4>1 DEF EventsAfter, UsesNoNewsUp
    <3>6. CASE v.status \in {"SUCCESS", "FAILED"}
      <4>1. \A e \in EventIds : event'[e] = event[e] \/ EventRef[e] = v.asked
        BY <1>1, <3>1, <3>4 DEF EventsAfter
      <4>2. QED
        BY <3>3, <3>6, <4>1 DEF UsesNoNewsUp, Flagged
    <3>7. QED
      BY <3>5, <3>6 DEF Verification, PaymentStatus
  <2>2. CASE ~SweepCommit(s)
    BY <1>2, <1>4, <2>2 DEF OfSweeper, SweeperStep, StartRun, NextItem, MaybeAbandon, SweepVerify,
                            SweepLock, SkipLocked, ItemFails, EndRun, RunDone, ledgerVars
  <2>3. QED
    BY <2>1, <2>2
<1>5. QED
  BY <1>2, <1>3, <1>4 DEF Next, OfHandler, OfSweeper, HostStep, CreateAttempt, AdvanceByHost,
     BeginPayment, Review, Tick, Crash, HandlerCrash, SweeperCrash, RunDone, ledgerVars

(* An event that came with a decision of the gateway is not used up while  *)
(* its payment is open and unflagged.                                      *)
THEOREM NewsIsKept == Spec => NewsIsNotUsedUp
<1> USE LedgerAssumption
<1>1. DecisionsAreSound /\ NewsInOrder /\ [Next]_vars => [UsesNoNewsUp]_vars
  BY NextUsesNoNewsUp
<1>2. Spec => [][UsesNoNewsUp]_vars
  BY <1>1, NewsStaysInOrder, PTL DEF Spec
<1>3. QED
  BY <1>2, PTL DEF NewsIsNotUsedUp, UsesNoNewsUp

(* When an event is closed, the answer it was closed by is in the ledger.  *)
THEOREM NewsIsNotLost == Spec => NewsReachesLedger
<1> USE LedgerAssumption
<1>1. DecisionsAreSound /\ NewsInOrder /\ [Next]_vars => [ClosesByNews]_vars
  BY NextClosesByNews
<1>2. Spec => [][ClosesByNews]_vars
  BY <1>1, NewsStaysInOrder, PTL DEF Spec
<1>3. QED
  BY <1>2 DEF NewsReachesLedger, ClosesByNews
-----------------------------------------------------------------------------
(* Locks.                                                                  *)

(* A step keeps locks in use if the process p that takes it had a lock     *)
(* only while "locked", lets go of it when it is not, and takes what it    *)
(* works on.                                                               *)
LEMMA LocksKept ==
  ASSUME LocksAreInUse, NEW p,
         \A h \in Handlers \ {p} : hpc'[h] = hpc[h] /\ job'[h] = job[h],
         \A s \in Sweepers \ {p} : spc'[s] = spc[s] /\ item'[s] = item[s],
         \A t \in Transactions :
           \/ holder'[t] = NoOne
           \/ holder'[t] = holder[t] /\ holder[t] # p
           \/ /\ holder'[t] = p
              /\ \/ p \in Handlers /\ hpc'[p] = "locked" /\ TxOf[EventRef[job'[p]]] = t
                 \/ p \in Sweepers /\ spc'[p] = "locked" /\ item'[p] = t
  PROVE  LocksAreInUse'
<1> SUFFICES ASSUME NEW t \in Transactions, holder'[t] # NoOne
             PROVE  \/ \E h \in Handlers : holder'[t] = h /\ hpc'[h] = "locked" /\ JobTx(h)' = t
                    \/ \E s \in Sweepers : holder'[t] = s /\ spc'[s] = "locked" /\ item'[s] = t
  BY DEF LocksAreInUse
<1>1. \A h \in Handlers : JobTx(h)' = TxOf[EventRef[job'[h]]] /\ JobTx(h) = TxOf[EventRef[job[h]]]
  BY DEF JobTx, JobRef
<1>2. CASE holder'[t] = holder[t] /\ holder[t] # p
  <2>1. \/ \E h \in Handlers : holder[t] = h /\ hpc[h] = "locked" /\ JobTx(h) = t
        \/ \E s \in Sweepers : holder[t] = s /\ spc[s] = "locked" /\ item[s] = t
    BY <1>2 DEF LocksAreInUse
  <2>2. QED
    BY <1>1, <1>2, <2>1
<1>3. QED
  BY <1>1, <1>2

(* Who is not "locked" holds nothing.                                      *)
LEMMA OnlyLockedHold ==
  ASSUME KielSyncAssumption, LocksAreInUse, NEW t \in Transactions
  PROVE  /\ \A h \in Handlers : hpc[h] # "locked" => holder[t] # h
         /\ \A s \in Sweepers : spc[s] # "locked" => holder[t] # s
BY DEF LocksAreInUse, KielSyncAssumption

LEMMA LocksInit ==
  ASSUME Init PROVE LocksAreInUse
BY DEF Init, LedgerInit, LocksAreInUse

LEMMA HandlerStepKeepsLocks ==
  ASSUME KielSyncAssumption, DecisionsAreSound, LocksAreInUse, NEW h \in Handlers,
         HandlerStep(h) \/ HandlerCrash(h), UNCHANGED sweeperVars
  PROVE  LocksAreInUse'
<1>1. /\ TypeOK /\ h \notin Sweepers
      /\ holder \in [Transactions -> Handlers \cup Sweepers \cup {NoOne}]
  BY DEF DecisionsAreSound, KielSyncAssumption, TypeOK, LedgerTypeOK
<1>2. \A s \in Sweepers \ {h} : spc'[s] = spc[s] /\ item'[s] = item[s]
  BY DEF sweeperVars
<1>3. \A x \in Handlers \ {h} : hpc'[x] = hpc[x] /\ job'[x] = job[x]
  BY <1>1 DEF HandlerStep, Receive, AcknowledgeDuplicate, HandlerVerify, LeaveForSweeper,
              HandlerLock, HandlerCommit, HandlerDone, HandlerCrash, TypeOK, HandlerTypeOK
<1>4. CASE HandlerDone(h)
  <2>1. \A t \in Transactions : holder'[t] = NoOne \/ (holder'[t] = holder[t] /\ holder[t] # h)
    BY <1>4 DEF HandlerDone
  <2>2. QED
    BY <1>2, <1>3, <2>1, LocksKept
<1>5. CASE hpc[h] # "locked" /\ holder' = holder
  BY <1>2, <1>3, <1>5, OnlyLockedHold, LocksKept
<1>6. CASE HandlerLock(h)
  <2>1. hpc[h] # "locked" /\ hpc'[h] = "locked" /\ job' = job
    BY <1>1, <1>6 DEF HandlerLock, TypeOK, HandlerTypeOK
  <2>2. \A t \in Transactions : \/ holder'[t] = holder[t]
                                \/ holder'[t] = h /\ TxOf[EventRef[job'[h]]] = t
    BY <1>1, <1>6, <2>1 DEF HandlerLock, JobTx, JobRef
  <2>3. \A t \in Transactions : holder[t] # h
    BY <2>1, OnlyLockedHold
  <2>4. QED
    BY <1>2, <1>3, <2>1, <2>2, <2>3, LocksKept
<1>7. QED
  BY <1>4, <1>5, <1>6 DEF HandlerStep, Receive, AcknowledgeDuplicate, HandlerVerify,
     LeaveForSweeper, HandlerCommit, HandlerCrash, ledgerVars

LEMMA SweeperStepKeepsLocks ==
  ASSUME KielSyncAssumption, DecisionsAreSound, LocksAreInUse, NEW s \in Sweepers,
         SweeperStep(s) \/ SweeperCrash(s), UNCHANGED handlerVars
  PROVE  LocksAreInUse'
<1>1. /\ TypeOK /\ s \notin Handlers
      /\ holder \in [Transactions -> Handlers \cup Sweepers \cup {NoOne}]
  BY DEF DecisionsAreSound, KielSyncAssumption, TypeOK, LedgerTypeOK
<1>2. \A h \in Handlers \ {s} : hpc'[h] = hpc[h] /\ job'[h] = job[h]
  BY DEF handlerVars
<1>3. \A x \in Sweepers \ {s} : spc'[x] = spc[x] /\ item'[x] = item[x]
  BY <1>1 DEF SweeperStep, StartRun, NextItem, MaybeAbandon, SweepVerify, SweepLock, SkipLocked,
              SweepCommit, ItemFails, EndRun, RunDone, ItemDone, SweeperCrash, TypeOK, SweeperTypeOK
<1>4. CASE ItemDone(s)
  <2>1. \A t \in Transactions : holder'[t] = NoOne \/ (holder'[t] = holder[t] /\ holder[t] # s)
    BY <1>4 DEF ItemDone
  <2>2. QED
    BY <1>2, <1>3, <2>1, LocksKept
<1>5. CASE spc[s] # "locked" /\ holder' = holder
  BY <1>2, <1>3, <1>5, OnlyLockedHold, LocksKept
<1>6. CASE SweepLock(s)
  <2>1. spc[s] # "locked" /\ spc'[s] = "locked" /\ item' = item
    BY <1>1, <1>6 DEF SweepLock, TypeOK, SweeperTypeOK
  <2>2. \A t \in Transactions : holder'[t] = holder[t] \/ (holder'[t] = s /\ item'[s] = t)
    BY <1>1, <1>6, <2>1 DEF SweepLock
  <2>3. \A t \in Transactions : holder[t] # s
    BY <2>1, OnlyLockedHold
  <2>4. QED
    BY <1>2, <1>3, <2>1, <2>2, <2>3, LocksKept
<1>7. QED
  BY <1>4, <1>5, <1>6 DEF SweeperStep, StartRun, NextItem, MaybeAbandon, SweepVerify, SkipLocked,
     SweepCommit, ItemFails, EndRun, RunDone, SweeperCrash, ledgerVars

(* A row is locked only while the one that locked it works on it; who      *)
(* waits for a row holds none, so nobody waits in a circle.                *)
THEOREM LocksStayInUse == Spec => []LocksAreInUse
<1> USE KielSyncAssumption
<1>1. Init => LocksAreInUse
  BY LocksInit
<1>2. ASSUME DecisionsAreSound, LocksAreInUse, [Next]_vars PROVE LocksAreInUse'
  <2>1. CASE UNCHANGED <<hpc, job, spc, item, holder>>
    <3>1. \A t \in Transactions : holder'[t] = holder[t]
      BY <2>1
    <3>2. QED
      BY <1>2, <2>1 DEF LocksAreInUse, JobTx, JobRef
  <2>2. QED
    BY <1>2, <2>1, HandlerStepKeepsLocks, SweeperStepKeepsLocks
       DEF Next, HostStep, CreateAttempt, AdvanceByHost, BeginPayment, Review, Tick, Crash, vars,
           ledgerVars, handlerVars, sweeperVars
<1>3. QED
  BY <1>1, <1>2, Soundness, PTL DEF Spec
-----------------------------------------------------------------------------
(* The table of events.                                                    *)

EventStep == [Table!Next]_(Table!tableVars)

Stored == InState({"UNPROCESSED", "PROCESSED"})
Closed == InState({"PROCESSED"})

(* Which steps of the table there are, in the system's own terms.          *)
LEMMA TableSteps ==
  ASSUME acked' = acked \/ \E k \in Stored : acked' = acked \cup {k}
  PROVE  /\ event' = event => EventStep
         /\ \A e \in EventIds : acked' = acked /\ e \notin Stored /\ Stored' = Stored \cup {e}
                               /\ Closed' = Closed => EventStep
         /\ \A some \in SUBSET Stored :
              /\ Stored' = Stored /\ Closed' = Closed \cup some
              /\ acked' = acked \/ \E k \in some : acked' = acked \cup {k}
              => EventStep
<1>1. Stored \subseteq EventIds
  BY DEF Stored, InState
<1>2. ASSUME event' = event PROVE EventStep
  <2>1. Stored' = Stored /\ Closed' = Closed
    BY <1>2 DEF Stored, Closed, InState
  <2>2. CASE acked' = acked
    BY <2>1, <2>2 DEF EventStep, Table!tableVars, Stored, Closed
  <2>3. ASSUME NEW k \in Stored, acked' = acked \cup {k} PROVE EventStep
    <3>1. Table!Acknowledge(k)
      BY <2>1, <2>3 DEF Table!Acknowledge, Stored, Closed
    <3>2. QED
      BY <1>1, <3>1 DEF EventStep, Table!Next
  <2>4. QED
    BY <2>2, <2>3
<1>3. ASSUME NEW e \in EventIds, acked' = acked, e \notin Stored, Stored' = Stored \cup {e},
             Closed' = Closed
      PROVE  EventStep
  <2>1. Table!File(e)
    BY <1>3 DEF Table!File, Stored, Closed
  <2>2. QED
    BY <2>1 DEF EventStep, Table!Next
<1>4. ASSUME NEW some \in SUBSET Stored, Stored' = Stored, Closed' = Closed \cup some,
             acked' = acked \/ \E k \in some : acked' = acked \cup {k}
      PROVE  EventStep
  <2>1. CASE some = {}
    BY <1>4, <2>1 DEF EventStep, Table!tableVars, Stored, Closed
  <2>2. CASE some # {}
    <3>1. Table!Close(some)
      BY <1>4, <2>2 DEF Table!Close, Stored, Closed
    <3>2. QED
      BY <1>1, <3>1 DEF EventStep, Table!Next
  <2>3. QED
    BY <2>1, <2>2
<1>5. QED
  BY <1>2, <1>3, <1>4

(* Marking events as processed closes them and nothing else.               *)
LEMMA Marked ==
  ASSUME event \in [EventIds -> Event], NEW some \in SUBSET Stored,
         \A e \in EventIds :
           event'[e] = IF e \in some THEN [event[e] EXCEPT !.state = "PROCESSED"] ELSE event[e]
  PROVE  Stored' = Stored /\ Closed' = Closed \cup some
<1>1. ASSUME NEW e \in EventIds
      PROVE  event'[e].state = IF e \in some THEN "PROCESSED" ELSE event[e].state
  BY DEF Event
<1>2. some \subseteq EventIds
  BY DEF Stored, InState
<1>3. QED
  BY <1>1, <1>2 DEF Stored, Closed, InState

LEMMA HandlerStepKeepsEvents ==
  ASSUME DecisionsAreSound, NewsInOrder, NEW h \in Handlers, HandlerStep(h) \/ HandlerCrash(h)
  PROVE  EventStep
<1>1. event \in [EventIds -> Event]
  BY DEF DecisionsAreSound, TypeOK, LedgerTypeOK
<1>2. hpc[h] # "idle" => job[h] \in Stored
  BY <1>1 DEF DecisionsAreSound, HandlerOK, NewsInOrder, HandlerInOrder, Stored, InState, Event
<1>3. ASSUME NEW e \in EventIds, Receive(h, e) PROVE EventStep
  <2>1. CASE event[e].state = "ABSENT"
    <3>1. PICK news : event' = [event EXCEPT ![e] = [state |-> "UNPROCESSED", at |-> news]]
      BY <1>3, <2>1 DEF Receive
    <3>2. \A x \in EventIds : event'[x].state = IF x = e THEN "UNPROCESSED" ELSE event[x].state
      BY <1>1, <3>1
    <3>3. e \notin Stored /\ Stored' = Stored \cup {e} /\ Closed' = Closed
      BY <2>1, <3>2 DEF Stored, Closed, InState
    <3>4. acked' = acked
      BY <1>3 DEF Receive
    <3>5. QED
      BY <3>3, <3>4, TableSteps
  <2>2. CASE event[e].state # "ABSENT"
    BY <1>3, <2>2, TableSteps DEF Receive
  <2>3. QED
    BY <2>1, <2>2
<1>4. ASSUME NEW e \in EventIds, AcknowledgeDuplicate(h, e) PROVE EventStep
  <2>1. e \in Stored
    BY <1>4 DEF AcknowledgeDuplicate, Stored, InState
  <2>2. QED
    BY <1>4, <2>1, TableSteps DEF AcknowledgeDuplicate, ledgerVars
<1>5. CASE HandlerCommit(h)
  <2>1. PICK some \in SUBSET Stored : some = {job[h]}
    BY <1>2, <1>5 DEF HandlerCommit
  <2>2. \A e \in EventIds :
          event'[e] = IF e \in some THEN [event[e] EXCEPT !.state = "PROCESSED"] ELSE event[e]
    BY <1>1, <1>5, <2>1 DEF HandlerCommit
  <2>3. acked' = acked \cup {job[h]} /\ job[h] \in Stored
    BY <1>2, <1>5 DEF HandlerCommit
  <2>4. Stored' = Stored /\ Closed' = Closed \cup some
    BY <1>1, <2>2, Marked
  <2>5. QED
    BY <2>1, <2>3, <2>4, TableSteps
<1>6. CASE LeaveForSweeper(h)
  BY <1>2, <1>6, TableSteps DEF LeaveForSweeper
<1>7. CASE event' = event /\ acked' = acked
  BY <1>7, TableSteps
<1>8. QED
  BY <1>3, <1>4, <1>5, <1>6, <1>7 DEF HandlerStep, HandlerVerify, HandlerLock, HandlerCrash, ledgerVars

LEMMA SweepCommitKeepsEvents ==
  ASSUME DecisionsAreSound, NEW s \in Sweepers, SweepCommit(s), acked' = acked
  PROVE  EventStep
<1>1. event \in [EventIds -> Event]
  BY DEF DecisionsAreSound, TypeOK, LedgerTypeOK
<1>2. PICK res : event' = EventsAfter(target[s], res)
  BY DEF SweepCommit
<1>3. PICK some \in SUBSET Stored :
        some = {e \in EventIds : /\ res # "PENDING" /\ EventRef[e] = target[s]
                                /\ event[e].state = "UNPROCESSED"}
  BY DEF Stored, InState
<1>4. \A e \in EventIds :
        event'[e] = IF e \in some THEN [event[e] EXCEPT !.state = "PROCESSED"] ELSE event[e]
  BY <1>2, <1>3 DEF EventsAfter
<1>5. Stored' = Stored /\ Closed' = Closed \cup some
  BY <1>1, <1>4, Marked
<1>6. QED
  BY <1>5, TableSteps

(* No step of a request, a run, the host or a crash loses an event, opens  *)
(* one again or answers for one that is not stored.                        *)
THEOREM EventsAreKept == Spec => KeepsEvents
<1>1. Init => Table!Init
  BY DEF Init, LedgerInit, HandlerInit, Table!Init, InState
<1>2. ASSUME DecisionsAreSound, NewsInOrder, [Next]_vars PROVE EventStep
  <2>1. CASE UNCHANGED <<event, acked>>
    BY <2>1, TableSteps
  <2>2. ASSUME NEW s \in Sweepers, SweeperStep(s) \/ SweeperCrash(s), UNCHANGED handlerVars
        PROVE  EventStep
    <3>1. SweepCommit(s) \/ UNCHANGED event
      BY <2>2 DEF SweeperStep, StartRun, NextItem, MaybeAbandon, SweepVerify, SweepLock,
                  SkipLocked, ItemFails, EndRun, RunDone, SweeperCrash, ledgerVars
    <3>2. QED
      BY <1>2, <2>1, <2>2, <3>1, SweepCommitKeepsEvents DEF handlerVars
  <2>3. QED
    BY <1>2, <2>1, <2>2, HandlerStepKeepsEvents
       DEF Next, HostStep, CreateAttempt, AdvanceByHost, BeginPayment, Review, Tick, Crash, vars,
           ledgerVars, handlerVars
<1>3. DecisionsAreSound /\ NewsInOrder /\ [Next]_vars => [Table!Next]_(Table!tableVars)
  BY <1>2 DEF EventStep
<1>4. Spec => Table!Spec
  BY <1>1, <1>3, NewsStaysInOrder, PTL DEF Spec, Table!Spec
<1>5. QED
  BY <1>4 DEF KeepsEvents
-----------------------------------------------------------------------------
(* The batch of a run.                                                     *)

(* A set of numbers has a least one.                                       *)
LEMMA LeastOf ==
  ASSUME NEW T \in SUBSET Nat, T # {}
  PROVE  \E n \in T : \A m \in T : n <= m
<1> DEFINE R == OpToRel(<, Nat)
<1>1. IsWellFoundedOn(R, Nat)
  BY NatLessThanWellFounded
<1>2. \A a, b \in Nat : <<a, b>> \in R <=> a < b
  BY DEF OpToRel
<1> HIDE DEF R
<1>3. PICK x \in T : \A y \in T : ~(<<y, x>> \in R)
  BY <1>1, WFMin
<1>4. ASSUME NEW m \in T PROVE x <= m
  <2>1. x \in Nat /\ m \in Nat
    OBVIOUS
  <2>2. ~(m < x)
    BY <1>2, <1>3, <2>1
  <2>3. QED
    BY <2>1, <2>2
<1>5. QED
  BY <1>4

LEMMA OlderAreFinite ==
  ASSUME LedgerAssumption, NEW S \in SUBSET Transactions, NEW t \in Transactions
  PROVE  /\ IsFiniteSet({u \in S : u < t})
         /\ Cardinality({u \in S : u < t}) \in Nat
<1> DEFINE older == {u \in S : u < t}
<1>1. t \in Nat /\ older \in SUBSET Nat /\ \A u \in older : u <= t
  <2>1. t \in Nat /\ \A u \in S : u \in Nat
    BY DEF LedgerAssumption
  <2>2. \A u \in older : u \in S /\ u < t
    OBVIOUS
  <2>3. \A u \in older : u \in Nat /\ u <= t
    BY <2>1, <2>2
  <2>4. QED
    BY <2>1, <2>3
<1> HIDE DEF older
<1>2. IsFiniteSet(older)
  BY <1>1, FS_BoundedSetOfNaturals
<1>3. Cardinality(older) \in Nat
  BY <1>2, FS_CardinalityType
<1>4. QED
  BY <1>2, <1>3 DEF older

(* Of two transactions the younger one has more older ones.                *)
LEMMA YoungerHasMore ==
  ASSUME LedgerAssumption, NEW S \in SUBSET Transactions, NEW t \in S, NEW u \in S, t < u
  PROVE  Cardinality({x \in S : x < t}) < Cardinality({x \in S : x < u})
<1> DEFINE A == {x \in S : x < t}
           B == {x \in S : x < u}
<1>1. t \in Nat /\ u \in Nat /\ \A x \in S : x \in Nat
  BY DEF LedgerAssumption
<1>2. A \in SUBSET B /\ t \in B /\ t \notin A
  <2>1. \A x \in S : x < t => x < u
    BY <1>1
  <2>2. ~(t < t)
    BY <1>1
  <2>3. QED
    BY <2>1, <2>2
<1>3. IsFiniteSet(B) /\ Cardinality(B) \in Nat /\ Cardinality(A) \in Nat
  BY OlderAreFinite
<1> HIDE DEF A, B
<1>4. Cardinality(A) <= Cardinality(B) /\ (Cardinality(A) = Cardinality(B) => B = A)
  BY <1>2, <1>3, FS_Subset
<1>5. Cardinality(A) < Cardinality(B)
  BY <1>2, <1>3, <1>4
<1>6. QED
  BY <1>5 DEF A, B

(* The number of older ones places the oldest on 0 .. Limit - 1.           *)
LEMMA OldestWithinLimit ==
  ASSUME LedgerAssumption, SweeperAssumption, NEW S \in SUBSET Transactions
  PROVE  IsFiniteSet(Oldest(S)) /\ Cardinality(Oldest(S)) <= Limit
<1> DEFINE place == [t \in Oldest(S) |-> Cardinality({u \in S : u < t})]
           places == 0 .. Limit - 1
<1>1. Limit \in Nat \ {0}
  BY DEF SweeperAssumption
<1>2. Oldest(S) \subseteq S /\ S \subseteq Nat
  BY DEF Oldest, LedgerAssumption
<1>3. ASSUME NEW t \in Oldest(S) PROVE place[t] \in places
  <2>1. Cardinality({u \in S : u < t}) \in Nat
    BY <1>2, OlderAreFinite
  <2>2. Cardinality({u \in S : u < t}) < Limit
    BY DEF Oldest
  <2>3. QED
    BY <1>1, <2>1, <2>2
<1>4. ASSUME NEW t \in Oldest(S), NEW u \in Oldest(S), t < u PROVE place[t] # place[u]
  <2>1. Cardinality({x \in S : x < t}) < Cardinality({x \in S : x < u})
    <3>1. t \in S /\ u \in S
      BY <1>2
    <3>2. QED
      BY <1>4, <3>1, YoungerHasMore
  <2>2. place[t] < place[u]
    BY <2>1
  <2>3. QED
    BY <1>3, <2>2
<1>5. place \in [Oldest(S) -> places]
  BY <1>3
<1> HIDE DEF place
<1>6. ASSUME NEW t \in Oldest(S), NEW u \in Oldest(S), place[t] = place[u] PROVE t = u
  <2>1. t \in Nat /\ u \in Nat
    BY <1>2
  <2>2. ~(t < u) /\ ~(u < t)
    BY <1>4, <1>6
  <2>3. QED
    BY <2>1, <2>2
<1>7. place \in Injection(Oldest(S), places)
  BY <1>5, <1>6 DEF Injection, IsInjective
<1>8. IsFiniteSet(places) /\ Cardinality(places) = Limit
  <2>1. 0 \in Int /\ Limit - 1 \in Int /\ ~(0 > Limit - 1) /\ (Limit - 1) - 0 + 1 = Limit
    BY <1>1
  <2>2. QED
    BY <2>1, FS_Interval
<1> HIDE DEF places
<1>9. QED
  BY <1>7, <1>8, FS_Injection

(* Who is left out is younger than all that are taken, and these are Limit.*)
LEMMA LeftOutForOlder ==
  ASSUME LedgerAssumption, SweeperAssumption, NEW S \in SUBSET Transactions,
         NEW t \in S \ Oldest(S)
  PROVE  /\ \A u \in Oldest(S) : u < t
         /\ Cardinality(Oldest(S)) = Limit
<1> DEFINE older == {u \in S : u < t}
<1>1. Limit \in Nat \ {0} /\ S \subseteq Nat /\ Oldest(S) \subseteq S
  BY DEF SweeperAssumption, LedgerAssumption, Oldest
<1>2. ~(Cardinality(older) < Limit)
  BY DEF Oldest
<1>3. ASSUME NEW u \in Oldest(S), ~(u < t) PROVE FALSE
  <2>0. u \in S /\ u \in Nat /\ t \in Nat /\ u # t
    BY <1>1
  <2>1. t < u
    BY <1>3, <2>0
  <2>2. Cardinality(older) < Cardinality({x \in S : x < u})
    BY <2>0, <2>1, YoungerHasMore
  <2>3. Cardinality({x \in S : x < u}) < Limit
    BY DEF Oldest
  <2>4. Cardinality(older) \in Nat /\ Cardinality({x \in S : x < u}) \in Nat
    BY <1>1, OlderAreFinite
  <2>5. QED
    BY <1>1, <1>2, <2>2, <2>3, <2>4
<1>4. IsFiniteSet(Oldest(S)) /\ Cardinality(Oldest(S)) <= Limit
  BY OldestWithinLimit
<1>5. IsFiniteSet(older) /\ Cardinality(older) \in Nat
  BY <1>1, OlderAreFinite
<1>6. ASSUME Cardinality(Oldest(S)) < Limit PROVE FALSE
  <2>1. Oldest(S) # older
    BY <1>2, <1>6
  <2>2. older \ Oldest(S) # {} /\ older \ Oldest(S) \in SUBSET Nat
    BY <1>1, <1>3, <2>1
  <2>3. PICK m \in older \ Oldest(S) : \A n \in older \ Oldest(S) : m <= n
    BY <2>2, LeastOf
  <2>4. m \in S /\ m \in Nat /\ m < t /\ t \in Nat
    BY <1>1
  <2>5. {u \in S : u < m} \in SUBSET Oldest(S)
    <3> SUFFICES ASSUME NEW u \in S, u < m, u \notin Oldest(S) PROVE FALSE
      OBVIOUS
    <3>1. u \in Nat /\ u < t
      BY <1>1, <2>4
    <3>2. m <= u
      BY <2>3, <3>1
    <3>3. QED
      BY <2>4, <3>1, <3>2
  <2>6. Cardinality({u \in S : u < m}) <= Cardinality(Oldest(S))
    BY <1>4, <2>5, FS_Subset
  <2>7. Cardinality({u \in S : u < m}) \in Nat /\ Cardinality(Oldest(S)) \in Nat
    BY <1>1, <1>4, <2>4, OlderAreFinite, FS_CardinalityType
  <2>8. Cardinality({u \in S : u < m}) < Limit
    BY <1>1, <1>6, <2>6, <2>7
  <2>9. m \in Oldest(S)
    BY <2>4, <2>8 DEF Oldest
  <2>10. QED
    BY <2>3, <2>9
<1>7. Cardinality(Oldest(S)) \in Nat
  BY <1>4, FS_CardinalityType
<1>8. QED
  BY <1>1, <1>3, <1>4, <1>6, <1>7

(* Every run that starts takes the oldest of what is waiting, and as many  *)
(* as the limit allows (kielsync_sweep._candidate_ids).                    *)
THEOREM RunsTakeTheOldest == Spec => BatchIsAQueue
<1> USE LedgerAssumption, SweeperAssumption
<1> DEFINE Queue == \A s \in Sweepers :
       LET waiting == Stale(filter'[s]) \cup FromEvents(filter'[s])
       IN  spc[s] = "idle" /\ spc'[s] # "idle" =>
             /\ batch'[s] \subseteq waiting
             /\ Cardinality(batch'[s]) <= Limit
             /\ \A t \in waiting \ batch'[s] :
                  Cardinality(batch'[s]) = Limit /\ \A u \in batch'[s] : u < t
<1>1. ASSUME DecisionsAreSound, Next PROVE Queue
  <2> SUFFICES ASSUME NEW s \in Sweepers, spc[s] = "idle", spc'[s] # "idle"
               PROVE  LET waiting == Stale(filter'[s]) \cup FromEvents(filter'[s])
                      IN  /\ batch'[s] \subseteq waiting
                          /\ Cardinality(batch'[s]) <= Limit
                          /\ \A t \in waiting \ batch'[s] :
                               Cardinality(batch'[s]) = Limit /\ \A u \in batch'[s] : u < t
    OBVIOUS
  <2>1. /\ spc \in [Sweepers -> {"idle", "next", "asking", "open", "verified", "locked"}]
        /\ DOMAIN filter = Sweepers /\ DOMAIN batch = Sweepers
    BY <1>1 DEF DecisionsAreSound, TypeOK, SweeperTypeOK
  <2>2. StartRun(s)
    BY <1>1, <2>1 DEF Next, HandlerStep, SweeperStep, StartRun, NextItem, MaybeAbandon, SweepVerify,
         SweepLock, SkipLocked, SweepCommit, ItemFails, EndRun, RunDone, SweeperCrash, HostStep,
         Tick, Crash, sweeperVars
  <2>3. PICK f \in Filters : filter'[s] = f /\ batch'[s] = Candidates(f)
    BY <2>1, <2>2 DEF StartRun
  <2>4. PICK S \in SUBSET Transactions : S = Stale(f) \cup FromEvents(f)
    BY DEF Stale, FromEvents
  <2>5. batch'[s] = Oldest(S) /\ S = Stale(filter'[s]) \cup FromEvents(filter'[s])
    BY <2>3, <2>4 DEF Candidates
  <2>6. Oldest(S) \subseteq S /\ Cardinality(Oldest(S)) <= Limit
    BY OldestWithinLimit DEF Oldest
  <2>7. \A t \in S \ Oldest(S) :
          Cardinality(Oldest(S)) = Limit /\ \A u \in Oldest(S) : u < t
    BY LeftOutForOlder
  <2>8. QED
    BY <2>5, <2>6, <2>7
<1>2. ASSUME UNCHANGED vars PROVE Queue
  BY <1>2 DEF vars, sweeperVars
<1>3. DecisionsAreSound /\ [Next]_vars => Queue
  BY <1>1, <1>2
<1>4. Spec => [][Queue]_vars
  BY <1>3, Soundness, PTL DEF Spec
<1>5. QED
  BY <1>4 DEF BatchIsAQueue
-----------------------------------------------------------------------------
(* The second time.                                                        *)

(* A commit that writes what resolve_transaction makes of an answer, or    *)
(* abandons by an answer that is no news, leaves nothing more to write.    *)
LEMMA CommitLeavesNothing ==
  ASSUME TypeOK, NEW t \in Transactions, NEW v, v.status \in AnswerStatus,
         NEW row \in Row, row = txn[t],
         attempt' = AttemptsAfter(t, row, v, Resolve(t, row, v)),
         txn'[t] \in Row,
         txn'[t] = RowAfter(row, row, Resolve(t, row, v)) \/ v.status = "PENDING"
  PROVE  Exhausted(t, v)'
<1>1. attempt \in [References -> AttemptStatus \cup {"ABSENT"}]
  BY DEF TypeOK, LedgerTypeOK
<1>2. PICK left \in Row : left = txn'[t]
  OBVIOUS
<1>3. CASE v.status = "PENDING"
  <2>1. Resolve(t, row, v) = "PENDING" /\ Resolve(t, left, v) = "PENDING"
    BY <1>3 DEF Resolve
  <2>2. attempt' = attempt
    BY <2>1 DEF AttemptsAfter
  <2>3. Exhausted(t, v)' <=>
          /\ RowAfter(left, left, Resolve(t, left, v)) = left
          /\ ~Touches(left, Resolve(t, left, v))
          /\ AttemptsAfter(t, left, v, Resolve(t, left, v))' = attempt'
    BY <1>2 DEF Exhausted
  <2>4. QED
    BY <2>1, <2>3 DEF RowAfter, Touches, AttemptsAfter
<1>4. CASE v.status \in {"SUCCESS", "FAILED"}
  <2>1. left = RowAfter(row, row, Resolve(t, row, v))
    BY <1>2, <1>4
  <2>2. RowAfter(left, left, Resolve(t, left, v)) = left /\ ~Touches(left, Resolve(t, left, v))
    BY <2>1, ResolveIdempotent
  <2>3. AttemptsAfter(t, left, v, Resolve(t, left, v))' = attempt'
    BY <1>1, <1>4, <2>1, AttemptsSettle
  <2>4. QED
    BY <1>2, <2>2, <2>3 DEF Exhausted
<1>5. QED
  BY <1>3, <1>4 DEF AnswerStatus

LEMMA HandlerLeavesNothing ==
  ASSUME LedgerAssumption, DecisionsAreSound, DecisionsAreSound',
         NEW h \in Handlers, NEW t, t = JobTx(h), NEW v, v = hanswer[h], HandlerCommit(h)
  PROVE  Exhausted(t, v)'
<1>1. hpc[h] = "locked" /\ TypeOK /\ TypeOK'
  BY DEF HandlerCommit, DecisionsAreSound
<1>2. t \in Transactions /\ v \in Verification /\ hcopy[h] = txn[t]
  BY <1>1, LockedHandler
<1>3. v.status \in AnswerStatus
  BY <1>2 DEF Verification, PaymentStatus, AnswerStatus
<1>4. PICK row \in Row : row = txn[t]
  BY <1>1, <1>2 DEF TypeOK, LedgerTypeOK
<1>5. attempt' = AttemptsAfter(t, row, v, Resolve(t, row, v))
  BY <1>2, <1>4 DEF HandlerCommit
<1>6. txn' = [txn EXCEPT ![t] = RowAfter(txn[t], row, Resolve(t, row, v))]
  BY <1>2, <1>4 DEF HandlerCommit
<1>7. txn'[t] = RowAfter(row, row, Resolve(t, row, v)) /\ txn'[t] \in Row
  BY <1>1, <1>2, <1>4, <1>6 DEF TypeOK, LedgerTypeOK
<1>8. QED
  BY <1>1, <1>2, <1>3, <1>4, <1>5, <1>7, CommitLeavesNothing

LEMMA SweepLeavesNothing ==
  ASSUME LedgerAssumption, DecisionsAreSound, DecisionsAreSound',
         NEW s \in Sweepers, NEW t, t = item[s], NEW v, v = sanswer[s], SweepCommit(s)
  PROVE  Exhausted(t, v)'
<1>1. spc[s] = "locked" /\ TypeOK /\ TypeOK'
  BY DEF SweepCommit, DecisionsAreSound
<1>2. t \in Transactions /\ v \in Verification /\ scopy[s] = txn[t]
  BY <1>1 DEF DecisionsAreSound, SweeperOK
<1>3. v.status \in AnswerStatus
  BY <1>2 DEF Verification, PaymentStatus, AnswerStatus
<1>4. PICK row \in Row : row = txn[t]
  BY <1>1, <1>2 DEF TypeOK, LedgerTypeOK
<1>5. attempt' = AttemptsAfter(t, row, v, Resolve(t, row, v))
  BY <1>2, <1>4 DEF SweepCommit
<1>6. PICK left : left = RowAfter(row, row, Resolve(t, row, v))
  OBVIOUS
<1>7. PICK written : /\ txn' = [txn EXCEPT ![t] = written]
                     /\ \/ written = left
                        \/ Resolve(t, row, v) \in {"PENDING", "NO_CHANGE"} /\ left.status = "PENDING"
  <2>1. PICK res, ended :
          /\ res = Resolve(t, row, v)
          /\ ended = [left EXCEPT !.status = perform_transition(@, "ABANDONED",
                                               TRANSACTION_TRANSITIONS)]
    OBVIOUS
  <2>2. \/ txn' = [txn EXCEPT ![t] = left]
        \/ /\ txn' = [txn EXCEPT ![t] = ended]
           /\ res \in {"PENDING", "NO_CHANGE"} /\ left.status = "PENDING"
    BY <1>2, <1>4, <1>6, <2>1 DEF SweepCommit
  <2>3. QED
    BY <2>1, <2>2
<1>8. txn'[t] = written /\ txn'[t] \in Row
  BY <1>1, <1>2, <1>7 DEF TypeOK, LedgerTypeOK
<1>9. written = left \/ v.status = "PENDING"
  <2>1. ASSUME Resolve(t, row, v) \in {"PENDING", "NO_CHANGE"}, left.status = "PENDING"
        PROVE  v.status = "PENDING"
    <3>1. left = row
      BY <1>6, <2>1 DEF RowAfter
    <3>2. QED
      BY <1>3, <2>1, <3>1, OpenMeansNoNews
  <2>2. QED
    BY <1>7, <2>1
<1>10. QED
  BY <1>1, <1>2, <1>3, <1>4, <1>5, <1>6, <1>8, <1>9, CommitLeavesNothing

(* Idempotence of the whole system: after any commit the same answer finds *)
(* nothing to do, whoever brings it.                                       *)
THEOREM CommitsLeaveNothing == Spec => CommitsExhaust
<1> USE LedgerAssumption
<1> DEFINE Done ==
      /\ \A h \in {x \in Handlers : hpc[x] = "locked"} :
           \A t \in {JobTx(h)}, v \in {hanswer[h]} : HandlerCommit(h) => Exhausted(t, v)'
      /\ \A s \in {x \in Sweepers : spc[x] = "locked"} :
           \A t \in {item[s]}, v \in {sanswer[s]} : SweepCommit(s) => Exhausted(t, v)'
<1>1. ASSUME DecisionsAreSound, DecisionsAreSound' PROVE Done
  <2>1. ASSUME NEW h \in Handlers, NEW t \in {JobTx(h)}, NEW v \in {hanswer[h]}, HandlerCommit(h)
        PROVE  Exhausted(t, v)'
    BY <1>1, <2>1, HandlerLeavesNothing
  <2>2. ASSUME NEW s \in Sweepers, NEW t \in {item[s]}, NEW v \in {sanswer[s]}, SweepCommit(s)
        PROVE  Exhausted(t, v)'
    BY <1>1, <2>2, SweepLeavesNothing
  <2>3. QED
    BY <2>1, <2>2
<1>2. DecisionsAreSound /\ DecisionsAreSound' => Done
  BY <1>1
<1>3. Spec => [][Done]_vars
  BY <1>2, Soundness, PTL DEF Spec
<1>4. QED
  BY <1>3, PTL DEF CommitsExhaust
=============================================================================
