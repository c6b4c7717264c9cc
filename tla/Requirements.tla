---------------------------- MODULE Requirements ----------------------------
(***************************************************************************)
(* What KielSync promises of the system of module KielSync, and the        *)
(* fairness under which its promises of progress are meant.                *)
(***************************************************************************)
EXTENDS KielSync

Terminal == {"SUCCESS", "FAILED", "ABANDONED"}

Flagged(t) == txn[t].recon \in {"MISMATCHED", "MANUAL_REVIEW"}

(* A transaction is SUCCESS only if the gateway really had, at some        *)
(* moment, the expected amount in the expected currency for one of its     *)
(* stored attempts: no webhook, no stale row in memory, no other           *)
(* transaction's payment and no lost race can credit it                    *)
(* (services.resolve_transaction and its two callers).                     *)
CreditedOnlyIfPaid ==
  \A t \in Transactions : txn[t].status = "SUCCESS" =>
    \E r \in settled : TxOf[r] = t /\ attempt[r] # "ABSENT"

(* The two tables agree: an attempt is SUCCESS only under a transaction    *)
(* that is, whatever ran before, was interrupted or ran beside it          *)
(* (services._advance_attempt inside the callers' atomic blocks).          *)
AttemptsAgree ==
  \A r \in References : attempt[r] = "SUCCESS" => txn[TxOf[r]].status = "SUCCESS"

(* An attempt is SUCCESS only if it is the one that was paid: with several *)
(* attempts on a transaction, no payment is put down to another attempt.   *)
(* It rests on the gateway answering under the reference it was asked for  *)
(* (services._matching_attempt).                                           *)
PaidAttemptIsCredited ==
  \A r \in References : attempt[r] = "SUCCESS" => r \in settled

(* MATCHED is written with SUCCESS and only then; a credited transaction   *)
(* is never left unreconciled (the two saves of services.py:155-159 happen *)
(* in one atomic block).                                                   *)
CreditedIsReconciled ==
  \A t \in Transactions :
    /\ txn[t].recon = "MATCHED" => txn[t].status = "SUCCESS"
    /\ txn[t].status = "SUCCESS" => txn[t].recon # "UNRECONCILED"

(* No interleaving of handlers, runs, host and crashes moves a transaction *)
(* out of SUCCESS, FAILED or ABANDONED: the table of states.py is checked  *)
(* on a row in memory, so this rests on the row locks of both callers.     *)
TerminalIsFinal ==
  [][\A t \in Transactions :
       txn[t].status \in Terminal => txn'[t].status = txn[t].status]_vars

(* A flag raised for a person is never dropped, except by the one event    *)
(* that settles the question: the payment is credited in the same step     *)
(* (services._record_mismatch, services.py:155-159).                       *)
FlagsAreKept ==
  [][\A t \in Transactions : Flagged(t) /\ ~Flagged(t)' =>
       /\ txn[t].status = "PENDING"
       /\ txn'[t] = [status |-> "SUCCESS", recon |-> "MATCHED"]]_vars

(* The verifications with which some process commits in this step.         *)
Committed ==
  {hanswer[h] : h \in {x \in Handlers : hpc[x] = "locked" /\ hpc'[x] = "idle"}}
    \cup {sanswer[s] : s \in {x \in Sweepers : spc[x] = "locked" /\ spc'[x] = "next"}}

(* When an event is closed, what the gateway answered about it is in the   *)
(* ledger: money that arrived is credited or flagged for a person, a       *)
(* failure has ended the payment (views._process, _mark_events_processed). *)
NewsReachesLedger ==
  [][\A e \in EventIds :
       event[e].state = "UNPROCESSED" /\ event'[e].state = "PROCESSED" =>
         \E v \in Committed :
           LET row == txn'[TxOf[v.asked]]
           IN  /\ v.asked = EventRef[e]
               /\ v.status = "SUCCESS" => row.status = "SUCCESS" \/ row.recon = "MISMATCHED"
               /\ v.status = "FAILED" => row.status # "PENDING"]_vars

(* An event that came when the gateway had made up its mind is not used up *)
(* while its payment is still open and nobody has been told: a request,    *)
(* which closes its event on PENDING too, asks only after the event is     *)
(* stored, and a run, which asks before, closes nothing on PENDING         *)
(* (views.py:116-200, kielsync_sweep._mark_events_processed).              *)
NewsIsNotUsedUp ==
  [][\A e \in {x \in EventIds : EventRef[x] # NoRef} :
       /\ event[e].state = "UNPROCESSED" /\ event'[e].state = "PROCESSED"
       /\ event[e].at > 0
       => txn'[TxOf[EventRef[e]]].status # "PENDING" \/ Flagged(TxOf[EventRef[e]])']_vars

(* A transaction is abandoned only by a run that has just been told that   *)
(* its latest attempt is still pending, or that found none, and only if    *)
(* nothing has touched the row for the whole threshold, however long the   *)
(* run has been going and whoever else worked on the row meanwhile         *)
(* (kielsync_sweep._sweep_one, _maybe_abandon).                            *)
AbandonedOnlyWhenQuiet ==
  [][\A t \in Transactions :
       txn[t].status # "ABANDONED" /\ txn'[t].status = "ABANDONED" =>
         /\ txn[t].status = "PENDING"
         /\ age[t] >= AbandonAfter
         /\ \E s \in Sweepers :
              /\ item[s] = t
              /\ \/ spc[s] = "open"
                 \/ /\ spc[s] = "locked"
                    /\ TxOf[sanswer[s].asked] = t
                    /\ sanswer[s].status = "PENDING"]_vars

(* Nothing is left for the answer v to write about t.                      *)
Exhausted(t, v) ==
  LET resolution == Resolve(t, txn[t], v)
  IN  /\ RowAfter(txn[t], txn[t], resolution) = txn[t]
      /\ ~Touches(txn[t], resolution)
      /\ AttemptsAfter(t, txn[t], v, resolution) = attempt

(* Whoever commits, a request or a run, leaves nothing to the next one     *)
(* that comes with the same answer: no status, flag or attempt to write,   *)
(* and no save that would restart the clock of abandonment, whatever was   *)
(* in the row and the attempts before (services.py:92 and its callers).    *)
CommitsExhaust ==
  [][/\ \A h \in {x \in Handlers : hpc[x] = "locked"} :
          \A t \in {JobTx(h)}, v \in {hanswer[h]} : HandlerCommit(h) => Exhausted(t, v)'
     /\ \A s \in {x \in Sweepers : spc[x] = "locked"} :
          \A t \in {item[s]}, v \in {sanswer[s]} : SweepCommit(s) => Exhausted(t, v)']_vars

(* Under the batch limit the sweep is a queue: a run takes as many of the  *)
(* waiting transactions as it may and leaves one out only for Limit older  *)
(* ones, so that nothing waits because of newer transactions               *)
(* (kielsync_sweep._candidate_ids and its comment).                        *)
BatchIsAQueue ==
  [][\A s \in Sweepers :
       LET waiting == Stale(filter'[s]) \cup FromEvents(filter'[s])
       IN  spc[s] = "idle" /\ spc'[s] # "idle" =>
             /\ batch'[s] \subseteq waiting
             /\ Cardinality(batch'[s]) <= Limit
             /\ \A t \in waiting \ batch'[s] :
                  Cardinality(batch'[s]) = Limit /\ \A u \in batch'[s] : u < t]_vars

-----------------------------------------------------------------------------
(* What a request knows as it goes along: the event it works for, the      *)
(* answer it holds and whether that answer is evidence, and under the lock *)
(* the row as it is in the database.                                       *)
HandlerOK(h) ==
  /\ hpc[h] # "idle" => job[h] \in EventIds
  /\ hpc[h] \in {"verified", "locked"} =>
       /\ JobRef(h) # NoRef
       /\ hanswer[h] \in Verification
       /\ hanswer[h].asked = JobRef(h)
       /\ Paid(JobRef(h), hanswer[h]) => JobRef(h) \in settled
  /\ hpc[h] = "locked" =>
       /\ attempt[JobRef(h)] # "ABSENT"
       /\ holder[JobTx(h)] = h
       /\ hcopy[h] = txn[JobTx(h)]

(* The same of a run of the sweeper.                                       *)
SweeperOK(s) ==
  /\ spc[s] \in {"asking", "open", "verified", "locked"} => item[s] \in Transactions
  /\ spc[s] \in {"asking", "verified", "locked"} =>
       target[s] \in References /\ TxOf[target[s]] = item[s] /\ attempt[target[s]] # "ABSENT"
  /\ spc[s] \in {"verified", "locked"} =>
       /\ sanswer[s] \in Verification
       /\ sanswer[s].asked = target[s]
       /\ Paid(target[s], sanswer[s]) => target[s] \in settled
  /\ spc[s] = "locked" =>
       holder[item[s]] = s /\ scopy[s] = txn[item[s]]

(* The inductive invariant behind CreditedOnlyIfPaid and TerminalIsFinal:  *)
(* every decision under way is made from a row that is locked and current, *)
(* and by evidence that was true when it was taken. So no lock protocol    *)
(* step of one process can invalidate what another one has read.           *)
DecisionsAreSound ==
  /\ TypeOK
  /\ \A h \in Handlers : HandlerOK(h)
  /\ \A s \in Sweepers : SweeperOK(s)
  /\ \A r \in References : Paid(r, gw[r]) => r \in settled
  /\ CreditedOnlyIfPaid

-----------------------------------------------------------------------------
(* What the gateway has said so far. Its answers alternate once there is   *)
(* one (GatewayMoves), so at the second both have been given.              *)
HasSaid(status) ==
  {TxOf[r] : r \in {q \in References :
     gw[q].version > 0 /\ (gw[q].status = status \/ gw[q].version > 1)}}

PaidDeals == {TxOf[r] : r \in settled}

Promise == INSTANCE PaymentPromise WITH
  Deals <- Transactions, row <- txn, yes <- HasSaid("SUCCESS"), no <- HasSaid("FAILED"),
  paid <- PaidDeals

(* The system implements PaymentPromise: seen from outside, every step of  *)
(* a request, a run, the host or a crash moves at most one row, and moves  *)
(* it only as something the gateway has said allows (the two callers of    *)
(* services.resolve_transaction, and _maybe_abandon).                      *)
KeepsPromise == Promise!Spec

(* No payment is credited, failed or shown to a person but on the          *)
(* gateway's word for it, taken at some time from some attempt: no lost    *)
(* race, repeated answer or crash makes up a verdict or a contradiction    *)
(* (services.resolve_transaction, _record_mismatch).                       *)
VerdictsAreGrounded == Promise!Grounded

-----------------------------------------------------------------------------
InState(states) == {e \in EventIds : event[e].state \in states}

Table == INSTANCE EventTable WITH
  Keys <- EventIds, stored <- InState({"UNPROCESSED", "PROCESSED"}), closed <- InState({"PROCESSED"})

(* The system implements EventTable: no redelivery, run, failure or crash  *)
(* loses an event, opens one that was closed or answers 200 for one that   *)
(* is not there (views.webhook, _mark_events_processed).                   *)
KeepsEvents == Table!Spec

(* A row that is locked is being worked on, by the one that locked it, and *)
(* who waits for a row has none: no failure, early return or crash leaves  *)
(* a lock behind, and nobody waits in a circle (the atomic blocks of       *)
(* views._process and kielsync_sweep._sweep_one).                          *)
LocksAreInUse ==
  \A t \in Transactions : holder[t] # NoOne =>
    \/ \E h \in Handlers : holder[t] = h /\ hpc[h] = "locked" /\ JobTx(h) = t
    \/ \E s \in Sweepers : holder[t] = s /\ spc[s] = "locked" /\ item[s] = t

(* What is known of an answer taken earlier: it is the asked reference's,  *)
(* no newer than the gateway's present one and no different if as new.     *)
AnswerOK(v) ==
  /\ v.ref = Reported[v.asked]
  /\ v.version <= gw[v.asked].version
  /\ v.version = gw[v.asked].version => v.status = gw[v.asked].status
  /\ v.status # "PENDING" <=> v.version > 0

(* An event's news is not newer than what the gateway says; a request has  *)
(* stored the event it works for, and asks after that.                     *)
EventInOrder(e) ==
  EventRef[e] # NoRef => event[e].at <= gw[EventRef[e]].version

HandlerInOrder(h) ==
  /\ hpc[h] # "idle" => event[job[h]].state # "ABSENT"
  /\ hpc[h] \in {"verified", "locked"} =>
       AnswerOK(hanswer[h]) /\ hanswer[h].version >= event[job[h]].at

SweeperInOrder(s) ==
  spc[s] \in {"verified", "locked"} => AnswerOK(sanswer[s])

(* Nothing that is stored or held about a reference is from the gateway's  *)
(* future: with DecisionsAreSound the inductive invariant behind           *)
(* KeepsPromise and NewsIsNotUsedUp.                                       *)
NewsInOrder ==
  /\ \A r \in References : gw[r].status # "PENDING" <=> gw[r].version > 0
  /\ \A e \in EventIds : EventInOrder(e)
  /\ \A h \in Handlers : HandlerInOrder(h)
  /\ \A s \in Sweepers : SweeperInOrder(s)

-----------------------------------------------------------------------------
(* Requests and runs that are scheduled go on, the clock moves, cron       *)
(* starts the next run. The gateway, the row lock and the database may     *)
(* fail the sweeper on an item any number of times, but not for ever; nor  *)
(* does the database roll back the same request for ever. Nothing is asked *)
(* of the gateway's deliveries, of payments, of the host or of crashes.    *)
OfHandler(A) == A /\ UNCHANGED <<gatewayVars, sweeperVars, crashes>>
OfSweeper(A) == A /\ UNCHANGED <<gatewayVars, handlerVars, crashes>>

Fairness ==
  /\ WF_vars(Tick)
  /\ \A h \in Handlers :
       /\ WF_vars(hpc[h] # "idle" /\ OfHandler(HandlerStep(h)))
       /\ SF_vars(OfHandler(HandlerCommit(h)))
  /\ \A s \in Sweepers :
       /\ WF_vars(OfSweeper(SweeperStep(s)))
       /\ \A t \in Transactions :
            /\ SF_vars(item[s] = t /\ OfSweeper(SweepVerify(s)))
            /\ SF_vars(item[s] = t /\ OfSweeper(SweepLock(s)))
            /\ SF_vars(item[s] = t /\ OfSweeper(SweepCommit(s)))
            /\ SF_vars(item[s] = t /\ Unlocked(t) /\ OfSweeper(MaybeAbandon(s)))

FairSpec == Spec /\ Fairness

(* Every payment that was started is decided, or a person is told: the     *)
(* sweeper makes up for lost webhooks (kielsync_sweep.handle).             *)
PaymentsAreDecided ==
  \A t \in Transactions :
    txn[t].status = "PENDING" ~> txn[t].status \in Terminal \/ Flagged(t)

(* A stored event whose payment the gateway has decided is closed in the   *)
(* end, with two exceptions. The sweeper does not look at a transaction    *)
(* that is SUCCESS or FAILED (kielsync_sweep._candidate_ids); and it       *)
(* verifies, and closes the events of, the latest attempt only             *)
(* (_latest_attempt), so that an event about an attempt that is no longer  *)
(* the latest may stay open, however the transaction ends.                 *)
EventsAreClosed ==
  \A e \in {x \in EventIds : EventRef[x] # NoRef} :
    LET r == EventRef[e]
    IN  /\ event[e].state = "UNPROCESSED"
        /\ gw[r].status # "PENDING"
        /\ attempt[r] # "ABSENT"
        ~> \/ event[e].state = "PROCESSED"
           \/ txn[TxOf[r]].status \in {"SUCCESS", "FAILED"}
           \/ \E q \in AttemptsOf(TxOf[r]) : q > r
=============================================================================
