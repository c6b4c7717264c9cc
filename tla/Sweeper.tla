------------------------------ MODULE Sweeper -------------------------------
(***************************************************************************)
(* The management command kielsync_sweep. Each sweeper is one run of it;   *)
(* cron may have several in progress. "now" is read once, at the start of  *)
(* the run: elapsed[s] is what has to be taken off an age to see the row   *)
(* as the run's cutoffs do.                                                *)
(***************************************************************************)
EXTENDS Gateway

CONSTANTS
  Sweepers,       \* runs of the command that may be in progress together
  Gateways,       \* names of gateways
  GatewayOf,      \* GatewayOf[r]: the gateway of the attempt r
  EventGateway,   \* EventGateway[e]: the gateway whose endpoint received e
  Filters,        \* values of --gateway that are used; AnyGateway for none
  AnyGateway,
  Limit,          \* --limit, or KIELSYNC_SWEEP_BATCH_LIMIT
  SweepAfter,     \* KIELSYNC_SWEEP_AFTER_MINUTES, in ticks
  AbandonAfter,   \* KIELSYNC_ABANDON_AFTER_HOURS, in ticks
  RunTicks        \* bound: ticks one run of the command may last

ASSUME SweeperAssumption ==
  /\ GatewayOf \in [References -> Gateways]
  /\ EventGateway \in [EventIds -> Gateways]
  /\ Filters \subseteq Gateways \cup {AnyGateway}
  /\ Limit \in Nat \ {0}
  /\ SweepAfter \in Nat /\ AbandonAfter \in Nat \ {0} /\ RunTicks \in Nat

VARIABLES
  spc,       \* where the run is: idle, next, asking, open, verified, locked
  filter,    \* its --gateway
  elapsed,   \* ticks since it read the clock
  batch,     \* candidates not examined yet
  item,      \* the transaction being examined
  target,    \* the attempt it is verified through
  sanswer,   \* the verification it holds
  scopy      \* the Transaction row loaded under the lock

sweeperVars == <<spc, filter, elapsed, batch, item, target, sanswer, scopy>>

NoTx == 0

SweeperInit ==
  /\ spc = [s \in Sweepers |-> "idle"]
  /\ filter = [s \in Sweepers |-> AnyGateway]
  /\ elapsed = [s \in Sweepers |-> 0]
  /\ batch = [s \in Sweepers |-> {}]
  /\ item = [s \in Sweepers |-> NoTx]
  /\ target = [s \in Sweepers |-> NoRef]
  /\ sanswer = [s \in Sweepers |-> NoAnswer]
  /\ scopy = [s \in Sweepers |-> NoRow]

Matches(f, g) == f = AnyGateway \/ f = g

(* Mutant: only transactions with unprocessed events are swept.            *)
Mutant_EventsOnly(f) == {}

(* The two sources of _candidate_ids.                                      *)
Stale(f) ==
  {t \in Transactions :
     /\ txn[t].status = "PENDING"
     /\ age[t] >= SweepAfter
     /\ f = AnyGateway \/ \E r \in AttemptsOf(t) : GatewayOf[r] = f}

FromEvents(f) ==
  {t \in Transactions :
     /\ txn[t].status \notin {"SUCCESS", "FAILED"}
     /\ \E e \in EventIds :
          /\ event[e].state = "UNPROCESSED"
          /\ Matches(f, EventGateway[e])
          /\ EventRef[e] \in AttemptsOf(t)}

(* Mutant: order_by("-created_at").                                        *)
Mutant_NewestFirst(S) == {t \in S : Cardinality({u \in S : u > t}) < Limit}

(* The Limit oldest of a set of transactions.                              *)
Oldest(S) == {t \in S : Cardinality({u \in S : u < t}) < Limit}

Candidates(f) == Oldest(Stale(f) \cup FromEvents(f))

(* Nobody has examined anything yet, or has stopped doing so.              *)
ItemDone(s) ==
  /\ item' = [item EXCEPT ![s] = NoTx]
  /\ target' = [target EXCEPT ![s] = NoRef]
  /\ sanswer' = [sanswer EXCEPT ![s] = NoAnswer]
  /\ scopy' = [scopy EXCEPT ![s] = NoRow]
  /\ holder' = [t \in Transactions |-> IF holder[t] = s THEN NoOne ELSE holder[t]]

(* A run with nothing to examine changes nothing and is not shown.         *)
StartRun(s) ==
  /\ spc[s] = "idle"
  /\ \E f \in Filters :
       /\ Candidates(f) # {}
       /\ filter' = [filter EXCEPT ![s] = f]
       /\ batch' = [batch EXCEPT ![s] = Candidates(f)]
  /\ elapsed' = [elapsed EXCEPT ![s] = 0]
  /\ spc' = [spc EXCEPT ![s] = "next"]
  /\ UNCHANGED <<ledgerVars, item, target, sanswer, scopy>>

(* Mutant: the attempts are not filtered by their transaction.             *)
Mutant_AnyAttempt(s, t) ==
  {r \in References : attempt[r] # "ABSENT" /\ Matches(filter[s], GatewayOf[r])}

FilteredAttempts(s, t) == {r \in AttemptsOf(t) : Matches(filter[s], GatewayOf[r])}

(* The next candidate, oldest first, and its latest attempt (if any).      *)
NextItem(s) ==
  /\ spc[s] = "next"
  /\ \E t \in batch[s] :
       /\ \A u \in batch[s] : t <= u
       /\ batch' = [batch EXCEPT ![s] = @ \ {t}]
       /\ item' = [item EXCEPT ![s] = t]
       /\ \/ /\ FilteredAttempts(s, t) = {}
             /\ spc' = [spc EXCEPT ![s] = "open"]
             /\ UNCHANGED target
          \/ \E r \in FilteredAttempts(s, t) :
               /\ \A q \in FilteredAttempts(s, t) : q <= r
               /\ target' = [target EXCEPT ![s] = r]
               /\ spc' = [spc EXCEPT ![s] = "asking"]
  /\ UNCHANGED <<ledgerVars, filter, elapsed, sanswer, scopy>>

(* Mutants: the age is not looked at; the run's own time counts twice.     *)
Mutant_AnyAge(s, t) == TRUE

Mutant_CountsTwice(s, t) == age[t] + elapsed[s] >= AbandonAfter

(* updated_at <= abandon_before, as this run sees the row.                 *)
PastThreshold(s, t) == age[t] >= AbandonAfter + elapsed[s]

(* _maybe_abandon: its own short transaction; a row that is locked, moved  *)
(* on or too young is left alone.                                          *)
MaybeAbandon(s) ==
  /\ spc[s] = "open"
  /\ LET t == item[s]
         abandons == /\ Unlocked(t)
                     /\ txn[t].status = "PENDING"
                     /\ PastThreshold(s, t)
     IN  /\ txn' = IF abandons THEN [txn EXCEPT ![t].status = "ABANDONED"] ELSE txn
         /\ age' = IF abandons THEN [age EXCEPT ![t] = 0] ELSE age
  /\ spc' = [spc EXCEPT ![s] = "next"]
  /\ ItemDone(s)
  /\ UNCHANGED <<attempt, raw, event, filter, elapsed, batch>>

SweepVerify(s) ==
  /\ spc[s] = "asking"
  /\ sanswer' = [sanswer EXCEPT ![s] = Verify(target[s])]
  /\ spc' = [spc EXCEPT ![s] = "verified"]
  /\ UNCHANGED <<ledgerVars, filter, elapsed, batch, item, target, scopy>>

(* select_for_update(skip_locked): the row, if nobody holds it.            *)
SweepLock(s) ==
  /\ spc[s] = "verified"
  /\ Unlocked(item[s])
  /\ holder' = [holder EXCEPT ![item[s]] = s]
  /\ scopy' = [scopy EXCEPT ![s] = txn[item[s]]]
  /\ spc' = [spc EXCEPT ![s] = "locked"]
  /\ UNCHANGED <<txn, age, attempt, raw, event, filter, elapsed, batch, item, target, sanswer>>

SkipLocked(s) ==
  /\ spc[s] = "verified"
  /\ ~Unlocked(item[s])
  /\ spc' = [spc EXCEPT ![s] = "next"]
  /\ ItemDone(s)
  /\ UNCHANGED <<txn, age, attempt, raw, event, filter, elapsed, batch>>

(* Mutants: events are closed by a PENDING answer as well; those of other  *)
(* attempts are closed too; none is closed.                                *)
Mutant_ClosesOnPending(ref, resolution) ==
  [e \in EventIds |->
     IF EventRef[e] = ref /\ event[e].state = "UNPROCESSED"
     THEN [event[e] EXCEPT !.state = "PROCESSED"] ELSE event[e]]

Mutant_ClosesAll(ref, resolution) ==
  [e \in EventIds |->
     IF resolution # "PENDING" /\ event[e].state = "UNPROCESSED"
     THEN [event[e] EXCEPT !.state = "PROCESSED"] ELSE event[e]]

Mutant_ClosesNone(ref, resolution) == event

(* _mark_events_processed: every stored event of the verified reference,   *)
(* unless the answer was PENDING.                                          *)
EventsAfter(ref, resolution) ==
  [e \in EventIds |->
     IF resolution # "PENDING" /\ EventRef[e] = ref /\ event[e].state = "UNPROCESSED"
     THEN [event[e] EXCEPT !.state = "PROCESSED"]
     ELSE event[e]]

(* The atomic block: resolve, record the body, close events, and abandon   *)
(* the row if it is (still) PENDING past the threshold.                    *)
SweepCommit(s) ==
  /\ spc[s] = "locked"
  /\ LET t == item[s]
         v == sanswer[s]
         resolution == Resolve(t, scopy[s], v)
         row == RowAfter(txn[t], scopy[s], resolution)
         abandons == /\ resolution \in {"PENDING", "NO_CHANGE"}
                     /\ row.status = "PENDING"
                     /\ PastThreshold(s, t)
     IN  /\ txn' = [txn EXCEPT ![t] =
                      IF abandons
                      THEN [row EXCEPT !.status = perform_transition(@, "ABANDONED",
                                                    TRANSACTION_TRANSITIONS)]
                      ELSE row]
         /\ age' = IF abandons \/ Touches(scopy[s], resolution)
                   THEN [age EXCEPT ![t] = 0] ELSE age
         /\ attempt' = AttemptsAfter(t, scopy[s], v, resolution)
         /\ raw' = [raw EXCEPT ![target[s]] = v.version]
         /\ event' = EventsAfter(target[s], resolution)
  /\ spc' = [spc EXCEPT ![s] = "next"]
  /\ ItemDone(s)
  /\ UNCHANGED <<filter, elapsed, batch>>

(* Anything raised while examining one item is counted, and the run goes   *)
(* on with the next; an open database transaction rolls back.              *)
ItemFails(s) ==
  /\ spc[s] \in {"asking", "open", "verified", "locked"}
  /\ spc' = [spc EXCEPT ![s] = "next"]
  /\ ItemDone(s)
  /\ UNCHANGED <<txn, age, attempt, raw, event, filter, elapsed, batch>>

RunDone(s) ==
  /\ spc' = [spc EXCEPT ![s] = "idle"]
  /\ filter' = [filter EXCEPT ![s] = AnyGateway]
  /\ elapsed' = [elapsed EXCEPT ![s] = 0]
  /\ batch' = [batch EXCEPT ![s] = {}]
  /\ ItemDone(s)
  /\ UNCHANGED <<txn, age, attempt, raw, event>>

EndRun(s) == spc[s] = "next" /\ batch[s] = {} /\ RunDone(s)

(* The run is killed: what it did not commit is lost.                      *)
SweeperCrash(s) == spc[s] # "idle" /\ RunDone(s)

SweeperStep(s) ==
  \/ StartRun(s)   \/ NextItem(s)  \/ MaybeAbandon(s) \/ SweepVerify(s)
  \/ SweepLock(s)  \/ SkipLocked(s) \/ SweepCommit(s) \/ ItemFails(s) \/ EndRun(s)
=============================================================================
