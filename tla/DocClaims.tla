----------------------------- MODULE DocClaims ------------------------------
(***************************************************************************)
(* Sentences of the repository's README, comments and help texts that the  *)
(* code does not keep, each as a property of the system; the README of     *)
(* this project says what the counterexamples show.                        *)
(***************************************************************************)
EXTENDS Requirements

(* README:343 "ordered oldest first so nothing starves under the batch     *)
(* limit": a payment that stays open is examined by some run.              *)
NothingStarves ==
  \A t \in Transactions :
    txn[t].status = "PENDING" ~> txn[t].status # "PENDING" \/ \E s \in Sweepers : item[s] = t

(* views.py:19-21 "The event is on disk with processed=False and the       *)
(* sweeper will retry it": the gateway is asked again about every event    *)
(* that was acknowledged without being processed.                          *)
LeftEventsAreRetried ==
  \A e \in EventIds :
    e \in acked /\ event[e].state = "UNPROCESSED" /\ attempt[EventRef[e]] # "ABSENT"
    ~> \/ event[e].state = "PROCESSED"
       \/ \E s \in Sweepers : spc[s] = "asking" /\ target[s] = EventRef[e]

(* views.py:140-142 "The event is durably stored with processed=False ...  *)
(* the sweeper will pick this up instead": a run closes an event only by   *)
(* an answer at least as new as the event.                                 *)
PickedUpEventsAreVerified ==
  [][\A s \in Sweepers : \A e \in EventIds :
       /\ spc[s] = "locked" /\ spc'[s] = "next"
       /\ event[e].state = "UNPROCESSED" /\ event'[e].state = "PROCESSED"
       => sanswer[s].version >= event[e].at]_vars

(* README:347-349 "marked ABANDONED - but only after verification, so a    *)
(* payment that settles at hour 25 is rescued rather than written off": no *)
(* attempt has been paid when the transaction is abandoned. (The attempt   *)
(* the run has verified is left out: it may be paid after the answer.)     *)
PaidIsNotWrittenOff ==
  [][\A s \in Sweepers :
       item[s] # NoTx /\ txn[item[s]].status = "PENDING" /\ txn'[item[s]].status = "ABANDONED"
       => \A r \in AttemptsOf(item[s]) : r < target[s] => ~Paid(r, gw[r])]_vars
=============================================================================
