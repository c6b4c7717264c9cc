--------------------------- MODULE WebhookEndpoint --------------------------
(***************************************************************************)
(* The webhook receiver, kielsync.django.views.webhook. Each handler is    *)
(* one request in progress. Deliveries come in any number and any order.   *)
(* A delivery that is refused (405, 404, 400, 401) touches no state and    *)
(* has no action here; what is left is an authentic one with an event id.  *)
(***************************************************************************)
EXTENDS Gateway

CONSTANT Handlers     \* requests that may be in progress at the same time

VARIABLES
  hpc,       \* where the handler is: idle, stored, verified or locked
  job,       \* the event it was called for
  hanswer,   \* the verification it holds
  hcopy,     \* the Transaction row it loaded under the lock
  acked      \* events some delivery of which was answered 200

handlerVars == <<hpc, job, hanswer, hcopy, acked>>

NoEvent == "none"

HandlerInit ==
  /\ hpc = [h \in Handlers |-> "idle"]
  /\ job = [h \in Handlers |-> NoEvent]
  /\ hanswer = [h \in Handlers |-> NoAnswer]
  /\ hcopy = [h \in Handlers |-> NoRow]
  /\ acked = {}

JobRef(h) == EventRef[job[h]]

JobTx(h) == TxOf[JobRef(h)]

(* Mutant: the lock is taken outside the atomic block and outlives it.     *)
Mutant_KeepsLock(h) ==
  /\ hpc' = [hpc EXCEPT ![h] = "idle"]
  /\ job' = [job EXCEPT ![h] = NoEvent]
  /\ hanswer' = [hanswer EXCEPT ![h] = NoAnswer]
  /\ hcopy' = [hcopy EXCEPT ![h] = NoRow]
  /\ UNCHANGED holder

(* The request ends: its memory is gone and so is any row lock it held.    *)
HandlerDone(h) ==
  /\ hpc' = [hpc EXCEPT ![h] = "idle"]
  /\ job' = [job EXCEPT ![h] = NoEvent]
  /\ hanswer' = [hanswer EXCEPT ![h] = NoAnswer]
  /\ hcopy' = [hcopy EXCEPT ![h] = NoRow]
  /\ holder' = [t \in Transactions |-> IF holder[t] = h THEN NoOne ELSE holder[t]]

(* Mutant: update_or_create, with processed=False among the defaults.      *)
Mutant_UpdateOrCreate(h, e) ==
  /\ hpc[h] = "idle"
  /\ event' = [event EXCEPT ![e].state = "UNPROCESSED"]
  /\ hpc' = [hpc EXCEPT ![h] = "stored"]
  /\ job' = [job EXCEPT ![h] = e]
  /\ UNCHANGED <<txn, age, attempt, raw, holder, hanswer, hcopy, acked>>

(* get_or_create: the event is stored, in a transaction of its own, before *)
(* anything is asked of the gateway. A stored event that is not processed  *)
(* yet is worked on again.                                                 *)
Receive(h, e) ==
  /\ hpc[h] = "idle"
  /\ event[e].state # "PROCESSED"
  /\ event' = IF event[e].state = "ABSENT"
              THEN [event EXCEPT ![e] =
                      [state |-> "UNPROCESSED",
                       at    |-> IF EventRef[e] = NoRef THEN 0 ELSE gw[EventRef[e]].version]]
              ELSE event
  /\ hpc' = [hpc EXCEPT ![h] = "stored"]
  /\ job' = [job EXCEPT ![h] = e]
  /\ UNCHANGED <<txn, age, attempt, raw, holder, hanswer, hcopy, acked>>

(* A redelivery of what is dealt with: 200, without a second verify().     *)
AcknowledgeDuplicate(h, e) ==
  /\ hpc[h] = "idle"
  /\ event[e].state = "PROCESSED"
  /\ acked' = acked \cup {e}
  /\ UNCHANGED <<ledgerVars, hpc, job, hanswer, hcopy>>

(* Mutant: the answer stored on the attempt is used instead of a new one.  *)
Mutant_StoredAnswer(h) ==
  /\ hpc[h] = "stored"
  /\ JobRef(h) # NoRef
  /\ hanswer' = [hanswer EXCEPT ![h] = [Verify(JobRef(h)) EXCEPT !.version = raw[JobRef(h)]]]
  /\ hpc' = [hpc EXCEPT ![h] = "verified"]
  /\ UNCHANGED <<ledgerVars, job, hcopy, acked>>

(* The gateway's own answer, taken before any lock is held.                *)
HandlerVerify(h) ==
  /\ hpc[h] = "stored"
  /\ JobRef(h) # NoRef
  /\ hanswer' = [hanswer EXCEPT ![h] = Verify(JobRef(h))]
  /\ hpc' = [hpc EXCEPT ![h] = "verified"]
  /\ UNCHANGED <<ledgerVars, job, hcopy, acked>>

(* Mutant: the event is marked processed in a "finally".                   *)
Mutant_MarksInFinally(h) ==
  /\ hpc[h] # "idle"
  /\ acked' = acked \cup {job[h]}
  /\ event' = [event EXCEPT ![job[h]].state = "PROCESSED"]
  /\ HandlerDone(h)
  /\ UNCHANGED <<txn, age, attempt, raw>>

(* 200 without a decision: the event has no reference, or no attempt is    *)
(* stored under it, or anything at all raised (verify(), the lock, a       *)
(* write; the open database transaction rolls back). The event stays       *)
(* unprocessed.                                                            *)
LeaveForSweeper(h) ==
  /\ hpc[h] # "idle"
  /\ acked' = acked \cup {job[h]}
  /\ HandlerDone(h)
  /\ UNCHANGED <<txn, age, attempt, raw, event>>

(* select_for_update().get(): waits for the row, then reads it.            *)
HandlerLock(h) ==
  /\ hpc[h] = "verified"
  /\ attempt[JobRef(h)] # "ABSENT"
  /\ Unlocked(JobTx(h))
  /\ holder' = [holder EXCEPT ![JobTx(h)] = h]
  /\ hcopy' = [hcopy EXCEPT ![h] = txn[JobTx(h)]]
  /\ hpc' = [hpc EXCEPT ![h] = "locked"]
  /\ UNCHANGED <<txn, age, attempt, raw, event, job, hanswer, acked>>

(* The rest of the atomic block: resolve, record the body, close the event *)
(* whatever the resolution was, commit, answer 200.                        *)
HandlerCommit(h) ==
  /\ hpc[h] = "locked"
  /\ LET t == JobTx(h)
         v == hanswer[h]
         resolution == Resolve(t, hcopy[h], v)
     IN  /\ txn' = [txn EXCEPT ![t] = RowAfter(@, hcopy[h], resolution)]
         /\ age' = IF Touches(hcopy[h], resolution) THEN [age EXCEPT ![t] = 0] ELSE age
         /\ attempt' = AttemptsAfter(t, hcopy[h], v, resolution)
         /\ raw' = [raw EXCEPT ![JobRef(h)] = v.version]
  /\ event' = [event EXCEPT ![job[h]].state = "PROCESSED"]
  /\ acked' = acked \cup {job[h]}
  /\ HandlerDone(h)

(* The worker dies: no answer to the gateway, nothing uncommitted remains. *)
HandlerCrash(h) ==
  /\ hpc[h] # "idle"
  /\ HandlerDone(h)
  /\ UNCHANGED <<txn, age, attempt, raw, event, acked>>

HandlerStep(h) ==
  \/ \E e \in EventIds : Receive(h, e) \/ AcknowledgeDuplicate(h, e)
  \/ HandlerVerify(h)
  \/ LeaveForSweeper(h)
  \/ HandlerLock(h)
  \/ HandlerCommit(h)
=============================================================================
