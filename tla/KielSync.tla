------------------------------ MODULE KielSync ------------------------------
(***************************************************************************)
(* The whole system: webhook handlers and sweeper runs over one database,  *)
(* a gateway that changes its mind under them, the host application that   *)
(* opens attempts and starts payments, time, and crashes.                  *)
(***************************************************************************)
EXTENDS WebhookEndpoint, Sweeper

CONSTANTS
  HostTargets,   \* statuses the host itself records: of attempts, and
                 \* MANUAL_REVIEW of flagged transactions
  MaxCrashes     \* bound: workers and runs that die

ASSUME KielSyncAssumption ==
  /\ HostTargets \subseteq {"REDIRECTED", "FAILED", "EXPIRED", "MANUAL_REVIEW"}
  /\ MaxCrashes \in Nat
  /\ Handlers \cap Sweepers = {}
  /\ NoOne \notin Handlers \cup Sweepers
  /\ NoEvent \notin EventIds

VARIABLE crashes

vars == <<ledgerVars, gatewayVars, handlerVars, sweeperVars, crashes>>

Init ==
  /\ LedgerInit
  /\ GatewayInit
  /\ HandlerInit
  /\ SweeperInit
  /\ crashes = 0

(* The host application (not in src/) uses the models as their docs allow. *)
(* It stores an attempt for a transaction that is not over yet...          *)
CreateAttempt(r) ==
  /\ attempt[r] = "ABSENT"
  /\ txn[TxOf[r]].status \in {"CREATED", "PENDING"}
  /\ \A q \in References : TxOf[q] = TxOf[r] /\ q < r => attempt[q] # "ABSENT"
  /\ attempt' = [attempt EXCEPT ![r] = "INITIATED"]
  /\ UNCHANGED <<txn, age, raw, event, holder>>

(* ... moves a transaction to PENDING (a locked row makes it wait) ...     *)
BeginPayment(t) ==
  /\ txn[t].status = "CREATED"
  /\ Unlocked(t)
  /\ txn' = [txn EXCEPT ![t].status = perform_transition(@, "PENDING", TRANSACTION_TRANSITIONS)]
  /\ age' = [age EXCEPT ![t] = 0]
  /\ UNCHANGED <<attempt, raw, event, holder>>

(* ... records what it knows of an attempt ...                             *)
AdvanceByHost(r, to) ==
  /\ attempt[r] # "ABSENT"
  /\ to \in PAYMENT_ATTEMPT_TRANSITIONS[attempt[r]]
  /\ attempt' = [attempt EXCEPT ![r] = perform_transition(@, to, PAYMENT_ATTEMPT_TRANSITIONS)]
  /\ UNCHANGED <<txn, age, raw, event, holder>>

(* ... and a person takes a flagged transaction into review.               *)
Review(t) ==
  /\ "MANUAL_REVIEW" \in HostTargets
  /\ txn[t].recon = "MISMATCHED"
  /\ Unlocked(t)
  /\ txn' = [txn EXCEPT ![t].recon = "MANUAL_REVIEW"]
  /\ age' = [age EXCEPT ![t] = 0]
  /\ UNCHANGED <<attempt, raw, event, holder>>

HostStep ==
  \/ \E r \in References : CreateAttempt(r) \/ \E to \in HostTargets : AdvanceByHost(r, to)
  \/ \E t \in Transactions : BeginPayment(t) \/ Review(t)

(* Ages beyond AgeCap are not told apart: nothing compares beyond it.      *)
AgeCap == AbandonAfter + RunTicks

(* The clock moves. No run lasts longer than RunTicks.                     *)
Tick ==
  /\ \A s \in Sweepers : spc[s] # "idle" => elapsed[s] < RunTicks
  /\ age' = [t \in Transactions |->
               IF txn[t].status = "PENDING" /\ age[t] < AgeCap THEN age[t] + 1 ELSE age[t]]
  /\ elapsed' = [s \in Sweepers |-> IF spc[s] = "idle" THEN 0 ELSE elapsed[s] + 1]
  /\ UNCHANGED <<txn, attempt, raw, event, holder, gatewayVars, handlerVars,
                 spc, filter, batch, item, target, sanswer, scopy, crashes>>

Crash ==
  /\ crashes < MaxCrashes
  /\ crashes' = crashes + 1
  /\ UNCHANGED gatewayVars
  /\ \/ \E h \in Handlers : HandlerCrash(h) /\ UNCHANGED sweeperVars
     \/ \E s \in Sweepers : SweeperCrash(s) /\ UNCHANGED handlerVars

Next ==
  \/ \E h \in Handlers : HandlerStep(h) /\ UNCHANGED <<gatewayVars, sweeperVars, crashes>>
  \/ \E s \in Sweepers : SweeperStep(s) /\ UNCHANGED <<gatewayVars, handlerVars, crashes>>
  \/ /\ \E r \in References : GatewayDecides(r)
     /\ UNCHANGED <<ledgerVars, handlerVars, sweeperVars, crashes>>
  \/ HostStep /\ UNCHANGED <<gatewayVars, handlerVars, sweeperVars, crashes>>
  \/ Tick
  \/ Crash

Spec == Init /\ [][Next]_vars

-----------------------------------------------------------------------------
(* Types of the variables.                                                 *)
LedgerTypeOK ==
  /\ txn \in [Transactions -> Row]
  /\ age \in [Transactions -> Nat]
  /\ attempt \in [References -> AttemptStatus \cup {"ABSENT"}]
  /\ raw \in [References -> Nat]
  /\ event \in [EventIds -> Event]
  /\ holder \in [Transactions -> Handlers \cup Sweepers \cup {NoOne}]

GatewayTypeOK ==
  /\ gw \in [References -> Answer]
  /\ settled \subseteq References

(* A handler past "stored" works for an event about a reference.           *)
HandlerTypeOK ==
  /\ hpc \in [Handlers -> {"idle", "stored", "verified", "locked"}]
  /\ job \in [Handlers -> EventIds \cup {NoEvent}]
  /\ hanswer \in [Handlers -> Verification \cup {NoAnswer}]
  /\ hcopy \in [Handlers -> Row \cup {NoRow}]
  /\ acked \subseteq EventIds

SweeperTypeOK ==
  /\ spc \in [Sweepers -> {"idle", "next", "asking", "open", "verified", "locked"}]
  /\ filter \in [Sweepers -> Gateways \cup {AnyGateway}]
  /\ elapsed \in [Sweepers -> Nat]
  /\ batch \in [Sweepers -> SUBSET Transactions]
  /\ item \in [Sweepers -> Transactions \cup {NoTx}]
  /\ target \in [Sweepers -> References \cup {NoRef}]
  /\ sanswer \in [Sweepers -> Verification \cup {NoAnswer}]
  /\ scopy \in [Sweepers -> Row \cup {NoRow}]

(* Every variable holds values of its kind; a process that works on a row  *)
(* knows which one, and holds the answer and the row it needs.             *)
TypeOK ==
  /\ LedgerTypeOK
  /\ GatewayTypeOK
  /\ HandlerTypeOK
  /\ SweeperTypeOK
  /\ crashes \in Nat
=============================================================================
