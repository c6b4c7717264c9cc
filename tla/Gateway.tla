------------------------------ MODULE Gateway -------------------------------
(***************************************************************************)
(* The payment gateway, as the adapters' verify() sees it. It is not part  *)
(* of the repository: this is what the code of src/ assumes of it. What a  *)
(* verify() call returns is a snapshot, used by its caller some time after *)
(* the gateway has moved on.                                               *)
(***************************************************************************)
EXTENDS Ledger

CONSTANTS
  Reported,     \* Reported[r]: the reference found in the answer about r
  Payments,     \* the money a payer may end up having paid
  MaxVersion    \* bound: how often the gateway changes its mind on one r

ASSUME GatewayAssumption ==
  /\ Reported \in [References -> Nat \ {0}]
  /\ Payments \subseteq Money
  /\ MaxVersion \in Nat

VARIABLES
  gw,           \* the gateway's present answer about each reference
  settled       \* history: references once paid with the expected money

gatewayVars == <<gw, settled>>

PaymentStatus == {"PENDING", "SUCCESS", "FAILED"}

(* A VerificationResult, with the reference that was asked for and the     *)
(* version of the gateway's answer beside it (raw stands for the version). *)
Verification ==
  [asked : References, ref : Nat, status : PaymentStatus, amount : Amounts,
   currency : Currencies, version : Nat]

Answer == [status : PaymentStatus, amount : Amounts, currency : Currencies, version : Nat]

NoAnswer == [status |-> "NONE"]

(* The money of a payment that did not (yet) happen: an amount the adapter *)
(* cannot read becomes 0, and the amount > 0 constraint keeps 0 from ever  *)
(* being expected.                                                         *)
NothingPaid(r) == [amount |-> 0, currency |-> Expected[TxOf[r]].currency]

GatewayInit ==
  /\ gw = [r \in References |-> [status |-> "PENDING", amount |-> 0,
             currency |-> Expected[TxOf[r]].currency, version |-> 0]]
  /\ settled = {}

(* verify(): what the caller gets for the reference r at this moment.      *)
Verify(r) ==
  [asked |-> r, ref |-> Reported[r], status |-> gw[r].status, amount |-> gw[r].amount,
   currency |-> gw[r].currency, version |-> gw[r].version]

(* Evidence that the transaction of r was paid for, in full.               *)
Paid(r, v) == v.status = "SUCCESS" /\ ~Mismatch(TxOf[r], v)

(* A checkout page lets the payer try again after a failure, and a         *)
(* reversed payment turns from success to failed.                          *)
GatewayMoves ==
  [status \in PaymentStatus |->
     CASE status = "PENDING" -> {"SUCCESS", "FAILED"}
       [] status = "FAILED"  -> {"SUCCESS"}
       [] status = "SUCCESS" -> {"FAILED"}]

GatewayDecides(r) ==
  /\ gw[r].version < MaxVersion
  /\ \E status \in GatewayMoves[gw[r].status] :
     \E m \in (IF status = "SUCCESS" THEN Payments ELSE {NothingPaid(r)}) :
       LET answer == [status |-> status, amount |-> m.amount,
                      currency |-> m.currency, version |-> gw[r].version + 1]
       IN  /\ gw' = [gw EXCEPT ![r] = answer]
           /\ settled' = IF Paid(r, answer) THEN settled \cup {r} ELSE settled
=============================================================================
