------------------------------ MODULE Refunds -------------------------------
(***************************************************************************)
(* refund() of both adapters, for a payment that came the way of MoneyPath *)
(* and was credited. Paystack takes one call; Flutterwave two, as it must  *)
(* first be asked for its own id of the payment and for the currency.      *)
(***************************************************************************)
EXTENDS MoneyPath

CONSTANTS
  Portions,    \* minor units a host may ask back; refund() does not look at them
  Numeric      \* transactions whose reference is all digits

(* Not a number: no amount is given, and no amount is sent.                *)
Everything == 0 - 1

ASSUME RefundsAssumption == Portions \subseteq Nat /\ Numeric \subseteq Transactions

VARIABLES
  wanted,      \* the amount argument of refund()
  known,       \* the currency refund() knows the payment to have
  request,     \* the amount in the request, in grains
  recorded,    \* what the gateway has recorded as refunded, in grains
  phase,       \* where the refund stands at the gateway: queued, done, failed
  result       \* the RefundResult

refundVars == <<wanted, known, request, recorded, phase, result>>

NoResult == [status |-> "none", amount |-> 0]

RefundInit ==
  /\ MoneyInit
  /\ wanted = 0 /\ known = "" /\ request = 0
  /\ recorded = 0 /\ phase = "none"
  /\ result = NoResult

(* A refund is finished in other words than a payment.                     *)
_REFUND_STATUSES(g, word) ==
  CASE word \in (IF g = "PAYSTACK" THEN {"processed"} ELSE {"completed", "successful"})
         -> "SUCCESS"
    [] word = "failed" -> "FAILED"
    [] OTHER -> "PENDING"

(* Mutant: the amount is tested for truth, not for None.                   *)
Mutant_FalsyAmount(currency) ==
  CASE wanted \in {0, Everything} -> Converted(Everything)
    [] wanted \notin {0, Everything} /\ adapter = "FLUTTERWAVE" /\ currency = "" -> Raised
    [] OTHER -> _to_wire_amount(adapter, wanted, currency)

(* The amount to send: none for everything; a part of it is converted, and *)
(* Flutterwave's adapter has to know the currency for that.                *)
RefundAmount(currency) ==
  CASE wanted = Everything -> Converted(Everything)
    [] wanted # Everything /\ adapter = "FLUTTERWAVE" /\ currency = "" -> Raised
    [] OTHER -> _to_wire_amount(adapter, wanted, currency)

(* The refund is asked for, unless its amount cannot be written.           *)
AskRefund(currency) ==
  LET wire == RefundAmount(currency)
  IN  /\ known' = currency
      /\ IF wire.ok
         THEN stage' = "refunding" /\ request' = wire.n
         ELSE stage' = "refunded" /\ UNCHANGED request

(* The host calls refund(), some other day in another process: of the way  *)
(* of the payment nothing is left but its row. A reference of digits is    *)
(* taken for Flutterwave's id; any other is looked up by verify() first.   *)
Refund ==
  /\ stage = "resolved" /\ txn[deal].status = "SUCCESS"
  /\ wanted' \in Portions \cup {Everything}
  /\ stage' = IF adapter = "FLUTTERWAVE" /\ deal \notin Numeric THEN "locating" ELSE "located"
  /\ price' = 0 /\ report' = NoRow
  /\ UNCHANGED <<ledgerVars, callVars, deal, asked, known, request, recorded, phase, result>>

(* Nothing to look up: Paystack takes the reference and minor units, and a *)
(* number tells nothing of the currency.                                   *)
RefundByReference ==
  /\ stage = "located"
  /\ AskRefund("")
  /\ UNCHANGED <<ledgerVars, callVars, deal, price, asked, report, wanted, recorded, phase, result>>

(* The currencies the gateway may give in an answer about the payment: the *)
(* one it was paid in, in any spelling, or none.                           *)
ItsCurrencies == {c \in Currencies : Fold[c] = Fold[Expected[deal].currency]} \cup {""}

(* _resolve_transaction_id() has verify()'s answer: without an id it       *)
(* raises, whatever else the answer says.                                  *)
_resolve_transaction_id ==
  /\ stage = "locating" /\ cpc = "done" /\ outcome = "data"
  /\ \/ stage' = "refunded" /\ UNCHANGED <<known, request>>
     \/ \E currency \in ItsCurrencies : AskRefund(currency)
  /\ NewCall
  /\ UNCHANGED <<ledgerVars, deal, price, asked, report, wanted, recorded, phase, result>>

RefundCalling ==
  /\ stage \in {"locating", "refunding"}
  /\ CallNext
  /\ UNCHANGED <<ledgerVars, moneyVars, refundVars>>

(* Either call raises, and refund() with it: no result.                    *)
RefundRaises ==
  /\ stage \in {"locating", "refunding"} /\ cpc = "done" /\ outcome # "data"
  /\ stage' = "refunded"
  /\ NewCall
  /\ UNCHANGED <<ledgerVars, deal, price, asked, report, refundVars>>

(* The gateway's words for a refund.                                       *)
ItsWordFor(g, p) ==
  CASE p = "done"   -> IF g = "PAYSTACK" THEN "processed" ELSE "completed"
    [] p = "failed" -> "failed"
    [] p = "queued" -> "pending"

(* Mutant: a recorded 0 is passed over as if it were missing.              *)
Mutant_FalsyRefunded(part, whole) == IF part.type = "none" \/ part.n = 0 THEN whole ELSE part

(* The field for the amount refunded goes before the one for the amount.   *)
AmountRefunded(part, whole) == IF part.type = "none" THEN whole ELSE part

(* Mutant: the currency learnt from verify() is forgotten.                 *)
Mutant_NoFallback(word, part, whole, currency) ==
  [status |-> _REFUND_STATUSES(adapter, word),
   amount |-> OrZero(IF adapter = "PAYSTACK" THEN _as_int(whole)
                     ELSE _from_wire_amount(AmountRefunded(part, whole), currency))]

(* The RefundResult of both adapters. Flutterwave's falls back on the      *)
(* currency it knows; what cannot be read is 0.                            *)
RefundResult(word, part, whole, currency) ==
  [status |-> _REFUND_STATUSES(adapter, word),
   amount |-> OrZero(
     IF adapter = "PAYSTACK" THEN _as_int(whole)
     ELSE _from_wire_amount(AmountRefunded(part, whole), IF currency = "" THEN known ELSE currency))]

(* The answer: what is recorded, all of the request or nothing yet. If     *)
(* Flutterwave says how much was refunded, "amount" is the payment's.      *)
RefundReturns ==
  /\ stage = "refunding" /\ cpc = "done" /\ outcome = "data"
  /\ phase' \in {"queued", "done", "failed"}
  /\ LET all == IF request = Everything THEN asked ELSE request
     IN  /\ recorded' \in {0, all}
         /\ phase' = "done" => recorded' = all
  /\ \E type \in JsonTypes, itemized \in BOOLEAN, currency \in ItsCurrencies :
       /\ type = "int" => recorded' % One = 0 /\ asked % One = 0
       /\ report' = [word |-> ItsWordFor(adapter, phase'),
                     amount |-> [type |-> type, n |-> recorded'], currency |-> currency]
       /\ result' =
            LET number(n) == [type |-> type, n |-> n]
            IN  RefundResult(ItsWordFor(adapter, phase'),
                             IF itemized THEN number(recorded') ELSE [type |-> "none"],
                             number(IF itemized /\ adapter = "FLUTTERWAVE" THEN asked ELSE recorded'),
                             currency)
  /\ stage' = "refunded"
  /\ NewCall
  /\ UNCHANGED <<ledgerVars, deal, price, asked, wanted, known, request>>

RefundNext ==
  \/ MoneyNext /\ UNCHANGED refundVars
  \/ Refund \/ RefundByReference \/ _resolve_transaction_id
  \/ RefundCalling \/ RefundRaises \/ RefundReturns

RefundSpec == RefundInit /\ [][RefundNext]_<<allVars, refundVars>>

-----------------------------------------------------------------------------
RefundStages == {"locating", "located", "refunding", "refunded"}

(* The stages in which the payment has been asked for.                     *)
AskedStages == {"initializing", "asked", "reported", "resolved"} \cup RefundStages

(* The row before initialize() returned, and after.                        *)
Opened == [status |-> "CREATED", recon |-> "UNRECONCILED"]
Awaiting == [status |-> "PENDING", recon |-> "UNRECONCILED"]

(* The inductive invariant of the way: what was asked is the stored amount *)
(* in the gateway's units; the row is what resolve_transaction makes of    *)
(* the report and of nothing else; what is asked back is the wanted amount *)
(* in those units (initialize, verify, resolve_transaction, refund).       *)
MoneyIsSound ==
  LET expected == Expected[deal]
      v == VerificationFrom(adapter, report)
  IN  /\ deal \in Transactions /\ adapter \in GatewayNames /\ txn \in [Transactions -> Row]
      /\ stage \in {"new", "stored", "refused"} \cup AskedStages
      /\ price # 0 => price \in Nat
                        /\ to_minor_units(price, expected.currency) = Converted(expected.amount)
      /\ stage \in AskedStages =>
           _to_wire_amount(adapter, expected.amount, expected.currency) = Converted(asked)
      /\ stage \in {"new", "stored", "initializing"} => txn[deal] = Opened
      /\ stage \in {"asked", "reported"} => txn[deal] = Awaiting
      /\ stage \in {"reported", "resolved"} =>
           report \in [word : StatusWords, amount : [type : JsonTypes, n : Nat], currency : Currencies]
      /\ stage = "resolved" =>
           txn[deal] = RowAfter(Awaiting, Awaiting, Resolve(deal, Awaiting, v))
      /\ stage \in RefundStages => wanted \in Portions \cup {Everything}
      /\ stage = "refunding" =>
           RefundAmount(known) = Converted(request) /\ known \in ItsCurrencies

(* A gateway that accepts a refund pays back what the host wanted: all of  *)
(* it only if no amount was given, else that number of minor units of the  *)
(* payment's currency, which for Flutterwave is not the host's to say      *)
(* (paystack.refund, flutterwave.refund).                                  *)
PaysBackTheWanted ==
  stage = "refunding" /\ decision = "accepted" =>
    IF wanted = Everything THEN request = Everything
    ELSE request # Everything /\ Worth(adapter, Expected[deal].currency, request, wanted)

(* A number that the adapter can read: of a type it takes, and for         *)
(* Flutterwave in a currency it has in its table, given in the answer or   *)
(* known from the one before.                                              *)
Legible ==
  /\ report.amount.type \in NumberTypes[adapter]
  /\ adapter = "FLUTTERWAVE" => Known(IF report.currency = "" THEN known ELSE report.currency)

(* A RefundResult is true: a refund counts as done or failed if and only   *)
(* if it is, and its amount is what the gateway has recorded, in minor     *)
(* units, in whichever field and type the gateway says it, and 0 if the    *)
(* number cannot be read and only then (base.RefundResult, which has no    *)
(* currency; both adapters' refund).                                       *)
ResultIsTrue ==
  result # NoResult =>
    /\ (result.status = "SUCCESS") <=> (phase = "done")
    /\ (result.status = "FAILED") <=> (phase = "failed")
    /\ IF Legible THEN Worth(adapter, Expected[deal].currency, recorded, result.amount)
       ELSE result.amount = 0
=============================================================================
