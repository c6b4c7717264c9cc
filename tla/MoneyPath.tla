----------------------------- MODULE MoneyPath ------------------------------
(***************************************************************************)
(* The way of one amount of money through the library: priced by the host, *)
(* stored in minor units, asked for by an adapter's initialize() in the    *)
(* gateway's units, reported back in the gateway's own words, read by the  *)
(* adapter's verify() and compared by resolve_transaction. Both calls go   *)
(* through the adapter's _call (module GatewayCall) and may fail.          *)
(***************************************************************************)
EXTENDS Ledger, Currency, GatewayCall

CONSTANTS
  Prices,      \* amounts a host may name, in grains
  StatusWords, \* what a gateway may call the state of a transaction
  Slips        \* grains by which the amount paid may miss the one asked for

(* No currency with a code of its own folds into another.                  *)
ASSUME MoneyAssumption ==
  /\ Prices \subseteq Nat /\ Slips \subseteq Int
  /\ \A c \in Currencies : Known(c) => Fold[c] = c

(* How a number may be written in JSON: padded is "5000.00".               *)
JsonTypes == {"int", "float", "str", "padded", "bool", "none"}

VARIABLES
  stage,       \* new, stored, initializing, asked, reported, resolved or refused
  deal,        \* the transaction
  price,       \* what the host converted into the stored amount; 0 if nothing
  asked,       \* the number sent to the gateway, in grains
  report       \* the data of the last answer that carried an amount

moneyVars == <<stage, deal, price, asked, report>>

allVars == <<ledgerVars, callVars, moneyVars>>

MoneyInit ==
  /\ LedgerInit
  /\ CallInit
  /\ stage = "new" /\ price = 0 /\ asked = 0
  /\ deal \in Transactions
  /\ report = NoRow

(* The tables of both adapters: any other word is PENDING.                 *)
SuccessWords == [g \in GatewayNames |->
  IF g = "PAYSTACK" THEN {"success"} ELSE {"successful", "success", "completed"}]

FailureWords == [g \in GatewayNames |->
  IF g = "PAYSTACK" THEN {"failed", "reversed"} ELSE {"failed", "cancelled", "canceled"}]

_map_status(g, word) ==
  CASE word \in SuccessWords[g] -> "SUCCESS"
    [] word \in FailureWords[g] -> "FAILED"
    [] OTHER -> "PENDING"

(* The JSON types in which an adapter reads a number.                      *)
NumberTypes == [g \in GatewayNames |->
  IF g = "PAYSTACK" THEN {"int", "str"} ELSE {"int", "float", "str", "padded"}]

(* Mutant: digits in a string are not read.                                *)
Mutant_IntOnly(amount) ==
  IF amount.type = "int" THEN Converted(amount.n \div One) ELSE Raised

(* Paystack's amounts are minor units: an integer or its digits, else none.*)
_as_int(amount) ==
  IF amount.type \in NumberTypes["PAYSTACK"] /\ amount.n % One = 0
  THEN Converted(amount.n \div One) ELSE Raised

(* Mutant: a float is no amount.                                           *)
Mutant_NoFloat(amount, currency) ==
  IF amount.type \in {"int", "str", "padded"} THEN from_major_units(amount.n, currency) ELSE Raised

(* Flutterwave's are major units, and need a currency to be read.          *)
_from_wire_amount(amount, currency) ==
  IF amount.type \in NumberTypes["FLUTTERWAVE"]
  THEN from_major_units(amount.n, currency) ELSE Raised

(* What cannot be read becomes 0, which no transaction expects.            *)
OrZero(result) == IF result.ok THEN result.n ELSE 0

(* verify() of both adapters, given the answer of the gateway.             *)
VerificationFrom(g, answer) ==
  [ref      |-> NoRef,
   status   |-> _map_status(g, answer.word),
   amount   |-> OrZero(IF g = "PAYSTACK" THEN _as_int(answer.amount)
                       ELSE _from_wire_amount(answer.amount, answer.currency)),
   currency |-> answer.currency]

(* The amount in the request: Paystack is sent the stored integer; for     *)
(* Flutterwave it is converted, and a currency without an exponent refused.*)
_to_wire_amount(g, minor, currency) ==
  IF g = "PAYSTACK" THEN Converted(minor * One) ELSE to_major_units(minor, currency)

(* The host stores minor units, its own or converted from a price.         *)
Store ==
  /\ stage = "new"
  /\ \/ price' = 0
     \/ \E d \in Prices :
          /\ to_minor_units(d, Expected[deal].currency) = Converted(Expected[deal].amount)
          /\ price' = d
  /\ stage' = "stored"
  /\ UNCHANGED <<ledgerVars, callVars, deal, asked, report>>

(* initialize(), up to the call.                                           *)
Initialize ==
  /\ stage = "stored"
  /\ LET wire == _to_wire_amount(adapter, Expected[deal].amount, Expected[deal].currency)
     IN  IF wire.ok
         THEN asked' = wire.n /\ stage' = "initializing"
         ELSE stage' = "refused" /\ UNCHANGED asked
  /\ UNCHANGED <<ledgerVars, callVars, deal, price, report>>

(* Either call, as long as it lasts.                                       *)
Calling ==
  /\ stage \in {"initializing", "asked"}
  /\ CallNext
  /\ UNCHANGED <<ledgerVars, moneyVars>>

(* initialize() raises if the call did, or if there is no checkout link in *)
(* the data; if it returns, the host moves the transaction to PENDING.     *)
InitializeReturns ==
  /\ stage = "initializing" /\ cpc = "done"
  /\ \/ /\ outcome = "data"
        /\ stage' = "asked"
        /\ txn' = [txn EXCEPT ![deal].status = "PENDING"]
     \/ /\ stage' = "refused"
        /\ UNCHANGED txn
  /\ NewCall
  /\ UNCHANGED <<age, attempt, raw, event, holder, deal, price, asked, report>>

(* verify() raises if its call did, and is called again some other time.   *)
VerifyFails ==
  /\ stage = "asked" /\ cpc = "done" /\ outcome # "data"
  /\ NewCall
  /\ UNCHANGED <<ledgerVars, moneyVars>>

(* The data of the answer: any word, a number near the one it was asked    *)
(* for, written in any way that can hold it, and any currency.             *)
Report ==
  /\ stage = "asked" /\ cpc = "done" /\ outcome = "data"
  /\ \E word \in StatusWords, slip \in Slips, type \in JsonTypes, currency \in Currencies :
       /\ asked + slip >= 0
       /\ type = "int" => (asked + slip) % One = 0
       /\ report' = [word |-> word, amount |-> [type |-> type, n |-> asked + slip],
                     currency |-> currency]
  /\ stage' = "reported"
  /\ NewCall
  /\ UNCHANGED <<ledgerVars, deal, price, asked>>

ResolveReport ==
  /\ stage = "reported"
  /\ LET v == VerificationFrom(adapter, report)
     IN  txn' = [txn EXCEPT ![deal] = RowAfter(@, @, Resolve(deal, @, v))]
  /\ stage' = "resolved"
  /\ UNCHANGED <<age, attempt, raw, event, holder, callVars, deal, price, asked, report>>

MoneyNext ==
  \/ Store \/ Initialize \/ Calling \/ InitializeReturns
  \/ VerifyFails \/ Report \/ ResolveReport

-----------------------------------------------------------------------------
(* A number of grains at a gateway is worth a number of minor units:       *)
(* stated without the conversions, as a proportion.                        *)
Worth(g, currency, grains, minor) ==
  grains * (IF g = "FLUTTERWAVE" /\ CURRENCY_EXPONENTS[currency] = 2 THEN 100 ELSE 1)
    = minor * One

(* Neither adapter asks for another amount than the one stored: not a      *)
(* hundredth of it, not a hundred times it, in any currency it accepts     *)
(* (paystack.initialize, flutterwave._to_wire_amount).                     *)
AskedIsStored ==
  stage \in {"initializing", "asked", "reported", "resolved"}
    /\ Known(Expected[deal].currency) =>
    Worth(adapter, Expected[deal].currency, asked, Expected[deal].amount)

(* What a payer is asked for is the price the host named, to the last      *)
(* grain if the currency can hold it, and to the nearest minor unit if     *)
(* not: the conversions in and out do not add up to another amount         *)
(* (currency.to_minor_units, to_major_units). That a price may be rounded  *)
(* at all is what ConversionRefusesToRound is about.                       *)
AskedIsPriced ==
  stage \in {"initializing", "asked", "reported", "resolved"} /\ price # 0 =>
    LET minors == IF CURRENCY_EXPONENTS[Expected[deal].currency] = 2 THEN 100 ELSE 1
        error  == price * minors - asked * (IF adapter = "FLUTTERWAVE" THEN minors ELSE 1)
    IN  /\ (price * minors) % One = 0 => error = 0
        /\ 2 * error <= One /\ 0 - 2 * error <= One

(* README.md:185 "Conversion refuses to round. An amount carrying more     *)
(* precision than the currency can represent raises rather than quietly    *)
(* losing the remainder": a price that was converted is the amount stored. *)
ConversionRefusesToRound ==
  price # 0 => price = Expected[deal].amount * Unit(Expected[deal].currency)

(* A payment is credited only if the gateway said so in its own word for   *)
(* it and reported the stored amount to the last grain, in the right       *)
(* currency: no unit error, unreadable number or lost fraction on the way  *)
(* out and back makes another amount look right.                           *)
CreditedToTheGrain ==
  stage = "resolved" /\ txn[deal].status = "SUCCESS" =>
    /\ report.word \in SuccessWords[adapter]
    /\ report.amount.n = asked
    /\ Fold[report.currency] = Fold[Expected[deal].currency]

(* Every payment in full is credited: in any JSON type of number that the  *)
(* adapter's gateway sends, floats of Flutterwave's included, and at       *)
(* Paystack in any spelling of the currency. (Flutterwave's amounts are    *)
(* read by their currency, which has to be spelled as the table has it:    *)
(* flutterwave._from_wire_amount.) What is paid but not credited is        *)
(* flagged, whatever was wrong with the report.                            *)
PaidInFullIsCredited ==
  stage = "resolved" /\ report.word \in SuccessWords[adapter] =>
    \/ txn[deal] = [status |-> "SUCCESS", recon |-> "MATCHED"]
    \/ /\ txn[deal].recon = "MISMATCHED"
       /\ \/ report.amount.n # asked
          \/ report.amount.type \notin NumberTypes[adapter]
          \/ IF adapter = "PAYSTACK" THEN Fold[report.currency] # Fold[Expected[deal].currency]
             ELSE report.currency # Expected[deal].currency
=============================================================================
