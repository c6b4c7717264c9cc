----------------------------- MODULE MoneyProofs -----------------------------
(***************************************************************************)
(* The way of the money and the calls it takes, for every amount, every    *)
(* grain of it, every price and everything a gateway may answer.           *)
(***************************************************************************)
EXTENDS Refunds, LedgerProofs

-----------------------------------------------------------------------------
(* One call, module GatewayCall.                                           *)

(* Nothing is known of a call before it ends, and at its end the verdict   *)
(* is right.                                                               *)
CallIsSound ==
  /\ adapter \in GatewayNames
  /\ cpc # "done" => outcome = "none" /\ response = NoResponse
  /\ DataMeansAccepted /\ RefusalsAreFinal /\ OutagesAreRetryable

LEMMA RespondSound ==
  ASSUME CallIsSound, Respond
  PROVE  CallIsSound'
<1>1. PICK r \in Responses : Truthful(r) /\ response' = r /\ outcome' = _call(r)
  BY DEF Respond
<1>2. cpc' = "done" /\ UNCHANGED <<adapter, decision, failure>>
  BY DEF Respond
<1>3. CASE Succeeded(r)
  <2>1. outcome' = "data" /\ decision = "accepted"
    BY <1>1, <1>3 DEF _call, Succeeded, Truthful, SaysYes
  <2>2. QED
    BY <1>2, <2>1 DEF CallIsSound, DataMeansAccepted, RefusalsAreFinal, OutagesAreRetryable
<1>4. CASE ~Succeeded(r)
  <2>1. outcome' = classify(r.http, CodeOf(r), "none") /\ outcome' # "data"
    BY <1>1, <1>4 DEF _call, classify
  <2>2. r.json => Folded[CodeOf(r)] = ItsWord(r)
    BY DEF CodeOf, ItsWord
  <2>3. decision = "declined" /\ r.json =>
          \/ outcome' = "TERMINAL"
          \/ ItsWord(r) \notin TERMINAL_GATEWAY_CODES /\ (r.http = 429 \/ r.http \in 500 .. 599)
    <3>1. ASSUME decision = "declined", r.json PROVE ItsWord(r) \notin RETRYABLE_GATEWAY_CODES
      BY <1>1, <3>1 DEF Truthful
    <3>2. QED
      BY <2>1, <2>2, <3>1 DEF classify, _RETRYABLE_EXCEPTIONS
  <2>4. r.json /\ ItsWord(r) \in RETRYABLE_GATEWAY_CODES => outcome' = "RETRYABLE"
    BY <2>1, <2>2 DEF classify
  <2>5. ItsWord(response)' = ItsWord(r)
    BY <1>1 DEF ItsWord
  <2>6. QED
    BY <1>1, <1>2, <2>1, <2>3, <2>4, <2>5
       DEF CallIsSound, DataMeansAccepted, RefusalsAreFinal, OutagesAreRetryable
<1>5. QED
  BY <1>3, <1>4

LEMMA CallStepSound ==
  ASSUME CallIsSound, CallNext \/ NewCall \/ UNCHANGED callVars
  PROVE  CallIsSound'
<1>1. CASE Send
  BY <1>1 DEF Send, CallIsSound, DataMeansAccepted, RefusalsAreFinal, OutagesAreRetryable,
              classify, ItsWord
<1>2. CASE GatewayActs
  BY <1>2 DEF GatewayActs, CallIsSound, DataMeansAccepted, RefusalsAreFinal,
              OutagesAreRetryable, ItsWord
<1>3. CASE ConnectionFails
  BY <1>3 DEF ConnectionFails, CallIsSound, DataMeansAccepted, RefusalsAreFinal,
              OutagesAreRetryable, classify, ItsWord
<1>4. CASE Respond
  BY <1>4, RespondSound
<1>5. CASE NewCall
  BY <1>5 DEF NewCall, CallIsSound, DataMeansAccepted, RefusalsAreFinal, OutagesAreRetryable
<1>6. CASE UNCHANGED callVars
  BY <1>6 DEF callVars, CallIsSound, DataMeansAccepted, RefusalsAreFinal,
              OutagesAreRetryable, ItsWord
<1>7. QED
  BY <1>1, <1>2, <1>3, <1>4, <1>5, <1>6 DEF CallNext

(* Whatever the money does, a call does only this.                         *)
LEMMA MoneyStepCalls ==
  ASSUME [RefundNext]_<<allVars, refundVars>>
  PROVE  CallNext \/ NewCall \/ UNCHANGED callVars
<1>1. CASE MoneyNext
  BY <1>1 DEF MoneyNext, Store, Initialize, Calling, InitializeReturns, VerifyFails, Report,
              ResolveReport, callVars
<1>2. CASE Refund \/ RefundByReference \/ _resolve_transaction_id
  BY <1>2 DEF Refund, RefundByReference, _resolve_transaction_id, callVars
<1>3. CASE RefundCalling \/ RefundRaises \/ RefundReturns
  BY <1>3 DEF RefundCalling, RefundRaises, RefundReturns, callVars
<1>4. CASE UNCHANGED <<allVars, refundVars>>
  BY <1>4 DEF allVars
<1>5. QED
  BY <1>1, <1>2, <1>3, <1>4 DEF RefundNext

THEOREM CallsStaySound == RefundSpec => []CallIsSound
<1>1. RefundInit => CallIsSound
  BY DEF RefundInit, MoneyInit, CallInit, CallIsSound, DataMeansAccepted, RefusalsAreFinal,
         OutagesAreRetryable
<1>2. CallIsSound /\ [RefundNext]_<<allVars, refundVars>> => CallIsSound'
  BY MoneyStepCalls, CallStepSound
<1>3. QED
  BY <1>1, <1>2, PTL DEF RefundSpec

(* Data that an adapter hands on answers a request the gateway accepted    *)
(* (both _call).                                                           *)
THEOREM DataIsAnAnswer == RefundSpec => []DataMeansAccepted
<1>1. CallIsSound => DataMeansAccepted
  BY DEF CallIsSound
<1>2. QED
  BY <1>1, CallsStaySound, PTL

(* What the gateway refused is TERMINAL, unless it did so in words that    *)
(* are in no table and under the status of an overload or an outage        *)
(* (errors.classify).                                                      *)
THEOREM RefusedIsTerminal == RefundSpec => []RefusalsAreFinal
<1>1. CallIsSound => RefusalsAreFinal
  BY DEF CallIsSound
<1>2. QED
  BY <1>1, CallsStaySound, PTL

(* What it calls an outage in its own words is RETRYABLE.                  *)
THEOREM OutageIsRetryable == RefundSpec => []OutagesAreRetryable
<1>1. CallIsSound => OutagesAreRetryable
  BY DEF CallIsSound
<1>2. QED
  BY <1>1, CallsStaySound, PTL

-----------------------------------------------------------------------------
(* Units.                                                                  *)

LEMMA UnitsScale ==
  ASSUME NEW c, Known(c)
  PROVE  /\ Scale(c) \in {1, 100}
         /\ Unit(c) \in Nat \ {0}
         /\ \A n \in Nat : (n * Unit(c)) * Scale(c) = n * One
<1>1. PICK k \in Nat : One = 100 * k /\ k > 0
  <2>1. One = 100 * (One \div 100) /\ One \div 100 \in Nat /\ One \div 100 > 0
    BY CurrencyAssumption
  <2>2. QED
    BY <2>1
<1>2. CASE Scale(c) = 100
  <2>1. Unit(c) = k
    BY <1>1, <1>2 DEF Unit
  <2>2. \A n \in Nat : (n * k) * 100 = n * (100 * k)
    BY <1>1
  <2>3. QED
    BY <1>1, <1>2, <2>1, <2>2
<1>3. CASE Scale(c) = 1
  <2>1. Unit(c) = One
    BY <1>1, <1>3 DEF Unit
  <2>2. QED
    BY <1>1, <1>3, <2>1
<1>4. QED
  BY <1>2, <1>3 DEF Scale

(* The number that either adapter writes for an amount is worth it.        *)
LEMMA WireIsWorth ==
  ASSUME NEW g \in GatewayNames, NEW minor \in Nat, NEW c, NEW n,
         _to_wire_amount(g, minor, c) = Converted(n)
  PROVE  /\ n \in Nat
         /\ g = "FLUTTERWAVE" => Known(c)
         /\ Worth(g, c, n, minor)
<1>1. One \in Nat
  BY CurrencyAssumption
<1>2. CASE g = "PAYSTACK"
  <2>1. n = minor * One
    BY <1>2 DEF _to_wire_amount, Converted
  <2>2. n \in Nat
    BY <1>1, <2>1
  <2>3. QED
    BY <1>2, <2>1, <2>2 DEF Worth
<1>3. CASE g = "FLUTTERWAVE"
  <2>1. Known(c) /\ n = minor * Unit(c)
    BY <1>3 DEF _to_wire_amount, to_major_units, Converted, Raised
  <2>2. Unit(c) \in Nat /\ n * Scale(c) = minor * One
    BY <2>1, UnitsScale
  <2>3. n \in Nat
    BY <2>1, <2>2
  <2>4. n * (IF CURRENCY_EXPONENTS[c] = 2 THEN 100 ELSE 1) = minor * One
    BY <2>2 DEF Scale
  <2>5. QED
    BY <1>3, <2>1, <2>3, <2>4 DEF Worth
<1>4. QED
  BY <1>2, <1>3 DEF GatewayNames

LEMMA DivisionRestores ==
  ASSUME NEW n \in Nat, NEW u \in Nat \ {0}
  PROVE  n = u * (n \div u) + (n % u)
OBVIOUS

(* A number that is read as an amount, in the currency that was written,   *)
(* is the number that was written for it.                                  *)
LEMMA ReadIsWritten ==
  ASSUME NEW minor \in Nat, NEW c, Known(c), NEW n \in Nat, n % Unit(c) = 0,
         n \div Unit(c) = minor
  PROVE  n = minor * Unit(c)
<1>1. PICK u \in Nat \ {0} : u = Unit(c)
  BY UnitsScale
<1>2. n = u * (n \div u) + (n % u)
  BY DivisionRestores
<1>3. QED
  BY <1>1, <1>2

LEMMA ReadIsWhole ==
  ASSUME NEW minor \in Nat, NEW n \in Nat, n % One = 0, n \div One = minor
  PROVE  n = minor * One
<1>1. PICK u \in Nat \ {0} : u = One
  BY CurrencyAssumption
<1>2. n = u * (n \div u) + (n % u)
  BY DivisionRestores
<1>3. QED
  BY <1>1, <1>2

-----------------------------------------------------------------------------
(* The invariant of the way.                                               *)

LEMMA VerificationType ==
  ASSUME NEW g, NEW answer
  PROVE  VerificationFrom(g, answer).status \in AnswerStatus
BY DEF VerificationFrom, _map_status, AnswerStatus

(* A step of a call, or none: the money stands still.                      *)
LEMMA StillSound ==
  ASSUME MoneyIsSound,
         UNCHANGED <<adapter, txn, moneyVars, wanted, known, request>>
  PROVE  MoneyIsSound'
BY DEF MoneyIsSound, moneyVars, RefundAmount, ItsCurrencies

LEMMA CallKeepsAdapter ==
  ASSUME CallNext \/ NewCall
  PROVE  adapter' = adapter
BY DEF CallNext, Send, GatewayActs, ConnectionFails, Respond, NewCall

LEMMA StoreSound ==
  ASSUME MoneyIsSound, Store, UNCHANGED refundVars
  PROVE  MoneyIsSound'
<1>1. /\ stage = "new" /\ stage' = "stored"
      /\ UNCHANGED <<txn, adapter, deal, asked, report, wanted, known, request>>
  BY DEF Store, ledgerVars, callVars, refundVars
<1>2. price' # 0 => price' \in Nat /\ to_minor_units(price', Expected[deal].currency) = Converted(Expected[deal].amount)
  BY MoneyAssumption DEF Store
<1>3. QED
  BY <1>1, <1>2 DEF MoneyIsSound, AskedStages, RefundStages

LEMMA InitializeSound ==
  ASSUME MoneyIsSound, Initialize, UNCHANGED refundVars
  PROVE  MoneyIsSound'
<1>1. /\ stage = "stored" /\ UNCHANGED <<txn, adapter, deal, price, report, wanted, known, request>>
  BY DEF Initialize, ledgerVars, callVars, refundVars
<1> DEFINE wire == _to_wire_amount(adapter, Expected[deal].amount, Expected[deal].currency)
<1>2. CASE wire.ok
  <2>1. stage' = "initializing" /\ asked' = wire.n
    BY <1>2 DEF Initialize
  <2>2. wire = Converted(wire.n)
    BY <1>2 DEF _to_wire_amount, to_major_units, Converted, Raised
  <2>3. QED
    BY <1>1, <2>1, <2>2 DEF MoneyIsSound, AskedStages, RefundStages
<1>3. CASE ~wire.ok
  <2>1. stage' = "refused" /\ asked' = asked
    BY <1>3 DEF Initialize
  <2>2. QED
    BY <1>1, <2>1 DEF MoneyIsSound, AskedStages, RefundStages
<1>4. QED
  BY <1>2, <1>3

LEMMA InitializeReturnsSound ==
  ASSUME MoneyIsSound, InitializeReturns, UNCHANGED refundVars
  PROVE  MoneyIsSound'
<1>1. /\ stage = "initializing" /\ NewCall
      /\ UNCHANGED <<deal, price, asked, report, wanted, known, request>>
  BY DEF InitializeReturns, refundVars
<1>2. adapter' = adapter
  BY <1>1, CallKeepsAdapter
<1>3. CASE stage' = "asked" /\ txn' = [txn EXCEPT ![deal].status = "PENDING"]
  <2>1. txn \in [Transactions -> Row] /\ deal \in Transactions /\ txn[deal] = Opened
    BY <1>1 DEF MoneyIsSound
  <2>2. txn'[deal] = Awaiting
    BY <1>3, <2>1 DEF Opened, Awaiting
  <2>3. Awaiting \in Row
    BY DEF Awaiting, Row, TransactionStatus, ReconciliationStatus
  <2>4. txn' = [txn EXCEPT ![deal] = Awaiting]
    <3>1. [Opened EXCEPT !.status = "PENDING"] = Awaiting
      BY DEF Opened, Awaiting
    <3>2. QED
      BY <1>3, <2>1, <3>1
  <2>5. txn' \in [Transactions -> Row]
    BY <2>1, <2>3, <2>4
  <2>6. QED
    BY <1>1, <1>2, <1>3, <2>2, <2>5 DEF MoneyIsSound, AskedStages, RefundStages
<1>4. CASE stage' = "refused" /\ UNCHANGED txn
  BY <1>1, <1>2, <1>4 DEF MoneyIsSound, AskedStages, RefundStages
<1>5. QED
  BY <1>3, <1>4 DEF InitializeReturns

LEMMA ReportSound ==
  ASSUME MoneyIsSound, Report, UNCHANGED refundVars
  PROVE  MoneyIsSound'
<1>1. /\ stage = "asked" /\ stage' = "reported" /\ NewCall
      /\ UNCHANGED <<txn, deal, price, asked, wanted, known, request>>
  BY DEF Report, ledgerVars, refundVars
<1>2. adapter' = adapter
  BY <1>1, CallKeepsAdapter
<1>3. PICK word \in StatusWords, slip \in Slips, type \in JsonTypes, currency \in Currencies :
        /\ asked + slip >= 0
        /\ report' = [word |-> word, amount |-> [type |-> type, n |-> asked + slip],
                      currency |-> currency]
  BY DEF Report
<1>4. asked \in Nat
  <2>1. /\ deal \in Transactions /\ adapter \in GatewayNames
        /\ _to_wire_amount(adapter, Expected[deal].amount, Expected[deal].currency) = Converted(asked)
    BY <1>1 DEF MoneyIsSound, AskedStages
  <2>2. Expected[deal].amount \in Nat
    BY <2>1, LedgerAssumption DEF Money
  <2>3. QED
    BY <2>1, <2>2, WireIsWorth
<1>5. asked + slip \in Nat
  BY <1>3, <1>4, MoneyAssumption
<1>6. report' \in [word : StatusWords, amount : [type : JsonTypes, n : Nat], currency : Currencies]
  BY <1>3, <1>5
<1>7. QED
  BY <1>1, <1>2, <1>6 DEF MoneyIsSound, AskedStages, RefundStages

LEMMA ResolveReportSound ==
  ASSUME MoneyIsSound, ResolveReport, UNCHANGED refundVars
  PROVE  MoneyIsSound'
<1> DEFINE v == VerificationFrom(adapter, report)
<1>1. /\ stage = "reported" /\ stage' = "resolved"
      /\ txn' = [txn EXCEPT ![deal] = RowAfter(@, @, Resolve(deal, @, v))]
      /\ UNCHANGED <<adapter, deal, price, asked, report, wanted, known, request>>
  BY DEF ResolveReport, callVars, refundVars
<1>2. v.status \in AnswerStatus
  BY VerificationType
<1> HIDE DEF v
<1>3. txn[deal] = Awaiting /\ deal \in Transactions /\ txn \in [Transactions -> Row]
  BY <1>1 DEF MoneyIsSound
<1>4. RowAfter(Awaiting, Awaiting, Resolve(deal, Awaiting, v)) \in Row
  <2>1. Awaiting \in Row
    BY <1>3
  <2>2. Resolve(deal, Awaiting, v) \in Resolutions
    BY <1>2, <2>1, ResolveType
  <2>3. QED
    BY <2>1, <2>2, RowAfterType
<1>5. /\ txn'[deal] = RowAfter(Awaiting, Awaiting, Resolve(deal, Awaiting, v))
      /\ txn' \in [Transactions -> Row]
  BY <1>1, <1>3, <1>4
<1>6. v' = v
  BY <1>1 DEF v
<1>7. QED
  BY <1>1, <1>4, <1>5, <1>6 DEF MoneyIsSound, AskedStages, RefundStages, v

(* The host asks for a refund, or a lookup or a refund raises.             *)
LEMMA RefundStagesSound ==
  ASSUME MoneyIsSound, Refund \/ RefundRaises
  PROVE  MoneyIsSound'
<1>1. CASE Refund
  <2>1. /\ stage = "resolved" /\ stage' \in {"locating", "located"}
        /\ wanted' \in Portions \cup {Everything} /\ price' = 0
        /\ UNCHANGED <<txn, adapter, deal, asked, known, request>>
    BY <1>1 DEF Refund, ledgerVars, callVars
  <2>2. QED
    BY <2>1 DEF MoneyIsSound, AskedStages, RefundStages
<1>2. CASE RefundRaises
  <2>1. /\ stage \in {"locating", "refunding"} /\ stage' = "refunded" /\ NewCall
        /\ UNCHANGED <<txn, deal, price, asked, report, wanted, known, request>>
    BY <1>2 DEF RefundRaises, ledgerVars, refundVars
  <2>2. adapter' = adapter
    BY <2>1, CallKeepsAdapter
  <2>3. QED
    BY <2>1, <2>2 DEF MoneyIsSound, AskedStages, RefundStages
<1>3. QED
  BY <1>1, <1>2

LEMMA AskRefundSound ==
  ASSUME MoneyIsSound, stage \in {"locating", "located"},
         NEW currency \in ItsCurrencies, AskRefund(currency),
         UNCHANGED <<adapter, txn, deal, price, asked, report, wanted>>
  PROVE  MoneyIsSound'
<1> DEFINE wire == RefundAmount(currency)
<1>1. known' = currency /\ RefundAmount(currency)' = wire /\ ItsCurrencies' = ItsCurrencies
  BY DEF AskRefund, RefundAmount, ItsCurrencies
<1>2. CASE wire.ok
  <2>1. stage' = "refunding" /\ request' = wire.n
    BY <1>2 DEF AskRefund
  <2>2. wire = Converted(wire.n)
    BY <1>2 DEF RefundAmount, _to_wire_amount, to_major_units, Converted, Raised
  <2>3. (RefundAmount(known) = Converted(request))'
    BY <1>1, <2>1, <2>2 DEF RefundAmount
  <2>4. QED
    BY <1>1, <2>1, <2>3 DEF MoneyIsSound, AskedStages, RefundStages
<1>3. CASE ~wire.ok
  <2>1. stage' = "refunded"
    BY <1>3 DEF AskRefund
  <2>2. QED
    BY <2>1 DEF MoneyIsSound, AskedStages, RefundStages
<1>4. QED
  BY <1>2, <1>3

LEMMA RefundAskedSound ==
  ASSUME MoneyIsSound, RefundByReference \/ _resolve_transaction_id
  PROVE  MoneyIsSound'
<1>1. CASE RefundByReference
  <2>1. stage = "located" /\ AskRefund("") /\ "" \in ItsCurrencies
        /\ UNCHANGED <<adapter, txn, deal, price, asked, report, wanted>>
    BY <1>1 DEF RefundByReference, ledgerVars, callVars, ItsCurrencies
  <2>2. QED
    BY <2>1, AskRefundSound
<1>2. CASE _resolve_transaction_id
  <2>1. stage = "locating" /\ NewCall /\ UNCHANGED <<txn, deal, price, asked, report, wanted>>
    BY <1>2 DEF _resolve_transaction_id, ledgerVars
  <2>2. adapter' = adapter
    BY <2>1, CallKeepsAdapter
  <2>3. CASE stage' = "refunded" /\ UNCHANGED <<known, request>>
    BY <2>1, <2>2, <2>3 DEF MoneyIsSound, AskedStages, RefundStages
  <2>4. CASE \E currency \in ItsCurrencies : AskRefund(currency)
    BY <2>1, <2>2, <2>4, AskRefundSound
  <2>5. QED
    BY <1>2, <2>3, <2>4 DEF _resolve_transaction_id
<1>3. QED
  BY <1>1, <1>2

LEMMA RefundReturnsSound ==
  ASSUME MoneyIsSound, RefundReturns
  PROVE  MoneyIsSound'
<1>1. /\ stage = "refunding" /\ stage' = "refunded" /\ NewCall
      /\ UNCHANGED <<txn, deal, price, asked, wanted, known, request>>
  BY DEF RefundReturns, ledgerVars
<1>2. adapter' = adapter
  BY <1>1, CallKeepsAdapter
<1>3. QED
  BY <1>1, <1>2 DEF MoneyIsSound, AskedStages, RefundStages

LEMMA MoneyStepSound ==
  ASSUME MoneyIsSound, [RefundNext]_<<allVars, refundVars>>
  PROVE  MoneyIsSound'
<1>1. CASE MoneyNext /\ UNCHANGED refundVars
  <2>1. CASE Calling \/ VerifyFails
    <3>1. (CallNext \/ NewCall) /\ UNCHANGED <<ledgerVars, moneyVars>>
      BY <2>1 DEF Calling, VerifyFails
    <3>2. adapter' = adapter
      BY <3>1, CallKeepsAdapter
    <3>3. QED
      BY <1>1, <3>1, <3>2, StillSound DEF ledgerVars, refundVars
  <2>2. QED
    BY <1>1, <2>1, StoreSound, InitializeSound, InitializeReturnsSound, ReportSound,
       ResolveReportSound DEF MoneyNext
<1>2. CASE RefundCalling
  <2>1. CallNext /\ UNCHANGED <<ledgerVars, moneyVars, refundVars>>
    BY <1>2 DEF RefundCalling
  <2>2. adapter' = adapter
    BY <2>1, CallKeepsAdapter
  <2>3. QED
    BY <2>1, <2>2, StillSound DEF ledgerVars, refundVars
<1>3. CASE UNCHANGED <<allVars, refundVars>>
  BY <1>3, StillSound DEF allVars, ledgerVars, callVars, refundVars
<1>4. QED
  BY <1>1, <1>2, <1>3, RefundStagesSound, RefundAskedSound, RefundReturnsSound DEF RefundNext

(* What is asked is what is stored, what is credited is what was asked and *)
(* what is asked back is what is wanted, in the units of either gateway    *)
(* (initialize, verify, resolve_transaction, refund).                      *)
THEOREM MoneyStaysSound == RefundSpec => []MoneyIsSound
<1>1. RefundInit => MoneyIsSound
  <2> SUFFICES ASSUME RefundInit PROVE MoneyIsSound
    OBVIOUS
  <2>1. /\ deal \in Transactions /\ adapter \in GatewayNames /\ stage = "new" /\ price = 0
        /\ txn = [t \in Transactions |-> Opened]
    BY DEF RefundInit, MoneyInit, LedgerInit, CallInit, Opened
  <2>2. txn \in [Transactions -> Row] /\ txn[deal] = Opened
    BY <2>1 DEF Opened, Row, TransactionStatus, ReconciliationStatus
  <2>3. QED
    BY <2>1, <2>2 DEF MoneyIsSound, AskedStages, RefundStages
<1>2. MoneyIsSound /\ [RefundNext]_<<allVars, refundVars>> => MoneyIsSound'
  BY MoneyStepSound
<1>3. QED
  BY <1>1, <1>2, PTL DEF RefundSpec

-----------------------------------------------------------------------------
(* What follows from the invariant, in every state.                        *)

(* Once it is asked for, the stored amount has been written.               *)
LEMMA StoredIsWritten ==
  ASSUME MoneyIsSound, stage \in AskedStages
  PROVE  /\ adapter \in GatewayNames /\ deal \in Transactions
         /\ Expected[deal] \in Money /\ Expected[deal].amount \in Nat \ {0}
         /\ _to_wire_amount(adapter, Expected[deal].amount, Expected[deal].currency)
              = Converted(asked)
<1>1. /\ adapter \in GatewayNames /\ deal \in Transactions
      /\ _to_wire_amount(adapter, Expected[deal].amount, Expected[deal].currency)
           = Converted(asked)
  BY DEF MoneyIsSound
<1>2. Expected[deal] \in Money
  BY <1>1, LedgerAssumption
<1>3. Expected[deal].amount \in Nat \ {0}
  <2>1. Expected[deal].amount \in Nat
    BY <1>2, LedgerAssumption DEF Money
  <2>2. Expected[deal].amount > 0
    BY <1>1, LedgerAssumption
  <2>3. QED
    BY <2>1, <2>2
<1>4. QED
  BY <1>1, <1>2, <1>3

LEMMA AskedAmount ==
  ASSUME MoneyIsSound
  PROVE  AskedIsStored
<1> SUFFICES ASSUME stage \in AskedStages, Known(Expected[deal].currency)
             PROVE  Worth(adapter, Expected[deal].currency, asked, Expected[deal].amount)
  BY DEF AskedIsStored, AskedStages
<1>1. QED
  BY StoredIsWritten, WireIsWorth

(* Whatever an answer spells that folds as the currency of the payment, if *)
(* the adapter can use it, it is that currency.                            *)
LEMMA SameCurrency ==
  ASSUME NEW c \in Currencies, NEW d \in Currencies, Known(c), Known(d), Fold[c] = Fold[d]
  PROVE  c = d
BY MoneyAssumption

(* A part that is asked back has been written in the payment's currency.   *)
LEMMA RequestIsWritten ==
  ASSUME MoneyIsSound, stage = "refunding", wanted # Everything
  PROVE  /\ wanted \in Nat
         /\ _to_wire_amount(adapter, wanted, Expected[deal].currency) = Converted(request)
<1>1. /\ wanted \in Portions \cup {Everything} /\ known \in ItsCurrencies
      /\ RefundAmount(known) = Converted(request)
  BY DEF MoneyIsSound, RefundStages
<1>2. wanted \in Nat
  BY <1>1, RefundsAssumption
<1>3. _to_wire_amount(adapter, wanted, known) = Converted(request)
  BY <1>1 DEF RefundAmount, Converted, Raised
<1>4. adapter \in GatewayNames /\ Expected[deal] \in Money
  BY StoredIsWritten DEF AskedStages, RefundStages
<1>5. CASE adapter = "PAYSTACK"
  BY <1>2, <1>3, <1>5 DEF _to_wire_amount
<1>6. CASE adapter = "FLUTTERWAVE"
  <2>1. Known(known)
    BY <1>2, <1>3, <1>4, <1>6, WireIsWorth
  <2>2. Known(Expected[deal].currency)
    BY <1>4, <1>6, StoredIsWritten, WireIsWorth DEF AskedStages, RefundStages
  <2>3. known \in Currencies /\ Fold[known] = Fold[Expected[deal].currency]
    BY <1>1, <2>1 DEF ItsCurrencies, Known, CURRENCY_EXPONENTS
  <2>4. known = Expected[deal].currency
    BY <1>4, <2>1, <2>2, <2>3, SameCurrency DEF Money
  <2>5. QED
    BY <1>2, <1>3, <2>4
<1>7. QED
  BY <1>4, <1>5, <1>6 DEF GatewayNames

LEMMA RefundAmountIsWanted ==
  ASSUME MoneyIsSound
  PROVE  PaysBackTheWanted
<1> SUFFICES ASSUME stage = "refunding"
             PROVE  IF wanted = Everything THEN request = Everything
                    ELSE request # Everything
                           /\ Worth(adapter, Expected[deal].currency, request, wanted)
  BY DEF PaysBackTheWanted
<1>1. CASE wanted = Everything
  <2>1. RefundAmount(known) = Converted(request)
    BY DEF MoneyIsSound
  <2>2. QED
    BY <1>1, <2>1 DEF RefundAmount, Converted
<1>2. CASE wanted # Everything
  <2>1. /\ wanted \in Nat
        /\ _to_wire_amount(adapter, wanted, Expected[deal].currency) = Converted(request)
    BY <1>2, RequestIsWritten
  <2>2. adapter \in GatewayNames
    BY DEF MoneyIsSound
  <2>3. request \in Nat /\ Worth(adapter, Expected[deal].currency, request, wanted)
    BY <2>1, <2>2, WireIsWorth
  <2>4. QED
    BY <1>2, <2>3 DEF Everything
<1>3. QED
  BY <1>1, <1>2

LEMMA CreditIsExact ==
  ASSUME MoneyIsSound
  PROVE  CreditedToTheGrain
<1> DEFINE v == VerificationFrom(adapter, report)
           e == Expected[deal]
<1> SUFFICES ASSUME stage = "resolved", txn[deal].status = "SUCCESS"
             PROVE  /\ report.word \in SuccessWords[adapter]
                    /\ report.amount.n = asked
                    /\ Fold[report.currency] = Fold[e.currency]
  BY DEF CreditedToTheGrain
<1>1. v.status = "SUCCESS" /\ v.amount = e.amount /\ Fold[v.currency] = Fold[e.currency]
  <2>1. txn[deal] = RowAfter(Awaiting, Awaiting, Resolve(deal, Awaiting, v))
    BY DEF MoneyIsSound
  <2>2. Awaiting \in Row /\ Awaiting.status # "SUCCESS" /\ v.status \in AnswerStatus
    BY VerificationType DEF Awaiting, Row, TransactionStatus, ReconciliationStatus
  <2>3. v.status = "SUCCESS" /\ ~Mismatch(deal, v)
    BY <2>1, <2>2, CreditNeedsEvidence
  <2>4. QED
    BY <2>3 DEF Mismatch
<1>2. report.word \in SuccessWords[adapter]
  BY <1>1 DEF VerificationFrom, _map_status
<1>3. Fold[report.currency] = Fold[e.currency]
  BY <1>1 DEF VerificationFrom
<1>4. report.amount.n \in Nat /\ report.currency \in Currencies
  BY DEF MoneyIsSound
<1>5. /\ adapter \in GatewayNames /\ e \in Money /\ e.amount \in Nat \ {0}
      /\ _to_wire_amount(adapter, e.amount, e.currency) = Converted(asked)
  BY StoredIsWritten DEF AskedStages
<1>6. CASE adapter = "PAYSTACK"
  <2>1. asked = e.amount * One
    BY <1>5, <1>6 DEF _to_wire_amount, Converted
  <2>2. report.amount.n % One = 0 /\ report.amount.n \div One = e.amount
    BY <1>1, <1>5, <1>6 DEF VerificationFrom, OrZero, _as_int, Converted, Raised
  <2>3. report.amount.n = e.amount * One
    BY <1>4, <1>5, <2>2, ReadIsWhole
  <2>4. QED
    BY <1>2, <1>3, <2>1, <2>3
<1>7. CASE adapter = "FLUTTERWAVE"
  <2>1. Known(e.currency) /\ asked = e.amount * Unit(e.currency)
    BY <1>5, <1>7 DEF _to_wire_amount, to_major_units, Converted, Raised
  <2>2. /\ Known(report.currency)
        /\ report.amount.n % Unit(report.currency) = 0
        /\ report.amount.n \div Unit(report.currency) = e.amount
    BY <1>1, <1>5, <1>7
       DEF VerificationFrom, OrZero, _from_wire_amount, from_major_units, Converted, Raised
  <2>3. report.currency = e.currency
    BY <1>3, <1>4, <1>5, <2>1, <2>2, SameCurrency DEF Money
  <2>4. report.amount.n = e.amount * Unit(report.currency)
    BY <1>4, <1>5, <2>2, ReadIsWritten
  <2>5. QED
    BY <1>2, <1>3, <2>1, <2>3, <2>4
<1>8. QED
  BY <1>5, <1>6, <1>7 DEF GatewayNames

(* What is written can be read.                                            *)
LEMMA WrittenIsRead ==
  ASSUME NEW minor \in Nat, NEW u \in Nat \ {0}
  PROVE  (minor * u) % u = 0 /\ (minor * u) \div u = minor
<1>1. minor * u \in Nat
  OBVIOUS
<1>2. minor * u = u * ((minor * u) \div u) + ((minor * u) % u)
  BY <1>1, DivisionRestores
<1>3. (minor * u) % u \in 0 .. (u - 1) /\ (minor * u) \div u \in Nat
  BY <1>1
<1>4. PICK q \in Nat, r \in 0 .. (u - 1) :
        q = (minor * u) \div u /\ r = (minor * u) % u /\ minor * u = u * q + r
  BY <1>2, <1>3
<1>5. (minor - q) * u = r
  BY <1>4
<1>6. minor - q = 0
  <2>1. CASE minor - q >= 1
    <3>1. (minor - q) * u >= u
      BY <2>1
    <3>2. QED
      BY <1>5, <3>1
  <2>2. CASE minor - q <= 0 - 1
    <3>1. (minor - q) * u < 0
      BY <2>2
    <3>2. QED
      BY <1>5, <3>1
  <2>3. QED
    BY <2>1, <2>2
<1>7. r = 0 /\ q = minor
  BY <1>5, <1>6
<1>8. QED
  BY <1>4, <1>7

(* A number of a type that the adapter reads is read as the amount it was  *)
(* written for, by Flutterwave's if it knows the currency.                 *)
LEMMA ReadsBack ==
  ASSUME NEW g \in GatewayNames, NEW minor \in Nat, NEW c, NEW d, NEW number,
         _to_wire_amount(g, minor, c) = Converted(number.n),
         number.type \in NumberTypes[g], g = "FLUTTERWAVE" => d = c
  PROVE  OrZero(IF g = "PAYSTACK" THEN _as_int(number) ELSE _from_wire_amount(number, d)) = minor
<1>1. CASE g = "PAYSTACK"
  <2>1. number.n = minor * One
    BY <1>1 DEF _to_wire_amount, Converted
  <2>2. number.n % One = 0 /\ number.n \div One = minor
    BY <2>1, WrittenIsRead, CurrencyAssumption
  <2>3. QED
    BY <1>1, <2>2 DEF OrZero, _as_int, Converted
<1>2. CASE g = "FLUTTERWAVE"
  <2>1. Known(c) /\ number.n = minor * Unit(c)
    BY <1>2 DEF _to_wire_amount, to_major_units, Converted, Raised
  <2>2. number.n % Unit(c) = 0 /\ number.n \div Unit(c) = minor
    BY <2>1, WrittenIsRead, UnitsScale
  <2>3. _from_wire_amount(number, d) = from_major_units(number.n, c)
    BY <1>2 DEF _from_wire_amount
  <2>4. from_major_units(number.n, c) = Converted(minor)
    BY <2>1, <2>2 DEF from_major_units
  <2>5. QED
    BY <1>2, <2>3, <2>4 DEF OrZero, Converted
<1>3. QED
  BY <1>1, <1>2 DEF GatewayNames

LEMMA PaidIsCredited ==
  ASSUME MoneyIsSound
  PROVE  PaidInFullIsCredited
<1> DEFINE v == VerificationFrom(adapter, report)
           e == Expected[deal]
<1> SUFFICES ASSUME stage = "resolved", report.word \in SuccessWords[adapter]
             PROVE  \/ txn[deal] = [status |-> "SUCCESS", recon |-> "MATCHED"]
                    \/ /\ txn[deal].recon = "MISMATCHED"
                       /\ \/ report.amount.n # asked
                          \/ report.amount.type \notin NumberTypes[adapter]
                          \/ IF adapter = "PAYSTACK" THEN Fold[report.currency] # Fold[e.currency]
                             ELSE report.currency # e.currency
  BY DEF PaidInFullIsCredited
<1>1. v.status = "SUCCESS"
  <2>1. adapter \in GatewayNames
    BY StoredIsWritten DEF AskedStages
  <2>2. report.word \notin FailureWords[adapter]
    BY <2>1 DEF GatewayNames, SuccessWords, FailureWords
  <2>3. QED
    BY <2>2 DEF VerificationFrom, _map_status
<1>2. txn[deal] = RowAfter(Awaiting, Awaiting, Resolve(deal, Awaiting, v))
  BY DEF MoneyIsSound
<1>3. /\ adapter \in GatewayNames /\ e \in Money /\ e.amount \in Nat \ {0}
      /\ _to_wire_amount(adapter, e.amount, e.currency) = Converted(asked)
  BY StoredIsWritten DEF AskedStages
<1>4. CASE ~Mismatch(deal, v)
  <2>1. Resolve(deal, Awaiting, v) = "RESOLVED_SUCCESS"
    BY <1>1, <1>4 DEF Resolve, Awaiting
  <2>2. txn[deal] = [status |-> "SUCCESS", recon |-> "MATCHED"]
    <3>1. perform_transition("PENDING", "SUCCESS", TRANSACTION_TRANSITIONS) = "SUCCESS"
      BY DEF perform_transition, TRANSACTION_TRANSITIONS, TransactionStatus
    <3>2. QED
      BY <1>2, <2>1, <3>1 DEF RowAfter, Awaiting
  <2>3. QED
    BY <2>2
<1>5. CASE Mismatch(deal, v)
  <2>1. Resolve(deal, Awaiting, v) = "MISMATCHED"
    BY <1>1, <1>5 DEF Resolve
  <2>2. txn[deal].recon = "MISMATCHED"
    BY <1>2, <2>1 DEF RowAfter, Awaiting
  <2>3. SUFFICES ASSUME report.amount.n = asked, report.amount.type \in NumberTypes[adapter],
                        IF adapter = "PAYSTACK" THEN Fold[report.currency] = Fold[e.currency]
                        ELSE report.currency = e.currency
                 PROVE  FALSE
    BY <2>2
  <2>4. v.amount # e.amount
    BY <1>5, <2>3 DEF Mismatch, VerificationFrom
  <2>5. v.amount = e.amount
    BY <1>3, <2>3, ReadsBack DEF VerificationFrom
  <2>6. QED
    BY <2>4, <2>5
<1>6. QED
  BY <1>4, <1>5

(* Rounding to the nearest is off by half a unit at most.                  *)
LEMMA HalfEvenNear ==
  ASSUME NEW x \in Nat, NEW u \in Nat \ {0}
  PROVE  /\ HalfEven(x, u) \in Nat
         /\ 2 * (x - HalfEven(x, u) * u) <= u
         /\ 0 - 2 * (x - HalfEven(x, u) * u) <= u
<1>1. PICK q \in Nat, r \in 0 .. (u - 1) : q = x \div u /\ r = x % u /\ x = u * q + r
  BY DivisionRestores
<1>2. CASE HalfEven(x, u) = q /\ 2 * r <= u
  <2>1. x - q * u = r
    BY <1>1
  <2>2. QED
    BY <1>1, <1>2, <2>1
<1>3. CASE HalfEven(x, u) = q + 1 /\ 2 * r >= u
  <2>1. x - (q + 1) * u = r - u
    BY <1>1
  <2>2. QED
    BY <1>1, <1>3, <2>1
<1>4. (HalfEven(x, u) = q /\ 2 * r <= u) \/ (HalfEven(x, u) = q + 1 /\ 2 * r >= u)
  BY <1>1 DEF HalfEven
<1>5. QED
  BY <1>2, <1>3, <1>4

(* What is a whole number of units is not rounded.                         *)
LEMMA HalfEvenExact ==
  ASSUME NEW k \in Nat, NEW u \in Nat \ {0}
  PROVE  HalfEven(k * u, u) = k
<1>1. (k * u) % u = 0 /\ (k * u) \div u = k
  BY WrittenIsRead
<1>2. QED
  BY <1>1 DEF HalfEven

LEMMA PriceIsAsked ==
  ASSUME MoneyIsSound
  PROVE  AskedIsPriced
<1> DEFINE e == Expected[deal]
           minors == IF CURRENCY_EXPONENTS[e.currency] = 2 THEN 100 ELSE 1
           error == price * minors - asked * (IF adapter = "FLUTTERWAVE" THEN minors ELSE 1)
<1> SUFFICES ASSUME stage \in AskedStages, price # 0
             PROVE  /\ (price * minors) % One = 0 => error = 0
                    /\ 2 * error <= One /\ 0 - 2 * error <= One
  BY DEF AskedIsPriced, AskedStages
<1>1. price \in Nat /\ to_minor_units(price, e.currency) = Converted(e.amount)
  BY DEF MoneyIsSound
<1>2. Known(e.currency) /\ e.amount = HalfEven(price, Unit(e.currency))
  BY <1>1 DEF to_minor_units, Converted, Raised
<1>3. /\ adapter \in GatewayNames /\ e.amount \in Nat
      /\ _to_wire_amount(adapter, e.amount, e.currency) = Converted(asked)
  BY StoredIsWritten
<1>4. PICK u \in Nat \ {0}, m \in {1, 100} :
        /\ u = Unit(e.currency) /\ m = minors /\ \A n \in Nat : (n * u) * m = n * One
  BY <1>2, UnitsScale DEF Scale
<1>5. One \in Nat /\ u * m = One
  <2>1. (1 * u) * m = 1 * One /\ One \in Nat
    BY <1>4, CurrencyAssumption
  <2>2. QED
    BY <1>4, <2>1
<1>6. PICK a \in Nat, d \in Int :
        a = e.amount /\ d = price - a * u /\ 2 * d <= u /\ 0 - 2 * d <= u
  <2>1. e.amount = HalfEven(price, u)
    BY <1>2, <1>4
  <2>2. 2 * (price - e.amount * u) <= u /\ 0 - 2 * (price - e.amount * u) <= u
    BY <1>1, <2>1, HalfEvenNear
  <2>3. price - e.amount * u \in Int
    BY <1>1, <1>3
  <2>4. QED
    BY <1>3, <2>2, <2>3
<1>7. error = d * m
  <2>1. d * m = price * m - (a * u) * m
    BY <1>1, <1>4, <1>6
  <2>2. CASE adapter = "PAYSTACK"
    <3>1. asked = a * One
      BY <1>3, <1>6, <2>2 DEF _to_wire_amount, Converted
    <3>2. (a * u) * m = asked
      BY <1>4, <3>1
    <3>3. QED
      BY <1>1, <1>4, <1>5, <2>1, <2>2, <3>1, <3>2
  <2>3. CASE adapter = "FLUTTERWAVE"
    <3>1. asked = a * u
      BY <1>3, <1>4, <1>6, <2>3 DEF _to_wire_amount, to_major_units, Converted, Raised
    <3>2. QED
      BY <1>1, <1>4, <2>1, <2>3, <3>1
  <2>4. QED
    BY <1>3, <2>2, <2>3 DEF GatewayNames
<1>8. 2 * (d * m) <= u * m /\ 0 - 2 * (d * m) <= u * m
  BY <1>4, <1>6
<1>9. ASSUME (price * minors) % One = 0 PROVE d = 0
  <2>1. PICK k \in Nat : price * m = One * k
    <3>1. price * m \in Nat /\ One \in Nat \ {0}
      BY <1>1, <1>4, CurrencyAssumption
    <3>2. price * m = One * ((price * m) \div One) + ((price * m) % One)
      BY <3>1, DivisionRestores
    <3>3. (price * m) % One = 0 /\ (price * m) \div One \in Nat
      BY <1>4, <1>9, <3>1
    <3>4. PICK k \in Nat : k = (price * m) \div One
      BY <3>3
    <3>5. price * m = One * k
      BY <3>1, <3>2, <3>3, <3>4
    <3>6. QED
      BY <3>5
  <2>2. One * k = (k * u) * m
    BY <1>4, <1>5
  <2>3. price = k * u
    BY <1>1, <1>4, <2>1, <2>2
  <2>4. a = k
    BY <1>2, <1>4, <1>6, <2>3, HalfEvenExact
  <2>5. QED
    BY <1>4, <1>6, <2>3, <2>4
<1>10. QED
  BY <1>4, <1>5, <1>7, <1>8, <1>9

(* Neither adapter asks for another amount than the stored one             *)
(* (paystack.initialize, flutterwave._to_wire_amount).                     *)
THEOREM StoredIsAsked == RefundSpec => []AskedIsStored
BY MoneyStaysSound, AskedAmount, PTL

(* A payment is credited only in its own currency and to the last grain    *)
(* (both adapters' verify, resolve_transaction).                           *)
THEOREM CreditIsToTheGrain == RefundSpec => []CreditedToTheGrain
BY MoneyStaysSound, CreditIsExact, PTL

(* What a gateway is asked to pay back is what the host wanted (refund()). *)
THEOREM RefundIsTheWanted == RefundSpec => []PaysBackTheWanted
BY MoneyStaysSound, RefundAmountIsWanted, PTL

(* A payment in full is credited if the number is of a type the adapter    *)
(* takes (for Flutterwave floats too) and the currency is the expected one *)
(* (for Flutterwave as the table spells it); what is paid but not credited *)
(* is flagged (both adapters' verify, resolve_transaction).                *)
THEOREM PaidInFullIsNotLost == RefundSpec => []PaidInFullIsCredited
BY MoneyStaysSound, PaidIsCredited, PTL

(* What a payer is asked for is the price, exactly if its currency can     *)
(* hold it and to the nearest minor unit if not (currency.to_minor_units   *)
(* and to_major_units).                                                    *)
THEOREM PriceIsTheAsked == RefundSpec => []AskedIsPriced
BY MoneyStaysSound, PriceIsAsked, PTL

-----------------------------------------------------------------------------
(* The RefundResult.                                                       *)

(* There is a result only once refund() has returned.                      *)
ResultIsSound == ResultIsTrue /\ (stage # "refunded" => result = NoResult)

LEMMA RefundWords ==
  ASSUME NEW g \in GatewayNames, NEW p \in {"queued", "done", "failed"}
  PROVE  /\ (_REFUND_STATUSES(g, ItsWordFor(g, p)) = "SUCCESS") <=> (p = "done")
         /\ (_REFUND_STATUSES(g, ItsWordFor(g, p)) = "FAILED") <=> (p = "failed")
<1>1. CASE p = "queued"
  BY <1>1 DEF _REFUND_STATUSES, ItsWordFor, GatewayNames
<1>2. CASE p = "done"
  BY <1>2 DEF _REFUND_STATUSES, ItsWordFor, GatewayNames
<1>3. CASE p = "failed"
  BY <1>3 DEF _REFUND_STATUSES, ItsWordFor, GatewayNames
<1>4. QED
  BY <1>1, <1>2, <1>3

(* What a gateway keeps of a refund is an amount written in its units.     *)
LEMMA RecordedIsWritten ==
  ASSUME MoneyIsSound, stage = "refunding", NEW n \in {0, IF request = Everything THEN asked ELSE request}
  PROVE  \E minor \in Nat :
           _to_wire_amount(adapter, minor, Expected[deal].currency) = Converted(n)
<1> DEFINE e == Expected[deal]
<1>1. /\ adapter \in GatewayNames /\ e.amount \in Nat
      /\ _to_wire_amount(adapter, e.amount, e.currency) = Converted(asked)
  BY StoredIsWritten DEF AskedStages, RefundStages
<1>2. CASE n = 0
  <2>1. adapter = "FLUTTERWAVE" => Known(e.currency)
    BY <1>1, WireIsWorth
  <2>2. 0 * One = 0 /\ (Known(e.currency) => 0 * Unit(e.currency) = 0)
    BY UnitsScale, CurrencyAssumption
  <2>3. _to_wire_amount(adapter, 0, e.currency) = Converted(0)
    BY <1>1, <2>1, <2>2 DEF _to_wire_amount, to_major_units, Converted, GatewayNames
  <2>4. QED
    BY <1>2, <2>3
<1>3. CASE n = asked
  BY <1>1, <1>3
<1>4. CASE n = request /\ request # Everything
  <2>1. wanted # Everything
    BY <1>4 DEF MoneyIsSound, RefundAmount, Converted
  <2>2. QED
    BY <1>4, <2>1, RequestIsWritten
<1>5. QED
  BY <1>2, <1>3, <1>4

LEMMA ReturnedIsTrue ==
  ASSUME MoneyIsSound, RefundReturns
  PROVE  ResultIsTrue'
<1>1. /\ stage = "refunding" /\ NewCall /\ UNCHANGED <<deal, known>>
      /\ phase' \in {"queued", "done", "failed"}
      /\ recorded' \in {0, IF request = Everything THEN asked ELSE request}
  BY DEF RefundReturns
<1>2. adapter' = adapter /\ adapter \in GatewayNames
  BY <1>1, CallKeepsAdapter DEF MoneyIsSound
<1>3. PICK type \in JsonTypes, itemized \in BOOLEAN, currency \in ItsCurrencies :
        /\ report' = [word |-> ItsWordFor(adapter, phase'),
                      amount |-> [type |-> type, n |-> recorded'], currency |-> currency]
        /\ result' =
             RefundResult(ItsWordFor(adapter, phase'),
                          IF itemized THEN [type |-> type, n |-> recorded'] ELSE [type |-> "none"],
                          [type |-> type,
                           n |-> IF itemized /\ adapter = "FLUTTERWAVE" THEN asked ELSE recorded'],
                          currency)
  BY DEF RefundReturns
<1> DEFINE c == IF currency = "" THEN known ELSE currency
           part == IF itemized THEN [type |-> type, n |-> recorded'] ELSE [type |-> "none"]
           whole == [type |-> type,
                     n |-> IF itemized /\ adapter = "FLUTTERWAVE" THEN asked ELSE recorded']
           number == [type |-> type, n |-> recorded']
           e == Expected[deal]
<1>4. result'.status = _REFUND_STATUSES(adapter, ItsWordFor(adapter, phase'))
  BY <1>3 DEF RefundResult
<1>5. result'.amount = OrZero(IF adapter = "PAYSTACK" THEN _as_int(number)
                              ELSE _from_wire_amount(number, c))
  <2>1. result'.amount = OrZero(IF adapter = "PAYSTACK" THEN _as_int(whole)
                                ELSE _from_wire_amount(AmountRefunded(part, whole), c))
    BY <1>3 DEF RefundResult
  <2>2. CASE adapter = "PAYSTACK"
    BY <2>1, <2>2
  <2>3. CASE adapter # "PAYSTACK" /\ itemized /\ type # "none"
    <3>1. AmountRefunded(part, whole) = number
      BY <2>3 DEF AmountRefunded
    <3>2. QED
      BY <2>1, <2>3, <3>1
  <2>4. CASE adapter # "PAYSTACK" /\ type = "none"
    <3>1. AmountRefunded(part, whole).type = "none"
      BY <2>4 DEF AmountRefunded
    <3>2. QED
      BY <2>1, <2>4, <3>1 DEF OrZero, _from_wire_amount, NumberTypes, GatewayNames, Raised
  <2>5. CASE adapter # "PAYSTACK" /\ ~itemized
    <3>1. AmountRefunded(part, whole) = number
      BY <2>5 DEF AmountRefunded
    <3>2. QED
      BY <2>1, <2>5, <3>1
  <2>6. QED
    BY <2>2, <2>3, <2>4, <2>5
<1>6. Legible' <=> (type \in NumberTypes[adapter] /\ (adapter = "FLUTTERWAVE" => Known(c)))
  <2>1. report'.amount.type = type /\ report'.currency = currency
    BY <1>3
  <2>2. known' = known
    BY <1>1
  <2>3. QED
    BY <1>2, <2>1, <2>2 DEF Legible
<1>7. PICK minor \in Nat : _to_wire_amount(adapter, minor, e.currency) = Converted(recorded')
  BY <1>1, RecordedIsWritten
<1>8. ASSUME Legible' PROVE Worth(adapter, e.currency, recorded', result'.amount)
  <2>1. ASSUME adapter = "FLUTTERWAVE" PROVE c = e.currency
    <3>1. e \in Money
      BY <1>1, StoredIsWritten DEF AskedStages, RefundStages
    <3>2. Known(c) /\ Known(e.currency)
      <4>1. Known(c)
        BY <1>6, <1>8, <2>1
      <4>2. Known(e.currency)
        BY <1>2, <1>7, <2>1 DEF _to_wire_amount, to_major_units, Converted, Raised
      <4>3. QED
        BY <4>1, <4>2
    <3>3. c \in ItsCurrencies
      BY <1>1 DEF MoneyIsSound
    <3>4. c \in Currencies /\ Fold[c] = Fold[e.currency]
      BY <3>2, <3>3 DEF ItsCurrencies, Known, CURRENCY_EXPONENTS
    <3>5. QED
      BY <3>1, <3>2, <3>4, SameCurrency DEF Money
  <2>2. number.n = recorded' /\ number.type \in NumberTypes[adapter]
    BY <1>6, <1>8
  <2> HIDE DEF c, number, e
  <2>3. result'.amount = minor
    BY <1>2, <1>5, <1>7, <2>1, <2>2, ReadsBack
  <2>4. QED
    BY <1>2, <1>7, <2>3, WireIsWorth
<1>9. ASSUME ~Legible' PROVE result'.amount = 0
  <2>1. CASE type \notin NumberTypes[adapter]
    BY <1>2, <1>5, <2>1 DEF OrZero, _as_int, _from_wire_amount, GatewayNames, Raised
  <2>2. CASE adapter = "FLUTTERWAVE" /\ ~Known(c)
    BY <1>5, <2>2 DEF OrZero, _from_wire_amount, from_major_units, Raised
  <2>3. QED
    BY <1>6, <1>9, <2>1, <2>2
<1>10. QED
  BY <1>1, <1>2, <1>4, <1>8, <1>9, RefundWords DEF ResultIsTrue, Worth

LEMMA ResultStepSound ==
  ASSUME MoneyIsSound, ResultIsSound, [RefundNext]_<<allVars, refundVars>>
  PROVE  ResultIsSound'
<1>1. CASE RefundReturns
  <2>1. stage' = "refunded"
    BY <1>1 DEF RefundReturns
  <2>2. QED
    BY <1>1, <2>1, ReturnedIsTrue DEF ResultIsSound
<1>2. CASE UNCHANGED <<allVars, refundVars>>
  BY <1>2 DEF ResultIsSound, ResultIsTrue, Legible, allVars, moneyVars, callVars, refundVars
<1>3. CASE RefundCalling
  <2>1. CallNext /\ UNCHANGED <<moneyVars, refundVars>>
    BY <1>3 DEF RefundCalling
  <2>2. adapter' = adapter
    BY <2>1, CallKeepsAdapter
  <2>3. QED
    BY <2>1, <2>2 DEF ResultIsSound, ResultIsTrue, Legible, moneyVars, refundVars
<1>4. CASE (MoneyNext /\ UNCHANGED refundVars) \/ Refund \/ RefundByReference
           \/ _resolve_transaction_id \/ RefundRaises
  <2>1. stage # "refunded" /\ result' = result
    BY <1>4 DEF MoneyNext, Store, Initialize, Calling, InitializeReturns, VerifyFails, Report,
                ResolveReport, Refund, RefundByReference, _resolve_transaction_id,
                RefundRaises, refundVars
  <2>2. result' = NoResult
    BY <2>1 DEF ResultIsSound
  <2>3. QED
    BY <2>2 DEF ResultIsSound, ResultIsTrue
<1>5. QED
  BY <1>1, <1>2, <1>3, <1>4 DEF RefundNext

(* A RefundResult says what became of the refund and of how much, wherever *)
(* the adapter can read the number (both adapters' refund).                *)
THEOREM ResultStaysTrue == RefundSpec => []ResultIsTrue
<1>1. RefundInit => ResultIsSound
  BY DEF RefundInit, MoneyInit, ResultIsSound, ResultIsTrue
<1>2. MoneyIsSound /\ ResultIsSound /\ [RefundNext]_<<allVars, refundVars>> => ResultIsSound'
  BY ResultStepSound
<1>3. ResultIsSound => ResultIsTrue
  BY DEF ResultIsSound
<1>4. QED
  BY <1>1, <1>2, <1>3, MoneyStaysSound, PTL DEF RefundSpec
=============================================================================
