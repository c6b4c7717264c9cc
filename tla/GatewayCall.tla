---------------------------- MODULE GatewayCall -----------------------------
(***************************************************************************)
(* One HTTP call to a gateway, as _call() of both adapters makes it, and   *)
(* the verdict that kielsync.core.errors.classify gives on its failure:    *)
(* may the request be sent again?                                          *)
(***************************************************************************)
EXTENDS Naturals

CONSTANTS
  HttpStatuses,   \* status codes that occur
  Codes,          \* codes and messages of a gateway, as it spells them
  NoCode,         \* none, or one that is no string
  Folded,         \* Folded[c]: c after normalise_gateway_code
  TERMINAL_GATEWAY_CODES,
  RETRYABLE_GATEWAY_CODES

ASSUME GatewayCallAssumption ==
  /\ HttpStatuses \subseteq 100 .. 599
  /\ Folded \in [Codes -> Codes]
  /\ NoCode \in Codes /\ Folded[NoCode] = NoCode
  /\ NoCode \notin TERMINAL_GATEWAY_CODES \cup RETRYABLE_GATEWAY_CODES
  /\ TERMINAL_GATEWAY_CODES \cap RETRYABLE_GATEWAY_CODES = {}

GatewayNames == {"PAYSTACK", "FLUTTERWAVE"}

VARIABLES
  cpc,         \* ready, sent or done
  adapter,     \* whose _call it is
  decision,    \* what the gateway has done with the request: history
  failure,     \* the exception httpx raised, or none
  response,    \* what came back
  outcome      \* data, RETRYABLE or TERMINAL

callVars == <<cpc, adapter, decision, failure, response, outcome>>

(* httpx's exceptions before the request is out, and after.                *)
EarlyFailures == {"ConnectTimeout", "PoolTimeout", "ConnectError"}
LateFailures == {"ReadTimeout", "ReadError", "RemoteProtocolError"}

(* TimeoutException and NetworkError; RemoteProtocolError is neither.      *)
_RETRYABLE_EXCEPTIONS ==
  {"ConnectTimeout", "PoolTimeout", "ReadTimeout", "ConnectError", "ReadError"}

NoResponse == [http |-> 0]

(* json is FALSE if the body is no JSON object; flag is its "status";      *)
(* reason the processor's word on it, message the envelope's.              *)
Responses ==
  [http : HttpStatuses, json : BOOLEAN, flag : {"true", "false", "success", "error", "absent"},
   reason : Codes, message : Codes]

CallInit ==
  /\ cpc = "ready" /\ decision = "none" /\ failure = "none"
  /\ adapter \in GatewayNames
  /\ response = NoResponse /\ outcome = "none"

(* The adapter is used for another call.                                   *)
NewCall ==
  /\ cpc' = "ready" /\ decision' = "none" /\ failure' = "none"
  /\ response' = NoResponse /\ outcome' = "none"
  /\ UNCHANGED adapter

(* Mutant: the HTTP status is looked at before the gateway's code.         *)
Mutant_StatusFirst(http, code, exception) ==
  IF \/ exception \in _RETRYABLE_EXCEPTIONS
     \/ http = 429 \/ http \in 500 .. 599
     \/ Folded[code] \in RETRYABLE_GATEWAY_CODES
  THEN "RETRYABLE" ELSE "TERMINAL"

(* The exception decides first, then a code that is known, then the HTTP   *)
(* status; what is recognised by none of them is TERMINAL.                 *)
classify(http, code, exception) ==
  IF \/ exception \in _RETRYABLE_EXCEPTIONS
     \/ Folded[code] \in RETRYABLE_GATEWAY_CODES
     \/ Folded[code] \notin TERMINAL_GATEWAY_CODES /\ (http = 429 \/ http \in 500 .. 599)
  THEN "RETRYABLE" ELSE "TERMINAL"

(* Mutant: the envelope's status is only tested for truth.                 *)
Mutant_Truthy(r) == r.json /\ r.http \notin 400 .. 599 /\ r.flag \notin {"false", "absent"}

(* Paystack's envelope says true, Flutterwave's "success"; the string      *)
(* "error" would be truthy.                                                *)
Succeeded(r) ==
  /\ r.json
  /\ r.http \notin 400 .. 599
  /\ r.flag = IF adapter = "PAYSTACK" THEN "true" ELSE "success"

(* Mutant: only the message is looked at.                                  *)
Mutant_MessageOnly(r) == IF r.json THEN r.message ELSE NoCode

(* The code it is judged by: the processor's word before the message, and  *)
(* neither if there is no JSON to read them from.                          *)
CodeOf(r) ==
  IF ~r.json THEN NoCode ELSE IF r.reason # NoCode THEN r.reason ELSE r.message

_call(r) == IF Succeeded(r) THEN "data" ELSE classify(r.http, CodeOf(r), "none")

Send ==
  /\ cpc = "ready"
  /\ \/ cpc' = "sent" /\ UNCHANGED <<failure, outcome>>
     \/ \E x \in EarlyFailures :
          /\ failure' = x
          /\ outcome' = classify(0, NoCode, x)
          /\ cpc' = "done"
  /\ UNCHANGED <<adapter, decision, response>>

(* The gateway acts on the request, whoever is still listening.            *)
GatewayActs ==
  /\ cpc = "sent" /\ decision = "none"
  /\ decision' \in {"accepted", "declined"}
  /\ UNCHANGED <<cpc, adapter, failure, response, outcome>>

ConnectionFails ==
  /\ cpc = "sent"
  /\ \E x \in LateFailures :
       /\ failure' = x
       /\ outcome' = classify(0, NoCode, x)
  /\ cpc' = "done"
  /\ UNCHANGED <<adapter, decision, response>>

(* How a gateway says yes, and where it puts its word for anything else.   *)
SaysYes(r) == r.json /\ r.flag = (IF adapter = "PAYSTACK" THEN "true" ELSE "success")

ItsWord(r) == Folded[IF r.reason = NoCode THEN r.message ELSE r.reason]

(* What the code takes for granted of an answer: a gateway says yes only   *)
(* if it has accepted, and in an answer of its own (an edge proxy answers  *)
(* without JSON) it does not call a refusal an outage. It may refuse in    *)
(* words that no table has, or in none.                                    *)
Truthful(r) ==
  /\ SaysYes(r) => decision = "accepted"
  /\ r.json /\ decision = "declined" => ItsWord(r) \notin RETRYABLE_GATEWAY_CODES

Respond ==
  /\ cpc = "sent"
  /\ \E r \in Responses :
       /\ Truthful(r)
       /\ response' = r
       /\ outcome' = _call(r)
  /\ cpc' = "done"
  /\ UNCHANGED <<adapter, decision, failure>>

CallNext == Send \/ GatewayActs \/ ConnectionFails \/ Respond

CallSpec == CallInit /\ [][CallNext]_callVars

-----------------------------------------------------------------------------
(* What the adapter hands to its caller as the gateway's data is an answer *)
(* to a request that the gateway accepted: no truthy error envelope, no    *)
(* page of a proxy, no status: false in a 200 (both _call).                *)
DataMeansAccepted == outcome = "data" => decision = "accepted"

(* A request the gateway has refused is never sent again: in a word of the *)
(* table, under whatever HTTP status and however it is spelled; in any     *)
(* other word or none, unless the status is one of an overload or outage,  *)
(* by which such a refusal is judged (errors.classify: a wrong "retryable" *)
(* charges the payer again).                                               *)
RefusalsAreFinal ==
  decision = "declined" /\ response # NoResponse /\ response.json =>
    \/ outcome = "TERMINAL"
    \/ /\ ItsWord(response) \notin TERMINAL_GATEWAY_CODES
       /\ response.http = 429 \/ response.http \in 500 .. 599

(* An outage that the gateway reports is not mistaken for a refusal, even  *)
(* inside a 200 or a 400: the payment is not lost.                         *)
OutagesAreRetryable ==
  /\ response # NoResponse /\ response.json /\ outcome # "data"
  /\ ItsWord(response) \in RETRYABLE_GATEWAY_CODES
  => outcome = "RETRYABLE"

(* errors.py:96 "Transport failures that prove the request was not         *)
(* processed, and so may safely be re-sent".                               *)
RetryableTransportIsUnprocessed ==
  failure # "none" /\ outcome = "RETRYABLE" => decision = "none"
=============================================================================
