------------------------------ MODULE MCMoney -------------------------------
(***************************************************************************)
(* Four transactions: in a currency with two decimals, in one with none,   *)
(* in one that only Paystack's adapter takes, and in one spelled in lower  *)
(* case. Amounts are small; a grain is a thousandth.                       *)
(***************************************************************************)
EXTENDS Refunds, MCCall

MCTransactions == {1, 2, 3, 4}
MoneyCurrencies == {"NGN", "ngn", "XOF", "KES", ""}
MoneyFold == [c \in MoneyCurrencies |-> IF c = "ngn" THEN "NGN" ELSE c]
MoneyExpected ==
  1 :> [amount |-> 502, currency |-> "NGN"] @@ 2 :> [amount |-> 5, currency |-> "XOF"]
    @@ 3 :> [amount |-> 5, currency |-> "KES"] @@ 4 :> [amount |-> 100, currency |-> "ngn"]
MoneyAmounts == 0 .. 502
NoAttempts == {}
NoTxOf == [r \in {} |-> 1]
NoEventRef == [e \in {} |-> NoRef]

(* 5.02 exactly, what rounds to it from above and from below, 5, and 0.05. *)
MCPrices == {5020, 5015, 5024, 5000, 50}
MCWords == {"success", "successful", "completed", "failed", "reversed", "cancelled", "queued"}

(* Nothing at all, which is not the same as no amount, and a part.         *)
MCPortions == {0, 2}

(* The second reference is a number.                                       *)
MCNumeric == {2}

(* Nothing, a fraction of a minor unit, a minor unit, a major unit.        *)
MCSlips == {0, 1, 0 - 1, 10, 0 - 10, 1000, 0 - 1000}
=============================================================================
