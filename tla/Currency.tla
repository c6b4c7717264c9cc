------------------------------ MODULE Currency ------------------------------
(***************************************************************************)
(* kielsync.core.currency. A Decimal is an integer number of grains, One   *)
(* of which make 1: nothing is rounded by the model.                       *)
(***************************************************************************)
EXTENDS Integers

CONSTANT One        \* so many that no currency has a unit of less than one

ASSUME CurrencyAssumption == One \in Nat \ {0} /\ One % 100 = 0

CURRENCY_EXPONENTS ==
  [currency \in {"NGN", "XOF", "USD", "GHS"} |-> IF currency = "XOF" THEN 0 ELSE 2]

(* Spelled exactly so; anything else raises UnknownCurrency.               *)
Known(currency) == currency \in DOMAIN CURRENCY_EXPONENTS

(* Decimal(10) ** exponent: the minor units of 1.                          *)
Scale(currency) == IF CURRENCY_EXPONENTS[currency] = 2 THEN 100 ELSE 1

(* The grains of one minor unit of the currency.                           *)
Unit(currency) == One \div Scale(currency)

Raised == [ok |-> FALSE]

Converted(n) == [ok |-> TRUE, n |-> n]

(* Decimal.to_integral_value: to the nearest, halves to the even one.      *)
HalfEven(x, unit) ==
  LET below == x \div unit
      rest  == x % unit
  IN  IF 2 * rest > unit \/ (2 * rest = unit /\ below % 2 = 1) THEN below + 1 ELSE below

(* Mutant: every currency has two decimals.                                *)
Mutant_TwoDecimals(display, currency) ==
  IF Known(currency) THEN Converted(HalfEven(display, One \div 100)) ELSE Raised

to_minor_units(display, currency) ==
  IF Known(currency) THEN Converted(HalfEven(display, Unit(currency))) ELSE Raised

(* Mutant: the hardcoded / 100.                                            *)
Mutant_Hundredth(minor, currency) ==
  IF Known(currency) THEN Converted(minor * (One \div 100)) ELSE Raised

to_major_units(minor, currency) ==
  IF Known(currency) THEN Converted(minor * Unit(currency)) ELSE Raised

(* Mutant: what is too precise is rounded.                                 *)
Mutant_Rounds(major, currency) ==
  IF Known(currency) THEN Converted(HalfEven(major, Unit(currency))) ELSE Raised

(* More precision than the currency has raises ValueError.                 *)
from_major_units(major, currency) ==
  IF Known(currency) /\ major % Unit(currency) = 0
  THEN Converted(major \div Unit(currency))
  ELSE Raised
=============================================================================
