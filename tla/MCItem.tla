------------------------------- MODULE MCItem -------------------------------
(***************************************************************************)
(* One transaction with one or two attempts, and an answer under the       *)
(* reference of either or of none.                                         *)
(***************************************************************************)
EXTENDS SweepItem, MCLedger

AnyRef == {1, 2, 99}
=============================================================================
