------------------------------ MODULE MCLedger ------------------------------
(***************************************************************************)
(* Small tables, shared by the instances that TLC checks: how many         *)
(* transactions, attempts and events there are, how they hang together,    *)
(* and which money occurs.                                                 *)
(***************************************************************************)
EXTENDS Ledger, TLC

(* One transaction, one attempt; two events about it.                      *)
OneTx == {1}
OneRef == {1}
OneTxOf == 1 :> 1
TwoEvents == {"e1", "e2"}
OneEvent == {"e1"}
NoEvents == {}
NoEventRef == [e \in {} |-> NoRef]
BothAboutOne == "e1" :> 1 @@ "e2" :> 1
OneAboutOne == "e1" :> 1

(* One transaction, two attempts, an event about each.                     *)
TwoRefs == {1, 2}
SameTx == 1 :> 1 @@ 2 :> 1
OneEach == "e1" :> 1 @@ "e2" :> 2

(* One event about the attempt, one without a reference.                   *)
SecondHasNone == "e1" :> 1 @@ "e2" :> NoRef

(* Two transactions with one attempt each.                                 *)
TwoTx == {1, 2}
OwnTx == 1 :> 1 @@ 2 :> 2

(* Money: 5 NGN is expected, spelled in lower case by the host.            *)
MCAmounts == {0, 4, 5}
MCCurrencies == {"NGN", "ngn", "USD"}
MCFold == "NGN" :> "NGN" @@ "ngn" :> "NGN" @@ "USD" :> "USD"
MCExpected == [t \in Transactions |-> [amount |-> 5, currency |-> "ngn"]]
Right == [amount |-> 5, currency |-> "NGN"]
Short == [amount |-> 4, currency |-> "NGN"]
Foreign == [amount |-> 5, currency |-> "USD"]
=============================================================================
