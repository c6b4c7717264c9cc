----------------------------- MODULE MCKielSync -----------------------------
(***************************************************************************)
(* Small instances of the system. A cfg picks the tables of MCLedger and   *)
(* the processes that work on them.                                        *)
(***************************************************************************)
EXTENDS DocClaims, MCLedger

(* What a payer may have paid.                                             *)
RightOnly == {Right}
RightOrShort == {Right, Short}
RightOrForeign == {Right, Foreign}
ShortOnly == {Short}

(* The gateway answers with the reference it was asked about, or with one  *)
(* of its own.                                                             *)
SameReported == [r \in References |-> r]
ForeignReported == [r \in References |-> 99]

MCGateways == {"PAYSTACK", "FLUTTERWAVE"}
AllPaystack == [r \in References |-> "PAYSTACK"]
Split == 1 :> "PAYSTACK" @@ 2 :> "FLUTTERWAVE"
AllEventsPaystack == [e \in EventIds |-> "PAYSTACK"]
EventSplit == "e1" :> "PAYSTACK" @@ "e2" :> "FLUTTERWAVE"
NoFilter == {AnyGateway}
AnyFilter == {AnyGateway, "PAYSTACK", "FLUTTERWAVE"}

NoTargets == {}
ReviewAndExpiry == {"MANUAL_REVIEW", "EXPIRED"}

HandlerSymmetry == Permutations(Handlers)
=============================================================================
