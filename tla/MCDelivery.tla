----------------------------- MODULE MCDelivery ------------------------------
(***************************************************************************)
(* An event of Paystack, one of Flutterwave, and one that cannot be        *)
(* identified; and two that strangers made up, in the likeness of          *)
(* Paystack's, and about Flutterwave's transaction in another status.      *)
(***************************************************************************)
EXTENDS Delivery, TLC

MCHappenings == {"charge", "paid", "nameless", "forged", "pending"}
MCInvented == {"forged", "pending"}

Telling(gateway, event, event_type, subject, reference, status, root) ==
  [gateway |-> gateway, event |-> event, event_type |-> event_type, subject |-> subject,
   reference |-> reference, status |-> status, root |-> root]

MCContent ==
     "charge"   :> Telling("PAYSTACK", "charge.success", "absent", "zero", "r7", "success", "body1")
  @@ "pending"  :> Telling("FLUTTERWAVE", "", "CARD_TRANSACTION", "7", "r7", "pending", "body2")
  @@ "paid"     :> Telling("FLUTTERWAVE", "", "CARD_TRANSACTION", "7", "r7", "successful", "body2")
  @@ "nameless" :> Telling("FLUTTERWAVE", "charge.completed", "absent", "absent", "r8", "pending", "body2")
  @@ "forged"   :> Telling("PAYSTACK", "charge.success", "absent", "zero", "r7", "success", "body1")

MCUrls == {"paystack", "Paystack", "flutterwave", "stripe"}
MCNamed == "paystack" :> "PAYSTACK" @@ "Paystack" :> "PAYSTACK"
             @@ "flutterwave" :> "FLUTTERWAVE" @@ "stripe" :> "STRIPE"

Env(paystack, flutterwave, hash) ==
  [PAYSTACK |-> paystack, FLUTTERWAVE |-> flutterwave, FLUTTERWAVE_HASH |-> hash]

(* Before and after the secrets are replaced, and one with two holes.      *)
MCEnvironments == {Env("p1", "f", "h1"), Env("p2", "f", "h2"), Env(" ", "f", "")}
MCDashboards == {[PAYSTACK |-> "p1", FLUTTERWAVE |-> "h1"], [PAYSTACK |-> "p2", FLUTTERWAVE |-> "h2"]}
MCWrong == {"", "x"}

(* A card below "authorization", and an account in a list of mappings.     *)
MCNodes == {"body1", "body2", "data", "card", "4081", "r7", "history", "entry", "0690",
            "r8", "token2"}
MCFields ==
  [node \in MCNodes |->
     CASE node = "body1" -> "data" :> "data"
       [] node = "data"  -> "reference" :> "r7" @@ "Authorization" :> "card" @@ "history" :> "history"
       [] node = "card"  -> "last4" :> "4081"
       [] node = "entry" -> "Account-Number" :> "0690"
       [] node = "body2" -> "reference" :> "r8" @@ "card_token" :> "token2"
       [] OTHER          -> <<>>]
MCHeight ==
  [node \in MCNodes |-> CASE node = "body1" -> 4
                          [] node = "data" -> 3
                          [] node = "history" -> 2
                          [] node \in {"body2", "card", "entry"} -> 1
                          [] OTHER -> 0]
MCItems == [node \in MCNodes |-> IF node = "history" THEN {"entry"} ELSE {}]

MCKeys == {"data", "reference", "Authorization", "authorization", "history", "last4",
           "Account-Number", "account_number", "card_token"}
MCNormalised ==
  [key \in MCKeys |-> CASE key = "Authorization"  -> "authorization"
                        [] key = "Account-Number" -> "account_number"
                        [] OTHER -> key]
MCWithin == [key \in MCKeys |-> CASE key = "authorization" -> {"authorization"}
                                  [] key = "card_token" -> {"token"}
                                  [] OTHER -> {}]
MCPrivate == {"Authorization", "Account-Number", "card_token"}
=============================================================================
