------------------------------- MODULE MCCall -------------------------------
(***************************************************************************)
(* A refusal and an outage in two spellings each, an unknown message and  *)
(* an empty one.                                                           *)
(***************************************************************************)
EXTENDS GatewayCall, TLC

MCHttpStatuses == {200, 302, 400, 429, 503}
MCCodes == {"insufficient_funds", "Insufficient Funds", "try_again", "Try-Again", "hello", "", "none"}
MCFolded ==
  [c \in MCCodes |-> CASE c = "Insufficient Funds" -> "insufficient_funds"
                       [] c = "Try-Again" -> "try_again"
                       [] c = "" -> "none"
                       [] OTHER -> c]
MCTerminal == {"insufficient_funds"}
MCRetryable == {"try_again"}
=============================================================================
