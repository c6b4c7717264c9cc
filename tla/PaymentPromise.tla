--------------------------- MODULE PaymentPromise ---------------------------
(***************************************************************************)
(* What the ledger promises of each payment, without requests, runs,       *)
(* locks, events, attempts or clocks: one row per payment, what the        *)
(* gateway has said about it so far, and which of it may move the row.     *)
(* Requirements shows that the system of module KielSync implements this.  *)
(***************************************************************************)

CONSTANT Deals     \* payments

VARIABLES
  row,    \* the Transaction's status and reconciliation_status
  yes,    \* payments the gateway has called a success, whatever the money
  no,     \* payments it has called failed
  paid    \* payments it has called a success for the expected money

promiseVars == <<row, yes, no, paid>>

Init ==
  /\ row = [d \in Deals |-> [status |-> "CREATED", recon |-> "UNRECONCILED"]]
  /\ yes = {} /\ no = {} /\ paid = {}

(* The gateway says something new about d.                                 *)
Hear(d) ==
  /\ \/ yes' = yes \cup {d} /\ no' = no /\ paid' \in {paid, paid \cup {d}}
     \/ no' = no \cup {d} /\ yes' = yes /\ paid' = paid
  /\ row' = row

Moves(d, new) ==
  /\ row' = [row EXCEPT ![d] = new]
  /\ UNCHANGED <<yes, no, paid>>

Begin(d) ==
  /\ row[d].status = "CREATED"
  /\ Moves(d, [row[d] EXCEPT !.status = "PENDING"])

(* Only the expected money credits an open payment, and settles any flag.  *)
Credit(d) ==
  /\ row[d].status = "PENDING" /\ d \in paid
  /\ Moves(d, [status |-> "SUCCESS", recon |-> "MATCHED"])

(* Only the gateway's own word fails one; a flag stays up.                 *)
Fail(d) ==
  /\ row[d].status = "PENDING" /\ d \in no
  /\ Moves(d, [row[d] EXCEPT !.status = "FAILED"])

WriteOff(d) ==
  /\ row[d].status = "PENDING"
  /\ Moves(d, [row[d] EXCEPT !.status = "ABANDONED"])

(* A flag needs a contradiction: money that does not fit, or money taken   *)
(* back from a payment that is credited.                                   *)
Flag(d) ==
  /\ d \in yes \/ (row[d].status = "SUCCESS" /\ d \in no)
  /\ Moves(d, [row[d] EXCEPT !.recon = "MISMATCHED"])

Review(d) ==
  /\ row[d].recon = "MISMATCHED"
  /\ Moves(d, [row[d] EXCEPT !.recon = "MANUAL_REVIEW"])

Next ==
  \E d \in Deals :
    Hear(d) \/ Begin(d) \/ Credit(d) \/ Fail(d) \/ WriteOff(d) \/ Flag(d) \/ Review(d)

Spec == Init /\ [][Next]_promiseVars

-----------------------------------------------------------------------------
(* The gateway's word for every verdict: the expected money for a credited *)
(* payment, a failure for a failed one, and for one that is shown to a     *)
(* person some success, be it of the wrong money or taken back since.      *)
Grounded ==
  \A d \in Deals :
    /\ row[d].status = "SUCCESS" => d \in paid
    /\ row[d].status = "FAILED" => d \in no
    /\ row[d].recon \in {"MISMATCHED", "MANUAL_REVIEW"} => d \in yes
=============================================================================
