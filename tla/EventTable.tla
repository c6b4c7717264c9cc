----------------------------- MODULE EventTable -----------------------------
(***************************************************************************)
(* What the table of webhook events promises the gateways, without         *)
(* requests, runs, secrets, payments or crashes: what has been stored      *)
(* stays, what has been closed stays closed, and a 200 is for something    *)
(* that is stored. Delivery (requests up to the stored row) and            *)
(* Requirements (what becomes of the row) both show that they implement    *)
(* this; it is where the two models of the endpoint meet.                  *)
(***************************************************************************)

CONSTANT Keys      \* what the unique constraint tells apart

VARIABLES
  stored,    \* events that are on disk
  closed,    \* those of them with processed = True
  acked      \* events some delivery of which was answered 200

tableVars == <<stored, closed, acked>>

Init == stored = {} /\ closed = {} /\ acked = {}

File(k) ==
  /\ k \notin stored
  /\ stored' = stored \cup {k}
  /\ UNCHANGED <<closed, acked>>

(* A run closes all events of a reference at once. A request closes the    *)
(* one it works for, and may answer in the same step.                      *)
Close(some) ==
  /\ some # {} /\ some \subseteq stored
  /\ closed' = closed \cup some
  /\ acked' = acked \/ \E k \in some : acked' = acked \cup {k}
  /\ stored' = stored

Acknowledge(k) ==
  /\ k \in stored
  /\ acked' = acked \cup {k}
  /\ UNCHANGED <<stored, closed>>

Next ==
  \/ \E k \in Keys : File(k) \/ Acknowledge(k)
  \/ \E some \in SUBSET Keys : Close(some)

Spec == Init /\ [][Next]_tableVars
=============================================================================
