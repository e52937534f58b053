--------------------------- MODULE RequestContract --------------------------
(***************************************************************************)
(* What the request lifecycle promises for each request, whichever way it  *)
(* reaches the GPU: it takes a concurrency slot, opens its audit row,      *)
(* closes that row once, with its outcome, and only then gives the slot    *)
(* back.  It does not promise that every step is taken: a request may be   *)
(* refused with its slot taken, which it then keeps.                       *)
(***************************************************************************)
CONSTANT Requests

VARIABLES slots,  \* the requests that hold a concurrency slot
          row     \* the status of each request's audit row

vars == <<slots, row>>

Final == {"completed", "failed", "client_disconnected"}
RowStatus == {"none", "accepted"} \cup Final

Init ==
  /\ slots = {}
  /\ row = [r \in Requests |-> "none"]

TakeSlot(r) ==
  /\ r \notin slots /\ row[r] = "none"
  /\ slots' = slots \cup {r}
  /\ UNCHANGED row

OpenRow(r) ==
  /\ r \in slots /\ row[r] = "none"
  /\ row' = [row EXCEPT ![r] = "accepted"]
  /\ UNCHANGED slots

CloseRow(r) ==
  /\ r \in slots /\ row[r] = "accepted"
  /\ \E s \in Final : row' = [row EXCEPT ![r] = s]
  /\ UNCHANGED slots

GiveSlot(r) ==
  /\ r \in slots /\ row[r] \in Final
  /\ slots' = slots \ {r}
  /\ UNCHANGED row

Next == \E r \in Requests : TakeSlot(r) \/ OpenRow(r) \/ CloseRow(r) \/ GiveSlot(r)

Spec == Init /\ [][Next]_vars
=============================================================================
