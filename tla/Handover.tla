------------------------------ MODULE Handover ------------------------------
(***************************************************************************)
(* What the pickup workflow promises of one booking after another: it is   *)
(* opened, settled, and ends once - handed over as one order, or closed    *)
(* without any.  PickupRequests implements it.                             *)
(***************************************************************************)
CONSTANTS Bookings, Orders, NoOrder

VARIABLES
  stage,  \* where each booking is
  order   \* the order it became

vars == <<stage, order>>

Stages == {"unbooked", "open", "settled", "ordered", "closed"}

Init ==
  /\ stage = [b \in Bookings |-> "unbooked"]
  /\ order = [b \in Bookings |-> NoOrder]

Move(b, from, to) ==
  /\ stage[b] \in from
  /\ stage' = [stage EXCEPT ![b] = to]

Open(b) == Move(b, {"unbooked"}, "open") /\ UNCHANGED order

Settle(b) == Move(b, {"open"}, "settled") /\ UNCHANGED order

\* An order is handed over to one booking only.
HandOver(b, o) ==
  /\ \A other \in Bookings : order[other] # o
  /\ Move(b, {"settled"}, "ordered")
  /\ order' = [order EXCEPT ![b] = o]

Close(b) == Move(b, {"open", "settled"}, "closed") /\ UNCHANGED order

Next == \E b \in Bookings :
          Open(b) \/ Settle(b) \/ Close(b) \/ \E o \in Orders : HandOver(b, o)

Spec == Init /\ [][Next]_vars
=============================================================================
