----------------------------- MODULE MCTracking -----------------------------
(***************************************************************************)
(* A shipment of one carrier, two or three statuses, one or two requests   *)
(* in flight.                                                              *)
(***************************************************************************)
EXTENDS Tracking

CONSTANTS s1, pickedUp, transit, delivered

\* The customer has an e-mail address.
HasEmail == {s1}

\* A tick is six hours: "DELIVERED" is given 6.3 hours, "PICKED UP" 16.3 and
\* "IN TRANSIT" 23.6.
HashOffset ==
  [st \in Statuses |-> IF st = delivered THEN 1 ELSE IF st = pickedUp THEN 2 ELSE 3]
=============================================================================
