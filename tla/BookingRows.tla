---------------------------- MODULE BookingRows ----------------------------
(***************************************************************************)
(* The three database rows a booking is made of - the Quote, the           *)
(* PickupRequest it becomes and the Order the PickupRequest becomes - and  *)
(* the arithmetic of what the customer pays.                               *)
(*                                                                         *)
(* A price, a discount and an amount are natural numbers of one money      *)
(* unit.  A timestamp column that the code only compares with null         *)
(* (arrivedAt, verifiedAt, ...) is a Boolean.                              *)
(***************************************************************************)
EXTENDS Integers, FiniteSets

CONSTANTS
  Quotes,       \* quote ids; PickupRequest.quoteId is unique, so also the request ids
  Orders,       \* order ids
  Customers,    \* customer ids
  CustomerOf,   \* the customer each quote belongs to
  Partners,     \* pickup partners (AdminUser rows with role PICKUP_PARTNER)
  NoOrder,      \* a null orderId
  NoRow,        \* an order that does not exist
  NoPartner,    \* a null assignedPartnerId
  Prices,       \* what the pricing engine or a human may price a parcel at
  Discounts,    \* what a coupon may take off (0: no coupon)
  ToleranceFloor \* COLLECTED_AMOUNT_TOLERANCE_FLOOR, in the model's money unit

\* An Order row: paymentStatus, paidAmount, dueAmount (0: null), and the booking
\* it was inserted for, which no column records until it is linked (history).
OrderRow == [for : Quotes, payment : {"PENDING", "PAID"}, paid : Nat, due : Int]

ASSUME BookingAssumption ==
  /\ CustomerOf \in [Quotes -> Customers]
  /\ NoOrder \notin Orders
  /\ NoRow \notin OrderRow
  /\ NoPartner \notin Partners
  /\ Prices \subseteq Nat
  /\ Discounts \subseteq Nat
  /\ ToleranceFloor \in Nat

-----------------------------------------------------------------------------
(* Quote rows *)

QuoteStatus == {"RATED", "NEEDS_MANUAL_REVIEW", "QUOTED", "PENDING_PICKUP_REQUEST",
                "PICKUP_REQUESTED", "ACCEPTED", "REJECTED"}

QuoteRow == [status : QuoteStatus, order : Orders \cup {NoOrder}]

-----------------------------------------------------------------------------
(* PickupRequest rows *)

NonTerminal == {"PENDING_ASSIGNMENT", "ASSIGNED", "SCHEDULED", "OUT_FOR_PICKUP",
                "VERIFICATION_PENDING"}

Terminal == {"COMPLETED", "CANCELLED", "REJECTED"}

\* paymentCollectedAt, paymentDeferredAt, collectedAmount and
\* paymentDueApprovedByAdminId: "none" is both timestamps null, "full" and
\* "part" are a collection without and with a due approver, "deferred" is
\* paymentDeferredAt set.
Settlement == [kind : {"none", "full", "part", "deferred"}, amount : Nat]

Unsettled == [kind |-> "none", amount |-> 0]

\* status "NONE": no row.  price is verifiedPrice ?? estimatedPrice.
RequestRow ==
  [status   : NonTerminal \cup Terminal \cup {"NONE"},
   partner  : Partners \cup {NoPartner},
   drop     : BOOLEAN,     \* dropAtWarehouse
   arrived  : BOOLEAN,     \* arrivedAt
   photo    : BOOLEAN,     \* parcelPhotoKey
   verified : BOOLEAN,     \* verifiedAt
   price    : Nat,
   discount : Nat,
   pay      : Settlement,
   order    : Orders \cup {NoOrder}]

NoRequest ==
  [status |-> "NONE", partner |-> NoPartner, drop |-> FALSE, arrived |-> FALSE,
   photo |-> FALSE, verified |-> FALSE, price |-> 0, discount |-> 0,
   pay |-> Unsettled, order |-> NoOrder]

\* The row PickupRequestsService.create and commitBooking insert.
NewRequest(partner, drop, estimate, discount) ==
  [NoRequest EXCEPT !.status = IF partner = NoPartner THEN "PENDING_ASSIGNMENT"
                                                      ELSE "ASSIGNED",
                    !.partner = partner, !.drop = drop,
                    !.price = estimate, !.discount = discount]

IsOpen(r) == r.status \in NonTerminal

\* What each handler writes on the row r.
Assigned(r, p) == [r EXCEPT !.partner = p, !.status = "ASSIGNED"]

Reached(r) == [r EXCEPT !.arrived = TRUE, !.status = "OUT_FOR_PICKUP"]

Photographed(r) == [r EXCEPT !.photo = TRUE]

\* Mutant: a status the column's enum does not have.
VerifiedMisnamed(r, price) ==
  [r EXCEPT !.verified = TRUE, !.price = price, !.status = "VERIFIED"]

Verified(r, price) ==
  [r EXCEPT !.verified = TRUE, !.price = price, !.status = "VERIFICATION_PENDING"]

Settled(r, pay) == [r EXCEPT !.pay = pay]

Completed(r) == [r EXCEPT !.status = "COMPLETED"]

Linked(r, o) == [r EXCEPT !.status = "COMPLETED", !.order = o]

Refused(r) == [r EXCEPT !.status = "REJECTED"]

-----------------------------------------------------------------------------
(* What the customer pays *)

Least(a, b) == IF a <= b THEN a ELSE b

Greatest(a, b) == IF a >= b THEN a ELSE b

Distance(a, b) == IF a >= b THEN a - b ELSE b - a

Payable(r) == Greatest(0, r.price - r.discount)

\* |collected - expected| <= max(5% of expected, floor)
WithinTolerance(collected, expected) ==
  Distance(collected, expected) <= Greatest(expected \div 20, ToleranceFloor)

-----------------------------------------------------------------------------
(* Order rows *)

\* order.create: the column defaults.
NewOrder(q) == [for |-> q, payment |-> "PENDING", paid |-> 0, due |-> 0]

\* Mutant: the due forgets what was already paid.
BilledTwice(q, r) ==
  LET total == Payable(r) IN
  CASE r.pay.kind = "deferred" -> [for |-> q, payment |-> "PENDING", paid |-> 0, due |-> total]
    [] r.pay.kind = "part" -> [for |-> q, payment |-> "PENDING", paid |-> r.pay.amount,
                               due |-> total]
    [] OTHER -> [for |-> q, payment |-> "PAID", paid |-> r.pay.amount, due |-> 0]

\* The payment columns acceptParcel writes on the order of a request it read as r.
BilledOrder(q, r) ==
  LET total == Payable(r) IN
  CASE r.pay.kind = "deferred" -> [for |-> q, payment |-> "PENDING", paid |-> 0, due |-> total]
    [] r.pay.kind = "part" -> [for |-> q, payment |-> "PENDING", paid |-> r.pay.amount,
                               due |-> total - r.pay.amount]
    [] OTHER -> [for |-> q, payment |-> "PAID", paid |-> r.pay.amount, due |-> 0]
=============================================================================
