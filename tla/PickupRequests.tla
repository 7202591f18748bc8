--------------------------- MODULE PickupRequests ---------------------------
(***************************************************************************)
(* PickupRequestsService: a priced quote becomes a pickup request, a       *)
(* partner works it at the door (arrive, photos, verify, collect) and      *)
(* acceptParcel turns it into an Order.                                    *)
(*                                                                         *)
(* A handler is a chain of awaited database statements, each atomic and    *)
(* nothing around them: every statement is an action here, and the calls   *)
(* in flight interleave between them.  A handler that first reads the row  *)
(* and refuses on what it read keeps the decision of that read, not the    *)
(* row as it is when it writes.  One that is a single conditional          *)
(* statement (claim, and the claim-then-create transactions of create and  *)
(* commitBooking) is one action.  Statements that only write an audit log, *)
(* a notification or a push are left out; the invoice and the receipt that *)
(* acceptParcel also asks for are in OrderPayments.                        *)
(***************************************************************************)
EXTENDS BookingRows

CONSTANTS
  Calls,      \* the requests the server can have in flight at once
  Admin,      \* the caller of the admin controllers
  NoQuote,    \* target of an idle slot
  Regimes,    \* what mayOverlap can be
  Faults      \* whether a handler may die between two statements

Ops == {"assign", "arrive", "photo", "aadhaar", "verify", "collect", "accept", "reject"}

ASSUME CallAssumption ==
  /\ Admin \notin Partners /\ Admin # NoPartner
  /\ NoQuote \notin Quotes
  /\ Regimes \subseteq SUBSET ((Ops \cup {"claim"}) \X (Ops \cup {"claim"}))
  /\ Faults \in BOOLEAN

VARIABLES
  mayOverlap, \* never changes.  <<a, b>>: operations a and b may be in flight on one
              \* booking together
  quote,      \* the Quote rows
  request,    \* the PickupRequest rows
  orders,     \* the Order rows
  kyc,        \* customers with an aadhaarKey
  calls       \* per slot: the handler in flight

vars == <<mayOverlap, quote, request, orders, kyc, calls>>

-----------------------------------------------------------------------------
(* Calls in flight *)

\* at: the statement the handler is about to run.  An accept has three: the
\* claim of the row, the order insert and the closing transaction.
Statements == (Ops \ {"accept"}) \cup {"accept claim", "accept order", "accept commit"}

\* who: the partner being assigned, or the actor working the pickup.
\* pay: what collectPayment is about to write.  read: the row acceptParcel read.
CallRow ==
  [at : Statements \cup {"idle"}, quote : Quotes \cup {NoQuote},
   who : Partners \cup {Admin, NoPartner}, pay : Settlement,
   read : RequestRow, order : Orders \cup {NoOrder}]

Idle == [at |-> "idle", quote |-> NoQuote, who |-> NoPartner, pay |-> Unsettled,
         read |-> NoRequest, order |-> NoOrder]

NewCall(at, q, who, pay, read) ==
  [Idle EXCEPT !.at = at, !.quote = q, !.who = who, !.pay = pay, !.read = read]

AcceptSteps == {"accept claim", "accept order", "accept commit"}

OpOf(call) == IF call.at \in AcceptSteps THEN "accept" ELSE call.at

On(c, q) == calls[c].at # "idle" /\ calls[c].quote = q

CanStart(op, q) == \A d \in Calls : On(d, q) => <<op, OpOf(calls[d])>> \in mayOverlap

Begin(c, call) ==
  /\ calls[c] = Idle
  /\ CanStart(OpOf(call), call.quote)
  /\ calls' = [calls EXCEPT ![c] = call]

End(c) == calls' = [calls EXCEPT ![c] = Idle]

-----------------------------------------------------------------------------
Init ==
  /\ mayOverlap \in Regimes
  /\ quote \in [Quotes -> {[status |-> s, order |-> NoOrder] :
                           s \in {"RATED", "NEEDS_MANUAL_REVIEW", "PENDING_PICKUP_REQUEST"}}]
  /\ request = [q \in Quotes |-> NoRequest]
  /\ orders = [o \in Orders |-> NoRow]
  /\ kyc = {}
  /\ calls = [c \in Calls |-> Idle]

-----------------------------------------------------------------------------
(* Booking: the transactions that claim the quote and insert the request *)

Book(q, from, row) ==
  /\ quote[q].status \in from
  /\ request[q] = NoRequest
  /\ quote' = [quote EXCEPT ![q].status = "PICKUP_REQUESTED"]
  /\ request' = [request EXCEPT ![q] = row]
  /\ UNCHANGED <<mayOverlap, orders, kyc, calls>>

\* create: the customer's own booking, broadcast to partners unless dropped off.
Create(q) ==
  \E drop \in BOOLEAN, estimate \in Prices, coupon \in Discounts :
    Book(q, {"PENDING_PICKUP_REQUEST"},
         NewRequest(NoPartner, drop, estimate, Least(coupon, estimate)))

\* commitBooking: the B2B portal's booking (broadcast) or staff's (to a partner).
CommitBooking(q) ==
  \E partner \in Partners \cup {NoPartner}, estimate \in Prices :
    Book(q, {"RATED", "NEEDS_MANUAL_REVIEW"}, NewRequest(partner, FALSE, estimate, 0))

-----------------------------------------------------------------------------
(* Assignment *)

\* Mutant: any open request may be claimed.
ClaimableWhileOpen(r) == IsOpen(r) /\ ~r.drop

Claimable(r) == r.status = "PENDING_ASSIGNMENT" /\ r.partner = NoPartner /\ ~r.drop

Claim(q, p) ==
  /\ CanStart("claim", q)
  /\ Claimable(request[q])
  /\ request' = [request EXCEPT ![q] = Assigned(@, p)]
  /\ UNCHANGED <<mayOverlap, quote, orders, kyc, calls>>

BeginAssign(c, q, p) ==
  /\ IsOpen(request[q])
  /\ Begin(c, NewCall("assign", q, p, Unsettled, NoRequest))
  /\ UNCHANGED <<mayOverlap, quote, request, orders, kyc>>

Assign(c) ==
  /\ calls[c].at = "assign"
  /\ request' = [request EXCEPT ![calls[c].quote] = Assigned(@, calls[c].who)]
  /\ End(c)
  /\ UNCHANGED <<mayOverlap, quote, orders, kyc>>

-----------------------------------------------------------------------------
(* At the door.  findOneForPartner lets the assigned partner work a request, *)
(* and an admin a warehouse drop-off.                                        *)

MayWork(who, r) == IF who = Admin THEN r.drop ELSE r.partner = who

\* A handler that findOneForPartner admits on what it reads now.
BeginWork(c, q, who, at) ==
  /\ request[q] # NoRequest
  /\ MayWork(who, request[q])
  /\ Begin(c, NewCall(at, q, who, Unsettled, NoRequest))
  /\ UNCHANGED <<mayOverlap, quote, request, orders, kyc>>

BeginArrive(c, q, who) ==
  /\ IsOpen(request[q]) /\ ~request[q].arrived
  /\ BeginWork(c, q, who, "arrive")

Arrive(c) ==
  LET q == calls[c].quote IN
  /\ calls[c].at = "arrive"
  /\ request' = IF request[q].arrived THEN request
                ELSE [request EXCEPT ![q] = Reached(@)]
  /\ End(c)
  /\ UNCHANGED <<mayOverlap, quote, orders, kyc>>

\* saveAadhaar and saveParcelPhoto: at the door (findOneWorkable), or from the
\* back office, whatever the state of the request.
BeginUpload(c, q, who, at) ==
  /\ request[q] # NoRequest
  /\ who = Admin \/ (MayWork(who, request[q]) /\ IsOpen(request[q]) /\ request[q].arrived)
  /\ Begin(c, NewCall(at, q, who, Unsettled, NoRequest))
  /\ UNCHANGED <<mayOverlap, quote, request, orders, kyc>>

SaveParcelPhoto(c) ==
  /\ calls[c].at = "photo"
  /\ request' = [request EXCEPT ![calls[c].quote] = Photographed(@)]
  /\ End(c)
  /\ UNCHANGED <<mayOverlap, quote, orders, kyc>>

SaveAadhaar(c) ==
  /\ calls[c].at = "aadhaar"
  /\ kyc' = kyc \cup {CustomerOf[calls[c].quote]}
  /\ End(c)
  /\ UNCHANGED <<mayOverlap, quote, request, orders>>

BeginVerify(c, q, who) ==
  /\ IsOpen(request[q]) /\ request[q].arrived
  /\ CustomerOf[q] \in kyc /\ request[q].photo
  /\ BeginWork(c, q, who, "verify")

\* The price is the engine's, the partner's or the estimate: any of Prices.
Verify(c) ==
  LET q == calls[c].quote IN
  /\ calls[c].at = "verify"
  /\ \E price \in Prices : request' = [request EXCEPT ![q] = Verified(@, price)]
  /\ End(c)
  /\ UNCHANGED <<mayOverlap, quote, orders, kyc>>

-----------------------------------------------------------------------------
(* Payment *)

\* The three ways collectPayment lets a request owing `owed` be settled.
Settles(pay, owed) ==
  CASE pay.kind = "full" -> pay.amount > 0 /\ WithinTolerance(pay.amount, owed)
    [] pay.kind = "part" -> pay.amount > 0 /\ pay.amount < owed
    [] pay.kind = "deferred" -> pay.amount = 0
    [] OTHER -> FALSE

BeginCollect(c, q, who, pay) ==
  /\ request[q] # NoRequest /\ MayWork(who, request[q])
  /\ request[q].verified
  /\ request[q].pay.kind = "none"
  /\ Settles(pay, Payable(request[q]))
  /\ Begin(c, NewCall("collect", q, who, pay, NoRequest))
  /\ UNCHANGED <<mayOverlap, quote, request, orders, kyc>>

\* Mutant: the update without its WHERE.
CollectUnclaimed(c) ==
  /\ calls[c].at = "collect"
  /\ request' = [request EXCEPT ![calls[c].quote] = Settled(@, calls[c].pay)]
  /\ End(c)
  /\ UNCHANGED <<mayOverlap, quote, orders, kyc>>

Collect(c) ==
  LET q == calls[c].quote IN
  /\ calls[c].at = "collect"
  /\ request' = IF request[q].pay.kind = "none"
                THEN [request EXCEPT ![q] = Settled(@, calls[c].pay)]
                ELSE request
  /\ End(c)
  /\ UNCHANGED <<mayOverlap, quote, orders, kyc>>

-----------------------------------------------------------------------------
(* Acceptance and refusal *)

\* Mutant: the payment is not asked for.
BeginAcceptUnpaid(c, q, who) ==
  /\ IsOpen(request[q]) /\ MayWork(who, request[q])
  /\ request[q].verified
  /\ Begin(c, NewCall("accept claim", q, who, Unsettled, request[q]))
  /\ UNCHANGED <<mayOverlap, quote, request, orders, kyc>>

BeginAccept(c, q, who) ==
  /\ IsOpen(request[q]) /\ MayWork(who, request[q])
  /\ request[q].verified
  /\ request[q].pay.kind # "none"
  /\ Begin(c, NewCall("accept claim", q, who, Unsettled, request[q]))
  /\ UNCHANGED <<mayOverlap, quote, request, orders, kyc>>

\* Mutant: the claim without its WHERE.
AcceptUnclaimed(c) ==
  /\ calls[c].at = "accept claim"
  /\ request' = [request EXCEPT ![calls[c].quote] = Completed(@)]
  /\ calls' = [calls EXCEPT ![c].at = "accept order"]
  /\ UNCHANGED <<mayOverlap, quote, orders, kyc>>

\* updateMany where status in NON_TERMINAL: one caller wins the row.
AcceptClaim(c) ==
  LET q == calls[c].quote IN
  /\ calls[c].at = "accept claim"
  /\ IF IsOpen(request[q])
     THEN /\ request' = [request EXCEPT ![q] = Completed(@)]
          /\ calls' = [calls EXCEPT ![c].at = "accept order"]
     ELSE End(c) /\ UNCHANGED request
  /\ UNCHANGED <<mayOverlap, quote, orders, kyc>>

\* createOrderWithShipment
AcceptOrder(c, o) ==
  /\ calls[c].at = "accept order"
  /\ orders[o] = NoRow
  /\ orders' = [orders EXCEPT ![o] = NewOrder(calls[c].quote)]
  /\ calls' = [calls EXCEPT ![c].at = "accept commit", ![c].order = o]
  /\ UNCHANGED <<mayOverlap, quote, request, kyc>>

\* Mutant: the request is not linked to its order.
AcceptUnlinked(c) ==
  LET q == calls[c].quote
      o == calls[c].order
  IN
  /\ calls[c].at = "accept commit"
  /\ orders' = [orders EXCEPT ![o] = BilledOrder(q, calls[c].read)]
  /\ quote' = [quote EXCEPT ![q] = [status |-> "ACCEPTED", order |-> o]]
  /\ End(c)
  /\ UNCHANGED <<mayOverlap, request, kyc>>

\* The closing transaction, billed on the row read before the claim.
AcceptCommit(c) ==
  LET q == calls[c].quote
      o == calls[c].order
  IN
  /\ calls[c].at = "accept commit"
  /\ orders' = [orders EXCEPT ![o] = BilledOrder(q, calls[c].read)]
  /\ quote' = [quote EXCEPT ![q] = [status |-> "ACCEPTED", order |-> o]]
  /\ request' = [request EXCEPT ![q] = Linked(@, o)]
  /\ End(c)
  /\ UNCHANGED <<mayOverlap, kyc>>

\* Mutant: any request may be rejected.
BeginRejectClosed(c, q, who) == BeginWork(c, q, who, "reject")

BeginReject(c, q, who) ==
  /\ IsOpen(request[q])
  /\ BeginWork(c, q, who, "reject")

\* Mutant: the quote is left where it was.
RejectRequestOnly(c) ==
  /\ calls[c].at = "reject"
  /\ request' = [request EXCEPT ![calls[c].quote] = Refused(@)]
  /\ End(c)
  /\ UNCHANGED <<mayOverlap, quote, orders, kyc>>

Reject(c) ==
  LET q == calls[c].quote IN
  /\ calls[c].at = "reject"
  /\ request' = [request EXCEPT ![q] = Refused(@)]
  /\ quote' = [quote EXCEPT ![q].status = "REJECTED"]
  /\ End(c)
  /\ UNCHANGED <<mayOverlap, orders, kyc>>

\* A statement throws or the process restarts: the rest of the handler never runs.
Die(c) ==
  /\ Faults
  /\ calls[c] # Idle
  /\ End(c)
  /\ UNCHANGED <<mayOverlap, quote, request, orders, kyc>>

-----------------------------------------------------------------------------
Actors == Partners \cup {Admin}

StartCall(c, q) ==
  \/ \E p \in Partners : BeginAssign(c, q, p)
  \/ \E who \in Actors :
       \/ BeginArrive(c, q, who)
       \/ \E at \in {"photo", "aadhaar"} : BeginUpload(c, q, who, at)
       \/ BeginVerify(c, q, who)
       \/ \E pay \in [kind : {"full", "part", "deferred"}, amount : Prices \cup {0}] :
            BeginCollect(c, q, who, pay)
       \/ BeginAccept(c, q, who)
       \/ BeginReject(c, q, who)

RunCall(c) ==
  \/ Assign(c)
  \/ Arrive(c)
  \/ SaveParcelPhoto(c)
  \/ SaveAadhaar(c)
  \/ Verify(c)
  \/ Collect(c)
  \/ AcceptClaim(c)
  \/ \E o \in Orders : AcceptOrder(c, o)
  \/ AcceptCommit(c)
  \/ Reject(c)

Next ==
  \/ \E q \in Quotes : Create(q) \/ CommitBooking(q) \/ \E p \in Partners : Claim(q, p)
  \/ \E c \in Calls, q \in Quotes : StartCall(c, q)
  \/ \E c \in Calls : RunCall(c) \/ Die(c)

Spec == Init /\ [][Next]_vars

\* Node runs every pending continuation: a call in flight is not abandoned.
FairSpec == Spec /\ \A c \in Calls : WF_vars(RunCall(c))

-----------------------------------------------------------------------------
\* The rows and the calls in flight have the columns' types.
TypeOK ==
  /\ mayOverlap \in Regimes
  /\ quote \in [Quotes -> QuoteRow]
  /\ request \in [Quotes -> RequestRow]
  /\ orders \in [Orders -> OrderRow \cup {NoRow}]
  /\ kyc \subseteq Customers
  /\ calls \in [Calls -> CallRow]

OrdersFor(q) == {o \in Orders : orders[o] # NoRow /\ orders[o].for = q}

\* The request went through every step of the door workflow.
HandedOver(q) ==
  /\ request[q].arrived /\ request[q].photo /\ CustomerOf[q] \in kyc
  /\ request[q].verified
  /\ request[q].pay.kind # "none"

\* The workflow cannot be skipped: whatever calls overlap and die, an order only
\* ever exists for a parcel that was reached, photographed, backed by its
\* shipper's Aadhaar, verified and settled (schema.prisma: the 3-step workflow
\* "can't be skipped"; acceptParcel's early returns).
OrderOnlyAfterHandover ==
  \A q \in Quotes : OrdersFor(q) # {} => HandedOver(q)

\* A request is settled at most once: of collections and deferrals that all read
\* it as unsettled, the first to write wins and no later call changes what was
\* recorded (collectPayment's and deferPayment's "atomic claim").
SettledOnce ==
  [][\A q \in Quotes : request[q].pay.kind # "none" => request'[q].pay = request[q].pay]_vars

\* Of the partners claiming an open request exactly one wins: once a request has
\* a partner only an admin's assignment moves it to another (claim's WHERE).
ClaimedByOne ==
  [][\A q \in Quotes :
       (request[q].partner # NoPartner /\ request'[q].partner # request[q].partner)
         => \E c \in Calls : On(c, q) /\ calls[c].at = "assign" /\ ~On(c, q)']_vars

\* One pickup request never becomes two orders (acceptParcel's claim before the
\* order is created).
OneOrderPerRequest ==
  \A q \in Quotes : \A o1, o2 \in OrdersFor(q) : o1 = o2

\* No assignment and no verification is in flight on a booking while it is accepted.
NothingReopens ==
  \A op \in {"assign", "verify"} :
    <<op, "accept">> \notin mayOverlap /\ <<"accept", op>> \notin mayOverlap

\* Accepts may overlap, repeat and die: only an assignment or a verification in flight
\* with them makes a second order (acceptParcel's claim: "exactly one caller wins").
OneOrderUnlessReopened == NothingReopens => OneOrderPerRequest

\* The handlers that move a request's status, and a regime in which no two different
\* ones are in flight on a booking: repeats of one of them are (double taps, retries),
\* and collections, uploads and claims beside any.
Movers == {"assign", "arrive", "verify", "accept", "reject"}

OnlyRepeatsOverlap == \A a, b \in Movers : <<a, b>> \in mayOverlap => a = b

\* A completed, cancelled or rejected request is final: every handler refuses to
\* touch a request "that is already" in one of those.
ClosedStaysClosed ==
  [][\A q \in Quotes : OnlyRepeatsOverlap /\ request[q].status \in Terminal
                         => request'[q].status = request[q].status]_vars

\* The quote and its request tell the same story: an open or claimed request
\* keeps its quote at PICKUP_REQUESTED, a rejected one rejects it, and a request
\* linked to an order has its quote accepted and linked to the same order.
QuoteFollowsRequest ==
  OnlyRepeatsOverlap => \A q \in Quotes :
    LET r == request[q] IN
    /\ IsOpen(r) \/ (r.status = "COMPLETED" /\ r.order = NoOrder)
         => quote[q] = [status |-> "PICKUP_REQUESTED", order |-> NoOrder]
    /\ r.status = "REJECTED" => quote[q] = [status |-> "REJECTED", order |-> NoOrder]
    /\ r.order # NoOrder =>
         quote[q] = [status |-> "ACCEPTED", order |-> r.order] /\ r.status = "COMPLETED"

\* The order carries the money as the door settled it: what was collected is what
\* it says was paid, and on one not paid in full what was paid and what is owed
\* add up to the price (acceptParcel's payment columns).
OrderBillsTheSettlement ==
  OnlyRepeatsOverlap => \A q \in Quotes :
    LET r == request[q]
        bill == orders[r.order]
    IN r.order # NoOrder =>
         /\ bill.for = q
         /\ bill.paid = r.pay.amount
         /\ bill.payment = "PAID" <=> r.pay.kind = "full"
         /\ r.pay.kind # "full" => bill.paid + bill.due = Payable(r)

\* What an order was settled for is its price: money said to be the whole price is
\* within the tolerance of it, and money taken in part leaves a remainder owed.
OrderPaysThePrice ==
  \A q \in Quotes :
    LET r == request[q] IN
    r.order # NoOrder =>
      /\ r.pay.kind = "full" => WithinTolerance(r.pay.amount, Payable(r))
      /\ r.pay.kind = "part" => orders[r.order].due > 0

\* Unless a handler dies, a claimed request gets its order.
CompletedGetsOrder ==
  \A q \in Quotes : request[q].status = "COMPLETED" ~> request[q].order # NoOrder

\* Where Handover says a booking is.
Stage(q) ==
  LET r == request[q]
  IN  IF r.order # NoOrder THEN "ordered"
      ELSE IF r.status \in {"REJECTED", "CANCELLED"} THEN "closed"
      ELSE IF r.status = "NONE" THEN "unbooked"
      ELSE IF r.pay.kind = "none" THEN "open"
      ELSE "settled"

Promise == INSTANCE Handover WITH
  Bookings <- Quotes,
  stage <- [q \in Quotes |-> Stage(q)],
  order <- [q \in Quotes |-> request[q].order]

\* OnlyRepeatsOverlap => Promise!Spec, in TLC's form.  The workflow keeps Handover's
\* promise: settled before it is handed over, handed over once, as one order, and never
\* both handed over and closed.
KeepsPromise ==
  /\ OnlyRepeatsOverlap => Promise!Init
  /\ [][OnlyRepeatsOverlap => [Promise!Next]_(Promise!vars)]_vars
=============================================================================
