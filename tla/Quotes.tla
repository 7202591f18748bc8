------------------------------- MODULE Quotes -------------------------------
(***************************************************************************)
(* QuotesService and PickupsService on top of PickupRequests: how a quote  *)
(* is priced by hand, accepted, declined or rejected, and the legacy path, *)
(* where accepting a quote creates its order and its Pickup at once, with  *)
(* no door workflow.  Both services write the quotes that a pickup request *)
(* hangs on; here their calls interleave with those at the door.           *)
(*                                                                         *)
(* A quote is legacy if it has a fulfillmentMethod, which staff's form     *)
(* sets and the customer's wizard and bookings do not.  Amounts, notes and *)
(* who owns a quote are left out.                                          *)
(***************************************************************************)
EXTENDS PickupRequests

CONSTANTS
  Desk,      \* quote and legacy pickup calls the server can have in flight at once
  NoPickup   \* a quote without a Pickup row

VARIABLES
  apart,   \* never changes: on one quote only selections overlap other calls
  sound,   \* never changes: no quote call dies
  method,  \* Quote.fulfillmentMethod, fixed when the quote is created
  expired, \* quotes whose options' validity is over
  pickup,  \* the Pickup rows: quoteId is unique
  desk     \* per slot: the quote or pickup call in flight

regime == <<mayOverlap, apart, sound, method>>
qvars == <<vars, regime, expired, pickup, desk>>

Methods == {"none", "PICKUP", "WAREHOUSE_DROP_OFF"}

Legacy(q) == method[q] # "none"

PickupStatuses == {"SCHEDULED", "PENDING", "ASSIGNED", "PICKUP_IN_PROGRESS", "PICKED_UP",
                   "DROPPED_OFF", "CANCELLED", "PICKUP_FAILED"}

PickupRow == [status : PickupStatuses, order : Orders]

\* select: claim order pickup link   accept: order pickup link   quote: quote
\* reject: reject look cancel        move: move (a pickup's status, to)
DeskStatements == {"idle", "claim", "order", "pickup", "link", "quote",
                   "reject", "look", "cancel", "move"}

ASSUME QuotesAssumption == NoPickup \notin PickupRow

DeskRow == [op : {"none", "select", "accept", "quote", "reject", "move"},
            at : DeskStatements, quote : Quotes \cup {NoQuote},
            order : Orders \cup {NoOrder}, to : PickupStatuses]

DeskIdle == [op |-> "none", at |-> "idle", quote |-> NoQuote, order |-> NoOrder,
             to |-> "SCHEDULED"]

DeskOn(q) == {d \in Desk : desk[d].quote = q}

BusyAtDoor(q) == \E c \in Calls : On(c, q)

\* No call at the door or the desk stands in the way of op.
Clear(op, q) ==
  apart => ~BusyAtDoor(q) /\ \A d \in DeskOn(q) : op = "select" /\ desk[d].op = "select"

QInit ==
  /\ Init
  /\ apart \in BOOLEAN /\ sound \in BOOLEAN
  /\ method \in [Quotes -> Methods]
  /\ \A q \in Quotes : Legacy(q) => quote[q].status # "PENDING_PICKUP_REQUEST"
  /\ expired = {}
  /\ pickup = [q \in Quotes |-> NoPickup]
  /\ desk = [d \in Desk |-> DeskIdle]

DeskBegin(d, op, at, q) ==
  /\ desk[d] = DeskIdle
  /\ Clear(op, q)
  /\ desk' = [desk EXCEPT ![d] = [DeskIdle EXCEPT !.op = op, !.at = at, !.quote = q]]

DeskAt(d, at) == desk[d].at = at

DeskGo(d, at) == desk' = [desk EXCEPT ![d].at = at]

DeskEnd(d) == desk' = [desk EXCEPT ![d] = DeskIdle]

SetQuote(q, status) == quote' = [quote EXCEPT ![q].status = status]

-----------------------------------------------------------------------------
(* Selections and acceptances.  A self-service one is a single conditional   *)
(* update.                                                                   *)

\* transitionToPendingPickupRequest
ToPending(q, op, from) ==
  /\ ~Legacy(q)
  /\ Clear(op, q)
  /\ quote[q].status = from
  /\ SetQuote(q, "PENDING_PICKUP_REQUEST")
  /\ UNCHANGED <<request, orders, kyc, calls, regime, expired, pickup, desk>>

SelectOption(q) == q \notin expired /\ ToPending(q, "select", "RATED")

AcceptQuote(q) == ToPending(q, "accept", "QUOTED")

OptionsExpire(q) ==
  /\ q \notin expired
  /\ expired' = expired \cup {q}
  /\ UNCHANGED <<vars, regime, pickup, desk>>

BeginSelectLegacy(d, q) ==
  /\ Legacy(q) /\ quote[q].status = "RATED" /\ q \notin expired
  /\ DeskBegin(d, "select", "claim", q)
  /\ UNCHANGED <<vars, regime, expired, pickup>>

\* Mutant: the claim without its WHERE.
SelectUnclaimed(d) ==
  /\ DeskAt(d, "claim")
  /\ SetQuote(desk[d].quote, "ACCEPTED")
  /\ DeskGo(d, "order")
  /\ UNCHANGED <<request, orders, kyc, calls, regime, expired, pickup>>

SelectClaim(d) ==
  LET q == desk[d].quote IN
  /\ DeskAt(d, "claim")
  /\ IF quote[q].status = "RATED"
     THEN SetQuote(q, "ACCEPTED") /\ DeskGo(d, "order")
     ELSE DeskEnd(d) /\ UNCHANGED quote
  /\ UNCHANGED <<request, orders, kyc, calls, regime, expired, pickup>>

BeginAcceptLegacy(d, q) ==
  /\ Legacy(q) /\ quote[q].status = "QUOTED"
  /\ DeskBegin(d, "accept", "order", q)
  /\ UNCHANGED <<vars, regime, expired, pickup>>

\* createOrderWithShipment
LegacyOrder(d, o) ==
  /\ DeskAt(d, "order")
  /\ orders[o] = NoRow
  /\ orders' = [orders EXCEPT ![o] = NewOrder(desk[d].quote)]
  /\ desk' = [desk EXCEPT ![d].at = "pickup", ![d].order = o]
  /\ UNCHANGED <<quote, request, kyc, calls, regime, expired, pickup>>

\* Mutant: Pickup.quoteId is not unique.
LegacyPickupAgain(d) ==
  /\ DeskAt(d, "pickup")
  /\ pickup' = [pickup EXCEPT ![desk[d].quote] = [status |-> "SCHEDULED", order |-> desk[d].order]]
  /\ DeskGo(d, "link")
  /\ UNCHANGED <<vars, regime, expired>>

\* finalizeAcceptedQuote.  A second Pickup for the quote makes the insert throw.
LegacyPickup(d) ==
  LET q == desk[d].quote IN
  /\ DeskAt(d, "pickup")
  /\ IF pickup[q] = NoPickup
     THEN /\ pickup' = [pickup EXCEPT ![q] = [status |-> "SCHEDULED", order |-> desk[d].order]]
          /\ DeskGo(d, "link")
     ELSE DeskEnd(d) /\ UNCHANGED pickup
  /\ UNCHANGED <<vars, regime, expired>>

\* Mutant: the quote is accepted without its order.
LegacyLinkStatus(d) ==
  /\ DeskAt(d, "link")
  /\ SetQuote(desk[d].quote, "ACCEPTED")
  /\ DeskEnd(d)
  /\ UNCHANGED <<request, orders, kyc, calls, regime, expired, pickup>>

LegacyLink(d) ==
  /\ DeskAt(d, "link")
  /\ quote' = [quote EXCEPT ![desk[d].quote] = [status |-> "ACCEPTED", order |-> desk[d].order]]
  /\ DeskEnd(d)
  /\ UNCHANGED <<request, orders, kyc, calls, regime, expired, pickup>>

-----------------------------------------------------------------------------
(* Prices and refusals *)

\* declineQuote, the customer's: one conditional update.
DeclineQuote(q) ==
  /\ Clear("decline", q)
  /\ quote[q].status = "QUOTED"
  /\ SetQuote(q, "REJECTED")
  /\ UNCHANGED <<request, orders, kyc, calls, regime, expired, pickup, desk>>

\* setManualQuote and reject refuse on the status they read.
Decided(q) == quote[q].status \in {"ACCEPTED", "REJECTED"}

\* Mutant: an accepted quote may be priced again.
BeginManualQuoteAnew(d, q) ==
  /\ quote[q].status # "REJECTED"
  /\ DeskBegin(d, "quote", "quote", q)
  /\ UNCHANGED <<vars, regime, expired, pickup>>

BeginManualQuote(d, q) ==
  /\ ~Decided(q)
  /\ DeskBegin(d, "quote", "quote", q)
  /\ UNCHANGED <<vars, regime, expired, pickup>>

SetManualQuote(d) ==
  /\ DeskAt(d, "quote")
  /\ SetQuote(desk[d].quote, "QUOTED")
  /\ DeskEnd(d)
  /\ UNCHANGED <<request, orders, kyc, calls, regime, expired, pickup>>

BeginQuoteReject(d, q) ==
  /\ ~Decided(q)
  /\ DeskBegin(d, "reject", "reject", q)
  /\ UNCHANGED <<vars, regime, expired, pickup>>

QuoteReject(d) ==
  /\ DeskAt(d, "reject")
  /\ SetQuote(desk[d].quote, "REJECTED")
  /\ DeskGo(d, "look")
  /\ UNCHANGED <<request, orders, kyc, calls, regime, expired, pickup>>

\* Mutant: a request out for pickup is not cancelled.
RejectLookAssigned(d) ==
  LET r == request[desk[d].quote] IN
  /\ DeskAt(d, "look")
  /\ IF r.status \in {"PENDING_ASSIGNMENT", "ASSIGNED"} THEN DeskGo(d, "cancel") ELSE DeskEnd(d)
  /\ UNCHANGED <<vars, regime, expired, pickup>>

RejectLook(d) ==
  /\ DeskAt(d, "look")
  /\ IF IsOpen(request[desk[d].quote]) THEN DeskGo(d, "cancel") ELSE DeskEnd(d)
  /\ UNCHANGED <<vars, regime, expired, pickup>>

RejectCancel(d) ==
  /\ DeskAt(d, "cancel")
  /\ request' = [request EXCEPT ![desk[d].quote].status = "CANCELLED"]
  /\ DeskEnd(d)
  /\ UNCHANGED <<quote, orders, kyc, calls, regime, expired, pickup>>

-----------------------------------------------------------------------------
(* PickupsService.updateStatus *)

Allowed(m, from) ==
  CASE m = "PICKUP" /\ from = "SCHEDULED" -> {"PENDING", "CANCELLED"}
    [] from = "PENDING" -> {"ASSIGNED", "CANCELLED", "PICKUP_FAILED"}
    [] from = "ASSIGNED" -> {"PICKUP_IN_PROGRESS", "CANCELLED", "PICKUP_FAILED"}
    [] from = "PICKUP_IN_PROGRESS" -> {"PICKED_UP", "PICKUP_FAILED"}
    [] m = "WAREHOUSE_DROP_OFF" /\ from = "SCHEDULED" -> {"DROPPED_OFF", "CANCELLED"}
    [] OTHER -> {}

BeginUpdateStatus(d, q, to) ==
  /\ pickup[q] # NoPickup
  /\ to \in Allowed(method[q], pickup[q].status)
  /\ desk[d] = DeskIdle /\ Clear("move", q)
  /\ desk' = [desk EXCEPT ![d] = [DeskIdle EXCEPT !.op = "move", !.at = "move",
                                                  !.quote = q, !.to = to]]
  /\ UNCHANGED <<vars, regime, expired, pickup>>

UpdateStatus(d) ==
  /\ DeskAt(d, "move")
  /\ pickup' = [pickup EXCEPT ![desk[d].quote].status = desk[d].to]
  /\ DeskEnd(d)
  /\ UNCHANGED <<vars, regime, expired>>

\* A statement throws or the process restarts.
DeskDie(d) ==
  /\ ~sound
  /\ desk[d] # DeskIdle
  /\ DeskEnd(d)
  /\ UNCHANGED <<vars, regime, expired, pickup>>

-----------------------------------------------------------------------------
StartDesk(d, q) ==
  \/ BeginSelectLegacy(d, q) \/ BeginAcceptLegacy(d, q)
  \/ BeginManualQuote(d, q) \/ BeginQuoteReject(d, q)
  \/ \E to \in PickupStatuses : BeginUpdateStatus(d, q, to)

RunDesk(d) ==
  \/ SelectClaim(d) \/ \E o \in Orders : LegacyOrder(d, o)
  \/ LegacyPickup(d) \/ LegacyLink(d)
  \/ SetManualQuote(d)
  \/ QuoteReject(d) \/ RejectLook(d) \/ RejectCancel(d)
  \/ UpdateStatus(d)

\* What PickupRequests does; a booking is of a quote created for it, never legacy.
DoorStart(q) ==
  /\ apart => DeskOn(q) = {}
  /\ \/ Create(q) \/ (~Legacy(q) /\ CommitBooking(q)) \/ \E p \in Partners : Claim(q, p)
     \/ \E c \in Calls : StartCall(c, q)

Door ==
  /\ \/ \E q \in Quotes : DoorStart(q)
     \/ \E c \in Calls : RunCall(c) \/ Die(c)
  /\ UNCHANGED <<regime, expired, pickup, desk>>

QNext ==
  \/ Door
  \/ \E q \in Quotes :
       SelectOption(q) \/ AcceptQuote(q) \/ DeclineQuote(q) \/ OptionsExpire(q)
  \/ \E d \in Desk : RunDesk(d) \/ DeskDie(d) \/ \E q \in Quotes : StartDesk(d, q)

QSpec == QInit /\ [][QNext]_qvars

\* Node runs every pending continuation.
QFairSpec ==
  /\ QSpec
  /\ \A c \in Calls : WF_qvars(RunCall(c) /\ UNCHANGED <<regime, expired, pickup, desk>>)
  /\ \A d \in Desk : WF_qvars(RunDesk(d))

-----------------------------------------------------------------------------
\* The rows and calls of both services have the columns' types.
QTypeOK ==
  /\ TypeOK
  /\ apart \in BOOLEAN /\ sound \in BOOLEAN
  /\ method \in [Quotes -> Methods]
  /\ expired \subseteq Quotes
  /\ pickup \in [Quotes -> PickupRow \cup {NoPickup}]
  /\ desk \in [Desk -> DeskRow]

\* A legacy quote and its Pickup never point to different orders, however its
\* acceptances and selections overlap and die (finalizeAcceptedQuote's two writes).
SameDeal ==
  \A q \in Quotes :
    Legacy(q) /\ quote[q].order # NoOrder =>
      pickup[q] # NoPickup /\ pickup[q].order = quote[q].order

\* Only selections overlapping and nothing dying, a quote becomes one order whichever
\* way it becomes one: selectOption's claim "closes a race against a double-submitted
\* select", and no quote goes both the legacy way and the pickup request's.
OneOrderPerQuote ==
  apart /\ sound => \A q \in Quotes : \A o1, o2 \in OrdersFor(q) : o1 = o2

\* Only selections overlapping, a deal is final: a quote accepted with an order is
\* never priced anew, declined or rejected (setManualQuote, declineQuote, reject).
DealIsFinal ==
  [][\A q \in Quotes :
       apart /\ quote[q].status = "ACCEPTED" /\ quote[q].order # NoOrder
         => quote'[q] = quote[q]]_qvars

\* Staff's rejection does not "leave an active PickupRequest orphaned": when it ends
\* without dying or overlapping, no partner is left on the way.
RejectionClosesRequest ==
  [][\A d \in Desk :
       LET q == desk[d].quote IN
       apart /\ sound /\ desk[d].op = "reject" /\ desk'[d] = DeskIdle
         => ~IsOpen(request'[q])]_qvars

\* Unless its call dies, a claimed legacy quote gets its order.
AcceptedGetsOrder ==
  \A q \in Quotes :
    (sound /\ quote[q].status = "ACCEPTED") ~> quote[q].order # NoOrder
=============================================================================
