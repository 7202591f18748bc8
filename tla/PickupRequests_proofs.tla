------------------------ MODULE PickupRequests_proofs ------------------------
(***************************************************************************)
(* What PickupRequests guarantees for every number of bookings, partners,  *)
(* prices and calls in flight.                                             *)
(***************************************************************************)
EXTENDS PickupRequests, TLAPS

-----------------------------------------------------------------------------
(* Rows *)

\* A freshly inserted request row has the columns' types.
LEMMA NewRequestType ==
  ASSUME NEW p \in Partners \cup {NoPartner}, NEW drop \in BOOLEAN,
         NEW estimate \in Nat, NEW discount \in Nat
  PROVE  NewRequest(p, drop, estimate, discount) \in RequestRow
BY DEF NewRequest, NoRequest, RequestRow, NonTerminal, Unsettled, Settlement

\* The null row has the columns' types, and is neither open nor settled.
LEMMA NoRequestType ==
  /\ NoRequest \in RequestRow
  /\ NoRequest.status = "NONE" /\ NoRequest.pay.kind = "none" /\ NoRequest.order = NoOrder
BY DEF NoRequest, RequestRow, Unsettled, Settlement

\* Every handler writes a row of the columns' types.
LEMMA WriteTypes ==
  ASSUME NEW r \in RequestRow
  PROVE  /\ \A p \in Partners : Assigned(r, p) \in RequestRow
         /\ Reached(r) \in RequestRow
         /\ Photographed(r) \in RequestRow
         /\ \A price \in Nat : Verified(r, price) \in RequestRow
         /\ \A pay \in Settlement : Settled(r, pay) \in RequestRow
         /\ Completed(r) \in RequestRow
         /\ \A o \in Orders : Linked(r, o) \in RequestRow
         /\ Refused(r) \in RequestRow
<1>. USE DEF RequestRow
<1>1. \A p \in Partners : Assigned(r, p) \in RequestRow
  BY DEF Assigned, NonTerminal
<1>2. Reached(r) \in RequestRow
  BY DEF Reached, NonTerminal
<1>3. Photographed(r) \in RequestRow
  BY DEF Photographed
<1>4. \A price \in Nat : Verified(r, price) \in RequestRow
  BY DEF Verified, NonTerminal
<1>5. \A pay \in Settlement : Settled(r, pay) \in RequestRow
  BY DEF Settled
<1>6. Completed(r) \in RequestRow
  BY DEF Completed, Terminal
<1>7. \A o \in Orders : Linked(r, o) \in RequestRow
  BY DEF Linked, Terminal
<1>8. Refused(r) \in RequestRow
  BY DEF Refused, Terminal
<1>. QED BY <1>1, <1>2, <1>3, <1>4, <1>5, <1>6, <1>7, <1>8

\* What acceptParcel writes on the order is an order row of the booking.
LEMMA BilledOrderType ==
  ASSUME NEW q \in Quotes, NEW r \in RequestRow
  PROVE  BilledOrder(q, r) \in OrderRow /\ BilledOrder(q, r).for = q
<1>1. r.price \in Nat /\ r.discount \in Nat /\ r.pay.amount \in Nat
  BY DEF RequestRow, Settlement
<1>2. PICK total \in Nat : total = Payable(r)
  BY <1>1 DEF Payable, Greatest
<1>3. PICK amount \in Nat : amount = r.pay.amount
  BY <1>1
<1>4. CASE r.pay.kind = "deferred"
  <2>1. BilledOrder(q, r) = [for |-> q, payment |-> "PENDING", paid |-> 0, due |-> total]
    BY <1>2, <1>4 DEF BilledOrder
  <2>. QED BY <2>1 DEF OrderRow
<1>5. CASE r.pay.kind = "part"
  <2>1. BilledOrder(q, r) = [for |-> q, payment |-> "PENDING", paid |-> amount,
                             due |-> total - amount]
    BY <1>2, <1>3, <1>5 DEF BilledOrder
  <2>. QED BY <2>1 DEF OrderRow
<1>6. CASE r.pay.kind \notin {"deferred", "part"}
  <2>1. BilledOrder(q, r) = [for |-> q, payment |-> "PAID", paid |-> amount, due |-> 0]
    BY <1>3, <1>6 DEF BilledOrder
  <2>. QED BY <2>1 DEF OrderRow
<1>. QED BY <1>4, <1>5, <1>6

\* A freshly inserted order is an order row of its booking.
LEMMA NewOrderType ==
  ASSUME NEW q \in Quotes
  PROVE  NewOrder(q) \in OrderRow /\ NewOrder(q) # NoRow /\ NewOrder(q).for = q
BY BookingAssumption DEF NewOrder, OrderRow

\* The smaller of two naturals is one.
LEMMA LeastNat == ASSUME NEW a \in Nat, NEW b \in Nat PROVE Least(a, b) \in Nat
BY DEF Least

\* What a caller may offer to collect is a settlement.
LEMMA PayType ==
  ASSUME NEW pay \in [kind : {"full", "part", "deferred"}, amount : Prices \cup {0}]
  PROVE  pay \in Settlement
<1>1. Prices \cup {0} \subseteq Nat
  BY BookingAssumption
<1>. QED BY <1>1 DEF Settlement

-----------------------------------------------------------------------------
(* Types *)

\* A call in flight names its booking; an assignment names a partner, and an
\* accept about to commit the order it created.
CallOK(call) ==
  /\ call \in CallRow
  /\ call.at # "idle" => call.quote \in Quotes
  /\ call.at = "assign" => call.who \in Partners
  /\ call.at = "accept commit" => call.order \in Orders

Typed == TypeOK /\ \A c \in Calls : CallOK(calls[c])

LEMMA IdleOK == CallOK(Idle)
BY NoRequestType DEF CallOK, Idle, CallRow, Unsettled, Settlement

\* A call that starts is well formed.
LEMMA NewCallOK ==
  ASSUME NEW at \in Statements \ {"accept commit"}, NEW q \in Quotes,
         NEW who \in Partners \cup {Admin}, NEW pay \in Settlement, NEW read \in RequestRow,
         at = "assign" => who \in Partners
  PROVE  CallOK(NewCall(at, q, who, pay, read))
<1>. DEFINE call == NewCall(at, q, who, pay, read)
<1>1. Idle \in CallRow
  BY IdleOK DEF CallOK
<1>2. call \in CallRow
  BY <1>1 DEF NewCall, CallRow
<1>3. call.at = at /\ call.quote = q /\ call.who = who
  BY <1>1 DEF NewCall, CallRow
<1>. QED BY <1>2, <1>3 DEF CallOK

\* Every step keeps the types.
LEMMA TypedStep == Typed /\ [Next]_vars => Typed'
<1>. SUFFICES ASSUME Typed, [Next]_vars PROVE Typed'
  OBVIOUS
<1>. USE BookingAssumption, CallAssumption DEF Typed, TypeOK
<1>1. ASSUME NEW q \in Quotes, Create(q) PROVE Typed'
  <2>. PICK drop \in BOOLEAN, estimate \in Prices, coupon \in Discounts :
         Book(q, {"PENDING_PICKUP_REQUEST"},
              NewRequest(NoPartner, drop, estimate, Least(coupon, estimate)))
    BY <1>1 DEF Create
  <2>1. NewRequest(NoPartner, drop, estimate, Least(coupon, estimate)) \in RequestRow
    BY LeastNat, NewRequestType
  <2>. QED BY <2>1 DEF Book, QuoteRow, QuoteStatus
<1>2. ASSUME NEW q \in Quotes, CommitBooking(q) PROVE Typed'
  <2>. PICK p \in Partners \cup {NoPartner}, estimate \in Prices :
         Book(q, {"RATED", "NEEDS_MANUAL_REVIEW"}, NewRequest(p, FALSE, estimate, 0))
    BY <1>2 DEF CommitBooking
  <2>1. NewRequest(p, FALSE, estimate, 0) \in RequestRow
    BY NewRequestType
  <2>. QED BY <2>1 DEF Book, QuoteRow, QuoteStatus
<1>3. ASSUME NEW q \in Quotes, NEW p \in Partners, Claim(q, p) PROVE Typed'
  BY <1>3, WriteTypes DEF Claim
<1>4. ASSUME NEW c \in Calls, NEW q \in Quotes, StartCall(c, q) PROVE Typed'
  <2>1. ASSUME NEW call, CallOK(call), calls' = [calls EXCEPT ![c] = call],
               UNCHANGED <<mayOverlap, quote, request, orders, kyc>>
        PROVE  Typed'
    BY <2>1 DEF CallOK
  <2>2. Unsettled \in Settlement /\ NoRequest \in RequestRow /\ request[q] \in RequestRow
    BY NoRequestType DEF Unsettled, Settlement
  <2>3. ASSUME NEW p \in Partners, BeginAssign(c, q, p) PROVE Typed'
    BY <2>1, <2>2, <2>3, NewCallOK DEF BeginAssign, Begin, Statements, Ops
  <2>4. ASSUME NEW who \in Actors, NEW at \in {"arrive", "photo", "aadhaar", "verify", "reject"},
               Begin(c, NewCall(at, q, who, Unsettled, NoRequest)),
               UNCHANGED <<mayOverlap, quote, request, orders, kyc>>
        PROVE  Typed'
    BY <2>1, <2>2, <2>4, NewCallOK DEF Begin, Statements, Ops, Actors
  <2>5. ASSUME NEW who \in Actors,
               NEW pay \in [kind : {"full", "part", "deferred"}, amount : Prices \cup {0}],
               BeginCollect(c, q, who, pay)
        PROVE  Typed'
    <3>1. pay \in Settlement
      BY PayType
    <3>. QED BY <2>1, <2>2, <2>5, <3>1, NewCallOK DEF BeginCollect, Begin, Statements, Ops, Actors
  <2>6. ASSUME NEW who \in Actors, BeginAccept(c, q, who) PROVE Typed'
    BY <2>1, <2>2, <2>6, NewCallOK DEF BeginAccept, Begin, Statements, Ops, AcceptSteps, Actors
  <2>. QED BY <1>4, <2>3, <2>4, <2>5, <2>6
    DEF StartCall, BeginArrive, BeginUpload, BeginVerify, BeginReject, BeginWork
<1>5. ASSUME NEW c \in Calls, RunCall(c) PROVE Typed'
  <2>. DEFINE q == calls[c].quote
  <2>1. CallOK(calls[c]) /\ calls[c] \in CallRow
    BY DEF CallOK
  <2>2. ASSUME End(c), mayOverlap' = mayOverlap, quote' \in [Quotes -> QuoteRow], request' \in [Quotes -> RequestRow],
               orders' \in [Orders -> OrderRow \cup {NoRow}], kyc' \subseteq Customers
        PROVE  Typed'
    BY <2>2, IdleOK DEF End, CallOK
  <2>3. CASE Assign(c)
    BY <2>1, <2>2, <2>3, WriteTypes DEF Assign, CallOK
  <2>4. CASE Arrive(c)
    BY <2>1, <2>2, <2>4, WriteTypes DEF Arrive, CallOK
  <2>5. CASE SaveParcelPhoto(c)
    BY <2>1, <2>2, <2>5, WriteTypes DEF SaveParcelPhoto, CallOK
  <2>6. CASE SaveAadhaar(c)
    <3>1. q \in Quotes
      BY <2>1, <2>6 DEF SaveAadhaar, CallOK
    <3>2. CustomerOf[q] \in Customers
      BY <3>1
    <3>. QED BY <2>2, <2>6, <3>2 DEF SaveAadhaar
  <2>7. CASE Verify(c)
    <3>1. PICK price \in Prices : request' = [request EXCEPT ![q] = Verified(@, price)]
      BY <2>7 DEF Verify
    <3>2. q \in Quotes /\ price \in Nat
      BY <2>1, <2>7 DEF Verify, CallOK
    <3>. QED BY <2>2, <2>7, <3>1, <3>2, WriteTypes DEF Verify
  <2>8. CASE Collect(c)
    BY <2>1, <2>2, <2>8, WriteTypes DEF Collect, CallOK, CallRow
  <2>9. CASE AcceptClaim(c)
    <3>1. CASE IsOpen(request[q])
      <4>1. CallOK([calls[c] EXCEPT !.at = "accept order"])
        BY <2>1, <2>9 DEF CallOK, CallRow, Statements, AcceptClaim
      <4>2. q \in Quotes /\ Completed(request[q]) \in RequestRow
        BY <2>1, <2>9, WriteTypes DEF AcceptClaim, CallOK
      <4>3. /\ calls' = [calls EXCEPT ![c] = [calls[c] EXCEPT !.at = "accept order"]]
            /\ request' = [request EXCEPT ![q] = Completed(request[q])]
            /\ UNCHANGED <<mayOverlap, quote, orders, kyc>>
        BY <2>9, <3>1 DEF AcceptClaim
      <4>. QED BY <4>1, <4>2, <4>3 DEF CallOK
    <3>2. CASE ~IsOpen(request[q])
      BY <2>2, <2>9, <3>2 DEF AcceptClaim
    <3>. QED BY <3>1, <3>2
  <2>10. ASSUME NEW o \in Orders, AcceptOrder(c, o) PROVE Typed'
    <3>1. CallOK([calls[c] EXCEPT !.at = "accept commit", !.order = o])
      BY <2>1, <2>10 DEF CallOK, CallRow, Statements, AcceptOrder
    <3>2. q \in Quotes
      BY <2>1, <2>10 DEF AcceptOrder, CallOK
    <3>3. NewOrder(q) \in OrderRow
      BY <3>2, NewOrderType
    <3>4. /\ calls' = [calls EXCEPT ![c] = [calls[c] EXCEPT !.at = "accept commit", !.order = o]]
          /\ orders' = [orders EXCEPT ![o] = NewOrder(q)]
          /\ UNCHANGED <<mayOverlap, quote, request, kyc>>
      BY <2>10 DEF AcceptOrder
    <3>. QED BY <3>1, <3>3, <3>4 DEF CallOK
  <2>11. CASE AcceptCommit(c)
    <3>1. q \in Quotes /\ calls[c].order \in Orders /\ calls[c].read \in RequestRow
      BY <2>1, <2>11 DEF AcceptCommit, CallOK, CallRow
    <3>2. BilledOrder(q, calls[c].read) \in OrderRow
      BY <3>1, BilledOrderType
    <3>3. [status |-> "ACCEPTED", order |-> calls[c].order] \in QuoteRow
      BY <3>1 DEF QuoteRow, QuoteStatus
    <3>. QED BY <2>2, <2>11, <3>1, <3>2, <3>3, WriteTypes DEF AcceptCommit
  <2>12. CASE Reject(c)
    BY <2>1, <2>2, <2>12, WriteTypes DEF Reject, CallOK, QuoteRow, QuoteStatus
  <2>. QED BY <1>5, <2>3, <2>4, <2>5, <2>6, <2>7, <2>8, <2>9, <2>10, <2>11, <2>12 DEF RunCall
<1>6. ASSUME NEW c \in Calls, Die(c) PROVE Typed'
  BY <1>6, IdleOK DEF Die, End, CallOK
<1>7. CASE UNCHANGED vars
  BY <1>7 DEF vars
<1>. QED BY <1>1, <1>2, <1>3, <1>4, <1>5, <1>6, <1>7 DEF Next

\* Initially the tables are empty and no call is in flight.
LEMMA TypedInit == Init => Typed
<1>. SUFFICES ASSUME Init PROVE Typed
  OBVIOUS
<1>1. quote \in [Quotes -> QuoteRow]
  BY DEF Init, QuoteRow, QuoteStatus
<1>2. request \in [Quotes -> RequestRow] /\ orders \in [Orders -> OrderRow \cup {NoRow}]
  BY NoRequestType DEF Init
<1>3. mayOverlap \in Regimes /\ kyc \subseteq Customers
  BY DEF Init
<1>4. calls \in [Calls -> CallRow] /\ \A c \in Calls : CallOK(calls[c])
  BY IdleOK DEF Init, CallOK
<1>. QED BY <1>1, <1>2, <1>3, <1>4 DEF Typed, TypeOK

LEMMA AlwaysTyped == Spec => []Typed
BY TypedInit, TypedStep, PTL DEF Spec

\* The rows and the calls in flight keep their types, whatever overlaps or dies.
THEOREM TypeCorrect == Spec => []TypeOK
BY AlwaysTyped, PTL DEF Typed

-----------------------------------------------------------------------------
(* What a request has achieved it keeps *)

\* s is a later version of the row r.
Keeps(r, s) ==
  /\ r.arrived => s.arrived
  /\ r.photo => s.photo
  /\ r.verified => s.verified
  /\ r.pay.kind # "none" => s.pay = r.pay

LEMMA WritesKeep ==
  ASSUME NEW r \in RequestRow
  PROVE  /\ \A p \in Partners : Keeps(r, Assigned(r, p))
         /\ Keeps(r, Reached(r))
         /\ Keeps(r, Photographed(r))
         /\ \A price \in Nat : Keeps(r, Verified(r, price))
         /\ \A pay \in Settlement : r.pay.kind = "none" => Keeps(r, Settled(r, pay))
         /\ Keeps(r, Completed(r))
         /\ \A o \in Orders : Keeps(r, Linked(r, o))
         /\ Keeps(r, Refused(r))
<1>. USE DEF RequestRow, Keeps
<1>1. \A p \in Partners : Keeps(r, Assigned(r, p))
  BY DEF Assigned
<1>2. Keeps(r, Reached(r)) /\ Keeps(r, Photographed(r))
  BY DEF Reached, Photographed
<1>3. \A price \in Nat : Keeps(r, Verified(r, price))
  BY DEF Verified
<1>4. \A pay \in Settlement : r.pay.kind = "none" => Keeps(r, Settled(r, pay))
  BY DEF Settled
<1>5. Keeps(r, Completed(r)) /\ Keeps(r, Refused(r))
  BY DEF Completed, Refused
<1>6. \A o \in Orders : Keeps(r, Linked(r, o))
  BY DEF Linked
<1>. QED BY <1>1, <1>2, <1>3, <1>4, <1>5, <1>6

\* Only a booking writes a row that did not exist, and no step takes anything
\* back from one that does.
LEMMA StepKeeps ==
  ASSUME Typed, [Next]_vars, NEW q \in Quotes
  PROVE  Keeps(request[q], request'[q]) /\ kyc \subseteq kyc'
<1>. USE DEF Typed, TypeOK
<1>1. ASSUME request' = request PROVE Keeps(request[q], request'[q])
  BY <1>1 DEF Keeps
<1>2. ASSUME NEW b \in Quotes, NEW row, Keeps(request[b], row),
             request' = [request EXCEPT ![b] = row]
      PROVE  Keeps(request[q], request'[q])
  BY <1>2 DEF Keeps
<1>3. ASSUME NEW b \in Quotes, NEW from, NEW row, Book(b, from, row)
      PROVE  Keeps(request[q], request'[q])
  <2>1. Keeps(NoRequest, row)
    BY DEF Keeps, NoRequest, Unsettled
  <2>. QED BY <1>2, <1>3, <2>1 DEF Book
<1>4. ASSUME NEW b \in Quotes, NEW p \in Partners, Claim(b, p)
      PROVE  Keeps(request[q], request'[q])
  BY <1>2, <1>4, WritesKeep DEF Claim
<1>5. ASSUME NEW c \in Calls, RunCall(c) PROVE Keeps(request[q], request'[q])
  <2>. DEFINE b == calls[c].quote
  <2>1. CallOK(calls[c])
    OBVIOUS
  <2>2. CASE calls[c].at = "idle"
    BY <1>5, <2>2 DEF RunCall, Assign, Arrive, SaveParcelPhoto, SaveAadhaar, Verify, Collect,
                      AcceptClaim, AcceptOrder, AcceptCommit, Reject
  <2>3. CASE calls[c].at # "idle"
    <3>1. b \in Quotes /\ request[b] \in RequestRow /\ calls[c].pay \in Settlement
      BY <2>1, <2>3 DEF CallOK, CallRow
    <3>2. CASE Assign(c)
      <4>1. calls[c].who \in Partners
        BY <2>1, <3>2 DEF Assign, CallOK
      <4>2. Keeps(request[b], Assigned(request[b], calls[c].who))
        BY <3>1, <4>1, WritesKeep
      <4>3. request' = [request EXCEPT ![b] = Assigned(request[b], calls[c].who)]
        BY <3>2 DEF Assign
      <4>. QED BY <1>2, <3>1, <4>2, <4>3
    <3>3. CASE Arrive(c)
      BY <1>1, <1>2, <3>1, <3>3, WritesKeep DEF Arrive
    <3>4. CASE SaveParcelPhoto(c)
      BY <1>2, <3>1, <3>4, WritesKeep DEF SaveParcelPhoto
    <3>5. CASE Verify(c)
      <4>1. PICK price \in Prices : request' = [request EXCEPT ![b] = Verified(@, price)]
        BY <3>5 DEF Verify
      <4>2. price \in Nat
        BY BookingAssumption
      <4>3. Keeps(request[b], Verified(request[b], price))
        BY <3>1, <4>2, WritesKeep
      <4>. QED BY <1>2, <3>1, <4>1, <4>3
    <3>6. CASE Collect(c)
      <4>1. CASE request[b].pay.kind = "none"
        <5>1. Keeps(request[b], Settled(request[b], calls[c].pay))
          BY <3>1, <4>1, WritesKeep
        <5>2. request' = [request EXCEPT ![b] = Settled(request[b], calls[c].pay)]
          BY <3>6, <4>1 DEF Collect
        <5>. QED BY <1>2, <3>1, <5>1, <5>2
      <4>2. CASE request[b].pay.kind # "none"
        BY <1>1, <3>6, <4>2 DEF Collect
      <4>. QED BY <4>1, <4>2
    <3>7. CASE AcceptClaim(c)
      BY <1>1, <1>2, <3>1, <3>7, WritesKeep DEF AcceptClaim
    <3>8. CASE AcceptCommit(c)
      <4>1. calls[c].order \in Orders
        BY <2>1, <3>8 DEF AcceptCommit, CallOK
      <4>2. Keeps(request[b], Linked(request[b], calls[c].order))
        BY <3>1, <4>1, WritesKeep
      <4>3. request' = [request EXCEPT ![b] = Linked(request[b], calls[c].order)]
        BY <3>8 DEF AcceptCommit
      <4>. QED BY <1>2, <3>1, <4>2, <4>3
    <3>9. CASE Reject(c)
      BY <1>2, <3>1, <3>9, WritesKeep DEF Reject
    <3>10. CASE SaveAadhaar(c) \/ \E o \in Orders : AcceptOrder(c, o)
      BY <1>1, <3>10 DEF SaveAadhaar, AcceptOrder
    <3>. QED BY <1>5, <3>2, <3>3, <3>4, <3>5, <3>6, <3>7, <3>8, <3>9, <3>10 DEF RunCall
  <2>. QED BY <2>2, <2>3
<1>6. ASSUME NEW c \in Calls, NEW b \in Quotes, StartCall(c, b) PROVE request' = request /\ kyc' = kyc
  BY <1>6 DEF StartCall, BeginAssign, BeginArrive, BeginUpload, BeginVerify, BeginCollect,
              BeginAccept, BeginReject, BeginWork
<1>7. kyc \subseteq kyc'
  BY <1>6 DEF Next, vars, Create, CommitBooking, Book, Claim, Die, RunCall, Assign, Arrive,
              SaveParcelPhoto, SaveAadhaar, Verify, Collect, AcceptClaim, AcceptOrder,
              AcceptCommit, Reject
<1>8. Keeps(request[q], request'[q])
  <2>1. CASE UNCHANGED vars
    BY <1>1, <2>1 DEF vars
  <2>2. ASSUME NEW b \in Quotes, Create(b) \/ CommitBooking(b)
        PROVE  Keeps(request[q], request'[q])
    BY <1>3, <2>2 DEF Create, CommitBooking
  <2>3. ASSUME NEW c \in Calls, Die(c) PROVE Keeps(request[q], request'[q])
    BY <1>1, <2>3 DEF Die
  <2>. QED BY <1>1, <1>4, <1>5, <1>6, <2>1, <2>2, <2>3 DEF Next
<1>. QED BY <1>7, <1>8

\* Payment is settled at most once, however many collections and deferrals of
\* one request are in flight.
THEOREM SettlesOnce == Spec => SettledOnce
<1>1. Typed /\ [Next]_vars
        => [\A q \in Quotes : request[q].pay.kind # "none" => request'[q].pay = request[q].pay]_vars
  BY StepKeeps DEF Keeps
<1>. QED BY <1>1, AlwaysTyped, PTL DEF Spec, SettledOnce

-----------------------------------------------------------------------------
(* The workflow cannot be skipped *)

\* Reached, photographed and backed by the shipper's Aadhaar.
AtDoor(q) == request[q].arrived /\ request[q].photo /\ CustomerOf[q] \in kyc

\* What is verified was at the door, and so is what is about to be verified;
\* what is being accepted, and what became an order, was handed over.
VerifiedAtDoor == \A q \in Quotes : request[q].verified => AtDoor(q)

VerifyingAtDoor == \A c \in Calls : calls[c].at = "verify" => AtDoor(calls[c].quote)

AcceptingHandedOver == \A c \in Calls : calls[c].at \in AcceptSteps => HandedOver(calls[c].quote)

OrderHandedOver == \A o \in Orders : orders[o] # NoRow => HandedOver(orders[o].for)

Unskipped ==
  Typed /\ VerifiedAtDoor /\ VerifyingAtDoor /\ AcceptingHandedOver /\ OrderHandedOver

\* A call in flight stays as it is, ends, begins, or is an accept going on.
LEMMA StepCalls ==
  ASSUME Typed, [Next]_vars, NEW c \in Calls
  PROVE  \/ calls'[c] = calls[c]
         \/ calls'[c] = Idle
         \/ \E q \in Quotes : StartCall(c, q)
         \/ AcceptClaim(c) /\ IsOpen(request[calls[c].quote])
         \/ \E o \in Orders : AcceptOrder(c, o)
<1>. USE DEF Typed, TypeOK
<1>1. ASSUME NEW d \in Calls, NEW row, calls' = [calls EXCEPT ![d] = row], d # c
      PROVE  calls'[c] = calls[c]
  BY <1>1
<1>2. ASSUME NEW d \in Calls, End(d) PROVE calls'[c] = calls[c] \/ calls'[c] = Idle
  BY <1>2 DEF End
<1>3. ASSUME NEW d \in Calls, NEW q \in Quotes, StartCall(d, q), d # c
      PROVE  calls'[c] = calls[c]
  <2>1. PICK row : calls' = [calls EXCEPT ![d] = row]
    BY <1>3 DEF StartCall, BeginAssign, BeginArrive, BeginUpload, BeginVerify, BeginCollect,
                BeginAccept, BeginReject, BeginWork, Begin
  <2>. QED BY <1>1, <1>3, <2>1
<1>4. ASSUME NEW d \in Calls, RunCall(d), ~End(d)
      PROVE  \/ AcceptClaim(d) /\ IsOpen(request[calls[d].quote])
             \/ \E o \in Orders : AcceptOrder(d, o)
  BY <1>4 DEF RunCall, Assign, Arrive, SaveParcelPhoto, SaveAadhaar, Verify, Collect,
              AcceptClaim, AcceptCommit, Reject
<1>5. ASSUME NEW d \in Calls, AcceptClaim(d), IsOpen(request[calls[d].quote]), d # c
      PROVE  calls'[c] = calls[c]
  BY <1>5 DEF AcceptClaim
<1>6. ASSUME NEW d \in Calls, NEW o \in Orders, AcceptOrder(d, o), d # c
      PROVE  calls'[c] = calls[c]
  BY <1>6 DEF AcceptOrder
<1>7. CASE calls' = calls
  BY <1>7
<1>8. CASE \E d \in Calls : Die(d)
  BY <1>2, <1>8 DEF Die
<1>9. CASE \E d \in Calls : RunCall(d)
  BY <1>2, <1>4, <1>5, <1>6, <1>9
<1>10. CASE \E d \in Calls, q \in Quotes : StartCall(d, q)
  BY <1>3, <1>10
<1>. QED BY <1>7, <1>8, <1>9, <1>10 DEF Next, vars, Create, CommitBooking, Book, Claim

\* A call that begins knows its operation and its booking, and one that begins to
\* verify or accept read what its handler checks.
LEMMA StartChecks ==
  ASSUME Typed, NEW c \in Calls, NEW q \in Quotes, StartCall(c, q)
  PROVE  /\ calls[c] = Idle
         /\ calls'[c].quote = q
         /\ calls'[c].at \in Statements \ {"accept order", "accept commit"}
         /\ CanStart(OpOf(calls'[c]), q)
         /\ calls'[c].at \in {"assign", "verify", "accept claim"} => IsOpen(request[q])
         /\ calls'[c].at = "verify" => AtDoor(q)
         /\ calls'[c].at = "accept claim" => request[q].verified /\ request[q].pay.kind # "none"
         /\ UNCHANGED <<quote, request, orders, kyc>>
<1>. USE DEF Typed, TypeOK
<1>1. Idle \in CallRow
  BY IdleOK DEF CallOK
<1>2. ASSUME NEW at \in Statements, NEW who, NEW pay, NEW read, Begin(c, NewCall(at, q, who, pay, read))
      PROVE  /\ calls[c] = Idle
             /\ calls'[c].quote = q
             /\ calls'[c].at = at
             /\ CanStart(OpOf(calls'[c]), q)
  <2>. DEFINE call == NewCall(at, q, who, pay, read)
  <2>1. call.at = at /\ call.quote = q
    BY <1>1 DEF NewCall, CallRow
  <2>2. calls'[c] = call
    BY <1>2 DEF Begin
  <2>. QED BY <1>2, <2>1, <2>2 DEF Begin
<1>3. ASSUME NEW p \in Partners, BeginAssign(c, q, p)
      PROVE  /\ IsOpen(request[q]) /\ Begin(c, NewCall("assign", q, p, Unsettled, NoRequest))
             /\ UNCHANGED <<quote, request, orders, kyc>>
  BY <1>3 DEF BeginAssign
<1>4. ASSUME NEW who \in Actors, BeginVerify(c, q, who)
      PROVE  /\ IsOpen(request[q]) /\ AtDoor(q)
             /\ Begin(c, NewCall("verify", q, who, Unsettled, NoRequest))
             /\ UNCHANGED <<quote, request, orders, kyc>>
  BY <1>4 DEF BeginVerify, BeginWork, AtDoor
<1>5. ASSUME NEW who \in Actors, BeginAccept(c, q, who)
      PROVE  /\ IsOpen(request[q]) /\ request[q].verified /\ request[q].pay.kind # "none"
             /\ Begin(c, NewCall("accept claim", q, who, Unsettled, request[q]))
             /\ UNCHANGED <<quote, request, orders, kyc>>
  BY <1>5 DEF BeginAccept
<1>6. ASSUME NEW who \in Actors, NEW pay \in [kind : {"full", "part", "deferred"}, amount : Prices \cup {0}],
             BeginCollect(c, q, who, pay)
      PROVE  /\ Begin(c, NewCall("collect", q, who, pay, NoRequest))
             /\ UNCHANGED <<quote, request, orders, kyc>>
  BY <1>6 DEF BeginCollect
<1>7. ASSUME NEW who \in Actors,
             \/ BeginArrive(c, q, who)
             \/ \E at \in {"photo", "aadhaar"} : BeginUpload(c, q, who, at)
             \/ BeginReject(c, q, who)
      PROVE  /\ \E at \in {"arrive", "photo", "aadhaar", "reject"} :
                  Begin(c, NewCall(at, q, who, Unsettled, NoRequest))
             /\ UNCHANGED <<quote, request, orders, kyc>>
  BY <1>7 DEF BeginArrive, BeginUpload, BeginReject, BeginWork
<1>8. {"assign", "verify", "accept claim", "collect", "arrive", "photo", "aadhaar", "reject"} \subseteq Statements
  BY DEF Statements, Ops
<1>9. CASE \E p \in Partners : BeginAssign(c, q, p)
  BY <1>2, <1>3, <1>8, <1>9
<1>10. CASE \E who \in Actors : BeginVerify(c, q, who)
  BY <1>2, <1>4, <1>8, <1>10
<1>11. CASE \E who \in Actors : BeginAccept(c, q, who)
  BY <1>2, <1>5, <1>8, <1>11
<1>12. CASE \E who \in Actors, pay \in [kind : {"full", "part", "deferred"}, amount : Prices \cup {0}] :
              BeginCollect(c, q, who, pay)
  BY <1>2, <1>6, <1>8, <1>12
<1>13. CASE \E who \in Actors :
              \/ BeginArrive(c, q, who)
              \/ \E at \in {"photo", "aadhaar"} : BeginUpload(c, q, who, at)
              \/ BeginReject(c, q, who)
  BY <1>2, <1>7, <1>8, <1>13
<1>. QED BY <1>9, <1>10, <1>11, <1>12, <1>13 DEF StartCall

\* Being at the door and being handed over are never taken back.
LEMMA DoorPersists ==
  ASSUME Typed, [Next]_vars, NEW q \in Quotes
  PROVE  (AtDoor(q) => AtDoor(q)') /\ (HandedOver(q) => HandedOver(q)')
BY StepKeeps DEF Keeps, AtDoor, HandedOver

\* A request becomes verified by a verification that was in flight only.
LEMMA OnlyVerifyVerifies ==
  ASSUME Typed, [Next]_vars, NEW q \in Quotes, ~request[q].verified, request'[q].verified
  PROVE  \E c \in Calls : calls[c].at = "verify" /\ calls[c].quote = q
<1>. USE DEF Typed, TypeOK
<1>1. ASSUME NEW b \in Quotes, NEW row, request' = [request EXCEPT ![b] = row],
             row.verified = request[b].verified
      PROVE  FALSE
  BY <1>1
<1>2. ASSUME NEW r \in RequestRow
      PROVE  /\ \A p : Assigned(r, p).verified = r.verified
             /\ Reached(r).verified = r.verified
             /\ Photographed(r).verified = r.verified
             /\ \A pay : Settled(r, pay).verified = r.verified
             /\ Completed(r).verified = r.verified
             /\ \A o : Linked(r, o).verified = r.verified
             /\ Refused(r).verified = r.verified
  BY DEF RequestRow, Assigned, Reached, Photographed, Settled, Completed, Linked, Refused
<1>3. ASSUME NEW b \in Quotes, NEW from, NEW p, NEW drop, NEW estimate, NEW discount,
             Book(b, from, NewRequest(p, drop, estimate, discount))
      PROVE  FALSE
  <2>1. NewRequest(p, drop, estimate, discount).verified = FALSE /\ NoRequest.verified = FALSE
    BY DEF NewRequest, NoRequest
  <2>. QED BY <1>1, <1>3, <2>1 DEF Book
<1>4. ASSUME NEW b \in Quotes, NEW p \in Partners, Claim(b, p) PROVE FALSE
  BY <1>1, <1>2, <1>4 DEF Claim
<1>5. ASSUME NEW c \in Calls, RunCall(c), ~Verify(c) PROVE FALSE
  <2>. DEFINE b == calls[c].quote
  <2>1. calls[c].at # "idle"
    BY <1>5 DEF RunCall, Assign, Arrive, SaveParcelPhoto, SaveAadhaar, Collect, AcceptClaim,
                AcceptOrder, AcceptCommit, Reject
  <2>2. b \in Quotes /\ request[b] \in RequestRow
    BY <2>1 DEF CallOK
  <2>3. CASE request' = request
    BY <2>3
  <2>4. CASE \/ request' = [request EXCEPT ![b] = Assigned(request[b], calls[c].who)]
             \/ request' = [request EXCEPT ![b] = Linked(request[b], calls[c].order)]
             \/ request' = [request EXCEPT ![b] = Settled(request[b], calls[c].pay)]
    <3>1. /\ Assigned(request[b], calls[c].who).verified = request[b].verified
          /\ Linked(request[b], calls[c].order).verified = request[b].verified
          /\ Settled(request[b], calls[c].pay).verified = request[b].verified
      BY <1>2, <2>2
    <3>. QED BY <1>1, <2>2, <2>4, <3>1
  <2>5. CASE \E row \in {Reached(request[b]), Photographed(request[b]), Completed(request[b]),
                         Refused(request[b])} :
               request' = [request EXCEPT ![b] = row]
    BY <1>1, <1>2, <2>2, <2>5
  <2>. QED BY <1>5, <2>3, <2>4, <2>5
    DEF RunCall, Assign, Arrive, SaveParcelPhoto, SaveAadhaar, Collect, AcceptClaim, AcceptOrder,
        AcceptCommit, Reject
<1>6. ASSUME NEW c \in Calls, Verify(c) PROVE calls[c].at = "verify" /\ calls[c].quote = q
  <2>1. PICK price : request' = [request EXCEPT ![calls[c].quote] = Verified(@, price)]
    BY <1>6 DEF Verify
  <2>. QED BY <1>6, <2>1 DEF Verify
<1>7. CASE request' = request
  BY <1>7
<1>8. CASE \E b \in Quotes : Create(b) \/ CommitBooking(b)
  BY <1>3, <1>8 DEF Create, CommitBooking
<1>9. ASSUME NEW c \in Calls, NEW b \in Quotes, StartCall(c, b) PROVE request' = request
  BY <1>9, StartChecks
<1>. QED BY <1>4, <1>5, <1>6, <1>7, <1>8, <1>9 DEF Next, vars, Die

\* A call keeps the booking and the operation it began with.
LEMMA SameCall ==
  ASSUME Typed, [Next]_vars, NEW c \in Calls, calls'[c].at # "idle"
  PROVE  \/ /\ calls[c].at # "idle" /\ calls'[c].quote = calls[c].quote
            /\ OpOf(calls'[c]) = OpOf(calls[c])
         \/ \E q \in Quotes : StartCall(c, q)
<1>. USE DEF Typed, TypeOK
<1>1. Idle.at = "idle"
  BY DEF Idle
<1>2. CASE AcceptClaim(c) /\ IsOpen(request[calls[c].quote])
  <2>1. calls'[c] = [calls[c] EXCEPT !.at = "accept order"]
    BY <1>2 DEF AcceptClaim
  <2>. QED BY <1>2, <2>1 DEF AcceptClaim, OpOf, AcceptSteps, CallRow
<1>3. CASE \E o \in Orders : AcceptOrder(c, o)
  <2>1. PICK o \in Orders : AcceptOrder(c, o)
    BY <1>3
  <2>2. calls'[c] = [calls[c] EXCEPT !.at = "accept commit", !.order = o]
    BY <2>1 DEF AcceptOrder
  <2>. QED BY <2>1, <2>2 DEF AcceptOrder, OpOf, AcceptSteps, CallRow
<1>. QED BY <1>1, <1>2, <1>3, StepCalls

\* An order row is inserted by an accept, for its booking, and stays its.
LEMMA OrdersGrow ==
  ASSUME Typed, [Next]_vars, NEW o \in Orders
  PROVE  \/ orders'[o] = NoRow /\ orders[o] = NoRow
         \/ orders[o] # NoRow /\ orders'[o] # NoRow /\ orders'[o].for = orders[o].for
         \/ \E c \in Calls : /\ AcceptOrder(c, o) /\ orders[o] = NoRow
                             /\ orders'[o] # NoRow /\ orders'[o].for = calls[c].quote
         \/ \E c \in Calls : /\ AcceptCommit(c) /\ o = calls[c].order
                             /\ orders'[o] # NoRow /\ orders'[o].for = calls[c].quote
<1>. USE DEF Typed, TypeOK
<1>1. CASE orders' = orders
  BY <1>1
<1>2. ASSUME NEW c \in Calls, NEW n \in Orders, AcceptOrder(c, n)
      PROVE  /\ orders' = [orders EXCEPT ![n] = NewOrder(calls[c].quote)] /\ orders[n] = NoRow
             /\ NewOrder(calls[c].quote) # NoRow
             /\ NewOrder(calls[c].quote).for = calls[c].quote
  <2>1. calls[c].quote \in Quotes
    BY <1>2 DEF AcceptOrder, CallOK
  <2>. QED BY <1>2, <2>1, NewOrderType DEF AcceptOrder
<1>3. ASSUME NEW c \in Calls, AcceptCommit(c)
      PROVE  \E row \in OrderRow : /\ row.for = calls[c].quote
                                   /\ orders' = [orders EXCEPT ![calls[c].order] = row]
  <2>1. calls[c].quote \in Quotes /\ calls[c].read \in RequestRow
    BY <1>3 DEF AcceptCommit, CallOK, CallRow
  <2>2. BilledOrder(calls[c].quote, calls[c].read) \in OrderRow
        /\ BilledOrder(calls[c].quote, calls[c].read).for = calls[c].quote
    BY <2>1, BilledOrderType
  <2>. QED BY <1>3, <2>2 DEF AcceptCommit
<1>4. CASE \E c \in Calls, n \in Orders : AcceptOrder(c, n)
  BY <1>2, <1>4
<1>5. CASE \E c \in Calls : AcceptCommit(c)
  <2>1. PICK c \in Calls : AcceptCommit(c)
    BY <1>5
  <2>2. PICK row \in OrderRow : /\ row.for = calls[c].quote
                                /\ orders' = [orders EXCEPT ![calls[c].order] = row]
    BY <1>3, <2>1
  <2>3. row # NoRow
    BY BookingAssumption
  <2>. QED BY <2>1, <2>2, <2>3
<1>6. ASSUME NEW c \in Calls, NEW b \in Quotes, StartCall(c, b) PROVE orders' = orders
  BY <1>6, StartChecks
<1>. QED BY <1>1, <1>4, <1>5, <1>6
  DEF Next, vars, Create, CommitBooking, Book, Claim, RunCall, Die, Assign, Arrive,
      SaveParcelPhoto, SaveAadhaar, Verify, Collect, AcceptClaim, Reject

LEMMA UnskippedStep == Unskipped /\ [Next]_vars => Unskipped'
<1>. SUFFICES ASSUME Unskipped, [Next]_vars PROVE Unskipped'
  OBVIOUS
<1>. USE DEF Unskipped
<1>1. Typed'
  BY TypedStep
<1>2. VerifyingAtDoor'
  <2>. SUFFICES ASSUME NEW c \in Calls, calls'[c].at = "verify" PROVE AtDoor(calls[c].quote)'
    BY DEF VerifyingAtDoor
  <2>1. ASSUME NEW q \in Quotes, StartCall(c, q) PROVE AtDoor(q) /\ calls'[c].quote = q
    BY <2>1, StartChecks
  <2>2. CASE /\ calls[c].at # "idle" /\ calls'[c].quote = calls[c].quote
             /\ OpOf(calls'[c]) = OpOf(calls[c])
    <3>1. calls[c].at = "verify"
      BY <2>2 DEF OpOf, AcceptSteps
    <3>2. calls[c].quote \in Quotes
      BY <3>1 DEF Typed, CallOK
    <3>. QED BY <2>2, <3>1, <3>2, DoorPersists DEF VerifyingAtDoor
  <2>. QED BY <2>1, <2>2, SameCall, DoorPersists
<1>3. VerifiedAtDoor'
  <2>. SUFFICES ASSUME NEW q \in Quotes, request'[q].verified PROVE AtDoor(q)'
    BY DEF VerifiedAtDoor
  <2>1. CASE request[q].verified
    BY <2>1, DoorPersists DEF VerifiedAtDoor
  <2>2. CASE ~request[q].verified
    <3>1. PICK c \in Calls : calls[c].at = "verify" /\ calls[c].quote = q
      BY <2>2, OnlyVerifyVerifies
    <3>. QED BY <3>1, DoorPersists DEF VerifyingAtDoor
  <2>. QED BY <2>1, <2>2
<1>4. AcceptingHandedOver'
  <2>. SUFFICES ASSUME NEW c \in Calls, calls'[c].at \in AcceptSteps
                PROVE  HandedOver(calls[c].quote)'
    BY DEF AcceptingHandedOver
  <2>1. ASSUME NEW q \in Quotes, StartCall(c, q) PROVE HandedOver(q) /\ calls'[c].quote = q
    <3>1. request[q].verified /\ request[q].pay.kind # "none" /\ calls'[c].quote = q
      BY <2>1, StartChecks DEF AcceptSteps
    <3>. QED BY <3>1 DEF VerifiedAtDoor, HandedOver, AtDoor
  <2>2. CASE /\ calls[c].at # "idle" /\ calls'[c].quote = calls[c].quote
             /\ OpOf(calls'[c]) = OpOf(calls[c])
    <3>1. calls[c].at \in AcceptSteps
      BY <2>2 DEF OpOf, AcceptSteps, Typed, TypeOK, CallRow, Statements, Ops
    <3>2. calls[c].quote \in Quotes
      BY <2>2 DEF Typed, CallOK
    <3>. QED BY <2>2, <3>1, <3>2, DoorPersists DEF AcceptingHandedOver
  <2>. QED BY <2>1, <2>2, SameCall, DoorPersists DEF AcceptSteps
<1>5. OrderHandedOver'
  <2>. SUFFICES ASSUME NEW o \in Orders, orders'[o] # NoRow PROVE HandedOver(orders[o].for)'
    BY DEF OrderHandedOver
  <2>1. CASE orders[o] # NoRow /\ orders'[o].for = orders[o].for
    <3>1. orders[o].for \in Quotes
      BY <2>1 DEF Typed, TypeOK, OrderRow
    <3>. QED BY <2>1, <3>1, DoorPersists DEF OrderHandedOver
  <2>2. ASSUME NEW c \in Calls, \/ AcceptCommit(c) \/ AcceptOrder(c, o),
               orders'[o].for = calls[c].quote
        PROVE  HandedOver(orders[o].for)'
    <3>1. calls[c].at \in AcceptSteps
      BY <2>2 DEF AcceptOrder, AcceptCommit, AcceptSteps
    <3>2. calls[c].quote \in Quotes
      BY <3>1 DEF Typed, CallOK, AcceptSteps
    <3>. QED BY <2>2, <3>1, <3>2, DoorPersists DEF AcceptingHandedOver
  <2>. QED BY <2>1, <2>2, OrdersGrow
<1>. QED BY <1>1, <1>2, <1>3, <1>4, <1>5

LEMMA AlwaysUnskipped == Spec => []Unskipped
<1>1. Init => Unskipped
  <2>. SUFFICES ASSUME Init PROVE Unskipped
    OBVIOUS
  <2>1. NoRequest.verified = FALSE /\ Idle.at = "idle"
    BY DEF NoRequest, Idle
  <2>. QED BY <2>1, TypedInit
    DEF Init, Unskipped, VerifiedAtDoor, VerifyingAtDoor, AcceptingHandedOver, OrderHandedOver,
        AcceptSteps
<1>. QED BY <1>1, UnskippedStep, PTL DEF Spec

\* The door workflow cannot be skipped: an order only ever exists for a parcel
\* that was reached, photographed, backed by an Aadhaar, verified and settled.
THEOREM WorkflowUnskippable == Spec => []OrderOnlyAfterHandover
<1>1. Unskipped => OrderOnlyAfterHandover
  BY DEF Unskipped, OrderHandedOver, OrderOnlyAfterHandover, OrdersFor
<1>. QED BY <1>1, AlwaysUnskipped, PTL

-----------------------------------------------------------------------------
(* One order per request, unless it is reopened while it is accepted *)

Placing == {"accept order", "accept commit"}

Reopening == {"assign", "verify"}

\* A call writes the row of a booking apart from every call it may not overlap.
ReopensApart ==
  \A c, d \in Calls :
    calls[c].at \in Reopening /\ calls[d].at \in AcceptSteps => calls[c].quote # calls[d].quote

\* Whoever won the claim holds a closed request, alone.
ClaimHeld ==
  \A c \in Calls : calls[c].at \in Placing =>
    /\ request[calls[c].quote].status \in Terminal
    /\ \A d \in Calls : calls[d].at \in Placing /\ calls[d].quote = calls[c].quote => d = c

\* A request with an order is closed, and nothing in flight reopens it or is about
\* to order it again.
OrderedIsClosed ==
  \A o \in Orders : orders[o] # NoRow =>
    /\ request[orders[o].for].status \in Terminal
    /\ \A c \in Calls : calls[c].at \in Reopening \cup {"accept order"}
                          => calls[c].quote # orders[o].for

\* The order an accept closes with is the booking's.
CommitsItsOrder ==
  \A c \in Calls : calls[c].at = "accept commit" =>
    orders[calls[c].order] # NoRow /\ orders[calls[c].order].for = calls[c].quote

Single ==
  /\ Unskipped
  /\ ReopensApart /\ ClaimHeld /\ OrderedIsClosed /\ CommitsItsOrder
  /\ OneOrderPerRequest

LEMMA OpenOrClosed ==
  ASSUME NEW r PROVE IsOpen(r) => r.status \notin Terminal /\ r.status # "NONE"
BY DEF IsOpen, NonTerminal, Terminal

\* A closed request that was reached is reopened only by an assignment or a
\* verification that was in flight on it.
LEMMA OnlyReopeningReopens ==
  ASSUME Typed, [Next]_vars, NEW q \in Quotes,
         request[q].status \in Terminal, request[q].arrived,
         \A c \in Calls : calls[c].at \in Reopening => calls[c].quote # q
  PROVE  request'[q].status \in Terminal
<1>. USE DEF Typed, TypeOK
<1>1. request[q] # NoRequest /\ ~IsOpen(request[q]) /\ ~Claimable(request[q])
  <2>1. NoRequest.status = "NONE"
    BY DEF NoRequest
  <2>. QED BY <2>1, OpenOrClosed DEF Terminal, Claimable
<1>2. ASSUME NEW b \in Quotes, NEW row, request' = [request EXCEPT ![b] = row],
             b # q \/ row.status \in Terminal
      PROVE  request'[q].status \in Terminal
  BY <1>2
<1>3. CASE request' = request
  BY <1>3
<1>4. ASSUME NEW b \in Quotes, NEW from, NEW row, Book(b, from, row)
      PROVE  request'[q].status \in Terminal
  BY <1>1, <1>4 DEF Book
<1>5. ASSUME NEW b \in Quotes, NEW p \in Partners, Claim(b, p)
      PROVE  request'[q].status \in Terminal
  BY <1>1, <1>5 DEF Claim
<1>6. ASSUME NEW c \in Calls, RunCall(c) PROVE request'[q].status \in Terminal
  <2>. DEFINE b == calls[c].quote
  <2>1. calls[c].at # "idle"
    BY <1>6 DEF RunCall, Assign, Arrive, SaveParcelPhoto, SaveAadhaar, Verify, Collect,
                AcceptClaim, AcceptOrder, AcceptCommit, Reject
  <2>2. b \in Quotes /\ request[b] \in RequestRow
    BY <2>1 DEF CallOK
  <2>3. CASE Assign(c) \/ Verify(c)
    <3>1. b # q
      BY <2>3 DEF Assign, Verify, Reopening
    <3>. QED BY <1>2, <2>2, <2>3, <3>1 DEF Assign, Verify
  <2>4. CASE Arrive(c)
    BY <1>2, <1>3, <2>2, <2>4 DEF Arrive
  <2>5. CASE SaveParcelPhoto(c)
    <3>1. Photographed(request[b]).status = request[b].status
      BY <2>2 DEF Photographed, RequestRow
    <3>. QED BY <1>2, <2>2, <2>5, <3>1 DEF SaveParcelPhoto
  <2>6. CASE Collect(c)
    <3>1. Settled(request[b], calls[c].pay).status = request[b].status
      BY <2>2 DEF Settled, RequestRow
    <3>. QED BY <1>2, <1>3, <2>2, <2>6, <3>1 DEF Collect
  <2>7. CASE AcceptClaim(c)
    BY <1>1, <1>2, <1>3, <2>2, <2>7 DEF AcceptClaim
  <2>8. CASE AcceptCommit(c)
    <3>1. Linked(request[b], calls[c].order).status \in Terminal
      BY <2>2 DEF Linked, RequestRow, Terminal
    <3>2. request' = [request EXCEPT ![b] = Linked(request[b], calls[c].order)]
      BY <2>8 DEF AcceptCommit
    <3>. QED BY <1>2, <2>2, <3>1, <3>2
  <2>9. CASE Reject(c)
    <3>1. Refused(request[b]).status \in Terminal
      BY <2>2 DEF Refused, RequestRow, Terminal
    <3>. QED BY <1>2, <2>2, <2>9, <3>1 DEF Reject
  <2>. QED BY <1>3, <1>6, <2>3, <2>4, <2>5, <2>6, <2>7, <2>8, <2>9
    DEF RunCall, SaveAadhaar, AcceptOrder
<1>7. ASSUME NEW c \in Calls, NEW b \in Quotes, StartCall(c, b) PROVE request' = request
  BY <1>7, StartChecks
<1>. QED BY <1>3, <1>4, <1>5, <1>6, <1>7 DEF Next, vars, Die, Create, CommitBooking

\* A call that holds a claim held it before, or claims an open request now.
LEMMA PlacingBefore ==
  ASSUME Typed, [Next]_vars, NEW c \in Calls, calls'[c].at \in Placing
  PROVE  /\ calls'[c].quote = calls[c].quote
         /\ \/ calls[c].at \in Placing
            \/ AcceptClaim(c) /\ IsOpen(request[calls[c].quote])
<1>. USE DEF Typed, TypeOK
<1>1. Idle.at = "idle"
  BY DEF Idle
<1>2. CASE AcceptClaim(c) /\ IsOpen(request[calls[c].quote])
  <2>1. calls'[c] = [calls[c] EXCEPT !.at = "accept order"]
    BY <1>2 DEF AcceptClaim
  <2>. QED BY <1>2, <2>1 DEF CallRow
<1>3. CASE \E o \in Orders : AcceptOrder(c, o)
  <2>1. PICK o \in Orders : AcceptOrder(c, o)
    BY <1>3
  <2>2. calls'[c] = [calls[c] EXCEPT !.at = "accept commit", !.order = o]
    BY <2>1 DEF AcceptOrder
  <2>. QED BY <2>1, <2>2 DEF AcceptOrder, Placing, CallRow
<1>4. ASSUME NEW q \in Quotes, StartCall(c, q) PROVE FALSE
  BY <1>4, StartChecks DEF Placing
<1>. QED BY <1>1, <1>2, <1>3, <1>4, StepCalls DEF Placing

\* The regime never changes.
LEMMA RegimeStays == [Next]_vars => mayOverlap' = mayOverlap
<1>1. ASSUME NEW c \in Calls, NEW q \in Quotes, StartCall(c, q) PROVE mayOverlap' = mayOverlap
  BY <1>1 DEF StartCall, BeginAssign, BeginArrive, BeginUpload, BeginVerify, BeginCollect,
              BeginAccept, BeginReject, BeginWork
<1>2. ASSUME NEW c \in Calls, RunCall(c) PROVE mayOverlap' = mayOverlap
  BY <1>2 DEF RunCall, Assign, Arrive, SaveParcelPhoto, SaveAadhaar, Verify, Collect,
              AcceptClaim, AcceptOrder, AcceptCommit, Reject
<1>. QED BY <1>1, <1>2 DEF Next, vars, Create, CommitBooking, Book, Claim, Die

\* Reopening calls stay apart from accepts: neither starts while the other is in flight.
LEMMA ApartStep == NothingReopens /\ Typed /\ ReopensApart /\ [Next]_vars => ReopensApart'
<1>. SUFFICES ASSUME NothingReopens, Typed, ReopensApart, [Next]_vars,
                     NEW c \in Calls, NEW d \in Calls,
                     calls'[c].at \in Reopening, calls'[d].at \in AcceptSteps
              PROVE  calls'[c].quote # calls'[d].quote
  BY DEF ReopensApart
<1>. USE DEF Reopening, AcceptSteps, OpOf
<1>1. calls'[c].at # "idle" /\ calls'[d].at # "idle" /\ c # d
  OBVIOUS
<1>2. ASSUME NEW e \in Calls, NEW f \in Calls, e # f, NEW q \in Quotes, StartCall(e, q)
      PROVE  calls'[f] = calls[f]
  <2>1. PICK row : calls' = [calls EXCEPT ![e] = row]
    BY <1>2 DEF StartCall, BeginAssign, BeginArrive, BeginUpload, BeginVerify, BeginCollect,
                BeginAccept, BeginReject, BeginWork, Begin
  <2>. QED BY <1>2, <2>1 DEF Typed, TypeOK
<1>3. ASSUME NEW q \in Quotes, StartCall(c, q) PROVE calls'[c].quote # calls'[d].quote
  <2>1. CanStart(calls'[c].at, q) /\ calls'[c].quote = q
    BY <1>3, StartChecks
  <2>2. calls'[d] = calls[d]
    BY <1>1, <1>2, <1>3
  <2>. QED BY <1>1, <2>1, <2>2 DEF CanStart, On, NothingReopens
<1>4. ASSUME NEW q \in Quotes, StartCall(d, q) PROVE calls'[c].quote # calls'[d].quote
  <2>1. CanStart("accept", q) /\ calls'[d].quote = q
    BY <1>4, StartChecks
  <2>2. calls'[c] = calls[c]
    BY <1>1, <1>2, <1>4
  <2>. QED BY <1>1, <2>1, <2>2 DEF CanStart, On, NothingReopens
<1>5. CASE /\ calls'[c].quote = calls[c].quote /\ OpOf(calls'[c]) = OpOf(calls[c])
           /\ calls'[d].quote = calls[d].quote /\ OpOf(calls'[d]) = OpOf(calls[d])
  <2>1. calls[c].at \in Statements \cup {"idle"} /\ calls[d].at \in Statements \cup {"idle"}
    BY DEF Typed, TypeOK, CallRow
  <2>2. calls[c].at \in Reopening /\ calls[d].at \in AcceptSteps
    BY <1>5, <2>1 DEF Statements, Ops
  <2>. QED BY <1>5, <2>2 DEF ReopensApart
<1>. QED BY <1>1, <1>3, <1>4, <1>5, SameCall

LEMMA SingleStep == NothingReopens /\ Single /\ [Next]_vars => Single'
<1>. SUFFICES ASSUME NothingReopens, Single, [Next]_vars PROVE Single'
  OBVIOUS
<1>. USE DEF Single
<1>0. Typed /\ Unskipped' /\ ReopensApart'
  BY UnskippedStep, ApartStep DEF Unskipped
<1>1. \A o \in Orders : orders'[o] # NoRow =>
        \/ orders[o] # NoRow /\ orders'[o].for = orders[o].for
        \/ \E c \in Calls : /\ AcceptOrder(c, o) /\ orders[o] = NoRow
                            /\ orders'[o].for = calls[c].quote
  <2>. SUFFICES ASSUME NEW o \in Orders, NEW c \in Calls, AcceptCommit(c), o = calls[c].order,
                       orders'[o].for = calls[c].quote
                PROVE  orders[o] # NoRow /\ orders'[o].for = orders[o].for
    BY <1>0, OrdersGrow
  <2>. QED BY DEF AcceptCommit, CommitsItsOrder
<1>2. \A c \in Calls : calls[c].at # "idle" => calls[c].quote \in Quotes
  BY <1>0 DEF Typed, CallOK
<1>3. ASSUME NEW c \in Calls, calls[c].at \in Placing
      PROVE  request'[calls[c].quote].status \in Terminal
  <2>1. calls[c].quote \in Quotes /\ request[calls[c].quote].status \in Terminal
    BY <1>2, <1>3 DEF ClaimHeld, Placing
  <2>2. calls[c].at \in AcceptSteps
    BY <1>3 DEF Placing, AcceptSteps
  <2>3. request[calls[c].quote].arrived
    BY <2>2 DEF Unskipped, AcceptingHandedOver, HandedOver
  <2>. QED BY <1>0, <2>1, <2>2, <2>3, OnlyReopeningReopens DEF ReopensApart
<1>4. ClaimHeld'
  <2>. SUFFICES ASSUME NEW c \in Calls, calls'[c].at \in Placing
                PROVE  /\ request'[calls'[c].quote].status \in Terminal
                       /\ \A d \in Calls :
                            calls'[d].at \in Placing /\ calls'[d].quote = calls'[c].quote => d = c
    BY DEF ClaimHeld
  <2>1. request'[calls'[c].quote].status \in Terminal
    <3>1. CASE calls[c].at \in Placing
      BY <1>0, <1>3, <3>1, PlacingBefore
    <3>2. CASE AcceptClaim(c) /\ IsOpen(request[calls[c].quote])
      <4>1. calls[c].quote \in Quotes
        BY <1>2, <3>2 DEF AcceptClaim
      <4>2. Completed(request[calls[c].quote]).status \in Terminal
        BY <1>0, <4>1 DEF Completed, Terminal, Typed, TypeOK, RequestRow
      <4>3. request'[calls[c].quote] = Completed(request[calls[c].quote])
        BY <1>0, <3>2, <4>1 DEF AcceptClaim, Typed, TypeOK
      <4>. QED BY <1>0, <4>2, <4>3, PlacingBefore
    <3>. QED BY <1>0, <3>1, <3>2, PlacingBefore
  <2>2. ASSUME NEW d \in Calls, calls'[d].at \in Placing, calls'[d].quote = calls'[c].quote
        PROVE  d = c
    <3>1. calls[c].quote = calls[d].quote
      BY <1>0, <2>2, PlacingBefore
    <3>2. CASE calls[c].at \in Placing /\ calls[d].at \in Placing
      BY <3>1, <3>2 DEF ClaimHeld
    <3>3. CASE IsOpen(request[calls[c].quote]) /\ (calls[c].at \in Placing \/ calls[d].at \in Placing)
      BY <3>1, <3>3, OpenOrClosed DEF ClaimHeld
    <3>4. CASE AcceptClaim(c) /\ AcceptClaim(d) /\ IsOpen(request[calls[c].quote])
      <4>1. calls' = [calls EXCEPT ![c] = [calls[c] EXCEPT !.at = "accept order"]]
        BY <3>4 DEF AcceptClaim
      <4>2. calls[d].at = "accept claim"
        BY <3>4 DEF AcceptClaim
      <4>. QED BY <1>0, <2>2, <4>1, <4>2 DEF Placing, Typed, TypeOK
    <3>. QED BY <1>0, <2>2, <3>1, <3>2, <3>3, <3>4, PlacingBefore
  <2>. QED BY <2>1, <2>2
<1>5. OrderedIsClosed'
  <2>. SUFFICES ASSUME NEW o \in Orders, orders'[o] # NoRow
                PROVE  /\ request'[orders'[o].for].status \in Terminal
                       /\ \A c \in Calls : calls'[c].at \in Reopening \cup {"accept order"}
                                             => calls'[c].quote # orders'[o].for
    BY DEF OrderedIsClosed
  <2>. DEFINE q == orders'[o].for
  <2>1. q \in Quotes
    BY <1>0, TypedStep DEF Typed, TypeOK, OrderRow
  <2>2. request'[q].status \in Terminal
    <3>1. CASE orders[o] # NoRow /\ orders[o].for = q
      <4>1. /\ request[q].status \in Terminal /\ request[q].arrived
            /\ \A c \in Calls : calls[c].at \in Reopening => calls[c].quote # q
        BY <3>1 DEF OrderedIsClosed, Unskipped, OrderHandedOver, HandedOver
      <4>. QED BY <1>0, <2>1, <4>1, OnlyReopeningReopens
    <3>2. CASE \E c \in Calls : AcceptOrder(c, o) /\ q = calls[c].quote
      BY <1>3, <3>2 DEF AcceptOrder, Placing
    <3>. QED BY <1>1, <3>1, <3>2
  <2>3. ASSUME NEW c \in Calls, calls'[c].at \in Reopening \cup {"accept order"},
               calls'[c].quote = q
        PROVE  FALSE
    <3>1. ASSUME orders' = orders PROVE request[q].status \in Terminal
      BY <3>1 DEF OrderedIsClosed
    <3>2. CASE AcceptClaim(c) /\ IsOpen(request[calls[c].quote])
      <4>1. calls'[c] = [calls[c] EXCEPT !.at = "accept order"]
        BY <1>0, <3>2 DEF AcceptClaim, Typed, TypeOK
      <4>2. calls[c].quote = q
        BY <1>0, <2>3, <4>1 DEF Typed, TypeOK, CallRow
      <4>. QED BY <3>1, <3>2, <4>2, OpenOrClosed DEF AcceptClaim
    <3>3. ASSUME NEW n \in Orders, AcceptOrder(c, n) PROVE FALSE
      <4>1. calls'[c] = [calls[c] EXCEPT !.at = "accept commit", !.order = n]
        BY <1>0, <3>3 DEF AcceptOrder, Typed, TypeOK
      <4>2. calls'[c].at = "accept commit"
        BY <1>0, <4>1 DEF Typed, TypeOK, CallRow
      <4>. QED BY <2>3, <4>2 DEF Reopening
    <3>4. ASSUME NEW b \in Quotes, StartCall(c, b) PROVE FALSE
      <4>1. b = q /\ orders' = orders /\ IsOpen(request[q])
        BY <1>0, <2>3, <3>4, StartChecks DEF Reopening
      <4>. QED BY <3>1, <4>1, OpenOrClosed
    <3>5. CASE calls'[c] = calls[c]
      <4>1. CASE orders[o] # NoRow /\ orders[o].for = q
        BY <2>3, <3>5, <4>1 DEF OrderedIsClosed
      <4>2. CASE \E d \in Calls : AcceptOrder(d, o) /\ q = calls[d].quote
        <5>1. PICK d \in Calls : AcceptOrder(d, o) /\ q = calls[d].quote
          BY <4>2
        <5>2. calls[d].at = "accept order"
          BY <5>1 DEF AcceptOrder
        <5>3. d # c
          BY <3>3, <5>1
        <5>4. calls[c].at \notin Reopening
          BY <2>3, <3>5, <5>1, <5>2 DEF ReopensApart, AcceptSteps
        <5>. QED BY <2>3, <3>5, <5>1, <5>2, <5>3, <5>4 DEF ClaimHeld, Placing
      <4>. QED BY <1>1, <4>1, <4>2
    <3>6. CASE calls'[c] = Idle
      BY <2>3, <3>6 DEF Idle, Reopening
    <3>. QED BY <1>0, <3>2, <3>3, <3>4, <3>5, <3>6, StepCalls
  <2>. QED BY <2>2, <2>3
<1>6. CommitsItsOrder'
  <2>. SUFFICES ASSUME NEW c \in Calls, calls'[c].at = "accept commit"
                PROVE  orders'[calls'[c].order] # NoRow
                       /\ orders'[calls'[c].order].for = calls'[c].quote
    BY DEF CommitsItsOrder
  <2>1. ASSUME NEW n \in Orders, AcceptOrder(c, n)
        PROVE  orders'[calls'[c].order] # NoRow /\ orders'[calls'[c].order].for = calls'[c].quote
    <3>1. calls'[c] = [calls[c] EXCEPT !.at = "accept commit", !.order = n]
      BY <1>0, <2>1 DEF AcceptOrder, Typed, TypeOK
    <3>2. calls'[c].order = n /\ calls'[c].quote = calls[c].quote
      BY <1>0, <3>1 DEF Typed, TypeOK, CallRow
    <3>3. calls[c].quote \in Quotes
      BY <1>2, <2>1 DEF AcceptOrder
    <3>4. orders'[n] = NewOrder(calls[c].quote)
      BY <1>0, <2>1 DEF AcceptOrder, Typed, TypeOK
    <3>. QED BY <3>2, <3>3, <3>4, NewOrderType
  <2>2. CASE calls'[c] = calls[c]
    <3>1. calls[c].order \in Orders
      BY <1>0, <2>2 DEF Typed, CallOK
    <3>2. orders[calls[c].order] # NoRow /\ orders[calls[c].order].for = calls[c].quote
      BY <2>2 DEF CommitsItsOrder
    <3>3. orders'[calls[c].order] # NoRow
      BY <1>0, <3>1, <3>2, OrdersGrow
    <3>. QED BY <1>1, <2>2, <3>1, <3>2, <3>3
  <2>3. CASE AcceptClaim(c) /\ IsOpen(request[calls[c].quote])
    <3>1. calls'[c] = [calls[c] EXCEPT !.at = "accept order"]
      BY <1>0, <2>3 DEF AcceptClaim, Typed, TypeOK
    <3>. QED BY <1>0, <3>1 DEF Typed, TypeOK, CallRow
  <2>4. ASSUME NEW b \in Quotes, StartCall(c, b) PROVE FALSE
    BY <1>0, <2>4, StartChecks
  <2>5. Idle.at = "idle"
    BY DEF Idle
  <2>. QED BY <1>0, <2>1, <2>2, <2>3, <2>4, <2>5, StepCalls
<1>7. OneOrderPerRequest'
  <2>. SUFFICES ASSUME NEW o1 \in Orders, NEW o2 \in Orders, orders'[o1] # NoRow,
                       orders'[o2] # NoRow, orders'[o1].for = orders'[o2].for
                PROVE  o1 = o2
    BY DEF OneOrderPerRequest, OrdersFor
  <2>1. CASE orders[o1] # NoRow /\ orders[o2] # NoRow
    <3>1. orders[o1].for = orders[o2].for /\ orders[o1].for \in Quotes
      BY <1>0, <1>1, <2>1 DEF Typed, TypeOK, OrderRow
    <3>. QED BY <2>1, <3>1 DEF OneOrderPerRequest, OrdersFor
  <2>2. ASSUME NEW a \in Orders, NEW n \in Orders, NEW c \in Calls, AcceptOrder(c, n),
               orders[a] # NoRow, orders'[a].for = calls[c].quote
        PROVE  FALSE
    <3>1. a # n /\ orders'[a] = orders[a]
      BY <1>0, <2>2 DEF AcceptOrder, Typed, TypeOK
    <3>. QED BY <2>2, <3>1 DEF AcceptOrder, OrderedIsClosed
  <2>3. ASSUME NEW c \in Calls, AcceptOrder(c, o1), orders[o2] = NoRow PROVE o1 = o2
    BY <1>0, <2>3 DEF AcceptOrder, Typed, TypeOK
  <2>. QED BY <1>1, <2>1, <2>2, <2>3
<1>. QED BY <1>0, <1>4, <1>5, <1>6, <1>7

LEMMA SingleInit == Init => Single
<1>. SUFFICES ASSUME Init PROVE Single
  OBVIOUS
<1>1. Idle.at = "idle"
  BY DEF Idle
<1>2. Unskipped
  BY TypedInit DEF Init, Unskipped, VerifiedAtDoor, VerifyingAtDoor, AcceptingHandedOver,
                   OrderHandedOver, NoRequest, Idle, AcceptSteps
<1>. QED BY <1>1, <1>2
  DEF Init, Single, ReopensApart, ClaimHeld, OrderedIsClosed, CommitsItsOrder,
      OneOrderPerRequest, OrdersFor, Reopening, Placing

\* Unless an assignment or a verification that read the request as open is still
\* in flight when it is accepted, one pickup request never becomes two orders,
\* however many accepts race and wherever handlers die.
THEOREM RequestsAreOrderedOnce == Spec => []OneOrderUnlessReopened
<1>1. NothingReopens' /\ [Next]_vars => NothingReopens
  BY RegimeStays DEF NothingReopens
<1>2. (NothingReopens => Single) /\ [Next]_vars => (NothingReopens => Single)'
  BY <1>1, SingleStep
<1>3. (NothingReopens => Single) => OneOrderUnlessReopened
  BY DEF Single, OneOrderUnlessReopened
<1>. QED BY <1>2, <1>3, SingleInit, PTL DEF Spec

-----------------------------------------------------------------------------
(* What a call writes *)

\* The status that each write of a request leaves.
LEMMA WriteStatus ==
  ASSUME NEW r \in RequestRow
  PROVE  /\ \A p, price : Assigned(r, p).status # "NONE" /\ Verified(r, price).status # "NONE"
         /\ Reached(r).status # "NONE"
         /\ \A o : Linked(r, o).status = "COMPLETED"
         /\ Completed(r).status = "COMPLETED" /\ Refused(r).status = "REJECTED"
BY DEF RequestRow, Assigned, Verified, Reached, Linked, Completed, Refused

LEMMA NewRequestStatus ==
  \A p, drop, estimate, discount : NewRequest(p, drop, estimate, discount).status # "NONE"
BY NoRequestType DEF NewRequest, NoRequest

\* Only a call that may reopen a request leaves one open that was not, only an accept
\* or a rejection writes the quote, and a call writes no booking but its own.
LEMMA RunWrites ==
  ASSUME Typed, NEW c \in Calls, RunCall(c)
  PROVE  LET q == calls[c].quote IN
         /\ calls[c].at # "idle" /\ q \in Quotes
         /\ \A p \in Quotes \ {q} : quote'[p] = quote[p] /\ request'[p] = request[p]
         /\ request[q].status # "NONE" => request'[q].status # "NONE"
         /\ \/ /\ quote' = quote
               /\ \/ calls[c].at \in {"assign", "arrive", "verify"}
                  \/ IsOpen(request'[q]) => IsOpen(request[q])
            \/ /\ calls[c].at = "reject"
               /\ quote'[q].status = "REJECTED" /\ ~IsOpen(request'[q])
            \/ /\ calls[c].at = "accept commit"
               /\ quote'[q].status = "ACCEPTED" /\ ~IsOpen(request'[q])
<1>. DEFINE q == calls[c].quote
<1>. USE DEF Typed, TypeOK
<1>1. calls[c].at # "idle" /\ q \in Quotes
  BY DEF RunCall, Assign, Arrive, SaveParcelPhoto, SaveAadhaar, Verify, Collect, AcceptClaim,
         AcceptOrder, AcceptCommit, Reject, CallOK
<1>2. request[q] \in RequestRow /\ quote[q] \in QuoteRow
  BY <1>1
<1>3. CASE Assign(c) \/ Arrive(c) \/ Verify(c)
  <2>1. /\ calls[c].at \in {"assign", "arrive", "verify"} /\ quote' = quote
        /\ \A p \in Quotes \ {q} : request'[p] = request[p]
    BY <1>1, <1>3 DEF Assign, Arrive, Verify
  <2>2. request[q].status # "NONE" => request'[q].status # "NONE"
    <3>1. CASE Assign(c)
      BY <1>1, <1>2, <3>1, WriteStatus DEF Assign
    <3>2. CASE Arrive(c)
      BY <1>1, <1>2, <3>2, WriteStatus DEF Arrive
    <3>3. CASE Verify(c)
      <4>1. PICK price \in Prices : request' = [request EXCEPT ![q] = Verified(@, price)]
        BY <3>3 DEF Verify
      <4>2. Verified(request[q], price).status # "NONE"
        BY <1>2, WriteStatus
      <4>. QED BY <1>1, <4>1, <4>2
    <3>. QED BY <1>3, <3>1, <3>2, <3>3
  <2>. QED BY <1>1, <2>1, <2>2
<1>4. CASE SaveParcelPhoto(c) \/ SaveAadhaar(c) \/ Collect(c)
  <2>1. /\ Photographed(request[q]).status = request[q].status
        /\ \A pay : Settled(request[q], pay).status = request[q].status
    BY <1>2 DEF Photographed, Settled, RequestRow
  <2>2. quote' = quote /\ request'[q].status = request[q].status
    BY <1>1, <1>4, <2>1 DEF SaveParcelPhoto, SaveAadhaar, Collect
  <2>3. \A p \in Quotes \ {q} : request'[p] = request[p]
    BY <1>1, <1>4 DEF SaveParcelPhoto, SaveAadhaar, Collect
  <2>. QED BY <1>1, <2>2, <2>3 DEF IsOpen
<1>5. CASE AcceptClaim(c) \/ \E o \in Orders : AcceptOrder(c, o)
  <2>1. ~IsOpen(Completed(request[q]))
    BY <1>2, WriteStatus DEF IsOpen, NonTerminal
  <2>2. quote' = quote /\ (request' = request \/ request' = [request EXCEPT ![q] = Completed(@)])
    BY <1>5 DEF AcceptClaim, AcceptOrder
  <2>3. Completed(request[q]).status # "NONE"
    BY <1>2, WriteStatus
  <2>. QED BY <1>1, <2>1, <2>2, <2>3
<1>6. CASE AcceptCommit(c)
  <2>1. ~IsOpen(Linked(request[q], calls[c].order))
    BY <1>2, WriteStatus DEF IsOpen, NonTerminal
  <2>2. /\ quote' = [quote EXCEPT ![q] = [status |-> "ACCEPTED", order |-> calls[c].order]]
        /\ request' = [request EXCEPT ![q] = Linked(@, calls[c].order)]
        /\ calls[c].at = "accept commit"
    BY <1>6 DEF AcceptCommit
  <2>3. Linked(request[q], calls[c].order).status # "NONE"
    BY <1>2, WriteStatus
  <2>. QED BY <1>1, <2>1, <2>2, <2>3
<1>7. CASE Reject(c)
  <2>1. ~IsOpen(Refused(request[q]))
    BY <1>2, WriteStatus DEF IsOpen, NonTerminal
  <2>2. /\ quote' = [quote EXCEPT ![q] = [quote[q] EXCEPT !.status = "REJECTED"]]
        /\ request' = [request EXCEPT ![q] = Refused(@)]
        /\ calls[c].at = "reject"
    BY <1>7 DEF Reject
  <2>3. [quote[q] EXCEPT !.status = "REJECTED"].status = "REJECTED"
    BY <1>2 DEF QuoteRow
  <2>4. Refused(request[q]).status # "NONE"
    BY <1>2, WriteStatus
  <2>. QED BY <1>1, <2>1, <2>2, <2>3, <2>4
<1>. QED BY <1>3, <1>4, <1>5, <1>6, <1>7 DEF RunCall

\* A call begins on a booking that has its request, open for what may write the quote
\* or open the request.
LEMMA StartsOnRequest ==
  ASSUME Typed, NEW c \in Calls, NEW q \in Quotes, StartCall(c, q)
  PROVE  /\ request[q] # NoRequest
         /\ \/ IsOpen(request[q])
            \/ calls'[c].at \in {"photo", "aadhaar", "collect"}
<1>1. ~IsOpen(NoRequest)
  BY NoRequestType DEF IsOpen, NonTerminal
<1>2. ASSUME NEW at \in Statements, NEW who, NEW pay, NEW read, Begin(c, NewCall(at, q, who, pay, read))
      PROVE  calls'[c].at = at
  <2>1. NewCall(at, q, who, pay, read).at = at
    BY IdleOK DEF NewCall, CallRow, CallOK
  <2>. QED BY <1>2, <2>1 DEF Begin, Typed, TypeOK
<1>3. CASE \E p \in Partners : BeginAssign(c, q, p)
  BY <1>1, <1>3 DEF BeginAssign
<1>4. CASE \E who \in Actors : BeginArrive(c, q, who) \/ BeginVerify(c, q, who)
                               \/ BeginAccept(c, q, who) \/ BeginReject(c, q, who)
  BY <1>1, <1>4 DEF BeginArrive, BeginVerify, BeginAccept, BeginReject
<1>5. ASSUME NEW who \in Actors, NEW at \in {"photo", "aadhaar"}, BeginUpload(c, q, who, at)
      PROVE  request[q] # NoRequest /\ calls'[c].at = at
  <2>1. at \in Statements
    BY DEF Statements, Ops
  <2>. QED BY <1>2, <1>5, <2>1 DEF BeginUpload
<1>6. ASSUME NEW who \in Actors, NEW pay, BeginCollect(c, q, who, pay)
      PROVE  request[q] # NoRequest /\ calls'[c].at = "collect"
  <2>1. "collect" \in Statements
    BY DEF Statements, Ops
  <2>. QED BY <1>2, <1>6, <2>1 DEF BeginCollect
<1>. QED BY <1>3, <1>4, <1>5, <1>6 DEF StartCall

\* A call that begins at the door moves no other.
LEMMA StartMoves ==
  ASSUME Typed, NEW c \in Calls, NEW d \in Calls, d # c, NEW q \in Quotes, StartCall(c, q)
  PROVE  calls'[d] = calls[d]
<1>1. PICK row : calls' = [calls EXCEPT ![c] = row]
  BY DEF StartCall, BeginAssign, BeginArrive, BeginUpload, BeginVerify, BeginCollect,
         BeginAccept, BeginReject, BeginWork, Begin
<1>. QED BY <1>1 DEF Typed, TypeOK

\* A call at the door that runs ends, or is an accept going on; it moves no other.
LEMMA RunMoves ==
  ASSUME Typed, NEW c \in Calls, RunCall(c)
  PROVE  /\ \A d \in Calls \ {c} : calls'[d] = calls[d]
         /\ \/ calls'[c] = Idle
            \/ /\ calls'[c].quote = calls[c].quote
               /\ \/ /\ AcceptClaim(c) /\ IsOpen(request[calls[c].quote])
                     /\ calls[c].at = "accept claim" /\ calls'[c].at = "accept order"
                  \/ /\ \E o \in Orders : AcceptOrder(c, o) /\ calls'[c].order = o
                     /\ calls[c].at = "accept order" /\ calls'[c].at = "accept commit"
<1>. USE DEF Typed, TypeOK
<1>0. calls[c] \in CallRow
  OBVIOUS
<1>1. CASE End(c)
  BY <1>1 DEF End
<1>2. CASE AcceptClaim(c) /\ ~End(c)
  <2>1. calls' = [calls EXCEPT ![c].at = "accept order"] /\ calls[c].at = "accept claim"
        /\ IsOpen(request[calls[c].quote])
    BY <1>2 DEF AcceptClaim
  <2>. QED BY <1>0, <1>2, <2>1 DEF CallRow
<1>3. CASE \E o \in Orders : AcceptOrder(c, o)
  <2>1. PICK o \in Orders : AcceptOrder(c, o)
    BY <1>3
  <2>2. /\ calls' = [calls EXCEPT ![c].at = "accept commit", ![c].order = o]
        /\ calls[c].at = "accept order"
    BY <2>1 DEF AcceptOrder
  <2>. QED BY <1>0, <2>1, <2>2 DEF CallRow
<1>. QED BY <1>1, <1>2, <1>3 DEF RunCall, Assign, Arrive, SaveParcelPhoto, SaveAadhaar, Verify,
       Collect, AcceptCommit, Reject
=============================================================================
