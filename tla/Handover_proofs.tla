--------------------------- MODULE Handover_proofs ---------------------------
(***************************************************************************)
(* PickupRequests implements Handover: if of the handlers that move a      *)
(* request's status only repeats of one overlap, a booking is opened,      *)
(* settled, and ends once, and its quote and its order's bill agree with   *)
(* it.  Then, of what is claimed, that it is followed up, and of the price *)
(* an order is settled for, what alone can make it differ.                 *)
(***************************************************************************)
EXTENDS PickupRequests_proofs

-----------------------------------------------------------------------------
(* One partner *)

\* Whoever claims and however claims, assignments and the work at the door overlap, a
\* request that has a partner changes hands by an admin's assignment only.
THEOREM ClaimsAreExclusive == Spec => ClaimedByOne
<1>1. ASSUME Typed, [Next]_vars, NEW q \in Quotes,
             request[q].partner # NoPartner, request'[q].partner # request[q].partner
      PROVE  \E c \in Calls : On(c, q) /\ calls[c].at = "assign" /\ ~On(c, q)'
  <2>. USE DEF Typed, TypeOK
  <2>1. ASSUME NEW b \in Quotes, NEW row, request' = [request EXCEPT ![b] = row],
               b = q => row.partner = request[q].partner
        PROVE  FALSE
    BY <1>1, <2>1
  <2>2. ASSUME NEW b \in Quotes, NEW from, NEW row, Book(b, from, row) PROVE FALSE
    <3>1. NoRequest.partner = NoPartner
      BY DEF NoRequest
    <3>. QED BY <1>1, <2>2, <3>1 DEF Book
  <2>3. ASSUME NEW b \in Quotes, NEW p \in Partners, Claim(b, p) PROVE FALSE
    BY <1>1, <2>3 DEF Claim, Claimable
  <2>4. ASSUME NEW c \in Calls, RunCall(c), ~Assign(c) PROVE FALSE
    <3>. DEFINE b == calls[c].quote
    <3>1. b \in Quotes /\ request[b] \in RequestRow
      BY <1>1, <2>4, RunWrites
    <3>2. /\ Reached(request[b]).partner = request[b].partner
          /\ Photographed(request[b]).partner = request[b].partner
          /\ \A price : Verified(request[b], price).partner = request[b].partner
          /\ \A pay : Settled(request[b], pay).partner = request[b].partner
          /\ Completed(request[b]).partner = request[b].partner
          /\ \A o : Linked(request[b], o).partner = request[b].partner
          /\ Refused(request[b]).partner = request[b].partner
      BY <3>1 DEF RequestRow, Reached, Photographed, Verified, Settled, Completed, Linked,
         Refused
    <3>3. CASE request' = request
      BY <1>1, <3>3
    <3>4. CASE \E row : /\ request' = [request EXCEPT ![b] = row]
                        /\ row.partner = request[b].partner
      BY <2>1, <3>1, <3>4
    <3>5. CASE Verify(c)
      BY <3>2, <3>4, <3>5 DEF Verify
    <3>6. CASE AcceptCommit(c) \/ Reject(c) \/ SaveParcelPhoto(c)
      BY <3>2, <3>4, <3>6 DEF AcceptCommit, Reject, SaveParcelPhoto
    <3>7. CASE Arrive(c) \/ Collect(c) \/ AcceptClaim(c)
      BY <3>2, <3>3, <3>4, <3>7 DEF Arrive, Collect, AcceptClaim
    <3>. QED BY <2>4, <3>3, <3>5, <3>6, <3>7 DEF RunCall, SaveAadhaar, AcceptOrder
  <2>5. ASSUME NEW c \in Calls, Assign(c)
        PROVE  On(c, q) /\ calls[c].at = "assign" /\ ~On(c, q)'
    <3>1. calls[c].at = "assign" /\ calls[c].quote = q
      BY <1>1, <2>5 DEF Assign
    <3>2. calls'[c].at = "idle"
      BY <1>1, <2>5 DEF Assign, End, Idle
    <3>. QED BY <3>1, <3>2 DEF On
  <2>6. CASE request' = request
    BY <1>1, <2>6
  <2>7. CASE \E b \in Quotes : Create(b) \/ CommitBooking(b)
    BY <2>2, <2>7 DEF Create, CommitBooking
  <2>8. CASE \E b \in Quotes, p \in Partners : Claim(b, p)
    BY <2>3, <2>8
  <2>9. CASE \E c \in Calls : RunCall(c)
    BY <2>4, <2>5, <2>9
  <2>10. CASE \E c \in Calls, b \in Quotes : StartCall(c, b)
    BY <1>1, <2>6, <2>10, StartChecks
  <2>. QED BY <1>1, <2>6, <2>7, <2>8, <2>9, <2>10 DEF Next, vars, Die
<1>2. Typed /\ [Next]_vars
        => [\A q \in Quotes :
              (request[q].partner # NoPartner /\ request'[q].partner # request[q].partner)
                => \E c \in Calls : On(c, q) /\ calls[c].at = "assign" /\ ~On(c, q)']_vars
  BY <1>1
<1>. QED BY <1>2, AlwaysTyped, PTL DEF Spec, ClaimedByOne

-----------------------------------------------------------------------------
(* What a step writes on a booking *)

\* s is the row r but for the status, the partner and what was done at the door.
SameMoney(r, s) ==
  s.pay = r.pay /\ s.order = r.order /\ s.price = r.price /\ s.discount = r.discount

Untouched(q) ==
  /\ quote'[q] = quote[q] /\ request'[q].status = request[q].status
  /\ SameMoney(request[q], request'[q])

Books(q) ==
  /\ request[q] = NoRequest /\ IsOpen(request'[q])
  /\ request'[q].pay = Unsettled /\ request'[q].order = NoOrder
  /\ quote'[q] = [status |-> "PICKUP_REQUESTED", order |-> quote[q].order]

Claims(q) ==
  /\ IsOpen(request[q]) /\ IsOpen(request'[q])
  /\ SameMoney(request[q], request'[q]) /\ quote'[q] = quote[q]

\* What the call c may write on its booking q.
Writes(c, q) ==
  LET r == request[q]
      s == request'[q]
  IN
  /\ RunCall(c) /\ calls[c].at # "idle" /\ calls[c].quote = q
  /\ \/ Untouched(q) /\ calls[c].at # "accept commit"
     \/ /\ calls[c].at \in {"assign", "arrive", "verify"} /\ quote'[q] = quote[q]
        /\ IsOpen(s) /\ s.pay = r.pay /\ s.order = r.order
        /\ calls[c].at # "verify" => SameMoney(r, s)
     \/ /\ calls[c].at = "collect" /\ quote'[q] = quote[q]
        /\ s.status = r.status /\ r.pay.kind = "none"
        /\ SameMoney([r EXCEPT !.pay = calls[c].pay], s)
     \/ /\ calls[c].at = "accept claim" /\ quote'[q] = quote[q]
        /\ IsOpen(r) /\ s.status = "COMPLETED" /\ SameMoney(r, s)
     \/ /\ calls[c].at = "accept commit"
        /\ quote'[q] = [status |-> "ACCEPTED", order |-> calls[c].order]
        /\ s.status = "COMPLETED" /\ SameMoney([r EXCEPT !.order = calls[c].order], s)
     \/ /\ calls[c].at = "reject"
        /\ quote'[q] = [status |-> "REJECTED", order |-> quote[q].order]
        /\ s.status = "REJECTED" /\ SameMoney(r, s)

Others(q) == \A b \in Quotes \ {q} : quote'[b] = quote[b] /\ request'[b] = request[b]

LEMMA RowWrites ==
  ASSUME NEW r \in RequestRow
  PROVE  /\ \A p : IsOpen(Assigned(r, p)) /\ SameMoney(r, Assigned(r, p))
         /\ IsOpen(Reached(r)) /\ SameMoney(r, Reached(r))
         /\ Photographed(r).status = r.status /\ SameMoney(r, Photographed(r))
         /\ \A price : /\ IsOpen(Verified(r, price)) /\ Verified(r, price).pay = r.pay
                       /\ Verified(r, price).order = r.order
         /\ \A pay : /\ Settled(r, pay).status = r.status
                     /\ SameMoney([r EXCEPT !.pay = pay], Settled(r, pay))
         /\ Completed(r).status = "COMPLETED" /\ SameMoney(r, Completed(r))
         /\ \A o : /\ Linked(r, o).status = "COMPLETED"
                   /\ SameMoney([r EXCEPT !.order = o], Linked(r, o))
         /\ Refused(r).status = "REJECTED" /\ SameMoney(r, Refused(r))
<1>. USE DEF RequestRow, SameMoney
<1>1. \A p : IsOpen(Assigned(r, p)) /\ SameMoney(r, Assigned(r, p))
  BY DEF Assigned, IsOpen, NonTerminal
<1>2. IsOpen(Reached(r)) /\ SameMoney(r, Reached(r))
  BY DEF Reached, IsOpen, NonTerminal
<1>3. Photographed(r).status = r.status /\ SameMoney(r, Photographed(r))
  BY DEF Photographed
<1>4. \A price : /\ IsOpen(Verified(r, price)) /\ Verified(r, price).pay = r.pay
                 /\ Verified(r, price).order = r.order
  BY DEF Verified, IsOpen, NonTerminal
<1>5. \A pay : /\ Settled(r, pay).status = r.status
               /\ SameMoney([r EXCEPT !.pay = pay], Settled(r, pay))
  BY DEF Settled
<1>6. Completed(r).status = "COMPLETED" /\ SameMoney(r, Completed(r))
  BY DEF Completed
<1>7. \A o : /\ Linked(r, o).status = "COMPLETED"
             /\ SameMoney([r EXCEPT !.order = o], Linked(r, o))
  BY DEF Linked
<1>8. Refused(r).status = "REJECTED" /\ SameMoney(r, Refused(r))
  BY DEF Refused
<1>. QED BY <1>1, <1>2, <1>3, <1>4, <1>5, <1>6, <1>7, <1>8

LEMMA CallWrites ==
  ASSUME Typed, NEW c \in Calls, RunCall(c)
  PROVE  calls[c].quote \in Quotes /\ Others(calls[c].quote) /\ Writes(c, calls[c].quote)
<1>. DEFINE q == calls[c].quote
<1>. USE DEF Typed, TypeOK
<1>1. calls[c].at # "idle" /\ q \in Quotes /\ Others(q)
  BY RunWrites DEF Others
<1>2. request[q] \in RequestRow /\ quote[q] \in QuoteRow
  BY <1>1
<1>3. request' = request /\ quote' = quote => Untouched(q)
  BY DEF Untouched, SameMoney
<1>4. CASE Assign(c)
  <2>1. request'[q] = Assigned(request[q], calls[c].who) /\ quote' = quote /\ calls[c].at = "assign"
    BY <1>1, <1>4 DEF Assign
  <2>. QED BY <1>1, <1>2, <2>1, RowWrites DEF Writes, SameMoney
<1>5. CASE Arrive(c)
  <2>1. CASE request' = request
    BY <1>1, <1>3, <1>5, <2>1 DEF Writes, Arrive
  <2>2. CASE request' # request
    <3>1. request'[q] = Reached(request[q]) /\ quote' = quote /\ calls[c].at = "arrive"
      BY <1>1, <1>5, <2>2 DEF Arrive
    <3>. QED BY <1>1, <1>2, <3>1, RowWrites DEF Writes, SameMoney
  <2>. QED BY <2>1, <2>2
<1>6. CASE SaveParcelPhoto(c)
  <2>1. request'[q] = Photographed(request[q]) /\ quote' = quote /\ calls[c].at = "photo"
    BY <1>1, <1>6 DEF SaveParcelPhoto
  <2>. QED BY <1>1, <1>2, <2>1, RowWrites DEF Writes, Untouched
<1>7. CASE SaveAadhaar(c) \/ \E o \in Orders : AcceptOrder(c, o)
  BY <1>1, <1>3, <1>7 DEF Writes, SaveAadhaar, AcceptOrder
<1>8. CASE Verify(c)
  <2>1. PICK price \in Prices : request' = [request EXCEPT ![q] = Verified(@, price)]
    BY <1>8 DEF Verify
  <2>2. request'[q] = Verified(request[q], price) /\ quote' = quote /\ calls[c].at = "verify"
    BY <1>1, <1>8, <2>1 DEF Verify
  <2>3. /\ IsOpen(request'[q]) /\ request'[q].pay = request[q].pay
        /\ request'[q].order = request[q].order
    BY <1>2, <2>2, RowWrites
  <2>. QED BY <1>1, <1>8, <2>2, <2>3 DEF Writes
<1>9. CASE Collect(c)
  <2>1. CASE request[q].pay.kind # "none"
    BY <1>1, <1>3, <1>9, <2>1 DEF Writes, Collect
  <2>2. CASE request[q].pay.kind = "none"
    <3>1. request'[q] = Settled(request[q], calls[c].pay) /\ quote' = quote /\ calls[c].at = "collect"
      BY <1>1, <1>9, <2>2 DEF Collect
    <3>2. /\ Settled(request[q], calls[c].pay).status = request[q].status
          /\ SameMoney([request[q] EXCEPT !.pay = calls[c].pay], Settled(request[q], calls[c].pay))
      BY <1>2, RowWrites
    <3>. QED BY <1>1, <2>2, <3>1, <3>2 DEF Writes
  <2>. QED BY <2>1, <2>2
<1>10. CASE AcceptClaim(c)
  <2>1. CASE request' = request
    BY <1>1, <1>3, <1>10, <2>1 DEF Writes, AcceptClaim
  <2>2. CASE request' # request
    <3>1. /\ request'[q] = Completed(request[q]) /\ quote' = quote
          /\ IsOpen(request[q]) /\ calls[c].at = "accept claim"
      BY <1>1, <1>10, <2>2 DEF AcceptClaim
    <3>2. /\ Completed(request[q]).status = "COMPLETED"
          /\ SameMoney(request[q], Completed(request[q]))
      BY <1>2, RowWrites
    <3>. QED BY <1>1, <1>10, <3>1, <3>2 DEF Writes
  <2>. QED BY <2>1, <2>2
<1>11. CASE AcceptCommit(c)
  <2>1. /\ request'[q] = Linked(request[q], calls[c].order)
        /\ quote'[q] = [status |-> "ACCEPTED", order |-> calls[c].order]
        /\ calls[c].at = "accept commit"
    BY <1>1, <1>11 DEF AcceptCommit
  <2>2. /\ Linked(request[q], calls[c].order).status = "COMPLETED"
        /\ SameMoney([request[q] EXCEPT !.order = calls[c].order], Linked(request[q], calls[c].order))
    BY <1>2, RowWrites
  <2>. QED BY <1>1, <1>11, <2>1, <2>2 DEF Writes
<1>12. CASE Reject(c)
  <2>1. /\ request'[q] = Refused(request[q])
        /\ quote'[q] = [quote[q] EXCEPT !.status = "REJECTED"]
        /\ calls[c].at = "reject"
    BY <1>1, <1>12 DEF Reject
  <2>2. quote'[q] = [status |-> "REJECTED", order |-> quote[q].order]
    BY <1>2, <2>1 DEF QuoteRow
  <2>. QED BY <1>1, <1>2, <1>12, <2>1, <2>2, RowWrites DEF Writes
<1>. QED BY <1>1, <1>4, <1>5, <1>6, <1>7, <1>8, <1>9, <1>10, <1>11, <1>12 DEF RunCall

\* A step books one request, claims one, or runs a call on one.
LEMMA Steps ==
  ASSUME Typed, [Next]_vars
  PROVE  \/ UNCHANGED <<quote, request>>
         \/ \E q \in Quotes : /\ Others(q)
                              /\ Books(q) \/ Claims(q) \/ \E c \in Calls : Writes(c, q)
<1>. USE DEF Typed, TypeOK
<1>1. ASSUME NEW q \in Quotes, NEW from, NEW p, NEW drop, NEW estimate, NEW discount,
             Book(q, from, NewRequest(p, drop, estimate, discount))
      PROVE  Others(q) /\ Books(q)
  <2>1. /\ IsOpen(NewRequest(p, drop, estimate, discount))
        /\ NewRequest(p, drop, estimate, discount).pay = Unsettled
        /\ NewRequest(p, drop, estimate, discount).order = NoOrder
    BY DEF NewRequest, NoRequest, IsOpen, NonTerminal
  <2>2. quote[q] \in QuoteRow /\ quote'[q] = [quote[q] EXCEPT !.status = "PICKUP_REQUESTED"]
    BY <1>1 DEF Book
  <2>3. quote'[q] = [status |-> "PICKUP_REQUESTED", order |-> quote[q].order]
    BY <2>2 DEF QuoteRow
  <2>4. request'[q] = NewRequest(p, drop, estimate, discount) /\ request[q] = NoRequest /\ Others(q)
    BY <1>1 DEF Book, Others
  <2>. QED BY <2>1, <2>3, <2>4 DEF Books
<1>2. ASSUME NEW q \in Quotes, NEW p \in Partners, Claim(q, p) PROVE Others(q) /\ Claims(q)
  <2>1. request'[q] = Assigned(request[q], p) /\ quote' = quote /\ Others(q) /\ Claimable(request[q])
    BY <1>2 DEF Claim, Others
  <2>2. IsOpen(request[q]) /\ request[q] \in RequestRow
    BY <2>1 DEF Claimable, IsOpen, NonTerminal
  <2>. QED BY <2>1, <2>2, RowWrites DEF Claims
<1>3. CASE \E q \in Quotes : Create(q) \/ CommitBooking(q)
  BY <1>1, <1>3 DEF Create, CommitBooking
<1>4. CASE \E c \in Calls : RunCall(c)
  BY <1>4, CallWrites
<1>5. CASE \E c \in Calls, q \in Quotes : StartCall(c, q)
  BY <1>5, StartChecks
<1>. QED BY <1>2, <1>3, <1>4, <1>5 DEF Next, vars, Die

LEMMA StepsOn ==
  ASSUME Typed, [Next]_vars, NEW q \in Quotes
  PROVE  Untouched(q) \/ Books(q) \/ Claims(q) \/ \E c \in Calls : Writes(c, q)
BY Steps DEF Others, Untouched, SameMoney

\* What a step does to the status of a request.
MovesStatus(q) ==
  \/ request'[q].status = request[q].status
  \/ IsOpen(request'[q])
  \/ /\ request'[q].status = "COMPLETED"
     /\ \E c \in Calls : /\ calls[c].at \in {"accept claim", "accept commit"}
                       /\ calls[c].quote = q
  \/ /\ request'[q].status = "REJECTED"
     /\ \E c \in Calls : calls[c].at = "reject" /\ calls[c].quote = q

LEMMA StatusMoves == ASSUME Typed, [Next]_vars, NEW q \in Quotes PROVE MovesStatus(q)
<1>1. CASE Untouched(q) \/ Books(q) \/ Claims(q)
  BY <1>1 DEF MovesStatus, Untouched, Books, Claims
<1>2. CASE \E c \in Calls : Writes(c, q)
  BY <1>2 DEF MovesStatus, Writes, Untouched
<1>. QED BY <1>1, <1>2, StepsOn

\* What a step does to the money of a request, and to its order.
MovesMoney(q) ==
  \/ /\ request[q] = NoRequest
     /\ request'[q].pay = Unsettled /\ request'[q].order = NoOrder
  \/ /\ \/ /\ request'[q].price = request[q].price
           /\ request'[q].discount = request[q].discount
        \/ \E c \in Calls : calls[c].at = "verify" /\ calls[c].quote = q
     /\ \/ request'[q].pay = request[q].pay
        \/ /\ request[q].pay.kind = "none"
           /\ \E c \in Calls : /\ calls[c].at = "collect" /\ calls[c].quote = q
                             /\ request'[q].pay = calls[c].pay
     /\ \/ request'[q].order = request[q].order
        \/ \E c \in Calls : /\ RunCall(c) /\ calls[c].at = "accept commit"
                          /\ calls[c].quote = q /\ request'[q].order = calls[c].order

LEMMA MoneyMoves == ASSUME Typed, [Next]_vars, NEW q \in Quotes PROVE MovesMoney(q)
<1>0. request[q] \in RequestRow
  BY DEF Typed, TypeOK
<1>1. CASE Untouched(q) \/ Claims(q)
  BY <1>1 DEF MovesMoney, Untouched, Claims, SameMoney
<1>2. CASE Books(q)
  BY <1>2 DEF MovesMoney, Books
<1>3. ASSUME NEW c \in Calls, Writes(c, q), calls[c].at = "collect", ~Untouched(q)
      PROVE  /\ request[q].pay.kind = "none" /\ request'[q].pay = calls[c].pay
             /\ request'[q].price = request[q].price
             /\ request'[q].discount = request[q].discount
             /\ request'[q].order = request[q].order
  <2>1. /\ request[q].pay.kind = "none"
        /\ SameMoney([request[q] EXCEPT !.pay = calls[c].pay], request'[q])
    BY <1>3 DEF Writes
  <2>. QED BY <1>0, <2>1 DEF SameMoney, RequestRow
<1>4. ASSUME NEW c \in Calls, Writes(c, q), calls[c].at = "accept commit"
      PROVE  /\ request'[q].order = calls[c].order /\ request'[q].pay = request[q].pay
             /\ request'[q].price = request[q].price
             /\ request'[q].discount = request[q].discount
  <2>1. SameMoney([request[q] EXCEPT !.order = calls[c].order], request'[q])
    BY <1>4 DEF Writes
  <2>. QED BY <1>0, <2>1 DEF SameMoney, RequestRow
<1>5. ASSUME NEW c \in Calls, Writes(c, q), calls[c].at = "verify", ~Untouched(q)
      PROVE  request'[q].pay = request[q].pay /\ request'[q].order = request[q].order
  BY <1>5 DEF Writes
<1>6. ASSUME NEW c \in Calls, Writes(c, q), ~Untouched(q),
             calls[c].at \notin {"collect", "accept commit", "verify"}
      PROVE  SameMoney(request[q], request'[q])
  BY <1>6 DEF Writes
<1>7. ASSUME NEW c \in Calls, Writes(c, q), ~Untouched(q)
      PROVE  /\ \/ /\ request'[q].price = request[q].price
                   /\ request'[q].discount = request[q].discount
                \/ calls[c].at = "verify" /\ calls[c].quote = q
             /\ \/ request'[q].pay = request[q].pay
                \/ /\ request[q].pay.kind = "none" /\ calls[c].at = "collect"
                   /\ calls[c].quote = q /\ request'[q].pay = calls[c].pay
             /\ \/ request'[q].order = request[q].order
                \/ /\ RunCall(c) /\ calls[c].at = "accept commit"
                   /\ calls[c].quote = q /\ request'[q].order = calls[c].order
  <2>1. RunCall(c) /\ calls[c].quote = q
    BY <1>7 DEF Writes
  <2>. QED BY <1>3, <1>4, <1>5, <1>6, <1>7, <2>1 DEF SameMoney
<1>. QED BY <1>1, <1>2, <1>7, StepsOn DEF MovesMoney

-----------------------------------------------------------------------------
(* A booking tells one story *)

MoversApart ==
  \A c, d \in Calls :
    /\ calls[c].at # "idle" /\ calls[d].at # "idle" /\ calls[c].quote = calls[d].quote
    /\ OpOf(calls[c]) \in Movers /\ OpOf(calls[d]) \in Movers
    => OpOf(calls[c]) = OpOf(calls[d])

BookedBefore ==
  /\ \A q \in Quotes : request[q].status = "NONE" =>
       request[q] = NoRequest /\ quote[q].order = NoOrder
  /\ \A c \in Calls : calls[c].at # "idle" => request[calls[c].quote].status # "NONE"

\* No call in flight moves a closed request anywhere but where it is.
ClosedApart ==
  /\ \A q \in Quotes : request[q].status # "CANCELLED"
  /\ \A c \in Calls :
       calls[c].at # "idle" =>
         /\ request[calls[c].quote].status = "COMPLETED" =>
              calls[c].at \notin {"assign", "arrive", "verify", "reject"}
         /\ request[calls[c].quote].status = "REJECTED" =>
              calls[c].at \notin {"assign", "arrive", "verify"} \cup AcceptSteps

\* Who is placing an order finds its request unlinked.
PlacesUnlinked == \A c \in Calls : calls[c].at \in Placing => request[calls[c].quote].order = NoOrder

\* What an accept read of the money is still so.
ReadsTheMoney ==
  \A c \in Calls : calls[c].at \in AcceptSteps =>
    LET r == request[calls[c].quote] IN
    /\ calls[c].read.pay = r.pay /\ calls[c].read.price = r.price
    /\ calls[c].read.discount = r.discount

DeferredPaysNothing ==
  /\ \A q \in Quotes : request[q].pay.kind = "deferred" => request[q].pay.amount = 0
  /\ \A c \in Calls : calls[c].at = "collect" =>
       /\ calls[c].pay.kind # "none"
       /\ calls[c].pay.kind = "deferred" => calls[c].pay.amount = 0

LinkedExists == \A q \in Quotes : request[q].order # NoOrder => orders[request[q].order] # NoRow

Told ==
  /\ OnlyRepeatsOverlap
  /\ Single /\ MoversApart /\ BookedBefore /\ ClosedApart /\ PlacesUnlinked
  /\ ReadsTheMoney /\ DeferredPaysNothing /\ LinkedExists
  /\ QuoteFollowsRequest /\ OrderBillsTheSettlement

LEMMA OnlyRepeatsReopenNothing == OnlyRepeatsOverlap => NothingReopens
BY DEF OnlyRepeatsOverlap, NothingReopens, Movers

\* What a call that begins took from its request.
LEMMA StartReads ==
  ASSUME Typed, NEW c \in Calls, NEW q \in Quotes, StartCall(c, q)
  PROVE  /\ calls'[c].at \in AcceptSteps => calls'[c].read = request[q]
         /\ calls'[c].at = "collect" =>
              /\ calls'[c].pay.kind # "none"
              /\ calls'[c].pay.kind = "deferred" => calls'[c].pay.amount = 0
<1>. USE DEF Typed, TypeOK
<1>1. ASSUME NEW at, NEW who, NEW pay, NEW read, Begin(c, NewCall(at, q, who, pay, read))
      PROVE  calls'[c].at = at /\ calls'[c].pay = pay /\ calls'[c].read = read
  <2>1. calls'[c] = NewCall(at, q, who, pay, read)
    BY <1>1 DEF Begin
  <2>2. Idle \in CallRow
    BY IdleOK DEF CallOK
  <2>. QED BY <2>1, <2>2 DEF NewCall, CallRow
<1>2. ASSUME NEW p \in Partners, BeginAssign(c, q, p) PROVE calls'[c].at = "assign"
  BY <1>1, <1>2 DEF BeginAssign
<1>3. ASSUME NEW who \in Actors,
             \/ BeginArrive(c, q, who)
             \/ \E at \in {"photo", "aadhaar"} : BeginUpload(c, q, who, at)
             \/ BeginVerify(c, q, who) \/ BeginReject(c, q, who)
      PROVE  calls'[c].at \in {"arrive", "photo", "aadhaar", "verify", "reject"}
  <2>1. \E at \in {"arrive", "photo", "aadhaar", "verify", "reject"} :
          Begin(c, NewCall(at, q, who, Unsettled, NoRequest))
    BY <1>3 DEF BeginArrive, BeginUpload, BeginVerify, BeginReject, BeginWork
  <2>. QED BY <1>1, <2>1
<1>4. ASSUME NEW who \in Actors, NEW pay, BeginCollect(c, q, who, pay)
      PROVE  /\ calls'[c].at = "collect" /\ calls'[c].pay.kind # "none"
             /\ calls'[c].pay.kind = "deferred" => calls'[c].pay.amount = 0
  <2>1. calls'[c].at = "collect" /\ calls'[c].pay = pay
    BY <1>1, <1>4 DEF BeginCollect
  <2>2. Settles(pay, Payable(request[q]))
    BY <1>4 DEF BeginCollect
  <2>. QED BY <2>1, <2>2 DEF Settles
<1>5. CASE \E who \in Actors : BeginAccept(c, q, who)
  BY <1>1, <1>5 DEF BeginAccept, AcceptSteps
<1>. QED BY <1>2, <1>3, <1>4, <1>5 DEF StartCall, AcceptSteps

\* A call in flight goes on with what it began with, or begins.
LEMMA Continues ==
  ASSUME Typed, [Next]_vars, NEW c \in Calls, calls'[c].at # "idle"
  PROVE  \/ /\ calls[c].at # "idle" /\ calls'[c].quote = calls[c].quote
            /\ calls'[c].read = calls[c].read /\ calls'[c].pay = calls[c].pay
            /\ OpOf(calls'[c]) = OpOf(calls[c])
            /\ calls'[c].at \in Placing \/ calls'[c].at = calls[c].at
            /\ calls'[c].at = calls[c].at \/ calls[c].at \in AcceptSteps
         \/ \E q \in Quotes : StartCall(c, q)
<1>. USE DEF Typed, TypeOK
<1>0. calls[c] \in CallRow
  OBVIOUS
<1>1. Idle.at = "idle"
  BY DEF Idle
<1>2. CASE AcceptClaim(c) /\ IsOpen(request[calls[c].quote])
  <2>1. calls'[c] = [calls[c] EXCEPT !.at = "accept order"]
    BY <1>2 DEF AcceptClaim
  <2>2. /\ calls'[c].at = "accept order" /\ calls'[c].quote = calls[c].quote
        /\ calls'[c].read = calls[c].read /\ calls'[c].pay = calls[c].pay
    BY <1>0, <2>1 DEF CallRow
  <2>3. calls[c].at = "accept claim"
    BY <1>2 DEF AcceptClaim
  <2>. QED BY <2>2, <2>3 DEF OpOf, AcceptSteps, Placing
<1>3. CASE \E o \in Orders : AcceptOrder(c, o)
  <2>1. PICK o \in Orders : AcceptOrder(c, o)
    BY <1>3
  <2>2. calls'[c] = [calls[c] EXCEPT !.at = "accept commit", !.order = o]
    BY <2>1 DEF AcceptOrder
  <2>3. /\ calls'[c].at = "accept commit" /\ calls'[c].quote = calls[c].quote
        /\ calls'[c].read = calls[c].read /\ calls'[c].pay = calls[c].pay
    BY <1>0, <2>2 DEF CallRow
  <2>4. calls[c].at = "accept order"
    BY <2>1 DEF AcceptOrder
  <2>. QED BY <2>3, <2>4 DEF OpOf, AcceptSteps, Placing
<1>. QED BY <1>1, <1>2, <1>3, StepCalls

LEMMA MoversApartStep ==
  ASSUME OnlyRepeatsOverlap, Typed, MoversApart, [Next]_vars
  PROVE  MoversApart'
<1>. SUFFICES ASSUME NEW c \in Calls, NEW d \in Calls,
                     calls'[c].at # "idle", calls'[d].at # "idle", calls'[c].quote = calls'[d].quote,
                     OpOf(calls'[c]) \in Movers, OpOf(calls'[d]) \in Movers
              PROVE  OpOf(calls'[c]) = OpOf(calls'[d])
  BY DEF MoversApart, OpOf
<1>1. ASSUME NEW e \in Calls, NEW f \in Calls, e # f, NEW q \in Quotes, StartCall(e, q),
             calls'[f].at # "idle", calls'[f].quote = calls'[e].quote,
             OpOf(calls'[e]) \in Movers, OpOf(calls'[f]) \in Movers
      PROVE  OpOf(calls'[e]) = OpOf(calls'[f])
  <2>1. CanStart(OpOf(calls'[e]), q) /\ calls'[e].quote = q
    BY <1>1, StartChecks
  <2>2. calls'[f] = calls[f]
    BY <1>1, StartMoves
  <2>3. <<OpOf(calls'[e]), OpOf(calls[f])>> \in mayOverlap
    BY <1>1, <2>1, <2>2 DEF CanStart, On
  <2>. QED BY <1>1, <2>2, <2>3 DEF OnlyRepeatsOverlap
<1>2. CASE c = d
  BY <1>2
<1>3. CASE c # d /\ \E q \in Quotes : StartCall(c, q)
  BY <1>1, <1>3
<1>4. CASE c # d /\ \E q \in Quotes : StartCall(d, q)
  BY <1>1, <1>4
<1>5. CASE /\ calls[c].at # "idle" /\ calls'[c].quote = calls[c].quote
           /\ OpOf(calls'[c]) = OpOf(calls[c])
           /\ calls[d].at # "idle" /\ calls'[d].quote = calls[d].quote
           /\ OpOf(calls'[d]) = OpOf(calls[d])
  BY <1>5 DEF MoversApart
<1>. QED BY <1>2, <1>3, <1>4, <1>5, SameCall

LEMMA BookedStep ==
  ASSUME Typed, BookedBefore, [Next]_vars
  PROVE  BookedBefore' /\ \A q \in Quotes : request[q].status # "NONE" => request'[q].status # "NONE"
<1>0. \A r : IsOpen(r) => r.status # "NONE"
  BY OpenOrClosed
<1>1. ASSUME NEW q \in Quotes, request[q].status # "NONE" PROVE request'[q].status # "NONE"
  <2>1. ASSUME NEW c \in Calls, Writes(c, q) PROVE request'[q].status # "NONE"
    BY <1>1, <2>1, RunWrites DEF Writes
  <2>. QED BY <1>0, <1>1, <2>1, Steps DEF Others, Books, Claims
<1>2. ASSUME NEW q \in Quotes, request'[q].status = "NONE"
      PROVE  request'[q] = NoRequest /\ quote'[q].order = NoOrder
  <2>1. request[q].status = "NONE"
    BY <1>1, <1>2
  <2>2. ~\E c \in Calls : Writes(c, q)
    BY <2>1 DEF Writes, BookedBefore
  <2>3. request'[q] = request[q] /\ quote'[q] = quote[q]
    BY <1>0, <1>2, <2>2, Steps DEF Others, Books, Claims
  <2>. QED BY <2>1, <2>3 DEF BookedBefore
<1>3. ASSUME NEW c \in Calls, calls'[c].at # "idle"
      PROVE  request'[calls'[c].quote].status # "NONE"
  <2>1. ASSUME NEW q \in Quotes, StartCall(c, q) PROVE request'[calls'[c].quote].status # "NONE"
    BY <2>1, StartsOnRequest, StartChecks DEF BookedBefore
  <2>2. CASE calls[c].at # "idle" /\ calls'[c].quote = calls[c].quote
    <3>1. calls[c].quote \in Quotes /\ request[calls[c].quote].status # "NONE"
      BY <2>2 DEF BookedBefore, Typed, CallOK
    <3>. QED BY <1>1, <2>2, <3>1
  <2>. QED BY <1>3, <2>1, <2>2, Continues
<1>. QED BY <1>1, <1>2, <1>3 DEF BookedBefore

LEMMA ClosedStep ==
  ASSUME Typed, MoversApart, ClosedApart, [Next]_vars
  PROVE  ClosedApart'
<1>0. \A r : IsOpen(r) => r.status \notin {"CANCELLED", "COMPLETED", "REJECTED"}
  BY OpenOrClosed DEF Terminal
<1>1. ASSUME NEW q \in Quotes PROVE request'[q].status # "CANCELLED"
  <2>1. MovesStatus(q) /\ request[q].status # "CANCELLED"
    BY <1>1, StatusMoves DEF ClosedApart
  <2>. QED BY <1>0, <2>1 DEF MovesStatus
<1>2. ASSUME NEW c \in Calls, NEW q \in Quotes, calls[c].at # "idle", calls[c].quote = q,
             request'[q].status = "COMPLETED",
             calls[c].at \in {"assign", "arrive", "verify", "reject"}
      PROVE  FALSE
  <2>1. request[q].status # "COMPLETED"
    BY <1>2 DEF ClosedApart
  <2>2. PICK d \in Calls : /\ calls[d].at # "idle" /\ calls[d].quote = q
                           /\ calls[d].at \in {"accept claim", "accept commit"}
    BY <1>0, <1>2, <2>1, StatusMoves DEF MovesStatus
  <2>3. OpOf(calls[d]) = "accept" /\ OpOf(calls[c]) = calls[c].at
    BY <1>2, <2>2 DEF OpOf, AcceptSteps
  <2>. QED BY <1>2, <2>2, <2>3 DEF MoversApart, Movers
<1>3. ASSUME NEW c \in Calls, NEW q \in Quotes, calls[c].at # "idle", calls[c].quote = q,
             request'[q].status = "REJECTED",
             calls[c].at \in {"assign", "arrive", "verify"} \cup AcceptSteps
      PROVE  FALSE
  <2>1. request[q].status # "REJECTED"
    BY <1>3 DEF ClosedApart
  <2>2. PICK d \in Calls : calls[d].at = "reject" /\ calls[d].quote = q
    BY <1>0, <1>3, <2>1, StatusMoves DEF MovesStatus
  <2>3. OpOf(calls[d]) = "reject" /\ OpOf(calls[c]) \in {"assign", "arrive", "verify", "accept"}
    BY <1>3, <2>2 DEF OpOf, AcceptSteps
  <2>. QED BY <1>3, <2>2, <2>3 DEF MoversApart, Movers
<1>4. ASSUME NEW c \in Calls, NEW q \in Quotes, calls'[c].at # "idle", calls'[c].quote = q
      PROVE  /\ request'[q].status = "COMPLETED" =>
                  calls'[c].at \notin {"assign", "arrive", "verify", "reject"}
             /\ request'[q].status = "REJECTED" =>
                  calls'[c].at \notin {"assign", "arrive", "verify"} \cup AcceptSteps
  <2>1. CASE \E b \in Quotes : StartCall(c, b)
    <3>1. StartCall(c, q) /\ request' = request
      BY <1>4, <2>1, StartChecks
    <3>. QED BY <1>0, <3>1, StartsOnRequest DEF AcceptSteps
  <2>2. CASE /\ calls[c].at # "idle" /\ calls'[c].quote = calls[c].quote
             /\ calls'[c].at \in Placing \/ calls'[c].at = calls[c].at
             /\ calls'[c].at = calls[c].at \/ calls[c].at \in AcceptSteps
    BY <1>2, <1>3, <1>4, <2>2 DEF Placing, AcceptSteps
  <2>. QED BY <1>4, <2>1, <2>2, Continues
<1>5. \A c \in Calls : calls'[c].at # "idle" => calls'[c].quote \in Quotes
  BY TypedStep DEF Typed, CallOK
<1>. QED BY <1>1, <1>4, <1>5 DEF ClosedApart

LEMMA PlacesUnlinkedStep ==
  ASSUME Told, [Next]_vars
  PROVE  PlacesUnlinked'
<1>0. Typed /\ ClaimHeld /\ Idle.at = "idle"
  BY DEF Told, Single, Unskipped, Idle
<1>. SUFFICES ASSUME NEW c \in Calls, calls'[c].at \in Placing
              PROVE  request'[calls'[c].quote].order = NoOrder
  BY DEF PlacesUnlinked
<1>. DEFINE q == calls[c].quote
<1>1. /\ calls'[c].quote = q
      /\ calls[c].at \in Placing \/ (calls[c].at = "accept claim" /\ IsOpen(request[q]))
  BY <1>0, PlacingBefore DEF AcceptClaim
<1>2. q \in Quotes
  BY <1>0, <1>1 DEF Typed, CallOK, Placing
<1>3. request[q].order = NoOrder
  BY <1>1, <1>2, OpenOrClosed DEF Told, PlacesUnlinked, QuoteFollowsRequest, Terminal
<1>4. ASSUME NEW d \in Calls, RunCall(d), calls[d].at = "accept commit", calls[d].quote = q PROVE FALSE
  <2>1. calls[d].at \in Placing
    BY <1>4 DEF Placing
  <2>2. calls[c].at \in Placing
    BY <1>0, <1>1, <1>4, <2>1, OpenOrClosed DEF ClaimHeld
  <2>3. c = d
    BY <1>0, <1>4, <2>1, <2>2 DEF ClaimHeld
  <2>4. calls'[c] = Idle
    BY <1>0, <1>4, <2>3, RunMoves
  <2>. QED BY <1>0, <2>4 DEF Placing
<1>5. MovesMoney(q)
  BY <1>0, <1>2, MoneyMoves
<1>. QED BY <1>1, <1>3, <1>4, <1>5 DEF MovesMoney

LEMMA ReadsTheMoneyStep ==
  ASSUME Told, [Next]_vars
  PROVE  ReadsTheMoney'
<1>0. Typed /\ AcceptingHandedOver
  BY DEF Told, Single, Unskipped
<1>. SUFFICES ASSUME NEW c \in Calls, calls'[c].at \in AcceptSteps
              PROVE  LET r == request'[calls'[c].quote] IN
                     /\ calls'[c].read.pay = r.pay /\ calls'[c].read.price = r.price
                     /\ calls'[c].read.discount = r.discount
  BY DEF ReadsTheMoney
<1>1. CASE \E b \in Quotes : StartCall(c, b)
  BY <1>0, <1>1, StartReads, StartChecks
<1>2. CASE /\ calls[c].at # "idle" /\ calls'[c].quote = calls[c].quote
           /\ calls'[c].read = calls[c].read
           /\ calls'[c].at = calls[c].at \/ calls[c].at \in AcceptSteps
  <2>. DEFINE q == calls[c].quote
  <2>1. q \in Quotes /\ calls[c].at \in AcceptSteps /\ OpOf(calls[c]) = "accept"
    BY <1>0, <1>2 DEF Typed, CallOK, OpOf
  <2>2. /\ calls[c].read.pay = request[q].pay /\ calls[c].read.price = request[q].price
        /\ calls[c].read.discount = request[q].discount
    BY <2>1 DEF Told, ReadsTheMoney
  <2>3. request[q].pay.kind # "none" /\ request[q] # NoRequest
    BY <1>0, <1>2, <2>1, NoRequestType DEF AcceptingHandedOver, HandedOver
  <2>4. ASSUME NEW d \in Calls, calls[d].quote = q, calls[d].at \in {"assign", "arrive", "verify"}
        PROVE  FALSE
    <3>1. OpOf(calls[d]) = calls[d].at
      BY <2>4 DEF OpOf, AcceptSteps
    <3>. QED BY <1>2, <2>1, <2>4, <3>1 DEF Told, MoversApart, Movers
  <2>5. /\ request'[q].pay = request[q].pay /\ request'[q].price = request[q].price
        /\ request'[q].discount = request[q].discount
    <3>1. MovesMoney(q)
      BY <1>0, <2>1, MoneyMoves
    <3>2. ~\E d \in Calls : calls[d].at = "verify" /\ calls[d].quote = q
      BY <2>4
    <3>. QED BY <2>3, <3>1, <3>2 DEF MovesMoney
  <2>. QED BY <1>2, <2>2, <2>5
<1>3. calls'[c].at # "idle"
  BY DEF AcceptSteps
<1>. QED BY <1>0, <1>1, <1>2, <1>3, Continues

LEMMA DeferredPaysNothingStep ==
  ASSUME Typed, DeferredPaysNothing, [Next]_vars
  PROVE  DeferredPaysNothing'
<1>1. ASSUME NEW q \in Quotes, request'[q].pay.kind = "deferred" PROVE request'[q].pay.amount = 0
  <2>1. MovesMoney(q)
    BY <1>1, MoneyMoves
  <2>2. Unsettled.kind = "none"
    BY DEF Unsettled
  <2>3. request[q].pay.kind = "deferred" => request[q].pay.amount = 0
    BY <1>1 DEF DeferredPaysNothing
  <2>4. \A c \in Calls : calls[c].at = "collect" /\ calls[c].pay.kind = "deferred"
                          => calls[c].pay.amount = 0
    BY DEF DeferredPaysNothing
  <2>. QED BY <1>1, <2>1, <2>2, <2>3, <2>4 DEF MovesMoney
<1>2. ASSUME NEW c \in Calls, calls'[c].at = "collect"
      PROVE  /\ calls'[c].pay.kind # "none"
             /\ calls'[c].pay.kind = "deferred" => calls'[c].pay.amount = 0
  BY <1>2, Continues, StartReads DEF DeferredPaysNothing, AcceptSteps, Placing
<1>. QED BY <1>1, <1>2 DEF DeferredPaysNothing

\* A row of an order is there for good, and stays its booking's.
LEMMA RowStays ==
  ASSUME Typed, CommitsItsOrder, [Next]_vars, NEW o \in Orders, orders[o] # NoRow
  PROVE  orders'[o] # NoRow /\ orders'[o].for = orders[o].for
<1>1. ASSUME NEW c \in Calls, AcceptCommit(c), o = calls[c].order
      PROVE  orders[o].for = calls[c].quote
  BY <1>1 DEF CommitsItsOrder, AcceptCommit
<1>. QED BY <1>1, OrdersGrow

LEMMA LinkedExistsStep ==
  ASSUME Typed, CommitsItsOrder, LinkedExists, [Next]_vars
  PROVE  LinkedExists'
<1>. SUFFICES ASSUME NEW q \in Quotes, request'[q].order # NoOrder
              PROVE  orders'[request'[q].order] # NoRow
  BY DEF LinkedExists
<1>1. ASSUME NEW o \in Orders, orders[o] # NoRow, request'[q].order = o
      PROVE  orders'[request'[q].order] # NoRow
  BY <1>1, RowStays
<1>2. CASE request'[q].order = request[q].order
  <2>1. request[q].order \in Orders /\ orders[request[q].order] # NoRow
    BY <1>2 DEF LinkedExists, Typed, TypeOK, RequestRow
  <2>. QED BY <1>1, <1>2, <2>1
<1>3. ASSUME NEW c \in Calls, calls[c].at = "accept commit", request'[q].order = calls[c].order
      PROVE  orders'[request'[q].order] # NoRow
  <2>1. calls[c].order \in Orders /\ orders[calls[c].order] # NoRow
    BY <1>3 DEF CommitsItsOrder, Typed, CallOK
  <2>. QED BY <1>1, <1>3, <2>1
<1>4. MovesMoney(q)
  BY MoneyMoves
<1>. QED BY <1>2, <1>3, <1>4 DEF MovesMoney

LEMMA QuoteFollowsStep ==
  ASSUME Told, [Next]_vars
  PROVE  QuoteFollowsRequest'
<1>0. Typed
  BY DEF Told, Single, Unskipped
<1>. SUFFICES ASSUME NEW q \in Quotes
              PROVE  LET s == request'[q] IN
                     /\ IsOpen(s) \/ (s.status = "COMPLETED" /\ s.order = NoOrder)
                          => quote'[q] = [status |-> "PICKUP_REQUESTED", order |-> NoOrder]
                     /\ s.status = "REJECTED"
                          => quote'[q] = [status |-> "REJECTED", order |-> NoOrder]
                     /\ s.order # NoOrder =>
                          /\ quote'[q] = [status |-> "ACCEPTED", order |-> s.order]
                          /\ s.status = "COMPLETED"
  BY DEF QuoteFollowsRequest, IsOpen
<1>1. /\ IsOpen(request[q]) \/ (request[q].status = "COMPLETED" /\ request[q].order = NoOrder)
           => quote[q] = [status |-> "PICKUP_REQUESTED", order |-> NoOrder]
      /\ request[q].status = "REJECTED"
           => quote[q] = [status |-> "REJECTED", order |-> NoOrder]
      /\ request[q].order # NoOrder =>
           /\ quote[q] = [status |-> "ACCEPTED", order |-> request[q].order]
           /\ request[q].status = "COMPLETED"
  BY DEF Told, QuoteFollowsRequest
<1>2. /\ request[q] \in RequestRow
      /\ \A r : IsOpen(r) => r.status \notin {"NONE", "COMPLETED", "REJECTED", "CANCELLED"}
      /\ request[q].status \notin {"NONE", "COMPLETED", "REJECTED", "CANCELLED"} => IsOpen(request[q])
  BY <1>0, OpenOrClosed DEF Typed, TypeOK, RequestRow, IsOpen, Terminal
<1>3. CASE Untouched(q)
  BY <1>1, <1>3 DEF Untouched, SameMoney, IsOpen
<1>4. CASE Books(q)
  <2>1. quote[q].order = NoOrder
    BY <1>4, NoRequestType DEF Books, Told, BookedBefore
  <2>. QED BY <1>2, <1>4, <2>1 DEF Books
<1>5. CASE Claims(q)
  BY <1>1, <1>2, <1>5 DEF Claims, SameMoney
<1>6. ASSUME NEW c \in Calls, calls[c].at \in {"assign", "arrive", "verify", "reject"},
             calls[c].quote = q
      PROVE  /\ request[q].status \notin {"NONE", "COMPLETED", "CANCELLED"}
             /\ calls[c].at # "reject" => IsOpen(request[q])
             /\ request[q].order = NoOrder /\ quote[q].order = NoOrder
  <2>1. request[q].status \notin {"NONE", "COMPLETED", "CANCELLED"}
    BY <1>6 DEF Told, BookedBefore, ClosedApart
  <2>2. calls[c].at # "reject" => request[q].status # "REJECTED"
    BY <1>6 DEF Told, ClosedApart
  <2>3. IsOpen(request[q]) \/ request[q].status = "REJECTED"
    BY <1>2, <2>1
  <2>. QED BY <1>1, <1>2, <1>6, <2>1, <2>2, <2>3
<1>7. ASSUME NEW c \in Calls, Writes(c, q), ~Untouched(q),
             calls[c].at \in {"assign", "arrive", "verify"}
      PROVE  /\ quote'[q] = quote[q] /\ IsOpen(request'[q]) /\ IsOpen(request[q])
             /\ request'[q].order = NoOrder
  BY <1>6, <1>7 DEF Writes
<1>8. ASSUME NEW c \in Calls, Writes(c, q), ~Untouched(q), calls[c].at = "collect"
      PROVE  /\ quote'[q] = quote[q] /\ request'[q].status = request[q].status
             /\ request'[q].order = request[q].order
  <2>1. SameMoney([request[q] EXCEPT !.pay = calls[c].pay], request'[q])
    BY <1>8 DEF Writes
  <2>. QED BY <1>2, <1>8, <2>1 DEF Writes, SameMoney, RequestRow
<1>9. ASSUME NEW c \in Calls, Writes(c, q), ~Untouched(q), calls[c].at = "accept claim"
      PROVE  /\ quote'[q] = quote[q] /\ IsOpen(request[q])
             /\ request'[q].status = "COMPLETED" /\ request'[q].order = request[q].order
  BY <1>9 DEF Writes, SameMoney
<1>10. ASSUME NEW c \in Calls, Writes(c, q), calls[c].at = "accept commit"
       PROVE  /\ quote'[q] = [status |-> "ACCEPTED", order |-> calls[c].order]
              /\ request'[q].status = "COMPLETED" /\ request'[q].order = calls[c].order
              /\ calls[c].order # NoOrder
  <2>1. SameMoney([request[q] EXCEPT !.order = calls[c].order], request'[q])
    BY <1>10 DEF Writes
  <2>2. calls[c].order \in Orders
    BY <1>0, <1>10 DEF Typed, CallOK
  <2>. QED BY <1>2, <1>10, <2>1, <2>2, BookingAssumption DEF Writes, SameMoney, RequestRow
<1>11. ASSUME NEW c \in Calls, Writes(c, q), ~Untouched(q), calls[c].at = "reject"
       PROVE  /\ quote'[q] = [status |-> "REJECTED", order |-> NoOrder]
              /\ request'[q].status = "REJECTED" /\ request'[q].order = NoOrder
  BY <1>6, <1>11 DEF Writes, SameMoney
<1>12. ASSUME NEW c \in Calls, Writes(c, q)
       PROVE  \/ Untouched(q)
              \/ calls[c].at \in {"assign", "arrive", "verify", "collect", "accept claim",
                                  "accept commit", "reject"}
  BY <1>12 DEF Writes
<1>13. ASSUME NEW c \in Calls, Writes(c, q), ~Untouched(q)
       PROVE  LET s == request'[q] IN
              /\ IsOpen(s) \/ (s.status = "COMPLETED" /\ s.order = NoOrder)
                   => quote'[q] = [status |-> "PICKUP_REQUESTED", order |-> NoOrder]
              /\ s.status = "REJECTED"
                   => quote'[q] = [status |-> "REJECTED", order |-> NoOrder]
              /\ s.order # NoOrder =>
                   /\ quote'[q] = [status |-> "ACCEPTED", order |-> s.order]
                   /\ s.status = "COMPLETED"
  <2>1. CASE calls[c].at \in {"assign", "arrive", "verify"}
    BY <1>1, <1>2, <1>7, <1>13, <2>1
  <2>2. CASE calls[c].at = "collect"
    BY <1>1, <1>8, <1>13, <2>2 DEF IsOpen
  <2>3. CASE calls[c].at = "accept claim"
    BY <1>1, <1>2, <1>9, <1>13, <2>3
  <2>4. CASE calls[c].at = "accept commit"
    BY <1>2, <1>10, <1>13, <2>4
  <2>5. CASE calls[c].at = "reject"
    BY <1>2, <1>11, <1>13, <2>5
  <2>. QED BY <1>12, <1>13, <2>1, <2>2, <2>3, <2>4, <2>5
<1>. QED BY <1>0, <1>3, <1>4, <1>5, <1>13, StepsOn

\* The bill says what the row r was settled for.
Bills(bill, q, r) ==
  /\ bill.for = q
  /\ bill.paid = r.pay.amount
  /\ bill.payment = "PAID" <=> r.pay.kind = "full"
  /\ r.pay.kind # "full" => bill.paid + bill.due = Payable(r)

LEMMA BilledIsSettled ==
  ASSUME NEW q \in Quotes, NEW r \in RequestRow, r.pay.kind # "none",
         r.pay.kind = "deferred" => r.pay.amount = 0
  PROVE  Bills(BilledOrder(q, r), q, r)
<1>1. r.price \in Nat /\ r.discount \in Nat /\ r.pay.amount \in Nat
      /\ r.pay.kind \in {"full", "part", "deferred"}
  BY DEF RequestRow, Settlement
<1>2. PICK total \in Nat : total = Payable(r)
  BY <1>1 DEF Payable, Greatest
<1>3. PICK amount \in Nat : amount = r.pay.amount
  BY <1>1
<1>4. CASE r.pay.kind = "deferred"
  <2>1. BilledOrder(q, r) = [for |-> q, payment |-> "PENDING", paid |-> 0, due |-> total]
    BY <1>2, <1>4 DEF BilledOrder
  <2>. QED BY <1>2, <1>4, <2>1 DEF Bills
<1>5. CASE r.pay.kind = "part"
  <2>1. BilledOrder(q, r) = [for |-> q, payment |-> "PENDING", paid |-> amount,
                             due |-> total - amount]
    BY <1>2, <1>3, <1>5 DEF BilledOrder
  <2>. QED BY <1>2, <1>3, <1>5, <2>1 DEF Bills
<1>6. CASE r.pay.kind = "full"
  <2>1. BilledOrder(q, r) = [for |-> q, payment |-> "PAID", paid |-> amount, due |-> 0]
    BY <1>3, <1>6 DEF BilledOrder
  <2>. QED BY <1>3, <1>6, <2>1 DEF Bills
<1>. QED BY <1>1, <1>4, <1>5, <1>6

LEMMA SameBill ==
  ASSUME NEW bill, NEW q, NEW r, NEW s, Bills(bill, q, r),
         s.pay = r.pay, s.price = r.price, s.discount = r.discount
  PROVE  Bills(bill, q, s)
BY DEF Bills, Payable

LEMMA OrderBillsStep ==
  ASSUME Told, [Next]_vars
  PROVE  OrderBillsTheSettlement'
<1>0. Typed /\ CommitsItsOrder /\ AcceptingHandedOver /\ OrderHandedOver
  BY DEF Told, Single, Unskipped
<1>. SUFFICES ASSUME NEW q \in Quotes, request'[q].order # NoOrder
              PROVE  Bills(orders'[request'[q].order], q, request'[q])
  BY DEF OrderBillsTheSettlement, Bills, Payable
<1>1. request[q] \in RequestRow /\ MovesMoney(q)
  BY <1>0, MoneyMoves DEF Typed, TypeOK
\* An acceptance bills its request as it read it.
<1>2. ASSUME NEW c \in Calls, AcceptCommit(c), calls[c].quote = q
      PROVE  Bills(orders'[request'[q].order], q, request'[q])
  <2>1. calls[c].at = "accept commit" /\ calls[c].at \in AcceptSteps /\ calls[c].order \in Orders
        /\ calls[c].read \in RequestRow
    BY <1>0, <1>2 DEF AcceptCommit, AcceptSteps, Typed, TypeOK, CallOK, CallRow
  <2>2. /\ calls[c].read.pay = request[q].pay /\ calls[c].read.price = request[q].price
        /\ calls[c].read.discount = request[q].discount
    BY <1>2, <2>1 DEF Told, ReadsTheMoney
  <2>3. /\ request[q].pay.kind # "none"
        /\ request[q].pay.kind = "deferred" => request[q].pay.amount = 0
    BY <1>0, <1>2, <2>1 DEF AcceptingHandedOver, HandedOver, Told, DeferredPaysNothing
  <2>4. Bills(BilledOrder(q, calls[c].read), q, calls[c].read)
    BY <2>1, <2>2, <2>3, BilledIsSettled
  <2>5. request'[q] = Linked(request[q], calls[c].order)
        /\ orders'[calls[c].order] = BilledOrder(q, calls[c].read)
    BY <1>0, <1>2, <2>1 DEF AcceptCommit, Typed, TypeOK
  <2>6. /\ request'[q].order = calls[c].order /\ request'[q].pay = request[q].pay
        /\ request'[q].price = request[q].price /\ request'[q].discount = request[q].discount
    BY <1>1, <2>5 DEF Linked, RequestRow
  <2>7. Bills(BilledOrder(q, calls[c].read), q, request'[q])
    BY <2>2, <2>4, <2>6, SameBill
  <2>. QED BY <2>5, <2>6, <2>7
\* No other step moves a request that has an order.
<1>3. CASE ~\E c \in Calls : AcceptCommit(c) /\ calls[c].quote = q
  <2>. DEFINE o == request[q].order
  <2>1. request'[q].order = o
    <3>1. ASSUME NEW c \in Calls, RunCall(c), calls[c].at = "accept commit" PROVE AcceptCommit(c)
      BY <3>1 DEF RunCall, Assign, Arrive, SaveParcelPhoto, SaveAadhaar, Verify, Collect,
         AcceptClaim, AcceptOrder, Reject
    <3>. QED BY <1>1, <1>3, <3>1 DEF MovesMoney
  <2>2. o \in Orders /\ orders[o] # NoRow /\ Bills(orders[o], q, request[q])
    BY <1>1, <2>1 DEF RequestRow, Told, LinkedExists, OrderBillsTheSettlement, Bills
  <2>3. request[q].status = "COMPLETED"
    BY <2>1 DEF Told, QuoteFollowsRequest
  <2>4. request[q].pay.kind # "none" /\ request[q] # NoRequest
    BY <1>0, <2>2, NoRequestType DEF OrderHandedOver, HandedOver, Bills
  <2>5. ~\E c \in Calls : calls[c].at = "verify" /\ calls[c].quote = q
    BY <2>3 DEF Told, ClosedApart
  <2>6. /\ request'[q].pay = request[q].pay /\ request'[q].price = request[q].price
        /\ request'[q].discount = request[q].discount
    BY <1>1, <2>4, <2>5 DEF MovesMoney
  <2>7. orders'[o] = orders[o]
    <3>1. ASSUME NEW c \in Calls, NEW n \in Orders, AcceptOrder(c, n) PROVE orders'[o] = orders[o]
      BY <1>0, <2>2, <3>1 DEF AcceptOrder, Typed, TypeOK
    <3>2. ASSUME NEW c \in Calls, AcceptCommit(c) PROVE orders'[o] = orders[o]
      <4>1. calls[c].order # o
        BY <1>0, <1>3, <2>2, <3>2 DEF CommitsItsOrder, AcceptCommit, Bills
      <4>. QED BY <1>0, <2>2, <3>2, <4>1 DEF AcceptCommit, Typed, TypeOK
    <3>3. ASSUME NEW c \in Calls, NEW b \in Quotes, StartCall(c, b) PROVE orders' = orders
      BY <1>0, <3>3, StartChecks
    <3>. QED BY <3>1, <3>2, <3>3
         DEF Next, vars, Create, CommitBooking, Book, Claim, RunCall, Die, Assign, Arrive,
             SaveParcelPhoto, SaveAadhaar, Verify, Collect, AcceptClaim, Reject
  <2>8. Bills(orders[o], q, request'[q])
    BY <2>2, <2>6, SameBill
  <2>. QED BY <2>1, <2>7, <2>8
<1>. QED BY <1>2, <1>3

LEMMA ToldStep == Told /\ [Next]_vars => Told'
<1>. SUFFICES ASSUME Told, [Next]_vars PROVE Told'
  OBVIOUS
<1>0. OnlyRepeatsOverlap'
  BY RegimeStays DEF Told, OnlyRepeatsOverlap
<1>1. Single'
  BY SingleStep, OnlyRepeatsReopenNothing DEF Told
<1>2. Typed /\ CommitsItsOrder
  BY DEF Told, Single, Unskipped
<1>3. MoversApart' /\ BookedBefore' /\ ClosedApart' /\ DeferredPaysNothing' /\ LinkedExists'
  BY <1>2, MoversApartStep, BookedStep, ClosedStep, DeferredPaysNothingStep, LinkedExistsStep
     DEF Told
<1>. QED BY <1>0, <1>1, <1>3, PlacesUnlinkedStep, ReadsTheMoneyStep, QuoteFollowsStep, OrderBillsStep
     DEF Told

LEMMA ToldInit == Init /\ OnlyRepeatsOverlap => Told
<1>. SUFFICES ASSUME Init, OnlyRepeatsOverlap PROVE Told
  OBVIOUS
<1>1. \A c \in Calls : calls[c].at = "idle"
  BY DEF Init, Idle
<1>2. \A q \in Quotes : request[q] = NoRequest /\ quote[q].order = NoOrder
  BY DEF Init
<1>3. ~IsOpen(NoRequest)
  BY NoRequestType DEF IsOpen, NonTerminal
<1>4. BookedBefore /\ ClosedApart /\ LinkedExists /\ QuoteFollowsRequest /\ OrderBillsTheSettlement
  BY <1>1, <1>2, <1>3, NoRequestType
     DEF BookedBefore, ClosedApart, LinkedExists, QuoteFollowsRequest, OrderBillsTheSettlement
<1>5. MoversApart /\ PlacesUnlinked /\ ReadsTheMoney /\ DeferredPaysNothing
  BY <1>1, <1>2, NoRequestType
     DEF MoversApart, PlacesUnlinked, ReadsTheMoney, DeferredPaysNothing, Placing, AcceptSteps
<1>. QED BY <1>4, <1>5, SingleInit DEF Told

LEMMA AlwaysTold == Spec => [](OnlyRepeatsOverlap => Told)
<1>1. OnlyRepeatsOverlap' /\ [Next]_vars => OnlyRepeatsOverlap
  BY RegimeStays DEF OnlyRepeatsOverlap
<1>2. (OnlyRepeatsOverlap => Told) /\ [Next]_vars => (OnlyRepeatsOverlap => Told)'
  BY <1>1, ToldStep
<1>. QED BY <1>2, ToldInit, PTL DEF Spec

\* If of the handlers that move a request's status only repeats of one overlap, quote and
\* request tell the same story, for any number of bookings and calls and wherever they die.
THEOREM QuotesFollow == Spec => []QuoteFollowsRequest
<1>1. (OnlyRepeatsOverlap => Told) => QuoteFollowsRequest
  BY DEF Told, QuoteFollowsRequest
<1>. QED BY <1>1, AlwaysTold, PTL

\* Under the same condition an order's bill says what the door settled.
THEOREM OrdersBillTheSettlement == Spec => []OrderBillsTheSettlement
<1>1. (OnlyRepeatsOverlap => Told) => OrderBillsTheSettlement
  BY DEF Told, OrderBillsTheSettlement
<1>. QED BY <1>1, AlwaysTold, PTL

\* Under the same condition a closed request is final.
THEOREM ClosedIsFinal == Spec => ClosedStaysClosed
<1>1. ASSUME Told, [Next]_vars, NEW q \in Quotes, request[q].status \in Terminal
      PROVE  request'[q].status = request[q].status
  <2>1. Typed
    BY <1>1 DEF Told, Single, Unskipped
  <2>2. ~IsOpen(request[q]) /\ request[q] # NoRequest /\ request[q].status # "CANCELLED"
    BY <1>1, OpenOrClosed, NoRequestType DEF Terminal, Told, ClosedApart
  <2>3. ASSUME NEW c \in Calls, Writes(c, q), ~Untouched(q)
        PROVE  request'[q].status = request[q].status
    <3>1. CASE request[q].status = "COMPLETED"
      <4>1. calls[c].at \notin {"assign", "arrive", "verify", "reject"}
        BY <1>1, <2>3, <3>1 DEF Told, ClosedApart, Writes
      <4>. QED BY <2>2, <2>3, <3>1, <4>1 DEF Writes
    <3>2. CASE request[q].status = "REJECTED"
      <4>1. calls[c].at \notin {"assign", "arrive", "verify", "accept claim", "accept commit"}
        BY <1>1, <2>3, <3>2 DEF Told, ClosedApart, Writes, AcceptSteps
      <4>. QED BY <2>2, <2>3, <3>2, <4>1 DEF Writes
    <3>. QED BY <1>1, <2>2, <3>1, <3>2 DEF Terminal
  <2>. QED BY <1>1, <2>1, <2>2, <2>3, StepsOn DEF Untouched, Books, Claims
<1>2. (OnlyRepeatsOverlap => Told) /\ [Next]_vars
        => [\A q \in Quotes : OnlyRepeatsOverlap /\ request[q].status \in Terminal
                                => request'[q].status = request[q].status]_vars
  BY <1>1
<1>. QED BY <1>2, AlwaysTold, PTL DEF Spec, ClosedStaysClosed

-----------------------------------------------------------------------------
(* The promise *)

stages == [q \in Quotes |-> Stage(q)]
linked == [q \in Quotes |-> request[q].order]

\* A step on one booking moves its stage only.
LEMMA OneStageMoves ==
  ASSUME NEW q \in Quotes, Others(q)
  PROVE  /\ stages' = [stages EXCEPT ![q] = Stage(q)']
         /\ linked' = [linked EXCEPT ![q] = request'[q].order]
         /\ stages[q] = Stage(q) /\ linked[q] = request[q].order
<1>1. \A b \in Quotes \ {q} : Stage(b)' = Stage(b)
  BY DEF Others, Stage
<1>2. stages' = [b \in Quotes |-> Stage(b)']
  BY DEF stages
<1>. QED BY <1>1, <1>2 DEF Others, stages, linked

LEMMA SameStage ==
  ASSUME NEW q \in Quotes, Others(q), Stage(q)' = Stage(q), request'[q].order = request[q].order
  PROVE  stages' = stages /\ linked' = linked
BY OneStageMoves DEF stages, linked

\* Where a booking is, by its row.
LEMMA StageIs ==
  ASSUME NEW q \in Quotes
  PROVE  /\ request[q].order # NoOrder => Stage(q) = "ordered"
         /\ request[q].order = NoOrder /\ request[q].status \in {"REJECTED", "CANCELLED"}
              => Stage(q) = "closed"
         /\ request[q].order = NoOrder /\ request[q].status = "NONE" => Stage(q) = "unbooked"
         /\ /\ request[q].order = NoOrder
            /\ request[q].status \notin {"REJECTED", "CANCELLED", "NONE"}
            => Stage(q) = IF request[q].pay.kind = "none" THEN "open" ELSE "settled"
BY DEF Stage

LEMMA StageWillBe ==
  ASSUME NEW q \in Quotes
  PROVE  /\ request'[q].order # NoOrder => Stage(q)' = "ordered"
         /\ request'[q].order = NoOrder /\ request'[q].status \in {"REJECTED", "CANCELLED"}
              => Stage(q)' = "closed"
         /\ request'[q].order = NoOrder /\ request'[q].status = "NONE" => Stage(q)' = "unbooked"
         /\ /\ request'[q].order = NoOrder
            /\ request'[q].status \notin {"REJECTED", "CANCELLED", "NONE"}
            => Stage(q)' = IF request'[q].pay.kind = "none" THEN "open" ELSE "settled"
BY DEF Stage

LEMMA HandsOverOnce ==
  ASSUME Told, [Next]_vars, NEW q \in Quotes, Others(q),
         NEW c \in Calls, Writes(c, q), calls[c].at = "accept commit"
  PROVE  \E o \in Orders : Promise!HandOver(q, o)
<1>0. Typed /\ CommitsItsOrder /\ AcceptingHandedOver
  BY DEF Told, Single, Unskipped
<1>1. PICK o \in Orders :
        calls[c].order = o /\ o # NoOrder /\ calls[c].quote = q /\ orders[o].for = q
  BY <1>0, BookingAssumption DEF Typed, CallOK, CommitsItsOrder, Writes
<1>2. /\ request[q].order = NoOrder
      /\ request[q].status \notin {"REJECTED", "CANCELLED", "NONE"}
      /\ request[q].pay.kind # "none"
  BY <1>0, <1>1 DEF Told, PlacesUnlinked, Placing, AcceptSteps, ClosedApart, BookedBefore,
     AcceptingHandedOver, HandedOver
<1>3. request'[q].order = o
  <2>1. SameMoney([request[q] EXCEPT !.order = o], request'[q]) /\ request[q] \in RequestRow
    BY <1>0, <1>1 DEF Writes, Typed, TypeOK
  <2>. QED BY <2>1 DEF SameMoney, RequestRow
<1>4. Stage(q) = "settled" /\ Stage(q)' = "ordered"
  BY <1>1, <1>2, <1>3, StageIs, StageWillBe
<1>5. \A b \in Quotes : request[b].order # o
  <2>. SUFFICES ASSUME NEW b \in Quotes, request[b].order = o PROVE FALSE
    OBVIOUS
  <2>1. orders[o].for = b
    BY <1>1 DEF Told, OrderBillsTheSettlement
  <2>. QED BY <1>1, <1>2, <2>1
<1>6. /\ stages[q] = "settled" /\ stages' = [stages EXCEPT ![q] = "ordered"]
      /\ linked' = [linked EXCEPT ![q] = o]
      /\ \A b \in Quotes : linked[b] # o
  BY <1>3, <1>4, <1>5, OneStageMoves DEF linked
<1>7. Promise!HandOver(q, o)
  BY <1>6 DEF stages, linked, Promise!HandOver, Promise!Move
<1>. QED BY <1>1, <1>7

\* A call on a booking settles it, closes it, hands it over, or leaves it where it is.
LEMMA CallKeepsPromise ==
  ASSUME Told, [Next]_vars, NEW q \in Quotes, Others(q), NEW c \in Calls, Writes(c, q)
  PROVE  \/ stages' = stages /\ linked' = linked
         \/ Promise!Settle(q) \/ Promise!Close(q) \/ \E o \in Orders : Promise!HandOver(q, o)
<1>0. Typed /\ request[q] \in RequestRow
  BY DEF Told, Single, Unskipped, Typed, TypeOK
<1>1. /\ request[q].status \notin {"NONE", "CANCELLED"}
      /\ request[q].order # NoOrder => request[q].status = "COMPLETED"
      /\ calls[c].at # "idle" /\ calls[c].quote = q
  BY DEF Writes, Told, BookedBefore, ClosedApart, QuoteFollowsRequest
<1>2. \A r : IsOpen(r) => r.status \notin {"NONE", "COMPLETED", "REJECTED", "CANCELLED"}
  BY OpenOrClosed DEF Terminal
<1>3. ASSUME request'[q].order = request[q].order, request'[q].pay = request[q].pay,
             request[q].status # "REJECTED",
             request'[q].status \notin {"NONE", "CANCELLED", "REJECTED"}
      PROVE  stages' = stages /\ linked' = linked
  <2>1. Stage(q)' = Stage(q)
    BY <1>1, <1>3, StageIs, StageWillBe
  <2>. QED BY <1>3, <2>1, SameStage
<1>4. CASE Untouched(q)
  <2>1. Stage(q)' = Stage(q)
    BY <1>4 DEF Untouched, SameMoney, Stage
  <2>. QED BY <1>4, <2>1, SameStage DEF Untouched, SameMoney
<1>5. CASE ~Untouched(q) /\ calls[c].at \in {"assign", "arrive", "verify"}
  <2>1. /\ request'[q].order = request[q].order /\ request'[q].pay = request[q].pay
        /\ IsOpen(request'[q]) /\ request[q].status # "REJECTED"
    BY <1>1, <1>5 DEF Writes, Told, ClosedApart
  <2>. QED BY <1>2, <1>3, <2>1
<1>6. CASE ~Untouched(q) /\ calls[c].at = "collect"
  <2>1. /\ SameMoney([request[q] EXCEPT !.pay = calls[c].pay], request'[q])
        /\ request'[q].status = request[q].status /\ request[q].pay.kind = "none"
    BY <1>6 DEF Writes
  <2>2. request'[q].order = request[q].order /\ request'[q].pay = calls[c].pay
    BY <1>0, <2>1 DEF SameMoney, RequestRow
  <2>3. calls[c].pay.kind # "none"
    BY <1>6 DEF Told, DeferredPaysNothing
  <2>4. CASE request[q].order # NoOrder \/ request[q].status = "REJECTED"
    <3>1. Stage(q)' = Stage(q)
      BY <1>1, <2>1, <2>2, <2>4, StageIs, StageWillBe
    <3>. QED BY <2>2, <3>1, SameStage
  <2>5. CASE request[q].order = NoOrder /\ request[q].status # "REJECTED"
    <3>1. Stage(q) = "open" /\ Stage(q)' = "settled"
      BY <1>1, <2>1, <2>2, <2>3, <2>5, StageIs, StageWillBe
    <3>2. stages[q] = "open" /\ stages' = [stages EXCEPT ![q] = "settled"] /\ linked' = linked
      BY <2>2, <3>1, OneStageMoves DEF linked
    <3>3. Promise!Settle(q)
      BY <3>2 DEF stages, linked, Promise!Settle, Promise!Move
    <3>. QED BY <3>3
  <2>. QED BY <2>4, <2>5
<1>7. CASE ~Untouched(q) /\ calls[c].at = "accept claim"
  <2>1. /\ request'[q].order = request[q].order /\ request'[q].pay = request[q].pay
        /\ request'[q].status = "COMPLETED" /\ IsOpen(request[q])
    BY <1>7 DEF Writes, SameMoney
  <2>. QED BY <1>2, <1>3, <2>1
<1>8. CASE calls[c].at = "accept commit"
  BY <1>8, HandsOverOnce
<1>9. CASE ~Untouched(q) /\ calls[c].at = "reject"
  <2>1. /\ request'[q].order = request[q].order /\ request'[q].pay = request[q].pay
        /\ request'[q].status = "REJECTED" /\ request[q].status # "COMPLETED"
    BY <1>1, <1>9 DEF Writes, SameMoney, Told, ClosedApart
  <2>2. request[q].order = NoOrder
    BY <1>1, <2>1
  <2>3. Stage(q)' = "closed"
    BY <2>1, <2>2, StageWillBe
  <2>4. CASE request[q].status = "REJECTED"
    <3>1. Stage(q)' = Stage(q)
      BY <2>2, <2>3, <2>4, StageIs
    <3>. QED BY <2>1, <3>1, SameStage
  <2>5. CASE request[q].status # "REJECTED"
    <3>1. Stage(q) \in {"open", "settled"}
      BY <1>1, <2>2, <2>5, StageIs
    <3>2. /\ stages[q] \in {"open", "settled"} /\ stages' = [stages EXCEPT ![q] = "closed"]
          /\ linked' = linked
      BY <2>1, <2>3, <3>1, OneStageMoves DEF linked
    <3>3. Promise!Close(q)
      BY <3>2 DEF stages, linked, Promise!Close, Promise!Move
    <3>. QED BY <3>3
  <2>. QED BY <2>4, <2>5
<1>10. Untouched(q) \/ calls[c].at \in {"assign", "arrive", "verify", "collect", "accept claim",
                                        "accept commit", "reject"}
  BY DEF Writes
<1>. QED BY <1>4, <1>5, <1>6, <1>7, <1>8, <1>9, <1>10

\* Under the same condition the workflow implements Handover: what is handed over was
\* settled, is handed over once and as one order of its own, and is never closed too.
THEOREM PromiseIsKept == Spec => KeepsPromise
<1>1. Init => Promise!Init
  <2>. SUFFICES ASSUME Init PROVE Promise!Init
    OBVIOUS
  <2>1. \A q \in Quotes : request[q] = NoRequest
    BY DEF Init
  <2>2. \A q \in Quotes : Stage(q) = "unbooked" /\ request[q].order = NoOrder
    BY <2>1, NoRequestType, StageIs
  <2>. QED BY <2>2 DEF Promise!Init
<1>2. ASSUME Told, [Next]_vars
      PROVE  \/ stages' = stages /\ linked' = linked
             \/ Promise!Next
  <2>1. CASE request' = request
    BY <2>1 DEF stages, linked, Stage
  <2>2. ASSUME NEW q \in Quotes, Others(q), Claims(q) PROVE stages' = stages /\ linked' = linked
    <3>1. Stage(q)' = Stage(q) /\ request'[q].order = request[q].order
      <4>1. /\ request'[q].order = request[q].order /\ request'[q].pay = request[q].pay
            /\ request[q].status \notin {"REJECTED", "CANCELLED", "NONE"}
            /\ request'[q].status \notin {"REJECTED", "CANCELLED", "NONE"}
        BY <2>2, OpenOrClosed DEF Claims, SameMoney, Terminal
      <4>. QED BY <4>1 DEF Stage
    <3>. QED BY <2>2, <3>1, SameStage
  <2>3. ASSUME NEW q \in Quotes, Others(q), Books(q) PROVE Promise!Open(q)
    <3>1. Stage(q) = "unbooked" /\ request[q].order = NoOrder
      BY <2>3, NoRequestType, StageIs DEF Books
    <3>2. Stage(q)' = "open" /\ request'[q].order = NoOrder
      <4>1. /\ request'[q].status \notin {"REJECTED", "CANCELLED", "NONE"}
            /\ request'[q].order = NoOrder /\ request'[q].pay.kind = "none"
        BY <2>3, OpenOrClosed DEF Books, Terminal, Unsettled
      <4>. QED BY <2>3, <4>1, StageWillBe
    <3>3. /\ stages[q] = "unbooked" /\ stages' = [stages EXCEPT ![q] = "open"]
          /\ linked' = linked
      BY <2>3, <3>1, <3>2, OneStageMoves DEF linked
    <3>. QED BY <3>3 DEF stages, linked, Promise!Open, Promise!Move
  <2>4. ASSUME NEW q \in Quotes, Others(q), NEW c \in Calls, Writes(c, q)
        PROVE  (stages' = stages /\ linked' = linked) \/ Promise!Next
    <3>1. \/ stages' = stages /\ linked' = linked
          \/ Promise!Settle(q) \/ Promise!Close(q) \/ \E o \in Orders : Promise!HandOver(q, o)
      BY <1>2, <2>4, CallKeepsPromise
    <3>. QED BY <3>1 DEF Promise!Next
  <2>5. Typed
    BY <1>2 DEF Told, Single, Unskipped
  <2>6. ASSUME NEW q \in Quotes, Promise!Open(q) PROVE Promise!Next
    BY <2>6 DEF Promise!Next
  <2>. QED BY <1>2, <2>1, <2>2, <2>3, <2>4, <2>5, <2>6, Steps
<1>3. (OnlyRepeatsOverlap => Told) /\ [Next]_vars
        => [OnlyRepeatsOverlap => [Promise!Next]_(Promise!vars)]_vars
  BY <1>2 DEF stages, linked, Promise!vars
<1>. QED BY <1>1, <1>3, AlwaysTold, PTL DEF Spec, KeepsPromise

-----------------------------------------------------------------------------
(* A claim is followed up *)

\* Unless handlers die, a request that was claimed for acceptance and has no order yet
\* has a call in flight that is placing it: the safety half of CompletedGetsOrder.
ClaimsFollowedUp ==
  ~Faults => \A q \in Quotes :
    request[q].status = "COMPLETED" /\ request[q].order = NoOrder =>
      \E c \in Calls : calls[c].quote = q /\ calls[c].at \in Placing

\* A call that is placing an order goes on doing so until its request has one.
LEMMA PlacingGoesOn ==
  ASSUME Typed, [Next]_vars, ~Faults, NEW q \in Quotes, NEW c \in Calls,
         calls[c].quote = q, calls[c].at \in Placing, request'[q].order = NoOrder
  PROVE  calls'[c].quote = q /\ calls'[c].at \in Placing
<1>1. Idle.at = "idle" /\ calls[c].at # "idle"
  BY DEF Idle, Placing
<1>2. CASE calls' = calls
  BY <1>2
<1>3. ASSUME NEW d \in Calls, NEW b \in Quotes, StartCall(d, b)
      PROVE  calls'[c] = calls[c]
  <2>1. d # c
    BY <1>1, <1>3, StartChecks
  <2>. QED BY <1>3, <2>1, StartMoves
<1>4. ASSUME RunCall(c) PROVE calls'[c].quote = q /\ calls'[c].at \in Placing
  <2>1. CASE calls[c].at = "accept order"
    <3>1. \E o \in Orders : AcceptOrder(c, o)
      BY <1>4, <2>1 DEF RunCall, Assign, Arrive, SaveParcelPhoto, SaveAadhaar, Verify, Collect,
         AcceptClaim, AcceptCommit, Reject
    <3>2. PICK o \in Orders : calls' = [calls EXCEPT ![c].at = "accept commit", ![c].order = o]
      BY <3>1 DEF AcceptOrder
    <3>3. calls[c] \in CallRow /\ calls \in [Calls -> CallRow]
      BY DEF Typed, TypeOK
    <3>. QED BY <3>2, <3>3 DEF CallRow, Placing
  <2>2. CASE calls[c].at = "accept commit"
    <3>1. AcceptCommit(c)
      BY <1>4, <2>2 DEF RunCall, Assign, Arrive, SaveParcelPhoto, SaveAadhaar, Verify, Collect,
         AcceptClaim, AcceptOrder, Reject
    <3>2. request'[q] = Linked(request[q], calls[c].order) /\ request[q] \in RequestRow
      BY <3>1 DEF AcceptCommit, Typed, TypeOK
    <3>3. request'[q].order = calls[c].order /\ calls[c].order \in Orders
      BY <2>2, <3>2 DEF Linked, RequestRow, Typed, CallOK
    <3>. QED BY <3>3, BookingAssumption
  <2>. QED BY <2>1, <2>2 DEF Placing
<1>5. ASSUME NEW d \in Calls, d # c, RunCall(d) PROVE calls'[c] = calls[c]
  BY <1>5, RunMoves
<1>. QED BY <1>2, <1>3, <1>4, <1>5
     DEF Next, vars, Create, CommitBooking, Book, Claim, Die

LEMMA ClaimsFollowedStep ==
  ASSUME Typed, ClaimsFollowedUp, [Next]_vars
  PROVE  ClaimsFollowedUp'
<1>. SUFFICES ASSUME ~Faults, NEW q \in Quotes,
                     request'[q].status = "COMPLETED", request'[q].order = NoOrder
              PROVE  \E c \in Calls : calls'[c].quote = q /\ calls'[c].at \in Placing
  BY CallAssumption DEF ClaimsFollowedUp
<1>0. request[q] \in RequestRow
  BY DEF Typed, TypeOK
<1>1. CASE request[q].status = "COMPLETED" /\ request[q].order = NoOrder
  <2>1. PICK c \in Calls : calls[c].quote = q /\ calls[c].at \in Placing
    BY <1>1 DEF ClaimsFollowedUp
  <2>. QED BY <2>1, PlacingGoesOn
<1>2. ASSUME NEW c \in Calls, Writes(c, q), calls[c].at = "accept claim", ~Untouched(q)
      PROVE  calls'[c].quote = q /\ calls'[c].at \in Placing
  <2>1. RunCall(c) /\ IsOpen(request[q]) /\ calls[c].quote = q
    BY <1>2 DEF Writes
  <2>2. AcceptClaim(c)
    BY <1>2, <2>1 DEF RunCall, Assign, Arrive, SaveParcelPhoto, SaveAadhaar, Verify, Collect,
       AcceptOrder, AcceptCommit, Reject
  <2>3. calls' = [calls EXCEPT ![c].at = "accept order"]
    BY <2>1, <2>2 DEF AcceptClaim
  <2>. QED BY <2>1, <2>3 DEF Typed, TypeOK, CallRow, Placing
<1>3. ASSUME NEW c \in Calls, Writes(c, q), calls[c].at = "accept commit" PROVE FALSE
  <2>1. SameMoney([request[q] EXCEPT !.order = calls[c].order], request'[q])
        /\ calls[c].order \in Orders
    BY <1>3 DEF Writes, Typed, CallOK
  <2>2. request'[q].order = calls[c].order
    BY <1>0, <2>1 DEF SameMoney, RequestRow
  <2>. QED BY <2>1, <2>2, BookingAssumption
<1>4. ASSUME NEW c \in Calls, Writes(c, q), calls[c].at = "collect", ~Untouched(q)
      PROVE  request[q].status = "COMPLETED" /\ request[q].order = NoOrder
  <2>1. /\ SameMoney([request[q] EXCEPT !.pay = calls[c].pay], request'[q])
        /\ request'[q].status = request[q].status
    BY <1>4 DEF Writes
  <2>. QED BY <1>0, <2>1 DEF SameMoney, RequestRow
<1>5. ASSUME NEW c \in Calls, Writes(c, q)
      PROVE  Untouched(q) \/ calls[c].at \in {"accept claim", "accept commit", "collect"}
  BY <1>5, OpenOrClosed DEF Writes, Terminal
<1>6. Untouched(q) => request[q].status = "COMPLETED" /\ request[q].order = NoOrder
  BY DEF Untouched, SameMoney
<1>7. ~Books(q) /\ ~Claims(q)
  BY OpenOrClosed DEF Books, Claims, Terminal
<1>. QED BY <1>1, <1>2, <1>3, <1>4, <1>5, <1>6, <1>7, StepsOn

\* Whatever overlaps, a request that acceptParcel has claimed is never left without its
\* order by a live server: some call is still placing it.
THEOREM ClaimsAreFollowedUp == Spec => []ClaimsFollowedUp
<1>1. Init => ClaimsFollowedUp
  BY NoRequestType DEF Init, ClaimsFollowedUp
<1>2. Typed /\ ClaimsFollowedUp /\ [Next]_vars => ClaimsFollowedUp'
  BY ClaimsFollowedStep
<1>. QED BY <1>1, <1>2, AlwaysTyped, PTL DEF Spec

-----------------------------------------------------------------------------
(* The price is what was paid, if it stands *)

\* A step leaves the price of a request that is settled, or is being, as it is.
PriceStands ==
  \A q \in Quotes :
    \/ request[q].pay.kind # "none"
    \/ \E c \in Calls : calls[c].at = "collect" /\ calls[c].quote = q
    => Payable(request'[q]) = Payable(request[q])

\* What was settled, and what is about to be, settles the price as it is now.
SettledByPrice ==
  /\ \A q \in Quotes :
       request[q].pay.kind # "none" => Settles(request[q].pay, Payable(request[q]))
  /\ \A c \in Calls :
       calls[c].at = "collect" => Settles(calls[c].pay, Payable(request[calls[c].quote]))

\* A collection that begins offers what settles the price it reads.
LEMMA StartSettles ==
  ASSUME Typed, NEW c \in Calls, NEW q \in Quotes, StartCall(c, q), calls'[c].at = "collect"
  PROVE  Settles(calls'[c].pay, Payable(request[q]))
<1>. USE DEF Typed, TypeOK
<1>1. ASSUME NEW at, NEW who, NEW pay, NEW read, Begin(c, NewCall(at, q, who, pay, read))
      PROVE  calls'[c].at = at /\ calls'[c].pay = pay
  <2>1. calls'[c] = NewCall(at, q, who, pay, read)
    BY <1>1 DEF Begin
  <2>2. Idle \in CallRow
    BY IdleOK DEF CallOK
  <2>. QED BY <2>1, <2>2 DEF NewCall, CallRow
<1>2. ASSUME NEW p \in Partners, BeginAssign(c, q, p) PROVE FALSE
  BY <1>1, <1>2 DEF BeginAssign
<1>3. ASSUME NEW who \in Actors,
             \/ BeginArrive(c, q, who)
             \/ \E at \in {"photo", "aadhaar"} : BeginUpload(c, q, who, at)
             \/ BeginVerify(c, q, who) \/ BeginReject(c, q, who)
      PROVE  FALSE
  <2>1. \E at \in {"arrive", "photo", "aadhaar", "verify", "reject"} :
          Begin(c, NewCall(at, q, who, Unsettled, NoRequest))
    BY <1>3 DEF BeginArrive, BeginUpload, BeginVerify, BeginReject, BeginWork
  <2>. QED BY <1>1, <2>1
<1>4. ASSUME NEW who \in Actors, NEW pay, BeginCollect(c, q, who, pay)
      PROVE  Settles(calls'[c].pay, Payable(request[q]))
  <2>1. calls'[c].pay = pay
    BY <1>1, <1>4 DEF BeginCollect
  <2>2. PICK owed : owed = Payable(request[q])
    OBVIOUS
  <2>3. Settles(pay, owed)
    BY <1>4, <2>2 DEF BeginCollect
  <2>. QED BY <2>1, <2>2, <2>3
<1>5. ASSUME NEW who \in Actors, BeginAccept(c, q, who) PROVE FALSE
  BY <1>1, <1>5 DEF BeginAccept
<1>. QED BY <1>2, <1>3, <1>4, <1>5 DEF StartCall

LEMMA SettledByPriceStep ==
  ASSUME Typed, SettledByPrice, [Next]_vars, [PriceStands]_vars
  PROVE  SettledByPrice'
<1>1. ASSUME NEW q \in Quotes,
             \/ request[q].pay.kind # "none"
             \/ \E c \in Calls : calls[c].at = "collect" /\ calls[c].quote = q
      PROVE  Payable(request'[q]) = Payable(request[q])
  BY <1>1 DEF PriceStands, vars, Payable
<1>2. ASSUME NEW q \in Quotes, request'[q].pay.kind # "none"
      PROVE  Settles(request'[q].pay, Payable(request'[q]))
  <2>1. PICK owed : owed = Payable(request[q])
    OBVIOUS
  <2>2. CASE request'[q].pay = request[q].pay
    <3>1. Settles(request[q].pay, owed) /\ Payable(request'[q]) = owed
      BY <1>1, <1>2, <2>1, <2>2 DEF SettledByPrice
    <3>. QED BY <2>2, <3>1
  <2>3. ASSUME NEW c \in Calls, calls[c].at = "collect", calls[c].quote = q,
               request'[q].pay = calls[c].pay
        PROVE  Settles(request'[q].pay, Payable(request'[q]))
    <3>1. Settles(calls[c].pay, owed) /\ Payable(request'[q]) = owed
      BY <1>1, <2>1, <2>3 DEF SettledByPrice
    <3>. QED BY <2>3, <3>1
  <2>4. MovesMoney(q) /\ Unsettled.kind = "none"
    BY MoneyMoves DEF Unsettled
  <2>. QED BY <1>2, <2>2, <2>3, <2>4 DEF MovesMoney
<1>3. ASSUME NEW c \in Calls, calls'[c].at = "collect"
      PROVE  Settles(calls'[c].pay, Payable(request'[calls'[c].quote]))
  <2>1. ASSUME NEW q \in Quotes, StartCall(c, q)
        PROVE  Settles(calls'[c].pay, Payable(request'[calls'[c].quote]))
    <3>1. PICK owed : owed = Payable(request[q])
      OBVIOUS
    <3>2. Settles(calls'[c].pay, owed)
      BY <1>3, <2>1, <3>1, StartSettles
    <3>3. request' = request /\ calls'[c].quote = q
      BY <2>1, StartChecks
    <3>4. Payable(request'[calls'[c].quote]) = owed
      BY <3>1, <3>3 DEF Payable
    <3>. QED BY <3>2, <3>4
  <2>2. CASE /\ calls[c].at # "idle" /\ calls'[c].quote = calls[c].quote
             /\ calls'[c].pay = calls[c].pay
             /\ calls'[c].at \in Placing \/ calls'[c].at = calls[c].at
    <3>1. calls[c].at = "collect" /\ calls[c].quote \in Quotes
      BY <1>3, <2>2 DEF Placing, Typed, CallOK
    <3>2. PICK owed : owed = Payable(request[calls[c].quote])
      OBVIOUS
    <3>3. Settles(calls[c].pay, owed) /\ Payable(request'[calls[c].quote]) = owed
      BY <1>1, <3>1, <3>2 DEF SettledByPrice
    <3>4. Payable(request'[calls'[c].quote]) = owed
      BY <2>2, <3>3 DEF Payable
    <3>. QED BY <2>2, <3>3, <3>4
  <2>3. calls'[c].at # "idle"
    BY <1>3
  <2>. QED BY <2>1, <2>2, <2>3, Continues
<1>. QED BY <1>2, <1>3 DEF SettledByPrice

\* A part payment leaves a remainder.
LEMMA RemainderIsOwed ==
  \A paid, owed \in Nat, due \in Int : paid < owed /\ paid + due = owed => due > 0
OBVIOUS

\* If of the handlers that move a request's status only repeats of one overlap, the
\* price an order was settled for can differ from its price only where a step changed the
\* price of a request that was settled, or being settled: as long as none does, what was
\* taken in full is within the tolerance and what was taken in part leaves a due.
THEOREM OrdersPayAPriceThatStands ==
  Spec /\ OnlyRepeatsOverlap /\ [][PriceStands]_vars => []OrderPaysThePrice
<1>1. Init => SettledByPrice
  <2>1. Idle.at = "idle"
    BY DEF Idle
  <2>. QED BY <2>1, NoRequestType DEF Init, SettledByPrice
<1>2. Typed /\ SettledByPrice /\ [Next]_vars /\ [PriceStands]_vars => SettledByPrice'
  BY SettledByPriceStep
<1>3. Told => Typed
  BY DEF Told, Single, Unskipped
<1>4. ASSUME Told, SettledByPrice PROVE OrderPaysThePrice
  <2>. SUFFICES ASSUME NEW q \in Quotes, request[q].order # NoOrder
                PROVE  /\ request[q].pay.kind = "full" =>
                            WithinTolerance(request[q].pay.amount, Payable(request[q]))
                       /\ request[q].pay.kind = "part" => orders[request[q].order].due > 0
    BY DEF OrderPaysThePrice
  <2>1. request[q] \in RequestRow /\ request[q].order \in Orders
    BY <1>3, <1>4 DEF Typed, TypeOK, RequestRow
  <2>2. orders[request[q].order] \in OrderRow
    BY <1>3, <1>4, <2>1 DEF Typed, TypeOK, Told, LinkedExists
  <2>3. PICK owed \in Nat : owed = Payable(request[q])
    <3>1. request[q].price \in Nat /\ request[q].discount \in Nat
      BY <2>1 DEF RequestRow
    <3>. QED BY <3>1 DEF Payable, Greatest
  <2>4. PICK amount \in Nat : amount = request[q].pay.amount
    BY <2>1 DEF RequestRow, Settlement
  <2>5. CASE request[q].pay.kind = "full"
    <3>1. Settles(request[q].pay, owed)
      BY <1>4, <2>3, <2>5 DEF SettledByPrice
    <3>2. WithinTolerance(amount, owed)
      BY <2>4, <2>5, <3>1 DEF Settles
    <3>. QED BY <2>3, <2>4, <2>5, <3>2
  <2>6. CASE request[q].pay.kind = "part"
    <3>1. Settles(request[q].pay, owed)
      BY <1>4, <2>3, <2>6 DEF SettledByPrice
    <3>2. amount < owed
      BY <2>4, <2>6, <3>1 DEF Settles
    <3>3. PICK due, paid : /\ due \in Int
                           /\ due = orders[request[q].order].due
                           /\ paid = orders[request[q].order].paid
      BY <2>2 DEF OrderRow
    <3>4. paid = amount /\ paid + due = owed
      BY <1>4, <2>3, <2>4, <2>6, <3>3 DEF Told, OrderBillsTheSettlement
    <3>5. due > 0
      BY <3>2, <3>3, <3>4, RemainderIsOwed
    <3>. QED BY <2>6, <3>3, <3>5
  <2>7. CASE request[q].pay.kind \notin {"full", "part"}
    BY <2>7
  <2>. QED BY <2>5, <2>6, <2>7
<1>5. OnlyRepeatsOverlap /\ [Next]_vars => OnlyRepeatsOverlap'
  BY RegimeStays DEF OnlyRepeatsOverlap
<1>. QED BY <1>1, <1>2, <1>3, <1>4, <1>5, AlwaysTold, PTL DEF Spec
=============================================================================
