---------------------------- MODULE Quotes_proofs ----------------------------
(***************************************************************************)
(* What the quote desk and the door guarantee together, for every set of   *)
(* quotes, orders and calls in flight at either.                           *)
(***************************************************************************)
EXTENDS Quotes, PickupRequests_proofs

-----------------------------------------------------------------------------
(* Steps *)

LEMMA DoorIsNext == Door => Next /\ UNCHANGED <<regime, expired, pickup, desk>>
BY DEF Door, DoorStart, Next

\* What a step of the desk does besides moving calls: it writes one quote, or the
\* request it cancels, or a new order.
LEMMA DeskIdleOK == DeskIdle \in DeskRow /\ DeskIdle.at = "idle" /\ DeskIdle.op = "none"
BY DEF DeskIdle, DeskRow, DeskStatements, PickupStatuses

\* A desk call names its quote, from the pickup on its order, and moves a row that is there.
DeskOK(call) ==
  /\ call.at # "idle" => call.quote \in Quotes
  /\ call.at \in {"pickup", "link"} => call.order \in Orders
  /\ call.at = "move" => pickup[call.quote] # NoPickup
  /\ call.at \in {"reject", "look", "cancel"} <=> call.op = "reject"

QTyped == QTypeOK /\ Typed /\ \A d \in Desk : DeskOK(desk[d])

\* A desk call that moves, over tables that keep their types.
LEMMA DeskMoves ==
  ASSUME QTyped, NEW d \in Desk, NEW call \in DeskRow, DeskOK(call),
         desk' = [desk EXCEPT ![d] = call],
         UNCHANGED <<calls, kyc, regime>>, expired' \subseteq Quotes,
         quote' \in [Quotes -> QuoteRow], request' \in [Quotes -> RequestRow],
         orders' \in [Orders -> OrderRow \cup {NoRow}],
         pickup' \in [Quotes -> PickupRow \cup {NoPickup}],
         \A q \in Quotes : pickup[q] # NoPickup => pickup'[q] # NoPickup
  PROVE  QTyped'
<1>1. desk' \in [Desk -> DeskRow]
  BY DEF QTyped, QTypeOK
<1>2. ASSUME NEW e \in Desk PROVE DeskOK(desk[e])'
  <2>1. CASE e = d
    <3>1. desk'[e] = call
      BY <2>1 DEF QTyped, QTypeOK
    <3>2. call.at = "move" => call.quote \in Quotes /\ pickup'[call.quote] # NoPickup
      BY DEF DeskOK
    <3>. QED BY <3>1, <3>2 DEF DeskOK
  <2>2. CASE e # d
    <3>1. desk'[e] = desk[e] /\ DeskOK(desk[e])
      BY <2>2 DEF QTyped, QTypeOK
    <3>2. desk[e].at = "move" => desk[e].quote \in Quotes /\ pickup'[desk[e].quote] # NoPickup
      BY <3>1 DEF DeskOK
    <3>. QED BY <3>1, <3>2 DEF DeskOK
  <2>. QED BY <2>1, <2>2
<1>3. Typed'
  BY DEF QTyped, Typed, TypeOK, CallOK, regime
<1>4. apart' \in BOOLEAN /\ sound' \in BOOLEAN /\ method' \in [Quotes -> Methods]
  BY Zenon DEF QTyped, QTypeOK, regime
<1>. QED BY <1>1, <1>2, <1>3, <1>4 DEF QTyped, QTypeOK, Typed

\* A desk call that moves and writes nothing.
LEMMA DeskOnlyMoves ==
  ASSUME QTyped, NEW d \in Desk, NEW call \in DeskRow, DeskOK(call),
         desk' = [desk EXCEPT ![d] = call], UNCHANGED <<vars, regime, expired, pickup>>
  PROVE  QTyped'
<1>. QED BY DeskMoves DEF QTyped, QTypeOK, TypeOK, vars

LEMMA QuoteWritten ==
  ASSUME QTyped, NEW q \in Quotes, NEW status \in QuoteStatus, SetQuote(q, status)
  PROVE  quote' \in [Quotes -> QuoteRow]
BY DEF SetQuote, QTyped, QTypeOK, TypeOK, QuoteRow

\* One conditional update of a quote.
LEMMA QuoteOnly ==
  ASSUME QTyped, NEW q \in Quotes, NEW status \in QuoteStatus, SetQuote(q, status),
         UNCHANGED <<request, orders, kyc, calls, regime, expired, pickup, desk>>
  PROVE  QTyped'
<1>1. quote' \in [Quotes -> QuoteRow]
  BY QuoteWritten
<1>2. Typed'
  BY <1>1 DEF QTyped, Typed, TypeOK, CallOK, regime
<1>3. apart' \in BOOLEAN /\ sound' \in BOOLEAN /\ method' \in [Quotes -> Methods]
  BY Zenon DEF QTyped, QTypeOK, regime
<1>4. \A d \in Desk : DeskOK(desk[d])'
  BY DEF QTyped, DeskOK
<1>. QED BY <1>2, <1>3, <1>4 DEF QTyped, QTypeOK, Typed

LEMMA DeskBeginOK ==
  ASSUME QTyped, NEW d \in Desk, NEW q \in Quotes,
         NEW op \in {"select", "accept", "quote", "reject"},
         NEW at \in {"claim", "order", "quote", "reject"}, at = "reject" <=> op = "reject",
         DeskBegin(d, op, at, q), UNCHANGED <<vars, regime, expired, pickup>>
  PROVE  QTyped'
<1>. DEFINE call == [DeskIdle EXCEPT !.op = op, !.at = at, !.quote = q]
<1>1. call \in DeskRow
  BY DeskIdleOK DEF DeskRow, DeskStatements
<1>2. DeskOK(call)
  BY DeskIdleOK DEF DeskOK, DeskRow
<1>3. desk' = [desk EXCEPT ![d] = call]
  BY DEF DeskBegin
<1>. HIDE DEF call
<1>. QED BY <1>1, <1>2, <1>3, DeskOnlyMoves

LEMMA DeskTypes ==
  ASSUME QTyped, NEW d \in Desk, desk[d].at # "idle"
  PROVE  desk[d] \in DeskRow /\ DeskOK(desk[d]) /\ desk[d].quote \in Quotes
BY DEF QTyped, QTypeOK, DeskOK

\* A call that goes on with the same quote.
LEMMA DeskGoesOn ==
  ASSUME QTyped, NEW d \in Desk, desk[d].at # "idle",
         NEW at \in {"order", "link", "look", "cancel"},
         at \in {"look", "cancel"} <=> desk[d].op = "reject",
         at = "link" => desk[d].order \in Orders
  PROVE  LET call == [desk[d] EXCEPT !.at = at] IN call \in DeskRow /\ DeskOK(call)
<1>. DEFINE call == [desk[d] EXCEPT !.at = at]
<1>1. desk[d] \in DeskRow /\ DeskOK(desk[d])
  BY DeskTypes
<1>2. call \in DeskRow
  BY <1>1 DEF DeskRow, DeskStatements
<1>3. call.at = at /\ call.quote = desk[d].quote /\ call.order = desk[d].order /\ call.op = desk[d].op
  BY <1>1 DEF DeskRow
<1>. HIDE DEF call
<1>4. DeskOK(call)
  BY <1>1, <1>3 DEF DeskOK
<1>. QED BY <1>2, <1>4 DEF call

LEMMA DeskIdleFine == DeskOK(DeskIdle)
BY DeskIdleOK DEF DeskOK

-----------------------------------------------------------------------------
(* Types *)

LEMMA QTypedInit == QInit => QTyped
<1>. SUFFICES ASSUME QInit PROVE QTyped
  OBVIOUS
<1>1. Typed
  BY TypedInit DEF QInit
<1>2. desk \in [Desk -> DeskRow] /\ \A d \in Desk : DeskOK(desk[d])
  BY DeskIdleOK, DeskIdleFine DEF QInit
<1>3. expired \subseteq Quotes /\ pickup \in [Quotes -> PickupRow \cup {NoPickup}]
  BY DEF QInit
<1>4. apart \in BOOLEAN /\ sound \in BOOLEAN /\ method \in [Quotes -> Methods]
  BY Zenon DEF QInit
<1>. QED BY <1>1, <1>2, <1>3, <1>4 DEF QTyped, QTypeOK, Typed

LEMMA DoorTyped == QTyped /\ Door => QTyped'
<1>. SUFFICES ASSUME QTyped, Door PROVE QTyped'
  OBVIOUS
<1>1. Typed' /\ UNCHANGED <<regime, expired, pickup, desk>>
  BY DoorIsNext, TypedStep DEF QTyped
<1>2. apart' \in BOOLEAN /\ sound' \in BOOLEAN /\ method' \in [Quotes -> Methods]
  BY <1>1, Zenon DEF QTyped, QTypeOK, regime
<1>3. \A d \in Desk : DeskOK(desk[d])'
  BY <1>1 DEF QTyped, DeskOK
<1>. QED BY <1>1, <1>2, <1>3 DEF QTyped, QTypeOK, Typed

LEMMA StartDeskTyped ==
  ASSUME QTyped, NEW d \in Desk, NEW q \in Quotes, StartDesk(d, q) PROVE QTyped'
<1>1. CASE BeginSelectLegacy(d, q)
  BY <1>1, DeskBeginOK DEF BeginSelectLegacy
<1>2. CASE BeginAcceptLegacy(d, q)
  BY <1>2, DeskBeginOK DEF BeginAcceptLegacy
<1>3. CASE BeginManualQuote(d, q)
  BY <1>3, DeskBeginOK DEF BeginManualQuote
<1>4. CASE BeginQuoteReject(d, q)
  BY <1>4, DeskBeginOK DEF BeginQuoteReject
<1>5. ASSUME NEW to \in PickupStatuses, BeginUpdateStatus(d, q, to) PROVE QTyped'
  <2>. DEFINE call == [DeskIdle EXCEPT !.op = "move", !.at = "move", !.quote = q, !.to = to]
  <2>1. call \in DeskRow
    BY DeskIdleOK DEF DeskRow, DeskStatements
  <2>2. /\ desk' = [desk EXCEPT ![d] = call] /\ pickup[q] # NoPickup
        /\ UNCHANGED <<vars, regime, expired, pickup>>
    BY <1>5 DEF BeginUpdateStatus
  <2>3. DeskOK(call)
    BY <2>2, DeskIdleOK DEF DeskOK, DeskRow
  <2>. HIDE DEF call
  <2>. QED BY <2>1, <2>2, <2>3, DeskOnlyMoves
<1>. QED BY <1>1, <1>2, <1>3, <1>4, <1>5 DEF StartDesk

LEMMA SelectionTyped ==
  ASSUME QTyped, NEW d \in Desk,
         \/ SelectClaim(d) \/ \E o \in Orders : LegacyOrder(d, o)
         \/ LegacyPickup(d) \/ LegacyLink(d)
  PROVE  QTyped'
<1>. DEFINE q == desk[d].quote
<1>0. desk \in [Desk -> DeskRow] /\ quote \in [Quotes -> QuoteRow]
  BY DEF QTyped, QTypeOK, TypeOK
<1>1. CASE SelectClaim(d)
  <2>1. /\ desk[d].at = "claim" /\ q \in Quotes /\ desk[d].op # "reject"
        /\ UNCHANGED <<request, orders, kyc, calls, regime, expired, pickup>>
    BY <1>1, DeskTypes DEF SelectClaim, DeskAt, DeskOK
  <2>2. CASE quote[q].status = "RATED"
    <3>1. quote' \in [Quotes -> QuoteRow]
      BY <1>1, <2>1, <2>2, QuoteWritten DEF SelectClaim, QuoteStatus
    <3>2. desk' = [desk EXCEPT ![d] = [desk[d] EXCEPT !.at = "order"]]
      BY <1>0, <1>1, <2>2 DEF SelectClaim, DeskGo
    <3>3. [desk[d] EXCEPT !.at = "order"] \in DeskRow /\ DeskOK([desk[d] EXCEPT !.at = "order"])
      BY <2>1, DeskGoesOn
    <3>. QED BY <2>1, <3>1, <3>2, <3>3, DeskMoves DEF QTyped, QTypeOK, TypeOK
  <2>3. CASE quote[q].status # "RATED"
    <3>1. desk' = [desk EXCEPT ![d] = DeskIdle] /\ UNCHANGED quote
      BY <1>1, <2>3 DEF SelectClaim, DeskEnd
    <3>. QED BY <2>1, <3>1, DeskIdleOK, DeskIdleFine, DeskMoves DEF QTyped, QTypeOK, TypeOK
  <2>. QED BY <2>2, <2>3
<1>2. ASSUME NEW o \in Orders, LegacyOrder(d, o) PROVE QTyped'
  <2>. DEFINE call == [desk[d] EXCEPT !.at = "pickup", !.order = o]
  <2>1. desk[d].at = "order" /\ q \in Quotes /\ desk[d].op # "reject"
    BY <1>2, DeskTypes DEF LegacyOrder, DeskAt, DeskOK
  <2>2. call \in DeskRow
    BY <1>0 DEF DeskRow, DeskStatements
  <2>3. DeskOK(call)
    BY <1>0, <2>1 DEF DeskRow, DeskOK
  <2>4. orders' \in [Orders -> OrderRow \cup {NoRow}]
    BY <1>2, <2>1, NewOrderType DEF LegacyOrder, QTyped, QTypeOK, TypeOK
  <2>5. /\ desk' = [desk EXCEPT ![d] = call]
        /\ UNCHANGED <<quote, request, kyc, calls, regime, expired, pickup>>
    BY <1>0, <1>2 DEF LegacyOrder
  <2>. HIDE DEF call
  <2>. QED BY <2>2, <2>3, <2>4, <2>5, DeskMoves DEF QTyped, QTypeOK, TypeOK
<1>3. CASE LegacyPickup(d)
  <2>1. desk[d].at = "pickup" /\ q \in Quotes /\ desk[d].op # "reject" /\ desk[d].order \in Orders
    BY <1>3, DeskTypes DEF LegacyPickup, DeskAt, DeskOK
  <2>2. CASE pickup[q] = NoPickup
    <3>. DEFINE row == [status |-> "SCHEDULED", order |-> desk[d].order]
    <3>1. row \in PickupRow
      BY <2>1 DEF PickupRow, PickupStatuses
    <3>2. /\ pickup' = [pickup EXCEPT ![q] = row] /\ UNCHANGED <<vars, regime, expired>>
          /\ desk' = [desk EXCEPT ![d] = [desk[d] EXCEPT !.at = "link"]]
      BY <1>0, <1>3, <2>2 DEF LegacyPickup, DeskGo
    <3>. HIDE DEF row
    <3>3. /\ pickup' \in [Quotes -> PickupRow \cup {NoPickup}]
          /\ \A p \in Quotes : pickup[p] # NoPickup => pickup'[p] # NoPickup
      BY <3>1, <3>2, QuotesAssumption DEF QTyped, QTypeOK
    <3>4. [desk[d] EXCEPT !.at = "link"] \in DeskRow /\ DeskOK([desk[d] EXCEPT !.at = "link"])
      BY <2>1, DeskGoesOn
    <3>. QED BY <3>2, <3>3, <3>4, DeskMoves DEF QTyped, QTypeOK, TypeOK, vars
  <2>3. CASE pickup[q] # NoPickup
    <3>1. desk' = [desk EXCEPT ![d] = DeskIdle] /\ UNCHANGED <<vars, regime, expired, pickup>>
      BY <1>3, <2>3 DEF LegacyPickup, DeskEnd
    <3>. QED BY <3>1, DeskIdleOK, DeskIdleFine, DeskOnlyMoves
  <2>. QED BY <2>2, <2>3
<1>4. CASE LegacyLink(d)
  <2>1. desk[d].at = "link" /\ q \in Quotes /\ desk[d].order \in Orders
    BY <1>4, DeskTypes DEF LegacyLink, DeskAt, DeskOK
  <2>2. quote' \in [Quotes -> QuoteRow]
    BY <1>0, <1>4, <2>1 DEF LegacyLink, QuoteRow, QuoteStatus
  <2>3. /\ desk' = [desk EXCEPT ![d] = DeskIdle]
        /\ UNCHANGED <<request, orders, kyc, calls, regime, expired, pickup>>
    BY <1>4 DEF LegacyLink, DeskEnd
  <2>. QED BY <2>2, <2>3, DeskIdleOK, DeskIdleFine, DeskMoves DEF QTyped, QTypeOK, TypeOK
<1>. QED BY <1>1, <1>2, <1>3, <1>4

LEMMA StaffTyped ==
  ASSUME QTyped, NEW d \in Desk,
         \/ SetManualQuote(d) \/ QuoteReject(d) \/ RejectLook(d) \/ RejectCancel(d)
         \/ UpdateStatus(d) \/ DeskDie(d)
  PROVE  QTyped'
<1>. DEFINE q == desk[d].quote
<1>0. desk \in [Desk -> DeskRow] /\ quote \in [Quotes -> QuoteRow]
      /\ request \in [Quotes -> RequestRow]
  BY DEF QTyped, QTypeOK, TypeOK
<1>1. CASE SetManualQuote(d)
  <2>1. /\ q \in Quotes /\ desk' = [desk EXCEPT ![d] = DeskIdle]
        /\ UNCHANGED <<request, orders, kyc, calls, regime, expired, pickup>>
    BY <1>1, DeskTypes DEF SetManualQuote, DeskAt, DeskEnd
  <2>2. quote' \in [Quotes -> QuoteRow]
    BY <1>1, <2>1, QuoteWritten DEF SetManualQuote, QuoteStatus
  <2>. QED BY <2>1, <2>2, DeskIdleOK, DeskIdleFine, DeskMoves DEF QTyped, QTypeOK, TypeOK
<1>2. CASE QuoteReject(d)
  <2>1. /\ desk[d].at = "reject" /\ desk[d].op = "reject" /\ q \in Quotes
        /\ desk' = [desk EXCEPT ![d] = [desk[d] EXCEPT !.at = "look"]]
        /\ UNCHANGED <<request, orders, kyc, calls, regime, expired, pickup>>
    BY <1>0, <1>2, DeskTypes DEF QuoteReject, DeskAt, DeskGo, DeskOK
  <2>2. quote' \in [Quotes -> QuoteRow]
    BY <1>2, <2>1, QuoteWritten DEF QuoteReject, QuoteStatus
  <2>3. [desk[d] EXCEPT !.at = "look"] \in DeskRow /\ DeskOK([desk[d] EXCEPT !.at = "look"])
    BY <2>1, DeskGoesOn
  <2>. QED BY <2>1, <2>2, <2>3, DeskMoves DEF QTyped, QTypeOK, TypeOK
<1>3. CASE RejectLook(d)
  <2>1. /\ desk[d].at = "look" /\ desk[d].op = "reject"
        /\ UNCHANGED <<vars, regime, expired, pickup>>
    BY <1>3, DeskTypes DEF RejectLook, DeskAt, DeskOK
  <2>2. CASE IsOpen(request[q])
    <3>1. desk' = [desk EXCEPT ![d] = [desk[d] EXCEPT !.at = "cancel"]]
      BY <1>0, <1>3, <2>2 DEF RejectLook, DeskGo
    <3>2. [desk[d] EXCEPT !.at = "cancel"] \in DeskRow /\ DeskOK([desk[d] EXCEPT !.at = "cancel"])
      BY <2>1, DeskGoesOn
    <3>. QED BY <2>1, <3>1, <3>2, DeskOnlyMoves
  <2>3. CASE ~IsOpen(request[q])
    BY <1>3, <2>1, <2>3, DeskIdleOK, DeskIdleFine, DeskOnlyMoves DEF RejectLook, DeskEnd
  <2>. QED BY <2>2, <2>3
<1>4. CASE RejectCancel(d)
  <2>1. /\ q \in Quotes /\ desk' = [desk EXCEPT ![d] = DeskIdle]
        /\ UNCHANGED <<quote, orders, kyc, calls, regime, expired, pickup>>
    BY <1>4, DeskTypes DEF RejectCancel, DeskAt, DeskEnd
  <2>2. request' \in [Quotes -> RequestRow]
    BY <1>0, <1>4, <2>1 DEF RejectCancel, RequestRow, Terminal
  <2>. QED BY <2>1, <2>2, DeskIdleOK, DeskIdleFine, DeskMoves DEF QTyped, QTypeOK, TypeOK
<1>5. CASE UpdateStatus(d)
  <2>1. /\ q \in Quotes /\ pickup[q] # NoPickup /\ desk[d].to \in PickupStatuses
    BY <1>0, <1>5, DeskTypes DEF UpdateStatus, DeskAt, DeskOK, DeskRow
  <2>2. pickup[q] \in PickupRow
    BY <2>1 DEF QTyped, QTypeOK
  <2>3. [pickup[q] EXCEPT !.status = desk[d].to] \in PickupRow
    BY <2>1, <2>2 DEF PickupRow
  <2>4. /\ pickup' = [pickup EXCEPT ![q] = [pickup[q] EXCEPT !.status = desk[d].to]]
        /\ desk' = [desk EXCEPT ![d] = DeskIdle] /\ UNCHANGED <<vars, regime, expired>>
    BY <1>5, <2>1 DEF UpdateStatus, DeskEnd, QTyped, QTypeOK
  <2>5. /\ pickup' \in [Quotes -> PickupRow \cup {NoPickup}]
        /\ \A p \in Quotes : pickup[p] # NoPickup => pickup'[p] # NoPickup
    BY <2>3, <2>4, QuotesAssumption DEF QTyped, QTypeOK
  <2>. QED BY <2>4, <2>5, DeskIdleOK, DeskIdleFine, DeskMoves DEF QTyped, QTypeOK, TypeOK, vars
<1>6. CASE DeskDie(d)
  BY <1>6, DeskIdleOK, DeskIdleFine, DeskOnlyMoves DEF DeskDie, DeskEnd
<1>. QED BY <1>1, <1>2, <1>3, <1>4, <1>5, <1>6

LEMMA CustomerTyped ==
  ASSUME QTyped, NEW q \in Quotes,
         SelectOption(q) \/ AcceptQuote(q) \/ DeclineQuote(q) \/ OptionsExpire(q)
  PROVE  QTyped'
<1>1. CASE SelectOption(q) \/ AcceptQuote(q) \/ DeclineQuote(q)
  <2>1. \E status \in QuoteStatus : SetQuote(q, status)
    BY <1>1 DEF SelectOption, AcceptQuote, DeclineQuote, ToPending, QuoteStatus
  <2>2. UNCHANGED <<request, orders, kyc, calls, regime, expired, pickup, desk>>
    BY <1>1 DEF SelectOption, AcceptQuote, DeclineQuote, ToPending
  <2>. QED BY <2>1, <2>2, QuoteOnly
<1>2. CASE OptionsExpire(q)
  <2>1. expired' \subseteq Quotes /\ UNCHANGED <<vars, regime, pickup, desk>>
    BY <1>2 DEF OptionsExpire, QTyped, QTypeOK
  <2>2. Typed'
    BY <2>1 DEF QTyped, Typed, TypeOK, CallOK, vars
  <2>3. apart' \in BOOLEAN /\ sound' \in BOOLEAN /\ method' \in [Quotes -> Methods]
    BY <2>1, Zenon DEF QTyped, QTypeOK, regime
  <2>4. \A d \in Desk : DeskOK(desk[d])'
    BY <2>1 DEF QTyped, DeskOK
  <2>. QED BY <2>1, <2>2, <2>3, <2>4 DEF QTyped, QTypeOK, Typed
<1>. QED BY <1>1, <1>2

LEMMA QTypedStep == QTyped /\ [QNext]_qvars => QTyped'
<1>. SUFFICES ASSUME QTyped, [QNext]_qvars PROVE QTyped'
  OBVIOUS
<1>1. CASE UNCHANGED qvars
  <2>1. Typed'
    BY <1>1 DEF QTyped, Typed, TypeOK, CallOK, vars, qvars
  <2>2. apart' \in BOOLEAN /\ sound' \in BOOLEAN /\ method' \in [Quotes -> Methods]
    BY <1>1, Zenon DEF QTyped, QTypeOK, regime, qvars
  <2>3. \A d \in Desk : DeskOK(desk[d])'
    BY <1>1 DEF QTyped, DeskOK, qvars
  <2>. QED BY <1>1, <2>1, <2>2, <2>3 DEF QTyped, QTypeOK, Typed, qvars
<1>2. ASSUME NEW d \in Desk, RunDesk(d) \/ DeskDie(d) PROVE QTyped'
  BY <1>2, SelectionTyped, StaffTyped DEF RunDesk
<1>. QED BY <1>1, <1>2, DoorTyped, StartDeskTyped, CustomerTyped DEF QNext

LEMMA AlwaysQTyped == QSpec => []QTyped
BY QTypedInit, QTypedStep, PTL DEF QSpec

\* The rows of the desk and of the door keep their types, whatever overlaps or dies.
THEOREM QuotesTypeCorrect == QSpec => []QTypeOK
BY AlwaysQTyped, PTL DEF QTyped

-----------------------------------------------------------------------------
(* What the door writes *)

\* How a step at the door touches a quote and its request: it books them, claims the
\* request for a partner, or runs a call on them.
LEMMA DoorWrites ==
  ASSUME QTyped, Door, NEW q \in Quotes
  PROVE  \/ quote'[q] = quote[q] /\ request'[q] = request[q]
         \/ /\ quote[q].status = "PENDING_PICKUP_REQUEST" \/ ~Legacy(q)
            /\ quote[q].status # "ACCEPTED" /\ quote'[q].status = "PICKUP_REQUESTED"
            /\ request[q].status = "NONE" /\ request'[q].status # "NONE"
         \/ /\ IsOpen(request[q]) /\ request[q] # NoRequest /\ quote'[q] = quote[q]
            /\ request'[q].status # "NONE"
         \/ \E c \in Calls : RunCall(c) /\ calls[c].quote = q
<1>. USE DEF QTyped, QTypeOK, TypeOK
<1>1. ASSUME NEW p \in Quotes, NEW from, NEW row, row.status # "NONE", Book(p, from, row)
      PROVE  \/ quote'[q] = quote[q] /\ request'[q] = request[q]
             \/ /\ p = q /\ quote[q].status \in from
                /\ quote'[q].status = "PICKUP_REQUESTED"
                /\ request[q].status = "NONE" /\ request'[q].status # "NONE"
  <2>1. quote[p] \in QuoteRow
    OBVIOUS
  <2>2. [quote[p] EXCEPT !.status = "PICKUP_REQUESTED"].status = "PICKUP_REQUESTED"
    BY <2>1 DEF QuoteRow
  <2>. QED BY <1>1, <2>2, NoRequestType DEF Book
<1>2. CASE \E p \in Quotes : Create(p)
  <2>1. PICK p \in Quotes : Create(p)
    BY <1>2
  <2>2. \E row : row.status # "NONE" /\ Book(p, {"PENDING_PICKUP_REQUEST"}, row)
    BY <2>1, NewRequestStatus DEF Create
  <2>. QED BY <1>1, <2>2
<1>3. CASE \E p \in Quotes : ~Legacy(p) /\ CommitBooking(p)
  <2>1. PICK p \in Quotes : ~Legacy(p) /\ CommitBooking(p)
    BY <1>3
  <2>2. \E row : row.status # "NONE" /\ Book(p, {"RATED", "NEEDS_MANUAL_REVIEW"}, row)
    BY <2>1, NewRequestStatus DEF CommitBooking
  <2>3. CASE quote'[q] = quote[q] /\ request'[q] = request[q]
    BY <2>3
  <2>4. CASE /\ p = q /\ quote[q].status \in {"RATED", "NEEDS_MANUAL_REVIEW"}
             /\ quote'[q].status = "PICKUP_REQUESTED"
             /\ request[q].status = "NONE" /\ request'[q].status # "NONE"
    BY <2>1, <2>4
  <2>. QED BY <1>1, <2>2, <2>3, <2>4
<1>4. CASE \E p \in Quotes, b \in Partners : Claim(p, b)
  <2>1. ~IsOpen(NoRequest)
    BY NoRequestType DEF IsOpen, NonTerminal
  <2>2. PICK p \in Quotes, b \in Partners : Claim(p, b)
    BY <1>4
  <2>3. IsOpen(request[p]) /\ quote' = quote
    BY <2>2 DEF Claim, Claimable, IsOpen, NonTerminal
  <2>4. p # q => request'[q] = request[q]
    BY <2>2 DEF Claim
  <2>5. request'[p].status # "NONE"
    <3>1. request'[p] = Assigned(request[p], b)
      BY <2>2 DEF Claim
    <3>2. request[p] \in RequestRow
      OBVIOUS
    <3>3. Assigned(request[p], b).status # "NONE"
      BY <3>2, WriteStatus
    <3>. QED BY <3>1, <3>3
  <2>. QED BY <2>1, <2>3, <2>4, <2>5
<1>5. CASE \E p \in Quotes, c \in Calls : StartCall(c, p)
  BY <1>5, StartChecks
<1>6. CASE \E c \in Calls : RunCall(c)
  BY <1>6, RunWrites
<1>7. CASE \E c \in Calls : Die(c)
  BY <1>7 DEF Die
<1>. QED BY <1>2, <1>3, <1>4, <1>5, <1>6, <1>7 DEF Door, DoorStart

-----------------------------------------------------------------------------
(* What the desk writes *)

\* A desk call that begins, and what its handler read.
LEMMA DeskStarts ==
  ASSUME QTyped, NEW d \in Desk, NEW q \in Quotes, StartDesk(d, q)
  PROVE  /\ desk[d] = DeskIdle /\ desk'[d].quote = q /\ Clear(desk'[d].op, q)
         /\ UNCHANGED <<vars, regime, expired, pickup>>
         /\ \A e \in Desk \ {d} : desk'[e] = desk[e]
         /\ \/ desk'[d].op = "select" /\ desk'[d].at = "claim" /\ Legacy(q)
            \/ /\ desk'[d].op = "accept" /\ desk'[d].at = "order" /\ Legacy(q)
               /\ quote[q].status = "QUOTED"
            \/ desk'[d].op = "quote" /\ desk'[d].at = "quote" /\ ~Decided(q)
            \/ desk'[d].op = "reject" /\ desk'[d].at = "reject" /\ ~Decided(q)
            \/ desk'[d].op = "move" /\ desk'[d].at = "move"
<1>. USE DeskIdleOK DEF QTyped, QTypeOK
<1>1. ASSUME NEW op, NEW at, DeskBegin(d, op, at, q)
      PROVE  /\ desk[d] = DeskIdle /\ Clear(op, q)
             /\ desk'[d].quote = q /\ desk'[d].op = op /\ desk'[d].at = at
             /\ \A e \in Desk \ {d} : desk'[e] = desk[e]
  BY <1>1 DEF DeskBegin, DeskRow
<1>2. ASSUME NEW to \in PickupStatuses, BeginUpdateStatus(d, q, to)
      PROVE  /\ desk[d] = DeskIdle /\ Clear("move", q)
             /\ desk'[d].quote = q /\ desk'[d].op = "move" /\ desk'[d].at = "move"
             /\ \A e \in Desk \ {d} : desk'[e] = desk[e]
             /\ UNCHANGED <<vars, regime, expired, pickup>>
  BY <1>2 DEF BeginUpdateStatus, DeskRow
<1>3. CASE BeginSelectLegacy(d, q)
  BY <1>1, <1>3 DEF BeginSelectLegacy
<1>4. CASE BeginAcceptLegacy(d, q)
  BY <1>1, <1>4 DEF BeginAcceptLegacy
<1>5. CASE BeginManualQuote(d, q)
  BY <1>1, <1>5 DEF BeginManualQuote
<1>6. CASE BeginQuoteReject(d, q)
  BY <1>1, <1>6 DEF BeginQuoteReject
<1>. QED BY <1>2, <1>3, <1>4, <1>5, <1>6 DEF StartDesk

\* The statements a desk call goes on from.
DeskGoesTo(d, at) ==
  LET q == desk[d].quote IN
  \/ SelectClaim(d) /\ desk[d].at = "claim" /\ quote[q].status = "RATED" /\ at = "order"
  \/ \E o \in Orders : LegacyOrder(d, o) /\ desk[d].at = "order" /\ at = "pickup"
  \/ LegacyPickup(d) /\ desk[d].at = "pickup" /\ pickup[q] = NoPickup /\ at = "link"
  \/ QuoteReject(d) /\ desk[d].at = "reject" /\ at = "look"
  \/ RejectLook(d) /\ desk[d].at = "look" /\ IsOpen(request[q]) /\ at = "cancel"

\* A desk call that runs ends, or goes on as it is to its next statement.
LEMMA DeskRuns ==
  ASSUME QTyped, NEW d \in Desk, RunDesk(d) \/ DeskDie(d)
  PROVE  /\ \A e \in Desk \ {d} : desk'[e] = desk[e]
         /\ \/ desk'[d] = DeskIdle
            \/ /\ desk'[d].quote = desk[d].quote /\ desk'[d].op = desk[d].op
               /\ desk'[d].at = "pickup" \/ desk'[d].order = desk[d].order
               /\ DeskGoesTo(d, desk'[d].at)
<1>. USE DEF QTyped, QTypeOK
<1>0. desk[d] \in DeskRow
  OBVIOUS
<1>1. ASSUME DeskEnd(d)
      PROVE  desk'[d] = DeskIdle /\ \A e \in Desk \ {d} : desk'[e] = desk[e]
  BY <1>1 DEF DeskEnd
<1>2. ASSUME NEW at, DeskGo(d, at)
      PROVE  /\ \A e \in Desk \ {d} : desk'[e] = desk[e]
             /\ desk'[d].at = at /\ desk'[d].quote = desk[d].quote /\ desk'[d].op = desk[d].op
             /\ desk'[d].order = desk[d].order
  BY <1>0, <1>2 DEF DeskGo, DeskRow
<1>3. CASE SelectClaim(d)
  BY <1>1, <1>2, <1>3 DEF SelectClaim, DeskAt, DeskGoesTo
<1>4. ASSUME NEW o \in Orders, LegacyOrder(d, o)
      PROVE  /\ \A e \in Desk \ {d} : desk'[e] = desk[e]
             /\ desk'[d].at = "pickup" /\ desk'[d].quote = desk[d].quote
             /\ desk'[d].op = desk[d].op /\ desk[d].at = "order"
  BY <1>0, <1>4 DEF LegacyOrder, DeskAt, DeskRow
<1>5. CASE LegacyPickup(d)
  BY <1>1, <1>2, <1>5 DEF LegacyPickup, DeskAt, DeskGoesTo
<1>6. CASE LegacyLink(d) \/ SetManualQuote(d) \/ RejectCancel(d) \/ UpdateStatus(d) \/ DeskDie(d)
  BY <1>1, <1>6 DEF LegacyLink, SetManualQuote, RejectCancel, UpdateStatus, DeskDie
<1>7. CASE QuoteReject(d)
  BY <1>2, <1>7 DEF QuoteReject, DeskAt, DeskGoesTo
<1>8. CASE RejectLook(d)
  BY <1>1, <1>2, <1>8 DEF RejectLook, DeskAt, DeskGoesTo
<1>9. CASE \E o \in Orders : LegacyOrder(d, o)
  BY <1>4, <1>9 DEF DeskGoesTo
<1>. QED BY <1>3, <1>5, <1>6, <1>7, <1>8, <1>9 DEF RunDesk

\* A step leaves a desk call, begins it, or runs it.
LEMMA DeskCalls ==
  ASSUME QTyped, [QNext]_qvars, NEW d \in Desk
  PROVE  \/ desk'[d] = desk[d]
         \/ \E q \in Quotes : StartDesk(d, q)
         \/ RunDesk(d) \/ DeskDie(d)
<1>1. ASSUME NEW e \in Desk, NEW q \in Quotes, StartDesk(e, q), e # d PROVE desk'[d] = desk[d]
  BY <1>1, DeskStarts
<1>2. ASSUME NEW e \in Desk, RunDesk(e) \/ DeskDie(e), e # d PROVE desk'[d] = desk[d]
  BY <1>2, DeskRuns
<1>. QED BY <1>1, <1>2 DEF QNext, qvars, Door, SelectOption, AcceptQuote, ToPending,
                           DeclineQuote, OptionsExpire

-----------------------------------------------------------------------------
(* Rejections *)

\* A rejection that ends alive left no request open: it saw none, or it cancelled it.
THEOREM RejectionsClose == QSpec => RejectionClosesRequest
<1>1. ASSUME QTyped, [QNext]_qvars, NEW d \in Desk,
             sound, desk[d].op = "reject", desk'[d] = DeskIdle
      PROVE  ~IsOpen(request'[desk[d].quote])
  <2>. DEFINE q == desk[d].quote
  <2>1. desk[d] # DeskIdle /\ DeskOK(desk[d]) /\ ~DeskDie(d)
    BY <1>1, DeskIdleOK DEF QTyped, DeskDie
  <2>2. desk[d].at \in {"reject", "look", "cancel"} /\ q \in Quotes
    BY <1>1, <2>1 DEF DeskOK
  <2>3. RunDesk(d)
    BY <1>1, <2>1, DeskCalls, DeskStarts
  <2>4. CASE QuoteReject(d)
    <3>1. desk'[d].at = "look"
      BY <1>1, <2>4 DEF QuoteReject, DeskGo, QTyped, QTypeOK, DeskRow
    <3>. QED BY <1>1, <3>1, DeskIdleOK
  <2>5. CASE RejectLook(d)
    <3>1. CASE IsOpen(request[q])
      <4>1. desk'[d].at = "cancel"
        BY <1>1, <2>5, <3>1 DEF RejectLook, DeskGo, QTyped, QTypeOK, DeskRow
      <4>. QED BY <1>1, <4>1, DeskIdleOK
    <3>. QED BY <2>5, <3>1 DEF RejectLook, vars
  <2>6. CASE RejectCancel(d)
    <3>1. request[q] \in RequestRow
      BY <1>1, <2>2 DEF QTyped, QTypeOK, TypeOK
    <3>2. request'[q] = [request[q] EXCEPT !.status = "CANCELLED"]
      BY <1>1, <2>2, <2>6 DEF RejectCancel, QTyped, QTypeOK, TypeOK
    <3>. QED BY <3>1, <3>2 DEF RequestRow, IsOpen, NonTerminal
  <2>. QED BY <2>2, <2>3, <2>4, <2>5, <2>6
       DEF RunDesk, SelectClaim, LegacyOrder, LegacyPickup, LegacyLink, SetManualQuote,
           UpdateStatus, DeskAt
<1>2. QTyped /\ [QNext]_qvars
        => [\A d \in Desk :
              LET q == desk[d].quote IN
              apart /\ sound /\ desk[d].op = "reject" /\ desk'[d] = DeskIdle
                => ~IsOpen(request'[q])]_qvars
  BY <1>1
<1>. QED BY <1>2, AlwaysQTyped, PTL DEF QSpec, RejectionClosesRequest

-----------------------------------------------------------------------------
(* One order for a legacy quote and its Pickup *)

\* The statements of a selection or an acceptance of a legacy quote.
Selling == {"claim", "order", "pickup", "link"}

\* The desk sells legacy quotes only, and no pickup request ever hangs on one.
SellsLegacy ==
  \A d \in Desk :
    /\ desk[d].at \in Selling <=> desk[d].op \in {"select", "accept"}
    /\ desk[d].at \in Selling => Legacy(desk[d].quote)
    /\ desk[d].at = "cancel" => ~Legacy(desk[d].quote)

DoorNotLegacy ==
  /\ \A q \in Quotes :
       Legacy(q) => request[q] = NoRequest /\ quote[q].status # "PENDING_PICKUP_REQUEST"
  /\ \A c \in Calls : calls[c].at # "idle" => ~Legacy(calls[c].quote)

\* What is about to be linked to the quote is the order of its Pickup.
LinksItsPickup ==
  \A d \in Desk :
    desk[d].at = "link" =>
      /\ pickup[desk[d].quote] # NoPickup
      /\ pickup[desk[d].quote].order = desk[d].order

Sold == QTyped /\ SellsLegacy /\ DoorNotLegacy /\ LinksItsPickup /\ SameDeal

\* A step changes one thing at the desk's side of a Pickup: it inserts it or moves it.
LEMMA PickupWrites ==
  ASSUME QTyped, [QNext]_qvars, NEW q \in Quotes, pickup'[q] # pickup[q]
  PROVE  \/ pickup[q] = NoPickup
         \/ pickup'[q] # NoPickup /\ pickup'[q].order = pickup[q].order
<1>1. ASSUME NEW d \in Desk, LegacyPickup(d)
      PROVE  pickup[q] = NoPickup
  BY <1>1 DEF LegacyPickup, QTyped, QTypeOK
<1>2. ASSUME NEW d \in Desk, UpdateStatus(d)
      PROVE  pickup'[q] # NoPickup /\ pickup'[q].order = pickup[q].order
  <2>1. desk[d].quote \in Quotes /\ pickup[desk[d].quote] # NoPickup /\ desk[d] \in DeskRow
    BY <1>2 DEF UpdateStatus, DeskAt, QTyped, QTypeOK, DeskOK
  <2>2. desk[d].quote = q
    BY <1>2 DEF UpdateStatus, QTyped, QTypeOK
  <2>3. pickup[q] \in PickupRow /\ pickup'[q] = [pickup[q] EXCEPT !.status = desk[d].to]
    BY <1>2, <2>1, <2>2 DEF UpdateStatus, QTyped, QTypeOK
  <2>4. pickup'[q] \in PickupRow /\ pickup'[q].order = pickup[q].order
    BY <2>1, <2>3 DEF PickupRow, DeskRow
  <2>. QED BY <2>4, QuotesAssumption
<1>. QED BY <1>1, <1>2 DEF QNext, qvars, Door, SelectOption, AcceptQuote, ToPending, DeclineQuote,
       OptionsExpire, StartDesk, BeginSelectLegacy, BeginAcceptLegacy, BeginManualQuote,
       BeginQuoteReject, BeginUpdateStatus, DeskDie, RunDesk, SelectClaim, LegacyOrder,
       LegacyLink, SetManualQuote, QuoteReject, RejectLook, RejectCancel

\* Who writes a quote, and what.
LEMMA QuoteWrites ==
  ASSUME QTyped, [QNext]_qvars, NEW q \in Quotes, quote'[q] # quote[q]
  PROVE  \/ Door
         \/ /\ quote[q].status = "RATED" \/ quote[q].status = "QUOTED"
            /\ ~Legacy(q)
            /\ quote'[q].order = quote[q].order /\ quote'[q].status = "PENDING_PICKUP_REQUEST"
         \/ /\ quote[q].status = "QUOTED" /\ Clear("decline", q)
            /\ quote'[q].order = quote[q].order /\ quote'[q].status = "REJECTED"
         \/ \E d \in Desk :
              /\ desk[d].quote = q
              /\ \/ /\ SelectClaim(d) /\ desk[d].at = "claim" /\ quote[q].status = "RATED"
                    /\ quote'[q].order = quote[q].order /\ quote'[q].status = "ACCEPTED"
                 \/ /\ LegacyLink(d) /\ desk[d].at = "link"
                    /\ quote'[q] = [status |-> "ACCEPTED", order |-> desk[d].order]
                 \/ /\ SetManualQuote(d) /\ desk[d].at = "quote"
                    /\ quote'[q].order = quote[q].order /\ quote'[q].status = "QUOTED"
                 \/ /\ QuoteReject(d) /\ desk[d].at = "reject"
                    /\ quote'[q].order = quote[q].order /\ quote'[q].status = "REJECTED"
<1>1. quote[q] \in QuoteRow
  BY DEF QTyped, QTypeOK, TypeOK
<1>2. ASSUME NEW p \in Quotes \cup {NoQuote}, NEW status, SetQuote(p, status)
      PROVE  p = q /\ quote'[q].order = quote[q].order /\ quote'[q].status = status
  BY <1>1, <1>2 DEF SetQuote, QTyped, QTypeOK, TypeOK, QuoteRow
<1>3. \A d \in Desk : desk[d].quote \in Quotes \cup {NoQuote}
  BY DEF QTyped, QTypeOK, DeskRow
<1>4. CASE \E p \in Quotes : SelectOption(p) \/ AcceptQuote(p)
  <2>1. PICK p \in Quotes, op \in {"select", "accept"}, from \in {"RATED", "QUOTED"} : ToPending(p, op, from)
    BY <1>4 DEF SelectOption, AcceptQuote
  <2>. QED BY <1>2, <2>1 DEF ToPending
<1>5. CASE \E p \in Quotes : DeclineQuote(p)
  BY <1>2, <1>5 DEF DeclineQuote
<1>6. ASSUME NEW d \in Desk, SelectClaim(d)
      PROVE  /\ desk[d].at = "claim" /\ quote[desk[d].quote].status = "RATED"
             /\ SetQuote(desk[d].quote, "ACCEPTED")
  BY <1>6 DEF SelectClaim, DeskAt
<1>7. ASSUME NEW d \in Desk, LegacyLink(d)
      PROVE  /\ desk[d].quote = q /\ desk[d].at = "link"
             /\ quote'[q] = [status |-> "ACCEPTED", order |-> desk[d].order]
  BY <1>7 DEF LegacyLink, DeskAt, QTyped, QTypeOK, TypeOK
<1>8. CASE \E d \in Desk : SelectClaim(d)
  BY <1>2, <1>3, <1>6, <1>8
<1>9. CASE \E d \in Desk : LegacyLink(d)
  BY <1>7, <1>9
<1>10. CASE \E d \in Desk : SetManualQuote(d)
  BY <1>2, <1>3, <1>10 DEF SetManualQuote, DeskAt
<1>11. CASE \E d \in Desk : QuoteReject(d)
  BY <1>2, <1>3, <1>11 DEF QuoteReject, DeskAt
<1>. QED BY <1>4, <1>5, <1>8, <1>9, <1>10, <1>11 DEF QNext, qvars, vars, OptionsExpire,
       StartDesk, BeginSelectLegacy, BeginAcceptLegacy, BeginManualQuote,
       BeginQuoteReject, BeginUpdateStatus, DeskDie, RunDesk, LegacyOrder, LegacyPickup,
       RejectLook, RejectCancel, UpdateStatus

LEMMA RegimeFixed == [QNext]_qvars => UNCHANGED regime
BY DEF QNext, qvars, Door, SelectOption, AcceptQuote, ToPending, DeclineQuote, OptionsExpire,
       StartDesk, BeginSelectLegacy, BeginAcceptLegacy, BeginManualQuote,
       BeginQuoteReject, BeginUpdateStatus, DeskDie, RunDesk, SelectClaim, LegacyOrder,
       LegacyPickup, LegacyLink, SetManualQuote, QuoteReject, RejectLook, RejectCancel, UpdateStatus

\* Who writes a request.
LEMMA RequestWrites ==
  ASSUME QTyped, [QNext]_qvars, NEW q \in Quotes, request'[q] # request[q]
  PROVE  \/ Door
         \/ \E d \in Desk : /\ RejectCancel(d) /\ desk[d].quote = q /\ desk[d].at = "cancel"
                             /\ ~IsOpen(request'[q]) /\ request'[q].status # "NONE"
<1>1. ASSUME NEW d \in Desk, RejectCancel(d)
      PROVE  /\ desk[d].quote = q /\ desk[d].at = "cancel"
             /\ ~IsOpen(request'[q]) /\ request'[q].status # "NONE"
  <2>1. request[q] \in RequestRow /\ desk[d].quote = q /\ desk[d].at = "cancel"
    BY <1>1 DEF RejectCancel, DeskAt, QTyped, QTypeOK, TypeOK
  <2>2. request'[q] = [request[q] EXCEPT !.status = "CANCELLED"]
    BY <1>1, <2>1 DEF RejectCancel, QTyped, QTypeOK, TypeOK
  <2>. QED BY <2>1, <2>2 DEF RequestRow, IsOpen, NonTerminal
<1>. QED BY <1>1 DEF QNext, qvars, vars, SelectOption, AcceptQuote, ToPending,
       DeclineQuote, OptionsExpire, StartDesk, BeginSelectLegacy, BeginAcceptLegacy,
       BeginManualQuote, BeginQuoteReject, BeginUpdateStatus, DeskDie, RunDesk, SelectClaim,
       LegacyOrder, LegacyPickup, LegacyLink, SetManualQuote, QuoteReject, RejectLook,
       UpdateStatus

\* Only the door moves its calls.
LEMMA CallsMoveAtDoor == [QNext]_qvars => Door \/ UNCHANGED calls
BY DEF QNext, qvars, vars, SelectOption, AcceptQuote, ToPending, DeclineQuote, OptionsExpire,
       StartDesk, BeginSelectLegacy, BeginAcceptLegacy, BeginManualQuote,
       BeginQuoteReject, BeginUpdateStatus, DeskDie, RunDesk, SelectClaim, LegacyOrder,
       LegacyPickup, LegacyLink, SetManualQuote, QuoteReject, RejectLook, RejectCancel, UpdateStatus

LEMMA SoldStep == Sold /\ [QNext]_qvars => Sold'
<1>. SUFFICES ASSUME Sold, [QNext]_qvars PROVE Sold'
  OBVIOUS
<1>0. QTyped /\ QTyped' /\ Typed
  BY QTypedStep DEF Sold, QTyped
<1>1. \A q \in Quotes : Legacy(q)' <=> Legacy(q)
  BY RegimeFixed DEF regime, Legacy
<1>2. ~IsOpen(NoRequest)
  BY NoRequestType DEF IsOpen, NonTerminal
<1>3. SellsLegacy'
  <2>. SUFFICES ASSUME NEW d \in Desk
                PROVE  /\ desk'[d].at \in Selling <=> desk'[d].op \in {"select", "accept"}
                       /\ desk'[d].at \in Selling => Legacy(desk'[d].quote)
                       /\ desk'[d].at = "cancel" => ~Legacy(desk'[d].quote)
    <3>1. \A q \in Quotes \cup {NoQuote} : Legacy(q)' <=> Legacy(q)
      BY RegimeFixed DEF regime, Legacy
    <3>2. \A d \in Desk : desk'[d].quote \in Quotes \cup {NoQuote}
      BY <1>0 DEF QTyped, QTypeOK, DeskRow
    <3>. QED BY <3>1, <3>2 DEF SellsLegacy
  <2>1. /\ desk[d].at \in Selling <=> desk[d].op \in {"select", "accept"}
        /\ desk[d].at \in Selling => Legacy(desk[d].quote)
        /\ desk[d].at = "cancel" => ~Legacy(desk[d].quote)
    BY DEF Sold, SellsLegacy
  <2>2. CASE desk'[d] = desk[d]
    BY <2>1, <2>2
  <2>3. CASE \E q \in Quotes : StartDesk(d, q)
    BY <1>0, <2>3, DeskStarts DEF Selling
  <2>4. CASE desk'[d] = DeskIdle
    BY <2>4, DeskIdleOK DEF Selling
  <2>5. CASE /\ desk'[d].quote = desk[d].quote /\ desk'[d].op = desk[d].op
             /\ DeskGoesTo(d, desk'[d].at)
    <3>1. IsOpen(request[desk[d].quote]) /\ desk[d].at = "look" => ~Legacy(desk[d].quote)
      BY <1>0, <1>2, DeskTypes DEF Sold, DoorNotLegacy
    <3>. QED BY <2>1, <2>5, <3>1 DEF DeskGoesTo, Selling
  <2>. QED BY <1>0, <2>2, <2>3, <2>4, <2>5, DeskCalls, DeskRuns
<1>4. ASSUME NEW q \in Quotes, Legacy(q), Door
      PROVE  quote'[q] = quote[q] /\ request'[q] = request[q]
  <2>1. ~\E c \in Calls : RunCall(c) /\ calls[c].quote = q
    BY <1>0, <1>4, RunWrites DEF Sold, DoorNotLegacy
  <2>. QED BY <1>0, <1>4, <2>1, DoorWrites DEF Sold, DoorNotLegacy
<1>5. ASSUME NEW q \in Quotes, Legacy(q)
      PROVE  request'[q] = NoRequest /\ quote'[q].status # "PENDING_PICKUP_REQUEST"
  <2>1. request[q] = NoRequest /\ quote[q].status # "PENDING_PICKUP_REQUEST"
    BY <1>5 DEF Sold, DoorNotLegacy
  <2>2. \A d \in Desk : desk[d].quote = q => desk[d].at # "cancel"
    BY <1>5 DEF Sold, SellsLegacy
  <2>3. request'[q] = NoRequest
    BY <1>0, <1>4, <1>5, <2>1, <2>2, RequestWrites
  <2>4. CASE quote'[q] # quote[q]
    <3>1. ~Door
      BY <1>4, <1>5, <2>4
    <3>2. quote'[q].status \in {"ACCEPTED", "QUOTED", "REJECTED"}
      <4>1. CASE \E d \in Desk : quote'[q] = [status |-> "ACCEPTED", order |-> desk[d].order]
        BY <4>1
      <4>. QED BY <1>0, <1>5, <2>4, <3>1, <4>1, QuoteWrites
    <3>. QED BY <2>3, <3>2
  <2>. QED BY <2>1, <2>3, <2>4
<1>6. ASSUME NEW c \in Calls, calls'[c].at # "idle" PROVE ~Legacy(calls'[c].quote)
  <2>1. CASE UNCHANGED calls
    BY <1>6, <2>1 DEF Sold, DoorNotLegacy
  <2>2. CASE Door
    <3>1. CASE calls[c].at # "idle" /\ calls'[c].quote = calls[c].quote
      BY <3>1 DEF Sold, DoorNotLegacy
    <3>2. CASE \E q \in Quotes : StartCall(c, q)
      BY <1>0, <3>2, StartChecks, StartsOnRequest DEF Sold, DoorNotLegacy
    <3>. QED BY <1>0, <1>6, <2>2, <3>1, <3>2, DoorIsNext, SameCall
  <2>. QED BY <2>1, <2>2, CallsMoveAtDoor
<1>7. DoorNotLegacy'
  <2>1. \A c \in Calls : calls'[c].at # "idle" => calls'[c].quote \in Quotes
    BY <1>0 DEF QTyped, Typed, CallOK
  <2>. QED BY <1>1, <1>5, <1>6, <2>1 DEF DoorNotLegacy
<1>8. LinksItsPickup'
  <2>. SUFFICES ASSUME NEW d \in Desk, desk'[d].at = "link"
                PROVE  /\ pickup'[desk'[d].quote] # NoPickup
                       /\ pickup'[desk'[d].quote].order = desk'[d].order
    BY DEF LinksItsPickup
  <2>1. CASE desk'[d] = desk[d]
    <3>1. /\ desk[d].quote \in Quotes /\ pickup[desk[d].quote] # NoPickup
          /\ pickup[desk[d].quote].order = desk[d].order
      BY <1>0, <2>1, DeskTypes DEF Sold, LinksItsPickup
    <3>. QED BY <1>0, <2>1, <3>1, PickupWrites
  <2>2. CASE RunDesk(d) \/ DeskDie(d)
    <3>1. /\ LegacyPickup(d) /\ desk[d].at = "pickup" /\ pickup[desk[d].quote] = NoPickup
          /\ desk'[d].quote = desk[d].quote /\ desk'[d].order = desk[d].order
      BY <1>0, <2>2, DeskRuns, DeskIdleOK DEF DeskGoesTo
    <3>2. desk[d].quote \in Quotes /\ desk[d].order \in Orders
      BY <1>0, <3>1, DeskTypes DEF DeskOK
    <3>3. pickup'[desk[d].quote] = [status |-> "SCHEDULED", order |-> desk[d].order]
      BY <1>0, <3>1, <3>2 DEF LegacyPickup, QTyped, QTypeOK
    <3>4. pickup'[desk[d].quote] \in PickupRow
      BY <3>2, <3>3 DEF PickupRow, PickupStatuses
    <3>. QED BY <3>1, <3>3, <3>4, QuotesAssumption
  <2>. QED BY <1>0, <2>1, <2>2, DeskCalls, DeskStarts
<1>9. SameDeal'
  <2>. SUFFICES ASSUME NEW q \in Quotes, Legacy(q), quote'[q].order # NoOrder
                PROVE  pickup'[q] # NoPickup /\ pickup'[q].order = quote'[q].order
    BY <1>1 DEF SameDeal
  <2>1. CASE quote'[q].order = quote[q].order
    BY <1>0, <2>1, PickupWrites DEF Sold, SameDeal
  <2>2. CASE \E d \in Desk :
               /\ desk[d].quote = q /\ desk[d].at = "link" /\ LegacyLink(d)
               /\ quote'[q] = [status |-> "ACCEPTED", order |-> desk[d].order]
    BY <2>2 DEF LegacyLink, Sold, LinksItsPickup
  <2>. QED BY <1>0, <1>4, <2>1, <2>2, QuoteWrites
<1>. QED BY <1>0, <1>3, <1>7, <1>8, <1>9 DEF Sold

\* However legacy acceptances and selections overlap and die, a quote and its Pickup
\* never point to different orders.
THEOREM OneDeal == QSpec => []SameDeal
<1>1. QInit => Sold
  <2>. SUFFICES ASSUME QInit PROVE Sold
    OBVIOUS
  <2>1. \A d \in Desk : desk[d].at = "idle" /\ desk[d].op = "none"
    BY DeskIdleOK DEF QInit
  <2>2. \A c \in Calls : calls[c].at = "idle"
    BY DEF QInit, Init, Idle
  <2>3. \A q \in Quotes : quote[q].order = NoOrder
    BY DEF QInit, Init
  <2>. QED BY <2>1, <2>2, <2>3, QTypedInit
       DEF QInit, Init, Sold, SellsLegacy, Selling, DoorNotLegacy, LinksItsPickup, SameDeal
<1>. QED BY <1>1, SoldStep, PTL DEF QSpec, Sold

-----------------------------------------------------------------------------
(* A deal is final *)

\* Calls at the door that write the quote or open its request, acceptances aside.
Deciding == {"assign", "arrive", "verify", "reject"}

\* None of them is in flight on a booking while it is accepted.
AcceptsApart ==
  \A overlap \in Regimes, op \in Deciding :
    <<op, "accept">> \notin overlap /\ <<"accept", op>> \notin overlap

\* On one quote only selections overlap other calls, if the regime says so.
ApartFromDoor ==
  apart => \A d \in Desk, c \in Calls :
             desk[d].at # "idle" /\ calls[c].at # "idle" => desk[d].quote # calls[c].quote

ApartAtDesk ==
  apart => \A d, e \in Desk :
             d # e /\ desk[d].at # "idle" /\ desk[e].at # "idle" /\ desk[d].quote = desk[e].quote
               => desk[d].op = "select" /\ desk[e].op = "select"

DecidesApart ==
  \A c, d \in Calls :
    calls[c].at \in Deciding /\ calls[d].at \in AcceptSteps => calls[c].quote # calls[d].quote

\* Of the acceptances of a booking one is past its claim, and the request stays closed.
ClaimAlone ==
  /\ \A c \in Calls : calls[c].at \in Placing =>
       request[calls[c].quote].status # "NONE" /\ ~IsOpen(request[calls[c].quote])
  /\ \A c, d \in Calls :
       calls[c].at \in Placing /\ calls[d].at \in Placing /\ calls[c].quote = calls[d].quote
         => c = d

\* Nobody decides over an accepted quote.
Undecided ==
  /\ apart => \A d \in Desk : desk[d].at \in {"quote", "reject"}
                               => quote[desk[d].quote].status # "ACCEPTED"
  /\ \A c \in Calls : calls[c].at \in Deciding \cup Placing
                        => quote[calls[c].quote].status # "ACCEPTED"
  /\ \A q \in Quotes : quote[q].status = "ACCEPTED" => ~IsOpen(request[q])

Final == Sold /\ ApartFromDoor /\ ApartAtDesk /\ DecidesApart /\ ClaimAlone /\ Undecided

\* A step at the door leaves a call, begins it apart from the desk, or runs it.
LEMMA DoorCalls ==
  ASSUME QTyped, Door, NEW c \in Calls
  PROVE  \/ calls'[c] = calls[c]
         \/ calls'[c] = Idle
         \/ \E q \in Quotes : StartCall(c, q) /\ (apart => DeskOn(q) = {})
         \/ RunCall(c)
<1>. USE DEF QTyped
<1>1. CASE \E q \in Quotes : DoorStart(q)
  <2>1. PICK q \in Quotes : DoorStart(q)
    BY <1>1
  <2>2. CASE \E d \in Calls : StartCall(d, q)
    <3>1. PICK d \in Calls : StartCall(d, q)
      BY <2>2
    <3>. QED BY <2>1, <3>1, StartMoves DEF DoorStart
  <2>3. CASE Create(q) \/ CommitBooking(q) \/ \E p \in Partners : Claim(q, p)
    BY <2>3 DEF Create, CommitBooking, Book, Claim
  <2>. QED BY <2>1, <2>2, <2>3 DEF DoorStart
<1>2. CASE \E d \in Calls : RunCall(d)
  BY <1>2, RunMoves
<1>3. CASE \E d \in Calls : Die(d)
  BY <1>3 DEF Die, End, Typed, TypeOK
<1>. QED BY <1>1, <1>2, <1>3 DEF Door

\* A call in flight was in flight before on the same booking, or begins.
LEMMA SameDoorCall ==
  ASSUME QTyped, [QNext]_qvars, NEW c \in Calls, calls'[c].at # "idle"
  PROVE  \/ calls[c].at # "idle" /\ calls'[c].quote = calls[c].quote
         \/ \E q \in Quotes : Door /\ StartCall(c, q) /\ (apart => DeskOn(q) = {})
<1>1. Idle.at = "idle"
  BY DEF Idle
<1>2. CASE UNCHANGED calls
  BY <1>2
<1>3. CASE Door
  BY <1>1, <1>3, DoorCalls, RunMoves, RunWrites DEF QTyped
<1>. QED BY <1>2, <1>3, CallsMoveAtDoor

LEMMA SameDeskCall ==
  ASSUME QTyped, [QNext]_qvars, NEW d \in Desk, desk'[d].at # "idle"
  PROVE  \/ desk[d].at # "idle" /\ desk'[d].quote = desk[d].quote /\ desk'[d].op = desk[d].op
         \/ \E q \in Quotes : StartDesk(d, q)
<1>1. CASE RunDesk(d) \/ DeskDie(d)
  BY <1>1, DeskRuns, DeskIdleOK DEF DeskGoesTo
<1>. QED BY <1>1, DeskCalls

LEMMA DeskApartStep ==
  ASSUME QTyped, ApartFromDoor, ApartAtDesk, [QNext]_qvars
  PROVE  ApartFromDoor' /\ ApartAtDesk'
<1>0. apart' = apart
  BY RegimeFixed DEF regime
<1>1. ASSUME apart, NEW d \in Desk, NEW c \in Calls, desk'[d].at # "idle", calls'[c].at # "idle"
      PROVE  desk'[d].quote # calls'[c].quote
  <2>1. CASE \E q \in Quotes : StartDesk(d, q)
    <3>1. PICK q \in Quotes : StartDesk(d, q)
      BY <2>1
    <3>2. desk'[d].quote = q /\ ~BusyAtDoor(q) /\ calls' = calls
      BY <1>1, <3>1, DeskStarts DEF Clear, vars
    <3>. QED BY <1>1, <3>2 DEF BusyAtDoor, On
  <2>2. CASE desk[d].at # "idle" /\ desk'[d].quote = desk[d].quote
    <3>1. CASE calls[c].at # "idle" /\ calls'[c].quote = calls[c].quote
      BY <1>1, <2>2, <3>1 DEF ApartFromDoor
    <3>2. CASE \E q \in Quotes : StartCall(c, q) /\ DeskOn(q) = {}
      <4>1. PICK q \in Quotes : StartCall(c, q) /\ DeskOn(q) = {}
        BY <3>2
      <4>2. calls'[c].quote = q
        BY <4>1, StartChecks DEF QTyped
      <4>. QED BY <2>2, <4>1, <4>2 DEF DeskOn
    <3>. QED BY <1>1, <3>1, <3>2, SameDoorCall
  <2>. QED BY <1>1, <2>1, <2>2, SameDeskCall
<1>2. ASSUME apart, NEW d \in Desk, NEW e \in Desk, NEW q \in Quotes, StartDesk(d, q),
             d # e, desk'[e].at # "idle", desk'[e].quote = q
      PROVE  desk'[d].op = "select" /\ desk'[e].op = "select"
  BY <1>2, DeskStarts DEF Clear, DeskOn
<1>3. ASSUME apart, NEW d \in Desk, NEW e \in Desk, d # e,
             desk'[d].at # "idle", desk'[e].at # "idle", desk'[d].quote = desk'[e].quote
      PROVE  desk'[d].op = "select" /\ desk'[e].op = "select"
  <2>1. CASE \E q \in Quotes : StartDesk(d, q)
    BY <1>2, <1>3, <2>1, DeskStarts
  <2>2. CASE \E q \in Quotes : StartDesk(e, q)
    BY <1>2, <1>3, <2>2, DeskStarts
  <2>3. CASE /\ desk[d].at # "idle" /\ desk'[d].quote = desk[d].quote /\ desk'[d].op = desk[d].op
             /\ desk[e].at # "idle" /\ desk'[e].quote = desk[e].quote /\ desk'[e].op = desk[e].op
    BY <1>3, <2>3 DEF ApartAtDesk
  <2>. QED BY <1>3, <2>1, <2>2, <2>3, SameDeskCall
<1>. QED BY <1>0, <1>1, <1>3 DEF ApartFromDoor, ApartAtDesk

LEMMA DecidesApartStep ==
  ASSUME AcceptsApart, QTyped, DecidesApart, [QNext]_qvars
  PROVE  DecidesApart'
<1>0. Typed /\ Idle.at = "idle"
  BY DEF QTyped, Idle
<1>1. CASE UNCHANGED calls
  BY <1>1 DEF DecidesApart
<1>2. CASE Door
  <2>0. [Next]_vars
    BY <1>2, DoorIsNext
  <2>. SUFFICES ASSUME NEW c \in Calls, NEW d \in Calls,
                       calls'[c].at \in Deciding, calls'[d].at \in AcceptSteps,
                       calls'[c].quote = calls'[d].quote
                PROVE  FALSE
    BY DEF DecidesApart
  <2>1. /\ c # d /\ calls'[c].at # "idle" /\ calls'[d].at # "idle"
        /\ OpOf(calls'[c]) = calls'[c].at /\ OpOf(calls'[d]) = "accept"
    BY DEF Deciding, AcceptSteps, OpOf
  <2>2. ASSUME NEW q \in Quotes, StartCall(c, q) PROVE FALSE
    <3>1. CanStart(calls'[c].at, q) /\ calls'[c].quote = q /\ calls'[d] = calls[d]
      BY <1>0, <2>1, <2>2, StartChecks, StartMoves
    <3>2. <<calls'[c].at, "accept">> \in mayOverlap
      BY <2>1, <3>1 DEF CanStart, On
    <3>. QED BY <1>0, <3>2 DEF AcceptsApart, Typed, TypeOK
  <2>3. ASSUME NEW q \in Quotes, StartCall(d, q) PROVE FALSE
    <3>1. CanStart("accept", q) /\ calls'[d].quote = q /\ calls'[c] = calls[c]
      BY <1>0, <2>1, <2>3, StartChecks, StartMoves
    <3>2. <<"accept", calls'[c].at>> \in mayOverlap
      BY <2>1, <3>1 DEF CanStart, On
    <3>. QED BY <1>0, <3>2 DEF AcceptsApart, Typed, TypeOK
  <2>4. CASE /\ calls'[c].quote = calls[c].quote /\ OpOf(calls'[c]) = OpOf(calls[c])
             /\ calls'[d].quote = calls[d].quote /\ OpOf(calls'[d]) = OpOf(calls[d])
    <3>1. calls[c].at \in Deciding
      BY <2>1, <2>4 DEF OpOf, AcceptSteps, Deciding
    <3>2. calls[d].at \in AcceptSteps
      <4>1. calls[d].at # "accept"
        BY <1>0 DEF Typed, TypeOK, CallRow, Statements
      <4>. QED BY <2>1, <2>4, <4>1 DEF OpOf
    <3>. QED BY <2>4, <3>1, <3>2 DEF DecidesApart
  <2>. QED BY <1>0, <2>0, <2>1, <2>2, <2>3, <2>4, SameCall
<1>. QED BY <1>1, <1>2, CallsMoveAtDoor

\* A closed request stays closed if nobody at the door is about to open it.
LEMMA StaysClosed ==
  ASSUME QTyped, [QNext]_qvars, NEW q \in Quotes,
         request[q].status # "NONE", ~IsOpen(request[q]),
         \A c \in Calls : calls[c].quote = q => calls[c].at \notin {"assign", "arrive", "verify"}
  PROVE  request'[q].status # "NONE" /\ ~IsOpen(request'[q])
<1>0. Typed
  BY DEF QTyped
<1>1. CASE Door
  <2>1. CASE \E c \in Calls : RunCall(c) /\ calls[c].quote = q
    <3>1. PICK c \in Calls : RunCall(c) /\ calls[c].quote = q
      BY <2>1
    <3>2. calls[c].at \notin {"assign", "arrive", "verify"}
      BY <3>1
    <3>. QED BY <1>0, <3>1, <3>2, RunWrites
  <2>. QED BY <1>1, <2>1, DoorWrites
<1>. QED BY <1>1, RequestWrites

\* A call past its claim was past it, or wins it.
LEMMA PastItsClaim ==
  ASSUME QTyped, [QNext]_qvars, NEW c \in Calls, calls'[c].at \in Placing
  PROVE  /\ calls'[c].quote = calls[c].quote
         /\ calls[c].quote \in Quotes
         /\ \/ calls[c].at \in Placing
            \/ RunCall(c) /\ AcceptClaim(c) /\ IsOpen(request[calls[c].quote])
<1>0. Typed /\ Typed' /\ calls'[c].at # "idle" /\ Idle.at = "idle"
  BY QTypedStep DEF QTyped, Placing, Idle
<1>1. CASE calls'[c] = calls[c]
  BY <1>0, <1>1 DEF Typed, CallOK
<1>2. CASE RunCall(c)
  BY <1>0, <1>2, RunMoves, RunWrites DEF Placing
<1>3. ~\E q \in Quotes : StartCall(c, q)
  BY <1>0, StartChecks DEF Placing
<1>4. CASE UNCHANGED calls
  BY <1>1, <1>4
<1>5. CASE Door
  <2>1. calls'[c] # Idle
    BY <1>0
  <2>. QED BY <1>1, <1>2, <1>3, <1>5, <2>1, DoorCalls
<1>. QED BY <1>4, <1>5, CallsMoveAtDoor

LEMMA ClaimAloneStep ==
  ASSUME QTyped, DecidesApart, ClaimAlone, [QNext]_qvars
  PROVE  ClaimAlone'
<1>0. Typed
  BY DEF QTyped
<1>1. ASSUME NEW c \in Calls, calls'[c].at \in Placing
      PROVE  request'[calls'[c].quote].status # "NONE" /\ ~IsOpen(request'[calls'[c].quote])
  <2>. DEFINE q == calls[c].quote
  <2>1. calls'[c].quote = q /\ q \in Quotes
    BY <1>1, PastItsClaim
  <2>2. CASE calls[c].at \in Placing
    <3>1. request[q].status # "NONE" /\ ~IsOpen(request[q])
      BY <2>2 DEF ClaimAlone
    <3>2. \A d \in Calls : calls[d].quote = q => calls[d].at \notin {"assign", "arrive", "verify"}
      BY <2>2 DEF DecidesApart, Deciding, Placing, AcceptSteps
    <3>. QED BY <2>1, <3>1, <3>2, StaysClosed
  <2>3. CASE AcceptClaim(c) /\ IsOpen(request[q])
    <3>1. request'[q] = Completed(request[q]) /\ request[q] \in RequestRow
      BY <1>0, <2>1, <2>3 DEF AcceptClaim, Typed, TypeOK
    <3>2. request'[q].status = "COMPLETED"
      BY <3>1, WriteStatus
    <3>. QED BY <2>1, <3>2 DEF IsOpen, NonTerminal
  <2>. QED BY <1>1, <2>2, <2>3, PastItsClaim
<1>2. ASSUME NEW c \in Calls, NEW d \in Calls, c # d, calls[c].at \notin Placing,
             calls'[c].at \in Placing, calls'[d].at \in Placing, calls'[c].quote = calls'[d].quote
      PROVE  FALSE
  <2>1. RunCall(c) /\ IsOpen(request[calls[c].quote])
    BY <1>2, PastItsClaim
  <2>2. calls'[d] = calls[d]
    BY <1>0, <1>2, <2>1, RunMoves
  <2>3. ~IsOpen(request[calls[d].quote])
    BY <1>2, <2>2 DEF ClaimAlone
  <2>. QED BY <1>2, <2>1, <2>2, <2>3, PastItsClaim
<1>3. ASSUME NEW c \in Calls, NEW d \in Calls, c # d,
             calls'[c].at \in Placing, calls'[d].at \in Placing, calls'[c].quote = calls'[d].quote
      PROVE  FALSE
  <2>1. CASE calls[c].at \in Placing /\ calls[d].at \in Placing
    BY <1>3, <2>1, PastItsClaim DEF ClaimAlone
  <2>. QED BY <1>2, <1>3, <2>1
<1>. QED BY <1>1, <1>3 DEF ClaimAlone

\* How a quote becomes accepted: a commit at the door, or a sale at the desk.
LEMMA BecomesAccepted ==
  ASSUME Sold, [QNext]_qvars, NEW q \in Quotes,
         quote[q].status # "ACCEPTED", quote'[q].status = "ACCEPTED"
  PROVE  \/ \E c \in Calls : /\ RunCall(c) /\ calls[c].quote = q /\ calls[c].at = "accept commit"
                             /\ ~IsOpen(request'[q])
         \/ /\ Legacy(q) /\ request'[q] = request[q]
            /\ \E d \in Desk : /\ desk[d].quote = q /\ desk[d].at \in {"claim", "link"}
                               /\ desk[d].op \in {"select", "accept"}
<1>0. QTyped /\ Typed
  BY DEF Sold, QTyped
<1>1. CASE Door
  <2>1. PICK c \in Calls : RunCall(c) /\ calls[c].quote = q
    BY <1>0, <1>1, DoorWrites
  <2>. QED BY <1>0, <2>1, RunWrites
<1>2. CASE ~Door
  <2>0. quote'[q] # quote[q]
    OBVIOUS
  <2>1. PICK d \in Desk : /\ desk[d].quote = q /\ desk[d].at \in {"claim", "link"}
                          /\ SelectClaim(d) \/ LegacyLink(d)
    BY <1>0, <1>2, <2>0, QuoteWrites
  <2>2. Legacy(desk[d].quote) /\ desk[d].op \in {"select", "accept"}
    BY <2>1 DEF Sold, SellsLegacy, Selling
  <2>3. request' = request
    BY <2>1 DEF SelectClaim, LegacyLink
  <2>4. Legacy(q)
    BY <2>1, <2>2 DEF Legacy
  <2>. QED BY <2>1, <2>2, <2>3, <2>4
<1>. QED BY <1>1, <1>2

LEMMA UndecidedStep == Final /\ [QNext]_qvars => Undecided'
<1>. SUFFICES ASSUME Final, [QNext]_qvars PROVE Undecided'
  OBVIOUS
<1>0. QTyped /\ Typed /\ Sold /\ Sold' /\ apart' = apart
  BY SoldStep, RegimeFixed DEF Final, Sold, QTyped, regime
<1>1. ASSUME NEW q \in Quotes, quote[q].status # "ACCEPTED",
             ~\E c \in Calls : RunCall(c) /\ calls[c].quote = q,
             ~\E e \in Desk : /\ desk[e].quote = q /\ desk[e].at \in {"claim", "link"}
                            /\ desk[e].op \in {"select", "accept"}
      PROVE  quote'[q].status # "ACCEPTED"
  <2>1. SUFFICES ASSUME quote'[q].status = "ACCEPTED" PROVE FALSE
    OBVIOUS
  <2>2. ASSUME NEW c \in Calls, RunCall(c), calls[c].quote = q PROVE FALSE
    BY <1>1, <2>2
  <2>3. ASSUME NEW e \in Desk, desk[e].quote = q, desk[e].at \in {"claim", "link"},
               desk[e].op \in {"select", "accept"}
        PROVE  FALSE
    BY <1>1, <2>3
  <2>4. \/ \E c \in Calls : /\ RunCall(c) /\ calls[c].quote = q /\ calls[c].at = "accept commit"
                           /\ ~IsOpen(request'[q])
        \/ /\ Legacy(q) /\ request'[q] = request[q]
           /\ \E d \in Desk : /\ desk[d].quote = q /\ desk[d].at \in {"claim", "link"}
                              /\ desk[d].op \in {"select", "accept"}
    BY <1>0, <1>1, <2>1, BecomesAccepted
  <2>. QED BY <2>2, <2>3, <2>4
<1>2. ASSUME apart, NEW d \in Desk, desk'[d].at \in {"quote", "reject"}
      PROVE  quote'[desk'[d].quote].status # "ACCEPTED"
  <2>1. CASE \E q \in Quotes : StartDesk(d, q)
    <3>1. PICK q \in Quotes : StartDesk(d, q)
      BY <2>1
    <3>2. desk'[d].quote = q /\ quote' = quote /\ ~Decided(q)
      BY <1>0, <1>2, <3>1, DeskStarts DEF vars
    <3>. QED BY <3>2 DEF Decided
  <2>2. CASE desk'[d] = desk[d]
    <3>0. PICK q \in Quotes : q = desk[d].quote
      BY <1>0, <1>2, <2>2, DeskTypes
    <3>1. quote[q].status # "ACCEPTED" /\ desk[d].at # "idle"
      BY <1>2, <2>2, <3>0 DEF Final, Undecided
    <3>2. ~\E c \in Calls : RunCall(c) /\ calls[c].quote = q
      BY <1>0, <1>2, <3>0, <3>1, RunWrites DEF Final, ApartFromDoor
    <3>3. ~\E e \in Desk : /\ desk[e].quote = q /\ desk[e].at \in {"claim", "link"}
                           /\ desk[e].op \in {"select", "accept"}
      <4>1. desk[d].at \notin Selling /\ desk[d].op \notin {"select", "accept"}
        BY <1>0, <1>2, <2>2 DEF Sold, SellsLegacy, Selling
      <4>. QED BY <1>2, <3>0, <3>1, <4>1 DEF Final, ApartAtDesk
    <3>4. quote'[q].status # "ACCEPTED"
      BY <1>1, <3>0, <3>1, <3>2, <3>3
    <3>. QED BY <2>2, <3>0, <3>4
  <2>3. CASE RunDesk(d) \/ DeskDie(d)
    BY <1>0, <1>2, <2>3, DeskRuns, DeskIdleOK DEF DeskGoesTo
  <2>. QED BY <1>0, <2>1, <2>2, <2>3, DeskCalls
<1>3. ASSUME NEW c \in Calls, calls'[c].at \in Deciding \cup Placing
      PROVE  quote'[calls'[c].quote].status # "ACCEPTED"
  <2>0. calls'[c].at # "idle" /\ Idle.at = "idle"
    BY <1>3 DEF Deciding, Placing, Idle
  <2>1. CASE \E q \in Quotes : StartCall(c, q)
    <3>1. PICK q \in Quotes : StartCall(c, q)
      BY <2>1
    <3>2. calls'[c].quote = q /\ quote' = quote /\ IsOpen(request[q])
      BY <1>0, <1>3, <3>1, StartChecks, StartsOnRequest DEF Deciding, Placing
    <3>. QED BY <3>2 DEF Final, Undecided
  <2>2. CASE calls'[c] = calls[c]
    <3>. DEFINE q == calls[c].quote
    <3>1. q \in Quotes /\ quote[q].status # "ACCEPTED" /\ ~Legacy(q)
      BY <1>0, <1>3, <2>0, <2>2 DEF Final, Undecided, Typed, CallOK, Sold, DoorNotLegacy
    <3>2. ~\E d \in Calls : RunCall(d) /\ calls[d].quote = q /\ calls[d].at = "accept commit"
      <4>1. ASSUME NEW d \in Calls, RunCall(d), calls[d].quote = q, calls[d].at = "accept commit"
            PROVE  FALSE
        <5>1. calls[c].at \notin Deciding
          BY <4>1 DEF Final, DecidesApart, AcceptSteps
        <5>2. d = c
          BY <1>3, <2>2, <4>1, <5>1 DEF Final, ClaimAlone, Placing
        <5>3. calls'[c] = Idle
          BY <1>0, <4>1, <5>2, RunMoves
        <5>. QED BY <2>0, <5>3
      <4>. QED BY <4>1
    <3>3. quote'[q].status # "ACCEPTED"
      <4>1. ASSUME NEW b \in Quotes, ~Legacy(b), quote[b].status # "ACCEPTED",
                   quote'[b].status = "ACCEPTED"
            PROVE  \E d \in Calls : /\ RunCall(d) /\ calls[d].quote = b
                                    /\ calls[d].at = "accept commit"
        BY <1>0, <4>1, BecomesAccepted
      <4>. QED BY <3>1, <3>2, <4>1
    <3>4. calls'[c].quote = q
      BY <2>2
    <3>. QED BY <3>3, <3>4
  <2>3. CASE RunCall(c)
    <3>. DEFINE q == calls[c].quote
    <3>1. calls'[c].quote = q /\ calls[c].at \in {"accept claim", "accept order"}
      BY <1>0, <2>0, <2>3, RunMoves
    <3>2. q \in Quotes /\ quote[q].status # "ACCEPTED"
      <4>1. CASE calls[c].at = "accept order"
        BY <1>0, <2>3, <4>1, RunWrites DEF Final, Undecided, Placing
      <4>2. CASE IsOpen(request[q])
        BY <1>0, <2>3, <4>2, RunWrites DEF Final, Undecided
      <4>. QED BY <1>0, <2>0, <2>3, <4>1, <4>2, RunMoves
    <3>. QED BY <1>0, <2>3, <3>1, <3>2, RunWrites
  <2>. QED BY <1>0, <2>0, <2>1, <2>2, <2>3, CallsMoveAtDoor, DoorCalls
<1>4. ASSUME NEW q \in Quotes, quote'[q].status = "ACCEPTED" PROVE ~IsOpen(request'[q])
  <2>1. CASE quote[q].status = "ACCEPTED"
    <3>1. ~IsOpen(request[q])
      BY <2>1 DEF Final, Undecided
    <3>2. CASE Door
      <4>1. CASE \E c \in Calls : RunCall(c) /\ calls[c].quote = q
        <5>1. PICK c \in Calls : RunCall(c) /\ calls[c].quote = q
          BY <4>1
        <5>2. calls[c].at \notin {"assign", "arrive", "verify"}
          BY <2>1, <5>1 DEF Final, Undecided, Deciding
        <5>. QED BY <1>0, <3>1, <5>1, <5>2, RunWrites
      <4>. QED BY <1>0, <1>4, <2>1, <3>1, <3>2, <4>1, DoorWrites
    <3>. QED BY <1>0, <3>1, <3>2, RequestWrites
  <2>2. CASE quote[q].status # "ACCEPTED"
    <3>1. CASE Legacy(q)
      <4>1. request'[q] = NoRequest
        BY <1>0, <3>1, RegimeFixed DEF Sold, DoorNotLegacy, Legacy, regime
      <4>. QED BY <4>1, NoRequestType DEF IsOpen, NonTerminal
    <3>. QED BY <1>0, <1>4, <2>2, <3>1, BecomesAccepted
  <2>. QED BY <2>1, <2>2
<1>. QED BY <1>0, <1>2, <1>3, <1>4 DEF Undecided

LEMMA FinalInit == QInit => Final
<1>. SUFFICES ASSUME QInit PROVE Final
  OBVIOUS
<1>1. \A d \in Desk : desk[d].at = "idle" /\ desk[d].op = "none"
  BY DeskIdleOK DEF QInit
<1>2. \A c \in Calls : calls[c].at = "idle"
  BY DEF QInit, Init, Idle
<1>3. \A q \in Quotes : quote[q].order = NoOrder /\ quote[q].status # "ACCEPTED"
  BY DEF QInit, Init
<1>4. Sold
  BY <1>1, <1>2, <1>3, QTypedInit
     DEF QInit, Init, Sold, SellsLegacy, Selling, DoorNotLegacy, LinksItsPickup, SameDeal
<1>. QED BY <1>1, <1>2, <1>3, <1>4
     DEF Final, ApartFromDoor, ApartAtDesk, DecidesApart, ClaimAlone, Undecided, Deciding, Placing

LEMMA AlwaysFinal == ASSUME AcceptsApart PROVE QSpec => []Final
<1>1. AcceptsApart /\ Final /\ [QNext]_qvars => Final'
  BY SoldStep, DeskApartStep, DecidesApartStep, ClaimAloneStep, UndecidedStep DEF Final, Sold
<1>. QED BY <1>1, FinalInit, PTL DEF QSpec

\* If at the door no assignment, arrival, verification or rejection overlaps an
\* acceptance, and at the desk only selections overlap, a deal is final for any number
\* of quotes, orders and calls.  Acceptances of one booking may overlap each other.
THEOREM DealsAreFinal ==
  ASSUME AcceptsApart
  PROVE  QSpec => DealIsFinal
<1>1. ASSUME Final, [QNext]_qvars, NEW q \in Quotes,
             apart, quote[q].status = "ACCEPTED", quote[q].order # NoOrder, quote'[q] # quote[q]
      PROVE  FALSE
  <2>0. QTyped /\ Typed
    BY <1>1 DEF Final, Sold, QTyped
  <2>1. ~Door
    <3>1. ASSUME NEW c \in Calls, RunCall(c), calls[c].quote = q PROVE FALSE
      <4>1. calls[c].at \notin {"reject", "accept commit"}
        BY <1>1, <3>1 DEF Final, Undecided, Deciding, Placing
      <4>. QED BY <1>1, <2>0, <3>1, <4>1, RunWrites
    <3>. QED BY <1>1, <2>0, <3>1, DoorWrites
  <2>2. ASSUME NEW d \in Desk, desk[d].quote = q, desk[d].at = "link",
               quote'[q] = [status |-> "ACCEPTED", order |-> desk[d].order]
        PROVE  FALSE
    <3>1. pickup[q].order = desk[d].order /\ Legacy(q)
      BY <1>1, <2>2 DEF Final, Sold, LinksItsPickup, SellsLegacy, Selling
    <3>2. quote[q].order = desk[d].order
      BY <1>1, <3>1 DEF Final, Sold, SameDeal
    <3>3. quote[q] \in QuoteRow
      BY <2>0 DEF QTyped, QTypeOK, TypeOK
    <3>4. quote[q] = [status |-> "ACCEPTED", order |-> desk[d].order]
      BY <1>1, <3>2, <3>3 DEF QuoteRow
    <3>. QED BY <1>1, <2>2, <3>4
  <2>3. ~\E d \in Desk : desk[d].quote = q /\ desk[d].at \in {"quote", "reject"}
    BY <1>1 DEF Final, Undecided
  <2>. QED BY <1>1, <2>0, <2>1, <2>2, <2>3, QuoteWrites
<1>2. Final /\ [QNext]_qvars
        => [\A q \in Quotes :
              apart /\ quote[q].status = "ACCEPTED" /\ quote[q].order # NoOrder
                => quote'[q] = quote[q]]_qvars
  BY <1>1
<1>. QED BY <1>2, AlwaysFinal, PTL DEF QSpec, DealIsFinal
-----------------------------------------------------------------------------
(* One order for a quote *)

\* Every booking with a call or an order has its request.
Requested ==
  /\ \A q \in Quotes : request[q].status = "NONE" => request[q] = NoRequest
  /\ \A c \in Calls : calls[c].at # "idle" => request[calls[c].quote].status # "NONE"
  /\ \A q \in Quotes : OrdersFor(q) # {} /\ ~Legacy(q) => request[q].status # "NONE"

\* Statements that lead to an order at the door; so does a claim, of an open request.
Reaching == {"assign", "arrive", "verify", "accept order"}

\* At the door nothing leads to an order of a quote that has one.
DoorSellsOnce ==
  /\ \A q \in Quotes : OrdersFor(q) # {} /\ ~Legacy(q) => ~IsOpen(request[q])
  /\ \A c \in Calls : calls[c].at \in Reaching => OrdersFor(calls[c].quote) = {}

\* A sale at the desk that is past its claim.
Past == {"order", "pickup", "link"}

\* At the desk one sale of a quote is past its claim, and nothing leads to an order of a
\* quote that has one.
DeskSellsOnce ==
  apart /\ sound =>
    /\ \A d, e \in Desk : desk[d].at \in Past /\ desk[e].at \in Past
                            /\ desk[d].quote = desk[e].quote => d = e
    /\ \A d \in Desk :
         LET q == desk[d].quote IN
         /\ desk[d].at = "order" => OrdersFor(q) = {}
         /\ desk[d].at = "pickup" => OrdersFor(q) # {}
         /\ desk[d].at \in {"order", "pickup"} => pickup[q] = NoPickup
         /\ desk[d].at \in Past /\ desk[d].op = "select" => quote[q].status = "ACCEPTED"
    /\ \A q \in Quotes :
         /\ pickup[q] # NoPickup => OrdersFor(q) # {}
         /\ Legacy(q) /\ OrdersFor(q) # {} =>
              \/ quote[q].status = "ACCEPTED"
              \/ \E d \in Desk : /\ desk[d].quote = q /\ desk[d].op = "accept"
                                 /\ desk[d].at \in {"pickup", "link"}

Once ==
  Final /\ CommitsItsOrder /\ Requested /\ DoorSellsOnce /\ DeskSellsOnce /\ OneOrderPerQuote

\* An order stays its booking's.
LEMMA RowsStay ==
  ASSUME QTyped, CommitsItsOrder, [QNext]_qvars, NEW o \in Orders, orders[o] # NoRow
  PROVE  orders'[o] # NoRow /\ orders'[o].for = orders[o].for
<1>1. CASE Door
  <2>1. ASSUME NEW c \in Calls, AcceptCommit(c), o = calls[c].order
        PROVE  orders[o].for = calls[c].quote
    BY <2>1 DEF CommitsItsOrder, AcceptCommit
  <2>2. Typed /\ [Next]_vars
    BY <1>1, DoorIsNext DEF QTyped
  <2>. QED BY <2>1, <2>2, OrdersGrow
<1>2. ASSUME NEW d \in Desk, NEW n \in Orders, LegacyOrder(d, n) PROVE orders'[o] = orders[o]
  BY <1>2 DEF LegacyOrder, QTyped, QTypeOK, TypeOK
<1>. QED BY <1>1, <1>2 DEF QNext, qvars, vars, SelectOption, AcceptQuote, ToPending,
       DeclineQuote, OptionsExpire, StartDesk, BeginSelectLegacy, BeginAcceptLegacy,
       BeginManualQuote, BeginQuoteReject, BeginUpdateStatus, DeskDie, RunDesk, SelectClaim,
       LegacyPickup, LegacyLink, SetManualQuote, QuoteReject, RejectLook, RejectCancel,
       UpdateStatus

\* A row appears only by an acceptance at the door or a sale at the desk.
LEMMA RowsAppear ==
  ASSUME QTyped, CommitsItsOrder, [QNext]_qvars, NEW o \in Orders,
         orders[o] = NoRow, orders'[o] # NoRow
  PROVE  \/ \E c \in Calls : AcceptOrder(c, o) /\ orders'[o].for = calls[c].quote
         \/ \E d \in Desk : /\ LegacyOrder(d, o) /\ desk[d].at = "order"
                            /\ orders'[o].for = desk[d].quote
<1>1. CASE Door
  <2>1. ASSUME NEW c \in Calls, AcceptCommit(c), o = calls[c].order PROVE FALSE
    BY <2>1 DEF CommitsItsOrder, AcceptCommit
  <2>2. Typed /\ [Next]_vars
    BY <1>1, DoorIsNext DEF QTyped
  <2>. QED BY <2>1, <2>2, OrdersGrow
<1>2. ASSUME NEW d \in Desk, NEW n \in Orders, LegacyOrder(d, n)
      PROVE  LegacyOrder(d, o) /\ desk[d].at = "order" /\ orders'[o].for = desk[d].quote
  <2>1. n = o /\ desk[d].at = "order"
    BY <1>2 DEF LegacyOrder, DeskAt, QTyped, QTypeOK, TypeOK
  <2>2. desk[d].quote \in Quotes
    BY <2>1, DeskTypes
  <2>3. orders'[o] = NewOrder(desk[d].quote)
    BY <1>2, <2>1 DEF LegacyOrder, QTyped, QTypeOK, TypeOK
  <2>. QED BY <1>2, <2>1, <2>2, <2>3, NewOrderType
<1>. QED BY <1>1, <1>2 DEF QNext, qvars, vars, SelectOption, AcceptQuote, ToPending,
       DeclineQuote, OptionsExpire, StartDesk, BeginSelectLegacy, BeginAcceptLegacy,
       BeginManualQuote, BeginQuoteReject, BeginUpdateStatus, DeskDie, RunDesk, SelectClaim,
       LegacyPickup, LegacyLink, SetManualQuote, QuoteReject, RejectLook, RejectCancel,
       UpdateStatus

\* The orders of a quote stay, and grow by one that an acceptance or a sale inserts.
LEMMA OrdersOfQuote ==
  ASSUME QTyped, CommitsItsOrder, [QNext]_qvars, NEW q \in Quotes
  PROVE  /\ OrdersFor(q) \subseteq OrdersFor(q)'
         /\ \A o \in OrdersFor(q)' \ OrdersFor(q) :
              \/ \E c \in Calls : AcceptOrder(c, o) /\ calls[c].quote = q
              \/ \E d \in Desk : /\ LegacyOrder(d, o) /\ desk[d].at = "order"
                                 /\ desk[d].quote = q
BY RowsStay, RowsAppear DEF OrdersFor

LEMMA CommitsStep ==
  ASSUME QTyped, CommitsItsOrder, [QNext]_qvars PROVE CommitsItsOrder'
<1>. SUFFICES ASSUME NEW c \in Calls, calls'[c].at = "accept commit"
              PROVE  /\ orders'[calls'[c].order] # NoRow
                     /\ orders'[calls'[c].order].for = calls'[c].quote
  BY DEF CommitsItsOrder
<1>0. Typed
  BY DEF QTyped
<1>1. CASE calls'[c] = calls[c]
  <2>1. orders[calls[c].order] # NoRow /\ orders[calls[c].order].for = calls[c].quote
    BY <1>1 DEF CommitsItsOrder
  <2>2. calls[c].order \in Orders
    BY <1>0, <1>1 DEF Typed, CallOK
  <2>. QED BY <1>1, <2>1, <2>2, RowsStay
<1>2. CASE Door /\ RunCall(c)
  <2>0. calls'[c] # Idle
    <3>1. Idle.at = "idle"
      BY DEF Idle
    <3>. QED BY <3>1
  <2>1. PICK o \in Orders : AcceptOrder(c, o) /\ calls'[c].order = o
    BY <1>0, <1>2, <2>0, RunMoves
  <2>2. calls'[c].quote = calls[c].quote /\ calls[c].quote \in Quotes
    BY <1>0, <1>2, <2>0, RunMoves, RunWrites
  <2>3. orders'[o] = NewOrder(calls[c].quote)
    BY <1>0, <2>1 DEF AcceptOrder, Typed, TypeOK
  <2>. QED BY <2>1, <2>2, <2>3, NewOrderType
<1>3. CASE \E q \in Quotes : StartCall(c, q)
  BY <1>0, <1>3, StartChecks
<1>4. CASE calls'[c] = Idle
  BY <1>4 DEF Idle
<1>. QED BY <1>1, <1>2, <1>3, <1>4, CallsMoveAtDoor, DoorCalls

LEMMA RequestedStep ==
  ASSUME Sold, CommitsItsOrder, Requested, [QNext]_qvars
  PROVE  Requested' /\ \A q \in Quotes : request[q].status # "NONE" => request'[q].status # "NONE"
<1>0. QTyped /\ Typed /\ \A q \in Quotes : Legacy(q)' <=> Legacy(q)
  BY RegimeFixed DEF Sold, QTyped, regime, Legacy
<1>1. ASSUME NEW q \in Quotes, request[q].status # "NONE" PROVE request'[q].status # "NONE"
  <2>1. CASE Door
    BY <1>0, <1>1, <2>1, DoorWrites, RunWrites
  <2>. QED BY <1>0, <1>1, <2>1, RequestWrites
<1>2. ASSUME NEW q \in Quotes, request'[q].status = "NONE" PROVE request'[q] = NoRequest
  <2>1. request[q] = NoRequest /\ request[q].status = "NONE"
    BY <1>1, <1>2 DEF Requested
  <2>2. ASSUME NEW c \in Calls, RunCall(c), calls[c].quote = q PROVE FALSE
    BY <1>0, <2>1, <2>2, RunWrites DEF Requested
  <2>3. CASE Door
    BY <1>0, <1>2, <2>1, <2>2, <2>3, DoorWrites
  <2>. QED BY <1>0, <1>2, <2>1, <2>3, RequestWrites
<1>3. ASSUME NEW c \in Calls, calls'[c].at # "idle"
      PROVE  request'[calls'[c].quote].status # "NONE"
  <2>1. CASE calls[c].at # "idle" /\ calls'[c].quote = calls[c].quote
    BY <1>0, <1>1, <2>1 DEF Requested, Typed, CallOK
  <2>2. CASE \E q \in Quotes : StartCall(c, q)
    <3>1. PICK q \in Quotes : StartCall(c, q)
      BY <2>2
    <3>2. request[q].status # "NONE" /\ calls'[c].quote = q
      BY <1>0, <3>1, StartsOnRequest, StartChecks DEF Requested
    <3>. QED BY <1>1, <3>2
  <2>. QED BY <1>0, <1>3, <2>1, <2>2, SameDoorCall
<1>4. ASSUME NEW q \in Quotes, OrdersFor(q)' # {}, ~Legacy(q) PROVE request'[q].status # "NONE"
  <2>1. CASE OrdersFor(q) # {}
    BY <1>1, <1>4, <2>1 DEF Requested
  <2>2. CASE \E c \in Calls, o \in Orders : AcceptOrder(c, o) /\ calls[c].quote = q
    <3>1. request[q].status # "NONE"
      BY <2>2 DEF AcceptOrder, Requested
    <3>. QED BY <1>1, <3>1
  <2>3. ~\E d \in Desk : desk[d].at = "order" /\ desk[d].quote = q
    BY <1>4 DEF Sold, SellsLegacy, Selling
  <2>4. \A o \in OrdersFor(q)' : o \in Orders
    BY DEF OrdersFor
  <2>. QED BY <1>0, <1>4, <2>1, <2>2, <2>3, <2>4, OrdersOfQuote
<1>5. Requested'
  <2>1. \A q \in Quotes : OrdersFor(q)' # {} /\ ~Legacy(q)' => request'[q].status # "NONE"
    BY <1>0, <1>4
  <2>. QED BY <1>2, <1>3, <2>1 DEF Requested
<1>. QED BY <1>1, <1>5

\* A call at the door that is about to sell, before and after a step.
LEMMA ReachingBefore ==
  ASSUME QTyped, [QNext]_qvars, NEW c \in Calls, calls'[c].at \in Reaching
  PROVE  \/ calls'[c] = calls[c]
         \/ /\ calls'[c].quote = calls[c].quote /\ calls[c].at = "accept claim"
            /\ calls'[c].at = "accept order" /\ AcceptClaim(c) /\ IsOpen(request[calls[c].quote])
         \/ \E q \in Quotes : /\ StartCall(c, q) /\ calls'[c].quote = q
                              /\ calls'[c].at # "accept order" /\ IsOpen(request[q])
<1>0. Typed /\ Idle.at \notin Reaching
  BY DEF QTyped, Idle, Reaching
<1>1. ASSUME NEW q \in Quotes, StartCall(c, q)
      PROVE  calls'[c].quote = q /\ calls'[c].at # "accept order" /\ IsOpen(request[q])
  BY <1>0, <1>1, StartChecks, StartsOnRequest DEF Reaching
<1>2. CASE RunCall(c)
  BY <1>0, <1>2, RunMoves DEF Reaching
<1>. QED BY <1>0, <1>1, <1>2, CallsMoveAtDoor, DoorCalls

LEMMA DoorSellsStep ==
  ASSUME Once, [QNext]_qvars
  PROVE  DoorSellsOnce'
<1>0. /\ QTyped /\ Typed /\ Sold /\ CommitsItsOrder /\ Sold'
      /\ \A q \in Quotes : Legacy(q)' <=> Legacy(q)
  BY SoldStep, RegimeFixed DEF Once, Final, Sold, QTyped, regime, Legacy
<1>1. ASSUME NEW q \in Quotes, ~Legacy(q), OrdersFor(q) = {},
             ~\E c \in Calls : calls[c].at = "accept order" /\ calls[c].quote = q
      PROVE  OrdersFor(q)' = {}
  <2>1. ~\E d \in Desk : desk[d].at = "order" /\ desk[d].quote = q
    BY <1>0, <1>1 DEF Sold, SellsLegacy, Selling
  <2>2. ~\E c \in Calls, o \in Orders : AcceptOrder(c, o) /\ calls[c].quote = q
    BY <1>1 DEF AcceptOrder
  <2>3. \A o \in OrdersFor(q)' : o \in Orders
    BY DEF OrdersFor
  <2>. QED BY <1>0, <1>1, <2>1, <2>2, <2>3, OrdersOfQuote
<1>2. ASSUME NEW q \in Quotes, OrdersFor(q)' # {}, ~Legacy(q) PROVE ~IsOpen(request'[q])
  <2>1. CASE OrdersFor(q) # {}
    <3>1. ~IsOpen(request[q]) /\ request[q].status # "NONE"
      BY <1>2, <2>1 DEF Once, DoorSellsOnce, Requested
    <3>2. \A c \in Calls : calls[c].quote = q => calls[c].at \notin {"assign", "arrive", "verify"}
      BY <2>1 DEF Once, DoorSellsOnce, Reaching
    <3>. QED BY <1>0, <3>1, <3>2, StaysClosed
  <2>2. CASE OrdersFor(q) = {}
    <3>1. PICK c \in Calls : calls[c].at = "accept order" /\ calls[c].quote = q
      BY <1>1, <1>2, <2>2
    <3>2. ~IsOpen(request[q]) /\ request[q].status # "NONE"
      BY <3>1 DEF Once, Final, ClaimAlone, Placing
    <3>3. \A e \in Calls : calls[e].quote = q => calls[e].at \notin {"assign", "arrive", "verify"}
      BY <3>1 DEF Once, Final, DecidesApart, Deciding, AcceptSteps
    <3>. QED BY <1>0, <3>2, <3>3, StaysClosed
  <2>. QED BY <2>1, <2>2
<1>3. ASSUME NEW c \in Calls, NEW q \in Quotes, calls'[c].quote = q, calls'[c].at \in Reaching
      PROVE  OrdersFor(q)' = {}
  <2>0. ~Legacy(q) /\ calls'[c].at # "idle" /\ Idle.at = "idle"
    BY <1>0, <1>3 DEF Sold, DoorNotLegacy, Reaching, Idle
  <2>1. CASE \E b \in Quotes : /\ StartCall(c, b) /\ calls'[c].quote = b
                              /\ calls'[c].at # "accept order" /\ IsOpen(request[b])
    <3>1. StartCall(c, q) /\ IsOpen(request[q])
      BY <1>3, <2>1
    <3>2. OrdersFor(q) = {}
      BY <2>0, <3>1 DEF Once, DoorSellsOnce
    <3>3. orders' = orders
      BY <1>0, <3>1, StartChecks
    <3>. QED BY <3>2, <3>3 DEF OrdersFor
  <2>2. CASE calls'[c] = calls[c]
    <3>1. OrdersFor(q) = {}
      BY <1>3, <2>2 DEF Once, DoorSellsOnce
    <3>2. ASSUME NEW e \in Calls, NEW o \in Orders, AcceptOrder(e, o), calls[e].quote = q
          PROVE  FALSE
      <4>1. RunCall(e) /\ calls[e].at = "accept order"
        BY <3>2 DEF RunCall, AcceptOrder
      <4>2. calls[c].at \notin Deciding
        BY <1>3, <2>2, <3>2, <4>1 DEF Once, Final, DecidesApart, AcceptSteps
      <4>3. calls[c].at = "accept order"
        BY <1>3, <2>2, <4>2 DEF Reaching, Deciding
      <4>4. e = c
        BY <1>3, <2>2, <3>2, <4>1, <4>3 DEF Once, Final, ClaimAlone, Placing
      <4>. QED BY <1>0, <2>0, <2>2, <4>1, <4>4, RunMoves
    <3>3. ~\E d \in Desk : desk[d].at = "order" /\ desk[d].quote = q
      BY <1>0, <2>0 DEF Sold, SellsLegacy, Selling
    <3>4. \A o \in OrdersFor(q)' : o \in Orders
      BY DEF OrdersFor
    <3>. QED BY <1>0, <3>1, <3>2, <3>3, <3>4, OrdersOfQuote
  <2>3. CASE /\ calls'[c].quote = calls[c].quote /\ AcceptClaim(c)
             /\ IsOpen(request[calls[c].quote])
    <3>1. OrdersFor(q) = {} /\ orders' = orders
      BY <1>3, <2>0, <2>3 DEF Once, DoorSellsOnce, AcceptClaim
    <3>. QED BY <3>1 DEF OrdersFor
  <2>. QED BY <1>0, <1>3, <2>1, <2>2, <2>3, ReachingBefore
<1>4. \A c \in Calls : calls'[c].at \in Reaching => calls'[c].quote \in Quotes
  <2>1. \A c \in Calls : calls'[c].at # "idle" => calls'[c].quote \in Quotes
    BY <1>0 DEF Sold, QTyped, Typed, CallOK
  <2>. QED BY <2>1 DEF Reaching
<1>. QED BY <1>0, <1>2, <1>3, <1>4 DEF DoorSellsOnce, OrdersFor

\* A Pickup is inserted by a sale, for its quote.
LEMMA PickupAppears ==
  ASSUME QTyped, [QNext]_qvars, NEW q \in Quotes, pickup[q] = NoPickup, pickup'[q] # NoPickup
  PROVE  \E d \in Desk : LegacyPickup(d) /\ desk[d].at = "pickup" /\ desk[d].quote = q
<1>1. ASSUME NEW d \in Desk, LegacyPickup(d)
      PROVE  desk[d].at = "pickup" /\ desk[d].quote = q
  BY <1>1 DEF LegacyPickup, DeskAt, QTyped, QTypeOK
<1>2. ASSUME NEW d \in Desk, UpdateStatus(d) PROVE FALSE
  <2>1. desk[d].quote \in Quotes /\ pickup[desk[d].quote] # NoPickup
    BY <1>2 DEF UpdateStatus, DeskAt, QTyped, QTypeOK, DeskOK
  <2>. QED BY <1>2, <2>1 DEF UpdateStatus, QTyped, QTypeOK
<1>. QED BY <1>1, <1>2 DEF QNext, qvars, Door, SelectOption, AcceptQuote, ToPending, DeclineQuote,
       OptionsExpire, StartDesk, BeginSelectLegacy, BeginAcceptLegacy, BeginManualQuote,
       BeginQuoteReject, BeginUpdateStatus, DeskDie, RunDesk, SelectClaim, LegacyOrder,
       LegacyLink, SetManualQuote, QuoteReject, RejectLook, RejectCancel

\* A sale past its claim was so before, or an acceptance begins, or a selection claims.
LEMMA PastBefore ==
  ASSUME QTyped, [QNext]_qvars, NEW d \in Desk, desk'[d].at \in Past
  PROVE  \/ desk'[d] = desk[d]
         \/ \E q \in Quotes :
              /\ StartDesk(d, q) /\ desk'[d].quote = q /\ quote[q].status = "QUOTED"
              /\ desk'[d].op = "accept" /\ desk'[d].at = "order" /\ Legacy(q) /\ Clear("accept", q)
         \/ /\ desk'[d].quote = desk[d].quote /\ desk'[d].op = desk[d].op
            /\ \/ /\ SelectClaim(d) /\ desk[d].at = "claim" /\ desk'[d].at = "order"
                  /\ quote[desk[d].quote].status = "RATED"
               \/ /\ \E o \in Orders : LegacyOrder(d, o)
                  /\ desk[d].at = "order" /\ desk'[d].at = "pickup"
               \/ /\ LegacyPickup(d) /\ desk[d].at = "pickup" /\ desk'[d].at = "link"
<1>1. ASSUME NEW q \in Quotes, StartDesk(d, q)
      PROVE  /\ desk'[d].quote = q /\ quote[q].status = "QUOTED"
             /\ desk'[d].op = "accept" /\ desk'[d].at = "order" /\ Legacy(q) /\ Clear("accept", q)
  BY <1>1, DeskStarts DEF Past
<1>2. CASE RunDesk(d) \/ DeskDie(d)
  <2>1. desk'[d] # DeskIdle
    BY DeskIdleOK DEF Past
  <2>. QED BY <1>2, <2>1, DeskRuns DEF DeskGoesTo, Past
<1>. QED BY <1>1, <1>2, DeskCalls

LEMMA AcceptedStays ==
  ASSUME Final, [QNext]_qvars, apart, NEW q \in Quotes, Legacy(q), quote[q].status = "ACCEPTED"
  PROVE  quote'[q].status = "ACCEPTED"
<1>0. QTyped /\ Typed
  BY DEF Final, Sold, QTyped
<1>1. ~\E c \in Calls : RunCall(c) /\ calls[c].quote = q
  <2>1. ASSUME NEW c \in Calls, RunCall(c), calls[c].quote = q PROVE FALSE
    BY <1>0, <2>1, RunWrites DEF Final, Sold, DoorNotLegacy
  <2>. QED BY <2>1
<1>2. Door => quote'[q] = quote[q]
  BY <1>0, <1>1, DoorWrites
<1>3. ~\E d \in Desk : desk[d].quote = q /\ desk[d].at \in {"quote", "reject"}
  BY DEF Final, Undecided
<1>4. ASSUME NEW d \in Desk, quote'[q] = [status |-> "ACCEPTED", order |-> desk[d].order]
      PROVE  quote'[q].status = "ACCEPTED"
  BY <1>4
<1>. QED BY <1>0, <1>2, <1>3, <1>4, QuoteWrites

\* What a sale at the desk finds when it gets past its claim.
LEMMA BeginsToSell ==
  ASSUME Once, apart, sound, NEW q \in Quotes, Legacy(q),
         quote[q].status # "ACCEPTED",
         ~\E e \in Desk : /\ desk[e].quote = q /\ desk[e].op = "accept"
                         /\ desk[e].at \in {"pickup", "link"}
  PROVE  OrdersFor(q) = {} /\ pickup[q] = NoPickup
BY DEF Once, DeskSellsOnce

LEMMA AloneAtClaim ==
  ASSUME Once, apart, sound, NEW d \in Desk, NEW e \in Desk, desk[d].at = "claim",
         desk[e].quote = desk[d].quote, quote[desk[d].quote].status # "ACCEPTED"
  PROVE  desk[e].at \notin Past
<1>. SUFFICES ASSUME desk[e].at \in Past PROVE FALSE
  OBVIOUS
<1>1. d # e /\ desk[e].at # "idle"
  BY DEF Past
<1>2. desk[e].op = "select"
  BY <1>1 DEF Once, Final, ApartAtDesk
<1>3. quote[desk[e].quote].status = "ACCEPTED"
  BY <1>2 DEF Once, DeskSellsOnce
<1>. QED BY <1>3

LEMMA AloneAtAccept ==
  ASSUME Once, apart, NEW q \in Quotes, Clear("accept", q), NEW e \in Desk
  PROVE  desk[e].quote # q
BY DEF Clear, DeskOn

\* The desk's part of a step: two sales of a quote do not both get past the claim.
LEMMA PastAlone ==
  ASSUME Once, [QNext]_qvars, apart, sound, NEW d \in Desk, NEW e \in Desk, d # e,
         desk'[d].at \in Past, desk'[e].at \in Past, desk'[d].quote = desk'[e].quote
  PROVE  FALSE
<1>0. QTyped
  BY DEF Once, Final, Sold
<1>1. ASSUME NEW f \in Desk, NEW g \in Desk, f # g, NEW q \in Quotes, StartDesk(f, q),
             desk'[f].quote = q, Clear("accept", q), desk'[g].quote = q
      PROVE  FALSE
  <2>1. desk'[g] = desk[g]
    BY <1>0, <1>1, DeskStarts
  <2>. QED BY <1>1, <2>1, AloneAtAccept
<1>2. ASSUME NEW f \in Desk, NEW g \in Desk, f # g, SelectClaim(f), desk[f].at = "claim",
             quote[desk[f].quote].status = "RATED", desk'[g].quote = desk[f].quote,
             desk'[g].at \in Past
      PROVE  FALSE
  <2>1. desk'[g] = desk[g]
    BY <1>0, <1>2, DeskRuns DEF RunDesk
  <2>. QED BY <1>2, <2>1, AloneAtClaim
<1>3. CASE /\ desk[d].at \in Past /\ desk'[d].quote = desk[d].quote
           /\ desk[e].at \in Past /\ desk'[e].quote = desk[e].quote
  BY <1>3 DEF Once, DeskSellsOnce
<1>4. ASSUME NEW f \in Desk, desk'[f].at \in Past
      PROVE  \/ desk[f].at \in Past /\ desk'[f].quote = desk[f].quote
             \/ \E q \in Quotes : StartDesk(f, q) /\ desk'[f].quote = q /\ Clear("accept", q)
             \/ /\ SelectClaim(f) /\ desk[f].at = "claim" /\ desk'[f].quote = desk[f].quote
                /\ quote[desk[f].quote].status = "RATED"
  BY <1>0, <1>4, PastBefore DEF Past
<1>5. CASE \/ \E q \in Quotes : StartDesk(d, q) /\ desk'[d].quote = q /\ Clear("accept", q)
           \/ \E q \in Quotes : StartDesk(e, q) /\ desk'[e].quote = q /\ Clear("accept", q)
  BY <1>1, <1>5
<1>6. CASE \/ /\ SelectClaim(d) /\ desk[d].at = "claim" /\ desk'[d].quote = desk[d].quote
              /\ quote[desk[d].quote].status = "RATED"
           \/ /\ SelectClaim(e) /\ desk[e].at = "claim" /\ desk'[e].quote = desk[e].quote
              /\ quote[desk[e].quote].status = "RATED"
  BY <1>2, <1>6
<1>. QED BY <1>3, <1>4, <1>5, <1>6

LEMMA DeskSellsStep ==
  ASSUME Once, [QNext]_qvars
  PROVE  DeskSellsOnce'
<1>. SUFFICES ASSUME apart, sound
              PROVE  DeskSellsOnce'
  BY RegimeFixed DEF DeskSellsOnce, regime
<1>0. /\ QTyped /\ QTyped' /\ Sold /\ Sold' /\ Final /\ CommitsItsOrder
      /\ \A q \in Quotes : Legacy(q)' <=> Legacy(q)
  BY SoldStep, RegimeFixed DEF Once, Final, Sold, regime, Legacy
<1>1. ASSUME NEW q \in Quotes, Legacy(q), NEW d \in Desk, desk[d].quote = q, desk[d].at \in Past,
             desk'[d] = desk[d]
      PROVE  /\ desk[d].at = "order" /\ OrdersFor(q) = {} => OrdersFor(q)' = {}
             /\ desk[d].at # "link" /\ pickup[q] = NoPickup => pickup'[q] = NoPickup
  <2>1. \A e \in Desk : desk[e].at \in Past /\ desk[e].quote = q => e = d
    BY <1>1 DEF Once, DeskSellsOnce
  <2>2. ASSUME NEW o \in Orders, LegacyOrder(d, o) PROVE FALSE
    BY <1>0, <1>1, <2>2 DEF LegacyOrder, DeskAt, QTyped, QTypeOK, DeskRow
  <2>3. ASSUME LegacyPickup(d), pickup[q] = NoPickup PROVE FALSE
    BY <1>0, <1>1, <2>3 DEF LegacyPickup, DeskAt, DeskGo, QTyped, QTypeOK, DeskRow
  <2>4. ASSUME NEW c \in Calls, NEW o \in Orders, AcceptOrder(c, o), calls[c].quote = q PROVE FALSE
    BY <1>0, <1>1, <2>4 DEF AcceptOrder, Sold, DoorNotLegacy
  <2>5. \A o \in OrdersFor(q)' : o \in Orders
    BY DEF OrdersFor
  <2>6. ASSUME desk[d].at = "order", OrdersFor(q) = {} PROVE OrdersFor(q)' = {}
    <3>1. \A e \in Desk, o \in Orders :
            ~(LegacyOrder(e, o) /\ desk[e].at = "order" /\ desk[e].quote = q)
      BY <2>1, <2>2 DEF Past
    <3>. QED BY <1>0, <2>4, <2>5, <2>6, <3>1, OrdersOfQuote
  <2>7. ASSUME pickup[q] = NoPickup PROVE pickup'[q] = NoPickup
    BY <1>0, <2>1, <2>3, <2>7, PickupAppears DEF Past
  <2>. QED BY <2>6, <2>7
<1>2. ASSUME NEW d \in Desk, NEW q \in Quotes, desk'[d].at = "order", desk'[d].quote = q
      PROVE  OrdersFor(q)' = {} /\ pickup'[q] = NoPickup
  <2>0. desk'[d].at \in Past /\ Legacy(q)
    BY <1>0, <1>2 DEF Past, Sold, SellsLegacy, Selling
  <2>1. CASE desk'[d] = desk[d]
    <3>1. OrdersFor(q) = {} /\ pickup[q] = NoPickup
      BY <1>2, <2>1 DEF Once, DeskSellsOnce
    <3>. QED BY <1>1, <1>2, <2>0, <2>1, <3>1
  <2>2. CASE /\ StartDesk(d, q) /\ quote[q].status = "QUOTED" /\ Clear("accept", q)
    <3>1. OrdersFor(q) = {} /\ pickup[q] = NoPickup
      BY <2>0, <2>2, AloneAtAccept, BeginsToSell
    <3>2. orders' = orders /\ pickup' = pickup
      BY <1>0, <2>2, DeskStarts DEF vars
    <3>. QED BY <3>1, <3>2 DEF OrdersFor
  <2>3. CASE /\ SelectClaim(d) /\ desk[d].at = "claim" /\ desk[d].quote = q
             /\ quote[q].status = "RATED"
    <3>1. OrdersFor(q) = {} /\ pickup[q] = NoPickup
      <4>1. \A e \in Desk : desk[e].quote = q => desk[e].at \notin Past
        BY <2>3, AloneAtClaim
      <4>. QED BY <2>0, <2>3, <4>1, BeginsToSell DEF Past
    <3>2. orders' = orders /\ pickup' = pickup
      BY <2>3 DEF SelectClaim
    <3>. QED BY <3>1, <3>2 DEF OrdersFor
  <2>. QED BY <1>0, <1>2, <2>0, <2>1, <2>2, <2>3, PastBefore
<1>3. ASSUME NEW d \in Desk, NEW q \in Quotes, desk'[d].at = "pickup", desk'[d].quote = q
      PROVE  OrdersFor(q)' # {} /\ pickup'[q] = NoPickup
  <2>0. desk'[d].at \in Past /\ Legacy(q)
    BY <1>0, <1>3 DEF Past, Sold, SellsLegacy, Selling
  <2>1. CASE desk'[d] = desk[d]
    <3>1. OrdersFor(q) # {} /\ pickup[q] = NoPickup
      BY <1>3, <2>1 DEF Once, DeskSellsOnce
    <3>. QED BY <1>0, <1>1, <1>3, <2>0, <2>1, <3>1, OrdersOfQuote
  <2>2. CASE desk[d].quote = q /\ desk[d].at = "order" /\ \E o \in Orders : LegacyOrder(d, o)
    <3>1. PICK o \in Orders : LegacyOrder(d, o)
      BY <2>2
    <3>2. orders'[o] = NewOrder(q) /\ pickup' = pickup
      BY <1>0, <2>2, <3>1 DEF LegacyOrder, QTyped, QTypeOK, TypeOK
    <3>3. o \in OrdersFor(q)'
      BY <3>2, NewOrderType DEF OrdersFor
    <3>4. pickup[q] = NoPickup
      BY <2>2 DEF Once, DeskSellsOnce
    <3>. QED BY <3>2, <3>3, <3>4
  <2>. QED BY <1>0, <1>3, <2>0, <2>1, <2>2, PastBefore
<1>4. ASSUME NEW d \in Desk, NEW q \in Quotes, desk'[d].quote = q,
             desk'[d].at \in Past, desk'[d].op = "select"
      PROVE  quote'[q].status = "ACCEPTED"
  <2>0. Legacy(q)
    BY <1>0, <1>4 DEF Past, Sold, SellsLegacy, Selling
  <2>1. CASE desk[d].at \in Past /\ desk[d].quote = q /\ desk[d].op = "select"
    <3>1. quote[q].status = "ACCEPTED"
      BY <2>1 DEF Once, DeskSellsOnce
    <3>. QED BY <1>0, <2>0, <3>1, AcceptedStays
  <2>2. CASE SelectClaim(d) /\ desk[d].quote = q /\ quote[q].status = "RATED"
    <3>1. quote[q] \in QuoteRow /\ quote'[q] = [quote[q] EXCEPT !.status = "ACCEPTED"]
      BY <1>0, <2>2 DEF SelectClaim, SetQuote, QTyped, QTypeOK, TypeOK
    <3>. QED BY <3>1 DEF QuoteRow
  <2>. QED BY <1>0, <1>4, <2>1, <2>2, PastBefore DEF Past
<1>5. ASSUME NEW q \in Quotes, pickup'[q] # NoPickup PROVE OrdersFor(q)' # {}
  <2>1. OrdersFor(q) # {}
    BY <1>0, <1>5, PickupAppears DEF Once, DeskSellsOnce
  <2>. QED BY <1>0, <2>1, OrdersOfQuote
<1>6. ASSUME NEW q \in Quotes, Legacy(q), OrdersFor(q)' # {}, quote'[q].status # "ACCEPTED"
      PROVE  \E d \in Desk : /\ desk'[d].quote = q /\ desk'[d].op = "accept"
                            /\ desk'[d].at \in {"pickup", "link"}
  <2>0. quote[q].status # "ACCEPTED"
    BY <1>0, <1>6, AcceptedStays
  <2>1. CASE OrdersFor(q) # {}
    <3>1. PICK d \in Desk : /\ desk[d].quote = q /\ desk[d].op = "accept"
                           /\ desk[d].at \in {"pickup", "link"}
      BY <1>6, <2>0, <2>1 DEF Once, DeskSellsOnce
    <3>2. CASE desk'[d] = desk[d]
      BY <3>1, <3>2
    <3>3. CASE RunDesk(d) /\ desk[d].at = "pickup"
      <4>1. LegacyPickup(d) /\ pickup[q] = NoPickup
        BY <3>1, <3>3 DEF RunDesk, SelectClaim, LegacyOrder, LegacyLink, SetManualQuote,
           QuoteReject, RejectLook, RejectCancel, UpdateStatus, DeskAt, Once, DeskSellsOnce
      <4>2. desk' = [desk EXCEPT ![d] = [desk[d] EXCEPT !.at = "link"]] /\ desk[d] \in DeskRow
        BY <1>0, <3>1, <4>1 DEF LegacyPickup, DeskGo, QTyped, QTypeOK
      <4>3. desk'[d].quote = q /\ desk'[d].op = "accept" /\ desk'[d].at = "link"
        BY <1>0, <3>1, <4>2 DEF DeskRow, QTyped, QTypeOK
      <4>. QED BY <4>3
    <3>4. CASE RunDesk(d) /\ desk[d].at = "link"
      <4>1. LegacyLink(d)
        BY <3>4 DEF RunDesk, SelectClaim, LegacyOrder, LegacyPickup, SetManualQuote,
           QuoteReject, RejectLook, RejectCancel, UpdateStatus, DeskAt
      <4>2. quote'[q] = [status |-> "ACCEPTED", order |-> desk[d].order]
        BY <1>0, <3>1, <4>1 DEF LegacyLink, QTyped, QTypeOK, TypeOK
      <4>. QED BY <1>6, <4>2
    <3>5. ~DeskDie(d) /\ ~\E p \in Quotes : StartDesk(d, p)
      <4>1. ASSUME NEW p \in Quotes, StartDesk(d, p) PROVE FALSE
        BY <1>0, <3>1, <4>1, DeskStarts, DeskIdleOK
      <4>. QED BY <4>1 DEF DeskDie
    <3>. QED BY <1>0, <3>1, <3>2, <3>3, <3>4, <3>5, DeskCalls
  <2>2. CASE OrdersFor(q) = {}
    <3>1. PICK o \in OrdersFor(q)' : o \notin OrdersFor(q)
      BY <1>6, <2>2
    <3>2. ~\E c \in Calls : AcceptOrder(c, o) /\ calls[c].quote = q
      <4>1. ASSUME NEW c \in Calls, AcceptOrder(c, o), calls[c].quote = q PROVE FALSE
        BY <1>0, <1>6, <4>1 DEF AcceptOrder, Sold, DoorNotLegacy
      <4>. QED BY <4>1
    <3>3. PICK d \in Desk : LegacyOrder(d, o) /\ desk[d].at = "order" /\ desk[d].quote = q
      BY <1>0, <3>1, <3>2, OrdersOfQuote
    <3>4. desk[d].op = "accept"
      <4>1. desk[d].op \in {"select", "accept"} /\ desk[d].at \in Past
        BY <1>0, <3>3 DEF Sold, SellsLegacy, Selling, Past
      <4>. QED BY <2>0, <3>3, <4>1 DEF Once, DeskSellsOnce
    <3>5. desk'[d].quote = q /\ desk'[d].op = "accept" /\ desk'[d].at = "pickup"
      BY <1>0, <3>3, <3>4 DEF LegacyOrder, QTyped, QTypeOK, DeskRow
    <3>. QED BY <3>5
  <2>. QED BY <2>1, <2>2
<1>7. \A d \in Desk : desk'[d].at \in Past => desk'[d].quote \in Quotes
  BY <1>0, <1>2 DEF QTyped, DeskOK, Past
<1>8. \A d \in Desk :
        LET q == desk[d].quote IN
        /\ desk'[d].at = "order" => (OrdersFor(q))' = {}
        /\ desk'[d].at = "pickup" => (OrdersFor(q))' # {}
        /\ desk'[d].at \in {"order", "pickup"} => (pickup[q] = NoPickup)'
        /\ desk'[d].at \in Past /\ desk'[d].op = "select" => (quote[q].status = "ACCEPTED")'
  BY <1>2, <1>3, <1>4, <1>7 DEF OrdersFor, Past
<1>9. \A q \in Quotes :
        /\ pickup'[q] # NoPickup => (OrdersFor(q))' # {}
        /\ Legacy(q)' /\ (OrdersFor(q))' # {} =>
             \/ quote'[q].status = "ACCEPTED"
             \/ \E d \in Desk : /\ desk'[d].quote = q /\ desk'[d].op = "accept"
                                /\ desk'[d].at \in {"pickup", "link"}
  BY <1>0, <1>5, <1>6
<1>10. \A d, e \in Desk : desk'[d].at \in Past /\ desk'[e].at \in Past
                           /\ desk'[d].quote = desk'[e].quote => d = e
  BY PastAlone
<1>. QED BY <1>8, <1>9, <1>10 DEF DeskSellsOnce

\* Whoever inserts an order finds that its quote has none.
LEMMA OneOrderStep ==
  ASSUME Once, [QNext]_qvars
  PROVE  OneOrderPerQuote'
<1>. SUFFICES ASSUME apart, sound, NEW q \in Quotes
              PROVE  \A o1, o2 \in OrdersFor(q)' : o1 = o2
  BY RegimeFixed DEF OneOrderPerQuote, regime
<1>0. QTyped /\ Typed /\ CommitsItsOrder
  BY DEF Once, Final, Sold, QTyped
<1>1. \A o \in OrdersFor(q)' : o \in Orders
  BY DEF OrdersFor
<1>2. ASSUME NEW o \in OrdersFor(q)', o \notin OrdersFor(q)
      PROVE  OrdersFor(q) = {} /\ orders' = [orders EXCEPT ![o] = NewOrder(q)]
  <2>1. ASSUME NEW c \in Calls, AcceptOrder(c, o), calls[c].quote = q
        PROVE  OrdersFor(q) = {} /\ orders' = [orders EXCEPT ![o] = NewOrder(q)]
    BY <2>1 DEF AcceptOrder, Once, DoorSellsOnce, Reaching
  <2>2. ASSUME NEW d \in Desk, LegacyOrder(d, o), desk[d].at = "order", desk[d].quote = q
        PROVE  OrdersFor(q) = {} /\ orders' = [orders EXCEPT ![o] = NewOrder(q)]
    BY <2>2 DEF LegacyOrder, Once, DeskSellsOnce
  <2>. QED BY <1>0, <1>2, <2>1, <2>2, OrdersOfQuote
<1>3. CASE OrdersFor(q)' = OrdersFor(q)
  BY <1>1, <1>3 DEF Once, OneOrderPerQuote
<1>4. CASE OrdersFor(q)' # OrdersFor(q)
  <2>1. PICK o \in OrdersFor(q)' : o \notin OrdersFor(q)
    BY <1>0, <1>4, OrdersOfQuote
  <2>2. OrdersFor(q) = {} /\ orders' = [orders EXCEPT ![o] = NewOrder(q)]
    BY <1>2, <2>1
  <2>3. \A n \in OrdersFor(q)' : n = o
    BY <1>0, <1>1, <2>1, <2>2 DEF OrdersFor, QTyped, QTypeOK, TypeOK
  <2>. QED BY <1>1, <2>1, <2>3
<1>. QED BY <1>3, <1>4

LEMMA OnceInit == QInit => Once
<1>. SUFFICES ASSUME QInit PROVE Once
  OBVIOUS
<1>1. \A d \in Desk : desk[d].at = "idle"
  BY DeskIdleOK DEF QInit
<1>2. \A c \in Calls : calls[c].at = "idle"
  BY DEF QInit, Init, Idle
<1>3. \A q \in Quotes : OrdersFor(q) = {} /\ pickup[q] = NoPickup /\ request[q] = NoRequest
  BY DEF QInit, Init, OrdersFor
<1>4. CommitsItsOrder /\ Requested /\ DoorSellsOnce /\ OneOrderPerQuote
  BY <1>2, <1>3 DEF CommitsItsOrder, Requested, DoorSellsOnce, Reaching, OneOrderPerQuote
<1>5. DeskSellsOnce
  BY <1>1, <1>3 DEF DeskSellsOnce, Past
<1>. QED BY <1>4, <1>5, FinalInit DEF Once

\* Only selections overlapping at the desk, no call at the desk dying, and at the door no
\* assignment, arrival, verification or rejection overlapping an acceptance, a quote
\* becomes one order, for any number of quotes and calls:
\* selectOption's claim and the request's own keep the legacy sale and the door's to one.
THEOREM QuotesOneOrder ==
  ASSUME AcceptsApart
  PROVE  QSpec => []OneOrderPerQuote
<1>1. AcceptsApart /\ Once /\ [QNext]_qvars => Once'
  <2>. SUFFICES ASSUME AcceptsApart, Once, [QNext]_qvars PROVE Once'
    OBVIOUS
  <2>1. Final'
    BY SoldStep, DeskApartStep, DecidesApartStep, ClaimAloneStep, UndecidedStep
       DEF Once, Final, Sold
  <2>2. CommitsItsOrder' /\ Requested'
    BY CommitsStep, RequestedStep DEF Once, Final, Sold
  <2>. QED BY <2>1, <2>2, DoorSellsStep, DeskSellsStep, OneOrderStep DEF Once
<1>2. Once => OneOrderPerQuote
  BY DEF Once
<1>. QED BY <1>1, <1>2, OnceInit, PTL DEF QSpec


-----------------------------------------------------------------------------
(* Accepted quotes are followed up *)

\* A desk call on the quote is at one of these statements.
SoldBy(q, ats) == \E d \in Desk : desk[d].quote = q /\ desk[d].at \in ats

SaleFollowedUp(q) ==
  quote[q].order = NoOrder =>
    /\ quote[q].status = "ACCEPTED" => SoldBy(q, Past)
    /\ pickup[q] # NoPickup => SoldBy(q, {"link"})

\* Unless desk calls die, a quote that is accepted without an order, or has its Pickup
\* without one, has a call in flight that has yet to give it its order.
SalesFollowedUp == sound => \A q \in Quotes : SaleFollowedUp(q)

\* The door accepts a quote together with its order.
LEMMA DoorLinks ==
  ASSUME QTyped, Door, NEW q \in Quotes
  PROVE  \/ quote'[q].order \in Orders
         \/ /\ quote'[q].order = quote[q].order
            /\ quote'[q].status # "ACCEPTED" \/ quote'[q] = quote[q]
<1>. USE DEF QTyped, QTypeOK, TypeOK
<1>0. quote[q] \in QuoteRow
  OBVIOUS
<1>1. ASSUME NEW p \in Quotes, NEW status, status # "ACCEPTED",
             quote' = [quote EXCEPT ![p].status = status]
      PROVE  /\ quote'[q].order = quote[q].order
             /\ quote'[q].status # "ACCEPTED" \/ quote'[q] = quote[q]
  BY <1>0, <1>1 DEF QuoteRow
<1>2. CASE \E p \in Quotes : Create(p) \/ CommitBooking(p)
  <2>1. PICK p \in Quotes : quote' = [quote EXCEPT ![p].status = "PICKUP_REQUESTED"]
    BY <1>2 DEF Create, CommitBooking, Book
  <2>. QED BY <1>1, <2>1
<1>3. CASE \E p \in Quotes, b \in Partners : Claim(p, b)
  BY <1>3 DEF Claim
<1>4. CASE \E p \in Quotes, c \in Calls : StartCall(c, p)
  BY <1>4, StartChecks
<1>5. ASSUME NEW c \in Calls, RunCall(c)
      PROVE  \/ quote'[q].order \in Orders
             \/ /\ quote'[q].order = quote[q].order
                /\ quote'[q].status # "ACCEPTED" \/ quote'[q] = quote[q]
  <2>0. CallOK(calls[c])
    BY DEF Typed
  <2>1. CASE AcceptCommit(c)
    <3>1. calls[c].at = "accept commit" /\ calls[c].quote \in Quotes /\ calls[c].order \in Orders
      BY <2>0, <2>1 DEF AcceptCommit, CallOK
    <3>2. quote' = [quote EXCEPT ![calls[c].quote] = [status |-> "ACCEPTED", order |-> calls[c].order]]
      BY <2>1 DEF AcceptCommit
    <3>. QED BY <3>1, <3>2
  <2>2. CASE Reject(c)
    <3>1. calls[c].quote \in Quotes
      BY <2>0, <2>2 DEF Reject, CallOK
    <3>2. quote' = [quote EXCEPT ![calls[c].quote].status = "REJECTED"]
      BY <2>2 DEF Reject
    <3>. QED BY <1>1, <3>1, <3>2
  <2>3. CASE ~AcceptCommit(c) /\ ~Reject(c)
    <3>1. quote' = quote
      BY <1>5, <2>3 DEF RunCall, Assign, Arrive, SaveParcelPhoto, SaveAadhaar, Verify, Collect,
         AcceptClaim, AcceptOrder
    <3>. QED BY <3>1
  <2>. QED BY <2>1, <2>2, <2>3
<1>6. CASE \E c \in Calls : Die(c)
  BY <1>6 DEF Die
<1>. QED BY <1>2, <1>3, <1>4, <1>5, <1>6 DEF Door, DoorStart

\* No step takes a quote's order away.
LEMMA OrdersStayLinked ==
  ASSUME QTyped, [QNext]_qvars, NEW q \in Quotes, quote'[q].order = NoOrder
  PROVE  quote[q].order = NoOrder
<1>1. CASE Door
  BY <1>1, DoorLinks, BookingAssumption
<1>2. CASE \E d \in Desk : /\ desk[d].at = "link"
                           /\ quote'[q] = [status |-> "ACCEPTED", order |-> desk[d].order]
  BY <1>2, DeskTypes, BookingAssumption DEF DeskOK
<1>3. CASE quote'[q] = quote[q] \/ quote'[q].order = quote[q].order
  BY <1>3
<1>. QED BY <1>1, <1>2, <1>3, QuoteWrites

\* A sale goes on until the quote has its order, or leaves it to the call whose Pickup
\* it found.
LEMMA SellerGoesOn ==
  ASSUME QTyped, [QNext]_qvars, sound, NEW q \in Quotes, quote'[q].order = NoOrder,
         SaleFollowedUp(q), NEW d \in Desk, desk[d].quote = q, desk[d].at \in Past
  PROVE  \/ desk'[d].quote = q /\ desk'[d].at \in Past
         \/ SoldBy(q, {"link"})'
<1>0. desk[d] \in DeskRow /\ DeskOK(desk[d]) /\ desk[d].at # "idle"
  BY DeskTypes DEF Past
<1>1. CASE desk'[d] = desk[d]
  BY <1>1
<1>2. CASE \E p \in Quotes : StartDesk(d, p)
  BY <1>0, <1>2, DeskStarts, DeskIdleOK
<1>3. ASSUME RunDesk(d)
      PROVE  \/ desk'[d].quote = q /\ desk'[d].at \in Past
             \/ SoldBy(q, {"link"})'
  <2>1. \A e \in Desk \ {d} : desk'[e] = desk[e]
    BY <1>3, DeskRuns
  <2>2. CASE desk[d].at = "order"
    <3>1. PICK o \in Orders : LegacyOrder(d, o)
      BY <1>3, <2>2 DEF RunDesk, DeskAt, SelectClaim, LegacyPickup, LegacyLink, SetManualQuote,
         QuoteReject, RejectLook, RejectCancel, UpdateStatus
    <3>2. desk'[d] = [desk[d] EXCEPT !.at = "pickup", !.order = o]
      BY <3>1 DEF LegacyOrder, QTyped, QTypeOK
    <3>. QED BY <1>0, <3>2 DEF DeskRow, Past
  <2>3. CASE desk[d].at = "pickup"
    <3>1. LegacyPickup(d)
      BY <1>3, <2>3 DEF RunDesk, DeskAt, SelectClaim, LegacyOrder, LegacyLink, SetManualQuote,
         QuoteReject, RejectLook, RejectCancel, UpdateStatus
    <3>2. CASE pickup[q] = NoPickup
      <4>1. desk'[d] = [desk[d] EXCEPT !.at = "link"]
        BY <3>1, <3>2 DEF LegacyPickup, DeskGo, QTyped, QTypeOK
      <4>. QED BY <1>0, <4>1 DEF DeskRow, Past
    <3>3. CASE pickup[q] # NoPickup
      <4>1. SoldBy(q, {"link"})
        BY <3>3, OrdersStayLinked DEF SaleFollowedUp
      <4>2. PICK e \in Desk : desk[e].quote = q /\ desk[e].at = "link"
        BY <4>1 DEF SoldBy
      <4>3. e # d
        BY <2>3, <4>2
      <4>. QED BY <2>1, <4>2, <4>3 DEF SoldBy
    <3>. QED BY <3>2, <3>3
  <2>4. CASE desk[d].at = "link"
    <3>1. LegacyLink(d)
      BY <1>3, <2>4 DEF RunDesk, DeskAt, SelectClaim, LegacyOrder, LegacyPickup, SetManualQuote,
         QuoteReject, RejectLook, RejectCancel, UpdateStatus
    <3>2. quote'[q].order = desk[d].order /\ desk[d].order \in Orders
      BY <1>0, <2>4, <3>1 DEF LegacyLink, DeskOK, QTyped, QTypeOK, TypeOK
    <3>. QED BY <3>2, BookingAssumption
  <2>. QED BY <2>2, <2>3, <2>4 DEF Past
<1>4. ~DeskDie(d)
  BY Zenon DEF DeskDie
<1>. QED BY <1>1, <1>2, <1>3, <1>4, DeskCalls

\* A call about to link the quote does it next.
LEMMA LinkGoesOn ==
  ASSUME QTyped, [QNext]_qvars, sound, NEW q \in Quotes, quote'[q].order = NoOrder,
         NEW d \in Desk, desk[d].quote = q, desk[d].at = "link"
  PROVE  desk'[d] = desk[d]
<1>0. DeskOK(desk[d]) /\ desk[d].at # "idle"
  BY DeskTypes
<1>1. ~\E p \in Quotes : StartDesk(d, p)
  BY <1>0, DeskStarts, DeskIdleOK
<1>2. ~DeskDie(d)
  BY Zenon DEF DeskDie
<1>3. ~RunDesk(d)
  <2>. SUFFICES ASSUME RunDesk(d) PROVE FALSE
    OBVIOUS
  <2>1. LegacyLink(d)
    BY DEF RunDesk, DeskAt, SelectClaim, LegacyOrder, LegacyPickup, SetManualQuote,
       QuoteReject, RejectLook, RejectCancel, UpdateStatus
  <2>2. quote'[q].order = desk[d].order /\ desk[d].order \in Orders
    BY <1>0, <2>1 DEF LegacyLink, DeskOK, QTyped, QTypeOK, TypeOK
  <2>. QED BY <2>2, BookingAssumption
<1>. QED BY <1>1, <1>2, <1>3, DeskCalls

LEMMA SalesFollowedUpStep ==
  QTyped /\ SalesFollowedUp /\ [QNext]_qvars => SalesFollowedUp'
<1>. SUFFICES ASSUME QTyped, SalesFollowedUp, [QNext]_qvars, sound',
                     NEW q \in Quotes, quote'[q].order = NoOrder
              PROVE  /\ quote'[q].status = "ACCEPTED" => SoldBy(q, Past)'
                     /\ pickup'[q] # NoPickup => SoldBy(q, {"link"})'
  BY DEF SalesFollowedUp, SaleFollowedUp
<1>0. sound
  BY RegimeFixed, Zenon DEF regime
<1>1. SaleFollowedUp(q) /\ quote[q].order = NoOrder
  BY <1>0, OrdersStayLinked DEF SalesFollowedUp
<1>2. SoldBy(q, {"link"})' => SoldBy(q, Past)'
  BY DEF SoldBy, Past
<1>3. ASSUME quote'[q].status = "ACCEPTED" PROVE SoldBy(q, Past)'
  <2>1. CASE quote[q].status = "ACCEPTED"
    <3>1. PICK d \in Desk : desk[d].quote = q /\ desk[d].at \in Past
      BY <1>1, <2>1 DEF SaleFollowedUp, SoldBy
    <3>2. \/ desk'[d].quote = q /\ desk'[d].at \in Past
          \/ SoldBy(q, {"link"})'
      BY <1>0, <1>1, <3>1, SellerGoesOn
    <3>. QED BY <1>2, <3>1, <3>2 DEF SoldBy
  <2>2. CASE quote[q].status # "ACCEPTED"
    <3>1. ~Door
      BY <1>3, <2>2, DoorLinks, BookingAssumption
    <3>2. ASSUME NEW d \in Desk, desk[d].at = "link",
                 quote'[q] = [status |-> "ACCEPTED", order |-> desk[d].order]
          PROVE  FALSE
      BY <3>2, DeskTypes, BookingAssumption DEF DeskOK
    <3>3. PICK d \in Desk : /\ desk[d].quote = q /\ SelectClaim(d) /\ desk[d].at = "claim"
                            /\ quote[q].status = "RATED"
      BY <1>3, <2>2, <3>1, <3>2, QuoteWrites
    <3>4. desk'[d] = [desk[d] EXCEPT !.at = "order"] /\ desk[d] \in DeskRow
      BY <3>3 DEF SelectClaim, DeskGo, QTyped, QTypeOK
    <3>5. desk'[d].quote = q /\ desk'[d].at = "order"
      BY <3>3, <3>4 DEF DeskRow
    <3>. QED BY <3>5 DEF SoldBy, Past
  <2>. QED BY <2>1, <2>2
<1>4. ASSUME pickup'[q] # NoPickup PROVE SoldBy(q, {"link"})'
  <2>1. CASE pickup[q] # NoPickup
    <3>1. PICK d \in Desk : desk[d].quote = q /\ desk[d].at = "link"
      BY <1>1, <2>1 DEF SaleFollowedUp, SoldBy
    <3>2. desk'[d] = desk[d]
      BY <1>0, <3>1, LinkGoesOn
    <3>. QED BY <3>1, <3>2 DEF SoldBy
  <2>2. CASE pickup[q] = NoPickup
    <3>1. PICK d \in Desk : LegacyPickup(d) /\ desk[d].at = "pickup" /\ desk[d].quote = q
      BY <1>4, <2>2, PickupAppears
    <3>2. desk'[d] = [desk[d] EXCEPT !.at = "link"] /\ desk[d] \in DeskRow
      BY <2>2, <3>1 DEF LegacyPickup, DeskGo, QTyped, QTypeOK
    <3>3. desk'[d].quote = q /\ desk'[d].at = "link"
      BY <3>1, <3>2 DEF DeskRow
    <3>. QED BY <3>3 DEF SoldBy
  <2>. QED BY <2>1, <2>2
<1>. QED BY <1>3, <1>4

\* The safety half of AcceptedGetsOrder, whatever selections, acceptances, prices and
\* refusals overlap on a quote: as long as no desk call dies, no quote is left accepted
\* without an order or a call that is about to place and link it (selectOption's claim
\* and finalizeAcceptedQuote's two writes).
THEOREM AcceptedQuotesAreFollowedUp == QSpec => []SalesFollowedUp
<1>1. QInit => SalesFollowedUp
  BY DEF QInit, Init, SalesFollowedUp, SaleFollowedUp
<1>. QED BY <1>1, AlwaysQTyped, SalesFollowedUpStep, PTL DEF QSpec
=============================================================================
