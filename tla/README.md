# NationWide Logistics: specifications, model checks and proofs

TLA+ modules for the backend of this repository (NestJS, Prisma on PostgreSQL, a Redis
cache and a BullMQ queue), TLC configurations that check them on small instances, and
proofs that TLAPS checks for every value of the constants. Paths such as
`orders.service.ts` are below `src/backend/src/modules/`.

Run a check with `tlc -config <name>.cfg <MC module>`, a proof with `tlapm <module>.tla`.

## 1. The system

A customer (or the office, or a B2B portal) asks for a **quote**. Priced and chosen, it
becomes a **pickup request**, which a pickup partner claims or is assigned, and works at
the customer's door: arrive, photograph the parcel and the Aadhaar card, verify weight
and price, collect the money (all of it, part of it, or none with the office's leave),
then accept or reject the parcel. Acceptance creates an **order** with a **shipment**. An
order is paid, perhaps with a **coupon**, billed on an **invoice** (its own, or one that
consolidates a period), and receipted; it can be cancelled for a fee until the shipment
has a carrier's number (AWB). Carriers' **tracking** events are polled, stored and cached,
and each step sends a WhatsApp **notification** through a queue.

Two facts about the code shape everything here:

* **There is no isolation between requests.** Services run on Node; every `await` of a
  database statement lets other requests in. Handlers read a row, decide, and write in a
  later statement. Only some writes repeat the check in their `WHERE`
  (`updateMany` with a count), and only a few places use a transaction (a batch of
  statements, so without reads in between).
* **There is no recovery.** A handler that throws half-way, or a process that restarts,
  leaves what it has written. Steps after the main fact (invoice, receipt, notification)
  swallow their failure on purpose.

### Components, their state and what makes them correct

| component | state | operations | what must hold | here |
|---|---|---|---|---|
| Pickup requests (`pickup-requests`, 3070 lines) | `PickupRequest`, the quote's status, `Customer.aadhaarKey` | create, commitBooking, claim, assignPartner, markArrived, saveAadhaar, saveParcelPhoto, verify, collectPayment, acceptParcel, rejectParcel | the steps cannot be skipped; one claim, one settlement, one order; closed stays closed; quote, request and order agree on status and money | `PickupRequests` |
| Orders (`orders`, 933) | `Order` | create, update, updatePayment, cancel | payment, discount, bill and receipt agree; a cancellation is charged once | `OrderPayments` |
| Coupons (`coupons`, 243) | `Coupon` | create, setActive, validate, redeem | a limit is never exceeded | `Coupons` |
| Invoices (`invoices`, 2893) | `Invoice`, `InvoiceLine`, counter | generateForOrder, issueConsolidated, issueCustom, readPdf, cancel, send | the series is unbroken, an order is billed once | `Documents`, `OrderPayments` |
| Receipts (`receipts`, 1145) | `Receipt`, counter | issueForOrderPayment, manual, readPdf, send | one per payment; not lost with the invoice | `Documents`, `OrderPayments` |
| Number series (`shipments/sequence.ts`) | `Counter` | nextSequenceNumber | distinct numbers | `Documents` |
| Company settings (`rate-cards/company-settings`) | `CompanySettings` | update, activate | one active template | only "complete or not" |
| Shipments (`shipments`, 331) | `Shipment`, `ExternalTrackingNumber` | createForOrder, mapExternalTrackingNumber, manual override | one shipment per AWB; no AWB on a cancelled order | `Tracking` (mapping, override), `OrderPayments` (the AWB's effect on cancelling) |
| Quotes (`quotes`, 1224) | `Quote`, `RateQuoteOption` | submit, selectOption, acceptQuote, decline, setManualQuote, reject | a final quote stays final; one order per quote; a rejection never cancels a completed pickup | `Quotes`, on `BookingRows` |
| Legacy pickups (`pickups`, 255) | `Pickup` | updateStatus | the transition map; one order with its quote | `Quotes` |
| Tracking (`tracking`, 504) | `TrackingEvent`, Redis | getStatus, persistNewEvents | the status is the newest event's; the cache does not hide a correction | `Tracking` |
| Notifications, push (`notifications` 1371, `push` 288) | `Notification`, the queue | enqueue, process, onFailed, recordDeliveryStatus | a row tells what became of its message; READ and FAILED are final; no row stays queued | `Notifications` (push not) |
| Reviews (`reviews`, 299) | `Review` | requestFeedback, submit | one invitation per delivery | `Tracking` (requestFeedback) |
| Pricing (`pricing`, 4164) | rate tables | price a shipment, import sheets, fuel surcharge | one slab per weight, the right basis and margin, an import is whole | `Pricing`, `Rates` |
| GST (`invoices/gst.ts`) | none | split, breakdown | parts add up to the total | `Pricing` |
| Accounts (`auth` 923, `admin` users) | `AdminUser`, tokens | login, refresh, reset, update | an admin remains | hazard listed |
| Customers, B2B, expenses, announcements, mail, rate-card documents, pincodes, routing | rows of their own | single statements, rendering, outside calls | - | not modelled |
| Frontend (about 45 000 lines), deploy, scripts | - | screens over the API | - | not modelled |

They interact by direct calls and by shared rows: `acceptParcel` writes the request, the
quote, the order and asks for an invoice and a receipt; `updatePayment` calls coupons,
invoices and receipts; `cancel` raises a custom invoice; `QuotesService.reject` cancels a
pickup request; tracking asks for reviews and notifications. `PROJECT.json` lists under
`hazards` each place where these meet in a way a test would hardly reach.

## 2. Plan

1. **Pickup workflow** (`BookingRows`, `PickupRequests`, the abstract `Handover`): done.
2. **Money after the handover** (`Coupons`, `Documents`, composed in `OrderPayments`, with the
   abstract `NumberSeries`): done.
3. **Quotes** (`Quotes`, which extends `PickupRequests`, so that the desk's calls meet those
   at the door): done.
4. **Tracking and notifications** (`Tracking`, `Notifications`): done.
5. **Pricing** (`Pricing`, pure operators over money in whole paise) and the tables it reads
   (`Rates`): done.
6. **Proofs** about each of them, under the weakest conditions in which a property holds:
   the table of section 5 is what is done. Every safety property of the passing runs is a
   theorem, and so is the safety half of the liveness properties. Four of the five violations
   have a theorem that names their cause: a condition on what overlaps, on the carriers, or on
   the steps taken, under which the property holds. For the fifth, the lost paisa,
   `PricesAddUp` says exactly which figures lose one.

Candidates that remain, by what they would add: submission of a quote and the storing of its
options (`quotes.service.ts`), sessions and the last-admin guard (`auth`, `admin`), the
choice of zones by country and postcode (`zones.service.ts`), manual receipts.

## 3. Modules

How a handler is modelled, everywhere: a **slot** of `calls` holds a call in flight, with
the statement it is about to run (`at`) and what it remembers of its reads. One action
per database statement that changes state; a `Begin...` action is the reads and early
returns that come before the first write. Whether two calls may overlap, and whether a
call may die between statements, are constants (`Exclusive`, `Faults`) or are fixed in the
initial state, one way or the other (`mayOverlap`, `apart`, `sound`), so that each property
is checked under the weakest conditions in which the code keeps it.

### BookingRows
The rows of the Prisma schema a booking touches (`Quote`, `PickupRequest`, `Order`), each
handler's `data: {...}` as an operator from row to row, and `payableFor` with the
collection tolerance (5 % or a floor).

### PickupRequests
`create` and `commitBooking` (each one transaction that claims the quote and inserts the
request) are `Create` and `CommitBooking`; `claim` (one conditional update) is `Claim`.
The other handlers are a `Begin...` and a write: `Assign`, `Arrive`, `SaveParcelPhoto`,
`SaveAadhaar`, `Verify`, `Collect`, `Reject`. `acceptParcel` is four steps, `BeginAccept`,
`AcceptClaim`, `AcceptOrder`, `AcceptCommit`, the last billing the row as it was read
*before* the claim. `Die` ends a call anywhere. `mayOverlap` is the set of pairs of handlers
that may be in flight on one booking at once; a behaviour has one of `Regimes`.

Abstractions: the verified price is any of `Prices` (the engine, the partner or the
estimate gives it); a discount is fixed at booking; KYC is whether the customer has an
Aadhaar key; who may work a request is `findOneForPartner`. Left out: location updates,
`createBatch` (a loop over bookings), and here what other services do to the same rows: a quote
rejected by the office is in `Quotes`; nothing at the door reads a cancelled order.

### Handover
The abstract specification: a booking is opened, settled, and then handed over as one
order or closed, for good. `KeepsPromise` in `PickupRequests` is the refinement: `Stage`
maps a request's status, settlement and order to Handover's `stage`.

### Coupons, Documents
`Coupons` has the coupon rows, `validate` as `Validates` and the conditional increment of
`redeem` as `Redeem`, whose `WHERE` does not look at the expiry again. `Documents` has the
invoice and receipt tables of one customer in one financial year, `nextSequenceNumber`,
the unique constraints (`Insertable`), the PDF column, cancelling, and the rounding of a
receipt's amount (`ToPaise`). An invoice's number is kept when it is cancelled.

### OrderPayments
Composes both with the `Order` rows. `updatePayment` is the chain redeem → write the order
→ invoice → receipt; an invoice that cannot be issued sends the call on to the receipt
(`Billed`). `generateForOrder`, `issueConsolidated`, `issueCustom` and
`issueForOrderPayment` enter the same chain where they start. `cancel` is a check, a
write (after the routing call), and the fee's invoice. The office's single statements are
`MarkUnpaid`, `UpdateStatus`, `MapAwb`, `FillSettings`, `CancelAnInvoice`, `CouponChange`;
`ReadInvoicePdf` is opening an invoice, which renders and uploads a missing PDF, or fails
to again.

Abstractions: one customer and one financial year; the reads before a document is
numbered (is there one, the order, the settings) are one step at the last of them;
`REFUNDED` and `FAILED` are `PENDING` (nothing here tells them apart); `PENDING` and
`CONFIRMED` orders are `OPEN`; amounts are counted in tenths of a paisa; tax,
wording and sending are left out. `acceptParcel`'s closing part is a payment without a
code: the coupon it carries over, and the redemption it lets fail, are not modelled. The
pickup that `cancel` closes is not either: it belongs to a request that is COMPLETED.

### NumberSeries
The abstract specification of `nextSequenceNumber` and its callers: a number is taken, the
next one always; it ends on one document or is lost; a document's number never changes.
`OrderPayments` implements it twice (`NumbersInSeries`): `InvoiceSeries` and `ReceiptSeries` map
the numbers in the calls' hands to the held ones and those on rows to the issued ones.

### Quotes
`QuotesService` and `PickupsService`, extending `PickupRequests`: its variables and actions
are those of the door workflow (`Door`) and the desk's calls, in slots `desk` of their own.
Self-service selections and acceptances are one conditional update (`ToPending`), and so is
the customer's `DeclineQuote`. The legacy path is a chain: `SelectClaim` (the conditional
claim) or `BeginAcceptLegacy` (a check only), then `LegacyOrder`, `LegacyPickup` (whose
`quoteId` is unique: the second insert throws), `LegacyLink`. `setManualQuote` is a check and an
unconditional write; `reject` is a check, the write, a look at the pickup request and its
cancellation (`QuoteReject`, `RejectLook`, `RejectCancel`). `UpdateStatus` is the legacy
pickup's transition map applied to a status read earlier. `apart` (only selections overlap
other calls on a quote) and `sound` (no desk call dies) are fixed in the initial state, both
ways: one run checks each property under the conditions it names.

### Tracking
`getStatus` is a chain of statements: `BeginLookup` (a cached answer ends it),
`CarrierReplies` or `CarrierFails`, `CompareEvents` (the newest stored event is read and the
later scans are kept), `StoreEvents` (one transaction: rows and current status), `Announce`,
`CheckInvited` and `Invite` (`requestFeedback`; `Review.shipmentId` is unique), `ReadAnswer`,
`CacheAnswer`. `overrideTrackingStatus` is `BeginOverride`, `Override` (a transaction),
`Forget` (the cache entry); `mapExternalTrackingNumber` is `BeginMap`, `Map`. `Expire` is the
cache's TTL.

What a carrier knows of a parcel is a booking day, a status and perhaps a delivery date
(`Parcel`) and a history of dated events (`scans`). `ScanParcel` changes the status, with an
event in the history or, undated, without; `ScanLate` enters an event when the status has
moved on. An event's time need not be later than the others': times have minutes, a blank one
is midnight, depots scan late. The ICL adapter answers with the history in ascending order
(`Histories`), or for a parcel without one with the booking and the current status
(`Summaries`). In a summary only a delivery has a time of its own, and only sometimes
(`Dated`); any other status is given a time of the present day by a hash of its text
(`AnchoredTime`, where `Offset` is the hash). The carrier's times are in UTC, as the adapter
reads them, so none is in the future. The stub adapter is a mock, and left out with wording,
locations and the lookup's other entry points.

### Notifications
`enqueue` is `CreateRow` then `AddJob`; the worker's `process` is `Take`, `Send` (or
`SendRejected`, or `SendUnanswered`: sent, but the reply is lost), `Record`, `Finish`; a
failure is `FailAttempt` (BullMQ counts it and retries or gives up), then `OnFailed`. A
restart loses the worker's place (`Restart`); `AfterRestart` is the failed-event handling of a
job that was stalled out. Messages have a fate of their own (`Progress`), and the
provider's webhook reports it (`Report`): in order, or late, repeated and reordered, by the
constant regime `orderly`. What the row knows is compared with what became of the message.

### Pricing and Rates
`Pricing` is the arithmetic of `calculateFinalPrice`, `splitGst` and
`resolveChargedBreakdown` in whole paise, rounding where the code rounds (`Rounded`), and the
choice of slab (`Covers`, `Meets`) and margin (`MarginFromBands`). `Rates` is one rate card:
its slabs with their ranges, rates and margin bands, the card's all-in flag, and the calls on
it: `create` (reads the siblings, checks that ranges do not meet, writes later), `update` and
`setActive` (read the row, then the siblings in `CheckSiblings`, then write), `bulkUpdate` and `setMarginBands` (one transaction each),
`import` (one transaction at READ COMMITTED: `PlanImport` reads, `CommitImport` writes the all-in flag
if it differs from the one read, reuses the rows of the same range, adds the others, and
switches off the stale ones), and a quote computation, whose
statements read card, slabs and flag one after another. `apart` keeps staff's calls, and
imports and quotes, from overlapping; it is chosen in the initial state, both ways. The GST
percentage is one constant for all slabs and sheets.

## 4. Runs

| run | conditions | checks |
|---|---|---|
| `pickup` | either anything overlaps, or no two *different* handlers that move a request do on one booking (repeats, collections, uploads and claims do); handlers die | `TypeOK`, `OrderOnlyAfterHandover` (no step skipped), `SettledOnce`, `ClaimedByOne` always; `OneOrderUnlessReopened` if no assignment or verification overlaps an acceptance; `QuoteFollowsRequest`, `OrderBillsTheSettlement`, `ClosedStaysClosed`, `KeepsPromise` (implements Handover) if only repeats overlap |
| `pickup_reopened_twice_ordered` | anything overlaps | **violated**: `OneOrderPerRequest` |
| `pickup_reprice_after_payment` | of the handlers that move a request only repeats overlap | **violated**: `OrderPaysThePrice` |
| `payments_any_overlap` | anything overlaps, calls die | `TypeOK`, `NeverOverdrawn`, `DiscountsRedeemed`, `NumbersInSeries` (implements NumberSeries, for invoices and for receipts) |
| `payments_one_at_a_time` | calls on one order kept apart, no deaths, fair | `SeriesUnbroken`, `OneReceiptPerPayment`, `FeeOncePerCancellation`, `PaidGetsReceipt` |
| `payments_billed_twice` | one call at a time | **violated**: `BilledOnce` |
| `quotes` | calls on a quote apart or not, desk calls die or not, fair | `QTypeOK`, `SameDeal` (always), `OneOrderPerQuote`, `AcceptedGetsOrder`, `CompletedGetsOrder`, and, of what every step does, `DealIsFinal`, `RejectionClosesRequest` |
| `tracking` | histories with late, undated and simultaneous events; calls apart or not, faults or not, fair | `TypeOK`, `InvitedOnce` (always), `StatusIsNewest` (apart), `CorrectionsShow` (apart, Redis up), `DeliveryIsAskedAbout` (sound) |
| `tracking_same_day_hidden` | a carrier that gives no times, one call at a time | **violated**: `CarrierStatusShown` |
| `notifications` | retries, restarts, lost replies, webhooks in order or not, fair | `TypeOK`, `ShownIsTrue`, `FailedIsFinal`, `ReadStaysRead`, `QueuedIsResolved` |
| `rates` | staff apart or not, import and quote apart or not | `TypeOK`, `PricesAddUp` (always), `OneSlabPerWeight`, `ImportIsWhole`, `QuotedOnItsBasis` (apart) |
| `rates_all_in_loses_a_paisa` | a sheet with an all-in figure of 10.00, GST of 18 % | **violated**: `AllInToThePaisa` |

What the violations show (quotations in `PROJECT.json`, `findings`):

* An acceptance claims the request so that it becomes one order only, but a verification
  or assignment that read the request before the claim writes an open status over it, and
  a second acceptance claims it again. The same unconditional writes reopen closed
  requests in other ways.
* A verification after the collection changes the price the money was checked against.
* An order on a consolidated invoice can get an invoice of its own as well, because
  `generateForOrder` does not look at invoice lines.
* Statuses that a carrier gives no times for get made-up ones, distinct but in no order: a
  parcel found picked up and delivered on one day may stay picked up for the customer, and the
  delivery is neither announced nor asked about.
* An all-in rate is taken apart and put together again "to the paisa", but 10.00 at 18 %
  becomes 8.47 + 1.52 = 9.99.

Other places where a property needs its condition are hazards of `PROJECT.json`, with the
reason: a receipt stores a rounded amount and is looked for by the unrounded one; a lookup
in flight puts back into the cache what an override has just removed; `setManualQuote` and
`reject` act on a status read earlier; the ranges of two concurrent slab edits may meet.

Every property of a passing run has a mutant in `PROJECT.json`: a plausible bug in a
modelled definition under which the run finds the property violated.

### Bounds, and why they are enough

* Two calls in flight (the races are between a decision made on an earlier read
  and one other write, so between two), two partners, one booking (`mayOverlap`
  and every guard are per booking, and two bookings share only the customer's KYC),
  two orders (one more than the workflow should make), two prices and two discounts
  with a tolerance floor of zero, so that a settlement can be too small, in part, or exact.
  A call, once ended, leaves its slot to another, so sequences are not bounded.
* Payments: two orders, two calls, at most `MaxCalls` = 3 arriving requests (4 in
  `payments_billed_twice`), one code with one redemption. Requests are counted because
  invoices and receipts grow for ever. Three suffice for the pairs that meet (two calls
  and what the office did before). Behaviours therefore end, and `CHECK_DEADLOCK FALSE` is
  set in these configurations only: the end is the bound's, not the program's.
* Quotes: one quote, one call at the door, two at the desk: its rows meet no other quote's.
  Acceptances that overlap at the door are covered by the theorems, for any number of calls.
* Tracking: two calls, one staff call (an override or a mapping) among any number of lookups,
  two moments of time, and `MaxScans` = 2 events of one parcel of a carrier with histories. An
  event is dropped or kept by comparing two times, so an earlier, an equal and a later one is
  what there is to tell apart. Summaries are in `tracking_same_day_hidden` and the theorems.
* Notifications: two notices, so that a report for one message meets another's row, three attempts
  (the code's number) and one fault at a time on top of the retries.
* Rates: one card with two rows at first and one more to add, two sheets, and three calls of
  staff: enough for a manual edit between two imports. `CHECK_DEADLOCK FALSE` is
  set where calls or the clock are counted.
* `Symmetry` is used in runs without liveness.

### Fairness

`WF_vars(RunCall(c))` (`RunDesk(d)`, and `Work` of a notification): Node runs every pending continuation, so a call in flight takes its
next step; it is assumed only where `Faults` is FALSE, or, where faults are a choice of the
initial state, used only by properties that say `sound`. BullMQ retries a job until its
attempts are used up, which is part of `Work`. No arriving request is assumed,
and no opening of an invoice: a bill whose PDF failed stays without one until a user opens it.

## 5. Proofs

The theorems hold for every number of bookings, quotes, partners, orders, codes, slabs,
shipments, notifications and calls, whatever overlaps unless stated. They assume
the named assumptions of the modules, which TLC evaluates at every run, and nothing else.

| theorem | says | argument |
|---|---|---|
| `TypeCorrect` | `Spec => []TypeOK` | `Typed` adds what a call in flight needs for its next statement (a booking, an order from `AcceptOrder` on) |
| `SettlesOnce` | `Spec => SettledOnce` | only `Collect` writes `pay`, and only over "none"; the row transformers keep it |
| `WorkflowUnskippable` | `Spec => []OrderOnlyAfterHandover` | `Unskipped`: what a request achieved at the door it keeps, so a call that read it (a verification, an acceptance) may rely on it however stale the read, and an order inherits it |
| `RequestsAreOrderedOnce` | `Spec => []OneOrderUnlessReopened`: one order per request if no assignment or verification overlaps an acceptance (`NothingReopens`) | `Single`: while a call is between its claim and its commit it alone has the booking, and a booking that has an order is closed |
| `ClaimsAreExclusive` | `Spec => ClaimedByOne` | a claim is one conditional `UPDATE`; of the other writers of a row only `Assign` names the partner |
| `QuotesFollow`, `OrdersBillTheSettlement`, `ClosedIsFinal` | `QuoteFollowsRequest`, `OrderBillsTheSettlement`, `ClosedStaysClosed`, which say: if of the handlers that move a request only repeats of one overlap (`OnlyRepeatsOverlap`), with crashes | `Told` adds to `Single` what makes a stale read harmless then: the calls of one booking that move it are all of one kind (`MoversApart`), none of them moves a closed request (`ClosedApart`), what an acceptance read of the money is still so when it bills it (`ReadsTheMoney`), and who places an order finds its request unlinked (`PlacesUnlinked`) |
| `PromiseIsKept` | `Spec => KeepsPromise`, the refinement of `Handover`, under the same condition | from `Told`: every step leaves all stages as they are or moves one booking along one edge of `Handover` (`CallKeepsPromise`, `HandsOverOnce`) |
| `ClaimsAreFollowedUp` | `Spec => []ClaimsFollowedUp`: unless handlers die, a COMPLETED request without an order has a call placing it; under any overlap | inductive as it stands: only a claim completes a request, and the call goes on from it to the commit that writes the order (`PlacingGoesOn`), whatever others write over the row meanwhile |
| `OrdersPayAPriceThatStands` | `OrderPaysThePrice` if `OnlyRepeatsOverlap` and no step changes the price of a settled request (`PriceStands`) | `SettledByPrice`: what was collected fits the price it was checked against, and by `Told` the order is billed by that settlement. So a verification after the collection is the violation's only cause |
| `PaymentsTypeCorrect` | `Spec => []TypeOK` | `Typed`: all but consolidated and custom invoices are about one order |
| `CouponNeverOverdrawn` | `Spec => []NeverOverdrawn` | inductive as it stands: the `WHERE` of the increment is all it takes |
| `NumbersStayFresh` | `Spec => []NumbersAreFresh` | `Counted`: no number on an invoice or in a call's hands exceeds the counter |
| `SeriesStaysUnbroken` | `SeriesUnbroken` if `Exclusive` and not `Faults` | `Apart` (calls in flight are about different orders) makes `Clean` inductive: what was free to bill when read still is, so with a fresh number no insert is refused, and no number is lost |
| `DiscountsAreRedeemed` | `Spec => []DiscountsRedeemed` | `Backed`: the orders with a code's discount and the payments between its redemption and its write are together no more than its redemptions; by the cardinality lemmas `OneMore` and `OneLess` |
| `ReceiptsAreIssuedOnce` | `OneReceiptPerPayment` if `Exclusive` and no amount is one that a receipt would round (`WholePaise`), with crashes | `Unreceipted`: what a call found missing it is still the only one to issue. Without `WholePaise` the lookup compares an amount with its rounded self |
| `FeesAreChargedOnce` | `FeeOncePerCancellation` if `Exclusive`, with crashes | `FeesFit`: an order's fees, and one more while a call owes its invoice (`Charges`), are no more than its cancellations. Single statements of the office are not held up by a call on the order, so a call about to cancel owes a fee as soon as somebody else has cancelled |
| `SeriesAreKept` | `Spec => NumbersInSeries`, the refinement of `NumberSeries`, for invoices and for receipts | `Counted`, and that no two calls hold one number and no held number is on a row: every step takes the next number, puts one on a row, gives one up, or leaves the series alone |
| `NumbersAreUsedOnce` | no number is on two invoices or two receipts | the same invariant, carried over to the rows |
| `PaymentsAreFollowedUp` | unless calls die, an order PAID with an amount has its receipt or a call that is about to look for it or issue it; under any overlap | `PaymentsFollowedUp`: the call that marks an order paid keeps it and goes on, whether its invoice could be issued or not (`Billed`), up to the receipt; a call that looks for the receipt issues it unless it is there |
| `BilledOnceIfLinesAreChecked` | `BilledOnce` if `Exclusive` and `generateForOrder` refused orders on a line of a consolidated invoice (`LooksAtLines`) | `Untaken`: what a call is about to bill in one way is not billed the other way. So the missing check is the violation's only cause |
| `NotificationsTypeCorrect`, `RowsTellTheTruth`, `FailuresAreFinal`, `ReadIsFinal` | the four safety properties of `Notifications` | the invariants say which job state goes with which row state, and that the id on a row is that of a message which has been accepted; `FAILED` is written only when no attempt is left or by a report that the provider gave up |
| `SentOncePerFault` | a message is handed to the provider at most once more than there were faults | `SentForRun`: an attempt that failed cleanly sent nothing, so only a fault between the sending and the record of it lets the next attempt send again |
| `QueuedRowsHaveJobs` | a QUEUED row has a job that resolves it, unless a fault took its last step | `QueueOK` pairs each state of a row with the states of its job |
| `RatesTypeCorrect`, `RatesPricesAddUp` | always | `PricesAddUp` is arithmetic: the bounds of rounding to half a paisa either way, for every rate, percentage and weight. An all-in figure comes back exactly whenever some taxable amount and its GST make it (`OutAndBackExact`), and within a paisa otherwise |
| `RatesOneSlabPerWeight`, `RatesQuotedOnTheirBasis`, `RatesImportIsWhole` | if the calls are apart | `InTurn`: of staff's calls one is in flight, what it read when it decided is still true when it writes (`ReadStillTrue`, `WriteStillFits`), active ranges do not meet (`NoneMeet`), and a sheet's rates have the flag of the sheet (`OnItsBasis`) |
| `TrackingTypeCorrect`, `TrackingInvitesOnce` | always | an invitation is mailed only by the step that inserts its row, and the row is unique (`MailedOnce`) |
| `TrackingStatusIsNewest` | if no carrier answers with a summary (`Summarised = {}`) and the calls are apart | `InTime`: the one call in flight holds the newest event it read, so what it writes is never older than what is stored, however late the scans come |
| `LookupsAnswerAsTold`, `CarriersWithTimesAreShown` | as long as at the carriers with histories a parcel's status is the one latest event of its history (`ScansTell`, a premise on the carriers), with calls apart and until staff call, a lookup there answers with the status the carrier reported; if every carrier gives histories, `CarrierStatusShown` holds | `BeforeStaff`: all events are scans of the mapped parcel and the status is that of the newest (`FromTheCarrier`), and a lookup between the reply and the answer holds all that is stored and something newer or nothing (`ToldRight`). So a status is hidden by made-up times, or by a history in which the event that brought it is undated, or not later than the others |
| `TrackingShowsCorrections` | calls apart and Redis up | `Showing`: a cached answer has every correction of its shipment, unless the call that corrected is about to delete the entry; and what a lookup is about to cache has them all, since no correction can come between its read and its write |
| `DeliveriesAreFollowedUp` | with Redis up and no handler dying, a delivered shipment has its customer invited or a call on its way to that; under any overlap | inductive as it stands: whoever writes DELIVERED goes on to the announcement with it (`DeliveryStarts`), and no other call can take its place on that way (`OnTheWay`) |
| `QuotesTypeCorrect` | `QSpec => []QTypeOK` | `QTyped`, on top of the door's `Typed`: every step of the door is a step of `PickupRequests` |
| `OneDeal` | `QSpec => []SameDeal` | `Sold`: no pickup request ever hangs on a legacy quote, so the door writes none of them, and what a call is about to link is the order of the one Pickup row |
| `RejectionsClose` | `RejectionClosesRequest`, needing only that the rejection lives | it ends from the look, having seen no open request, or from the cancellation |
| `DealsAreFinal` | `DealIsFinal` if at the door no assignment, arrival, verification or rejection overlaps an acceptance (`AcceptsApart`); acceptances may overlap each other | `Final` adds to `Sold` that nobody decides over an accepted quote (`Undecided`): not staff with a price or a rejection, not the door, whose requests are closed by then, and of several acceptances one alone is past its claim of a request that stays closed (`ClaimAlone`). That several selections may overlap does no harm: a second link writes the same order |
| `QuotesOneOrder` | `OneOrderPerQuote` if `AcceptsApart` | `Once` adds to `Final` that nothing at the door (`DoorSellsOnce`) or at the desk (`DeskSellsOnce`) still leads to an order of a quote that has one, and that of all sales of a quote one is past its claim: the order is then inserted only for a quote without one, and the loser of two selections stops at the claim |
| `AcceptedQuotesAreFollowedUp` | unless desk calls die, a quote accepted, or with its Pickup, has its order or a call that has yet to link it; under any overlap | the door accepts a quote together with its order (`DoorLinks`); at the desk a sale goes on to its link, or finds a Pickup, whose call is then about to link (`SellerGoesOn`). The second conjunct, about the Pickup, is what makes it inductive |

Of the safety properties that the runs check only `NeverOverdrawn` is inductive: each speaks
of rows only, while the danger is in what a call has already decided. The invariants add
the calls.

Only model-checked: the liveness properties, which the prover cannot do: it reasons
neither about ENABLED nor about fairness. What it can do is proved: the *safety half* of
`CompletedGetsOrder`, `AcceptedGetsOrder`, `PaidGetsReceipt`, `DeliveryIsAskedAbout` and
`QueuedIsResolved` (the five theorems on what is followed up), that in no state the promise is open and nobody
is at work on it, for every number of calls and any overlap. That a call at work takes
its next step is the fairness assumed, and that its steps come to an end is what the
runs check. Induction over data and recursive operators are
out of its reach too; no module uses recursion so far.

## 6. Not modelled

`PROJECT.json` gives a reason per component. In short: rendering, mail, messaging,
carrier and storage adapters are I/O, present only as a choice to fail where a caller
cares; accounts, customers, B2B links, expenses and announcements are rows edited by single
statements, with no protocol between them; parsing of spreadsheets and documents is string
work that no property here is about. A second customer or financial year would add
independent copies of the invoice series.

More than half of the repository's lines are the frontend (screens over the API that keep no
state which the server does not check), and much of the rest is seeds, templates, DTOs,
adapters and listings. What the modules map is therefore a small share of all lines, though
it is most of the code that decides and writes: of the services with a protocol, the parts
left out are named per component.
