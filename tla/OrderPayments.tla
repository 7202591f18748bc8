---------------------------- MODULE OrderPayments ----------------------------
(***************************************************************************)
(* What happens to an order once it exists, where OrdersService,           *)
(* CouponsService, InvoicesService and ReceiptsService meet: recording a   *)
(* payment redeems a coupon, writes the order, bills it and receipts it;   *)
(* the office bills by hand or a period at a time; cancelling bills a fee. *)
(*                                                                         *)
(* Each call is a chain of awaited statements with nothing around them.    *)
(* The reads that decide how a document is issued (is there one, the       *)
(* order, the settings) are one step, at the last of them.                 *)
(***************************************************************************)
EXTENDS Coupons, Documents

CONSTANTS
  Amounts,   \* what an admin may type as the amount paid, in tenths of a paisa
  Quoted,    \* orders with a priced quote: the others are priced by what was paid
  Calls,     \* the calls the server can have in flight at once
  MaxCalls,  \* bound: how many requests arrive in a behaviour
  Exclusive, \* whether calls on the same order never overlap
  Faults     \* whether a call may die between two statements

ASSUME PaymentAssumption ==
  /\ Amounts \subseteq Nat \ {0}
  /\ Quoted \subseteq Orders
  /\ MaxCalls \in Nat
  /\ Exclusive \in BOOLEAN /\ Faults \in BOOLEAN

VARIABLES
  order,     \* the Order rows
  calls,     \* per slot: the call in flight
  arrived,   \* how many requests have arrived
  cancelled  \* history: how often each order went from not cancelled to cancelled

vars == <<coupon, documents, order, calls, arrived, cancelled>>

\* status "OPEN" is PENDING or CONFIRMED.  payment "PENDING" is also FAILED and
\* REFUNDED, which differ from it in columns nothing here reads.  paid: paidAmount
\* (0: null).  awb: a shipment of the order has an external tracking number.
OrderRow ==
  [status : {"OPEN", "COMPLETED", "CANCELLED"}, payment : {"PENDING", "PAID"},
   paid : Nat, coupon : Codes \cup {NoCode}, awb : BOOLEAN]

NewOrder ==
  [status |-> "OPEN", payment |-> "PENDING", paid |-> 0, coupon |-> NoCode, awb |-> FALSE]

-----------------------------------------------------------------------------
(* Calls in flight *)

Ops == {"pay", "generate", "consolidate", "custom", "receipt", "cancel"}

Statements == {"redeem", "pay", "cancel",
               "bill read", "bill number", "bill insert", "bill print",
               "receipt read", "receipt number", "receipt insert", "receipt print"}

\* kind: of the invoice being raised.  number: the one allocated to the document.
CallRow ==
  [op : Ops \cup {"none"}, at : Statements \cup {"idle"}, orders : SUBSET Orders,
   kind : Kinds, amount : Nat, code : Codes \cup {NoCode}, number : Nat]

Idle == [op |-> "none", at |-> "idle", orders |-> {}, kind |-> "ORDER", amount |-> 0,
         code |-> NoCode, number |-> 0]

On(c, o) == calls[c].at # "idle" /\ o \in calls[c].orders

Request == arrived < MaxCalls /\ arrived' = arrived + 1

Begin(c, op, at, os, kind, amount, code) ==
  /\ Request
  /\ calls[c] = Idle
  /\ Exclusive => \A d \in Calls, o \in os : ~On(d, o)
  /\ calls' = [calls EXCEPT ![c] =
       [Idle EXCEPT !.op = op, !.at = at, !.orders = os, !.kind = kind,
                    !.amount = amount, !.code = code]]
  /\ UNCHANGED <<coupon, documents, order, cancelled>>

End(c) == calls' = [calls EXCEPT ![c] = Idle]

Goto(c, at) == calls' = [calls EXCEPT ![c].at = at]

\* The invoice part of a call is over, issued or not: a payment goes on to its
\* receipt whatever became of the invoice, the others end.
Billed(c) == IF calls[c].op = "pay" THEN Goto(c, "receipt read") ELSE End(c)

TheOrder(c) == CHOOSE o \in calls[c].orders : TRUE

-----------------------------------------------------------------------------
Init ==
  /\ CouponInit
  /\ DocumentsInit
  /\ order = [o \in Orders |-> NewOrder]
  /\ calls = [c \in Calls |-> Idle]
  /\ arrived = 0
  /\ cancelled = [o \in Orders |-> 0]

-----------------------------------------------------------------------------
(* OrdersService.updatePayment *)

\* amount 0: no paidAmount in the body.  acceptParcel's closing transaction and the
\* two documents it then asks for are a payment without a code: what it does about
\* the booking's coupon is left out.
BeginPay(c, o, amount, code) ==
  /\ code # NoCode => Validates(code)
  /\ Begin(c, "pay", IF code = NoCode THEN "pay" ELSE "redeem", {o}, "ORDER", amount, code)

\* Mutant: the increment without the limit in its WHERE.
RedeemUnlimited(c) ==
  /\ calls[c].at = "redeem"
  /\ coupon' = [coupon EXCEPT ![calls[c].code].used = @ + 1]
  /\ Goto(c, "pay")
  /\ UNCHANGED <<documents, order, arrived, cancelled>>

\* Mutant: the redemption is not counted.
RedeemUncounted(c) ==
  /\ calls[c].at = "redeem"
  /\ Goto(c, "pay")
  /\ UNCHANGED <<coupon, documents, order, arrived, cancelled>>

\* A refused redemption refuses the whole payment.
RedeemCoupon(c) ==
  /\ calls[c].at = "redeem"
  /\ IF Redeemable(calls[c].code)
     THEN Redeem(calls[c].code) /\ Goto(c, "pay")
     ELSE End(c) /\ UNCHANGED coupon
  /\ UNCHANGED <<documents, order, arrived, cancelled>>

\* A missing amount or code leaves the column as it is.
Paid(row, amount, code) ==
  [row EXCEPT !.payment = "PAID",
              !.paid = IF amount = 0 THEN @ ELSE amount,
              !.coupon = IF code = NoCode THEN @ ELSE code]

Pay(c) ==
  LET o == TheOrder(c) IN
  /\ calls[c].at = "pay"
  /\ order' = [order EXCEPT ![o] = Paid(@, calls[c].amount, calls[c].code)]
  /\ Goto(c, "bill read")
  /\ UNCHANGED <<coupon, documents, arrived, cancelled>>

\* updatePayment to any other status: one statement.
MarkUnpaid(o) ==
  /\ Request
  /\ order' = [order EXCEPT ![o] = [@ EXCEPT !.payment = "PENDING", !.paid = 0, !.coupon = NoCode]]
  /\ UNCHANGED <<coupon, documents, calls, cancelled>>

-----------------------------------------------------------------------------
(* Invoices: generateForOrder, issueConsolidated and issueCustom *)

BeginGenerate(c, o) == Begin(c, "generate", "bill read", {o}, "ORDER", 0, NoCode)

\* The orders of a period the office may tick: collectConsolidatable.
Consolidatable ==
  {o \in Orders : order[o].payment = "PAID" /\ order[o].status # "CANCELLED"}
    \ (OwnInvoiced \cup OnALine)

BeginConsolidate(c, os) ==
  /\ settings
  /\ os # {} /\ os \subseteq {o \in Consolidatable : o \in Quoted \/ order[o].paid > 0}
  /\ Begin(c, "consolidate", "bill number", os, "CONSOLIDATED", 0, NoCode)

BeginCustom(c) ==
  /\ settings
  /\ Begin(c, "custom", "bill number", {}, "CUSTOM", 0, NoCode)

\* Mutant: an earlier invoice of the order is not looked for.
MayBillAgain(call, o) ==
  /\ settings
  /\ call.kind = "ORDER" => order[o].status # "CANCELLED" /\ (o \in Quoted \/ order[o].paid > 0)

\* What generateForOrder (or, for a cancellation fee, issueCustom) lets pass.
MayBill(call, o) ==
  /\ settings
  /\ call.kind = "ORDER" =>
       /\ o \notin OwnInvoiced
       /\ order[o].status # "CANCELLED"
       /\ o \in Quoted \/ order[o].paid > 0

\* Mutant: a payment whose invoice cannot be issued goes no further.
ReadForBillOrStop(c) ==
  /\ calls[c].at = "bill read"
  /\ IF MayBill(calls[c], TheOrder(c)) THEN Goto(c, "bill number") ELSE End(c)
  /\ UNCHANGED <<coupon, documents, order, arrived, cancelled>>

ReadForBill(c) ==
  /\ calls[c].at = "bill read"
  /\ IF MayBill(calls[c], TheOrder(c)) THEN Goto(c, "bill number") ELSE Billed(c)
  /\ UNCHANGED <<coupon, documents, order, arrived, cancelled>>

NumberBill(c) ==
  /\ calls[c].at = "bill number"
  /\ \E n \in 1..MaxCalls :
       /\ NextInvoiceNumber(n)
       /\ calls' = [calls EXCEPT ![c] = [@ EXCEPT !.at = "bill insert", !.number = n]]
  /\ UNCHANGED <<coupon, invoices, receipts, receiptCounter, settings, order, arrived, cancelled>>

\* An insert a unique constraint refuses throws; its number is gone.
InsertBill(c) ==
  /\ calls[c].at = "bill insert"
  /\ IF Insertable(calls[c].kind, calls[c].orders, calls[c].number)
     THEN InsertInvoice(calls[c].kind, calls[c].orders, calls[c].number) /\ Goto(c, "bill print")
     ELSE Billed(c) /\ UNCHANGED invoices
  /\ UNCHANGED <<coupon, invoiceCounter, receipts, receiptCounter, settings, order, arrived,
                 cancelled>>

\* Rendering or the upload may fail, and the rest of issuing with it.
PrintBill(c) ==
  /\ calls[c].at = "bill print"
  /\ \/ UNCHANGED invoices
     \/ \E i \in invoices : i.number = calls[c].number /\ PrintInvoice(i)
  /\ Billed(c)
  /\ UNCHANGED <<coupon, invoiceCounter, receipts, receiptCounter, settings, order, arrived,
                 cancelled>>

-----------------------------------------------------------------------------
(* ReceiptsService.issueForOrderPayment *)

BeginReceipt(c, o) == Begin(c, "receipt", "receipt read", {o}, "ORDER", 0, NoCode)

\* Mutant: an earlier receipt for the same money is not looked for.
ReadForReceiptBlind(c) ==
  LET o == TheOrder(c) IN
  /\ calls[c].at = "receipt read"
  /\ IF order[o].payment = "PAID" /\ order[o].paid > 0
     THEN calls' = [calls EXCEPT ![c] = [@ EXCEPT !.at = "receipt number", !.amount = order[o].paid]]
     ELSE End(c)
  /\ UNCHANGED <<coupon, documents, order, arrived, cancelled>>

ReadForReceipt(c) ==
  LET o == TheOrder(c) IN
  /\ calls[c].at = "receipt read"
  /\ IF order[o].payment = "PAID" /\ order[o].paid > 0 /\ ~Receipted(o, order[o].paid)
     THEN calls' = [calls EXCEPT ![c] = [@ EXCEPT !.at = "receipt number", !.amount = order[o].paid]]
     ELSE End(c)
  /\ UNCHANGED <<coupon, documents, order, arrived, cancelled>>

NumberReceipt(c) ==
  /\ calls[c].at = "receipt number"
  /\ \E n \in 1..MaxCalls :
       /\ NextReceiptNumber(n)
       /\ calls' = [calls EXCEPT ![c] = [@ EXCEPT !.at = "receipt insert", !.number = n]]
  /\ UNCHANGED <<coupon, invoices, invoiceCounter, receipts, settings, order, arrived, cancelled>>

InsertTheReceipt(c) ==
  /\ calls[c].at = "receipt insert"
  /\ InsertReceipt(TheOrder(c), calls[c].amount, calls[c].number)
  /\ Goto(c, "receipt print")
  /\ UNCHANGED <<coupon, invoices, invoiceCounter, receiptCounter, settings, order, arrived,
                 cancelled>>

PrintTheReceipt(c) ==
  /\ calls[c].at = "receipt print"
  /\ \/ UNCHANGED receipts
     \/ \E r \in receipts : r.number = calls[c].number /\ PrintReceipt(r)
  /\ End(c)
  /\ UNCHANGED <<coupon, invoices, invoiceCounter, receiptCounter, settings, order, arrived,
                 cancelled>>

-----------------------------------------------------------------------------
(* OrdersService.cancel *)

MayCancel(row) == row.status = "OPEN" /\ ~row.awb

\* Mutant: an order that is already cancelled may be cancelled again.
BeginCancelAgain(c, o) ==
  /\ order[o].status # "COMPLETED" /\ ~order[o].awb
  /\ \E kind \in {"fee", "ORDER"} : Begin(c, "cancel", "cancel", {o}, kind, 0, NoCode)

\* The fee of the settings in force may be zero: no invoice then (kind "ORDER").
BeginCancel(c, o) ==
  /\ MayCancel(order[o])
  /\ \E kind \in {"fee", "ORDER"} : Begin(c, "cancel", "cancel", {o}, kind, 0, NoCode)

Cancel(c) ==
  LET o == TheOrder(c) IN
  /\ calls[c].at = "cancel"
  /\ order' = [order EXCEPT ![o].status = "CANCELLED"]
  /\ cancelled' = IF order[o].status = "CANCELLED" THEN cancelled
                  ELSE [cancelled EXCEPT ![o] = @ + 1]
  /\ IF calls[c].kind = "fee" THEN Goto(c, "bill read") ELSE End(c)
  /\ UNCHANGED <<coupon, documents, arrived>>

-----------------------------------------------------------------------------
(* Single statements of the office *)

\* OrdersService.update: the status, whatever it was.
UpdateStatus(o, status) ==
  /\ Request
  /\ order[o].status # status
  /\ order' = [order EXCEPT ![o].status = status]
  /\ cancelled' = IF status = "CANCELLED" THEN [cancelled EXCEPT ![o] = @ + 1] ELSE cancelled
  /\ UNCHANGED <<coupon, documents, calls>>

\* ShipmentsService.mapExternalTrackingNumber
MapAwb(o) ==
  /\ Request
  /\ ~order[o].awb
  /\ order' = [order EXCEPT ![o].awb = TRUE]
  /\ UNCHANGED <<coupon, documents, calls, cancelled>>

\* CompanySettingsService.update
FillSettings ==
  /\ Request
  /\ settings' = ~settings
  /\ UNCHANGED <<coupon, invoices, invoiceCounter, receipts, receiptCounter, order, calls,
                 cancelled>>

CancelAnInvoice(i) ==
  /\ Request
  /\ ~i.cancelled
  /\ CancelInvoice(i)
  /\ UNCHANGED <<coupon, invoiceCounter, receipts, receiptCounter, settings, order, calls,
                 cancelled>>

\* InvoicesService.readPdf: the repair renders and uploads, and may fail like issuing.
ReadInvoicePdf(i) ==
  /\ ~i.pdf
  /\ PrintInvoice(i) \/ UNCHANGED invoices
  /\ UNCHANGED <<coupon, invoiceCounter, receipts, receiptCounter, settings, order, calls,
                 arrived, cancelled>>

CouponChange ==
  /\ Request
  /\ \E k \in Codes : SetActive(k) \/ Expire(k)
  /\ UNCHANGED <<documents, order, calls, cancelled>>

-----------------------------------------------------------------------------
Die(c) ==
  /\ Faults
  /\ calls[c] # Idle
  /\ End(c)
  /\ UNCHANGED <<coupon, documents, order, arrived, cancelled>>

StartCall(c) ==
  \/ \E o \in Orders :
       \/ \E amount \in Amounts \cup {0}, code \in Codes \cup {NoCode} :
            BeginPay(c, o, amount, code)
       \/ BeginGenerate(c, o)
       \/ BeginReceipt(c, o)
       \/ BeginCancel(c, o)
  \/ \E os \in SUBSET Orders : BeginConsolidate(c, os)
  \/ BeginCustom(c)

RunCall(c) ==
  \/ RedeemCoupon(c)
  \/ Pay(c)
  \/ ReadForBill(c)
  \/ NumberBill(c)
  \/ InsertBill(c)
  \/ PrintBill(c)
  \/ ReadForReceipt(c)
  \/ NumberReceipt(c)
  \/ InsertTheReceipt(c)
  \/ PrintTheReceipt(c)
  \/ Cancel(c)

Office ==
  \/ \E o \in Orders :
       \/ MarkUnpaid(o)
       \/ MapAwb(o)
       \/ \E status \in {"OPEN", "COMPLETED", "CANCELLED"} : UpdateStatus(o, status)
  \/ FillSettings
  \/ \E i \in invoices : CancelAnInvoice(i) \/ ReadInvoicePdf(i)
  \/ CouponChange

Next == (\E c \in Calls : StartCall(c) \/ RunCall(c) \/ Die(c)) \/ Office

Spec == Init /\ [][Next]_vars

\* Node runs every pending continuation.
FairSpec == Spec /\ \A c \in Calls : WF_vars(RunCall(c))

-----------------------------------------------------------------------------
TypeOK ==
  /\ coupon \in [Codes -> CouponRow]
  /\ DocumentsType
  /\ order \in [Orders -> OrderRow]
  /\ calls \in [Calls -> CallRow]
  /\ arrived \in 0..MaxCalls
  /\ cancelled \in [Orders -> Nat]

\* A number handed to a call is on no invoice yet and held by no other call, so no
\* invoice is refused, and none replaced, for its number (nextSequenceNumber's
\* single upsert: "concurrent callers always get distinct values").
NumbersAreFresh ==
  \A c \in Calls : calls[c].at = "bill insert" =>
    /\ \A i \in invoices : i.number # calls[c].number
    /\ \A d \in Calls \ {c} : calls[d].at = "bill insert" => calls[d].number # calls[c].number

\* Numbers in the hands of calls at that statement, and what was issued with one.
HeldAt(at) == {calls[c].number : c \in {d \in Calls : calls[d].at = at}}

IssuedInvoices ==
  {[number |-> i.number, says |-> [kind |-> i.kind, orders |-> i.orders]] : i \in invoices}

IssuedReceipts ==
  {[number |-> r.number, says |-> [order |-> r.order, amount |-> r.amount]] : r \in receipts}

InvoiceSeries == INSTANCE NumberSeries WITH
  counter <- invoiceCounter, held <- HeldAt("bill insert"), documents <- IssuedInvoices

ReceiptSeries == INSTANCE NumberSeries WITH
  counter <- receiptCounter, held <- HeldAt("receipt insert"), documents <- IssuedReceipts

\* Both series are what a series promises: numbers are taken one by one, each is in one
\* call's hands, and ends on one document, which says for ever what it said, or on
\* none (nextSequenceNumber: "concurrent callers always get distinct values";
\* InvoicesService.cancel keeps the row).
NumbersInSeries == InvoiceSeries!Spec /\ ReceiptSeries!Spec

\* A discount that updatePayment puts on an order is backed by a redemption of its
\* code: the redemption comes before the write, so a failure in between wastes one and
\* never gives an unredeemed discount ("claimed before the payment is written").
DiscountsRedeemed ==
  \A k \in Codes : Cardinality({o \in Orders : order[o].coupon = k}) <= coupon[k].used

\* The series has no hole: every number taken is on an invoice, cancelled or not,
\* or about to be (InvoicesService.cancel: "GST requires the series to be
\* unbroken").
SeriesUnbroken ==
  \A n \in 1..invoiceCounter :
    \/ \E i \in invoices : i.number = n
    \/ \E c \in Calls : calls[c].at = "bill insert" /\ calls[c].number = n

\* One payment, one receipt: none for the same order and amount as another
\* (issueForOrderPayment: an existing one for the "same order and amount is returned
\* as-is").
OneReceiptPerPayment ==
  \A r, s \in receipts : r.order = s.order /\ r.amount = s.amount => r = s

\* A cancellation is charged for once: an order has no more fee invoices than it
\* was cancelled times.
FeeOncePerCancellation ==
  \A o \in Orders :
    Cardinality({i \in invoices : i.kind = "fee" /\ i.orders = {o}}) <= cancelled[o]

\* Who has paid gets it in writing, whatever became of the invoice: unless the
\* payment is unmarked or its amount changed meanwhile, there is a receipt of it.
PaidGetsReceipt ==
  \A o \in Orders, amount \in Amounts :
    (order[o].payment = "PAID" /\ order[o].paid = amount)
      ~> (Receipted(o, ToPaise(amount)) \/ order[o].payment # "PAID" \/ order[o].paid # amount)

\* An order is billed once: not on an invoice of its own and on a line of a
\* consolidated one (issueConsolidated: "the same order must never appear on two
\* tax documents").
BilledOnce == OwnInvoiced \cap OnALine = {}
=============================================================================
