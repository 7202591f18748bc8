------------------------ MODULE OrderPayments_proofs ------------------------
(***************************************************************************)
(* What OrderPayments guarantees for every number of orders, codes and     *)
(* calls in flight.                                                        *)
(***************************************************************************)
EXTENDS OrderPayments, TLAPS

-----------------------------------------------------------------------------
(* Types *)

\* What a call must be for its next statement to make sense: all but a
\* consolidated or custom invoice are about one order, and only those two start
\* with a number; a redemption has a code.
Issuing == {"bill number", "bill insert", "bill print"}

Periodic == {"consolidate", "custom"}

CallOK(call) ==
  /\ call \in CallRow
  /\ call.at # "idle" /\ call.op \notin Periodic => \E o \in Orders : call.orders = {o}
  /\ call.at \in Statements \ Issuing => call.op \notin Periodic
  /\ call.at = "redeem" => call.code \in Codes
  /\ call.op = "consolidate" <=> call.kind = "CONSOLIDATED"

Typed == TypeOK /\ \A c \in Calls : CallOK(calls[c])

LEMMA IdleOK == CallOK(Idle) /\ Idle.at = "idle"
BY CouponAssumption DEF CallOK, Idle, CallRow, Kinds, Statements, Ops, Periodic, Issuing

\* A call in flight that is not a consolidated or custom invoice has its order.
LEMMA TheOrderOK ==
  ASSUME NEW c \in Calls, CallOK(calls[c]), calls[c].at \in Statements \ Issuing
  PROVE  TheOrder(c) \in Orders /\ calls[c].orders = {TheOrder(c)}
<1>1. PICK o \in Orders : calls[c].orders = {o}
  BY DEF CallOK, Statements
<1>. QED BY <1>1 DEF TheOrder

\* Moving a call to a later statement.
LEMMA MovedOK ==
  ASSUME NEW call, CallOK(call), call.at # "idle", NEW at \in Statements \ {"redeem"},
         call.op \notin Periodic \/ at \in Issuing,
         NEW number \in Nat, NEW amount \in Nat
  PROVE  /\ CallOK([call EXCEPT !.at = at])
         /\ CallOK([call EXCEPT !.at = at, !.number = number])
         /\ CallOK([call EXCEPT !.at = at, !.amount = amount])
BY DEF CallOK, CallRow

LEMMA UpdatedCalls ==
  ASSUME Typed, NEW c \in Calls, NEW row, CallOK(row), calls' = [calls EXCEPT ![c] = row]
  PROVE  /\ calls' \in [Calls -> CallRow]
         /\ \A d \in Calls : CallOK(calls'[d])
BY DEF Typed, TypeOK, CallOK

LEMMA BilledOK ==
  ASSUME Typed, NEW c \in Calls, calls[c].at \in Issuing \cup {"bill read"}, Billed(c)
  PROVE  /\ calls' \in [Calls -> CallRow]
         /\ \A d \in Calls : CallOK(calls'[d])
<1>0. CallOK(calls[c]) /\ calls[c].at # "idle"
  BY DEF Typed, Issuing
<1>1. CASE calls[c].op = "pay"
  <2>1. CallOK([calls[c] EXCEPT !.at = "receipt read"])
    <3>. HIDE DEF CallOK
    <3>. QED BY <1>0, <1>1, MovedOK DEF Statements, Periodic
  <2>. QED BY <1>1, <2>1, UpdatedCalls DEF Billed, Goto
<1>2. CASE calls[c].op # "pay"
  BY <1>2, IdleOK, UpdatedCalls DEF Billed, End
<1>. QED BY <1>1, <1>2

LEMMA EndOK ==
  ASSUME Typed, NEW c \in Calls, End(c)
  PROVE  /\ calls' \in [Calls -> CallRow]
         /\ \A d \in Calls : CallOK(calls'[d])
BY IdleOK, UpdatedCalls DEF End

LEMMA BlankTypes ==
  /\ \A kind \in Kinds, os \in SUBSET Orders, n \in Nat :
       [BlankInvoice EXCEPT !.number = n, !.kind = kind, !.orders = os] \in InvoiceRow
  /\ \A o \in Orders, amount \in Nat, n \in Nat :
       [BlankReceipt(o) EXCEPT !.number = n, !.amount = ToPaise(amount)] \in ReceiptRow
<1>1. \A amount \in Nat : ToPaise(amount) \in Nat
  BY DEF ToPaise
<1>. QED BY <1>1 DEF BlankInvoice, BlankReceipt, InvoiceRow, ReceiptRow, Kinds

LEMMA TypedInit == Init => Typed
BY IdleOK, CouponAssumption, PaymentAssumption
   DEF Init, Typed, TypeOK, CouponInit, DocumentsInit, CouponRow, DocumentsType, CallOK,
       NewOrder, OrderRow

\* A request that arrives.
LEMMA BeginOK ==
  ASSUME Typed, NEW c \in Calls, NEW op \in Ops, NEW at \in Statements,
         NEW os \in SUBSET Orders, NEW kind \in Kinds, NEW amount \in Nat,
         NEW code \in Codes \cup {NoCode}, Begin(c, op, at, os, kind, amount, code),
         op \notin Periodic => \E o \in Orders : os = {o},
         op \in Periodic => at \in Issuing,
         at = "redeem" => code \in Codes,
         op = "consolidate" <=> kind = "CONSOLIDATED"
  PROVE  Typed'
<1>. DEFINE row == [Idle EXCEPT !.op = op, !.at = at, !.orders = os, !.kind = kind,
                                !.amount = amount, !.code = code]
<1>1. Idle \in CallRow
  BY IdleOK DEF CallOK
<1>2. /\ row \in CallRow /\ row.op = op /\ row.at = at /\ row.orders = os /\ row.kind = kind
      /\ row.code = code
  BY <1>1 DEF CallRow
<1>3. CallOK(row)
  BY <1>2 DEF CallOK
<1>4. calls' = [calls EXCEPT ![c] = row]
  BY DEF Begin
<1>5. /\ calls' \in [Calls -> CallRow]
      /\ \A d \in Calls : CallOK(calls'[d])
  <2>. HIDE DEF row
  <2>. QED BY <1>3, <1>4, UpdatedCalls
<1>6. arrived' \in 0..MaxCalls
  BY PaymentAssumption DEF Begin, Request, Typed, TypeOK
<1>. QED BY <1>5, <1>6 DEF Typed, TypeOK, Begin, documents, DocumentsType

LEMMA PaidOK ==
  ASSUME NEW row \in OrderRow, NEW amount \in Nat, NEW code \in Codes \cup {NoCode}
  PROVE  Paid(row, amount, code) \in OrderRow
BY DEF Paid, OrderRow

\* The rows of the other tables, whichever single statement writes them.
LEMMA TypedRows ==
  ASSUME Typed, NEW o \in Orders
  PROVE  /\ [order EXCEPT ![o].status = "CANCELLED"] \in [Orders -> OrderRow]
         /\ [order EXCEPT ![o].awb = TRUE] \in [Orders -> OrderRow]
         /\ [order EXCEPT ![o] = [@ EXCEPT !.payment = "PENDING", !.paid = 0, !.coupon = NoCode]]
              \in [Orders -> OrderRow]
         /\ \A status \in {"OPEN", "COMPLETED", "CANCELLED"} :
              [order EXCEPT ![o].status = status] \in [Orders -> OrderRow]
         /\ [cancelled EXCEPT ![o] = @ + 1] \in [Orders -> Nat]
<1>1. order \in [Orders -> OrderRow] /\ cancelled \in [Orders -> Nat]
  BY DEF Typed, TypeOK
<1>2. /\ \A status \in {"OPEN", "COMPLETED", "CANCELLED"} :
           [order[o] EXCEPT !.status = status] \in OrderRow
      /\ [order[o] EXCEPT !.awb = TRUE] \in OrderRow
      /\ [order[o] EXCEPT !.payment = "PENDING", !.paid = 0, !.coupon = NoCode] \in OrderRow
  BY <1>1 DEF OrderRow
<1>. QED BY <1>1, <1>2

LEMMA TypedInvoices ==
  ASSUME Typed, NEW i \in invoices
  PROVE  [i EXCEPT !.pdf = TRUE] \in InvoiceRow /\ [i EXCEPT !.cancelled = TRUE] \in InvoiceRow
BY DEF Typed, TypeOK, DocumentsType, InvoiceRow

LEMMA StartTyped == ASSUME Typed, NEW c \in Calls, StartCall(c) PROVE Typed'
<1>1. ASSUME NEW o \in Orders, NEW amount \in Amounts \cup {0}, NEW code \in Codes \cup {NoCode},
             BeginPay(c, o, amount, code)
      PROVE  Typed'
  <2>1. amount \in Nat
    BY PaymentAssumption
  <2>. QED BY <1>1, <2>1, BeginOK, CouponAssumption DEF BeginPay, Ops, Statements, Kinds, Periodic
<1>2. ASSUME NEW o \in Orders, BeginGenerate(c, o) PROVE Typed'
  BY <1>2, BeginOK DEF BeginGenerate, Ops, Statements, Kinds, Periodic
<1>3. ASSUME NEW o \in Orders, BeginReceipt(c, o) PROVE Typed'
  BY <1>3, BeginOK DEF BeginReceipt, Ops, Statements, Kinds, Periodic
<1>4. ASSUME NEW o \in Orders, BeginCancel(c, o) PROVE Typed'
  <2>1. PICK kind \in {"fee", "ORDER"} : Begin(c, "cancel", "cancel", {o}, kind, 0, NoCode)
    BY <1>4 DEF BeginCancel
  <2>. QED BY <2>1, BeginOK DEF Ops, Statements, Kinds, Periodic
<1>5. ASSUME NEW os \in SUBSET Orders, BeginConsolidate(c, os) PROVE Typed'
  BY <1>5, BeginOK DEF BeginConsolidate, Ops, Statements, Kinds, Periodic, Issuing
<1>6. ASSUME BeginCustom(c) PROVE Typed'
  BY <1>6, BeginOK DEF BeginCustom, Ops, Statements, Kinds, Periodic, Issuing
<1>. QED BY <1>1, <1>2, <1>3, <1>4, <1>5, <1>6 DEF StartCall

\* A call that goes to another statement, with a number or an amount.
LEMMA GotoOK ==
  ASSUME Typed, NEW c \in Calls, calls[c].at # "idle", NEW at \in Statements \ {"redeem"},
         calls[c].op \notin Periodic \/ at \in Issuing, NEW number \in Nat, NEW amount \in Nat,
         \/ Goto(c, at)
         \/ calls' = [calls EXCEPT ![c] = [@ EXCEPT !.at = at, !.number = number]]
         \/ calls' = [calls EXCEPT ![c] = [@ EXCEPT !.at = at, !.amount = amount]]
  PROVE  /\ calls' \in [Calls -> CallRow]
         /\ \A d \in Calls : CallOK(calls'[d])
<1>1. CallOK(calls[c])
  BY DEF Typed
<1>2. /\ CallOK([calls[c] EXCEPT !.at = at])
      /\ CallOK([calls[c] EXCEPT !.at = at, !.number = number])
      /\ CallOK([calls[c] EXCEPT !.at = at, !.amount = amount])
  <2>. HIDE DEF CallOK
  <2>. QED BY <1>1, MovedOK
<1>3. CASE Goto(c, at)
  BY <1>2, <1>3, UpdatedCalls DEF Goto
<1>4. CASE calls' = [calls EXCEPT ![c] = [@ EXCEPT !.at = at, !.number = number]]
  BY <1>2, <1>4, UpdatedCalls
<1>5. CASE calls' = [calls EXCEPT ![c] = [@ EXCEPT !.at = at, !.amount = amount]]
  BY <1>2, <1>5, UpdatedCalls
<1>. QED BY <1>3, <1>4, <1>5

LEMMA RunTyped == ASSUME Typed, NEW c \in Calls, RunCall(c) PROVE Typed'
<1>. USE DEF documents, DocumentsType
<1>0. /\ calls[c] \in CallRow /\ CallOK(calls[c])
      /\ \A o \in Orders : order[o] \in OrderRow
  BY DEF Typed, TypeOK
<1>1. CASE RedeemCoupon(c)
  <2>1. calls[c].code \in Codes /\ calls[c].op \notin Periodic /\ calls[c].at = "redeem"
    BY <1>0, <1>1 DEF RedeemCoupon, CallOK, Statements, Issuing
  <2>2. coupon' \in [Codes -> CouponRow]
    BY <1>1, <2>1 DEF RedeemCoupon, Redeem, Typed, TypeOK, CouponRow
  <2>3. Goto(c, "pay") \/ End(c)
    BY <1>1 DEF RedeemCoupon
  <2>4. calls' \in [Calls -> CallRow] /\ \A d \in Calls : CallOK(calls'[d])
    <3>. HIDE DEF documents, DocumentsType
    <3>. QED BY <2>1, <2>3, GotoOK, EndOK DEF Statements
  <2>. QED BY <1>1, <2>2, <2>4 DEF RedeemCoupon, Typed, TypeOK
<1>2. CASE Pay(c)
  <2>1. TheOrder(c) \in Orders /\ calls[c].op \notin Periodic
    BY <1>0, <1>2, TheOrderOK DEF Pay, Statements, Issuing, CallOK
  <2>2. order' \in [Orders -> OrderRow]
    <3>1. Paid(order[TheOrder(c)], calls[c].amount, calls[c].code) \in OrderRow
      BY <1>0, <2>1, PaidOK DEF CallRow
    <3>. QED BY <1>2, <2>1, <3>1 DEF Pay, Typed, TypeOK
  <2>3. calls' \in [Calls -> CallRow] /\ \A d \in Calls : CallOK(calls'[d])
    BY <1>2, <2>1, GotoOK DEF Pay, Statements
  <2>. QED BY <1>2, <2>2, <2>3 DEF Pay, Typed, TypeOK
<1>3. CASE ReadForBill(c)
  <2>1. Goto(c, "bill number") \/ Billed(c)
    BY <1>3 DEF ReadForBill
  <2>2. calls' \in [Calls -> CallRow] /\ \A d \in Calls : CallOK(calls'[d])
    BY <1>3, <2>1, GotoOK, BilledOK DEF ReadForBill, Statements, Issuing
  <2>. QED BY <1>3, <2>2 DEF ReadForBill, Typed, TypeOK
<1>4. CASE NumberBill(c)
  <2>1. PICK n \in 1..MaxCalls :
        /\ NextInvoiceNumber(n)
        /\ calls' = [calls EXCEPT ![c] = [@ EXCEPT !.at = "bill insert", !.number = n]]
    BY <1>4 DEF NumberBill
  <2>0. n \in Nat
    BY PaymentAssumption
  <2>2. calls' \in [Calls -> CallRow] /\ \A d \in Calls : CallOK(calls'[d])
    BY <1>4, <2>0, <2>1, GotoOK DEF NumberBill, Statements, Issuing
  <2>. QED BY <1>4, <2>0, <2>1, <2>2 DEF NumberBill, NextInvoiceNumber, Typed, TypeOK
<1>5. CASE InsertBill(c)
  <2>1. invoices' \subseteq InvoiceRow
    <3>. DEFINE row == [BlankInvoice EXCEPT !.number = calls[c].number, !.kind = calls[c].kind,
                                            !.orders = calls[c].orders]
    <3>1. calls[c].kind \in Kinds /\ calls[c].orders \in SUBSET Orders /\ calls[c].number \in Nat
      BY <1>0 DEF CallRow
    <3>2. row \in InvoiceRow
      BY <3>1, BlankTypes
    <3>3. invoices' = invoices \/ invoices' = invoices \cup {row}
      BY <1>5 DEF InsertBill, InsertInvoice
    <3>. HIDE DEF row
    <3>. QED BY <3>2, <3>3 DEF Typed, TypeOK
  <2>2. Goto(c, "bill print") \/ Billed(c)
    BY <1>5 DEF InsertBill
  <2>3. calls' \in [Calls -> CallRow] /\ \A d \in Calls : CallOK(calls'[d])
    BY <1>5, <2>2, GotoOK, BilledOK DEF InsertBill, Statements, Issuing
  <2>. QED BY <1>5, <2>1, <2>3 DEF InsertBill, Typed, TypeOK
<1>6. CASE PrintBill(c)
  <2>1. invoices' \subseteq InvoiceRow
    BY <1>6, TypedInvoices DEF PrintBill, PrintInvoice, ReplaceInvoice, Typed, TypeOK
  <2>2. calls' \in [Calls -> CallRow] /\ \A d \in Calls : CallOK(calls'[d])
    BY <1>6, BilledOK DEF PrintBill, Issuing
  <2>. QED BY <1>6, <2>1, <2>2 DEF PrintBill, Typed, TypeOK
<1>7. CASE ReadForReceipt(c)
  <2>1. TheOrder(c) \in Orders /\ calls[c].op \notin Periodic
    BY <1>0, <1>7, TheOrderOK DEF ReadForReceipt, Statements, Issuing, CallOK
  <2>2. order[TheOrder(c)].paid \in Nat
    BY <1>0, <2>1 DEF OrderRow
  <2>3. calls' \in [Calls -> CallRow] /\ \A d \in Calls : CallOK(calls'[d])
    BY <1>7, <2>1, <2>2, GotoOK, EndOK DEF ReadForReceipt, Statements
  <2>. QED BY <1>7, <2>3 DEF ReadForReceipt, Typed, TypeOK
<1>8. CASE NumberReceipt(c)
  <2>1. PICK n \in 1..MaxCalls :
        /\ NextReceiptNumber(n)
        /\ calls' = [calls EXCEPT ![c] = [@ EXCEPT !.at = "receipt insert", !.number = n]]
    BY <1>8 DEF NumberReceipt
  <2>0. n \in Nat
    BY PaymentAssumption
  <2>2. calls[c].op \notin Periodic
    BY <1>0, <1>8 DEF NumberReceipt, CallOK, Statements, Issuing
  <2>3. calls' \in [Calls -> CallRow] /\ \A d \in Calls : CallOK(calls'[d])
    BY <1>8, <2>0, <2>1, <2>2, GotoOK DEF NumberReceipt, Statements
  <2>. QED BY <1>8, <2>0, <2>1, <2>3 DEF NumberReceipt, NextReceiptNumber, Typed, TypeOK
<1>9. CASE InsertTheReceipt(c)
  <2>1. TheOrder(c) \in Orders /\ calls[c].op \notin Periodic
    BY <1>0, <1>9, TheOrderOK DEF InsertTheReceipt, Statements, Issuing, CallOK
  <2>2. receipts' \subseteq ReceiptRow
    <3>. DEFINE row == [BlankReceipt(TheOrder(c)) EXCEPT !.number = calls[c].number,
                                                        !.amount = ToPaise(calls[c].amount)]
    <3>1. calls[c].amount \in Nat /\ calls[c].number \in Nat
      BY <1>0 DEF CallRow
    <3>2. row \in ReceiptRow
      BY <2>1, <3>1, BlankTypes
    <3>3. receipts' = receipts \cup {row}
      BY <1>9 DEF InsertTheReceipt, InsertReceipt
    <3>. HIDE DEF row
    <3>. QED BY <3>2, <3>3 DEF Typed, TypeOK
  <2>3. calls' \in [Calls -> CallRow] /\ \A d \in Calls : CallOK(calls'[d])
    BY <1>9, <2>1, GotoOK DEF InsertTheReceipt, Statements
  <2>. QED BY <1>9, <2>2, <2>3 DEF InsertTheReceipt, Typed, TypeOK
<1>10. CASE PrintTheReceipt(c)
  <2>1. receipts' \subseteq ReceiptRow
    <3>1. \A r \in receipts : [r EXCEPT !.pdf = TRUE] \in ReceiptRow
      BY DEF ReceiptRow, Typed, TypeOK
    <3>2. \/ receipts' = receipts
          \/ \E r \in receipts : receipts' = (receipts \ {r}) \cup {[r EXCEPT !.pdf = TRUE]}
      BY <1>10 DEF PrintTheReceipt, PrintReceipt
    <3>. QED BY <3>1, <3>2 DEF Typed, TypeOK
  <2>. QED BY <1>10, <2>1, EndOK DEF PrintTheReceipt, Typed, TypeOK
<1>11. CASE Cancel(c)
  <2>1. TheOrder(c) \in Orders /\ calls[c].op \notin Periodic
    BY <1>0, <1>11, TheOrderOK DEF Cancel, Statements, Issuing, CallOK
  <2>2. order' \in [Orders -> OrderRow] /\ cancelled' \in [Orders -> Nat]
    BY <1>11, <2>1, TypedRows DEF Cancel, Typed, TypeOK
  <2>3. calls' \in [Calls -> CallRow] /\ \A d \in Calls : CallOK(calls'[d])
    BY <1>11, <2>1, GotoOK, EndOK DEF Cancel, Statements
  <2>. QED BY <1>11, <2>2, <2>3 DEF Cancel, Typed, TypeOK
<1>. QED BY <1>1, <1>2, <1>3, <1>4, <1>5, <1>6, <1>7, <1>8, <1>9, <1>10, <1>11 DEF RunCall

LEMMA OfficeTyped == ASSUME Typed, Office PROVE Typed'
<1>. USE DEF documents, DocumentsType
<1>0. Request => arrived' \in 0..MaxCalls
  BY PaymentAssumption DEF Request, Typed, TypeOK
<1>1. ASSUME NEW o \in Orders, MarkUnpaid(o) PROVE Typed'
  BY <1>0, <1>1, TypedRows DEF MarkUnpaid, Typed, TypeOK
<1>2. ASSUME NEW o \in Orders, MapAwb(o) PROVE Typed'
  BY <1>0, <1>2, TypedRows DEF MapAwb, Typed, TypeOK
<1>3. ASSUME NEW o \in Orders, NEW status \in {"OPEN", "COMPLETED", "CANCELLED"},
             UpdateStatus(o, status)
      PROVE  Typed'
  BY <1>0, <1>3, TypedRows DEF UpdateStatus, Typed, TypeOK
<1>4. CASE FillSettings
  BY <1>0, <1>4 DEF FillSettings, Typed, TypeOK
<1>5. ASSUME NEW i \in invoices, CancelAnInvoice(i) PROVE Typed'
  BY <1>0, <1>5, TypedInvoices DEF CancelAnInvoice, CancelInvoice, ReplaceInvoice, Typed, TypeOK
<1>6. ASSUME NEW i \in invoices, ReadInvoicePdf(i) PROVE Typed'
  BY <1>6, TypedInvoices DEF ReadInvoicePdf, PrintInvoice, ReplaceInvoice, Typed, TypeOK
<1>7. CASE CouponChange
  <2>1. coupon' \in [Codes -> CouponRow]
    BY <1>7 DEF CouponChange, SetActive, Expire, Typed, TypeOK, CouponRow
  <2>. QED BY <1>0, <1>7, <2>1 DEF CouponChange, Typed, TypeOK
<1>. QED BY <1>1, <1>2, <1>3, <1>4, <1>5, <1>6, <1>7 DEF Office

LEMMA TypedStep == Typed /\ [Next]_vars => Typed'
<1>. SUFFICES ASSUME Typed, [Next]_vars PROVE Typed'
  OBVIOUS
<1>1. ASSUME NEW c \in Calls, Die(c) PROVE Typed'
  BY <1>1, EndOK DEF Die, Typed, TypeOK, documents, DocumentsType
<1>2. CASE UNCHANGED vars
  BY <1>2 DEF vars, documents, Typed, TypeOK, DocumentsType
<1>. QED BY <1>1, <1>2, StartTyped, RunTyped, OfficeTyped DEF Next

\* The rows of every table, and of the calls in flight, keep their types through
\* every overlap of calls and at whatever statement a call dies.
THEOREM PaymentsTypeCorrect == Spec => []TypeOK
<1>1. Typed => TypeOK
  BY DEF Typed
<1>. QED BY <1>1, TypedInit, TypedStep, PTL DEF Spec

-----------------------------------------------------------------------------
(* Coupons *)

\* A limited code never gives more redemptions than it has, however many payments
\* claim the last one at once: redeem's WHERE is all it takes.
THEOREM CouponNeverOverdrawn == Spec => []NeverOverdrawn
<1>1. Init => NeverOverdrawn
  BY CouponAssumption DEF Init, CouponInit, NeverOverdrawn
<1>2. Typed /\ NeverOverdrawn /\ [Next]_vars => NeverOverdrawn'
  <2>. SUFFICES ASSUME Typed, NeverOverdrawn, [Next]_vars PROVE NeverOverdrawn'
    OBVIOUS
  <2>0. coupon \in [Codes -> CouponRow]
    BY DEF Typed, TypeOK
  <2>1. ASSUME NEW c \in Calls, RedeemCoupon(c) PROVE NeverOverdrawn'
    <3>1. calls[c].code \in Codes
      BY <2>1 DEF RedeemCoupon, Typed, CallOK
    <3>. QED BY <2>0, <2>1, <3>1, CouponAssumption
             DEF RedeemCoupon, Redeem, Redeemable, HasLeft, NeverOverdrawn, CouponRow
  <2>2. CASE CouponChange
    BY <2>0, <2>2 DEF CouponChange, SetActive, Expire, NeverOverdrawn, CouponRow
  <2>3. CASE UNCHANGED coupon
    BY <2>3 DEF NeverOverdrawn
  <2>4. \/ UNCHANGED coupon
        \/ CouponChange
        \/ \E c \in Calls : RedeemCoupon(c)
    <3>1. ASSUME NEW c \in Calls, StartCall(c) PROVE UNCHANGED coupon
      BY <3>1 DEF StartCall, Begin, BeginPay, BeginGenerate, BeginReceipt, BeginCancel,
                  BeginConsolidate, BeginCustom
    <3>2. ASSUME NEW c \in Calls, RunCall(c) PROVE RedeemCoupon(c) \/ UNCHANGED coupon
      BY <3>2 DEF RunCall, Pay, ReadForBill, NumberBill, InsertBill, PrintBill, ReadForReceipt,
                  NumberReceipt, InsertTheReceipt, PrintTheReceipt, Cancel
    <3>3. Office => CouponChange \/ UNCHANGED coupon
      BY DEF Office, MarkUnpaid, MapAwb, UpdateStatus, FillSettings, CancelAnInvoice,
             ReadInvoicePdf
    <3>. QED BY <3>1, <3>2, <3>3 DEF Next, Die, vars
  <2>. QED BY <2>1, <2>2, <2>3, <2>4
<1>. QED BY <1>1, <1>2, TypedInit, TypedStep, PTL DEF Spec

-----------------------------------------------------------------------------
(* The invoice series *)

\* The invoices are the same but for the cancelled and pdf columns.
SameInvoices ==
  /\ \A i \in invoices : \E j \in invoices' :
       j.number = i.number /\ j.kind = i.kind /\ j.orders = i.orders
  /\ \A j \in invoices' : \E i \in invoices :
       j.number = i.number /\ j.kind = i.kind /\ j.orders = i.orders

LEMMA ReplacedOK ==
  ASSUME Typed, NEW i \in invoices, PrintInvoice(i) \/ CancelInvoice(i)
  PROVE  SameInvoices
<1>. DEFINE printed == [i EXCEPT !.pdf = TRUE]
            voided  == [i EXCEPT !.cancelled = TRUE]
<1>1. /\ printed.number = i.number /\ printed.kind = i.kind /\ printed.orders = i.orders
      /\ voided.number = i.number /\ voided.kind = i.kind /\ voided.orders = i.orders
  BY DEF Typed, TypeOK, DocumentsType, InvoiceRow
<1>2. \/ invoices' = (invoices \ {i}) \cup {printed}
      \/ invoices' = (invoices \ {i}) \cup {voided}
  BY DEF PrintInvoice, CancelInvoice, ReplaceInvoice
<1>. HIDE DEF printed, voided
<1>. QED BY <1>1, <1>2 DEF SameInvoices

\* What a step on call c other than NumberBill and InsertBill does to the series:
\* nothing, and c neither has a number to use nor, unless it dies, had one.
Quiet(c) ==
  /\ SameInvoices
  /\ invoiceCounter' = invoiceCounter
  /\ \A d \in Calls \ {c} : calls'[d] = calls[d]
  /\ calls'[c].at # "bill insert"
  /\ calls[c].at # "bill insert" \/ Faults

LEMMA Unmoved == UNCHANGED invoices => SameInvoices
BY DEF SameInvoices

LEMMA MovesOne ==
  ASSUME Typed, NEW c \in Calls, NEW row, calls' = [calls EXCEPT ![c] = row]
  PROVE  calls'[c] = row /\ \A d \in Calls \ {c} : calls'[d] = calls[d]
BY DEF Typed, TypeOK

LEMMA GotoMoves ==
  ASSUME Typed, NEW c \in Calls, NEW at, Goto(c, at)
  PROVE  /\ calls'[c].at = at
         /\ calls'[c].orders = calls[c].orders /\ calls'[c].kind = calls[c].kind
         /\ \A d \in Calls \ {c} : calls'[d] = calls[d]
<1>. DEFINE row == [calls[c] EXCEPT !.at = at]
<1>1. calls[c] \in CallRow
  BY DEF Typed, TypeOK
<1>2. row.at = at /\ row.orders = calls[c].orders /\ row.kind = calls[c].kind
  BY <1>1 DEF CallRow
<1>3. calls' = [calls EXCEPT ![c] = row]
  BY DEF Goto
<1>. HIDE DEF row
<1>. QED BY <1>2, <1>3, MovesOne

LEMMA EndMoves ==
  ASSUME Typed, NEW c \in Calls, End(c)
  PROVE  /\ calls'[c] = Idle /\ calls'[c].at = "idle"
         /\ \A d \in Calls \ {c} : calls'[d] = calls[d]
BY MovesOne, IdleOK DEF End

LEMMA BilledMoves ==
  ASSUME Typed, NEW c \in Calls, Billed(c)
  PROVE  /\ calls'[c].at \in {"idle", "receipt read"}
         /\ \A d \in Calls \ {c} : calls'[d] = calls[d]
BY GotoMoves, EndMoves DEF Billed

LEMMA BeginMoves ==
  ASSUME Typed, NEW c \in Calls, NEW op, NEW at, NEW os, NEW kind, NEW amount, NEW code,
         Begin(c, op, at, os, kind, amount, code)
  PROVE  /\ calls'[c].at = at /\ calls'[c].orders = os /\ calls'[c].kind = kind
         /\ calls[c].at = "idle"
         /\ \A d \in Calls \ {c} : calls'[d] = calls[d]
         /\ UNCHANGED documents
<1>. DEFINE row == [Idle EXCEPT !.op = op, !.at = at, !.orders = os, !.kind = kind,
                                !.amount = amount, !.code = code]
<1>1. row.at = at /\ row.orders = os /\ row.kind = kind
  BY DEF Idle
<1>2. calls' = [calls EXCEPT ![c] = row]
  BY DEF Begin
<1>3. calls[c].at = "idle" /\ UNCHANGED documents
  BY IdleOK DEF Begin
<1>. HIDE DEF row
<1>. QED BY <1>1, <1>2, <1>3, MovesOne

\* Every start of a call: it takes an idle slot, has no number, and touches no document.
Started(c) ==
  /\ calls[c].at = "idle"
  /\ calls'[c].at # "bill insert"
  /\ calls'[c].at = "bill number" =>
       \/ calls'[c].kind = "CUSTOM"
       \/ /\ calls'[c].kind = "CONSOLIDATED"
          /\ calls'[c].orders \cap OwnInvoiced = {} /\ calls'[c].orders \cap OnALine = {}
  /\ Exclusive => \A d \in Calls : calls[d].at # "idle" => calls'[c].orders \cap calls[d].orders = {}
  /\ \A d \in Calls \ {c} : calls'[d] = calls[d]
  /\ UNCHANGED documents

LEMMA StartStarts == ASSUME Typed, NEW c \in Calls, StartCall(c) PROVE Started(c)
<1>0. ASSUME NEW op, NEW at, NEW os, NEW kind, NEW amount, NEW code,
             Begin(c, op, at, os, kind, amount, code), at # "bill insert",
             at = "bill number" => \/ kind = "CUSTOM"
                                   \/ /\ kind = "CONSOLIDATED"
                                      /\ os \cap OwnInvoiced = {} /\ os \cap OnALine = {}
      PROVE  Started(c)
  <2>1. Exclusive => \A d \in Calls : calls[d].at # "idle" => os \cap calls[d].orders = {}
    BY <1>0 DEF Begin, On
  <2>2. /\ calls'[c].at = at /\ calls'[c].orders = os /\ calls'[c].kind = kind
        /\ calls[c].at = "idle"
        /\ \A d \in Calls \ {c} : calls'[d] = calls[d]
        /\ UNCHANGED documents
    BY <1>0, BeginMoves
  <2>. QED BY <1>0, <2>1, <2>2 DEF Started
<1>1. ASSUME NEW o \in Orders, NEW amount, NEW code, BeginPay(c, o, amount, code)
      PROVE  Started(c)
  BY <1>0, <1>1 DEF BeginPay
<1>2. ASSUME NEW o \in Orders, BeginGenerate(c, o) PROVE Started(c)
  BY <1>0, <1>2 DEF BeginGenerate
<1>3. ASSUME NEW o \in Orders, BeginReceipt(c, o) PROVE Started(c)
  BY <1>0, <1>3 DEF BeginReceipt
<1>4. ASSUME NEW o \in Orders, BeginCancel(c, o) PROVE Started(c)
  BY <1>0, <1>4 DEF BeginCancel
<1>5. ASSUME NEW os \in SUBSET Orders, BeginConsolidate(c, os) PROVE Started(c)
  <2>1. os \cap OwnInvoiced = {} /\ os \cap OnALine = {}
    BY <1>5 DEF BeginConsolidate, Consolidatable
  <2>. QED BY <1>0, <1>5, <2>1 DEF BeginConsolidate
<1>6. ASSUME BeginCustom(c) PROVE Started(c)
  BY <1>0, <1>6 DEF BeginCustom
<1>. QED BY <1>1, <1>2, <1>3, <1>4, <1>5, <1>6 DEF StartCall

\* A step of a call other than NumberBill and InsertBill: the series stays as it is,
\* the call keeps its orders, and if it may bill an order that has no invoice.
Moved(c) ==
  /\ SameInvoices
  /\ invoiceCounter' = invoiceCounter
  /\ \A d \in Calls \ {c} : calls'[d] = calls[d]
  /\ calls[c].at \notin {"idle", "bill insert"} /\ calls'[c].at # "bill insert"
  /\ calls'[c].at = "idle" \/ calls'[c].orders = calls[c].orders
  /\ calls'[c].at = "bill number" =>
       /\ calls'[c].kind # "CONSOLIDATED"
       /\ calls'[c].kind = "ORDER" => calls'[c].orders \cap OwnInvoiced = {}

LEMMA RunMoves ==
  ASSUME Typed, NEW c \in Calls, RunCall(c), ~NumberBill(c), ~InsertBill(c)
  PROVE  Moved(c)
<1>0. calls[c] \in CallRow /\ CallOK(calls[c])
  BY DEF Typed, TypeOK
<1>1. ASSUME NEW at, calls[c].at \notin {"idle", "bill insert"}, at \notin {"bill insert", "bill number"},
             Goto(c, at), UNCHANGED <<invoices, invoiceCounter>>
      PROVE  Moved(c)
  BY <1>1, GotoMoves, Unmoved DEF Moved
<1>2. ASSUME calls[c].at \notin {"idle", "bill insert"}, End(c), SameInvoices,
             invoiceCounter' = invoiceCounter
      PROVE  Moved(c)
  BY <1>2, EndMoves DEF Moved
<1>3. ASSUME calls[c].at \notin {"idle", "bill insert"}, Billed(c), SameInvoices,
             invoiceCounter' = invoiceCounter
      PROVE  Moved(c)
  <2>1. CASE calls[c].op = "pay"
    <3>1. Goto(c, "receipt read")
      BY <1>3, <2>1 DEF Billed
    <3>2. /\ calls'[c].at = "receipt read" /\ calls'[c].orders = calls[c].orders
          /\ \A d \in Calls \ {c} : calls'[d] = calls[d]
      BY <3>1, GotoMoves
    <3>. QED BY <1>3, <3>2 DEF Moved
  <2>2. CASE calls[c].op # "pay"
    BY <1>3, <2>2, <1>2 DEF Billed
  <2>. QED BY <2>1, <2>2
<1>4. CASE RedeemCoupon(c)
  BY <1>4, <1>1, <1>2, Unmoved DEF RedeemCoupon, documents
<1>5. CASE Pay(c)
  BY <1>5, <1>1 DEF Pay, documents
<1>6. CASE ReadForBill(c)
  <2>1. UNCHANGED <<invoices, invoiceCounter>> /\ calls[c].at = "bill read"
    BY <1>6 DEF ReadForBill, documents
  <2>2. CASE Goto(c, "bill number") /\ MayBill(calls[c], TheOrder(c))
    <3>1. calls[c].orders = {TheOrder(c)} /\ calls[c].op \notin Periodic
      BY <1>0, <2>1, TheOrderOK DEF Statements, Issuing, CallOK
    <3>2. calls[c].kind # "CONSOLIDATED"
      BY <1>0, <3>1 DEF CallOK, Periodic
    <3>3. calls[c].kind = "ORDER" => calls[c].orders \cap OwnInvoiced = {}
      BY <2>2, <3>1 DEF MayBill
    <3>. QED BY <2>1, <2>2, <3>2, <3>3, GotoMoves, Unmoved DEF Moved
  <2>3. CASE Billed(c)
    BY <1>3, <2>1, <2>3, Unmoved
  <2>. QED BY <1>6, <2>2, <2>3 DEF ReadForBill
<1>7. CASE PrintBill(c)
  <2>1. SameInvoices
    BY <1>7, ReplacedOK, Unmoved DEF PrintBill
  <2>. QED BY <1>7, <1>3, <2>1 DEF PrintBill
<1>8. CASE ReadForReceipt(c)
  <2>. DEFINE row == [calls[c] EXCEPT !.at = "receipt number", !.amount = order[TheOrder(c)].paid]
  <2>1. row.at = "receipt number" /\ row.orders = calls[c].orders
    BY <1>0 DEF CallRow
  <2>2. /\ UNCHANGED <<invoices, invoiceCounter>> /\ calls[c].at = "receipt read"
        /\ calls' = [calls EXCEPT ![c] = row] \/ End(c)
    BY <1>8 DEF ReadForReceipt, documents
  <2>. HIDE DEF row
  <2>3. CASE calls' = [calls EXCEPT ![c] = row]
    BY <2>1, <2>2, <2>3, MovesOne, Unmoved DEF Moved
  <2>. QED BY <1>2, <2>2, <2>3, Unmoved
<1>9. CASE NumberReceipt(c)
  <2>1. PICK n \in 1..MaxCalls :
          calls' = [calls EXCEPT ![c] = [@ EXCEPT !.at = "receipt insert", !.number = n]]
    BY <1>9 DEF NumberReceipt
  <2>. DEFINE row == [calls[c] EXCEPT !.at = "receipt insert", !.number = n]
  <2>2. row.at = "receipt insert" /\ row.orders = calls[c].orders
    BY <1>0 DEF CallRow
  <2>3. /\ UNCHANGED <<invoices, invoiceCounter>> /\ calls[c].at = "receipt number"
        /\ calls' = [calls EXCEPT ![c] = row]
    BY <1>9, <2>1 DEF NumberReceipt
  <2>. HIDE DEF row
  <2>. QED BY <2>2, <2>3, MovesOne, Unmoved DEF Moved
<1>10. CASE InsertTheReceipt(c)
  BY <1>10, <1>1 DEF InsertTheReceipt
<1>11. CASE PrintTheReceipt(c)
  BY <1>11, <1>2, Unmoved DEF PrintTheReceipt
<1>12. CASE Cancel(c)
  <2>1. UNCHANGED <<invoices, invoiceCounter>> /\ calls[c].at = "cancel"
    BY <1>12 DEF Cancel, documents
  <2>. QED BY <1>12, <1>1, <1>2, <2>1, Unmoved DEF Cancel
<1>. QED BY <1>4, <1>5, <1>6, <1>7, <1>8, <1>9, <1>10, <1>11, <1>12 DEF RunCall

LEMMA OfficeMoves ==
  ASSUME Typed, Office
  PROVE  SameInvoices /\ invoiceCounter' = invoiceCounter /\ calls' = calls
<1>1. ASSUME NEW i \in invoices, CancelAnInvoice(i) \/ ReadInvoicePdf(i)
      PROVE  SameInvoices /\ invoiceCounter' = invoiceCounter /\ calls' = calls
  BY <1>1, ReplacedOK, Unmoved DEF CancelAnInvoice, ReadInvoicePdf
<1>. QED BY <1>1, Unmoved DEF Office, MarkUnpaid, MapAwb, UpdateStatus, FillSettings, CouponChange, documents

\* No step but these can change the series or the numbers the calls hold.
LEMMA WhoNumbers ==
  ASSUME Typed, [Next]_vars
  PROVE  \/ SameInvoices /\ invoiceCounter' = invoiceCounter /\ calls' = calls
         \/ \E c \in Calls : \/ Started(c) \/ Moved(c)
                             \/ NumberBill(c) \/ InsertBill(c) \/ Die(c)
BY StartStarts, RunMoves, OfficeMoves, Unmoved DEF Next, vars, documents

\* Numbers on invoices and in hands stay below the counter: what makes the next
\* value of the counter a new one.
Counted ==
  /\ \A i \in invoices : i.number <= invoiceCounter
  /\ \A c \in Calls : calls[c].at = "bill insert" => calls[c].number <= invoiceCounter

Fresh == Counted /\ NumbersAreFresh

LEMMA NumberedOK ==
  ASSUME Typed, NEW c \in Calls, NumberBill(c)
  PROVE  /\ calls'[c].at = "bill insert" /\ calls'[c].number = invoiceCounter + 1
         /\ calls'[c].orders = calls[c].orders /\ calls'[c].kind = calls[c].kind
         /\ calls[c].at = "bill number"
         /\ \A d \in Calls \ {c} : calls'[d] = calls[d]
         /\ invoiceCounter' = invoiceCounter + 1 /\ invoices' = invoices
<1>1. PICK n \in 1..MaxCalls :
        /\ NextInvoiceNumber(n)
        /\ calls' = [calls EXCEPT ![c] = [@ EXCEPT !.at = "bill insert", !.number = n]]
  BY DEF NumberBill
<1>. DEFINE row == [calls[c] EXCEPT !.at = "bill insert", !.number = n]
<1>2. /\ row.at = "bill insert" /\ row.number = n
      /\ row.orders = calls[c].orders /\ row.kind = calls[c].kind
  BY DEF Typed, TypeOK, CallRow
<1>3. calls' = [calls EXCEPT ![c] = row]
  BY <1>1
<1>4. /\ n = invoiceCounter + 1 /\ invoiceCounter' = n /\ invoices' = invoices
      /\ calls[c].at = "bill number"
  BY <1>1 DEF NextInvoiceNumber, NumberBill
<1>. HIDE DEF row
<1>. QED BY <1>2, <1>3, <1>4, MovesOne

LEMMA InsertedOK ==
  ASSUME Typed, NEW c \in Calls, InsertBill(c)
  PROVE  /\ \/ invoices' = invoices /\ ~Insertable(calls[c].kind, calls[c].orders, calls[c].number)
            \/ \E row \in InvoiceRow :
                 /\ invoices' = invoices \cup {row}
                 /\ row.number = calls[c].number /\ row.kind = calls[c].kind
                 /\ row.orders = calls[c].orders
         /\ invoiceCounter' = invoiceCounter
         /\ calls[c].at = "bill insert" /\ calls'[c].at \notin {"bill number", "bill insert"}
         /\ calls'[c].at = "idle" \/ calls'[c].orders = calls[c].orders
         /\ \A d \in Calls \ {c} : calls'[d] = calls[d]
<1>0. calls[c] \in CallRow
  BY DEF Typed, TypeOK
<1>1. invoiceCounter' = invoiceCounter /\ calls[c].at = "bill insert"
  BY DEF InsertBill
<1>2. CASE Insertable(calls[c].kind, calls[c].orders, calls[c].number)
  <2>. DEFINE row == [BlankInvoice EXCEPT !.number = calls[c].number, !.kind = calls[c].kind,
                                          !.orders = calls[c].orders]
  <2>1. row.number = calls[c].number /\ row.kind = calls[c].kind /\ row.orders = calls[c].orders
    BY DEF BlankInvoice
  <2>2. row \in InvoiceRow
    BY <1>0, BlankTypes DEF CallRow
  <2>3. invoices' = invoices \cup {row} /\ Goto(c, "bill print")
    BY <1>2 DEF InsertBill, InsertInvoice
  <2>. HIDE DEF row
  <2>4. /\ calls'[c].at = "bill print" /\ calls'[c].orders = calls[c].orders
        /\ \A d \in Calls \ {c} : calls'[d] = calls[d]
    BY <2>3, GotoMoves
  <2>. QED BY <1>1, <2>1, <2>2, <2>3, <2>4
<1>3. CASE ~Insertable(calls[c].kind, calls[c].orders, calls[c].number)
  <2>1. Billed(c) /\ invoices' = invoices
    BY <1>3 DEF InsertBill
  <2>2. CASE calls[c].op = "pay"
    <3>1. Goto(c, "receipt read")
      BY <2>1, <2>2 DEF Billed
    <3>2. /\ calls'[c].at = "receipt read" /\ calls'[c].orders = calls[c].orders
          /\ \A d \in Calls \ {c} : calls'[d] = calls[d]
      BY <3>1, GotoMoves
    <3>. QED BY <1>1, <1>3, <2>1, <3>2
  <2>3. CASE calls[c].op # "pay"
    BY <1>1, <1>3, <2>1, <2>3, EndMoves DEF Billed
  <2>. QED BY <2>2, <2>3
<1>. QED BY <1>2, <1>3

LEMMA FreshInit == Init => Fresh
BY IdleOK DEF Init, DocumentsInit, Fresh, Counted, NumbersAreFresh

LEMMA FreshStep == Typed /\ Fresh /\ [Next]_vars => Fresh'
<1>. SUFFICES ASSUME Typed, Fresh, [Next]_vars PROVE Fresh'
  OBVIOUS
<1>0. /\ invoiceCounter \in Nat
      /\ \A i \in invoices : i.number \in Nat
      /\ \A d \in Calls : calls[d].number \in Nat
  BY DEF Typed, TypeOK, DocumentsType, InvoiceRow, CallRow
<1>1. SameInvoices => \A j \in invoices' : \E i \in invoices : j.number = i.number
  BY DEF SameInvoices
<1>8. CASE SameInvoices /\ invoiceCounter' = invoiceCounter /\ calls' = calls
  <2>1. Counted'
    BY <1>0, <1>1, <1>8 DEF Fresh, Counted
  <2>2. NumbersAreFresh'
    BY <1>0, <1>1, <1>8 DEF Fresh, NumbersAreFresh
  <2>. QED BY <2>1, <2>2 DEF Fresh
<1>2. ASSUME NEW c \in Calls, SameInvoices, invoiceCounter' = invoiceCounter,
             \A d \in Calls \ {c} : calls'[d] = calls[d], calls'[c].at # "bill insert"
      PROVE  Fresh'
  <2>1. Counted'
    BY <1>0, <1>1, <1>2 DEF Fresh, Counted
  <2>2. NumbersAreFresh'
    BY <1>0, <1>1, <1>2 DEF Fresh, NumbersAreFresh
  <2>. QED BY <2>1, <2>2 DEF Fresh
<1>3. ASSUME NEW c \in Calls, NumberBill(c) PROVE Fresh'
  <2>0. /\ calls'[c].at = "bill insert" /\ calls'[c].number = invoiceCounter + 1
        /\ \A d \in Calls \ {c} : calls'[d] = calls[d]
        /\ invoiceCounter' = invoiceCounter + 1 /\ invoices' = invoices
    BY <1>3, NumberedOK
  <2>3. /\ \A i \in invoices : i.number <= invoiceCounter + 1 /\ i.number # invoiceCounter + 1
        /\ \A d \in Calls : calls[d].at = "bill insert" =>
             calls[d].number <= invoiceCounter + 1 /\ calls[d].number # invoiceCounter + 1
        /\ invoiceCounter + 1 <= invoiceCounter + 1
    <3>1. \A n \in Nat : n <= invoiceCounter => n <= invoiceCounter + 1 /\ n # invoiceCounter + 1
      BY <1>0
    <3>2. invoiceCounter + 1 <= invoiceCounter + 1
      BY <1>0
    <3>3. \A i \in invoices : i.number \in Nat /\ i.number <= invoiceCounter
      BY <1>0 DEF Fresh, Counted
    <3>4. \A d \in Calls : calls[d].at = "bill insert" =>
            calls[d].number \in Nat /\ calls[d].number <= invoiceCounter
      BY <1>0 DEF Fresh, Counted
    <3>5. \A i \in invoices : i.number <= invoiceCounter + 1 /\ i.number # invoiceCounter + 1
      BY <3>1, <3>3
    <3>6. \A d \in Calls : calls[d].at = "bill insert" =>
            calls[d].number <= invoiceCounter + 1 /\ calls[d].number # invoiceCounter + 1
      BY <3>1, <3>4
    <3>. QED BY <3>2, <3>5, <3>6
  <2>1. Counted'
    <3>1. \A d \in Calls : calls'[d].at = "bill insert" => calls'[d].number <= invoiceCounter + 1
      BY <2>0, <2>3
    <3>. QED BY <2>0, <2>3, <3>1 DEF Counted
  <2>2. NumbersAreFresh'
    BY <2>0, <2>3 DEF Fresh, NumbersAreFresh
  <2>. QED BY <2>1, <2>2 DEF Fresh
<1>4. ASSUME NEW c \in Calls, InsertBill(c) PROVE Fresh'
  <2>0. /\ \A j \in invoices' : j \in invoices \/ j.number = calls[c].number
        /\ invoiceCounter' = invoiceCounter
        /\ calls[c].at = "bill insert" /\ calls'[c].at # "bill insert"
        /\ \A d \in Calls \ {c} : calls'[d] = calls[d]
    BY <1>4, InsertedOK
  <2>1. Counted'
    BY <1>0, <2>0 DEF Fresh, Counted
  <2>2. NumbersAreFresh'
    BY <1>0, <2>0 DEF Fresh, NumbersAreFresh
  <2>. QED BY <2>1, <2>2 DEF Fresh
<1>5. ASSUME NEW c \in Calls, Started(c) PROVE Fresh'
  BY <1>2, <1>5, Unmoved DEF Started, documents
<1>6. ASSUME NEW c \in Calls, Moved(c) PROVE Fresh'
  BY <1>2, <1>6 DEF Moved
<1>7. ASSUME NEW c \in Calls, Die(c) PROVE Fresh'
  BY <1>2, <1>7, EndMoves, Unmoved DEF Die, documents
<1>. QED BY <1>8, <1>3, <1>4, <1>5, <1>6, <1>7, WhoNumbers

\* Whatever overlaps and whatever dies, a number handed to a call is on no invoice
\* and in no other call's hands.
THEOREM NumbersStayFresh == Spec => []NumbersAreFresh
<1>1. Fresh => NumbersAreFresh
  BY DEF Fresh
<1>. QED BY <1>1, FreshInit, FreshStep, TypedInit, TypedStep, PTL DEF Spec

-----------------------------------------------------------------------------
(* No hole in the series, one call per order at a time *)

\* Calls in flight are about different orders.
Apart ==
  \A c, d \in Calls :
    c # d /\ calls[c].at # "idle" /\ calls[d].at # "idle" =>
      calls[c].orders \cap calls[d].orders = {}

\* What was free to bill when it was read still is.
Clean ==
  \A c \in Calls : calls[c].at \in {"bill number", "bill insert"} =>
    /\ calls[c].kind = "ORDER" => calls[c].orders \cap OwnInvoiced = {}
    /\ calls[c].kind = "CONSOLIDATED" => calls[c].orders \cap OnALine = {}

Unbroken == Apart /\ Clean /\ SeriesUnbroken

LEMMA SameOrders ==
  ASSUME SameInvoices
  PROVE  OwnInvoiced' = OwnInvoiced /\ OnALine' = OnALine
BY DEF SameInvoices, OwnInvoiced, OnALine

LEMMA UnbrokenInit == Init => Unbroken
<1>. SUFFICES ASSUME Init PROVE Unbroken
  OBVIOUS
<1>1. \A c \in Calls : calls[c].at = "idle"
  BY IdleOK DEF Init
<1>2. SeriesUnbroken
  <2>1. 1..invoiceCounter = {}
    BY DEF Init, DocumentsInit
  <2>. QED BY <2>1 DEF SeriesUnbroken
<1>. QED BY <1>1, <1>2 DEF Unbroken, Apart, Clean

LEMMA ApartStep ==
  ASSUME Typed, Apart, [Next]_vars, Exclusive = TRUE
  PROVE  Apart'
<1>1. ASSUME NEW c \in Calls, \A d \in Calls \ {c} : calls'[d] = calls[d],
             \/ calls'[c].at = "idle"
             \/ calls[c].at # "idle" /\ calls'[c].orders = calls[c].orders
             \/ \A d \in Calls : calls[d].at # "idle" => calls'[c].orders \cap calls[d].orders = {}
      PROVE  Apart'
  BY <1>1 DEF Apart
<1>2. ASSUME NEW c \in Calls, Started(c) PROVE Apart'
  BY <1>1, <1>2 DEF Started
<1>3. ASSUME NEW c \in Calls, Moved(c) PROVE Apart'
  BY <1>1, <1>3 DEF Moved
<1>4. ASSUME NEW c \in Calls, NumberBill(c) PROVE Apart'
  BY <1>1, <1>4, NumberedOK
<1>5. ASSUME NEW c \in Calls, InsertBill(c) PROVE Apart'
  BY <1>1, <1>5, InsertedOK
<1>6. ASSUME NEW c \in Calls, Die(c) PROVE Apart'
  BY <1>1, <1>6, EndMoves DEF Die
<1>7. CASE calls' = calls
  BY <1>7 DEF Apart
<1>. QED BY <1>2, <1>3, <1>4, <1>5, <1>6, <1>7, WhoNumbers

LEMMA CleanStep ==
  ASSUME Typed, Apart, Clean, [Next]_vars, Faults = FALSE
  PROVE  Clean'
<1>1. CASE SameInvoices /\ calls' = calls
  BY <1>1, SameOrders DEF Clean
<1>2. ASSUME NEW c \in Calls, Started(c) PROVE Clean'
  <2>1. OwnInvoiced' = OwnInvoiced /\ OnALine' = OnALine
    BY <1>2, SameOrders, Unmoved DEF Started, documents
  <2>. QED BY <1>2, <2>1 DEF Clean, Started
<1>3. ASSUME NEW c \in Calls, Moved(c) PROVE Clean'
  <2>1. OwnInvoiced' = OwnInvoiced /\ OnALine' = OnALine
    BY <1>3, SameOrders DEF Moved
  <2>. QED BY <1>3, <2>1 DEF Clean, Moved
<1>4. ASSUME NEW c \in Calls, NumberBill(c) PROVE Clean'
  <2>1. OwnInvoiced' = OwnInvoiced /\ OnALine' = OnALine
    BY <1>4, NumberedOK, SameOrders, Unmoved
  <2>. QED BY <1>4, <2>1, NumberedOK DEF Clean
<1>5. ASSUME NEW c \in Calls, InsertBill(c) PROVE Clean'
  <2>0. /\ calls[c].at = "bill insert" /\ calls'[c].at \notin {"bill number", "bill insert"}
        /\ \A d \in Calls \ {c} : calls'[d] = calls[d]
    BY <1>5, InsertedOK
  <2>1. /\ OwnInvoiced' \subseteq OwnInvoiced \cup calls[c].orders
        /\ OnALine' \subseteq OnALine \cup calls[c].orders
    <3>1. \A j \in invoices' : j \in invoices \/ j.orders = calls[c].orders
      BY <1>5, InsertedOK
    <3>. QED BY <3>1 DEF OwnInvoiced, OnALine
  <2>2. \A d \in Calls \ {c} : calls[d].at # "idle" => calls[d].orders \cap calls[c].orders = {}
    BY <2>0 DEF Apart
  <2>. QED BY <2>0, <2>1, <2>2 DEF Clean
<1>. QED BY <1>1, <1>2, <1>3, <1>4, <1>5, WhoNumbers DEF Die

LEMMA NoHoleStep ==
  ASSUME Typed, Fresh, Clean, SeriesUnbroken, [Next]_vars, Faults = FALSE
  PROVE  SeriesUnbroken'
<1>0. invoiceCounter \in Nat
  BY DEF Typed, TypeOK, DocumentsType
<1>1. SameInvoices => \A i \in invoices : \E j \in invoices' : j.number = i.number
  BY DEF SameInvoices
<1>2. CASE SameInvoices /\ invoiceCounter' = invoiceCounter /\ calls' = calls
  <2>1. ASSUME NEW n \in 1..invoiceCounter
        PROVE  \/ \E j \in invoices' : j.number = n
               \/ \E d \in Calls : calls'[d].at = "bill insert" /\ calls'[d].number = n
    <3>1. CASE \E i \in invoices : i.number = n
      BY <1>1, <1>2, <3>1
    <3>2. CASE \E d \in Calls : calls[d].at = "bill insert" /\ calls[d].number = n
      BY <1>2, <3>2
    <3>. QED BY <3>1, <3>2 DEF SeriesUnbroken
  <2>. QED BY <1>2, <2>1 DEF SeriesUnbroken
<1>3. ASSUME NEW c \in Calls, SameInvoices, invoiceCounter' = invoiceCounter,
             \A d \in Calls \ {c} : calls'[d] = calls[d], calls[c].at # "bill insert"
      PROVE  SeriesUnbroken'
  <2>1. ASSUME NEW n \in 1..invoiceCounter
        PROVE  \/ \E j \in invoices' : j.number = n
               \/ \E d \in Calls : calls'[d].at = "bill insert" /\ calls'[d].number = n
    <3>1. CASE \E i \in invoices : i.number = n
      BY <1>1, <1>3, <3>1
    <3>2. CASE \E d \in Calls : calls[d].at = "bill insert" /\ calls[d].number = n
      BY <1>3, <3>2
    <3>. QED BY <3>1, <3>2 DEF SeriesUnbroken
  <2>. QED BY <1>3, <2>1 DEF SeriesUnbroken
<1>4. ASSUME NEW c \in Calls, Started(c) PROVE SeriesUnbroken'
  BY <1>3, <1>4, Unmoved DEF Started, documents
<1>5. ASSUME NEW c \in Calls, Moved(c) PROVE SeriesUnbroken'
  BY <1>3, <1>5 DEF Moved
<1>6. ASSUME NEW c \in Calls, NumberBill(c) PROVE SeriesUnbroken'
  <2>1. /\ calls[c].at = "bill number" /\ calls'[c].at = "bill insert"
        /\ calls'[c].number = invoiceCounter + 1
        /\ \A d \in Calls \ {c} : calls'[d] = calls[d]
        /\ invoiceCounter' = invoiceCounter + 1 /\ invoices' = invoices
    BY <1>6, NumberedOK
  <2>2. \A n \in 1..(invoiceCounter + 1) : n \in 1..invoiceCounter \/ n = invoiceCounter + 1
    BY <1>0
  <2>3. ASSUME NEW n \in 1..invoiceCounter
        PROVE  \/ \E j \in invoices' : j.number = n
               \/ \E d \in Calls : calls'[d].at = "bill insert" /\ calls'[d].number = n
    <3>1. CASE \E i \in invoices : i.number = n
      BY <2>1, <3>1
    <3>2. CASE \E d \in Calls : calls[d].at = "bill insert" /\ calls[d].number = n
      BY <2>1, <3>2
    <3>. QED BY <3>1, <3>2 DEF SeriesUnbroken
  <2>4. \A n \in 1..(invoiceCounter + 1) :
          \/ \E j \in invoices' : j.number = n
          \/ \E d \in Calls : calls'[d].at = "bill insert" /\ calls'[d].number = n
    BY <2>1, <2>2, <2>3
  <2>. QED BY <2>1, <2>4 DEF SeriesUnbroken
<1>7. ASSUME NEW c \in Calls, InsertBill(c) PROVE SeriesUnbroken'
  <2>1. calls[c].at = "bill insert"
    BY <1>7 DEF InsertBill
  <2>2. Insertable(calls[c].kind, calls[c].orders, calls[c].number)
    BY <2>1 DEF Clean, Insertable, Fresh, NumbersAreFresh
  <2>3. PICK row \in InvoiceRow : invoices' = invoices \cup {row} /\ row.number = calls[c].number
    BY <1>7, <2>2, InsertedOK
  <2>4. invoiceCounter' = invoiceCounter /\ \A d \in Calls \ {c} : calls'[d] = calls[d]
    BY <1>7, InsertedOK
  <2>. QED BY <2>3, <2>4 DEF SeriesUnbroken
<1>. QED BY <1>2, <1>4, <1>5, <1>6, <1>7, WhoNumbers DEF Die

\* As long as calls about one order do not overlap and none dies half-way, no
\* invoice number is lost: each is on an invoice or about to be.
THEOREM SeriesStaysUnbroken ==
  ASSUME Exclusive = TRUE, Faults = FALSE
  PROVE  Spec => []SeriesUnbroken
<1>. DEFINE IInv == Typed /\ Fresh /\ Unbroken
<1>1. Init => IInv
  BY TypedInit, FreshInit, UnbrokenInit
<1>2. IInv /\ [Next]_vars => IInv'
  BY TypedStep, FreshStep, ApartStep, CleanStep, NoHoleStep DEF Unbroken
<1>3. IInv => SeriesUnbroken
  BY DEF Unbroken
<1>. QED BY <1>1, <1>2, <1>3, PTL DEF Spec
=============================================================================
