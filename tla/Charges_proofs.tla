---------------------------- MODULE Charges_proofs ----------------------------
(***************************************************************************)
(* What an order is charged and receipted for, counted: discounts against  *)
(* redemptions, receipts against payments, fees against cancellations; the *)
(* series its documents are numbered in; that payments are followed up;    *)
(* and what keeps an order from being billed twice.                        *)
(***************************************************************************)
EXTENDS OrderPayments_proofs, FiniteSetTheorems

-----------------------------------------------------------------------------
(* Where calls go *)

\* The statements that follow each other in a call.
Flow ==
  {<<"redeem", "pay">>, <<"pay", "bill read">>, <<"cancel", "bill read">>,
   <<"bill read", "bill number">>, <<"bill number", "bill insert">>,
   <<"bill insert", "bill print">>, <<"bill read", "receipt read">>,
   <<"bill insert", "receipt read">>, <<"bill print", "receipt read">>,
   <<"receipt read", "receipt number">>, <<"receipt number", "receipt insert">>,
   <<"receipt insert", "receipt print">>}

\* Call c goes on to its next statement about what it was about, or ends.
GoesOn(c) ==
  \/ calls'[c] = Idle
  \/ /\ <<calls[c].at, calls'[c].at>> \in Flow
     /\ calls'[c].op = calls[c].op
     /\ calls'[c].orders = calls[c].orders /\ calls'[c].kind = calls[c].kind
     /\ calls'[c].code = calls[c].code
     /\ calls[c].at # "receipt read" => calls'[c].amount = calls[c].amount

LEMMA GotoGoes ==
  ASSUME Typed, NEW c \in Calls, NEW at, Goto(c, at), <<calls[c].at, at>> \in Flow
  PROVE  GoesOn(c) /\ \A d \in Calls \ {c} : calls'[d] = calls[d]
<1>. DEFINE row == [calls[c] EXCEPT !.at = at]
<1>1. calls[c] \in CallRow
  BY DEF Typed, TypeOK
<1>2. /\ row.at = at /\ row.orders = calls[c].orders /\ row.kind = calls[c].kind
      /\ row.code = calls[c].code /\ row.amount = calls[c].amount /\ row.op = calls[c].op
  BY <1>1 DEF CallRow
<1>3. calls' = [calls EXCEPT ![c] = row]
  BY DEF Goto
<1>. HIDE DEF row
<1>4. calls'[c] = row /\ \A d \in Calls \ {c} : calls'[d] = calls[d]
  BY <1>3, MovesOne
<1>. QED BY <1>2, <1>4 DEF GoesOn

LEMMA EndGoes ==
  ASSUME Typed, NEW c \in Calls, End(c)
  PROVE  GoesOn(c) /\ \A d \in Calls \ {c} : calls'[d] = calls[d]
BY EndMoves DEF GoesOn

LEMMA BilledGoes ==
  ASSUME Typed, NEW c \in Calls, Billed(c),
         calls[c].at \in {"bill read", "bill insert", "bill print"}
  PROVE  GoesOn(c) /\ \A d \in Calls \ {c} : calls'[d] = calls[d]
<1>1. <<calls[c].at, "receipt read">> \in Flow
  BY DEF Flow
<1>. QED BY <1>1, GotoGoes, EndGoes DEF Billed

LEMMA RunGoes ==
  ASSUME Typed, NEW c \in Calls, RunCall(c)
  PROVE  GoesOn(c) /\ \A d \in Calls \ {c} : calls'[d] = calls[d]
<1>0. calls[c] \in CallRow
  BY DEF Typed, TypeOK
<1>1. CASE RedeemCoupon(c)
  BY <1>1, GotoGoes, EndGoes DEF RedeemCoupon, Flow
<1>2. CASE Pay(c)
  BY <1>2, GotoGoes DEF Pay, Flow
<1>3. CASE ReadForBill(c)
  BY <1>3, GotoGoes, BilledGoes DEF ReadForBill, Flow
<1>4. CASE NumberBill(c)
  <2>1. PICK n \in 1..MaxCalls :
          calls' = [calls EXCEPT ![c] = [@ EXCEPT !.at = "bill insert", !.number = n]]
    BY <1>4 DEF NumberBill
  <2>. DEFINE row == [calls[c] EXCEPT !.at = "bill insert", !.number = n]
  <2>2. /\ row.at = "bill insert" /\ row.orders = calls[c].orders /\ row.kind = calls[c].kind
        /\ row.code = calls[c].code /\ row.amount = calls[c].amount /\ row.op = calls[c].op
    BY <1>0 DEF CallRow
  <2>3. calls' = [calls EXCEPT ![c] = row] /\ calls[c].at = "bill number"
    BY <1>4, <2>1 DEF NumberBill
  <2>. HIDE DEF row
  <2>4. calls'[c] = row /\ \A d \in Calls \ {c} : calls'[d] = calls[d]
    BY <2>3, MovesOne
  <2>. QED BY <2>2, <2>3, <2>4 DEF GoesOn, Flow
<1>5. CASE InsertBill(c)
  BY <1>5, GotoGoes, BilledGoes DEF InsertBill, Flow
<1>6. CASE PrintBill(c)
  BY <1>6, BilledGoes DEF PrintBill
<1>7. CASE ReadForReceipt(c)
  <2>1. CASE calls' = [calls EXCEPT ![c] = [@ EXCEPT !.at = "receipt number",
                                                     !.amount = order[TheOrder(c)].paid]]
    <3>. DEFINE row == [calls[c] EXCEPT !.at = "receipt number", !.amount = order[TheOrder(c)].paid]
    <3>2. /\ row.at = "receipt number" /\ row.orders = calls[c].orders
          /\ row.kind = calls[c].kind /\ row.code = calls[c].code /\ row.op = calls[c].op
      BY <1>0 DEF CallRow
    <3>3. calls' = [calls EXCEPT ![c] = row] /\ calls[c].at = "receipt read"
      BY <1>7, <2>1 DEF ReadForReceipt
    <3>. HIDE DEF row
    <3>4. calls'[c] = row /\ \A d \in Calls \ {c} : calls'[d] = calls[d]
      BY <3>3, MovesOne
    <3>. QED BY <3>2, <3>3, <3>4 DEF GoesOn, Flow
  <2>. QED BY <1>7, <2>1, EndGoes DEF ReadForReceipt
<1>8. CASE NumberReceipt(c)
  <2>1. PICK n \in 1..MaxCalls :
          calls' = [calls EXCEPT ![c] = [@ EXCEPT !.at = "receipt insert", !.number = n]]
    BY <1>8 DEF NumberReceipt
  <2>. DEFINE row == [calls[c] EXCEPT !.at = "receipt insert", !.number = n]
  <2>2. /\ row.at = "receipt insert" /\ row.orders = calls[c].orders /\ row.kind = calls[c].kind
        /\ row.code = calls[c].code /\ row.amount = calls[c].amount /\ row.op = calls[c].op
    BY <1>0 DEF CallRow
  <2>3. calls' = [calls EXCEPT ![c] = row] /\ calls[c].at = "receipt number"
    BY <1>8, <2>1 DEF NumberReceipt
  <2>. HIDE DEF row
  <2>4. calls'[c] = row /\ \A d \in Calls \ {c} : calls'[d] = calls[d]
    BY <2>3, MovesOne
  <2>. QED BY <2>2, <2>3, <2>4 DEF GoesOn, Flow
<1>9. CASE InsertTheReceipt(c)
  BY <1>9, GotoGoes DEF InsertTheReceipt, Flow
<1>10. CASE PrintTheReceipt(c)
  BY <1>10, EndGoes DEF PrintTheReceipt
<1>11. CASE Cancel(c)
  BY <1>11, GotoGoes, EndGoes DEF Cancel, Flow
<1>. QED BY <1>1, <1>2, <1>3, <1>4, <1>5, <1>6, <1>7, <1>8, <1>9, <1>10, <1>11 DEF RunCall

\* The tables a call writes, and at which statement.
LEMMA RunWrites ==
  ASSUME NEW c \in Calls, RunCall(c)
  PROVE  /\ RedeemCoupon(c) \/ coupon' = coupon
         /\ Pay(c) \/ Cancel(c) \/ order' = order
         /\ Cancel(c) \/ cancelled' = cancelled
         /\ InsertBill(c) \/ PrintBill(c) \/ invoices' = invoices
         /\ InsertTheReceipt(c) \/ PrintTheReceipt(c) \/ receipts' = receipts
BY DEF RunCall, documents, RedeemCoupon, Pay, ReadForBill, NumberBill, InsertBill, PrintBill,
       ReadForReceipt, NumberReceipt, InsertTheReceipt, PrintTheReceipt, Cancel

OnAnOpenOrder(os) == \E o \in Orders : os = {o} /\ order[o].status = "OPEN"

\* What a call that begins is about to do.
Beginning(c) ==
  /\ calls[c].at = "idle"
  /\ calls'[c].at \in {"redeem", "pay", "bill read", "bill number", "receipt read", "cancel"}
  /\ calls'[c].at = "pay" => calls'[c].code = NoCode
  /\ calls'[c].at \in {"redeem", "pay", "bill read", "bill number"} => calls'[c].kind # "fee"
  /\ calls'[c].at = "cancel" => OnAnOpenOrder(calls'[c].orders)
  /\ calls'[c].at \in {"redeem", "pay"} =>
       calls'[c].op = "pay" /\ calls'[c].amount \in Amounts \cup {0}
  /\ \A d \in Calls \ {c} : calls'[d] = calls[d]
  /\ UNCHANGED <<coupon, documents, order, cancelled>>

LEMMA BeginSets ==
  ASSUME Typed, NEW c \in Calls, NEW op, NEW at, NEW os, NEW kind, NEW amount, NEW code,
         Begin(c, op, at, os, kind, amount, code)
  PROVE  /\ calls'[c].at = at /\ calls'[c].orders = os /\ calls'[c].kind = kind
         /\ calls'[c].op = op /\ calls'[c].code = code
         /\ calls'[c].amount = amount
         /\ calls[c].at = "idle" /\ \A d \in Calls \ {c} : calls'[d] = calls[d]
         /\ UNCHANGED <<coupon, documents, order, cancelled>>
<1>. DEFINE row == [Idle EXCEPT !.op = op, !.at = at, !.orders = os, !.kind = kind,
                                !.amount = amount, !.code = code]
<1>1. /\ row.at = at /\ row.orders = os /\ row.kind = kind /\ row.amount = amount
      /\ row.code = code /\ row.op = op
  BY DEF Idle
<1>2. /\ calls' = [calls EXCEPT ![c] = row] /\ calls[c].at = "idle"
      /\ UNCHANGED <<coupon, documents, order, cancelled>>
  BY IdleOK DEF Begin
<1>. HIDE DEF row
<1>3. calls'[c] = row /\ \A d \in Calls \ {c} : calls'[d] = calls[d]
  BY <1>2, MovesOne
<1>. QED BY <1>1, <1>2, <1>3

LEMMA StartBegins == ASSUME Typed, NEW c \in Calls, StartCall(c) PROVE Beginning(c)
<1>1. ASSUME NEW op, NEW at, NEW os, NEW kind, NEW amount, NEW code,
             Begin(c, op, at, os, kind, amount, code),
             at \in {"bill read", "bill number", "receipt read"}, kind # "fee"
      PROVE  Beginning(c)
  <2>1. /\ calls'[c].at = at /\ calls'[c].orders = os /\ calls'[c].kind = kind
        /\ calls[c].at = "idle" /\ \A d \in Calls \ {c} : calls'[d] = calls[d]
        /\ UNCHANGED <<coupon, documents, order, cancelled>>
    <3>1. Begin(c, op, at, os, kind, amount, code)
      BY <1>1
    <3>. QED BY <3>1, BeginSets
  <2>. QED BY <1>1, <2>1 DEF Beginning
<1>2. ASSUME NEW op, NEW os, NEW kind, NEW amount, NEW code,
             Begin(c, op, "cancel", os, kind, amount, code), OnAnOpenOrder(os)
      PROVE  Beginning(c)
  <2>1. /\ calls'[c].at = "cancel" /\ calls'[c].orders = os /\ calls'[c].kind = kind
        /\ calls[c].at = "idle" /\ \A d \in Calls \ {c} : calls'[d] = calls[d]
        /\ UNCHANGED <<coupon, documents, order, cancelled>>
    BY <1>2, BeginSets
  <2>. QED BY <1>2, <2>1 DEF Beginning, OnAnOpenOrder
<1>3. ASSUME NEW o \in Orders, NEW amount \in Amounts \cup {0}, NEW code, BeginPay(c, o, amount, code)
      PROVE  Beginning(c)
  <2>1. PICK at : /\ at = IF code = NoCode THEN "pay" ELSE "redeem"
                  /\ Begin(c, "pay", at, {o}, "ORDER", amount, code)
    BY <1>3 DEF BeginPay
  <2>2. /\ calls'[c].at = at /\ calls'[c].code = code /\ calls'[c].amount = amount
        /\ calls'[c].kind = "ORDER" /\ calls'[c].op = "pay"
        /\ calls[c].at = "idle" /\ \A d \in Calls \ {c} : calls'[d] = calls[d]
        /\ UNCHANGED <<coupon, documents, order, cancelled>>
    BY <2>1, BeginSets
  <2>. QED BY <2>1, <2>2 DEF Beginning
<1>4. ASSUME NEW o \in Orders, BeginGenerate(c, o) PROVE Beginning(c)
  BY <1>1, <1>4 DEF BeginGenerate
<1>5. ASSUME NEW o \in Orders, BeginReceipt(c, o) PROVE Beginning(c)
  BY <1>1, <1>5 DEF BeginReceipt
<1>6. ASSUME NEW o \in Orders, BeginCancel(c, o) PROVE Beginning(c)
  <2>1. PICK kind \in {"fee", "ORDER"} : Begin(c, "cancel", "cancel", {o}, kind, 0, NoCode)
    BY <1>6 DEF BeginCancel
  <2>2. OnAnOpenOrder({o})
    BY <1>6 DEF BeginCancel, MayCancel, OnAnOpenOrder
  <2>. QED BY <1>2, <2>1, <2>2
<1>7. ASSUME NEW os \in SUBSET Orders, BeginConsolidate(c, os) PROVE Beginning(c)
  BY <1>1, <1>7 DEF BeginConsolidate
<1>8. ASSUME BeginCustom(c) PROVE Beginning(c)
  BY <1>1, <1>8 DEF BeginCustom
<1>. QED BY <1>3, <1>4, <1>5, <1>6, <1>7, <1>8 DEF StartCall

-----------------------------------------------------------------------------
(* Discounts and redemptions *)

Discounted(k) == {o \in Orders : order[o].coupon = k}

\* Payments that have redeemed k and not yet written it.
Paying(k) == {c \in Calls : calls[c].at = "pay" /\ calls[c].code = k}

LEMMA OneMore ==
  ASSUME NEW S, NEW x, IsFiniteSet(S)
  PROVE  /\ IsFiniteSet(S \cup {x})
         /\ Cardinality(S) \in Nat /\ Cardinality(S \cup {x}) \in Nat
         /\ Cardinality(S \cup {x}) <= Cardinality(S) + 1
<1>1. Cardinality(S) \in Nat /\ IsFiniteSet(S \cup {x})
  BY FS_CardinalityType, FS_AddElement
<1>2. Cardinality(S \cup {x}) = IF x \in S THEN Cardinality(S) ELSE Cardinality(S) + 1
  BY FS_AddElement
<1>. QED BY <1>1, <1>2

LEMMA OneLess ==
  ASSUME NEW S, NEW x \in S, IsFiniteSet(S)
  PROVE  /\ IsFiniteSet(S \ {x})
         /\ Cardinality(S) \in Nat /\ Cardinality(S \ {x}) \in Nat
         /\ Cardinality(S \ {x}) + 1 = Cardinality(S)
<1>1. /\ Cardinality(S) \in Nat /\ IsFiniteSet(S \ {x})
      /\ Cardinality(S \ {x}) = Cardinality(S) - 1
  BY FS_CardinalityType, FS_RemoveElement
<1>2. Cardinality(S \ {x}) \in Nat
  BY <1>1, FS_CardinalityType
<1>. QED BY <1>1, <1>2

\* A payment about to be written has its redemption already.
BackedBy(k) ==
  /\ IsFiniteSet(Discounted(k)) /\ IsFiniteSet(Paying(k))
  /\ Cardinality(Discounted(k)) + Cardinality(Paying(k)) <= coupon[k].used

Backed == \A k \in Codes : BackedBy(k)

LEMMA BackedInit == Init => Backed
<1>. SUFFICES ASSUME Init, NEW k \in Codes PROVE BackedBy(k)
  BY DEF Backed
<1>1. Discounted(k) = {} /\ Paying(k) = {}
  BY IdleOK, CouponAssumption DEF Init, Discounted, Paying, NewOrder
<1>2. coupon[k].used = 0
  BY DEF Init, CouponInit
<1>. QED BY <1>1, <1>2, FS_EmptySet DEF BackedBy

\* Fewer discounts or payments on the way need no more redemptions.
LEMMA FewerBacked ==
  ASSUME NEW k \in Codes, Typed, Typed', BackedBy(k),
         Discounted(k)' \subseteq Discounted(k), Paying(k)' \subseteq Paying(k),
         coupon'[k].used = coupon[k].used
  PROVE  BackedBy(k)'
<1>1. /\ IsFiniteSet(Discounted(k)') /\ Cardinality(Discounted(k)') <= Cardinality(Discounted(k))
      /\ IsFiniteSet(Paying(k)') /\ Cardinality(Paying(k)') <= Cardinality(Paying(k))
  BY FS_Subset DEF BackedBy
<1>2. /\ Cardinality(Discounted(k)) \in Nat /\ Cardinality(Discounted(k)') \in Nat
      /\ Cardinality(Paying(k)) \in Nat /\ Cardinality(Paying(k)') \in Nat
  BY <1>1, FS_CardinalityType DEF BackedBy
<1>3. coupon[k].used \in Nat
  BY DEF Typed, TypeOK, CouponRow
<1>. QED BY <1>1, <1>2, <1>3 DEF BackedBy

\* The steps that move no discount: of them, none gives a payment its code.
NoDiscount ==
  /\ \A k \in Codes : coupon'[k].used = coupon[k].used
  /\ \A o \in Orders : order'[o].coupon \in {order[o].coupon, NoCode}
  /\ \A d \in Calls : calls'[d].at = "pay" /\ calls'[d].code # NoCode =>
       calls[d].at = "pay" /\ calls'[d].code = calls[d].code

LEMMA WhoDiscounts ==
  ASSUME Typed, [Next]_vars
  PROVE  NoDiscount \/ \E c \in Calls : Pay(c) \/ RedeemCoupon(c)
<1>. USE DEF Typed, TypeOK
<1>1. ASSUME NEW c \in Calls, StartCall(c) PROVE NoDiscount
  BY <1>1, StartBegins DEF Beginning, NoDiscount
<1>2. ASSUME NEW c \in Calls, RunCall(c), ~Pay(c), ~RedeemCoupon(c) PROVE NoDiscount
  <2>1. coupon' = coupon /\ (Cancel(c) \/ order' = order)
    BY <1>2, RunWrites
  <2>2. GoesOn(c) /\ \A d \in Calls \ {c} : calls'[d] = calls[d]
    BY <1>2, RunGoes
  <2>3. calls[c].at # "redeem"
    BY <1>2 DEF RunCall, Pay, ReadForBill, NumberBill, InsertBill, PrintBill, ReadForReceipt,
       NumberReceipt, InsertTheReceipt, PrintTheReceipt, Cancel
  <2>4. calls'[c].at # "pay"
    BY <2>2, <2>3, IdleOK DEF GoesOn, Flow
  <2>5. \A o \in Orders : order'[o].coupon = order[o].coupon
    <3>1. CASE Cancel(c)
      BY <3>1 DEF Cancel, OrderRow
    <3>. QED BY <2>1, <3>1
  <2>. QED BY <2>1, <2>2, <2>4, <2>5 DEF NoDiscount
<1>3. CASE Office
  <2>1. calls' = calls
    BY <1>3 DEF Office, MarkUnpaid, MapAwb, UpdateStatus, FillSettings, CancelAnInvoice,
       ReadInvoicePdf, CouponChange
  <2>2. \A k \in Codes : coupon'[k].used = coupon[k].used
    <3>1. CASE CouponChange
      BY <3>1 DEF CouponChange, SetActive, Expire, CouponRow
    <3>. QED BY <1>3, <3>1 DEF Office, MarkUnpaid, MapAwb, UpdateStatus, FillSettings,
             CancelAnInvoice, ReadInvoicePdf
  <2>3. \A o \in Orders : order'[o].coupon \in {order[o].coupon, NoCode}
    <3>1. ASSUME NEW o \in Orders, MarkUnpaid(o) PROVE \A b \in Orders : order'[b].coupon \in {order[b].coupon, NoCode}
      BY <3>1 DEF MarkUnpaid, OrderRow
    <3>2. ASSUME NEW o \in Orders, MapAwb(o) PROVE \A b \in Orders : order'[b].coupon = order[b].coupon
      BY <3>2 DEF MapAwb, OrderRow
    <3>3. ASSUME NEW o \in Orders, NEW status, UpdateStatus(o, status)
          PROVE  \A b \in Orders : order'[b].coupon = order[b].coupon
      BY <3>3 DEF UpdateStatus, OrderRow
    <3>4. CASE order' = order
      BY <3>4
    <3>. QED BY <1>3, <3>1, <3>2, <3>3, <3>4
             DEF Office, FillSettings, CancelAnInvoice, ReadInvoicePdf, CouponChange
  <2>. QED BY <2>1, <2>2, <2>3 DEF NoDiscount
<1>4. ASSUME NEW c \in Calls, Die(c) PROVE NoDiscount
  BY <1>4, EndMoves DEF Die, NoDiscount
<1>5. CASE UNCHANGED vars
  BY <1>5 DEF vars, NoDiscount
<1>. QED BY <1>1, <1>2, <1>3, <1>4, <1>5 DEF Next

LEMMA BackedStep == Typed /\ Backed /\ [Next]_vars => Backed'
<1>. SUFFICES ASSUME Typed, Backed, [Next]_vars, NEW k \in Codes PROVE BackedBy(k)'
  BY DEF Backed
<1>0. BackedBy(k) /\ Typed'
  BY TypedStep DEF Backed
<1>1. CASE NoDiscount
  <2>1. Discounted(k)' \subseteq Discounted(k) /\ Paying(k)' \subseteq Paying(k)
    BY <1>1, CouponAssumption DEF NoDiscount, Discounted, Paying
  <2>. QED BY <1>0, <1>1, <2>1, FewerBacked DEF NoDiscount
<1>2. ASSUME NEW c \in Calls, Pay(c) PROVE BackedBy(k)'
  <2>. DEFINE o == TheOrder(c)
  <2>0. o \in Orders /\ calls[c].at = "pay" /\ order \in [Orders -> OrderRow]
    BY <1>2, TheOrderOK DEF Pay, Typed, TypeOK, Statements, Issuing
  <2>1. coupon' = coupon /\ calls'[c].at = "bill read" /\ \A d \in Calls \ {c} : calls'[d] = calls[d]
    BY <1>2, GotoMoves DEF Pay
  <2>2. Paying(k)' = Paying(k) \ {c}
    BY <2>1 DEF Paying
  <2>3. /\ \A b \in Orders \ {o} : order'[b] = order[b]
        /\ order'[o].coupon = IF calls[c].code = NoCode THEN order[o].coupon ELSE calls[c].code
    <3>. DEFINE row == Paid(order[o], calls[c].amount, calls[c].code)
    <3>1. row.coupon = IF calls[c].code = NoCode THEN order[o].coupon ELSE calls[c].code
      BY <2>0 DEF Paid, OrderRow
    <3>2. order' = [order EXCEPT ![o] = row]
      BY <1>2 DEF Pay
    <3>. HIDE DEF row, o
    <3>. QED BY <2>0, <3>1, <3>2
  <2>4. CASE calls[c].code # k
    <3>1. Discounted(k)' \subseteq Discounted(k)
      BY <2>0, <2>3, <2>4, CouponAssumption DEF Discounted
    <3>. QED BY <1>0, <2>1, <2>2, <3>1, FewerBacked
  <2>5. CASE calls[c].code = k
    <3>1. Discounted(k)' = Discounted(k) \cup {o}
      BY <2>0, <2>3, <2>5, CouponAssumption DEF Discounted
    <3>2. c \in Paying(k)
      BY <2>0, <2>5 DEF Paying
    <3>3. /\ IsFiniteSet(Discounted(k)') /\ IsFiniteSet(Paying(k)')
          /\ Cardinality(Discounted(k)) \in Nat /\ Cardinality(Discounted(k)') \in Nat
          /\ Cardinality(Paying(k)) \in Nat /\ Cardinality(Paying(k)') \in Nat
          /\ Cardinality(Discounted(k)') <= Cardinality(Discounted(k)) + 1
          /\ Cardinality(Paying(k)') + 1 = Cardinality(Paying(k))
      <4>. HIDE DEF o
      <4>1. IsFiniteSet(Discounted(k)) /\ IsFiniteSet(Paying(k))
        BY <1>0 DEF BackedBy
      <4>2. /\ IsFiniteSet(Discounted(k)')
            /\ Cardinality(Discounted(k)) \in Nat /\ Cardinality(Discounted(k)') \in Nat
            /\ Cardinality(Discounted(k)') <= Cardinality(Discounted(k)) + 1
        BY <3>1, <4>1, OneMore
      <4>3. /\ IsFiniteSet(Paying(k)')
            /\ Cardinality(Paying(k)) \in Nat /\ Cardinality(Paying(k)') \in Nat
            /\ Cardinality(Paying(k)') + 1 = Cardinality(Paying(k))
        BY <2>2, <3>2, <4>1, OneLess
      <4>. QED BY <4>2, <4>3
    <3>4. coupon[k].used \in Nat /\ coupon'[k].used = coupon[k].used
      BY <2>1 DEF Typed, TypeOK, CouponRow
    <3>5. \A a, b, x, y, u \in Nat : a + b <= u /\ x <= a + 1 /\ y + 1 = b => x + y <= u
      OBVIOUS
    <3>6. Cardinality(Discounted(k)') + Cardinality(Paying(k)') <= coupon'[k].used
      <4>1. Cardinality(Discounted(k)) + Cardinality(Paying(k)) <= coupon[k].used
        BY <1>0 DEF BackedBy
      <4>. QED BY <3>3, <3>4, <3>5, <4>1
    <3>. QED BY <3>3, <3>6 DEF BackedBy
  <2>. QED BY <2>4, <2>5
<1>3. ASSUME NEW c \in Calls, RedeemCoupon(c) PROVE BackedBy(k)'
  <2>0. calls[c].at = "redeem" /\ calls[c].code \in Codes /\ order' = order
    BY <1>3 DEF RedeemCoupon, Typed, CallOK
  <2>1. Discounted(k)' = Discounted(k)
    BY <2>0 DEF Discounted
  <2>2. CASE Redeemable(calls[c].code)
    <3>1. /\ calls'[c].at = "pay" /\ calls'[c].code = calls[c].code
          /\ \A d \in Calls \ {c} : calls'[d] = calls[d]
      <4>1. GoesOn(c) /\ calls'[c].at = "pay" /\ \A d \in Calls \ {c} : calls'[d] = calls[d]
        BY <1>3, <2>2, GotoMoves, RunGoes DEF RedeemCoupon, RunCall
      <4>. QED BY <4>1, IdleOK DEF GoesOn
    <3>2. coupon' = [coupon EXCEPT ![calls[c].code].used = @ + 1]
      BY <1>3, <2>2 DEF RedeemCoupon, Redeem
    <3>3. CASE calls[c].code # k
      <4>1. coupon'[k].used = coupon[k].used
        BY <2>0, <3>2, <3>3 DEF Typed, TypeOK, CouponRow
      <4>2. Paying(k)' \subseteq Paying(k)
        BY <3>1, <3>3 DEF Paying
      <4>. QED BY <1>0, <2>1, <4>1, <4>2, FewerBacked
    <3>4. CASE calls[c].code = k
      <4>1. coupon'[k].used = coupon[k].used + 1 /\ coupon[k].used \in Nat
        BY <2>0, <3>2, <3>4 DEF Typed, TypeOK, CouponRow
      <4>2. Paying(k)' = Paying(k) \cup {c}
        BY <3>1, <3>4 DEF Paying
      <4>3. /\ IsFiniteSet(Paying(k)') /\ Cardinality(Paying(k)') \in Nat
            /\ Cardinality(Paying(k)) \in Nat /\ Cardinality(Discounted(k)) \in Nat
            /\ Cardinality(Paying(k)') <= Cardinality(Paying(k)) + 1
        <5>1. IsFiniteSet(Discounted(k)) /\ IsFiniteSet(Paying(k))
          BY <1>0 DEF BackedBy
        <5>. QED BY <4>2, <5>1, OneMore, FS_CardinalityType
      <4>. QED BY <1>0, <2>1, <4>1, <4>3 DEF BackedBy
    <3>. QED BY <3>3, <3>4
  <2>3. CASE ~Redeemable(calls[c].code)
    <3>1. coupon' = coupon /\ calls'[c].at = "idle" /\ \A d \in Calls \ {c} : calls'[d] = calls[d]
      BY <1>3, <2>3, EndMoves DEF RedeemCoupon
    <3>2. Paying(k)' \subseteq Paying(k)
      BY <3>1 DEF Paying
    <3>. QED BY <1>0, <2>1, <3>1, <3>2, FewerBacked
  <2>. QED BY <2>2, <2>3
<1>. QED BY <1>1, <1>2, <1>3, WhoDiscounts

\* Whatever overlaps and wherever a payment dies, no more orders have the discount of
\* a code than redemptions of it were taken.
THEOREM DiscountsAreRedeemed == Spec => []DiscountsRedeemed
<1>1. Typed /\ Backed => DiscountsRedeemed
  <2>. SUFFICES ASSUME Typed, Backed, NEW k \in Codes
                PROVE  Cardinality(Discounted(k)) <= coupon[k].used
    BY DEF DiscountsRedeemed, Discounted
  <2>1. BackedBy(k)
    BY DEF Backed
  <2>2. /\ Cardinality(Discounted(k)) \in Nat /\ Cardinality(Paying(k)) \in Nat
        /\ coupon[k].used \in Nat
    BY <2>1, FS_CardinalityType DEF BackedBy, Typed, TypeOK, CouponRow
  <2>. QED BY <2>1, <2>2 DEF BackedBy
<1>. QED BY <1>1, TypedInit, TypedStep, BackedInit, BackedStep, PTL DEF Spec

-----------------------------------------------------------------------------
(* Receipts and payments, one call per order at a time *)

\* No amount is paid that a receipt would round.
WholePaise == \A amount \in Amounts : ToPaise(amount) = amount

\* What is paid, and about to be, is what somebody typed.
TypedIn ==
  /\ \A o \in Orders : order[o].paid \in Amounts \cup {0}
  /\ \A c \in Calls : calls[c].at \in {"redeem", "pay"} => calls[c].amount \in Amounts \cup {0}

\* The receipt a call is about to issue is not there yet.
Unreceipted ==
  \A c \in Calls : calls[c].at \in {"receipt number", "receipt insert"} =>
    calls[c].amount \in Amounts /\ ~Receipted(TheOrder(c), calls[c].amount)

LEMMA PaidIsTyped == \A amount \in Amounts \cup {0} : amount > 0 => amount \in Amounts
OBVIOUS

LEMMA TypedInInit == Init => TypedIn /\ Unreceipted
<1>. SUFFICES ASSUME Init PROVE TypedIn /\ Unreceipted
  OBVIOUS
<1>1. \A c \in Calls : calls[c].at = "idle"
  BY IdleOK DEF Init
<1>2. \A o \in Orders : order[o].paid \in {0}
  BY DEF Init, NewOrder
<1>. QED BY <1>1, <1>2 DEF TypedIn, Unreceipted

\* Who writes what was paid.
LEMMA WhoPaid ==
  ASSUME Typed, [Next]_vars, ~\E c \in Calls : Pay(c)
  PROVE  \A o \in Orders : order'[o].paid \in {order[o].paid, 0}
<1>. USE DEF Typed, TypeOK
<1>1. ASSUME NEW c \in Calls, RunCall(c) PROVE \A o \in Orders : order'[o].paid = order[o].paid
  <2>1. CASE Cancel(c)
    BY <2>1 DEF Cancel, OrderRow
  <2>. QED BY <1>1, <2>1, RunWrites
<1>2. CASE Office
  <2>1. ASSUME NEW o \in Orders, MarkUnpaid(o) PROVE \A b \in Orders : order'[b].paid \in {order[b].paid, 0}
    BY <2>1 DEF MarkUnpaid, OrderRow
  <2>2. ASSUME NEW o \in Orders, MapAwb(o) PROVE \A b \in Orders : order'[b].paid = order[b].paid
    BY <2>2 DEF MapAwb, OrderRow
  <2>3. ASSUME NEW o \in Orders, NEW status, UpdateStatus(o, status)
        PROVE  \A b \in Orders : order'[b].paid = order[b].paid
    BY <2>3 DEF UpdateStatus, OrderRow
  <2>4. CASE order' = order
    BY <2>4
  <2>. QED BY <1>2, <2>1, <2>2, <2>3, <2>4
           DEF Office, FillSettings, CancelAnInvoice, ReadInvoicePdf, CouponChange
<1>. QED BY <1>1, <1>2, StartBegins DEF Next, Beginning, Die, vars

LEMMA TypedInStep == Typed /\ TypedIn /\ [Next]_vars => TypedIn'
<1>. SUFFICES ASSUME Typed, TypedIn, [Next]_vars PROVE TypedIn'
  OBVIOUS
<1>1. \A o \in Orders : order'[o].paid \in Amounts \cup {0}
  <2>1. ASSUME NEW c \in Calls, Pay(c) PROVE \A b \in Orders : order'[b].paid \in Amounts \cup {0}
    <3>. DEFINE o == TheOrder(c)
                row == Paid(order[o], calls[c].amount, calls[c].code)
    <3>0. o \in Orders /\ order \in [Orders -> OrderRow]
      BY <2>1, TheOrderOK DEF Pay, Typed, TypeOK, Statements, Issuing
    <3>1. calls[c].amount \in Amounts \cup {0} /\ order[o].paid \in Amounts \cup {0}
      BY <2>1, <3>0 DEF Pay, TypedIn
    <3>2. row.paid = IF calls[c].amount = 0 THEN order[o].paid ELSE calls[c].amount
      BY <3>0 DEF Paid, OrderRow
    <3>3. order' = [order EXCEPT ![o] = row]
      BY <2>1 DEF Pay
    <3>. HIDE DEF row, o
    <3>. QED BY <3>0, <3>1, <3>2, <3>3 DEF TypedIn
  <2>. QED BY <2>1, WhoPaid DEF TypedIn
<1>2. ASSUME NEW d \in Calls, calls'[d].at \in {"redeem", "pay"}
      PROVE  calls'[d].amount \in Amounts \cup {0}
  <2>1. ASSUME NEW c \in Calls, StartCall(c) PROVE calls'[d].amount \in Amounts \cup {0}
    BY <1>2, <2>1, StartBegins DEF Beginning, TypedIn
  <2>2. ASSUME NEW c \in Calls, RunCall(c) PROVE calls'[d].amount \in Amounts \cup {0}
    <3>1. GoesOn(c) /\ \A b \in Calls \ {c} : calls'[b] = calls[b]
      BY <2>2, RunGoes
    <3>2. CASE d = c
      BY <1>2, <3>1, <3>2, IdleOK DEF GoesOn, Flow, TypedIn
    <3>. QED BY <1>2, <3>1, <3>2 DEF TypedIn
  <2>3. ASSUME NEW c \in Calls, Die(c) PROVE calls'[d].amount \in Amounts \cup {0}
    BY <1>2, <2>3, EndMoves DEF Die, TypedIn
  <2>4. CASE calls' = calls
    BY <1>2, <2>4 DEF TypedIn
  <2>5. Office => calls' = calls
    BY DEF Office, MarkUnpaid, MapAwb, UpdateStatus, FillSettings, CancelAnInvoice,
       ReadInvoicePdf, CouponChange
  <2>. QED BY <2>1, <2>2, <2>3, <2>4, <2>5 DEF Next, vars
<1>. QED BY <1>1, <1>2 DEF TypedIn

\* The receipts there are before and after a step that issues none.
SameReceipts ==
  /\ \A o \in Orders : \A amount : Receipted(o, amount)' <=> Receipted(o, amount)
  /\ OneReceiptPerPayment => OneReceiptPerPayment'

LEMMA PrintsReceipt ==
  ASSUME Typed, NEW r \in receipts, PrintReceipt(r)
  PROVE  SameReceipts
<1>. DEFINE printed == [r EXCEPT !.pdf = TRUE]
<1>1. printed.order = r.order /\ printed.amount = r.amount
  BY DEF Typed, TypeOK, DocumentsType, ReceiptRow
<1>2. receipts' = (receipts \ {r}) \cup {printed}
  BY DEF PrintReceipt
<1>. HIDE DEF printed
<1>3. \A o \in Orders : \A amount : Receipted(o, amount)' <=> Receipted(o, amount)
  BY <1>1, <1>2 DEF Receipted
<1>4. OneReceiptPerPayment => OneReceiptPerPayment'
  BY <1>1, <1>2 DEF OneReceiptPerPayment
<1>. QED BY <1>3, <1>4 DEF SameReceipts

LEMMA WhoReceipts ==
  ASSUME Typed, [Next]_vars, ~\E c \in Calls : InsertTheReceipt(c)
  PROVE  SameReceipts
<1>1. CASE receipts' = receipts
  BY <1>1 DEF SameReceipts, Receipted, OneReceiptPerPayment
<1>2. ASSUME NEW c \in Calls, RunCall(c) PROVE SameReceipts
  <2>1. CASE PrintTheReceipt(c)
    BY <1>1, <2>1, PrintsReceipt DEF PrintTheReceipt
  <2>. QED BY <1>1, <1>2, <2>1, RunWrites
<1>3. Office => receipts' = receipts
  BY DEF Office, MarkUnpaid, MapAwb, UpdateStatus, FillSettings, CancelAnInvoice,
     ReadInvoicePdf, CouponChange, documents
<1>4. ASSUME NEW c \in Calls, StartCall(c) \/ Die(c) PROVE receipts' = receipts
  BY <1>4, StartBegins DEF Beginning, Die, documents
<1>. QED BY <1>1, <1>2, <1>3, <1>4 DEF Next, vars, documents

\* TheOrder of a call that keeps its orders.
LEMMA SameOrder ==
  ASSUME NEW c \in Calls, calls'[c].orders = calls[c].orders
  PROVE  TheOrder(c)' = TheOrder(c)
BY DEF TheOrder

LEMMA InsertsReceipt ==
  ASSUME Typed, Unreceipted, WholePaise, NEW c \in Calls, InsertTheReceipt(c)
  PROVE  /\ TheOrder(c) \in Orders /\ calls[c].orders = {TheOrder(c)}
         /\ calls[c].at = "receipt insert" /\ calls'[c].at = "receipt print"
         /\ \A d \in Calls \ {c} : calls'[d] = calls[d]
         /\ \E row : /\ receipts' = receipts \cup {row}
                     /\ row.order = TheOrder(c)
                     /\ ~Receipted(TheOrder(c), row.amount)
<1>1. calls[c].at = "receipt insert" /\ TheOrder(c) \in Orders /\ calls[c].orders = {TheOrder(c)}
  BY TheOrderOK DEF InsertTheReceipt, Typed, Statements, Issuing
<1>2. calls'[c].at = "receipt print" /\ \A d \in Calls \ {c} : calls'[d] = calls[d]
  BY GotoMoves DEF InsertTheReceipt
<1>. DEFINE row == [BlankReceipt(TheOrder(c)) EXCEPT !.number = calls[c].number,
                                                    !.amount = ToPaise(calls[c].amount)]
<1>3. row.order = TheOrder(c) /\ row.amount = ToPaise(calls[c].amount)
  BY DEF BlankReceipt
<1>4. receipts' = receipts \cup {row}
  BY DEF InsertTheReceipt, InsertReceipt
<1>5. ToPaise(calls[c].amount) = calls[c].amount /\ ~Receipted(TheOrder(c), calls[c].amount)
  BY <1>1 DEF WholePaise, Unreceipted
<1>. HIDE DEF row
<1>6. ~Receipted(TheOrder(c), row.amount)
  BY <1>3, <1>5
<1>. QED BY <1>1, <1>2, <1>3, <1>4, <1>6

LEMMA UnreceiptedStep ==
  ASSUME Typed, TypedIn, Apart, Unreceipted, WholePaise, [Next]_vars
  PROVE  Unreceipted'
<1>. SUFFICES ASSUME NEW d \in Calls, calls'[d].at \in {"receipt number", "receipt insert"}
              PROVE  calls'[d].amount \in Amounts /\ ~Receipted(TheOrder(d), calls[d].amount)'
  BY DEF Unreceipted
<1>1. CASE calls'[d] = calls[d]
  <2>0. /\ calls[d].amount \in Amounts /\ ~Receipted(TheOrder(d), calls[d].amount)
        /\ calls[d].orders = {TheOrder(d)} /\ TheOrder(d) \in Orders /\ calls[d].amount \in Nat
    BY <1>1, TheOrderOK, PaymentAssumption DEF Unreceipted, Typed, Statements, Issuing
  <2>1. TheOrder(d)' = TheOrder(d)
    BY <1>1, SameOrder
  <2>2. ASSUME NEW c \in Calls, InsertTheReceipt(c)
        PROVE  ~Receipted(TheOrder(d), calls[d].amount)'
    <3>1. PICK row : receipts' = receipts \cup {row} /\ row.order = TheOrder(c)
      BY <2>2, InsertsReceipt
    <3>2. c # d /\ calls[c].at # "idle" /\ calls[d].at # "idle" /\ calls[c].orders = {TheOrder(c)}
      BY <1>1, <2>2, InsertsReceipt
    <3>3. TheOrder(c) # TheOrder(d)
      BY <2>0, <3>2 DEF Apart
    <3>. QED BY <1>1, <2>0, <2>1, <3>1, <3>3 DEF Receipted
  <2>3. CASE SameReceipts
    <3>1. ~Receipted(TheOrder(d), calls[d].amount)'
      <4>1. PICK o \in Orders, amount \in Amounts : o = TheOrder(d) /\ amount = calls[d].amount
        BY <2>0
      <4>3. ~\E r \in receipts : r.order = o /\ r.amount = amount
        BY <2>0, <4>1 DEF Receipted
      <4>2. ~\E r \in receipts' : r.order = o /\ r.amount = amount
        BY <2>3, <4>3 DEF SameReceipts, Receipted
      <4>. QED BY <1>1, <2>1, <4>1, <4>2 DEF Receipted
    <3>. QED BY <1>1, <2>0, <3>1
  <2>. QED BY <1>1, <2>0, <2>2, <2>3, WhoReceipts
<1>2. CASE calls'[d] # calls[d]
  <2>1. RunCall(d)
    <3>1. ASSUME NEW c \in Calls, StartCall(c) PROVE FALSE
      BY <1>2, <3>1, StartBegins DEF Beginning
    <3>2. ASSUME NEW c \in Calls, RunCall(c), c # d PROVE FALSE
      BY <1>2, <3>2, RunGoes
    <3>3. ASSUME NEW c \in Calls, Die(c) PROVE FALSE
      BY <1>2, <3>3, EndMoves DEF Die
    <3>4. Office => calls' = calls
      BY DEF Office, MarkUnpaid, MapAwb, UpdateStatus, FillSettings, CancelAnInvoice,
         ReadInvoicePdf, CouponChange
    <3>. QED BY <1>2, <3>1, <3>2, <3>3, <3>4 DEF Next, vars
  <2>2. /\ GoesOn(d) /\ calls[d].at \in {"receipt read", "receipt number"}
        /\ calls'[d].orders = calls[d].orders
    BY <2>1, RunGoes, IdleOK DEF GoesOn, Flow
  <2>3. /\ TheOrder(d)' = TheOrder(d) /\ TheOrder(d) \in Orders
        /\ receipts' = receipts
    <3>1. ~InsertTheReceipt(d) /\ ~PrintTheReceipt(d)
      BY <2>2 DEF InsertTheReceipt, PrintTheReceipt
    <3>. QED BY <2>1, <2>2, <3>1, SameOrder, RunWrites, TheOrderOK DEF Typed, Statements, Issuing
  <2>4. CASE calls[d].at = "receipt number"
    <3>1. calls'[d].amount = calls[d].amount
      BY <2>2, <2>4, IdleOK DEF GoesOn
    <3>. QED BY <2>3, <2>4, <3>1 DEF Unreceipted, Receipted
  <2>5. CASE calls[d].at = "receipt read"
    <3>. DEFINE paid == order[TheOrder(d)].paid
    <3>1. ReadForReceipt(d)
      BY <2>1, <2>5 DEF RunCall, RedeemCoupon, Pay, ReadForBill, NumberBill, InsertBill, PrintBill,
         NumberReceipt, InsertTheReceipt, PrintTheReceipt, Cancel
    <3>2. /\ paid > 0 /\ ~Receipted(TheOrder(d), paid)
          /\ calls' = [calls EXCEPT ![d] = [@ EXCEPT !.at = "receipt number", !.amount = paid]]
      <4>1. ~End(d)
        BY EndMoves
      <4>. QED BY <3>1, <4>1 DEF ReadForReceipt
    <3>3. calls'[d].amount = paid
      BY <3>2 DEF Typed, TypeOK, CallRow
    <3>4. paid \in Amounts
      <4>1. PICK p \in Amounts \cup {0} : p = paid
        BY <2>3 DEF TypedIn
      <4>2. p > 0
        BY <3>2, <4>1
      <4>. QED BY <4>1, <4>2, PaidIsTyped
    <3>. QED BY <2>3, <3>2, <3>3, <3>4 DEF Receipted
  <2>. QED BY <2>2, <2>4, <2>5
<1>. QED BY <1>1, <1>2

LEMMA OneReceiptStep ==
  ASSUME Typed, Unreceipted, WholePaise, OneReceiptPerPayment, [Next]_vars
  PROVE  OneReceiptPerPayment'
<1>1. ASSUME NEW c \in Calls, InsertTheReceipt(c) PROVE OneReceiptPerPayment'
  <2>1. PICK row : /\ receipts' = receipts \cup {row} /\ row.order = TheOrder(c)
                   /\ ~Receipted(TheOrder(c), row.amount)
    BY <1>1, InsertsReceipt
  <2>2. \A r \in receipts : ~(r.order = row.order /\ r.amount = row.amount)
    BY <2>1 DEF Receipted
  <2>. QED BY <2>1, <2>2 DEF OneReceiptPerPayment
<1>. QED BY <1>1, WhoReceipts DEF SameReceipts

\* As long as calls about one order do not overlap and amounts are whole paise, a payment
\* has one receipt, however often it is asked for and wherever calls die.
THEOREM ReceiptsAreIssuedOnce ==
  ASSUME Exclusive = TRUE, WholePaise
  PROVE  Spec => []OneReceiptPerPayment
<1>. DEFINE IInv == Typed /\ Apart /\ TypedIn /\ Unreceipted /\ OneReceiptPerPayment
<1>1. Init => IInv
  <2>1. Init => OneReceiptPerPayment
    BY DEF Init, DocumentsInit, OneReceiptPerPayment
  <2>. QED BY <2>1, TypedInit, UnbrokenInit, TypedInInit DEF Unbroken
<1>2. IInv /\ [Next]_vars => IInv'
  BY TypedStep, ApartStep, TypedInStep, UnreceiptedStep, OneReceiptStep
<1>3. IInv => OneReceiptPerPayment
  OBVIOUS
<1>. QED BY <1>1, <1>2, <1>3, PTL DEF Spec

-----------------------------------------------------------------------------
(* Fees and cancellations, one call per order at a time *)

Fees(o) == {i \in invoices : i.kind = "fee" /\ i.orders = {o}}

\* Call c owes order o the invoice of a fee: it has cancelled the order, or is about to
\* write what somebody else has written meanwhile.
Charges(c, o) ==
  /\ calls[c].kind = "fee" /\ calls[c].orders = {o}
  /\ \/ calls[c].at \in {"bill read", "bill number", "bill insert"}
     \/ calls[c].at = "cancel" /\ order[o].status = "CANCELLED"

FeeFits(o) ==
  /\ IsFiniteSet(Fees(o))
  /\ Cardinality(Fees(o)) <= cancelled[o]
  /\ (\E c \in Calls : Charges(c, o)) => Cardinality(Fees(o)) + 1 <= cancelled[o]

FeesFit ==
  /\ \A o \in Orders : FeeFits(o)
  /\ \A c \in Calls : calls[c].at \in {"redeem", "pay"} => calls[c].kind # "fee"

LEMMA FeesFitInit == Init => FeesFit
<1>. SUFFICES ASSUME Init PROVE FeesFit
  OBVIOUS
<1>1. \A c \in Calls : calls[c].at = "idle"
  BY IdleOK DEF Init
<1>2. ASSUME NEW o \in Orders PROVE FeeFits(o)
  <2>1. Fees(o) = {} /\ cancelled[o] = 0
    BY DEF Init, DocumentsInit, Fees
  <2>2. ~\E c \in Calls : Charges(c, o)
    BY <1>1 DEF Charges
  <2>3. IsFiniteSet(Fees(o)) /\ Cardinality(Fees(o)) <= cancelled[o]
    BY <2>1, FS_EmptySet
  <2>. QED BY <2>2, <2>3 DEF FeeFits
<1>. QED BY <1>1, <1>2 DEF FeesFit

\* No more fees of an order than before.
NoNewFee(o) ==
  /\ IsFiniteSet(Fees(o)')
  /\ Cardinality(Fees(o)') \in Nat /\ Cardinality(Fees(o)') <= Cardinality(Fees(o))

LEMMA SameFees ==
  ASSUME NEW o, IsFiniteSet(Fees(o)), Fees(o)' = Fees(o)
  PROVE  NoNewFee(o)
BY FS_CardinalityType DEF NoNewFee

LEMMA ReplacesFee ==
  ASSUME Typed, NEW o \in Orders, IsFiniteSet(Fees(o)), NEW i \in invoices,
         PrintInvoice(i) \/ CancelInvoice(i)
  PROVE  NoNewFee(o)
<1>1. PICK j : /\ invoices' = (invoices \ {i}) \cup {j}
               /\ j.kind = i.kind /\ j.orders = i.orders
  <2>. DEFINE printed == [i EXCEPT !.pdf = TRUE]
              voided  == [i EXCEPT !.cancelled = TRUE]
  <2>1. /\ printed.kind = i.kind /\ printed.orders = i.orders
        /\ voided.kind = i.kind /\ voided.orders = i.orders
    BY DEF Typed, TypeOK, DocumentsType, InvoiceRow
  <2>2. \/ invoices' = (invoices \ {i}) \cup {printed}
        \/ invoices' = (invoices \ {i}) \cup {voided}
    BY DEF PrintInvoice, CancelInvoice, ReplaceInvoice
  <2>. HIDE DEF printed, voided
  <2>. QED BY <2>1, <2>2
<1>2. CASE i \in Fees(o)
  <2>1. Fees(o)' \subseteq (Fees(o) \ {i}) \cup {j}
    BY <1>1 DEF Fees
  <2>2. /\ IsFiniteSet(Fees(o) \ {i}) /\ Cardinality(Fees(o) \ {i}) \in Nat
        /\ Cardinality(Fees(o) \ {i}) + 1 = Cardinality(Fees(o))
    BY <1>2, OneLess
  <2>3. /\ IsFiniteSet((Fees(o) \ {i}) \cup {j})
        /\ Cardinality((Fees(o) \ {i}) \cup {j}) \in Nat
        /\ Cardinality((Fees(o) \ {i}) \cup {j}) <= Cardinality(Fees(o) \ {i}) + 1
    BY <2>2, OneMore
  <2>4. IsFiniteSet(Fees(o)') /\ Cardinality(Fees(o)') <= Cardinality((Fees(o) \ {i}) \cup {j})
    BY <2>1, <2>3, FS_Subset
  <2>5. Cardinality(Fees(o)') \in Nat /\ Cardinality(Fees(o)) \in Nat
    BY <2>4, FS_CardinalityType
  <2>. QED BY <2>2, <2>3, <2>4, <2>5 DEF NoNewFee
<1>3. CASE i \notin Fees(o)
  <2>1. Fees(o)' = Fees(o)
    BY <1>1, <1>3 DEF Fees
  <2>. QED BY <2>1, FS_CardinalityType DEF NoNewFee
<1>. QED BY <1>2, <1>3

LEMMA WhoCharges ==
  ASSUME Typed, [Next]_vars, ~\E c \in Calls : InsertBill(c),
         NEW o \in Orders, IsFiniteSet(Fees(o))
  PROVE  NoNewFee(o)
<1>1. CASE invoices' = invoices
  <2>1. Fees(o)' = Fees(o)
    BY <1>1 DEF Fees
  <2>. QED BY <2>1, FS_CardinalityType DEF NoNewFee
<1>2. ASSUME NEW c \in Calls, RunCall(c) PROVE NoNewFee(o)
  <2>1. CASE PrintBill(c)
    BY <1>1, <2>1, ReplacesFee DEF PrintBill
  <2>. QED BY <1>1, <1>2, <2>1, RunWrites
<1>3. CASE Office
  <2>1. ASSUME NEW i \in invoices, CancelAnInvoice(i) \/ ReadInvoicePdf(i) PROVE NoNewFee(o)
    BY <1>1, <2>1, ReplacesFee DEF CancelAnInvoice, ReadInvoicePdf
  <2>. QED BY <1>1, <1>3, <2>1 DEF Office, MarkUnpaid, MapAwb, UpdateStatus, FillSettings,
           CouponChange, documents
<1>4. ASSUME NEW c \in Calls, StartCall(c) \/ Die(c) PROVE invoices' = invoices
  BY <1>4, StartBegins DEF Beginning, Die, documents
<1>. QED BY <1>1, <1>2, <1>3, <1>4 DEF Next, vars, documents

\* Nobody owes an invoice who did not before, unless the order was cancelled again.
LEMMA FitsStill ==
  ASSUME Typed, Typed', NEW o \in Orders, FeeFits(o), NoNewFee(o),
         \/ cancelled'[o] = cancelled[o] + 1
         \/ /\ cancelled'[o] = cancelled[o]
            /\ \A c \in Calls : Charges(c, o)' => Charges(c, o)
  PROVE  FeeFits(o)'
<1>1. cancelled[o] \in Nat /\ cancelled'[o] \in Nat /\ Cardinality(Fees(o)) \in Nat
  BY FS_CardinalityType DEF Typed, TypeOK, FeeFits
<1>2. \A m, n, x, y \in Nat : n <= m =>
        /\ m <= x /\ y = x + 1 => n <= y /\ n + 1 <= y
        /\ m <= x /\ y = x => n <= y
        /\ m + 1 <= x /\ y = x => n + 1 <= y
  OBVIOUS
<1>3. CASE cancelled'[o] = cancelled[o] + 1
  <2>1. Cardinality(Fees(o)') <= cancelled'[o] /\ Cardinality(Fees(o)') + 1 <= cancelled'[o]
    BY <1>1, <1>2, <1>3 DEF FeeFits, NoNewFee
  <2>. QED BY <2>1 DEF FeeFits, NoNewFee
<1>4. CASE /\ cancelled'[o] = cancelled[o]
           /\ \A c \in Calls : Charges(c, o)' => Charges(c, o)
  <2>1. Cardinality(Fees(o)') <= cancelled'[o]
    BY <1>1, <1>2, <1>4 DEF FeeFits, NoNewFee
  <2>2. ASSUME \E c \in Calls : Charges(c, o)'
        PROVE  Cardinality(Fees(o)') + 1 <= cancelled'[o]
    <3>1. Cardinality(Fees(o)) + 1 <= cancelled[o]
      BY <1>4, <2>2 DEF FeeFits
    <3>. QED BY <1>1, <1>2, <1>4, <3>1 DEF NoNewFee
  <2>. QED BY <2>1, <2>2 DEF FeeFits, NoNewFee
<1>. QED BY <1>3, <1>4

\* A call that is not at its cancellation owes only what it owed.
LEMMA OwesStill ==
  ASSUME Typed, FeesFit, NEW c \in Calls, GoesOn(c), calls[c].at # "cancel",
         NEW o \in Orders, Charges(c, o)'
  PROVE  Charges(c, o)
<1>1. calls'[c] # Idle
  BY IdleOK DEF Charges
<1>2. /\ calls'[c].kind = calls[c].kind /\ calls'[c].orders = calls[c].orders
      /\ calls'[c].kind = "fee" /\ calls'[c].orders = {o}
      /\ <<calls[c].at, calls'[c].at>> \in Flow
  BY <1>1 DEF GoesOn, Charges
<1>3. calls[c].at \notin {"redeem", "pay"}
  BY <1>2 DEF FeesFit
<1>4. calls'[c].at \in {"bill read", "bill number", "bill insert", "cancel"}
  BY DEF Charges
<1>5. calls[c].at \in {"bill read", "bill number", "bill insert"}
  BY <1>2, <1>3, <1>4 DEF Flow
<1>. QED BY <1>2, <1>5 DEF Charges

LEMMA FitsAfterInsert ==
  ASSUME Typed, Typed', Apart, FeesFit, [Next]_vars, NEW c \in Calls, InsertBill(c), NEW o \in Orders
  PROVE  FeeFits(o)'
<1>0. /\ FeeFits(o) /\ cancelled' = cancelled /\ order' = order
      /\ calls[c].at = "bill insert" /\ calls'[c].at \notin {"bill number", "bill insert"}
      /\ GoesOn(c) /\ \A d \in Calls \ {c} : calls'[d] = calls[d]
  BY InsertedOK, RunGoes DEF FeesFit, InsertBill, RunCall
<1>1. ~Charges(c, o)'
  BY <1>0, IdleOK DEF Charges, GoesOn, Flow
<1>2. \A d \in Calls \ {c} : Charges(d, o)' => Charges(d, o)
  BY <1>0 DEF Charges
<1>3. CASE Fees(o)' = Fees(o)
  <2>1. NoNewFee(o)
    BY <1>0, <1>3, SameFees DEF FeeFits
  <2>. QED BY <1>0, <1>1, <1>2, <2>1, FitsStill
<1>4. CASE Fees(o)' # Fees(o)
  <2>1. PICK row \in InvoiceRow : /\ invoices' = invoices \cup {row}
                                 /\ row.kind = calls[c].kind /\ row.orders = calls[c].orders
    BY <1>4, InsertedOK DEF Fees
  <2>2. row.kind = "fee" /\ row.orders = {o} /\ Fees(o)' = Fees(o) \cup {row}
    BY <1>4, <2>1 DEF Fees
  <2>3. Charges(c, o)
    BY <1>0, <2>1, <2>2 DEF Charges
  <2>4. ~\E d \in Calls : Charges(d, o)'
    <3>1. ASSUME NEW d \in Calls \ {c}, Charges(d, o) PROVE FALSE
      <4>1. /\ calls[d].at # "idle" /\ calls[c].at # "idle"
            /\ calls[d].orders = {o} /\ calls[c].orders = {o}
        BY <2>3, <3>1 DEF Charges
      <4>. QED BY <4>1 DEF Apart
    <3>. QED BY <1>1, <1>2, <3>1
  <2>5. /\ IsFiniteSet(Fees(o)') /\ Cardinality(Fees(o)) \in Nat /\ Cardinality(Fees(o)') \in Nat
        /\ Cardinality(Fees(o)') <= Cardinality(Fees(o)) + 1
    <3>1. IsFiniteSet(Fees(o))
      BY <1>0 DEF FeeFits
    <3>. QED BY <2>2, <3>1, OneMore
  <2>6. Cardinality(Fees(o)) + 1 <= cancelled[o] /\ cancelled[o] \in Nat
    BY <1>0, <2>3 DEF FeeFits, Typed, TypeOK
  <2>7. \A m, n, x \in Nat : n <= m + 1 /\ m + 1 <= x => n <= x
    OBVIOUS
  <2>8. Cardinality(Fees(o)') <= cancelled'[o]
    BY <1>0, <2>5, <2>6, <2>7
  <2>. QED BY <2>4, <2>5, <2>8 DEF FeeFits
<1>. QED BY <1>3, <1>4

LEMMA FitsAfterCancel ==
  ASSUME Typed, Typed', FeesFit, [Next]_vars, NEW c \in Calls, Cancel(c), NEW o \in Orders
  PROVE  FeeFits(o)'
<1>. DEFINE b == TheOrder(c)
<1>0. /\ FeeFits(o) /\ calls[c].at = "cancel"
      /\ b \in Orders /\ calls[c].orders = {b}
      /\ GoesOn(c) /\ \A d \in Calls \ {c} : calls'[d] = calls[d]
  BY TheOrderOK, RunGoes DEF FeesFit, Cancel, RunCall, Typed, Statements, Issuing
<1>1. NoNewFee(o)
  <2>1. invoices' = invoices
    BY DEF Cancel, documents
  <2>2. Fees(o)' = Fees(o)
    BY <2>1 DEF Fees
  <2>. QED BY <1>0, <2>2, FS_CardinalityType DEF FeeFits, NoNewFee
<1>2. /\ \A a \in Orders \ {b} : order'[a].status = order[a].status
      /\ order'[b].status = "CANCELLED"
  <2>. DEFINE row == [order[b] EXCEPT !.status = "CANCELLED"]
  <2>1. order[b] \in OrderRow /\ order \in [Orders -> OrderRow]
    BY <1>0 DEF Typed, TypeOK
  <2>2. row.status = "CANCELLED"
    BY <2>1 DEF OrderRow
  <2>3. order' = [order EXCEPT ![b] = row]
    BY DEF Cancel
  <2>. HIDE DEF row, b
  <2>. QED BY <1>0, <2>1, <2>2, <2>3
<1>3. CASE o = b /\ order[b].status # "CANCELLED"
  <2>1. cancelled'[o] = cancelled[o] + 1
    BY <1>0, <1>3 DEF Cancel, Typed, TypeOK
  <2>. QED BY <1>0, <1>1, <2>1, FitsStill
<1>4. CASE o # b \/ order[b].status = "CANCELLED"
  <2>1. cancelled'[o] = cancelled[o]
    BY <1>0, <1>4 DEF Cancel, Typed, TypeOK
  <2>2. order'[o].status = order[o].status
    BY <1>2, <1>4
  <2>3. Charges(c, o)' => Charges(c, o)
    <3>1. SUFFICES ASSUME Charges(c, o)' PROVE Charges(c, o)
      OBVIOUS
    <3>2. calls'[c] # Idle
      BY <3>1, IdleOK DEF Charges
    <3>3. calls[c].kind = "fee" /\ calls[c].orders = {o}
      BY <1>0, <3>1, <3>2 DEF GoesOn, Charges
    <3>4. o = b
      BY <1>0, <3>3
    <3>. QED BY <1>0, <1>4, <3>3, <3>4 DEF Charges
  <2>4. \A d \in Calls \ {c} : Charges(d, o)' => Charges(d, o)
    BY <1>0, <2>2 DEF Charges
  <2>. QED BY <1>0, <1>1, <2>1, <2>3, <2>4, FitsStill
<1>. QED BY <1>3, <1>4

LEMMA FitsAfterOffice ==
  ASSUME Typed, Typed', FeesFit, [Next]_vars, Office, NEW o \in Orders,
         ~\E c \in Calls : InsertBill(c)
  PROVE  FeeFits(o)'
<1>0. FeeFits(o) /\ NoNewFee(o) /\ calls' = calls
  BY WhoCharges DEF FeesFit, FeeFits, Office, MarkUnpaid, MapAwb, UpdateStatus, FillSettings,
     CancelAnInvoice, ReadInvoicePdf, CouponChange
<1>. USE DEF Typed, TypeOK
<1>1. CASE cancelled'[o] = cancelled[o] /\ (order'[o].status \in {order[o].status, "OPEN", "COMPLETED"})
  <2>1. \A c \in Calls : Charges(c, o)' => Charges(c, o)
    BY <1>0, <1>1 DEF Charges
  <2>. QED BY <1>0, <1>1, <2>1, FitsStill
<1>2. ASSUME NEW b \in Orders, MarkUnpaid(b) \/ MapAwb(b) PROVE FeeFits(o)'
  <2>1. cancelled' = cancelled /\ order'[o].status = order[o].status
    <3>1. PICK row : /\ order' = [order EXCEPT ![b] = row] /\ row.status = order[b].status
                     /\ cancelled' = cancelled
      <4>. DEFINE unpaid == [order[b] EXCEPT !.payment = "PENDING", !.paid = 0, !.coupon = NoCode]
                  mapped == [order[b] EXCEPT !.awb = TRUE]
      <4>1. unpaid.status = order[b].status /\ mapped.status = order[b].status
        BY DEF OrderRow
      <4>2. /\ order' = [order EXCEPT ![b] = unpaid] \/ order' = [order EXCEPT ![b] = mapped]
            /\ cancelled' = cancelled
        BY <1>2 DEF MarkUnpaid, MapAwb
      <4>. HIDE DEF unpaid, mapped
      <4>. QED BY <4>1, <4>2
    <3>. QED BY <3>1
  <2>. QED BY <1>1, <2>1
<1>3. ASSUME NEW b \in Orders, NEW status \in {"OPEN", "COMPLETED", "CANCELLED"},
             UpdateStatus(b, status)
      PROVE  FeeFits(o)'
  <2>1. CASE o = b /\ status = "CANCELLED"
    <3>1. cancelled'[o] = cancelled[o] + 1
      BY <1>3, <2>1 DEF UpdateStatus
    <3>. QED BY <1>0, <3>1, FitsStill
  <2>2. CASE o # b \/ status # "CANCELLED"
    <3>1. /\ cancelled'[o] = cancelled[o]
          /\ order'[o].status \in {order[o].status, "OPEN", "COMPLETED"}
      BY <1>3, <2>2 DEF UpdateStatus, OrderRow
    <3>. QED BY <1>1, <3>1
  <2>. QED BY <2>1, <2>2
<1>4. CASE order' = order /\ cancelled' = cancelled
  BY <1>1, <1>4
<1>. QED BY <1>2, <1>3, <1>4 DEF Office, FillSettings, CancelAnInvoice, ReadInvoicePdf, CouponChange

LEMMA FeesFitStep ==
  ASSUME Typed, Apart, FeesFit, [Next]_vars
  PROVE  FeesFit'
<1>0. Typed'
  BY TypedStep
<1>1. ASSUME NEW d \in Calls, calls'[d].at \in {"redeem", "pay"} PROVE calls'[d].kind # "fee"
  <2>1. ASSUME NEW c \in Calls, StartCall(c) PROVE calls'[d].kind # "fee"
    BY <1>1, <2>1, StartBegins DEF Beginning, FeesFit
  <2>2. ASSUME NEW c \in Calls, RunCall(c) PROVE calls'[d].kind # "fee"
    <3>1. GoesOn(c) /\ \A b \in Calls \ {c} : calls'[b] = calls[b]
      BY <2>2, RunGoes
    <3>2. CASE d = c
      BY <1>1, <3>1, <3>2, IdleOK DEF GoesOn, Flow, FeesFit
    <3>. QED BY <1>1, <3>1, <3>2 DEF FeesFit
  <2>3. ASSUME NEW c \in Calls, Die(c) PROVE calls'[d].kind # "fee"
    BY <1>1, <2>3, EndMoves DEF Die, FeesFit
  <2>4. CASE calls' = calls
    BY <1>1, <2>4 DEF FeesFit
  <2>5. Office => calls' = calls
    BY DEF Office, MarkUnpaid, MapAwb, UpdateStatus, FillSettings, CancelAnInvoice,
       ReadInvoicePdf, CouponChange
  <2>. QED BY <2>1, <2>2, <2>3, <2>4, <2>5 DEF Next, vars
<1>2. ASSUME NEW o \in Orders PROVE FeeFits(o)'
  <2>0. FeeFits(o)
    BY DEF FeesFit
  <2>1. ASSUME NEW c \in Calls, InsertBill(c) PROVE FeeFits(o)'
    BY <1>0, <2>1, FitsAfterInsert
  <2>2. ASSUME NEW c \in Calls, Cancel(c) PROVE FeeFits(o)'
    BY <1>0, <2>2, FitsAfterCancel
  <2>3. CASE Office /\ ~\E c \in Calls : InsertBill(c)
    BY <1>0, <2>3, FitsAfterOffice
  <2>4. ASSUME ~\E c \in Calls : InsertBill(c), cancelled' = cancelled,
               \A c \in Calls : Charges(c, o)' => Charges(c, o)
        PROVE  FeeFits(o)'
    <3>1. NoNewFee(o)
      BY <2>0, <2>4, WhoCharges DEF FeeFits
    <3>. QED BY <1>0, <2>0, <2>4, <3>1, FitsStill
  <2>5. ASSUME NEW c \in Calls, RunCall(c), ~Cancel(c), ~\E d \in Calls : InsertBill(d)
        PROVE  FeeFits(o)'
    <3>1. /\ GoesOn(c) /\ \A d \in Calls \ {c} : calls'[d] = calls[d]
          /\ cancelled' = cancelled
      BY <2>5, RunGoes, RunWrites
    <3>2. calls[c].at # "cancel"
      BY <2>5 DEF RunCall, RedeemCoupon, Pay, ReadForBill, NumberBill, InsertBill, PrintBill,
         ReadForReceipt, NumberReceipt, InsertTheReceipt, PrintTheReceipt
    <3>3. order'[o].status = order[o].status
      <4>1. CASE Pay(c)
        <5>. DEFINE b   == TheOrder(c)
                    row == Paid(order[b], calls[c].amount, calls[c].code)
        <5>1. b \in Orders /\ order \in [Orders -> OrderRow]
          BY <4>1, TheOrderOK DEF Pay, Typed, TypeOK, Statements, Issuing
        <5>2. row.status = order[b].status
          BY <5>1 DEF Paid, OrderRow
        <5>3. order' = [order EXCEPT ![b] = row]
          BY <4>1 DEF Pay
        <5>. HIDE DEF row, b
        <5>. QED BY <5>1, <5>2, <5>3
      <4>. QED BY <2>5, <4>1, RunWrites
    <3>4. \A d \in Calls \ {c} : Charges(d, o)' => Charges(d, o)
      BY <3>1, <3>3 DEF Charges
    <3>5. Charges(c, o)' => Charges(c, o)
      BY <3>1, <3>2, OwesStill
    <3>. QED BY <2>4, <2>5, <3>1, <3>4, <3>5
  <2>6. ASSUME NEW c \in Calls, StartCall(c), ~\E d \in Calls : InsertBill(d)
        PROVE  FeeFits(o)'
    <3>1. Beginning(c)
      BY <2>6, StartBegins
    <3>2. ~Charges(c, o)'
      BY <3>1 DEF Beginning, OnAnOpenOrder, Charges
    <3>3. \A d \in Calls \ {c} : Charges(d, o)' => Charges(d, o)
      BY <3>1 DEF Beginning, Charges
    <3>4. cancelled' = cancelled
      BY <3>1 DEF Beginning
    <3>. QED BY <2>4, <2>6, <3>2, <3>3, <3>4
  <2>7. ASSUME NEW c \in Calls, Die(c), ~\E d \in Calls : InsertBill(d) PROVE FeeFits(o)'
    <3>1. ~Charges(c, o)' /\ \A d \in Calls \ {c} : Charges(d, o)' => Charges(d, o)
      BY <2>7, EndMoves DEF Die, Charges
    <3>. QED BY <2>4, <2>7, <3>1 DEF Die
  <2>8. CASE UNCHANGED vars /\ ~\E d \in Calls : InsertBill(d)
    <3>1. \A d \in Calls : Charges(d, o)' => Charges(d, o)
      BY <2>8 DEF vars, Charges
    <3>. QED BY <2>4, <2>8, <3>1 DEF vars
  <2>. QED BY <2>1, <2>2, <2>3, <2>5, <2>6, <2>7, <2>8 DEF Next
<1>. QED BY <1>1, <1>2 DEF FeesFit

\* As long as calls about one order do not overlap, a cancellation is charged for once at
\* most, though the office may set an order's status between a call's check and its write,
\* and calls may die.
THEOREM FeesAreChargedOnce ==
  ASSUME Exclusive = TRUE
  PROVE  Spec => []FeeOncePerCancellation
<1>. DEFINE IInv == Typed /\ Apart /\ FeesFit
<1>1. Init => IInv
  BY TypedInit, UnbrokenInit, FeesFitInit DEF Unbroken
<1>2. IInv /\ [Next]_vars => IInv'
  BY TypedStep, ApartStep, FeesFitStep
<1>3. IInv => FeeOncePerCancellation
  BY DEF FeesFit, FeeFits, Fees, FeeOncePerCancellation
<1>. QED BY <1>1, <1>2, <1>3, PTL DEF Spec

-----------------------------------------------------------------------------
(* The two series of numbers *)

\* What is on documents is the same before and after a step that issues none.
LEMMA SameInvoicesSay == SameInvoices => IssuedInvoices' = IssuedInvoices
<1>. SUFFICES ASSUME SameInvoices PROVE IssuedInvoices' = IssuedInvoices
  OBVIOUS
<1>1. ASSUME NEW i, NEW j, j.number = i.number, j.kind = i.kind, j.orders = i.orders
      PROVE  [number |-> j.number, says |-> [kind |-> j.kind, orders |-> j.orders]]
               = [number |-> i.number, says |-> [kind |-> i.kind, orders |-> i.orders]]
  BY <1>1
<1>. DEFINE Doc(i) == [number |-> i.number, says |-> [kind |-> i.kind, orders |-> i.orders]]
<1>2. \A i \in invoices : \E j \in invoices' : Doc(j) = Doc(i)
  BY <1>1 DEF SameInvoices
<1>3. \A j \in invoices' : \E i \in invoices : Doc(j) = Doc(i)
  BY <1>1 DEF SameInvoices
<1>4. IssuedInvoices = {Doc(i) : i \in invoices} /\ IssuedInvoices' = {Doc(i) : i \in invoices'}
  BY DEF IssuedInvoices
<1>. HIDE DEF Doc
<1>. QED BY <1>2, <1>3, <1>4

\* How the hands at a statement change when one call moves.
LEMMA HandOver ==
  ASSUME NEW at, NEW c \in Calls, \A d \in Calls \ {c} : calls'[d] = calls[d]
  PROVE  /\ calls[c].at # at /\ calls'[c].at # at => HeldAt(at)' = HeldAt(at)
         /\ calls[c].at # at /\ calls'[c].at = at => HeldAt(at)' = HeldAt(at) \cup {calls'[c].number}
         /\ /\ calls[c].at = at /\ calls'[c].at # at
            /\ \A d \in Calls \ {c} : calls[d].at = at => calls[d].number # calls[c].number
            => HeldAt(at)' = HeldAt(at) \ {calls[c].number} /\ calls[c].number \in HeldAt(at)
BY DEF HeldAt

LEMMA SeriesInit == Init => InvoiceSeries!Init /\ ReceiptSeries!Init
BY IdleOK DEF Init, DocumentsInit, InvoiceSeries!Init, ReceiptSeries!Init, HeldAt, IssuedInvoices, IssuedReceipts

LEMMA InvoiceSeriesStep ==
  ASSUME Typed, Fresh, [Next]_vars
  PROVE  [InvoiceSeries!Next]_<<invoiceCounter, HeldAt("bill insert"), IssuedInvoices>>
<1>. DEFINE held == HeldAt("bill insert")
<1>1. CASE SameInvoices /\ invoiceCounter' = invoiceCounter /\ calls' = calls
  <2>1. held' = held
    BY <1>1 DEF HeldAt
  <2>. QED BY <1>1, <2>1, SameInvoicesSay
<1>2. ASSUME NEW c \in Calls, Started(c) \/ Moved(c) PROVE UNCHANGED <<invoiceCounter, held, IssuedInvoices>>
  <2>1. /\ invoiceCounter' = invoiceCounter /\ SameInvoices
        /\ calls[c].at # "bill insert" /\ calls'[c].at # "bill insert"
        /\ \A d \in Calls \ {c} : calls'[d] = calls[d]
    BY <1>2, Unmoved DEF Started, Moved, documents
  <2>2. held' = held
    BY <2>1, HandOver
  <2>. QED BY <2>1, <2>2, SameInvoicesSay
<1>3. ASSUME NEW c \in Calls, NumberBill(c) PROVE InvoiceSeries!Take
  <2>1. /\ calls'[c].at = "bill insert" /\ calls'[c].number = invoiceCounter + 1
        /\ calls[c].at = "bill number"
        /\ \A d \in Calls \ {c} : calls'[d] = calls[d]
        /\ invoiceCounter' = invoiceCounter + 1 /\ invoices' = invoices
    BY <1>3, NumberedOK
  <2>2. held' = held \cup {calls'[c].number}
    BY <2>1, HandOver
  <2>3. IssuedInvoices' = IssuedInvoices
    BY <2>1 DEF IssuedInvoices
  <2>. QED BY <2>1, <2>2, <2>3 DEF InvoiceSeries!Take
<1>4. ASSUME NEW c \in Calls, InsertBill(c)
      PROVE  \E n \in held : InvoiceSeries!Use(n) \/ InvoiceSeries!Lose(n)
  <2>1. /\ invoiceCounter' = invoiceCounter
        /\ calls[c].at = "bill insert" /\ calls'[c].at # "bill insert"
        /\ \A d \in Calls \ {c} : calls'[d] = calls[d]
    BY <1>4, InsertedOK
  <2>2. held' = held \ {calls[c].number} /\ calls[c].number \in held
    BY <2>1, HandOver DEF Fresh, NumbersAreFresh
  <2>3. CASE invoices' = invoices
    <3>1. IssuedInvoices' = IssuedInvoices
      BY <2>3 DEF IssuedInvoices
    <3>. QED BY <2>1, <2>2, <3>1 DEF InvoiceSeries!Lose
  <2>4. CASE invoices' # invoices
    <3>1. PICK row \in InvoiceRow : invoices' = invoices \cup {row} /\ row.number = calls[c].number
      BY <1>4, <2>4, InsertedOK
    <3>. DEFINE doc == [number |-> row.number, says |-> [kind |-> row.kind, orders |-> row.orders]]
    <3>2. IssuedInvoices' = IssuedInvoices \cup {doc}
      BY <3>1 DEF IssuedInvoices
    <3>3. doc.number = calls[c].number
      BY <3>1
    <3>. HIDE DEF doc
    <3>4. InvoiceSeries!Use(calls[c].number)
      BY <2>1, <2>2, <3>2, <3>3 DEF InvoiceSeries!Use
    <3>. QED BY <2>2, <3>4
  <2>. QED BY <2>3, <2>4
<1>5. ASSUME NEW c \in Calls, Die(c)
      PROVE  \/ UNCHANGED <<invoiceCounter, held, IssuedInvoices>>
             \/ \E n \in held : InvoiceSeries!Lose(n)
  <2>1. /\ invoiceCounter' = invoiceCounter /\ IssuedInvoices' = IssuedInvoices
        /\ calls'[c].at # "bill insert"
        /\ \A d \in Calls \ {c} : calls'[d] = calls[d]
    BY <1>5, EndMoves DEF Die, documents, IssuedInvoices
  <2>2. CASE calls[c].at = "bill insert"
    <3>1. held' = held \ {calls[c].number} /\ calls[c].number \in held
      BY <2>1, <2>2, HandOver DEF Fresh, NumbersAreFresh
    <3>. QED BY <2>1, <3>1 DEF InvoiceSeries!Lose
  <2>3. CASE calls[c].at # "bill insert"
    <3>1. held' = held
      BY <2>1, <2>3, HandOver
    <3>. QED BY <2>1, <3>1
  <2>. QED BY <2>2, <2>3
<1>. HIDE DEF held
<1>6. InvoiceSeries!Next \/ UNCHANGED <<invoiceCounter, held, IssuedInvoices>>
  BY <1>1, <1>2, <1>3, <1>4, <1>5, WhoNumbers DEF InvoiceSeries!Next, held
<1>. QED BY <1>6 DEF held

\* The receipts are the same but for the pdf column.
SameReceiptRows ==
  /\ \A r \in receipts : \E s \in receipts' :
       s.number = r.number /\ s.order = r.order /\ s.amount = r.amount
  /\ \A s \in receipts' : \E r \in receipts :
       s.number = r.number /\ s.order = r.order /\ s.amount = r.amount

LEMMA SameReceiptsSay == SameReceiptRows => IssuedReceipts' = IssuedReceipts
<1>. SUFFICES ASSUME SameReceiptRows PROVE IssuedReceipts' = IssuedReceipts
  OBVIOUS
<1>. DEFINE Doc(r) == [number |-> r.number, says |-> [order |-> r.order, amount |-> r.amount]]
<1>2. \A r \in receipts : \E s \in receipts' : Doc(s) = Doc(r)
  BY DEF SameReceiptRows
<1>3. \A s \in receipts' : \E r \in receipts : Doc(s) = Doc(r)
  BY DEF SameReceiptRows
<1>4. IssuedReceipts = {Doc(r) : r \in receipts} /\ IssuedReceipts' = {Doc(r) : r \in receipts'}
  BY DEF IssuedReceipts
<1>. HIDE DEF Doc
<1>. QED BY <1>2, <1>3, <1>4

\* A step of call c that neither takes nor uses a receipt number.
ReceiptQuiet(c) ==
  /\ SameReceiptRows /\ receiptCounter' = receiptCounter
  /\ calls[c].at # "receipt insert" /\ calls'[c].at # "receipt insert"
  /\ \A d \in Calls \ {c} : calls'[d] = calls[d]

LEMMA UnmovedReceipts == UNCHANGED receipts => SameReceiptRows
BY DEF SameReceiptRows

LEMMA PrintsSame ==
  ASSUME Typed, NEW r \in receipts, PrintReceipt(r)
  PROVE  SameReceiptRows
<1>. DEFINE printed == [r EXCEPT !.pdf = TRUE]
<1>1. printed.number = r.number /\ printed.order = r.order /\ printed.amount = r.amount
  BY DEF Typed, TypeOK, DocumentsType, ReceiptRow
<1>2. receipts' = (receipts \ {r}) \cup {printed}
  BY DEF PrintReceipt
<1>. HIDE DEF printed
<1>. QED BY <1>1, <1>2 DEF SameReceiptRows

LEMMA WhoNumbersReceipts ==
  ASSUME Typed, [Next]_vars
  PROVE  \/ SameReceiptRows /\ receiptCounter' = receiptCounter /\ calls' = calls
         \/ \E c \in Calls : \/ ReceiptQuiet(c) \/ Die(c)
                             \/ NumberReceipt(c) \/ InsertTheReceipt(c)
<1>1. ASSUME NEW c \in Calls, StartCall(c) PROVE ReceiptQuiet(c)
  BY <1>1, StartBegins, UnmovedReceipts DEF Beginning, ReceiptQuiet, documents
<1>2. ASSUME NEW c \in Calls, RunCall(c), ~NumberReceipt(c), ~InsertTheReceipt(c)
      PROVE  ReceiptQuiet(c)
  <2>1. GoesOn(c) /\ \A d \in Calls \ {c} : calls'[d] = calls[d]
    BY <1>2, RunGoes
  <2>2. calls[c].at \notin {"receipt number", "receipt insert"} /\ receiptCounter' = receiptCounter
    BY <1>2 DEF RunCall, RedeemCoupon, Pay, ReadForBill, NumberBill, InsertBill, PrintBill,
       ReadForReceipt, PrintTheReceipt, Cancel, documents
  <2>3. calls'[c].at # "receipt insert"
    BY <2>1, <2>2, IdleOK DEF GoesOn, Flow
  <2>4. SameReceiptRows
    <3>1. CASE PrintTheReceipt(c)
      BY <3>1, PrintsSame, UnmovedReceipts DEF PrintTheReceipt
    <3>. QED BY <1>2, <3>1, RunWrites, UnmovedReceipts
  <2>. QED BY <2>1, <2>2, <2>3, <2>4 DEF ReceiptQuiet
<1>3. Office => SameReceiptRows /\ receiptCounter' = receiptCounter /\ calls' = calls
  BY UnmovedReceipts DEF Office, MarkUnpaid, MapAwb, UpdateStatus, FillSettings, CancelAnInvoice,
     ReadInvoicePdf, CouponChange, documents
<1>. QED BY <1>1, <1>2, <1>3, UnmovedReceipts DEF Next, vars, documents

LEMMA NumbersReceipt ==
  ASSUME Typed, NEW c \in Calls, NumberReceipt(c)
  PROVE  /\ calls[c].at = "receipt number"
         /\ calls'[c].at = "receipt insert" /\ calls'[c].number = receiptCounter + 1
         /\ \A d \in Calls \ {c} : calls'[d] = calls[d]
         /\ receiptCounter' = receiptCounter + 1 /\ receipts' = receipts
<1>1. PICK n \in 1..MaxCalls :
        /\ NextReceiptNumber(n)
        /\ calls' = [calls EXCEPT ![c] = [@ EXCEPT !.at = "receipt insert", !.number = n]]
  BY DEF NumberReceipt
<1>. DEFINE row == [calls[c] EXCEPT !.at = "receipt insert", !.number = n]
<1>2. row.at = "receipt insert" /\ row.number = n
  BY DEF Typed, TypeOK, CallRow
<1>3. calls' = [calls EXCEPT ![c] = row]
  BY <1>1
<1>4. /\ n = receiptCounter + 1 /\ receiptCounter' = n /\ receipts' = receipts
      /\ calls[c].at = "receipt number"
  BY <1>1 DEF NextReceiptNumber, NumberReceipt
<1>. HIDE DEF row
<1>. QED BY <1>2, <1>3, <1>4, MovesOne

LEMMA IssuesReceipt ==
  ASSUME Typed, NEW c \in Calls, InsertTheReceipt(c)
  PROVE  /\ calls[c].at = "receipt insert" /\ calls'[c].at = "receipt print"
         /\ \A d \in Calls \ {c} : calls'[d] = calls[d]
         /\ receiptCounter' = receiptCounter
         /\ \E row : /\ receipts' = receipts \cup {row}
                     /\ row.number = calls[c].number /\ row.order = TheOrder(c)
                     /\ row.amount = ToPaise(calls[c].amount)
<1>1. /\ calls[c].at = "receipt insert" /\ receiptCounter' = receiptCounter
      /\ calls'[c].at = "receipt print" /\ \A d \in Calls \ {c} : calls'[d] = calls[d]
  BY GotoMoves DEF InsertTheReceipt
<1>. DEFINE row == [BlankReceipt(TheOrder(c)) EXCEPT !.number = calls[c].number,
                                                    !.amount = ToPaise(calls[c].amount)]
<1>2. /\ row.number = calls[c].number /\ row.order = TheOrder(c)
      /\ row.amount = ToPaise(calls[c].amount)
  BY DEF BlankReceipt
<1>3. receipts' = receipts \cup {row}
  BY DEF InsertTheReceipt, InsertReceipt
<1>. HIDE DEF row
<1>. QED BY <1>1, <1>2, <1>3

\* Numbers on receipts and in hands stay below the counter, and no two hands, or
\* a hand and a receipt, have the same.
ReceiptNumbersFresh ==
  /\ \A r \in receipts : r.number <= receiptCounter
  /\ \A c \in Calls : calls[c].at = "receipt insert" =>
       /\ calls[c].number <= receiptCounter
       /\ \A r \in receipts : r.number # calls[c].number
       /\ \A d \in Calls \ {c} : calls[d].at = "receipt insert" => calls[d].number # calls[c].number

LEMMA NextIsNew == \A m, n \in Nat : m <= n => m <= n + 1 /\ m # n + 1 /\ n + 1 <= n + 1
OBVIOUS

LEMMA ReceiptNumbersFreshStep ==
  ASSUME Typed, ReceiptNumbersFresh, [Next]_vars
  PROVE  ReceiptNumbersFresh'
<1>0. /\ receiptCounter \in Nat
      /\ \A r \in receipts : r.number \in Nat
      /\ \A d \in Calls : calls[d].number \in Nat
  BY DEF Typed, TypeOK, DocumentsType, ReceiptRow, CallRow
<1>1. SameReceiptRows => \A s \in receipts' : \E r \in receipts : s.number = r.number
  BY DEF SameReceiptRows
<1>2. CASE SameReceiptRows /\ receiptCounter' = receiptCounter /\ calls' = calls
  BY <1>0, <1>1, <1>2 DEF ReceiptNumbersFresh
<1>3. ASSUME NEW c \in Calls, SameReceiptRows, receiptCounter' = receiptCounter,
             calls'[c].at # "receipt insert", \A d \in Calls \ {c} : calls'[d] = calls[d]
      PROVE  ReceiptNumbersFresh'
  <2>1. \A s \in receipts' : \E r \in receipts : s.number = r.number
    BY <1>1, <1>3
  <2>2. \A s \in receipts' : s.number <= receiptCounter'
    BY <1>3, <2>1 DEF ReceiptNumbersFresh
  <2>3. ASSUME NEW d \in Calls, calls'[d].at = "receipt insert"
        PROVE  /\ calls'[d].number <= receiptCounter'
               /\ \A s \in receipts' : s.number # calls'[d].number
               /\ \A e \in Calls \ {d} : calls'[e].at = "receipt insert" => calls'[e].number # calls'[d].number
    <3>1. calls'[d] = calls[d]
      BY <1>3, <2>3
    <3>2. calls'[d].number <= receiptCounter'
      BY <1>3, <2>3, <3>1 DEF ReceiptNumbersFresh
    <3>3. \A s \in receipts' : s.number # calls'[d].number
      BY <2>1, <2>3, <3>1 DEF ReceiptNumbersFresh
    <3>4. ASSUME NEW e \in Calls \ {d}, calls'[e].at = "receipt insert"
          PROVE  calls'[e].number # calls'[d].number
      <4>1. calls'[e] = calls[e]
        BY <1>3, <3>4
      <4>. QED BY <2>3, <3>1, <3>4, <4>1 DEF ReceiptNumbersFresh
    <3>. QED BY <3>2, <3>3, <3>4
  <2>. QED BY <2>2, <2>3 DEF ReceiptNumbersFresh
<1>4. ASSUME NEW c \in Calls, ReceiptQuiet(c) PROVE ReceiptNumbersFresh'
  BY <1>3, <1>4 DEF ReceiptQuiet
<1>5. ASSUME NEW c \in Calls, Die(c) PROVE ReceiptNumbersFresh'
  BY <1>3, <1>5, EndMoves, UnmovedReceipts DEF Die, documents
<1>6. ASSUME NEW c \in Calls, NumberReceipt(c) PROVE ReceiptNumbersFresh'
  <2>0. /\ calls'[c].at = "receipt insert" /\ calls'[c].number = receiptCounter + 1
        /\ \A d \in Calls \ {c} : calls'[d] = calls[d]
        /\ receiptCounter' = receiptCounter + 1 /\ receipts' = receipts
    BY <1>6, NumbersReceipt
  <2>1. \A r \in receipts : r.number <= receiptCounter + 1 /\ r.number # receiptCounter + 1
    BY <1>0, NextIsNew DEF ReceiptNumbersFresh
  <2>2. \A d \in Calls : calls[d].at = "receipt insert" =>
          calls[d].number <= receiptCounter + 1 /\ calls[d].number # receiptCounter + 1
    BY <1>0, NextIsNew DEF ReceiptNumbersFresh
  <2>3. receiptCounter + 1 <= receiptCounter + 1
    BY <1>0, NextIsNew
  <2>4. \A r \in receipts' : r.number <= receiptCounter'
    BY <2>0, <2>1
  <2>5. ASSUME NEW d \in Calls, calls'[d].at = "receipt insert"
        PROVE  /\ calls'[d].number <= receiptCounter'
               /\ \A r \in receipts' : r.number # calls'[d].number
               /\ \A e \in Calls \ {d} : calls'[e].at = "receipt insert" => calls'[e].number # calls'[d].number
    BY <2>0, <2>1, <2>2, <2>3, <2>5 DEF ReceiptNumbersFresh
  <2>. QED BY <2>4, <2>5 DEF ReceiptNumbersFresh
<1>7. ASSUME NEW c \in Calls, InsertTheReceipt(c) PROVE ReceiptNumbersFresh'
  <2>0. /\ \A s \in receipts' : s \in receipts \/ s.number = calls[c].number
        /\ receiptCounter' = receiptCounter
        /\ calls[c].at = "receipt insert" /\ calls'[c].at # "receipt insert"
        /\ \A d \in Calls \ {c} : calls'[d] = calls[d]
    BY <1>7, IssuesReceipt
  <2>. QED BY <1>0, <2>0 DEF ReceiptNumbersFresh
<1>. QED BY <1>2, <1>4, <1>5, <1>6, <1>7, WhoNumbersReceipts

LEMMA ReceiptSeriesStep ==
  ASSUME Typed, ReceiptNumbersFresh, [Next]_vars
  PROVE  [ReceiptSeries!Next]_<<receiptCounter, HeldAt("receipt insert"), IssuedReceipts>>
<1>. DEFINE held == HeldAt("receipt insert")
<1>1. CASE SameReceiptRows /\ receiptCounter' = receiptCounter /\ calls' = calls
  <2>1. held' = held
    BY <1>1 DEF HeldAt
  <2>. QED BY <1>1, <2>1, SameReceiptsSay
<1>2. ASSUME NEW c \in Calls, ReceiptQuiet(c) PROVE UNCHANGED <<receiptCounter, held, IssuedReceipts>>
  <2>1. held' = held
    BY <1>2, HandOver DEF ReceiptQuiet
  <2>. QED BY <1>2, <2>1, SameReceiptsSay DEF ReceiptQuiet
<1>3. ASSUME NEW c \in Calls, NumberReceipt(c) PROVE ReceiptSeries!Take
  <2>1. /\ calls[c].at = "receipt number"
        /\ calls'[c].at = "receipt insert" /\ calls'[c].number = receiptCounter + 1
        /\ \A d \in Calls \ {c} : calls'[d] = calls[d]
        /\ receiptCounter' = receiptCounter + 1 /\ receipts' = receipts
    BY <1>3, NumbersReceipt
  <2>2. held' = held \cup {calls'[c].number}
    BY <2>1, HandOver
  <2>3. IssuedReceipts' = IssuedReceipts
    BY <2>1 DEF IssuedReceipts
  <2>. QED BY <2>1, <2>2, <2>3 DEF ReceiptSeries!Take
<1>4. ASSUME NEW c \in Calls, InsertTheReceipt(c)
      PROVE  \E n \in held : ReceiptSeries!Use(n)
  <2>1. /\ receiptCounter' = receiptCounter
        /\ calls[c].at = "receipt insert" /\ calls'[c].at = "receipt print"
        /\ \A d \in Calls \ {c} : calls'[d] = calls[d]
    BY <1>4, IssuesReceipt
  <2>2. held' = held \ {calls[c].number} /\ calls[c].number \in held
    BY <2>1, HandOver DEF ReceiptNumbersFresh
  <2>3. PICK row : receipts' = receipts \cup {row} /\ row.number = calls[c].number
    BY <1>4, IssuesReceipt
  <2>. DEFINE doc == [number |-> row.number, says |-> [order |-> row.order, amount |-> row.amount]]
  <2>4. IssuedReceipts' = IssuedReceipts \cup {doc} /\ doc.number = calls[c].number
    BY <2>3 DEF IssuedReceipts
  <2>. HIDE DEF doc
  <2>5. ReceiptSeries!Use(calls[c].number)
    BY <2>1, <2>2, <2>4 DEF ReceiptSeries!Use
  <2>. QED BY <2>2, <2>5
<1>5. ASSUME NEW c \in Calls, Die(c)
      PROVE  \/ UNCHANGED <<receiptCounter, held, IssuedReceipts>>
             \/ \E n \in held : ReceiptSeries!Lose(n)
  <2>1. /\ receiptCounter' = receiptCounter /\ IssuedReceipts' = IssuedReceipts
        /\ calls'[c].at # "receipt insert"
        /\ \A d \in Calls \ {c} : calls'[d] = calls[d]
    BY <1>5, EndMoves DEF Die, documents, IssuedReceipts
  <2>2. CASE calls[c].at = "receipt insert"
    <3>1. held' = held \ {calls[c].number} /\ calls[c].number \in held
      BY <2>1, <2>2, HandOver DEF ReceiptNumbersFresh
    <3>. QED BY <2>1, <3>1 DEF ReceiptSeries!Lose
  <2>3. CASE calls[c].at # "receipt insert"
    <3>1. held' = held
      BY <2>1, <2>3, HandOver
    <3>. QED BY <2>1, <3>1
  <2>. QED BY <2>2, <2>3
<1>. HIDE DEF held
<1>6. ReceiptSeries!Next \/ UNCHANGED <<receiptCounter, held, IssuedReceipts>>
  BY <1>1, <1>2, <1>3, <1>4, <1>5, WhoNumbersReceipts DEF ReceiptSeries!Next, held
<1>. QED BY <1>6 DEF held

LEMMA ReceiptNumbersFreshInit == Init => ReceiptNumbersFresh
BY IdleOK DEF Init, DocumentsInit, ReceiptNumbersFresh

\* Whatever overlaps and wherever calls die, invoices and receipts are numbered as a
\* series promises: every number is taken once, after the one before, is in the hands
\* of one call, and ends on one document, which never says anything else, or on none.
THEOREM SeriesAreKept == Spec => NumbersInSeries
<1>. DEFINE IInv == Typed /\ Fresh /\ ReceiptNumbersFresh
<1>1. Init => IInv /\ InvoiceSeries!Init /\ ReceiptSeries!Init
  BY TypedInit, FreshInit, ReceiptNumbersFreshInit, SeriesInit
<1>2. IInv /\ [Next]_vars => IInv'
  BY TypedStep, FreshStep, ReceiptNumbersFreshStep
<1>3. IInv /\ [Next]_vars =>
        /\ [InvoiceSeries!Next]_<<invoiceCounter, HeldAt("bill insert"), IssuedInvoices>>
        /\ [ReceiptSeries!Next]_<<receiptCounter, HeldAt("receipt insert"), IssuedReceipts>>
  BY InvoiceSeriesStep, ReceiptSeriesStep
<1>. QED BY <1>1, <1>2, <1>3, PTL DEF Spec, NumbersInSeries, InvoiceSeries!Spec, ReceiptSeries!Spec

\* No two invoices, and no two receipts, have the same number.
OneDocumentPerNumber ==
  /\ \A i, j \in invoices : i.number = j.number => i = j
  /\ \A r, s \in receipts : r.number = s.number => r = s

LEMMA KeepsItsNumber ==
  ASSUME Typed
  PROVE  /\ \A i \in invoices : PrintInvoice(i) \/ CancelInvoice(i) =>
              \E j : j.number = i.number /\ invoices' = (invoices \ {i}) \cup {j}
         /\ \A r \in receipts : PrintReceipt(r) =>
              \E s : s.number = r.number /\ receipts' = (receipts \ {r}) \cup {s}
<1>1. ASSUME NEW i \in invoices, PrintInvoice(i) \/ CancelInvoice(i)
      PROVE  \E j : j.number = i.number /\ invoices' = (invoices \ {i}) \cup {j}
  <2>. DEFINE printed == [i EXCEPT !.pdf = TRUE]
              voided  == [i EXCEPT !.cancelled = TRUE]
  <2>1. printed.number = i.number /\ voided.number = i.number
    BY DEF Typed, TypeOK, DocumentsType, InvoiceRow
  <2>2. \/ invoices' = (invoices \ {i}) \cup {printed}
        \/ invoices' = (invoices \ {i}) \cup {voided}
    BY <1>1 DEF PrintInvoice, CancelInvoice, ReplaceInvoice
  <2>. HIDE DEF printed, voided
  <2>. QED BY <2>1, <2>2
<1>2. ASSUME NEW r \in receipts, PrintReceipt(r)
      PROVE  \E s : s.number = r.number /\ receipts' = (receipts \ {r}) \cup {s}
  <2>. DEFINE printed == [r EXCEPT !.pdf = TRUE]
  <2>1. printed.number = r.number
    BY DEF Typed, TypeOK, DocumentsType, ReceiptRow
  <2>2. receipts' = (receipts \ {r}) \cup {printed}
    BY <1>2 DEF PrintReceipt
  <2>. HIDE DEF printed
  <2>. QED BY <2>1, <2>2
<1>. QED BY <1>1, <1>2

LEMMA OneDocumentStep ==
  ASSUME Typed, Fresh, ReceiptNumbersFresh, OneDocumentPerNumber, [Next]_vars
  PROVE  OneDocumentPerNumber'
<1>1. \/ invoices' = invoices
      \/ \E i \in invoices : PrintInvoice(i) \/ CancelInvoice(i)
      \/ \E c \in Calls : InsertBill(c)
  <2>1. ASSUME NEW c \in Calls, RunCall(c)
        PROVE  \/ invoices' = invoices \/ InsertBill(c)
               \/ \E i \in invoices : PrintInvoice(i)
    BY <2>1, RunWrites DEF PrintBill
  <2>2. ASSUME NEW c \in Calls, StartCall(c) \/ Die(c) PROVE invoices' = invoices
    BY <2>2, StartBegins DEF Beginning, Die, documents
  <2>3. Office => \/ invoices' = invoices
                  \/ \E i \in invoices : PrintInvoice(i) \/ CancelInvoice(i)
    BY DEF Office, MarkUnpaid, MapAwb, UpdateStatus, FillSettings, CancelAnInvoice,
       ReadInvoicePdf, CouponChange, documents
  <2>. QED BY <2>1, <2>2, <2>3 DEF Next, vars, documents
<1>2. \/ receipts' = receipts
      \/ \E r \in receipts : PrintReceipt(r)
      \/ \E c \in Calls : InsertTheReceipt(c)
  <2>1. ASSUME NEW c \in Calls, RunCall(c)
        PROVE  \/ receipts' = receipts \/ InsertTheReceipt(c)
               \/ \E r \in receipts : PrintReceipt(r)
    BY <2>1, RunWrites DEF PrintTheReceipt
  <2>2. ASSUME NEW c \in Calls, StartCall(c) \/ Die(c) PROVE receipts' = receipts
    BY <2>2, StartBegins DEF Beginning, Die, documents
  <2>3. Office => receipts' = receipts
    BY DEF Office, MarkUnpaid, MapAwb, UpdateStatus, FillSettings, CancelAnInvoice,
       ReadInvoicePdf, CouponChange, documents
  <2>. QED BY <2>1, <2>2, <2>3 DEF Next, vars, documents
<1>3. \A i, j \in invoices' : i.number = j.number => i = j
  <2>1. ASSUME NEW i \in invoices, PrintInvoice(i) \/ CancelInvoice(i)
        PROVE  \A k, j \in invoices' : k.number = j.number => k = j
    BY <2>1, KeepsItsNumber DEF OneDocumentPerNumber
  <2>2. ASSUME NEW c \in Calls, InsertBill(c)
        PROVE  \A k, j \in invoices' : k.number = j.number => k = j
    <3>1. \A i \in invoices : i.number # calls[c].number
      BY <2>2, InsertedOK DEF Fresh, NumbersAreFresh
    <3>2. \/ invoices' = invoices
          \/ \E row : row.number = calls[c].number /\ invoices' = invoices \cup {row}
      BY <2>2, InsertedOK
    <3>. QED BY <3>1, <3>2 DEF OneDocumentPerNumber
  <2>. QED BY <1>1, <2>1, <2>2 DEF OneDocumentPerNumber
<1>4. \A r, s \in receipts' : r.number = s.number => r = s
  <2>1. ASSUME NEW r \in receipts, PrintReceipt(r)
        PROVE  \A q, s \in receipts' : q.number = s.number => q = s
    BY <2>1, KeepsItsNumber DEF OneDocumentPerNumber
  <2>2. ASSUME NEW c \in Calls, InsertTheReceipt(c)
        PROVE  \A q, s \in receipts' : q.number = s.number => q = s
    <3>1. \A r \in receipts : r.number # calls[c].number
      BY <2>2, IssuesReceipt DEF ReceiptNumbersFresh
    <3>2. \E row : row.number = calls[c].number /\ receipts' = receipts \cup {row}
      BY <2>2, IssuesReceipt
    <3>. QED BY <3>1, <3>2 DEF OneDocumentPerNumber
  <2>. QED BY <1>2, <2>1, <2>2 DEF OneDocumentPerNumber
<1>. QED BY <1>3, <1>4 DEF OneDocumentPerNumber

\* No number is ever on two documents of its kind, printed, cancelled or neither.
THEOREM NumbersAreUsedOnce == Spec => []OneDocumentPerNumber
<1>. DEFINE IInv == Typed /\ Fresh /\ ReceiptNumbersFresh /\ OneDocumentPerNumber
<1>1. Init => IInv
  <2>1. Init => OneDocumentPerNumber
    BY DEF Init, DocumentsInit, OneDocumentPerNumber
  <2>. QED BY <2>1, TypedInit, FreshInit, ReceiptNumbersFreshInit
<1>2. IInv /\ [Next]_vars => IInv'
  BY TypedStep, FreshStep, ReceiptNumbersFreshStep, OneDocumentStep
<1>3. IInv => OneDocumentPerNumber
  OBVIOUS
<1>. QED BY <1>1, <1>2, <1>3, PTL DEF Spec

-----------------------------------------------------------------------------
(* What is paid and its receipt *)

Due(o) == order[o].payment = "PAID" /\ order[o].paid > 0

\* A payment of o that has yet to look for its receipt, or a call about to issue the
\* receipt of what is paid now.
Receipting(c, o) ==
  /\ calls[c].orders = {o}
  /\ \/ calls[c].op = "pay" /\ calls[c].at \in {"bill read", "bill number", "bill insert", "bill print", "receipt read"}
     \/ calls[c].at \in {"receipt number", "receipt insert"} /\ calls[c].amount = order[o].paid

FollowedUp(o) == Due(o) => Receipted(o, ToPaise(order[o].paid)) \/ \E c \in Calls : Receipting(c, o)

\* Unless calls die, an order that has been paid has the receipt of what was paid,
\* or a call in flight that is about to look for it or to issue it.
PaymentsFollowedUp == ~Faults => \A o \in Orders : FollowedUp(o)

\* Only payments redeem and pay.
PaymentsPay == \A c \in Calls : calls[c].at \in {"redeem", "pay"} => calls[c].op = "pay"

RoundedReceipts == \A r \in receipts : ToPaise(r.amount) = r.amount

LEMMA RoundingSettles == \A amount \in Nat : ToPaise(ToPaise(amount)) = ToPaise(amount)
<1>1. ASSUME NEW amount \in Nat PROVE ToPaise(ToPaise(amount)) = ToPaise(amount)
  <2>1. PICK k \in Int : ToPaise(amount) = k * 10
    BY DEF ToPaise
  <2>2. (k * 10 + 5) \div 10 = k
    OBVIOUS
  <2>3. ToPaise(k * 10) = k * 10
    BY <2>2 DEF ToPaise
  <2>. QED BY <2>1, <2>3
<1>. QED BY <1>1

LEMMA PaymentsPayStep == Typed /\ PaymentsPay /\ [Next]_vars => PaymentsPay'
<1>. SUFFICES ASSUME Typed, PaymentsPay, [Next]_vars PROVE PaymentsPay'
  OBVIOUS
<1>1. ASSUME NEW c \in Calls, StartCall(c) PROVE PaymentsPay'
  BY <1>1, StartBegins DEF Beginning, PaymentsPay
<1>2. ASSUME NEW c \in Calls, RunCall(c) PROVE PaymentsPay'
  <2>1. GoesOn(c) /\ \A d \in Calls \ {c} : calls'[d] = calls[d]
    BY <1>2, RunGoes
  <2>2. calls'[c].at \in {"redeem", "pay"} =>
          calls[c].at \in {"redeem", "pay"} /\ calls'[c].op = calls[c].op
    BY <2>1, IdleOK DEF GoesOn, Flow
  <2>. QED BY <2>1, <2>2 DEF PaymentsPay
<1>3. ASSUME NEW c \in Calls, Die(c) PROVE PaymentsPay'
  BY <1>3, EndMoves DEF Die, PaymentsPay
<1>4. Office => calls' = calls
  BY OfficeMoves
<1>. QED BY <1>1, <1>2, <1>3, <1>4 DEF Next, vars, PaymentsPay

LEMMA RoundedReceiptsStep == Typed /\ RoundedReceipts /\ [Next]_vars => RoundedReceipts'
<1>. SUFFICES ASSUME Typed, RoundedReceipts, [Next]_vars PROVE RoundedReceipts'
  OBVIOUS
<1>1. CASE SameReceiptRows
  BY <1>1 DEF SameReceiptRows, RoundedReceipts
<1>2. ASSUME NEW c \in Calls, InsertTheReceipt(c) PROVE RoundedReceipts'
  <2>1. PICK row : receipts' = receipts \cup {row} /\ row.amount = ToPaise(calls[c].amount)
    BY <1>2, IssuesReceipt
  <2>2. calls[c].amount \in Nat
    BY DEF Typed, TypeOK, CallRow
  <2>3. ToPaise(row.amount) = row.amount
    BY <2>1, <2>2, RoundingSettles
  <2>. QED BY <2>1, <2>3 DEF RoundedReceipts
<1>3. ASSUME NEW c \in Calls, NumberReceipt(c) \/ Die(c) PROVE SameReceiptRows
  BY <1>3, NumbersReceipt, UnmovedReceipts DEF Die, documents
<1>. QED BY <1>1, <1>2, <1>3, WhoNumbersReceipts DEF ReceiptQuiet

\* What was paid on o is what it was, or no longer counts as paid.
PaidStands(o) ==
  \/ order'[o].payment = order[o].payment /\ order'[o].paid = order[o].paid
  \/ order'[o].payment = "PENDING"

LEMMA WhoPays ==
  ASSUME Typed, [Next]_vars, NEW o \in Orders
  PROVE  PaidStands(o) \/ \E c \in Calls : Pay(c) /\ TheOrder(c) = o
<1>. USE DEF Typed, TypeOK
<1>1. ASSUME NEW c \in Calls, RunCall(c), ~(Pay(c) /\ TheOrder(c) = o) PROVE PaidStands(o)
  <2>1. CASE Pay(c)
    <3>1. order' = [order EXCEPT ![TheOrder(c)] = Paid(@, calls[c].amount, calls[c].code)]
      BY <2>1 DEF Pay
    <3>. QED BY <1>1, <2>1, <3>1 DEF PaidStands
  <2>2. CASE Cancel(c)
    BY <2>2 DEF Cancel, OrderRow, PaidStands
  <2>. QED BY <1>1, <2>1, <2>2, RunWrites DEF PaidStands
<1>2. CASE Office
  <2>1. ASSUME NEW p \in Orders, MarkUnpaid(p) PROVE PaidStands(o)
    BY <2>1 DEF MarkUnpaid, OrderRow, PaidStands
  <2>2. ASSUME NEW p \in Orders, MapAwb(p) PROVE PaidStands(o)
    BY <2>2 DEF MapAwb, OrderRow, PaidStands
  <2>3. ASSUME NEW p \in Orders, NEW status, UpdateStatus(p, status) PROVE PaidStands(o)
    BY <2>3 DEF UpdateStatus, OrderRow, PaidStands
  <2>4. CASE order' = order
    BY <2>4 DEF PaidStands
  <2>. QED BY <1>2, <2>1, <2>2, <2>3, <2>4
           DEF Office, FillSettings, CancelAnInvoice, ReadInvoicePdf, CouponChange
<1>3. order' = order => PaidStands(o)
  BY DEF PaidStands
<1>. QED BY <1>1, <1>2, <1>3, StartBegins DEF Next, Beginning, Die, vars

\* A call that follows a payment up goes on doing so, until there is a receipt.
LEMMA FollowsUp ==
  ASSUME Typed, RoundedReceipts, NEW o \in Orders, NEW c \in Calls, RunCall(c), Receipting(c, o),
         order'[o].payment = "PAID", order'[o].payment = order[o].payment,
         order'[o].paid = order[o].paid, order[o].paid > 0
  PROVE  Receipting(c, o)' \/ Receipted(o, ToPaise(order[o].paid))'
<1>0. calls[c].orders = {o} /\ TheOrder(c) = o /\ order[o].paid \in Nat
  BY DEF Receipting, TheOrder, Typed, TypeOK, OrderRow
<1>1. GoesOn(c)
  BY RunGoes
<1>2. CASE calls[c].at = "receipt read"
  <2>1. ReadForReceipt(c)
    BY <1>2 DEF RunCall, RedeemCoupon, Pay, ReadForBill, NumberBill, InsertBill, PrintBill,
       NumberReceipt, InsertTheReceipt, PrintTheReceipt, Cancel
  <2>2. CASE Receipted(o, order[o].paid)
    <3>1. PICK r \in receipts : r.order = o /\ r.amount = order[o].paid
      BY <2>2 DEF Receipted
    <3>2. ToPaise(order[o].paid) = r.amount
      BY <3>1 DEF RoundedReceipts
    <3>3. receipts' = receipts
      BY <2>1 DEF ReadForReceipt, documents
    <3>4. ToPaise(order'[o].paid) = r.amount
      BY <3>2
    <3>. QED BY <3>1, <3>3, <3>4 DEF Receipted
  <2>3. CASE ~Receipted(o, order[o].paid)
    <3>. DEFINE row == [calls[c] EXCEPT !.at = "receipt number", !.amount = order[o].paid]
    <3>1. row.at = "receipt number" /\ row.amount = order[o].paid /\ row.orders = {o}
      BY <1>0 DEF Typed, TypeOK, CallRow
    <3>2. calls' = [calls EXCEPT ![c] = row]
      BY <1>0, <2>1, <2>3 DEF ReadForReceipt
    <3>. HIDE DEF row
    <3>3. calls'[c] = row
      BY <3>2, MovesOne
    <3>. QED BY <3>1, <3>3 DEF Receipting
  <2>. QED BY <2>2, <2>3
<1>3. CASE calls[c].at = "receipt insert"
  <2>1. InsertTheReceipt(c)
    BY <1>3 DEF RunCall, RedeemCoupon, Pay, ReadForBill, NumberBill, InsertBill, PrintBill,
       ReadForReceipt, NumberReceipt, PrintTheReceipt, Cancel
  <2>2. PICK row : /\ receipts' = receipts \cup {row} /\ row.order = o
                   /\ row.amount = ToPaise(calls[c].amount)
    BY <1>0, <2>1, IssuesReceipt
  <2>3. calls[c].amount = order[o].paid
    BY <1>3 DEF Receipting
  <2>4. row.amount = ToPaise(order'[o].paid)
    BY <2>2, <2>3
  <2>. QED BY <2>2, <2>4 DEF Receipted
<1>4. CASE calls[c].at = "receipt number"
  <2>1. NumberReceipt(c)
    BY <1>4 DEF RunCall, RedeemCoupon, Pay, ReadForBill, NumberBill, InsertBill, PrintBill,
       ReadForReceipt, InsertTheReceipt, PrintTheReceipt, Cancel
  <2>2. calls'[c].at = "receipt insert"
    BY <2>1, NumbersReceipt
  <2>. QED BY <1>0, <1>1, <1>4, <2>2, IdleOK DEF GoesOn, Receipting
<1>5. CASE calls[c].at \in {"bill read", "bill number", "bill insert", "bill print"}
  <2>0. calls[c].op = "pay"
    BY <1>5 DEF Receipting
  <2>1. calls'[c].at \in {"bill number", "bill insert", "bill print", "receipt read"}
    <3>1. ASSUME NEW at, Goto(c, at) PROVE calls'[c].at = at
      BY <3>1, GotoMoves
    <3>2. Billed(c) => calls'[c].at = "receipt read"
      BY <2>0, <3>1 DEF Billed
    <3>3. ReadForBill(c) \/ NumberBill(c) \/ InsertBill(c) \/ PrintBill(c)
      BY <1>5 DEF RunCall, RedeemCoupon, Pay, ReadForReceipt, NumberReceipt, InsertTheReceipt,
         PrintTheReceipt, Cancel
    <3>. QED BY <3>1, <3>2, <3>3, NumberedOK DEF ReadForBill, InsertBill, PrintBill
  <2>. QED BY <1>0, <1>1, <2>0, <2>1, IdleOK DEF GoesOn, Receipting
<1>. QED BY <1>2, <1>3, <1>4, <1>5 DEF Receipting

LEMMA FollowedUpStep ==
  ASSUME Typed, PaymentsPay, RoundedReceipts, Faults = FALSE, NEW o \in Orders, FollowedUp(o),
         [Next]_vars
  PROVE  FollowedUp(o)'
<1>. SUFFICES ASSUME Due(o)'
              PROVE  (Receipted(o, ToPaise(order[o].paid)) \/ \E c \in Calls : Receipting(c, o))'
  BY DEF FollowedUp
<1>1. ASSUME NEW c \in Calls, Pay(c), TheOrder(c) = o PROVE Receipting(c, o)'
  <2>1. calls[c].orders = {o} /\ calls[c].op = "pay" /\ RunCall(c)
    BY <1>1, TheOrderOK DEF Pay, PaymentsPay, Typed, Statements, Issuing, RunCall
  <2>2. calls'[c].at = "bill read"
    BY <1>1, GotoMoves DEF Pay
  <2>. QED BY <2>1, <2>2, RunGoes, IdleOK DEF GoesOn, Receipting
<1>2. CASE PaidStands(o)
  <2>0. /\ order'[o].payment = "PAID" /\ order'[o].payment = order[o].payment
        /\ order'[o].paid = order[o].paid /\ Due(o) /\ order[o].paid > 0
    BY <1>2 DEF Due, PaidStands
  <2>1. CASE Receipted(o, ToPaise(order[o].paid))
    <3>1. PICK r \in receipts : r.order = o /\ r.amount = ToPaise(order[o].paid)
      BY <2>1 DEF Receipted
    <3>2. receipts' = receipts \/ SameReceiptRows \/ \E row : receipts' = receipts \cup {row}
      BY WhoNumbersReceipts, IssuesReceipt, NumbersReceipt DEF ReceiptQuiet, Die, documents
    <3>3. PICK s \in receipts' : s.order = o /\ s.amount = ToPaise(order[o].paid)
      BY <3>1, <3>2 DEF SameReceiptRows
    <3>4. s.amount = ToPaise(order'[o].paid)
      BY <2>0, <3>3
    <3>. QED BY <3>3, <3>4 DEF Receipted
  <2>2. ASSUME NEW c \in Calls, Receipting(c, o)
        PROVE  (Receipted(o, ToPaise(order[o].paid)) \/ Receipting(c, o))'
    <3>0. calls'[c] = calls[c] => Receipting(c, o)'
      BY <2>0, <2>2 DEF Receipting
    <3>1. ASSUME NEW d \in Calls, RunCall(d)
          PROVE  (Receipted(o, ToPaise(order[o].paid)) \/ Receipting(c, o))'
      <4>1. CASE d = c
        BY <2>0, <2>2, <3>1, <4>1, FollowsUp
      <4>. QED BY <3>0, <3>1, <4>1, RunGoes
    <3>2. ASSUME NEW d \in Calls, StartCall(d) PROVE calls'[c] = calls[c]
      BY <2>2, <3>2, StartBegins DEF Beginning, Receipting
    <3>3. Office => calls' = calls
      BY OfficeMoves
    <3>. QED BY <3>0, <3>1, <3>2, <3>3 DEF Next, Die, vars
  <2>. QED BY <2>0, <2>1, <2>2 DEF FollowedUp
<1>. QED BY <1>1, <1>2, WhoPays

\* No payment is forgotten, whatever overlaps it: unless calls die, an order that is
\* PAID with an amount has the receipt of that amount or a call in flight that is about
\* to look for it or to issue it, whatever became of the invoice.
THEOREM PaymentsAreFollowedUp == Spec => []PaymentsFollowedUp
<1>. DEFINE Following == \A o \in Orders : FollowedUp(o)
            IInv == Typed /\ PaymentsPay /\ RoundedReceipts /\ PaymentsFollowedUp
<1>1. Init => IInv
  <2>. SUFFICES ASSUME Init PROVE IInv
    OBVIOUS
  <2>1. \A c \in Calls : calls[c].at = "idle"
    BY IdleOK DEF Init
  <2>2. receipts = {} /\ \A o \in Orders : order[o].payment = "PENDING"
    BY DEF Init, DocumentsInit, NewOrder
  <2>. QED BY <2>1, <2>2, TypedInit
           DEF PaymentsPay, RoundedReceipts, PaymentsFollowedUp, FollowedUp, Due
<1>2. IInv /\ [Next]_vars => IInv'
  <2>. SUFFICES ASSUME IInv, [Next]_vars PROVE IInv'
    OBVIOUS
  <2>1. PaymentsFollowedUp'
    BY FollowedUpStep, PaymentAssumption DEF PaymentsFollowedUp
  <2>. QED BY <2>1, TypedStep, PaymentsPayStep, RoundedReceiptsStep
<1>3. IInv => PaymentsFollowedUp
  OBVIOUS
<1>. QED BY <1>1, <1>2, <1>3, PTL DEF Spec

-----------------------------------------------------------------------------
(* Two documents for one order: the check that is missing is all there is *)

\* generateForOrder with the check it lacks: no order that is on a line of a consolidated
\* invoice is let through to an invoice of its own.
LooksAtLines ==
  \A c \in Calls :
    calls[c].at = "bill read" /\ calls'[c].at = "bill number" /\ calls[c].kind = "ORDER" =>
      calls[c].orders \cap OnALine = {}

\* What a call is about to bill in one way is not billed the other way.
Untaken ==
  \A c \in Calls : calls[c].at \in {"bill number", "bill insert"} =>
    /\ calls[c].kind = "ORDER" => calls[c].orders \cap OnALine = {}
    /\ calls[c].kind = "CONSOLIDATED" => calls[c].orders \cap OwnInvoiced = {}

LEMMA UntakenStep ==
  ASSUME Typed, Apart, Untaken, [Next]_vars, [LooksAtLines]_vars
  PROVE  Untaken'
<1>1. CASE SameInvoices /\ calls' = calls
  BY <1>1, SameOrders DEF Untaken
<1>2. ASSUME NEW c \in Calls, Started(c) PROVE Untaken'
  <2>1. OwnInvoiced' = OwnInvoiced /\ OnALine' = OnALine
    BY <1>2, SameOrders, Unmoved DEF Started, documents
  <2>. QED BY <1>2, <2>1 DEF Untaken, Started
<1>3. ASSUME NEW c \in Calls, RunCall(c), ~NumberBill(c), ~InsertBill(c) PROVE Untaken'
  <2>1. Moved(c)
    BY <1>3, RunMoves
  <2>2. OwnInvoiced' = OwnInvoiced /\ OnALine' = OnALine
    BY <2>1, SameOrders DEF Moved
  <2>3. GoesOn(c)
    BY <1>3, RunGoes
  <2>4. calls'[c].at = "bill number" =>
          /\ calls'[c].kind # "CONSOLIDATED"
          /\ calls[c].at = "bill read" /\ calls'[c].kind = calls[c].kind
          /\ calls'[c].orders = calls[c].orders
    BY <2>1, <2>3, IdleOK DEF Moved, GoesOn, Flow
  <2>5. calls'[c].at = "bill number" => LooksAtLines
    BY <2>4 DEF vars
  <2>6. calls'[c].at = "bill number" /\ calls'[c].kind = "ORDER" => calls'[c].orders \cap OnALine = {}
    BY <2>4, <2>5 DEF LooksAtLines
  <2>. QED BY <2>1, <2>2, <2>4, <2>6 DEF Untaken, Moved
<1>4. ASSUME NEW c \in Calls, NumberBill(c) PROVE Untaken'
  <2>1. OwnInvoiced' = OwnInvoiced /\ OnALine' = OnALine
    BY <1>4, NumberedOK, SameOrders, Unmoved
  <2>. QED BY <1>4, <2>1, NumberedOK DEF Untaken
<1>5. ASSUME NEW c \in Calls, InsertBill(c) PROVE Untaken'
  <2>0. /\ calls[c].at = "bill insert" /\ calls'[c].at \notin {"bill number", "bill insert"}
        /\ \A d \in Calls \ {c} : calls'[d] = calls[d]
    BY <1>5, InsertedOK
  <2>1. /\ OwnInvoiced' \subseteq OwnInvoiced \cup calls[c].orders
        /\ OnALine' \subseteq OnALine \cup calls[c].orders
    <3>1. \A j \in invoices' : j \in invoices \/ j.orders = calls[c].orders
      BY <1>5, InsertedOK
    <3>. QED BY <3>1 DEF OwnInvoiced, OnALine
  <2>2. \A d \in Calls \ {c} : calls[d].at # "idle" => calls[d].orders \cap calls[c].orders = {}
    BY <2>0 DEF Apart
  <2>. QED BY <2>0, <2>1, <2>2 DEF Untaken
<1>6. ASSUME NEW c \in Calls, Die(c) PROVE Untaken'
  <2>1. OwnInvoiced' = OwnInvoiced /\ OnALine' = OnALine
    BY <1>6 DEF Die, documents, OwnInvoiced, OnALine
  <2>2. calls'[c].at = "idle" /\ \A d \in Calls \ {c} : calls'[d] = calls[d]
    BY <1>6, EndMoves DEF Die
  <2>. QED BY <2>1, <2>2 DEF Untaken
<1>. QED BY <1>1, <1>2, <1>3, <1>4, <1>5, <1>6, StartStarts, OfficeMoves, Unmoved
         DEF Next, vars, documents

LEMMA BilledOnceStep ==
  ASSUME Typed, Untaken, BilledOnce, [Next]_vars
  PROVE  BilledOnce'
<1>1. CASE SameInvoices
  BY <1>1, SameOrders DEF BilledOnce
<1>2. ASSUME NEW c \in Calls, InsertBill(c) PROVE BilledOnce'
  <2>1. CASE invoices' = invoices
    BY <1>1, <2>1, Unmoved
  <2>2. CASE invoices' # invoices
    <3>1. PICK row \in InvoiceRow :
            /\ invoices' = invoices \cup {row}
            /\ row.kind = calls[c].kind /\ row.orders = calls[c].orders
      BY <1>2, <2>2, InsertedOK
    <3>2. /\ OwnInvoiced' = OwnInvoiced \cup (IF row.kind = "ORDER" THEN row.orders ELSE {})
          /\ OnALine' = OnALine \cup (IF row.kind = "CONSOLIDATED" THEN row.orders ELSE {})
      BY <3>1 DEF OwnInvoiced, OnALine
    <3>3. calls[c].at = "bill insert"
      BY <1>2 DEF InsertBill
    <3>4. /\ row.kind = "ORDER" => row.orders \cap OnALine = {}
          /\ row.kind = "CONSOLIDATED" => row.orders \cap OwnInvoiced = {}
      BY <3>1, <3>3 DEF Untaken
    <3>5. CASE row.kind = "ORDER"
      BY <3>2, <3>4, <3>5 DEF BilledOnce
    <3>6. CASE row.kind # "ORDER"
      BY <3>2, <3>4, <3>6 DEF BilledOnce
    <3>. QED BY <3>5, <3>6
  <2>. QED BY <2>1, <2>2
<1>. QED BY <1>1, <1>2, WhoNumbers, Unmoved, NumberedOK DEF Started, Moved, Die, documents

\* "The same order must never appear on two tax documents" would hold if generateForOrder
\* looked at the lines of consolidated invoices too, and calls about one order did not
\* overlap: nothing else puts an order on both, wherever calls die.
THEOREM BilledOnceIfLinesAreChecked ==
  ASSUME Exclusive = TRUE
  PROVE  Spec /\ [][LooksAtLines]_vars => []BilledOnce
<1>. DEFINE IInv == Typed /\ Apart /\ Untaken /\ BilledOnce
<1>1. Init => IInv
  <2>. SUFFICES ASSUME Init PROVE IInv
    OBVIOUS
  <2>1. \A c \in Calls : calls[c].at = "idle"
    BY IdleOK DEF Init
  <2>2. BilledOnce
    BY DEF Init, DocumentsInit, BilledOnce, OwnInvoiced, OnALine
  <2>. QED BY <2>1, <2>2, TypedInit, UnbrokenInit DEF Unbroken, Untaken
<1>2. IInv /\ [Next]_vars /\ [LooksAtLines]_vars => IInv'
  BY TypedStep, ApartStep, UntakenStep, BilledOnceStep
<1>3. IInv => BilledOnce
  OBVIOUS
<1>. QED BY <1>1, <1>2, <1>3, PTL DEF Spec
=============================================================================
