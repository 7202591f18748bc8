------------------------------ MODULE Documents ------------------------------
(***************************************************************************)
(* The tables of InvoicesService and ReceiptsService: the invoice and the  *)
(* receipt series of one customer's orders in one financial year, each     *)
(* with its counter row, and the single statements on them.                *)
(***************************************************************************)
EXTENDS Integers, FiniteSets

CONSTANT Orders \* order ids

VARIABLES
  invoices,        \* the Invoice rows with their lines
  invoiceCounter,  \* counters["invoice:<year>"]
  receipts,        \* the Receipt rows
  receiptCounter,  \* counters["receipt:<year>"]
  settings         \* whether the company settings a tax invoice needs are filled in

documents == <<invoices, invoiceCounter, receipts, receiptCounter, settings>>

\* "fee" is the CUSTOM invoice OrdersService.cancel raises, kept apart here.
Kinds == {"ORDER", "CONSOLIDATED", "CUSTOM", "fee"}

\* orders: the orderId of an ORDER invoice, the lines of a CONSOLIDATED one, and
\* for a fee the order its text names.  pdf: pdfPath is set.
InvoiceRow ==
  [number : Nat, kind : Kinds, orders : SUBSET Orders, cancelled : BOOLEAN, pdf : BOOLEAN]

\* amount: in tenths of a paisa, as are the amounts paid.
ReceiptRow == [number : Nat, order : Orders, amount : Nat, pdf : BOOLEAN]

DocumentsInit ==
  /\ invoices = {}
  /\ invoiceCounter = 0
  /\ receipts = {}
  /\ receiptCounter = 0
  /\ settings \in BOOLEAN

DocumentsType ==
  /\ invoices \subseteq InvoiceRow
  /\ invoiceCounter \in Nat
  /\ receipts \subseteq ReceiptRow
  /\ receiptCounter \in Nat
  /\ settings \in BOOLEAN

-----------------------------------------------------------------------------
(* Invoices *)

\* Orders with an invoice of their own, and those on a line of a consolidated one,
\* cancelled invoices included.
OwnInvoiced == UNION {i.orders : i \in {j \in invoices : j.kind = "ORDER"}}

OnALine == UNION {i.orders : i \in {j \in invoices : j.kind = "CONSOLIDATED"}}

\* Mutant: the number after the last invoice, instead of the counter's next.
NextAfterLast(n) == n = Cardinality(invoices) + 1 /\ invoiceCounter' = invoiceCounter + 1

\* nextSequenceNumber: n is the counter's next value, for this caller alone.
NextInvoiceNumber(n) == n = invoiceCounter + 1 /\ invoiceCounter' = n

\* The unique constraints on Invoice.orderId, InvoiceLine.orderId and the number.
Insertable(kind, os, n) ==
  /\ kind = "ORDER" => os \cap OwnInvoiced = {}
  /\ kind = "CONSOLIDATED" => os \cap OnALine = {}
  /\ \A i \in invoices : i.number # n

BlankInvoice ==
  [number |-> 0, kind |-> "CUSTOM", orders |-> {}, cancelled |-> FALSE, pdf |-> FALSE]

InsertInvoice(kind, os, n) ==
  invoices' = invoices \cup
    {[BlankInvoice EXCEPT !.number = n, !.kind = kind, !.orders = os]}

ReplaceInvoice(i, j) == invoices' = (invoices \ {i}) \cup {j}

\* Storing the PDF: at the end of issuing, or when a missing one is asked for.
PrintInvoice(i) == ReplaceInvoice(i, [i EXCEPT !.pdf = TRUE])

CancelInvoice(i) == ReplaceInvoice(i, [i EXCEPT !.cancelled = TRUE])

-----------------------------------------------------------------------------
(* Receipts *)

NextReceiptNumber(n) == n = receiptCounter + 1 /\ receiptCounter' = n

BlankReceipt(o) == [number |-> 0, order |-> o, amount |-> 0, pdf |-> FALSE]

\* Math.round(amount * 100) / 100
ToPaise(amount) == ((amount + 5) \div 10) * 10

InsertReceipt(o, amount, n) ==
  receipts' = receipts \cup {[BlankReceipt(o) EXCEPT !.number = n, !.amount = ToPaise(amount)]}

PrintReceipt(r) == receipts' = (receipts \ {r}) \cup {[r EXCEPT !.pdf = TRUE]}

Receipted(o, amount) == \E r \in receipts : r.order = o /\ r.amount = amount
=============================================================================
