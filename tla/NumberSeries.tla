---------------------------- MODULE NumberSeries ----------------------------
(***************************************************************************)
(* What a series of documents promises: numbers are taken one after the    *)
(* other, each is in one pair of hands, and it ends on one document, which *)
(* stays as it is, or on none.  OrderPayments implements it with the       *)
(* invoices and with the receipts of a year.                               *)
(***************************************************************************)
EXTENDS Integers

VARIABLES
  counter,  \* the last number taken
  held,     \* numbers in somebody's hands
  documents \* what was issued: records with a number

Init == counter = 0 /\ held = {} /\ documents = {}

Take ==
  /\ counter' = counter + 1
  /\ held' = held \cup {counter + 1}
  /\ UNCHANGED documents

Use(n) ==
  /\ held' = held \ {n}
  /\ \E d \in documents' : d.number = n /\ documents' = documents \cup {d}
  /\ UNCHANGED counter

\* Whoever held it died, or its document was refused.
Lose(n) ==
  /\ held' = held \ {n}
  /\ UNCHANGED <<counter, documents>>

Next == Take \/ \E n \in held : Use(n) \/ Lose(n)

Spec == Init /\ [][Next]_<<counter, held, documents>>
=============================================================================
