------------------------------ MODULE MCQuotes ------------------------------
(***************************************************************************)
(* One quote, legacy or not, with one partner: one call at the door and    *)
(* two at the desk.                                                        *)
(***************************************************************************)
EXTENDS Quotes

CONSTANTS c1, q1, p1, o1, o2, k1, d1, d2

OneCustomer == [q \in Quotes |-> c1]

\* There is one call at the door at a time.
NoOverlap == {{}}
=============================================================================
