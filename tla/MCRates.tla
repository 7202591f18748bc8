------------------------------- MODULE MCRates -------------------------------
(***************************************************************************)
(* Up to three slabs on three weights; two sheets, one of them all-in with *)
(* a rate per kilogram; a ladder of two bands.  Two units are a kilogram.  *)
(***************************************************************************)
EXTENDS Rates, TLC

CONSTANTS w1, w2, w3, k1, k2

Flat(from, to, rate) == [from |-> from, to |-> to, rate |-> rate, byWeight |-> FALSE]

Entered == {[from |-> 1, to |-> 2], [from |-> 2, to |-> 3]}

Uploads ==
  {[allIn |-> FALSE, bands |-> {Flat(1, 2, 3)}],
   [allIn |-> TRUE, bands |-> {Flat(1, 2, 3), [Flat(3, 3, 5) EXCEPT !.byWeight = TRUE]}]}

\* An all-in rate of ten rupees.
TenRupees == {[allIn |-> TRUE, bands |-> {Flat(1, 2, 1000)}]}

Steps == {{[from |-> 0, to |-> 2, flat |-> 4, perKg |-> 0],
           [from |-> 2, to |-> OpenEnd, flat |-> 4, perKg |-> 3]}}

Carrier == [fuel |-> 30, pss |-> 1]

Symmetry == Permutations({w1, w2, w3}) \cup Permutations({k1, k2})
=============================================================================
