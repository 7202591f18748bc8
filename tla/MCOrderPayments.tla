--------------------------- MODULE MCOrderPayments ---------------------------
(***************************************************************************)
(* Instances of OrderPayments: one or two orders, one code with one        *)
(* redemption, two calls in flight.                                        *)
(***************************************************************************)
EXTENDS OrderPayments, TLC

CONSTANTS o1, o2, k1, k2, saver

Once == [k \in Codes |-> 1]

Symmetry == Permutations(Orders) \cup Permutations(Calls)
=============================================================================
