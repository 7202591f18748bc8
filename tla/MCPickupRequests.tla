-------------------------- MODULE MCPickupRequests --------------------------
(***************************************************************************)
(* Instances of PickupRequests: one or two bookings, two partners, two     *)
(* calls in flight.                                                        *)
(***************************************************************************)
EXTENDS PickupRequests, TLC

CONSTANTS c1, q1, q2, p1, p2, o1, o2, k1, k2

AllOps == Ops \cup {"claim"}

OneCustomer == [q \in Quotes |-> c1]

\* Any two operations may be in flight on one booking.
AnyOverlap == AllOps \X AllOps

\* Anything but two different handlers that move the status.
OneMover == {pair \in AnyOverlap : {pair[1], pair[2]} \subseteq Movers => pair[1] = pair[2]}

AnyOnly == {AnyOverlap}

OneMoverOnly == {OneMover}

Either == {AnyOverlap, OneMover}

Symmetry == Permutations(Partners) \cup Permutations(Orders) \cup Permutations(Calls)

=============================================================================
