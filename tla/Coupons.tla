------------------------------- MODULE Coupons -------------------------------
(***************************************************************************)
(* CouponsService: discount codes, handed out with an optional limit on    *)
(* how often they may be redeemed.  A payment validates a code on a row it *)
(* reads and claims a redemption with a conditional update.                *)
(***************************************************************************)
EXTENDS Integers

CONSTANTS
  Codes,     \* the codes an admin has created
  Limit,     \* maxRedemptions of each
  Unlimited, \* a null maxRedemptions
  NoCode     \* no couponCode in the request, or a null couponId

ASSUME CouponAssumption ==
  /\ Limit \in [Codes -> Nat \cup {Unlimited}]
  /\ Unlimited \notin Nat
  /\ NoCode \notin Codes

VARIABLE coupon \* the Coupon rows

\* expired: expiresAt has passed.  used: timesUsed.
CouponRow == [active : BOOLEAN, expired : BOOLEAN, used : Nat]

CouponInit == coupon = [k \in Codes |-> [active |-> TRUE, expired |-> FALSE, used |-> 0]]

SetActive(k) == coupon' = [coupon EXCEPT ![k].active = ~@]

Expire(k) == coupon' = [coupon EXCEPT ![k].expired = TRUE]

HasLeft(k) == Limit[k] = Unlimited \/ coupon[k].used < Limit[k]

\* validate: what the read of a row lets pass.
Validates(k) == coupon[k].active /\ ~coupon[k].expired /\ HasLeft(k)

\* The WHERE of redeem's updateMany, which does not look at expiresAt again.
Redeemable(k) == coupon[k].active /\ HasLeft(k)

\* Mutant: a redemption is given back instead of taken.
GiveBack(k) ==
  /\ Redeemable(k)
  /\ coupon' = [coupon EXCEPT ![k].used = @ - 1]

Redeem(k) ==
  /\ Redeemable(k)
  /\ coupon' = [coupon EXCEPT ![k].used = @ + 1]

-----------------------------------------------------------------------------
\* Payments recorded at the same moment never take more redemptions of a limited
\* code than it has (redeem's conditional update).
NeverOverdrawn ==
  \A k \in Codes : Limit[k] # Unlimited => coupon[k].used <= Limit[k]
=============================================================================
