------------------------------- MODULE Pricing -------------------------------
(***************************************************************************)
(* The arithmetic of pricing-engine.service.ts, weight-slab-overlap.ts and *)
(* invoices/gst.ts: the price of a weight, the margin it carries and the   *)
(* tax columns of the invoice it ends up on.                               *)
(*                                                                         *)
(* Amounts are whole paise, percentages whole, weights whole units of a    *)
(* kilogram.  The code computes the same in binary floating point, where   *)
(* only an exact half may be rounded the other way.                        *)
(***************************************************************************)
EXTENDS Integers

CONSTANTS
  UnitsPerKg, \* weights are counted in units of this part of a kilogram
  OpenEnd     \* a margin band without an upper end

ASSUME PricingAssumption == UnitsPerKg \in Nat \ {0} /\ OpenEnd \notin Nat

\* round2 of a / b
Rounded(a, b) == (2 * a + b) \div (2 * b)

\* Per-kg rates are billed in whole kilograms.
WholeKgs(weight) == (weight + UnitsPerKg - 1) \div UnitsPerKg

ResolvedRate(slab, weight) ==
  IF slab.byWeight THEN slab.rate * WholeKgs(weight) ELSE slab.rate

-----------------------------------------------------------------------------
(* Weight slabs are closed intervals, margin bands half-open ones *)

Covers(slab, weight) == slab.from <= weight /\ weight <= slab.to

\* Mutant: slabs may share an edge.
MeetsInside(a, b) == a.from < b.to /\ b.from < a.to

\* findOverlappingSlabs for two slabs: sorted, it is the neighbours that decide.
Meets(a, b) == a.from <= b.to /\ b.from <= a.to

BandCovers(band, weight) == band.from <= weight /\ (band.to = OpenEnd \/ weight < band.to)

\* marginFromBands
MarginFromBands(bands, weight) ==
  IF \E b \in bands : BandCovers(b, weight)
  THEN LET band == CHOOSE b \in bands : BandCovers(b, weight)
       IN  band.flat + Rounded(band.perKg * (weight - band.from), UnitsPerKg)
  ELSE 0

-----------------------------------------------------------------------------
(* calculateFinalPrice.  provider: its fuel charge (percent) and its surcharge *)
(* per kg.                                                                     *)

FuelCharge(base, allIn, provider) ==
  IF allIn THEN 0 ELSE Rounded(base * provider.fuel, 100)

Surcharge(weight, allIn, provider) ==
  IF allIn THEN 0 ELSE Rounded(provider.pss * weight, UnitsPerKg)

EffectiveBaseRate(resolved, allIn, gstPercent) ==
  IF allIn THEN Rounded(100 * resolved, 100 + gstPercent) ELSE resolved

Gst(taxable, gstPercent) == Rounded(taxable * gstPercent, 100)

CalculateFinalPrice(slab, weight, allIn, provider, gstPercent, cut) ==
  LET base == EffectiveBaseRate(ResolvedRate(slab, weight), allIn, gstPercent)
      taxable == base + Surcharge(weight, allIn, provider) + FuelCharge(base, allIn, provider)
      gst == Gst(taxable, gstPercent)
  IN  [taxable |-> taxable, gst |-> gst, cut |-> cut, final |-> taxable + gst + cut]

-----------------------------------------------------------------------------
(* gst.ts *)

\* Mutant: both halves are rounded.
SplitInHalves(gst, intraState) ==
  IF intraState
  THEN [cgst |-> Rounded(gst, 2), sgst |-> Rounded(gst, 2), igst |-> 0]
  ELSE [cgst |-> 0, sgst |-> 0, igst |-> gst]

\* splitGst's amounts.
SplitGst(gst, intraState) ==
  IF intraState
  THEN [cgst |-> Rounded(gst, 2), sgst |-> gst - Rounded(gst, 2), igst |-> 0]
  ELSE [cgst |-> 0, sgst |-> 0, igst |-> gst]

\* resolveChargedBreakdown for a price the engine made, quoted or verified.
ChargedForPrice(price) ==
  [taxable |-> price.taxable, gst |-> price.gst, other |-> price.cut, total |-> price.final]

\* The same for one figure that staff typed.
ChargedForManual(gross, gstPercent) ==
  LET taxable == Rounded(100 * gross, 100 + gstPercent)
  IN  [taxable |-> taxable, gst |-> gross - taxable, other |-> 0, total |-> gross]

\* The columns of an invoice for what was charged.
AddsUp(charged) ==
  \A intraState \in BOOLEAN :
    LET tax == SplitGst(charged.gst, intraState)
    IN  /\ charged.taxable + tax.cgst + tax.sgst + tax.igst + charged.other = charged.total
        /\ tax.cgst >= 0 /\ tax.sgst >= 0 /\ tax.igst >= 0
=============================================================================
