---------------------------- MODULE Rates_proofs ----------------------------
(***************************************************************************)
(* What the rate card and its prices guarantee for every card, sheet,      *)
(* weight, percentage and number of calls in flight.                       *)
(***************************************************************************)
EXTENDS Rates, TLAPS

-----------------------------------------------------------------------------
(* The arithmetic *)

LEMMA DivBounds ==
  ASSUME NEW n \in Nat, NEW d \in Nat \ {0}
  PROVE  /\ n \div d \in Nat
         /\ d * (n \div d) <= n
         /\ n < d * (n \div d) + d
OBVIOUS

\* Rounding is at most half of the divisor off.
LEMMA RoundedBounds ==
  ASSUME NEW a \in Nat, NEW b \in Nat \ {0}
  PROVE  /\ Rounded(a, b) \in Nat
         /\ (2 * b) * Rounded(a, b) <= 2 * a + b
         /\ 2 * a + b < (2 * b) * Rounded(a, b) + 2 * b
<1>1. 2 * a + b \in Nat /\ 2 * b \in Nat \ {0}
  OBVIOUS
<1>. QED BY <1>1, DivBounds DEF Rounded

LEMMA HalfOK ==
  ASSUME NEW gst \in Nat
  PROVE  Rounded(gst, 2) \in 0 .. gst
BY DEF Rounded

\* The columns add up whatever the charge, if the charge does.
LEMMA ColumnsAddUp ==
  ASSUME NEW taxable \in Nat, NEW gst \in Nat, NEW other \in Nat
  PROVE  AddsUp([taxable |-> taxable, gst |-> gst, other |-> other,
                 total |-> taxable + gst + other])
<1>1. Rounded(gst, 2) \in 0 .. gst
  BY HalfOK
<1>. QED BY <1>1 DEF AddsUp, SplitGst

\* Taking the tax out of a figure leaves no more than the figure.
LEMMA TaxOut ==
  ASSUME NEW gross \in Nat, NEW gstPercent \in 0 .. 100
  PROVE  Rounded(100 * gross, 100 + gstPercent) \in 0 .. gross
<1>. DEFINE t == Rounded(100 * gross, 100 + gstPercent)
<1>1. /\ t \in Nat
      /\ (2 * (100 + gstPercent)) * t <= 2 * (100 * gross) + (100 + gstPercent)
  <2>1. 100 * gross \in Nat /\ 100 + gstPercent \in Nat \ {0}
    OBVIOUS
  <2>. QED BY <2>1, RoundedBounds
<1>. HIDE DEF t
<1>2. ASSUME t >= gross + 1 PROVE FALSE
  <2>1. PICK k \in Nat : t = gross + 1 + k
    <3>1. t - (gross + 1) \in Nat /\ t = gross + 1 + (t - (gross + 1))
      BY <1>1, <1>2
    <3>. QED BY <3>1
  <2>2. (2 * (100 + gstPercent)) * t
          = 200 * gross + 200 + 2 * gstPercent + 2 * (gstPercent * gross)
              + (200 + 2 * gstPercent) * k
    BY <2>1
  <2>3. gstPercent * gross \in Nat /\ (200 + 2 * gstPercent) * k \in Nat
    BY <2>1
  <2>. QED BY <1>1, <2>2, <2>3
<1>. QED BY <1>1, <1>2 DEF t

LEMMA ManualAddsUp ==
  ASSUME NEW gross \in Nat, NEW gstPercent \in 0 .. 100
  PROVE  AddsUp(ChargedForManual(gross, gstPercent))
<1>. DEFINE t == Rounded(100 * gross, 100 + gstPercent)
<1>1. t \in 0 .. gross
  BY TaxOut
<1>. HIDE DEF t
<1>2. AddsUp([taxable |-> t, gst |-> gross - t, other |-> 0, total |-> t + (gross - t) + 0])
  BY <1>1, ColumnsAddUp
<1>3. t + (gross - t) + 0 = gross
  BY <1>1
<1>. QED BY <1>2, <1>3 DEF ChargedForManual, t

\* Taking the tax out of an all-in figure and adding it back is one paisa off at most.
LEMMA OutAndBack ==
  ASSUME NEW r \in Nat, NEW g \in 0 .. 100
  PROVE  Rounded(100 * r, 100 + g) + Gst(Rounded(100 * r, 100 + g), g) - r \in -1 .. 1
<1>. DEFINE t == Rounded(100 * r, 100 + g)
            x == Gst(t, g)
<1>1. /\ t \in Nat
      /\ (2 * (100 + g)) * t <= 2 * (100 * r) + (100 + g)
      /\ 2 * (100 * r) + (100 + g) < (2 * (100 + g)) * t + 2 * (100 + g)
  <2>1. 100 * r \in Nat /\ 100 + g \in Nat \ {0}
    OBVIOUS
  <2>. QED BY <2>1, RoundedBounds
<1>. HIDE DEF t
<1>2. /\ x \in Nat
      /\ (2 * 100) * x <= 2 * (t * g) + 100
      /\ 2 * (t * g) + 100 < (2 * 100) * x + 2 * 100
  <2>1. t * g \in Nat /\ 100 \in Nat \ {0}
    BY <1>1
  <2>. QED BY <2>1, RoundedBounds DEF Gst
<1>. HIDE DEF x
<1>3. PICK y \in Nat : y = t * g /\ (2 * (100 + g)) * t = 200 * t + 2 * y
  BY <1>1
<1>4. 200 * (t + x) <= 200 * r + 100 + g + 100
  BY <1>1, <1>2, <1>3
<1>5. 200 * r + 100 + g + 100 < 200 * (t + x) + 2 * (100 + g) + 200
  BY <1>1, <1>2, <1>3
<1>6. t + x - r \in -1 .. 1
  BY <1>1, <1>2, <1>4, <1>5
<1>. QED BY <1>6 DEF t, x

\* Taking the tax out and adding it back finds the figure again, if it is one that a
\* taxable amount and its tax come to.
LEMMA OutAndBackExact ==
  ASSUME NEW r \in Nat, NEW g \in 0 .. 100, NEW b \in Nat, b + Gst(b, g) = r
  PROVE  Rounded(100 * r, 100 + g) = b
<1>. DEFINE x == Gst(b, g)
            t == Rounded(100 * r, 100 + g)
<1>1. /\ x \in Nat
      /\ (2 * 100) * x <= 2 * (b * g) + 100
      /\ 2 * (b * g) + 100 < (2 * 100) * x + 2 * 100
  <2>1. b * g \in Nat /\ 100 \in Nat \ {0}
    OBVIOUS
  <2>. QED BY <2>1, RoundedBounds DEF Gst
<1>0. r = b + x
  OBVIOUS
<1>. HIDE DEF x
<1>2. /\ t \in Nat
      /\ (2 * (100 + g)) * t <= 2 * (100 * r) + (100 + g)
      /\ 2 * (100 * r) + (100 + g) < (2 * (100 + g)) * t + 2 * (100 + g)
  <2>1. 100 * r \in Nat /\ 100 + g \in Nat \ {0}
    OBVIOUS
  <2>. QED BY <2>1, RoundedBounds
<1>. HIDE DEF t
<1>3. PICK y \in Nat : y = b * g
  OBVIOUS
<1>4. ASSUME t >= b + 1 PROVE FALSE
  <2>1. PICK k \in Nat : t = b + 1 + k
    <3>1. t - (b + 1) \in Nat /\ t = b + 1 + (t - (b + 1))
      BY <1>2, <1>4
    <3>. QED BY <3>1
  <2>2. (2 * (100 + g)) * t = 200 * b + 2 * y + 200 + 2 * g + (200 + 2 * g) * k
    BY <1>3, <2>1
  <2>3. (200 + 2 * g) * k \in Nat
    BY <2>1
  <2>. QED BY <1>0, <1>1, <1>2, <1>3, <2>2, <2>3
<1>5. ASSUME b >= t + 1 PROVE FALSE
  <2>1. PICK k \in Nat : b = t + 1 + k
    <3>1. b - (t + 1) \in Nat /\ b = t + 1 + (b - (t + 1))
      BY <1>2, <1>5
    <3>. QED BY <3>1
  <2>2. 200 * b + 2 * y = (2 * (100 + g)) * t + 200 + 2 * g + (200 + 2 * g) * k
    BY <1>2, <1>3, <2>1
  <2>3. (200 + 2 * g) * k \in Nat /\ (2 * (100 + g)) * t \in Nat
    BY <1>2, <2>1
  <2>. QED BY <1>0, <1>1, <1>2, <1>3, <2>2, <2>3
<1>. QED BY <1>2, <1>4, <1>5 DEF t

-----------------------------------------------------------------------------
(* Types *)

LEMMA AssumedOK ==
  /\ Ranges \subseteq Range /\ Amounts \subseteq Nat /\ Cuts \subseteq Nat
  /\ Weights \subseteq Nat /\ GstPercent \in 0 .. 100 /\ MaxStaffCalls \in Nat
  /\ Provider \in [fuel : 0 .. 100, pss : Nat] /\ NoSlab \notin SlabRow
  /\ \A s \in Sheets : /\ s \in [allIn : BOOLEAN, bands : SUBSET Band] /\ Disjoint(s.bands)
                       /\ \A b \in s.bands : Proper(b)
  /\ \A bands \in Ladders : bands \subseteq MarginBand
BY RatesAssumption, SlabAssumption

\* Rows are never deleted: what a call in flight has read is still there.
CallSound(call) ==
  /\ call.at \in {"check", "write"} /\ call.op \in {"update", "switch"} => Exists(call.id)
  /\ call.at = "commit" => \A id \in Slabs : call.seen[id] # NoSlab => Exists(id)
  /\ call.at = "answered" =>
       \E cut \in Nat :
         call.price = CalculateFinalPrice(call.slab, call.weight, call.flag, Provider,
                                          GstPercent, cut)

Typed == TypeOK /\ \A c \in Calls : CallSound(calls[c])

\* What the statement a call is at says of it.
LEMMA CallAt ==
  ASSUME TypeOK, NEW c \in Calls
  PROVE  /\ At(c, "check") =>
              calls[c] \in [op : {"update", "switch"}, at : {"check"}, id : Slabs, row : SlabRow,
                            form : SUBSET {"from", "to", "rate"}]
         /\ At(c, "write") =>
              calls[c] \in [op : {"create", "update", "switch"}, at : {"write"}, id : Slabs,
                            row : SlabRow, form : SUBSET {"from", "to", "rate"}]
         /\ At(c, "plan") => calls[c] \in [op : {"import"}, at : {"plan"}, sheet : Sheets]
         /\ At(c, "commit") =>
              calls[c] \in [op : {"import"}, at : {"commit"}, sheet : Sheets,
                            flag : BOOLEAN, seen : [Slabs -> SlabRow \cup {NoSlab}]]
         /\ At(c, "slabs") =>
              calls[c] \in [op : {"quote"}, at : {"slabs"}, weight : Weights, flag : BOOLEAN]
         /\ At(c, "ladder") =>
              calls[c] \in [op : {"quote"}, at : {"ladder"}, weight : Weights, flag : BOOLEAN,
                            slab : SlabRow]
         /\ At(c, "answered") =>
              calls[c] \in [op : {"quote"}, at : {"answered"}, weight : Weights,
                            flag : BOOLEAN, slab : SlabRow, price : PriceRow]
BY DEF TypeOK, CallRow, At, Idle

LEMMA IdleOK == Idle \in CallRow /\ CallSound(Idle)
BY DEF CallRow, Idle, CallSound

LEMMA TypedInit == Init => Typed
<1>. SUFFICES ASSUME Init PROVE Typed
  OBVIOUS
<1>1. calls \in [Calls -> CallRow] /\ \A c \in Calls : CallSound(calls[c])
  BY IdleOK DEF Init
<1>2. ladder \in Ladders \cup {{}}
  BY DEF Init
<1>3. slab \in [Slabs -> SlabRow \cup {NoSlab}]
  BY DEF Init
<1>4. MaxStaffCalls \in Nat
  BY AssumedOK
<1>5. staffCalls \in 0 .. MaxStaffCalls
  BY <1>4 DEF Init
<1>6. apart \in BOOLEAN /\ taxInclusive \in BOOLEAN
  BY Zenon DEF Init
<1>. QED BY <1>1, <1>2, <1>3, <1>5, <1>6 DEF Typed, TypeOK

\* A call that moves or ends, while no row goes away.
LEMMA CallMoves ==
  ASSUME Typed, NEW c \in Calls, calls' = [calls EXCEPT ![c] = calls'[c]],
         calls'[c] \in CallRow, CallSound(calls[c])',
         \A id \in Slabs : Exists(id) => Exists(id)'
  PROVE  calls' \in [Calls -> CallRow] /\ \A d \in Calls : CallSound(calls[d])'
<1>1. calls' \in [Calls -> CallRow] /\ \A d \in Calls \ {c} : calls'[d] = calls[d]
  BY DEF Typed, TypeOK
<1>2. ASSUME NEW d \in Calls \ {c} PROVE CallSound(calls[d])'
  <2>1. CallSound(calls[d]) /\ calls'[d] = calls[d]
    BY <1>1 DEF Typed
  <2>2. At(d, "check") \/ At(d, "write") => calls[d].id \in Slabs
    BY CallAt DEF Typed
  <2>. QED BY <2>1, <2>2 DEF CallSound, At
<1>. QED BY <1>1, <1>2

LEMMA PriceOK ==
  ASSUME NEW row \in SlabRow, NEW weight \in Nat, NEW allIn \in BOOLEAN, NEW cut \in Nat,
         NEW price, price = CalculateFinalPrice(row, weight, allIn, Provider, GstPercent, cut)
  PROVE  /\ price \in PriceRow /\ price.cut = cut
         /\ price.final = price.taxable + price.gst + price.cut
         /\ ResolvedRate(row, weight) \in Nat
         /\ allIn => /\ price.taxable = Rounded(100 * ResolvedRate(row, weight), 100 + GstPercent)
                     /\ price.gst = Gst(price.taxable, GstPercent)
<1>1. WholeKgs(weight) \in Nat
  <2>1. weight + UnitsPerKg - 1 \in Nat /\ UnitsPerKg \in Nat \ {0}
    BY PricingAssumption
  <2>. QED BY <2>1, DivBounds DEF WholeKgs
<1>2. ResolvedRate(row, weight) \in Nat
  BY <1>1 DEF ResolvedRate, SlabRow
<1>. DEFINE base == EffectiveBaseRate(ResolvedRate(row, weight), allIn, GstPercent)
            taxable == base + Surcharge(weight, allIn, Provider) + FuelCharge(base, allIn, Provider)
<1>3. GstPercent \in 0 .. 100 /\ 100 + GstPercent \in Nat \ {0} /\ Provider.fuel \in 0 .. 100
      /\ Provider.pss \in Nat /\ 100 \in Nat \ {0} /\ UnitsPerKg \in Nat \ {0}
  BY AssumedOK, PricingAssumption
<1>4. base \in Nat
  <2>1. 100 * ResolvedRate(row, weight) \in Nat
    BY <1>2
  <2>2. Rounded(100 * ResolvedRate(row, weight), 100 + GstPercent) \in Nat
    BY <1>3, <2>1, RoundedBounds
  <2>. QED BY <1>2, <2>2 DEF EffectiveBaseRate
<1>5. Surcharge(weight, allIn, Provider) \in Nat
  <2>1. Provider.pss * weight \in Nat
    BY <1>3
  <2>. QED BY <1>3, <2>1, RoundedBounds DEF Surcharge
<1>6. FuelCharge(base, allIn, Provider) \in Nat
  <2>1. base * Provider.fuel \in Nat
    BY <1>3, <1>4
  <2>2. Rounded(base * Provider.fuel, 100) \in Nat
    BY <1>3, <2>1, RoundedBounds
  <2>. QED BY <2>2 DEF FuelCharge
<1>7. taxable \in Nat
  BY <1>4, <1>5, <1>6
<1>8. Gst(taxable, GstPercent) \in Nat
  <2>1. taxable * GstPercent \in Nat
    BY <1>3, <1>7
  <2>. QED BY <1>3, <2>1, RoundedBounds DEF Gst
<1>9. allIn => taxable = Rounded(100 * ResolvedRate(row, weight), 100 + GstPercent)
  BY <1>4 DEF Surcharge, FuelCharge, EffectiveBaseRate
<1>10. CalculateFinalPrice(row, weight, allIn, Provider, GstPercent, cut)
         = [taxable |-> taxable, gst |-> Gst(taxable, GstPercent), cut |-> cut,
            final |-> taxable + Gst(taxable, GstPercent) + cut]
  BY DEF CalculateFinalPrice
<1>. HIDE DEF base, taxable
<1>11. taxable + Gst(taxable, GstPercent) + cut \in Nat
  BY <1>7, <1>8
<1>. QED BY <1>2, <1>7, <1>8, <1>9, <1>10, <1>11 DEF PriceRow

LEMMA MarginOK ==
  ASSUME TypeOK, NEW weight \in Nat, NEW row \in SlabRow
  PROVE  CutFor(row, weight) \in Nat
<1>1. ladder \subseteq MarginBand
  BY AssumedOK DEF TypeOK
<1>2. MarginFromBands(ladder, weight) \in Nat
  <2>1. CASE \E b \in ladder : BandCovers(b, weight)
    <3>. DEFINE band == CHOOSE b \in ladder : BandCovers(b, weight)
    <3>1. band \in ladder /\ BandCovers(band, weight)
      BY <2>1
    <3>. HIDE DEF band
    <3>2. band \in MarginBand /\ band.from <= weight
      BY <1>1, <3>1 DEF BandCovers
    <3>3. band.perKg * (weight - band.from) \in Nat /\ UnitsPerKg \in Nat \ {0} /\ band.flat \in Nat
      BY <3>2, PricingAssumption DEF MarginBand
    <3>4. Rounded(band.perKg * (weight - band.from), UnitsPerKg) \in Nat
      BY <3>3, RoundedBounds
    <3>5. MarginFromBands(ladder, weight)
            = band.flat + Rounded(band.perKg * (weight - band.from), UnitsPerKg)
      BY <2>1 DEF MarginFromBands, band
    <3>. QED BY <3>3, <3>4, <3>5
  <2>2. CASE ~\E b \in ladder : BandCovers(b, weight)
    BY <2>2 DEF MarginFromBands
  <2>. QED BY <2>1, <2>2
<1>. QED BY <1>2 DEF CutFor, SlabRow

LEMMA EnterOK ==
  ASSUME NEW form, NEW row \in SlabRow, NEW r, r.from \in Nat, r.to \in Nat, NEW rate \in Nat
  PROVE  Enter(form, row, r, rate) \in SlabRow
BY DEF Enter, SlabRow

LEMMA WrittenOK ==
  ASSUME Typed, NEW c \in Calls, At(c, "write")
  PROVE  /\ calls[c].id \in Slabs /\ Written(calls[c]) \in SlabRow
         /\ calls[c].op = "create" => Written(calls[c]) = calls[c].row
<1>1. calls[c] \in [op : {"create", "update", "switch"}, at : {"write"}, id : Slabs,
                    row : SlabRow, form : SUBSET {"from", "to", "rate"}]
  BY CallAt DEF Typed
<1>2. calls[c].op # "create" => slab[calls[c].id] \in SlabRow
  BY <1>1 DEF Typed, TypeOK, CallSound, Exists
<1>3. /\ calls[c].row.from \in Nat /\ calls[c].row.to \in Nat /\ calls[c].row.rate \in Nat
      /\ calls[c].row.active \in BOOLEAN
  BY <1>1 DEF SlabRow
<1>4. CASE calls[c].op = "create"
  BY <1>1, <1>4 DEF Written
<1>5. CASE calls[c].op = "update"
  <2>1. Written(calls[c])
          = Enter(calls[c].form, slab[calls[c].id], calls[c].row, calls[c].row.rate)
    BY <1>5 DEF Written
  <2>. QED BY <1>1, <1>2, <1>3, <1>5, <2>1, EnterOK
<1>6. CASE calls[c].op = "switch"
  <2>1. Written(calls[c]) = [slab[calls[c].id] EXCEPT !.active = calls[c].row.active, !.hand = TRUE]
    BY <1>6 DEF Written
  <2>. QED BY <1>1, <1>2, <1>3, <1>6, <2>1 DEF SlabRow
<1>. QED BY <1>1, <1>4, <1>5, <1>6

\* A band's row, written over what the import has read there.
LEMMA PlacedOK ==
  ASSUME NEW row, NEW seen, seen # NoSlab => row \in SlabRow, NEW band \in Band,
         NEW allIn \in BOOLEAN
  PROVE  Placed(row, seen, band, allIn) \in SlabRow
<1>1. CASE seen = NoSlab
  BY <1>1 DEF Placed, Fresh, SlabRow, Band
<1>2. CASE seen # NoSlab
  BY <1>2 DEF Placed, SlabRow, Band
<1>. QED BY <1>1, <1>2

LEMMA ImportedOK ==
  ASSUME Typed, NEW c \in Calls, At(c, "commit"),
         NEW place \in Placements(calls[c].seen, calls[c].sheet.bands),
         NEW id \in Slabs
  PROVE  LET row == Imported(place, calls[c].seen, calls[c].sheet)[id]
         IN  row \in SlabRow \/ row = slab[id]
<1>. DEFINE seen == calls[c].seen
            sheet == calls[c].sheet
<1>1. /\ sheet \in [allIn : BOOLEAN, bands : SUBSET Band]
      /\ seen[id] # NoSlab => slab[id] \in SlabRow
  BY CallAt, AssumedOK DEF Typed, TypeOK, CallSound, At, Exists
<1>. HIDE DEF seen, sheet
<1>2. CASE \E b \in sheet.bands : place[b] = id
  <2>. DEFINE band == CHOOSE b \in sheet.bands : place[b] = id
  <2>1. band \in Band
    BY <1>1, <1>2
  <2>2. Imported(place, seen, sheet)[id] = Placed(slab[id], seen[id], band, sheet.allIn)
    BY <1>2 DEF Imported
  <2>. HIDE DEF band
  <2>3. Placed(slab[id], seen[id], band, sheet.allIn) \in SlabRow
    BY <1>1, <2>1, PlacedOK
  <2>. QED BY <2>2, <2>3 DEF seen, sheet
<1>3. CASE ~\E b \in sheet.bands : place[b] = id
  <2>1. Imported(place, seen, sheet)[id]
          = IF seen[id] # NoSlab /\ seen[id].active THEN [slab[id] EXCEPT !.active = FALSE]
            ELSE slab[id]
    BY <1>3 DEF Imported
  <2>2. seen[id] # NoSlab => [slab[id] EXCEPT !.active = FALSE] \in SlabRow
    BY <1>1 DEF SlabRow
  <2>. QED BY <2>1, <2>2 DEF seen, sheet
<1>. QED BY <1>2, <1>3

-----------------------------------------------------------------------------
(* Every step keeps the types *)

LEMMA RowsStay ==
  ASSUME Typed, slab' = slab
  PROVE  slab' \in [Slabs -> SlabRow \cup {NoSlab}] /\ \A id \in Slabs : Exists(id) => Exists(id)'
BY DEF Typed, TypeOK, Exists

\* A call of staff's that arrives.
LEMMA BeginStaffTyped ==
  ASSUME Typed, NEW c \in Calls, NEW call \in CallRow, BeginStaff(c, call), CallSound(call),
         call.at \in {"check", "write", "plan"},
         UNCHANGED <<apart, taxInclusive, slab, ladder>>
  PROVE  Typed'
<1>1. calls' = [calls EXCEPT ![c] = calls'[c]] /\ calls'[c] = call
  BY DEF BeginStaff, Typed, TypeOK
<1>0. CallSound(calls[c])'
  BY <1>1 DEF CallSound, Exists
<1>2. calls' \in [Calls -> CallRow] /\ \A d \in Calls : CallSound(calls[d])'
  BY <1>0, <1>1, CallMoves, RowsStay
<1>3. staffCalls' \in 0 .. MaxStaffCalls
  BY AssumedOK DEF BeginStaff, Typed, TypeOK
<1>4. ladder' \in Ladders \cup {{}} /\ slab' \in [Slabs -> SlabRow \cup {NoSlab}]
  BY RowsStay DEF Typed, TypeOK
<1>5. apart' \in BOOLEAN /\ taxInclusive' \in BOOLEAN
  BY DEF Typed, TypeOK
<1>. QED BY <1>2, <1>3, <1>4, <1>5 DEF Typed, TypeOK

\* A call of any kind that moves on, when it writes nothing.
LEMMA CallTyped ==
  ASSUME Typed, NEW c \in Calls, NEW call \in CallRow, calls' = [calls EXCEPT ![c] = call],
         CallSound(call), UNCHANGED <<apart, taxInclusive, slab, ladder, staffCalls>>
  PROVE  Typed'
<1>0. calls' = [calls EXCEPT ![c] = calls'[c]] /\ calls'[c] = call
  BY DEF Typed, TypeOK
<1>1. calls' \in [Calls -> CallRow] /\ \A d \in Calls : CallSound(calls[d])'
  <2>1. CallSound(calls[c])'
    BY <1>0 DEF CallSound, Exists
  <2>. QED BY <1>0, <2>1, CallMoves, RowsStay
<1>2. ladder' \in Ladders \cup {{}} /\ slab' \in [Slabs -> SlabRow \cup {NoSlab}]
      /\ staffCalls' \in 0 .. MaxStaffCalls
  BY RowsStay DEF Typed, TypeOK
<1>3. apart' \in BOOLEAN /\ taxInclusive' \in BOOLEAN
  BY DEF Typed, TypeOK
<1>. QED BY <1>1, <1>2, <1>3 DEF Typed, TypeOK

LEMMA BeginCreateTyped ==
  ASSUME Typed, NEW c \in Calls, NEW id \in Slabs, BeginCreate(c, id)
  PROVE  Typed'
<1>1. PICK r \in Ranges, rate \in Amounts, cut \in Cuts :
        LET row == [from |-> r.from, to |-> r.to, rate |-> rate, byWeight |-> FALSE, cut |-> cut,
                    active |-> TRUE, hand |-> TRUE, allIn |-> FALSE]
        IN  BeginStaff(c, [op |-> "create", at |-> "write", id |-> id, row |-> row, form |-> {}])
  BY DEF BeginCreate
<1>. DEFINE row == [from |-> r.from, to |-> r.to, rate |-> rate, byWeight |-> FALSE, cut |-> cut,
                    active |-> TRUE, hand |-> TRUE, allIn |-> FALSE]
            call == [op |-> "create", at |-> "write", id |-> id, row |-> row, form |-> {}]
<1>2. row \in SlabRow
  BY AssumedOK DEF SlabRow, Range
<1>. HIDE DEF row
<1>3. call \in CallRow /\ CallSound(call) /\ call.at = "write"
  BY <1>2 DEF CallRow, CallSound
<1>4. BeginStaff(c, call)
  BY <1>1 DEF row
<1>. HIDE DEF call
<1>. QED BY <1>3, <1>4, BeginStaffTyped DEF BeginCreate

LEMMA BeginUpdateTyped ==
  ASSUME Typed, NEW c \in Calls, NEW id \in Slabs, BeginUpdate(c, id)
  PROVE  Typed'
<1>1. PICK form \in SUBSET {"from", "to", "rate"}, r \in Ranges, rate \in Amounts :
        BeginStaff(c, [op |-> "update", at |-> "check", id |-> id,
                       row |-> Enter(form, slab[id], r, rate), form |-> form])
  BY DEF BeginUpdate
<1>. DEFINE row == Enter(form, slab[id], r, rate)
            call == [op |-> "update", at |-> "check", id |-> id, row |-> row, form |-> form]
<1>2. row \in SlabRow
  <2>1. slab[id] \in SlabRow
    BY DEF BeginUpdate, Exists, Typed, TypeOK
  <2>2. r.from \in Nat /\ r.to \in Nat /\ rate \in Nat
    BY AssumedOK DEF Range
  <2>. QED BY <2>1, <2>2, EnterOK
<1>. HIDE DEF row
<1>3. call \in CallRow /\ CallSound(call) /\ call.at = "check"
  BY <1>2 DEF CallRow, CallSound, BeginUpdate
<1>4. BeginStaff(c, call)
  BY <1>1 DEF row
<1>. HIDE DEF call
<1>. QED BY <1>3, <1>4, BeginStaffTyped DEF BeginUpdate

LEMMA BeginSwitchTyped ==
  ASSUME Typed, NEW c \in Calls, NEW id \in Slabs, BeginSwitch(c, id)
  PROVE  Typed'
<1>. DEFINE row == [slab[id] EXCEPT !.active = ~slab[id].active, !.hand = TRUE]
            at == IF row.active THEN "check" ELSE "write"
            call == [op |-> "switch", at |-> at, id |-> id, row |-> row, form |-> {}]
<1>1. BeginStaff(c, call)
  BY DEF BeginSwitch
<1>2. row \in SlabRow
  <2>1. slab[id] \in SlabRow
    BY DEF BeginSwitch, Exists, Typed, TypeOK
  <2>. QED BY <2>1 DEF SlabRow
<1>3. at \in {"check", "write"}
  OBVIOUS
<1>. HIDE DEF row, at
<1>4. call \in CallRow /\ CallSound(call) /\ call.at \in {"check", "write"}
  BY <1>2, <1>3 DEF CallRow, CallSound, BeginSwitch
<1>. HIDE DEF call
<1>. QED BY <1>1, <1>4, BeginStaffTyped DEF BeginSwitch

LEMMA CheckTyped ==
  ASSUME Typed, NEW c \in Calls, CheckSiblings(c)
  PROVE  Typed'
<1>1. UNCHANGED <<apart, taxInclusive, slab, ladder, staffCalls>>
  BY DEF CheckSiblings
<1>2. CASE End(c)
  BY <1>1, <1>2, IdleOK, CallTyped DEF End
<1>3. CASE ~End(c)
  <2>. DEFINE call == [calls[c] EXCEPT !.at = "write"]
  <2>1. calls' = [calls EXCEPT ![c] = call]
    BY <1>3 DEF CheckSiblings, Typed, TypeOK
  <2>2. calls[c] \in [op : {"update", "switch"}, at : {"check"}, id : Slabs, row : SlabRow,
                      form : SUBSET {"from", "to", "rate"}]
        /\ CallSound(calls[c])
    BY CallAt DEF CheckSiblings, Typed
  <2>3. call \in [op : {"update", "switch"}, at : {"check", "write"}, id : Slabs, row : SlabRow,
                  form : SUBSET {"from", "to", "rate"}]
        /\ call.at = "write" /\ call.id = calls[c].id /\ call.op = calls[c].op
    BY <2>2
  <2>. HIDE DEF call
  <2>4. call \in CallRow /\ CallSound(call)
    BY <2>2, <2>3 DEF CallRow, CallSound
  <2>. QED BY <1>1, <2>1, <2>4, CallTyped
<1>. QED BY <1>2, <1>3

\* Rows written by a call that ends.
LEMMA EndTyped ==
  ASSUME Typed, NEW c \in Calls, End(c), slab' \in [Slabs -> SlabRow \cup {NoSlab}],
         \A id \in Slabs : Exists(id) => Exists(id)',
         taxInclusive' \in BOOLEAN, UNCHANGED <<apart, ladder, staffCalls>>
  PROVE  Typed'
<1>1. calls' \in [Calls -> CallRow] /\ \A d \in Calls : CallSound(calls[d])'
  <2>1. calls' = [calls EXCEPT ![c] = calls'[c]] /\ calls'[c] = Idle
    BY DEF End, Typed, TypeOK
  <2>2. CallSound(calls[c])'
    BY <2>1 DEF CallSound, Idle
  <2>. QED BY <2>1, <2>2, IdleOK, CallMoves
<1>2. ladder' \in Ladders \cup {{}} /\ staffCalls' \in 0 .. MaxStaffCalls
  BY DEF Typed, TypeOK
<1>3. apart' \in BOOLEAN
  BY DEF Typed, TypeOK
<1>. QED BY <1>1, <1>2, <1>3 DEF Typed, TypeOK

LEMMA WriteTyped ==
  ASSUME Typed, NEW c \in Calls, Write(c)
  PROVE  Typed'
<1>1. calls[c].id \in Slabs /\ Written(calls[c]) \in SlabRow
      /\ (calls[c].op = "create" => calls[c].row \in SlabRow)
  BY WrittenOK DEF Write
<1>2. PICK id \in Slabs, row \in SlabRow : slab' = [slab EXCEPT ![id] = row]
  <2>1. CASE calls[c].op = "create" /\ Exists(calls[c].id)
    BY <1>1, <2>1 DEF Write
  <2>2. CASE ~(calls[c].op = "create" /\ Exists(calls[c].id))
    BY <1>1, <2>2 DEF Write
  <2>. QED BY <2>1, <2>2
<1>3. slab' \in [Slabs -> SlabRow \cup {NoSlab}] /\ \A i \in Slabs : Exists(i) => Exists(i)'
  BY <1>2, AssumedOK DEF Typed, TypeOK, Exists
<1>4. taxInclusive' \in BOOLEAN
  BY DEF Write, Typed, TypeOK
<1>. QED BY <1>3, <1>4, EndTyped DEF Write

LEMMA CommitTyped ==
  ASSUME Typed, NEW c \in Calls, CommitImport(c)
  PROVE  Typed'
<1>1. PICK place \in Placements(calls[c].seen, calls[c].sheet.bands) :
        slab' = Imported(place, calls[c].seen, calls[c].sheet)
  BY DEF CommitImport
<1>2. \A id \in Slabs : slab'[id] \in SlabRow \/ slab'[id] = slab[id]
  BY <1>1, ImportedOK DEF CommitImport
<1>3. slab' \in [Slabs -> SlabRow \cup {NoSlab}] /\ \A i \in Slabs : Exists(i) => Exists(i)'
  <2>1. DOMAIN slab' = Slabs /\ slab' = [id \in Slabs |-> slab'[id]]
    BY <1>1 DEF Imported
  <2>. QED BY <1>2, <2>1, AssumedOK DEF Typed, TypeOK, Exists
<1>4. taxInclusive' \in BOOLEAN
  <2>1. calls[c].sheet.allIn \in BOOLEAN /\ taxInclusive \in BOOLEAN
    BY CallAt, AssumedOK DEF CommitImport, Typed, TypeOK
  <2>. QED BY <2>1 DEF CommitImport
<1>. QED BY <1>3, <1>4, EndTyped DEF CommitImport

LEMMA BulkTyped ==
  ASSUME Typed, NEW ids \in SUBSET Slabs, NEW rate \in Amounts, NEW cut \in Cuts,
         BulkUpdate(ids, rate, cut)
  PROVE  Typed'
<1>1. \A id \in Slabs : slab'[id] = slab[id] \/ (Exists(id) /\ slab'[id] \in SlabRow)
  <2>. SUFFICES ASSUME NEW id \in ids
                PROVE  Exists(id) /\ [slab[id] EXCEPT !.rate = rate, !.cut = cut, !.hand = TRUE]
                         \in SlabRow
    BY DEF BulkUpdate
  <2>1. slab[id] \in SlabRow /\ rate \in Nat /\ cut \in Nat /\ Exists(id)
    BY AssumedOK DEF BulkUpdate, Typed, TypeOK, Exists
  <2>. QED BY <2>1 DEF SlabRow
<1>2. slab' \in [Slabs -> SlabRow \cup {NoSlab}] /\ \A i \in Slabs : Exists(i) => Exists(i)'
  <2>1. slab' = [id \in Slabs |-> slab'[id]]
    BY DEF BulkUpdate
  <2>. QED BY <1>1, <2>1, AssumedOK DEF Typed, TypeOK, Exists
<1>3. calls' = calls /\ \A d \in Calls : CallSound(calls[d])'
  <2>1. calls' = calls
    BY DEF BulkUpdate
  <2>2. ASSUME NEW d \in Calls PROVE CallSound(calls[d])'
    <3>1. CallSound(calls[d]) /\ (At(d, "check") \/ At(d, "write") => calls[d].id \in Slabs)
      BY CallAt DEF Typed
    <3>. QED BY <1>2, <2>1, <3>1 DEF CallSound, At
  <2>. QED BY <2>1, <2>2
<1>4. staffCalls' \in 0 .. MaxStaffCalls
  <2>1. staffCalls < MaxStaffCalls /\ staffCalls' = staffCalls + 1
    BY DEF BulkUpdate
  <2>. QED BY <2>1, AssumedOK DEF Typed, TypeOK
<1>5. ladder' \in Ladders \cup {{}}
  BY DEF BulkUpdate, Typed, TypeOK
<1>6. apart' \in BOOLEAN /\ taxInclusive' \in BOOLEAN
  BY DEF BulkUpdate, Typed, TypeOK
<1>. QED BY <1>2, <1>3, <1>4, <1>5, <1>6 DEF Typed, TypeOK

LEMMA LadderTyped ==
  ASSUME Typed, NEW bands \in Ladders, SetMarginBands(bands)
  PROVE  Typed'
<1>1. calls' = calls /\ \A d \in Calls : CallSound(calls[d])'
  BY DEF SetMarginBands, Typed, CallSound, Exists
<1>2. staffCalls' \in 0 .. MaxStaffCalls
  BY AssumedOK DEF SetMarginBands, Typed, TypeOK
<1>3. ladder' \in Ladders \cup {{}} /\ slab' \in [Slabs -> SlabRow \cup {NoSlab}]
  BY DEF SetMarginBands, Typed, TypeOK
<1>4. apart' \in BOOLEAN /\ taxInclusive' \in BOOLEAN
  BY DEF SetMarginBands, Typed, TypeOK
<1>. QED BY <1>1, <1>2, <1>3, <1>4 DEF Typed, TypeOK

LEMMA ImportBeginsTyped ==
  ASSUME Typed, NEW c \in Calls, NEW sheet \in Sheets, BeginImport(c, sheet)
  PROVE  Typed'
<1>. DEFINE call == [op |-> "import", at |-> "plan", sheet |-> sheet]
<1>1. call \in CallRow /\ CallSound(call) /\ call.at = "plan" /\ BeginStaff(c, call)
  BY DEF CallRow, CallSound, BeginImport
<1>. HIDE DEF call
<1>. QED BY <1>1, BeginStaffTyped DEF BeginImport

LEMMA PlanTyped ==
  ASSUME Typed, NEW c \in Calls, PlanImport(c)
  PROVE  Typed'
<1>. DEFINE call == [op |-> "import", at |-> "commit", sheet |-> calls[c].sheet,
                     flag |-> taxInclusive, seen |-> slab]
<1>1. calls' = [calls EXCEPT ![c] = call]
  BY DEF PlanImport, Typed, TypeOK
<1>2. calls[c].sheet \in Sheets
  BY CallAt DEF PlanImport, Typed
<1>3. call \in CallRow /\ CallSound(call)
  BY <1>2 DEF CallRow, CallSound, PlanImport, Typed, TypeOK, Exists
<1>. HIDE DEF call
<1>. QED BY <1>1, <1>3, CallTyped DEF PlanImport

LEMMA QuoteTyped ==
  ASSUME Typed, NEW c \in Calls,
         (\E weight \in Weights : BeginQuote(c, weight)) \/ ReadSlabs(c) \/ ComputeOption(c)
           \/ Answered(c)
  PROVE  Typed'
<1>1. ASSUME NEW weight \in Weights, BeginQuote(c, weight) PROVE Typed'
  <2>. DEFINE call == [op |-> "quote", at |-> "slabs", weight |-> weight, flag |-> taxInclusive]
  <2>1. call \in CallRow /\ CallSound(call)
    BY DEF CallRow, CallSound, Typed, TypeOK
  <2>2. calls' = [calls EXCEPT ![c] = call] /\ UNCHANGED <<apart, taxInclusive, slab, ladder, staffCalls>>
    BY <1>1 DEF BeginQuote
  <2>. HIDE DEF call
  <2>. QED BY <2>1, <2>2, CallTyped
<1>2. CASE ReadSlabs(c)
  <2>1. UNCHANGED <<apart, taxInclusive, slab, ladder, staffCalls>>
    BY <1>2 DEF ReadSlabs
  <2>2. CASE End(c)
    BY <2>1, <2>2, IdleOK, CallTyped DEF End
  <2>3. CASE ~End(c)
    <3>1. PICK id \in Matching(calls[c].weight) :
            calls' = [calls EXCEPT ![c] = [op |-> "quote", at |-> "ladder",
                        weight |-> calls[c].weight, flag |-> calls[c].flag, slab |-> slab[id]]]
      BY <1>2, <2>3 DEF ReadSlabs
    <3>. DEFINE call == [op |-> "quote", at |-> "ladder", weight |-> calls[c].weight,
                         flag |-> calls[c].flag, slab |-> slab[id]]
    <3>2. calls[c].weight \in Weights /\ calls[c].flag \in BOOLEAN /\ slab[id] \in SlabRow
      BY <1>2, CallAt DEF ReadSlabs, Matching, Active, Exists, Typed, TypeOK
    <3>3. call \in CallRow /\ CallSound(call)
      BY <3>2 DEF CallRow, CallSound
    <3>. HIDE DEF call
    <3>4. calls' = [calls EXCEPT ![c] = call]
      BY <3>1 DEF call
    <3>. QED BY <2>1, <3>3, <3>4, CallTyped
  <2>. QED BY <2>2, <2>3
<1>3. CASE ComputeOption(c)
  <2>. DEFINE cut == CutFor(calls[c].slab, calls[c].weight)
              price == CalculateFinalPrice(calls[c].slab, calls[c].weight, calls[c].flag, Provider,
                                           GstPercent, cut)
              call == [op |-> "quote", at |-> "answered", weight |-> calls[c].weight,
                       flag |-> calls[c].flag, slab |-> calls[c].slab, price |-> price]
  <2>1. /\ calls[c].weight \in Weights /\ calls[c].weight \in Nat /\ calls[c].flag \in BOOLEAN
        /\ calls[c].slab \in SlabRow
    BY <1>3, CallAt, AssumedOK DEF ComputeOption, Typed
  <2>2. cut \in Nat
    BY <2>1, MarginOK DEF Typed
  <2>. HIDE DEF cut
  <2>3. price \in PriceRow
    BY <2>1, <2>2, PriceOK
  <2>4. CallSound(call)
    BY <2>2 DEF CallSound
  <2>. HIDE DEF price
  <2>5. call \in CallRow
    BY <2>1, <2>3 DEF CallRow
  <2>6. calls' = [calls EXCEPT ![c] = call] /\ UNCHANGED <<apart, taxInclusive, slab, ladder, staffCalls>>
    BY <1>3 DEF ComputeOption, cut, price
  <2>. HIDE DEF call
  <2>. QED BY <2>4, <2>5, <2>6, CallTyped
<1>4. CASE Answered(c)
  BY <1>4, IdleOK, CallTyped DEF Answered, End
<1>. QED BY <1>1, <1>2, <1>3, <1>4

LEMMA TypedStep == Typed /\ [Next]_vars => Typed'
<1>. SUFFICES ASSUME Typed, [Next]_vars PROVE Typed'
  OBVIOUS
<1>1. ASSUME NEW c \in Calls, NEW id \in Slabs, BeginCreate(c, id) \/ BeginUpdate(c, id) \/ BeginSwitch(c, id)
      PROVE Typed'
  BY <1>1, BeginCreateTyped, BeginUpdateTyped, BeginSwitchTyped
<1>2. ASSUME NEW c \in Calls, NEW sheet \in Sheets, BeginImport(c, sheet) PROVE Typed'
  BY <1>2, ImportBeginsTyped
<1>3. ASSUME NEW c \in Calls, CheckSiblings(c) \/ Write(c) \/ PlanImport(c) \/ CommitImport(c)
      PROVE Typed'
  BY <1>3, CheckTyped, WriteTyped, PlanTyped, CommitTyped
<1>4. ASSUME NEW c \in Calls,
             (\E weight \in Weights : BeginQuote(c, weight)) \/ ReadSlabs(c) \/ ComputeOption(c)
               \/ Answered(c)
      PROVE Typed'
  BY <1>4, QuoteTyped
<1>5. ASSUME NEW ids \in SUBSET Slabs, NEW rate \in Amounts, NEW cut \in Cuts,
             BulkUpdate(ids, rate, cut)
      PROVE Typed'
  BY <1>5, BulkTyped
<1>6. ASSUME NEW bands \in Ladders, SetMarginBands(bands) PROVE Typed'
  BY <1>6, LadderTyped
<1>7. CASE UNCHANGED vars
  BY <1>7 DEF vars, Typed, TypeOK, CallSound, Exists
<1>. QED BY <1>1, <1>2, <1>3, <1>4, <1>5, <1>6, <1>7 DEF Next

\* Rows and calls in flight have the columns' types, whatever overlaps.
THEOREM RatesTypeCorrect == Spec => []TypeOK
<1>1. Typed => TypeOK
  BY DEF Typed
<1>. QED BY <1>1, TypedInit, TypedStep, PTL DEF Spec

-----------------------------------------------------------------------------
(* What is quoted adds up *)

LEMMA PriceAddsUp ==
  ASSUME NEW row \in SlabRow, NEW weight \in Nat, NEW allIn \in BOOLEAN, NEW cut \in Nat,
         NEW price, price = CalculateFinalPrice(row, weight, allIn, Provider, GstPercent, cut)
  PROVE  /\ allIn => LET back == price.final - price.cut
                         figure == ResolvedRate(row, weight)
                     IN  /\ back - figure \in -1 .. 1
                         /\ (\E base \in 0 .. figure : base + Gst(base, GstPercent) = figure)
                              => back = figure
         /\ AddsUp(ChargedForPrice(price))
         /\ AddsUp(ChargedForManual(price.final, GstPercent))
<1>1. /\ price \in PriceRow /\ price.final = price.taxable + price.gst + price.cut
      /\ ResolvedRate(row, weight) \in Nat
      /\ allIn => /\ price.taxable = Rounded(100 * ResolvedRate(row, weight), 100 + GstPercent)
                  /\ price.gst = Gst(price.taxable, GstPercent)
  BY PriceOK
<1>2. /\ price.taxable \in Nat /\ price.gst \in Nat /\ price.cut \in Nat /\ price.final \in Nat
      /\ GstPercent \in 0 .. 100
  BY <1>1, AssumedOK DEF PriceRow
<1>3. ASSUME allIn
      PROVE  price.taxable + price.gst - ResolvedRate(row, weight) \in -1 .. 1
  <2>1. /\ price.taxable = Rounded(100 * ResolvedRate(row, weight), 100 + GstPercent)
        /\ price.gst = Gst(Rounded(100 * ResolvedRate(row, weight), 100 + GstPercent), GstPercent)
    BY <1>1, <1>3
  <2>. QED BY <1>1, <1>2, <2>1, OutAndBack
<1>4. allIn => price.final - price.cut - ResolvedRate(row, weight) \in -1 .. 1
  <2>1. price.final - price.cut - ResolvedRate(row, weight)
          = price.taxable + price.gst - ResolvedRate(row, weight)
    BY <1>1, <1>2
  <2>. QED BY <1>3, <2>1, Zenon
<1>5. AddsUp(ChargedForPrice(price))
  BY <1>1, <1>2, ColumnsAddUp DEF ChargedForPrice
<1>6. AddsUp(ChargedForManual(price.final, GstPercent))
  BY <1>2, ManualAddsUp
<1>7. ASSUME allIn, NEW base \in 0 .. ResolvedRate(row, weight),
             base + Gst(base, GstPercent) = ResolvedRate(row, weight)
      PROVE  price.final - price.cut = ResolvedRate(row, weight)
  <2>1. base \in Nat
    BY <1>1
  <2>2. Rounded(100 * ResolvedRate(row, weight), 100 + GstPercent) = base
    BY <1>1, <1>2, <1>7, <2>1, OutAndBackExact
  <2>3. /\ price.taxable = Rounded(100 * ResolvedRate(row, weight), 100 + GstPercent)
        /\ price.gst = Gst(price.taxable, GstPercent)
    BY <1>1, <1>7, Zenon
  <2>4. price.taxable = base /\ price.gst = Gst(base, GstPercent)
    BY <2>2, <2>3, Zenon
  <2>5. price.taxable + price.gst = ResolvedRate(row, weight)
    BY <1>7, <2>4, Zenon
  <2>6. price.final - price.cut = price.taxable + price.gst
    BY <1>1, <1>2
  <2>. QED BY <2>5, <2>6, Zenon
<1>. QED BY <1>4, <1>5, <1>6, <1>7

LEMMA QuotedAddsUp == Typed => PricesAddUp
<1>. SUFFICES ASSUME Typed, NEW c \in Calls, At(c, "answered")
              PROVE  LET price == calls[c].price
                         back == price.final - price.cut
                         figure == ResolvedRate(calls[c].slab, calls[c].weight)
                     IN
                     /\ calls[c].flag =>
                          /\ back - figure \in -1 .. 1
                          /\ (\E base \in 0 .. figure : base + Gst(base, GstPercent) = figure)
                               => back = figure
                     /\ AddsUp(ChargedForPrice(price))
                     /\ AddsUp(ChargedForManual(price.final, GstPercent))
  BY DEF PricesAddUp
<1>1. calls[c].slab \in SlabRow /\ calls[c].weight \in Nat /\ calls[c].flag \in BOOLEAN
  BY CallAt, AssumedOK DEF Typed
<1>2. PICK cut \in Nat :
        calls[c].price = CalculateFinalPrice(calls[c].slab, calls[c].weight, calls[c].flag,
                                             Provider, GstPercent, cut)
  BY DEF Typed, CallSound, At
<1>. DEFINE price == calls[c].price
            back == price.final - price.cut
            figure == ResolvedRate(calls[c].slab, calls[c].weight)
<1>3. /\ calls[c].flag =>
           /\ back - figure \in -1 .. 1
           /\ (\E base \in 0 .. figure : base + Gst(base, GstPercent) = figure) => back = figure
      /\ AddsUp(ChargedForPrice(price))
      /\ AddsUp(ChargedForManual(price.final, GstPercent))
  BY <1>1, <1>2, PriceAddsUp
<1>. QED BY <1>3

\* For every rate, percentage and weight: the columns add up, and an all-in figure comes
\* back whenever it can.
THEOREM RatesPricesAddUp == Spec => []PricesAddUp
BY TypedInit, TypedStep, QuotedAddsUp, PTL DEF Spec

-----------------------------------------------------------------------------
(* Staff in turn, imports and quotes apart.  Types are not enough: what a    *)
(* call checked before it writes must still be so when it does.              *)

Staff == {"create", "update", "switch", "import"}

OneStaffCall ==
  \A c, d \in Calls : c # d /\ calls[c].op \in Staff => calls[d].op \notin Staff

NoQuoteInImport ==
  \A c, d \in Calls : calls[c].op = "import" => calls[d].op # "quote"

WriteStillFits(c) ==
  /\ At(c, "check") \/ At(c, "write") =>
       calls[c].row = Written(calls[c]) /\ calls[c].row.hand
  /\ At(c, "write") =>
       /\ calls[c].op = "create" => ~Exists(calls[c].id)
       /\ calls[c].row.active => Fits(calls[c].id, calls[c].row)

ReadStillTrue(c) ==
  At(c, "commit") => calls[c].seen = slab /\ calls[c].flag = taxInclusive

NoneMeet == \A a, b \in Slabs : a # b /\ Active(a) /\ Active(b) => ~Meets(slab[a], slab[b])

OnItsBasis == \A id \in Slabs : Active(id) /\ ~slab[id].hand => slab[id].allIn = taxInclusive

QuoteOnItsBasis(c) ==
  /\ At(c, "slabs") => calls[c].flag = taxInclusive
  /\ At(c, "ladder") \/ At(c, "answered") =>
       (~calls[c].slab.hand => calls[c].flag = calls[c].slab.allIn)

InTurn ==
  /\ OneStaffCall /\ NoQuoteInImport /\ NoneMeet /\ OnItsBasis
  /\ \A c \in Calls : WriteStillFits(c) /\ ReadStillTrue(c) /\ QuoteOnItsBasis(c)

IInv == Typed /\ (apart => InTurn)

\* What a call does is told by the statement it is at.
LEMMA OpAt ==
  ASSUME TypeOK, NEW c \in Calls
  PROVE  /\ At(c, "write") => calls[c].op \in {"create", "update", "switch"}
         /\ At(c, "check") => calls[c].op \in {"update", "switch"}
         /\ At(c, "plan") \/ At(c, "commit") <=> calls[c].op = "import"
         /\ At(c, "slabs") \/ At(c, "ladder") \/ At(c, "answered") <=> calls[c].op = "quote"
         /\ calls[c].op \in Staff
              <=> At(c, "check") \/ At(c, "write") \/ At(c, "plan") \/ At(c, "commit")
         /\ calls[c].op \in Staff \cup {"none", "quote"}
BY DEF TypeOK, CallRow, At, Idle, Staff

LEMMA MeetsBothWays ==
  ASSUME NEW a \in SlabRow, NEW b \in SlabRow
  PROVE  Meets(a, b) <=> Meets(b, a)
BY DEF Meets, SlabRow

LEMMA InTurnInit == Init => InTurn
BY DEF Init, InTurn, OneStaffCall, NoQuoteInImport, NoneMeet, OnItsBasis, WriteStillFits,
       ReadStillTrue, QuoteOnItsBasis, At, Idle, Active, Exists, Staff

\* A step that leaves the rows and the other calls alone.
LEMMA RowsKept ==
  ASSUME IInv, apart, NEW c \in Calls, UNCHANGED <<taxInclusive, slab>>,
         \A d \in Calls \ {c} : calls'[d] = calls[d],
         calls'[c].op \in Staff => \A d \in Calls \ {c} : calls[d].op \notin Staff,
         calls'[c].op = "import" => \A d \in Calls : calls'[d].op # "quote",
         calls'[c].op = "quote" => \A d \in Calls : calls'[d].op # "import",
         WriteStillFits(c)', ReadStillTrue(c)', QuoteOnItsBasis(c)'
  PROVE  InTurn'
<1>1. OneStaffCall'
  BY DEF IInv, InTurn, OneStaffCall
<1>2. NoQuoteInImport'
  BY DEF IInv, InTurn, NoQuoteInImport
<1>3. NoneMeet' /\ OnItsBasis'
  BY DEF IInv, InTurn, NoneMeet, OnItsBasis, Active, Exists
<1>4. ASSUME NEW d \in Calls \ {c} PROVE WriteStillFits(d)' /\ ReadStillTrue(d)' /\ QuoteOnItsBasis(d)'
  <2>1. Written(calls[d])' = Written(calls[d])
    BY DEF Written, Enter
  <2>2. WriteStillFits(d)'
    BY <2>1 DEF IInv, InTurn, WriteStillFits, At, Exists, Fits, Active
  <2>3. ReadStillTrue(d)' /\ QuoteOnItsBasis(d)'
    BY DEF IInv, InTurn, ReadStillTrue, QuoteOnItsBasis, At
  <2>. QED BY <2>2, <2>3
<1>. QED BY <1>1, <1>2, <1>3, <1>4 DEF InTurn

LEMMA BeginsAlone ==
  ASSUME IInv, apart, NEW c \in Calls, NEW call \in CallRow, BeginStaff(c, call),
         call.op \in Staff
  PROVE  /\ calls'[c] = call /\ \A d \in Calls \ {c} : calls'[d] = calls[d]
         /\ \A d \in Calls \ {c} : calls[d].op \notin Staff
         /\ call.op = "import" => \A d \in Calls : calls'[d].op # "quote"
<1>1. calls'[c] = call /\ \A d \in Calls \ {c} : calls'[d] = calls[d]
  BY DEF BeginStaff, IInv, Typed, TypeOK
<1>2. ASSUME NEW d \in Calls
      PROVE  /\ calls[d].op \in {"quote", "none"}
             /\ call.op = "import" => calls[d].op = "none"
  <2>1. calls[d].op # "none" => calls[d].op \in InFlight
    BY DEF InFlight
  <2>. QED BY <2>1 DEF BeginStaff
<1>. QED BY <1>1, <1>2 DEF Staff

LEMMA CreateInTurn ==
  ASSUME IInv, apart, NEW c \in Calls, NEW id \in Slabs, BeginCreate(c, id)
  PROVE  InTurn'
<1>1. PICK r \in Ranges, rate \in Amounts, cut \in Cuts :
        LET row == [from |-> r.from, to |-> r.to, rate |-> rate, byWeight |-> FALSE, cut |-> cut,
                    active |-> TRUE, hand |-> TRUE, allIn |-> FALSE]
        IN  /\ Fits(id, row)
            /\ BeginStaff(c, [op |-> "create", at |-> "write", id |-> id, row |-> row, form |-> {}])
  BY DEF BeginCreate
<1>. DEFINE row == [from |-> r.from, to |-> r.to, rate |-> rate, byWeight |-> FALSE, cut |-> cut,
                    active |-> TRUE, hand |-> TRUE, allIn |-> FALSE]
            call == [op |-> "create", at |-> "write", id |-> id, row |-> row, form |-> {}]
<1>2. row \in SlabRow /\ row.hand
  BY AssumedOK DEF SlabRow, Range
<1>3. Fits(id, row) /\ BeginStaff(c, call)
  BY <1>1
<1>. HIDE DEF row
<1>4. call \in CallRow
  BY <1>2 DEF CallRow
<1>5. /\ calls'[c] = call /\ \A d \in Calls \ {c} : calls'[d] = calls[d]
      /\ \A d \in Calls \ {c} : calls[d].op \notin Staff
  BY <1>3, <1>4, BeginsAlone DEF Staff
<1>6. UNCHANGED <<taxInclusive, slab>> /\ ~Exists(id)
  BY DEF BeginCreate
<1>7. WriteStillFits(c)' /\ ReadStillTrue(c)' /\ QuoteOnItsBasis(c)'
  BY <1>2, <1>3, <1>5, <1>6
  DEF WriteStillFits, ReadStillTrue, QuoteOnItsBasis, At, Written, Exists, Fits, Active
<1>. QED BY <1>5, <1>6, <1>7, RowsKept

LEMMA UpdateInTurn ==
  ASSUME IInv, apart, NEW c \in Calls, NEW id \in Slabs, BeginUpdate(c, id)
  PROVE  InTurn'
<1>1. PICK form \in SUBSET {"from", "to", "rate"}, r \in Ranges, rate \in Amounts :
        BeginStaff(c, [op |-> "update", at |-> "check", id |-> id,
                       row |-> Enter(form, slab[id], r, rate), form |-> form])
  BY DEF BeginUpdate
<1>. DEFINE row == Enter(form, slab[id], r, rate)
            call == [op |-> "update", at |-> "check", id |-> id, row |-> row, form |-> form]
<1>2. slab[id] \in SlabRow /\ r.from \in Nat /\ r.to \in Nat /\ rate \in Nat
  BY AssumedOK DEF BeginUpdate, Exists, IInv, Typed, TypeOK, Range
<1>3. row \in SlabRow
  BY <1>2, EnterOK
<1>4. row.hand /\ row = Enter(form, slab[id], row, row.rate)
  BY <1>2 DEF Enter, SlabRow
<1>5. BeginStaff(c, call)
  BY <1>1
<1>. HIDE DEF row
<1>6. call \in CallRow
  BY <1>3 DEF CallRow
<1>7. /\ calls'[c] = call /\ \A d \in Calls \ {c} : calls'[d] = calls[d]
      /\ \A d \in Calls \ {c} : calls[d].op \notin Staff
  BY <1>5, <1>6, BeginsAlone DEF Staff
<1>8. UNCHANGED <<taxInclusive, slab>>
  BY DEF BeginUpdate
<1>9. Written(calls[c])' = Enter(form, slab[id], row, row.rate)
  BY <1>7, <1>8 DEF Written, Enter
<1>10. WriteStillFits(c)'
  BY <1>4, <1>7, <1>9 DEF WriteStillFits, At
<1>11. ReadStillTrue(c)' /\ QuoteOnItsBasis(c)'
  BY <1>7 DEF ReadStillTrue, QuoteOnItsBasis, At
<1>. QED BY <1>7, <1>8, <1>10, <1>11, RowsKept

LEMMA SwitchInTurn ==
  ASSUME IInv, apart, NEW c \in Calls, NEW id \in Slabs, BeginSwitch(c, id)
  PROVE  InTurn'
<1>. DEFINE row == [slab[id] EXCEPT !.active = ~slab[id].active, !.hand = TRUE]
            at == IF row.active THEN "check" ELSE "write"
            call == [op |-> "switch", at |-> at, id |-> id, row |-> row, form |-> {}]
<1>1. BeginStaff(c, call)
  BY DEF BeginSwitch
<1>2. slab[id] \in SlabRow
  BY DEF BeginSwitch, Exists, IInv, Typed, TypeOK
<1>3. row \in SlabRow /\ row.hand
      /\ row = [slab[id] EXCEPT !.active = row.active, !.hand = TRUE]
  BY <1>2 DEF SlabRow
<1>4. at \in {"check", "write"} /\ (at = "write" => ~row.active)
  OBVIOUS
<1>. HIDE DEF row, at
<1>5. call \in CallRow
  BY <1>3, <1>4 DEF CallRow
<1>6. /\ calls'[c] = call /\ \A d \in Calls \ {c} : calls'[d] = calls[d]
      /\ \A d \in Calls \ {c} : calls[d].op \notin Staff
  BY <1>1, <1>5, BeginsAlone DEF Staff
<1>7. UNCHANGED <<taxInclusive, slab>>
  BY DEF BeginSwitch
<1>8. Written(calls[c])' = [slab[id] EXCEPT !.active = row.active, !.hand = TRUE]
  BY <1>6, <1>7 DEF Written
<1>9. WriteStillFits(c)'
  BY <1>3, <1>4, <1>6, <1>8 DEF WriteStillFits, At
<1>10. ReadStillTrue(c)' /\ QuoteOnItsBasis(c)'
  BY <1>4, <1>6 DEF ReadStillTrue, QuoteOnItsBasis, At
<1>. QED BY <1>6, <1>7, <1>9, <1>10, RowsKept

LEMMA ImportBeginsInTurn ==
  ASSUME IInv, apart, NEW c \in Calls, NEW sheet \in Sheets, BeginImport(c, sheet)
  PROVE  InTurn'
<1>. DEFINE call == [op |-> "import", at |-> "plan", sheet |-> sheet]
<1>1. call \in CallRow
  BY DEF CallRow
<1>2. /\ calls'[c] = call /\ \A d \in Calls \ {c} : calls'[d] = calls[d]
      /\ \A d \in Calls \ {c} : calls[d].op \notin Staff
      /\ \A d \in Calls : calls'[d].op # "quote"
  BY <1>1, BeginsAlone DEF Staff, BeginImport
<1>3. WriteStillFits(c)' /\ ReadStillTrue(c)' /\ QuoteOnItsBasis(c)'
  BY <1>2 DEF WriteStillFits, ReadStillTrue, QuoteOnItsBasis, At
<1>. QED BY <1>2, <1>3, RowsKept DEF BeginImport

LEMMA PlanInTurn ==
  ASSUME IInv, apart, NEW c \in Calls, PlanImport(c)
  PROVE  InTurn'
<1>1. /\ calls'[c] = [op |-> "import", at |-> "commit", sheet |-> calls[c].sheet,
                       flag |-> taxInclusive, seen |-> slab]
      /\ \A d \in Calls \ {c} : calls'[d] = calls[d]
      /\ UNCHANGED <<taxInclusive, slab>>
  BY DEF PlanImport, IInv, Typed, TypeOK
<1>2. calls[c].op = "import"
  BY OpAt DEF PlanImport, IInv, Typed
<1>3. /\ \A d \in Calls \ {c} : calls[d].op \notin Staff
      /\ \A d \in Calls : calls'[d].op # "quote"
  BY <1>1, <1>2 DEF IInv, InTurn, OneStaffCall, NoQuoteInImport, Staff
<1>4. WriteStillFits(c)' /\ ReadStillTrue(c)' /\ QuoteOnItsBasis(c)'
  BY <1>1 DEF WriteStillFits, ReadStillTrue, QuoteOnItsBasis, At
<1>. QED BY <1>1, <1>3, <1>4, RowsKept

\* A quote's steps.
LEMMA QuoteInTurn ==
  ASSUME IInv, apart, NEW c \in Calls,
         (\E weight \in Weights : BeginQuote(c, weight)) \/ ReadSlabs(c) \/ ComputeOption(c)
           \/ Answered(c)
  PROVE  InTurn'
<1>0. calls \in [Calls -> CallRow]
  BY DEF IInv, Typed, TypeOK
<1>1. /\ \A d \in Calls \ {c} : calls'[d] = calls[d]
      /\ UNCHANGED <<taxInclusive, slab>>
      /\ calls'[c].op \in {"quote", "none"} /\ calls'[c].at \notin {"check", "write", "commit"}
  <2>1. CASE \E weight \in Weights : BeginQuote(c, weight)
    BY <1>0, <2>1 DEF BeginQuote
  <2>2. CASE ReadSlabs(c)
    <3>1. CASE End(c)
      BY <1>0, <2>2, <3>1 DEF ReadSlabs, End, Idle
    <3>2. CASE ~End(c)
      BY <1>0, <2>2, <3>2 DEF ReadSlabs
    <3>. QED BY <3>1, <3>2
  <2>3. CASE ComputeOption(c)
    BY <1>0, <2>3 DEF ComputeOption
  <2>4. CASE Answered(c)
    BY <1>0, <2>4 DEF Answered, End, Idle
  <2>. QED BY <2>1, <2>2, <2>3, <2>4
<1>2. \A d \in Calls : calls[d].op # "import"
  <2>1. CASE \E weight \in Weights : BeginQuote(c, weight)
    BY <2>1 DEF BeginQuote, InFlight
  <2>2. CASE calls[c].op = "quote"
    BY <2>2 DEF IInv, InTurn, NoQuoteInImport
  <2>. QED BY <2>1, <2>2, OpAt DEF ReadSlabs, ComputeOption, Answered, IInv, Typed
<1>3. WriteStillFits(c)' /\ ReadStillTrue(c)'
  BY <1>1 DEF WriteStillFits, ReadStillTrue, At
<1>4. QuoteOnItsBasis(c)'
  <2>1. ASSUME NEW weight \in Weights, BeginQuote(c, weight) PROVE QuoteOnItsBasis(c)'
    BY <2>1 DEF BeginQuote, QuoteOnItsBasis, At, IInv, Typed, TypeOK
  <2>2. CASE ReadSlabs(c)
    <3>1. CASE End(c)
      BY <3>1 DEF End, Idle, QuoteOnItsBasis, At, IInv, Typed, TypeOK
    <3>2. CASE ~End(c)
      <4>1. PICK id \in Matching(calls[c].weight) :
              calls' = [calls EXCEPT ![c] = [op |-> "quote", at |-> "ladder",
                          weight |-> calls[c].weight, flag |-> calls[c].flag, slab |-> slab[id]]]
        BY <2>2, <3>2 DEF ReadSlabs
      <4>2. id \in Slabs /\ Active(id) /\ calls[c].flag = taxInclusive
        BY <2>2 DEF Matching, ReadSlabs, IInv, InTurn, QuoteOnItsBasis
      <4>3. ~slab[id].hand => calls[c].flag = slab[id].allIn
        BY <4>2 DEF IInv, InTurn, OnItsBasis
      <4>. QED BY <4>1, <4>3 DEF QuoteOnItsBasis, At, IInv, Typed, TypeOK
    <3>. QED BY <3>1, <3>2
  <2>3. CASE ComputeOption(c)
    <3>1. ~calls[c].slab.hand => calls[c].flag = calls[c].slab.allIn
      BY <2>3 DEF ComputeOption, IInv, InTurn, QuoteOnItsBasis
    <3>. QED BY <2>3, <3>1 DEF ComputeOption, QuoteOnItsBasis, At, IInv, Typed, TypeOK
  <2>4. CASE Answered(c)
    BY <2>4 DEF Answered, End, Idle, QuoteOnItsBasis, At, IInv, Typed, TypeOK
  <2>. QED BY <2>1, <2>2, <2>3, <2>4
<1>. QED BY <1>1, <1>2, <1>3, <1>4, RowsKept DEF Staff

-----------------------------------------------------------------------------
(* Writes *)

\* A staff call that ends leaves nobody who could write.
LEMMA EndsAlone ==
  ASSUME IInv, apart, NEW c \in Calls, calls[c].op \in Staff, End(c), NoneMeet', OnItsBasis',
         \A d \in Calls \ {c} : QuoteOnItsBasis(d)'
  PROVE  InTurn'
<1>1. calls'[c] = Idle /\ \A d \in Calls \ {c} : calls'[d] = calls[d]
  BY DEF End, IInv, Typed, TypeOK
<1>2. \A d \in Calls \ {c} : calls[d].op \notin Staff
  BY DEF IInv, InTurn, OneStaffCall
<1>3. OneStaffCall' /\ NoQuoteInImport'
  BY <1>1, <1>2 DEF IInv, InTurn, OneStaffCall, NoQuoteInImport, Idle, Staff
<1>4. \A d \in Calls : WriteStillFits(d)' /\ ReadStillTrue(d)'
  BY <1>1, <1>2, OpAt DEF IInv, Typed, WriteStillFits, ReadStillTrue, At, Idle
<1>5. QuoteOnItsBasis(c)'
  BY <1>1 DEF QuoteOnItsBasis, At, Idle
<1>. QED BY <1>3, <1>4, <1>5 DEF InTurn

LEMMA CheckInTurn ==
  ASSUME IInv, apart, NEW c \in Calls, CheckSiblings(c)
  PROVE  InTurn'
<1>1. UNCHANGED <<taxInclusive, slab>> /\ At(c, "check")
  BY DEF CheckSiblings
<1>2. calls[c].op \in {"update", "switch"}
  BY <1>1, OpAt DEF IInv, Typed
<1>3. CASE End(c)
  <2>1. NoneMeet' /\ OnItsBasis'
    BY <1>1 DEF IInv, InTurn, NoneMeet, OnItsBasis, Active, Exists
  <2>2. \A d \in Calls \ {c} : QuoteOnItsBasis(d)'
    BY <1>1, <1>3 DEF End, IInv, Typed, TypeOK, InTurn, QuoteOnItsBasis, At
  <2>. QED BY <1>2, <1>3, <2>1, <2>2, EndsAlone DEF Staff
<1>4. CASE ~End(c)
  <2>1. /\ calls'[c] = [calls[c] EXCEPT !.at = "write"]
        /\ \A d \in Calls \ {c} : calls'[d] = calls[d]
        /\ Fits(calls[c].id, calls[c].row)
    BY <1>4 DEF CheckSiblings, IInv, Typed, TypeOK
  <2>2. calls[c] \in [op : {"update", "switch"}, at : {"check"}, id : Slabs, row : SlabRow,
                      form : SUBSET {"from", "to", "rate"}]
    BY <1>1, CallAt DEF IInv, Typed
  <2>3. /\ calls'[c].op = calls[c].op /\ calls'[c].at = "write" /\ calls'[c].id = calls[c].id
        /\ calls'[c].row = calls[c].row /\ calls'[c].form = calls[c].form
    BY <2>1, <2>2
  <2>4. calls[c].row = Written(calls[c]) /\ calls[c].row.hand
    BY <1>1 DEF IInv, InTurn, WriteStillFits
  <2>5. Written(calls[c])' = Written(calls[c])
    BY <1>1, <2>3 DEF Written, Enter
  <2>6. Fits(calls[c].id, calls[c].row)'
    BY <1>1, <2>1, <2>3 DEF Fits, Active, Exists
  <2>7. WriteStillFits(c)'
    BY <1>2, <2>3, <2>4, <2>5, <2>6 DEF WriteStillFits, At
  <2>8. ReadStillTrue(c)' /\ QuoteOnItsBasis(c)'
    BY <2>3 DEF ReadStillTrue, QuoteOnItsBasis, At
  <2>9. \A d \in Calls \ {c} : calls[d].op \notin Staff
    BY <1>2 DEF IInv, InTurn, OneStaffCall, Staff
  <2>. QED BY <1>1, <1>2, <2>1, <2>3, <2>7, <2>8, <2>9, RowsKept
<1>. QED BY <1>3, <1>4

LEMMA WriteInTurn ==
  ASSUME IInv, apart, NEW c \in Calls, Write(c)
  PROVE  InTurn'
<1>. DEFINE id == calls[c].id
            row == calls[c].row
<1>1. /\ id \in Slabs /\ row \in SlabRow /\ row.hand
      /\ slab' = [slab EXCEPT ![id] = row]
      /\ row.active => Fits(id, row)
  BY WrittenOK DEF Write, IInv, Typed, InTurn, WriteStillFits
<1>2. calls[c].op \in Staff
  BY OpAt DEF Write, IInv, Typed
<1>3. slab'[id] = row /\ \A other \in Slabs \ {id} : slab'[other] = slab[other]
  BY <1>1 DEF IInv, Typed, TypeOK
<1>. HIDE DEF id, row
<1>4. ASSUME NEW a \in Slabs, NEW b \in Slabs, a # b, Active(a)', Active(b)'
      PROVE  ~Meets(slab'[a], slab'[b])
  <2>1. CASE a = id
    <3>1. slab'[a] = row /\ slab'[b] = slab[b] /\ row.active /\ Active(b)
      BY <1>3, <1>4, <2>1 DEF Active, Exists
    <3>. QED BY <1>1, <1>4, <2>1, <3>1 DEF Fits
  <2>2. CASE b = id
    <3>1. slab'[b] = row /\ slab'[a] = slab[a] /\ row.active /\ Active(a)
      BY <1>3, <1>4, <2>2 DEF Active, Exists
    <3>2. ~Meets(row, slab[a])
      BY <1>1, <1>4, <2>2, <3>1 DEF Fits
    <3>3. slab[a] \in SlabRow
      BY <3>1 DEF Active, Exists, IInv, Typed, TypeOK
    <3>. QED BY <1>1, <3>1, <3>2, <3>3, MeetsBothWays
  <2>3. CASE a # id /\ b # id
    BY <1>3, <1>4, <2>3 DEF IInv, InTurn, NoneMeet, Active, Exists
  <2>. QED BY <2>1, <2>2, <2>3
<1>5. NoneMeet'
  BY <1>4 DEF NoneMeet
<1>6. OnItsBasis'
  BY <1>1, <1>3 DEF Write, IInv, InTurn, OnItsBasis, Active, Exists
<1>7. \A d \in Calls \ {c} : QuoteOnItsBasis(d)'
  BY DEF Write, End, IInv, Typed, TypeOK, InTurn, QuoteOnItsBasis, At
<1>. QED BY <1>2, <1>5, <1>6, <1>7, EndsAlone DEF Write

LEMMA BulkInTurn ==
  ASSUME IInv, apart, NEW ids \in SUBSET Slabs, NEW rate \in Amounts, NEW cut \in Cuts,
         BulkUpdate(ids, rate, cut)
  PROVE  InTurn'
<1>1. ASSUME NEW id \in Slabs
      PROVE  /\ Active(id)' <=> Active(id)
             /\ Active(id) => /\ slab'[id].from = slab[id].from /\ slab'[id].to = slab[id].to
                              /\ slab'[id].hand \/ slab'[id] = slab[id]
  <2>1. CASE id \in ids
    <3>1. slab[id] \in SlabRow
      BY <2>1 DEF BulkUpdate, Exists, IInv, Typed, TypeOK
    <3>2. slab'[id] = [slab[id] EXCEPT !.rate = rate, !.cut = cut, !.hand = TRUE]
      BY <2>1 DEF BulkUpdate
    <3>3. slab'[id] \in SlabRow
      BY <3>1, <3>2, AssumedOK DEF SlabRow
    <3>. QED BY <3>1, <3>2, <3>3, AssumedOK DEF Active, Exists, SlabRow
  <2>2. CASE id \notin ids
    BY <2>2 DEF BulkUpdate, Active, Exists
  <2>. QED BY <2>1, <2>2
<1>2. NoneMeet'
  BY <1>1 DEF IInv, InTurn, NoneMeet, Meets
<1>3. OnItsBasis'
  BY <1>1 DEF IInv, InTurn, OnItsBasis, BulkUpdate
<1>4. ASSUME NEW d \in Calls
      PROVE  calls'[d] = calls[d] /\ calls[d].op \notin Staff
  <2>1. calls[d].op # "none" => calls[d].op \in InFlight
    BY DEF InFlight
  <2>. QED BY <2>1 DEF BulkUpdate, Staff
<1>5. OneStaffCall' /\ NoQuoteInImport'
  BY <1>4 DEF OneStaffCall, NoQuoteInImport, Staff
<1>6. \A d \in Calls : WriteStillFits(d)' /\ ReadStillTrue(d)'
  BY <1>4, OpAt DEF IInv, Typed, WriteStillFits, ReadStillTrue, At
<1>7. \A d \in Calls : QuoteOnItsBasis(d)'
  BY <1>4 DEF BulkUpdate, IInv, InTurn, QuoteOnItsBasis, At
<1>. QED BY <1>2, <1>3, <1>5, <1>6, <1>7 DEF InTurn

-----------------------------------------------------------------------------
(* An import whose rows are still as it read them *)

\* The row that a band is given.
LEMMA BandPlaced ==
  ASSUME Typed, NEW c \in Calls, At(c, "commit"), calls[c].seen = slab,
         NEW place \in Placements(calls[c].seen, calls[c].sheet.bands),
         NEW band \in calls[c].sheet.bands
  PROVE  LET row == Imported(place, calls[c].seen, calls[c].sheet)[place[band]] IN
         /\ place[band] \in Slabs /\ row \in SlabRow
         /\ row.active /\ ~row.hand /\ row.allIn = calls[c].sheet.allIn
         /\ Priced(row) = Priced(band)
         /\ Exists(place[band]) => row.cut = slab[place[band]].cut
<1>. DEFINE sheet == calls[c].sheet
            id == place[band]
            row == Imported(place, slab, sheet)[id]
<1>1. sheet \in [allIn : BOOLEAN, bands : SUBSET Band]
  BY CallAt, AssumedOK DEF Typed, At
<1>2. place \in [sheet.bands -> Slabs] /\ \A a, b \in sheet.bands : place[a] = place[b] => a = b
  BY DEF Placements
<1>3. \/ SameRange(slab, id, band)
      \/ ~Exists(id)
  BY DEF Placements
<1>4. id \in Slabs /\ band \in Band
  BY <1>1, <1>2
<1>5. row = Placed(slab[id], slab[id], band, sheet.allIn)
  <2>1. (CHOOSE b \in sheet.bands : place[b] = id) = band
    BY <1>2
  <2>. QED BY <1>4, <2>1 DEF Imported
<1>. HIDE DEF sheet, id, row
<1>6. CASE slab[id] = NoSlab
  <2>1. row = Fresh(band, sheet.allIn)
    BY <1>5, <1>6 DEF Placed
  <2>2. /\ row \in SlabRow /\ row.active /\ ~row.hand /\ row.allIn = sheet.allIn
        /\ Priced(row) = Priced(band)
    BY <1>1, <1>4, <2>1 DEF Fresh, SlabRow, Band, Priced
  <2>. QED BY <1>4, <1>6, <2>2 DEF Exists, sheet, id, row
<1>7. CASE slab[id] # NoSlab
  <2>1. slab[id] \in SlabRow /\ slab[id].from = band.from /\ slab[id].to = band.to
    BY <1>3, <1>4, <1>7 DEF Typed, TypeOK, SameRange, RangeOf, Exists
  <2>2. CASE Same(slab[id], band)
    <3>1. row = [slab[id] EXCEPT !.hand = FALSE, !.allIn = sheet.allIn]
      BY <1>5, <1>7, <2>2 DEF Placed
    <3>2. /\ row \in SlabRow /\ row.active /\ ~row.hand /\ row.allIn = sheet.allIn
          /\ Priced(row) = Priced(band) /\ row.cut = slab[id].cut
      BY <1>1, <2>1, <2>2, <3>1 DEF Same, SlabRow, Priced
    <3>. QED BY <1>4, <3>2 DEF sheet, id, row
  <2>3. CASE ~Same(slab[id], band)
    <3>1. row = [slab[id] EXCEPT !.rate = band.rate, !.byWeight = band.byWeight, !.active = TRUE,
                                 !.hand = FALSE, !.allIn = sheet.allIn]
      BY <1>5, <1>7, <2>3 DEF Placed
    <3>2. /\ row \in SlabRow /\ row.active /\ ~row.hand /\ row.allIn = sheet.allIn
          /\ Priced(row) = Priced(band) /\ row.cut = slab[id].cut
      BY <1>1, <1>4, <2>1, <3>1 DEF SlabRow, Priced, Band
    <3>. QED BY <1>4, <3>2 DEF sheet, id, row
  <2>. QED BY <2>2, <2>3
<1>. QED BY <1>6, <1>7

\* A row that no band is given ends up inactive, its margin as it was.
LEMMA NotPlaced ==
  ASSUME Typed, NEW c \in Calls, At(c, "commit"), calls[c].seen = slab,
         NEW place, NEW id \in Slabs, \A b \in calls[c].sheet.bands : place[b] # id
  PROVE  LET row == Imported(place, calls[c].seen, calls[c].sheet)[id] IN
         /\ row = NoSlab \/ ~row.active
         /\ Exists(id) => row # NoSlab /\ row.cut = slab[id].cut
<1>1. Imported(place, slab, calls[c].sheet)[id]
        = IF slab[id] # NoSlab /\ slab[id].active THEN [slab[id] EXCEPT !.active = FALSE]
          ELSE slab[id]
  BY DEF Imported
<1>2. slab[id] # NoSlab => slab[id] \in SlabRow
  BY DEF Typed, TypeOK
<1>3. slab[id] # NoSlab => /\ [slab[id] EXCEPT !.active = FALSE] \in SlabRow
                           /\ ~[slab[id] EXCEPT !.active = FALSE].active
                           /\ [slab[id] EXCEPT !.active = FALSE].cut = slab[id].cut
  BY <1>2 DEF SlabRow
<1>. QED BY <1>1, <1>2, <1>3, AssumedOK DEF Exists

LEMMA CommitInTurn ==
  ASSUME IInv, apart, NEW c \in Calls, CommitImport(c)
  PROVE  InTurn'
<1>1. PICK place \in Placements(calls[c].seen, calls[c].sheet.bands) :
        slab' = Imported(place, calls[c].seen, calls[c].sheet)
  BY DEF CommitImport
<1>2. /\ Typed /\ At(c, "commit") /\ calls[c].seen = slab
      /\ taxInclusive' = calls[c].sheet.allIn /\ End(c)
  <2>1. Typed /\ At(c, "commit") /\ calls[c].seen = slab /\ calls[c].flag = taxInclusive
    BY DEF CommitImport, IInv, InTurn, ReadStillTrue
  <2>2. taxInclusive' = calls[c].sheet.allIn
    BY <2>1, Zenon DEF CommitImport
  <2>. QED BY <2>1, <2>2 DEF CommitImport
<1>3. calls[c].op = "import"
  BY <1>2, OpAt DEF Typed
<1>4. ASSUME NEW id \in Slabs, Active(id)'
      PROVE  \E band \in calls[c].sheet.bands : place[band] = id
  <2>. SUFFICES ASSUME \A b \in calls[c].sheet.bands : place[b] # id PROVE FALSE
    OBVIOUS
  <2>1. slab'[id] = NoSlab \/ ~slab'[id].active
    BY <1>1, <1>2, NotPlaced
  <2>. QED BY <1>4, <2>1 DEF Active, Exists
<1>5. OnItsBasis'
  <2>. SUFFICES ASSUME NEW id \in Slabs, Active(id)' PROVE slab'[id].allIn = taxInclusive'
    BY DEF OnItsBasis
  <2>1. PICK band \in calls[c].sheet.bands : place[band] = id
    BY <1>4
  <2>. QED BY <1>1, <1>2, <2>1, BandPlaced
<1>6. NoneMeet'
  <2>. SUFFICES ASSUME NEW a \in Slabs, NEW b \in Slabs, a # b, Active(a)', Active(b)'
                PROVE  ~Meets(slab'[a], slab'[b])
    BY DEF NoneMeet
  <2>1. PICK band \in calls[c].sheet.bands : place[band] = a
    BY <1>4
  <2>2. PICK other \in calls[c].sheet.bands : place[other] = b
    BY <1>4
  <2>3. Priced(slab'[a]) = Priced(band)
    BY <1>1, <1>2, <2>1, BandPlaced
  <2>4. Priced(slab'[b]) = Priced(other)
    BY <1>1, <1>2, <2>2, BandPlaced
  <2>5. ~Meets(band, other)
    <3>1. Disjoint(calls[c].sheet.bands)
      BY <1>2, CallAt, AssumedOK DEF Typed
    <3>. QED BY <2>1, <2>2, <3>1 DEF Disjoint
  <2>6. /\ slab'[a].from = band.from /\ slab'[a].to = band.to
        /\ slab'[b].from = other.from /\ slab'[b].to = other.to
    BY <2>3, <2>4 DEF Priced
  <2>. QED BY <2>5, <2>6 DEF Meets
<1>7. \A d \in Calls \ {c} : QuoteOnItsBasis(d)'
  <2>1. \A d \in Calls : calls[d].op # "quote"
    BY <1>3 DEF IInv, InTurn, NoQuoteInImport
  <2>2. \A d \in Calls \ {c} : calls'[d] = calls[d]
    BY <1>2 DEF End, Typed, TypeOK
  <2>. QED BY <1>2, <2>1, <2>2, OpAt DEF Typed, QuoteOnItsBasis, At
<1>. QED BY <1>2, <1>3, <1>5, <1>6, <1>7, EndsAlone DEF Staff

LEMMA IInvInit == Init => IInv
BY TypedInit, InTurnInit DEF IInv

LEMMA IInvStep == IInv /\ [Next]_vars => IInv'
<1>. SUFFICES ASSUME IInv, [Next]_vars PROVE IInv'
  OBVIOUS
<1>1. Typed'
  BY TypedStep DEF IInv
<1>2. apart' = apart
  BY DEF Next, vars, BeginCreate, BeginUpdate, BeginSwitch, BeginImport, BeginQuote,
         CheckSiblings, Write, PlanImport, CommitImport, ReadSlabs, ComputeOption, Answered, BulkUpdate, SetMarginBands
<1>3. SUFFICES ASSUME apart PROVE InTurn'
  BY <1>1, <1>2 DEF IInv
<1>4. ASSUME NEW c \in Calls, NEW id \in Slabs, BeginCreate(c, id) \/ BeginUpdate(c, id) \/ BeginSwitch(c, id)
      PROVE InTurn'
  BY <1>3, <1>4, CreateInTurn, UpdateInTurn, SwitchInTurn
<1>5. ASSUME NEW c \in Calls, NEW sheet \in Sheets, BeginImport(c, sheet) PROVE InTurn'
  BY <1>3, <1>5, ImportBeginsInTurn
<1>6. ASSUME NEW c \in Calls, CheckSiblings(c) \/ Write(c) \/ PlanImport(c) \/ CommitImport(c)
      PROVE InTurn'
  BY <1>3, <1>6, CheckInTurn, WriteInTurn, PlanInTurn, CommitInTurn
<1>7. ASSUME NEW c \in Calls,
             (\E weight \in Weights : BeginQuote(c, weight)) \/ ReadSlabs(c) \/ ComputeOption(c)
               \/ Answered(c)
      PROVE InTurn'
  BY <1>3, <1>7, QuoteInTurn
<1>8. ASSUME NEW ids \in SUBSET Slabs, NEW rate \in Amounts, NEW cut \in Cuts,
             BulkUpdate(ids, rate, cut)
      PROVE InTurn'
  BY <1>3, <1>8, BulkInTurn
<1>9. CASE calls' = calls /\ slab' = slab /\ taxInclusive' = taxInclusive
  BY <1>3, <1>9 DEF IInv, InTurn, OneStaffCall, NoQuoteInImport, NoneMeet, OnItsBasis,
     WriteStillFits, ReadStillTrue, QuoteOnItsBasis, At, Written, Enter, Exists, Fits, Active
<1>10. ASSUME NEW bands \in Ladders, SetMarginBands(bands) PROVE InTurn'
  BY <1>9, <1>10 DEF SetMarginBands
<1>11. CASE UNCHANGED vars
  BY <1>9, <1>11 DEF vars
<1>. QED BY <1>4, <1>5, <1>6, <1>7, <1>8, <1>10, <1>11 DEF Next

\* Staff's calls apart, no weight is priced by two slabs.
THEOREM RatesOneSlabPerWeight == Spec => []OneSlabPerWeight
<1>1. IInv => OneSlabPerWeight
  <2>. SUFFICES ASSUME IInv, apart, NEW a \in Slabs, NEW b \in Slabs, a # b, Active(a), Active(b),
                       NEW weight \in slab[a].from .. slab[a].to, Covers(slab[b], weight)
                PROVE  FALSE
    BY DEF OneSlabPerWeight
  <2>1. slab[a] \in SlabRow /\ slab[b] \in SlabRow
    BY DEF IInv, Typed, TypeOK, Active, Exists
  <2>2. Meets(slab[a], slab[b])
    BY <2>1 DEF Covers, Meets, SlabRow
  <2>. QED BY <2>2 DEF IInv, InTurn, NoneMeet
<1>. QED BY <1>1, IInvInit, IInvStep, PTL DEF Spec

\* Imports and quotes apart, a sheet's rate is priced as the figure it is.
THEOREM RatesQuotedOnTheirBasis == Spec => []QuotedOnItsBasis
<1>1. IInv => QuotedOnItsBasis
  BY DEF IInv, InTurn, QuoteOnItsBasis, QuotedOnItsBasis
<1>. QED BY <1>1, IInvInit, IInvStep, PTL DEF Spec

-----------------------------------------------------------------------------
(* The whole sheet, and nothing but the sheet *)

\* Only an import's own commit ends it.
LEMMA CommitEnds ==
  ASSUME Typed, [Next]_vars, NEW c \in Calls, At(c, "commit"), calls'[c] = Idle
  PROVE  CommitImport(c)
<1>1. calls[c].at = "commit" /\ calls[c] # Idle /\ calls' # calls
  BY DEF At, Idle
<1>2. ASSUME NEW d \in Calls, d # c, NEW call, calls' = [calls EXCEPT ![d] = call] PROVE FALSE
  BY <1>1, <1>2 DEF Typed, TypeOK
<1>3. ASSUME NEW d \in Calls, NEW id \in Slabs, BeginCreate(d, id) \/ BeginUpdate(d, id) \/ BeginSwitch(d, id)
      PROVE FALSE
  BY <1>1, <1>2, <1>3 DEF BeginCreate, BeginUpdate, BeginSwitch, BeginStaff
<1>4. ASSUME NEW d \in Calls, NEW sheet \in Sheets, BeginImport(d, sheet) PROVE FALSE
  BY <1>1, <1>2, <1>4 DEF BeginImport, BeginStaff
<1>5. ASSUME NEW d \in Calls, NEW weight \in Weights, BeginQuote(d, weight) PROVE FALSE
  BY <1>1, <1>2, <1>5 DEF BeginQuote
<1>6. ASSUME NEW d \in Calls,
             CheckSiblings(d) \/ Write(d) \/ PlanImport(d) \/ ReadSlabs(d) \/ ComputeOption(d)
               \/ Answered(d)
      PROVE FALSE
  <2>1. d # c
    BY <1>1, <1>6 DEF CheckSiblings, Write, PlanImport, ReadSlabs, ComputeOption, Answered, At
  <2>2. \E call : calls' = [calls EXCEPT ![d] = call]
    BY <1>6 DEF CheckSiblings, Write, PlanImport, ReadSlabs, ComputeOption, Answered, End
  <2>. QED BY <1>2, <2>1, <2>2
<1>7. ASSUME NEW ids \in SUBSET Slabs, NEW rate \in Amounts, NEW cut \in Cuts,
             BulkUpdate(ids, rate, cut)
      PROVE FALSE
  BY <1>1, <1>7 DEF BulkUpdate
<1>8. ASSUME NEW bands \in Ladders, SetMarginBands(bands) PROVE FALSE
  BY <1>1, <1>8 DEF SetMarginBands
<1>9. ASSUME NEW d \in Calls, CommitImport(d) PROVE CommitImport(c)
  BY <1>2, <1>9 DEF CommitImport, End
<1>10. ~UNCHANGED vars
  BY <1>1 DEF vars
<1>. QED BY <1>3, <1>4, <1>5, <1>6, <1>7, <1>8, <1>9, <1>10 DEF Next

\* Staff's calls apart, an import leaves the active slabs to be its sheet.
THEOREM RatesImportIsWhole == Spec => ImportIsWhole
<1>. DEFINE Whole ==
              \A c \in Calls :
                apart /\ At(c, "commit") /\ calls'[c] = Idle =>
                  /\ {Priced(slab'[id]) : id \in {i \in Slabs : slab'[i] # NoSlab /\ slab'[i].active}}
                       = {Priced(b) : b \in calls[c].sheet.bands}
                  /\ \A id \in Slabs : Exists(id) => slab'[id].cut = slab[id].cut
<1>1. IInv /\ [Next]_vars => [Whole]_vars
  <2>. SUFFICES ASSUME IInv, [Next]_vars, NEW c \in Calls, apart, At(c, "commit"), calls'[c] = Idle
                PROVE  /\ {Priced(slab'[id]) : id \in {i \in Slabs : slab'[i] # NoSlab /\ slab'[i].active}}
                            = {Priced(b) : b \in calls[c].sheet.bands}
                       /\ \A id \in Slabs : Exists(id) => slab'[id].cut = slab[id].cut
    OBVIOUS
  <2>1. CommitImport(c) /\ Typed /\ calls[c].seen = slab
    BY CommitEnds DEF IInv, InTurn, ReadStillTrue
  <2>2. PICK place \in Placements(calls[c].seen, calls[c].sheet.bands) :
          slab' = Imported(place, calls[c].seen, calls[c].sheet)
    BY <2>1 DEF CommitImport
  <2>3. ASSUME NEW b \in calls[c].sheet.bands
        PROVE  /\ place[b] \in Slabs /\ slab'[place[b]] # NoSlab /\ slab'[place[b]].active
               /\ Priced(slab'[place[b]]) = Priced(b)
               /\ Exists(place[b]) => slab'[place[b]].cut = slab[place[b]].cut
    BY <2>1, <2>2, BandPlaced, AssumedOK
  <2>4. ASSUME NEW id \in Slabs, \A b \in calls[c].sheet.bands : place[b] # id
        PROVE  /\ slab'[id] = NoSlab \/ ~slab'[id].active
               /\ Exists(id) => slab'[id].cut = slab[id].cut
    BY <2>1, <2>2, <2>4, NotPlaced
  <2>5. {Priced(slab'[id]) : id \in {i \in Slabs : slab'[i] # NoSlab /\ slab'[i].active}}
          \subseteq {Priced(b) : b \in calls[c].sheet.bands}
    BY <2>3, <2>4
  <2>6. {Priced(b) : b \in calls[c].sheet.bands}
          \subseteq {Priced(slab'[id]) : id \in {i \in Slabs : slab'[i] # NoSlab /\ slab'[i].active}}
    BY <2>3
  <2>7. \A id \in Slabs : Exists(id) => slab'[id].cut = slab[id].cut
    BY <2>3, <2>4
  <2>. QED BY <2>5, <2>6, <2>7
<1>. QED BY <1>1, IInvInit, IInvStep, PTL DEF Spec, ImportIsWhole
=============================================================================
