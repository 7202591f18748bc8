-------------------------------- MODULE Rates --------------------------------
(***************************************************************************)
(* RatesService, the rate sheet import, the margin ladder and the pricing  *)
(* engine's reads, on one rate card: staff edit its weight slabs one by    *)
(* one or replace them with a carrier's sheet while quotes are computed.   *)
(*                                                                         *)
(* A call reads, checks and then writes, one action each.  Left out are    *)
(* audit rows, who did what, which zone a country is in, and the GST       *)
(* percentage of a slab: it is one constant, the same on every slab.       *)
(***************************************************************************)
EXTENDS Pricing, FiniteSets

CONSTANTS
  Slabs,        \* the WeightSlab rows that can exist
  NoSlab,       \* a row that does not
  Ranges,       \* bound: the ranges staff enter
  Amounts,      \* bound: the rates staff enter
  Cuts,         \* bound: the margins (nationwideCut) staff enter
  Weights,      \* bound: the weights quoted
  Sheets,       \* bound: the sheets uploaded, as planFor leaves them
  Ladders,      \* bound: the margin ladders entered
  GstPercent,
  Provider,     \* the carrier's fuel charge and surcharge per kg
  Calls,        \* the requests the server can have in flight at once
  MaxStaffCalls \* bound: staff's calls in a behaviour

Range == [from : Nat, to : Nat]

Proper(r) == r.from <= r.to

Disjoint(ranges) == \A a, b \in ranges : a # b => ~Meets(a, b)

RangeOf(x) == [from |-> x.from, to |-> x.to]

Band == [from : Nat, to : Nat, rate : Nat, byWeight : BOOLEAN]

MarginBand == [from : Nat, to : Nat \cup {OpenEnd}, flat : Nat, perKg : Nat]

ASSUME RatesAssumption ==
  /\ Ranges \subseteq Range /\ \A r \in Ranges : Proper(r)
  /\ Amounts \subseteq Nat /\ Cuts \subseteq Nat /\ Weights \subseteq Nat
  /\ GstPercent \in 0 .. 100
  /\ Provider \in [fuel : 0 .. 100, pss : Nat]
  /\ Sheets \subseteq [allIn : BOOLEAN, bands : SUBSET Band]
  /\ \A s \in Sheets : /\ Disjoint(s.bands) /\ \A b \in s.bands : Proper(b)
                       /\ IsFiniteSet(s.bands)
  /\ Ladders \subseteq SUBSET MarginBand
  /\ MaxStaffCalls \in Nat

\* hand, allIn (history): staff entered or switched on this slab since a sheet last
\* set it; the rate was entered as an all-in figure.
SlabRow == [from : Nat, to : Nat, rate : Nat, byWeight : BOOLEAN, cut : Nat,
            active : BOOLEAN, hand : BOOLEAN, allIn : BOOLEAN]

ASSUME SlabAssumption == NoSlab \notin SlabRow

VARIABLES
  apart,        \* never changes: staff's calls do not overlap, nor imports and quotes
  taxInclusive, \* RateCard.taxInclusive
  slab,         \* the card's WeightSlab rows
  ladder,       \* the carrier's ProviderMarginBand rows
  calls,        \* per slot: the call in flight
  staffCalls    \* how many staff calls have arrived

vars == <<apart, taxInclusive, slab, ladder, calls, staffCalls>>

\* create: write  update switch: check write  import: plan commit  quote: slabs ladder answered
Statements == {"idle", "check", "write", "plan", "commit", "slabs", "ladder", "answered"}

\* row: what a staff call writes to slab id, form: an update's fields.  sheet: of an import,
\* flag, seen: the card's flag and rows as it read them.  flag, slab, price: of a quote, what
\* it has read and computed.
Idle == [op |-> "none", at |-> "idle"]

PriceRow == [taxable : Nat, gst : Nat, cut : Nat, final : Nat]

CallRow ==
  {Idle}
  \cup [op : {"create"}, at : {"write"}, id : Slabs, row : SlabRow, form : {{}}]
  \cup [op : {"update", "switch"}, at : {"check", "write"}, id : Slabs, row : SlabRow,
        form : SUBSET {"from", "to", "rate"}]
  \cup [op : {"import"}, at : {"plan"}, sheet : Sheets]
  \cup [op : {"import"}, at : {"commit"}, sheet : Sheets, flag : BOOLEAN,
        seen : [Slabs -> SlabRow \cup {NoSlab}]]
  \cup [op : {"quote"}, at : {"slabs"}, weight : Weights, flag : BOOLEAN]
  \cup [op : {"quote"}, at : {"ladder"}, weight : Weights, flag : BOOLEAN, slab : SlabRow]
  \cup [op : {"quote"}, at : {"answered"}, weight : Weights, flag : BOOLEAN, slab : SlabRow,
        price : PriceRow]

Init ==
  /\ apart \in BOOLEAN
  /\ taxInclusive = FALSE
  /\ slab = [id \in Slabs |-> NoSlab]
  /\ ladder = {}
  /\ calls = [c \in Calls |-> Idle]
  /\ staffCalls = 0

Exists(id) == slab[id] # NoSlab

Active(id) == Exists(id) /\ slab[id].active

At(c, statement) == calls[c].at = statement

End(c) == calls' = [calls EXCEPT ![c] = Idle]

InFlight == {calls[c].op : c \in Calls} \ {"none"}

BeginStaff(c, call) ==
  /\ calls[c] = Idle
  /\ staffCalls < MaxStaffCalls
  /\ staffCalls' = staffCalls + 1
  /\ apart => InFlight \subseteq (IF call.op = "import" THEN {} ELSE {"quote"})
  /\ calls' = [calls EXCEPT ![c] = call]

-----------------------------------------------------------------------------
(* RatesService *)

\* assertNoOverlapAmong, on the active siblings.
Fits(id, row) == \A other \in Slabs \ {id} : Active(other) => ~Meets(row, slab[other])

BeginCreate(c, id) ==
  /\ ~Exists(id)
  /\ \E r \in Ranges, rate \in Amounts, cut \in Cuts :
       LET row == [from |-> r.from, to |-> r.to, rate |-> rate, byWeight |-> FALSE, cut |-> cut,
                   active |-> TRUE, hand |-> TRUE, allIn |-> FALSE]
       IN  /\ Fits(id, row)
           /\ BeginStaff(c, [op |-> "create", at |-> "write", id |-> id, row |-> row, form |-> {}])
  /\ UNCHANGED <<apart, taxInclusive, slab, ladder>>

Enter(form, row, r, rate) ==
  [row EXCEPT !.from = IF "from" \in form THEN r.from ELSE @,
              !.to = IF "to" \in form THEN r.to ELSE @,
              !.rate = IF "rate" \in form THEN rate ELSE @,
              !.hand = TRUE]

BeginUpdate(c, id) ==
  /\ Exists(id)
  /\ \E form \in SUBSET {"from", "to", "rate"}, r \in Ranges, rate \in Amounts :
       LET row == Enter(form, slab[id], r, rate)
       IN  /\ Proper(row)
           /\ BeginStaff(c, [op |-> "update", at |-> "check", id |-> id, row |-> row, form |-> form])
  /\ UNCHANGED <<apart, taxInclusive, slab, ladder>>

\* setActive
BeginSwitch(c, id) ==
  /\ Exists(id)
  /\ LET row == [slab[id] EXCEPT !.active = ~slab[id].active, !.hand = TRUE]
     IN  BeginStaff(c, [op |-> "switch", at |-> IF row.active THEN "check" ELSE "write",
                        id |-> id, row |-> row, form |-> {}])
  /\ UNCHANGED <<apart, taxInclusive, slab, ladder>>

\* The second read of an update or a switch: the siblings.
CheckSiblings(c) ==
  /\ At(c, "check")
  /\ IF Fits(calls[c].id, calls[c].row)
     THEN calls' = [calls EXCEPT ![c].at = "write"]
     ELSE End(c)
  /\ UNCHANGED <<apart, taxInclusive, slab, ladder, staffCalls>>

\* An update writes the columns of its form, a switch the active one.
Written(call) ==
  CASE call.op = "create" -> call.row
    [] call.op = "update" -> Enter(call.form, slab[call.id], call.row, call.row.rate)
    [] call.op = "switch" -> [slab[call.id] EXCEPT !.active = call.row.active, !.hand = TRUE]

\* Another create may have taken the row meanwhile: ids are fresh.
Write(c) ==
  LET call == calls[c] IN
  /\ At(c, "write")
  /\ IF call.op = "create" /\ Exists(call.id)
     THEN \E id \in Slabs : ~Exists(id) /\ slab' = [slab EXCEPT ![id] = call.row]
     ELSE slab' = [slab EXCEPT ![call.id] = Written(call)]
  /\ End(c)
  /\ UNCHANGED <<apart, taxInclusive, ladder, staffCalls>>

\* Values only, in one transaction: bulkUpdate.
BulkUpdate(ids, rate, cut) ==
  /\ staffCalls < MaxStaffCalls
  /\ apart => InFlight \subseteq {"quote"}
  /\ \A id \in ids : Exists(id)
  /\ slab' = [id \in Slabs |->
                IF id \in ids THEN [slab[id] EXCEPT !.rate = rate, !.cut = cut, !.hand = TRUE]
                ELSE slab[id]]
  /\ staffCalls' = staffCalls + 1
  /\ UNCHANGED <<apart, taxInclusive, ladder, calls>>

\* setMarginBands: the ladder is replaced in one transaction.
Replaceable(bands) ==
  /\ \A b \in bands : b.to # OpenEnd => b.from < b.to
  /\ \A a, b \in bands : a # b /\ a.from <= b.from => a.to # OpenEnd /\ a.to <= b.from

SetMarginBands(bands) ==
  /\ Replaceable(bands)
  /\ staffCalls < MaxStaffCalls
  /\ ladder' = bands
  /\ staffCalls' = staffCalls + 1
  /\ UNCHANGED <<apart, taxInclusive, slab, calls>>

-----------------------------------------------------------------------------
(* RateSheetImportService.import: one transaction, at READ COMMITTED *)

BeginImport(c, sheet) ==
  /\ BeginStaff(c, [op |-> "import", at |-> "plan", sheet |-> sheet])
  /\ UNCHANGED <<apart, taxInclusive, slab, ladder>>

PlanImport(c) ==
  /\ At(c, "plan")
  /\ calls' = [calls EXCEPT ![c] = [op |-> "import", at |-> "commit", sheet |-> @.sheet,
                                    flag |-> taxInclusive, seen |-> slab]]
  /\ UNCHANGED <<apart, taxInclusive, slab, ladder, staffCalls>>

SameRange(seen, id, band) == seen[id] # NoSlab /\ RangeOf(seen[id]) = RangeOf(band)

\* The row of each band: one it read with the band's range, or a new one.
Placements(seen, bands) ==
  {place \in [bands -> Slabs] :
     /\ \A a, b \in bands : place[a] = place[b] => a = b
     /\ \A b \in bands :
          IF \E id \in Slabs : SameRange(seen, id, b)
          THEN SameRange(seen, place[b], b)
          ELSE ~Exists(place[b]) /\ seen[place[b]] = NoSlab}

\* Mutant: the margin's column is left null.
FreshWithoutCut(band, allIn) ==
  [from |-> band.from, to |-> band.to, rate |-> band.rate, byWeight |-> band.byWeight,
   cut |-> NoSlab, active |-> TRUE, hand |-> FALSE, allIn |-> allIn]

Fresh(band, allIn) ==
  [from |-> band.from, to |-> band.to, rate |-> band.rate, byWeight |-> band.byWeight,
   cut |-> 0, active |-> TRUE, hand |-> FALSE, allIn |-> allIn]

\* Mutant: a band whose price has not changed is left as it is, even when inactive.
SamePrice(seen, band) == seen.rate = band.rate /\ seen.byWeight = band.byWeight

Same(seen, band) == seen.rate = band.rate /\ seen.byWeight = band.byWeight /\ seen.active

\* A band's row.  The margin of one that is there stays.
Placed(row, seen, band, allIn) ==
  IF seen = NoSlab THEN Fresh(band, allIn)
  ELSE IF Same(seen, band) THEN [row EXCEPT !.hand = FALSE, !.allIn = allIn]
  ELSE [row EXCEPT !.rate = band.rate, !.byWeight = band.byWeight, !.active = TRUE,
                   !.hand = FALSE, !.allIn = allIn]

\* The rows it read as active and that the sheet does not have are switched off.
Imported(place, seen, sheet) ==
  [id \in Slabs |->
     IF \E b \in sheet.bands : place[b] = id
     THEN Placed(slab[id], seen[id], CHOOSE b \in sheet.bands : place[b] = id, sheet.allIn)
     ELSE IF seen[id] # NoSlab /\ seen[id].active
     THEN [slab[id] EXCEPT !.active = FALSE]
     ELSE slab[id]]

\* Mutant: an existing card keeps its flag.
CommitFlagKept(c) ==
  LET call == calls[c] IN
  /\ At(c, "commit")
  /\ \E place \in Placements(call.seen, call.sheet.bands) :
       slab' = Imported(place, call.seen, call.sheet)
  /\ End(c)
  /\ UNCHANGED <<apart, taxInclusive, ladder, staffCalls>>

CommitImport(c) ==
  LET call == calls[c] IN
  /\ At(c, "commit")
  /\ \E place \in Placements(call.seen, call.sheet.bands) :
       slab' = Imported(place, call.seen, call.sheet)
  /\ taxInclusive' = IF call.flag # call.sheet.allIn THEN call.sheet.allIn ELSE taxInclusive
  /\ End(c)
  /\ UNCHANGED <<apart, ladder, staffCalls>>

-----------------------------------------------------------------------------
(* PricingEngineService.computeQuotesForRequest.  The card, its slabs and the  *)
(* carrier's ladder are read by a statement each, outside a transaction.       *)

BeginQuote(c, weight) ==
  /\ calls[c] = Idle
  /\ apart => "import" \notin InFlight
  /\ \E id \in Slabs : Active(id)
  /\ calls' = [calls EXCEPT ![c] = [op |-> "quote", at |-> "slabs", weight |-> weight,
                                    flag |-> taxInclusive]]
  /\ UNCHANGED <<apart, taxInclusive, slab, ladder, staffCalls>>

\* findMatchingSlab: the lowest active one that covers the weight, or no option.
Matching(weight) ==
  {id \in Slabs :
     /\ Active(id) /\ Covers(slab[id], weight)
     /\ \A other \in Slabs :
          Active(other) /\ Covers(slab[other], weight) => slab[id].from <= slab[other].from}

ReadSlabs(c) ==
  LET call == calls[c] IN
  /\ At(c, "slabs")
  /\ \/ /\ Matching(call.weight) = {}
        /\ End(c)
     \/ \E id \in Matching(call.weight) :
          calls' = [calls EXCEPT ![c] = [op |-> "quote", at |-> "ladder", weight |-> call.weight,
                                         flag |-> call.flag, slab |-> slab[id]]]
  /\ UNCHANGED <<apart, taxInclusive, slab, ladder, staffCalls>>

\* The slab's own margin wins over the ladder.
CutFor(row, weight) == IF row.cut # 0 THEN row.cut ELSE MarginFromBands(ladder, weight)

ComputeOption(c) ==
  LET call == calls[c]
      price == CalculateFinalPrice(call.slab, call.weight, call.flag, Provider, GstPercent,
                                   CutFor(call.slab, call.weight))
  IN
  /\ At(c, "ladder")
  /\ calls' = [calls EXCEPT ![c] = [op |-> "quote", at |-> "answered", weight |-> call.weight,
                                    flag |-> call.flag, slab |-> call.slab, price |-> price]]
  /\ UNCHANGED <<apart, taxInclusive, slab, ladder, staffCalls>>

Answered(c) ==
  /\ At(c, "answered")
  /\ End(c)
  /\ UNCHANGED <<apart, taxInclusive, slab, ladder, staffCalls>>

-----------------------------------------------------------------------------
Next ==
  \/ \E c \in Calls, id \in Slabs : BeginCreate(c, id) \/ BeginUpdate(c, id) \/ BeginSwitch(c, id)
  \/ \E c \in Calls, sheet \in Sheets : BeginImport(c, sheet)
  \/ \E c \in Calls, weight \in Weights : BeginQuote(c, weight)
  \/ \E c \in Calls :
       \/ CheckSiblings(c) \/ Write(c) \/ PlanImport(c) \/ CommitImport(c)
       \/ ReadSlabs(c) \/ ComputeOption(c) \/ Answered(c)
  \/ \E ids \in SUBSET Slabs, rate \in Amounts, cut \in Cuts :
       BulkUpdate(ids, rate, cut)
  \/ \E bands \in Ladders : SetMarginBands(bands)

Spec == Init /\ [][Next]_vars

-----------------------------------------------------------------------------
\* Rows and calls in flight have the columns' types.
TypeOK ==
  /\ apart \in BOOLEAN /\ taxInclusive \in BOOLEAN
  /\ slab \in [Slabs -> SlabRow \cup {NoSlab}]
  /\ ladder \in Ladders \cup {{}}
  /\ calls \in [Calls -> CallRow]
  /\ staffCalls \in 0 .. MaxStaffCalls

\* Staff's calls apart, no weight is priced by two slabs: ranges "must not overlap with
\* any other ACTIVE rate", whatever is created, moved, switched and imported in turn,
\* though nothing in the database says so (RatesService, import).
OneSlabPerWeight ==
  apart => \A a, b \in Slabs :
    a # b /\ Active(a) /\ Active(b) =>
      \A weight \in slab[a].from .. slab[a].to : ~Covers(slab[b], weight)

\* Staff's calls apart, an import leaves the active slabs to be its sheet, no more and
\* no less, and every margin as it was ("a rate book half-written is worse than either
\* the old one or the new one").
Priced(x) == [from |-> x.from, to |-> x.to, rate |-> x.rate, byWeight |-> x.byWeight]

ImportIsWhole ==
  [][\A c \in Calls :
       apart /\ At(c, "commit") /\ calls'[c] = Idle =>
         /\ {Priced(slab'[id]) : id \in {i \in Slabs : slab'[i] # NoSlab /\ slab'[i].active}}
              = {Priced(b) : b \in calls[c].sheet.bands}
         /\ \A id \in Slabs : Exists(id) => slab'[id].cut = slab[id].cut]_vars

\* Imports and quotes apart, a rate that a sheet set is taken for what it is: all-in, or
\* to have fuel, surcharge and tax added.  Rates that staff enter or switch on again are
\* not (the flag is the card's, not the slab's).
QuotedOnItsBasis ==
  \A c \in Calls :
    apart /\ At(c, "answered") /\ ~calls[c].slab.hand => calls[c].flag = calls[c].slab.allIn

\* What a customer is quoted adds up to the paisa.  An all-in rate comes out as "the
\* all-in figure again" with the margin on top wherever some taxable amount and its GST
\* come to that figure, and a paisa off where none does.  The columns of the tax invoice
\* add up to its total, in both states and also when staff type the total as one figure:
\* not "a paisa more or less" (calculateFinalPrice, splitGst, resolveChargedBreakdown).
PricesAddUp ==
  \A c \in Calls :
    At(c, "answered") =>
      LET price == calls[c].price
          back == price.final - price.cut
          figure == ResolvedRate(calls[c].slab, calls[c].weight)
      IN
      /\ calls[c].flag =>
           /\ back - figure \in -1 .. 1
           /\ (\E base \in 0 .. figure : base + Gst(base, GstPercent) = figure) => back = figure
      /\ AddsUp(ChargedForPrice(price))
      /\ AddsUp(ChargedForManual(price.final, GstPercent))

\* An all-in rate is what the customer pays before the margin: taking the tax out and
\* adding it back will "land on the all-in figure again (to the paisa)"
\* (calculateFinalPrice).
AllInToThePaisa ==
  \A c \in Calls :
    At(c, "answered") /\ calls[c].flag =>
      calls[c].price.final - calls[c].price.cut = ResolvedRate(calls[c].slab, calls[c].weight)
=============================================================================
