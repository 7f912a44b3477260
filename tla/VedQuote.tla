------------------------------- MODULE VedQuote -------------------------------
(***************************************************************************)
(* How one vehicle comes to its price (VehiclesService.resolve and what it  *)
(* calls): Tax is asked, then, only where Tax gave no rate, VehicleDetails,  *)
(* then, only where it could change the tax, the list price; the answers    *)
(* are stored with the price, and read again by a later build of the mapper.*)
(* Days pass in between.  A package may say nothing, or leave facts out.    *)
(*                                                                         *)
(* Requests that overlap, the TTL and a provider that fails are in          *)
(* VehicleCache; here it is what the answers say that matters.              *)
(***************************************************************************)
EXTENDS VedCalculator, Functions

CONSTANTS
  Vehicles,  \* what the packages would say of a vehicle if they left nothing out
  Silences,  \* sets of fields that VehicleDetails may leave out together
  ListPrices,\* list prices a car could have
  Days       \* the days on which a lookup may happen

ASSUME DaysAssumption == Days \subseteq Nat /\ Days # {}
ASSUME ListPricesAssumption == ListPrices \subseteq Nat

Derived == -2 \* directDebit left undefined: pricing works it out from the annual rate

\* What a package that has no record says.
NoTax == [yearOfManufacture |-> Unknown, co2 |-> Unknown,
          firstYear |-> Unpriced, standard |-> Unpriced, premium |-> Unpriced]

NoDetails == [taxation |-> {}, category |-> "none", words |-> {}, caravanBody |-> FALSE,
              electric |-> FALSE, firstRegistered |-> Unknown, yearOfManufacture |-> Unknown,
              co2 |-> Unknown, engineCc |-> Unknown, seats |-> Unknown,
              grossWeightKg |-> Unknown, massInServiceKg |-> Unknown, euroStatus |-> Unknown]

NoRow == [tax |-> NoTax, details |-> NoDetails, listPrice |-> Unknown, asked |-> FALSE,
          late |-> FALSE, ved |-> Unpriced, on |-> 0]

Rates == [twelveMonths : Int, sixMonths : Int, directDebit : Int]

TaxAnswers == [yearOfManufacture : Int, co2 : Int,
               firstYear : Rates, standard : Rates, premium : Rates]

\* The EU type approval categories, or none on record.
Categories == {"none", "L1", "L2", "L3", "L4", "L5", "L6", "L7", "M1", "M2", "M3", "N1", "N2", "N3"}

DetailsAnswers ==
  [taxation : SUBSET Range(SpecialClasses), category : Categories, words : SUBSET Range(WordKinds),
   caravanBody : BOOLEAN, electric : BOOLEAN, firstRegistered : Int, yearOfManufacture : Int,
   co2 : Int, engineCc : Int, seats : Int, grossWeightKg : Int, massInServiceKg : Int,
   euroStatus : Int]

ASSUME VehiclesAssumption ==
  Vehicles \subseteq [tax : TaxAnswers, details : DetailsAnswers, listPrice : Int]

\* Unbounded stands for the Infinity that ends a table: nothing is bigger.
ASSUME SizesAssumption ==
  \A v \in Vehicles :
    /\ v.tax.co2 <= Unbounded
    /\ \A f \in {"co2", "engineCc", "seats", "grossWeightKg"} : v.details[f] <= Unbounded

VARIABLES
  today,
  vehicle,
  asking,  \* the package the lookup waits for, "none" when nobody is looking it up
  tax,     \* the Tax answer of the lookup in progress
  details, \* and its VehicleDetails answer
  row      \* the stored answers, the price made from them and the day it was made;
           \* asked and late (its identity came after its price) are history

vars == <<today, vehicle, asking, tax, details, row>>

Init ==
  /\ today \in Days
  /\ vehicle \in Vehicles
  /\ asking = "none"
  /\ tax = NoTax
  /\ details = NoDetails
  /\ row = NoRow

-----------------------------------------------------------------------------
(* The price that the answers give on a day.                               *)

Year(day) == day \div 10000

Priced(rate) == rate.sixMonths # NotSold \/ rate.twelveMonths # NotSold

FirstPriced(tables) ==
  IF \E i \in DOMAIN tables : Priced(tables[i])
  THEN [tables[Min({i \in DOMAIN tables : Priced(tables[i])})] EXCEPT !.directDebit = Derived]
  ELSE Unpriced

\* The first-year rate is for a car built this year; otherwise the standard one goes first.
MapTaxResponse(t, day) ==
  IF t.yearOfManufacture >= Year(day)
  THEN FirstPriced(<<t.firstYear, t.standard, t.premium>>)
  ELSE FirstPriced(<<t.standard, t.firstYear, t.premium>>)

\* The provider's rate when it has one; DVLA's own tables when it does not.
WithTableRates(t, d, listPrice, day) ==
  LET mapped == MapTaxResponse(t, day)
  IN  IF Priced(mapped) THEN mapped ELSE CalculateVed(ReadVehicleFacts(t, d, listPrice), day)

\* Mutant: the list price is used and not kept.
Stored_NoValuation(t, d, listPrice, asked) ==
  [tax |-> t, details |-> d, listPrice |-> Unknown, asked |-> asked, late |-> FALSE,
   ved |-> WithTableRates(t, d, listPrice, today), on |-> today]

\* The row that resolve upserts; asked: the list price was asked for.
Stored(t, d, listPrice, asked) ==
  [tax |-> t, details |-> d, listPrice |-> listPrice, asked |-> asked, late |-> FALSE,
   ved |-> WithTableRates(t, d, listPrice, today), on |-> today]

-----------------------------------------------------------------------------

Finish(newRow) == asking' = "none" /\ row' = newRow /\ tax' = NoTax /\ details' = NoDetails

Hide(answer, nothing, fields) ==
  [f \in DOMAIN answer |-> IF f \in fields THEN nothing[f] ELSE answer[f]]

\* The Tax answer is in; a rate ends the lookup.  A row past its TTL is looked up like a
\* vehicle that has none, and what is stored replaces it: one lookup shows both.
AskTax ==
  /\ asking = "none"
  /\ row = NoRow
  /\ \E hidden \in {{}, {"yearOfManufacture", "co2"}, DOMAIN NoTax} :
       LET t == Hide(vehicle.tax, NoTax, hidden) IN
       IF Priced(MapTaxResponse(t, today))
       THEN Finish(Stored(t, NoDetails, Unknown, FALSE))
       ELSE asking' = "details" /\ tax' = t /\ UNCHANGED <<details, row>>
  /\ UNCHANGED <<today, vehicle>>

\* VehicleDetails has answered, or not at all.  A vehicle neither package knows is not
\* found, and no row is made of it.
AskDetails ==
  /\ asking = "details"
  /\ \E hidden \in Silences \union {DOMAIN NoDetails} :
       LET d == Hide(vehicle.details, NoDetails, hidden) IN
       CASE tax = NoTax /\ d = NoDetails -> Finish(row)
         [] NeedsListPrice(ReadVehicleFacts(tax, d, Unknown), today) ->
              asking' = "valuation" /\ details' = d /\ UNCHANGED <<tax, row>>
         [] OTHER -> Finish(Stored(tax, d, Unknown, FALSE))
  /\ UNCHANGED <<today, vehicle>>

\* The price is worked out on the day the list price arrives.
AskValuation ==
  /\ asking = "valuation"
  /\ \E listPrice \in {vehicle.listPrice, Unknown} :
       Finish(Stored(tax, details, listPrice, TRUE))
  /\ UNCHANGED <<today, vehicle>>

\* addIdentity, for a V62 or for a VIN, which is sold of vehicles nobody has priced: the
\* identity package is asked again, and "only the identity is rewritten".  A row without a
\* price stays without one until it is remapped.
AddIdentity ==
  /\ asking = "none"
  /\ row # NoRow /\ row.details = NoDetails
  /\ \E hidden \in Silences :
       row' = [row EXCEPT !.details = Hide(vehicle.details, NoDetails, hidden), !.late = TRUE]
  /\ UNCHANGED <<today, vehicle, asking, tax, details>>

\* remap, by a build that maps the same way: the stored answers are read today.
Remap ==
  /\ asking = "none"
  /\ row # NoRow
  /\ row' = [row EXCEPT !.on = today,
                        !.ved = WithTableRates(row.tax, row.details, row.listPrice, today)]
  /\ UNCHANGED <<today, vehicle, asking, tax, details>>

Midnight ==
  /\ \E day \in Days : day > today /\ today' = day
  /\ UNCHANGED <<vehicle, asking, tax, details, row>>

Next == AskTax \/ AskDetails \/ AskValuation \/ AddIdentity \/ Remap \/ Midnight

Spec == Init /\ [][Next]_vars

-----------------------------------------------------------------------------
(* Properties.                                                             *)

TypeOK ==
  /\ today \in Days
  /\ vehicle \in Vehicles
  /\ asking \in {"none", "details", "valuation"}
  /\ tax \in TaxAnswers
  /\ details \in DetailsAnswers
  /\ row \in [tax : TaxAnswers, details : DetailsAnswers, listPrice : Int, asked : BOOLEAN,
              late : BOOLEAN, ved : {row.ved}, on : Nat]
  /\ row # NoRow => row.on \in Days /\ row.on <= today

FactsOf(r) == ReadVehicleFacts(r.tax, r.details, r.listPrice)
Truth == ReadVehicleFacts(vehicle.tax, vehicle.details, vehicle.listPrice)
FromTables(r) == r # NoRow /\ ~Priced(MapTaxResponse(r.tax, r.on))

\* addIdentity does not ask what resolve would have: the list price of a car in the window.
Overlooked(r) == r.late /\ ~r.asked /\ NeedsListPrice(FactsOf(r), r.on)

\* needsListPrice: the lookup "which is not cheap" is left out only where no list price
\* could have changed the price: not on the day it was decided, and not on any later day
\* on which the stored answers are read again.  But for an identity added late, for a car
\* inside the window of the supplement.
UnaskedListPriceIsMoot ==
  FromTables(row) /\ ~row.asked /\ ~Overlooked(row) =>
    \A day \in {d \in Days : d >= row.on}, p \in ListPrices :
      CalculateVed([FactsOf(row) EXCEPT !.listPrice = p], day) = CalculateVed(FactsOf(row), day)

\* "The old one ... was a five-year-old car priced at its first-year rate": whatever was
\* paid for is kept, so that the same mapper reads the same price from a row, however
\* the row was made and whatever identity was added to it since; but for a row that had no
\* price when its identity came, which has none until it is read again.
RereadingKeepsThePrice ==
  row # NoRow /\ (row.late => Priced(row.ved)) =>
    row.ved = WithTableRates(row.tax, row.details, row.listPrice, row.on)

Unsaid(f) == row.details[f] = NoDetails[f] /\ vehicle.details[f] # NoDetails[f]

\* What calculateVed and classify do without, each in its own way: no taxation class is
\* none of a keeper's choosing, no body a plain one, no fuel not electric, no mass a light
\* motorcycle, no weight whatever the wording says, no CO2 the engine's size, no list price
\* and no Euro status the standard rate, neither that nor a date one before Euro VI, no
\* year not historic.  A list price may be missing because it was never asked for.
Guessed ==
  \/ \E f \in {"taxation", "caravanBody", "electric", "massInServiceKg", "euroStatus"} : Unsaid(f)
  \/ Unsaid("grossWeightKg") /\ FactsOf(row).kind # Truth.kind
  \/ FactsOf(row).co2 = Unknown /\ Truth.co2 # Unknown
  \/ FactsOf(row).yearOfManufacture = Unknown /\ Truth.yearOfManufacture # Unknown
  \/ row.asked /\ row.listPrice = Unknown
  \/ Overlooked(row)
  \/ /\ Unsaid("firstRegistered") /\ FactsOf(row).euroStatus = Unknown
     /\ FactsOf(row).kind \in {"hgv", "special-types", "combined-transport"}

\* The wording is of the kind the category says, and the packages agree on what both carry.
Agree(v) ==
  /\ Classify([v.details EXCEPT !.category = "none"]) \in {Classify(v.details), "unknown"}
  /\ \A f \in {"yearOfManufacture", "co2"} :
       v.details[f] = Unknown \/ v.tax[f] \in {Unknown, v.details[f]}

\* Only the Euro status was left out, by a vehicle from before it was mandatory.
OnlyEuroUnsaid ==
  /\ Unsaid("euroStatus")
  /\ FactsOf(row) = [Truth EXCEPT !.euroStatus = Unknown, !.listPrice = row.listPrice]
  /\ Truth.firstRegistered < EuroVIRegisteredFrom

\* calculateVed "refuses rather than guesses whenever a fact the tables turn on is
\* missing": what is priced from an incomplete answer is priced as the vehicle is, but for
\* the guesses above and for records that contradict themselves; and a guess at a Euro
\* status "errs on the side of never under-quoting".
OnlyNamedGuesses ==
  FromTables(row) /\ Priced(row.ved) =>
    /\ Agree(vehicle) /\ ~Guessed => row.ved = CalculateVed(Truth, row.on)
    /\ OnlyEuroUnsaid => row.ved.twelveMonths >= CalculateVed(Truth, row.on).twelveMonths

\* Through every band, cap and window of the leaflets, a vehicle priced from all its facts
\* never pays more than a bigger, dirtier or dearer one that is the same otherwise.
MoreIsNeverCheaper ==
  FromTables(row) /\ Priced(row.ved) /\ FactsOf(row) = Truth =>
    \A other \in Vehicles :
      LET bigger == ReadVehicleFacts(other.tax, other.details, other.listPrice)
          size == {"co2", "engineCc", "seats", "grossWeightKg", "massInServiceKg", "listPrice"}
      IN  /\ \A f \in DOMAIN Truth \ size : bigger[f] = Truth[f]
          /\ \A f \in size : bigger[f] = Truth[f] \/ (Truth[f] # Unknown /\ bigger[f] > Truth[f])
          /\ Priced(CalculateVed(bigger, row.on))
          => CalculateVed(bigger, row.on).twelveMonths >= row.ved.twelveMonths
=============================================================================
