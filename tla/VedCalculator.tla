----------------------------- MODULE VedCalculator -----------------------------
(***************************************************************************)
(* The vehicle tax of a vehicle the provider gives no rate for, worked out  *)
(* from DVLA's tables (ved-calculator.ts).  Pure operators: what the        *)
(* provider's packages said goes in, a rate or Unpriced comes out.  Texts   *)
(* are abstracted to the patterns of the code that they match.              *)
(***************************************************************************)
EXTENDS VedRates, Sequences

Unknown == -1 \* null in a fact: the provider did not say

Unpriced == Rate(NotSold, NotSold, NotSold)

\* On the first 2014 registrations Euro VI was mandatory for every new HGV.
EuroVIRegisteredFrom == 20140101

-----------------------------------------------------------------------------
(* Reading the provider's responses.                                       *)

Or(said, otherwise) == IF said # Unknown THEN said ELSE otherwise

FirstIn(order, S) == order[Min({i \in DOMAIN order : order[i] \in S})]

\* The taxation classes that are a keeper's choice, in the order they are looked for:
\* "special types" matches the last pattern as well.
SpecialClasses == <<"private-hgv", "recovery", "special-types", "combined-transport",
                    "general-haulage", "small-island", "special-vehicle">>

\* What the wording and the wheel plan are searched for, in that order.
WordKinds == <<"tricycle", "motorcycle", "motor-caravan", "bus", "hgv", "light-goods", "car">>

\* The plated weight decides, whatever the category or the wording says.
GoodsKind(grossWeightKg, unweighed) ==
  IF grossWeightKg = Unknown THEN unweighed
  ELSE IF grossWeightKg > 3500 THEN "hgv" ELSE "light-goods"

\* d.taxation and d.words: which of the patterns the taxation class and the wording match.
Classify(d) ==
  IF d.taxation # {} THEN FirstIn(SpecialClasses, d.taxation)
  ELSE CASE d.category \in {"L1", "L3", "L4"}       -> "motorcycle"
         [] d.category \in {"L2", "L5", "L6", "L7"} -> "tricycle"
         [] d.category = "M1"           -> IF d.caravanBody THEN "motor-caravan" ELSE "car"
         [] d.category \in {"M2", "M3"} -> "bus"
         [] d.category = "N1"           -> GoodsKind(d.grossWeightKg, "light-goods")
         [] d.category \in {"N2", "N3"} -> GoodsKind(d.grossWeightKg, "hgv")
         [] OTHER -> IF d.words = {} THEN "unknown"
                     ELSE LET kind == FirstIn(WordKinds, d.words)
                          IN  IF kind = "light-goods" THEN GoodsKind(d.grossWeightKg, kind)
                              ELSE kind

\* From the Tax package, VehicleDetails and ValuationDetails; what two packages carry is
\* read from VehicleDetails first.
ReadVehicleFacts(tax, d, listPrice) ==
  [kind              |-> Classify(d),
   firstRegistered   |-> d.firstRegistered,
   yearOfManufacture |-> Or(d.yearOfManufacture, tax.yearOfManufacture),
   zeroEmission      |-> d.electric,
   co2               |-> Or(d.co2, tax.co2),
   engineCc          |-> d.engineCc,
   seats             |-> d.seats,
   grossWeightKg     |-> d.grossWeightKg,
   massInServiceKg   |-> d.massInServiceKg,
   euroStatus        |-> d.euroStatus,
   listPrice         |-> listPrice]

-----------------------------------------------------------------------------
(* The expensive car supplement.                                           *)

AddYears(date, years) == date + 10000 * years

\* From the start of the second licence for premiumYears; before it the dealer pays.
InPremiumWindow(facts, rates, today) ==
  /\ facts.firstRegistered # Unknown
  /\ facts.firstRegistered >= rates.post2017.from
  /\ today < AddYears(facts.firstRegistered, 1 + rates.post2017.premiumYears)

\* Mutant: the licence the dealer bought is not counted.
InPremiumWindow_FiveYears(facts, rates, today) ==
  /\ facts.firstRegistered # Unknown
  /\ facts.firstRegistered >= rates.post2017.from
  /\ today < AddYears(facts.firstRegistered, rates.post2017.premiumYears)

\* Mutant: asked for over the years of its standard rate alone.
NeedsListPrice_FiveYears(facts, today) ==
  /\ facts.kind = "car"
  /\ InPremiumWindow_FiveYears(facts, RatesOn(LightVehicleRates, today), today)

\* Whether the list price could change what it owes, and so is worth buying.
NeedsListPrice(facts, today) ==
  facts.kind = "car" /\ InPremiumWindow(facts, RatesOn(LightVehicleRates, today), today)

-----------------------------------------------------------------------------
(* The calculation.                                                        *)

\* Mutant: a band ends below its maximum.
BandOf_Exclusive(bands, size) == bands[Min({i \in DOMAIN bands : size < bands[i].max})].rate

\* The first band the size does not exceed.
BandOf(bands, size) == bands[Min({i \in DOMAIN bands : size <= bands[i].max})].rate

ByEngine(facts, bands) ==
  IF facts.engineCc = Unknown THEN Unpriced ELSE BandOf(bands, facts.engineCc)

PrivateLightGoods(facts, rates) == ByEngine(facts, rates.privateLightGoods)

ListPriceThreshold(facts, post2017) ==
  IF facts.zeroEmission /\ facts.firstRegistered >= post2017.zeroEmissionThresholdFrom
  THEN post2017.zeroEmissionListPriceThreshold ELSE post2017.listPriceThreshold

OwesSupplement(facts, rates, today) ==
  /\ InPremiumWindow(facts, rates, today)
  /\ facts.listPrice > ListPriceThreshold(facts, rates.post2017)

\* A car registered since March 2001 whose CO2 is on record, over 225g/km in its year's K cap.
Co2Band(facts, bands) ==
  IF facts.co2 > 225 /\ facts.firstRegistered < bands.bandKCapBefore
  THEN bands.bands[bands.bandK].rate ELSE BandOf(bands.bands, facts.co2)

Car(facts, rates, today) ==
  IF facts.firstRegistered = Unknown THEN Unpriced
  ELSE IF facts.firstRegistered >= rates.post2017.from
       THEN IF OwesSupplement(facts, rates, today)
            THEN rates.post2017.premium ELSE rates.post2017.standard
  ELSE IF facts.firstRegistered >= rates.co2Bands.from /\ facts.co2 # Unknown
       THEN Co2Band(facts, rates.co2Bands)
  ELSE PrivateLightGoods(facts, rates)

\* The Euro 4 and Euro 5 vans that were cleaner than the law asked when they were new.
EarlyEuro(facts, euro, window) ==
  /\ facts.euroStatus = euro \/ facts.zeroEmission
  /\ facts.firstRegistered \in window.from .. window.to

LightGoods(facts, rates) ==
  LET lgv == rates.lightGoods IN
  IF facts.firstRegistered = Unknown THEN Unpriced
  ELSE IF facts.firstRegistered < lgv.from THEN PrivateLightGoods(facts, rates)
  ELSE IF EarlyEuro(facts, 4, lgv.euro4) THEN lgv.euro4.rate
  ELSE IF EarlyEuro(facts, 5, lgv.euro5) THEN lgv.euro5.rate
  ELSE lgv.standard

TwoOrThreeWheeler(facts, rates) ==
  LET table == rates.twoAndThreeWheelers IN
  IF facts.massInServiceKg > table.maxWeightKg THEN PrivateLightGoods(facts, rates)
  ELSE IF facts.zeroEmission THEN table.zeroEmission
  ELSE ByEngine(facts, table[facts.kind])

IsEuroVI(facts) ==
  IF facts.euroStatus # Unknown THEN facts.euroStatus >= EuroVIOrLater
  ELSE facts.firstRegistered >= EuroVIRegisteredFrom

\* Mutant: no Euro status on record is the cleaner one.
ByEuroStatus_Cheaper(facts, levy) ==
  IF IsEuroVI(facts) \/ facts.euroStatus = Unknown THEN levy.euroVIOrLater ELSE levy.euroVOrEarlier

ByEuroStatus(facts, levy) == IF IsEuroVI(facts) THEN levy.euroVIOrLater ELSE levy.euroVOrEarlier

Hgv(facts, rates) ==
  IF facts.grossWeightKg = Unknown THEN Unpriced
  ELSE IF facts.grossWeightKg < rates.hgv.levyFromKg THEN rates.hgv.underLevyWeight
  ELSE LET levy == ByEuroStatus(facts, BandOf(rates.hgv.levy, facts.grossWeightKg))
       IN  Rate(rates.hgv.ved.twelveMonths + levy.twelveMonths,
                rates.hgv.ved.sixMonths + levy.sixMonths, NotSold)

Bus(facts, rates) ==
  IF facts.seats < rates.buses.minSeats THEN Unpriced ELSE BandOf(rates.buses.bands, facts.seats)

Recovery(facts, rates) ==
  IF facts.grossWeightKg = Unknown THEN Unpriced ELSE BandOf(rates.recovery, facts.grossWeightKg)

Historic(facts, rates) ==
  facts.yearOfManufacture \in 0 .. rates.historicBuiltBefore - 1

CalculateVed(facts, today) ==
  LET light == RatesOn(LightVehicleRates, today)
      heavy == RatesOn(HeavyVehicleRates, today) IN
  IF facts.kind = "unknown" \/ Historic(facts, light) THEN Unpriced
  ELSE CASE facts.kind = "car"                           -> Car(facts, light, today)
         [] facts.kind = "motor-caravan"                 -> PrivateLightGoods(facts, light)
         [] facts.kind = "light-goods"                   -> LightGoods(facts, light)
         [] facts.kind \in {"motorcycle", "tricycle"}    -> TwoOrThreeWheeler(facts, light)
         [] facts.kind = "hgv"                           -> Hgv(facts, heavy)
         [] facts.kind = "bus"                           -> Bus(facts, heavy)
         [] facts.kind = "recovery"                      -> Recovery(facts, heavy)
         [] facts.kind = "special-types"       -> ByEuroStatus(facts, heavy.specialTypes)
         [] facts.kind = "combined-transport"  -> ByEuroStatus(facts, heavy.combinedTransport)
         [] OTHER                              -> heavy.flat[facts.kind]
=============================================================================
