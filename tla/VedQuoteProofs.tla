---------------------------- MODULE VedQuoteProofs ----------------------------
(***************************************************************************)
(* For any vehicles, silences and days: a list price nobody asked for could  *)
(* not have changed the tax, that day or later; a row's price is the one its *)
(* stored answers give; across both leaflets more is never cheaper; and what *)
(* a package left out changes no price but by the guesses that are named.   *)
(***************************************************************************)
EXTENDS VedQuote, WellFoundedInduction, TLAPS

\* What holds of every row: its price, if it has one, is read from it, and no list price was
\* worth asking for on the day of the price if nobody did, but for an identity added late.
RowOK(r) ==
  /\ r \in [tax : TaxAnswers, details : DetailsAnswers, listPrice : Int, asked : BOOLEAN,
            late : BOOLEAN, ved : {r.ved}, on : Nat]
  /\ r # NoRow => /\ r.on \in Days
                  /\ (r.late => Priced(r.ved))
                       => r.ved = WithTableRates(r.tax, r.details, r.listPrice, r.on)
  /\ FromTables(r) /\ ~r.asked /\ ~r.late => ~NeedsListPrice(FactsOf(r), r.on)

Inv ==
  /\ today \in Days
  /\ vehicle \in Vehicles
  /\ asking \in {"none", "details", "valuation"}
  /\ tax \in TaxAnswers
  /\ details \in DetailsAnswers
  /\ RowOK(row)
  /\ row # NoRow => row.on <= today

-----------------------------------------------------------------------------
(* The tables.                                                             *)

\* One block is published, and it is in force on every day.
LEMMA OneBlock ==
  ASSUME NEW b, b.effectiveFrom \in Int, NEW day \in Int
  PROVE  RatesOn({b}, day) = b
<1> DEFINE started == {c \in {b} : c.effectiveFrom <= day}
           From(S) == {c.effectiveFrom : c \in S}
<1>1. From({b}) = {b.effectiveFrom}
  OBVIOUS
<1>2. Max({b.effectiveFrom}) = b.effectiveFrom /\ Min({b.effectiveFrom}) = b.effectiveFrom
  BY DEF Max, Min
<1>3. CASE started = {}
  BY <1>1, <1>2, <1>3 DEF RatesOn
<1>4. CASE started = {b}
  BY <1>1, <1>2, <1>4 DEF RatesOn
<1> QED
  BY <1>3, <1>4

\* The light leaflet has one block, in force on every day.
LEMMA LightRates ==
  ASSUME NEW day \in Int
  PROVE  RatesOn(LightVehicleRates, day) = V149
<1>1. V149.effectiveFrom \in Int
  BY DEF V149
<1> QED
  BY <1>1, OneBlock DEF LightVehicleRates

\* The window of the supplement closes and does not open again.
LEMMA WindowCloses ==
  ASSUME NEW facts, facts.firstRegistered \in Int,
         NEW day \in Nat, NEW later \in Nat, day <= later,
         ~NeedsListPrice(facts, day)
  PROVE  ~NeedsListPrice(facts, later)
<1>1. V149.post2017.premiumYears = 5
  BY DEF V149
<1> QED
  BY <1>1, LightRates DEF NeedsListPrice, InPremiumWindow, AddYears

-----------------------------------------------------------------------------
(* What the list price is for.                                              *)

\* Two readings that differ in the list price at most.
SameButListPrice(f, g) ==
  /\ f.kind = g.kind
  /\ f.firstRegistered = g.firstRegistered
  /\ f.yearOfManufacture = g.yearOfManufacture
  /\ f.zeroEmission = g.zeroEmission
  /\ f.co2 = g.co2
  /\ f.engineCc = g.engineCc
  /\ f.seats = g.seats
  /\ f.grossWeightKg = g.grossWeightKg
  /\ f.massInServiceKg = g.massInServiceKg
  /\ f.euroStatus = g.euroStatus

\* The tables read the list price of a car in the window, and of nothing else.
LEMMA ListPriceIsForCars ==
  ASSUME NEW f, NEW g, SameButListPrice(f, g), NEW day \in Nat, ~NeedsListPrice(f, day)
  PROVE  CalculateVed(f, day) = CalculateVed(g, day)
<1> DEFINE light == RatesOn(LightVehicleRates, day)
           heavy == RatesOn(HeavyVehicleRates, day)
<1>1. \A b : ByEngine(f, b) = ByEngine(g, b)
  BY DEF SameButListPrice, ByEngine
<1>2. \A r : PrivateLightGoods(f, r) = PrivateLightGoods(g, r)
  BY <1>1 DEF PrivateLightGoods
<1>3. \A l : ByEuroStatus(f, l) = ByEuroStatus(g, l)
  BY DEF SameButListPrice, ByEuroStatus, IsEuroVI
<1>4. Historic(f, light) = Historic(g, light)
  BY DEF SameButListPrice, Historic
<1>5. f.kind = "car" => Car(f, light, day) = Car(g, light, day)
  <2>1. SUFFICES ASSUME f.kind = "car"
                 PROVE  Car(f, light, day) = Car(g, light, day)
    OBVIOUS
  <2>2. ~OwesSupplement(f, light, day) /\ ~OwesSupplement(g, light, day)
    BY <2>1 DEF SameButListPrice, NeedsListPrice, OwesSupplement, InPremiumWindow
  <2>3. \A b : Co2Band(f, b) = Co2Band(g, b)
    BY DEF SameButListPrice, Co2Band
  <2> HIDE DEF light
  <2> QED
    BY <1>2, <2>2, <2>3 DEF SameButListPrice, Car
<1>6. LightGoods(f, light) = LightGoods(g, light)
  <2>1. \A e, w : EarlyEuro(f, e, w) <=> EarlyEuro(g, e, w)
    BY DEF SameButListPrice, EarlyEuro
  <2> HIDE DEF light
  <2> QED
    BY <1>2, <2>1 DEF SameButListPrice, LightGoods
<1>7. TwoOrThreeWheeler(f, light) = TwoOrThreeWheeler(g, light)
  <2> HIDE DEF light
  <2> QED
    BY <1>1, <1>2 DEF SameButListPrice, TwoOrThreeWheeler
<1>8. /\ Hgv(f, heavy) = Hgv(g, heavy)
      /\ Bus(f, heavy) = Bus(g, heavy)
      /\ Recovery(f, heavy) = Recovery(g, heavy)
  <2> HIDE DEF heavy
  <2> QED
    BY <1>3 DEF SameButListPrice, Hgv, Bus, Recovery
<1>9. f.kind = g.kind
  BY DEF SameButListPrice
<1> HIDE DEF light, heavy
<1>10. CalculateVed(f, day) = CalculateVed(g, day)
  BY <1>2, <1>3, <1>4, <1>5, <1>6, <1>7, <1>8, <1>9 DEF CalculateVed, light, heavy
<1> QED
  BY <1>10

-----------------------------------------------------------------------------
(* The provider's own rate.                                                *)

Tables(t) == {t.firstYear, t.standard, t.premium}

\* Whichever table goes first, one is found whenever one of the three has a rate.
LEMMA FirstOfThree ==
  ASSUME NEW a \in Rates, NEW b \in Rates, NEW c \in Rates
  PROVE  /\ FirstPriced(<<a, b, c>>) \in Rates
         /\ Priced(FirstPriced(<<a, b, c>>)) <=> Priced(a) \/ Priced(b) \/ Priced(c)
<1> DEFINE tables == <<a, b, c>>
           with == {i \in DOMAIN tables : Priced(tables[i])}
<1>1. DOMAIN tables = {1, 2, 3} /\ tables[1] = a /\ tables[2] = b /\ tables[3] = c
  OBVIOUS
<1>2. Unpriced \in Rates /\ ~Priced(Unpriced)
  BY DEF Unpriced, Rate, Rates, Priced, NotSold
<1>3. ASSUME with # {} PROVE Min(with) \in with
  <2>1. with \subseteq {1, 2, 3}
    BY <1>1
  <2>2. \E m \in with : \A i \in with : m <= i
    <3>1. CASE 1 \in with
      BY <2>1, <3>1
    <3>2. CASE 1 \notin with /\ 2 \in with
      BY <2>1, <3>2
    <3>3. CASE 1 \notin with /\ 2 \notin with
      <4>1. with = {3}
        BY <1>3, <2>1, <3>3
      <4> QED
        BY <4>1
    <3> QED
      BY <3>1, <3>2, <3>3
  <2> QED
    BY <2>2 DEF Min
<1>4. CASE with = {}
  <2>1. FirstPriced(tables) = Unpriced
    BY <1>4 DEF FirstPriced
  <2> QED
    BY <1>1, <1>2, <1>4, <2>1
<1>5. CASE with # {}
  <2>1. PICK m \in {1, 2, 3} : m = Min(with) /\ Priced(tables[m]) /\ tables[m] \in Rates
    BY <1>1, <1>3, <1>5
  <2>2. FirstPriced(tables) = [tables[m] EXCEPT !.directDebit = Derived]
    BY <1>5, <2>1 DEF FirstPriced
  <2>3. FirstPriced(tables) \in Rates /\ Priced(FirstPriced(tables))
    BY <2>1, <2>2 DEF Rates, Priced, Derived
  <2> QED
    BY <1>1, <2>1, <2>3
<1> QED
  BY <1>4, <1>5

\* So it is a question of the answer, and not of the day it is read on.
LEMMA ProviderRate ==
  ASSUME NEW t \in TaxAnswers, NEW day
  PROVE  /\ MapTaxResponse(t, day) \in Rates
         /\ Priced(MapTaxResponse(t, day)) <=> \E r \in Tables(t) : Priced(r)
BY FirstOfThree DEF TaxAnswers, MapTaxResponse, Tables
-----------------------------------------------------------------------------
(* Bands.                                                                   *)

\* A set of numbers has a smallest.
LEMMA SmallestExists ==
  ASSUME NEW S \in SUBSET Nat, S # {}
  PROVE  Min(S) \in S /\ \A i \in S : Min(S) <= i
<1>1. PICK m \in S : \A i \in S : ~ (<<i, m>> \in OpToRel(<, Nat))
  BY NatLessThanWellFounded, WFMin
<1>2. ASSUME NEW i \in S
      PROVE  ~ (i < m)
  <2>1. i \in Nat /\ m \in Nat
    OBVIOUS
  <2>2. <<i, m>> \in Nat \X Nat /\ <<i, m>>[1] = i /\ <<i, m>>[2] = m
    BY <2>1
  <2>3. ~ (<<i, m>> \in OpToRel(<, Nat))
    BY <1>1
  <2> QED
    BY <2>2, <2>3, Zenon DEF OpToRel
<1>3. \A i \in S : m <= i
  BY <1>2
<1> QED
  BY <1>3 DEF Min

\* The band a size falls in: the first that it does not exceed.
FirstBand(bands, size) == Min({i \in DOMAIN bands : size <= bands[i].max})

\* A table that has a band for every size.
Ends(bands) ==
  /\ \E n \in Nat : DOMAIN bands = 1 .. n
  /\ \A i \in DOMAIN bands : bands[i].max \in Int
  /\ \E i \in DOMAIN bands : bands[i].max = Unbounded

\* And one in which a later band costs no less.
Rises(bands) ==
  /\ Ends(bands)
  /\ \A i \in DOMAIN bands : bands[i].rate.twelveMonths \in Nat
  /\ \A i, j \in DOMAIN bands :
       i <= j => bands[i].rate.twelveMonths <= bands[j].rate.twelveMonths

\* A bigger size falls in the same band or in a later one.
LEMMA BandsInOrder ==
  ASSUME NEW bands, Ends(bands), NEW small \in Int, NEW big \in Int, small <= big, big <= Unbounded
  PROVE  /\ FirstBand(bands, small) \in DOMAIN bands
         /\ FirstBand(bands, big) \in DOMAIN bands
         /\ FirstBand(bands, small) <= FirstBand(bands, big)
<1> DEFINE Fits(size) == {i \in DOMAIN bands : size <= bands[i].max}
<1>1. Fits(big) # {} /\ Fits(big) \subseteq Fits(small) /\ Fits(small) \in SUBSET Nat
  BY DEF Ends
<1>2. /\ Min(Fits(big)) \in Fits(big)
      /\ Min(Fits(small)) \in Fits(small) /\ \A i \in Fits(small) : Min(Fits(small)) <= i
  BY <1>1, SmallestExists
<1> QED
  BY <1>1, <1>2 DEF FirstBand

\* No band that holds a size comes before the one it falls in.
LEMMA BandIsFirst ==
  ASSUME NEW bands, Ends(bands), NEW size \in Int, NEW i \in DOMAIN bands, size <= bands[i].max
  PROVE  FirstBand(bands, size) <= i
<1> DEFINE fits == {k \in DOMAIN bands : size <= bands[k].max}
<1>1. fits # {} /\ fits \in SUBSET Nat
  BY DEF Ends
<1>2. \A k \in fits : Min(fits) <= k
  BY <1>1, SmallestExists
<1> QED
  BY <1>2 DEF FirstBand

\* A table that rises never gives a bigger size a lower rate.
LEMMA BandRises ==
  ASSUME NEW bands, Rises(bands), NEW small \in Int, NEW big \in Int, small <= big, big <= Unbounded
  PROVE  /\ BandOf(bands, small).twelveMonths \in Nat
         /\ BandOf(bands, big).twelveMonths \in Nat
         /\ BandOf(bands, small).twelveMonths <= BandOf(bands, big).twelveMonths
<1>1. /\ FirstBand(bands, small) \in DOMAIN bands
      /\ FirstBand(bands, big) \in DOMAIN bands
      /\ FirstBand(bands, small) <= FirstBand(bands, big)
  BY BandsInOrder DEF Rises
<1>2. \A size : BandOf(bands, size) = bands[FirstBand(bands, size)].rate
  BY DEF BandOf, FirstBand
<1> QED
  BY <1>1, <1>2 DEF Rises

\* The leaflets' tables rise, and no rate of theirs is below nothing.
LEMMA EnginesRise == Rises(V149.privateLightGoods)
<1> DEFINE b == V149.privateLightGoods
<1>1. DOMAIN b = 1 .. 2
  BY DEF V149
<1>2. /\ b[1].max = 1549 /\ b[1].rate.twelveMonths = 23000
      /\ b[2].max = Unbounded /\ b[2].rate.twelveMonths = 37500
  BY DEF V149, Band, Rate
<1>3. Unbounded \in Int
  BY DEF Unbounded
<1> HIDE DEF b
<1> QED
  BY <1>1, <1>2, <1>3 DEF Rises, Ends, b

\* The tables by engine size of motorcycles and tricycles rise.
LEMMA WheelersRise ==
  Rises(V149.twoAndThreeWheelers.motorcycle) /\ Rises(V149.twoAndThreeWheelers.tricycle)
<1>1. Unbounded \in Int
  BY DEF Unbounded
<1>2. Rises(V149.twoAndThreeWheelers.motorcycle)
  <2> DEFINE b == V149.twoAndThreeWheelers.motorcycle
  <2>1. DOMAIN b = 1 .. 4
    BY DEF V149
  <2>2. /\ b[1].max = 150 /\ b[1].rate.twelveMonths = 2700
        /\ b[2].max = 400 /\ b[2].rate.twelveMonths = 5900
        /\ b[3].max = 600 /\ b[3].rate.twelveMonths = 9000
        /\ b[4].max = Unbounded /\ b[4].rate.twelveMonths = 12500
    BY DEF V149, Band, Rate
  <2> HIDE DEF b
  <2>3. Rises(b)
    BY <1>1, <2>1, <2>2 DEF Rises, Ends
  <2> QED
    BY <2>3 DEF b
<1>3. Rises(V149.twoAndThreeWheelers.tricycle)
  <2> DEFINE b == V149.twoAndThreeWheelers.tricycle
  <2>1. DOMAIN b = 1 .. 2
    BY DEF V149
  <2>2. /\ b[1].max = 150 /\ b[1].rate.twelveMonths = 2700
        /\ b[2].max = Unbounded /\ b[2].rate.twelveMonths = 12500
    BY DEF V149, Band, Rate
  <2> HIDE DEF b
  <2>3. Rises(b)
    BY <1>1, <2>1, <2>2 DEF Rises, Ends
  <2> QED
    BY <2>3 DEF b
<1> QED
  BY <1>2, <1>3

\* So do those of buses and of recovery vehicles.
LEMMA BusesAndRecoveryRise == Rises(V149_1.buses.bands) /\ Rises(V149_1.recovery)
<1>1. Unbounded \in Int
  BY DEF Unbounded
<1>2. Rises(V149_1.buses.bands)
  <2> DEFINE b == V149_1.buses.bands
  <2>1. DOMAIN b = 1 .. 4
    BY DEF V149_1
  <2>2. /\ b[1].max = 17 /\ b[1].rate.twelveMonths = 17700
        /\ b[2].max = 36 /\ b[2].rate.twelveMonths = 24000
        /\ b[3].max = 61 /\ b[3].rate.twelveMonths = 35000
        /\ b[4].max = Unbounded /\ b[4].rate.twelveMonths = 53000
    BY DEF V149_1, Band, Rate
  <2> HIDE DEF b
  <2>3. Rises(b)
    BY <1>1, <2>1, <2>2 DEF Rises, Ends
  <2> QED
    BY <2>3 DEF b
<1>3. Rises(V149_1.recovery)
  <2> DEFINE b == V149_1.recovery
  <2>1. DOMAIN b = 1 .. 2
    BY DEF V149_1
  <2>2. /\ b[1].max = 25000 /\ b[1].rate.twelveMonths = 17700
        /\ b[2].max = Unbounded /\ b[2].rate.twelveMonths = 44000
    BY DEF V149_1, Band, Rate
  <2> HIDE DEF b
  <2>3. Rises(b)
    BY <1>1, <2>1, <2>2 DEF Rises, Ends
  <2> QED
    BY <2>3 DEF b
<1> QED
  BY <1>2, <1>3

\* And that of the CO2 bands.
LEMMA Co2Rises == Rises(V149.co2Bands.bands)
<1> DEFINE b == V149.co2Bands.bands
<1>1. DOMAIN b = 1 .. 13
  BY DEF V149
<1>2. /\ b[1].max = 100 /\ b[2].max = 110 /\ b[3].max = 120 /\ b[4].max = 130 /\ b[5].max = 140
      /\ b[6].max = 150 /\ b[7].max = 165 /\ b[8].max = 175 /\ b[9].max = 185 /\ b[10].max = 200
      /\ b[11].max = 225 /\ b[12].max = 255 /\ b[13].max = Unbounded
  BY DEF V149, Band
<1>3. /\ b[1].rate.twelveMonths = 2000 /\ b[2].rate.twelveMonths = 2000
      /\ b[3].rate.twelveMonths = 3500 /\ b[4].rate.twelveMonths = 17000
      /\ b[5].rate.twelveMonths = 20000 /\ b[6].rate.twelveMonths = 22500
      /\ b[7].rate.twelveMonths = 27500 /\ b[8].rate.twelveMonths = 32500
      /\ b[9].rate.twelveMonths = 36000 /\ b[10].rate.twelveMonths = 41000
      /\ b[11].rate.twelveMonths = 44500 /\ b[12].rate.twelveMonths = 76000
      /\ b[13].rate.twelveMonths = 79000
  BY DEF V149, Band, Rate
<1>4. Unbounded \in Int
  BY DEF Unbounded
<1> HIDE DEF b
<1>5. Ends(b)
  BY <1>1, <1>2, <1>4 DEF Ends
<1>6. \A i \in 1 .. 13 : i \in {1, 2, 3, 4, 5, 6, 7, 8, 9, 10, 11, 12, 13}
  OBVIOUS
<1>7. \A i \in DOMAIN b : b[i].rate.twelveMonths \in Nat
  BY <1>1, <1>3, <1>6
<1>8. \A i, j \in DOMAIN b : i <= j => b[i].rate.twelveMonths <= b[j].rate.twelveMonths
  BY <1>1, <1>3, <1>6
<1> QED
  BY <1>5, <1>7, <1>8 DEF Rises, b

-----------------------------------------------------------------------------
(* More is never cheaper.                                                   *)

\* Facts that the packages can give, and the kinds that the calculator prices.
Kinds == Range(SpecialClasses) \union Range(WordKinds) \union {"unknown"}

AreFacts(f) ==
  /\ f.kind \in Kinds
  /\ f.firstRegistered \in Int
  /\ f.co2 \in Int /\ f.co2 <= Unbounded
  /\ f.engineCc \in Int /\ f.engineCc <= Unbounded
  /\ f.seats \in Int /\ f.seats <= Unbounded
  /\ f.grossWeightKg \in Int /\ f.grossWeightKg <= Unbounded
  /\ f.massInServiceKg \in Int
  /\ f.listPrice \in Int

\* A size that is the same, or is known and bigger.
AtLeast(big, small) == big = small \/ (small # Unknown /\ big > small)

\* g is of the same kind and age as f, and nowhere smaller.
Bigger(g, f) ==
  /\ g.kind = f.kind
  /\ g.firstRegistered = f.firstRegistered
  /\ g.yearOfManufacture = f.yearOfManufacture
  /\ g.zeroEmission = f.zeroEmission
  /\ g.euroStatus = f.euroStatus
  /\ AtLeast(g.co2, f.co2)
  /\ AtLeast(g.engineCc, f.engineCc)
  /\ AtLeast(g.seats, f.seats)
  /\ AtLeast(g.grossWeightKg, f.grossWeightKg)
  /\ AtLeast(g.massInServiceKg, f.massInServiceKg)
  /\ AtLeast(g.listPrice, f.listPrice)

\* r may not be sold, or is dearer than s or as dear.
NoCheaper(r, s) == Priced(r) => s.twelveMonths <= r.twelveMonths

\* What has no rate has a price below every rate, and is not priced.
LEMMA NotSoldIsCheapest ==
  /\ Unpriced.twelveMonths = -1
  /\ ~Priced(Unpriced)
BY DEF Unpriced, Rate, NotSold, Priced

\* The heavy leaflet has one block, in force on every day.
LEMMA HeavyRates ==
  ASSUME NEW day \in Int
  PROVE  RatesOn(HeavyVehicleRates, day) = V149_1
<1>1. V149_1.effectiveFrom \in Int
  BY DEF V149_1
<1> QED
  BY <1>1, OneBlock DEF HeavyVehicleRates

\* A bigger engine never pays less, by any table that rises.
LEMMA EngineNoCheaper ==
  ASSUME NEW f, NEW g, AreFacts(f), AreFacts(g), Bigger(g, f), NEW bands, Rises(bands)
  PROVE  /\ NoCheaper(ByEngine(g, bands), ByEngine(f, bands))
         /\ ByEngine(f, bands).twelveMonths \in Int
<1>1. Unknown \in Int /\ f.engineCc \in Int /\ g.engineCc \in Int
      /\ f.engineCc <= Unbounded /\ g.engineCc <= Unbounded
  BY DEF Unknown, AreFacts
<1>2. f.engineCc <= g.engineCc
  BY <1>1 DEF Bigger, AtLeast
<1>3. g.engineCc = Unknown \/ (f.engineCc = Unknown /\ g.engineCc = f.engineCc) \/ f.engineCc # Unknown
  BY DEF Bigger, AtLeast
<1>4. /\ BandOf(bands, f.engineCc).twelveMonths \in Nat
      /\ BandOf(bands, g.engineCc).twelveMonths \in Nat
      /\ BandOf(bands, f.engineCc).twelveMonths <= BandOf(bands, g.engineCc).twelveMonths
  BY <1>1, <1>2, BandRises
<1> QED
  BY <1>3, <1>4, NotSoldIsCheapest DEF ByEngine, NoCheaper, Bigger, AtLeast

\* A table's rates lie within the range of its bands'.
LEMMA EngineWithin ==
  ASSUME NEW f, AreFacts(f), NEW bands, Rises(bands), NEW low \in Int, NEW high \in Int, 0 <= high,
         \A i \in DOMAIN bands : /\ low <= bands[i].rate.twelveMonths
                                 /\ bands[i].rate.twelveMonths <= high
  PROVE  /\ ByEngine(f, bands).twelveMonths <= high
         /\ Priced(ByEngine(f, bands)) => low <= ByEngine(f, bands).twelveMonths
<1>1. FirstBand(bands, f.engineCc) \in DOMAIN bands
  BY BandsInOrder DEF AreFacts, Rises
<1>2. BandOf(bands, f.engineCc) = bands[FirstBand(bands, f.engineCc)].rate
  BY DEF BandOf, FirstBand
<1>3. /\ low <= BandOf(bands, f.engineCc).twelveMonths
      /\ BandOf(bands, f.engineCc).twelveMonths <= high
  BY <1>1, <1>2
<1> QED
  BY <1>3, NotSoldIsCheapest DEF ByEngine

\* What is taxed as private or light goods pays the lower of two rates or more.
LEMMA PrivateWithin ==
  ASSUME NEW f, AreFacts(f)
  PROVE  Priced(PrivateLightGoods(f, V149)) => 23000 <= PrivateLightGoods(f, V149).twelveMonths
<1> DEFINE b == V149.privateLightGoods
<1>1. DOMAIN b = 1 .. 2
  BY DEF V149
<1>2. b[1].rate.twelveMonths = 23000 /\ b[2].rate.twelveMonths = 37500
  BY DEF V149, Band, Rate
<1>3. Rises(b)
  BY EnginesRise
<1> HIDE DEF b
<1>4. \A i \in DOMAIN b : 23000 <= b[i].rate.twelveMonths /\ b[i].rate.twelveMonths <= 37500
  BY <1>1, <1>2
<1>5. Priced(ByEngine(f, b)) => 23000 <= ByEngine(f, b).twelveMonths
  BY <1>3, <1>4, EngineWithin
<1> QED
  BY <1>5 DEF PrivateLightGoods, b

\* Nor does one that is taxed as private or light goods.
LEMMA PrivateNoCheaper ==
  ASSUME NEW f, NEW g, AreFacts(f), AreFacts(g), Bigger(g, f)
  PROVE  /\ NoCheaper(PrivateLightGoods(g, V149), PrivateLightGoods(f, V149))
         /\ PrivateLightGoods(f, V149).twelveMonths \in Int
BY EnginesRise, EngineNoCheaper DEF PrivateLightGoods

\* No motorcycle or tricycle pays more than the dearest of them.
LEMMA WheelersWithin ==
  ASSUME NEW f, AreFacts(f), NEW kind \in {"motorcycle", "tricycle"}
  PROVE  ByEngine(f, V149.twoAndThreeWheelers[kind]).twelveMonths <= 12500
<1>1. CASE kind = "motorcycle"
  <2> DEFINE b == V149.twoAndThreeWheelers.motorcycle
  <2>1. DOMAIN b = 1 .. 4
    BY DEF V149
  <2>2. /\ b[1].rate.twelveMonths = 2700 /\ b[2].rate.twelveMonths = 5900
        /\ b[3].rate.twelveMonths = 9000 /\ b[4].rate.twelveMonths = 12500
    BY DEF V149, Band, Rate
  <2>3. Rises(b) /\ V149.twoAndThreeWheelers[kind] = b
    BY <1>1, WheelersRise
  <2> HIDE DEF b
  <2>4. \A i \in DOMAIN b : 2700 <= b[i].rate.twelveMonths /\ b[i].rate.twelveMonths <= 12500
    BY <2>1, <2>2
  <2> QED
    BY <2>3, <2>4, EngineWithin
<1>2. CASE kind = "tricycle"
  <2> DEFINE b == V149.twoAndThreeWheelers.tricycle
  <2>1. DOMAIN b = 1 .. 2
    BY DEF V149
  <2>2. b[1].rate.twelveMonths = 2700 /\ b[2].rate.twelveMonths = 12500
    BY DEF V149, Band, Rate
  <2>3. Rises(b) /\ V149.twoAndThreeWheelers[kind] = b
    BY <1>2, WheelersRise
  <2> HIDE DEF b
  <2>4. \A i \in DOMAIN b : 2700 <= b[i].rate.twelveMonths /\ b[i].rate.twelveMonths <= 12500
    BY <2>1, <2>2
  <2> QED
    BY <2>3, <2>4, EngineWithin
<1> QED
  BY <1>1, <1>2

\* A bigger or heavier motorcycle or tricycle never pays less.
LEMMA WheelersNoCheaper ==
  ASSUME NEW f, NEW g, AreFacts(f), AreFacts(g), Bigger(g, f), f.kind \in {"motorcycle", "tricycle"}
  PROVE  NoCheaper(TwoOrThreeWheeler(g, V149), TwoOrThreeWheeler(f, V149))
<1> DEFINE table == V149.twoAndThreeWheelers
<1>1. table.maxWeightKg = 450 /\ table.zeroEmission.twelveMonths = 2700
  BY DEF V149, Rate
<1>2. f.massInServiceKg \in Int /\ g.massInServiceKg \in Int
  BY DEF AreFacts
<1>3. f.massInServiceKg <= g.massInServiceKg
  BY <1>2 DEF Bigger, AtLeast
<1>4. g.kind = f.kind /\ g.zeroEmission = f.zeroEmission
  BY DEF Bigger
<1>5. Rises(table[f.kind])
  BY WheelersRise
<1>6. /\ NoCheaper(ByEngine(g, table[f.kind]), ByEngine(f, table[f.kind]))
      /\ ByEngine(f, table[f.kind]).twelveMonths \in Int
  BY <1>5, EngineNoCheaper
<1>7. ByEngine(f, table[f.kind]).twelveMonths <= 12500
  BY WheelersWithin
<1> HIDE DEF table
<1>8. CASE f.massInServiceKg > 450
  <2>1. TwoOrThreeWheeler(f, V149) = PrivateLightGoods(f, V149)
    BY <1>1, <1>8 DEF TwoOrThreeWheeler, table
  <2>2. TwoOrThreeWheeler(g, V149) = PrivateLightGoods(g, V149)
    BY <1>1, <1>2, <1>3, <1>8 DEF TwoOrThreeWheeler, table
  <2> QED
    BY <2>1, <2>2, PrivateNoCheaper
<1>9. CASE ~(f.massInServiceKg > 450)
  <2>1. TwoOrThreeWheeler(f, V149) = IF f.zeroEmission THEN table.zeroEmission
                                     ELSE ByEngine(f, table[f.kind])
    BY <1>1, <1>9 DEF TwoOrThreeWheeler, table
  <2>2. CASE g.massInServiceKg > 450
    <3>1. TwoOrThreeWheeler(g, V149) = PrivateLightGoods(g, V149)
      BY <1>1, <2>2 DEF TwoOrThreeWheeler, table
    <3>2. TwoOrThreeWheeler(f, V149).twelveMonths <= 12500
      BY <1>1, <1>7, <2>1
    <3>3. Priced(TwoOrThreeWheeler(g, V149)) => 23000 <= TwoOrThreeWheeler(g, V149).twelveMonths
      BY <3>1, PrivateWithin
    <3>4. TwoOrThreeWheeler(f, V149).twelveMonths \in Int
      BY <1>1, <1>6, <2>1
    <3>5. PrivateLightGoods(g, V149).twelveMonths \in Int
      BY PrivateNoCheaper DEF Bigger, AtLeast
    <3> QED
      BY <3>1, <3>2, <3>3, <3>4, <3>5 DEF NoCheaper
  <2>3. CASE ~(g.massInServiceKg > 450)
    <3>1. TwoOrThreeWheeler(g, V149) = IF f.zeroEmission THEN table.zeroEmission
                                       ELSE ByEngine(g, table[f.kind])
      BY <1>1, <1>4, <2>3 DEF TwoOrThreeWheeler, table
    <3> QED
      BY <1>1, <1>6, <2>1, <3>1 DEF NoCheaper
  <2> QED
    BY <2>2, <2>3
<1> QED
  BY <1>8, <1>9

\* Over 225g/km a car's year may cap it in band K, whatever its size.
LEMMA Co2NoCheaper ==
  ASSUME NEW f, NEW g, AreFacts(f), AreFacts(g), g.firstRegistered = f.firstRegistered,
         f.co2 <= g.co2
  PROVE  /\ Co2Band(f, V149.co2Bands).twelveMonths <= Co2Band(g, V149.co2Bands).twelveMonths
         /\ Co2Band(f, V149.co2Bands).twelveMonths \in Nat
         /\ f.co2 <= 100 => Co2Band(f, V149.co2Bands).twelveMonths = 2000
<1> DEFINE b == V149.co2Bands.bands
           capped(h) == h.co2 > 225 /\ h.firstRegistered < V149.co2Bands.bandKCapBefore
<1>1. V149.co2Bands.bandK = 11 /\ V149.co2Bands.bandKCapBefore = 20060323
  BY DEF V149
<1>2. /\ 1 \in DOMAIN b /\ 11 \in DOMAIN b /\ DOMAIN b \subseteq Nat \ {0}
      /\ b[1].max = 100 /\ b[11].max = 225
      /\ b[1].rate.twelveMonths = 2000 /\ b[11].rate.twelveMonths = 44500
  BY DEF V149, Band, Rate
<1>3. Rises(b) /\ Ends(b)
  BY Co2Rises DEF Rises
<1>4. f.co2 \in Int /\ g.co2 \in Int /\ f.co2 <= Unbounded /\ g.co2 <= Unbounded
      /\ f.firstRegistered \in Int
  BY DEF AreFacts
<1> HIDE DEF b
<1>5. \A h : Co2Band(h, V149.co2Bands) = IF capped(h) THEN b[11].rate ELSE BandOf(b, h.co2)
  BY <1>1 DEF Co2Band, b
<1>6. /\ BandOf(b, f.co2).twelveMonths \in Nat
      /\ BandOf(b, g.co2).twelveMonths \in Nat
      /\ BandOf(b, f.co2).twelveMonths <= BandOf(b, g.co2).twelveMonths
  BY <1>3, <1>4, BandRises
<1>7. \A size : BandOf(b, size) = b[FirstBand(b, size)].rate
  BY DEF BandOf, FirstBand
<1>8. FirstBand(b, f.co2) \in DOMAIN b
  BY <1>3, <1>4, BandsInOrder
<1>9. f.co2 <= 225 => BandOf(b, f.co2).twelveMonths <= 44500
  BY <1>2, <1>3, <1>4, <1>7, <1>8, BandIsFirst DEF Rises
<1>10. f.co2 <= 100 => BandOf(b, f.co2).twelveMonths = 2000
  <2> SUFFICES ASSUME f.co2 <= 100 PROVE BandOf(b, f.co2).twelveMonths = 2000
    OBVIOUS
  <2>1. FirstBand(b, f.co2) <= 1
    BY <1>2, <1>3, <1>4, BandIsFirst
  <2>2. FirstBand(b, f.co2) = 1
    BY <1>2, <1>8, <2>1
  <2> QED
    BY <1>2, <1>7, <2>2
<1>11. capped(f) => capped(g)
  BY <1>1, <1>4
<1>12. ~capped(f) /\ capped(g) => f.co2 <= 225
  BY <1>1, <1>4
<1> HIDE DEF capped
<1>13. f.co2 <= 100 => ~capped(f)
  BY <1>4 DEF capped
<1> QED
  BY <1>2, <1>5, <1>6, <1>9, <1>10, <1>11, <1>12, <1>13

\* A dirtier, dearer or bigger car never pays less, before 2001, in bands or on list price.
LEMMA CarNoCheaper ==
  ASSUME NEW f, NEW g, AreFacts(f), AreFacts(g), Bigger(g, f), NEW day \in Nat
  PROVE  NoCheaper(Car(g, V149, day), Car(f, V149, day))
<1>1. g.firstRegistered = f.firstRegistered /\ g.zeroEmission = f.zeroEmission
  BY DEF Bigger
<1>2. CASE f.firstRegistered = Unknown
  BY <1>1, <1>2, NotSoldIsCheapest DEF Car, NoCheaper
<1>3. CASE f.firstRegistered # Unknown /\ f.firstRegistered >= V149.post2017.from
  <2>1. /\ V149.post2017.standard.twelveMonths = 20000
        /\ V149.post2017.premium.twelveMonths = 64000
        /\ V149.post2017.listPriceThreshold = 4000000
        /\ V149.post2017.zeroEmissionListPriceThreshold = 5000000
    BY DEF V149, Rate
  <2>2. OwesSupplement(f, V149, day) => OwesSupplement(g, V149, day)
    <3>1. /\ ListPriceThreshold(g, V149.post2017) = ListPriceThreshold(f, V149.post2017)
          /\ ListPriceThreshold(f, V149.post2017) \in Int
      BY <1>1, <2>1 DEF ListPriceThreshold
    <3>2. f.listPrice \in Int /\ g.listPrice \in Int /\ f.listPrice <= g.listPrice
      BY DEF AreFacts, Bigger, AtLeast
    <3> QED
      BY <1>1, <3>1, <3>2 DEF OwesSupplement, InPremiumWindow
  <2>3. \A h \in {f, g} : Car(h, V149, day) = IF OwesSupplement(h, V149, day)
                                             THEN V149.post2017.premium ELSE V149.post2017.standard
    BY <1>1, <1>3 DEF Car
  <2> QED
    BY <2>1, <2>2, <2>3 DEF NoCheaper
<1>4. CASE f.firstRegistered # Unknown /\ ~(f.firstRegistered >= V149.post2017.from)
  <2> DEFINE banded(h) == f.firstRegistered >= V149.co2Bands.from /\ h.co2 # Unknown
  <2>1. \A h \in {f, g} : Car(h, V149, day) = IF banded(h) THEN Co2Band(h, V149.co2Bands)
                                             ELSE PrivateLightGoods(h, V149)
    BY <1>1, <1>4 DEF Car
  <2>2. /\ f.co2 \in Int /\ g.co2 \in Int /\ f.co2 <= g.co2
        /\ f.co2 = Unknown => g.co2 = Unknown
    BY DEF AreFacts, Bigger, AtLeast
  <2>3. banded(g) => banded(f)
    BY <2>2
  <2>4. banded(f) /\ ~banded(g) => f.co2 <= 100
    BY <2>2 DEF Unknown
  <2>5. /\ Co2Band(f, V149.co2Bands).twelveMonths <= Co2Band(g, V149.co2Bands).twelveMonths
        /\ Co2Band(f, V149.co2Bands).twelveMonths \in Nat
        /\ f.co2 <= 100 => Co2Band(f, V149.co2Bands).twelveMonths = 2000
    BY <1>1, <2>2, Co2NoCheaper
  <2>6. NoCheaper(PrivateLightGoods(g, V149), PrivateLightGoods(f, V149))
    BY PrivateNoCheaper
  <2>7. Priced(PrivateLightGoods(g, V149)) => 23000 <= PrivateLightGoods(g, V149).twelveMonths
    BY PrivateWithin
  <2>8. PrivateLightGoods(g, V149).twelveMonths \in Int
    BY PrivateNoCheaper DEF Bigger, AtLeast
  <2> HIDE DEF banded
  <2> QED
    BY <2>1, <2>3, <2>4, <2>5, <2>6, <2>7, <2>8 DEF NoCheaper
<1> QED
  BY <1>2, <1>3, <1>4

\* A van that is bigger never pays less.
LEMMA LightGoodsNoCheaper ==
  ASSUME NEW f, NEW g, AreFacts(f), AreFacts(g), Bigger(g, f)
  PROVE  NoCheaper(LightGoods(g, V149), LightGoods(f, V149))
<1>1. g.firstRegistered = f.firstRegistered /\ g.zeroEmission = f.zeroEmission
      /\ g.euroStatus = f.euroStatus
  BY DEF Bigger
<1>2. \A e, w : EarlyEuro(g, e, w) <=> EarlyEuro(f, e, w)
  BY <1>1 DEF EarlyEuro
<1>3. NoCheaper(PrivateLightGoods(g, V149), PrivateLightGoods(f, V149))
  BY PrivateNoCheaper
<1>4. /\ V149.lightGoods.standard.twelveMonths = 36000
      /\ V149.lightGoods.euro4.rate.twelveMonths = 14000
      /\ V149.lightGoods.euro5.rate.twelveMonths = 14000
  BY DEF V149, Rate
<1> QED
  BY <1>1, <1>2, <1>3, <1>4, NotSoldIsCheapest DEF LightGoods, NoCheaper

\* The levy rises with the weight, for either Euro status.
LEMMA LevyNoCheaper ==
  ASSUME NEW f, NEW g, AreFacts(f), AreFacts(g), f.grossWeightKg <= g.grossWeightKg,
         f.euroStatus = g.euroStatus, f.firstRegistered = g.firstRegistered
  PROVE  LET levy(h) == ByEuroStatus(h, BandOf(V149_1.hgv.levy, h.grossWeightKg)).twelveMonths
         IN  levy(f) \in Nat /\ levy(g) \in Nat /\ levy(f) <= levy(g)
<1> DEFINE b == V149_1.hgv.levy
           i == FirstBand(b, f.grossWeightKg)
           j == FirstBand(b, g.grossWeightKg)
<1>1. DOMAIN b = 1 .. 3 /\ Unbounded \in Int
  BY DEF V149_1, Unbounded
<1>2. b[1].max = 31000 /\ b[2].max = 38000 /\ b[3].max = Unbounded
  BY DEF V149_1, Band
<1>3. /\ b[1].rate.euroVIOrLater.twelveMonths = 16100
      /\ b[2].rate.euroVIOrLater.twelveMonths = 38700
      /\ b[3].rate.euroVIOrLater.twelveMonths = 61900
      /\ b[1].rate.euroVOrEarlier.twelveMonths = 20900
      /\ b[2].rate.euroVOrEarlier.twelveMonths = 50300
      /\ b[3].rate.euroVOrEarlier.twelveMonths = 80400
  BY DEF V149_1, Band, Levy, Rate
<1>4. f.grossWeightKg \in Int /\ g.grossWeightKg \in Int /\ g.grossWeightKg <= Unbounded
  BY DEF AreFacts
<1>5. IsEuroVI(f) <=> IsEuroVI(g)
  BY DEF IsEuroVI
<1> HIDE DEF b
<1>6. Ends(b)
  BY <1>1, <1>2 DEF Ends
<1>7. i \in DOMAIN b /\ j \in DOMAIN b /\ i <= j
  BY <1>4, <1>6, BandsInOrder
<1>8. \A size : BandOf(b, size) = b[FirstBand(b, size)].rate
  BY DEF BandOf, FirstBand
<1> HIDE DEF i, j
<1>9. i \in {1, 2, 3} /\ j \in {1, 2, 3} /\ i <= j
  BY <1>1, <1>7
<1>10. BandOf(b, f.grossWeightKg) = b[i].rate /\ BandOf(b, g.grossWeightKg) = b[j].rate
  BY <1>8 DEF i, j
<1>11. CASE IsEuroVI(f)
  <2>1. /\ ByEuroStatus(f, b[i].rate) = b[i].rate.euroVIOrLater
        /\ ByEuroStatus(g, b[j].rate) = b[j].rate.euroVIOrLater
    BY <1>5, <1>11 DEF ByEuroStatus
  <2> QED
    BY <1>3, <1>9, <1>10, <2>1 DEF b
<1>12. CASE ~IsEuroVI(f)
  <2>1. /\ ByEuroStatus(f, b[i].rate) = b[i].rate.euroVOrEarlier
        /\ ByEuroStatus(g, b[j].rate) = b[j].rate.euroVOrEarlier
    BY <1>5, <1>12 DEF ByEuroStatus
  <2> QED
    BY <1>3, <1>9, <1>10, <2>1 DEF b
<1> QED
  BY <1>11, <1>12

\* A heavier lorry never pays less.
LEMMA HgvNoCheaper ==
  ASSUME NEW f, NEW g, AreFacts(f), AreFacts(g), Bigger(g, f)
  PROVE  NoCheaper(Hgv(g, V149_1), Hgv(f, V149_1))
<1> DEFINE levy(h) == ByEuroStatus(h, BandOf(V149_1.hgv.levy, h.grossWeightKg)).twelveMonths
<1>1. /\ V149_1.hgv.levyFromKg = 12000 /\ V149_1.hgv.underLevyWeight.twelveMonths = 100
      /\ V149_1.hgv.ved.twelveMonths = 100
  BY DEF V149_1, Rate
<1>2. f.grossWeightKg \in Int /\ g.grossWeightKg \in Int /\ f.grossWeightKg <= g.grossWeightKg
      /\ (f.grossWeightKg = Unknown => g.grossWeightKg = Unknown)
  BY DEF AreFacts, Bigger, AtLeast
<1>3. levy(f) \in Nat /\ levy(g) \in Nat /\ levy(f) <= levy(g)
  BY <1>2, LevyNoCheaper DEF Bigger
<1>4. \A h : Hgv(h, V149_1).twelveMonths =
               IF h.grossWeightKg = Unknown THEN -1
               ELSE IF h.grossWeightKg < 12000 THEN 100 ELSE 100 + levy(h)
  BY <1>1, NotSoldIsCheapest DEF Hgv, Rate
<1> HIDE DEF levy
<1>5. g.grossWeightKg = Unknown => ~Priced(Hgv(g, V149_1))
  BY NotSoldIsCheapest DEF Hgv
<1> QED
  BY <1>2, <1>3, <1>4, <1>5 DEF NoCheaper

\* A bus with more seats never pays less.
LEMMA BusNoCheaper ==
  ASSUME NEW f, NEW g, AreFacts(f), AreFacts(g), Bigger(g, f)
  PROVE  NoCheaper(Bus(g, V149_1), Bus(f, V149_1))
<1>1. f.seats \in Int /\ g.seats \in Int /\ f.seats <= g.seats /\ g.seats <= Unbounded
  BY DEF AreFacts, Bigger, AtLeast
<1>2. /\ BandOf(V149_1.buses.bands, f.seats).twelveMonths \in Nat
      /\ BandOf(V149_1.buses.bands, g.seats).twelveMonths \in Nat
      /\ BandOf(V149_1.buses.bands, f.seats).twelveMonths
           <= BandOf(V149_1.buses.bands, g.seats).twelveMonths
  BY <1>1, BusesAndRecoveryRise, BandRises
<1>3. V149_1.buses.minSeats = 10
  BY DEF V149_1
<1> QED
  BY <1>1, <1>2, <1>3, NotSoldIsCheapest DEF Bus, NoCheaper

\* A heavier recovery vehicle never pays less.
LEMMA RecoveryNoCheaper ==
  ASSUME NEW f, NEW g, AreFacts(f), AreFacts(g), Bigger(g, f)
  PROVE  NoCheaper(Recovery(g, V149_1), Recovery(f, V149_1))
<1>1. f.grossWeightKg \in Int /\ g.grossWeightKg \in Int /\ f.grossWeightKg <= g.grossWeightKg
      /\ g.grossWeightKg <= Unbounded /\ (f.grossWeightKg = Unknown => g.grossWeightKg = Unknown)
  BY DEF AreFacts, Bigger, AtLeast
<1>2. /\ BandOf(V149_1.recovery, f.grossWeightKg).twelveMonths \in Nat
      /\ BandOf(V149_1.recovery, g.grossWeightKg).twelveMonths \in Nat
      /\ BandOf(V149_1.recovery, f.grossWeightKg).twelveMonths
           <= BandOf(V149_1.recovery, g.grossWeightKg).twelveMonths
  BY <1>1, BusesAndRecoveryRise, BandRises
<1> QED
  BY <1>1, <1>2, NotSoldIsCheapest DEF Recovery, NoCheaper

\* The rates that are the same whatever the size are sums of money.
LEMMA FlatRates ==
  ASSUME NEW kind \in {"private-hgv", "special-vehicle", "small-island", "general-haulage"}
  PROVE  V149_1.flat[kind].twelveMonths \in Int
BY DEF V149_1, Rate

\* The kinds a vehicle may be read as, by name.
LEMMA KindsAre ==
  Kinds = {"private-hgv", "recovery", "special-types", "combined-transport", "general-haulage",
           "small-island", "special-vehicle", "tricycle", "motorcycle", "motor-caravan", "bus",
           "hgv", "light-goods", "car", "unknown"}
<1>1. Range(SpecialClasses) = {"private-hgv", "recovery", "special-types", "combined-transport",
                               "general-haulage", "small-island", "special-vehicle"}
  BY DEF Range, SpecialClasses
<1>2. Range(WordKinds) = {"tricycle", "motorcycle", "motor-caravan", "bus", "hgv", "light-goods",
                          "car"}
  BY DEF Range, WordKinds
<1> QED
  BY <1>1, <1>2 DEF Kinds

\* Of any kind, a bigger vehicle never pays less.
LEMMA NothingIsCheaper ==
  ASSUME NEW f, NEW g, AreFacts(f), AreFacts(g), Bigger(g, f), NEW day \in Nat
  PROVE  NoCheaper(CalculateVed(g, day), CalculateVed(f, day))
<1>1. RatesOn(LightVehicleRates, day) = V149 /\ RatesOn(HeavyVehicleRates, day) = V149_1
  BY LightRates, HeavyRates
<1>2. g.kind = f.kind /\ (Historic(g, V149) <=> Historic(f, V149))
  BY DEF Bigger, Historic
<1>3. CASE f.kind = "unknown" \/ Historic(f, V149)
  BY <1>1, <1>2, <1>3, NotSoldIsCheapest DEF CalculateVed, NoCheaper
<1>4. CASE f.kind # "unknown" /\ ~Historic(f, V149)
  <2>1. CASE f.kind = "car"
    <3>1. \A h \in {f, g} : CalculateVed(h, day) = Car(h, V149, day)
      BY <1>1, <1>2, <1>4, <2>1 DEF CalculateVed
    <3> QED
      BY <3>1, CarNoCheaper
  <2>2. CASE f.kind = "motor-caravan"
    <3>1. \A h \in {f, g} : CalculateVed(h, day) = PrivateLightGoods(h, V149)
      BY <1>1, <1>2, <1>4, <2>2 DEF CalculateVed
    <3> QED
      BY <3>1, PrivateNoCheaper
  <2>3. CASE f.kind = "light-goods"
    <3>1. \A h \in {f, g} : CalculateVed(h, day) = LightGoods(h, V149)
      BY <1>1, <1>2, <1>4, <2>3 DEF CalculateVed
    <3> QED
      BY <3>1, LightGoodsNoCheaper
  <2>4. CASE f.kind \in {"motorcycle", "tricycle"}
    <3>1. \A h \in {f, g} : CalculateVed(h, day) = TwoOrThreeWheeler(h, V149)
      BY <1>1, <1>2, <1>4, <2>4 DEF CalculateVed
    <3> QED
      BY <2>4, <3>1, WheelersNoCheaper
  <2>5. CASE f.kind = "hgv"
    <3>1. \A h \in {f, g} : CalculateVed(h, day) = Hgv(h, V149_1)
      BY <1>1, <1>2, <1>4, <2>5 DEF CalculateVed
    <3> QED
      BY <3>1, HgvNoCheaper
  <2>6. CASE f.kind = "bus"
    <3>1. \A h \in {f, g} : CalculateVed(h, day) = Bus(h, V149_1)
      BY <1>1, <1>2, <1>4, <2>6 DEF CalculateVed
    <3> QED
      BY <3>1, BusNoCheaper
  <2>7. CASE f.kind = "recovery"
    <3>1. \A h \in {f, g} : CalculateVed(h, day) = Recovery(h, V149_1)
      BY <1>1, <1>2, <1>4, <2>7 DEF CalculateVed
    <3> QED
      BY <3>1, RecoveryNoCheaper
  <2>8. CASE f.kind \in {"special-types", "combined-transport"}
    <3>1. \A l : ByEuroStatus(g, l) = ByEuroStatus(f, l)
      BY DEF Bigger, ByEuroStatus, IsEuroVI
    <3>2. /\ ByEuroStatus(f, V149_1.specialTypes).twelveMonths \in Int
          /\ ByEuroStatus(f, V149_1.combinedTransport).twelveMonths \in Int
      BY DEF V149_1, Levy, Rate, ByEuroStatus
    <3>3. \A h \in {f, g} : CalculateVed(h, day) =
            IF f.kind = "special-types" THEN ByEuroStatus(h, V149_1.specialTypes)
            ELSE ByEuroStatus(h, V149_1.combinedTransport)
      BY <1>1, <1>2, <1>4, <2>8 DEF CalculateVed
    <3> QED
      BY <3>1, <3>2, <3>3 DEF NoCheaper
  <2>9. CASE f.kind \in {"private-hgv", "special-vehicle", "small-island", "general-haulage"}
    <3>1. \A h \in {f, g} : CalculateVed(h, day) = V149_1.flat[f.kind]
      BY <1>1, <1>2, <1>4, <2>9 DEF CalculateVed
    <3> QED
      BY <2>9, <3>1, FlatRates DEF NoCheaper
  <2> QED
    BY <1>4, <2>1, <2>2, <2>3, <2>4, <2>5, <2>6, <2>7, <2>8, <2>9, KindsAre DEF AreFacts
<1> QED
  BY <1>3, <1>4

-----------------------------------------------------------------------------
(* What is left out.                                                        *)

\* The kinds whose tax turns on the Euro status.
EuroKinds == {"hgv", "special-types", "combined-transport"}

\* f leaves out nothing of g that would be guessed at, and says the same otherwise.
LeavesOut(f, g) ==
  /\ f.kind = g.kind /\ f.kind \in Kinds
  /\ f.yearOfManufacture = g.yearOfManufacture
  /\ f.zeroEmission = g.zeroEmission
  /\ f.co2 = g.co2
  /\ f.massInServiceKg = g.massInServiceKg
  /\ f.euroStatus = g.euroStatus
  /\ f.listPrice = g.listPrice
  /\ f.firstRegistered \in {g.firstRegistered, Unknown}
  /\ f.engineCc \in {g.engineCc, Unknown}
  /\ f.seats \in {g.seats, Unknown}
  /\ f.grossWeightKg \in {g.grossWeightKg, Unknown}
  /\ f.kind \in EuroKinds /\ f.euroStatus = Unknown => f.firstRegistered = g.firstRegistered

\* A rate is the whole's, or there is none.
AsWhole(r, s) == Priced(r) => r = s

\* Without an engine size there is no rate by engine.
LEMMA EngineAsWhole ==
  ASSUME NEW f, NEW g, LeavesOut(f, g), NEW bands
  PROVE  AsWhole(ByEngine(f, bands), ByEngine(g, bands))
BY NotSoldIsCheapest DEF LeavesOut, AsWhole, ByEngine

\* Without a date of registration there is none for a car.
LEMMA CarAsWhole ==
  ASSUME NEW f, NEW g, LeavesOut(f, g), NEW rates, NEW day
  PROVE  AsWhole(Car(f, rates, day), Car(g, rates, day))
<1>1. CASE f.firstRegistered = Unknown
  BY <1>1, NotSoldIsCheapest DEF AsWhole, Car
<1>2. CASE f.firstRegistered # Unknown
  <2>1. f.firstRegistered = g.firstRegistered
    BY <1>2 DEF LeavesOut
  <2>2. OwesSupplement(f, rates, day) <=> OwesSupplement(g, rates, day)
    BY <2>1 DEF LeavesOut, OwesSupplement, InPremiumWindow, ListPriceThreshold
  <2>3. \A b : Co2Band(f, b) = Co2Band(g, b)
    BY <2>1 DEF LeavesOut, Co2Band
  <2>4. AsWhole(PrivateLightGoods(f, rates), PrivateLightGoods(g, rates))
    BY EngineAsWhole DEF PrivateLightGoods
  <2> QED
    BY <2>1, <2>2, <2>3, <2>4 DEF LeavesOut, AsWhole, Car
<1> QED
  BY <1>1, <1>2

\* Nor for a van.
LEMMA LightGoodsAsWhole ==
  ASSUME NEW f, NEW g, LeavesOut(f, g), NEW rates
  PROVE  AsWhole(LightGoods(f, rates), LightGoods(g, rates))
<1>1. CASE f.firstRegistered = Unknown
  BY <1>1, NotSoldIsCheapest DEF AsWhole, LightGoods
<1>2. CASE f.firstRegistered # Unknown
  <2>1. f.firstRegistered = g.firstRegistered
    BY <1>2 DEF LeavesOut
  <2>2. \A e, w : EarlyEuro(f, e, w) <=> EarlyEuro(g, e, w)
    BY <2>1 DEF LeavesOut, EarlyEuro
  <2>3. AsWhole(PrivateLightGoods(f, rates), PrivateLightGoods(g, rates))
    BY EngineAsWhole DEF PrivateLightGoods
  <2> QED
    BY <2>1, <2>2, <2>3 DEF AsWhole, LightGoods
<1> QED
  BY <1>1, <1>2

\* What the tables give for an incomplete reading is what they give for the whole one.
LEMMA NothingGuessed ==
  ASSUME NEW f, NEW g, LeavesOut(f, g), NEW day \in Nat
  PROVE  AsWhole(CalculateVed(f, day), CalculateVed(g, day))
<1>1. RatesOn(LightVehicleRates, day) = V149 /\ RatesOn(HeavyVehicleRates, day) = V149_1
  BY LightRates, HeavyRates
<1>2. g.kind = f.kind /\ f.kind \in Kinds /\ (Historic(g, V149) <=> Historic(f, V149))
  BY DEF LeavesOut, Historic
<1>3. CASE f.kind = "unknown" \/ Historic(f, V149)
  BY <1>1, <1>2, <1>3, NotSoldIsCheapest DEF CalculateVed, AsWhole
<1>4. CASE f.kind # "unknown" /\ ~Historic(f, V149)
  <2>1. ASSUME f.kind \in EuroKinds, NEW levy
        PROVE  ByEuroStatus(f, levy) = ByEuroStatus(g, levy)
    BY <2>1 DEF LeavesOut, ByEuroStatus, IsEuroVI
  <2>2. CASE f.kind = "car"
    <3>1. \A h \in {f, g} : CalculateVed(h, day) = Car(h, V149, day)
      BY <1>1, <1>2, <1>4, <2>2 DEF CalculateVed
    <3> QED
      BY <3>1, CarAsWhole
  <2>3. CASE f.kind = "motor-caravan"
    <3>1. \A h \in {f, g} : CalculateVed(h, day) = ByEngine(h, V149.privateLightGoods)
      BY <1>1, <1>2, <1>4, <2>3 DEF CalculateVed, PrivateLightGoods
    <3> QED
      BY <3>1, EngineAsWhole
  <2>4. CASE f.kind = "light-goods"
    <3>1. \A h \in {f, g} : CalculateVed(h, day) = LightGoods(h, V149)
      BY <1>1, <1>2, <1>4, <2>4 DEF CalculateVed
    <3> QED
      BY <3>1, LightGoodsAsWhole
  <2>5. CASE f.kind \in {"motorcycle", "tricycle"}
    <3>1. \A h \in {f, g} : CalculateVed(h, day) = TwoOrThreeWheeler(h, V149)
      BY <1>1, <1>2, <1>4, <2>5 DEF CalculateVed
    <3>2. /\ f.massInServiceKg = g.massInServiceKg /\ f.zeroEmission = g.zeroEmission
          /\ f.kind = g.kind
      BY DEF LeavesOut
    <3>3. \A bands : AsWhole(ByEngine(f, bands), ByEngine(g, bands))
      BY EngineAsWhole
    <3>4. AsWhole(TwoOrThreeWheeler(f, V149), TwoOrThreeWheeler(g, V149))
      BY <3>2, <3>3 DEF AsWhole, TwoOrThreeWheeler, PrivateLightGoods
    <3> QED
      BY <3>1, <3>4
  <2>6. CASE f.kind = "hgv"
    <3>1. \A h \in {f, g} : CalculateVed(h, day) = Hgv(h, V149_1)
      BY <1>1, <1>2, <1>4, <2>6 DEF CalculateVed
    <3>2. \A levy : ByEuroStatus(f, levy) = ByEuroStatus(g, levy)
      BY <2>1, <2>6 DEF EuroKinds
    <3>3. f.grossWeightKg = Unknown => Hgv(f, V149_1) = Unpriced
      BY DEF Hgv
    <3>4. f.grossWeightKg # Unknown => f.grossWeightKg = g.grossWeightKg
      BY DEF LeavesOut
    <3>5. AsWhole(Hgv(f, V149_1), Hgv(g, V149_1))
      BY <3>2, <3>3, <3>4, NotSoldIsCheapest DEF AsWhole, Hgv
    <3> QED
      BY <3>1, <3>5
  <2>7. CASE f.kind = "bus"
    <3>1. \A h \in {f, g} : CalculateVed(h, day) = Bus(h, V149_1)
      BY <1>1, <1>2, <1>4, <2>7 DEF CalculateVed
    <3>2. f.seats = Unknown => Bus(f, V149_1) = Unpriced
      BY DEF Bus, V149_1, Unknown
    <3>3. f.seats # Unknown => f.seats = g.seats
      BY DEF LeavesOut
    <3>4. AsWhole(Bus(f, V149_1), Bus(g, V149_1))
      BY <3>2, <3>3, NotSoldIsCheapest DEF AsWhole, Bus
    <3> QED
      BY <3>1, <3>4
  <2>8. CASE f.kind = "recovery"
    <3>1. \A h \in {f, g} : CalculateVed(h, day) = Recovery(h, V149_1)
      BY <1>1, <1>2, <1>4, <2>8 DEF CalculateVed
    <3>2. AsWhole(Recovery(f, V149_1), Recovery(g, V149_1))
      BY NotSoldIsCheapest DEF LeavesOut, AsWhole, Recovery
    <3> QED
      BY <3>1, <3>2
  <2>9. CASE f.kind \in {"special-types", "combined-transport"}
    <3>1. \A h \in {f, g} : CalculateVed(h, day) =
            IF f.kind = "special-types" THEN ByEuroStatus(h, V149_1.specialTypes)
            ELSE ByEuroStatus(h, V149_1.combinedTransport)
      BY <1>1, <1>2, <1>4, <2>9 DEF CalculateVed
    <3>2. \A levy : ByEuroStatus(f, levy) = ByEuroStatus(g, levy)
      BY <2>1, <2>9 DEF EuroKinds
    <3> QED
      BY <3>1, <3>2 DEF AsWhole
  <2>10. CASE f.kind \in {"private-hgv", "special-vehicle", "small-island", "general-haulage"}
    <3>1. \A h \in {f, g} : CalculateVed(h, day) = V149_1.flat[f.kind]
      BY <1>1, <1>2, <1>4, <2>10 DEF CalculateVed
    <3> QED
      BY <3>1 DEF AsWhole
  <2> QED
    BY <1>2, <1>4, <2>2, <2>3, <2>4, <2>5, <2>6, <2>7, <2>8, <2>9, <2>10, KindsAre
<1> QED
  BY <1>3, <1>4

\* f leaves out the Euro status of g, and says the same otherwise but of the list price.
LeavesOutEuro(f, g) ==
  /\ f.euroStatus = Unknown
  /\ f.kind = g.kind
  /\ f.firstRegistered = g.firstRegistered
  /\ f.yearOfManufacture = g.yearOfManufacture
  /\ f.zeroEmission = g.zeroEmission
  /\ f.co2 = g.co2
  /\ f.engineCc = g.engineCc
  /\ f.seats = g.seats
  /\ f.grossWeightKg = g.grossWeightKg
  /\ f.massInServiceKg = g.massInServiceKg

\* r is s, or costs no less.
NoLess(r, s) ==
  \/ r = s
  \/ /\ r.twelveMonths \in Int /\ s.twelveMonths \in Int
     /\ s.twelveMonths <= r.twelveMonths

\* A levy that costs no less without Euro VI.
EuroVICheaper(levy) ==
  /\ levy.euroVIOrLater.twelveMonths \in Int /\ levy.euroVOrEarlier.twelveMonths \in Int
  /\ levy.euroVIOrLater.twelveMonths <= levy.euroVOrEarlier.twelveMonths

\* The leaflets' are all of that kind.
LEMMA LeviesByEuro ==
  /\ EuroVICheaper(V149_1.specialTypes) /\ EuroVICheaper(V149_1.combinedTransport)
  /\ \A i \in DOMAIN V149_1.hgv.levy : EuroVICheaper(V149_1.hgv.levy[i].rate)
<1>1. EuroVICheaper(V149_1.specialTypes) /\ EuroVICheaper(V149_1.combinedTransport)
  BY DEF V149_1, Levy, Rate, EuroVICheaper
<1>2. \A i \in DOMAIN V149_1.hgv.levy : EuroVICheaper(V149_1.hgv.levy[i].rate)
  <2> DEFINE b == V149_1.hgv.levy
  <2>1. DOMAIN b = 1 .. 3
    BY DEF V149_1
  <2>2. /\ EuroVICheaper(b[1].rate) /\ EuroVICheaper(b[2].rate) /\ EuroVICheaper(b[3].rate)
    BY DEF V149_1, Band, Levy, Rate, EuroVICheaper
  <2> HIDE DEF b
  <2>3. \A i \in 1 .. 3 : EuroVICheaper(b[i].rate)
    <3>1. \A i \in 1 .. 3 : i = 1 \/ i = 2 \/ i = 3
      OBVIOUS
    <3> QED
      BY <2>2, <3>1
  <2>4. \A i \in DOMAIN b : EuroVICheaper(b[i].rate)
    BY <2>1, <2>3
  <2> QED
    BY <2>4 DEF b
<1> QED
  BY <1>1, <1>2

\* Of two readings before Euro VI, the one without a status is charged as none is.
LEMMA WithoutStatusIsDearer ==
  ASSUME NEW f, NEW g, LeavesOutEuro(f, g), g.firstRegistered \in Int,
         g.firstRegistered < EuroVIRegisteredFrom, NEW levy, EuroVICheaper(levy)
  PROVE  /\ ByEuroStatus(f, levy) = levy.euroVOrEarlier
         /\ ByEuroStatus(f, levy).twelveMonths \in Int
         /\ ByEuroStatus(g, levy).twelveMonths \in Int
         /\ ByEuroStatus(g, levy).twelveMonths <= ByEuroStatus(f, levy).twelveMonths
<1>1. ~IsEuroVI(f)
  BY DEF LeavesOutEuro, IsEuroVI, EuroVIRegisteredFrom
<1> QED
  BY <1>1 DEF ByEuroStatus, EuroVICheaper

\* A van without a status pays the standard rate, unless it is electric.
LEMMA VanWithoutStatus ==
  ASSUME NEW f, NEW g, LeavesOutEuro(f, g)
  PROVE  NoLess(LightGoods(f, V149), LightGoods(g, V149))
<1> DEFINE lgv == V149.lightGoods
<1>1. /\ lgv.standard.twelveMonths = 36000 /\ lgv.euro4.rate.twelveMonths = 14000
      /\ lgv.euro5.rate.twelveMonths = 14000
  BY DEF V149, Rate
<1>2. PrivateLightGoods(f, V149) = PrivateLightGoods(g, V149)
  BY DEF LeavesOutEuro, PrivateLightGoods, ByEngine
<1> HIDE DEF lgv
<1>3. CASE f.zeroEmission
  <2>1. \A e, w : EarlyEuro(f, e, w) <=> EarlyEuro(g, e, w)
    BY <1>3 DEF LeavesOutEuro, EarlyEuro
  <2> QED
    BY <1>2, <2>1 DEF LeavesOutEuro, LightGoods, NoLess
<1>4. CASE ~f.zeroEmission
  <2>1. ~EarlyEuro(f, 4, lgv.euro4) /\ ~EarlyEuro(f, 5, lgv.euro5)
    BY <1>4 DEF LeavesOutEuro, EarlyEuro, Unknown
  <2>2. \/ LightGoods(f, V149) = LightGoods(g, V149)
        \/ /\ LightGoods(f, V149) = lgv.standard
           /\ LightGoods(g, V149) \in {lgv.standard, lgv.euro4.rate, lgv.euro5.rate}
    BY <1>2, <2>1 DEF LeavesOutEuro, LightGoods, lgv
  <2> QED
    BY <1>1, <2>2 DEF NoLess
<1> QED
  BY <1>3, <1>4

\* A heavy vehicle without a status pays the dearer levy.
LEMMA HgvWithoutStatus ==
  ASSUME NEW f, NEW g, LeavesOutEuro(f, g), AreFacts(g), g.firstRegistered < EuroVIRegisteredFrom
  PROVE  NoLess(Hgv(f, V149_1), Hgv(g, V149_1))
<1> DEFINE b == V149_1.hgv.levy
           weight == g.grossWeightKg
           levy == BandOf(b, weight)
<1>1. V149_1.hgv.ved.twelveMonths = 100
  BY DEF V149_1, Rate
<1>2. f.grossWeightKg = weight
  BY DEF LeavesOutEuro
<1>3. Ends(b)
  <2>1. DOMAIN b = 1 .. 3 /\ Unbounded \in Int
    BY DEF V149_1, Unbounded
  <2>2. b[1].max = 31000 /\ b[2].max = 38000 /\ b[3].max = Unbounded
    BY DEF V149_1, Band
  <2> HIDE DEF b
  <2>3. \A i \in 1 .. 3 : i = 1 \/ i = 2 \/ i = 3
    OBVIOUS
  <2> QED
    BY <2>1, <2>2, <2>3 DEF Ends
<1>4. EuroVICheaper(levy)
  <2>1. weight \in Int /\ weight <= Unbounded
    BY DEF AreFacts
  <2>2. FirstBand(b, weight) \in DOMAIN b
    BY <1>3, <2>1, BandsInOrder
  <2>3. levy = b[FirstBand(b, weight)].rate
    BY DEF BandOf, FirstBand
  <2> QED
    BY <2>2, <2>3, LeviesByEuro
<1> HIDE DEF levy, weight
<1>5. /\ ByEuroStatus(f, levy).twelveMonths \in Int /\ ByEuroStatus(g, levy).twelveMonths \in Int
      /\ ByEuroStatus(g, levy).twelveMonths <= ByEuroStatus(f, levy).twelveMonths
  BY <1>4, WithoutStatusIsDearer DEF AreFacts
<1>6. CASE weight = Unknown \/ weight < V149_1.hgv.levyFromKg
  BY <1>2, <1>6 DEF Hgv, NoLess, weight
<1>7. CASE ~(weight = Unknown \/ weight < V149_1.hgv.levyFromKg)
  <2>1. /\ Hgv(f, V149_1).twelveMonths = 100 + ByEuroStatus(f, levy).twelveMonths
        /\ Hgv(g, V149_1).twelveMonths = 100 + ByEuroStatus(g, levy).twelveMonths
    BY <1>1, <1>2, <1>7 DEF Hgv, Rate, weight, levy
  <2> QED
    BY <1>5, <2>1 DEF NoLess
<1> QED
  BY <1>6, <1>7

\* Of a vehicle from before Euro VI, a reading without a status is never under-quoted.
LEMMA EuroGuessErrsHigh ==
  ASSUME NEW f, NEW g, LeavesOutEuro(f, g), AreFacts(g), g.firstRegistered < EuroVIRegisteredFrom,
         NEW day \in Nat
  PROVE  NoLess(CalculateVed(f, day), CalculateVed(g, day))
<1>1. RatesOn(LightVehicleRates, day) = V149 /\ RatesOn(HeavyVehicleRates, day) = V149_1
  BY LightRates, HeavyRates
<1>2. g.kind = f.kind /\ f.kind \in Kinds /\ (Historic(g, V149) <=> Historic(f, V149))
  BY DEF LeavesOutEuro, AreFacts, Historic
<1>3. CASE f.kind = "unknown" \/ Historic(f, V149)
  BY <1>1, <1>2, <1>3 DEF CalculateVed, NoLess
<1>4. CASE f.kind # "unknown" /\ ~Historic(f, V149)
  <2>1. /\ \A bands : ByEngine(f, bands) = ByEngine(g, bands)
        /\ PrivateLightGoods(f, V149) = PrivateLightGoods(g, V149)
    BY DEF LeavesOutEuro, ByEngine, PrivateLightGoods
  <2>2. CASE f.kind = "car"
    <3>1. \A h \in {f, g} : CalculateVed(h, day) = Car(h, V149, day)
      BY <1>1, <1>2, <1>4, <2>2 DEF CalculateVed
    <3>2. V149.post2017.from = 20170401
      BY DEF V149
    <3>3. /\ f.firstRegistered = g.firstRegistered
          /\ ~(g.firstRegistered >= V149.post2017.from)
      BY <3>2 DEF LeavesOutEuro, AreFacts, EuroVIRegisteredFrom
    <3>4. Co2Band(f, V149.co2Bands) = Co2Band(g, V149.co2Bands) /\ f.co2 = g.co2
      BY DEF LeavesOutEuro, Co2Band
    <3>5. Car(f, V149, day) = Car(g, V149, day)
      BY <2>1, <3>3, <3>4 DEF Car
    <3> QED
      BY <3>1, <3>5 DEF NoLess
  <2>3. CASE f.kind = "motor-caravan"
    <3>1. \A h \in {f, g} : CalculateVed(h, day) = PrivateLightGoods(h, V149)
      BY <1>1, <1>2, <1>4, <2>3 DEF CalculateVed
    <3> QED
      BY <2>1, <3>1 DEF NoLess
  <2>4. CASE f.kind = "light-goods"
    <3>1. \A h \in {f, g} : CalculateVed(h, day) = LightGoods(h, V149)
      BY <1>1, <1>2, <1>4, <2>4 DEF CalculateVed
    <3> QED
      BY <3>1, VanWithoutStatus
  <2>5. CASE f.kind \in {"motorcycle", "tricycle"}
    <3>1. \A h \in {f, g} : CalculateVed(h, day) = TwoOrThreeWheeler(h, V149)
      BY <1>1, <1>2, <1>4, <2>5 DEF CalculateVed
    <3>2. TwoOrThreeWheeler(f, V149) = TwoOrThreeWheeler(g, V149)
      BY <2>1 DEF LeavesOutEuro, TwoOrThreeWheeler
    <3> QED
      BY <3>1, <3>2 DEF NoLess
  <2>6. CASE f.kind = "hgv"
    <3>1. \A h \in {f, g} : CalculateVed(h, day) = Hgv(h, V149_1)
      BY <1>1, <1>2, <1>4, <2>6 DEF CalculateVed
    <3> QED
      BY <3>1, HgvWithoutStatus
  <2>7. CASE f.kind = "bus"
    <3>1. \A h \in {f, g} : CalculateVed(h, day) = Bus(h, V149_1)
      BY <1>1, <1>2, <1>4, <2>7 DEF CalculateVed
    <3> QED
      BY <3>1 DEF LeavesOutEuro, Bus, NoLess
  <2>8. CASE f.kind = "recovery"
    <3>1. \A h \in {f, g} : CalculateVed(h, day) = Recovery(h, V149_1)
      BY <1>1, <1>2, <1>4, <2>8 DEF CalculateVed
    <3> QED
      BY <3>1 DEF LeavesOutEuro, Recovery, NoLess
  <2>9. CASE f.kind \in {"special-types", "combined-transport"}
    <3>1. \A h \in {f, g} : CalculateVed(h, day) =
            IF f.kind = "special-types" THEN ByEuroStatus(h, V149_1.specialTypes)
            ELSE ByEuroStatus(h, V149_1.combinedTransport)
      BY <1>1, <1>2, <1>4, <2>9 DEF CalculateVed
    <3>2. ASSUME NEW levy, EuroVICheaper(levy)
          PROVE  NoLess(ByEuroStatus(f, levy), ByEuroStatus(g, levy))
      BY <3>2, WithoutStatusIsDearer DEF AreFacts, NoLess
    <3> QED
      BY <3>1, <3>2, LeviesByEuro
  <2>10. CASE f.kind \in {"private-hgv", "special-vehicle", "small-island", "general-haulage"}
    <3>1. \A h \in {f, g} : CalculateVed(h, day) = V149_1.flat[f.kind]
      BY <1>1, <1>2, <1>4, <2>10 DEF CalculateVed
    <3> QED
      BY <3>1 DEF NoLess
  <2> QED
    BY <1>2, <1>4, <2>2, <2>3, <2>4, <2>5, <2>6, <2>7, <2>8, <2>9, <2>10, KindsAre
<1> QED
  BY <1>3, <1>4

-----------------------------------------------------------------------------
(* The reading.                                                             *)

\* What is first looked for is one of those there are.
LEMMA FirstInIsThere ==
  ASSUME NEW order, NEW n \in Nat, DOMAIN order = 1 .. n, NEW S, S # {}, S \subseteq Range(order)
  PROVE  FirstIn(order, S) \in S
<1> DEFINE found == {i \in DOMAIN order : order[i] \in S}
<1>1. found # {} /\ found \in SUBSET Nat
  BY DEF Range
<1>2. Min(found) \in found
  BY <1>1, SmallestExists
<1> QED
  BY <1>2 DEF FirstIn

\* Whatever a record says, it is read as one of the kinds.
LEMMA ClassifyType ==
  ASSUME NEW d \in DetailsAnswers
  PROVE  Classify(d) \in Kinds
<1>1. d.taxation \subseteq Range(SpecialClasses) /\ d.words \subseteq Range(WordKinds)
  BY DEF DetailsAnswers
<1>2. DOMAIN SpecialClasses = 1 .. 7 /\ DOMAIN WordKinds = 1 .. 7
  BY DEF SpecialClasses, WordKinds
<1>3. d.taxation # {} => FirstIn(SpecialClasses, d.taxation) \in Range(SpecialClasses)
  BY <1>1, <1>2, FirstInIsThere
<1>4. d.words # {} => FirstIn(WordKinds, d.words) \in Range(WordKinds)
  BY <1>1, <1>2, FirstInIsThere
<1>5. CASE d.taxation # {}
  BY <1>3, <1>5 DEF Classify, Kinds
<1>6. CASE d.taxation = {}
  <2> DEFINE c == d.category
  <2>1. {"motorcycle", "tricycle", "motor-caravan", "car", "bus", "light-goods", "hgv", "unknown"}
          \subseteq Kinds
    BY KindsAre
  <2>2. GoodsKind(d.grossWeightKg, "light-goods") \in Kinds /\ GoodsKind(d.grossWeightKg, "hgv") \in Kinds
    BY <2>1 DEF GoodsKind
  <2>3. CASE c \in {"L1", "L3", "L4", "L2", "L5", "L6", "L7", "M1", "M2", "M3", "N1", "N2", "N3"}
    <3>1. Classify(d) \in {"motorcycle", "tricycle", "motor-caravan", "car", "bus",
                           GoodsKind(d.grossWeightKg, "light-goods"), GoodsKind(d.grossWeightKg, "hgv")}
      BY <1>6, <2>3 DEF Classify
    <3> QED
      BY <2>1, <2>2, <3>1
  <2>4. CASE c = "none"
    <3>1. Classify(d) = IF d.words = {} THEN "unknown"
                        ELSE IF FirstIn(WordKinds, d.words) = "light-goods"
                        THEN GoodsKind(d.grossWeightKg, "light-goods")
                        ELSE FirstIn(WordKinds, d.words)
      BY <1>6, <2>4 DEF Classify
    <3> QED
      BY <1>4, <2>1, <2>2, <3>1 DEF Kinds
  <2>5. c \in Categories
    BY DEF DetailsAnswers
  <2> QED
    BY <2>3, <2>4, <2>5 DEF Categories
<1> QED
  BY <1>5, <1>6

\* The facts of a vehicle, when nothing is left out.
TruthOf(v) == ReadVehicleFacts(v.tax, v.details, v.listPrice)

\* What a vehicle really is is read from answers: it is a record of facts.
LEMMA TruthsAreFacts ==
  ASSUME NEW v \in Vehicles
  PROVE  AreFacts(TruthOf(v))
<1>1. v.tax \in TaxAnswers /\ v.details \in DetailsAnswers /\ v.listPrice \in Int
  BY VehiclesAssumption
<1>2. Classify(v.details) \in Kinds
  BY <1>1, ClassifyType
<1>3. /\ v.tax.co2 <= Unbounded /\ v.details.co2 <= Unbounded /\ v.details.engineCc <= Unbounded
      /\ v.details.seats <= Unbounded /\ v.details.grossWeightKg <= Unbounded
  BY SizesAssumption
<1>4. v.tax.co2 \in Int
  BY <1>1 DEF TaxAnswers
<1>5. /\ v.details.firstRegistered \in Int /\ v.details.co2 \in Int /\ v.details.engineCc \in Int
      /\ v.details.seats \in Int /\ v.details.grossWeightKg \in Int
      /\ v.details.massInServiceKg \in Int
  BY <1>1 DEF DetailsAnswers
<1>6. /\ TruthOf(v).kind = Classify(v.details)
      /\ TruthOf(v).firstRegistered = v.details.firstRegistered
      /\ TruthOf(v).co2 = Or(v.details.co2, v.tax.co2)
      /\ TruthOf(v).engineCc = v.details.engineCc
      /\ TruthOf(v).seats = v.details.seats
      /\ TruthOf(v).grossWeightKg = v.details.grossWeightKg
      /\ TruthOf(v).massInServiceKg = v.details.massInServiceKg
      /\ TruthOf(v).listPrice = v.listPrice
  BY DEF TruthOf, ReadVehicleFacts
<1> QED
  BY <1>1, <1>2, <1>3, <1>4, <1>5, <1>6 DEF AreFacts, Or

-----------------------------------------------------------------------------
(* The lookup.                                                             *)

\* A package that says nothing is an answer.
LEMMA Silent == NoTax \in TaxAnswers /\ NoDetails \in DetailsAnswers
<1>1. Unpriced \in Rates /\ Unknown \in Int
  BY DEF Unpriced, Rates, Rate, Unknown, NotSold
<1>2. NoTax \in TaxAnswers
  BY <1>1 DEF NoTax, TaxAnswers
<1>3. ASSUME NEW C, NEW T, NEW W, NEW B, NEW I,
             NEW c \in C, NEW t \in T, NEW w \in W, NEW b \in B, NEW u \in I
      PROVE  [taxation |-> t, category |-> c, words |-> w, caravanBody |-> b,
              electric |-> b, firstRegistered |-> u, yearOfManufacture |-> u, co2 |-> u,
              engineCc |-> u, seats |-> u, grossWeightKg |-> u, massInServiceKg |-> u,
              euroStatus |-> u]
             \in [taxation : T, category : C, words : W, caravanBody : B, electric : B,
                  firstRegistered : I, yearOfManufacture : I, co2 : I, engineCc : I, seats : I,
                  grossWeightKg : I, massInServiceKg : I, euroStatus : I]
  OBVIOUS
<1>4. NoDetails \in DetailsAnswers
  <2>1. /\ {} \in SUBSET Range(SpecialClasses)
        /\ {} \in SUBSET Range(WordKinds)
        /\ FALSE \in BOOLEAN /\ "none" \in Categories
    BY DEF Categories
  <2>2. [taxation |-> {}, category |-> "none", words |-> {}, caravanBody |-> FALSE,
         electric |-> FALSE, firstRegistered |-> Unknown, yearOfManufacture |-> Unknown,
         co2 |-> Unknown, engineCc |-> Unknown, seats |-> Unknown, grossWeightKg |-> Unknown,
         massInServiceKg |-> Unknown, euroStatus |-> Unknown] \in DetailsAnswers
    BY <1>1, <1>3, <2>1, Zenon DEF DetailsAnswers
  <2> QED
    BY <2>2 DEF NoDetails
<1> QED
  BY <1>2, <1>4

\* An answer with fields left out is an answer.
LEMMA HideType ==
  /\ \A t \in TaxAnswers : \A h : Hide(t, NoTax, h) \in TaxAnswers
  /\ \A d \in DetailsAnswers : \A h : Hide(d, NoDetails, h) \in DetailsAnswers
<1>1. ASSUME NEW t \in TaxAnswers, NEW h
      PROVE  Hide(t, NoTax, h) \in TaxAnswers
  BY Silent DEF Hide, TaxAnswers
<1>2. ASSUME NEW d \in DetailsAnswers, NEW h
      PROVE  Hide(d, NoDetails, h) \in DetailsAnswers
  BY Silent DEF Hide, DetailsAnswers
<1> QED
  BY <1>1, <1>2

\* No row is a row in order.
LEMMA NoRowOK == RowOK(NoRow)
<1>1. ~FromTables(NoRow)
  BY DEF FromTables
<1> QED
  BY <1>1, Silent DEF RowOK, NoRow, Unknown

\* A row newly stored, where the list price was asked for, or no need, or the provider
\* has a rate.
LEMMA StoredOK ==
  ASSUME today \in Days, NEW t \in TaxAnswers, NEW d \in DetailsAnswers, NEW p \in Int,
         NEW asked \in BOOLEAN,
         \/ asked
         \/ ~NeedsListPrice(ReadVehicleFacts(t, d, p), today)
         \/ Priced(MapTaxResponse(t, today))
  PROVE  RowOK(Stored(t, d, p, asked)) /\ Stored(t, d, p, asked).on = today
<1> DEFINE r == Stored(t, d, p, asked)
<1>1. r = [tax |-> t, details |-> d, listPrice |-> p, asked |-> asked, late |-> FALSE,
           ved |-> WithTableRates(t, d, p, today), on |-> today]
  BY DEF Stored
<1>2. r.tax = t /\ r.details = d /\ r.listPrice = p /\ r.asked = asked /\ r.on = today
      /\ ~r.late /\ r.ved = WithTableRates(t, d, p, today)
  BY <1>1
<1>3. today \in Nat
  BY DaysAssumption
<1>4. r \in [tax : TaxAnswers, details : DetailsAnswers, listPrice : Int, asked : BOOLEAN,
             late : BOOLEAN, ved : {r.ved}, on : Nat]
  BY <1>1, <1>2, <1>3
<1> HIDE DEF r
<1>5. FromTables(r) /\ ~r.asked /\ ~r.late => ~NeedsListPrice(FactsOf(r), r.on)
  BY <1>2 DEF FromTables, FactsOf
<1> QED
  BY <1>2, <1>4, <1>5 DEF RowOK, r

\* The invariant holds at first, and each step keeps it.
LEMMA InitInv == Init => Inv
BY NoRowOK, Silent DEF Init, Inv

\* A lookup that ends with a row in order keeps the invariant.
LEMMA FinishInv ==
  ASSUME Inv, NEW r, RowOK(r), r # NoRow => r.on <= today, Finish(r), UNCHANGED <<today, vehicle>>
  PROVE  Inv'
<1>1. row' = r
  BY DEF Finish
<1>2. RowOK(row)'
  BY <1>1
<1> QED
  BY <1>1, <1>2, Silent DEF Finish, Inv

LEMMA AskTaxInv == Inv /\ AskTax => Inv'
<1> SUFFICES ASSUME Inv, AskTax
             PROVE  Inv'
  OBVIOUS
<1>1. PICK h \in {{}, {"yearOfManufacture", "co2"}, DOMAIN NoTax} :
        LET t == Hide(vehicle.tax, NoTax, h) IN
        IF Priced(MapTaxResponse(t, today))
        THEN Finish(Stored(t, NoDetails, Unknown, FALSE))
        ELSE asking' = "details" /\ tax' = t /\ UNCHANGED <<details, row>>
  BY DEF AskTax
<1> DEFINE t == Hide(vehicle.tax, NoTax, h)
           r == Stored(t, NoDetails, Unknown, FALSE)
<1>2. UNCHANGED <<today, vehicle>> /\ vehicle.tax \in TaxAnswers
  BY VehiclesAssumption DEF AskTax, Inv
<1>3. t \in TaxAnswers
  BY <1>2, HideType
<1>4. CASE Priced(MapTaxResponse(t, today))
  <2>1. Finish(r)
    BY <1>1, <1>4
  <2>2. Unknown \in Int /\ today \in Days /\ today \in Nat
    BY DaysAssumption DEF Unknown, Inv
  <2>3. RowOK(r) /\ r.on = today
    BY <1>3, <1>4, <2>2, Silent, StoredOK
  <2> HIDE DEF r
  <2> QED
    BY <1>2, <2>1, <2>2, <2>3, FinishInv
<1>5. CASE ~Priced(MapTaxResponse(t, today))
  BY <1>1, <1>2, <1>3, <1>5 DEF Inv
<1> QED
  BY <1>4, <1>5

LEMMA AskDetailsInv == Inv /\ AskDetails => Inv'
<1> SUFFICES ASSUME Inv, AskDetails
             PROVE  Inv'
  OBVIOUS
<1>1. PICK h \in Silences \union {DOMAIN NoDetails} :
        LET d == Hide(vehicle.details, NoDetails, h) IN
        CASE tax = NoTax /\ d = NoDetails -> Finish(row)
          [] NeedsListPrice(ReadVehicleFacts(tax, d, Unknown), today) ->
               asking' = "valuation" /\ details' = d /\ UNCHANGED <<tax, row>>
          [] OTHER -> Finish(Stored(tax, d, Unknown, FALSE))
  BY DEF AskDetails
<1> DEFINE d == Hide(vehicle.details, NoDetails, h)
           needs == NeedsListPrice(ReadVehicleFacts(tax, d, Unknown), today)
           r == Stored(tax, d, Unknown, FALSE)
<1>2. UNCHANGED <<today, vehicle>> /\ vehicle.details \in DetailsAnswers
  BY VehiclesAssumption DEF AskDetails, Inv
<1>3. d \in DetailsAnswers /\ tax \in TaxAnswers
  BY <1>2, HideType DEF Inv
<1> HIDE DEF d
<1>4. \/ Finish(row)
      \/ asking' = "valuation" /\ details' = d /\ UNCHANGED <<tax, row>>
      \/ ~needs /\ Finish(r)
  BY <1>1 DEF d
<1>5. CASE Finish(row)
  BY <1>2, <1>5, FinishInv DEF Inv
<1>6. CASE asking' = "valuation" /\ details' = d /\ UNCHANGED <<tax, row>>
  BY <1>2, <1>3, <1>6 DEF Inv
<1>7. CASE ~needs /\ Finish(r)
  <2>1. Unknown \in Int /\ today \in Days /\ today \in Nat
    BY DaysAssumption DEF Unknown, Inv
  <2>2. RowOK(r) /\ r.on = today
    BY <1>3, <1>7, <2>1, StoredOK
  <2> HIDE DEF r
  <2> QED
    BY <1>2, <1>7, <2>1, <2>2, FinishInv
<1> QED
  BY <1>4, <1>5, <1>6, <1>7

LEMMA AskValuationInv == Inv /\ AskValuation => Inv'
<1> SUFFICES ASSUME Inv, AskValuation
             PROVE  Inv'
  OBVIOUS
<1>1. PICK p \in {vehicle.listPrice, Unknown} : Finish(Stored(tax, details, p, TRUE))
  BY DEF AskValuation
<1> DEFINE r == Stored(tax, details, p, TRUE)
<1>2. UNCHANGED <<today, vehicle>> /\ p \in Int
  BY VehiclesAssumption DEF AskValuation, Inv, Unknown
<1>3. tax \in TaxAnswers /\ details \in DetailsAnswers /\ today \in Days /\ today \in Nat
  BY DaysAssumption DEF Inv
<1>4. RowOK(r) /\ r.on = today
  BY <1>2, <1>3, StoredOK
<1>5. Finish(r)
  BY <1>1
<1> HIDE DEF r
<1> QED
  BY <1>2, <1>3, <1>4, <1>5, FinishInv

\* A row that has a price and no identity has the provider's: the tables need to know what
\* the vehicle is.
LEMMA PricedWithoutIdentity ==
  ASSUME RowOK(row), row # NoRow, row.details = NoDetails, Priced(row.ved)
  PROVE  Priced(MapTaxResponse(row.tax, row.on))
<1>1. ReadVehicleFacts(row.tax, NoDetails, row.listPrice).kind = "unknown"
  BY DEF ReadVehicleFacts, Classify, NoDetails
<1>2. CalculateVed(ReadVehicleFacts(row.tax, NoDetails, row.listPrice), row.on) = Unpriced
  BY <1>1 DEF CalculateVed
<1>3. ~Priced(Unpriced)
  BY DEF Unpriced, Rate, Priced
<1> QED
  BY <1>2, <1>3 DEF RowOK, WithTableRates

LEMMA AddIdentityInv == Inv /\ AddIdentity => Inv'
<1> SUFFICES ASSUME Inv, AddIdentity
             PROVE  Inv'
  OBVIOUS
<1>0. PICK h \in Silences :
        row' = [row EXCEPT !.details = Hide(vehicle.details, NoDetails, h), !.late = TRUE]
  BY DEF AddIdentity
<1> DEFINE d == Hide(vehicle.details, NoDetails, h)
           r == [row EXCEPT !.details = d, !.late = TRUE]
<1>1. row' = r /\ row # NoRow /\ UNCHANGED <<today, vehicle, asking, tax, details>>
  BY <1>0 DEF AddIdentity
<1>2. Priced(row.ved) => Priced(MapTaxResponse(row.tax, row.on))
  BY PricedWithoutIdentity DEF AddIdentity, Inv
<1>3. d \in DetailsAnswers
  BY VehiclesAssumption, HideType DEF Inv
<1> HIDE DEF d
<1>4. /\ r.tax = row.tax /\ r.listPrice = row.listPrice /\ r.on = row.on /\ r.ved = row.ved
      /\ r.asked = row.asked /\ r.details = d /\ r.late
      /\ r \in [tax : TaxAnswers, details : DetailsAnswers, listPrice : Int, asked : BOOLEAN,
                late : BOOLEAN, ved : {r.ved}, on : Nat]
  BY <1>3 DEF Inv, RowOK
<1> HIDE DEF r
<1>5. RowOK(r)
  BY <1>1, <1>2, <1>4 DEF Inv, RowOK, WithTableRates
<1>6. RowOK(row)'
  BY <1>1, <1>5
<1> QED
  BY <1>1, <1>4, <1>6 DEF Inv

LEMMA RemapInv == Inv /\ Remap => Inv'
<1> SUFFICES ASSUME Inv, Remap
             PROVE  Inv'
  OBVIOUS
<1> DEFINE r == [row EXCEPT !.on = today,
                            !.ved = WithTableRates(row.tax, row.details, row.listPrice, today)]
<1>1. row' = r /\ row # NoRow /\ UNCHANGED <<today, vehicle, asking, tax, details>>
  BY DEF Remap
<1>2. today \in Days /\ today \in Nat /\ row.on \in Nat /\ row.on <= today
      /\ row.tax \in TaxAnswers /\ row.details \in DetailsAnswers
  BY <1>1, DaysAssumption DEF Inv, RowOK
<1>3. /\ r.tax = row.tax /\ r.listPrice = row.listPrice /\ r.details = row.details
      /\ r.asked = row.asked /\ r.late = row.late /\ r.on = today
      /\ r.ved = WithTableRates(row.tax, row.details, row.listPrice, today)
      /\ r \in [tax : TaxAnswers, details : DetailsAnswers, listPrice : Int, asked : BOOLEAN,
                late : BOOLEAN, ved : {r.ved}, on : Nat]
  BY <1>2 DEF Inv, RowOK
<1> HIDE DEF r
<1>4. ASSUME FromTables(r), ~r.asked, ~r.late
      PROVE  ~NeedsListPrice(FactsOf(r), r.on)
  <2>1. FromTables(row)
    BY <1>1, <1>2, <1>3, <1>4, ProviderRate DEF FromTables
  <2>2. ~NeedsListPrice(FactsOf(row), row.on)
    BY <1>3, <1>4, <2>1 DEF Inv, RowOK
  <2>3. FactsOf(row).firstRegistered \in Int
    BY <1>2 DEF FactsOf, ReadVehicleFacts, DetailsAnswers
  <2>4. FactsOf(r) = FactsOf(row)
    BY <1>3 DEF FactsOf
  <2> QED
    BY <1>2, <1>3, <2>2, <2>3, <2>4, WindowCloses
<1>5. RowOK(r)
  BY <1>2, <1>3, <1>4 DEF RowOK
<1>6. RowOK(row)'
  BY <1>1, <1>5
<1> QED
  BY <1>1, <1>2, <1>3, <1>6 DEF Inv

LEMMA MidnightInv == Inv /\ Midnight => Inv'
<1> SUFFICES ASSUME Inv, Midnight
             PROVE  Inv'
  OBVIOUS
<1>1. today' \in Days /\ today < today' /\ UNCHANGED <<vehicle, asking, tax, details, row>>
  BY DEF Midnight
<1>2. today \in Nat /\ today' \in Nat /\ (row # NoRow => row.on \in Nat)
  BY <1>1, DaysAssumption DEF Inv, RowOK
<1> QED
  BY <1>1, <1>2 DEF Inv

LEMMA NextInv == Inv /\ [Next]_vars => Inv'
<1> SUFFICES ASSUME Inv, [Next]_vars
             PROVE  Inv'
  OBVIOUS
<1>1. CASE UNCHANGED vars
  BY <1>1 DEF vars, Inv
<1> QED
  BY <1>1, AskTaxInv, AskDetailsInv, AskValuationInv, AddIdentityInv, RemapInv, MidnightInv
  DEF Next

-----------------------------------------------------------------------------
(* What was left out of what.                                               *)

\* Each field of an answer is the vehicle's, or is silent.
Partial(answer, whole, nothing) ==
  \A f \in DOMAIN nothing : answer[f] \in {whole[f], nothing[f]}

\* Nothing is held or stored that the packages did not say.
SaidInv ==
  /\ Partial(tax, vehicle.tax, NoTax)
  /\ Partial(details, vehicle.details, NoDetails)
  /\ Partial(row.tax, vehicle.tax, NoTax)
  /\ Partial(row.details, vehicle.details, NoDetails)
  /\ row.listPrice \in {vehicle.listPrice, Unknown}

\* Silence is partial, and so is what is left of an answer when fields are hidden.
LEMMA HidingIsPartial ==
  ASSUME NEW v \in Vehicles
  PROVE  /\ Partial(NoTax, v.tax, NoTax) /\ Partial(NoDetails, v.details, NoDetails)
         /\ Partial(v.details, v.details, NoDetails)
         /\ \A h : /\ Partial(Hide(v.tax, NoTax, h), v.tax, NoTax)
                   /\ Partial(Hide(v.details, NoDetails, h), v.details, NoDetails)
<1>1. v.tax \in TaxAnswers /\ v.details \in DetailsAnswers
  BY VehiclesAssumption
<1>2. DOMAIN v.tax = DOMAIN NoTax
  BY <1>1 DEF TaxAnswers, NoTax
<1>3. DOMAIN v.details = DOMAIN NoDetails
  BY <1>1 DEF DetailsAnswers, NoDetails
<1> QED
  BY <1>2, <1>3 DEF Partial, Hide

\* Nothing is held or stored at first.
LEMMA SaidInit == Init => SaidInv
BY HidingIsPartial DEF Init, SaidInv, NoRow

\* A lookup that ends stores what it holds, or nothing.
LEMMA FinishSaid ==
  ASSUME SaidInv, vehicle \in Vehicles, NEW r, Finish(r), UNCHANGED vehicle,
         Partial(r.tax, vehicle.tax, NoTax), Partial(r.details, vehicle.details, NoDetails),
         r.listPrice \in {vehicle.listPrice, Unknown}
  PROVE  SaidInv'
BY HidingIsPartial DEF SaidInv, Finish

\* No step invents an answer.
LEMMA SaidStep ==
  ASSUME Inv, SaidInv, [Next]_vars
  PROVE  SaidInv'
<1>1. vehicle \in Vehicles
  BY DEF Inv
<1>2. CASE UNCHANGED vars \/ Midnight
  BY <1>2 DEF vars, Midnight, SaidInv
<1>3. CASE AskTax
  <2>1. PICK h \in {{}, {"yearOfManufacture", "co2"}, DOMAIN NoTax} :
          LET t == Hide(vehicle.tax, NoTax, h) IN
          IF Priced(MapTaxResponse(t, today))
          THEN Finish(Stored(t, NoDetails, Unknown, FALSE))
          ELSE asking' = "details" /\ tax' = t /\ UNCHANGED <<details, row>>
    BY <1>3 DEF AskTax
  <2> DEFINE t == Hide(vehicle.tax, NoTax, h)
             r == Stored(t, NoDetails, Unknown, FALSE)
  <2>2. Partial(t, vehicle.tax, NoTax) /\ Partial(NoDetails, vehicle.details, NoDetails)
    BY <1>1, HidingIsPartial
  <2>3. UNCHANGED vehicle
    BY <1>3 DEF AskTax
  <2>4. r.tax = t /\ r.details = NoDetails /\ r.listPrice = Unknown
    BY DEF Stored
  <2>5. Finish(r) \/ (tax' = t /\ UNCHANGED <<details, row>>)
    BY <2>1
  <2> HIDE DEF t, r
  <2>6. CASE Finish(r)
    BY <1>1, <2>2, <2>3, <2>4, <2>6, FinishSaid
  <2>7. CASE tax' = t /\ UNCHANGED <<details, row>>
    BY <2>2, <2>3, <2>7 DEF SaidInv
  <2> QED
    BY <2>5, <2>6, <2>7
<1>4. CASE AskDetails
  <2>1. PICK h \in Silences \union {DOMAIN NoDetails} :
          LET d == Hide(vehicle.details, NoDetails, h) IN
          CASE tax = NoTax /\ d = NoDetails -> Finish(row)
            [] NeedsListPrice(ReadVehicleFacts(tax, d, Unknown), today) ->
                 asking' = "valuation" /\ details' = d /\ UNCHANGED <<tax, row>>
            [] OTHER -> Finish(Stored(tax, d, Unknown, FALSE))
    BY <1>4 DEF AskDetails
  <2> DEFINE d == Hide(vehicle.details, NoDetails, h)
             r == Stored(tax, d, Unknown, FALSE)
  <2>2. Partial(d, vehicle.details, NoDetails)
    BY <1>1, HidingIsPartial
  <2>3. UNCHANGED vehicle
    BY <1>4 DEF AskDetails
  <2>4. r.tax = tax /\ r.details = d /\ r.listPrice = Unknown
    BY DEF Stored
  <2> HIDE DEF d
  <2>5. Finish(row) \/ (details' = d /\ UNCHANGED <<tax, row>>) \/ Finish(r)
    BY <2>1 DEF d
  <2> HIDE DEF r
  <2>6. CASE Finish(row)
    BY <1>1, <2>3, <2>6, FinishSaid DEF SaidInv
  <2>7. CASE details' = d /\ UNCHANGED <<tax, row>>
    BY <2>2, <2>3, <2>7 DEF SaidInv
  <2>8. CASE Finish(r)
    BY <1>1, <2>2, <2>3, <2>4, <2>8, FinishSaid DEF SaidInv
  <2> QED
    BY <2>5, <2>6, <2>7, <2>8
<1>5. CASE AskValuation
  <2>1. PICK p \in {vehicle.listPrice, Unknown} : Finish(Stored(tax, details, p, TRUE))
    BY <1>5 DEF AskValuation
  <2> DEFINE r == Stored(tax, details, p, TRUE)
  <2>2. r.tax = tax /\ r.details = details /\ r.listPrice = p /\ UNCHANGED vehicle
    BY <1>5 DEF Stored, AskValuation
  <2>3. Finish(r)
    BY <2>1
  <2> HIDE DEF r
  <2> QED
    BY <1>1, <2>2, <2>3, FinishSaid DEF SaidInv
<1>6. CASE AddIdentity
  <2>0. PICK h \in Silences :
          row' = [row EXCEPT !.details = Hide(vehicle.details, NoDetails, h), !.late = TRUE]
    BY <1>6 DEF AddIdentity
  <2> DEFINE d == Hide(vehicle.details, NoDetails, h)
             r == [row EXCEPT !.details = d, !.late = TRUE]
  <2>1. row' = r /\ UNCHANGED <<vehicle, tax, details>>
    BY <1>6, <2>0 DEF AddIdentity
  <2>2. Partial(d, vehicle.details, NoDetails)
    BY <1>1, HidingIsPartial
  <2> HIDE DEF d
  <2>3. r.tax = row.tax /\ r.listPrice = row.listPrice /\ r.details = d
    BY DEF Inv, RowOK
  <2> HIDE DEF r
  <2> QED
    BY <2>1, <2>2, <2>3 DEF SaidInv
<1>7. CASE Remap
  <2> DEFINE r == [row EXCEPT !.on = today,
                              !.ved = WithTableRates(row.tax, row.details, row.listPrice, today)]
  <2>1. row' = r /\ UNCHANGED <<vehicle, tax, details>>
    BY <1>7 DEF Remap
  <2>2. r.tax = row.tax /\ r.listPrice = row.listPrice /\ r.details = row.details
    BY DEF Inv, RowOK
  <2> HIDE DEF r
  <2> QED
    BY <2>1, <2>2 DEF SaidInv
<1> QED
  BY <1>2, <1>3, <1>4, <1>5, <1>6, <1>7 DEF Next

\* A kind read from part of a record that does not contradict itself is the vehicle's, but
\* where the body, the taxation class or the weight was missed.
LEMMA KindOfPart ==
  ASSUME NEW d \in DetailsAnswers, NEW e \in DetailsAnswers, Partial(d, e, NoDetails),
         d.taxation = e.taxation, d.caravanBody = e.caravanBody,
         d.grossWeightKg = e.grossWeightKg,
         Classify([e EXCEPT !.category = "none"]) \in {Classify(e), "unknown"}
  PROVE  Classify(d) \in {Classify(e), "unknown"}
<1> DEFINE u == [e EXCEPT !.category = "none"]
<1>1. /\ u.taxation = e.taxation /\ u.category = "none" /\ u.words = e.words
      /\ u.caravanBody = e.caravanBody /\ u.grossWeightKg = e.grossWeightKg
  BY DEF DetailsAnswers
<1>2. d.category \in {e.category, "none"} /\ d.words \in {e.words, {}}
  BY DEF Partial, NoDetails
<1>3. Classify(u) \in {Classify(e), "unknown"}
  OBVIOUS
<1>4. e.category \in Categories
  BY DEF DetailsAnswers
<1> HIDE DEF u
<1>5. CASE e.taxation # {}
  BY <1>5 DEF Classify
<1>6. CASE e.taxation = {} /\ d.category = "none"
  <2>1. d.words = {} => Classify(d) = "unknown"
    BY <1>6 DEF Classify
  <2>2. d.words = e.words => Classify(d) = Classify(u)
    BY <1>1, <1>6 DEF Classify
  <2> QED
    BY <1>2, <1>3, <2>1, <2>2
<1>7. CASE e.taxation = {} /\ d.category # "none"
  <2>1. d.category = e.category /\ e.category \in Categories \ {"none"}
    BY <1>2, <1>4, <1>7
  <2> QED
    BY <1>7, <2>1 DEF Classify, Categories
<1> QED
  BY <1>5, <1>6, <1>7

\* What two packages carry is the vehicle's when either says it and they agree.
LEMMA OrOfPart ==
  ASSUME NEW d, NEW t, NEW e, NEW s, d \in {e, Unknown}, t \in {s, Unknown},
         e = Unknown \/ s \in {Unknown, e},
         ~(Or(d, t) = Unknown /\ Or(e, s) # Unknown)
  PROVE  Or(d, t) = Or(e, s)
BY DEF Or

-----------------------------------------------------------------------------
(* The theorems.                                                           *)

\* What is stored of the vehicle is in order: its price is the one its answers give.
THEOREM SpecInv == Spec => []Inv
BY InitInv, NextInv, PTL DEF Spec

\* Types, whatever the provider says and leaves out.
THEOREM TypeCorrect == Spec => []TypeOK
<1>1. Inv => TypeOK
  BY DEF Inv, RowOK, TypeOK
<1> QED
  BY <1>1, SpecInv, PTL

\* The price on a row is the one its stored answers give on the day it was made: nothing
\* that was paid for and used is lost, and an identity added later changes nothing.
THEOREM PriceIsReproducible == Spec => []RereadingKeepsThePrice
<1>1. Inv => RereadingKeepsThePrice
  BY DEF Inv, RowOK, RereadingKeepsThePrice
<1> QED
  BY <1>1, SpecInv, PTL

\* Wherever the list price was not asked for, none could have changed the tax, on the day
\* or on any later one.
THEOREM NoListPriceMissed == Spec => []UnaskedListPriceIsMoot
<1>1. Inv => UnaskedListPriceIsMoot
  <2> SUFFICES ASSUME Inv, FromTables(row), ~row.asked, ~Overlooked(row),
                      NEW day \in Days, day >= row.on, NEW p \in ListPrices
               PROVE  CalculateVed([FactsOf(row) EXCEPT !.listPrice = p], day)
                        = CalculateVed(FactsOf(row), day)
    BY DEF UnaskedListPriceIsMoot
  <2>1. row # NoRow /\ row.on \in Nat /\ day \in Nat /\ row.on <= day
        /\ row.details \in DetailsAnswers
    BY DaysAssumption DEF FromTables, Inv, RowOK
  <2>2. ~NeedsListPrice(FactsOf(row), row.on)
    BY DEF Inv, RowOK, Overlooked
  <2>3. FactsOf(row).firstRegistered \in Int
    BY <2>1 DEF FactsOf, ReadVehicleFacts, DetailsAnswers
  <2>4. ~NeedsListPrice(FactsOf(row), day)
    BY <2>1, <2>2, <2>3, WindowCloses
  <2>5. SameButListPrice(FactsOf(row), [FactsOf(row) EXCEPT !.listPrice = p])
    BY DEF SameButListPrice, FactsOf, ReadVehicleFacts
  <2> QED
    BY <2>1, <2>4, <2>5, ListPriceIsForCars
<1> QED
  BY <1>1, SpecInv, PTL

\* Through every band, cap and window of both leaflets, a bigger, dirtier or dearer vehicle
\* that is the same otherwise never pays less: of any two vehicles, and not only of those
\* that stand on either side of a boundary.
THEOREM MorePaysNoLess == Spec => []MoreIsNeverCheaper
<1>1. Inv => MoreIsNeverCheaper
  <2> DEFINE facts(v) == ReadVehicleFacts(v.tax, v.details, v.listPrice)
             size == {"co2", "engineCc", "seats", "grossWeightKg", "massInServiceKg", "listPrice"}
  <2> SUFFICES ASSUME Inv, FromTables(row), Priced(row.ved), FactsOf(row) = Truth,
                      NEW other \in Vehicles,
                      \A f \in DOMAIN Truth \ size : facts(other)[f] = Truth[f],
                      \A f \in size : \/ facts(other)[f] = Truth[f]
                                      \/ Truth[f] # Unknown /\ facts(other)[f] > Truth[f],
                      Priced(CalculateVed(facts(other), row.on))
               PROVE  CalculateVed(facts(other), row.on).twelveMonths >= row.ved.twelveMonths
    BY DEF MoreIsNeverCheaper
  <2>1. row # NoRow /\ row.on \in Nat /\ vehicle \in Vehicles
    BY DEF FromTables, Inv, RowOK
  <2>2. row.ved = CalculateVed(Truth, row.on)
    BY <2>1 DEF FromTables, FactsOf, Inv, RowOK, WithTableRates
  <2>3. TruthOf(vehicle) = Truth /\ TruthOf(other) = facts(other)
    BY DEF TruthOf, Truth
  <2>4. AreFacts(Truth) /\ AreFacts(facts(other))
    BY <2>1, <2>3, TruthsAreFacts
  <2>5. DOMAIN Truth = {"kind", "firstRegistered", "yearOfManufacture", "zeroEmission", "co2",
                        "engineCc", "seats", "grossWeightKg", "massInServiceKg", "euroStatus",
                        "listPrice"}
    BY DEF Truth, ReadVehicleFacts
  <2> HIDE DEF facts
  <2>6. Bigger(facts(other), Truth)
    BY <2>5 DEF Bigger, AtLeast
  <2>7. NoCheaper(CalculateVed(facts(other), row.on), CalculateVed(Truth, row.on))
    BY <2>1, <2>4, <2>6, NothingIsCheaper
  <2> QED
    BY <2>2, <2>7 DEF NoCheaper
<1> QED
  BY <1>1, SpecInv, PTL

\* "Refuses rather than guesses": what is priced from an incomplete answer is priced as the
\* vehicle is, but for the guesses that Guessed names and for records that contradict
\* themselves; and before Euro VI a guess at a Euro status never under-quotes.
THEOREM GuessesAreNamed == Spec => []OnlyNamedGuesses
<1>1. Inv /\ SaidInv => OnlyNamedGuesses
  <2> SUFFICES ASSUME Inv, SaidInv, FromTables(row), Priced(row.ved)
               PROVE  /\ Agree(vehicle) /\ ~Guessed => row.ved = CalculateVed(Truth, row.on)
                      /\ OnlyEuroUnsaid =>
                           row.ved.twelveMonths >= CalculateVed(Truth, row.on).twelveMonths
    BY DEF OnlyNamedGuesses
  <2> DEFINE f == FactsOf(row)
             g == Truth
             d == row.details
             e == vehicle.details
  <2>1. row # NoRow /\ row.on \in Nat /\ vehicle \in Vehicles
    BY DEF FromTables, Inv, RowOK
  <2>2. row.ved = CalculateVed(f, row.on)
    BY <2>1 DEF FromTables, FactsOf, Inv, RowOK, WithTableRates
  <2>3. AreFacts(g)
    BY <2>1, TruthsAreFacts DEF TruthOf, Truth
  <2>4. d \in DetailsAnswers /\ e \in DetailsAnswers /\ Partial(d, e, NoDetails)
    BY <2>1, VehiclesAssumption DEF Inv, RowOK, SaidInv
  <2>5. /\ f.kind = Classify(d) /\ f.firstRegistered = d.firstRegistered
        /\ f.yearOfManufacture = Or(d.yearOfManufacture, row.tax.yearOfManufacture)
        /\ f.zeroEmission = d.electric /\ f.co2 = Or(d.co2, row.tax.co2)
        /\ f.engineCc = d.engineCc /\ f.seats = d.seats /\ f.grossWeightKg = d.grossWeightKg
        /\ f.massInServiceKg = d.massInServiceKg /\ f.euroStatus = d.euroStatus
        /\ f.listPrice = row.listPrice
    BY DEF FactsOf, ReadVehicleFacts
  <2>6. /\ g.kind = Classify(e) /\ g.firstRegistered = e.firstRegistered
        /\ g.yearOfManufacture = Or(e.yearOfManufacture, vehicle.tax.yearOfManufacture)
        /\ g.zeroEmission = e.electric /\ g.co2 = Or(e.co2, vehicle.tax.co2)
        /\ g.engineCc = e.engineCc /\ g.seats = e.seats /\ g.grossWeightKg = e.grossWeightKg
        /\ g.massInServiceKg = e.massInServiceKg /\ g.euroStatus = e.euroStatus
        /\ g.listPrice = vehicle.listPrice
    BY DEF Truth, ReadVehicleFacts
  <2>7. f.kind # "unknown"
    <3>1. ASSUME f.kind = "unknown"
          PROVE  CalculateVed(f, row.on) = Unpriced
      BY <3>1 DEF CalculateVed
    <3> QED
      BY <2>2, <3>1, NotSoldIsCheapest
  <2>8. ~row.asked /\ ~Overlooked(row) => ~NeedsListPrice(f, row.on)
    BY DEF Inv, RowOK, Overlooked
  <2>9. ASSUME Agree(vehicle), ~Guessed
        PROVE  row.ved = CalculateVed(Truth, row.on)
    <3>1. /\ ~Unsaid("taxation") /\ ~Unsaid("caravanBody") /\ ~Unsaid("electric")
          /\ ~Unsaid("massInServiceKg") /\ ~Unsaid("euroStatus")
          /\ Unsaid("grossWeightKg") => f.kind = g.kind
          /\ ~(f.co2 = Unknown /\ g.co2 # Unknown)
          /\ ~(f.yearOfManufacture = Unknown /\ g.yearOfManufacture # Unknown)
          /\ row.asked => row.listPrice # Unknown
          /\ ~Overlooked(row)
          /\ Unsaid("firstRegistered") /\ f.euroStatus = Unknown => f.kind \notin EuroKinds
      BY <2>9 DEF Guessed, EuroKinds
    <3>2. \A x \in DOMAIN NoDetails : d[x] \in {e[x], NoDetails[x]}
      BY <2>4 DEF Partial
    <3>3. \A x \in DOMAIN NoDetails : ~Unsaid(x) => d[x] = e[x]
      BY <3>2 DEF Unsaid
    <3>4. /\ d.taxation = e.taxation /\ d.caravanBody = e.caravanBody
          /\ d.electric = e.electric /\ d.massInServiceKg = e.massInServiceKg
          /\ d.euroStatus = e.euroStatus
      BY <3>1, <3>3 DEF NoDetails
    <3>5. /\ d.firstRegistered \in {e.firstRegistered, Unknown}
          /\ d.engineCc \in {e.engineCc, Unknown} /\ d.seats \in {e.seats, Unknown}
          /\ d.grossWeightKg \in {e.grossWeightKg, Unknown}
          /\ d.co2 \in {e.co2, Unknown}
          /\ d.yearOfManufacture \in {e.yearOfManufacture, Unknown}
      BY <3>2 DEF NoDetails
    <3>6. /\ row.tax.co2 \in {vehicle.tax.co2, Unknown}
          /\ row.tax.yearOfManufacture \in {vehicle.tax.yearOfManufacture, Unknown}
      BY DEF SaidInv, Partial, NoTax
    <3>7. /\ e.co2 = Unknown \/ vehicle.tax.co2 \in {Unknown, e.co2}
          /\ \/ e.yearOfManufacture = Unknown
             \/ vehicle.tax.yearOfManufacture \in {Unknown, e.yearOfManufacture}
          /\ Classify([e EXCEPT !.category = "none"]) \in {Classify(e), "unknown"}
      BY <2>9 DEF Agree
    <3>8. f.co2 = g.co2 /\ f.yearOfManufacture = g.yearOfManufacture
      BY <2>5, <2>6, <3>1, <3>5, <3>6, <3>7, OrOfPart
    <3>9. f.kind = g.kind
      <4>1. CASE Unsaid("grossWeightKg")
        BY <3>1, <4>1
      <4>2. CASE ~Unsaid("grossWeightKg")
        <5>1. d.grossWeightKg = e.grossWeightKg
          BY <3>3, <4>2 DEF NoDetails
        <5>2. Classify(d) \in {Classify(e), "unknown"}
          BY <2>4, <3>4, <3>7, <5>1, KindOfPart
        <5> QED
          BY <2>5, <2>6, <2>7, <5>2
      <4> QED
        BY <4>1, <4>2
    <3>10. f.kind \in EuroKinds /\ f.euroStatus = Unknown => f.firstRegistered = g.firstRegistered
      <4>1. ~Unsaid("firstRegistered") => d.firstRegistered = e.firstRegistered
        BY <3>3 DEF NoDetails
      <4> QED
        BY <2>5, <2>6, <3>1, <4>1
    <3> DEFINE whole == [f EXCEPT !.listPrice = g.listPrice]
    <3>11. /\ SameButListPrice(f, whole) /\ whole.listPrice = g.listPrice
           /\ g.listPrice = f.listPrice => whole = f
      BY DEF FactsOf, ReadVehicleFacts, SameButListPrice
    <3> HIDE DEF whole, f, g, d, e
    <3>12. CalculateVed(f, row.on) = CalculateVed(whole, row.on)
      <4>1. CASE row.asked
        <5>1. f.listPrice = g.listPrice
          BY <2>5, <2>6, <3>1, <4>1 DEF SaidInv
        <5> QED
          BY <3>11, <5>1
      <4>2. CASE ~row.asked
        BY <2>1, <2>8, <3>1, <3>11, <4>2, ListPriceIsForCars
      <4> QED
        BY <4>1, <4>2
    <3>13. LeavesOut(whole, g)
      BY <2>3, <2>5, <2>6, <3>4, <3>5, <3>8, <3>9, <3>10, <3>11
      DEF LeavesOut, SameButListPrice, AreFacts
    <3> QED
      BY <2>1, <2>2, <3>12, <3>13, NothingGuessed DEF AsWhole, g
  <2>10. ASSUME OnlyEuroUnsaid
         PROVE  row.ved.twelveMonths >= CalculateVed(Truth, row.on).twelveMonths
    <3>1. /\ f = [g EXCEPT !.euroStatus = Unknown, !.listPrice = row.listPrice]
          /\ g.firstRegistered < EuroVIRegisteredFrom
      BY <2>10 DEF OnlyEuroUnsaid
    <3>2. DOMAIN g = {"kind", "firstRegistered", "yearOfManufacture", "zeroEmission", "co2",
                      "engineCc", "seats", "grossWeightKg", "massInServiceKg", "euroStatus",
                      "listPrice"}
      BY DEF Truth, ReadVehicleFacts
    <3> HIDE DEF f, g
    <3>3. LeavesOutEuro(f, g)
      BY <3>1, <3>2 DEF LeavesOutEuro
    <3>4. NoLess(CalculateVed(f, row.on), CalculateVed(g, row.on))
      BY <2>1, <2>3, <3>1, <3>3, EuroGuessErrsHigh
    <3>5. CASE CalculateVed(f, row.on) = CalculateVed(g, row.on)
      <4>1. Bigger(g, g)
        BY DEF Bigger, AtLeast
      <4>2. NoCheaper(CalculateVed(g, row.on), CalculateVed(g, row.on))
        BY <2>1, <2>3, <4>1, NothingIsCheaper
      <4>3. CalculateVed(g, row.on).twelveMonths <= CalculateVed(g, row.on).twelveMonths
        BY <2>2, <3>5, <4>2 DEF NoCheaper
      <4> QED
        BY <2>2, <3>5, <4>3 DEF g
    <3>6. CASE CalculateVed(f, row.on) # CalculateVed(g, row.on)
      BY <2>2, <3>4, <3>6 DEF NoLess, g
    <3> QED
      BY <3>5, <3>6
  <2> QED
    BY <2>9, <2>10
<1>2. Inv /\ SaidInv /\ [Next]_vars => SaidInv'
  BY SaidStep
<1> QED
  BY <1>1, <1>2, SaidInit, SpecInv, PTL DEF Spec
===============================================================================
