------------------------------ MODULE MCVedQuote ------------------------------
(* Vehicles at the boundaries of the leaflets, and days around a midnight     *)
(* that ends a supplement and one that ends a year.                           *)
EXTENDS VedQuote

MCDays == {20260927, 20260928, 20270101}
MCListPrices == {3000000, 4000000, 4000001, 5000000, 5000001}

\* VehicleDetails may leave out any one field, or the two that tell goods vehicles apart.
MCSilences ==
  {{}} \union {{f} : f \in DOMAIN NoDetails} \union {{"category", "grossWeightKg"}}

Basic == [NoDetails EXCEPT !.firstRegistered = 20200928, !.yearOfManufacture = 2020,
                           !.engineCc = 1500, !.seats = 5, !.euroStatus = 6]

Described(d) == [tax |-> [NoTax EXCEPT !.yearOfManufacture = d.yearOfManufacture, !.co2 = d.co2],
                 details |-> d, listPrice |-> Unknown]

BasicCar == [Basic EXCEPT !.category = "M1", !.words = {"car"}, !.co2 = 120]

CarsByListPrice ==
  {[Described([BasicCar EXCEPT !.firstRegistered = r, !.electric = e]) EXCEPT !.listPrice = p] :
     r \in {20170331, 20170401, 20200927, 20200928, 20250331, 20250401, 20270101},
     e \in BOOLEAN, p \in MCListPrices}

CarsByCo2 ==
  {Described([BasicCar EXCEPT !.firstRegistered = r, !.co2 = c, !.yearOfManufacture = r \div 10000]) :
     r \in {20010228, 20010301, 20060322, 20060323},
     c \in {Unknown, 100, 101, 121, 150, 166, 225, 226, 255, 256}}

OldCars ==
  {Described([BasicCar EXCEPT !.firstRegistered = 19860105, !.yearOfManufacture = y,
                              !.engineCc = c, !.caravanBody = b, !.co2 = Unknown]) :
     y \in {1985, 1986}, c \in {1549, 1550}, b \in BOOLEAN}

\* A van's category says N1; a heavy vehicle's may say so too, wrongly.
Goods ==
  {Described([Basic EXCEPT !.category = w[1], !.words = {"light-goods"}, !.grossWeightKg = w[2],
                           !.firstRegistered = r, !.euroStatus = euro]) :
     w \in {<<"N1", 3500>>, <<"N1", 12000>>, <<"N2", 11999>>, <<"N2", 12000>>,
            <<"N2", 31000>>, <<"N2", 38000>>, <<"N2", 38001>>},
     r \in {20010228, 20030301, 20101231, 20131231, 20140101}, euro \in {4, 5, 6, Unknown}}
  \union
  {Described([Basic EXCEPT !.category = "N1", !.words = {"light-goods"}, !.grossWeightKg = 3500,
                           !.firstRegistered = r, !.electric = TRUE]) : r \in {20061231, 20070101}}

KeepersChoice ==
  {Described([Basic EXCEPT !.category = "N3", !.words = {"hgv"}, !.taxation = t,
                           !.grossWeightKg = w, !.euroStatus = euro, !.firstRegistered = r]) :
     t \in {{"private-hgv"}, {"recovery"}, {"special-types", "special-vehicle"},
            {"combined-transport"}, {"general-haulage"}, {"small-island"}, {"special-vehicle"}},
     w \in {25000, 25001}, euro \in {5, 6}, r \in {20131231, 20140101}}

Buses ==
  {Described([Basic EXCEPT !.category = "M3", !.words = {"bus"}, !.seats = s]) :
     s \in {9, 10, 17, 18, 36, 37, 61, 62}}

Wheelers ==
  {Described([Basic EXCEPT !.category = c, !.words = {IF c = "L3" THEN "motorcycle" ELSE "tricycle"},
                           !.massInServiceKg = m, !.engineCc = e, !.electric = z]) :
     c \in {"L3", "L5"}, m \in {450, 451}, e \in {150, 151, 400, 600, 601, 1549, 1550},
     z \in BOOLEAN}

\* The wording or the Tax package says otherwise than VehicleDetails does.
Contradictory ==
  {Described([BasicCar EXCEPT !.words = {"bus"}, !.seats = 10])}
  \union
  {[Described([BasicCar EXCEPT !.firstRegistered = 20010301, !.yearOfManufacture = 2001]) EXCEPT
      !.tax = [@ EXCEPT !.co2 = 121]]}

Table(twelveMonths) == Rate(twelveMonths, twelveMonths \div 2, NotSold)

\* Vehicles that the provider prices: some of its three tables, by the year of manufacture.
PricedByProvider ==
  {[Described([BasicCar EXCEPT !.firstRegistered = 20260901, !.yearOfManufacture = y]) EXCEPT
      !.tax = [@ EXCEPT !.firstYear = f, !.standard = s, !.premium = Table(64000)]] :
     y \in {2025, 2026}, f \in {Unpriced, Rate(141000, NotSold, NotSold)},
     s \in {Unpriced, Table(20000)}}

MCVehicles ==
  CarsByListPrice \union CarsByCo2 \union OldCars \union Goods \union KeepersChoice
    \union Buses \union Wheelers \union Contradictory \union PricedByProvider
=============================================================================
