------------------------------- MODULE VedRates -------------------------------
(***************************************************************************)
(* DVLA's published vehicle tax rates (ved-rates.ts): the V149 and V149/1   *)
(* leaflets as data.  Money is in pence.  A date is the number its digits   *)
(* spell, 2026-04-01 as 20260401, which orders dates as the code's string   *)
(* comparison does.  The first-licence table, which no code reads, is left  *)
(* out.                                                                    *)
(***************************************************************************)
EXTENDS Integers, FiniteSetsExt

NotSold == -1         \* null in a rate: DVLA's "-"
Unbounded == 10000000 \* Infinity, the end of a top band

Rate(twelveMonths, sixMonths, directDebitTotal) ==
  [twelveMonths |-> twelveMonths, sixMonths |-> sixMonths, directDebit |-> directDebitTotal]

Band(max, rate) == [max |-> max, rate |-> rate]

V149 ==
  [effectiveFrom       |-> 20260401,
   historicBuiltBefore |-> 1986,
   post2017 |->
     [from |-> 20170401,
      standard |-> Rate(20000, 11000, 21000), premium |-> Rate(64000, 35200, 67200),
      listPriceThreshold |-> 4000000,
      zeroEmissionListPriceThreshold |-> 5000000, zeroEmissionThresholdFrom |-> 20250401,
      premiumYears |-> 5],
   co2Bands |->
     [from |-> 20010301, bandKCapBefore |-> 20060323, bandK |-> 11,
      bands |-> <<Band(100, Rate(2000, NotSold, 2100)),   Band(110, Rate(2000, NotSold, 2100)),
                  Band(120, Rate(3500, NotSold, 3675)),   Band(130, Rate(17000, 9350, 17850)),
                  Band(140, Rate(20000, 11000, 21000)),   Band(150, Rate(22500, 12375, 23625)),
                  Band(165, Rate(27500, 15125, 28875)),   Band(175, Rate(32500, 17875, 34125)),
                  Band(185, Rate(36000, 19800, 37800)),   Band(200, Rate(41000, 22550, 43050)),
                  Band(225, Rate(44500, 24475, 46725)),   Band(255, Rate(76000, 41800, 79800)),
                  Band(Unbounded, Rate(79000, 43450, 82950))>>],
   privateLightGoods |->
     <<Band(1549, Rate(23000, 12650, 24150)), Band(Unbounded, Rate(37500, 20625, 39375))>>,
   lightGoods |->
     [from |-> 20010301, standard |-> Rate(36000, 19800, 37800),
      euro4 |-> [from |-> 20030301, to |-> 20061231, rate |-> Rate(14000, 7700, 14700)],
      euro5 |-> [from |-> 20090101, to |-> 20101231, rate |-> Rate(14000, 7700, 14700)]],
   twoAndThreeWheelers |->
     [maxWeightKg |-> 450,
      zeroEmission |-> Rate(2700, NotSold, 2835),
      motorcycle |-> <<Band(150, Rate(2700, NotSold, 2835)), Band(400, Rate(5900, 3245, 6195)),
                       Band(600, Rate(9000, 4950, 9450)), Band(Unbounded, Rate(12500, 6875, 13125))>>,
      tricycle |-> <<Band(150, Rate(2700, NotSold, 2835)),
                     Band(Unbounded, Rate(12500, 6875, 13125))>>]]

LightVehicleRates == {V149}

EuroVIOrLater == 6

\* A levy by Euro status; VED comes on top.
Levy(euroVIOrLater, euroVOrEarlier) ==
  [euroVIOrLater |-> euroVIOrLater, euroVOrEarlier |-> euroVOrEarlier]

V149_1 ==
  [effectiveFrom |-> 20260701,
   hgv |-> [levyFromKg |-> 12000, underLevyWeight |-> Rate(100, 55, NotSold),
            ved |-> Rate(100, 50, NotSold),
            levy |-> <<Band(31000, Levy(Rate(16100, 9660, NotSold), Rate(20900, 12540, NotSold))),
                       Band(38000, Levy(Rate(38700, 23220, NotSold), Rate(50300, 30180, NotSold))),
                       Band(Unbounded,
                            Levy(Rate(61900, 37140, NotSold), Rate(80400, 48240, NotSold)))>>],
   flat |-> [k \in {"private-hgv", "special-vehicle", "small-island", "general-haulage"} |->
               CASE k = "small-island"    -> Rate(100, 55, NotSold)
                 [] k = "general-haulage" -> Rate(38000, 20900, 39900)
                 [] OTHER                 -> Rate(17700, 9735, 18585)],
   buses |-> [minSeats |-> 10,
              bands |-> <<Band(17, Rate(17700, 9735, 18585)), Band(36, Rate(24000, 13200, 25200)),
                          Band(61, Rate(35000, 19250, 36750)),
                          Band(Unbounded, Rate(53000, 29150, 55650))>>],
   recovery |-> <<Band(25000, Rate(17700, 9735, 18585)),
                  Band(Unbounded, Rate(44000, 24200, 46200))>>,
   specialTypes      |-> Levy(Rate(62000, 37190, NotSold), Rate(80500, 48290, NotSold)),
   combinedTransport |-> Levy(Rate(62000, 37190, NotSold), Rate(80500, 48290, NotSold))]

HeavyVehicleRates == {V149_1}

\* The latest block that has started; before the first one, the first.
RatesOn(blocks, day) ==
  LET started == {b \in blocks : b.effectiveFrom <= day}
      From(S) == {b.effectiveFrom : b \in S}
  IN  IF started # {} THEN CHOOSE b \in started : b.effectiveFrom = Max(From(started))
                      ELSE CHOOSE b \in blocks : b.effectiveFrom = Min(From(blocks))
=============================================================================
