---------------------------- MODULE CheckoutProofs ----------------------------
(***************************************************************************)
(* Checkout keeps its four properties for any number of requests, payments, *)
(* customers and checkouts, any rates and any baskets and forms.  Each is   *)
(* strengthened by what a request knows between its awaits: its price is    *)
(* sound, its payment stays paid, its number is taken, and the alert it     *)
(* still owes is accounted for.                                            *)
(***************************************************************************)
EXTENDS Checkout, TLAPS

-----------------------------------------------------------------------------
(* Prices and forms.                                                       *)

\* What a price is made of, and what is due of it now: everything, or a twelfth to half a
\* penny.
PriceSound(basket, p) ==
  /\ p.total = p.tax + p.serviceFee + p.v62Fee
  /\ IF basket.option = "dd" THEN p.dueNow * p.instalments - p.total \in -6 .. 6
     ELSE p.dueNow = p.total

\* Math.round is off by at most a half.
LEMMA RoundedIsClose ==
  ASSUME NEW n \in Int
  PROVE  /\ Rounded(n, 12) \in Int
         /\ Rounded(n, 12) * 12 - n \in -6 .. 6
<1> DEFINE q == (2 * n + 12) \div 24
<1>1. q \in Int /\ 24 * q <= 2 * n + 12 /\ 2 * n + 12 < 24 * q + 24
  OBVIOUS
<1>2. Rounded(n, 12) = q
  BY DEF Rounded
<1> HIDE DEF q
<1>3. q * 12 = 12 * q
  BY <1>1
<1> QED
  BY <1>1, <1>2, <1>3

\* A term on offer has a rate in pence, whatever is null or left out of the others.
LEMMA RateIsANumber ==
  ASSUME NEW rates \in RateTables, NEW basket \in Baskets, Available(basket, rates)
  PROVE  RateFor(basket.option, rates) \in Int
<1>1. basket.option \in TaxOptionId
  BY BasketsAssumption DEF Basket
<1>2. /\ rates.sixMonth \in Int \union {Null}
      /\ rates.twelveMonth \in Int \union {Null}
      /\ rates.directDebit \in Int \union {Null, Undefined}
  BY RatesAssumption
<1>3. ASSUME NEW annual \in Int
      PROVE  Surcharged(annual) \in Int
  BY DEF Surcharged, Rounded
<1>4. RateFor(basket.option, rates) # Null
  BY DEF Available, ListOptions
<1>5. CASE basket.option = "6m"
  BY <1>2, <1>4, <1>5 DEF RateFor, Sellable
<1>6. CASE basket.option = "12m"
  BY <1>2, <1>4, <1>6 DEF RateFor, Sellable
<1>7. CASE basket.option = "dd"
  BY <1>2, <1>3, <1>4, <1>7 DEF RateFor, Sellable
<1> QED
  BY <1>1, <1>5, <1>6, <1>7 DEF TaxOptionId

\* The price of a basket on offer is sound.
LEMMA PriceIsSound ==
  ASSUME NEW rates \in RateTables, NEW basket \in Baskets, Available(basket, rates)
  PROVE  /\ Price(basket, rates) \in PriceRecord
         /\ PriceSound(basket, Price(basket, rates))
<1> DEFINE tax == RateFor(basket.option, rates)
           total == tax + ServiceFee + (IF basket.v62 THEN V62Fee ELSE 0)
<1>1. tax \in Int
  BY RateIsANumber
<1>2. basket.option \in TaxOptionId /\ basket.v62 \in BOOLEAN
  BY BasketsAssumption DEF Basket
<1>3. total \in Int
  BY <1>1, FeesAssumption
<1>4. /\ Rounded(total, 12) \in Int
      /\ Rounded(total, 12) * 12 - total \in -6 .. 6
  BY <1>3, RoundedIsClose
<1>5. Price(basket, rates) =
        [tax |-> tax, serviceFee |-> ServiceFee, v62Fee |-> IF basket.v62 THEN V62Fee ELSE 0,
         total |-> total, instalments |-> IF basket.option = "dd" THEN 12 ELSE 1,
         dueNow |-> IF basket.option = "dd" THEN Rounded(total, 12) ELSE total]
  BY DEF Price, Instalments
<1>6. Price(basket, rates) \in PriceRecord
  BY <1>1, <1>3, <1>4, <1>5, FeesAssumption DEF PriceRecord
<1> HIDE DEF tax
<1>7. PriceSound(basket, Price(basket, rates))
  BY <1>4, <1>5 DEF PriceSound
<1> QED
  BY <1>6, <1>7

\* A form that passes the checks prints, whether the account's details or its own.
LEMMA AcceptedPrints ==
  ASSUME NEW v62 \in Accepted(Forms)
  PROVE  Printable(v62) /\ v62 # NoForm
<1>1. PICK form \in Forms : V62Problem(form) = "none" /\ v62 = Submission(form)
  BY DEF Accepted
<1>2. /\ form.dateAcquired = "past"
      /\ form.sameAsTaxDetails \/ Boxes \subseteq form.filled
      /\ "title" \in form.filled
      /\ AddressBoxes \subseteq form.filled
  BY <1>1 DEF V62Problem
<1>3. {"title", "name"} \union AddressBoxes \subseteq Keeper(form)
  BY <1>2 DEF Keeper, Boxes, AccountBoxes, AddressBoxes
<1> QED
  BY <1>1, <1>2, <1>3, NoFormAssumption DEF Printable, Submission

-----------------------------------------------------------------------------
(* The invariant.                                                          *)

\* No number is ahead of the counter, on an order or on a checkout about to be stored.
NumbersGiven ==
  /\ \A i \in DOMAIN orders : orders[i].number <= counter
  /\ \A r \in Requests : request[r].stage = "create" => request[r].number <= counter

\* A checkout in progress asks for what its basket costs, of a payment where there is one
\* to ask, and has a form exactly when it sells one.
Priced(q) ==
  /\ PriceSound(q.basket, q.price)
  /\ IF Card(q.basket) THEN q.payment \in Payments ELSE q.payment = NoPayment
  /\ q.basket.v62 <=> q.v62 # NoForm
  /\ q.stage = "v62" => q.basket.v62

\* What verifyPaid would say of it now.
Verified(q) == VerifyPaid(intent[q.payment], q.price.dueNow, q.customer)

\* Every checkout in progress is sound, and where a payment was found good it is good still:
\* it was raised for this amount, and nothing is taken back.
CheckoutsPriced ==
  \A r \in Requests : request[r].stage \in PlacingStage =>
    /\ Priced(request[r])
    /\ request[r].stage \in {"route", "number", "create"} /\ Card(request[r].basket)
         => Verified(request[r])

\* A card order's payment has been raised.
OrdersPaid ==
  \A i \in DOMAIN orders :
    "dd" \notin orders[i].items => orders[i].payment \in Payments
                               /\ intent[orders[i].payment] # Unmade

\* A reassignment still to settle its alert is of an order that has a supplier, and an
\* alert raised for an order that has one by then is going to be noticed.
AlertsAccounted ==
  /\ \A r \in Requests : request[r].stage = "resolve" =>
       /\ orders[request[r].order].supplier # Nobody
       /\ request[r].todo = <<"unassigned">>
  /\ \A i \in DOMAIN orders :
       orders[i].supplier # Nobody /\ Owes(i, "raise")
         => Owes(i, "resolve") \/ i \in overtaken \/ i \in lost

Inv ==
  /\ TypeOK
  /\ NumbersGiven /\ OneOrderPerNumber
  /\ CheckoutsPriced /\ OrdersPaid /\ PaidForWhatItCosts
  /\ PrintableForms
  /\ AlertsAccounted /\ UnassignedAlertsTrack

-----------------------------------------------------------------------------
(* What is written, is well formed.                                        *)

\* The alerts a checkout still has to settle, of whatever is left to do.
LEMMA SettlingShape ==
  ASSUME NEW kind \in {"raise", "resolve"}, NEW i \in Nat, NEW todo \in Seq(Alert)
  PROVE  LET q == Settling(kind, i, todo)
         IN  /\ q \in {Idle} \union SettlingRecord
             /\ q.stage = IF todo = << >> THEN "idle" ELSE kind
             /\ q.stage # "idle" => q.order = i /\ q.todo = todo
  BY DEF Settling, SettlingRecord, Idle

\* An order without a supplier, and no other, is to be alerted as unassigned.
LEMMA RaisedShape ==
  ASSUME NEW q
  PROVE  /\ Raised(q) \in Seq(Alert)
         /\ Contains(Raised(q), "unassigned") <=> q.supplier = Nobody
<1> DEFINE first == IF q.supplier = Nobody THEN <<"unassigned">> ELSE << >>
           second == IF q.basket.v62 THEN <<"v62_submitted">> ELSE << >>
<1>1. first \in Seq(Alert) /\ second \in Seq(Alert)
  <2>1. /\ << >> \in Seq(Alert)
        /\ <<"unassigned">> \in Seq(Alert)
        /\ <<"v62_submitted">> \in Seq(Alert)
    BY DEF Alert
  <2> QED
    BY <2>1
<1>2. (\E k \in 1 .. Len(first) : first[k] = "unassigned") <=> q.supplier = Nobody
  <2>1. CASE q.supplier = Nobody
    <3>1. 1 \in 1 .. Len(first) /\ first[1] = "unassigned"
      BY <2>1
    <3> QED
      BY <2>1, <3>1
  <2>2. CASE q.supplier # Nobody
    BY <2>2
  <2> QED
    BY <2>1, <2>2
<1>3. ~\E k \in 1 .. Len(second) : second[k] = "unassigned"
  <2>1. CASE q.basket.v62
    <3>1. Len(second) = 1 /\ second[1] = "v62_submitted"
      BY <2>1
    <3> QED
      BY <3>1
  <2>2. CASE ~q.basket.v62
    BY <2>2
  <2> QED
    BY <2>1, <2>2
<1>4. Raised(q) = first \o second
  BY DEF Raised
<1> HIDE DEF first, second
<1>5. /\ first \o second \in Seq(Alert)
      /\ Len(first \o second) = Len(first) + Len(second)
      /\ Len(first) \in Nat /\ Len(second) \in Nat
      /\ \A k \in 1 .. Len(first) + Len(second) :
           (first \o second)[k] = IF k <= Len(first) THEN first[k] ELSE second[k - Len(first)]
  BY <1>1
<1>6. (\E k \in 1 .. Len(first \o second) : (first \o second)[k] = "unassigned")
        <=> q.supplier = Nobody
  <2>1. ASSUME NEW k \in 1 .. Len(first \o second), (first \o second)[k] = "unassigned"
        PROVE  q.supplier = Nobody
    <3>1. CASE k <= Len(first)
      BY <1>2, <1>5, <2>1, <3>1
    <3>2. CASE ~(k <= Len(first))
      <4>1. k - Len(first) \in 1 .. Len(second)
        BY <1>5, <3>2
      <4> QED
        BY <1>3, <1>5, <2>1, <3>2, <4>1
    <3> QED
      BY <3>1, <3>2
  <2>2. ASSUME q.supplier = Nobody
        PROVE  \E k \in 1 .. Len(first \o second) : (first \o second)[k] = "unassigned"
    <3>1. PICK k \in 1 .. Len(first) : first[k] = "unassigned"
      BY <1>2, <2>2
    <3> QED
      BY <1>5, <3>1
  <2> QED
    BY <2>1, <2>2
<1> QED
  BY <1>4, <1>5, <1>6 DEF Contains

\* What is done leaves the rest to do.
LEMMA TailShape ==
  ASSUME NEW todo \in Seq(Alert), todo # << >>
  PROVE  /\ Head(todo) \in Alert
         /\ Tail(todo) \in Seq(Alert)
         /\ Contains(todo, "unassigned")
              <=> Head(todo) = "unassigned" \/ Contains(Tail(todo), "unassigned")
<1>1. /\ Head(todo) \in Alert
      /\ Tail(todo) \in Seq(Alert)
      /\ Len(todo) \in Nat \ {0}
      /\ Len(Tail(todo)) = Len(todo) - 1
      /\ Head(todo) = todo[1]
      /\ \A k \in 1 .. Len(Tail(todo)) : Tail(todo)[k] = todo[k + 1]
  OBVIOUS
<1>2. ASSUME Contains(todo, "unassigned")
      PROVE  Head(todo) = "unassigned" \/ Contains(Tail(todo), "unassigned")
  <2>1. PICK k \in 1 .. Len(todo) : todo[k] = "unassigned"
    BY <1>2 DEF Contains
  <2>2. CASE k = 1
    BY <1>1, <2>1, <2>2
  <2>3. CASE k # 1
    <3>1. k - 1 \in 1 .. Len(Tail(todo)) /\ Tail(todo)[k - 1] = "unassigned"
      BY <1>1, <2>1, <2>3
    <3> QED
      BY <3>1 DEF Contains
  <2> QED
    BY <2>2, <2>3
<1>3. ASSUME Contains(Tail(todo), "unassigned")
      PROVE  Contains(todo, "unassigned")
  <2>1. PICK k \in 1 .. Len(Tail(todo)) : Tail(todo)[k] = "unassigned"
    BY <1>3 DEF Contains
  <2>2. k + 1 \in 1 .. Len(todo) /\ todo[k + 1] = "unassigned"
    BY <1>1, <2>1
  <2> QED
    BY <2>2 DEF Contains
<1>4. ASSUME Head(todo) = "unassigned"
      PROVE  Contains(todo, "unassigned")
  BY <1>1, <1>4 DEF Contains
<1> QED
  BY <1>1, <1>2, <1>3, <1>4

\* Where something is to be done, there is something left.
LEMMA ContainsSome ==
  ASSUME NEW todo, NEW e, Contains(todo, e)
  PROVE  todo # << >>
<1>1. PICK k \in 1 .. Len(todo) : todo[k] = e
  BY DEF Contains
<1>2. CASE todo = << >>
  BY <1>1, <1>2
<1> QED
  BY <1>2

\* A request's stage says what it is.
LEMMA StageShape ==
  ASSUME TypeOK, NEW r \in Requests
  PROVE  /\ request[r].stage \in PlacingStage => request[r] \in Placing
         /\ request[r].stage \in {"raise", "resolve"} =>
              /\ request[r] \in SettlingRecord
              /\ request[r].order \in DOMAIN orders
         /\ request[r].stage \in {"idle", "raise", "resolve"} \union PlacingStage
         /\ request[r] # Idle => request[r].stage # "idle"
  BY DEF TypeOK, Placing, SettlingRecord, Idle, PlacingStage

\* Moving on leaves the rest of a checkout as it is.
LEMMA GotoShape ==
  ASSUME TypeOK, NEW r \in Requests, request[r].stage \in PlacingStage,
         NEW stage \in PlacingStage, Goto(r, stage)
  PROVE  /\ request' \in [Requests -> {Idle} \union Placing \union SettlingRecord]
         /\ request'[r] = [request[r] EXCEPT !.stage = stage]
         /\ request'[r] \in Placing
         /\ \A s \in Requests \ {r} : request'[s] = request[s]
<1>1. request[r] \in Placing
  BY StageShape
<1>2. [request[r] EXCEPT !.stage = stage] \in Placing
  BY <1>1 DEF Placing
<1>3. request' = [request EXCEPT ![r] = [request[r] EXCEPT !.stage = stage]]
  BY DEF Goto
<1> QED
  BY <1>2, <1>3 DEF TypeOK

-----------------------------------------------------------------------------
(* Types.                                                                  *)

\* Every step of a request leaves everything well formed.
LEMMA TypeStep ==
  ASSUME TypeOK, [Next]_vars
  PROVE  TypeOK'
<1>1. CASE UNCHANGED vars
  BY <1>1 DEF TypeOK, vars
<1>2. CASE RatesChange
  BY <1>2 DEF TypeOK, RatesChange
<1>3. ASSUME NEW p \in Payments, CreateIntent(p)
      PROVE  TypeOK'
  <2>1. PICK customer \in Customers, basket \in Baskets :
          /\ Available(basket, ved)
          /\ intent' = [intent EXCEPT ![p] =
               [customer |-> customer, amount |-> Price(basket, ved).dueNow,
                succeeded |-> FALSE]]
    BY <1>3 DEF CreateIntent
  <2>2. Price(basket, ved).dueNow \in Int
    BY <2>1, PriceIsSound DEF TypeOK, PriceRecord
  <2>3. [customer |-> customer, amount |-> Price(basket, ved).dueNow, succeeded |-> FALSE]
          \in Intent
    BY <2>2 DEF Intent
  <2> QED
    BY <1>3, <2>1, <2>3 DEF TypeOK, CreateIntent
<1>4. ASSUME NEW p \in Payments, Pay(p)
      PROVE  TypeOK'
  <2>1. [intent[p] EXCEPT !.succeeded = TRUE] \in Intent
    BY <1>4 DEF TypeOK, Pay, Intent
  <2> QED
    BY <1>4, <2>1 DEF TypeOK, Pay
<1>5. ASSUME NEW r \in Requests, Begin(r)
      PROVE  TypeOK'
  <2>1. PICK customer \in Customers, basket \in Baskets :
          /\ Available(basket, ved)
          /\ \E payment \in IF Card(basket) THEN Payments ELSE {NoPayment},
                v62 \in IF basket.v62 THEN Accepted(Forms) ELSE {NoForm} :
                request' = [request EXCEPT ![r] =
                  [stage |-> IF basket.v62 THEN "v62" ELSE AfterV62(basket),
                   customer |-> customer, basket |-> basket, payment |-> payment,
                   v62 |-> v62, price |-> Price(basket, ved), supplier |-> Nobody,
                   number |-> 0]]
    BY <1>5 DEF Begin
  <2>2. Price(basket, ved) \in PriceRecord
    BY <2>1, PriceIsSound DEF TypeOK
  <2>3. PICK q \in Placing : request' = [request EXCEPT ![r] = q]
    BY <2>1, <2>2 DEF Placing, PlacingStage, AfterV62
  <2> QED
    BY <1>5, <2>3 DEF TypeOK, Begin, Placing, PlacingStage
<1>6. ASSUME NEW r \in Requests, LookupForV62(r) \/ Verify(r)
      PROVE  TypeOK'
  <2>1. CASE request' = [request EXCEPT ![r] = Idle]
    BY <1>6, <2>1 DEF TypeOK, LookupForV62, Verify, Idle
  <2>2. CASE ~(request' = [request EXCEPT ![r] = Idle])
    <3>1. PICK stage \in {"verify", "route"} : Goto(r, stage)
      BY <1>6, <2>2 DEF LookupForV62, Verify, AfterV62
    <3>2. request[r].stage \in PlacingStage
      BY <1>6 DEF LookupForV62, Verify, PlacingStage
    <3>3. /\ request' \in [Requests -> {Idle} \union Placing \union SettlingRecord]
          /\ request'[r] \in Placing
          /\ \A s \in Requests \ {r} : request'[s] = request[s]
      BY <3>1, <3>2, GotoShape DEF PlacingStage
    <3> QED
      BY <1>6, <3>3 DEF TypeOK, LookupForV62, Verify, Placing, PlacingStage
  <2> QED
    BY <2>1, <2>2
<1>7. ASSUME NEW r \in Requests, RouteOrder(r) \/ Number(r)
      PROVE  TypeOK'
  <2>1. request[r] \in Placing
    BY <1>7, StageShape DEF RouteOrder, Number, PlacingStage
  <2>2. counter' \in Nat
    BY <1>7 DEF RouteOrder, Number, NextOrderNumber, TypeOK
  <2>3. PICK q \in Placing : request' = [request EXCEPT ![r] = q]
    <3>1. CASE RouteOrder(r)
      <4>1. PICK supplier \in Suppliers \union {Nobody} :
              request' = [request EXCEPT ![r] =
                            [request[r] EXCEPT !.stage = "number", !.supplier = supplier]]
        BY <3>1 DEF RouteOrder
      <4>2. [request[r] EXCEPT !.stage = "number", !.supplier = supplier] \in Placing
        BY <2>1 DEF Placing, PlacingStage
      <4> QED
        BY <4>1, <4>2
    <3>2. CASE Number(r)
      <4>1. request' = [request EXCEPT ![r] =
                          [request[r] EXCEPT !.stage = "create", !.number = NextOrderNumber]]
        BY <3>2 DEF Number
      <4>2. [request[r] EXCEPT !.stage = "create", !.number = NextOrderNumber] \in Placing
        <5>1. NextOrderNumber \in Nat
          BY DEF NextOrderNumber, TypeOK
        <5> QED
          BY <2>1, <5>1 DEF Placing, PlacingStage
      <4> QED
        BY <4>1, <4>2
    <3> QED
      BY <1>7, <3>1, <3>2
  <2> QED
    BY <1>7, <2>2, <2>3 DEF TypeOK, RouteOrder, Number, Placing, PlacingStage
<1>8. ASSUME NEW r \in Requests, Create(r)
      PROVE  TypeOK'
  <2>1. request[r] \in Placing /\ request[r].basket \in Basket
    BY <1>8, StageShape, BasketsAssumption DEF Create, PlacingStage, Placing
  <2>2. NewOrder(request[r]) \in Order
    BY <2>1 DEF NewOrder, Order, Placing, ItemsFor, Basket
  <2>3. /\ orders' \in Seq(Order) /\ alerts' \in Seq(SUBSET Alert)
        /\ Len(orders') = Len(orders) + 1 /\ Len(alerts') = Len(orders')
        /\ DOMAIN orders' = 1 .. Len(orders) + 1 /\ DOMAIN orders = 1 .. Len(orders)
        /\ Len(orders) \in Nat
    BY <1>8, <2>2 DEF TypeOK, Create
  <2>4. PICK q \in {Idle} \union SettlingRecord :
          /\ request' = [request EXCEPT ![r] = q]
          /\ q.stage \in {"raise", "resolve"} => q.order = Len(orders) + 1 /\ q.todo # << >>
    <3> DEFINE q == Settling("raise", Len(orders) + 1, Raised(request[r]))
    <3>1. request' = [request EXCEPT ![r] = q]
      BY <1>8 DEF Create
    <3>2. Raised(request[r]) \in Seq(Alert) /\ Len(orders) + 1 \in Nat
      BY <2>3, RaisedShape
    <3>3. /\ q \in {Idle} \union SettlingRecord
          /\ q.stage = IF Raised(request[r]) = << >> THEN "idle" ELSE "raise"
          /\ q.stage # "idle" => q.order = Len(orders) + 1 /\ q.todo = Raised(request[r])
      BY <3>2, SettlingShape
    <3> QED
      BY <3>1, <3>3
  <2> QED
    BY <1>8, <2>3, <2>4 DEF TypeOK, Create
<1>9. ASSUME NEW r \in Requests, Raise(r)
      PROVE  TypeOK'
  <2>1. /\ request[r] \in SettlingRecord
        /\ request[r].order \in DOMAIN orders
        /\ request[r].todo # << >>
    BY <1>9, StageShape DEF Raise, TypeOK
  <2>2. /\ request[r].order \in Nat /\ Head(request[r].todo) \in Alert
        /\ Tail(request[r].todo) \in Seq(Alert)
    BY <2>1, TailShape DEF SettlingRecord
  <2>3. PICK q \in {Idle} \union SettlingRecord :
          /\ request' = [request EXCEPT ![r] = q]
          /\ q.stage \in {"raise", "resolve"} =>
               q.order = request[r].order /\ q.todo # << >>
    <3> DEFINE rest == Tail(request[r].todo)
               q == Settling("raise", request[r].order, rest)
    <3>1. request' = [request EXCEPT ![r] = q]
      BY <1>9 DEF Raise
    <3>2. /\ q \in {Idle} \union SettlingRecord
          /\ q.stage = IF rest = << >> THEN "idle" ELSE "raise"
          /\ q.stage # "idle" => q.order = request[r].order /\ q.todo = rest
      <4>1. rest \in Seq(Alert) /\ request[r].order \in Nat
        BY <2>2
      <4> HIDE DEF rest
      <4> QED
        BY <4>1, SettlingShape
    <3> QED
      BY <3>1, <3>2
  <2>4. /\ alerts' \in Seq(SUBSET Alert)
        /\ Len(alerts') = Len(alerts)
    BY <1>9, <2>1, <2>2 DEF TypeOK, Raise
  <2> QED
    BY <1>9, <2>1, <2>3, <2>4 DEF TypeOK, Raise
<1>10. ASSUME NEW r \in Requests, Reassign(r)
       PROVE  TypeOK'
  <2>1. PICK i \in DOMAIN orders, supplier \in Suppliers :
          /\ orders' = [orders EXCEPT ![i].supplier = supplier]
          /\ request' = [request EXCEPT ![r] = Settling("resolve", i, <<"unassigned">>)]
    BY <1>10 DEF Reassign
  <2>2. /\ orders' \in Seq(Order) /\ Len(orders') = Len(orders)
        /\ DOMAIN orders' = DOMAIN orders /\ DOMAIN orders \subseteq Nat
    <3>1. orders[i] \in Order
      BY DEF TypeOK
    <3>2. [orders[i] EXCEPT !.supplier = supplier] \in Order
      BY <3>1 DEF Order
    <3> QED
      BY <2>1, <3>2 DEF TypeOK
  <2>3. PICK q \in {Idle} \union SettlingRecord :
          /\ request' = [request EXCEPT ![r] = q]
          /\ q.stage \in {"raise", "resolve"} => q.order = i /\ q.todo # << >>
    <3> DEFINE q == Settling("resolve", i, <<"unassigned">>)
    <3>1. <<"unassigned">> \in Seq(Alert) /\ i \in Nat
      BY <2>2 DEF Alert
    <3>2. /\ q \in {Idle} \union SettlingRecord
          /\ q.stage = IF <<"unassigned">> = << >> THEN "idle" ELSE "resolve"
          /\ q.stage # "idle" => q.order = i /\ q.todo = <<"unassigned">>
      BY <3>1, SettlingShape
    <3> QED
      BY <2>1, <3>2
  <2> QED
    BY <1>10, <2>2, <2>3 DEF TypeOK, Reassign
<1>11. ASSUME NEW r \in Requests, Resolve(r) \/ Fails(r)
       PROVE  TypeOK'
  <2>1. request' \in [Requests -> {Idle} \union Placing \union SettlingRecord]
    BY <1>11 DEF TypeOK, Resolve, Fails
  <2>2. \A s \in Requests : request'[s] = IF s = r THEN Idle ELSE request[s]
    BY <1>11 DEF TypeOK, Resolve, Fails
  <2>3. /\ alerts' \in Seq(SUBSET Alert)
        /\ Len(alerts') = Len(alerts)
    <3>1. CASE Resolve(r)
      <4>1. request[r].order \in DOMAIN alerts
        BY <3>1 DEF TypeOK, Resolve
      <4>2. alerts[request[r].order] \ {"unassigned"} \in SUBSET Alert
        BY <4>1 DEF TypeOK
      <4>3. alerts' = [alerts EXCEPT ![request[r].order]
                         = alerts[request[r].order] \ {"unassigned"}]
        BY <3>1 DEF Resolve
      <4> QED
        BY <4>1, <4>2, <4>3 DEF TypeOK
    <3>2. CASE Fails(r)
      BY <3>2 DEF TypeOK, Fails
    <3> QED
      BY <1>11, <3>1, <3>2
  <2>4. lost' \subseteq DOMAIN orders /\ overtaken' \subseteq DOMAIN orders
    BY <1>11 DEF TypeOK, Resolve, Fails
  <2> QED
    BY <1>11, <2>1, <2>2, <2>3, <2>4 DEF TypeOK, Resolve, Fails, Idle
<1> QED
  BY <1>1, <1>2, <1>3, <1>4, <1>5, <1>6, <1>7, <1>8, <1>9, <1>10, <1>11 DEF Next

-----------------------------------------------------------------------------
(* What a step of a request does to it.                                    *)

\* The actions of one request.
Acts(r) ==
  \/ Begin(r) \/ LookupForV62(r) \/ Verify(r) \/ RouteOrder(r) \/ Number(r)
  \/ Create(r) \/ Raise(r) \/ Reassign(r) \/ Resolve(r) \/ Fails(r)

\* A step of one request leaves the others alone, and takes it to one of its next stages.
LEMMA RequestStep ==
  ASSUME TypeOK, NEW r \in Requests, Acts(r)
  PROVE  /\ \A s \in Requests \ {r} : request'[s] = request[s]
         /\ Begin(r) => request'[r].stage \in {"v62", "verify", "route"}
         /\ LookupForV62(r) \/ Verify(r) =>
              \/ request'[r] = Idle
              \/ \E stage \in {"verify", "route"} :
                   request'[r] = [request[r] EXCEPT !.stage = stage]
         /\ RouteOrder(r) => \E supplier \in Suppliers \union {Nobody} :
              request'[r] = [request[r] EXCEPT !.stage = "number", !.supplier = supplier]
         /\ Number(r) =>
              request'[r] = [request[r] EXCEPT !.stage = "create", !.number = NextOrderNumber]
         /\ Create(r) => request'[r] = Settling("raise", Len(orders) + 1, Raised(request[r]))
         /\ Raise(r) => request'[r] = Settling("raise", request[r].order, Tail(request[r].todo))
         /\ Reassign(r) => \E i \in DOMAIN orders :
              request'[r] = Settling("resolve", i, <<"unassigned">>)
         /\ Resolve(r) \/ Fails(r) => request'[r] = Idle
<1>1. /\ DOMAIN request = Requests
      /\ request = [s \in Requests |-> request[s]]
  BY DEF TypeOK
<1>2. ASSUME NEW s \in Requests \ {r}
      PROVE  request'[s] = request[s]
  BY <1>1 DEF Acts, Begin, LookupForV62, Verify, RouteOrder, Number, Create, Raise, Reassign,
              Resolve, Fails, Goto
<1>3. Begin(r) => request'[r].stage \in {"v62", "verify", "route"}
  BY <1>1 DEF Begin, AfterV62
<1>4. LookupForV62(r) \/ Verify(r) =>
        \/ request'[r] = Idle
        \/ \E stage \in {"verify", "route"} : request'[r] = [request[r] EXCEPT !.stage = stage]
  BY <1>1 DEF LookupForV62, Verify, Goto, AfterV62
<1>5. RouteOrder(r) => \E supplier \in Suppliers \union {Nobody} :
        request'[r] = [request[r] EXCEPT !.stage = "number", !.supplier = supplier]
  BY <1>1 DEF RouteOrder
<1>6. Number(r) =>
        request'[r] = [request[r] EXCEPT !.stage = "create", !.number = NextOrderNumber]
  BY <1>1 DEF Number
<1>7. Create(r) => request'[r] = Settling("raise", Len(orders) + 1, Raised(request[r]))
  BY <1>1 DEF Create
<1>8. Raise(r) => request'[r] = Settling("raise", request[r].order, Tail(request[r].todo))
  BY <1>1 DEF Raise
<1>9. Reassign(r) => \E i \in DOMAIN orders :
        request'[r] = Settling("resolve", i, <<"unassigned">>)
  BY <1>1 DEF Reassign
<1>10. Resolve(r) \/ Fails(r) => request'[r] = Idle
  BY <1>1 DEF Resolve, Fails
<1> QED
  BY <1>2, <1>3, <1>4, <1>5, <1>6, <1>7, <1>8, <1>9, <1>10

\* The stage each of them takes its request to.
LEMMA NextStage ==
  ASSUME TypeOK, NEW r \in Requests, Acts(r)
  PROVE  /\ Begin(r) => request'[r].stage \in {"v62", "verify", "route"}
         /\ LookupForV62(r) => request'[r].stage \in {"verify", "route"}
         /\ Verify(r) => request'[r].stage \in {"route", "idle"}
         /\ RouteOrder(r) => request'[r].stage = "number"
         /\ Number(r) => request'[r].stage = "create"
         /\ Create(r) \/ Raise(r) => request'[r].stage \in {"raise", "idle"}
         /\ Reassign(r) => request'[r].stage \in {"resolve", "idle"}
         /\ Resolve(r) \/ Fails(r) => request'[r].stage = "idle"
<1>1. /\ DOMAIN request = Requests
      /\ request[r].stage \in PlacingStage => request[r] \in Placing
  BY StageShape DEF TypeOK
<1>2. Begin(r) => request'[r].stage \in {"v62", "verify", "route"}
  BY <1>1 DEF Begin, AfterV62
<1>3. LookupForV62(r) => request'[r].stage \in {"verify", "route"}
  BY <1>1 DEF LookupForV62, Goto, AfterV62, PlacingStage, Placing
<1>4. Verify(r) => request'[r].stage \in {"route", "idle"}
  BY <1>1 DEF Verify, Goto, PlacingStage, Placing, Idle
<1>5. RouteOrder(r) => request'[r].stage = "number"
  BY <1>1 DEF RouteOrder, PlacingStage, Placing
<1>6. Number(r) => request'[r].stage = "create"
  BY <1>1 DEF Number, PlacingStage, Placing
<1>7. Create(r) \/ Raise(r) => request'[r].stage \in {"raise", "idle"}
  BY <1>1 DEF Create, Raise, Settling, Idle
<1>8. Reassign(r) => request'[r].stage \in {"resolve", "idle"}
  BY <1>1 DEF Reassign, Settling, Idle
<1>9. Resolve(r) \/ Fails(r) => request'[r].stage = "idle"
  BY <1>1 DEF Resolve, Fails, Idle
<1> QED
  BY <1>2, <1>3, <1>4, <1>5, <1>6, <1>7, <1>8, <1>9

-----------------------------------------------------------------------------
(* Order numbers.                                                          *)

\* Whatever is about to be stored after a step was before it, or has just been numbered.
LEMMA StillNumbered ==
  ASSUME TypeOK, [Next]_vars, NEW s \in Requests, request'[s].stage = "create"
  PROVE  \/ request'[s] = request[s]
         \/ Number(s) /\ request'[s].number = NextOrderNumber
<1>1. CASE UNCHANGED request
  BY <1>1
<1>2. ASSUME NEW r \in Requests, Acts(r)
      PROVE  \/ request'[s] = request[s]
             \/ Number(s) /\ request'[s].number = NextOrderNumber
  <2>1. CASE s # r
    BY <1>2, <2>1, RequestStep DEF Acts
  <2>2. CASE s = r
    <3>1. Number(r)
      BY <1>2, <2>2, NextStage DEF Acts
    <3>2. request[r] \in Placing
      BY <3>1, StageShape DEF Number, PlacingStage
    <3> QED
      BY <2>2, <3>1, <3>2, RequestStep DEF Acts, Placing
  <2> QED
    BY <2>1, <2>2
<1> QED
  BY <1>1, <1>2 DEF Next, vars, RatesChange, CreateIntent, Pay, Acts

\* One atomic increment: what is numbered next has a number nobody has.
LEMMA NumbersStep ==
  ASSUME TypeOK, NumbersGiven, OneOrderPerNumber, [Next]_vars
  PROVE  NumbersGiven' /\ OneOrderPerNumber'
<1>1. /\ counter' \in Nat /\ counter \in Nat
      /\ counter <= counter'
      /\ \A r \in Requests : Number(r) => counter' = counter + 1 /\ orders' = orders
      /\ NextOrderNumber = counter + 1
  <2>1. NextOrderNumber = counter + 1 /\ counter \in Nat
    BY DEF TypeOK, NextOrderNumber
  <2>2. \A r \in Requests : Number(r) => counter' = counter + 1 /\ orders' = orders
    BY <2>1 DEF Number
  <2>3. counter' = counter \/ \E r \in Requests : Number(r)
    BY DEF Next, vars, RatesChange, CreateIntent, Pay, Begin, LookupForV62, Verify,
           RouteOrder, Create, Raise, Reassign, Resolve, Fails
  <2> QED
    BY <2>1, <2>2, <2>3
<1>2. ASSUME NEW i \in DOMAIN orders
      PROVE  orders[i].number \in Nat
  <2>1. orders[i] \in Order
    BY DEF TypeOK
  <2> QED
    BY <2>1 DEF Order
<1>3. ASSUME NEW r \in Requests, request[r].stage = "create"
      PROVE  request[r].number \in Nat
  BY <1>3, StageShape DEF Placing, PlacingStage
<1>4. CASE /\ DOMAIN orders' = DOMAIN orders
           /\ \A i \in DOMAIN orders : orders'[i].number = orders[i].number
  <2>1. ASSUME NEW s \in Requests, request'[s].stage = "create"
        PROVE  /\ request'[s].number <= counter'
               /\ \A i \in DOMAIN orders' : orders'[i].number # request'[s].number
    <3>1. CASE request'[s] = request[s]
      BY <1>1, <1>3, <1>4, <2>1, <3>1 DEF NumbersGiven, OneOrderPerNumber
    <3>2. CASE Number(s) /\ request'[s].number = NextOrderNumber
      BY <1>1, <1>2, <1>4, <3>2 DEF NumbersGiven
    <3> QED
      BY <2>1, <3>1, <3>2, StillNumbered
  <2>2. ASSUME NEW r \in Requests, NEW s \in Requests, request'[r].stage = "create",
               request'[s].stage = "create", request'[r].number = request'[s].number
        PROVE  r = s
    <3>1. CASE request'[r] = request[r] /\ request'[s] = request[s]
      <4>1. /\ request[r].stage = "create" /\ request[s].stage = "create"
            /\ request[r].number = request[s].number
        BY <2>2, <3>1
      <4>2. \A a, b \in {q \in Requests : request[q].stage = "create"} :
              request[b].number = request[a].number => b = a
        BY DEF OneOrderPerNumber
      <4> QED
        BY <4>1, <4>2
    <3>2. CASE Number(r) /\ request'[r].number = NextOrderNumber /\ request'[s] = request[s]
      <4>1. request[s].number <= counter /\ request[s].number \in Nat
        BY <1>3, <2>2, <3>2 DEF NumbersGiven
      <4>2. request[s].number = counter + 1
        BY <1>1, <2>2, <3>2
      <4> QED
        BY <1>1, <4>1, <4>2
    <3>3. CASE Number(s) /\ request'[s].number = NextOrderNumber /\ request'[r] = request[r]
      <4>1. request[r].number <= counter /\ request[r].number \in Nat
        BY <1>3, <2>2, <3>3 DEF NumbersGiven
      <4>2. request[r].number = counter + 1
        BY <1>1, <2>2, <3>3
      <4> QED
        BY <1>1, <4>1, <4>2
    <3>4. CASE Number(r) /\ Number(s)
      <4>1. request[s].stage = "number" /\ request[s] \in Placing
        BY <3>4, StageShape DEF Number, PlacingStage
      <4>2. ASSUME r # s
            PROVE  FALSE
        <5>1. request'[s] = request[s]
          BY <3>4, <4>2, RequestStep DEF Acts
        <5> QED
          BY <2>2, <4>1, <5>1
      <4> QED
        BY <4>2
    <3> QED
      BY <2>2, <3>1, <3>2, <3>3, <3>4, StillNumbered
  <2>3. /\ \A i \in DOMAIN orders' : orders'[i].number <= counter'
        /\ \A i, j \in DOMAIN orders' : orders'[i].number = orders'[j].number => i = j
    BY <1>1, <1>2, <1>4 DEF NumbersGiven, OneOrderPerNumber
  <2> QED
    BY <2>1, <2>2, <2>3 DEF NumbersGiven, OneOrderPerNumber
<1>5. ASSUME NEW r \in Requests, Create(r)
      PROVE  NumbersGiven' /\ OneOrderPerNumber'
  <2>1. /\ DOMAIN orders' = 1 .. Len(orders) + 1 /\ DOMAIN orders = 1 .. Len(orders)
        /\ Len(orders) \in Nat
        /\ \A i \in DOMAIN orders : orders'[i] = orders[i]
        /\ orders'[Len(orders) + 1].number = request[r].number
        /\ counter' = counter
        /\ request[r].stage = "create"
    BY <1>5 DEF TypeOK, Create, NewOrder
  <2>2. ~\E s \in Requests : Number(s)
    BY <1>1, <1>5 DEF Create
  <2>3. ASSUME NEW s \in Requests, request'[s].stage = "create"
        PROVE  s # r /\ request'[s] = request[s]
    <3>1. request'[s] = request[s]
      BY <2>2, <2>3, StillNumbered
    <3>2. request'[r].stage # "create"
      BY <1>5, NextStage DEF Acts
    <3> QED
      BY <2>3, <3>1, <3>2
  <2> QED
    BY <1>2, <1>3, <2>1, <2>3 DEF NumbersGiven, OneOrderPerNumber
<1>6. ASSUME NEW r \in Requests, Reassign(r)
      PROVE  /\ DOMAIN orders' = DOMAIN orders
             /\ \A i \in DOMAIN orders : orders'[i].number = orders[i].number
  <2>1. PICK i \in DOMAIN orders, supplier \in Suppliers :
          orders' = [orders EXCEPT ![i].supplier = supplier]
    BY <1>6 DEF Reassign
  <2>2. \A j \in DOMAIN orders : orders[j] \in Order
    BY DEF TypeOK
  <2>3. DOMAIN orders' = DOMAIN orders
    BY <2>1 DEF TypeOK
  <2>4. ASSUME NEW j \in DOMAIN orders
        PROVE  orders'[j].number = orders[j].number
    <3>1. orders'[j] = IF j = i THEN [orders[i] EXCEPT !.supplier = supplier] ELSE orders[j]
      BY <2>1 DEF TypeOK
    <3> QED
      BY <2>2, <3>1 DEF Order
  <2> QED
    BY <2>3, <2>4
<1>7. \/ orders' = orders \/ \E r \in Requests : Create(r) \/ Reassign(r)
  BY DEF Next, vars, RatesChange, CreateIntent, Pay, Begin, LookupForV62, Verify,
         RouteOrder, Number, Raise, Resolve, Fails
<1> QED
  BY <1>4, <1>5, <1>6, <1>7

-----------------------------------------------------------------------------
(* What was paid.                                                          *)

\* A payment once raised keeps who it is of and what it is for, and a paid one stays paid.
LEMMA IntentsStand ==
  ASSUME TypeOK, [Next]_vars, NEW p \in Payments, intent[p] # Unmade
  PROVE  /\ intent'[p] # Unmade
         /\ intent'[p].customer = intent[p].customer
         /\ intent'[p].amount = intent[p].amount
         /\ intent[p].succeeded => intent'[p].succeeded
<1>1. intent[p] \in Intent /\ DOMAIN intent = Payments
  BY DEF TypeOK
<1>2. ASSUME NEW q \in Payments, CreateIntent(q)
      PROVE  intent'[p] = intent[p]
  BY <1>1, <1>2 DEF CreateIntent
<1>3. ASSUME NEW q \in Payments, Pay(q)
      PROVE  intent'[p] = IF p = q THEN [intent[p] EXCEPT !.succeeded = TRUE] ELSE intent[p]
  BY <1>1, <1>3 DEF Pay
<1>4. [intent[p] EXCEPT !.succeeded = TRUE] \in Intent
  BY <1>1 DEF Intent
<1>5. \A i \in Intent : i # Unmade
  <2>1. ASSUME NEW i \in Intent, i = Unmade
        PROVE  FALSE
    <3>1. "customer" \in DOMAIN i
      BY DEF Intent
    <3>2. "customer" \notin DOMAIN Unmade
      BY DEF Unmade
    <3> QED
      BY <2>1, <3>1, <3>2
  <2> QED
    BY <2>1
<1>6. \/ intent' = intent
      \/ \E q \in Payments : CreateIntent(q) \/ Pay(q)
  BY DEF Next, vars, RatesChange, Begin, LookupForV62, Verify, RouteOrder, Number, Create,
         Raise, Reassign, Resolve, Fails
<1> QED
  BY <1>1, <1>2, <1>3, <1>4, <1>5, <1>6 DEF Intent

\* p and q are the same checkout, at different stages of it.
SameSale(p, q) ==
  /\ p.customer = q.customer /\ p.basket = q.basket /\ p.payment = q.payment
  /\ p.v62 = q.v62 /\ p.price = q.price

Routing == {"route", "number", "create"}

\* Whatever is being placed after a step has just begun or was before it, the same but for
\* its stage, its supplier and its number; and a card sale passed verifyPaid on its way to
\* be routed.
LEMMA StillPlacing ==
  ASSUME TypeOK, [Next]_vars, NEW s \in Requests, request'[s].stage \in PlacingStage
  PROVE  \/ Begin(s)
         \/ /\ request[s].stage \in PlacingStage
            /\ SameSale(request'[s], request[s])
            /\ request'[s].stage = "v62" => request[s].stage = "v62"
            /\ request'[s].stage \in Routing =>
                 \/ request[s].stage \in Routing
                 \/ ~Card(request[s].basket)
                 \/ Verified(request[s])
<1>1. CASE request'[s] = request[s]
  BY <1>1 DEF SameSale
<1>2. ASSUME NEW r \in Requests, Acts(r)
      PROVE  s # r => request'[s] = request[s]
  BY <1>2, RequestStep DEF Acts
<1>3. CASE Acts(s)
  <2>1. LookupForV62(s) \/ Verify(s) \/ RouteOrder(s) \/ Number(s) \/ Begin(s)
    BY <1>3, NextStage DEF Acts, PlacingStage
  <2>2. CASE LookupForV62(s)
    <3>1. request[s] \in Placing /\ request[s].stage = "v62"
      BY <2>2, StageShape DEF LookupForV62, PlacingStage
    <3>2. request'[s] = [request[s] EXCEPT !.stage = AfterV62(request[s].basket)]
      BY <2>2 DEF LookupForV62, Goto, TypeOK
    <3> QED
      BY <3>1, <3>2 DEF Placing, PlacingStage, SameSale, Routing, AfterV62
  <2>3. CASE Verify(s)
    <3>1. request[s] \in Placing /\ request[s].stage = "verify"
      BY <2>3, StageShape DEF Verify, PlacingStage
    <3>2. CASE Verified(request[s])
      <4>1. request'[s] = [request[s] EXCEPT !.stage = "route"]
        BY <2>3, <3>2 DEF Verify, Verified, Goto, TypeOK
      <4> QED
        BY <3>1, <3>2, <4>1 DEF Placing, PlacingStage, SameSale, Routing
    <3>3. CASE ~Verified(request[s])
      <4>1. request'[s] = Idle
        BY <2>3, <3>3 DEF Verify, Verified, TypeOK
      <4> QED
        BY <4>1 DEF Idle, PlacingStage
    <3> QED
      BY <3>2, <3>3
  <2>4. CASE RouteOrder(s)
    <3>1. request[s] \in Placing /\ request[s].stage = "route"
      BY <2>4, StageShape DEF RouteOrder, PlacingStage
    <3>2. PICK supplier \in Suppliers \union {Nobody} :
            request'[s] = [request[s] EXCEPT !.stage = "number", !.supplier = supplier]
      BY <2>4, RequestStep DEF Acts
    <3> QED
      BY <3>1, <3>2 DEF Placing, PlacingStage, SameSale, Routing
  <2>5. CASE Number(s)
    <3>1. request[s] \in Placing /\ request[s].stage = "number"
      BY <2>5, StageShape DEF Number, PlacingStage
    <3>2. request'[s] = [request[s] EXCEPT !.stage = "create", !.number = NextOrderNumber]
      BY <2>5, RequestStep DEF Acts
    <3> QED
      BY <3>1, <3>2 DEF Placing, PlacingStage, SameSale, Routing
  <2> QED
    BY <2>1, <2>2, <2>3, <2>4, <2>5
<1>4. request' = request \/ \E r \in Requests : Acts(r)
  BY DEF Next, vars, RatesChange, CreateIntent, Pay, Acts
<1> QED
  BY <1>1, <1>2, <1>3, <1>4

\* The orders after a step: those there were, but for their suppliers, and one that a
\* checkout was about to store.
LEMMA OrdersStep ==
  ASSUME TypeOK, [Next]_vars, NEW i \in DOMAIN orders'
  PROVE  \/ /\ i \in DOMAIN orders
            /\ orders[i] \in Order
            /\ \E supplier : orders'[i] = [orders[i] EXCEPT !.supplier = supplier]
         \/ \E r \in Requests : Create(r) /\ orders'[i] = NewOrder(request[r])
<1>1. \A j \in DOMAIN orders :
        orders[j] \in Order /\ orders[j] = [orders[j] EXCEPT !.supplier = orders[j].supplier]
  <2>1. \A j \in DOMAIN orders : orders[j] \in Order
    BY DEF TypeOK
  <2> QED
    BY <2>1 DEF Order
<1>2. CASE orders' = orders
  BY <1>1, <1>2
<1>3. ASSUME NEW r \in Requests, Create(r)
      PROVE  \/ i \in DOMAIN orders /\ orders'[i] = orders[i]
             \/ orders'[i] = NewOrder(request[r])
  BY <1>3 DEF TypeOK, Create
<1>4. ASSUME NEW r \in Requests, Reassign(r)
      PROVE  /\ i \in DOMAIN orders
             /\ \E supplier : orders'[i] = [orders[i] EXCEPT !.supplier = supplier]
  <2>1. PICK j \in DOMAIN orders, supplier \in Suppliers :
          orders' = [orders EXCEPT ![j].supplier = supplier]
    BY <1>4 DEF Reassign
  <2>2. /\ i \in DOMAIN orders
        /\ orders'[i] = IF i = j THEN [orders[i] EXCEPT !.supplier = supplier] ELSE orders[i]
    BY <2>1 DEF TypeOK
  <2> QED
    BY <1>1, <2>2
<1>5. orders' = orders \/ \E r \in Requests : Create(r) \/ Reassign(r)
  BY DEF Next, vars, RatesChange, CreateIntent, Pay, Begin, LookupForV62, Verify,
         RouteOrder, Number, Raise, Resolve, Fails
<1> QED
  BY <1>1, <1>2, <1>3, <1>4, <1>5

\* Direct Debit baskets, and no others, are not paid by card.
LEMMA CardMeansNoDD ==
  ASSUME NEW basket \in Basket
  PROVE  /\ Card(basket) <=> basket.option # "dd"
         /\ Card(basket) <=> "dd" \notin ItemsFor(basket)
         /\ basket.v62 <=> "v62" \in ItemsFor(basket)
<1>1. basket.option \in {"6m", "12m", "dd"} /\ basket.v62 \in BOOLEAN
  BY DEF Basket, TaxOptionId
<1>2. CASE basket.option = "6m"
  BY <1>1, <1>2 DEF Card, OrderType, ItemsFor
<1>3. CASE basket.option = "12m"
  BY <1>1, <1>3 DEF Card, OrderType, ItemsFor
<1>4. CASE basket.option = "dd"
  BY <1>1, <1>4 DEF Card, OrderType, ItemsFor
<1> QED
  BY <1>1, <1>2, <1>3, <1>4

\* A checkout that begins asks for what its basket costs at the rates of that moment.
LEMMA BegunIsPriced ==
  ASSUME TypeOK, NEW s \in Requests, Begin(s)
  PROVE  /\ Priced(request'[s])
         /\ request'[s].stage \in Routing => ~Card(request'[s].basket)
<1>1. PICK customer \in Customers, basket \in Baskets :
        /\ Available(basket, ved)
        /\ \E payment \in IF Card(basket) THEN Payments ELSE {NoPayment},
              v62 \in IF basket.v62 THEN Accepted(Forms) ELSE {NoForm} :
              request' = [request EXCEPT ![s] =
                [stage |-> IF basket.v62 THEN "v62" ELSE AfterV62(basket),
                 customer |-> customer, basket |-> basket, payment |-> payment,
                 v62 |-> v62, price |-> Price(basket, ved), supplier |-> Nobody,
                 number |-> 0]]
  BY DEF Begin
<1>2. PICK payment \in IF Card(basket) THEN Payments ELSE {NoPayment},
           v62 \in IF basket.v62 THEN Accepted(Forms) ELSE {NoForm} :
        request'[s] = [stage |-> IF basket.v62 THEN "v62" ELSE AfterV62(basket),
                       customer |-> customer, basket |-> basket, payment |-> payment,
                       v62 |-> v62, price |-> Price(basket, ved), supplier |-> Nobody,
                       number |-> 0]
  BY <1>1 DEF TypeOK
<1>3. PriceSound(basket, Price(basket, ved))
  BY <1>1, PriceIsSound DEF TypeOK
<1>4. basket.v62 <=> v62 # NoForm
  BY <1>2, AcceptedPrints
<1>5. IF Card(basket) THEN payment \in Payments ELSE payment = NoPayment
  BY <1>2
<1> QED
  BY <1>2, <1>3, <1>4, <1>5 DEF Priced, Routing, AfterV62

\* What a verified payment is, it stays.
LEMMA VerifiedStands ==
  ASSUME TypeOK, [Next]_vars, NEW q, NEW p, SameSale(p, q), q.payment \in Payments, Verified(q)
  PROVE  VerifyPaid(intent'[p.payment], p.price.dueNow, p.customer)
<1>1. intent[q.payment] # Unmade
  BY DEF Verified, VerifyPaid
<1> QED
  BY <1>1, IntentsStand DEF Verified, VerifyPaid, SameSale

\* An order costs what was paid for it, through every await of every checkout.
LEMMA PaymentsStep ==
  ASSUME TypeOK, CheckoutsPriced, OrdersPaid, PaidForWhatItCosts, [Next]_vars
  PROVE  CheckoutsPriced' /\ OrdersPaid' /\ PaidForWhatItCosts'
<1>1. ASSUME NEW s \in Requests, request'[s].stage \in PlacingStage
      PROVE  /\ Priced(request'[s])
             /\ request'[s].stage \in Routing /\ Card(request'[s].basket) =>
                  VerifyPaid(intent'[request'[s].payment], request'[s].price.dueNow,
                             request'[s].customer)
  <2>1. CASE Begin(s)
    BY <2>1, BegunIsPriced
  <2>2. CASE ~Begin(s)
    <3>1. /\ request[s].stage \in PlacingStage
          /\ SameSale(request'[s], request[s])
          /\ request'[s].stage = "v62" => request[s].stage = "v62"
          /\ request'[s].stage \in Routing =>
               \/ request[s].stage \in Routing
               \/ ~Card(request[s].basket)
               \/ Verified(request[s])
      BY <1>1, <2>2, StillPlacing
    <3>2. Priced(request[s])
      BY <3>1 DEF CheckoutsPriced
    <3>3. Priced(request'[s])
      BY <3>1, <3>2 DEF Priced, SameSale
    <3>4. ASSUME request'[s].stage \in Routing, Card(request'[s].basket)
          PROVE  Verified(request[s]) /\ request[s].payment \in Payments
      BY <3>1, <3>2, <3>4 DEF CheckoutsPriced, Priced, SameSale, Routing
    <3> QED
      BY <3>1, <3>3, <3>4, VerifiedStands
  <2> QED
    BY <2>1, <2>2
<1>2. CheckoutsPriced'
  BY <1>1 DEF CheckoutsPriced, Verified, Routing, Priced
<1>3. ASSUME NEW i \in DOMAIN orders'
      PROVE  LET o == orders'[i]
                 p == o.price IN
             /\ p.total = p.tax + p.serviceFee + p.v62Fee
             /\ IF "dd" \in o.items
                THEN o.payment = NoPayment /\ p.dueNow * p.instalments - p.total \in -6 .. 6
                ELSE /\ o.payment \in Payments
                     /\ intent'[o.payment] # Unmade
                     /\ intent'[o.payment].succeeded
                     /\ intent'[o.payment].customer = o.customer
                     /\ intent'[o.payment].amount = p.total
  <2>1. ASSUME i \in DOMAIN orders, orders[i] \in Order, NEW supplier,
               orders'[i] = [orders[i] EXCEPT !.supplier = supplier]
        PROVE  LET o == orders'[i] IN
                 /\ o.price = orders[i].price /\ o.items = orders[i].items
                 /\ o.payment = orders[i].payment /\ o.customer = orders[i].customer
    BY <2>1 DEF Order
  <2>2. ASSUME i \in DOMAIN orders, "dd" \notin orders[i].items
        PROVE  LET o == orders[i] IN
                 /\ o.payment \in Payments
                 /\ intent'[o.payment] # Unmade
                 /\ intent'[o.payment].succeeded
                 /\ intent'[o.payment].customer = o.customer
                 /\ intent'[o.payment].amount = o.price.total
    <3>1. orders[i].payment \in Payments /\ intent[orders[i].payment] # Unmade
      BY <2>2 DEF OrdersPaid
    <3>2. /\ intent[orders[i].payment].succeeded
          /\ intent[orders[i].payment].customer = orders[i].customer
          /\ intent[orders[i].payment].amount = orders[i].price.total
      BY <2>2 DEF PaidForWhatItCosts
    <3> QED
      BY <3>1, <3>2, IntentsStand
  <2>3. ASSUME NEW r \in Requests, Create(r), orders'[i] = NewOrder(request[r])
        PROVE  LET o == orders'[i]
                   p == o.price IN
               /\ p.total = p.tax + p.serviceFee + p.v62Fee
               /\ IF "dd" \in o.items
                  THEN o.payment = NoPayment /\ p.dueNow * p.instalments - p.total \in -6 .. 6
                  ELSE /\ o.payment \in Payments
                       /\ intent'[o.payment] # Unmade
                       /\ intent'[o.payment].succeeded
                       /\ intent'[o.payment].customer = o.customer
                       /\ intent'[o.payment].amount = p.total
    <3> DEFINE q == request[r]
    <3>1. q.stage = "create" /\ q \in Placing /\ q.basket \in Basket
      BY <2>3, StageShape, BasketsAssumption DEF Create, PlacingStage, Placing
    <3>2. Priced(q) /\ (Card(q.basket) => Verified(q))
      BY <3>1 DEF CheckoutsPriced, PlacingStage
    <3>3. /\ orders'[i].price = q.price /\ orders'[i].items = ItemsFor(q.basket)
          /\ orders'[i].payment = q.payment /\ orders'[i].customer = q.customer
          /\ intent' = intent
      BY <2>3 DEF NewOrder, Create
    <3>4. /\ Card(q.basket) <=> q.basket.option # "dd"
          /\ Card(q.basket) <=> "dd" \notin ItemsFor(q.basket)
      BY <3>1, CardMeansNoDD
    <3> HIDE DEF q
    <3>5. CASE Card(q.basket)
      BY <3>2, <3>3, <3>4, <3>5 DEF Priced, PriceSound, Verified, VerifyPaid
    <3>6. CASE ~Card(q.basket)
      BY <3>2, <3>3, <3>4, <3>6 DEF Priced, PriceSound
    <3> QED
      BY <3>5, <3>6
  <2>4. CASE /\ i \in DOMAIN orders
             /\ orders[i] \in Order
             /\ \E supplier : orders'[i] = [orders[i] EXCEPT !.supplier = supplier]
    <3>1. /\ orders'[i].price = orders[i].price /\ orders'[i].items = orders[i].items
          /\ orders'[i].payment = orders[i].payment /\ orders'[i].customer = orders[i].customer
      BY <2>1, <2>4
    <3> QED
      BY <2>2, <2>4, <3>1 DEF PaidForWhatItCosts
  <2> QED
    BY <2>3, <2>4, OrdersStep
<1> QED
  BY <1>2, <1>3 DEF OrdersPaid, PaidForWhatItCosts

-----------------------------------------------------------------------------
(* What can be printed.                                                    *)

\* No order is stored with a form nothing can be printed from, and no vehicle is looked up
\* for one.
LEMMA FormsStep ==
  ASSUME TypeOK, CheckoutsPriced, PrintableForms, [Next]_vars, TypeOK', CheckoutsPriced'
  PROVE  PrintableForms'
<1>1. ASSUME NEW i \in DOMAIN orders'
      PROVE  "v62" \in orders'[i].items <=> orders'[i].v62 # NoForm
  <2>1. CASE /\ i \in DOMAIN orders
             /\ orders[i] \in Order
             /\ \E supplier : orders'[i] = [orders[i] EXCEPT !.supplier = supplier]
    <3>1. orders'[i].v62 = orders[i].v62 /\ orders'[i].items = orders[i].items
      BY <2>1 DEF Order
    <3> QED
      BY <2>1, <3>1 DEF PrintableForms
  <2>2. ASSUME NEW r \in Requests, Create(r), orders'[i] = NewOrder(request[r])
        PROVE  "v62" \in orders'[i].items <=> orders'[i].v62 # NoForm
    <3>1. request[r].stage = "create" /\ request[r].basket \in Basket
      BY <2>2, StageShape, BasketsAssumption DEF Create, PlacingStage, Placing
    <3>2. Priced(request[r])
      BY <3>1 DEF CheckoutsPriced, PlacingStage
    <3> QED
      BY <2>2, <3>1, <3>2, CardMeansNoDD DEF NewOrder, Priced
  <2> QED
    BY <2>1, <2>2, OrdersStep
<1>2. ASSUME NEW i \in DOMAIN orders', orders'[i].v62 # NoForm
      PROVE  Printable(orders'[i].v62)
  <2>1. orders'[i] \in Order
    BY DEF TypeOK
  <2>2. orders'[i].v62 \in Accepted(Forms)
    BY <1>2, <2>1 DEF Order
  <2> QED
    BY <2>2, AcceptedPrints
<1>3. ASSUME NEW r \in Requests, request'[r].stage = "v62"
      PROVE  Printable(request'[r].v62)
  <2>1. Priced(request'[r]) /\ request'[r].v62 # NoForm
    BY <1>3 DEF CheckoutsPriced, PlacingStage, Priced
  <2>2. request'[r] \in Placing
    BY <1>3 DEF TypeOK, Idle, SettlingRecord
  <2>3. request'[r].v62 \in Accepted(Forms)
    BY <2>1, <2>2 DEF Placing
  <2> QED
    BY <2>3, AcceptedPrints
<1> QED
  BY <1>1, <1>2, <1>3 DEF PrintableForms

-----------------------------------------------------------------------------
(* The alert of an order nobody has.                                       *)

\* q still has to raise, or to resolve, that i is unassigned.
OwedBy(q, i, stage) ==
  q.stage = stage /\ q.order = i /\ Contains(q.todo, "unassigned")

\* What other requests owe, a step of r leaves owed.
LEMMA OthersOwe ==
  ASSUME TypeOK, NEW r \in Requests, Acts(r), NEW i, NEW stage
  PROVE  /\ Owes(i, stage) <=> \E q \in Requests : OwedBy(request[q], i, stage)
         /\ Owes(i, stage)' <=> \E q \in Requests : OwedBy(request'[q], i, stage)
         /\ \A q \in Requests \ {r} : OwedBy(request'[q], i, stage) <=> OwedBy(request[q], i, stage)
<1>1. \A q \in Requests \ {r} : request'[q] = request[q]
  BY RequestStep DEF Acts
<1> QED
  BY <1>1 DEF Owes, OwedBy

\* UnassignedAlertsTrack and the last part of AlertsAccounted, of one order.
AlertFor(i) ==
  IF orders[i].supplier = Nobody
  THEN "unassigned" \in alerts[i] \/ Owes(i, "raise")
  ELSE "unassigned" \in alerts[i] => Owes(i, "resolve") \/ i \in overtaken

AccountedFor(i) ==
  orders[i].supplier # Nobody /\ Owes(i, "raise")
    => Owes(i, "resolve") \/ i \in overtaken \/ i \in lost

\* A step that neither settles nor takes on an alert of i leaves what i is owed.
LEMMA OwesTheSame ==
  ASSUME TypeOK, NEW r \in Requests, Acts(r), NEW i,
         \A stage \in {"raise", "resolve"} :
           OwedBy(request'[r], i, stage) <=> OwedBy(request[r], i, stage)
  PROVE  /\ Owes(i, "raise")' <=> Owes(i, "raise")
         /\ Owes(i, "resolve")' <=> Owes(i, "resolve")
<1>1. ASSUME NEW stage \in {"raise", "resolve"}
      PROVE  Owes(i, stage)' <=> Owes(i, stage)
  BY OthersOwe
<1>2. Owes(i, "raise")' <=> Owes(i, "raise")
  BY <1>1
<1>3. Owes(i, "resolve")' <=> Owes(i, "resolve")
  BY <1>1
<1> QED
  BY <1>2, <1>3

\* A step of a checkout on its way to be stored: nothing is owed yet.
LEMMA PlacingOwesNothing ==
  ASSUME TypeOK, NEW r \in Requests, NEW i, NEW stage \in {"raise", "resolve"},
         Begin(r) \/ LookupForV62(r) \/ Verify(r) \/ RouteOrder(r) \/ Number(r)
  PROVE  ~OwedBy(request'[r], i, stage) /\ ~OwedBy(request[r], i, stage)
<1>1. ~OwedBy(request'[r], i, stage)
  BY NextStage DEF Acts, OwedBy
<1>2. ~OwedBy(request[r], i, stage)
  BY DEF Begin, LookupForV62, Verify, RouteOrder, Number, OwedBy, Idle
<1> QED
  BY <1>1, <1>2

\* Every step keeps every order accounted for and alerted.
LEMMA EachOrderKept ==
  ASSUME TypeOK, AlertsAccounted, UnassignedAlertsTrack, [Next]_vars, NEW i \in DOMAIN orders'
  PROVE  AccountedFor(i)' /\ (i \in lost' \/ AlertFor(i)')
<1>1. ASSUME i \in DOMAIN orders
      PROVE  AccountedFor(i) /\ (i \in lost \/ AlertFor(i))
  BY <1>1 DEF AlertsAccounted, UnassignedAlertsTrack, AccountedFor, AlertFor
<1>2. /\ DOMAIN orders = 1 .. Len(orders) /\ DOMAIN alerts = 1 .. Len(orders)
      /\ Len(orders) \in Nat
      /\ Requests = DOMAIN request
  BY DEF TypeOK
<1>3. CASE UNCHANGED <<orders, alerts, request, lost, overtaken>>
  BY <1>1, <1>3 DEF AccountedFor, AlertFor, Owes
<1>4. ASSUME NEW r \in Requests,
             Begin(r) \/ LookupForV62(r) \/ Verify(r) \/ RouteOrder(r) \/ Number(r)
      PROVE  AccountedFor(i)' /\ (i \in lost' \/ AlertFor(i)')
  <2>1. UNCHANGED <<orders, alerts, lost, overtaken>>
    BY <1>4 DEF Begin, LookupForV62, Verify, RouteOrder, Number
  <2>2. /\ Owes(i, "raise")' <=> Owes(i, "raise")
        /\ Owes(i, "resolve")' <=> Owes(i, "resolve")
    BY <1>4, PlacingOwesNothing, OwesTheSame DEF Acts
  <2> QED
    BY <1>1, <2>1, <2>2 DEF AccountedFor, AlertFor
<1>5. ASSUME NEW r \in Requests, Create(r)
      PROVE  AccountedFor(i)' /\ (i \in lost' \/ AlertFor(i)')
  <2> DEFINE new == Len(orders) + 1
             q == request'[r]
  <2>1. /\ q = Settling("raise", new, Raised(request[r]))
        /\ request[r].stage = "create"
        /\ UNCHANGED <<lost, overtaken>>
        /\ DOMAIN orders' = 1 .. new
        /\ \A j \in DOMAIN orders : orders'[j] = orders[j] /\ alerts'[j] = alerts[j]
        /\ orders'[new].supplier = request[r].supplier
        /\ alerts'[new] = {}
    <3>1. q = Settling("raise", new, Raised(request[r]))
      BY <1>5, RequestStep DEF Acts
    <3>2. /\ request[r].stage = "create"
          /\ UNCHANGED <<lost, overtaken>>
          /\ orders' = Append(orders, NewOrder(request[r]))
          /\ alerts' = Append(alerts, {})
      BY <1>5 DEF Create
    <3>3. /\ DOMAIN orders' = 1 .. new
          /\ \A j \in DOMAIN orders : orders'[j] = orders[j] /\ alerts'[j] = alerts[j]
          /\ orders'[new] = NewOrder(request[r])
          /\ alerts'[new] = {}
      BY <3>2 DEF TypeOK
    <3>4. orders'[new].supplier = request[r].supplier
      BY <3>3 DEF NewOrder
    <3> QED
      BY <3>1, <3>2, <3>3, <3>4
  <2>2. \A j : /\ ~OwedBy(q, j, "resolve")
               /\ OwedBy(q, j, "raise") => j = new
               /\ OwedBy(q, new, "raise") <=> request[r].supplier = Nobody
    <3>1. /\ Raised(request[r]) \in Seq(Alert)
          /\ Contains(Raised(request[r]), "unassigned") <=> request[r].supplier = Nobody
      BY RaisedShape
    <3>2. Contains(Raised(request[r]), "unassigned") => Raised(request[r]) # << >>
      BY ContainsSome
    <3>3. /\ q.stage = IF Raised(request[r]) = << >> THEN "idle" ELSE "raise"
          /\ q.stage # "idle" => q.order = new /\ q.todo = Raised(request[r])
      BY <1>2, <2>1, <3>1, SettlingShape
    <3> HIDE DEF new, q
    <3> QED
      BY <3>1, <3>2, <3>3 DEF OwedBy
  <2>3. CASE i \in DOMAIN orders
    <3>1. \A stage \in {"raise", "resolve"} :
            OwedBy(request'[r], i, stage) <=> OwedBy(request[r], i, stage)
      BY <1>2, <2>1, <2>2, <2>3 DEF OwedBy
    <3>2. /\ Owes(i, "raise")' <=> Owes(i, "raise")
          /\ Owes(i, "resolve")' <=> Owes(i, "resolve")
      BY <1>5, <3>1, OwesTheSame DEF Acts
    <3> QED
      BY <1>1, <2>1, <2>3, <3>2 DEF AccountedFor, AlertFor
  <2>4. CASE i = new
    <3>1. \A s \in Requests \ {r} : ~OwedBy(request[s], i, "raise")
      BY <1>2, <2>4, StageShape DEF OwedBy
    <3>2. Owes(i, "raise")' <=> request[r].supplier = Nobody
      BY <1>5, <2>2, <2>4, <3>1, OthersOwe DEF Acts
    <3> QED
      BY <2>1, <2>4, <3>2 DEF AccountedFor, AlertFor
  <2> QED
    BY <1>2, <2>1, <2>3, <2>4
<1>6. ASSUME NEW r \in Requests, Raise(r)
      PROVE  AccountedFor(i)' /\ (i \in lost' \/ AlertFor(i)')
  <2> DEFINE j == request[r].order
             todo == request[r].todo
             q == request'[r]
  <2>1. /\ q = Settling("raise", j, Tail(todo))
        /\ request[r].stage = "raise" /\ j \in DOMAIN orders
        /\ j \in Nat /\ todo \in Seq(Alert) /\ todo # << >>
        /\ UNCHANGED <<orders, lost, overtaken>>
        /\ alerts' = [alerts EXCEPT ![j] = @ \union {Head(todo)}]
    <3>1. request[r] \in SettlingRecord /\ j \in DOMAIN orders
      BY <1>6, StageShape DEF Raise
    <3> QED
      BY <1>6, <3>1, RequestStep DEF Raise, SettlingRecord, TypeOK
  <2>2. /\ Tail(todo) \in Seq(Alert)
        /\ Contains(todo, "unassigned")
             <=> Head(todo) = "unassigned" \/ Contains(Tail(todo), "unassigned")
    BY <2>1, TailShape
  <2>3. \A k : /\ ~OwedBy(q, k, "resolve") /\ ~OwedBy(request[r], k, "resolve")
               /\ OwedBy(q, k, "raise") <=> k = j /\ Contains(Tail(todo), "unassigned")
               /\ OwedBy(request[r], k, "raise") <=> k = j /\ Contains(todo, "unassigned")
    <3>1. Contains(Tail(todo), "unassigned") => Tail(todo) # << >>
      BY ContainsSome
    <3>2. /\ q.stage = IF Tail(todo) = << >> THEN "idle" ELSE "raise"
          /\ q.stage # "idle" => q.order = j /\ q.todo = Tail(todo)
      <4> DEFINE rest == Tail(todo)
      <4>1. q = Settling("raise", j, rest) /\ j \in Nat /\ rest \in Seq(Alert)
        BY <2>1, <2>2
      <4> HIDE DEF q, j, rest
      <4>2. /\ q.stage = IF rest = << >> THEN "idle" ELSE "raise"
            /\ q.stage # "idle" => q.order = j /\ q.todo = rest
        BY <4>1, SettlingShape
      <4> QED
        BY <4>2 DEF rest
    <3>3. request[r].stage = "raise" /\ request[r].order = j /\ request[r].todo = todo
      BY <2>1
    <3> HIDE DEF q, j, todo
    <3> QED
      BY <3>1, <3>2, <3>3 DEF OwedBy
  <2>4. Owes(i, "resolve")' <=> Owes(i, "resolve")
    BY <1>6, <2>3, OthersOwe DEF Acts
  <2>5. Owes(i, "raise")' => Owes(i, "raise")
    BY <1>6, <2>2, <2>3, OthersOwe DEF Acts
  <2>6. CASE i = j /\ Head(todo) = "unassigned"
    <3>1. "unassigned" \in alerts'[i]
      BY <1>2, <2>1, <2>6
    <3>2. Owes(i, "raise")
      BY <1>6, <2>2, <2>3, <2>6, OthersOwe DEF Acts
    <3> QED
      BY <1>1, <2>1, <2>4, <2>5, <2>6, <3>1, <3>2 DEF AccountedFor, AlertFor
  <2>7. CASE ~(i = j /\ Head(todo) = "unassigned")
    <3>1. "unassigned" \in alerts'[i] <=> "unassigned" \in alerts[i]
      BY <1>2, <2>1, <2>7
    <3>2. Owes(i, "raise")' <=> Owes(i, "raise")
      BY <1>6, <2>2, <2>3, <2>7, OthersOwe DEF Acts
    <3> QED
      BY <1>1, <2>1, <2>4, <3>1, <3>2 DEF AccountedFor, AlertFor
  <2> QED
    BY <2>6, <2>7
<1>7. ASSUME NEW r \in Requests, Reassign(r)
      PROVE  AccountedFor(i)' /\ (i \in lost' \/ AlertFor(i)')
  <2>1. PICK j \in DOMAIN orders, supplier \in Suppliers :
          /\ orders' = [orders EXCEPT ![j].supplier = supplier]
          /\ request' = [request EXCEPT ![r] = Settling("resolve", j, <<"unassigned">>)]
    BY <1>7 DEF Reassign
  <2> DEFINE q == request'[r]
  <2>2. /\ DOMAIN orders' = DOMAIN orders
        /\ UNCHANGED <<alerts, lost, overtaken>>
        /\ request[r] = Idle
        /\ q = Settling("resolve", j, <<"unassigned">>)
        /\ j \in Nat
    BY <1>2, <1>7, <2>1 DEF Reassign
  <2>3. \A k : /\ ~OwedBy(q, k, "raise")
               /\ OwedBy(q, k, "resolve") <=> k = j
               /\ ~OwedBy(request[r], k, "raise") /\ ~OwedBy(request[r], k, "resolve")
    <3>1. <<"unassigned">> \in Seq(Alert) /\ <<"unassigned">> # << >>
      BY DEF Alert
    <3>2. Contains(<<"unassigned">>, "unassigned")
      BY DEF Contains
    <3>3. q.stage = "resolve" /\ q.order = j /\ q.todo = <<"unassigned">>
      BY <2>2, <3>1 DEF Settling
    <3> HIDE DEF q
    <3> QED
      BY <2>2, <3>2, <3>3 DEF OwedBy, Idle
  <2>4. CASE i = j
    <3>1. orders'[i].supplier # Nobody
      <4>1. orders[j] \in Order
        BY DEF TypeOK
      <4> QED
        BY <2>1, <2>4, <4>1, NobodyAssumption DEF TypeOK, Order
    <3>2. Owes(i, "resolve")'
      BY <1>7, <2>3, <2>4, OthersOwe DEF Acts
    <3> QED
      BY <3>1, <3>2 DEF AccountedFor, AlertFor
  <2>5. CASE i # j
    <3>1. orders'[i] = orders[i] /\ i \in DOMAIN orders
      BY <2>1, <2>2, <2>5 DEF TypeOK
    <3>2. /\ Owes(i, "raise")' <=> Owes(i, "raise")
          /\ Owes(i, "resolve")' <=> Owes(i, "resolve")
      BY <1>7, <2>3, <2>5, OwesTheSame DEF Acts
    <3> QED
      BY <1>1, <2>2, <3>1, <3>2 DEF AccountedFor, AlertFor
  <2> QED
    BY <2>4, <2>5
<1>8. ASSUME NEW r \in Requests, Resolve(r)
      PROVE  AccountedFor(i)' /\ (i \in lost' \/ AlertFor(i)')
  <2> DEFINE j == request[r].order
  <2>1. /\ request'[r] = Idle /\ request[r].stage = "resolve"
        /\ j \in DOMAIN orders /\ orders[j].supplier # Nobody
        /\ UNCHANGED <<orders, lost>>
        /\ alerts' = [alerts EXCEPT ![j] = @ \ {"unassigned"}]
        /\ overtaken' = IF Owes(j, "raise") THEN overtaken \union {j} ELSE overtaken
    BY <1>8, StageShape, RequestStep DEF Acts, Resolve, AlertsAccounted
  <2>2. \A k, stage : ~OwedBy(request'[r], k, "raise") /\ ~OwedBy(request'[r], k, "resolve")
    BY <2>1 DEF OwedBy, Idle
  <2>3. \A k : ~OwedBy(request[r], k, "raise") /\ (OwedBy(request[r], k, "resolve") => k = j)
    BY <2>1 DEF OwedBy
  <2>4. CASE i = j
    <3>1. "unassigned" \notin alerts'[i]
      BY <1>2, <2>1, <2>4
    <3>2. Owes(i, "raise")' => Owes(i, "raise")
      BY <1>8, <2>2, OthersOwe DEF Acts
    <3> QED
      BY <2>1, <2>4, <3>1, <3>2 DEF AccountedFor, AlertFor
  <2>5. CASE i # j
    <3>1. /\ Owes(i, "raise")' <=> Owes(i, "raise")
          /\ Owes(i, "resolve")' <=> Owes(i, "resolve")
      BY <1>8, <2>2, <2>3, <2>5, OwesTheSame DEF Acts
    <3>2. alerts'[i] = alerts[i]
      BY <1>2, <2>1, <2>5
    <3> QED
      BY <1>1, <2>1, <3>1, <3>2 DEF AccountedFor, AlertFor
  <2> QED
    BY <2>4, <2>5
<1>9. ASSUME NEW r \in Requests, Fails(r)
      PROVE  AccountedFor(i)' /\ (i \in lost' \/ AlertFor(i)')
  <2>1. /\ request'[r] = Idle
        /\ UNCHANGED <<orders, alerts, overtaken>>
        /\ lost' = IF request[r].stage \in {"raise", "resolve"}
                   THEN lost \union {request[r].order} ELSE lost
    BY <1>9, RequestStep DEF Acts, Fails
  <2>2. CASE request[r].stage \in {"raise", "resolve"} /\ request[r].order = i
    BY <2>1, <2>2 DEF AccountedFor
  <2>3. CASE ~(request[r].stage \in {"raise", "resolve"} /\ request[r].order = i)
    <3>1. \A stage \in {"raise", "resolve"} :
            OwedBy(request'[r], i, stage) <=> OwedBy(request[r], i, stage)
      BY <2>1, <2>3 DEF OwedBy, Idle
    <3>2. /\ Owes(i, "raise")' <=> Owes(i, "raise")
          /\ Owes(i, "resolve")' <=> Owes(i, "resolve")
      BY <1>9, <3>1, OwesTheSame DEF Acts
    <3> QED
      BY <1>1, <2>1, <3>2 DEF AccountedFor, AlertFor
  <2> QED
    BY <2>2, <2>3
<1> QED
  BY <1>3, <1>4, <1>5, <1>6, <1>7, <1>8, <1>9
  DEF Next, vars, RatesChange, CreateIntent, Pay

\* A reassignment that has not settled its alert yet is of an order with a supplier: no
\* order loses its supplier again.
LEMMA ResolversKnown ==
  ASSUME TypeOK, AlertsAccounted, [Next]_vars, NEW s \in Requests,
         request'[s].stage = "resolve"
  PROVE  /\ orders'[request'[s].order].supplier # Nobody
         /\ request'[s].todo = <<"unassigned">>
<1>1. ASSUME NEW i \in DOMAIN orders, orders[i].supplier # Nobody
      PROVE  orders'[i].supplier # Nobody
  <2>1. CASE orders' = orders
    BY <1>1, <2>1
  <2>2. ASSUME NEW r \in Requests, Create(r)
        PROVE  orders'[i] = orders[i]
    BY <2>2 DEF Create, TypeOK
  <2>3. ASSUME NEW r \in Requests, Reassign(r)
        PROVE  orders'[i].supplier # Nobody
    <3>1. PICK j \in DOMAIN orders, supplier \in Suppliers :
            orders' = [orders EXCEPT ![j].supplier = supplier]
      BY <2>3 DEF Reassign
    <3>2. orders[j] \in Order
      BY DEF TypeOK
    <3>3. orders'[i] = IF i = j THEN [orders[j] EXCEPT !.supplier = supplier] ELSE orders[i]
      BY <3>1 DEF TypeOK
    <3> QED
      BY <1>1, <3>2, <3>3, NobodyAssumption DEF Order
  <2>4. orders' = orders \/ \E r \in Requests : Create(r) \/ Reassign(r)
    BY DEF Next, vars, RatesChange, CreateIntent, Pay, Begin, LookupForV62, Verify,
           RouteOrder, Number, Raise, Resolve, Fails
  <2> QED
    BY <1>1, <2>1, <2>2, <2>3, <2>4
<1>2. CASE request'[s] = request[s]
  BY <1>1, <1>2, StageShape DEF AlertsAccounted
<1>3. CASE Reassign(s)
  <2>1. PICK i \in DOMAIN orders, supplier \in Suppliers :
          /\ orders' = [orders EXCEPT ![i].supplier = supplier]
          /\ request' = [request EXCEPT ![s] = Settling("resolve", i, <<"unassigned">>)]
    BY <1>3 DEF Reassign
  <2>2. request'[s] = Settling("resolve", i, <<"unassigned">>) /\ orders[i] \in Order
    BY <2>1 DEF TypeOK
  <2>3. <<"unassigned">> # << >>
    OBVIOUS
  <2>4. request'[s].order = i /\ request'[s].todo = <<"unassigned">>
    BY <2>2, <2>3 DEF Settling
  <2>5. orders'[i].supplier = supplier
    BY <2>1, <2>2 DEF TypeOK, Order
  <2> QED
    BY <2>4, <2>5, NobodyAssumption
<1>4. request'[s] = request[s] \/ Reassign(s)
  <2>1. request' = request \/ \E r \in Requests : Acts(r)
    BY DEF Next, vars, RatesChange, CreateIntent, Pay, Acts
  <2>2. ASSUME NEW r \in Requests, Acts(r), r # s
        PROVE  request'[s] = request[s]
    BY <2>2, RequestStep DEF Acts
  <2>3. CASE Acts(s)
    BY <2>3, NextStage DEF Acts
  <2> QED
    BY <2>1, <2>2, <2>3
<1> QED
  BY <1>2, <1>3, <1>4

\* Both halves of the alert's invariant, of every order and of every reassignment.
LEMMA AlertsStep ==
  ASSUME TypeOK, AlertsAccounted, UnassignedAlertsTrack, [Next]_vars
  PROVE  AlertsAccounted' /\ UnassignedAlertsTrack'
<1>1. ASSUME NEW i \in DOMAIN orders'
      PROVE  AccountedFor(i)' /\ (i \in lost' \/ AlertFor(i)')
  BY <1>1, EachOrderKept
<1>2. AlertsAccounted'
  BY <1>1, ResolversKnown DEF AlertsAccounted, AccountedFor
<1>3. UnassignedAlertsTrack'
  BY <1>1 DEF UnassignedAlertsTrack, AlertFor
<1> QED
  BY <1>2, <1>3

-----------------------------------------------------------------------------
(* The theorems.                                                           *)

\* The invariant holds in every state, for any instance.
THEOREM InvHolds == Spec => []Inv
<1>1. Init => Inv
  <2> SUFFICES ASSUME Init
               PROVE  Inv
    OBVIOUS
  <2>1. /\ orders = << >> /\ alerts = << >> /\ DOMAIN orders = {} /\ Len(orders) = 0
        /\ \A r \in Requests : request[r] = Idle /\ request[r].stage = "idle"
    BY DEF Init, Idle
  <2>2. TypeOK
    BY <2>1 DEF Init, TypeOK, Idle
  <2> QED
    BY <2>1, <2>2
    DEF Inv, NumbersGiven, OneOrderPerNumber, CheckoutsPriced, OrdersPaid, PaidForWhatItCosts,
        PrintableForms, AlertsAccounted, UnassignedAlertsTrack, PlacingStage
<1>2. Inv /\ [Next]_vars => Inv'
  BY TypeStep, NumbersStep, PaymentsStep, FormsStep, AlertsStep DEF Inv
<1> QED
  BY <1>1, <1>2, PTL DEF Spec

\* The collections and the requests in progress stay well formed.
THEOREM TypeHolds == Spec => []TypeOK
  BY InvHolds, PTL DEF Inv

\* However checkouts overlap, fail and are given up, an order number means one order, and
\* no checkout that was paid for is refused for its number.
THEOREM NumbersAreUnique == Spec => []OneOrderPerNumber
  BY InvHolds, PTL DEF Inv

\* Whatever the rates become between quote, payment and order, a card order's total is
\* what its own customer's payment brought in, and the twelve payments of a Direct Debit
\* order come to its total within six pence.
THEOREM OrdersCostWhatWasPaid == Spec => []PaidForWhatItCosts
  BY InvHolds, PTL DEF Inv

\* Any form that is taken can be printed.
THEOREM FormsPrint == Spec => []PrintableForms
  BY InvHolds, PTL DEF Inv

\* With checkouts, reassignments and failures interleaved at every await, an order nobody
\* has is alerted and one that somebody has is not, but for the exceptions it names.
THEOREM UnassignedAlertsHold == Spec => []UnassignedAlertsTrack
  BY InvHolds, PTL DEF Inv
=============================================================================
