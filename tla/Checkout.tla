------------------------------- MODULE Checkout -------------------------------
(***************************************************************************)
(* placeOrder, await by await.  A checkout is priced, checked, paid for at   *)
(* Stripe beforehand, routed, numbered, stored and alerted in calls of their *)
(* own, between which rates change, other customers check out, customers     *)
(* retry with the payment they have, admins reassign what is stored, and     *)
(* any call may fail or the process stop.                                  *)
(*                                                                         *)
(* All registrations are one here: rates are looked up by it and nothing     *)
(* else is.  Routing is any supplier or none (SupplierRouting has the        *)
(* rest).  What happens to an order afterwards is in OrderLifecycle.         *)
(***************************************************************************)
EXTENDS Pricing, V62Form, Sequences, SequencesExt, FiniteSets

CONSTANTS
  Requests,    \* requests in progress at once, customers' and admins'
  Payments,    \* Stripe payment intents
  Customers,
  Suppliers,
  Nobody,      \* no supplier
  NoPayment,
  NoForm,
  RateTables,  \* the rates a lookup of the vehicle may find
  Baskets,     \* what customers buy
  Forms,       \* the V62 data and the mandates they send
  Mandates,
  MaxCheckouts \* bound on the order numbers given

ASSUME BasketsAssumption == Baskets \subseteq Basket /\ Forms \subseteq V62Data
ASSUME NobodyAssumption == Nobody \notin Suppliers /\ NoPayment \notin Payments
ASSUME NoFormAssumption == \A form \in Forms : NoForm # Submission(form)

\* Whole pence, where there is a rate.
ASSUME RatesAssumption ==
  RateTables \subseteq
    [sixMonth : Int \union {Null}, twelveMonth : Int \union {Null},
     directDebit : Int \union {Null, Undefined}]

VARIABLES
  ved,       \* the vehicle's rates today
  intent,    \* what each payment was raised for, and whether it succeeded
  orders,    \* the orders collection, in the order of creation
  counter,   \* the orderNumber counter
  alerts,    \* of each order: its notifications
  request,   \* the progress of each request
  lost,      \* orders whose request stopped with alerts to settle
  overtaken  \* orders reassigned before their alert was raised

vars == <<ved, intent, orders, counter, alerts, request, lost, overtaken>>

Idle == [stage |-> "idle"]
Unmade == [amount |-> 0]

Init ==
  /\ ved \in RateTables
  /\ intent = [p \in Payments |-> Unmade]
  /\ orders = << >>
  /\ counter = 0
  /\ alerts = << >>
  /\ request = [r \in Requests |-> Idle]
  /\ lost = {}
  /\ overtaken = {}

-----------------------------------------------------------------------------
(* Rates and payments.                                                     *)

\* A refresh of the vehicle's row.
RatesChange ==
  /\ ved' \in RateTables \ {ved}
  /\ UNCHANGED <<intent, orders, counter, alerts, request, lost, overtaken>>

\* createIntent: what the quote screen priced.
CreateIntent(p) ==
  /\ intent[p] = Unmade
  /\ \E customer \in Customers, basket \in Baskets :
       /\ Available(basket, ved)
       /\ intent' = [intent EXCEPT ![p] =
            [customer |-> customer, amount |-> Price(basket, ved).dueNow,
             succeeded |-> FALSE]]
  /\ UNCHANGED <<ved, orders, counter, alerts, request, lost, overtaken>>

\* The app's payment sheet.
Pay(p) ==
  /\ intent[p] # Unmade /\ ~intent[p].succeeded
  /\ intent' = [intent EXCEPT ![p].succeeded = TRUE]
  /\ UNCHANGED <<ved, orders, counter, alerts, request, lost, overtaken>>

-----------------------------------------------------------------------------
(* placeOrder.                                                             *)

Card(basket) == OrderType(basket.option) # "direct_debit"

\* What the forms that are taken come to.
Accepted(forms) == {Submission(form) : form \in {f \in forms : V62Problem(f) = "none"}}

AfterV62(basket) == IF Card(basket) THEN "verify" ELSE "route"

Unnumbered == {r \in Requests : request[r].stage \in {"v62", "verify", "route", "number"}}

\* The price, then the mandate, then the customer's half of the V62.  What is refused
\* has changed nothing.
Begin(r) ==
  /\ request[r] = Idle
  /\ counter + Cardinality(Unnumbered) < MaxCheckouts
  /\ \E customer \in Customers, basket \in Baskets :
       /\ Available(basket, ved)
       /\ Card(basket) \/ \E mandate \in Mandates : BankProblems(mandate) = {}
       /\ \E payment \in IF Card(basket) THEN Payments ELSE {NoPayment},
            v62 \in IF basket.v62 THEN Accepted(Forms) ELSE {NoForm} :
            request' = [request EXCEPT ![r] =
              [stage |-> IF basket.v62 THEN "v62" ELSE AfterV62(basket),
               customer |-> customer, basket |-> basket, payment |-> payment, v62 |-> v62,
               price |-> Price(basket, ved), supplier |-> Nobody, number |-> 0]]
  /\ UNCHANGED <<ved, intent, orders, counter, alerts, lost, overtaken>>

Goto(r, stage) == request' = [request EXCEPT ![r].stage = stage]

\* lookupForV62: only now is the vehicle's half of the form paid for.
LookupForV62(r) ==
  /\ request[r].stage = "v62"
  /\ Goto(r, AfterV62(request[r].basket))
  /\ UNCHANGED <<ved, intent, orders, counter, alerts, lost, overtaken>>

\* Mutant: any succeeded payment of the customer's will do.
VerifyPaid_AnyAmount(i, pence, customer) ==
  i # Unmade /\ i.customer = customer /\ i.succeeded

VerifyPaid(i, pence, customer) ==
  i # Unmade /\ i.customer = customer /\ i.succeeded /\ i.amount = pence

Verify(r) ==
  /\ request[r].stage = "verify"
  /\ IF VerifyPaid(intent[request[r].payment], request[r].price.dueNow, request[r].customer)
     THEN Goto(r, "route")
     ELSE request' = [request EXCEPT ![r] = Idle]
  /\ UNCHANGED <<ved, intent, orders, counter, alerts, lost, overtaken>>

RouteOrder(r) ==
  /\ request[r].stage = "route"
  /\ \E supplier \in Suppliers \union {Nobody} :
       request' = [request EXCEPT ![r].stage = "number", ![r].supplier = supplier]
  /\ UNCHANGED <<ved, intent, orders, counter, alerts, lost, overtaken>>

\* Mutant: count the orders there are.
NextOrderNumber_Counted == Len(orders) + 1

\* One atomic increment.
NextOrderNumber == counter + 1

Number(r) ==
  /\ request[r].stage = "number"
  /\ counter' = NextOrderNumber
  /\ request' = [request EXCEPT ![r].stage = "create", ![r].number = NextOrderNumber]
  /\ UNCHANGED <<ved, intent, orders, alerts, lost, overtaken>>

NewOrder(q) ==
  [number |-> q.number, customer |-> q.customer, supplier |-> q.supplier, v62 |-> q.v62,
   items |-> ItemsFor(q.basket), price |-> q.price, payment |-> q.payment]

\* Mutant: nobody is told of an order without a supplier.
Raised_V62Only(q) == IF q.basket.v62 THEN <<"v62_submitted">> ELSE << >>

\* What an admin has to look at; the alert of a WhatsApp order is in OrderRules.
Raised(q) ==
  (IF q.supplier = Nobody THEN <<"unassigned">> ELSE << >>)
    \o (IF q.basket.v62 THEN <<"v62_submitted">> ELSE << >>)

\* After its save a request settles alerts, one call after another.
Settling(kind, i, todo) ==
  IF todo = << >> THEN Idle ELSE [stage |-> kind, order |-> i, todo |-> todo]

Create(r) ==
  /\ request[r].stage = "create"
  /\ orders' = Append(orders, NewOrder(request[r]))
  /\ alerts' = Append(alerts, {})
  /\ request' = [request EXCEPT ![r] = Settling("raise", Len(orders) + 1, Raised(@))]
  /\ UNCHANGED <<ved, intent, counter, lost, overtaken>>

Raise(r) ==
  /\ request[r].stage = "raise"
  /\ LET q == request[r] IN
       /\ alerts' = [alerts EXCEPT ![q.order] = @ \union {Head(q.todo)}]
       /\ request' = [request EXCEPT ![r] = Settling("raise", q.order, Tail(q.todo))]
  /\ UNCHANGED <<ved, intent, orders, counter, lost, overtaken>>

-----------------------------------------------------------------------------
(* An admin, and what goes wrong.                                          *)

Reassign(r) ==
  /\ request[r] = Idle
  /\ \E i \in DOMAIN orders, supplier \in Suppliers :
       /\ orders[i].supplier # supplier
       /\ orders' = [orders EXCEPT ![i].supplier = supplier]
       /\ request' = [request EXCEPT ![r] = Settling("resolve", i, <<"unassigned">>)]
  /\ UNCHANGED <<ved, intent, counter, alerts, lost, overtaken>>

Owes(i, stage) ==
  \E q \in Requests : /\ request[q].stage = stage
                      /\ request[q].order = i
                      /\ Contains(request[q].todo, "unassigned")

Resolve(r) ==
  /\ request[r].stage = "resolve"
  /\ LET i == request[r].order IN
       /\ alerts' = [alerts EXCEPT ![i] = @ \ {"unassigned"}]
       /\ overtaken' = IF Owes(i, "raise") THEN overtaken \union {i} ELSE overtaken
  /\ request' = [request EXCEPT ![r] = Idle]
  /\ UNCHANGED <<ved, intent, orders, counter, lost>>

\* A call fails or the process stops: the request is gone, its order number with it.
Fails(r) ==
  /\ request[r] # Idle
  /\ lost' = IF request[r].stage \in {"raise", "resolve"} THEN lost \union {request[r].order}
             ELSE lost
  /\ request' = [request EXCEPT ![r] = Idle]
  /\ UNCHANGED <<ved, intent, orders, counter, alerts, overtaken>>

Next ==
  \/ RatesChange
  \/ \E p \in Payments : CreateIntent(p) \/ Pay(p)
  \/ \E r \in Requests :
       \/ Begin(r) \/ LookupForV62(r) \/ Verify(r) \/ RouteOrder(r) \/ Number(r) \/ Create(r)
       \/ Raise(r) \/ Reassign(r) \/ Resolve(r) \/ Fails(r)

Spec == Init /\ [][Next]_vars

-----------------------------------------------------------------------------
(* Properties.                                                             *)

PlacingStage == {"v62", "verify", "route", "number", "create"}

Placing ==
  [stage : PlacingStage, customer : Customers, basket : Baskets,
   payment : Payments \union {NoPayment}, v62 : Accepted(Forms) \union {NoForm},
   price : PriceRecord, supplier : Suppliers \union {Nobody}, number : Nat]

Alert == {"unassigned", "v62_submitted"}

SettlingRecord == [stage : {"raise", "resolve"}, order : Nat, todo : Seq(Alert)]

Order ==
  [number : Nat, customer : Customers, supplier : Suppliers \union {Nobody},
   v62 : Accepted(Forms) \union {NoForm}, items : SUBSET (TaxOptionId \union {"v62"}),
   price : PriceRecord, payment : Payments \union {NoPayment}]

Intent == [customer : Customers, amount : Int, succeeded : BOOLEAN]

\* Every request that settles alerts, and every order said to be lost or overtaken, is of
\* an order there is, and every order has its alerts.
TypeOK ==
  /\ ved \in RateTables
  /\ intent \in [Payments -> Intent \union {Unmade}]
  /\ orders \in Seq(Order)
  /\ counter \in Nat
  /\ alerts \in Seq(SUBSET Alert)
  /\ request \in [Requests -> {Idle} \union Placing \union SettlingRecord]
  /\ Len(alerts) = Len(orders)
  /\ \A r \in Requests : request[r].stage \in {"raise", "resolve"} =>
       request[r].order \in DOMAIN orders /\ request[r].todo # << >>
  /\ lost \subseteq DOMAIN orders /\ overtaken \subseteq DOMAIN orders

\* "ORD-1042 has to mean one order": no two orders, and no order and a checkout about to
\* be stored, have one number.  With the unique index that also means that no checkout
\* is refused for its number, after it was paid for.
OneOrderPerNumber ==
  LET Numbered == {r \in Requests : request[r].stage = "create"}
  IN  /\ \A i, j \in DOMAIN orders : orders[i].number = orders[j].number => i = j
      /\ \A r \in Numbered : /\ \A i \in DOMAIN orders : orders[i].number # request[r].number
                             /\ \A s \in Numbered : request[s].number = request[r].number => s = r

\* "The total on the order is the one the server stands behind", though the rates may have
\* moved between quote, payment and order: a card order's is what its own customer's
\* payment brought in; nothing is charged for a Direct Debit order, and its twelve payments
\* come to its total, to half a penny each.
PaidForWhatItCosts ==
  \A i \in DOMAIN orders :
    LET o == orders[i]
        p == o.price IN
    /\ p.total = p.tax + p.serviceFee + p.v62Fee
    /\ IF "dd" \in o.items
       THEN o.payment = NoPayment /\ p.dueNow * p.instalments - p.total \in -6 .. 6
       ELSE /\ intent[o.payment].succeeded
            /\ intent[o.payment].customer = o.customer
            /\ intent[o.payment].amount = p.total

\* "An order cannot be taken and paid for with a V62 the admin then has nothing to print
\* from", nor is the vehicle's half looked up for one.
PrintableForms ==
  /\ \A i \in DOMAIN orders : "v62" \in orders[i].items <=> orders[i].v62 # NoForm
  /\ \A i \in DOMAIN orders : orders[i].v62 # NoForm => Printable(orders[i].v62)
  /\ \A r \in Requests : request[r].stage = "v62" => Printable(request[r].v62)

\* An order that nobody has is alerted once its checkout has answered, and one that
\* somebody has is not, unless a request stopped before its alerts were settled or an
\* admin was quicker than the checkout's own alert.
UnassignedAlertsTrack ==
  \A i \in DOMAIN orders \ lost :
    IF orders[i].supplier = Nobody
    THEN "unassigned" \in alerts[i] \/ Owes(i, "raise")
    ELSE "unassigned" \in alerts[i] => Owes(i, "resolve") \/ i \in overtaken
=============================================================================
