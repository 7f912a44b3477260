------------------------------ MODULE PaidExtras ------------------------------
(***************************************************************************)
(* The Extras: a VIN or a pair of number plates, paid for up front.  A card *)
(* payment is raised for one kind of sale of one registration, the customer *)
(* pays it at Stripe, and the request that completes the sale checks it,    *)
(* records the sale and emails the receipt.  Customers retry, requests for  *)
(* one payment overlap, admins move plates orders along, and the server may  *)
(* stop between any two steps and come back with other prices.              *)
(*                                                                         *)
(* VinService.purchase and PlatesService.place are one protocol on two      *)
(* collections; they differ in that only a VIN needs the lookup to answer.  *)
(* The admins' email goes with the receipt and is not told from it.  A find  *)
(* that fails is left out: it changes nothing, and the customer retries.     *)
(***************************************************************************)
EXTENDS Naturals, Sequences, SequencesExt

CONSTANTS
  Callers,    \* requests in progress at once, customers' and admins'
  Payments,   \* Stripe payment intents
  Customers,
  Regs,
  Prices,     \* what the Extras may cost
  Statuses,   \* PlateOrderStatus
  Received,   \* the first of them
  MaxHistory  \* bound: changes of one order's status

ASSUME StatusesAssumption == Received \in Statuses
ASSUME PricesAssumption == Prices \subseteq Nat
ASSUME MaxHistoryAssumption == MaxHistory \in Nat \ {0}

Kinds == {"vin", "plates"}

VARIABLES
  price,   \* of each kind: vinFee, platesFee
  intent,  \* of each payment: what it was raised for, and whether it succeeded
  sold,    \* of each payment: the sales recorded against it, in order
  mailed,  \* of each payment: receipts that left
  call     \* of each request: how far it is

vars == <<price, intent, sold, mailed, call>>

Goods == [kind : Kinds, reg : Regs, customer : Customers]

\* amount_received, and metadata.
Intent == [for : Goods, amount : Prices, succeeded : BOOLEAN]
Unmade == [amount |-> 0]

Sale == [for : Goods, amount : Prices, receipt : {"null", "sent", "failed"},
         status : Statuses, history : Seq(Statuses)]

\* after: the sale was there when the request began.
Request == [stage : {"looking", "checking", "creating", "mailing", "sent", "failed"},
            payment : Payments, for : Goods, after : BOOLEAN]
Change == [stage : {"setting"}, payment : Payments, status : Statuses, seen : Sale]
Ended == [stage : {"idle"}, told : {"nothing", "sale", "refused", "error"}]

Done(told) == [stage |-> "idle", told |-> told]

\* The sale a collection holds for a payment.
Found(p, kind) == {i \in DOMAIN sold[p] : sold[p][i].for.kind = kind}

Init ==
  /\ price \in [Kinds -> Prices]
  /\ intent = [p \in Payments |-> Unmade]
  /\ sold = [p \in Payments |-> << >>]
  /\ mailed = [p \in Payments |-> 0]
  /\ call = [c \in Callers |-> Done("nothing")]

-----------------------------------------------------------------------------
(* Stripe.                                                                  *)

\* createFlatIntent, at today's price; for a VIN, once the lookup has one to sell.
CreateIntent(p) ==
  /\ intent[p] = Unmade
  /\ \E g \in Goods :
       intent' = [intent EXCEPT ![p] =
                    [for |-> g, amount |-> price[g.kind], succeeded |-> FALSE]]
  /\ UNCHANGED <<price, sold, mailed, call>>

\* The customer pays, with the app's payment sheet.
Pay(p) ==
  /\ intent[p] # Unmade
  /\ ~intent[p].succeeded
  /\ intent' = [intent EXCEPT ![p].succeeded = TRUE]
  /\ UNCHANGED <<price, sold, mailed, call>>

-----------------------------------------------------------------------------
(* purchase and place.                                                      *)

End(c, told) == call' = [call EXCEPT ![c] = Done(told)]
Goto(c, stage) == call' = [call EXCEPT ![c].stage = stage]

Begin(c) ==
  /\ call[c].stage = "idle"
  /\ \E p \in Payments, g \in Goods :
       call' = [call EXCEPT ![c] = [stage |-> "looking", payment |-> p, for |-> g,
                                    after |-> Found(p, g.kind) # {}]]
  /\ UNCHANGED <<price, intent, sold, mailed>>

\* Mutant: a sale already made is not looked for.
FindExisting_Never(c) ==
  /\ call[c].stage = "looking"
  /\ Goto(c, "checking")
  /\ UNCHANGED <<price, intent, sold, mailed>>

FindExisting(c) ==
  /\ call[c].stage = "looking"
  /\ LET p == call[c].payment  found == Found(p, call[c].for.kind)
     IN  \/ found = {} /\ Goto(c, "checking")
         \/ /\ \E i \in found : sold[p][i].for.customer # call[c].for.customer
            /\ End(c, "refused")
         \/ /\ \E i \in found : sold[p][i].for.customer = call[c].for.customer
            /\ End(c, "sale")
  /\ UNCHANGED <<price, intent, sold, mailed>>

\* Mutant: what the payment was made for is not compared.
VerifyPaid_ForAnything(p, g) ==
  /\ intent[p] # Unmade
  /\ intent[p].for.customer = g.customer
  /\ intent[p].succeeded
  /\ intent[p].amount = price[g.kind]

\* verifyPaid, and the metadata: this customer's payment, done, of this price, for this.
VerifyPaid(p, g) ==
  /\ intent[p] # Unmade
  /\ intent[p].for = g
  /\ intent[p].succeeded
  /\ intent[p].amount = price[g.kind]

\* Stripe is asked, then the vehicle and the customer are looked up; any may not answer.
CheckPayment(c) ==
  /\ call[c].stage = "checking"
  /\ \/ VerifyPaid(call[c].payment, call[c].for) /\ Goto(c, "creating")
     \/ End(c, "refused")
  /\ UNCHANGED <<price, intent, sold, mailed>>

\* Mutant: no unique index.
Duplicate_Allowed(c) == FALSE

\* The unique index on paymentIntentId, of each collection.
Duplicate(c) == Found(call[c].payment, call[c].for.kind) # {}

NewSale(g) ==
  [for |-> g, amount |-> price[g.kind], receipt |-> "null",
   status |-> Received, history |-> <<Received>>]

Insert(c) == sold' = [sold EXCEPT ![call[c].payment] = Append(@, NewSale(call[c].for))]

Create(c) ==
  /\ call[c].stage = "creating"
  /\ ~Duplicate(c)
  /\ Insert(c)
  /\ Goto(c, "mailing")
  /\ UNCHANGED <<price, intent, mailed>>

\* "Two requests raced on one payment; the unique index let one through."
LoseRace(c) ==
  /\ call[c].stage = "creating"
  /\ Duplicate(c)
  /\ End(c, "sale")
  /\ UNCHANGED <<price, intent, sold, mailed>>

\* Another error is thrown on, whether the database had the sale by then or not.
CreateFails(c) ==
  /\ call[c].stage = "creating"
  /\ \/ UNCHANGED sold
     \/ ~Duplicate(c) /\ Insert(c)
  /\ End(c, "error")
  /\ UNCHANGED <<price, intent, mailed>>

\* The receipt leaves or does not, which is no error; plates look for the admins first.
Mail(c) ==
  /\ call[c].stage = "mailing"
  /\ \/ Goto(c, "sent") /\ mailed' = [mailed EXCEPT ![call[c].payment] = @ + 1]
     \/ Goto(c, "failed") /\ UNCHANGED mailed
     \/ call[c].for.kind = "plates" /\ End(c, "error") /\ UNCHANGED mailed
  /\ UNCHANGED <<price, intent, sold>>

\* Mutant: the status is written back as it was when the order was created.
Recorded_Stale(s, outcome) == [s EXCEPT !.receipt = outcome, !.status = Received]

\* save sets receiptEmail alone: nothing else of the document was modified.
Recorded(s, outcome) == [s EXCEPT !.receipt = outcome]

RecordEmail(c) ==
  /\ call[c].stage \in {"sent", "failed"}
  /\ \/ /\ sold' = [sold EXCEPT ![call[c].payment] =
              [i \in DOMAIN @ |-> IF i \in Found(call[c].payment, call[c].for.kind)
                                  THEN Recorded(@[i], call[c].stage) ELSE @[i]]]
        /\ End(c, "sale")
     \/ UNCHANGED sold /\ End(c, "error")
  /\ UNCHANGED <<price, intent, mailed>>

-----------------------------------------------------------------------------
(* Admins.                                                                  *)

\* setStatus: an order already there is answered; otherwise the admin is looked up.
LoadOrder(c) ==
  /\ call[c].stage = "idle"
  /\ \E p \in Payments, status \in Statuses : \E i \in Found(p, "plates") :
       /\ Len(sold[p][i].history) < MaxHistory
       /\ call' = [call EXCEPT ![c] =
            IF sold[p][i].status = status THEN Done("sale")
            ELSE [stage |-> "setting", payment |-> p, status |-> status, seen |-> sold[p][i]]]
  /\ UNCHANGED <<price, intent, sold, mailed>>

\* Mutant: the history is saved as this admin saw it, with the change.
Moved_Overwrites(s, status, seen) ==
  [s EXCEPT !.status = status, !.history = Append(seen.history, status)]

\* The status is set, and the change pushed onto whatever history there is.
Moved(s, status, seen) ==
  [s EXCEPT !.status = status, !.history = Append(@, status)]

SaveStatus(c) ==
  /\ call[c].stage = "setting"
  /\ \/ /\ sold' = [sold EXCEPT ![call[c].payment] =
              [i \in DOMAIN @ |-> IF i \in Found(call[c].payment, "plates")
                                  THEN Moved(@[i], call[c].status, call[c].seen) ELSE @[i]]]
        /\ End(c, "sale")
     \/ UNCHANGED sold /\ End(c, "error")
  /\ UNCHANGED <<price, intent, mailed>>

\* The server stops, with whatever it was doing, and starts with a price of today.
Restart ==
  /\ call' = [c \in Callers |-> Done("nothing")]
  /\ price' \in [Kinds -> Prices]
  /\ UNCHANGED <<intent, sold, mailed>>

Next ==
  \/ Restart
  \/ \E p \in Payments : CreateIntent(p) \/ Pay(p)
  \/ \E c \in Callers :
       \/ Begin(c) \/ FindExisting(c) \/ CheckPayment(c) \/ Create(c) \/ LoseRace(c)
       \/ CreateFails(c) \/ Mail(c) \/ RecordEmail(c) \/ LoadOrder(c) \/ SaveStatus(c)

Spec == Init /\ [][Next]_vars

-----------------------------------------------------------------------------
(* Properties.                                                             *)

TypeOK ==
  /\ price \in [Kinds -> Prices]
  /\ intent \in [Payments -> Intent \union {Unmade}]
  /\ sold \in [Payments -> Seq(Sale)]
  /\ mailed \in [Payments -> Nat]
  /\ call \in [Callers -> Request \union Change \union Ended]

\* "One payment, one order", however often the customer calls and whatever overlaps or
\* fails, with one receipt at most.
OnePaymentOneSale ==
  \A p \in Payments : Len(sold[p]) <= 1 /\ mailed[p] <= Len(sold[p])

\* "A payment made for one thing must not be spent on another": a sale is of what its
\* payment was raised for, to the customer who paid, at the amount paid, prices having
\* changed since or not.
SoldAsPaid ==
  \A p \in Payments : \A i \in DOMAIN sold[p] :
    /\ intent[p] # Unmade /\ intent[p].succeeded
    /\ sold[p][i].for = intent[p].for
    /\ sold[p][i].amount = intent[p].amount

\* "Each change is kept in the order's history": whichever admins overlapped, and the
\* receipt being recorded at the same time, no change is lost and the status is the last.
NoChangeIsLost ==
  [][\A p \in Payments : \A i \in DOMAIN sold[p] :
       /\ IsPrefix(sold[p][i].history, sold'[p][i].history)
       /\ sold'[p][i].status = Last(sold'[p][i].history)]_vars

\* "Safe to call twice with the same payment ... not an error": once there is a sale, the
\* customer who made it is never refused, whatever the price or the provider say now.
RetryGetsTheSale ==
  [][\A c \in Callers :
       /\ call[c].stage \in {"looking", "checking", "creating"} /\ call[c].after
       /\ intent[call[c].payment].for = call[c].for
       /\ call'[c].stage = "idle"
       => call'[c].told \notin {"refused", "error"}]_vars
=============================================================================
