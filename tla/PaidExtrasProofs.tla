--------------------------- MODULE PaidExtrasProofs ---------------------------
(***************************************************************************)
(* For any requests, payments, customers, registrations and prices: one     *)
(* payment gives at most one sale and one receipt, and the sale is of what   *)
(* the payment was raised for, at the amount paid.  No change of an order's  *)
(* status is lost, and a retry of what was sold is not refused.             *)
(***************************************************************************)
EXTENDS PaidExtras, TLAPS

\* What verifyPaid has found out stays so.
Pays(p, g) == intent[p] # Unmade /\ intent[p].for = g /\ intent[p].succeeded

Paid == {"creating", "mailing", "sent", "failed"}

\* Past the check a request is paid for; one that creates does it at today's price,
\* because another price means a restart, which ends the request.
Checked(c) ==
  /\ call[c].stage \in Paid => Pays(call[c].payment, call[c].for)
  /\ call[c].stage = "creating" => intent[call[c].payment].amount = price[call[c].for.kind]

\* Who is to send the receipt made the sale, and no receipt of it has left.
Mailer(c) ==
  call[c].stage = "mailing" =>
    sold[call[c].payment] # << >> /\ mailed[call[c].payment] = 0

OneMailer ==
  \A c, d \in Callers :
    call[c].stage = "mailing" /\ call[d].stage = "mailing"
      /\ call[c].payment = call[d].payment => c = d

Inv ==
  /\ TypeOK
  /\ OnePaymentOneSale
  /\ SoldAsPaid
  /\ \A c \in Callers : Checked(c) /\ Mailer(c)
  /\ OneMailer

-----------------------------------------------------------------------------
(* Types.                                                                   *)

\* A request's record is told by its stage.
LEMMA CallByStage ==
  ASSUME TypeOK, NEW c \in Callers
  PROVE  /\ call[c].stage \in {"looking", "checking"} \union Paid => call[c] \in Request
         /\ call[c].stage = "setting" => call[c] \in Change
BY DEF TypeOK, Request, Change, Ended, Paid

\* A sequence of sales rewritten in place is one of the same length.
LEMMA Rewritten ==
  ASSUME NEW s \in Seq(Sale), NEW t, t = [i \in DOMAIN s |-> t[i]],
         \A i \in DOMAIN s : t[i] \in Sale
  PROVE  t \in Seq(Sale) /\ Len(t) = Len(s) /\ DOMAIN t = DOMAIN s
<1>1. DOMAIN s = 1 .. Len(s) /\ Len(s) \in Nat
  OBVIOUS
<1>2. t \in [1 .. Len(s) -> Sale]
  BY <1>1
<1> QED
  BY <1>1, <1>2

LEMMA NewSaleType ==
  ASSUME TypeOK, NEW g \in Goods
  PROVE  /\ NewSale(g) \in Sale
         /\ NewSale(g).for = g /\ NewSale(g).amount = price[g.kind]
<1>1. <<Received>> \in Seq(Statuses)
  BY StatusesAssumption
<1>2. price[g.kind] \in Prices
  BY DEF TypeOK, Goods
<1> QED
  BY <1>1, <1>2, StatusesAssumption DEF NewSale, Sale

LEMMA InsertType ==
  ASSUME TypeOK, NEW c \in Callers, call[c].stage = "creating", Insert(c)
  PROVE  /\ call[c] \in Request
         /\ sold' \in [Payments -> Seq(Sale)]
         /\ sold'[call[c].payment] = Append(sold[call[c].payment], NewSale(call[c].for))
         /\ \A p \in Payments : p # call[c].payment => sold'[p] = sold[p]
<1>1. call[c] \in Request
  BY CallByStage DEF Paid
<1>2. call[c].payment \in Payments /\ call[c].for \in Goods
  BY <1>1 DEF Request
<1> DEFINE s == sold[call[c].payment]
           n == NewSale(call[c].for)
<1>3. n \in Sale
  BY <1>2, NewSaleType
<1>4. s \in Seq(Sale)
  BY <1>2 DEF TypeOK
<1>5. Append(s, n) \in Seq(Sale)
  BY <1>3, <1>4
<1>6. sold' = [sold EXCEPT ![call[c].payment] = Append(s, n)]
  BY DEF Insert
<1> QED
  BY <1>1, <1>2, <1>5, <1>6 DEF TypeOK

\* The sales of one payment, rewritten in place: each one is still of the same goods, at
\* the same amount.
Kept(p) ==
  /\ DOMAIN sold'[p] = DOMAIN sold[p] /\ Len(sold'[p]) = Len(sold[p])
  /\ \A i \in DOMAIN sold[p] :
       sold'[p][i].for = sold[p][i].for /\ sold'[p][i].amount = sold[p][i].amount

\* The receipt's outcome and a new status are written into sales, and leave the rest.
LEMMA RewriteType ==
  ASSUME TypeOK, NEW p \in Payments,
         sold' = [sold EXCEPT ![p] = sold'[p]],
         sold'[p] = [i \in DOMAIN sold[p] |-> sold'[p][i]],
         \A i \in DOMAIN sold[p] : /\ sold'[p][i] \in Sale
                                   /\ sold'[p][i].for = sold[p][i].for
                                   /\ sold'[p][i].amount = sold[p][i].amount
  PROVE  sold' \in [Payments -> Seq(Sale)] /\ \A q \in Payments : Kept(q)
<1> DEFINE new == sold'[p]
<1>1. sold[p] \in Seq(Sale)
  BY DEF TypeOK
<1>2. new \in Seq(Sale) /\ Len(new) = Len(sold[p]) /\ DOMAIN new = DOMAIN sold[p]
  BY <1>1, Rewritten
<1>3. \A q \in Payments : sold'[q] = IF q = p THEN new ELSE sold[q]
  BY DEF TypeOK
<1> QED
  BY <1>1, <1>2, <1>3 DEF TypeOK, Kept

LEMMA RecordedType ==
  ASSUME NEW s \in Sale, NEW outcome \in {"sent", "failed"}
  PROVE  /\ Recorded(s, outcome) \in Sale
         /\ Recorded(s, outcome).for = s.for /\ Recorded(s, outcome).amount = s.amount
BY DEF Recorded, Sale

LEMMA MovedType ==
  ASSUME NEW s \in Sale, NEW status \in Statuses, NEW seen
  PROVE  /\ Moved(s, status, seen) \in Sale
         /\ Moved(s, status, seen).for = s.for /\ Moved(s, status, seen).amount = s.amount
<1>1. Append(s.history, status) \in Seq(Statuses)
  BY DEF Sale
<1> QED
  BY <1>1 DEF Moved, Sale

LEMMA RecordEmailRewrites ==
  ASSUME TypeOK, NEW c \in Callers, RecordEmail(c)
  PROVE  sold' \in [Payments -> Seq(Sale)] /\ \A q \in Payments : Kept(q)
<1>1. call[c] \in Request
  BY CallByStage DEF RecordEmail, Paid
<1>2. CASE UNCHANGED sold
  BY <1>2 DEF TypeOK, Kept
<1>3. CASE ~UNCHANGED sold
  <2> DEFINE p == call[c].payment
             new == [i \in DOMAIN sold[p] |->
                       IF i \in Found(p, call[c].for.kind)
                       THEN Recorded(sold[p][i], call[c].stage) ELSE sold[p][i]]
  <2>1. p \in Payments /\ sold[p] \in Seq(Sale)
    BY <1>1 DEF Request, TypeOK
  <2>2. sold' = [sold EXCEPT ![p] = new]
    BY <1>3 DEF RecordEmail
  <2>3. call[c].stage \in {"sent", "failed"}
    BY DEF RecordEmail
  <2>4. \A i \in DOMAIN sold[p] : /\ new[i] \in Sale
                                  /\ new[i].for = sold[p][i].for
                                  /\ new[i].amount = sold[p][i].amount
    BY <2>1, <2>3, RecordedType
    <2>5. sold'[p] = new
    BY <2>1, <2>2 DEF TypeOK
  <2>6. sold' = [sold EXCEPT ![p] = sold'[p]]
    BY <2>2, <2>5
  <2>7. sold'[p] = [i \in DOMAIN sold[p] |-> sold'[p][i]]
    BY <2>5
  <2>8. \A i \in DOMAIN sold[p] : /\ sold'[p][i] \in Sale
                                  /\ sold'[p][i].for = sold[p][i].for
                                  /\ sold'[p][i].amount = sold[p][i].amount
    BY <2>4, <2>5
  <2> QED
    BY <2>1, <2>6, <2>7, <2>8, RewriteType
<1> QED
  BY <1>2, <1>3

LEMMA SaveStatusRewrites ==
  ASSUME TypeOK, NEW c \in Callers, SaveStatus(c)
  PROVE  sold' \in [Payments -> Seq(Sale)] /\ \A q \in Payments : Kept(q)
<1>1. call[c] \in Change
  BY CallByStage DEF SaveStatus
<1>2. CASE UNCHANGED sold
  BY <1>2 DEF TypeOK, Kept
<1>3. CASE ~UNCHANGED sold
  <2> DEFINE p == call[c].payment
             new == [i \in DOMAIN sold[p] |->
                       IF i \in Found(p, "plates")
                       THEN Moved(sold[p][i], call[c].status, call[c].seen) ELSE sold[p][i]]
  <2>1. p \in Payments /\ sold[p] \in Seq(Sale) /\ call[c].status \in Statuses
    BY <1>1 DEF Change, TypeOK
  <2>2. sold' = [sold EXCEPT ![p] = new]
    BY <1>3 DEF SaveStatus
  <2>3. \A i \in DOMAIN sold[p] : /\ new[i] \in Sale
                                  /\ new[i].for = sold[p][i].for
                                  /\ new[i].amount = sold[p][i].amount
    BY <2>1, MovedType
    <2>4. sold'[p] = new
    BY <2>1, <2>2 DEF TypeOK
  <2>5. sold' = [sold EXCEPT ![p] = sold'[p]]
    BY <2>2, <2>4
  <2>6. sold'[p] = [i \in DOMAIN sold[p] |-> sold'[p][i]]
    BY <2>4
  <2>7. \A i \in DOMAIN sold[p] : /\ sold'[p][i] \in Sale
                                  /\ sold'[p][i].for = sold[p][i].for
                                  /\ sold'[p][i].amount = sold[p][i].amount
    BY <2>3, <2>4
  <2> QED
    BY <2>1, <2>5, <2>6, <2>7, RewriteType
<1> QED
  BY <1>2, <1>3

\* No step of a purchase, an admin or the provider leaves a value out of its type.
THEOREM TypeStep == TypeOK /\ [Next]_vars => TypeOK'
<1> SUFFICES ASSUME TypeOK, [Next]_vars PROVE TypeOK'
  OBVIOUS
<1>1. CASE UNCHANGED vars
  BY <1>1 DEF TypeOK, vars
<1>2. CASE Restart
  BY <1>2 DEF Restart, TypeOK, Done, Ended
<1>3. ASSUME NEW p \in Payments, CreateIntent(p) \/ Pay(p)
      PROVE  TypeOK'
  <2>1. CASE CreateIntent(p)
    <3>1. PICK g \in Goods : intent' = [intent EXCEPT ![p] =
                               [for |-> g, amount |-> price[g.kind], succeeded |-> FALSE]]
      BY <2>1 DEF CreateIntent
    <3>2. [for |-> g, amount |-> price[g.kind], succeeded |-> FALSE] \in Intent
      BY DEF TypeOK, Goods, Intent
    <3> QED
      BY <2>1, <3>1, <3>2 DEF CreateIntent, TypeOK
  <2>2. CASE Pay(p)
    <3>1. intent[p] \in Intent
      BY <2>2 DEF Pay, TypeOK
    <3>2. [intent[p] EXCEPT !.succeeded = TRUE] \in Intent
      BY <3>1 DEF Intent
    <3> QED
      BY <2>2, <3>2 DEF Pay, TypeOK
  <2> QED
    BY <1>3, <2>1, <2>2
<1>4. ASSUME NEW c \in Callers,
             \/ Begin(c) \/ FindExisting(c) \/ CheckPayment(c) \/ Create(c) \/ LoseRace(c)
             \/ CreateFails(c) \/ Mail(c) \/ RecordEmail(c) \/ LoadOrder(c) \/ SaveStatus(c)
      PROVE  TypeOK'
  <2> DEFINE CallsTyped == call' \in [Callers -> Request \union Change \union Ended]
  <2>1. CASE Begin(c)
    BY <2>1 DEF Begin, TypeOK, Request
  <2>2. ASSUME NEW told \in {"nothing", "sale", "refused", "error"}, End(c, told)
        PROVE  CallsTyped
    BY <2>2 DEF End, Done, Ended, TypeOK
  <2>3. ASSUME NEW stage \in {"checking"} \union Paid, Goto(c, stage), call[c] \in Request
        PROVE  CallsTyped
    <3>1. [call[c] EXCEPT !.stage = stage] \in Request
      BY <2>3 DEF Request, Paid
    <3> QED
      BY <2>3, <3>1 DEF Goto, TypeOK
  <2>4. CASE FindExisting(c)
    <3>1. call[c] \in Request
      BY <2>4, CallByStage DEF FindExisting
    <3>2. CallsTyped
      BY <2>2, <2>3, <2>4, <3>1 DEF FindExisting
    <3> QED
      BY <2>4, <3>2 DEF FindExisting, TypeOK
  <2>5. CASE CheckPayment(c)
    <3>1. call[c] \in Request
      BY <2>5, CallByStage DEF CheckPayment
    <3>2. CallsTyped
      BY <2>2, <2>3, <2>5, <3>1 DEF CheckPayment, Paid
    <3> QED
      BY <2>5, <3>2 DEF CheckPayment, TypeOK
  <2>6. CASE Create(c)
    <3>1. call[c] \in Request /\ sold' \in [Payments -> Seq(Sale)]
      BY <2>6, InsertType DEF Create
    <3>2. CallsTyped
      BY <2>3, <2>6, <3>1 DEF Create, Paid
    <3> QED
      BY <2>6, <3>1, <3>2 DEF Create, TypeOK
  <2>7. CASE LoseRace(c)
    <3>1. CallsTyped
      BY <2>2, <2>7 DEF LoseRace
    <3> QED
      BY <2>7, <3>1 DEF LoseRace, TypeOK
  <2>8. CASE CreateFails(c)
    <3>1. CallsTyped
      BY <2>2, <2>8 DEF CreateFails
    <3>2. sold' \in [Payments -> Seq(Sale)]
      BY <2>8, InsertType DEF CreateFails, TypeOK
    <3> QED
      BY <2>8, <3>1, <3>2 DEF CreateFails, TypeOK
  <2>9. CASE Mail(c)
    <3>1. call[c] \in Request
      BY <2>9, CallByStage DEF Mail, Paid
    <3>2. CallsTyped
      BY <2>2, <2>3, <2>9, <3>1 DEF Mail, Paid
    <3>3. mailed' \in [Payments -> Nat]
      BY <2>9, <3>1 DEF Mail, TypeOK, Request
    <3> QED
      BY <2>9, <3>2, <3>3 DEF Mail, TypeOK
  <2>10. CASE RecordEmail(c)
    <3>1. CallsTyped
      BY <2>2, <2>10 DEF RecordEmail
    <3> QED
      BY <2>10, <3>1, RecordEmailRewrites DEF RecordEmail, TypeOK
  <2>11. CASE LoadOrder(c)
    <3>1. PICK p \in Payments, status \in Statuses : \E i \in Found(p, "plates") :
            call' = [call EXCEPT ![c] =
              IF sold[p][i].status = status THEN Done("sale")
              ELSE [stage |-> "setting", payment |-> p, status |-> status, seen |-> sold[p][i]]]
      BY <2>11 DEF LoadOrder
    <3>2. \A i \in Found(p, "plates") : sold[p][i] \in Sale
      BY DEF Found, TypeOK
    <3>3. CallsTyped
      BY <3>1, <3>2 DEF TypeOK, Done, Ended, Change
    <3> QED
      BY <2>11, <3>3 DEF LoadOrder, TypeOK
  <2>12. CASE SaveStatus(c)
    <3>1. CallsTyped
      BY <2>2, <2>12 DEF SaveStatus
    <3> QED
      BY <2>12, <3>1, SaveStatusRewrites DEF SaveStatus, TypeOK
  <2> QED
    BY <1>4, <2>1, <2>4, <2>5, <2>6, <2>7, <2>8, <2>9, <2>10, <2>11, <2>12
<1> QED
  BY <1>1, <1>2, <1>3, <1>4 DEF Next

-----------------------------------------------------------------------------
(* One payment, one sale.                                                   *)

\* Sales rewritten in place are as many, and of what they were.
LEMMA KeptIsSafe ==
  ASSUME Inv, \A p \in Payments : Kept(p), UNCHANGED <<intent, mailed>>
  PROVE  /\ OnePaymentOneSale' /\ SoldAsPaid'
         /\ \A p \in Payments : sold[p] # << >> => sold'[p] # << >>
<1>1. OnePaymentOneSale'
  BY DEF Inv, Kept, OnePaymentOneSale
<1>2. SoldAsPaid'
  BY DEF Inv, Kept, SoldAsPaid
<1>3. ASSUME NEW p \in Payments, sold[p] # << >> PROVE sold'[p] # << >>
  <2>1. sold[p] \in Seq(Sale)
    BY DEF Inv, TypeOK
  <2>2. Len(sold[p]) # 0
    BY <1>3, <2>1
  <2> QED
    BY <2>2 DEF Kept
<1> QED
  BY <1>1, <1>2, <1>3

\* The unique index is enough although it is of one collection: a request that creates is
\* of the payment's own kind, and so is any sale there is.
LEMMA InsertIsSafe ==
  ASSUME Inv, NEW c \in Callers, call[c].stage = "creating",
         ~Duplicate(c), Insert(c), UNCHANGED <<intent, mailed>>
  PROVE  /\ OnePaymentOneSale' /\ SoldAsPaid'
         /\ call[c].payment \in Payments
         /\ sold[call[c].payment] = << >>
         /\ \A p \in Payments : sold[p] # << >> => sold'[p] # << >>
         /\ sold'[call[c].payment] # << >>
<1> DEFINE p == call[c].payment
           g == call[c].for
           n == NewSale(g)
<1>1. TypeOK
  BY DEF Inv
<1>2. /\ call[c] \in Request
      /\ sold'[p] = Append(sold[p], n)
      /\ \A q \in Payments : q # p => sold'[q] = sold[q]
  BY <1>1, InsertType
<1>3. p \in Payments /\ g \in Goods
  BY <1>2 DEF Request
<1>4. sold[p] \in Seq(Sale)
  BY <1>1, <1>3 DEF TypeOK
<1>5. Pays(p, g) /\ intent[p].amount = price[g.kind]
  BY DEF Inv, Checked, Paid
<1>6. sold[p] = << >>
  <2> SUFFICES ASSUME sold[p] # << >> PROVE FALSE
    OBVIOUS
  <2>1. 1 \in DOMAIN sold[p]
    BY <1>4
  <2>2. sold[p][1].for = g
    BY <1>3, <1>5, <2>1 DEF Inv, SoldAsPaid, Pays
  <2> QED
    BY <2>1, <2>2 DEF Duplicate, Found
<1>7. sold'[p] = <<n>>
  BY <1>2, <1>6
<1>8. n.for = g /\ n.amount = price[g.kind]
  BY <1>1, <1>3, NewSaleType
<1>9. OnePaymentOneSale'
  <2> SUFFICES ASSUME NEW q \in Payments PROVE Len(sold'[q]) <= 1 /\ mailed'[q] <= Len(sold'[q])
    BY DEF OnePaymentOneSale
  <2>1. CASE q = p
    <3>1. mailed[p] <= 0 /\ mailed[p] \in Nat
      BY <1>1, <1>3, <1>6 DEF Inv, OnePaymentOneSale, TypeOK
    <3>2. mailed'[q] = mailed[p]
      BY <2>1
    <3>3. Len(<<n>>) = 1
      OBVIOUS
    <3>4. Len(sold'[q]) = 1
      BY <1>7, <2>1, <3>3
    <3> QED
      BY <3>1, <3>2, <3>4
  <2>2. CASE q # p
    BY <1>2, <2>2 DEF Inv, OnePaymentOneSale
  <2> QED
    BY <2>1, <2>2
<1>10. SoldAsPaid'
  <2> SUFFICES ASSUME NEW q \in Payments, NEW i \in DOMAIN sold'[q]
               PROVE  /\ intent[q] # Unmade /\ intent[q].succeeded
                      /\ sold'[q][i].for = intent[q].for
                      /\ sold'[q][i].amount = intent[q].amount
    BY DEF SoldAsPaid
  <2>1. CASE q = p
    <3>1. sold'[q][i] = n
      BY <1>7, <2>1
    <3> QED
      BY <1>5, <1>8, <2>1, <3>1 DEF Pays
  <2>2. CASE q # p
    BY <1>2, <2>2 DEF Inv, SoldAsPaid
  <2> QED
    BY <2>1, <2>2
<1> QED
  BY <1>2, <1>3, <1>6, <1>7, <1>9, <1>10

\* A request's step leaves the other requests as good as they were.
LEMMA OthersStayGood ==
  ASSUME Inv, NEW c \in Callers, NEW d \in Callers, d # c, call'[d] = call[d],
         UNCHANGED <<intent, price>>,
         \A p \in Payments : sold[p] # << >> => sold'[p] # << >>,
         \A p \in Payments :
           mailed'[p] = mailed[p] \/ (call[c].stage = "mailing" /\ call[c].payment = p)
  PROVE  Checked(d)' /\ Mailer(d)'
<1>1. Checked(d)'
  BY DEF Inv, Checked, Pays
<1>2. Mailer(d)'
  <2> SUFFICES ASSUME call[d].stage = "mailing"
               PROVE  sold'[call[d].payment] # << >> /\ mailed'[call[d].payment] = 0
    BY DEF Mailer
  <2>1. call[d].payment \in Payments
    BY CallByStage DEF Inv, Paid, Request
  <2>2. sold[call[d].payment] # << >> /\ mailed[call[d].payment] = 0
    BY DEF Inv, Mailer
  <2>3. ~(call[c].stage = "mailing" /\ call[c].payment = call[d].payment)
    BY DEF Inv, OneMailer
  <2> QED
    BY <2>1, <2>2, <2>3
<1> QED
  BY <1>1, <1>2

\* A request that is not to send a receipt now makes no second mailer.
LEMMA StillOneMailer ==
  ASSUME Inv, NEW c \in Callers, \A d \in Callers : d # c => call'[d] = call[d],
         call'[c].stage # "mailing"
  PROVE  OneMailer'
BY DEF Inv, OneMailer

LEMMA InvStep == Inv /\ [Next]_vars => Inv'
<1> SUFFICES ASSUME Inv, [Next]_vars PROVE Inv'
  OBVIOUS
<1> USE DEF Paid
<1>0. TypeOK /\ TypeOK'
  BY TypeStep DEF Inv
<1>1. CASE UNCHANGED vars
  BY <1>1 DEF Inv, vars, TypeOK, OnePaymentOneSale, SoldAsPaid, Checked, Mailer, OneMailer, Pays
<1>2. CASE Restart
  <2>1. \A c \in Callers : call'[c].stage = "idle"
    BY <1>2 DEF Restart, Done
  <2> QED
    BY <1>0, <1>2, <2>1
       DEF Restart, Inv, OnePaymentOneSale, SoldAsPaid, Checked, Mailer, OneMailer
<1>3. ASSUME NEW p \in Payments, CreateIntent(p) \/ Pay(p)
      PROVE  Inv'
  <2>1. /\ UNCHANGED <<price, sold, mailed, call>>
        /\ \A q \in Payments : q # p => intent'[q] = intent[q]
        /\ intent[p] # Unmade => /\ intent'[p] # Unmade
                                 /\ intent'[p].for = intent[p].for
                                 /\ intent'[p].amount = intent[p].amount
                                 /\ intent[p].succeeded => intent'[p].succeeded
    <3>1. CASE CreateIntent(p)
      BY <1>0, <3>1 DEF CreateIntent, TypeOK
    <3>2. CASE Pay(p)
      <4>1. intent[p] \in Intent
        BY <1>0, <3>2 DEF Pay, TypeOK
      <4>2. intent'[p] = [intent[p] EXCEPT !.succeeded = TRUE]
        BY <1>0, <3>2 DEF Pay, TypeOK
      <4>3. /\ intent'[p].for = intent[p].for /\ intent'[p].amount = intent[p].amount
            /\ intent'[p].succeeded
        BY <4>1, <4>2 DEF Intent
      <4>4. intent'[p] # Unmade
        BY <4>1, <4>2 DEF Intent, Unmade
      <4> QED
        BY <1>0, <3>2, <4>3, <4>4 DEF Pay, TypeOK
    <3> QED
      BY <1>3, <3>1, <3>2
  <2>2. OnePaymentOneSale' /\ OneMailer'
    BY <2>1 DEF Inv, OnePaymentOneSale, OneMailer
  <2>3. SoldAsPaid'
    BY <2>1 DEF Inv, SoldAsPaid
  <2>4. ASSUME NEW c \in Callers PROVE Checked(c)' /\ Mailer(c)'
    <3>1. call[c].stage \in Paid => call[c].payment \in Payments
      BY <1>0, CallByStage DEF Request
    <3> QED
      BY <2>1, <3>1 DEF Inv, Checked, Mailer, Pays
  <2> QED
    BY <1>0, <2>2, <2>3, <2>4 DEF Inv
<1>4. ASSUME NEW c \in Callers,
             \/ Begin(c) \/ FindExisting(c) \/ CheckPayment(c) \/ Create(c) \/ LoseRace(c)
             \/ CreateFails(c) \/ Mail(c) \/ RecordEmail(c) \/ LoadOrder(c) \/ SaveStatus(c)
      PROVE  Inv'
  <2>1. \A d \in Callers : d # c => call'[d] = call[d]
    BY <1>0, <1>4 DEF Begin, FindExisting, CheckPayment, Create, LoseRace, CreateFails, Mail,
       RecordEmail, LoadOrder, SaveStatus, Goto, End, TypeOK
  <2>2. UNCHANGED <<price, intent>>
    BY <1>4 DEF Begin, FindExisting, CheckPayment, Create, LoseRace, CreateFails, Mail,
       RecordEmail, LoadOrder, SaveStatus
  <2>3. ASSUME NEW told, End(c, told) PROVE call'[c].stage = "idle"
    BY <1>0, <2>3 DEF End, Done, TypeOK
  \* Whatever the request did, it is enough that what it wrote and became is good.
  <2>4. ASSUME OnePaymentOneSale', SoldAsPaid',
               \A p \in Payments : sold[p] # << >> => sold'[p] # << >>,
               \A p \in Payments :
                 mailed'[p] = mailed[p] \/ (call[c].stage = "mailing" /\ call[c].payment = p),
               Checked(c)', Mailer(c)', OneMailer'
        PROVE  Inv'
    <3>1. \A d \in Callers : d # c => Checked(d)' /\ Mailer(d)'
      BY <2>1, <2>2, <2>4, OthersStayGood
    <3> QED
      BY <1>0, <2>4, <3>1 DEF Inv
  \* A request that stores nothing and ends, or is not yet past its check.
  <2>5. ASSUME UNCHANGED <<sold, mailed>>, call'[c].stage \notin Paid
        PROVE  Inv'
    <3>1. OnePaymentOneSale' /\ SoldAsPaid'
      BY <2>2, <2>5 DEF Inv, OnePaymentOneSale, SoldAsPaid
    <3>2. Checked(c)' /\ Mailer(c)' /\ OneMailer'
      BY <2>1, <2>5, StillOneMailer DEF Checked, Mailer
    <3> QED
      BY <2>4, <2>5, <3>1, <3>2
  <2>6. CASE Begin(c)
    BY <1>0, <2>5, <2>6 DEF Begin, TypeOK
  <2>7. CASE FindExisting(c)
    <3>1. call[c] \in Request
      BY <1>0, <2>7, CallByStage DEF FindExisting
    <3>2. call'[c].stage \in {"checking", "idle"}
      BY <1>0, <2>3, <2>7, <3>1 DEF FindExisting, Goto, TypeOK, Request
    <3> QED
      BY <2>5, <2>7, <3>2 DEF FindExisting
  <2>8. CASE CheckPayment(c)
    <3>1. call[c] \in Request
      BY <1>0, <2>8, CallByStage DEF CheckPayment
    <3>2. CASE End(c, "refused")
      BY <2>3, <2>5, <2>8, <3>2 DEF CheckPayment
    <3>3. CASE VerifyPaid(call[c].payment, call[c].for) /\ Goto(c, "creating")
      <4>1. call'[c] = [call[c] EXCEPT !.stage = "creating"]
        BY <1>0, <3>3 DEF Goto, TypeOK
      <4>2. /\ call'[c].stage = "creating" /\ call'[c].payment = call[c].payment
            /\ call'[c].for = call[c].for
        BY <3>1, <4>1 DEF Request
      <4>3. UNCHANGED <<sold, mailed>>
        BY <2>8 DEF CheckPayment
      <4>4. OnePaymentOneSale' /\ SoldAsPaid'
        BY <2>2, <4>3 DEF Inv, OnePaymentOneSale, SoldAsPaid
      <4>5. Checked(c)'
        BY <2>2, <3>3, <4>2 DEF VerifyPaid, Checked, Pays
      <4>6. Mailer(c)' /\ OneMailer'
        BY <2>1, <4>2, StillOneMailer DEF Mailer
      <4> QED
        BY <2>4, <4>3, <4>4, <4>5, <4>6
    <3> QED
      BY <2>8, <3>2, <3>3 DEF CheckPayment
  <2>9. CASE Create(c)
    <3>1. /\ call[c].stage = "creating" /\ ~Duplicate(c) /\ Insert(c)
          /\ Goto(c, "mailing") /\ UNCHANGED mailed
      BY <2>9 DEF Create
    <3>2. call[c] \in Request
      BY <1>0, <3>1, CallByStage
    <3>3. /\ OnePaymentOneSale' /\ SoldAsPaid'
          /\ call[c].payment \in Payments
          /\ sold[call[c].payment] = << >>
          /\ \A p \in Payments : sold[p] # << >> => sold'[p] # << >>
          /\ sold'[call[c].payment] # << >>
      BY <2>2, <3>1, InsertIsSafe
    <3>4. call'[c] = [call[c] EXCEPT !.stage = "mailing"]
      BY <1>0, <3>1 DEF Goto, TypeOK
    <3>5. /\ call'[c].stage = "mailing" /\ call'[c].payment = call[c].payment
          /\ call'[c].for = call[c].for
      BY <3>2, <3>4 DEF Request
    <3>6. Checked(c)'
      BY <2>2, <3>1, <3>5 DEF Inv, Checked, Pays
    <3>7. mailed[call[c].payment] = 0
      BY <1>0, <3>3 DEF Inv, OnePaymentOneSale, TypeOK
    <3>8. Mailer(c)'
      BY <3>1, <3>3, <3>5, <3>7 DEF Mailer
    <3>9. \A d \in Callers : call[d].stage = "mailing" => call[d].payment # call[c].payment
      BY <3>3 DEF Inv, Mailer
    <3>10. OneMailer'
      BY <2>1, <3>5, <3>9 DEF Inv, OneMailer
    <3> QED
      BY <2>4, <3>1, <3>3, <3>6, <3>8, <3>10
  <2>10. CASE LoseRace(c)
    BY <2>3, <2>5, <2>10 DEF LoseRace
  <2>11. CASE CreateFails(c)
    <3>1. call'[c].stage = "idle" /\ UNCHANGED mailed /\ call[c].stage = "creating"
      BY <2>3, <2>11 DEF CreateFails
    <3>2. CASE UNCHANGED sold
      BY <2>5, <3>1, <3>2
    <3>3. CASE ~Duplicate(c) /\ Insert(c)
      <4>1. /\ OnePaymentOneSale' /\ SoldAsPaid'
            /\ \A p \in Payments : sold[p] # << >> => sold'[p] # << >>
        BY <2>2, <3>1, <3>3, InsertIsSafe
      <4>2. Checked(c)' /\ Mailer(c)' /\ OneMailer'
        BY <2>1, <3>1, StillOneMailer DEF Checked, Mailer
      <4> QED
        BY <2>4, <3>1, <4>1, <4>2
    <3> QED
      BY <2>11, <3>2, <3>3 DEF CreateFails
  <2>12. CASE Mail(c)
    <3>1. call[c] \in Request /\ call[c].stage = "mailing" /\ UNCHANGED sold
      BY <1>0, <2>12, CallByStage DEF Mail
    <3>2. call[c].payment \in Payments
      BY <3>1 DEF Request
    <3>3. CASE End(c, "error") /\ UNCHANGED mailed
      BY <2>3, <2>5, <3>1, <3>3
    <3>4. ASSUME NEW stage \in {"sent", "failed"}, Goto(c, stage),
                 \/ mailed' = [mailed EXCEPT ![call[c].payment] = @ + 1]
                 \/ UNCHANGED mailed
          PROVE  Inv'
      <4>1. call'[c] = [call[c] EXCEPT !.stage = stage]
        BY <1>0, <3>4 DEF Goto, TypeOK
      <4>2. /\ call'[c].stage = stage /\ call'[c].payment = call[c].payment
            /\ call'[c].for = call[c].for
        BY <3>1, <4>1 DEF Request
      <4>3. sold[call[c].payment] # << >> /\ mailed[call[c].payment] = 0
        BY <3>1 DEF Inv, Mailer
      <4>4. Len(sold[call[c].payment]) \in Nat \ {0}
        BY <1>0, <3>2, <4>3 DEF TypeOK
      <4>5. OnePaymentOneSale'
        <5> SUFFICES ASSUME NEW q \in Payments
                     PROVE  Len(sold[q]) <= 1 /\ mailed'[q] <= Len(sold[q])
          BY <3>1 DEF OnePaymentOneSale
        <5>1. Len(sold[q]) <= 1 /\ mailed[q] <= Len(sold[q])
          BY DEF Inv, OnePaymentOneSale
        <5>2. mailed'[q] = mailed[q] \/ (q = call[c].payment /\ mailed'[q] = mailed[q] + 1)
          BY <1>0, <3>4 DEF TypeOK
        <5> QED
          BY <4>3, <4>4, <5>1, <5>2
      <4>6. SoldAsPaid'
        BY <2>2, <3>1 DEF Inv, SoldAsPaid
      <4>7. Checked(c)'
        BY <2>2, <3>1, <3>4, <4>2 DEF Inv, Checked, Pays
      <4>8. Mailer(c)' /\ OneMailer'
        BY <2>1, <3>4, <4>2, StillOneMailer DEF Mailer
      <4>9. \A p \in Payments : mailed'[p] = mailed[p] \/ call[c].payment = p
        BY <1>0, <3>4 DEF TypeOK
      <4> QED
        BY <2>4, <3>1, <4>5, <4>6, <4>7, <4>8, <4>9
    <3> QED
      BY <2>12, <3>3, <3>4 DEF Mail
  <2>13. CASE RecordEmail(c) \/ SaveStatus(c)
    <3>1. call'[c].stage = "idle" /\ UNCHANGED mailed
      BY <2>3, <2>13 DEF RecordEmail, SaveStatus
    <3>2. \A p \in Payments : Kept(p)
      BY <1>0, <2>13, RecordEmailRewrites, SaveStatusRewrites
    <3>3. /\ OnePaymentOneSale' /\ SoldAsPaid'
          /\ \A p \in Payments : sold[p] # << >> => sold'[p] # << >>
      BY <2>2, <3>1, <3>2, KeptIsSafe
    <3>4. Checked(c)' /\ Mailer(c)' /\ OneMailer'
      BY <2>1, <3>1, StillOneMailer DEF Checked, Mailer
    <3> QED
      BY <2>4, <3>1, <3>3, <3>4
  <2>14. CASE LoadOrder(c)
    <3>1. call'[c].stage \in {"idle", "setting"}
      BY <1>0, <2>14 DEF LoadOrder, Done, TypeOK
    <3> QED
      BY <2>5, <2>14, <3>1 DEF LoadOrder
  <2> QED
    BY <1>4, <2>6, <2>7, <2>8, <2>9, <2>10, <2>11, <2>12, <2>13, <2>14
<1> QED
  BY <1>1, <1>2, <1>3, <1>4 DEF Next

-----------------------------------------------------------------------------
(* No change is lost.                                                       *)

\* An order's status is the last of its history.
HistoryInv ==
  \A p \in Payments : \A i \in DOMAIN sold[p] :
    sold[p][i].status = Last(sold[p][i].history)

\* What a sale may become: the same goods, with more history.
Becomes(s, t) ==
  t.for = s.for /\ IsPrefix(s.history, t.history) /\ t.status = Last(t.history)

GoesOn(p) ==
  /\ DOMAIN sold[p] \subseteq DOMAIN sold'[p]
  /\ \A i \in DOMAIN sold[p] : Becomes(sold[p][i], sold'[p][i])

\* A history pushed onto begins as it did.
LEMMA Pushed ==
  ASSUME NEW S, NEW h \in Seq(S), NEW x \in S
  PROVE  IsPrefix(h, Append(h, x)) /\ Last(Append(h, x)) = x
<1> DEFINE t == Append(h, x)
           n == Len(h)
<1>1. n \in Nat /\ t \in Seq(S) /\ Len(t) = n + 1 /\ t[n + 1] = x
      /\ \A i \in 1 .. n : t[i] = h[i]
  OBVIOUS
<1>2. SubSeq(h, 1, n) = [i \in 1 .. n |-> h[i]]
  BY <1>1
<1>3. SubSeq(t, 1, n) = [i \in 1 .. n |-> t[i]]
  BY <1>1
<1> HIDE DEF t, n
<1>4. SubSeq(h, 1, n) = SubSeq(t, 1, n)
  BY <1>1, <1>2, <1>3
<1>5. Len(h) <= Len(t)
  BY <1>1 DEF n
<1> QED
  BY <1>1, <1>4, <1>5 DEF IsPrefix, Last, n, t

LEMMA RecordedBecomes ==
  ASSUME NEW s \in Sale, s.status = Last(s.history), NEW outcome
  PROVE  Becomes(s, s) /\ Becomes(s, Recorded(s, outcome))
<1>1. Len(s.history) <= Len(s.history)
  BY DEF Sale
<1>2. IsPrefix(s.history, s.history)
  BY <1>1 DEF IsPrefix
<1> QED
  BY <1>2 DEF Becomes, Recorded, Sale

LEMMA MovedBecomes ==
  ASSUME NEW s \in Sale, NEW status \in Statuses, NEW seen
  PROVE  Becomes(s, Moved(s, status, seen))
<1> DEFINE t == Moved(s, status, seen)
<1>1. s.history \in Seq(Statuses)
  BY DEF Sale
<1>2. t.for = s.for /\ t.status = status /\ t.history = Append(s.history, status)
  BY DEF Moved, Sale
<1> HIDE DEF t
<1> QED
  BY <1>1, <1>2, Pushed DEF Becomes, t

LEMMA SoldType ==
  ASSUME TypeOK, NEW p \in Payments, NEW i \in DOMAIN sold[p]
  PROVE  sold[p][i] \in Sale
BY DEF TypeOK

\* A write in place, of one payment's sales.
LEMMA RewrittenGoesOn ==
  ASSUME TypeOK, HistoryInv, NEW p \in Payments, NEW new,
         sold' = [sold EXCEPT ![p] = new], DOMAIN new = DOMAIN sold[p],
         \A i \in DOMAIN sold[p] : Becomes(sold[p][i], new[i])
  PROVE  HistoryInv' /\ \A q \in Payments : GoesOn(q)
<1>1. \A q \in Payments : sold'[q] = IF q = p THEN new ELSE sold[q]
  BY DEF TypeOK
<1>2. ASSUME NEW q \in Payments, NEW i \in DOMAIN sold[q]
      PROVE  Becomes(sold[q][i], sold[q][i])
  BY SoldType, RecordedBecomes DEF HistoryInv
<1>3. \A q \in Payments : DOMAIN sold'[q] = DOMAIN sold[q] /\ GoesOn(q)
  BY <1>1, <1>2 DEF GoesOn
<1> QED
  BY <1>3 DEF HistoryInv, GoesOn, Becomes

LEMMA RecordEmailGoesOn ==
  ASSUME TypeOK, HistoryInv, NEW c \in Callers, RecordEmail(c), ~UNCHANGED sold
  PROVE  HistoryInv' /\ \A q \in Payments : GoesOn(q)
<1> DEFINE p == call[c].payment
           new == [i \in DOMAIN sold[p] |->
                     IF i \in Found(p, call[c].for.kind)
                     THEN Recorded(sold[p][i], call[c].stage) ELSE sold[p][i]]
<1>1. p \in Payments
  BY CallByStage DEF RecordEmail, Paid, Request
<1>2. sold' = [sold EXCEPT ![p] = new]
  BY DEF RecordEmail
<1>3. ASSUME NEW i \in DOMAIN sold[p]
      PROVE  Becomes(sold[p][i], new[i])
  BY <1>1, SoldType, RecordedBecomes DEF HistoryInv
<1>4. DOMAIN new = DOMAIN sold[p]
  OBVIOUS
<1> HIDE DEF new
<1> QED
  BY <1>1, <1>2, <1>3, <1>4, RewrittenGoesOn

LEMMA SaveStatusGoesOn ==
  ASSUME TypeOK, HistoryInv, NEW c \in Callers, SaveStatus(c), ~UNCHANGED sold
  PROVE  HistoryInv' /\ \A q \in Payments : GoesOn(q)
<1> DEFINE p == call[c].payment
           new == [i \in DOMAIN sold[p] |->
                     IF i \in Found(p, "plates")
                     THEN Moved(sold[p][i], call[c].status, call[c].seen) ELSE sold[p][i]]
<1>1. p \in Payments /\ call[c].status \in Statuses
  BY CallByStage DEF SaveStatus, Change
<1>2. sold' = [sold EXCEPT ![p] = new]
  BY DEF SaveStatus
<1>3. ASSUME NEW i \in DOMAIN sold[p]
      PROVE  Becomes(sold[p][i], new[i])
  BY <1>1, SoldType, RecordedBecomes, MovedBecomes DEF HistoryInv
<1>4. DOMAIN new = DOMAIN sold[p]
  OBVIOUS
<1> HIDE DEF new
<1> QED
  BY <1>1, <1>2, <1>3, <1>4, RewrittenGoesOn

LEMMA NothingWritten ==
  ASSUME TypeOK, HistoryInv, UNCHANGED sold
  PROVE  HistoryInv' /\ \A q \in Payments : GoesOn(q)
<1>1. ASSUME NEW q \in Payments, NEW i \in DOMAIN sold[q]
      PROVE  Becomes(sold[q][i], sold[q][i])
  BY SoldType, RecordedBecomes DEF HistoryInv
<1> QED
  BY <1>1 DEF HistoryInv, GoesOn

\* A new sale has its status for all of its history.
LEMMA InsertGoesOn ==
  ASSUME Inv, HistoryInv, NEW c \in Callers, call[c].stage = "creating", ~Duplicate(c),
         Insert(c), UNCHANGED <<intent, mailed>>
  PROVE  HistoryInv' /\ \A q \in Payments : GoesOn(q)
<1> DEFINE p == call[c].payment
           n == NewSale(call[c].for)
<1>1. TypeOK
  BY DEF Inv
<1>2. /\ p \in Payments /\ sold[p] = << >>
      /\ sold'[p] = Append(sold[p], n)
      /\ \A q \in Payments : q # p => sold'[q] = sold[q]
  BY <1>1, InsertIsSafe, InsertType
<1>3. sold'[p] = <<n>>
  BY <1>2
<1>4. n.status = Last(n.history)
  BY DEF NewSale, Last
<1> HIDE DEF n
<1>5. \A i \in DOMAIN sold'[p] : sold'[p][i] = n
  BY <1>3
<1>6. ASSUME NEW q \in Payments, NEW i \in DOMAIN sold[q]
      PROVE  Becomes(sold[q][i], sold[q][i])
  BY <1>1, SoldType, RecordedBecomes DEF HistoryInv
<1>7. HistoryInv'
  BY <1>2, <1>4, <1>5 DEF HistoryInv
<1>8. ASSUME NEW q \in Payments PROVE GoesOn(q)
  <2>1. CASE q = p
    <3>1. DOMAIN sold[p] = {}
      BY <1>2
    <3> QED
      BY <2>1, <3>1 DEF GoesOn
  <2>2. CASE q # p
    BY <1>2, <1>6, <2>2 DEF GoesOn
  <2> QED
    BY <2>1, <2>2
<1> QED
  BY <1>7, <1>8

LEMMA StepHistories ==
  ASSUME Inv, HistoryInv, [Next]_vars
  PROVE  HistoryInv' /\ \A q \in Payments : GoesOn(q)
<1>0. TypeOK
  BY DEF Inv
<1>1. CASE UNCHANGED sold
  BY <1>0, <1>1, NothingWritten
<1>2. CASE ~UNCHANGED sold
  <2>1. PICK c \in Callers : \/ Create(c) \/ CreateFails(c) \/ RecordEmail(c) \/ SaveStatus(c)
    BY <1>2 DEF Next, vars, Restart, CreateIntent, Pay, Begin, FindExisting, CheckPayment,
                LoseRace, Mail, LoadOrder
  <2>2. CASE Create(c) \/ CreateFails(c)
    BY <1>2, <2>2, InsertGoesOn DEF Create, CreateFails
  <2>3. CASE RecordEmail(c) \/ SaveStatus(c)
    BY <1>0, <1>2, <2>3, RecordEmailGoesOn, SaveStatusGoesOn
  <2> QED
    BY <2>1, <2>2, <2>3
<1> QED
  BY <1>1, <1>2

-----------------------------------------------------------------------------
(* A retry gets the sale.                                                   *)

\* A request that began after the sale finds it, and goes no further.
AfterInv ==
  \A c \in Callers : call[c].stage \in {"looking", "checking", "creating"} /\ call[c].after =>
    /\ call[c].stage = "looking"
    /\ Found(call[c].payment, call[c].for.kind) # {}

\* A sale that was made stays.
LEMMA FoundStays ==
  ASSUME NEW p \in Payments, GoesOn(p), NEW kind
  PROVE  Found(p, kind) \subseteq Found(p, kind)'
BY DEF Found, GoesOn, Becomes

\* A request's step leaves the others as they were.
LEMMA OthersWait ==
  ASSUME TypeOK, NEW c \in Callers,
         \/ Begin(c) \/ FindExisting(c) \/ CheckPayment(c) \/ Create(c) \/ LoseRace(c)
         \/ CreateFails(c) \/ Mail(c) \/ RecordEmail(c) \/ LoadOrder(c) \/ SaveStatus(c)
  PROVE  \A d \in Callers : d # c => call'[d] = call[d]
BY DEF Begin, FindExisting, CheckPayment, Create, LoseRace, CreateFails, Mail,
   RecordEmail, LoadOrder, SaveStatus, Goto, End, TypeOK

LEMMA Going ==
  ASSUME TypeOK, NEW c \in Callers
  PROVE  /\ \A told : End(c, told) => call'[c].stage = "idle" /\ call'[c].told = told
         /\ \A stage : Goto(c, stage) /\ call[c] \in Request =>
              call'[c].stage = stage /\ call'[c].after = call[c].after
<1>1. ASSUME NEW told, End(c, told) PROVE call'[c].stage = "idle" /\ call'[c].told = told
  BY <1>1 DEF End, Done, TypeOK
<1>2. ASSUME NEW stage, Goto(c, stage), call[c] \in Request
      PROVE  call'[c].stage = stage /\ call'[c].after = call[c].after
  <2> DEFINE x == [call[c] EXCEPT !.stage = stage]
  <2>1. x.stage = stage /\ x.after = call[c].after
    BY <1>2 DEF Request
  <2>2. call'[c] = x
    BY <1>2 DEF Goto, TypeOK
  <2> HIDE DEF x
  <2> QED
    BY <2>1, <2>2
<1> QED
  BY <1>1, <1>2

\* Every sale of a payment is the customer's whom it was raised for.
LEMMA FindsItsSale ==
  ASSUME Inv, AfterInv, NEW c \in Callers, FindExisting(c), call[c].after
  PROVE  /\ call'[c].stage = "idle"
         /\ intent[call[c].payment].for = call[c].for => call'[c].told = "sale"
<1> DEFINE p == call[c].payment
           found == Found(p, call[c].for.kind)
<1>1. TypeOK /\ call[c] \in Request /\ p \in Payments /\ found # {}
  BY CallByStage DEF Inv, FindExisting, Paid, Request, AfterInv
<1>2. \A i \in found : i \in DOMAIN sold[p] /\ sold[p][i].for = intent[p].for
  BY <1>1 DEF Inv, SoldAsPaid, Found
<1>3. \/ /\ \E i \in found : sold[p][i].for.customer # call[c].for.customer
         /\ End(c, "refused")
      \/ End(c, "sale")
  BY <1>1 DEF FindExisting
<1> HIDE DEF found
<1>4. intent[p].for = call[c].for => End(c, "sale")
  BY <1>2, <1>3
<1> QED
  BY <1>1, <1>3, <1>4, Going

LEMMA AfterStep ==
  ASSUME Inv, AfterInv, HistoryInv, [Next]_vars
  PROVE  AfterInv'
<1>0. TypeOK /\ \A q \in Payments : GoesOn(q)
  BY StepHistories DEF Inv
<1>1. ASSUME NEW d \in Callers, call'[d] = call[d],
             call[d].stage \in {"looking", "checking", "creating"}, call[d].after
      PROVE  call[d].stage = "looking" /\ Found(call[d].payment, call[d].for.kind)' # {}
  <2>1. call[d].payment \in Payments
    BY <1>0, <1>1, CallByStage DEF Paid, Request
  <2>2. call[d].stage = "looking" /\ Found(call[d].payment, call[d].for.kind) # {}
    BY <1>1 DEF AfterInv
  <2>3. Found(call[d].payment, call[d].for.kind)'
          = {i \in DOMAIN sold'[call[d].payment] :
               sold'[call[d].payment][i].for.kind = call[d].for.kind}
    BY <1>1 DEF Found
  <2>4. \A i \in Found(call[d].payment, call[d].for.kind) :
          /\ i \in DOMAIN sold'[call[d].payment]
          /\ sold'[call[d].payment][i].for.kind = call[d].for.kind
    BY <1>0, <2>1 DEF Found, GoesOn, Becomes
  <2> QED
    BY <2>2, <2>3, <2>4
<1>2. CASE call' = call
  BY <1>1, <1>2 DEF AfterInv
<1>3. CASE Restart
  BY <1>3 DEF Restart, Done, AfterInv
<1>4. ASSUME NEW c \in Callers,
             \/ Begin(c) \/ FindExisting(c) \/ CheckPayment(c) \/ Create(c) \/ LoseRace(c)
             \/ CreateFails(c) \/ Mail(c) \/ RecordEmail(c) \/ LoadOrder(c) \/ SaveStatus(c)
      PROVE  AfterInv'
  <2>1. \A d \in Callers : d # c => call'[d] = call[d]
    BY <1>0, <1>4, OthersWait
  \* It is enough that the request itself is as it should be.
  <2>2. ASSUME call'[c].stage \in {"looking", "checking", "creating"} /\ call'[c].after =>
                 /\ call'[c].stage = "looking"
                 /\ Found(call[c].payment, call[c].for.kind)' # {}
        PROVE  AfterInv'
    BY <1>1, <2>1, <2>2 DEF AfterInv
  <2>3. ASSUME call'[c].stage \notin {"looking", "checking", "creating"}
        PROVE  AfterInv'
    BY <2>2, <2>3
  <2>4. CASE Begin(c)
    <3>1. PICK p \in Payments, g \in Goods :
            call' = [call EXCEPT ![c] = [stage |-> "looking", payment |-> p, for |-> g,
                                         after |-> Found(p, g.kind) # {}]]
      BY <2>4 DEF Begin
    <3>2. /\ call'[c].stage = "looking" /\ call'[c].payment = p /\ call'[c].for = g
          /\ call'[c].after <=> Found(p, g.kind) # {}
      BY <1>0, <3>1 DEF TypeOK
    <3>3. sold' = sold
      BY <2>4 DEF Begin
    <3> QED
      BY <2>2, <3>2, <3>3 DEF Found
  <2>5. CASE FindExisting(c)
    <3>1. call[c] \in Request
      BY <1>0, <2>5, CallByStage DEF FindExisting
    <3>2. CASE call[c].after
      BY <2>3, <2>5, <3>2, FindsItsSale
    <3>3. CASE ~call[c].after
      <4>1. call'[c].stage = "idle" \/ ~call'[c].after
        BY <1>0, <2>5, <3>1, <3>3, Going DEF FindExisting
      <4> QED
        BY <2>2, <4>1
    <3> QED
      BY <3>2, <3>3
  <2>6. CASE CheckPayment(c)
    <3>1. call[c] \in Request /\ ~call[c].after
      BY <1>0, <2>6, CallByStage DEF CheckPayment, AfterInv
    <3>2. call'[c].stage = "idle" \/ ~call'[c].after
      BY <1>0, <2>6, <3>1, Going DEF CheckPayment
    <3> QED
      BY <2>2, <3>2
  <2>7. CASE Create(c) \/ LoseRace(c) \/ CreateFails(c)
    <3>1. call[c] \in Request
      BY <1>0, <2>7, CallByStage DEF Create, LoseRace, CreateFails, Paid
    <3>2. call'[c].stage \in {"mailing", "idle"}
      BY <1>0, <2>7, <3>1, Going DEF Create, LoseRace, CreateFails
    <3> QED
      BY <2>3, <3>2
  <2>8. CASE Mail(c) \/ RecordEmail(c)
    <3>1. call[c] \in Request
      BY <1>0, <2>8, CallByStage DEF Mail, RecordEmail, Paid
    <3>2. call'[c].stage \in {"sent", "failed", "idle"}
      BY <1>0, <2>8, <3>1, Going DEF Mail, RecordEmail
    <3> QED
      BY <2>3, <3>2
  <2>9. CASE LoadOrder(c)
    <3>1. call'[c].stage \in {"idle", "setting"}
      BY <1>0, <2>9 DEF LoadOrder, Done, TypeOK
    <3> QED
      BY <2>3, <3>1
  <2>10. CASE SaveStatus(c)
    <3>1. call'[c].stage = "idle"
      BY <1>0, <2>10, Going DEF SaveStatus
    <3> QED
      BY <2>3, <3>1
  <2> QED
    BY <1>4, <2>4, <2>5, <2>6, <2>7, <2>8, <2>9, <2>10
<1> QED
  BY <1>2, <1>3, <1>4 DEF Next, vars, CreateIntent, Pay

-----------------------------------------------------------------------------
(* The theorems.                                                            *)

\* The inductive invariant: one payment, one sale, and the request that may make it.
THEOREM InvHolds == Spec => []Inv
<1>1. Init => Inv
  BY DEF Init, Inv, TypeOK, Done, Ended, OnePaymentOneSale, SoldAsPaid, Checked, Mailer,
         OneMailer, Paid
<1> QED
  BY <1>1, InvStep, PTL DEF Spec

\* Types, of the code's documents and requests.
THEOREM TypeHolds == Spec => []TypeOK
BY InvHolds, PTL DEF Inv

\* However requests for one payment overlap, fail and are retried, and whatever the prices
\* become, place and purchase make at most one sale of it and send one receipt.
THEOREM OnePaymentOneSaleHolds == Spec => []OnePaymentOneSale
BY InvHolds, PTL DEF Inv

\* And the sale is of what the payment was raised for, at the amount that was paid.
THEOREM SoldAsPaidHolds == Spec => []SoldAsPaid
BY InvHolds, PTL DEF Inv

\* The status of an order is the last of its history, and a retry in progress has its sale
\* to find.
THEOREM HistoriesHold == Spec => [](HistoryInv /\ AfterInv)
<1>1. Init => HistoryInv /\ AfterInv
  BY DEF Init, HistoryInv, AfterInv, Done
<1>2. Inv /\ HistoryInv /\ AfterInv /\ [Next]_vars => (HistoryInv /\ AfterInv)'
  BY StepHistories, AfterStep
<1> QED
  BY <1>1, <1>2, InvHolds, PTL DEF Spec

\* Whichever admins overlap, with each other or with the receipt being recorded, every
\* change stays in the order's history, and the status is the last of them.
THEOREM NoChangeIsEverLost == Spec => NoChangeIsLost
<1> DEFINE Stays == \A p \in Payments : \A i \in DOMAIN sold[p] :
              /\ IsPrefix(sold[p][i].history, sold'[p][i].history)
              /\ sold'[p][i].status = Last(sold'[p][i].history)
<1>1. Inv /\ HistoryInv /\ [Next]_vars => Stays
  BY StepHistories DEF GoesOn, Becomes
<1> HIDE DEF Stays
<1>2. Inv /\ HistoryInv /\ [Next]_vars => [Stays]_vars
  BY <1>1
<1>3. Spec => [][Stays]_vars
  BY <1>2, InvHolds, HistoriesHold, PTL DEF Spec
<1> QED
  BY <1>3 DEF NoChangeIsLost, Stays

\* The customer who made a sale gets it on every retry, at any price and whether or not
\* the provider answers.
THEOREM RetriesGetTheSale == Spec => RetryGetsTheSale
<1> DEFINE Gets == \A c \in Callers :
              /\ call[c].stage \in {"looking", "checking", "creating"} /\ call[c].after
              /\ intent[call[c].payment].for = call[c].for
              /\ call'[c].stage = "idle"
              => call'[c].told \notin {"refused", "error"}
<1>1. Inv /\ AfterInv /\ [Next]_vars => Gets
  <2> SUFFICES ASSUME Inv, AfterInv, [Next]_vars, NEW c \in Callers,
                      call[c].stage \in {"looking", "checking", "creating"}, call[c].after,
                      intent[call[c].payment].for = call[c].for, call'[c].stage = "idle"
               PROVE  call'[c].told \notin {"refused", "error"}
    OBVIOUS
  <2>0. TypeOK /\ call[c].stage = "looking"
    BY DEF Inv, AfterInv
  <2>1. call'[c] # call[c]
    BY <2>0
  <2>2. CASE Restart
    BY <2>2 DEF Restart, Done
  <2>3. ASSUME NEW d \in Callers,
               \/ Begin(d) \/ FindExisting(d) \/ CheckPayment(d) \/ Create(d) \/ LoseRace(d)
               \/ CreateFails(d) \/ Mail(d) \/ RecordEmail(d) \/ LoadOrder(d) \/ SaveStatus(d)
        PROVE  call'[c].told \notin {"refused", "error"}
    <3>1. d = c
      BY <2>0, <2>1, <2>3, OthersWait
    <3>2. FindExisting(c)
      BY <2>0, <2>3, <3>1 DEF Begin, CheckPayment, Create, LoseRace, CreateFails, Mail,
                              RecordEmail, LoadOrder, SaveStatus
    <3> QED
      BY <3>2, FindsItsSale
  <2> QED
    BY <2>1, <2>2, <2>3 DEF Next, vars, CreateIntent, Pay
<1> HIDE DEF Gets
<1>2. Inv /\ AfterInv /\ [Next]_vars => [Gets]_vars
  BY <1>1
<1>3. Spec => [][Gets]_vars
  BY <1>2, InvHolds, HistoriesHold, PTL DEF Spec
<1> QED
  BY <1>3 DEF RetryGetsTheSale, Gets
=============================================================================
