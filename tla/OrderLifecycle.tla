---------------------------- MODULE OrderLifecycle ----------------------------
(***************************************************************************)
(* The life of orders when the requests on one order do not overlap: each  *)
(* handler loads, checks, saves and settles its alerts in one step.  What   *)
(* stays asynchronous here is what the code itself leaves running: the      *)
(* passing of a window, the overdue sweep and the invoice email, which is   *)
(* sent after the upload has been answered.                                 *)
(***************************************************************************)
EXTENDS OrderPromises

CONSTANTS OrderIds, Absent

ASSUME AbsentAssumption == Absent \notin Order

\* dueAt in the future and dueAt reached: all the sweep's query tells apart.
ASSUME PhaseAssumption == Deadlines = {"running", "lapsed"}

VARIABLES
  orders,   \* the orders collection: a document, or Absent before placeOrder
  alerts,   \* the notifications collection: unique by (order, type)
  mailing   \* emailInvoice calls still running, their outcome not yet written down

vars == <<orders, alerts, mailing>>

Placed(id) == orders[id] # Absent

\* Every supplier handler is scoped to the supplier that holds the order.
Held(id) == Placed(id) /\ orders[id].supplier \in Suppliers

Init ==
  /\ orders  = [id \in OrderIds |-> Absent]
  /\ alerts  = [id \in OrderIds |-> {}]
  /\ mailing = [id \in OrderIds |-> {}]

Store(id, o, a) ==
  /\ orders' = [orders EXCEPT ![id] = o]
  /\ alerts' = [alerts EXCEPT ![id] = a]

-----------------------------------------------------------------------------
(* The customer.                                                           *)

PlaceOrder(id) ==
  /\ ~Placed(id)
  /\ \E h \in Holder, channel \in CommunicationMethod,
        review \in {"none", "submitted"}, v62 \in {"none", "requested"} :
       LET o == NewOrder(h, channel, review, v62, "running")
       IN  Store(id, o, PlacedAlerts(o))
  /\ UNCHANGED mailing

ResubmitBank(id) ==
  LET o == orders[id]
  IN  /\ Placed(id) /\ CanResubmit(o)
      /\ Store(id, Resubmit(o, "running"), ResubmitAlerts(alerts[id]))
      /\ UNCHANGED mailing

-----------------------------------------------------------------------------
(* The supplier holding the order.                                         *)

UploadInvoice(id) ==
  LET o == orders[id]
  IN  /\ Held(id) /\ CanAttachInvoice(o)
      /\ Store(id, AttachInvoice(o), AttachInvoiceAlerts(o, alerts[id]))
      /\ mailing' = [mailing EXCEPT ![id] =
                       IF o.communicationMethod = "email" THEN @ \union {"upload"} ELSE @]

FlagOrder(id) ==
  LET o == orders[id]
  IN  /\ Held(id) /\ CanFlag(o)
      /\ Store(id, ApplyFlag(o), FlagAlerts(alerts[id]))
      /\ UNCHANGED mailing

ApproveBank(id) ==
  LET o == orders[id]
  IN  /\ Held(id) /\ AwaitsReview(o)
      /\ Store(id, Approve(o, "running"), ApproveAlerts(alerts[id]))
      /\ UNCHANGED mailing

RequestBankChanges(id) ==
  LET o == orders[id]
  IN  /\ Held(id) /\ AwaitsReview(o)
      /\ Store(id, RequestChanges(o), RequestChangesAlerts(o, alerts[id]))
      /\ UNCHANGED mailing

-----------------------------------------------------------------------------
(* An admin.                                                               *)

SendWhatsapp(id) ==
  LET o == orders[id]
  IN  /\ Placed(id) /\ CanMarkSent(o)
      /\ Store(id, MarkSent(o), MarkSentAlerts(alerts[id]))
      /\ UNCHANGED mailing

ReassignOrder(id) ==
  LET o == orders[id]
  IN  /\ Placed(id)
      /\ \E target \in Suppliers :
           /\ CanReassign(o, target)
           /\ Store(id, Reassign(o, target, "running"), ReassignAlerts(alerts[id]))
      /\ UNCHANGED mailing

SendOrderBack(id) ==
  LET o == orders[id]
  IN  /\ Placed(id) /\ CanAnswerFlag(o)
      /\ Store(id, SendBack(o, "running"), SendBackAlerts(o, alerts[id]))
      /\ UNCHANGED mailing

CompleteOrder(id) ==
  LET o == orders[id]
  IN  /\ Placed(id) /\ CanAnswerFlag(o)
      /\ Store(id, Complete(o), {})
      /\ UNCHANGED mailing

CancelOrder(id) ==
  LET o == orders[id]
  IN  /\ Placed(id) /\ CanAnswerFlag(o)
      /\ Store(id, Cancel(o), {})
      /\ UNCHANGED mailing

PrintV62(id) ==
  LET o == orders[id]
  IN  /\ Placed(id) /\ CanMarkV62Printed(o)
      /\ Store(id, MarkV62Printed(o), MarkV62PrintedAlerts(alerts[id]))
      /\ UNCHANGED mailing

ResendInvoice(id) ==
  /\ Placed(id) /\ CanResendInvoiceEmail(orders[id])
  /\ mailing' = [mailing EXCEPT ![id] = @ \union {"resend"}]
  /\ UNCHANGED <<orders, alerts>>

-----------------------------------------------------------------------------
(* The server on its own.                                                  *)

\* Mutant: only a delivery is written down.
RecordEmail_OnlySuccess(id) ==
  \E call \in mailing[id], outcome \in {"sent", "failed"} :
    /\ orders'  = IF outcome = "sent" THEN [orders EXCEPT ![id].invoiceEmail = outcome]
                  ELSE orders
    /\ mailing' = [mailing EXCEPT ![id] = @ \ {call}]
    /\ UNCHANGED alerts

\* One emailInvoice call ends: a single atomic update records its outcome.
RecordEmail(id) ==
  \E call \in mailing[id], outcome \in {"sent", "failed"} :
    /\ orders'  = [orders EXCEPT ![id].invoiceEmail = outcome]
    /\ mailing' = [mailing EXCEPT ![id] = @ \ {call}]
    /\ UNCHANGED alerts

\* The update itself fails: the call logs that and ends, and no outcome is kept.
LoseRecord(id) ==
  \E call \in mailing[id] :
    /\ mailing' = [mailing EXCEPT ![id] = @ \ {call}]
    /\ UNCHANGED <<orders, alerts>>

WindowLapses(id) ==
  /\ Placed(id) /\ orders[id].dueAt = "running"
  /\ orders' = [orders EXCEPT ![id].dueAt = "lapsed"]
  /\ UNCHANGED <<alerts, mailing>>

Due(id) == Placed(id) /\ SweepMatches(orders[id]) /\ orders[id].dueAt = "lapsed"

\* One pass over every order that is due.
SweepOverdue ==
  /\ \E id \in OrderIds : Due(id)
  /\ orders' = [id \in OrderIds |-> IF Due(id) THEN MarkOverdue(orders[id]) ELSE orders[id]]
  /\ alerts' = [id \in OrderIds |-> IF Due(id) THEN OverdueAlerts(alerts[id]) ELSE alerts[id]]
  /\ UNCHANGED mailing

\* Every step but a refused write.
Handled ==
  \/ SweepOverdue
  \/ \E id \in OrderIds :
       \/ PlaceOrder(id)    \/ ResubmitBank(id)
       \/ UploadInvoice(id) \/ FlagOrder(id)     \/ ApproveBank(id) \/ RequestBankChanges(id)
       \/ SendWhatsapp(id)  \/ ReassignOrder(id) \/ SendOrderBack(id)
       \/ CompleteOrder(id) \/ CancelOrder(id)   \/ PrintV62(id)    \/ ResendInvoice(id)
       \/ RecordEmail(id)   \/ WindowLapses(id)

Next == Handled \/ \E id \in OrderIds : LoseRecord(id)

Spec == Init /\ [][Next]_vars

\* The cron fires every 30 seconds, and the mail transport has a timeout, so that a
\* call ends, one way or the other; the people, and the passing of a window, are
\* under no obligation.
Fairness ==
  /\ WF_vars(SweepOverdue)
  /\ \A id \in OrderIds : WF_vars(RecordEmail(id) \/ LoseRecord(id))

-----------------------------------------------------------------------------
(* Properties.                                                             *)

TypeOK ==
  /\ orders \in [OrderIds -> Order \union {Absent}]
  /\ alerts \in [OrderIds -> SUBSET AlertType]
  /\ mailing \in [OrderIds -> SUBSET {"upload", "resend"}]
  /\ \A id \in OrderIds : mailing[id] # {} => Placed(id)

\* Every stored order tells one story in all its fields.
OrdersConsistent ==
  \A id \in OrderIds : Placed(id) =>
    /\ StatusesAgree(orders[id])
    /\ AnswerStands(orders[id])
    /\ DoneMeansInvoiced(orders[id])

\* No open order is left in nobody's hands.
NoOrderParked == \A id \in OrderIds : Placed(id) => NeverParked(orders[id])

\* A flag stands only while the invoice is awaited, and so does a window.
FlagsAndWindowsAwaitInvoice ==
  \A id \in OrderIds : Placed(id) =>
    /\ FlagAwaitsInvoice(orders[id])
    /\ WindowAwaitsInvoice(orders[id])

\* An invoice on file stands on a signed-off mandate and is the holder's own.
InvoicesAreEarned == \A id \in OrderIds : Placed(id) => InvoiceIsEarned(orders[id])

\* The review loop: named fields are with the customer, long loops with an admin.
ReviewLoopSound ==
  \A id \in OrderIds : Placed(id) =>
    /\ FieldsMatchReview(orders[id])
    /\ SentBackBySupplier(orders[id])
    /\ EscalationReached(orders[id])

\* Only a reassignment runs the clock on somebody who cannot upload.
ClockStoppedUnlessReassigned ==
  \A id \in OrderIds : Placed(id) => ClockRunsOnlyReassigned(orders[id])

\* Everything to act on is alerted, and every alert but the overdue one is current.
AlertsTrackOrders ==
  \A id \in OrderIds :
    IF Placed(id) THEN AlertsMatch(orders[id], alerts[id]) ELSE alerts[id] = {}

\* invoice_sent and cancelled are terminal (order.enum.ts): after that an order only
\* has its V62 printed and the outcome of an email written down.
ClosedIsTerminal ==
  [][\A id \in OrderIds : Placed(id) /\ Closed(orders[id]) =>
       orders'[id] = [orders[id] EXCEPT !.v62          = orders'[id].v62,
                                        !.invoiceEmail = orders'[id].invoiceEmail]]_orders

\* The inductive invariant: the type and the parts above.
Inv ==
  /\ TypeOK
  /\ OrdersConsistent
  /\ NoOrderParked
  /\ FlagsAndWindowsAwaitInvoice
  /\ InvoicesAreEarned
  /\ ReviewLoopSound
  /\ ClockStoppedUnlessReassigned
  /\ AlertsTrackOrders

LapsedUnanswered(id) ==
  Placed(id) /\ orders[id].status = "awaiting_supplier" /\ orders[id].dueAt = "lapsed"

\* A window that lapses on an order awaiting its invoice is acted on: swept, or
\* closed, paused or restarted by somebody first.
LapsedWindowIsActedOn == \A id \in OrderIds : LapsedUnanswered(id) ~> ~LapsedUnanswered(id)

OwedByEmail(id) ==
  /\ Placed(id)
  /\ orders[id].communicationMethod = "email"
  /\ orders[id].invoice # Nobody
  /\ orders[id].invoiceEmail = "none"
=============================================================================
