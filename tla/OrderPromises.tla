---------------------------- MODULE OrderPromises ----------------------------
(***************************************************************************)
(* What one stored order, and one order with its alerts, promise the        *)
(* people working on it.  The comments name the line of the code that says  *)
(* so, or the screens that rely on it.                                      *)
(***************************************************************************)
EXTENDS OrderRules

\* status and invoiceStatus tell one story ("a record never contradicts its own
\* history", order.enum.ts): the two move together through every handler.
StatusesAgree(o) ==
  /\ o.status = "invoice_ready" <=> o.invoiceStatus = "ready"
  /\ o.status = "invoice_sent" <=> o.invoiceStatus = "sent"
  /\ o.status = "unassigned" <=> o.supplier = Nobody
  /\ o.invoiceStatus = "ready" => o.communicationMethod = "whatsapp"

\* "flagged" always means "still waiting on its invoice" (OrdersService.flag).
FlagAwaitsInvoice(o) ==
  IsFlagged(o) => AwaitsInvoice(o) /\ o.invoiceStatus = "pending"

\* An order waiting on its invoice is in somebody's hands: the supplier's, with a
\* window that can lapse; an admin's, by a flag; or the customer's, by a mandate to
\* correct.  Otherwise no sweep, alert or screen would bring it up again.
NeverParked(o) ==
  AwaitsInvoice(o) /\ o.dueAt = NoDeadline
    => IsFlagged(o) \/ o.bankReview = "changes_requested"

\* A window runs only on an order that waits on its invoice (cancel: "No window
\* left to run, and the overdue sweep must not pick it up").
WindowAwaitsInvoice(o) == o.dueAt # NoDeadline => AwaitsInvoice(o)

\* An invoice is only ever on file against a mandate that is signed off, and came
\* from the supplier that holds the order (attachInvoice, findScoped, reassign).
InvoiceIsEarned(o) ==
  o.invoice # Nobody =>
    /\ o.bankReview \in {"none", "approved"}
    /\ o.invoice = o.supplier
    /\ o.invoiceStatus # "pending"

\* Only an admin completing a flagged order lets it count as done uninvoiced.
DoneMeansInvoiced(o) ==
  o.invoiceStatus # "pending" => (o.invoice = Nobody <=> o.flag = "completed")

\* bankReview.flagged: "The fields still to fix. Empty once approved."
FieldsMatchReview(o) == o.fieldsFlagged <=> o.bankReview = "changes_requested"

\* Only the supplier holding an order sends its mandate back, and no order loses its
\* supplier again.
SentBackBySupplier(o) == o.bankReview = "changes_requested" => o.supplier # Nobody

\* Past BANK_ROUNDS_BEFORE_FLAG send-backs an admin has been shown the order.
EscalationReached(o) == o.sendBacks > RoundsBeforeFlag => o.flag # "none"

\* A flag or a mandate with the customer stops the clock; only a reassignment,
\* which asks about neither, starts it again.
ClockRunsOnlyReassigned(o) ==
  /\ o.dueAt # NoDeadline
  /\ IsFlagged(o) \/ o.bankReview = "changes_requested"
  => o.reassignedFrom # Nobody

\* An answered-by-the-admin order stays as the answer left it.
AnswerStands(o) ==
  /\ o.status = "cancelled" <=> o.flag = "cancelled"
  /\ o.flag = "completed" => o.status = "invoice_sent"

\* What an admin or customer has to act on is on their list, and what is on the
\* list is still there to act on (notifications.service: raise, resolve).
AlertsMatch(o, a) ==
  /\ "unassigned" \in a <=> o.status = "unassigned"
  /\ "order_flagged" \in a <=> IsFlagged(o)
  /\ "whatsapp_send_required" \in a <=> o.status = "invoice_ready"
  /\ "bank_changes_requested" \in a
       <=> o.bankReview = "changes_requested" /\ ~Closed(o)
  /\ "v62_submitted" \in a
       <=> o.v62 = "requested" /\ o.flag \notin {"completed", "cancelled"}
  /\ o.status = "overdue" => "supplier_overdue" \in a
=============================================================================
