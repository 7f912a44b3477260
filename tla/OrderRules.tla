------------------------------ MODULE OrderRules ------------------------------
(***************************************************************************)
(* One order document and what every handler of OrdersService and          *)
(* BankReviewService does to it, as pure operators: CanX(o) is the check    *)
(* the handler makes on the document it loaded, and X(o) the document it   *)
(* then saves.  OrderLifecycle runs each handler in one step; OrderRequests*)
(* runs it as the separate load, save and alert steps the server takes.    *)
(*                                                                         *)
(* Abstracted: who the customer is, prices, texts and the audit timeline,  *)
(* the mandate's values (bankReview is its state, fieldsFlagged whether     *)
(* any field is named wrong), the lifecycle timestamps that only record a   *)
(* step the status already shows, and the deadline itself (Deadlines).      *)
(***************************************************************************)
EXTENDS Naturals

CONSTANTS
  Suppliers,        \* the supplier records an order can be with
  Nobody,           \* the null supplier reference
  Deadlines,        \* values of dueAt
  NoDeadline,       \* the null dueAt: no window is running
  RoundsBeforeFlag  \* BANK_ROUNDS_BEFORE_FLAG

ASSUME SupplierAssumption == Nobody \notin Suppliers
ASSUME DeadlineAssumption == NoDeadline \notin Deadlines
ASSUME RoundsAssumption == RoundsBeforeFlag \in Nat

-----------------------------------------------------------------------------
(* The document.                                                           *)

Holder == Suppliers \union {Nobody}

OrderStatus == {"unassigned", "awaiting_supplier", "overdue", "invoice_ready",
                "invoice_sent", "cancelled"}

InvoiceStatus == {"pending", "ready", "sent"}

CommunicationMethod == {"whatsapp", "email"}

\* "none": not a Direct Debit order, so it carries no mandate.
BankReviewStatus == {"none", "submitted", "changes_requested", "approved"}

\* "standing" is a flag whose resolvedAt is null; the rest are resolutions.
FlagState == {"none", "standing", "sent_back", "completed", "cancelled", "invoiced"}

V62State == {"none", "requested", "printed"}

\* sendBacks is only ever compared with RoundsBeforeFlag: counting stops above it.
RoundCap == RoundsBeforeFlag + 1

Order == [supplier            : Holder,
          reassignedFrom      : Holder,
          status              : OrderStatus,
          invoiceStatus       : InvoiceStatus,
          invoice             : Holder,      \* the supplier whose user uploaded it
          invoiceEmail        : {"none", "sent", "failed"},
          communicationMethod : CommunicationMethod,
          v62                 : V62State,
          bankReview          : BankReviewStatus,
          fieldsFlagged       : BOOLEAN,     \* bankReview.flagged is not empty
          sendBacks           : 0 .. RoundCap,
          flag                : FlagState,
          dueAt               : Deadlines \union {NoDeadline}]

AlertType == {"supplier_overdue", "v62_submitted", "whatsapp_send_required",
              "whatsapp_requested", "unassigned", "bank_changes_requested",
              "bank_approved", "order_flagged"}

Live(o) == o.status # "cancelled"

Closed(o) == o.status \in {"invoice_sent", "cancelled"}

IsFlagged(o) == o.flag = "standing"

AwaitsInvoice(o) == o.status \in {"awaiting_supplier", "overdue"}

-----------------------------------------------------------------------------
(* The invoice window and the flag.                                        *)

NotOverdue(status) == IF status = "overdue" THEN "awaiting_supplier" ELSE status

PauseWindow(o) == [o EXCEPT !.dueAt = NoDeadline]

\* Mutant: the flag is not asked about.
RestartWindow_EvenFlagged(o, due) == [o EXCEPT !.dueAt = due, !.status = NotOverdue(@)]

\* Not while a flag stands: the admin sending the order back starts the clock.
RestartWindow(o, due) ==
  IF IsFlagged(o) THEN o
  ELSE [o EXCEPT !.dueAt = due, !.status = NotOverdue(@)]

\* The caller has checked that no flag stands.
ApplyFlag(o) ==
  [PauseWindow(o) EXCEPT !.flag = "standing", !.status = NotOverdue(@)]

\* Mutant: a flagged order's clock is taken to be stopped already.
SweepMatches_SkipsFlagged(o) ==
  /\ o.status = "awaiting_supplier" /\ ~IsFlagged(o)
  /\ o.invoiceStatus = "pending"
  /\ o.dueAt # NoDeadline

\* Mutant: the query asks for every order still waiting.
SweepMatches_EvenOverdue(o) ==
  AwaitsInvoice(o) /\ o.invoiceStatus = "pending" /\ o.dueAt # NoDeadline

SweepMatches(o) ==
  /\ o.status = "awaiting_supplier"
  /\ o.invoiceStatus = "pending"
  /\ o.dueAt # NoDeadline

MarkOverdue(o) == [o EXCEPT !.status = "overdue"]

-----------------------------------------------------------------------------
(* placeOrder: h is what routeOrder found for the order's type.             *)

NewOrder(h, channel, review, v62, due) ==
  [supplier            |-> h,
   reassignedFrom      |-> Nobody,
   status              |-> IF h = Nobody THEN "unassigned" ELSE "awaiting_supplier",
   invoiceStatus       |-> "pending",
   invoice             |-> Nobody,
   invoiceEmail        |-> "none",
   communicationMethod |-> channel,
   v62                 |-> v62,
   bankReview          |-> review,
   fieldsFlagged       |-> FALSE,
   sendBacks           |-> 0,
   flag                |-> "none",
   dueAt               |-> IF h = Nobody THEN NoDeadline ELSE due]

-----------------------------------------------------------------------------
(* The supplier's handlers.                                                *)

SignOffMandate(o) == [o EXCEPT !.bankReview = "approved", !.fieldsFlagged = FALSE]

\* Mutant: the mandate is not asked about.
CanAttachInvoice_AnyReview(o) == Live(o) /\ o.invoiceStatus = "pending"

CanAttachInvoice(o) ==
  /\ Live(o)
  /\ o.invoiceStatus = "pending"
  /\ o.bankReview # "changes_requested"

\* Uploading signs a submitted mandate off, stops the clock and answers a flag.
AttachInvoice(o) ==
  LET signed   == IF o.bankReview = "submitted" THEN SignOffMandate(o) ELSE o
      viaAdmin == o.communicationMethod = "whatsapp"
  IN  [signed EXCEPT
         !.invoice       = o.supplier,
         !.dueAt         = NoDeadline,
         !.flag          = IF IsFlagged(o) THEN "invoiced" ELSE @,
         !.invoiceStatus = IF viaAdmin THEN "ready" ELSE "sent",
         !.status        = IF viaAdmin THEN "invoice_ready" ELSE "invoice_sent"]

CanFlag(o) == Live(o) /\ o.invoiceStatus = "pending" /\ ~IsFlagged(o)

\* assertAwaitingReview: the guard of approve and requestChanges.
AwaitsReview(o) ==
  /\ o.bankReview = "submitted"
  /\ Live(o)
  /\ o.invoiceStatus # "sent"

Approve(o, due) ==
  LET signed == SignOffMandate(o)
  IN  IF o.invoiceStatus = "pending" /\ o.dueAt = NoDeadline
      THEN RestartWindow(signed, due) ELSE signed

Escalates(o) == o.sendBacks + 1 > RoundsBeforeFlag /\ ~IsFlagged(o)

RequestChanges(o) ==
  LET returned == [PauseWindow(o) EXCEPT
                     !.bankReview    = "changes_requested",
                     !.fieldsFlagged = TRUE,
                     !.sendBacks     = IF @ < RoundCap THEN @ + 1 ELSE @]
  IN  IF Escalates(o) THEN ApplyFlag(returned) ELSE returned

-----------------------------------------------------------------------------
(* The customer's handler.                                                 *)

\* Mutant: an order already delivered can still take a corrected mandate.
CanResubmit_EvenSent(o) == o.bankReview = "changes_requested" /\ Live(o)

CanResubmit(o) ==
  /\ o.bankReview = "changes_requested"
  /\ Live(o)
  /\ o.invoiceStatus # "sent"

Resubmit(o, due) ==
  LET back == [o EXCEPT !.bankReview = "submitted", !.fieldsFlagged = FALSE]
  IN  IF o.invoiceStatus = "pending" THEN RestartWindow(back, due) ELSE back

-----------------------------------------------------------------------------
(* The admin's handlers.                                                   *)

CanMarkSent(o) ==
  /\ Live(o)
  /\ o.communicationMethod = "whatsapp"
  /\ o.invoiceStatus = "ready"

MarkSent(o) == [o EXCEPT !.invoiceStatus = "sent", !.status = "invoice_sent"]

CanReassign(o, target) ==
  /\ Live(o)
  /\ o.invoiceStatus = "pending"
  /\ target # o.supplier

Reassign(o, target, due) ==
  [o EXCEPT !.reassignedFrom = o.supplier,
            !.supplier       = target,
            !.dueAt          = due,
            !.status         = "awaiting_supplier"]

\* assertFlagged: the guard of the three answers to a flag.
CanAnswerFlag(o) == Live(o) /\ IsFlagged(o)

\* The window restarts unless the mandate is with the customer.
SendBackRestarts(o) == o.bankReview # "changes_requested"

\* Mutant: the flag is answered and the clock left stopped.
SendBack_NeverRestarts(o, due) == [o EXCEPT !.flag = "sent_back"]

SendBack(o, due) ==
  LET answered == [o EXCEPT !.flag = "sent_back"]
  IN  IF SendBackRestarts(o) THEN RestartWindow(answered, due) ELSE answered

\* Mutant: the invoice's own status is forgotten.
Complete_ForgetsInvoice(o) ==
  [o EXCEPT !.flag = "completed", !.status = "invoice_sent", !.dueAt = NoDeadline]

Complete(o) ==
  [o EXCEPT !.flag = "completed", !.invoiceStatus = "sent",
            !.status = "invoice_sent", !.dueAt = NoDeadline]

Cancel(o) ==
  [o EXCEPT !.flag = "cancelled", !.status = "cancelled", !.dueAt = NoDeadline]

\* No assertLive, and a form already printed can be marked again.
CanMarkV62Printed(o) == o.v62 # "none"

MarkV62Printed(o) == [o EXCEPT !.v62 = "printed"]

CanResendInvoiceEmail(o) == o.communicationMethod = "email" /\ o.invoice # Nobody

-----------------------------------------------------------------------------
(* The alerts each handler leaves standing, a being those standing before.  *)

PlacedAlerts(o) ==
  (IF o.supplier = Nobody THEN {"unassigned"} ELSE {})
    \union (IF o.v62 # "none" THEN {"v62_submitted"} ELSE {})
    \union (IF o.communicationMethod = "whatsapp" THEN {"whatsapp_requested"} ELSE {})

AttachInvoiceAlerts(o, a) ==
  (IF IsFlagged(o) THEN a \ {"order_flagged"} ELSE a)
    \union (IF o.bankReview = "submitted" THEN {"bank_approved"} ELSE {})
    \union (IF o.communicationMethod = "whatsapp" THEN {"whatsapp_send_required"} ELSE {})

\* announceFlag.
FlagAlerts(a) == (a \union {"order_flagged"}) \ {"supplier_overdue"}

ApproveAlerts(a) == a \union {"bank_approved"}

RequestChangesAlerts(o, a) ==
  LET told == a \union {"bank_changes_requested"}
  IN  IF Escalates(o) THEN FlagAlerts(told) ELSE told

ResubmitAlerts(a) == a \ {"bank_changes_requested"}

MarkSentAlerts(a) == a \ {"whatsapp_send_required"}

\* Mutant: the order is taken to have been late, never unassigned.
ReassignAlerts_OnlyOverdue(a) == a \ {"supplier_overdue"}

ReassignAlerts(a) == a \ {"supplier_overdue", "unassigned"}

SendBackAlerts(o, a) ==
  (a \ {"order_flagged"}) \ (IF SendBackRestarts(o) THEN {"supplier_overdue"} ELSE {})

MarkV62PrintedAlerts(a) == a \ {"v62_submitted"}

OverdueAlerts(a) == a \union {"supplier_overdue"}
=============================================================================
