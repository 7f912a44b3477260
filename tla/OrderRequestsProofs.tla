-------------------------- MODULE OrderRequestsProofs --------------------------
(***************************************************************************)
(* However many requests overlap, with one another and with the sweep: a    *)
(* window's lapse is announced once, an order keeps having a supplier, and  *)
(* the review loop remembers what it has sent back.  And run one at a time, *)
(* any number of workers, suppliers and windows implement OrderLifecycle.   *)
(*                                                                         *)
(* What a request decides on the copy it loads is a Decision, one disjunct  *)
(* for each handler.  DecisionFacts says what no handler ever decides, and  *)
(* the invariants of overlapping requests rest on that and on what a save   *)
(* writes (Merged).  The refinement has a lemma for each handler instead:   *)
(* its document, as of the phase of its window, is the one-step handler's,  *)
(* and its calls, made one by one, come to the one-step handler's alerts.   *)
(***************************************************************************)
EXTENDS OrderRefinement, FiniteSetTheorems, SequenceTheorems, TLAPS

\* One handler's decision on o: the document x to save and the calls to make after it,
\* a fresh window ending at due.
Decision(o, x, steps, due) ==
  \/ /\ o.supplier \in Suppliers /\ CanAttachInvoice(o)
     /\ x = AttachInvoice(o) /\ steps = UploadSteps(o)
  \/ /\ o.supplier \in Suppliers /\ CanFlag(o)
     /\ x = ApplyFlag(o) /\ steps = AnnounceFlag
  \/ /\ o.supplier \in Suppliers /\ AwaitsReview(o)
     /\ x = Approve(o, due) /\ steps = <<Raise("bank_approved")>>
  \/ /\ o.supplier \in Suppliers /\ AwaitsReview(o)
     /\ x = RequestChanges(o) /\ steps = RequestChangesSteps(o)
  \/ /\ CanResubmit(o)
     /\ x = Resubmit(o, due) /\ steps = <<Resolve("bank_changes_requested")>>
  \/ /\ CanMarkSent(o)
     /\ x = MarkSent(o) /\ steps = <<Resolve("whatsapp_send_required")>>
  \/ \E target \in Suppliers :
       /\ CanReassign(o, target)
       /\ x = Reassign(o, target, due)
       /\ steps = <<Resolve("supplier_overdue"), Resolve("unassigned")>>
  \/ /\ CanAnswerFlag(o)
     /\ x = SendBack(o, due) /\ steps = SendBackSteps(o)
  \/ CanAnswerFlag(o) /\ x = Complete(o) /\ steps = <<ClearAll>>
  \/ CanAnswerFlag(o) /\ x = Cancel(o) /\ steps = <<ClearAll>>
  \/ /\ CanMarkV62Printed(o)
     /\ x = MarkV62Printed(o) /\ steps = <<Resolve("v62_submitted")>>

\* The actions that load.
Loads(w) ==
  \/ UploadInvoice(w) \/ FlagOrder(w) \/ ApproveBank(w) \/ RequestBankChanges(w)
  \/ ResubmitBank(w) \/ SendWhatsapp(w) \/ ReassignOrder(w) \/ SendOrderBack(w)
  \/ CompleteOrder(w) \/ CancelOrder(w) \/ PrintV62(w)

\* Loading an order decides on it.
LEMMA LoadDecides ==
  ASSUME NEW w \in Workers, Loads(w)
  PROVE  /\ order # Absent
         /\ \E x, steps : Decision(order, x, steps, FreshDue) /\ Load(w, x, steps)
<1>1. CASE UploadInvoice(w)
  BY <1>1 DEF UploadInvoice, Held, Exists, Decision
<1>2. CASE FlagOrder(w)
  BY <1>2 DEF FlagOrder, Held, Exists, Decision
<1>3. CASE ApproveBank(w)
  BY <1>3 DEF ApproveBank, Held, Exists, Decision
<1>4. CASE RequestBankChanges(w)
  BY <1>4 DEF RequestBankChanges, Held, Exists, Decision
<1>5. CASE ResubmitBank(w)
  BY <1>5 DEF ResubmitBank, Exists, Decision
<1>6. CASE SendWhatsapp(w)
  BY <1>6 DEF SendWhatsapp, Exists, Decision
<1>7. CASE ReassignOrder(w)
  BY <1>7 DEF ReassignOrder, Exists, Decision
<1>8. CASE SendOrderBack(w)
  BY <1>8 DEF SendOrderBack, Exists, Decision
<1>9. CASE CompleteOrder(w)
  BY <1>9 DEF CompleteOrder, Exists, Decision
<1>10. CASE CancelOrder(w)
  BY <1>10 DEF CancelOrder, Exists, Decision
<1>11. CASE PrintV62(w)
  BY <1>11 DEF PrintV62, Exists, Decision
<1> QED
  BY <1>1, <1>2, <1>3, <1>4, <1>5, <1>6, <1>7, <1>8, <1>9, <1>10, <1>11 DEF Loads

\* What the review loop says of a document (LoopSurvivesOverlap, and its converse for a
\* mandate not yet looked at).
LoopSound(o) ==
  /\ EscalationReached(o)
  /\ o.bankReview = "changes_requested" => o.fieldsFlagged
  /\ o.bankReview = "submitted" => ~o.fieldsFlagged

\* What every decision on o has in common, whichever handler makes it.
Decided(o, x, due) ==
  /\ x \in Order
  /\ x.dueAt \in {o.dueAt, NoDeadline, due}
  /\ x.status = "awaiting_supplier" /\ o.status # "awaiting_supplier"
       => x.dueAt \in {NoDeadline, due}
  /\ x.status # o.status => x.status # "unassigned"
  /\ x.supplier # o.supplier => x.supplier \in Suppliers /\ x.status = "awaiting_supplier"
  /\ x.flag # o.flag => x.flag # "none"
  /\ x.fieldsFlagged = o.fieldsFlagged
       => x.bankReview \in {o.bankReview, "approved"} /\ x.sendBacks = o.sendBacks
  /\ x.sendBacks # o.sendBacks =>
       x.sendBacks = IF o.sendBacks < RoundCap THEN o.sendBacks + 1 ELSE RoundCap
  /\ LoopSound(x)

-----------------------------------------------------------------------------
(* Every decision is a Decided one.                                         *)

\* An order whose window may be any: a decision is well formed before it is known that
\* its window is one of the bounded number.
UnboundedOrder ==
  [supplier : Holder, reassignedFrom : Holder, status : OrderStatus,
   invoiceStatus : InvoiceStatus, invoice : Holder, invoiceEmail : {"none", "sent", "failed"},
   communicationMethod : CommunicationMethod, v62 : V62State, bankReview : BankReviewStatus,
   fieldsFlagged : BOOLEAN, sendBacks : 0 .. RoundCap, flag : FlagState, dueAt : Nat]

\* The bound on the windows is all that tells Order from the documents there could be.
LEMMA Bounded ==
  /\ Order \subseteq UnboundedOrder
  /\ \A x \in UnboundedOrder : x.dueAt <= MaxWindows => x \in Order
<1>1. Order \subseteq UnboundedOrder
  BY WindowAssumption DEF Order, UnboundedOrder
<1>2. ASSUME NEW x \in UnboundedOrder, x.dueAt <= MaxWindows
      PROVE  x \in Order
  BY <1>2, WindowAssumption DEF Order, UnboundedOrder
<1> QED
  BY <1>1, <1>2

\* The helpers the handlers share keep an order well formed.
LEMMA HelpersKeepType ==
  ASSUME NEW o \in UnboundedOrder
  PROVE  /\ \A due \in Nat : RestartWindow(o, due) \in UnboundedOrder
         /\ PauseWindow(o) \in UnboundedOrder
         /\ ApplyFlag(o) \in UnboundedOrder
         /\ SignOffMandate(o) \in UnboundedOrder
<1>1. \A due \in Nat : RestartWindow(o, due) \in UnboundedOrder
  BY DEF RestartWindow, NotOverdue, UnboundedOrder, OrderStatus
<1>2. PauseWindow(o) \in UnboundedOrder
  BY WindowAssumption DEF PauseWindow, UnboundedOrder
<1>3. ApplyFlag(o) \in UnboundedOrder
  BY WindowAssumption
  DEF ApplyFlag, PauseWindow, NotOverdue, UnboundedOrder, OrderStatus, FlagState
<1>4. SignOffMandate(o) \in UnboundedOrder
  BY DEF SignOffMandate, UnboundedOrder, BankReviewStatus
<1> QED
  BY <1>1, <1>2, <1>3, <1>4

\* attachInvoice.
LEMMA AttachInvoiceDecided ==
  ASSUME NEW o \in Order, NEW due \in Nat, LoopSound(o), CanAttachInvoice(o),
         AttachInvoice(o).dueAt <= MaxWindows
  PROVE  Decided(o, AttachInvoice(o), due)
<1> DEFINE x        == AttachInvoice(o)
           signed   == IF o.bankReview = "submitted" THEN SignOffMandate(o) ELSE o
           viaAdmin == o.communicationMethod = "whatsapp"
           stopped  == [signed EXCEPT !.invoice = o.supplier, !.dueAt = NoDeadline,
                                      !.flag = IF IsFlagged(o) THEN "invoiced" ELSE @]
<1>1. signed \in UnboundedOrder
  BY Bounded, HelpersKeepType
<1> HIDE DEF signed
<1>2. stopped \in UnboundedOrder
  <2>1. o.supplier \in Holder
    BY DEF Order
  <2> QED
    BY <1>1, <2>1, WindowAssumption DEF UnboundedOrder, FlagState
<1> HIDE DEF stopped
<1>3. [stopped EXCEPT !.invoiceStatus = IF viaAdmin THEN "ready" ELSE "sent",
                      !.status = IF viaAdmin THEN "invoice_ready" ELSE "invoice_sent"]
        \in UnboundedOrder
  BY <1>2 DEF UnboundedOrder, InvoiceStatus, OrderStatus
<1>4. x \in Order
  BY <1>3, Bounded DEF AttachInvoice, signed, stopped
<1> QED
  BY <1>4
  DEF Decided, LoopSound, EscalationReached, AttachInvoice, SignOffMandate, IsFlagged,
      CanAttachInvoice, Order

\* flag.
LEMMA ApplyFlagDecided ==
  ASSUME NEW o \in Order, NEW due \in Nat, LoopSound(o), CanFlag(o)
  PROVE  Decided(o, ApplyFlag(o), due)
<1>1. ApplyFlag(o) \in Order
  <2>1. ApplyFlag(o).dueAt = NoDeadline
    BY DEF ApplyFlag, PauseWindow, Order
  <2> QED
    BY <2>1, Bounded, HelpersKeepType, WindowAssumption
<1> QED
  BY <1>1
  DEF Decided, LoopSound, EscalationReached, ApplyFlag, PauseWindow, NotOverdue, Order

\* approve.
LEMMA ApproveDecided ==
  ASSUME NEW o \in Order, NEW due \in Nat, LoopSound(o), AwaitsReview(o),
         Approve(o, due).dueAt <= MaxWindows
  PROVE  Decided(o, Approve(o, due), due)
<1>1. Approve(o, due) \in Order
  BY Bounded, HelpersKeepType DEF Approve
<1> QED
  BY <1>1
  DEF Decided, LoopSound, EscalationReached, Approve, SignOffMandate, RestartWindow,
      NotOverdue, IsFlagged, AwaitsReview, Order

\* requestChanges, with or without its escalation.
LEMMA RequestChangesDecided ==
  ASSUME NEW o \in Order, NEW due \in Nat, LoopSound(o), AwaitsReview(o)
  PROVE  Decided(o, RequestChanges(o), due)
<1> DEFINE x        == RequestChanges(o)
           paused   == PauseWindow(o)
           reviewed == [paused EXCEPT !.bankReview = "changes_requested",
                                      !.fieldsFlagged = TRUE]
           returned == [reviewed EXCEPT
                          !.sendBacks = IF @ < RoundCap THEN @ + 1 ELSE @]
<1>1. paused \in UnboundedOrder
  BY Bounded, HelpersKeepType
<1> HIDE DEF paused
<1>2. reviewed \in UnboundedOrder
  BY <1>1 DEF UnboundedOrder, BankReviewStatus
<1> HIDE DEF reviewed
<1>3. returned \in UnboundedOrder
  BY <1>2, RoundsAssumption DEF UnboundedOrder, RoundCap
<1>4. ApplyFlag(returned) \in UnboundedOrder
  BY <1>3, HelpersKeepType
<1>5. x = IF Escalates(o) THEN ApplyFlag(returned) ELSE returned
  BY DEF RequestChanges, paused, reviewed
<1> USE DEF paused, reviewed
<1>6. x.dueAt = NoDeadline /\ x \in UnboundedOrder
  BY <1>3, <1>4, <1>5, Bounded DEF ApplyFlag, PauseWindow, Order
<1>7. x \in Order
  BY <1>6, Bounded, WindowAssumption
<1>8. o.sendBacks \in Nat /\ RoundCap = RoundsBeforeFlag + 1 /\ o.sendBacks <= RoundCap
  BY RoundsAssumption DEF Order, RoundCap
<1>9. /\ x.sendBacks = IF o.sendBacks < RoundCap THEN o.sendBacks + 1 ELSE o.sendBacks
      /\ x.bankReview = "changes_requested" /\ x.fieldsFlagged = TRUE
      /\ x.supplier = o.supplier
      /\ x.flag = IF Escalates(o) THEN "standing" ELSE o.flag
      /\ x.status = IF Escalates(o) THEN NotOverdue(o.status) ELSE o.status
  BY <1>5 DEF ApplyFlag, PauseWindow, Order
<1>10. ~o.fieldsFlagged
  BY DEF LoopSound, AwaitsReview
<1>11. EscalationReached(x)
  BY <1>8, <1>9, RoundsAssumption DEF EscalationReached, Escalates, IsFlagged, LoopSound
<1> HIDE DEF x
<1>12. x.sendBacks # o.sendBacks =>
         x.sendBacks = IF o.sendBacks < RoundCap THEN o.sendBacks + 1 ELSE RoundCap
  BY <1>8, <1>9
<1> QED
  BY <1>6, <1>7, <1>9, <1>10, <1>11, <1>12 DEF Decided, LoopSound, NotOverdue, x

\* resubmit.
LEMMA ResubmitDecided ==
  ASSUME NEW o \in Order, NEW due \in Nat, LoopSound(o), CanResubmit(o),
         Resubmit(o, due).dueAt <= MaxWindows
  PROVE  Decided(o, Resubmit(o, due), due)
<1> DEFINE back == [o EXCEPT !.bankReview = "submitted", !.fieldsFlagged = FALSE]
<1>1. back \in UnboundedOrder
  BY Bounded DEF UnboundedOrder, BankReviewStatus
<1>2. Resubmit(o, due) \in Order
  BY <1>1, Bounded, HelpersKeepType DEF Resubmit
<1> QED
  BY <1>2
  DEF Decided, LoopSound, EscalationReached, Resubmit, RestartWindow, NotOverdue,
      IsFlagged, CanResubmit, Order

\* markSent.
LEMMA MarkSentDecided ==
  ASSUME NEW o \in Order, NEW due \in Nat, LoopSound(o), CanMarkSent(o)
  PROVE  Decided(o, MarkSent(o), due)
<1>1. MarkSent(o) \in Order
  BY DEF MarkSent, Order, OrderStatus, InvoiceStatus
<1> QED
  BY <1>1 DEF Decided, LoopSound, EscalationReached, MarkSent, Order

\* reassign.
LEMMA ReassignDecided ==
  ASSUME NEW o \in Order, NEW due \in Nat, LoopSound(o), NEW target \in Suppliers,
         Reassign(o, target, due).dueAt <= MaxWindows
  PROVE  Decided(o, Reassign(o, target, due), due)
<1>1. Reassign(o, target, due) \in UnboundedOrder
  BY Bounded DEF Reassign, UnboundedOrder, Holder, OrderStatus
<1>2. Reassign(o, target, due) \in Order
  BY <1>1, Bounded
<1> QED
  BY <1>2 DEF Decided, LoopSound, EscalationReached, Reassign, Order

\* sendBack.
LEMMA SendBackDecided ==
  ASSUME NEW o \in Order, NEW due \in Nat, LoopSound(o), SendBack(o, due).dueAt <= MaxWindows
  PROVE  Decided(o, SendBack(o, due), due)
<1>1. [o EXCEPT !.flag = "sent_back"] \in UnboundedOrder
  BY Bounded DEF UnboundedOrder, FlagState
<1>2. SendBack(o, due) \in Order
  BY <1>1, Bounded, HelpersKeepType DEF SendBack
<1> QED
  BY <1>2
  DEF Decided, LoopSound, EscalationReached, SendBack, RestartWindow, NotOverdue,
      IsFlagged, Order

\* complete.
LEMMA CompleteDecided ==
  ASSUME NEW o \in Order, NEW due \in Nat, LoopSound(o)
  PROVE  Decided(o, Complete(o), due)
<1>1. Complete(o) \in Order
  BY DEF Complete, Order, OrderStatus, InvoiceStatus, FlagState
<1> QED
  BY <1>1 DEF Decided, LoopSound, EscalationReached, Complete, Order

\* cancel.
LEMMA CancelDecided ==
  ASSUME NEW o \in Order, NEW due \in Nat, LoopSound(o)
  PROVE  Decided(o, Cancel(o), due)
<1>1. Cancel(o) \in Order
  BY DEF Cancel, Order, OrderStatus, FlagState
<1> QED
  BY <1>1 DEF Decided, LoopSound, EscalationReached, Cancel, Order

\* markV62Printed.
LEMMA MarkV62PrintedDecided ==
  ASSUME NEW o \in Order, NEW due \in Nat, LoopSound(o)
  PROVE  Decided(o, MarkV62Printed(o), due)
<1>1. MarkV62Printed(o) \in Order
  BY DEF MarkV62Printed, Order, V62State
<1> QED
  BY <1>1 DEF Decided, LoopSound, EscalationReached, MarkV62Printed, Order

\* What no handler ever decides.
LEMMA DecisionFacts ==
  ASSUME NEW o \in Order, NEW due \in Nat, NEW x, NEW steps,
         LoopSound(o), Decision(o, x, steps, due), x.dueAt <= MaxWindows
  PROVE  Decided(o, x, due)
BY AttachInvoiceDecided, ApplyFlagDecided, ApproveDecided, RequestChangesDecided,
   ResubmitDecided, MarkSentDecided, ReassignDecided, SendBackDecided, CompleteDecided,
   CancelDecided, MarkV62PrintedDecided
DEF Decision

-----------------------------------------------------------------------------
(* The invariant of overlapping requests.                                   *)

Loaded(w) == stage[w] = "loaded"

\* The request is about to save a window that started when it loaded.
Renews(w) == write[w].dueAt > read[w].dueAt

\* Nothing has happened before the order is placed.
NothingYet ==
  order = Absent =>
    /\ issued = 0 /\ lapsed = 0 /\ announced = {} /\ alerts = {} /\ sweep = SweepIdle
    /\ \A w \in Workers : stage[w] = "idle"

\* What is about to be saved was decided on what was read.
RequestsDecide ==
  \A w \in Workers : Loaded(w) =>
    /\ read[w] \in Order
    /\ LoopSound(read[w])
    /\ \E due \in Nat : read[w].dueAt < due /\ Decided(read[w], write[w], due)

\* No window a request has seen pending, or not seen at all, lapses before it is saved: so
\* a window that has lapsed was stored before any request now in progress loaded.
WindowsOutlast ==
  /\ lapsed <= issued
  /\ order # Absent => order.dueAt <= issued
  /\ \A w \in Workers : Loaded(w) =>
       /\ lapsed <= since[w]
       /\ since[w] <= issued
       /\ read[w].dueAt <= issued
       /\ write[w].dueAt <= issued
       /\ order.dueAt \in {read[w].dueAt, NoDeadline} \/ since[w] < order.dueAt
       /\ \A v \in Workers : Loaded(v) /\ Renews(v) => since[w] < write[v].dueAt

\* The windows announced, or about to be.
Told == announced \union (IF sweep.stage = "marked" THEN {sweep.window} ELSE {})

\* Once its lapse is announced an order no longer waits on time: it does not do so again
\* but with another window.
ToldIsOverdue ==
  /\ \A k \in announced : k <= lapsed
  /\ sweep.stage # "idle" =>
       sweep.window \in Deadlines /\ sweep.window <= lapsed /\ sweep.window \notin announced
  /\ sweep.stage = "idle" => sweep = SweepIdle
  /\ order # Absent /\ order.dueAt \in Told => order.status # "awaiting_supplier"

\* A copy nothing has been saved over agrees with the order on all the review loop asks.
CurrentCopies ==
  /\ order # Absent => LoopSound(order)
  /\ \A w \in Workers : Loaded(w) /\ ~stale[w] =>
       /\ order.bankReview = read[w].bankReview
       /\ order.fieldsFlagged = read[w].fieldsFlagged
       /\ order.sendBacks = read[w].sendBacks
       /\ order.flag = read[w].flag

\* An order is never again what it was before it first had a supplier.
AssignmentKept ==
  order # Absent =>
    /\ order.status = "unassigned" => order.supplier = Nobody
    /\ \A w \in Workers : Loaded(w) /\ read[w].status # "unassigned"
                            => order.status # "unassigned"

OverlapInv ==
  /\ TypeOK
  /\ NothingYet
  /\ RequestsDecide
  /\ WindowsOutlast
  /\ ToldIsOverdue
  /\ CurrentCopies
  /\ AssignmentKept

-----------------------------------------------------------------------------
(* What a save writes.                                                      *)

\* Each path is the copy's where the request changed it, and the order's where it did not.
LEMMA MergedFields ==
  ASSUME NEW w \in Workers, order \in Order, read[w] \in Order, write[w] \in Order
  PROVE  /\ Merged(w) \in Order
         /\ \A field \in DOMAIN order \ {"sendBacks"} :
              Merged(w)[field] = IF read[w][field] # write[w][field] THEN write[w][field]
                                 ELSE order[field]
         /\ Merged(w).sendBacks =
              IF read[w].sendBacks # write[w].sendBacks
              THEN IF order.sendBacks < RoundCap THEN order.sendBacks + 1 ELSE RoundCap
              ELSE order.sendBacks
<1> DEFINE m == Merged(w)
<1>1. DOMAIN order = {"supplier", "reassignedFrom", "status", "invoiceStatus", "invoice",
                      "invoiceEmail", "communicationMethod", "v62", "bankReview",
                      "fieldsFlagged", "sendBacks", "flag", "dueAt"}
  BY DEF Order
<1>2. /\ DOMAIN m = DOMAIN order
      /\ \A field \in DOMAIN order \ {"sendBacks"} :
           m[field] = IF read[w][field] # write[w][field] THEN write[w][field]
                      ELSE order[field]
  BY DEF Merged
<1>3. m.sendBacks = IF read[w].sendBacks # write[w].sendBacks
                    THEN IF order.sendBacks < RoundCap THEN order.sendBacks + 1 ELSE RoundCap
                    ELSE order.sendBacks
  BY <1>1, <1>2 DEF Merged
<1>4. m = [supplier |-> m.supplier, reassignedFrom |-> m.reassignedFrom,
           status |-> m.status, invoiceStatus |-> m.invoiceStatus, invoice |-> m.invoice,
           invoiceEmail |-> m.invoiceEmail, communicationMethod |-> m.communicationMethod,
           v62 |-> m.v62, bankReview |-> m.bankReview, fieldsFlagged |-> m.fieldsFlagged,
           sendBacks |-> m.sendBacks, flag |-> m.flag, dueAt |-> m.dueAt]
  BY <1>1 DEF Merged
<1>5. m.sendBacks \in 0 .. RoundCap
  BY <1>3, RoundsAssumption DEF Order, RoundCap
<1> HIDE DEF m
<1>6. m \in Order
  BY <1>1, <1>2, <1>4, <1>5 DEF Order
<1> QED
  BY <1>2, <1>3, <1>6 DEF m

-----------------------------------------------------------------------------
(* The calls a decision leaves.                                             *)

\* When makes a list of calls.
LEMMA WhenType ==
  ASSUME NEW condition \in BOOLEAN, NEW call \in Call
  PROVE  When(condition, call) \in Seq(Call)
BY DEF When

\* The calls that the handlers make are calls.
LEMMA CallTypes ==
  /\ \A t \in AlertType : Raise(t) \in Call /\ Resolve(t) \in Call
  /\ ClearAll \in Call
  /\ \A cause \in {"upload", "resend"} : Email(cause) \in Call
BY DEF Call, Raise, Resolve, ClearAll, Email

\* What follows a save is a list of calls.
LEMMA StepTypes ==
  ASSUME NEW o \in Order
  PROVE  /\ UploadSteps(o) \in Seq(Call)
         /\ RequestChangesSteps(o) \in Seq(Call)
         /\ SendBackSteps(o) \in Seq(Call)
         /\ PlacedSteps(o) \in Seq(Call)
         /\ AnnounceFlag \in Seq(Call)
<1> USE CallTypes
<1>1. AnnounceFlag \in Seq(Call)
  BY DEF AnnounceFlag, AlertType
<1>2. UploadSteps(o) \in Seq(Call)
  <2>1. /\ When(IsFlagged(o), Resolve("order_flagged")) \in Seq(Call)
        /\ When(o.bankReview = "submitted", Raise("bank_approved")) \in Seq(Call)
    BY WhenType DEF AlertType, IsFlagged
  <2>2. Raise("whatsapp_send_required") \in Call /\ Email("upload") \in Call
    BY DEF AlertType
  <2>3. /\ <<Raise("whatsapp_send_required")>> \in Seq(Call)
        /\ <<Email("upload")>> \in Seq(Call)
    BY <2>2
  <2> QED
    BY <2>1, <2>3 DEF UploadSteps
<1>3. RequestChangesSteps(o) \in Seq(Call)
  BY <1>1 DEF RequestChangesSteps, AlertType
<1>4. SendBackSteps(o) \in Seq(Call)
  <2>1. When(SendBackRestarts(o), Resolve("supplier_overdue")) \in Seq(Call)
    BY WhenType DEF AlertType, SendBackRestarts
  <2> QED
    BY <2>1 DEF SendBackSteps, AlertType
<1>5. PlacedSteps(o) \in Seq(Call)
  <2>1. /\ When(o.supplier = Nobody, Raise("unassigned")) \in Seq(Call)
        /\ When(o.v62 # "none", Raise("v62_submitted")) \in Seq(Call)
        /\ When(o.communicationMethod = "whatsapp", Raise("whatsapp_requested")) \in Seq(Call)
    BY WhenType DEF AlertType
  <2> QED
    BY <2>1 DEF PlacedSteps
<1> QED
  BY <1>1, <1>2, <1>3, <1>4, <1>5

\* So is what any decision leaves to be done.
LEMMA DecisionCalls ==
  ASSUME NEW o \in Order, NEW due, NEW x, NEW steps, Decision(o, x, steps, due)
  PROVE  steps \in Seq(Call)
<1>1. /\ \A t \in AlertType : <<Raise(t)>> \in Seq(Call) /\ <<Resolve(t)>> \in Seq(Call)
      /\ \A s, t \in AlertType : <<Resolve(s), Resolve(t)>> \in Seq(Call)
      /\ <<ClearAll>> \in Seq(Call)
  BY CallTypes
<1> QED
  BY <1>1, StepTypes DEF Decision, AlertType

-----------------------------------------------------------------------------
(* Windows.                                                                 *)

\* The windows stored when a request loads: all that have lapsed, none that is pending.
LEMMA StoredBounds ==
  ASSUME TypeOK, RequestsDecide, WindowsOutlast
  PROVE  /\ Stored \in Nat /\ lapsed <= Stored /\ Stored <= issued
         /\ \A v \in Workers : Loaded(v) /\ Renews(v) => Stored < write[v].dueAt
<1> DEFINE S == {k \in 1 .. issued : \A p \in Pending : k < p}
<1>1. issued \in Nat /\ lapsed \in Nat /\ \A v \in Workers : since[v] \in Nat
  BY DEF TypeOK
<1>2. \A v \in Workers : Loaded(v) => read[v].dueAt \in Nat /\ write[v].dueAt \in Nat
  BY WindowAssumption DEF RequestsDecide, Decided, Order
<1>3. \A n \in Nat : IsFiniteSet(1 .. n) /\ Cardinality(1 .. n) = n
  BY FS_Interval
<1>4. IsFiniteSet(S) /\ Cardinality(S) \in Nat /\ Cardinality(S) <= issued
  BY <1>1, <1>3, FS_Subset, FS_CardinalityType
<1>5. lapsed <= Cardinality(S)
  <2>1. 1 .. lapsed \subseteq S
    <3>1. \A p \in Pending : p \in Nat /\ lapsed < p
      <4>1. ASSUME NEW v \in Workers, Loaded(v), Renews(v)
            PROVE  write[v].dueAt \in Nat /\ lapsed < write[v].dueAt
        BY <1>1, <1>2, <4>1 DEF WindowsOutlast
      <4> QED
        BY <4>1 DEF Pending, Loaded, Renews
    <3> QED
      BY <1>1, <3>1 DEF WindowsOutlast
  <2> QED
    BY <1>1, <1>3, <1>4, <2>1, FS_Subset
<1>6. ASSUME NEW v \in Workers, Loaded(v), Renews(v)
      PROVE  Cardinality(S) < write[v].dueAt
  <2>1. write[v].dueAt \in Pending
    BY <1>6 DEF Pending, Loaded, Renews
  <2>2. write[v].dueAt \in Nat \ {0}
    BY <1>2, <1>6 DEF Renews
  <2>3. S \subseteq 1 .. (write[v].dueAt - 1)
    BY <2>1, <2>2
  <2>4. /\ IsFiniteSet(1 .. (write[v].dueAt - 1))
        /\ Cardinality(1 .. (write[v].dueAt - 1)) = write[v].dueAt - 1
    BY <1>3, <2>2
  <2> HIDE DEF S
  <2>5. Cardinality(S) <= write[v].dueAt - 1
    BY <2>3, <2>4, FS_Subset
  <2> QED
    BY <1>4, <2>2, <2>5
<1> QED
  BY <1>4, <1>5, <1>6 DEF Stored

-----------------------------------------------------------------------------
(* OverlapInv is inductive.                                                 *)

\* Loading.
LEMMA LoadStep ==
  ASSUME OverlapInv, NEW w \in Workers, Loads(w)
  PROVE  OverlapInv'
<1>1. order # Absent /\ order \in Order /\ LoopSound(order)
  BY LoadDecides DEF OverlapInv, TypeOK, CurrentCopies
<1>2. PICK x, steps : Decision(order, x, steps, FreshDue) /\ Load(w, x, steps)
  BY LoadDecides
<1>3. /\ issued \in Nat /\ lapsed \in Nat /\ issued <= MaxWindows /\ FreshDue = issued + 1
      /\ \A v \in Workers : since[v] \in Nat
  BY WindowAssumption DEF OverlapInv, TypeOK, FreshDue
<1>4. x.dueAt <= MaxWindows /\ Decided(order, x, FreshDue) /\ x \in Order
  BY <1>1, <1>2, <1>3, DecisionFacts DEF Load, Decided
<1>5. x.dueAt \in Nat /\ order.dueAt \in Nat /\ order.dueAt <= issued
  BY <1>1, <1>4, WindowAssumption DEF Order, OverlapInv, WindowsOutlast
<1>6. steps \in Seq(Call)
  BY <1>1, <1>2, DecisionCalls
<1>7. /\ Stored \in Nat /\ lapsed <= Stored /\ Stored <= issued
      /\ \A v \in Workers : Loaded(v) /\ Renews(v) => Stored < write[v].dueAt
  BY StoredBounds DEF OverlapInv
<1>8. /\ stage' = [stage EXCEPT ![w] = "loaded"] /\ read' = [read EXCEPT ![w] = order]
      /\ write' = [write EXCEPT ![w] = x] /\ since' = [since EXCEPT ![w] = Stored]
      /\ todo' = [todo EXCEPT ![w] = steps]
      /\ issued' = IF x.dueAt = issued + 1 THEN issued + 1 ELSE issued
      /\ UNCHANGED <<order, alerts, lapsed, stale, sweep, announced>>
  BY <1>2, <1>3 DEF Load
<1>9. issued' \in Nat /\ issued <= issued' /\ issued' <= MaxWindows
  BY <1>3, <1>4, <1>8
<1>10. TypeOK'
  BY <1>1, <1>3, <1>4, <1>6, <1>7, <1>8, <1>9, WindowAssumption DEF OverlapInv, TypeOK
<1>11. /\ stage'[w] = "loaded" /\ read'[w] = order /\ write'[w] = x /\ since'[w] = Stored
       /\ \A v \in Workers \ {w} :
            /\ stage'[v] = stage[v] /\ read'[v] = read[v] /\ write'[v] = write[v]
            /\ since'[v] = since[v]
  BY <1>8 DEF OverlapInv, TypeOK
<1>12. NothingYet'
  BY <1>1, <1>8 DEF NothingYet
<1>13. RequestsDecide'
  <2>1. ASSUME NEW v \in Workers, v # w, stage'[v] = "loaded"
        PROVE  /\ read'[v] \in Order /\ LoopSound(read'[v])
               /\ \E due \in Nat : read'[v].dueAt < due /\ Decided(read'[v], write'[v], due)
    BY <1>11, <2>1 DEF OverlapInv, RequestsDecide, Loaded
  <2>2. FreshDue \in Nat /\ order.dueAt < FreshDue
    BY <1>3, <1>5
  <2> QED
    BY <1>1, <1>4, <1>11, <2>1, <2>2 DEF RequestsDecide, Loaded
<1>14. WindowsOutlast'
  <2>1. x.dueAt <= issued' /\ (x.dueAt > order.dueAt => x.dueAt = issued + 1)
    BY <1>3, <1>4, <1>5, <1>8, WindowAssumption DEF Decided
  <2>2. /\ lapsed <= since'[w] /\ since'[w] <= issued'
        /\ read'[w].dueAt <= issued' /\ write'[w].dueAt <= issued'
        /\ order.dueAt = read'[w].dueAt
    BY <1>3, <1>5, <1>7, <1>9, <1>11, <2>1
  <2>3. ASSUME NEW v \in Workers, stage'[v] = "loaded", write'[v].dueAt > read'[v].dueAt
        PROVE  since'[w] < write'[v].dueAt
    <3>1. CASE v = w
      BY <1>3, <1>7, <1>11, <2>1, <2>3, <3>1
    <3>2. CASE v # w
      BY <1>7, <1>11, <2>3, <3>2 DEF Loaded, Renews
    <3> QED
      BY <3>1, <3>2
  <2>4. ASSUME NEW u \in Workers, u # w, stage'[u] = "loaded"
        PROVE  /\ lapsed <= since'[u] /\ since'[u] <= issued'
               /\ read'[u].dueAt <= issued' /\ write'[u].dueAt <= issued'
               /\ order.dueAt \in {read'[u].dueAt, NoDeadline} \/ since'[u] < order.dueAt
    <3>1. /\ lapsed <= since[u] /\ since[u] <= issued
          /\ read[u].dueAt <= issued /\ write[u].dueAt <= issued
          /\ order.dueAt \in {read[u].dueAt, NoDeadline} \/ since[u] < order.dueAt
      BY <1>11, <2>4 DEF OverlapInv, WindowsOutlast, Loaded
    <3>2. read[u].dueAt \in Nat /\ write[u].dueAt \in Nat
      BY <1>11, <2>4, WindowAssumption
      DEF OverlapInv, RequestsDecide, Loaded, Decided, Order
    <3> QED
      BY <1>3, <1>9, <1>11, <2>4, <3>1, <3>2
  <2>5. ASSUME NEW u \in Workers, u # w, stage'[u] = "loaded",
               NEW v \in Workers, stage'[v] = "loaded", write'[v].dueAt > read'[v].dueAt
        PROVE  since'[u] < write'[v].dueAt
    <3>1. CASE v = w
      <4>1. since[u] <= issued
        BY <1>11, <2>5 DEF OverlapInv, WindowsOutlast, Loaded
      <4> QED
        BY <1>3, <1>11, <2>1, <2>5, <3>1, <4>1
    <3>2. CASE v # w
      BY <1>11, <2>5, <3>2 DEF OverlapInv, WindowsOutlast, Loaded, Renews
    <3> QED
      BY <3>1, <3>2
  <2>6. lapsed <= issued' /\ order.dueAt <= issued'
    BY <1>3, <1>5, <1>8, <1>9 DEF OverlapInv, WindowsOutlast
  <2> QED
    BY <1>8, <2>2, <2>3, <2>4, <2>5, <2>6 DEF WindowsOutlast, Loaded, Renews
<1>15. ToldIsOverdue'
  BY <1>8 DEF OverlapInv, ToldIsOverdue, Told
<1>16. CurrentCopies'
  BY <1>8, <1>11 DEF OverlapInv, CurrentCopies, Loaded
<1>17. AssignmentKept'
  BY <1>8, <1>11 DEF OverlapInv, AssignmentKept, Loaded
<1> QED
  BY <1>10, <1>12, <1>13, <1>14, <1>15, <1>16, <1>17 DEF OverlapInv

\* What a worker about to save has in hand.
LEMMA SavingFacts ==
  ASSUME OverlapInv, NEW w \in Workers, Loaded(w)
  PROVE  /\ order # Absent /\ order \in Order /\ LoopSound(order)
         /\ read[w] \in Order /\ write[w] \in Order /\ Merged(w) \in Order
         /\ Merged(w) # Absent
         /\ \E due \in Nat : read[w].dueAt < due /\ Decided(read[w], write[w], due)
<1>1. order # Absent
  BY DEF OverlapInv, NothingYet, Loaded
<1>2. order \in Order /\ LoopSound(order)
  BY <1>1 DEF OverlapInv, TypeOK, CurrentCopies
<1>3. /\ read[w] \in Order
      /\ \E due \in Nat : read[w].dueAt < due /\ Decided(read[w], write[w], due)
  BY DEF OverlapInv, RequestsDecide
<1>4. write[w] \in Order
  BY <1>3 DEF Decided
<1> QED
  BY <1>1, <1>2, <1>3, <1>4, MergedFields, AbsentAssumption

\* A field at a time: what MergedFields says of the fields the invariant reads.
LEMMA MergedPaths ==
  ASSUME OverlapInv, NEW w \in Workers, Loaded(w)
  PROVE  LET m == Merged(w)
             r == read[w]
             x == write[w]
         IN  /\ m.supplier = IF r.supplier # x.supplier THEN x.supplier ELSE order.supplier
             /\ m.status = IF r.status # x.status THEN x.status ELSE order.status
             /\ m.dueAt = IF r.dueAt # x.dueAt THEN x.dueAt ELSE order.dueAt
             /\ m.flag = IF r.flag # x.flag THEN x.flag ELSE order.flag
             /\ m.bankReview = IF r.bankReview # x.bankReview THEN x.bankReview
                               ELSE order.bankReview
             /\ m.fieldsFlagged = IF r.fieldsFlagged # x.fieldsFlagged THEN x.fieldsFlagged
                                  ELSE order.fieldsFlagged
             /\ m.sendBacks =
                  IF r.sendBacks # x.sendBacks
                  THEN IF order.sendBacks < RoundCap THEN order.sendBacks + 1 ELSE RoundCap
                  ELSE order.sendBacks
<1> DEFINE m == Merged(w)
           r == read[w]
           x == write[w]
<1>1. order \in Order /\ r \in Order /\ x \in Order
  BY SavingFacts
<1>2. {"supplier", "status", "dueAt", "flag", "bankReview", "fieldsFlagged"}
        \subseteq DOMAIN order \ {"sendBacks"}
  BY <1>1 DEF Order
<1>3. /\ \A field \in DOMAIN order \ {"sendBacks"} :
           m[field] = IF r[field] # x[field] THEN x[field] ELSE order[field]
      /\ m.sendBacks = IF r.sendBacks # x.sendBacks
                       THEN IF order.sendBacks < RoundCap THEN order.sendBacks + 1 ELSE RoundCap
                       ELSE order.sendBacks
  BY <1>1, MergedFields
<1> HIDE DEF m, r, x
<1>4. /\ m.supplier = IF r.supplier # x.supplier THEN x.supplier ELSE order.supplier
      /\ m.status = IF r.status # x.status THEN x.status ELSE order.status
      /\ m.dueAt = IF r.dueAt # x.dueAt THEN x.dueAt ELSE order.dueAt
      /\ m.flag = IF r.flag # x.flag THEN x.flag ELSE order.flag
      /\ m.bankReview = IF r.bankReview # x.bankReview THEN x.bankReview
                        ELSE order.bankReview
      /\ m.fieldsFlagged = IF r.fieldsFlagged # x.fieldsFlagged THEN x.fieldsFlagged
                           ELSE order.fieldsFlagged
  BY <1>2, <1>3
<1> QED
  BY <1>3, <1>4 DEF m, r, x

\* A request never takes an order's supplier away, nor makes it unassigned.
LEMMA SaveKeepsAssignment ==
  ASSUME OverlapInv, NEW w \in Workers, Loaded(w)
  PROVE  /\ order.supplier # Nobody => Merged(w).supplier # Nobody
         /\ order.status # "unassigned" => Merged(w).status # "unassigned"
         /\ Merged(w).status = "unassigned" => Merged(w).supplier = Nobody
<1> DEFINE m == Merged(w)
           r == read[w]
           x == write[w]
<1>1. /\ m.supplier = IF r.supplier # x.supplier THEN x.supplier ELSE order.supplier
      /\ m.status = IF r.status # x.status THEN x.status ELSE order.status
  BY MergedPaths
<1>2. PICK due \in Nat : Decided(r, x, due)
  BY SavingFacts
<1>3. /\ x.supplier # r.supplier => x.supplier \in Suppliers /\ x.status = "awaiting_supplier"
      /\ x.status # r.status => x.status # "unassigned"
  BY <1>2 DEF Decided
<1>4. order # Absent
  BY SavingFacts
<1>5. /\ order.status = "unassigned" => order.supplier = Nobody
      /\ r.status # "unassigned" => order.status # "unassigned"
  BY <1>4 DEF OverlapInv, AssignmentKept
<1> HIDE DEF m, r, x
<1>6. m.status = "unassigned" => m.supplier = Nobody
  BY <1>1, <1>3, <1>5
<1> QED
  BY <1>1, <1>3, <1>5, <1>6, SupplierAssumption DEF m

\* The version check keeps the review loop sound: a save that names or clears fields goes
\* through only over the document it was decided on, and no other touches them.
LEMMA SaveKeepsLoop ==
  ASSUME OverlapInv, NEW w \in Workers, Loaded(w), ~VersionConflict(w)
  PROVE  LoopSound(Merged(w))
<1> DEFINE m == Merged(w)
           r == read[w]
           x == write[w]
<1>1. /\ m.flag = IF r.flag # x.flag THEN x.flag ELSE order.flag
      /\ m.bankReview = IF r.bankReview # x.bankReview THEN x.bankReview
                        ELSE order.bankReview
      /\ m.fieldsFlagged = IF r.fieldsFlagged # x.fieldsFlagged THEN x.fieldsFlagged
                           ELSE order.fieldsFlagged
      /\ m.sendBacks =
           IF r.sendBacks # x.sendBacks
           THEN IF order.sendBacks < RoundCap THEN order.sendBacks + 1 ELSE RoundCap
           ELSE order.sendBacks
  BY MergedPaths
<1>2. PICK due \in Nat : Decided(r, x, due)
  BY SavingFacts
<1>3. LoopSound(order)
  BY SavingFacts
<1>4. CASE r.fieldsFlagged # x.fieldsFlagged
  <2>1. ~stale[w]
    BY <1>4 DEF VersionConflict, ReplacesArray
  <2>2. /\ order.bankReview = r.bankReview /\ order.fieldsFlagged = r.fieldsFlagged
        /\ order.sendBacks = r.sendBacks /\ order.flag = r.flag
    BY <2>1 DEF OverlapInv, CurrentCopies
  <2>3. /\ LoopSound(x)
        /\ x.sendBacks # r.sendBacks =>
             x.sendBacks = IF r.sendBacks < RoundCap THEN r.sendBacks + 1 ELSE RoundCap
    BY <1>2 DEF Decided
  <2> HIDE DEF m, r, x
  <2>4. /\ m.bankReview = x.bankReview /\ m.fieldsFlagged = x.fieldsFlagged
        /\ m.sendBacks = x.sendBacks /\ m.flag = x.flag
    BY <1>1, <2>2, <2>3
  <2>5. LoopSound(m)
    BY <2>3, <2>4 DEF LoopSound, EscalationReached
  <2> QED
    BY <2>5 DEF m
<1>5. CASE r.fieldsFlagged = x.fieldsFlagged
  <2>1. /\ x.bankReview \in {r.bankReview, "approved"} /\ x.sendBacks = r.sendBacks
        /\ x.flag # r.flag => x.flag # "none"
    BY <1>2, <1>5 DEF Decided
  <2> HIDE DEF m, r, x
  <2>2. /\ m.bankReview \in {order.bankReview, "approved"}
        /\ m.fieldsFlagged = order.fieldsFlagged /\ m.sendBacks = order.sendBacks
        /\ m.flag # order.flag => m.flag # "none"
    BY <1>1, <1>5, <2>1
  <2>3. LoopSound(m)
    BY <1>3, <2>2 DEF LoopSound, EscalationReached
  <2> QED
    BY <2>3 DEF m
<1> QED
  BY <1>4, <1>5

\* A save keeps the order's window, or stops it, or stores the one its request started,
\* which no request in progress has seen stored.
LEMMA SaveKeepsWindows ==
  ASSUME OverlapInv, NEW w \in Workers, Loaded(w)
  PROVE  LET m == Merged(w)
         IN  /\ m.dueAt \in Nat /\ m.dueAt <= issued
             /\ \A v \in Workers : Loaded(v) =>
                  m.dueAt \in {read[v].dueAt, NoDeadline} \/ since[v] < m.dueAt
             /\ m.dueAt \in Told => m.status # "awaiting_supplier"
<1> DEFINE m == Merged(w)
           r == read[w]
           x == write[w]
<1>1. /\ m.status = IF r.status # x.status THEN x.status ELSE order.status
      /\ m.dueAt = IF r.dueAt # x.dueAt THEN x.dueAt ELSE order.dueAt
  BY MergedPaths
<1>2. PICK due \in Nat : r.dueAt < due /\ Decided(r, x, due)
  BY SavingFacts
<1>3. /\ x.dueAt \in {r.dueAt, NoDeadline, due}
      /\ x.status = "awaiting_supplier" /\ r.status # "awaiting_supplier"
           => x.dueAt \in {NoDeadline, due}
  BY <1>2 DEF Decided
<1>4. /\ issued \in Nat /\ lapsed \in Nat /\ \A v \in Workers : since[v] \in Nat
      /\ r.dueAt \in Nat /\ x.dueAt \in Nat /\ order.dueAt \in Nat /\ NoDeadline = 0
  <2>1. /\ issued \in 0 .. MaxWindows /\ lapsed \in 0 .. MaxWindows
        /\ since \in [Workers -> 0 .. MaxWindows]
    BY DEF OverlapInv, TypeOK
  <2>2. issued \in Nat /\ lapsed \in Nat /\ \A v \in Workers : since[v] \in Nat
    BY <2>1
  <2>3. r \in Order /\ x \in Order /\ order \in Order
    BY SavingFacts
  <2>4. /\ NoDeadline = 0
        /\ \A o \in Order : o.dueAt \in Nat
    BY WindowAssumption DEF Order
  <2> QED
    BY <2>2, <2>3, <2>4
<1>5. /\ x.dueAt <= issued /\ lapsed <= since[w]
      /\ order.dueAt \in {r.dueAt, NoDeadline} \/ since[w] < order.dueAt
  BY DEF OverlapInv, WindowsOutlast
<1>6. order # Absent /\ order.dueAt <= issued
  BY SavingFacts DEF OverlapInv, WindowsOutlast
<1>7. \A k \in Told : k \in Nat \ {0} /\ k <= lapsed
  BY <1>4, WindowAssumption DEF OverlapInv, TypeOK, ToldIsOverdue, Told
<1>8. x.dueAt > r.dueAt => \A v \in Workers : Loaded(v) => since[v] < x.dueAt
  BY DEF OverlapInv, WindowsOutlast, Renews
<1>9. \A v \in Workers : Loaded(v) =>
        order.dueAt \in {read[v].dueAt, NoDeadline} \/ since[v] < order.dueAt
  BY DEF OverlapInv, WindowsOutlast
<1>10. order.dueAt \in Told => order.status # "awaiting_supplier"
  BY <1>6 DEF OverlapInv, ToldIsOverdue
<1>11. since[w] < x.dueAt \/ x.dueAt \in {r.dueAt, NoDeadline}
  BY <1>2, <1>3, <1>8
<1> HIDE DEF m, r, x
<1>12. m.dueAt \in Nat /\ m.dueAt <= issued
  BY <1>1, <1>4, <1>5, <1>6
<1>13. ASSUME NEW v \in Workers, Loaded(v)
       PROVE  m.dueAt \in {read[v].dueAt, NoDeadline} \/ since[v] < m.dueAt
  BY <1>1, <1>2, <1>3, <1>8, <1>9, <1>13
<1>14. ASSUME m.dueAt \in Told
       PROVE  m.status # "awaiting_supplier"
  <2>1. m.dueAt # NoDeadline /\ m.dueAt <= lapsed
    BY <1>4, <1>7, <1>14
  <2>2. r.dueAt = x.dueAt /\ m.dueAt = order.dueAt
    BY <1>1, <1>4, <1>5, <1>11, <2>1
  <2>3. x.status = "awaiting_supplier" => r.status = "awaiting_supplier"
    BY <1>2, <1>3, <1>4, <1>5, <2>1, <2>2
  <2> QED
    BY <1>1, <1>10, <1>14, <2>2, <2>3
<1> QED
  BY <1>12, <1>13, <1>14 DEF m

\* Saving.
LEMMA SaveStep ==
  ASSUME OverlapInv, NEW w \in Workers, Save(w)
  PROVE  OverlapInv'
<1>1. Loaded(w) /\ ~VersionConflict(w) /\ order' = Merged(w)
  BY DEF Save, Loaded
<1>2. /\ stage' = [stage EXCEPT ![w] = "after"] /\ read' = [read EXCEPT ![w] = Absent]
      /\ write' = [write EXCEPT ![w] = Absent] /\ since' = [since EXCEPT ![w] = 0]
      /\ stale' = [v \in Workers |-> v # w /\ (stale[v] \/ stage[v] = "loaded")]
      /\ UNCHANGED <<alerts, issued, lapsed, todo, sweep, announced>>
  BY DEF Save
<1>3. Merged(w) \in Order /\ order' # Absent /\ order # Absent
  BY <1>1, SavingFacts
<1>4. TypeOK'
  <2>1. stale' \in [Workers -> BOOLEAN]
    BY <1>2 DEF OverlapInv, TypeOK
  <2>2. /\ stage' \in [Workers -> {"idle", "loaded", "after"}]
        /\ read' \in [Workers -> Order \union {Absent}]
        /\ write' \in [Workers -> Order \union {Absent}]
        /\ since' \in [Workers -> 0 .. MaxWindows]
    BY <1>2, WindowAssumption DEF OverlapInv, TypeOK
  <2> QED
    BY <1>1, <1>2, <1>3, <2>1, <2>2 DEF OverlapInv, TypeOK
<1>5. \A v \in Workers : stage'[v] = "loaded" =>
        /\ v # w /\ Loaded(v) /\ stale'[v]
        /\ read'[v] = read[v] /\ write'[v] = write[v] /\ since'[v] = since[v]
  BY <1>2 DEF OverlapInv, TypeOK, Loaded
<1>6. NothingYet'
  BY <1>3 DEF NothingYet
<1>7. RequestsDecide'
  BY <1>5 DEF OverlapInv, RequestsDecide, Loaded
<1>8. WindowsOutlast'
  BY <1>1, <1>2, <1>5, SaveKeepsWindows DEF OverlapInv, WindowsOutlast, Loaded, Renews
<1>9. ToldIsOverdue'
  BY <1>1, <1>2, SaveKeepsWindows DEF OverlapInv, ToldIsOverdue, Told
<1>10. CurrentCopies'
  BY <1>1, <1>5, SaveKeepsLoop DEF CurrentCopies, Loaded
<1>11. AssignmentKept'
  BY <1>1, <1>3, <1>5, SaveKeepsAssignment DEF OverlapInv, AssignmentKept, Loaded
<1> QED
  BY <1>4, <1>6, <1>7, <1>8, <1>9, <1>10, <1>11 DEF OverlapInv

\* What the invariant asks of a step that leaves windows and copies alone: of the order,
\* only its supplier, status, window and what the loop looks at.
LEMMA QuietStep ==
  ASSUME OverlapInv, TypeOK', order # Absent, order' # Absent,
         order'.supplier = order.supplier, order'.status = order.status,
         order'.dueAt = order.dueAt, order'.bankReview = order.bankReview,
         order'.fieldsFlagged = order.fieldsFlagged, order'.sendBacks = order.sendBacks,
         order'.flag = order.flag, UNCHANGED <<issued, lapsed, sweep, announced>>,
         \A v \in Workers : stage'[v] = "loaded" =>
           /\ Loaded(v) /\ stale'[v] = stale[v]
           /\ read'[v] = read[v] /\ write'[v] = write[v] /\ since'[v] = since[v]
  PROVE  OverlapInv'
<1>1. NothingYet'
  BY DEF NothingYet
<1>2. RequestsDecide'
  BY DEF OverlapInv, RequestsDecide, Loaded
<1>3. WindowsOutlast'
  BY DEF OverlapInv, WindowsOutlast, Loaded, Renews
<1>4. ToldIsOverdue'
  BY DEF OverlapInv, ToldIsOverdue, Told
<1>5. CurrentCopies'
  BY DEF OverlapInv, CurrentCopies, Loaded, LoopSound, EscalationReached
<1>6. AssignmentKept'
  BY DEF OverlapInv, AssignmentKept, Loaded
<1> QED
  BY <1>1, <1>2, <1>3, <1>4, <1>5, <1>6 DEF OverlapInv

\* A save refused on its version.
LEMMA FailSaveStep ==
  ASSUME OverlapInv, NEW w \in Workers, FailSave(w)
  PROVE  OverlapInv'
<1>1. order # Absent
  BY DEF FailSave, OverlapInv, NothingYet
<1>2. TypeOK'
  <2>1. /\ stage' \in [Workers -> {"idle", "loaded", "after"}]
        /\ read' \in [Workers -> Order \union {Absent}]
        /\ write' \in [Workers -> Order \union {Absent}]
        /\ since' \in [Workers -> 0 .. MaxWindows]
        /\ stale' \in [Workers -> BOOLEAN]
        /\ todo' \in [Workers -> Seq(Call)]
    BY WindowAssumption DEF FailSave, Done, OverlapInv, TypeOK
  <2> QED
    BY <2>1 DEF FailSave, OverlapInv, TypeOK
<1>3. \A v \in Workers : stage'[v] = "loaded" =>
        /\ Loaded(v) /\ stale'[v] = stale[v]
        /\ read'[v] = read[v] /\ write'[v] = write[v] /\ since'[v] = since[v]
  BY DEF FailSave, Done, OverlapInv, TypeOK, Loaded
<1> QED
  BY <1>1, <1>2, <1>3, QuietStep DEF FailSave

\* The calls after a save.
CallSteps(w) == RaiseAlert(w) \/ ResolveAlert(w) \/ ClearAlerts(w) \/ RecordEmail(w)
                  \/ LoseRecord(w)

\* A call that follows a save leaves what the invariant speaks of alone.
LEMMA CallStep ==
  ASSUME OverlapInv, NEW w \in Workers, CallSteps(w)
  PROVE  OverlapInv'
<1>1. /\ stage[w] = "after" /\ todo[w] # <<>> /\ Advance(w)
      /\ UNCHANGED <<issued, lapsed, stale, sweep, announced>>
  BY DEF CallSteps, RaiseAlert, ResolveAlert, ClearAlerts, RecordEmail, LoseRecord, After, Advance
<1>2. order # Absent /\ order \in Order
  BY <1>1 DEF OverlapInv, NothingYet, TypeOK
<1>3. todo[w] \in Seq(Call) /\ Head(todo[w]) \in Call
  BY <1>1 DEF OverlapInv, TypeOK
<1>4. alerts' \in SUBSET AlertType
  <2>1. Head(todo[w]).do = "raise" => Head(todo[w]).of \in AlertType
    BY <1>3 DEF Call, ClearAll, Email
  <2>2. RaiseAlert(w) => Head(todo[w]).do = "raise"
    BY DEF RaiseAlert, After
  <2> QED
    BY <2>1, <2>2
    DEF CallSteps, RaiseAlert, ResolveAlert, ClearAlerts, RecordEmail, LoseRecord, OverlapInv, TypeOK
<1>5. /\ order' = order \/ \E outcome \in {"sent", "failed"} :
                             order' = [order EXCEPT !.invoiceEmail = outcome]
  BY DEF CallSteps, RaiseAlert, ResolveAlert, ClearAlerts, RecordEmail, LoseRecord
<1>6. /\ order' \in Order
      /\ order'.supplier = order.supplier /\ order'.status = order.status
      /\ order'.dueAt = order.dueAt /\ order'.bankReview = order.bankReview
      /\ order'.fieldsFlagged = order.fieldsFlagged
      /\ order'.sendBacks = order.sendBacks /\ order'.flag = order.flag
  BY <1>2, <1>5 DEF Order
<1>7. /\ stage' \in [Workers -> {"idle", "loaded", "after"}]
      /\ read' \in [Workers -> Order \union {Absent}]
      /\ write' \in [Workers -> Order \union {Absent}]
      /\ since' \in [Workers -> 0 .. MaxWindows]
      /\ todo' \in [Workers -> Seq(Call)]
      /\ \A v \in Workers : stage'[v] = "loaded" =>
           /\ Loaded(v)
           /\ read'[v] = read[v] /\ write'[v] = write[v] /\ since'[v] = since[v]
  <2>1. CASE Done(w)
    BY <1>1, <2>1, WindowAssumption DEF Done, OverlapInv, TypeOK, Loaded
  <2>2. CASE todo' = [todo EXCEPT ![w] = Tail(@)] /\ UNCHANGED <<stage, read, write, since>>
    <3>1. Tail(todo[w]) \in Seq(Call)
      BY <1>1, <1>3
    <3> QED
      BY <2>2, <3>1 DEF OverlapInv, TypeOK, Loaded
  <2> QED
    BY <1>1, <2>1, <2>2 DEF Advance
<1>8. TypeOK'
  BY <1>1, <1>4, <1>6, <1>7 DEF OverlapInv, TypeOK
<1>9. order' # Absent
  BY <1>6, AbsentAssumption
<1> QED
  BY <1>1, <1>2, <1>6, <1>7, <1>8, <1>9, QuietStep

\* Resending the invoice's email.
LEMMA ResendStep ==
  ASSUME OverlapInv, NEW w \in Workers, ResendInvoice(w)
  PROVE  OverlapInv'
<1>1. TypeOK'
  <2>1. <<Email("resend")>> \in Seq(Call)
    BY CallTypes
  <2>2. /\ stage' \in [Workers -> {"idle", "loaded", "after"}]
        /\ todo' \in [Workers -> Seq(Call)]
    BY <2>1 DEF ResendInvoice, OverlapInv, TypeOK
  <2> QED
    BY <2>2 DEF ResendInvoice, OverlapInv, TypeOK
<1>2. \A v \in Workers : stage'[v] = "loaded" => Loaded(v)
  BY DEF ResendInvoice, OverlapInv, TypeOK, Loaded
<1> QED
  BY <1>1, <1>2, QuietStep DEF ResendInvoice, Exists

\* A new order is sound, and its window is the first.
LEMMA NewOrderSound ==
  ASSUME NEW h \in Holder, NEW p \in Purchases, NEW due \in Deadlines
  PROVE  LET o == NewOrder(h, p.channel, p.review, p.v62, due)
         IN  /\ o \in Order /\ LoopSound(o)
             /\ o.dueAt \in {NoDeadline, due} /\ (h # Nobody => o.dueAt = due)
             /\ o.status = "unassigned" <=> o.supplier = Nobody
<1>1. /\ p.channel \in CommunicationMethod /\ p.review \in {"none", "submitted"}
      /\ p.v62 \in {"none", "requested"}
  BY PurchasesAssumption
<1> DEFINE o == NewOrder(h, p.channel, p.review, p.v62, due)
<1>2. o \in Order
  BY <1>1, RoundsAssumption
  DEF NewOrder, Order, Holder, OrderStatus, InvoiceStatus, CommunicationMethod, V62State,
      BankReviewStatus, FlagState, RoundCap
<1>3. LoopSound(o)
  BY <1>1, RoundsAssumption DEF NewOrder, LoopSound, EscalationReached
<1> QED
  BY <1>2, <1>3 DEF NewOrder

\* Placing the order.
LEMMA PlaceStep ==
  ASSUME OverlapInv, NEW w \in Workers, PlaceOrder(w)
  PROVE  OverlapInv'
<1>1. /\ order = Absent /\ issued = 0 /\ lapsed = 0 /\ announced = {} /\ sweep = SweepIdle
      /\ \A v \in Workers : stage[v] = "idle"
  BY DEF PlaceOrder, Exists, OverlapInv, NothingYet
<1>2. PICK h \in Holder, p \in Purchases :
        LET o == NewOrder(h, p.channel, p.review, p.v62, FreshDue)
        IN  /\ order' = o
            /\ issued' = IF h = Nobody THEN issued ELSE issued + 1
            /\ todo' = [todo EXCEPT ![w] = PlacedSteps(o)]
            /\ stage' = [stage EXCEPT ![w] = IF PlacedSteps(o) = <<>> THEN "idle" ELSE "after"]
  BY DEF PlaceOrder
<1>3. FreshDue = 1 /\ FreshDue \in Deadlines
  BY <1>1, WindowAssumption DEF FreshDue
<1>4. /\ order' \in Order /\ LoopSound(order')
      /\ order'.dueAt \in {0, 1} /\ (h # Nobody => order'.dueAt = 1)
      /\ order'.status = "unassigned" <=> order'.supplier = Nobody
  BY <1>2, <1>3, NewOrderSound, WindowAssumption
<1>5. UNCHANGED <<alerts, lapsed, read, write, since, stale, sweep, announced>>
  BY DEF PlaceOrder
<1>6. /\ stage' \in [Workers -> {"idle", "loaded", "after"}]
      /\ \A v \in Workers : stage'[v] # "loaded"
      /\ todo' \in [Workers -> Seq(Call)]
  BY <1>1, <1>2, <1>4, StepTypes DEF OverlapInv, TypeOK
<1>7. issued' \in {0, 1} /\ order'.dueAt <= issued'
  <2>1. CASE h = Nobody
    BY <1>1, <1>2, <2>1, WindowAssumption DEF NewOrder
  <2>2. CASE h # Nobody
    BY <1>1, <1>2, <1>4, <2>2
  <2> QED
    BY <2>1, <2>2
<1>8. TypeOK'
  BY <1>4, <1>5, <1>6, <1>7, WindowAssumption DEF OverlapInv, TypeOK
<1>9. NothingYet' /\ RequestsDecide' /\ CurrentCopies' /\ AssignmentKept'
  BY <1>4, <1>6, AbsentAssumption
  DEF NothingYet, RequestsDecide, CurrentCopies, AssignmentKept, Loaded
<1>10. WindowsOutlast'
  BY <1>1, <1>5, <1>6, <1>7 DEF WindowsOutlast, Loaded
<1>11. ToldIsOverdue'
  BY <1>1, <1>5 DEF ToldIsOverdue, Told, SweepIdle
<1> QED
  BY <1>8, <1>9, <1>10, <1>11 DEF OverlapInv

\* A window lapsing.
LEMMA LapseStep ==
  ASSUME OverlapInv, WindowLapses
  PROVE  OverlapInv'
<1>1. /\ issued \in Nat /\ lapsed \in Nat /\ issued <= MaxWindows
      /\ \A v \in Workers : since[v] \in Nat
  BY WindowAssumption DEF OverlapInv, TypeOK
<1>2. /\ lapsed < issued /\ lapsed' = lapsed + 1
      /\ UNCHANGED <<order, alerts, issued, stage, read, write, since, stale, todo, sweep,
                     announced>>
  BY DEF WindowLapses, requestVars
<1>3. \A w \in Workers : Loaded(w) => lapsed + 1 <= since[w]
  BY <1>1 DEF WindowLapses, OutlastsWindow, Loaded
<1>4. TypeOK'
  BY <1>1, <1>2, WindowAssumption DEF OverlapInv, TypeOK
<1>5. NothingYet'
  BY <1>1, <1>2 DEF OverlapInv, NothingYet
<1>6. RequestsDecide' /\ CurrentCopies' /\ AssignmentKept'
  BY <1>2 DEF OverlapInv, RequestsDecide, CurrentCopies, AssignmentKept, Loaded
<1>7. WindowsOutlast'
  <2>1. lapsed' <= issued' /\ \A w \in Workers : Loaded(w) => lapsed' <= since[w]
    BY <1>1, <1>2, <1>3
  <2> QED
    BY <1>2, <2>1 DEF OverlapInv, WindowsOutlast, Loaded, Renews
<1>8. ToldIsOverdue'
  <2>1. /\ \A k \in announced : k <= lapsed'
        /\ sweep.stage # "idle" => sweep.window <= lapsed'
    BY <1>1, <1>2, WindowAssumption DEF OverlapInv, ToldIsOverdue, TypeOK
  <2> QED
    BY <1>2, <2>1 DEF OverlapInv, ToldIsOverdue, Told
<1> QED
  BY <1>4, <1>5, <1>6, <1>7, <1>8 DEF OverlapInv

\* The three calls of the sweep.
LEMMA SweepStep ==
  ASSUME OverlapInv, SweepFind \/ SweepMark \/ SweepAnnounce
  PROVE  OverlapInv'
<1>1. /\ UNCHANGED <<issued, lapsed, stage, read, write, since, stale, todo>>
      /\ order # Absent /\ order \in Order
  BY DEF SweepFind, SweepMark, SweepAnnounce, requestVars, Exists, OverlapInv, NothingYet,
         SweepIdle, TypeOK
<1>2. CASE SweepFind
  <2>1. /\ sweep = SweepIdle /\ sweep' = [stage |-> "found", window |-> order.dueAt]
        /\ order.status = "awaiting_supplier" /\ order.dueAt # NoDeadline
        /\ order.dueAt <= lapsed /\ UNCHANGED <<order, alerts, announced>>
    BY <1>2 DEF SweepFind, SweepMatches
  <2>2. order.dueAt \in Deadlines
    BY <1>1, <2>1 DEF Order
  <2>3. order.dueAt \notin announced
    BY <1>1, <2>1 DEF OverlapInv, ToldIsOverdue, Told
  <2>4. ToldIsOverdue'
    BY <1>1, <2>1, <2>2, <2>3 DEF OverlapInv, ToldIsOverdue, Told, SweepIdle
  <2>5. TypeOK'
    BY <1>1, <2>1, <2>2, WindowAssumption DEF OverlapInv, TypeOK
  <2>6. NothingYet' /\ RequestsDecide' /\ CurrentCopies' /\ AssignmentKept' /\ WindowsOutlast'
    BY <1>1, <2>1
    DEF OverlapInv, NothingYet, RequestsDecide, CurrentCopies, AssignmentKept,
        WindowsOutlast, Loaded, Renews
  <2> QED
    BY <2>4, <2>5, <2>6 DEF OverlapInv
<1>3. CASE SweepMark
  <2>1. /\ sweep.stage = "found" /\ order' = MarkOverdue(order)
        /\ sweep' = [sweep EXCEPT !.stage = "marked"] /\ UNCHANGED <<alerts, announced>>
    BY <1>3 DEF SweepMark
  <2>2. /\ order' \in Order /\ order' # Absent /\ order'.status = "overdue"
        /\ order'.supplier = order.supplier /\ order'.dueAt = order.dueAt
        /\ order'.bankReview = order.bankReview
        /\ order'.fieldsFlagged = order.fieldsFlagged
        /\ order'.sendBacks = order.sendBacks /\ order'.flag = order.flag
    BY <1>1, <2>1, AbsentAssumption DEF MarkOverdue, Order, OrderStatus
  <2>3. sweep'.stage = "marked" /\ sweep'.window = sweep.window
    BY <2>1 DEF OverlapInv, TypeOK
  <2>4. TypeOK'
    BY <1>1, <2>1, <2>2 DEF OverlapInv, TypeOK
  <2>5. ToldIsOverdue'
    BY <1>1, <2>1, <2>2, <2>3 DEF OverlapInv, ToldIsOverdue, Told
  <2>6. NothingYet' /\ RequestsDecide' /\ WindowsOutlast' /\ AssignmentKept'
    BY <1>1, <2>2
    DEF OverlapInv, NothingYet, RequestsDecide, WindowsOutlast, AssignmentKept, Loaded, Renews
  <2>7. CurrentCopies'
    BY <1>1, <2>2 DEF OverlapInv, CurrentCopies, Loaded, LoopSound, EscalationReached
  <2> QED
    BY <2>4, <2>5, <2>6, <2>7 DEF OverlapInv
<1>4. CASE SweepAnnounce
  <2>1. /\ sweep.stage = "marked" /\ alerts' = OverdueAlerts(alerts)
        /\ announced' = announced \union {sweep.window} /\ sweep' = SweepIdle
        /\ UNCHANGED order
    BY <1>4 DEF SweepAnnounce
  <2>2. TypeOK'
    <3>1. alerts' \in SUBSET AlertType
      BY <2>1 DEF OverlapInv, TypeOK, OverdueAlerts, AlertType
    <3>2. announced' \in SUBSET Deadlines
      BY <2>1 DEF OverlapInv, TypeOK, ToldIsOverdue
    <3>3. sweep' \in [stage : {"idle", "found", "marked"}, window : 0 .. MaxWindows]
      BY <2>1, WindowAssumption DEF SweepIdle
    <3> QED
      BY <1>1, <2>1, <3>1, <3>2, <3>3 DEF OverlapInv, TypeOK
  <2>3. ToldIsOverdue'
    BY <1>1, <2>1 DEF OverlapInv, ToldIsOverdue, Told, SweepIdle
  <2>4. NothingYet' /\ RequestsDecide' /\ CurrentCopies' /\ AssignmentKept' /\ WindowsOutlast'
    BY <1>1, <2>1
    DEF OverlapInv, NothingYet, RequestsDecide, CurrentCopies, AssignmentKept,
        WindowsOutlast, Loaded, Renews
  <2> QED
    BY <2>2, <2>3, <2>4 DEF OverlapInv
<1> QED
  BY <1>2, <1>3, <1>4

\* Nothing is placed, loaded or lapsed at first.
LEMMA InitOverlap == Init => OverlapInv
BY AbsentAssumption, WindowAssumption
DEF Init, OverlapInv, TypeOK, NothingYet, RequestsDecide, WindowsOutlast, ToldIsOverdue,
    CurrentCopies, AssignmentKept, Loaded, Told, SweepIdle

\* Every action of Next, in the groups the lemmas take them.
LEMMA NextCases ==
  ASSUME Next
  PROVE  \/ WindowLapses \/ SweepFind \/ SweepMark \/ SweepAnnounce
         \/ \E w \in Workers : \/ PlaceOrder(w) \/ Loads(w) \/ ResendInvoice(w)
                               \/ Save(w) \/ FailSave(w) \/ CallSteps(w)
BY DEF Next, Loads, CallSteps

\* Every step keeps the invariant, whatever it overlaps.
LEMMA NextOverlap ==
  ASSUME OverlapInv, [Next]_vars
  PROVE  OverlapInv'
<1>1. CASE UNCHANGED vars
  BY <1>1
  DEF vars, OverlapInv, TypeOK, NothingYet, RequestsDecide, WindowsOutlast, ToldIsOverdue,
      CurrentCopies, AssignmentKept, Loaded, Renews, Told
<1>2. CASE Next
  BY <1>2, NextCases, LapseStep, SweepStep, PlaceStep, LoadStep, ResendStep, SaveStep,
     FailSaveStep, CallStep
<1> QED
  BY <1>1, <1>2

\* OverlapInv holds in every state the requests and the sweep can reach together.
THEOREM OverlapInvHolds == Spec => []OverlapInv
<1>1. Init => OverlapInv
  BY InitOverlap
<1>2. OverlapInv /\ [Next]_vars => OverlapInv'
  BY NextOverlap
<1> QED
  BY <1>1, <1>2, PTL DEF Spec

\* The state of overlapping requests is always well formed.
THEOREM RequestsTypeCorrect == Spec => []TypeOK
<1>1. OverlapInv => TypeOK
  BY DEF OverlapInv
<1> QED
  BY <1>1, OverlapInvHolds, PTL

\* However requests overlap, a mandate past BANK_ROUNDS_BEFORE_FLAG has been shown to an
\* admin, and one with the customer names a field to fix: what the version check of
\* bankReview.flagged is for (bank-review.service.ts).
THEOREM LoopAlwaysSurvives == Spec => []LoopSurvivesOverlap
<1>1. OverlapInv => LoopSurvivesOverlap
  BY DEF OverlapInv, CurrentCopies, LoopSound, LoopSurvivesOverlap
<1> QED
  BY <1>1, OverlapInvHolds, PTL

\* However requests overlap with the sweep, no window's lapse is announced twice
\* (pushOverdue: "Sent once per order by construction").
THEOREM AnnouncedOnceAlways == Spec => LapseAnnouncedOnce
<1>1. OverlapInv =>
        (sweep.stage = "marked" /\ sweep' = SweepIdle => sweep.window \notin announced)
  BY DEF OverlapInv, ToldIsOverdue
<1> QED
  BY <1>1, OverlapInvHolds, PTL DEF LapseAnnouncedOnce

\* However requests overlap, no step takes an order's supplier away again.
THEOREM AssignedForGoodAlways == Spec => AssignedForGood
<1>1. ASSUME OverlapInv, [Next]_vars, order # Absent, order.supplier # Nobody
      PROVE  order'.supplier # Nobody /\ order'.status # "unassigned"
  <2>1. order.status # "unassigned"
    BY <1>1 DEF OverlapInv, AssignmentKept
  <2>2. order \in Order
    BY <1>1 DEF OverlapInv, TypeOK
  <2>3. CASE UNCHANGED order
    BY <1>1, <2>1, <2>3
  <2>4. CASE SweepMark
    BY <1>1, <2>2, <2>4 DEF SweepMark, MarkOverdue, Order
  <2>5. ASSUME NEW w \in Workers, Save(w)
        PROVE  order'.supplier # Nobody /\ order'.status # "unassigned"
    BY <1>1, <2>1, <2>5, SaveKeepsAssignment DEF Save, Loaded
  <2>6. ASSUME NEW w \in Workers, CallSteps(w)
        PROVE  order'.supplier # Nobody /\ order'.status # "unassigned"
    BY <1>1, <2>1, <2>2, <2>6
    DEF CallSteps, RaiseAlert, ResolveAlert, ClearAlerts, RecordEmail, LoseRecord, Order
  <2>7. ASSUME NEW w \in Workers, Loads(w)
        PROVE  UNCHANGED order
    BY <2>7, LoadDecides DEF Load
  <2> QED
    BY <1>1, <2>3, <2>4, <2>5, <2>6, <2>7, NextCases
    DEF vars, WindowLapses, SweepFind, SweepAnnounce, PlaceOrder, Exists, ResendInvoice,
        FailSave
<1> QED
  BY <1>1, OverlapInvHolds, PTL DEF Spec, AssignedForGood

-----------------------------------------------------------------------------
(* One at a time: the documents.                                            *)

\* The paths of an order.
Paths == {"supplier", "reassignedFrom", "status", "invoiceStatus", "invoice",
          "invoiceEmail", "communicationMethod", "v62", "bankReview", "fieldsFlagged",
          "sendBacks", "flag", "dueAt"}

Document(o) == o = [path \in Paths |-> o[path]]

\* Documents that agree on every path are one, and writing a path leaves a document.
LEMMA Documents ==
  /\ \A o \in Order : Document(o)
  /\ \A o, v : \A path \in Paths : Document(o) => Document([o EXCEPT ![path] = v])
<1>1. \A o \in Order : Document(o)
  BY DEF Document, Order, Paths
<1>2. ASSUME NEW o, NEW v, NEW path \in Paths, Document(o)
      PROVE  Document([o EXCEPT ![path] = v])
  BY <1>2 DEF Document
<1> QED
  BY <1>1, <1>2

\* Two documents that agree path by path are the same.
LEMMA SamePaths ==
  ASSUME NEW o, NEW p, Document(o), Document(p), \A path \in Paths : o[path] = p[path]
  PROVE  o = p
BY DEF Document

\* Seeing a deadline by its phase writes one path.
LEMMA PhaseIsDocument ==
  ASSUME NEW o, NEW n, Document(o)
  PROVE  Document(PhaseAt(o, n))
BY Documents DEF PhaseAt, Paths

\* A handler writes paths of a document, run either way.
LEMMA HandlersKeepDocuments ==
  ASSUME NEW o, NEW due, NEW target, Document(o)
  PROVE  /\ Document(AttachInvoice(o)) /\ Document(ApplyFlag(o)) /\ Document(Approve(o, due))
         /\ Document(RequestChanges(o)) /\ Document(Resubmit(o, due))
         /\ Document(MarkSent(o)) /\ Document(Reassign(o, target, due))
         /\ Document(SendBack(o, due)) /\ Document(Complete(o)) /\ Document(Cancel(o))
         /\ Document(MarkV62Printed(o)) /\ Document(MarkOverdue(o))
<1>1. Document(AttachInvoice(o))
  BY Documents DEF Document, Paths, AttachInvoice, SignOffMandate, IsFlagged
<1>2. Document(ApplyFlag(o))
  BY Documents DEF Document, Paths, ApplyFlag, PauseWindow, NotOverdue
<1>3. Document(Approve(o, due))
  BY Documents
  DEF Document, Paths, Approve, SignOffMandate, RestartWindow, NotOverdue, IsFlagged
<1>4. Document(RequestChanges(o))
  BY Documents
  DEF Document, Paths, RequestChanges, PauseWindow, Escalates, ApplyFlag, NotOverdue, RoundCap
<1>5. Document(Resubmit(o, due))
  BY Documents DEF Document, Paths, Resubmit, RestartWindow, NotOverdue, IsFlagged
<1>6. Document(MarkSent(o)) /\ Document(Reassign(o, target, due))
  BY Documents DEF Document, Paths, MarkSent, Reassign
<1>7. Document(SendBack(o, due))
  BY Documents
  DEF Document, Paths, SendBack, SendBackRestarts, RestartWindow, NotOverdue, IsFlagged
<1>8. /\ Document(Complete(o)) /\ Document(Cancel(o)) /\ Document(MarkV62Printed(o))
      /\ Document(MarkOverdue(o))
  BY Documents DEF Document, Paths, Complete, Cancel, MarkV62Printed, MarkOverdue
<1> QED
  BY <1>1, <1>2, <1>3, <1>4, <1>5, <1>6, <1>7, <1>8

\* The same of the handlers of the one-step lifecycle.
LEMMA OneStepKeepsDocuments ==
  ASSUME NEW o, NEW due, NEW target, Document(o)
  PROVE  /\ Document(OneStep!AttachInvoice(o)) /\ Document(OneStep!ApplyFlag(o))
         /\ Document(OneStep!Approve(o, due)) /\ Document(OneStep!RequestChanges(o))
         /\ Document(OneStep!Resubmit(o, due)) /\ Document(OneStep!MarkSent(o))
         /\ Document(OneStep!Reassign(o, target, due)) /\ Document(OneStep!SendBack(o, due))
         /\ Document(OneStep!Complete(o)) /\ Document(OneStep!Cancel(o))
         /\ Document(OneStep!MarkV62Printed(o)) /\ Document(OneStep!MarkOverdue(o))
<1>1. Document(OneStep!AttachInvoice(o))
  BY Documents
  DEF Document, Paths, OneStep!AttachInvoice, OneStep!SignOffMandate, OneStep!IsFlagged
<1>2. Document(OneStep!ApplyFlag(o))
  BY Documents
  DEF Document, Paths, OneStep!ApplyFlag, OneStep!PauseWindow, OneStep!NotOverdue
<1>3. Document(OneStep!Approve(o, due))
  BY Documents
  DEF Document, Paths, OneStep!Approve, OneStep!SignOffMandate, OneStep!RestartWindow,
      OneStep!NotOverdue, OneStep!IsFlagged
<1>4. Document(OneStep!RequestChanges(o))
  BY Documents
  DEF Document, Paths, OneStep!RequestChanges, OneStep!PauseWindow, OneStep!Escalates,
      OneStep!ApplyFlag, OneStep!NotOverdue, OneStep!RoundCap
<1>5. Document(OneStep!Resubmit(o, due))
  BY Documents
  DEF Document, Paths, OneStep!Resubmit, OneStep!RestartWindow, OneStep!NotOverdue,
      OneStep!IsFlagged
<1>6. Document(OneStep!MarkSent(o)) /\ Document(OneStep!Reassign(o, target, due))
  BY Documents DEF Document, Paths, OneStep!MarkSent, OneStep!Reassign
<1>7. Document(OneStep!SendBack(o, due))
  BY Documents
  DEF Document, Paths, OneStep!SendBack, OneStep!SendBackRestarts, OneStep!RestartWindow,
      OneStep!NotOverdue, OneStep!IsFlagged
<1>8. /\ Document(OneStep!Complete(o)) /\ Document(OneStep!Cancel(o))
      /\ Document(OneStep!MarkV62Printed(o)) /\ Document(OneStep!MarkOverdue(o))
  BY Documents
  DEF Document, Paths, OneStep!Complete, OneStep!Cancel, OneStep!MarkV62Printed,
      OneStep!MarkOverdue
<1> QED
  BY <1>1, <1>2, <1>3, <1>4, <1>5, <1>6, <1>7, <1>8

\* A handler's document, as of the phase of its window, is the one-step handler's: a fresh
\* window is one still running.
LEMMA HandlersPhased ==
  ASSUME NEW o \in Order, NEW n \in Nat, NEW due \in Nat, n < due
  PROVE  LET p == PhaseAt(o, n)
         IN  /\ PhaseAt(AttachInvoice(o), n) = OneStep!AttachInvoice(p)
             /\ PhaseAt(ApplyFlag(o), n) = OneStep!ApplyFlag(p)
             /\ PhaseAt(Approve(o, due), n) = OneStep!Approve(p, "running")
             /\ PhaseAt(RequestChanges(o), n) = OneStep!RequestChanges(p)
             /\ PhaseAt(Resubmit(o, due), n) = OneStep!Resubmit(p, "running")
             /\ PhaseAt(MarkSent(o), n) = OneStep!MarkSent(p)
             /\ \A target : PhaseAt(Reassign(o, target, due), n)
                              = OneStep!Reassign(p, target, "running")
             /\ PhaseAt(SendBack(o, due), n) = OneStep!SendBack(p, "running")
             /\ PhaseAt(Complete(o), n) = OneStep!Complete(p)
             /\ PhaseAt(Cancel(o), n) = OneStep!Cancel(p)
             /\ PhaseAt(MarkV62Printed(o), n) = OneStep!MarkV62Printed(p)
             /\ PhaseAt(MarkOverdue(o), n) = OneStep!MarkOverdue(p)
<1> DEFINE p == PhaseAt(o, n)
<1> USE WindowAssumption
<1>1. due # NoDeadline /\ ~(due <= n)
  OBVIOUS
<1>2. /\ Document(PhaseAt(AttachInvoice(o), n)) /\ Document(PhaseAt(ApplyFlag(o), n))
      /\ Document(PhaseAt(Approve(o, due), n)) /\ Document(PhaseAt(RequestChanges(o), n))
      /\ Document(PhaseAt(Resubmit(o, due), n)) /\ Document(PhaseAt(MarkSent(o), n))
      /\ \A target : Document(PhaseAt(Reassign(o, target, due), n))
      /\ Document(PhaseAt(SendBack(o, due), n)) /\ Document(PhaseAt(Complete(o), n))
      /\ Document(PhaseAt(Cancel(o), n)) /\ Document(PhaseAt(MarkV62Printed(o), n))
      /\ Document(PhaseAt(MarkOverdue(o), n))
  BY Documents, HandlersKeepDocuments, PhaseIsDocument
<1>3. Document(p)
  BY Documents, PhaseIsDocument
<1>4. PhaseAt(AttachInvoice(o), n) = OneStep!AttachInvoice(p)
  <2> DEFINE a == PhaseAt(AttachInvoice(o), n)
             b == OneStep!AttachInvoice(p)
  <2>1. /\ a.supplier = b.supplier /\ a.reassignedFrom = b.reassignedFrom
        /\ a.status = b.status /\ a.invoiceStatus = b.invoiceStatus
        /\ a.invoice = b.invoice /\ a.invoiceEmail = b.invoiceEmail
        /\ a.communicationMethod = b.communicationMethod /\ a.v62 = b.v62
        /\ a.bankReview = b.bankReview /\ a.fieldsFlagged = b.fieldsFlagged
        /\ a.sendBacks = b.sendBacks /\ a.flag = b.flag /\ a.dueAt = b.dueAt
    BY DEF Order, PhaseAt, AttachInvoice, SignOffMandate, IsFlagged, OneStep!AttachInvoice,
           OneStep!SignOffMandate, OneStep!IsFlagged
  <2>2. Document(a) /\ Document(b)
    BY <1>3, <1>2, OneStepKeepsDocuments
  <2> HIDE DEF a, b
  <2>3. \A path \in Paths : a[path] = b[path]
    BY <2>1 DEF Paths
  <2>4. a = b
    BY <2>2, <2>3, SamePaths
  <2> QED
    BY <2>4 DEF a, b
<1>5. PhaseAt(ApplyFlag(o), n) = OneStep!ApplyFlag(p)
  <2>1. \A path \in Paths : PhaseAt(ApplyFlag(o), n)[path] = OneStep!ApplyFlag(p)[path]
    BY DEF Paths, Order, PhaseAt, ApplyFlag, PauseWindow, NotOverdue, OneStep!ApplyFlag,
           OneStep!PauseWindow, OneStep!NotOverdue
  <2> QED
    BY <1>2, <1>3, <2>1, SamePaths, OneStepKeepsDocuments
<1>6. PhaseAt(Approve(o, due), n) = OneStep!Approve(p, "running")
  <2> DEFINE a == PhaseAt(Approve(o, due), n)
             b == OneStep!Approve(p, "running")
  <2>1. /\ a.supplier = b.supplier /\ a.reassignedFrom = b.reassignedFrom
        /\ a.invoiceStatus = b.invoiceStatus
        /\ a.invoice = b.invoice /\ a.invoiceEmail = b.invoiceEmail
        /\ a.communicationMethod = b.communicationMethod /\ a.v62 = b.v62
        /\ a.bankReview = b.bankReview /\ a.fieldsFlagged = b.fieldsFlagged
        /\ a.sendBacks = b.sendBacks /\ a.flag = b.flag
    BY <1>1
    DEF Order, PhaseAt, Approve, SignOffMandate, RestartWindow, NotOverdue, IsFlagged,
        OneStep!Approve, OneStep!SignOffMandate, OneStep!RestartWindow, OneStep!NotOverdue,
        OneStep!IsFlagged
  <2>2. a.status = b.status
    BY <1>1
    DEF Order, PhaseAt, Approve, SignOffMandate, RestartWindow, NotOverdue, IsFlagged,
        OneStep!Approve, OneStep!SignOffMandate, OneStep!RestartWindow, OneStep!NotOverdue,
        OneStep!IsFlagged
  <2>3. a.dueAt = b.dueAt
    BY <1>1
    DEF Order, PhaseAt, Approve, SignOffMandate, RestartWindow, NotOverdue, IsFlagged,
        OneStep!Approve, OneStep!SignOffMandate, OneStep!RestartWindow, OneStep!NotOverdue,
        OneStep!IsFlagged
  <2>4. Document(a) /\ Document(b)
    BY <1>3, <1>2, OneStepKeepsDocuments
  <2> HIDE DEF a, b
  <2>5. \A path \in Paths : a[path] = b[path]
    BY <2>1, <2>2, <2>3 DEF Paths
  <2>6. a = b
    BY <2>4, <2>5, SamePaths
  <2> QED
    BY <2>6 DEF a, b
<1>7. PhaseAt(RequestChanges(o), n) = OneStep!RequestChanges(p)
  <2> DEFINE a == PhaseAt(RequestChanges(o), n)
             b == OneStep!RequestChanges(p)
  <2>1. /\ a.supplier = b.supplier /\ a.reassignedFrom = b.reassignedFrom
        /\ a.status = b.status /\ a.invoiceStatus = b.invoiceStatus
        /\ a.invoice = b.invoice /\ a.invoiceEmail = b.invoiceEmail
        /\ a.communicationMethod = b.communicationMethod /\ a.v62 = b.v62
        /\ a.bankReview = b.bankReview /\ a.fieldsFlagged = b.fieldsFlagged
        /\ a.sendBacks = b.sendBacks /\ a.flag = b.flag /\ a.dueAt = b.dueAt
    BY DEF Order, PhaseAt, RequestChanges, PauseWindow, Escalates, ApplyFlag, NotOverdue,
           IsFlagged, RoundCap, OneStep!RequestChanges, OneStep!PauseWindow,
           OneStep!Escalates, OneStep!ApplyFlag, OneStep!NotOverdue, OneStep!IsFlagged,
           OneStep!RoundCap
  <2>2. Document(a) /\ Document(b)
    BY <1>3, <1>2, OneStepKeepsDocuments
  <2> HIDE DEF a, b
  <2>3. \A path \in Paths : a[path] = b[path]
    BY <2>1 DEF Paths
  <2>4. a = b
    BY <2>2, <2>3, SamePaths
  <2> QED
    BY <2>4 DEF a, b
<1>8. PhaseAt(Resubmit(o, due), n) = OneStep!Resubmit(p, "running")
  <2> DEFINE a == PhaseAt(Resubmit(o, due), n)
             b == OneStep!Resubmit(p, "running")
  <2>1. /\ a.supplier = b.supplier /\ a.reassignedFrom = b.reassignedFrom
        /\ a.invoiceStatus = b.invoiceStatus
        /\ a.invoice = b.invoice /\ a.invoiceEmail = b.invoiceEmail
        /\ a.communicationMethod = b.communicationMethod /\ a.v62 = b.v62
        /\ a.bankReview = b.bankReview /\ a.fieldsFlagged = b.fieldsFlagged
        /\ a.sendBacks = b.sendBacks /\ a.flag = b.flag
    BY <1>1
    DEF Order, PhaseAt, Resubmit, RestartWindow, NotOverdue, IsFlagged,
        OneStep!Resubmit, OneStep!RestartWindow, OneStep!NotOverdue, OneStep!IsFlagged
  <2>2. a.status = b.status
    BY <1>1
    DEF Order, PhaseAt, Resubmit, RestartWindow, NotOverdue, IsFlagged,
        OneStep!Resubmit, OneStep!RestartWindow, OneStep!NotOverdue, OneStep!IsFlagged
  <2>3. a.dueAt = b.dueAt
    BY <1>1
    DEF Order, PhaseAt, Resubmit, RestartWindow, NotOverdue, IsFlagged,
        OneStep!Resubmit, OneStep!RestartWindow, OneStep!NotOverdue, OneStep!IsFlagged
  <2>4. Document(a) /\ Document(b)
    BY <1>3, <1>2, OneStepKeepsDocuments
  <2> HIDE DEF a, b
  <2>5. \A path \in Paths : a[path] = b[path]
    BY <2>1, <2>2, <2>3 DEF Paths
  <2>6. a = b
    BY <2>4, <2>5, SamePaths
  <2> QED
    BY <2>6 DEF a, b
<1>9. PhaseAt(MarkSent(o), n) = OneStep!MarkSent(p)
  <2>1. \A path \in Paths : PhaseAt(MarkSent(o), n)[path] = OneStep!MarkSent(p)[path]
    BY DEF Paths, Order, PhaseAt, MarkSent, OneStep!MarkSent
  <2> QED
    BY <1>2, <1>3, <2>1, SamePaths, OneStepKeepsDocuments
<1>10. ASSUME NEW target
      PROVE  PhaseAt(Reassign(o, target, due), n) = OneStep!Reassign(p, target, "running")
  <2>1. \A path \in Paths :
          PhaseAt(Reassign(o, target, due), n)[path]
            = OneStep!Reassign(p, target, "running")[path]
    BY <1>1 DEF Paths, Order, PhaseAt, Reassign, OneStep!Reassign
  <2> QED
    BY <1>2, <1>3, <2>1, SamePaths, OneStepKeepsDocuments
<1>11. PhaseAt(SendBack(o, due), n) = OneStep!SendBack(p, "running")
  <2> DEFINE a == PhaseAt(SendBack(o, due), n)
             b == OneStep!SendBack(p, "running")
  <2>1. /\ a.supplier = b.supplier /\ a.reassignedFrom = b.reassignedFrom
        /\ a.invoiceStatus = b.invoiceStatus
        /\ a.invoice = b.invoice /\ a.invoiceEmail = b.invoiceEmail
        /\ a.communicationMethod = b.communicationMethod /\ a.v62 = b.v62
        /\ a.bankReview = b.bankReview /\ a.fieldsFlagged = b.fieldsFlagged
        /\ a.sendBacks = b.sendBacks /\ a.flag = b.flag
    BY <1>1
    DEF Order, PhaseAt, SendBack, SendBackRestarts, RestartWindow, NotOverdue,
        IsFlagged, OneStep!SendBack, OneStep!SendBackRestarts, OneStep!RestartWindow,
        OneStep!NotOverdue, OneStep!IsFlagged
  <2>2. a.status = b.status
    BY <1>1
    DEF Order, PhaseAt, SendBack, SendBackRestarts, RestartWindow, NotOverdue,
        IsFlagged, OneStep!SendBack, OneStep!SendBackRestarts, OneStep!RestartWindow,
        OneStep!NotOverdue, OneStep!IsFlagged
  <2>3. a.dueAt = b.dueAt
    BY <1>1
    DEF Order, PhaseAt, SendBack, SendBackRestarts, RestartWindow, NotOverdue,
        IsFlagged, OneStep!SendBack, OneStep!SendBackRestarts, OneStep!RestartWindow,
        OneStep!NotOverdue, OneStep!IsFlagged
  <2>4. Document(a) /\ Document(b)
    BY <1>3, <1>2, OneStepKeepsDocuments
  <2> HIDE DEF a, b
  <2>5. \A path \in Paths : a[path] = b[path]
    BY <2>1, <2>2, <2>3 DEF Paths
  <2>6. a = b
    BY <2>4, <2>5, SamePaths
  <2> QED
    BY <2>6 DEF a, b
<1>12. PhaseAt(Complete(o), n) = OneStep!Complete(p)
  <2>1. \A path \in Paths : PhaseAt(Complete(o), n)[path] = OneStep!Complete(p)[path]
    BY DEF Paths, Order, PhaseAt, Complete, OneStep!Complete
  <2> QED
    BY <1>2, <1>3, <2>1, SamePaths, OneStepKeepsDocuments
<1>13. PhaseAt(Cancel(o), n) = OneStep!Cancel(p)
  <2>1. \A path \in Paths : PhaseAt(Cancel(o), n)[path] = OneStep!Cancel(p)[path]
    BY DEF Paths, Order, PhaseAt, Cancel, OneStep!Cancel
  <2> QED
    BY <1>2, <1>3, <2>1, SamePaths, OneStepKeepsDocuments
<1>14. PhaseAt(MarkV62Printed(o), n) = OneStep!MarkV62Printed(p)
  <2>1. \A path \in Paths :
          PhaseAt(MarkV62Printed(o), n)[path] = OneStep!MarkV62Printed(p)[path]
    BY DEF Paths, Order, PhaseAt, MarkV62Printed, OneStep!MarkV62Printed
  <2> QED
    BY <1>2, <1>3, <2>1, SamePaths, OneStepKeepsDocuments
<1>15. PhaseAt(MarkOverdue(o), n) = OneStep!MarkOverdue(p)
  <2>1. \A path \in Paths : PhaseAt(MarkOverdue(o), n)[path] = OneStep!MarkOverdue(p)[path]
    BY DEF Paths, Order, PhaseAt, MarkOverdue, OneStep!MarkOverdue
  <2> QED
    BY <1>2, <1>3, <2>1, SamePaths, OneStepKeepsDocuments
<1> QED
  BY <1>4, <1>5, <1>6, <1>7, <1>8, <1>9, <1>10, <1>11, <1>12, <1>13, <1>14, <1>15

\* What the guards and the alerts of a handler ask of an order is the same of its phase,
\* and a phase is never the absence of an order.
LEMMA GuardsPhased ==
  ASSUME NEW o \in Order, NEW n \in Nat
  PROVE  LET p == PhaseAt(o, n)
         IN  /\ p # Absent /\ p.supplier = o.supplier
             /\ p.communicationMethod = o.communicationMethod
             /\ OneStep!CanAttachInvoice(p) <=> CanAttachInvoice(o)
             /\ OneStep!CanFlag(p) <=> CanFlag(o)
             /\ OneStep!AwaitsReview(p) <=> AwaitsReview(o)
             /\ OneStep!CanResubmit(p) <=> CanResubmit(o)
             /\ OneStep!CanMarkSent(p) <=> CanMarkSent(o)
             /\ \A target : OneStep!CanReassign(p, target) <=> CanReassign(o, target)
             /\ OneStep!CanAnswerFlag(p) <=> CanAnswerFlag(o)
             /\ OneStep!CanMarkV62Printed(p) <=> CanMarkV62Printed(o)
             /\ OneStep!CanResendInvoiceEmail(p) <=> CanResendInvoiceEmail(o)
             /\ \A a : /\ OneStep!AttachInvoiceAlerts(p, a) = AttachInvoiceAlerts(o, a)
                       /\ OneStep!RequestChangesAlerts(p, a) = RequestChangesAlerts(o, a)
                       /\ OneStep!SendBackAlerts(p, a) = SendBackAlerts(o, a)
<1> DEFINE p == PhaseAt(o, n)
<1>1. /\ p.supplier = o.supplier /\ p.status = o.status
      /\ p.invoiceStatus = o.invoiceStatus /\ p.invoice = o.invoice
      /\ p.communicationMethod = o.communicationMethod /\ p.v62 = o.v62
      /\ p.bankReview = o.bankReview /\ p.sendBacks = o.sendBacks /\ p.flag = o.flag
  BY DEF PhaseAt, Order
<1>2. p \in OneStep!Order
  BY DEF PhaseAt, Order, OneStep!Order, OneStep!Holder, Holder, OneStep!OrderStatus,
         OrderStatus, OneStep!InvoiceStatus, InvoiceStatus, OneStep!CommunicationMethod,
         CommunicationMethod, OneStep!V62State, V62State, OneStep!BankReviewStatus,
         BankReviewStatus, OneStep!RoundCap, RoundCap, OneStep!FlagState, FlagState
<1>3. p # Absent
  BY <1>2, PhasedAssumption
<1> HIDE DEF p
<1>4. /\ OneStep!CanAttachInvoice(p) <=> CanAttachInvoice(o)
      /\ OneStep!CanFlag(p) <=> CanFlag(o)
      /\ OneStep!AwaitsReview(p) <=> AwaitsReview(o)
      /\ OneStep!CanResubmit(p) <=> CanResubmit(o)
      /\ OneStep!CanMarkSent(p) <=> CanMarkSent(o)
      /\ \A target : OneStep!CanReassign(p, target) <=> CanReassign(o, target)
      /\ OneStep!CanAnswerFlag(p) <=> CanAnswerFlag(o)
      /\ OneStep!CanMarkV62Printed(p) <=> CanMarkV62Printed(o)
      /\ OneStep!CanResendInvoiceEmail(p) <=> CanResendInvoiceEmail(o)
  BY <1>1
  DEF CanAttachInvoice, CanFlag, AwaitsReview, CanResubmit, CanMarkSent, CanReassign,
      CanAnswerFlag, CanMarkV62Printed, CanResendInvoiceEmail, Live, IsFlagged,
      OneStep!CanAttachInvoice, OneStep!CanFlag, OneStep!AwaitsReview, OneStep!CanResubmit,
      OneStep!CanMarkSent, OneStep!CanReassign, OneStep!CanAnswerFlag,
      OneStep!CanMarkV62Printed, OneStep!CanResendInvoiceEmail, OneStep!Live,
      OneStep!IsFlagged
<1>5. \A a : /\ OneStep!AttachInvoiceAlerts(p, a) = AttachInvoiceAlerts(o, a)
             /\ OneStep!RequestChangesAlerts(p, a) = RequestChangesAlerts(o, a)
             /\ OneStep!SendBackAlerts(p, a) = SendBackAlerts(o, a)
  BY <1>1
  DEF AttachInvoiceAlerts, RequestChangesAlerts, SendBackAlerts, FlagAlerts, IsFlagged,
      Escalates, SendBackRestarts, OneStep!AttachInvoiceAlerts,
      OneStep!RequestChangesAlerts, OneStep!SendBackAlerts, OneStep!FlagAlerts,
      OneStep!IsFlagged, OneStep!Escalates, OneStep!SendBackRestarts
<1> QED
  BY <1>1, <1>3, <1>4, <1>5 DEF p

-----------------------------------------------------------------------------
(* One at a time: the calls.                                                *)

\* What one call makes of the alerts.
CallTo(call, a) ==
  IF call.do = "clear" THEN {}
  ELSE IF call.do = "raise" THEN a \union {call.of}
  ELSE IF call.do = "resolve" THEN a \ {call.of}
  ELSE a

EmailsIn(calls) ==
  {cause \in {"upload", "resend"} : \E i \in DOMAIN calls : calls[i] = Email(cause)}

EmailLast(calls) == \A i \in DOMAIN calls : calls[i].do = "email" => i = Len(calls)

\* A list of calls made of a first one and the others.
LEMMA FirstThenRest ==
  ASSUME NEW call, NEW rest \in Seq(Call), call \in Call
  PROVE  LET calls == <<call>> \o rest
         IN  /\ calls \in Seq(Call) /\ calls # <<>>
             /\ DOMAIN calls = 1 .. Len(rest) + 1 /\ Len(calls) = Len(rest) + 1
             /\ Len(rest) \in Nat /\ DOMAIN rest = 1 .. Len(rest)
             /\ calls[1] = call /\ \A i \in DOMAIN rest : calls[i + 1] = rest[i]
             /\ \A i \in DOMAIN calls : i # 1 => i - 1 \in DOMAIN rest
             /\ Head(calls) = call /\ Tail(calls) = rest
OBVIOUS

\* Two lists of one call make a list of two.
LEMMA OneThenOne ==
  ASSUME NEW s, NEW t
  PROVE  <<s>> \o <<t>> = <<s, t>>
<1>1. <<s>> \in Seq({s, t}) /\ <<t>> \in Seq({s, t}) /\ <<s, t>> \in Seq({s, t})
  OBVIOUS
<1>2. <<s>> \o <<t>> \in Seq({s, t}) /\ Len(<<s>> \o <<t>>) = 2 /\ Len(<<s, t>>) = 2
  BY <1>1
<1>3. \A i \in 1 .. 2 : (<<s>> \o <<t>>)[i] = <<s, t>>[i]
  BY <1>1
<1> QED
  BY <1>1, <1>2, <1>3, SeqEqual

\* Settling calls is making the first and settling the rest.
LEMMA SettledFirst ==
  ASSUME NEW a \in SUBSET AlertType, NEW call \in Call, NEW rest \in Seq(Call)
  PROVE  Settled(a, <<call>> \o rest) = Settled(CallTo(call, a), rest)
<1> DEFINE calls == <<call>> \o rest
<1>1. /\ DOMAIN calls = 1 .. Len(rest) + 1 /\ Len(rest) \in Nat
      /\ DOMAIN rest = 1 .. Len(rest)
      /\ calls[1] = call /\ \A i \in DOMAIN rest : calls[i + 1] = rest[i]
  BY FirstThenRest
<1> HIDE DEF calls
<1>2. ASSUME NEW t \in AlertType
      PROVE  t \in Settled(a, calls) <=> t \in Settled(CallTo(call, a), rest)
  <2> DEFINE about == {i \in DOMAIN calls : About(calls[i], t)}
             later == {i \in DOMAIN rest : About(rest[i], t)}
  <2>1. \A i \in later : i + 1 \in about
    BY <1>1
  <2>2. \A i \in about : i # 1 => i - 1 \in later
    <3>1. ASSUME NEW i \in about, i # 1
          PROVE  i - 1 \in later
      <4>1. i - 1 \in DOMAIN rest /\ calls[(i - 1) + 1] = rest[i - 1]
        BY <1>1, <3>1
      <4>2. (i - 1) + 1 = i
        BY <1>1, <3>1
      <4> QED
        BY <3>1, <4>1, <4>2
    <3> QED
      BY <3>1
  <2>3. 1 \in about <=> About(call, t)
    BY <1>1
  <2>4. t \in Settled(a, calls) <=>
          IF about = {} THEN t \in a
          ELSE \E i \in about : calls[i].do = "raise" /\ \A j \in about : j <= i
    BY DEF Settled
  <2>5. t \in Settled(CallTo(call, a), rest) <=>
          IF later = {} THEN t \in CallTo(call, a)
          ELSE \E i \in later : rest[i].do = "raise" /\ \A j \in later : j <= i
    BY DEF Settled
  <2>6. /\ \A i \in about : i \in Nat /\ i >= 1
        /\ \A i \in later : i \in Nat /\ i >= 1 /\ calls[i + 1] = rest[i]
    BY <1>1
  <2>7. /\ call.do \in {"raise", "resolve", "clear", "email"}
        /\ calls[1] = call
    BY <1>1 DEF Call, ClearAll, Email
  <2> HIDE DEF about, later
  <2>8. CASE later = {} /\ About(call, t)
    <3>1. about = {1}
      BY <2>2, <2>3, <2>8
    <3>2. t \in CallTo(call, a) <=> call.do = "raise"
      BY <2>7, <2>8 DEF CallTo, About
    <3> QED
      BY <2>4, <2>5, <2>7, <2>8, <3>1, <3>2
  <2>9. CASE later = {} /\ ~About(call, t)
    <3>1. about = {}
      BY <2>2, <2>3, <2>9
    <3>2. t \in CallTo(call, a) <=> t \in a
      BY <2>7, <2>9 DEF CallTo, About
    <3> QED
      BY <2>4, <2>5, <2>9, <3>1, <3>2
  <2>10. CASE later # {}
    <3>1. about # {}
      BY <2>1, <2>10
    <3>2. (\E i \in about : calls[i].do = "raise" /\ \A j \in about : j <= i)
            => \E i \in later : rest[i].do = "raise" /\ \A j \in later : j <= i
      <4> SUFFICES ASSUME NEW i \in about, calls[i].do = "raise", \A j \in about : j <= i
                   PROVE  \E k \in later : rest[k].do = "raise" /\ \A j \in later : j <= k
        OBVIOUS
      <4>1. i # 1
        <5>1. PICK j \in later : TRUE
          BY <2>10
        <5> QED
          BY <2>1, <2>6, <5>1
      <4>2. i - 1 \in later /\ (i - 1) + 1 = i
        BY <2>2, <2>6, <4>1
      <4>3. rest[i - 1].do = "raise"
        BY <2>6, <4>2
      <4>4. \A j \in later : j <= i - 1
        BY <2>1, <2>6
      <4> QED
        BY <4>2, <4>3, <4>4
    <3>3. (\E i \in later : rest[i].do = "raise" /\ \A j \in later : j <= i)
            => \E i \in about : calls[i].do = "raise" /\ \A j \in about : j <= i
      <4> SUFFICES ASSUME NEW i \in later, rest[i].do = "raise", \A j \in later : j <= i
                   PROVE  \E k \in about : calls[k].do = "raise" /\ \A j \in about : j <= k
        OBVIOUS
      <4>1. i + 1 \in about /\ calls[i + 1].do = "raise"
        BY <2>1, <2>6
      <4>2. ASSUME NEW j \in about
            PROVE  j <= i + 1
        <5>1. CASE j = 1
          BY <2>6, <5>1
        <5>2. CASE j # 1
          <6>1. j - 1 \in later /\ j - 1 <= i
            BY <2>2, <5>2
          <6> QED
            BY <2>6, <6>1
        <5> QED
          BY <5>1, <5>2
      <4> QED
        BY <4>1, <4>2
    <3> QED
      BY <2>4, <2>5, <2>10, <3>1, <3>2, <3>3
  <2> QED
    BY <2>8, <2>9, <2>10
<1>3. Settled(a, calls) = Settled(CallTo(call, a), rest)
  BY <1>2 DEF Settled
<1> QED
  BY <1>3 DEF calls

\* No calls change nothing and owe no email.
LEMMA SettledNone ==
  ASSUME NEW a \in SUBSET AlertType
  PROVE  Settled(a, <<>>) = a /\ EmailsIn(<<>>) = {} /\ EmailLast(<<>>)
BY DEF Settled, EmailsIn, EmailLast

\* The emails owed are the first call's, if it is one, and the rest's.
LEMMA EmailsFirst ==
  ASSUME NEW call \in Call, NEW rest \in Seq(Call)
  PROVE  /\ EmailsIn(<<call>> \o rest)
              = EmailsIn(rest) \union (IF call.do = "email" THEN {call.of} ELSE {})
         /\ EmailLast(<<call>> \o rest) => EmailLast(rest)
         /\ EmailLast(<<call>> \o rest) /\ call.do = "email" => rest = <<>>
         /\ EmailLast(rest) /\ (call.do # "email" \/ rest = <<>>)
              => EmailLast(<<call>> \o rest)
<1> DEFINE calls == <<call>> \o rest
<1>1. /\ DOMAIN calls = 1 .. Len(rest) + 1 /\ Len(calls) = Len(rest) + 1
      /\ Len(rest) \in Nat /\ DOMAIN rest = 1 .. Len(rest)
      /\ calls[1] = call /\ \A i \in DOMAIN rest : calls[i + 1] = rest[i]
      /\ \A i \in DOMAIN calls : i # 1 => i - 1 \in DOMAIN rest
  BY FirstThenRest
<1>2. \A i \in DOMAIN calls : i # 1 => calls[i] = rest[i - 1]
  <2>1. \A i \in DOMAIN calls : (i - 1) + 1 = i
    BY <1>1
  <2> QED
    BY <1>1, <2>1
<1>3. /\ call.do = "email" => call.of \in {"upload", "resend"} /\ call = Email(call.of)
      /\ \A cause : call = Email(cause) => call.do = "email" /\ call.of = cause
  BY DEF Call, ClearAll, Email
<1> HIDE DEF calls
<1>4. 1 \in DOMAIN calls /\ \A i \in DOMAIN rest : i + 1 \in DOMAIN calls
  BY <1>1
<1>5. EmailsIn(calls)
        = EmailsIn(rest) \union (IF call.do = "email" THEN {call.of} ELSE {})
  <2>1. \A cause : (\E i \in DOMAIN calls : calls[i] = Email(cause))
                     <=> call = Email(cause) \/ \E i \in DOMAIN rest : rest[i] = Email(cause)
    BY <1>1, <1>2, <1>4
  <2> QED
    BY <1>3, <2>1 DEF EmailsIn
<1>6. EmailLast(calls) => EmailLast(rest)
  <2> SUFFICES ASSUME EmailLast(calls), NEW i \in DOMAIN rest, rest[i].do = "email"
               PROVE  i = Len(rest)
    BY DEF EmailLast
  <2>1. i + 1 = Len(calls)
    BY <1>1, <1>4 DEF EmailLast
  <2> QED
    BY <1>1, <2>1
<1>7. EmailLast(calls) /\ call.do = "email" => rest = <<>>
  <2> SUFFICES ASSUME EmailLast(calls), call.do = "email"
               PROVE  rest = <<>>
    OBVIOUS
  <2>1. Len(rest) = 0
    BY <1>1, <1>4 DEF EmailLast
  <2> QED
    BY <2>1
<1>8. EmailLast(rest) /\ (call.do # "email" \/ rest = <<>>) => EmailLast(calls)
  <2> SUFFICES ASSUME EmailLast(rest), call.do # "email" \/ rest = <<>>,
                      NEW i \in DOMAIN calls, calls[i].do = "email"
               PROVE  i = Len(calls)
    BY DEF EmailLast
  <2>1. CASE i = 1
    <3>1. Len(rest) = 0
      BY <1>1, <2>1
    <3> QED
      BY <1>1, <2>1, <3>1
  <2>2. CASE i # 1
    <3>1. i - 1 = Len(rest)
      BY <1>1, <1>2, <2>2 DEF EmailLast
    <3> QED
      BY <1>1, <3>1
  <2> QED
    BY <2>1, <2>2
<1> QED
  BY <1>5, <1>6, <1>7, <1>8 DEF calls

\* Made after a, the calls come to b and owe the emails e, which are made last.
Comes(calls, a, b, e) ==
  calls \in Seq(Call) /\ Settled(a, calls) = b /\ EmailsIn(calls) = e /\ EmailLast(calls)

\* No calls come to no change.
LEMMA ComesNone ==
  ASSUME NEW a \in SUBSET AlertType
  PROVE  Comes(<<>>, a, a, {})
BY SettledNone DEF Comes

\* A call comes to what the others come to after it.
LEMMA ComesFirst ==
  ASSUME NEW a \in SUBSET AlertType, NEW b, NEW e, NEW call \in Call, call.do # "email",
         NEW rest, Comes(rest, CallTo(call, a), b, e)
  PROVE  Comes(<<call>> \o rest, a, b, e)
<1>1. rest \in Seq(Call)
  BY DEF Comes
<1>2. <<call>> \o rest \in Seq(Call)
  BY <1>1, FirstThenRest
<1>3. Settled(a, <<call>> \o rest) = b
  BY <1>1, SettledFirst DEF Comes
<1>4. EmailsIn(<<call>> \o rest) = EmailsIn(rest) \union {}
  BY <1>1, EmailsFirst
<1>5. EmailsIn(<<call>> \o rest) = e
  BY <1>4 DEF Comes
<1>6. EmailLast(<<call>> \o rest)
  BY <1>1, EmailsFirst DEF Comes
<1> QED
  BY <1>2, <1>3, <1>5, <1>6 DEF Comes

\* A single call comes to what it does.
LEMMA ComesOne ==
  ASSUME NEW a \in SUBSET AlertType, NEW call \in Call, call.do # "email",
         CallTo(call, a) \in SUBSET AlertType
  PROVE  Comes(<<call>>, a, CallTo(call, a), {})
<1>1. Comes(<<>>, CallTo(call, a), CallTo(call, a), {})
  BY ComesNone
<1>2. Comes(<<call>> \o <<>>, a, CallTo(call, a), {})
  BY <1>1, ComesFirst
<1>3. <<call>> \o <<>> = <<call>>
  OBVIOUS
<1> QED
  BY <1>2, <1>3

\* An email comes to no change of the alerts, and is owed.
LEMMA ComesEmail ==
  ASSUME NEW a \in SUBSET AlertType, NEW cause \in {"upload", "resend"}
  PROVE  Comes(<<Email(cause)>>, a, a, {cause})
<1>1. Email(cause) \in Call /\ Email(cause).do = "email" /\ Email(cause).of = cause
  BY CallTypes DEF Email
<1>2. <<>> \in Seq(Call) /\ <<Email(cause)>> \o <<>> = <<Email(cause)>>
  BY <1>1
<1>3. CallTo(Email(cause), a) = a
  BY DEF CallTo, Email
<1>4. Settled(a, <<Email(cause)>> \o <<>>) = a
  BY <1>1, <1>2, <1>3, SettledFirst, SettledNone
<1>5. /\ EmailsIn(<<Email(cause)>> \o <<>>) = {cause}
      /\ EmailLast(<<Email(cause)>> \o <<>>)
  BY <1>1, <1>2, EmailsFirst, SettledNone
<1> QED
  BY <1>1, <1>2, <1>4, <1>5 DEF Comes

\* A call made on a condition comes to what it does when it is made.
LEMMA ComesWhen ==
  ASSUME NEW a \in SUBSET AlertType, NEW b, NEW e, NEW call \in Call, call.do # "email",
         NEW condition \in BOOLEAN, NEW rest,
         Comes(rest, IF condition THEN CallTo(call, a) ELSE a, b, e)
  PROVE  Comes(When(condition, call) \o rest, a, b, e)
<1>1. CASE condition
  BY <1>1, ComesFirst DEF When
<1>2. CASE ~condition
  <2>1. rest \in Seq(Call) /\ <<>> \o rest = rest
    BY DEF Comes
  <2> QED
    BY <1>2, <2>1 DEF When
<1> QED
  BY <1>1, <1>2

\* What the calls of each handler come to: the alerts the one-step handler leaves.
LEMMA UploadCalls ==
  ASSUME NEW o \in Order, NEW a \in SUBSET AlertType
  PROVE  Comes(UploadSteps(o), a, AttachInvoiceAlerts(o, a),
               IF o.communicationMethod = "email" THEN {"upload"} ELSE {})
<1> DEFINE first  == When(IsFlagged(o), Resolve("order_flagged"))
           second == When(o.bankReview = "submitted", Raise("bank_approved"))
           last   == IF o.communicationMethod = "whatsapp"
                     THEN <<Raise("whatsapp_send_required")>> ELSE <<Email("upload")>>
           answered == IF IsFlagged(o) THEN a \ {"order_flagged"} ELSE a
           signed == IF o.bankReview = "submitted" THEN answered \union {"bank_approved"}
                     ELSE answered
           owed == IF o.communicationMethod = "email" THEN {"upload"} ELSE {}
           left == AttachInvoiceAlerts(o, a)
<1>1. /\ Resolve("order_flagged") \in Call /\ Raise("bank_approved") \in Call
      /\ Raise("whatsapp_send_required") \in Call
  BY CallTypes DEF AlertType
<1>2. answered \in SUBSET AlertType /\ signed \in SUBSET AlertType /\ left \in SUBSET AlertType
  BY DEF AlertType, AttachInvoiceAlerts
<1>3. Comes(last, signed, left, owed)
  <2>1. CASE o.communicationMethod = "whatsapp"
    <3>1. CallTo(Raise("whatsapp_send_required"), signed) = left
      BY <2>1 DEF CallTo, Raise, AttachInvoiceAlerts
    <3> QED
      BY <1>1, <1>2, <2>1, <3>1, ComesOne DEF Raise
  <2>2. CASE o.communicationMethod = "email"
    <3>1. left = signed
      BY <2>2 DEF AttachInvoiceAlerts
    <3> QED
      BY <1>2, <2>2, <3>1, ComesEmail
  <2> QED
    BY <2>1, <2>2 DEF Order, CommunicationMethod
<1>4. Comes(second \o last, answered, left, owed)
  <2>1. signed = IF o.bankReview = "submitted" THEN CallTo(Raise("bank_approved"), answered)
                 ELSE answered
    BY DEF CallTo, Raise
  <2> HIDE DEF last, signed, answered, left, owed
  <2> QED
    BY <1>1, <1>2, <1>3, <2>1, ComesWhen DEF Raise
<1>5. Comes(first \o (second \o last), a, left, owed)
  <2>1. answered = IF IsFlagged(o) THEN CallTo(Resolve("order_flagged"), a) ELSE a
    BY DEF CallTo, Resolve
  <2>2. IsFlagged(o) \in BOOLEAN
    BY DEF IsFlagged
  <2> HIDE DEF last, second, answered, left, owed
  <2> QED
    BY <1>1, <1>2, <1>4, <2>1, <2>2, ComesWhen DEF Resolve
<1>6. UploadSteps(o) = first \o (second \o last)
  <2>1. first \in Seq(Call) /\ second \in Seq(Call) /\ last \in Seq(Call)
    BY <1>1, <1>3, WhenType DEF IsFlagged, Comes
  <2>2. UploadSteps(o) = (first \o second) \o last
    BY DEF UploadSteps
  <2> HIDE DEF first, second, last
  <2> QED
    BY <2>1, <2>2, ConcatAssociative
<1> QED
  BY <1>5, <1>6

\* applyFlag's calls come to FlagAlerts.
LEMMA FlagCalls ==
  ASSUME NEW a \in SUBSET AlertType
  PROVE  Comes(AnnounceFlag, a, FlagAlerts(a), {})
<1>1. Raise("order_flagged") \in Call /\ Resolve("supplier_overdue") \in Call
  BY CallTypes DEF AlertType
<1>2. /\ CallTo(Raise("order_flagged"), a) = a \union {"order_flagged"}
      /\ CallTo(Resolve("supplier_overdue"), a \union {"order_flagged"}) = FlagAlerts(a)
      /\ a \union {"order_flagged"} \in SUBSET AlertType /\ FlagAlerts(a) \in SUBSET AlertType
  BY DEF CallTo, Raise, Resolve, FlagAlerts, AlertType
<1>3. Comes(<<Resolve("supplier_overdue")>>, a \union {"order_flagged"}, FlagAlerts(a), {})
  BY <1>1, <1>2, ComesOne DEF Resolve
<1>4. Comes(<<Raise("order_flagged")>> \o <<Resolve("supplier_overdue")>>, a, FlagAlerts(a), {})
  BY <1>1, <1>2, <1>3, ComesFirst DEF Raise
<1>5. <<Raise("order_flagged")>> \o <<Resolve("supplier_overdue")>> = AnnounceFlag
  BY OneThenOne DEF AnnounceFlag
<1> QED
  BY <1>4, <1>5

\* requestChanges' calls come to RequestChangesAlerts, escalated or not.
LEMMA ChangesCalls ==
  ASSUME NEW o \in Order, NEW a \in SUBSET AlertType
  PROVE  Comes(RequestChangesSteps(o), a, RequestChangesAlerts(o, a), {})
<1> DEFINE told == a \union {"bank_changes_requested"}
           rest == IF Escalates(o) THEN AnnounceFlag ELSE <<>>
<1>1. /\ Raise("bank_changes_requested") \in Call
      /\ CallTo(Raise("bank_changes_requested"), a) = told /\ told \in SUBSET AlertType
  BY CallTypes DEF AlertType, CallTo, Raise
<1>2. Comes(rest, told, RequestChangesAlerts(o, a), {})
  BY <1>1, FlagCalls, ComesNone DEF RequestChangesAlerts
<1>3. RequestChangesSteps(o) = <<Raise("bank_changes_requested")>> \o rest
  BY DEF RequestChangesSteps
<1> HIDE DEF told, rest
<1> QED
  BY <1>1, <1>2, <1>3, ComesFirst DEF Raise

\* sendBack's calls come to SendBackAlerts, the clock restarted or not.
LEMMA SendBackCalls ==
  ASSUME NEW o \in Order, NEW a \in SUBSET AlertType
  PROVE  Comes(SendBackSteps(o), a, SendBackAlerts(o, a), {})
<1> DEFINE answered == a \ {"order_flagged"}
           late == When(SendBackRestarts(o), Resolve("supplier_overdue"))
           left == SendBackAlerts(o, a)
<1>1. /\ Resolve("order_flagged") \in Call /\ Resolve("supplier_overdue") \in Call
      /\ CallTo(Resolve("order_flagged"), a) = answered
      /\ answered \in SUBSET AlertType /\ left \in SUBSET AlertType
      /\ left = IF SendBackRestarts(o) THEN CallTo(Resolve("supplier_overdue"), answered)
                ELSE answered
  BY CallTypes DEF AlertType, CallTo, Resolve, SendBackAlerts
<1>2. SendBackRestarts(o) \in BOOLEAN
  BY DEF SendBackRestarts
<1>3. Comes(<<>>, left, left, {})
  BY <1>1, ComesNone
<1>4. Comes(late \o <<>>, answered, left, {})
  <2> HIDE DEF answered, left
  <2> QED
    BY <1>1, <1>2, <1>3, ComesWhen DEF Resolve
<1>5. late \o <<>> = late
  BY <1>1, <1>2, WhenType
<1>6. Comes(<<Resolve("order_flagged")>> \o late, a, left, {})
  <2> HIDE DEF answered, left, late
  <2> QED
    BY <1>1, <1>4, <1>5, ComesFirst DEF Resolve
<1> QED
  BY <1>6 DEF SendBackSteps

\* What follows create() comes to PlacedAlerts.
LEMMA PlacedCalls ==
  ASSUME NEW o \in Order
  PROVE  Comes(PlacedSteps(o), {}, PlacedAlerts(o), {})
<1> DEFINE first  == When(o.supplier = Nobody, Raise("unassigned"))
           second == When(o.v62 # "none", Raise("v62_submitted"))
           third  == When(o.communicationMethod = "whatsapp", Raise("whatsapp_requested"))
           a1 == IF o.supplier = Nobody THEN {"unassigned"} ELSE {}
           a2 == IF o.v62 # "none" THEN a1 \union {"v62_submitted"} ELSE a1
           a3 == IF o.communicationMethod = "whatsapp" THEN a2 \union {"whatsapp_requested"}
                 ELSE a2
<1>1. /\ Raise("unassigned") \in Call /\ Raise("v62_submitted") \in Call
      /\ Raise("whatsapp_requested") \in Call
  BY CallTypes DEF AlertType
<1>2. /\ a1 \in SUBSET AlertType /\ a2 \in SUBSET AlertType /\ a3 \in SUBSET AlertType
      /\ {} \in SUBSET AlertType
  BY DEF AlertType
<1>3. /\ a1 = IF o.supplier = Nobody THEN CallTo(Raise("unassigned"), {}) ELSE {}
      /\ a2 = IF o.v62 # "none" THEN CallTo(Raise("v62_submitted"), a1) ELSE a1
      /\ a3 = IF o.communicationMethod = "whatsapp"
              THEN CallTo(Raise("whatsapp_requested"), a2) ELSE a2
  BY DEF CallTo, Raise
<1>4. first \in Seq(Call) /\ second \in Seq(Call) /\ third \in Seq(Call)
  BY <1>1, WhenType
<1>5. a3 = PlacedAlerts(o) /\ PlacedSteps(o) = (first \o second) \o third
  BY DEF PlacedAlerts, PlacedSteps
<1> HIDE DEF a1, a2, a3
<1>6. Comes(third \o <<>>, a2, a3, {})
  BY <1>1, <1>2, <1>3, ComesNone, ComesWhen DEF Raise
<1>7. third \o <<>> = third
  <2> HIDE DEF third
  <2> QED
    BY <1>4
<1>8. Comes(second \o third, a1, a3, {})
  <2>1. Comes(third, a2, a3, {})
    BY <1>6, <1>7
  <2> HIDE DEF third
  <2> QED
    BY <1>1, <1>2, <1>3, <2>1, ComesWhen DEF Raise
<1>9. Comes(first \o (second \o third), {}, a3, {})
  <2> HIDE DEF second, third
  <2> QED
    BY <1>1, <1>2, <1>3, <1>8, ComesWhen DEF Raise
<1>10. (first \o second) \o third = first \o (second \o third)
  <2> HIDE DEF first, second, third
  <2> QED
    BY <1>4, ConcatAssociative
<1> QED
  BY <1>5, <1>9, <1>10

\* The handlers that always make the same calls.
LEMMA PlainCalls ==
  ASSUME NEW a \in SUBSET AlertType
  PROVE  /\ Comes(<<Raise("bank_approved")>>, a, ApproveAlerts(a), {})
         /\ Comes(<<Resolve("bank_changes_requested")>>, a, ResubmitAlerts(a), {})
         /\ Comes(<<Resolve("whatsapp_send_required")>>, a, MarkSentAlerts(a), {})
         /\ Comes(<<Resolve("v62_submitted")>>, a, MarkV62PrintedAlerts(a), {})
         /\ Comes(<<ClearAll>>, a, {}, {})
         /\ Comes(<<Resolve("supplier_overdue"), Resolve("unassigned")>>, a,
                  ReassignAlerts(a), {})
<1>1. /\ Raise("bank_approved") \in Call /\ Resolve("bank_changes_requested") \in Call
      /\ Resolve("whatsapp_send_required") \in Call /\ Resolve("v62_submitted") \in Call
      /\ Resolve("supplier_overdue") \in Call /\ Resolve("unassigned") \in Call
      /\ ClearAll \in Call
  BY CallTypes DEF AlertType
<1>2. /\ CallTo(Raise("bank_approved"), a) = ApproveAlerts(a)
      /\ CallTo(Resolve("bank_changes_requested"), a) = ResubmitAlerts(a)
      /\ CallTo(Resolve("whatsapp_send_required"), a) = MarkSentAlerts(a)
      /\ CallTo(Resolve("v62_submitted"), a) = MarkV62PrintedAlerts(a)
      /\ CallTo(ClearAll, a) = {}
      /\ CallTo(Resolve("supplier_overdue"), a) = a \ {"supplier_overdue"}
      /\ CallTo(Resolve("unassigned"), a \ {"supplier_overdue"}) = ReassignAlerts(a)
  BY DEF CallTo, Raise, Resolve, ClearAll, ApproveAlerts, ResubmitAlerts, MarkSentAlerts,
         MarkV62PrintedAlerts, ReassignAlerts
<1>3. /\ Raise("bank_approved").do # "email" /\ ClearAll.do # "email"
      /\ \A t : Resolve(t).do # "email"
  BY DEF Raise, Resolve, ClearAll
<1>4. /\ ApproveAlerts(a) \in SUBSET AlertType /\ ResubmitAlerts(a) \in SUBSET AlertType
      /\ MarkSentAlerts(a) \in SUBSET AlertType /\ {} \in SUBSET AlertType
      /\ MarkV62PrintedAlerts(a) \in SUBSET AlertType
      /\ a \ {"supplier_overdue"} \in SUBSET AlertType
      /\ ReassignAlerts(a) \in SUBSET AlertType
  BY DEF ApproveAlerts, ResubmitAlerts, MarkSentAlerts, MarkV62PrintedAlerts, ReassignAlerts,
         AlertType
<1>5. /\ Comes(<<Raise("bank_approved")>>, a, ApproveAlerts(a), {})
      /\ Comes(<<Resolve("bank_changes_requested")>>, a, ResubmitAlerts(a), {})
      /\ Comes(<<Resolve("whatsapp_send_required")>>, a, MarkSentAlerts(a), {})
      /\ Comes(<<Resolve("v62_submitted")>>, a, MarkV62PrintedAlerts(a), {})
      /\ Comes(<<ClearAll>>, a, {}, {})
      /\ Comes(<<Resolve("unassigned")>>, a \ {"supplier_overdue"}, ReassignAlerts(a), {})
  BY <1>1, <1>2, <1>3, <1>4, ComesOne
<1>6. Comes(<<Resolve("supplier_overdue")>> \o <<Resolve("unassigned")>>, a,
            ReassignAlerts(a), {})
  BY <1>1, <1>2, <1>3, <1>4, <1>5, ComesFirst
<1>7. <<Resolve("supplier_overdue")>> \o <<Resolve("unassigned")>>
        = <<Resolve("supplier_overdue"), Resolve("unassigned")>>
  BY OneThenOne
<1> QED
  BY <1>5, <1>6, <1>7

-----------------------------------------------------------------------------
(* One at a time: the invariant.                                            *)

OneAtATime ==
  /\ \A v, w \in Workers : stage[v] # "idle" /\ stage[w] # "idle" => v = w
  /\ sweep # SweepIdle => \A w \in Workers : stage[w] = "idle"

\* What a request is about to save it decided on the order as it still is, and the window
\* it may start has not lapsed.
StillDecided ==
  \A w \in Workers :
    /\ ~stale[w]
    /\ Loaded(w) =>
         /\ read[w] = order
         /\ \E due \in Nat : since[w] < due /\ Decision(order, write[w], todo[w], due)

SerialInv ==
  /\ OneAtATime
  /\ StillDecided
  /\ sweep.stage = "found" => SweepMatches(order) /\ order.dueAt <= lapsed
  /\ \A w \in Workers : stage[w] = "after" => todo[w] # <<>> /\ EmailLast(todo[w])

\* Every decision leaves something to do after the save, an email last.
LEMMA DecisionLeaves ==
  ASSUME NEW o \in Order, NEW due, NEW x, NEW steps, Decision(o, x, steps, due)
  PROVE  steps # <<>> /\ EmailLast(steps)
<1>1. {} \in SUBSET AlertType
  OBVIOUS
<1>2. /\ EmailLast(UploadSteps(o)) /\ EmailLast(AnnounceFlag)
      /\ EmailLast(RequestChangesSteps(o)) /\ EmailLast(SendBackSteps(o))
  BY <1>1, UploadCalls, FlagCalls, ChangesCalls, SendBackCalls DEF Comes
<1>3. /\ EmailLast(<<Raise("bank_approved")>>) /\ EmailLast(<<Resolve("bank_changes_requested")>>)
      /\ EmailLast(<<Resolve("whatsapp_send_required")>>) /\ EmailLast(<<ClearAll>>)
      /\ EmailLast(<<Resolve("supplier_overdue"), Resolve("unassigned")>>)
      /\ EmailLast(<<Resolve("v62_submitted")>>)
  BY <1>1, PlainCalls DEF Comes
<1>4. UploadSteps(o) # <<>>
  <2> DEFINE first == When(IsFlagged(o), Resolve("order_flagged"))
                        \o When(o.bankReview = "submitted", Raise("bank_approved"))
             last  == IF o.communicationMethod = "whatsapp"
                      THEN <<Raise("whatsapp_send_required")>> ELSE <<Email("upload")>>
  <2>1. first \in Seq(Call)
    <3>1. /\ When(IsFlagged(o), Resolve("order_flagged")) \in Seq(Call)
          /\ When(o.bankReview = "submitted", Raise("bank_approved")) \in Seq(Call)
      BY WhenType, CallTypes DEF AlertType, IsFlagged
    <3> QED
      BY <3>1
  <2>2. last \in Seq(Call) /\ last # <<>>
    <3>1. /\ Raise("whatsapp_send_required") \in Call /\ Email("upload") \in Call
      BY CallTypes DEF AlertType
    <3> QED
      BY <3>1
  <2>3. UploadSteps(o) = first \o last
    BY DEF UploadSteps
  <2> HIDE DEF first, last
  <2> QED
    BY <2>1, <2>2, <2>3, ConcatEqualIffEmpty
<1>5. RequestChangesSteps(o) # <<>>
  <2>1. /\ Raise("bank_changes_requested") \in Call
        /\ (IF Escalates(o) THEN AnnounceFlag ELSE <<>>) \in Seq(Call)
    BY CallTypes, StepTypes DEF AlertType
  <2> QED
    BY <2>1, FirstThenRest DEF RequestChangesSteps
<1>6. SendBackSteps(o) # <<>>
  <2>1. /\ Resolve("order_flagged") \in Call
        /\ When(SendBackRestarts(o), Resolve("supplier_overdue")) \in Seq(Call)
    BY CallTypes, WhenType DEF AlertType, SendBackRestarts
  <2> QED
    BY <2>1, FirstThenRest DEF SendBackSteps
<1>7. AnnounceFlag # <<>>
  BY DEF AnnounceFlag
<1> QED
  BY <1>2, <1>3, <1>4, <1>5, <1>6, <1>7 DEF Decision

\* Nobody is busy at first.
LEMMA InitSerial == Init => SerialInv
BY DEF Init, SerialInv, OneAtATime, StillDecided, Loaded, SweepIdle

\* The calls a worker has left, without the first.
LEMMA AdvanceLeaves ==
  ASSUME OverlapInv, SerialInv, NEW w \in Workers, stage[w] = "after"
  PROVE  /\ Head(todo[w]) \in Call /\ Tail(todo[w]) \in Seq(Call)
         /\ todo[w] = <<Head(todo[w])>> \o Tail(todo[w])
         /\ Len(todo[w]) = 1 <=> Tail(todo[w]) = <<>>
         /\ EmailLast(Tail(todo[w]))
         /\ Head(todo[w]).do = "email" => Tail(todo[w]) = <<>>
<1>1. todo[w] \in Seq(Call) /\ todo[w] # <<>> /\ EmailLast(todo[w])
  BY DEF OverlapInv, TypeOK, SerialInv
<1>2. Head(todo[w]) \in Call /\ Tail(todo[w]) \in Seq(Call)
  BY <1>1
<1>3. todo[w] = <<Head(todo[w])>> \o Tail(todo[w])
  <2> DEFINE rebuilt == <<Head(todo[w])>> \o Tail(todo[w])
  <2>1. rebuilt \in Seq(Call) /\ Len(rebuilt) = Len(Tail(todo[w])) + 1 /\ Len(todo[w]) \in Nat
        /\ rebuilt[1] = Head(todo[w])
        /\ \A i \in 1 .. Len(Tail(todo[w])) : rebuilt[i + 1] = Tail(todo[w])[i]
    BY <1>1, <1>2, FirstThenRest
  <2>2. Len(Tail(todo[w])) = Len(todo[w]) - 1
        /\ \A i \in 1 .. Len(todo[w]) - 1 : Tail(todo[w])[i] = todo[w][i + 1]
    BY <1>1
  <2> HIDE DEF rebuilt
  <2>3. \A i \in 1 .. Len(todo[w]) : rebuilt[i] = todo[w][i]
    <3>1. ASSUME NEW i \in 1 .. Len(todo[w])
          PROVE  rebuilt[i] = todo[w][i]
      <4>1. CASE i = 1
        BY <1>1, <2>1, <4>1
      <4>2. CASE i # 1
        <5>1. i - 1 \in 1 .. Len(todo[w]) - 1 /\ (i - 1) + 1 = i
          BY <2>1, <4>2
        <5> QED
          BY <2>1, <2>2, <5>1
      <4> QED
        BY <4>1, <4>2
    <3> QED
      BY <3>1
  <2>4. Len(rebuilt) = Len(todo[w])
    BY <2>1, <2>2
  <2>5. rebuilt = todo[w]
    BY <1>1, <2>1, <2>3, <2>4, SeqEqual
  <2> QED
    BY <2>5 DEF rebuilt
<1>4. Len(todo[w]) = 1 <=> Tail(todo[w]) = <<>>
  <2>1. Len(todo[w]) \in Nat /\ Len(Tail(todo[w])) = Len(todo[w]) - 1
    BY <1>1
  <2>2. Len(Tail(todo[w])) = 0 <=> Tail(todo[w]) = <<>>
    BY <1>2, EmptySeq
  <2> QED
    BY <2>1, <2>2
<1>5. /\ EmailLast(Tail(todo[w]))
      /\ Head(todo[w]).do = "email" => Tail(todo[w]) = <<>>
  BY <1>1, <1>2, <1>3, EmailsFirst
<1> QED
  BY <1>2, <1>3, <1>4, <1>5

\* While requests do not overlap, every step keeps their turns.
LEMMA NextSerial ==
  ASSUME ~Overlap, OverlapInv, SerialInv, [Next]_vars
  PROVE  SerialInv'
<1> USE DEF Loaded
<1>1. CASE UNCHANGED vars
  BY <1>1 DEF vars, SerialInv, OneAtATime, StillDecided
<1>2. CASE WindowLapses
  <2>1. \A n \in Nat : n <= lapsed => n <= lapsed + 1
    BY DEF OverlapInv, TypeOK
  <2>2. sweep.stage = "found" => order.dueAt \in Nat
    BY WindowAssumption DEF OverlapInv, TypeOK, NothingYet, SweepIdle, Order
  <2> QED
    BY <1>2, <2>1, <2>2 DEF WindowLapses, requestVars, SerialInv, OneAtATime, StillDecided
<1>3. CASE SweepFind
  BY <1>3 DEF SweepFind, Quiet, requestVars, SerialInv, OneAtATime, StillDecided
<1>4. CASE SweepMark
  <2>1. sweep # SweepIdle /\ sweep'.stage = "marked"
    BY <1>4 DEF SweepMark, SweepIdle, OverlapInv, TypeOK
  <2> QED
    BY <1>4, <2>1 DEF SweepMark, requestVars, SerialInv, OneAtATime, StillDecided
<1>5. CASE SweepAnnounce
  BY <1>5 DEF SweepAnnounce, SweepIdle, requestVars, SerialInv, OneAtATime, StillDecided
<1>6. ASSUME NEW w \in Workers, PlaceOrder(w)
      PROVE  SerialInv'
  <2>1. Quiet
    BY <1>6 DEF PlaceOrder, MayStart
  <2>2. PICK h \in Holder, p \in Purchases :
          LET o == NewOrder(h, p.channel, p.review, p.v62, FreshDue)
          IN  /\ todo' = [todo EXCEPT ![w] = PlacedSteps(o)]
              /\ stage' = [stage EXCEPT ![w] = IF PlacedSteps(o) = <<>> THEN "idle"
                                               ELSE "after"]
    BY <1>6 DEF PlaceOrder
  <2>3. NewOrder(h, p.channel, p.review, p.v62, FreshDue) \in Order
    <3>1. order = Absent /\ issued = 0
      BY <1>6 DEF PlaceOrder, Exists, OverlapInv, NothingYet
    <3>2. FreshDue \in Deadlines
      BY <3>1, WindowAssumption DEF FreshDue
    <3> QED
      BY <3>2, NewOrderSound
  <2>4. EmailLast(PlacedSteps(NewOrder(h, p.channel, p.review, p.v62, FreshDue)))
    BY <2>3, PlacedCalls DEF Comes
  <2>5. UNCHANGED <<stale, sweep>> /\ sweep = SweepIdle
    BY <1>6, <2>1 DEF PlaceOrder, Quiet
  <2>6. \A v \in Workers : v # w => stage'[v] = "idle"
    BY <2>1, <2>2 DEF Quiet, OverlapInv, TypeOK
  <2>7. stage'[w] \in {"idle", "after"} /\
        (stage'[w] = "after" => todo'[w] # <<>> /\ EmailLast(todo'[w]))
    BY <2>2, <2>4 DEF OverlapInv, TypeOK
  <2> QED
    BY <2>5, <2>6, <2>7 DEF SerialInv, OneAtATime, StillDecided, SweepIdle
<1>7. ASSUME NEW w \in Workers, Loads(w)
      PROVE  SerialInv'
  <2>1. PICK x, steps : Decision(order, x, steps, FreshDue) /\ Load(w, x, steps)
    BY <1>7, LoadDecides
  <2>2. Quiet
    BY <2>1 DEF Load, MayStart
  <2>3. Stored < FreshDue /\ FreshDue \in Nat
    BY StoredBounds DEF OverlapInv, TypeOK, FreshDue
  <2>4. /\ stage'[w] = "loaded" /\ read'[w] = order /\ write'[w] = x
        /\ since'[w] = Stored /\ todo'[w] = steps
        /\ \A v \in Workers : v # w => stage'[v] = "idle"
        /\ UNCHANGED <<order, stale, sweep>> /\ sweep = SweepIdle
    BY <2>1, <2>2 DEF Load, Quiet, OverlapInv, TypeOK
  <2> QED
    BY <2>1, <2>3, <2>4 DEF SerialInv, OneAtATime, StillDecided, SweepIdle
<1>8. ASSUME NEW w \in Workers, ResendInvoice(w)
      PROVE  SerialInv'
  <2>1. Quiet
    BY <1>8 DEF ResendInvoice, MayStart
  <2>2. /\ todo'[w] = <<Email("resend")>>
        /\ \A v \in Workers : v # w => stage'[v] = "idle"
        /\ stage'[w] = "after"
        /\ UNCHANGED <<order, stale, sweep>> /\ sweep = SweepIdle
    BY <1>8, <2>1 DEF ResendInvoice, Quiet, OverlapInv, TypeOK
  <2>3. EmailLast(<<Email("resend")>>) /\ <<Email("resend")>> # <<>>
    <3>1. Comes(<<Email("resend")>>, {}, {}, {"resend"})
      BY ComesEmail
    <3> QED
      BY <3>1 DEF Comes
  <2> QED
    BY <2>2, <2>3 DEF SerialInv, OneAtATime, StillDecided, SweepIdle
<1>9. ASSUME NEW w \in Workers, Save(w)
      PROVE  SerialInv'
  <2>1. order \in Order
    BY <1>9, SavingFacts DEF Save
  <2>2. PICK due \in Nat : Decision(order, write[w], todo[w], due)
    BY <1>9 DEF Save, SerialInv, StillDecided
  <2>3. todo[w] # <<>> /\ EmailLast(todo[w])
    BY <2>1, <2>2, DecisionLeaves
  <2>4. \A v \in Workers : v # w => stage[v] = "idle"
    BY <1>9 DEF Save, SerialInv, OneAtATime
  <2>5. sweep = SweepIdle
    BY <1>9 DEF Save, SerialInv, OneAtATime
  <2>6. /\ \A v \in Workers : v # w => stage'[v] = "idle"
        /\ stage'[w] = "after" /\ UNCHANGED <<todo, sweep>>
        /\ \A v \in Workers : ~stale'[v]
    BY <1>9, <2>4 DEF Save, OverlapInv, TypeOK, SerialInv, StillDecided
  <2> QED
    BY <2>3, <2>5, <2>6 DEF SerialInv, OneAtATime, StillDecided, SweepIdle
<1>10. ASSUME NEW w \in Workers, FailSave(w)
       PROVE  FALSE
  BY <1>10 DEF FailSave, VersionConflict, SerialInv, StillDecided
<1>11. ASSUME NEW w \in Workers, CallSteps(w)
       PROVE  SerialInv'
  <2>1. stage[w] = "after" /\ Advance(w)
    BY <1>11 DEF CallSteps, RaiseAlert, ResolveAlert, ClearAlerts, RecordEmail, LoseRecord, After
  <2>2. \A v \in Workers : v # w => stage[v] = "idle"
    BY <2>1 DEF SerialInv, OneAtATime
  <2>3. sweep = SweepIdle
    BY <2>1 DEF SerialInv, OneAtATime
  <2>4. /\ \A v \in Workers : v # w => stage'[v] = "idle"
        /\ UNCHANGED <<stale, sweep>>
        /\ stage'[w] \in {"idle", "after"}
        /\ stage'[w] = "after" => todo'[w] = Tail(todo[w]) /\ Len(todo[w]) # 1
    BY <2>1, <2>2 DEF Advance, Done, OverlapInv, TypeOK
  <2>5. stage'[w] = "after" => todo'[w] # <<>> /\ EmailLast(todo'[w])
    BY <2>1, <2>4, AdvanceLeaves
  <2> QED
    BY <2>3, <2>4, <2>5 DEF SerialInv, OneAtATime, StillDecided, SweepIdle
<1> QED
  BY <1>1, <1>2, <1>3, <1>4, <1>5, <1>6, <1>7, <1>8, <1>9, <1>10, <1>11, NextCases

-----------------------------------------------------------------------------
(* One at a time: the steps.                                                *)

Swept == IF sweep.stage = "marked" THEN OverdueAlerts(alerts) ELSE alerts

\* What the refinement sees of the alerts and the emails: those stored, when no request is
\* after its save, and otherwise what that request's calls come to.
View ==
  /\ (\A w \in Workers : stage[w] # "after") => SettledAlerts = Swept /\ EmailsOwed = {}
  /\ \A w \in Workers :
       stage[w] = "after" /\ (\A v \in Workers : v # w => stage[v] # "after")
         => SettledAlerts = Settled(Swept, todo[w]) /\ EmailsOwed = EmailsIn(todo[w])

\* What the mapping shows, by whether a worker still owes calls.
LEMMA ViewNow == View
<1>1. ASSUME \A w \in Workers : stage[w] # "after"
      PROVE  SettledAlerts = Swept /\ EmailsOwed = {}
  <2>1. Owed = {}
    BY <1>1 DEF Owed
  <2> QED
    BY <2>1 DEF SettledAlerts, EmailsOwed, Swept
<1>2. ASSUME NEW w \in Workers, stage[w] = "after",
             \A v \in Workers : v # w => stage[v] # "after"
      PROVE  SettledAlerts = Settled(Swept, todo[w]) /\ EmailsOwed = EmailsIn(todo[w])
  <2>1. Owed = {w}
    BY <1>2 DEF Owed
  <2>2. (CHOOSE v \in Owed : TRUE) = w
    BY <2>1
  <2>3. SettledAlerts = Settled(Swept, todo[w])
    BY <2>1, <2>2 DEF SettledAlerts, Swept
  <2>4. EmailsOwed = EmailsIn(todo[w])
    BY <2>1 DEF EmailsOwed, EmailsIn
  <2> QED
    BY <2>3, <2>4
<1> QED
  BY <1>1, <1>2 DEF View

\* The same after a step.
LEMMA ViewNext == View'
<1>1. View
  BY ViewNow
<1> QED
  BY <1>1, PTL

\* The one-step variables, seen from here.
LEMMA MappedStore ==
  ASSUME NEW p, NEW a, order' # Absent, PhaseAt(order', lapsed') = p, SettledAlerts' = a
  PROVE  OneStep!Store("the_order", p, a)
BY DEF OneStep!Store

\* Where what the mapping shows is unchanged, the one-step lifecycle stutters.
LEMMA MappedStutter ==
  ASSUME order' = Absent <=> order = Absent,
         order # Absent => PhaseAt(order', lapsed') = PhaseAt(order, lapsed),
         SettledAlerts' = SettledAlerts, EmailsOwed' = EmailsOwed
  PROVE  UNCHANGED OneStep!vars
BY DEF OneStep!vars

\* An order that is stored is placed, and held by whom it names.
LEMMA MappedPlaced ==
  ASSUME order \in Order, lapsed \in Nat
  PROVE  /\ OneStep!Placed("the_order")
         /\ order.supplier \in Suppliers => OneStep!Held("the_order")
<1>1. /\ order # Absent /\ PhaseAt(order, lapsed) # Absent
      /\ PhaseAt(order, lapsed).supplier = order.supplier
  BY GuardsPhased, AbsentAssumption
<1> QED
  BY <1>1 DEF OneStep!Placed, OneStep!Held

\* One at a time, a save writes the whole of what was decided.
LEMMA SaveWritesCopy ==
  ASSUME OverlapInv, SerialInv, NEW w \in Workers, Loaded(w)
  PROVE  Merged(w) = write[w]
<1> DEFINE m == Merged(w)
           x == write[w]
<1>1. order \in Order /\ x \in Order /\ m \in Order /\ read[w] = order
  BY SavingFacts DEF SerialInv, StillDecided
<1>2. \E due \in Nat : Decided(order, x, due)
  BY <1>1, SavingFacts
<1>3. /\ \A path \in DOMAIN order \ {"sendBacks"} : m[path] = x[path]
      /\ m.sendBacks = IF order.sendBacks # x.sendBacks
                       THEN IF order.sendBacks < RoundCap THEN order.sendBacks + 1
                            ELSE RoundCap
                       ELSE order.sendBacks
  BY <1>1, MergedFields
<1>4. m.sendBacks = x.sendBacks
  BY <1>2, <1>3 DEF Decided
<1>5. DOMAIN order = Paths
  BY <1>1 DEF Order, Paths
<1>6. \A path \in Paths : m[path] = x[path]
  BY <1>3, <1>4, <1>5
<1>7. Document(m) /\ Document(x)
  BY <1>1, Documents
<1> HIDE DEF m, x
<1>8. m = x
  BY <1>6, <1>7, SamePaths
<1> QED
  BY <1>8 DEF m, x

\* A save is the one-step handler.
LEMMA SaveImplements ==
  ASSUME OverlapInv, SerialInv, NEW w \in Workers, Save(w)
  PROVE  OneStep!Next
<1> DEFINE id == "the_order"
           p  == PhaseAt(order, lapsed)
           x  == write[w]
<1>1. /\ Loaded(w) /\ order' = x /\ stage' = [stage EXCEPT ![w] = "after"]
      /\ UNCHANGED <<alerts, lapsed, todo, sweep>>
  BY SaveWritesCopy DEF Save, Loaded
<1>2. order \in Order /\ order # Absent /\ x \in Order /\ x # Absent
  BY <1>1, SavingFacts, AbsentAssumption
<1>3. PICK due \in Nat : since[w] < due /\ Decision(order, x, todo[w], due)
  BY <1>1 DEF SerialInv, StillDecided
<1>4. lapsed \in Nat /\ lapsed < due
  BY <1>1, <1>3 DEF OverlapInv, TypeOK, WindowsOutlast
<1>5. /\ sweep = SweepIdle /\ Swept = alerts /\ Swept' = alerts
      /\ \A v \in Workers : v # w => stage[v] = "idle"
      /\ stage[w] = "loaded" /\ stage'[w] = "after" /\ todo'[w] = todo[w]
      /\ \A v \in Workers : v # w => stage'[v] = "idle"
  BY <1>1 DEF SerialInv, OneAtATime, Loaded, SweepIdle, Swept, OverlapInv, TypeOK
<1>6. SettledAlerts = alerts /\ EmailsOwed = {}
  BY <1>5, ViewNow DEF View
<1>7. SettledAlerts' = Settled(alerts, todo[w]) /\ EmailsOwed' = EmailsIn(todo[w])
  BY <1>5, ViewNext DEF View
<1>8. alerts \in SUBSET AlertType
  BY DEF OverlapInv, TypeOK
<1>9. ASSUME NEW q, NEW b, NEW e, PhaseAt(x, lapsed) = q, Comes(todo[w], alerts, b, e)
      PROVE  EmailsOwed' = e /\ OneStep!Store(id, q, b)
  BY <1>1, <1>2, <1>7, <1>9, MappedStore DEF Comes
<1>10. OneStep!Placed(id) /\ (order.supplier \in Suppliers => OneStep!Held(id))
  BY <1>2, <1>4, MappedPlaced
<1> HIDE DEF p, x
<1>11. CASE /\ order.supplier \in Suppliers /\ CanAttachInvoice(order)
            /\ x = AttachInvoice(order) /\ todo[w] = UploadSteps(order)
  <2>1. /\ OneStep!CanAttachInvoice(p) /\ PhaseAt(x, lapsed) = OneStep!AttachInvoice(p)
        /\ OneStep!AttachInvoiceAlerts(p, alerts) = AttachInvoiceAlerts(order, alerts)
        /\ p.communicationMethod = order.communicationMethod
    BY <1>2, <1>4, <1>11, GuardsPhased, HandlersPhased DEF p
  <2>2. Comes(todo[w], alerts, OneStep!AttachInvoiceAlerts(p, alerts),
              IF order.communicationMethod = "email" THEN {"upload"} ELSE {})
    BY <1>2, <1>8, <1>11, <2>1, UploadCalls
  <2>3. /\ OneStep!Store(id, OneStep!AttachInvoice(p), OneStep!AttachInvoiceAlerts(p, alerts))
        /\ EmailsOwed' = IF order.communicationMethod = "email" THEN {"upload"} ELSE {}
    BY <1>9, <2>1, <2>2
  <2>4. OneStep!UploadInvoice(id)
    BY <1>2, <1>6, <1>10, <1>11, <2>1, <2>3 DEF OneStep!UploadInvoice, p
  <2> QED
    BY <2>4 DEF OneStep!Next, OneStep!Handled
<1>12. CASE /\ order.supplier \in Suppliers /\ CanFlag(order)
            /\ x = ApplyFlag(order) /\ todo[w] = AnnounceFlag
  <2>1. /\ OneStep!CanFlag(p) /\ PhaseAt(x, lapsed) = OneStep!ApplyFlag(p)
        /\ OneStep!FlagAlerts(alerts) = FlagAlerts(alerts)
    BY <1>2, <1>4, <1>12, GuardsPhased, HandlersPhased
    DEF p, OneStep!FlagAlerts, FlagAlerts
  <2>2. Comes(todo[w], alerts, OneStep!FlagAlerts(alerts), {})
    BY <1>2, <1>8, <1>12, <2>1, FlagCalls
  <2>3. OneStep!Store(id, OneStep!ApplyFlag(p), OneStep!FlagAlerts(alerts)) /\ EmailsOwed' = {}
    BY <1>9, <2>1, <2>2
  <2>4. OneStep!FlagOrder(id)
    BY <1>2, <1>6, <1>10, <1>12, <2>1, <2>3 DEF OneStep!FlagOrder, p
  <2> QED
    BY <2>4 DEF OneStep!Next, OneStep!Handled
<1>13. CASE /\ order.supplier \in Suppliers /\ AwaitsReview(order)
            /\ x = Approve(order, due) /\ todo[w] = <<Raise("bank_approved")>>
  <2>1. /\ OneStep!AwaitsReview(p) /\ PhaseAt(x, lapsed) = OneStep!Approve(p, "running")
        /\ OneStep!ApproveAlerts(alerts) = ApproveAlerts(alerts)
    BY <1>2, <1>4, <1>13, GuardsPhased, HandlersPhased
    DEF p, OneStep!ApproveAlerts, ApproveAlerts
  <2>2. Comes(todo[w], alerts, OneStep!ApproveAlerts(alerts), {})
    BY <1>2, <1>8, <1>13, <2>1, PlainCalls
  <2>3. OneStep!Store(id, OneStep!Approve(p, "running"), OneStep!ApproveAlerts(alerts)) /\ EmailsOwed' = {}
    BY <1>9, <2>1, <2>2
  <2>4. OneStep!ApproveBank(id)
    BY <1>2, <1>6, <1>10, <1>13, <2>1, <2>3 DEF OneStep!ApproveBank, p
  <2> QED
    BY <2>4 DEF OneStep!Next, OneStep!Handled
<1>14. CASE /\ order.supplier \in Suppliers /\ AwaitsReview(order)
            /\ x = RequestChanges(order) /\ todo[w] = RequestChangesSteps(order)
  <2>1. /\ OneStep!AwaitsReview(p) /\ PhaseAt(x, lapsed) = OneStep!RequestChanges(p)
        /\ OneStep!RequestChangesAlerts(p, alerts) = RequestChangesAlerts(order, alerts)
    BY <1>2, <1>4, <1>14, GuardsPhased, HandlersPhased
    DEF p
  <2>2. Comes(todo[w], alerts, OneStep!RequestChangesAlerts(p, alerts), {})
    BY <1>2, <1>8, <1>14, <2>1, ChangesCalls
  <2>3. OneStep!Store(id, OneStep!RequestChanges(p), OneStep!RequestChangesAlerts(p, alerts)) /\ EmailsOwed' = {}
    BY <1>9, <2>1, <2>2
  <2>4. OneStep!RequestBankChanges(id)
    BY <1>2, <1>6, <1>10, <1>14, <2>1, <2>3 DEF OneStep!RequestBankChanges, p
  <2> QED
    BY <2>4 DEF OneStep!Next, OneStep!Handled
<1>15. CASE /\ CanResubmit(order)
            /\ x = Resubmit(order, due) /\ todo[w] = <<Resolve("bank_changes_requested")>>
  <2>1. /\ OneStep!CanResubmit(p) /\ PhaseAt(x, lapsed) = OneStep!Resubmit(p, "running")
        /\ OneStep!ResubmitAlerts(alerts) = ResubmitAlerts(alerts)
    BY <1>2, <1>4, <1>15, GuardsPhased, HandlersPhased
    DEF p, OneStep!ResubmitAlerts, ResubmitAlerts
  <2>2. Comes(todo[w], alerts, OneStep!ResubmitAlerts(alerts), {})
    BY <1>2, <1>8, <1>15, <2>1, PlainCalls
  <2>3. OneStep!Store(id, OneStep!Resubmit(p, "running"), OneStep!ResubmitAlerts(alerts)) /\ EmailsOwed' = {}
    BY <1>9, <2>1, <2>2
  <2>4. OneStep!ResubmitBank(id)
    BY <1>2, <1>6, <1>10, <1>15, <2>1, <2>3 DEF OneStep!ResubmitBank, p
  <2> QED
    BY <2>4 DEF OneStep!Next, OneStep!Handled
<1>16. CASE /\ CanMarkSent(order)
            /\ x = MarkSent(order) /\ todo[w] = <<Resolve("whatsapp_send_required")>>
  <2>1. /\ OneStep!CanMarkSent(p) /\ PhaseAt(x, lapsed) = OneStep!MarkSent(p)
        /\ OneStep!MarkSentAlerts(alerts) = MarkSentAlerts(alerts)
    BY <1>2, <1>4, <1>16, GuardsPhased, HandlersPhased
    DEF p, OneStep!MarkSentAlerts, MarkSentAlerts
  <2>2. Comes(todo[w], alerts, OneStep!MarkSentAlerts(alerts), {})
    BY <1>2, <1>8, <1>16, <2>1, PlainCalls
  <2>3. OneStep!Store(id, OneStep!MarkSent(p), OneStep!MarkSentAlerts(alerts)) /\ EmailsOwed' = {}
    BY <1>9, <2>1, <2>2
  <2>4. OneStep!SendWhatsapp(id)
    BY <1>2, <1>6, <1>10, <1>16, <2>1, <2>3 DEF OneStep!SendWhatsapp, p
  <2> QED
    BY <2>4 DEF OneStep!Next, OneStep!Handled
<1>17. CASE \E target \in Suppliers :
               /\ CanReassign(order, target) /\ x = Reassign(order, target, due)
               /\ todo[w] = <<Resolve("supplier_overdue"), Resolve("unassigned")>>
  <2>1. PICK target \in Suppliers :
          /\ CanReassign(order, target) /\ x = Reassign(order, target, due)
          /\ todo[w] = <<Resolve("supplier_overdue"), Resolve("unassigned")>>
    BY <1>17
  <2>2. /\ OneStep!CanReassign(p, target)
        /\ PhaseAt(x, lapsed) = OneStep!Reassign(p, target, "running")
        /\ OneStep!ReassignAlerts(alerts) = ReassignAlerts(alerts)
    BY <1>2, <1>4, <2>1, GuardsPhased, HandlersPhased
    DEF p, OneStep!ReassignAlerts, ReassignAlerts
  <2>3. Comes(todo[w], alerts, OneStep!ReassignAlerts(alerts), {})
    BY <1>2, <1>8, <2>1, <2>2, PlainCalls
  <2>4. /\ OneStep!Store(id, OneStep!Reassign(p, target, "running"),
                        OneStep!ReassignAlerts(alerts))
        /\ EmailsOwed' = {}
    BY <1>9, <2>2, <2>3
  <2>5. OneStep!ReassignOrder(id)
    BY <1>2, <1>6, <1>10, <2>2, <2>4 DEF OneStep!ReassignOrder, p
  <2> QED
    BY <2>5 DEF OneStep!Next, OneStep!Handled
<1>18. CASE /\ CanAnswerFlag(order)
            /\ x = SendBack(order, due) /\ todo[w] = SendBackSteps(order)
  <2>1. /\ OneStep!CanAnswerFlag(p) /\ PhaseAt(x, lapsed) = OneStep!SendBack(p, "running")
        /\ OneStep!SendBackAlerts(p, alerts) = SendBackAlerts(order, alerts)
    BY <1>2, <1>4, <1>18, GuardsPhased, HandlersPhased
    DEF p
  <2>2. Comes(todo[w], alerts, OneStep!SendBackAlerts(p, alerts), {})
    BY <1>2, <1>8, <1>18, <2>1, SendBackCalls
  <2>3. OneStep!Store(id, OneStep!SendBack(p, "running"), OneStep!SendBackAlerts(p, alerts)) /\ EmailsOwed' = {}
    BY <1>9, <2>1, <2>2
  <2>4. OneStep!SendOrderBack(id)
    BY <1>2, <1>6, <1>10, <1>18, <2>1, <2>3 DEF OneStep!SendOrderBack, p
  <2> QED
    BY <2>4 DEF OneStep!Next, OneStep!Handled
<1>19. CASE /\ CanAnswerFlag(order)
            /\ x = Complete(order) /\ todo[w] = <<ClearAll>>
  <2>1. /\ OneStep!CanAnswerFlag(p) /\ PhaseAt(x, lapsed) = OneStep!Complete(p)
    BY <1>2, <1>4, <1>19, GuardsPhased, HandlersPhased
    DEF p
  <2>2. Comes(todo[w], alerts, {}, {})
    BY <1>2, <1>8, <1>19, <2>1, PlainCalls
  <2>3. OneStep!Store(id, OneStep!Complete(p), {}) /\ EmailsOwed' = {}
    BY <1>9, <2>1, <2>2
  <2>4. OneStep!CompleteOrder(id)
    BY <1>2, <1>6, <1>10, <1>19, <2>1, <2>3 DEF OneStep!CompleteOrder, p
  <2> QED
    BY <2>4 DEF OneStep!Next, OneStep!Handled
<1>20. CASE /\ CanAnswerFlag(order)
            /\ x = Cancel(order) /\ todo[w] = <<ClearAll>>
  <2>1. /\ OneStep!CanAnswerFlag(p) /\ PhaseAt(x, lapsed) = OneStep!Cancel(p)
    BY <1>2, <1>4, <1>20, GuardsPhased, HandlersPhased
    DEF p
  <2>2. Comes(todo[w], alerts, {}, {})
    BY <1>2, <1>8, <1>20, <2>1, PlainCalls
  <2>3. OneStep!Store(id, OneStep!Cancel(p), {}) /\ EmailsOwed' = {}
    BY <1>9, <2>1, <2>2
  <2>4. OneStep!CancelOrder(id)
    BY <1>2, <1>6, <1>10, <1>20, <2>1, <2>3 DEF OneStep!CancelOrder, p
  <2> QED
    BY <2>4 DEF OneStep!Next, OneStep!Handled
<1>21. CASE /\ CanMarkV62Printed(order)
            /\ x = MarkV62Printed(order) /\ todo[w] = <<Resolve("v62_submitted")>>
  <2>1. /\ OneStep!CanMarkV62Printed(p) /\ PhaseAt(x, lapsed) = OneStep!MarkV62Printed(p)
        /\ OneStep!MarkV62PrintedAlerts(alerts) = MarkV62PrintedAlerts(alerts)
    BY <1>2, <1>4, <1>21, GuardsPhased, HandlersPhased
    DEF p, OneStep!MarkV62PrintedAlerts, MarkV62PrintedAlerts
  <2>2. Comes(todo[w], alerts, OneStep!MarkV62PrintedAlerts(alerts), {})
    BY <1>2, <1>8, <1>21, <2>1, PlainCalls
  <2>3. OneStep!Store(id, OneStep!MarkV62Printed(p), OneStep!MarkV62PrintedAlerts(alerts)) /\ EmailsOwed' = {}
    BY <1>9, <2>1, <2>2
  <2>4. OneStep!PrintV62(id)
    BY <1>2, <1>6, <1>10, <1>21, <2>1, <2>3 DEF OneStep!PrintV62, p
  <2> QED
    BY <2>4 DEF OneStep!Next, OneStep!Handled
<1> QED
  BY <1>3, <1>11, <1>12, <1>13, <1>14, <1>15, <1>16, <1>17, <1>18, <1>19, <1>20, <1>21
  DEF Decision

\* Placing the order is PlaceOrder.
LEMMA PlaceImplements ==
  ASSUME ~Overlap, OverlapInv, NEW w \in Workers, PlaceOrder(w)
  PROVE  OneStep!Next
<1> DEFINE id == "the_order"
<1>1. /\ order = Absent /\ issued = 0 /\ lapsed = 0 /\ alerts = {} /\ sweep = SweepIdle
      /\ \A v \in Workers : stage[v] = "idle"
  BY DEF PlaceOrder, Exists, OverlapInv, NothingYet
<1>2. PICK h \in Holder, p \in Purchases :
        LET o == NewOrder(h, p.channel, p.review, p.v62, FreshDue)
        IN  /\ order' = o
            /\ todo' = [todo EXCEPT ![w] = PlacedSteps(o)]
            /\ stage' = [stage EXCEPT ![w] = IF PlacedSteps(o) = <<>> THEN "idle" ELSE "after"]
  BY DEF PlaceOrder
<1> DEFINE o == NewOrder(h, p.channel, p.review, p.v62, FreshDue)
           q == OneStep!NewOrder(h, p.channel, p.review, p.v62, "running")
<1>3. FreshDue = 1 /\ FreshDue \in Deadlines
  BY <1>1, WindowAssumption DEF FreshDue
<1>4. o \in Order /\ o # Absent
  BY <1>3, NewOrderSound, AbsentAssumption
<1>5. /\ lapsed' = 0 /\ alerts' = {} /\ sweep' = SweepIdle
      /\ order' = o /\ todo'[w] = PlacedSteps(o)
      /\ stage'[w] = IF PlacedSteps(o) = <<>> THEN "idle" ELSE "after"
      /\ \A v \in Workers : v # w => stage'[v] = "idle"
  BY <1>1, <1>2 DEF PlaceOrder, OverlapInv, TypeOK
<1>6. Swept = {} /\ Swept' = {}
  BY <1>1, <1>5 DEF Swept, SweepIdle
<1>7. SettledAlerts = {} /\ EmailsOwed = {}
  BY <1>1, <1>6, ViewNow DEF View
<1>8. Comes(PlacedSteps(o), {}, PlacedAlerts(o), {})
  BY <1>4, PlacedCalls
<1>9. SettledAlerts' = PlacedAlerts(o) /\ EmailsOwed' = {}
  <2>1. CASE PlacedSteps(o) = <<>>
    <3>1. PlacedAlerts(o) = {}
      BY <1>8, <2>1, SettledNone DEF Comes
    <3>2. \A v \in Workers : stage'[v] # "after"
      BY <1>5, <2>1
    <3> QED
      BY <1>6, <3>1, <3>2, ViewNext DEF View
  <2>2. CASE PlacedSteps(o) # <<>>
    <3>1. stage'[w] = "after" /\ \A v \in Workers : v # w => stage'[v] # "after"
      BY <1>5, <2>2
    <3>2. SettledAlerts' = Settled({}, PlacedSteps(o)) /\ EmailsOwed' = EmailsIn(PlacedSteps(o))
      BY <1>5, <1>6, <3>1, ViewNext DEF View
    <3> QED
      BY <1>8, <3>2 DEF Comes
  <2> QED
    BY <2>1, <2>2
<1>10. PhaseAt(o, 0) = q /\ OneStep!PlacedAlerts(q) = PlacedAlerts(o)
  <2>1. PhaseAt(o, 0) = q
    <3> DEFINE a == PhaseAt(o, 0)
    <3>1. Document(a)
      BY <1>4, Documents, PhaseIsDocument
    <3>2. Document(q)
      BY DEF Document, Paths, OneStep!NewOrder
    <3>3. a.dueAt = q.dueAt
      <4>1. a.dueAt = IF o.dueAt = NoDeadline THEN "no_window"
                      ELSE IF o.dueAt <= 0 THEN "lapsed" ELSE "running"
        BY <1>4 DEF PhaseAt, Order
      <4>2. o.dueAt = IF h = Nobody THEN NoDeadline ELSE 1
        BY <1>3 DEF NewOrder
      <4>3. q.dueAt = IF h = Nobody THEN "no_window" ELSE "running"
        BY DEF OneStep!NewOrder
      <4> QED
        BY <4>1, <4>2, <4>3, WindowAssumption, SMT
    <3>4. \A path \in Paths \ {"dueAt"} : a[path] = q[path]
      <4>1. \A path \in Paths \ {"dueAt"} : a[path] = o[path]
        BY <1>4 DEF PhaseAt, Order, Paths
      <4>2. \A path \in Paths \ {"dueAt"} : o[path] = q[path]
        <5>1. /\ o.supplier = q.supplier /\ o.reassignedFrom = q.reassignedFrom
              /\ o.status = q.status /\ o.invoiceStatus = q.invoiceStatus
              /\ o.invoice = q.invoice /\ o.invoiceEmail = q.invoiceEmail
              /\ o.communicationMethod = q.communicationMethod /\ o.v62 = q.v62
              /\ o.bankReview = q.bankReview /\ o.fieldsFlagged = q.fieldsFlagged
              /\ o.sendBacks = q.sendBacks /\ o.flag = q.flag
          BY DEF NewOrder, OneStep!NewOrder
        <5> HIDE DEF o, q
        <5> QED
          BY <5>1 DEF Paths
      <4> QED
        BY <4>1, <4>2
    <3>5. a = q
      <4> HIDE DEF a, q
      <4> QED
        BY <3>1, <3>2, <3>3, <3>4, SamePaths
    <3> QED
      BY <3>5
  <2>2. OneStep!PlacedAlerts(q) = PlacedAlerts(o)
    BY DEF OneStep!PlacedAlerts, PlacedAlerts, NewOrder, OneStep!NewOrder
  <2> QED
    BY <2>1, <2>2
<1>11. OneStep!Store(id, q, OneStep!PlacedAlerts(q))
  <2> HIDE DEF o, q
  <2> QED
    BY <1>4, <1>5, <1>9, <1>10, MappedStore
<1>12. /\ h \in Holder /\ p.channel \in OneStep!CommunicationMethod
       /\ p.review \in {"none", "submitted"} /\ p.v62 \in {"none", "requested"}
  BY PurchasesAssumption DEF OneStep!CommunicationMethod, CommunicationMethod
<1>13. OneStep!PlaceOrder(id)
  <2>1. ~OneStep!Placed(id)
    BY <1>1 DEF OneStep!Placed
  <2>2. h \in OneStep!Holder
    BY DEF Holder, OneStep!Holder
  <2>3. UNCHANGED [i \in {id} |-> EmailsOwed]
    BY <1>7, <1>9
  <2> QED
    BY <1>11, <1>12, <2>1, <2>2, <2>3 DEF OneStep!PlaceOrder
<1> QED
  BY <1>13 DEF OneStep!Next, OneStep!Handled

\* Resending is ResendInvoice.
LEMMA ResendImplements ==
  ASSUME ~Overlap, OverlapInv, NEW w \in Workers, ResendInvoice(w)
  PROVE  OneStep!Next
<1> DEFINE id == "the_order"
           p  == PhaseAt(order, lapsed)
<1>1. /\ Quiet /\ order # Absent /\ CanResendInvoiceEmail(order)
      /\ stage' = [stage EXCEPT ![w] = "after"]
      /\ todo'  = [todo EXCEPT ![w] = <<Email("resend")>>]
      /\ UNCHANGED <<order, alerts, lapsed, sweep>>
  BY DEF ResendInvoice, MayStart, Exists
<1>2. order \in Order /\ lapsed \in Nat /\ alerts \in SUBSET AlertType
  BY <1>1 DEF OverlapInv, TypeOK
<1>3. /\ \A v \in Workers : stage[v] = "idle"
      /\ stage'[w] = "after" /\ todo'[w] = <<Email("resend")>>
      /\ \A v \in Workers : v # w => stage'[v] = "idle"
      /\ Swept = alerts /\ Swept' = alerts
  BY <1>1 DEF Quiet, Swept, SweepIdle, OverlapInv, TypeOK
<1>4. SettledAlerts = alerts /\ EmailsOwed = {}
  BY <1>3, ViewNow DEF View
<1>5. /\ SettledAlerts' = Settled(alerts, <<Email("resend")>>)
      /\ EmailsOwed' = EmailsIn(<<Email("resend")>>)
  BY <1>3, ViewNext DEF View
<1>6. SettledAlerts' = alerts /\ EmailsOwed' = {"resend"}
  BY <1>2, <1>5, ComesEmail DEF Comes
<1>7. OneStep!Placed(id) /\ OneStep!CanResendInvoiceEmail(p)
  BY <1>1, <1>2, MappedPlaced, GuardsPhased
<1>8. OneStep!ResendInvoice(id)
  <2> HIDE DEF p
  <2> QED
    BY <1>1, <1>2, <1>4, <1>6, <1>7 DEF OneStep!ResendInvoice, p
<1> QED
  BY <1>8 DEF OneStep!Next, OneStep!Handled

\* The calls after a save are seen made already, but for an email: its outcome is
\* RecordEmail, or the loss of it.
LEMMA CallImplements ==
  ASSUME OverlapInv, SerialInv, NEW w \in Workers, CallSteps(w)
  PROVE  OneStep!Next \/ UNCHANGED OneStep!vars
<1> DEFINE id   == "the_order"
           call == Head(todo[w])
           rest == Tail(todo[w])
<1>1. stage[w] = "after" /\ Advance(w) /\ UNCHANGED <<lapsed, sweep>>
  BY DEF CallSteps, RaiseAlert, ResolveAlert, ClearAlerts, RecordEmail, LoseRecord, After, Advance
<1>2. /\ call \in Call /\ rest \in Seq(Call) /\ todo[w] = <<call>> \o rest
      /\ Len(todo[w]) = 1 <=> rest = <<>>
      /\ call.do = "email" => rest = <<>>
  BY <1>1, AdvanceLeaves
<1>3. /\ order # Absent /\ order \in Order /\ lapsed \in Nat /\ alerts \in SUBSET AlertType
  BY <1>1 DEF OverlapInv, TypeOK, NothingYet
<1>4. /\ \A v \in Workers : v # w => stage[v] = "idle"
      /\ Swept = alerts /\ Swept' = alerts'
  BY <1>1 DEF SerialInv, OneAtATime, Swept, SweepIdle
<1>5. /\ \A v \in Workers : v # w => stage'[v] = "idle"
      /\ rest = <<>> => stage'[w] = "idle"
      /\ rest # <<>> => stage'[w] = "after" /\ todo'[w] = rest
  BY <1>1, <1>2, <1>4 DEF Advance, Done, OverlapInv, TypeOK
<1>6. SettledAlerts = Settled(CallTo(call, alerts), rest) /\ EmailsOwed = EmailsIn(todo[w])
  BY <1>1, <1>2, <1>3, <1>4, SettledFirst, ViewNow DEF View
<1>7. alerts' \in SUBSET AlertType => SettledAlerts' = Settled(alerts', rest)
  <2>1. CASE rest = <<>>
    BY <1>4, <1>5, <2>1, SettledNone, ViewNext DEF View
  <2>2. CASE rest # <<>>
    BY <1>4, <1>5, <2>2, ViewNext DEF View
  <2> QED
    BY <2>1, <2>2
<1>8. EmailsOwed' = EmailsIn(rest)
  <2>1. CASE rest = <<>>
    BY <1>5, <2>1, SettledNone, ViewNext DEF View
  <2>2. CASE rest # <<>>
    BY <1>5, <2>2, ViewNext DEF View
  <2> QED
    BY <2>1, <2>2
<1>9. alerts' = CallTo(call, alerts)
  BY DEF CallSteps, RaiseAlert, ResolveAlert, ClearAlerts, RecordEmail, LoseRecord, After, CallTo
<1>10. alerts' \in SUBSET AlertType
  BY <1>1, CallStep DEF OverlapInv, TypeOK
<1>11. SettledAlerts' = SettledAlerts
  BY <1>6, <1>7, <1>9, <1>10
<1>12. call.do = "email" =>
         call.of \in {"upload", "resend"} /\ EmailsOwed = {call.of} /\ EmailsOwed' = {}
  <2> SUFFICES ASSUME call.do = "email"
               PROVE  /\ call.of \in {"upload", "resend"}
                      /\ EmailsOwed = {call.of} /\ EmailsOwed' = {}
    OBVIOUS
  <2>1. EmailsIn(todo[w]) = EmailsIn(rest) \union {call.of}
    BY <1>2, EmailsFirst
  <2>2. EmailsIn(rest) = {}
    BY <1>2, SettledNone
  <2>3. call.of \in {"upload", "resend"}
    BY <1>2 DEF Call, ClearAll, Email
  <2> QED
    BY <1>6, <1>8, <2>1, <2>2, <2>3
<1>13. CASE RecordEmail(w)
  <2>1. /\ call.do = "email" /\ rest = <<>>
        /\ \E outcome \in {"sent", "failed"} :
             order' = [order EXCEPT !.invoiceEmail = outcome]
    BY <1>2, <1>13 DEF RecordEmail, After
  <2>2. PICK outcome \in {"sent", "failed"} : order' = [order EXCEPT !.invoiceEmail = outcome]
    BY <2>1
  <2>3. call.of \in {"upload", "resend"} /\ EmailsOwed = {call.of} /\ EmailsOwed' = {}
    BY <2>1, <1>12
  <2>4. /\ order' # Absent
        /\ PhaseAt(order', lapsed') = [PhaseAt(order, lapsed) EXCEPT !.invoiceEmail = outcome]
    <3>1. order' \in Order
      BY <1>3, <2>2 DEF Order
    <3>2. PhaseAt(order', lapsed) = [PhaseAt(order, lapsed) EXCEPT !.invoiceEmail = outcome]
      <4> DEFINE a == PhaseAt(order', lapsed)
                 p == PhaseAt(order, lapsed)
                 b == [p EXCEPT !.invoiceEmail = outcome]
      <4>1. Document(p) /\ Document(a)
        BY <1>3, <3>1, Documents, PhaseIsDocument
      <4>2. Document(b)
        BY <4>1, Documents DEF Paths
      <4>3. \A path \in Paths : a[path] = b[path]
        BY <1>3, <2>2 DEF PhaseAt, Order, Paths
      <4> HIDE DEF a, b
      <4>4. a = b
        BY <4>1, <4>2, <4>3, SamePaths
      <4> QED
        BY <4>4 DEF a, b
    <3> QED
      BY <1>1, <3>1, <3>2, AbsentAssumption
  <2>5. OneStep!RecordEmail(id)
    BY <1>3, <1>11, <2>3, <2>4 DEF OneStep!RecordEmail
  <2> QED
    BY <2>5 DEF OneStep!Next, OneStep!Handled
<1>14. CASE LoseRecord(w)
  <2>1. call.do = "email" /\ order' = order
    BY <1>14 DEF LoseRecord, After
  <2>2. call.of \in {"upload", "resend"} /\ EmailsOwed = {call.of} /\ EmailsOwed' = {}
    BY <2>1, <1>12
  <2>3. OneStep!LoseRecord(id)
    BY <1>1, <1>11, <2>1, <2>2 DEF OneStep!LoseRecord
  <2> QED
    BY <2>3 DEF OneStep!Next
<1>15. CASE RaiseAlert(w) \/ ResolveAlert(w) \/ ClearAlerts(w)
  <2>1. call.do # "email" /\ order' = order
    BY <1>15 DEF RaiseAlert, ResolveAlert, ClearAlerts, After
  <2>2. EmailsIn(todo[w]) = EmailsIn(rest) \union {}
    BY <1>2, <2>1, EmailsFirst
  <2>3. EmailsOwed' = EmailsOwed
    BY <1>6, <1>8, <2>2
  <2> QED
    BY <1>1, <1>11, <2>1, <2>3, MappedStutter
<1> QED
  BY <1>13, <1>14, <1>15 DEF CallSteps

\* A window lapsing is the order's, or one it no longer runs.
LEMMA LapseImplements ==
  ASSUME OverlapInv, WindowLapses
  PROVE  OneStep!Next \/ UNCHANGED OneStep!vars
<1> DEFINE id == "the_order"
           p  == PhaseAt(order, lapsed)
           q  == PhaseAt(order, lapsed + 1)
<1>1. lapsed \in Nat /\ lapsed < issued /\ lapsed' = lapsed + 1
  BY DEF WindowLapses, OverlapInv, TypeOK
<1>2. order # Absent /\ order \in Order
  BY <1>1 DEF OverlapInv, NothingYet, TypeOK
<1>3. UNCHANGED <<order, alerts, stage, todo, sweep>>
  BY DEF WindowLapses, requestVars
<1>4. SettledAlerts' = SettledAlerts /\ EmailsOwed' = EmailsOwed
  BY <1>3 DEF SettledAlerts, EmailsOwed, Owed
<1>5. Document(order) /\ Document(p) /\ Document(q) /\ order.dueAt \in Nat
  BY <1>2, WindowAssumption, Documents, PhaseIsDocument DEF Order
<1>6. CASE order.dueAt = lapsed + 1
  <2> DEFINE b == [p EXCEPT !.dueAt = "lapsed"]
  <2>1. Document(b)
    BY <1>5, Documents DEF Paths
  <2>2. p.dueAt = "running" /\ \A path \in Paths : q[path] = b[path]
    BY <1>1, <1>2, <1>6, WindowAssumption DEF PhaseAt, Order, Paths
  <2> HIDE DEF p, q, b
  <2>3. q = b
    BY <1>5, <2>1, <2>2, SamePaths
  <2>4. OneStep!Placed(id)
    BY <1>1, <1>2, MappedPlaced
  <2>5. OneStep!WindowLapses(id)
    BY <1>1, <1>2, <1>3, <1>4, <2>2, <2>3, <2>4 DEF OneStep!WindowLapses, p, q, b
  <2> QED
    BY <2>5 DEF OneStep!Next, OneStep!Handled
<1>7. CASE order.dueAt # lapsed + 1
  <2>1. \A path \in Paths : q[path] = p[path]
    BY <1>1, <1>2, <1>5, <1>7 DEF PhaseAt, Order, Paths
  <2> HIDE DEF p, q
  <2>2. q = p
    BY <1>5, <2>1, SamePaths
  <2> QED
    BY <1>1, <1>2, <1>3, <1>4, <2>2, MappedStutter DEF p, q
<1> QED
  BY <1>6, <1>7

\* The sweep takes effect when it marks.
LEMMA SweepImplements ==
  ASSUME OverlapInv, SerialInv, ~Overlap, SweepFind \/ SweepMark \/ SweepAnnounce
  PROVE  OneStep!Next \/ UNCHANGED OneStep!vars
<1> DEFINE id == "the_order"
           p  == PhaseAt(order, lapsed)
<1>1. /\ UNCHANGED <<lapsed, stage, todo>> /\ order # Absent /\ order \in Order
      /\ \A w \in Workers : stage[w] = "idle"
  BY DEF SweepFind, SweepMark, SweepAnnounce, requestVars, Exists, OverlapInv, NothingYet,
         SweepIdle, TypeOK, SerialInv, OneAtATime, Quiet
<1>2. /\ SettledAlerts = Swept /\ SettledAlerts' = Swept'
      /\ EmailsOwed = {} /\ EmailsOwed' = {}
  BY <1>1, ViewNow, ViewNext DEF View
<1>3. CASE SweepFind
  <2>1. Swept = alerts /\ Swept' = alerts /\ order' = order
    BY <1>3 DEF SweepFind, Swept, SweepIdle
  <2> QED
    BY <1>1, <1>2, <2>1, MappedStutter
<1>4. CASE SweepAnnounce
  <2>1. Swept = OverdueAlerts(alerts) /\ Swept' = OverdueAlerts(alerts) /\ order' = order
    BY <1>4 DEF SweepAnnounce, Swept, SweepIdle
  <2> QED
    BY <1>1, <1>2, <2>1, MappedStutter
<1>5. CASE SweepMark
  <2>1. /\ sweep.stage = "found" /\ sweep'.stage = "marked"
        /\ alerts' = alerts /\ order' = MarkOverdue(order)
    BY <1>5 DEF SweepMark, OverlapInv, TypeOK
  <2>2. Swept = alerts /\ Swept' = OverdueAlerts(alerts)
    BY <2>1 DEF Swept
  <2>3. SweepMatches(order) /\ order.dueAt <= lapsed /\ lapsed \in Nat
    BY <2>1 DEF SerialInv, OverlapInv, TypeOK
  <2>4. PhaseAt(MarkOverdue(order), lapsed) = OneStep!MarkOverdue(p)
    <3>1. lapsed < lapsed + 1 /\ lapsed + 1 \in Nat
      BY <2>3
    <3> QED
      BY <1>1, <2>3, <3>1, HandlersPhased
  <2>5. p.dueAt = "lapsed" /\ OneStep!SweepMatches(p)
    BY <1>1, <2>3 DEF PhaseAt, Order, SweepMatches, OneStep!SweepMatches
  <2>6. MarkOverdue(order) # Absent
    BY <1>1, AbsentAssumption DEF MarkOverdue, Order, OrderStatus
  <2>7. OneStep!Due(id)
    <3>1. OneStep!Placed(id)
      BY <1>1, <2>3, MappedPlaced
    <3> QED
      BY <1>1, <2>5, <3>1 DEF OneStep!Due
  <2>8. OneStep!OverdueAlerts(alerts) = OverdueAlerts(alerts)
    BY DEF OneStep!OverdueAlerts, OverdueAlerts
  <2> HIDE DEF p
  <2>9. OneStep!SweepOverdue
    BY <1>1, <1>2, <2>1, <2>2, <2>4, <2>6, <2>7, <2>8 DEF OneStep!SweepOverdue, p
  <2> QED
    BY <2>9 DEF OneStep!Next, OneStep!Handled
<1> QED
  BY <1>3, <1>4, <1>5

\* A load is not seen.
LEMMA LoadImplements ==
  ASSUME ~Overlap, NEW w \in Workers, Loads(w), OverlapInv
  PROVE  UNCHANGED OneStep!vars
<1>1. /\ UNCHANGED <<order, alerts, lapsed, sweep>> /\ Quiet
      /\ \E x, steps : Load(w, x, steps)
  BY LoadDecides DEF Load, MayStart
<1>2. \A v \in Workers : stage[v] # "after" /\ stage'[v] # "after"
  BY <1>1 DEF Load, Quiet, OverlapInv, TypeOK
<1>3. Swept' = Swept
  BY <1>1 DEF Swept
<1>4. SettledAlerts' = SettledAlerts /\ EmailsOwed' = EmailsOwed
  BY <1>2, <1>3, ViewNow, ViewNext DEF View
<1> QED
  BY <1>1, <1>4, MappedStutter

\* Every step is one of the one-step lifecycle, or a stutter of it.
LEMMA StepImplements ==
  ASSUME ~Overlap, OverlapInv, SerialInv, [Next]_vars
  PROVE  [OneStep!Next]_OneStep!vars
<1>1. CASE UNCHANGED vars
  <2>1. UNCHANGED <<order, alerts, lapsed, stage, todo, sweep>>
    BY <1>1 DEF vars
  <2>2. SettledAlerts' = SettledAlerts /\ EmailsOwed' = EmailsOwed
    BY <2>1 DEF SettledAlerts, EmailsOwed, Owed
  <2> QED
    BY <2>1, <2>2, MappedStutter
<1>2. \A w \in Workers : ~FailSave(w)
  BY DEF FailSave, VersionConflict, SerialInv, StillDecided
<1> QED
  BY <1>1, <1>2, NextCases, LapseImplements, SweepImplements, PlaceImplements,
     LoadImplements, ResendImplements, SaveImplements, CallImplements

\* The initial state is its initial state.
LEMMA InitImplements == Init => OneStep!Init
<1> SUFFICES ASSUME Init
             PROVE  OneStep!Init
  OBVIOUS
<1>1. order = Absent /\ Swept = {} /\ \A w \in Workers : stage[w] # "after"
  BY DEF Init, Swept, SweepIdle
<1>2. SettledAlerts = {} /\ EmailsOwed = {}
  BY <1>1, ViewNow DEF View
<1> QED
  BY <1>1, <1>2 DEF OneStep!Init

\* One at a time, nothing overlaps: what was loaded is what is saved over.
THEOREM SerialInvHolds ==
  ASSUME ~Overlap
  PROVE  Spec => []SerialInv
<1>1. Init => SerialInv
  BY InitSerial
<1>2. OverlapInv /\ SerialInv /\ [Next]_vars => SerialInv'
  BY NextSerial
<1> QED
  BY <1>1, <1>2, OverlapInvHolds, PTL DEF Spec

\* Requests run one at a time, whatever their number, each in its separate awaited steps,
\* do to an order, its alerts and its emails what OrderLifecycle does in one.
THEOREM RequestsImplementLifecycle ==
  ASSUME ~Overlap
  PROVE  Spec => ImplementsLifecycle
<1>1. Init => OneStep!Init
  BY InitImplements
<1>2. OverlapInv /\ SerialInv /\ [Next]_vars => [OneStep!Next]_OneStep!vars
  BY StepImplements
<1> QED
  BY <1>1, <1>2, OverlapInvHolds, SerialInvHolds, PTL
  DEF Spec, ImplementsLifecycle, OneStep!Spec
=============================================================================
